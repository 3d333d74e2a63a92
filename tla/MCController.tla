---------------------------- MODULE MCController ----------------------------
(* Small instances of the Controller's job runner.                           *)
EXTENDS ControllerService, TLC
CONSTANTS j1, j2, j3

Wants(kind, target) == [kind |-> kind, target |-> target]
OneConversation == [j \in Jobs |-> "c"]
TurnIntents == [j \in Jobs |-> {Wants("turn", "on")}]
CarIntents == [j \in Jobs |->
    CASE j = j1 -> {Wants("turn", "on"), Wants("unavailable", "on")}
      [] j = j2 -> {Wants("request", "on"), Wants("new", "on")}
      [] OTHER -> {Wants("confirm", "on"), Wants("confirm", "off"), Wants("direct", "on")}]
Ending(status, retry, shown) == [status |-> status, retry |-> retry, shown |-> shown]
AllEndings == {Ending("completed", "row", FALSE), Ending("interrupted", "row", FALSE),
               Ending("failed", "row", FALSE), Ending("failed", "yes", TRUE)}
OneEnding == {Ending("completed", "row", FALSE)}
=============================================================================
