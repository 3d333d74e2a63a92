----------------------------- MODULE PrepareCar -----------------------------
(* Two-step confirmation of the car's preparation: the table                  *)
(* aito_prepare_car_confirmations (codex_controller/store.py) and the fixed   *)
(* sequence of tool_proxy.py that executes a confirmation.  A confirmation    *)
(* is known by the message, so the job, that asked for it.                    *)
(*                                                                            *)
(* Abstractions.  The two minutes of a confirmation are whether they are      *)
(* over.  Home Assistant reports the switch or fails; a POST may fail before  *)
(* or after it took effect.                                                   *)
EXTENDS ControllerJobs

CONSTANTS Conversation,   \* the conversation_key of each message
          Callers,        \* threads that call tools, the scheduler among them
          NoJob

ASSUME ConversationAssumption == DOMAIN Conversation = Jobs /\ NoJob \notin Jobs
ASSUME CallersAssumption == "scheduler" \in Callers

VARIABLES
    confirmation,   \* table aito_prepare_car_confirmations
    exec,           \* a caller's aito_prepare_car_execute in progress
    commands        \* how often the car was commanded for a confirmation

carVars == <<confirmation, exec, commands>>

Targets == {"on", "off"}
NoConfirmation == [state |-> "none"]
NotExecuting == [at |-> "none"]

CarInit == /\ confirmation = [j \in Jobs |-> NoConfirmation]
           /\ exec = [c \in Callers |-> NotExecuting]
           /\ commands = [j \in Jobs |-> 0]

Pending(j) == {r \in Jobs : /\ confirmation[r].state = "pending"
                            /\ Conversation[r] = Conversation[j]}
ExecutedBy(j) == {r \in Jobs : confirmation[r] # NoConfirmation /\ confirmation[r].by = j}

Settled(r, state) == [confirmation EXCEPT ![r].state = state]
Ended(set, state) == [r \in Jobs |-> IF r \in set
                                     THEN [confirmation[r] EXCEPT !.state = state]
                                     ELSE confirmation[r]]

(* Message j may not ask: it was used to ask for the other target or to       *)
(* confirm (prepare_car_idempotency_conflict).                                *)
AskConflict(j, target) ==
    IF confirmation[j] # NoConfirmation THEN confirmation[j].target # target
                                        ELSE ExecutedBy(j) # {}

(* prepare_car_request: one pending confirmation per conversation.            *)
PrepareCarRequest(j, target) ==
    /\ ~ AskConflict(j, target)
    /\ confirmation' =
         IF confirmation[j] # NoConfirmation THEN confirmation
         ELSE [Ended(Pending(j), "cancelled") EXCEPT
                 ![j] = [state |-> "pending", target |-> target, over |-> FALSE,
                         by |-> NoJob]]
    /\ UNCHANGED <<exec, commands>>

(* cancel_prepare_car_pending                                                 *)
AfterOtherMessage(j) == Ended(Pending(j) \ {j}, "cancelled")

(* Message j may not confirm: it was itself a request or confirmed another    *)
(* target.                                                                    *)
ConfirmConflict(j, target) ==
    IF ExecutedBy(j) # {} THEN \E r \in ExecutedBy(j) : confirmation[r].target # target
                          ELSE confirmation[j] # NoConfirmation

Begins(c, r) == exec' = [exec EXCEPT ![c] = [at |-> "read", request |-> r]]

(* claim_prepare_car_execute takes the pending confirmation for caller c.  A  *)
(* message that took one before is answered with the record, and a record     *)
(* that still says executing has the caller carry it out like a new claim.    *)
ClaimExecute(c, j, target) ==
    /\ ~ ConfirmConflict(j, target)
    /\ \/ \E r \in ExecutedBy(j) :
             /\ confirmation[r].state = "executing"
             /\ Begins(c, r)
             /\ UNCHANGED confirmation
       \/ \E r \in Pending(j) :
             /\ ExecutedBy(j) = {}
             /\ ~ confirmation[r].over /\ confirmation[r].target = target
             /\ confirmation' = [confirmation EXCEPT ![r].state = "executing", ![r].by = j]
             /\ Begins(c, r)
    /\ UNCHANGED commands

(* It refuses: nothing pending, too late, or the other action; or it answers  *)
(* with the record of an execution that is over.                              *)
RefuseExecute(j, target) ==
    /\ ~ ConfirmConflict(j, target)
    /\ \/ /\ IF ExecutedBy(j) = {} THEN Pending(j) = {}
             ELSE \A r \in ExecutedBy(j) : confirmation[r].state # "executing"
          /\ UNCHANGED confirmation
       \/ \E r \in Pending(j) :
             /\ ExecutedBy(j) = {}
             /\ confirmation[r].over
             /\ confirmation' = Settled(r, "expired")
       \/ \E r \in Pending(j) :
             /\ ExecutedBy(j) = {}
             /\ ~ confirmation[r].over /\ confirmation[r].target # target
             /\ confirmation' = Settled(r, "cancelled")
    /\ UNCHANGED <<exec, commands>>

(* The state is read: the command goes out next, or none is needed            *)
(* (already_confirmed), or the entity cannot be read.                         *)
ReadEntity(c) ==
    /\ exec[c].at = "read"
    /\ \/ exec' = [exec EXCEPT ![c].at = "post"]
       \/ \E o \in {"submitted", "failed"} :
             exec' = [exec EXCEPT ![c] = [at |-> "end", request |-> exec[c].request,
                                          outcome |-> o]]
    /\ UNCHANGED <<confirmation, commands>>

(* The POST, with its effect or without, and what is known of it.             *)
PostCommand(c) ==
    /\ exec[c].at = "post"
    /\ \E o \in {"submitted", "failed", "unknown"} :
          /\ exec' = [exec EXCEPT ![c] = [at |-> "end", request |-> exec[c].request,
                                          outcome |-> o]]
          /\ commands' \in IF o = "submitted"
                           THEN {[commands EXCEPT ![exec[c].request] = @ + 1]}
                           ELSE {commands, [commands EXCEPT ![exec[c].request] = @ + 1]}
    /\ UNCHANGED confirmation

(* finish_prepare_car_execute; the first result stands.                       *)
FinishExecute(c) ==
    /\ exec[c].at = "end"
    /\ confirmation' = IF confirmation[exec[c].request].state = "executing"
                       THEN Settled(exec[c].request, exec[c].outcome)
                       ELSE confirmation
    /\ exec' = [exec EXCEPT ![c] = NotExecuting]
    /\ UNCHANGED commands

(* Two minutes pass.                                                          *)
ConfirmationLapses(r) ==
    /\ confirmation[r].state = "pending" /\ ~ confirmation[r].over
    /\ confirmation' = [confirmation EXCEPT ![r].over = TRUE]
    /\ UNCHANGED <<exec, commands>>
=============================================================================
