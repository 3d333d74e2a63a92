------------------------------- MODULE MCLinks -------------------------------
(* What travels over connections that break: the commands of Desktop remote   *)
(* control, the picture its page shows, the Relay's connections and Home      *)
(* Assistant's notifications.  They share no variable, and a behaviour of     *)
(* this specification is a behaviour of one of them.  The commands come in    *)
(* two instances: without creating a task; and without reading, with a task   *)
(* revised once at most.                                                      *)
EXTENDS DesktopCommands, DesktopReadModel, RunnerRelay, Notifications, TLC

VARIABLE link

Symmetric == Permutations(Controls)
MCSource == [m \in Messages |-> 1]

Init == /\ link \in {"control", "create", "picture", "connections", "notifications"}
        /\ DesktopInit /\ ReadInit /\ RelayInit /\ NotificationInit
        /\ link = "notifications" \/ adapter = "gateway"

Next == /\ UNCHANGED link
        /\ \/ link = "control" /\ DesktopNext /\ \A n \in Creates : command'[n] = "absent"
              /\ UNCHANGED <<desktopReadVars, relayVars, notificationVars>>
           \/ link = "create" /\ DesktopNext /\ mac'.revision < MaxRevision
              /\ \A r \in Reads : command'[r] = "absent"
              /\ UNCHANGED <<desktopReadVars, relayVars, notificationVars>>
           \/ link = "picture" /\ ReadNext
              /\ UNCHANGED <<desktopVars, relayVars, notificationVars>>
           \/ link = "connections" /\ RelayNext
              /\ UNCHANGED <<desktopVars, desktopReadVars, notificationVars>>
           \/ link = "notifications" /\ NotificationNext
              /\ UNCHANGED <<desktopVars, desktopReadVars, relayVars>>

Spec == Init /\ [][Next]_<<link, desktopVars, desktopReadVars, relayVars, notificationVars>>
=============================================================================
