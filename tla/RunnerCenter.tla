---------------------------- MODULE RunnerCenter ----------------------------
(* The Runner Center of the Codex Controller: RunnerRegistry (enrollments,    *)
(* credentials, administration) and RunnerTasks (leases, messages, recovery)  *)
(* over one database, with the properties of the two together.                *)
EXTENDS RunnerTasks

vars == <<registryVars, taskVars>>

Init == RegistryInit /\ TasksInit

(* The same with every Runner enrolled, checked, enabled and online.          *)
EnrolledInit ==
    /\ runner = [r \in Runners |-> [NewRow("enabled") EXCEPT !.checked = TRUE,
                                                             !.link = "online"]]
    /\ enrollment = [r \in Runners |-> <<"claimed">>]
    /\ credential = [r \in Runners |-> <<"active">>]
    /\ TasksInit

WorkStep == OwnerStep \/ DispatchStep \/ AgentStep \/ MessageStep \/ RecoveryStep

EnrolledNext == \/ AdminStep /\ UNCHANGED taskVars
                \/ WorkStep

Next == \/ RegistryStep /\ UNCHANGED taskVars
        \/ EnrolledNext

Spec == Init /\ [][Next]_vars
EnrolledSpec == EnrolledInit /\ [][EnrolledNext]_vars

(* The manager thread sweeps every half second and time passes; nothing else  *)
(* is taken to happen.                                                        *)
Fairness == /\ WF_vars(Sweep)
            /\ \A t \in Tasks : WF_vars(LeaseLapses(t)) /\ WF_vars(TaskOverdue(t))
FairSpec == Spec /\ Fairness

-----------------------------------------------------------------------------
(* A task has at most one active lease, that of the Runner it is assigned to  *)
(* under its current epoch: claiming never meets the unique index, and no     *)
(* Runner of an earlier assignment can renew or continue.                     *)
ActiveLeaseIsCurrent ==
    \A t \in Tasks, e \in Epochs :
        lease[t][e] = "active" => task[t].owner # NoRunner /\ task[t].epoch = e

(* A Runner is never busy with a task that is not assigned to it, whichever   *)
(* of sweep, rescheduling, emergency stop, result and resolution ran last.    *)
CurrentIsAssigned ==
    \A r \in Runners :
        runner[r].current # NoTask => task[runner[r].current].owner = r

(* A task that was seen running stays with the Runner it ran on, through loss *)
(* of contact, recovery and continuation (DOCS.md: a task that ran and lost   *)
(* its Runner is never transferred).                                          *)
RunningIsNeverTransferred ==
    [][\A t \in Tasks : task[t].ran =>
          /\ task'[t].owner = task[t].owner
          /\ task'[t].epoch = task[t].epoch
          /\ task'[t].state # "waiting_runner"]_vars

(* "running" and "completed" are only ever written on the word of the agent   *)
(* that holds the current assignment, though its message is checked in one    *)
(* transaction and applied in another.                                        *)
Vouched(t, kind, state) ==
    \E m \in messages : /\ m.kind = kind /\ m.task = t /\ m.state = state
                        /\ m.runner = task[t].owner /\ m.epoch = task[t].epoch

OutcomeIsVouchedFor ==
    \A t \in Tasks :
        /\ task[t].ran => Vouched(t, "status", "running")
        /\ task[t].state = "completed" => Vouched(t, "result", "completed")

(* A Runner has at most one credential that works, at most one token that     *)
(* could still be redeemed, and never both: a token that is replaced, revoked *)
(* or used is worth nothing, and a rotated credential neither.  And only a    *)
(* Runner whose token was redeemed is ever given work.                        *)
Unique(s, value) ==
    \A i, j \in DOMAIN s : s[i] = value /\ s[j] = value => i = j

OneWayIn ==
    \A r \in Runners :
        /\ Unique(enrollment[r], "pending")
        /\ Unique(credential[r], "active")
        /\ ~(Has(enrollment[r], "pending") /\ Has(credential[r], "active"))
        /\ runner[r].admin \in {"enabled", "draining"} => Has(enrollment[r], "claimed")

(* A Runner that is draining and has nothing to do ends up disabled.          *)
DrainEnds ==
    \A r \in Runners :
        runner[r].admin = "draining" /\ runner[r].current = NoTask
          ~> runner[r].admin # "draining"

(* No task is forgotten: while its Runner stays offline it is not left in its *)
(* hands, but returns to the queue or is put to the operator, and one that    *)
(* waits for a Runner does not wait forever.                                  *)
NoTaskIsForgotten ==
    \A t \in Tasks :
        /\ []<>~(/\ task[t].owner # NoRunner
                 /\ runner[task[t].owner].link = "offline"
                 /\ task[t].state \in {"leased", "dispatched", "queued", "running"})
        /\ task[t].state = "waiting_runner" ~> task[t].state # "waiting_runner"
=============================================================================
