---------------------------- MODULE JobLifecycle ----------------------------
(* What the Codex Controller promises about the messages given to it,         *)
(* whatever its scheduler, its reader, the app-server and restarts do: it     *)
(* takes no more than fit in the queue, works on them one by one in the order *)
(* of arrival and on each a bounded number of times, starts no other while a  *)
(* person has to decide about one, and an outcome is final.                   *)
EXTENDS Naturals, Sequences, FiniteSets

CONSTANTS Jobs, MaxQueue, MaxAttempts

VARIABLES
    phase,   \* "none", "queued", "running", "recovery_required" or the outcome
    order,   \* the messages taken, in the order of arrival
    tries    \* how often each was started

lifecycleVars == <<phase, order, tries>>

Outcomes == {"completed", "failed", "cancelled"}

LifecycleInit == /\ phase = [j \in Jobs |-> "none"]
                 /\ order = << >>
                 /\ tries = [j \in Jobs |-> 0]

Open == {j \in Jobs : phase[j] \in {"queued", "running", "recovery_required"}}
Becomes(j, word) == phase' = [phase EXCEPT ![j] = word]

Take(j) == /\ phase[j] = "none" /\ Cardinality(Open) < MaxQueue
           /\ Becomes(j, "queued") /\ order' = Append(order, j) /\ UNCHANGED tries

(* Whatever arrived before is over.                                           *)
Start(j) == /\ phase[j] = "queued" /\ tries[j] < MaxAttempts
            /\ \E n \in DOMAIN order : /\ order[n] = j
                                       /\ \A m \in 1 .. n - 1 : order[m] \notin Open
            /\ \A k \in Jobs : phase[k] \notin {"running", "recovery_required"}
            /\ Becomes(j, "running") /\ tries' = [tries EXCEPT ![j] = @ + 1]
            /\ UNCHANGED order

(* Only while another try is left.                                            *)
GiveBack(j) == /\ phase[j] = "running" /\ tries[j] < MaxAttempts
               /\ Becomes(j, "queued") /\ UNCHANGED <<order, tries>>

Doubt(j) == /\ phase[j] = "running"
            /\ Becomes(j, "recovery_required") /\ UNCHANGED <<order, tries>>

Finish(j) == /\ phase[j] \in {"running", "recovery_required"}
             /\ \E outcome \in Outcomes : Becomes(j, outcome)
             /\ UNCHANGED <<order, tries>>

LifecycleNext == \E j \in Jobs : Take(j) \/ Start(j) \/ GiveBack(j) \/ Doubt(j) \/ Finish(j)

LifecycleSpec == LifecycleInit /\ [][LifecycleNext]_lifecycleVars
=============================================================================
