--------------------------- MODULE MCRunnerTasks ----------------------------
(* The tasks of enrolled Runners in two instances: one task that either of    *)
(* two Runners may get, up to twice; and two tasks on one Runner, each leased *)
(* once and reported on by one message at a time, where a finished task may   *)
(* be continued while its Runner is busy with the other.                      *)
EXTENDS MCRunnerCenter

VARIABLE alone   \* the Runner that has both tasks; NoRunner in the first instance

OneTask == task'[t2].state = "absent"

OneRunner ==
    /\ \A r \in Runners \ {alone} : runner'[r] = runner[r]
    /\ \A t \in Tasks : task'[t].owner \in {alone, NoRunner} /\ task'[t].epoch <= 1
    /\ \A m \in sent' : m.state # "awaiting_confirmation"
    /\ Cardinality(arrived' \cup applying') <= 1 /\ Cardinality(dispatching') <= 1

MCInit == EnrolledInit /\ alone \in Runners \cup {NoRunner}

MCNext == /\ UNCHANGED alone
          /\ EnrolledNext
          /\ \/ alone = NoRunner /\ OneTask
             \/ alone # NoRunner /\ OneRunner

MCSpec == MCInit /\ [][MCNext]_<<vars, alone>>
=============================================================================
