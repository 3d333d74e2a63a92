--------------------------- MODULE ControllerJobs ---------------------------
(* The job table of the Codex Controller                                     *)
(* (codex_controller/codex_controller/store.py): one queue of jobs, each made *)
(* from one message, each run by at most three turns of the app-server.       *)
(* Every method that writes is one BEGIN IMMEDIATE transaction, one operator  *)
(* here; who calls them, and between which other steps, is in                 *)
(* ControllerService.                                                         *)
(*                                                                            *)
(* Abstractions.  A job stands for its message_id: a message delivered again  *)
(* finds its row and changes nothing.  The turn of a job's n-th attempt is    *)
(* <<job, n>>, so the column turn_id is whether that turn is recorded.  The   *)
(* three flags output, tool activity and artifact are set by the same events  *)
(* and only ever tested together: one flag, seen.  The recorded error is      *)
(* whether it may be retried.  retry_not_before is whether it lies ahead.     *)
(* Threads are left out: assign_thread writes nothing the queue reads.        *)
EXTENDS Naturals, Sequences, FiniteSets

CONSTANTS
    Jobs,         \* messages that may become jobs
    Intents,      \* what each message may ask for: sets of [kind, target]
    MaxQueue,     \* max_queue
    MaxAttempts   \* max_attempts of complete_turn and retry_overloaded

ASSUME JobsAssumption ==
    /\ DOMAIN Intents = Jobs
    /\ MaxQueue \in Nat
    /\ MaxAttempts \in Nat \ {0}

VARIABLES
    job,      \* table jobs
    arrived   \* the jobs in the order of created_at

jobVars == <<job, arrived>>

ActiveStates == {"queued", "running", "recovery_required"}
FinalStates == {"completed", "failed", "cancelled"}
Turns == Jobs \X (1 .. MaxAttempts)

NoRow == [state |-> "absent"]
NewJob(i) == [state |-> "queued", intent |-> i, attempt |-> 0, bound |-> FALSE,
              seen |-> FALSE, text |-> FALSE, retryable |-> FALSE,
              rests |-> FALSE, reviewed |-> FALSE]

JobsInit == /\ job = [j \in Jobs |-> NoRow]
            /\ arrived = << >>

In(j, states) == job[j].state \in states
Active == {j \in Jobs : In(j, ActiveStates)}
TurnOf(j) == <<j, job[j].attempt>>

(* SELECT ... WHERE turn_id=? AND state='running'                             *)
Holds(t) == /\ In(t[1], {"running"})
            /\ job[t[1]].bound
            /\ t = TurnOf(t[1])

Update(j, row) == /\ job' = [job EXCEPT ![j] = row]
                  /\ UNCHANGED arrived

CreateJob(j, i) ==
    /\ job[j] = NoRow
    /\ Cardinality(Active) < MaxQueue
    /\ job' = [job EXCEPT ![j] = NewJob(i)]
    /\ arrived' = Append(arrived, j)

First(j) == \E n \in DOMAIN arrived :
               /\ arrived[n] = j
               /\ In(j, {"queued"})
               /\ \A m \in 1 .. n - 1 : ~ In(arrived[m], {"queued"})

Claimed(j) == [job[j] EXCEPT !.state = "running", !.attempt = @ + 1, !.seen = FALSE,
                             !.retryable = FALSE, !.rests = FALSE]

(* Mutant: only a running job keeps the next one from being claimed.          *)
ClaimPastRecovery(j) ==
    /\ \A k \in Jobs : ~ In(k, {"running"})
    /\ First(j) /\ ~ job[j].rests
    /\ Update(j, Claimed(j))

ClaimNext(j) ==
    /\ \A k \in Jobs : ~ In(k, {"running", "recovery_required"})
    /\ First(j) /\ ~ job[j].rests
    /\ Update(j, Claimed(j))

(* retry_not_before passes.                                                   *)
RetryTime(j) == /\ In(j, {"queued"}) /\ job[j].rests
                /\ Update(j, [job[j] EXCEPT !.rests = FALSE])

AssignTurn(j) == /\ In(j, {"running"})
                 /\ Update(j, [job[j] EXCEPT !.bound = TRUE])

(* complete_direct_result and complete_new_thread                             *)
CompleteDirect(j) == /\ In(j, {"running"})
                     /\ Update(j, [job[j] EXCEPT !.state = "completed", !.text = TRUE])

SetResultText(t) ==
    /\ Holds(t)
    /\ Update(t[1], [job[t[1]] EXCEPT !.text = TRUE, !.seen = TRUE])

ObserveTurnActivity(t) ==
    /\ Holds(t)
    /\ Update(t[1], [job[t[1]] EXCEPT !.seen = TRUE])

ObserveTurnError(t, retry) ==
    /\ Holds(t)
    /\ Update(t[1], [job[t[1]] EXCEPT !.retryable = retry])

(* Back to the queue, without the turn that failed.                           *)
Requeued(j) == [job[j] EXCEPT !.state = "queued", !.bound = FALSE, !.seen = FALSE,
                              !.text = FALSE, !.retryable = TRUE, !.rests = TRUE]

(* How a turn ends: its status, the classification of the error it carries    *)
(* ("row": it carries none, the recorded one counts) and whether the items it *)
(* lists show what the turn did.                                              *)
Endings == [status : {"completed", "failed", "interrupted"},
            retry : {"yes", "no", "row"}, shown : BOOLEAN]

EndState(e) == CASE e.status = "completed" -> "completed"
                 [] e.status = "interrupted" -> "cancelled"
                 [] OTHER -> "failed"

MayRetry(j, e, shows) ==
    /\ e.status = "failed"
    /\ e.retry = "yes" \/ (e.retry = "row" /\ job[j].retryable)
    /\ job[j].attempt < MaxAttempts
    /\ ~ job[j].seen /\ ~ shows

(* Mutant: a failed turn that may be retried leaves its turn id and keeps     *)
(* the job running.                                                           *)
NeverRequeued(t, e, shows) ==
    /\ Holds(t)
    /\ IF MayRetry(t[1], e, shows)
       THEN Update(t[1], [job[t[1]] EXCEPT !.rests = TRUE])
       ELSE Update(t[1], [job[t[1]] EXCEPT !.state = EndState(e), !.seen = @ \/ shows])

CompleteTurn(t, e, shows) ==
    /\ Holds(t)
    /\ IF MayRetry(t[1], e, shows)
       THEN Update(t[1], Requeued(t[1]))
       ELSE Update(t[1], [job[t[1]] EXCEPT !.state = EndState(e), !.seen = @ \/ shows])

(* Mutant: what is not known to have failed is queued again.                  *)
RequeueUncertain(j, uncertain) ==
    /\ In(j, {"running"})
    /\ IF uncertain /\ job[j].attempt < MaxAttempts
       THEN Update(j, Requeued(j))
       ELSE Update(j, [job[j] EXCEPT !.state = "failed"])

(* Mutant: a failure of unknown outcome is recorded as a failure.             *)
FailWhatIsUncertain(j, uncertain) ==
    /\ In(j, {"running"})
    /\ Update(j, [job[j] EXCEPT !.state = "failed"])

FailClaimed(j, uncertain) ==
    /\ In(j, {"running"})
    /\ Update(j, [job[j] EXCEPT
                    !.state = IF uncertain THEN "recovery_required" ELSE "failed"])

(* retry_overloaded, or fail_claimed when the tries are used up.              *)
RetryOverloaded(j) ==
    IF job[j].attempt < MaxAttempts
    THEN /\ In(j, {"running"})
         /\ Update(j, [job[j] EXCEPT !.state = "queued", !.bound = FALSE,
                                     !.retryable = TRUE, !.rests = TRUE])
    ELSE FailClaimed(j, FALSE)

RecoverRunning ==
    /\ job' = [j \in Jobs |-> IF In(j, {"running"})
                              THEN [job[j] EXCEPT !.state = "recovery_required"]
                              ELSE job[j]]
    /\ UNCHANGED arrived

ResolveRecovery(j, outcome) ==
    /\ In(j, {"recovery_required"})
    /\ outcome \in FinalStates
    /\ Update(j, [job[j] EXCEPT !.state = outcome, !.reviewed = TRUE])
=============================================================================
