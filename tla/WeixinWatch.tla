----------------------------- MODULE WeixinWatch -----------------------------
(* /work commands of the owner, version 2 (weixin_gateway/remote_work_v2.py;  *)
(* service.py: _handle_runner_manager_v2, _deliver_runner_manager_v2_updates; *)
(* store.py: track_runner_manager_v2 and what follows): the Controller's      *)
(* Runner Manager runs the task, the command's handler, in a poller, tells    *)
(* its first state, and a watch polled by the delivery loop tells the rest.   *)
(*                                                                            *)
(* Abstractions.  One task.  A text is the state it tells.  A reply is sent   *)
(* under the locks and into the ledger of WeixinDelivery: what is booked      *)
(* under the same key is not sent again.  Suppressed replies are left out.    *)
EXTENDS Naturals

CONSTANTS
    MaxCommands,   \* start and continue commands of the task
    MaxFailures    \* sends that fail and turns that die

ASSUME WatchAssumption == MaxCommands \in Nat /\ MaxFailures \in Nat

VARIABLES
    work,      \* the task of the Runner Manager: how often commanded, its state
    watch,     \* the row of runner_manager_v2_watches
    handler,   \* the poller's handler of a command
    poll,      \* the delivery loop's turn with the watch
    booked,    \* outbound_chunks of the texts, by their keys
    told,      \* how often the owner was told each state of each command's work
    failures   \* counts towards MaxFailures

watchVars == <<work, watch, handler, poll, booked, told, failures>>

NoWatch == [source |-> 0, key |-> "none", closed |-> TRUE]
Nobody == [at |-> "idle", source |-> 0, key |-> "none", state |-> "none"]

WatchInit ==
    /\ work = [runs |-> 0, state |-> "none"] /\ watch = NoWatch
    /\ handler = Nobody /\ poll = Nobody /\ booked = {} /\ failures = 0
    /\ told = [n \in 1 .. MaxCommands |-> [s \in {"dispatched", "running", "completed"} |-> 0]]

(* The Runner Manager accepts a start, and a continue of a finished task; the *)
(* command is number source.  Its answer is the task's state then; a replayed *)
(* request gets the present one.                                              *)
Command ==
    /\ handler.at = "idle" /\ work.runs < MaxCommands
    /\ work.state \in {"none", "completed"}
    /\ work' = [runs |-> work.runs + 1, state |-> "dispatched"]
    /\ handler' = [Nobody EXCEPT !.at = "track", !.source = work'.runs, !.state = "dispatched"]
    /\ UNCHANGED <<watch, poll, booked, told, failures>>

Replay ==
    /\ handler.at = "again"
    /\ handler' = [handler EXCEPT !.at = "track", !.state = work.state]
    /\ UNCHANGED <<work, watch, poll, booked, told, failures>>

Works(state) ==
    /\ work.state = IF state = "running" THEN "dispatched" ELSE "running"
    /\ work' = [work EXCEPT !.state = state]
    /\ UNCHANGED <<watch, handler, poll, booked, told, failures>>

(* track_runner_manager_v2: a new source arms the watch, its own replayed one *)
(* leaves it as it is.                                                        *)
Track ==
    /\ handler.at = "track"
    /\ watch' = IF watch.source = handler.source THEN watch
                ELSE [source |-> handler.source, key |-> "none", closed |-> FALSE]
    /\ handler' = [handler EXCEPT !.at = IF watch.source = handler.source THEN "resend" ELSE "send"]
    /\ UNCHANGED <<work, poll, booked, told, failures>>

(* Mutant: the handler's answers and the watch's had keys of their own.       *)
KeyByTeller(state, source) == <<state, IF poll.at = "send" THEN source + MaxCommands ELSE source>>

(* _runner_manager_v2_controller_job_id: the text and the watch's source.     *)
Key(state, source) == <<state, source>>

Tell(state, source) ==
    /\ booked' = booked \cup {Key(state, source)}
    /\ told' = IF Key(state, source) \in booked THEN told ELSE [told EXCEPT ![source][state] = @ + 1]

(* mark_runner_manager_v2_notified: whatever the watch has become meanwhile.  *)
Notified(state) == watch' = [watch EXCEPT !.key = state, !.closed = state = "completed"]

HandlerSends ==
    /\ handler.at \in {"send", "resend"}
    /\ Tell(handler.state, handler.source)
    /\ IF handler.at = "send" THEN Notified(handler.state) ELSE UNCHANGED watch
    /\ handler' = Nobody
    /\ UNCHANGED <<work, poll, failures>>

(* The send fails, or the process dies before its cursor is saved: the same   *)
(* message comes again.                                                       *)
HandlerFails ==
    /\ handler.at \in {"track", "send", "resend"} /\ failures < MaxFailures
    /\ failures' = failures + 1
    /\ handler' = [handler EXCEPT !.at = "again"]
    /\ UNCHANGED <<work, watch, poll, booked, told>>

(* The loop reads the watch, asks, and has an answer that may be old by then. *)
ReadWatch ==
    /\ poll.at = "idle" /\ ~ watch.closed
    /\ poll' = [Nobody EXCEPT !.at = "ask", !.source = watch.source, !.key = watch.key]
    /\ UNCHANGED <<work, watch, handler, booked, told, failures>>

WatchAnswered ==
    /\ poll.at = "ask"
    /\ poll' = [poll EXCEPT !.at = "send", !.state = work.state]
    /\ UNCHANGED <<work, watch, handler, booked, told, failures>>

WatchTells ==
    /\ poll.at = "send"
    /\ IF poll.state = poll.key THEN UNCHANGED <<booked, told>> ELSE Tell(poll.state, poll.source)
    /\ Notified(poll.state)
    /\ poll' = Nobody
    /\ UNCHANGED <<work, handler, failures>>

(* An error is counted, and the watch waits longer; a death loses the turn.   *)
WatchFails ==
    /\ poll.at \in {"ask", "send"} /\ failures < MaxFailures
    /\ failures' = failures + 1
    /\ poll' = Nobody
    /\ UNCHANGED <<work, watch, handler, booked, told>>

WatchNext ==
    \/ Command \/ Replay \/ Track \/ HandlerSends \/ HandlerFails
    \/ ReadWatch \/ WatchAnswered \/ WatchTells \/ WatchFails
    \/ \E state \in {"running", "completed"} : Works(state)

WatchSpec == WatchInit /\ [][WatchNext]_watchVars

(* The owner is told each state of a command's work at most once, by the      *)
(* handler or by the loop, whoever comes first and whatever failed: both use  *)
(* the text and the watch's source as the durable key of the reply.           *)
ToldOnce == \A n \in DOMAIN told : \A state \in DOMAIN told[n] : told[n][state] <= 1
=============================================================================
