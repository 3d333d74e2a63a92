--------------------------- MODULE Notifications ---------------------------
(* Notifications of Home Assistant to the owner over MQTT: the gateway's      *)
(* adapter (weixin_gateway/notification.py) and the older one of Hermes       *)
(* (hermes_agent/notification_bridge.py), one algorithm over two senders.     *)
(* One worker takes requests from a bounded queue, books each in a ledger,    *)
(* sends it and acknowledges it once its final result is published; what is   *)
(* not acknowledged the broker delivers again when the connection is new.     *)
(*                                                                            *)
(* Abstractions.  A request is a name with a key and a source; the clock      *)
(* counts rate windows.  Results that are not final are left out.  Rows are   *)
(* kept: a request expires long before its row does.                          *)
EXTENDS Naturals, Sequences, FiniteSets, SequencesExt

CONSTANTS
    Messages,      \* message identifiers
    Keys,          \* dedupe keys
    Source,        \* the source of each request
    Ttls,          \* lifetimes, in ticks
    DedupeWindow, RateWindow, SourceLimit, GlobalLimit,
    QueueSize, MaxAttempts,
    MaxClock,      \* bound on the clock
    MaxLosses      \* lost connections and restarts

ASSUME NotificationAssumption ==
    /\ Ttls \subseteq Nat \ {0} /\ DedupeWindow \in Nat /\ RateWindow \in Nat
    /\ QueueSize \in Nat \ {0} /\ MaxAttempts \in Nat \ {0} /\ MaxClock \in Nat

VARIABLES
    adapter,   \* "gateway" or "hermes": the add-on that consumes
    clock,
    expires,   \* when each request does, 0 before it is made
    keyOf,     \* its dedupe key
    due,       \* requests the broker has to deliver
    unacked,   \* delivered and not acknowledged
    waiting,   \* work_queue
    ledger,    \* table messages
    worker,    \* the worker thread
    published, \* the final results of each request the broker has
    reached,   \* how often each one's text reached the owner
    blind,     \* requests with an attempt that ended without a definite answer
    losses

notificationVars == <<adapter, clock, expires, keyOf, due, unacked, waiting, ledger, worker,
                      published, reached, blind, losses>>
mqttVars == <<expires, keyOf, due, published, losses>>

NotInLedger == [status |-> "none", received |-> 0, attempts |-> 0]
WorkerAt(m, at) == [m |-> m, at |-> at, attempts |-> 0, wake |-> 0]
Worker0 == WorkerAt("none", "idle")
FinalStatus == {"duplicate", "expired", "sent", "failed"}
Counts == {"accepted", "sending", "retrying", "sent"}

NotificationInit ==
    /\ adapter \in {"gateway", "hermes"} /\ clock = 1 /\ expires = [m \in Messages |-> 0]
    /\ keyOf \in [Messages -> Keys]
    /\ due = {} /\ unacked = {} /\ waiting = <<>> /\ ledger = [m \in Messages |-> NotInLedger]
    /\ worker = Worker0 /\ published = [m \in Messages |-> {}]
    /\ reached = [m \in Messages |-> 0] /\ blind = {} /\ losses = 0

Tick ==
    /\ clock < MaxClock /\ clock' = clock + 1
    /\ UNCHANGED <<adapter, unacked, waiting, ledger, worker, reached, blind, mqttVars>>

(* Home Assistant publishes a request.                                        *)
Request(m) ==
    /\ expires[m] = 0
    /\ \E ttl \in Ttls : expires' = [expires EXCEPT ![m] = clock + ttl]
    /\ due' = due \cup {m}
    /\ UNCHANGED <<adapter, clock, keyOf, unacked, waiting, ledger, worker, published, reached, blind, losses>>

(* _on_message: a full queue leaves the request unacknowledged.               *)
DeliverNotice(m) ==
    /\ m \in due /\ due' = due \ {m} /\ unacked' = unacked \cup {m}
    /\ IF Len(waiting) < QueueSize THEN waiting' = Append(waiting, m)
       ELSE UNCHANGED waiting
    /\ UNCHANGED <<adapter, clock, expires, keyOf, ledger, worker, published, reached, blind, losses>>

(* The session is resumed: what is not acknowledged comes again, whatever of  *)
(* it is still in the queue or at the worker.                                 *)
Reconnect ==
    /\ losses < MaxLosses /\ losses' = losses + 1
    /\ due' = due \cup unacked
    /\ UNCHANGED <<adapter, clock, expires, keyOf, unacked, waiting, ledger, worker, published, reached, blind>>

(* The add-on stops or dies and starts: the queue and the worker are new.     *)
AdapterRestarts ==
    /\ losses < MaxLosses /\ losses' = losses + 1
    /\ due' = due \cup unacked /\ waiting' = <<>> /\ worker' = Worker0
    /\ UNCHANGED <<adapter, clock, expires, keyOf, unacked, ledger, published, reached, blind>>

Booked(m, status, attempts) ==
    ledger' = [ledger EXCEPT ![m] = [status |-> status, attempts |-> attempts,
                                     received |-> IF @.status = "none" THEN clock ELSE @.received]]

(* _finish: the row first, then the result; the worker acknowledges what was  *)
(* published.                                                                 *)
Finished(m, status, attempts) ==
    /\ Booked(m, status, attempts)
    /\ worker' = WorkerAt(m, "publish")

(* Mutant: only what was recorded as sent counts against a repeat.            *)
HasRecentSent(m) ==
    \E n \in Messages : /\ keyOf[n] = keyOf[m] /\ ledger[n].status = "sent"
                        /\ ledger[n].received + DedupeWindow >= clock

HasRecentDedupe(m) ==
    \E n \in Messages : /\ keyOf[n] = keyOf[m] /\ ledger[n].status \in Counts
                        /\ ledger[n].received + DedupeWindow >= clock
CountRecent(sources) ==
    Cardinality({n \in Messages : /\ Source[n] \in sources /\ ledger[n].status \in Counts
                                  /\ ledger[n].received + RateWindow >= clock})
RateLimited(m) ==
    \/ CountRecent({Source[m]}) >= SourceLimit
    \/ CountRecent({Source[n] : n \in Messages}) >= GlobalLimit

(* Mutant: a message found in the ledger in whatever state is sent on.        *)
ResumeAnyState(m, row) ==
    IF row.status \in FinalStatus THEN UNCHANGED ledger /\ worker' = WorkerAt(m, "publish")
    ELSE UNCHANGED ledger /\ worker' = WorkerAt(m, "begin")

(* What process() does with a message it has a row of: a final result is      *)
(* published again; a send that may have been entered is never entered again; *)
(* "accepted" was written before any, so it goes on.                          *)
TakenUp(m, row) ==
    CASE row.status \in FinalStatus ->
            UNCHANGED ledger /\ worker' = WorkerAt(m, "publish")
      [] row.status \notin FinalStatus /\ clock >= expires[m] -> Finished(m, "expired", row.attempts)
      [] row.status \in {"sending", "retrying"} /\ clock < expires[m] -> Finished(m, "failed", row.attempts)
      [] OTHER -> UNCHANGED ledger /\ worker' = WorkerAt(m, "begin")

(* And with a new one.                                                        *)
Admitted(m) ==
    CASE clock >= expires[m] -> Finished(m, "expired", 0)
      [] clock < expires[m] /\ HasRecentDedupe(m) -> Finished(m, "duplicate", 0)
      [] clock < expires[m] /\ ~HasRecentDedupe(m) /\ RateLimited(m) -> Finished(m, "failed", 0)
      [] OTHER -> Booked(m, "accepted", 0) /\ worker' = WorkerAt(m, "begin")

Take ==
    /\ worker.at = "idle" /\ waiting # <<>> /\ waiting' = Tail(waiting)
    /\ LET m == Head(waiting)
       IN  IF ledger[m] = NotInLedger THEN Admitted(m) ELSE TakenUp(m, ledger[m])
    /\ UNCHANGED <<adapter, clock, unacked, reached, blind, mqttVars>>

Entered(m) ==
    /\ Booked(m, "sending", worker.attempts + 1)
    /\ worker' = [worker EXCEPT !.at = "sending", !.attempts = @ + 1]

BeginSend ==
    /\ worker.at = "begin" /\ Entered(worker.m)
    /\ UNCHANGED <<adapter, clock, unacked, waiting, reached, blind, mqttVars>>

(* The text reaches the owner or not, and the sender learns of it or not.     *)
Reach(m) ==
    /\ worker.at = "sending" /\ m = worker.m
    /\ \E got \in {0, 1} : reached' = [reached EXCEPT ![m] = @ + got]
    /\ worker' = [worker EXCEPT !.at = IF reached'[m] = reached[m] THEN "missed" ELSE "got"]
    /\ UNCHANGED <<adapter, clock, unacked, waiting, ledger, blind, mqttVars>>

(* _send_via_gateway and send_notification: a refusal for the rate is tried   *)
(* again, any other refusal and every doubt is final.                         *)
GatewayAnswers(at) ==
    IF at = "got" THEN {"ok", "doubt"} ELSE {"again", "refused", "doubt"}
(* _send_once of the bridge: a process that ended in an error, and one that   *)
(* was killed at its time limit, are both tried again.                        *)
HermesAnswers(at) ==
    IF at = "got" THEN {"ok", "doubt_again"} ELSE {"again", "refused", "doubt_again"}
Answers(at) == IF adapter = "gateway" THEN GatewayAnswers(at) ELSE HermesAnswers(at)

(* The loop over the delays: a pause that would outlive the request ends it.  *)
Retry(m) ==
    IF worker.attempts = MaxAttempts THEN Finished(m, "failed", worker.attempts)
    ELSE \E pause \in {p \in {0, 1} : clock + p <= MaxClock} :
           IF clock + pause >= expires[m] THEN Finished(m, "expired", worker.attempts)
           ELSE /\ Booked(m, "retrying", worker.attempts)
                /\ worker' = [worker EXCEPT !.at = "pause", !.wake = clock + pause]

Answered ==
    /\ worker.at \in {"got", "missed"}
    /\ \E answer \in Answers(worker.at) :
         /\ CASE answer = "ok" -> Finished(worker.m, "sent", worker.attempts)
              [] answer \in {"refused", "doubt"} -> Finished(worker.m, "failed", worker.attempts)
              [] OTHER -> Retry(worker.m)
         /\ blind' = IF answer \in {"doubt", "doubt_again"} THEN blind \cup {worker.m} ELSE blind
    /\ UNCHANGED <<adapter, clock, unacked, waiting, reached, mqttVars>>

AfterPause ==
    /\ worker.at = "pause" /\ clock >= worker.wake /\ Entered(worker.m)
    /\ UNCHANGED <<adapter, clock, unacked, waiting, reached, blind, mqttVars>>

(* _publish_result and the acknowledgement; a publication that is not         *)
(* confirmed in time leaves the message to the next connection.               *)
PublishFinal ==
    /\ worker.at = "publish" /\ worker' = Worker0
    /\ \/ /\ published' = [published EXCEPT ![worker.m] = @ \cup {ledger[worker.m].status}]
          /\ unacked' = unacked \ {worker.m} /\ due' = due \ {worker.m}
       \/ UNCHANGED <<published, unacked, due>>
    /\ UNCHANGED <<adapter, clock, expires, keyOf, waiting, ledger, reached, blind, losses>>

WorkerStep == Take \/ BeginSend \/ (\E m \in Messages : Reach(m)) \/ Answered \/ AfterPause \/ PublishFinal

NotificationNext ==
    \/ \E m \in Messages : Request(m) \/ DeliverNotice(m)
    \/ Tick \/ Reconnect \/ AdapterRestarts \/ WorkerStep

NotificationSpec == NotificationInit /\ [][NotificationNext]_notificationVars

-----------------------------------------------------------------------------
(* A notification reaches the owner once, through any restart and any repeat  *)
(* of the broker's; only the bridge of Hermes, which tries again what it      *)
(* could not see the end of, may deliver one twice.  No two requests of one   *)
(* key reach the owner within the window, unless the outcome of one was       *)
(* recorded as a failure or an expiry.  A final result, once published, is    *)
(* never replaced by another (process: the ledger before every send).         *)
NotifiedOnce ==
    /\ \A m \in Messages : reached[m] <= 1 \/ (adapter = "hermes" /\ m \in blind)
    /\ \A m \in Messages : Cardinality(published[m]) <= 1
    /\ \A m, n \in Messages :
         (/\ m # n /\ keyOf[m] = keyOf[n] /\ reached[m] > 0 /\ reached[n] > 0
          /\ ledger[m].received <= ledger[n].received
          /\ ledger[m].received + DedupeWindow >= ledger[n].received)
            => {ledger[m].status, ledger[n].status} \cap {"failed", "expired"} # {}
=============================================================================
