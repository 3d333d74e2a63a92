-------------------------- MODULE WeixinRemoteWork --------------------------
(* /work commands of the owner, version 1 (weixin_gateway/remote_work.py, and *)
(* store.py from enqueue_remote_work_command on): a command goes through an   *)
(* outbox to a Mac over MQTT, and the Mac's statuses and results come back,   *)
(* resent and in any order.                                                   *)
(*                                                                            *)
(* Abstractions.  One task: rows of different tasks never meet.  A command    *)
(* stands for its message, its id and its exact text; one that comes again is *)
(* found in the outbox and answered.  Only the owner's reach here.            *)
EXTENDS Naturals, FiniteSets

CONSTANTS
    Controls,      \* continue and cancel commands of the task
    MaxRuns,       \* runs the Mac makes of it
    MaxSequence    \* statuses and results of a run

ASSUME RemoteWorkAssumption == "start" \notin Controls /\ MaxRuns \in Nat /\ MaxSequence \in Nat

VARIABLES
    task,      \* the row of remote_work_tasks
    outbox,    \* remote_work_outbox, by command
    publish,   \* the commands each publish_pending is about to publish
    mac,       \* the Mac: the last event it sent
    mqtt,      \* the events it has sent, which the broker may deliver again
    events,    \* remote_work_events: the reply_state of each recorded event
    reply      \* the event whose reply has been sent and is not yet marked

remoteWorkVars == <<task, outbox, publish, mac, mqtt, events, reply>>

Publishers == {"loop", "network"}
Commands == {"start"} \cup Controls
Terminal == {"completed", "failed", "cancelled", "expired", "recovery_required"}
NoEvent == [run |-> 0, seq |-> 0, state |-> "none"]
NoTask == [state |-> "absent", run |-> 0, seq |-> 0]

RemoteWorkInit ==
    /\ task = NoTask /\ outbox = [c \in Commands |-> "none"]
    /\ publish = [p \in Publishers |-> {}]
    /\ mac = NoEvent /\ mqtt = {} /\ events = << >> /\ reply = NoEvent

(* A start makes the task, a control needs it; then the outbox is published.  *)
Enqueue(c) ==
    /\ outbox[c] = "none" /\ publish["loop"] = {}
    /\ IF c = "start" THEN task' = [NoTask EXCEPT !.state = "waiting_mac"]
       ELSE task # NoTask /\ UNCHANGED task
    /\ outbox' = [outbox EXCEPT ![c] = "pending"]
    /\ UNCHANGED <<publish, mac, mqtt, events, reply>>

(* publish_pending, on a new command and on every connection: the list first. *)
ListPending(p) ==
    /\ publish[p] = {} /\ task.state # "expired"
    /\ publish' = [publish EXCEPT ![p] = {c \in Commands : outbox[c] \in {"pending", "failed"}}]
    /\ UNCHANGED <<task, outbox, mac, mqtt, events, reply>>

Publish(p, c) ==
    /\ c \in publish[p]
    /\ \E how \in {"published", "failed"} : outbox' = [outbox EXCEPT ![c] = how]
    /\ publish' = [publish EXCEPT ![p] = @ \ {c}]
    /\ UNCHANGED <<task, mac, mqtt, events, reply>>

(* The Mac works once it has the start; a command may open another run.       *)
MacSends(state, more) ==
    /\ outbox["start"] = "published" /\ (state = "queued" => more)
    /\ mac' = IF more THEN [run |-> mac.run + 1, seq |-> 1, state |-> state]
              ELSE [mac EXCEPT !.seq = @ + 1, !.state = state]
    /\ mac'.run \in 1 .. MaxRuns /\ mac'.seq \in 1 .. MaxSequence
    /\ IF more THEN mac.run = 0 \/ mac.state \in Terminal ELSE mac.state \notin Terminal
    /\ mqtt' = mqtt \cup {mac'}
    /\ UNCHANGED <<task, outbox, publish, events, reply>>

(* Mutant: only the run is compared.                                          *)
BeforeRun(e, f) == e.run < f.run

(* Lexicographic order of what the code compares as a pair.                   *)
Before(e, f) == e.run < f.run \/ (e.run = f.run /\ e.seq < f.seq)

Overtaken(e) == Before(e, task) \/ (e.run = task.run /\ e.seq = task.seq)

(* record_remote_work_event: a duplicate, an overtaken event and one that     *)
(* would take back a final state of its run change nothing.                   *)
RecordEvent(e) ==
    /\ e \in mqtt /\ task # NoTask
    /\ e \notin DOMAIN events /\ ~ Overtaken(e)
    /\ ~ (task.state \in Terminal /\ e.run <= task.run)
    /\ events' = [f \in DOMAIN events \cup {e} |->
                     IF f # e THEN events[f] ELSE IF e.state \in {"queued", "running"} THEN "none" ELSE "pending"]
    /\ task' = [state |-> e.state, run |-> e.run, seq |-> e.seq]
    /\ UNCHANGED <<outbox, publish, mac, mqtt, reply>>

TaskExpires ==
    /\ task.state \in {"waiting_mac", "queued"}
    /\ task' = [task EXCEPT !.state = "expired"]
    /\ UNCHANGED <<outbox, publish, mac, mqtt, events, reply>>

(* _deliver_remote_work_replies: sent, or suppressed for an owner no more;    *)
(* then marked.  A process that dies between the two finds the text booked.   *)
Answer(e) ==
    /\ reply = NoEvent /\ e \in DOMAIN events /\ events[e] = "pending"
    /\ reply' = e
    /\ UNCHANGED <<task, outbox, publish, mac, mqtt, events>>

MarkReply(how) ==
    /\ reply # NoEvent
    /\ events' = [events EXCEPT ![reply] = IF @ = "pending" THEN how ELSE @]
    /\ reply' = NoEvent
    /\ UNCHANGED <<task, outbox, publish, mac, mqtt>>

RemoteWorkNext ==
    \/ TaskExpires
    \/ \E c \in Commands : Enqueue(c) \/ \E p \in Publishers : Publish(p, c)
    \/ \E p \in Publishers : ListPending(p)
    \/ \E state \in {"queued", "running", "awaiting_confirmation", "completed"}, more \in BOOLEAN : MacSends(state, more)
    \/ \E e \in mqtt : RecordEvent(e) \/ Answer(e)
    \/ \E how \in {"sent", "suppressed"} : MarkReply(how)

RemoteWorkSpec == RemoteWorkInit /\ [][RemoteWorkNext]_remoteWorkVars

(* The recorded state of a task is that of the latest event ever recorded, in *)
(* the order of run and sequence, however events were resent and reordered; a *)
(* final state stands until another run; a task expires only if the Mac has   *)
(* not begun the run (record_remote_work_event, _expire_remote_work_tasks).   *)
TaskIsLatestEvent ==
    /\ \A e \in DOMAIN events :
          /\ ~ Before(task, e)
          /\ e.run = task.run /\ e.seq # task.seq => e.state \notin Terminal
          /\ e.run = task.run /\ e.seq = task.seq => task.state \in {e.state, "expired"}
    /\ task.state = "expired" => \A e \in DOMAIN events : e.run = task.run => e.state = "queued"
=============================================================================
