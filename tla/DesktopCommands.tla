------------------------- MODULE DesktopCommands -------------------------
(***************************************************************************)
(* Remote control of one Codex Desktop task: control commands, "create a   *)
(* task" and resource reads leave the Controller through the Relay, and    *)
(* receipts, snapshots and results come back from the Mac's durable outbox.*)
(* The Mac and the wire are external; the outbox is first in first out and *)
(* keeps its head until the Relay acknowledges it.                         *)
(***************************************************************************)
EXTENDS Naturals, Sequences, FiniteSets

CONSTANTS Controls,      \* requests that control the task
          Creates,       \* requests that create a task
          Reads,         \* file, diagnostic and diff reads
          Kept,          \* SNAPSHOTS_PER_THREAD
          MaxRequests,   \* bound on the requests of a behaviour
          MaxRevision,   \* bound on the task's revision
          MaxSnapshots,  \* bound on the snapshots taken
          MaxTroubles    \* bound on restarts and broken connections

ASSUME CommandAssumption ==
  /\ Controls \cap Creates = {} /\ (Controls \cup Creates) \cap Reads = {}

VARIABLES command,   \* state of each request in its journal
          call,      \* the HTTP call that serves the request
          receipts,  \* receipts stored
          results,   \* reads whose result event is stored
          picture,   \* the thread row: revision, sequence, control state
          kept,      \* revisions whose snapshot is still stored
          base,      \* revision each command was built on
          wire,      \* commands between the Relay and the Mac
          mac,       \* the Mac: revision, snapshots taken, its work
          outbox,    \* documents the Relay has not acknowledged
          echo,      \* copies a dead connection's handler still posts
          troubles

controllerVars == <<command, receipts, results, picture, kept>>
desktopVars == <<command, call, receipts, results, picture, kept, base,
                 wire, mac, outbox, echo, troubles>>

Commands == Controls \cup Creates
Requests == Commands \cup Reads
\* "expired" is to the Controller what "failed" is.
Final == {"confirmed", "conflict", "failed", "unknown", "recovery_required"}
Unsettled == {"pending", "submitted", "accepted", "unknown"}

Document(kind, r, s, v) == [kind |-> kind, request |-> r, state |-> s, at |-> v]

-----------------------------------------------------------------------------
(* The call: prepare, publish, mark.  Control and create hold              *)
(* _command_lock from the first step to the last; a read does not.         *)

Locked == \E r \in Commands : call[r] # "none"

\* active_command, without the "unknown" commands: a mutant.
InFlight == {r \in Controls : command[r] \in Unsettled \ {"unknown"}}
Active == {r \in Controls : command[r] \in Unsettled}

\* _preconditions: no other control command is open and the task is ready.
MayControl == Active = {} /\ picture.control = "ready"

\* A task is created, and a resource read, whatever the state of others.
MayPrepare(r) ==
  /\ r \in Commands => ~Locked
  /\ r \in Controls => MayControl

\* prepare_command: a request_id gets one row.
Inserted(r) == [command EXCEPT ![r] = "pending"]

Prepare(r) ==
  /\ command[r] = "absent" /\ call[r] = "none"
  /\ Cardinality({q \in Requests : command[q] # "absent"}) < MaxRequests
  /\ MayPrepare(r)
  /\ command' = Inserted(r)
  /\ call' = [call EXCEPT ![r] = "prepared"]
  /\ base' = [base EXCEPT ![r] = picture.at[1]]
  /\ UNCHANGED <<receipts, results, picture, kept, wire, mac, outbox, echo, troubles>>

\* Only "runner_offline" proves that nothing was sent; a timeout or any
\* other answer may have been.
Publish(r) ==
  /\ call[r] = "prepared"
  /\ \/ call' = [call EXCEPT ![r] = "ok"] /\ wire' = wire \cup {r}
     \/ call' = [call EXCEPT ![r] = "runner_offline"] /\ UNCHANGED wire
     \/ call' = [call EXCEPT ![r] = "indeterminate"] /\ wire' \in {wire, wire \cup {r}}
  /\ UNCHANGED <<controllerVars, base, mac, outbox, echo, troubles>>

\* Every publish error read as a failure: a mutant.
AnyErrorFails(answer) == IF answer = "ok" THEN "submitted" ELSE "failed"
MarkedAs(answer) ==
  CASE answer = "ok" -> "submitted"
    [] answer = "runner_offline" -> "failed"
    [] OTHER -> "unknown"

\* A receipt may have come before the answer: it is not overwritten.
Marked(r) ==
  IF command[r] = "pending" THEN [command EXCEPT ![r] = MarkedAs(call[r])] ELSE command

Mark(r) ==
  /\ call[r] \in {"ok", "runner_offline", "indeterminate"}
  /\ command' = Marked(r)
  /\ call' = [call EXCEPT ![r] = "none"]
  /\ UNCHANGED <<receipts, results, picture, kept, base, wire, mac, outbox, echo, troubles>>

\* sweep: the receipt of a command past its expires_at is given up.
Sweep(r) ==
  /\ command[r] \in {"submitted", "accepted"}
  /\ command' = [command EXCEPT ![r] = "unknown"]
  /\ UNCHANGED <<call, receipts, results, picture, kept, base, wire, mac,
                 outbox, echo, troubles>>

\* The Controller restarts: its calls are gone, what was pending is unknown.
RestartController ==
  /\ troubles < MaxTroubles /\ troubles' = troubles + 1
  /\ call' = [r \in Requests |-> "none"]
  /\ command' = [r \in Requests |->
                   IF command[r] = "pending" THEN "unknown" ELSE command[r]]
  /\ UNCHANGED <<receipts, results, picture, kept, base, wire, mac, outbox, echo>>

-----------------------------------------------------------------------------
(* The Mac (external).  It checks the revision a command was built on,     *)
(* acknowledges, works, and says how it ended; it never repeats a request. *)

Send(documents) == outbox' = outbox \o documents

LoseCommand(r) ==
  /\ r \in wire /\ wire' = wire \ {r}
  /\ UNCHANGED <<controllerVars, call, base, mac, outbox, echo, troubles>>

TakeCommand(r) ==
  /\ r \in wire /\ mac.work[r] = "none"
  /\ wire' = wire \ {r}
  /\ IF r \in Controls /\ base[r] # mac.revision
     THEN /\ mac' = [mac EXCEPT !.work[r] = "conflict", !.at[r] = mac.revision]
          /\ Send(<<Document("receipt", r, "conflict", <<mac.revision, 0>>)>>)
     ELSE /\ mac' = [mac EXCEPT !.work[r] = "working"]
          /\ \/ r \notin Reads /\ Send(<<Document("receipt", r, "accepted", <<mac.revision, 0>>)>>)
             \/ UNCHANGED outbox
  /\ UNCHANGED <<controllerVars, call, base, echo, troubles>>

FinishCommand(r, s) ==
  /\ mac.work[r] = "working"
  /\ s \in (IF r \in Reads THEN {"confirmed", "failed"} ELSE Final \ {"conflict"})
  /\ \E v \in {mac.revision, mac.revision + 1} :
       /\ v <= MaxRevision
       /\ v # mac.revision => r \in Controls /\ s \in {"confirmed", "unknown", "recovery_required"}
       /\ mac' = [mac EXCEPT !.work[r] = s, !.at[r] = v, !.revision = v]
       /\ Send(<<IF r \in Reads THEN Document("result", r, s, <<base[r], 0>>)
                 ELSE Document("receipt", r, s, <<v, 0>>)>>)
  /\ UNCHANGED <<controllerVars, call, base, wire, echo, troubles>>

OwnerWorks ==
  /\ mac.revision < MaxRevision
  /\ mac' = [mac EXCEPT !.revision = @ + 1]
  /\ UNCHANGED <<controllerVars, call, base, wire, outbox, echo, troubles>>

TakeSnapshot ==
  /\ mac.taken < MaxSnapshots
  /\ mac' = [mac EXCEPT !.taken = @ + 1]
  /\ Send(<<Document("snapshot", "none", "ready", <<mac.revision, mac.taken + 1>>)>>)
  /\ UNCHANGED <<controllerVars, call, base, wire, echo, troubles>>

-----------------------------------------------------------------------------
(* What the Controller does with a document: ingest_receipt of the store   *)
(* and of the create journal, ingest_event with complete_resource_command, *)
(* and the part of ingest_snapshot that control depends on.                *)

Stored(r) == {d \in receipts : d.request = r}
HasFinal(r) == \E d \in Stored(r) : d.state # "accepted"

\* Without the digest check a resent receipt is a second one: a mutant.
NoneKnown(d) == FALSE
Duplicate(d) == d \in receipts

Superseded(d) == d.request \in Creates /\ d.state = "accepted" /\ HasFinal(d.request)

Refused(d) ==
  /\ d.kind = "receipt" /\ ~Duplicate(d) /\ ~Superseded(d)
  /\ Stored(d.request) # {}
  /\ HasFinal(d.request) \/ d.state = "accepted"

\* The control state is left as it is: a mutant.
ControlKept(d) == picture.control
ControlAfter(d) ==
  CASE d.state \in {"unknown", "recovery_required"} -> "recovery_required"
    [] d.state \in {"confirmed", "conflict"} -> "refresh_required"
    [] OTHER -> picture.control

IngestReceipt(d) ==
  /\ IF Duplicate(d) \/ Superseded(d)
     THEN UNCHANGED <<command, receipts, picture>>
     ELSE /\ receipts' = receipts \cup {d}
          /\ command' = [command EXCEPT ![d.request] = d.state]
          /\ picture' = IF d.request \in Controls
                        THEN [picture EXCEPT !.control = ControlAfter(d)] ELSE picture
  /\ UNCHANGED <<results, kept>>

Later(a, b) == a[1] > b[1] \/ (a[1] = b[1] /\ a[2] > b[2])
Newest(S) == {v \in S : Cardinality({w \in S : w > v}) < Kept}

IngestSnapshot(d) ==
  /\ IF Later(d.at, picture.at)
     THEN /\ picture' = [at |-> d.at, control |-> "ready"]
          /\ kept' = Newest(kept \cup {d.at[1]})
     ELSE UNCHANGED <<picture, kept>>
  /\ UNCHANGED <<command, receipts, results>>

\* A result about a revision that is gone is consumed and lost.
Readable(d) == d.request \in results \/ d.at[1] \in kept

IngestResult(d) ==
  /\ IF Readable(d)
     THEN /\ results' = results \cup {d.request}
          /\ command' = IF command[d.request] \in {"pending", "submitted", "unknown"}
                        THEN [command EXCEPT ![d.request] = d.state] ELSE command
     ELSE UNCHANGED <<results, command>>
  /\ UNCHANGED <<receipts, picture, kept>>

Ingest(d) ==
  CASE d.kind = "receipt" -> IngestReceipt(d)
    [] d.kind = "snapshot" -> IngestSnapshot(d)
    [] OTHER -> IngestResult(d)

\* The result event is committed, and the Controller stops before
\* complete_resource_command.
StoredOnly(d) ==
  /\ d.kind = "result" /\ Readable(d)
  /\ results' = results \cup {d.request}
  /\ UNCHANGED <<command, receipts, picture, kept>>

\* The head of the outbox: acknowledged, ingested with the acknowledgement
\* lost, or still being posted when the connection breaks.
Deliver ==
  /\ outbox # <<>> /\ ~Refused(Head(outbox))
  /\ Ingest(Head(outbox))
  /\ outbox' = Tail(outbox)
  /\ UNCHANGED <<call, base, wire, mac, echo, troubles>>

AckLost ==
  /\ outbox # <<>> /\ ~Refused(Head(outbox))
  /\ troubles < MaxTroubles /\ troubles' = troubles + 1
  /\ Ingest(Head(outbox)) \/ StoredOnly(Head(outbox))
  /\ UNCHANGED <<call, base, wire, mac, outbox, echo>>

ConnectionBreaks ==
  /\ outbox # <<>>
  /\ troubles < MaxTroubles /\ troubles' = troubles + 1
  /\ echo' = echo \cup {Head(outbox)}
  /\ UNCHANGED <<controllerVars, call, base, wire, mac, outbox>>

DeliverEcho(d) ==
  /\ d \in echo /\ echo' = echo \ {d}
  /\ IF Refused(d) THEN UNCHANGED controllerVars ELSE Ingest(d)
  /\ UNCHANGED <<call, base, wire, mac, outbox, troubles>>

-----------------------------------------------------------------------------
DesktopInit ==
  /\ command = [r \in Requests |-> "absent"]
  /\ call = [r \in Requests |-> "none"]
  /\ receipts = {} /\ results = {}
  /\ picture = [at |-> <<1, 1>>, control |-> "ready"]
  /\ kept = {1}
  /\ base = [r \in Requests |-> 0]
  /\ wire = {}
  /\ mac = [revision |-> 1, taken |-> 1,
            work |-> [r \in Requests |-> "none"], at |-> [r \in Requests |-> 0]]
  /\ outbox = <<>> /\ echo = {} /\ troubles = 0

DesktopNext ==
  \/ \E r \in Requests : \/ Prepare(r) \/ Publish(r) \/ Mark(r) \/ Sweep(r)
                         \/ LoseCommand(r) \/ TakeCommand(r)
                         \/ \E s \in Final : FinishCommand(r, s)
  \/ RestartController \/ OwnerWorks \/ TakeSnapshot
  \/ Deliver \/ AckLost \/ ConnectionBreaks
  \/ \E d \in echo : DeliverEcho(d)

DesktopSpec == DesktopInit /\ [][DesktopNext]_desktopVars

-----------------------------------------------------------------------------
\* A control command leaves for the Mac only when no earlier one can still
\* be working there, and only on a picture of the task at least as new as the
\* last outcome the Controller has stored, whatever the sweep, a restart in
\* the middle of a publish and resent documents do
\* (desktop_service._submit_locked, desktop_store.active_command).
AtTheMac == {r \in Controls : r \in wire \/ mac.work[r] = "working"}
ControlInOrder ==
  /\ Cardinality(AtTheMac) <= 1
  /\ picture.control = "ready" =>
       \A r \in Controls : command[r] = "confirmed" => picture.at[1] >= mac.at[r]

\* The journals tell what happened at the Mac: a request that failed because
\* the Runner was offline never reached it, a settled one ended as recorded,
\* and when nothing is left to deliver every outcome of a command has been
\* recorded, the late ones too.  Nothing the outbox holds is ever refused,
\* for that would block all that follows (desktop_store.ingest_receipt,
\* _DesktopCreateJournal.ingest_receipt, desktop_service.receive).
JournalTellsTheMac ==
  /\ \A r \in Requests :
       /\ command[r] = "failed" =>
            mac.work[r] = "failed" \/ (mac.work[r] = "none" /\ r \notin wire)
       /\ command[r] \in Final \ {"failed", "unknown"} => mac.work[r] = command[r]
       /\ outbox = <<>> /\ mac.work[r] \in Final /\ r \notin Reads =>
            command[r] = mac.work[r]
  /\ outbox # <<>> => ~Refused(Head(outbox))
=============================================================================
