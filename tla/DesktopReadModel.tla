------------------------ MODULE DesktopReadModel ------------------------
(***************************************************************************)
(* The Controller's picture of one Desktop host: its state, the snapshots  *)
(* of its threads, the event log with its pruning, and how a reader that   *)
(* reconnects with a cursor is answered.  The Mac is external: it numbers  *)
(* revisions, snapshots, events and host states, and hands documents to a  *)
(* first-in-first-out outbox.  An old Mac puts no sequence on a snapshot.  *)
(***************************************************************************)
EXTENDS Naturals, Sequences, FiniteSets, FiniteSetsExt

CONSTANTS Threads,
          Edited,         \* the threads that change (the others are known and run)
          MaxQueue,       \* bound on the outbox
          SnapshotsPerThread, EventsPerHost,
          MaxChanges,     \* bound on what happens at the Mac
          MaxDocuments,   \* bound on the documents it writes
          MaxEvents,      \* bound on the events among them
          MaxBreaks       \* bound on broken connections

ASSUME ReadAssumption ==
  /\ Edited \subseteq Threads
  /\ SnapshotsPerThread \in Nat \ {0} /\ EventsPerHost \in Nat \ {0}

VARIABLES source,    \* the Mac
          draft,     \* a snapshot taken and not yet in the outbox
          queue,     \* the outbox
          copies,    \* documents a dead connection's handler still posts
          host,      \* desktop_hosts: the document that was bound
          row,       \* desktop_threads
          stored,    \* desktop_snapshots: per thread, revision -> document
          log,       \* every event ever given a cursor
          held,      \* cursors of the events still stored
          pruned,    \* desktop_thread_event_watermarks
          prunedHost, breaks

readVars == <<host, row, stored, log, held, pruned, prunedHost>>
desktopReadVars == <<source, draft, queue, copies, readVars, breaks>>

NoRow == [rev |-> 0]
NoNumber == 0      \* a missing sequence or control revision
Degraded == {"load_required", "control_offline"}
NonWritable == Degraded \cup {"read_only"}
NoView == [meta |-> 0, control |-> "none", crev |-> NoNumber]

-----------------------------------------------------------------------------
(* The Mac (external).                                                     *)

Changes(t, v, rev) ==
  /\ source.changes < MaxChanges
  /\ source' = [source EXCEPT !.changes = @ + 1, !.rev[t] = rev, !.view[t] = v]
  /\ UNCHANGED <<draft, queue, copies, readVars, breaks>>

Advance(t) == Changes(t, source.view[t], source.rev[t] + 1)
Retitle(t) == Changes(t, [source.view[t] EXCEPT !.meta = @ + 1], source.rev[t])
Seen(t, control, crev) ==
  [meta |-> source.view[t].meta, control |-> control, crev |-> crev]
LoseControl(t) ==
  \E c \in NonWritable \ {source.view[t].control} :
    Changes(t, Seen(t, c, NoNumber), source.rev[t])
GainControl(t) == Changes(t, Seen(t, "ready", source.changes + 2), source.rev[t])
ChangeHost ==
  /\ source.changes < MaxChanges
  /\ source' = [source EXCEPT !.changes = @ + 1, !.host = @ + 1]
  /\ UNCHANGED <<draft, queue, copies, readVars, breaks>>
UpgradeMac ==
  /\ ~source.sequenced
  /\ source' = [source EXCEPT !.sequenced = TRUE]
  /\ UNCHANGED <<draft, queue, copies, readVars, breaks>>

\* `at` tells two documents with the same content apart, as created_at does.
DocumentOf(kind, t, seq, view, history) ==
  [kind |-> kind, thread |-> t, rev |-> IF kind = "host" THEN 0 ELSE source.rev[t],
   seq |-> seq, view |-> view, history |-> history,
   host |-> IF source.sequenced THEN source.host ELSE NoNumber, at |-> source.clock + 1]
Written(doc) == [source EXCEPT !.clock = @ + 1]

SnapshotOf(t) ==
  DocumentOf("snapshot", t, IF source.sequenced THEN source.clock + 1 ELSE NoNumber,
             source.view[t], FALSE)

\* An old Mac writes in order; a new one may write a snapshot late.
WriteSnapshot(t) ==
  /\ source.clock < MaxDocuments /\ Len(queue) < MaxQueue
  /\ source' = [Written(SnapshotOf(t)) EXCEPT !.shown[t] = source.rev[t]]
  /\ \/ queue' = Append(queue, SnapshotOf(t)) /\ UNCHANGED draft
     \/ /\ source.sequenced /\ draft = <<>> /\ source.shown[t] = source.rev[t]
        /\ draft' = <<SnapshotOf(t)>> /\ UNCHANGED queue
  /\ UNCHANGED <<copies, readVars, breaks>>
WriteDraft ==
  /\ draft # <<>> /\ queue' = queue \o draft /\ draft' = <<>>
  /\ UNCHANGED <<source, copies, readVars, breaks>>
WriteEvent(t, history) ==
  /\ source.clock < MaxDocuments /\ Len(queue) < MaxQueue /\ source.events < MaxEvents
  /\ source.shown[t] = source.rev[t]
  /\ source' = [Written("event") EXCEPT !.events = @ + 1]
  /\ queue' = Append(queue, DocumentOf("event", t, source.events + 1, NoView, history))
  /\ UNCHANGED <<draft, copies, readVars, breaks>>
WriteHost ==
  /\ source.clock < MaxDocuments /\ Len(queue) < MaxQueue /\ source.sequenced
  /\ source' = Written("host")
  /\ queue' = Append(queue, DocumentOf("host", "none", source.host, NoView, FALSE))
  /\ UNCHANGED <<draft, copies, readVars, breaks>>

-----------------------------------------------------------------------------
(* _bind_host: an older sequence is ignored, the same one only refreshed   *)
(* by a later time.                                                        *)

HostAfter(d) ==
  IF d.host = NoNumber
  THEN host
  ELSE IF d.host > host.seq \/ (d.host = host.seq /\ d.at > host.at)
       THEN [seq |-> d.host, at |-> d.at] ELSE host

-----------------------------------------------------------------------------
(* ingest_snapshot: what a snapshot does to its thread's row.              *)

Differs(r, d) ==
  (IF r.view.meta # d.view.meta THEN {"metadata"} ELSE {})
  \cup (IF r.view.control # d.view.control \/ r.view.crev # d.view.crev
        THEN {"control"} ELSE {})
  \cup (IF (r.seq = NoNumber) # (d.seq = NoNumber) THEN {"fields"} ELSE {})

\* _same_revision_refresh
ControlRefresh(r, d, changed) ==
  IF ~(changed \subseteq {"control"}) THEN "conflict"
  ELSE IF changed = {} THEN "refreshed"
  ELSE IF d.view.crev = NoNumber
       THEN IF r.view.crev = NoNumber
            THEN IF {r.view.control, d.view.control} \subseteq NonWritable
                 THEN "refreshed" ELSE "conflict"
            ELSE IF d.view.control \in Degraded THEN "latched" ELSE "conflict"
  ELSE IF r.view.crev = NoNumber \/ d.view.crev > r.view.crev THEN "refreshed"
  ELSE IF d.view.crev < r.view.crev THEN "stale" ELSE "conflict"

\* _legacy_sequence_refresh: a row without a sequence gets one from the same
\* document enriched.
LegacyRefresh(r, d) ==
  IF r.rev \in DOMAIN stored[d.thread] /\ stored[d.thread][r.rev] = r.doc
  THEN ControlRefresh(r, d, Differs(r, d) \ {"fields"}) ELSE "conflict"

SameRevision(r, d) ==
  IF d.seq = NoNumber THEN ControlRefresh(r, d, Differs(r, d))
  ELSE IF r.seq = NoNumber THEN LegacyRefresh(r, d)
  ELSE IF d.seq < r.seq THEN "stale"
  ELSE IF d.seq = r.seq THEN IF Differs(r, d) = {} THEN "refreshed" ELSE "conflict"
  ELSE IF Differs(r, d) = {"metadata"} THEN "refreshed"
  ELSE ControlRefresh(r, d, Differs(r, d))

SnapshotVerdict(d) ==
  LET r == row[d.thread] IN
  IF \E v \in DOMAIN stored[d.thread] : stored[d.thread][v] = d THEN "duplicate"
  ELSE IF d.rev > r.rev THEN "stored"
  ELSE IF d.rev < r.rev THEN "stale" ELSE SameRevision(r, d)

Greater(a, b) == IF a > b THEN a ELSE b

\* A control-less view simply replaces the row: a mutant of Latched.
ViewReplaced(r, d) == d.view
Latched(r, d) == [r.view EXCEPT !.control = d.view.control]

RowAfter(r, d, verdict) ==
  [rev |-> d.rev, doc |-> d, taken |-> IF r.rev = 0 THEN d.at ELSE Greater(r.taken, d.at),
   seq |-> IF d.seq = NoNumber /\ d.rev = r.rev THEN r.seq ELSE d.seq,
   view |-> IF verdict = "latched" THEN Latched(r, d) ELSE d.view]

NewestOf(n, S) == {v \in S : Cardinality({w \in S : w > v}) < n}

\* _prune_snapshots
StoredAfter(d) ==
  [v \in NewestOf(SnapshotsPerThread, DOMAIN stored[d.thread] \cup {d.rev}) |->
     IF v = d.rev THEN d ELSE stored[d.thread][v]]

PutSnapshot(d) ==
  LET verdict == SnapshotVerdict(d)
      changed == verdict \in {"stored", "refreshed", "latched"} IN
  /\ host' = IF verdict \in {"duplicate", "conflict"} THEN host ELSE HostAfter(d)
  /\ row' = IF changed THEN [row EXCEPT ![d.thread] = RowAfter(@, d, verdict)] ELSE row
  /\ stored' = IF changed THEN [stored EXCEPT ![d.thread] = StoredAfter(d)] ELSE stored
  /\ UNCHANGED <<log, held, pruned, prunedHost>>

-----------------------------------------------------------------------------
(* ingest_event and _prune_events.                                         *)

EventVerdict(d) ==
  LET r == row[d.thread] IN
  IF \E c \in held : log[c] = d THEN "duplicate"
  ELSE IF \E c \in held : log[c].seq >= d.seq THEN "stale"
  ELSE IF r.rev = 0 THEN "snapshot_required"
  ELSE IF d.rev \in DOMAIN stored[d.thread] \/ (d.history /\ d.rev <= r.rev) THEN "stored"
  ELSE IF d.rev < r.rev THEN "stale" ELSE "snapshot_required"

\* Only the thread of the new event gets a watermark: a mutant.
WatermarkOf(t, gone, d) ==
  IF t = d.thread /\ gone # {} THEN Max(gone) ELSE pruned[t]
Watermark(t, gone, d) ==
  LET mine == {c \in gone : log[c].thread = t}
  IN  IF mine = {} THEN pruned[t] ELSE Greater(pruned[t], Max(mine))

PutEvent(d) ==
  /\ IF EventVerdict(d) = "stored"
     THEN LET all == held \cup {Len(log) + 1}
              gone == all \ NewestOf(EventsPerHost, all) IN
          /\ log' = Append(log, d)
          /\ held' = all \ gone
          /\ pruned' = [t \in Threads |-> Watermark(t, gone, d)]
          /\ prunedHost' = IF gone = {} THEN prunedHost ELSE Max(gone)
     ELSE UNCHANGED <<log, held, pruned, prunedHost>>
  /\ UNCHANGED <<host, row, stored>>

PutHost(d) ==
  /\ host' = HostAfter(d)
  /\ UNCHANGED <<row, stored, log, held, pruned, prunedHost>>

IngestDocument(d) ==
  CASE d.kind = "snapshot" -> PutSnapshot(d)
    [] d.kind = "event" -> PutEvent(d)
    [] OTHER -> PutHost(d)

\* What the Controller refused although the Relay must acknowledge it:
\* CONSUMED_EVENT_TYPE_REJECTIONS.  The second form is a mutant.
BlocksOrConflicts(d) ==
  \/ d.kind = "event" /\ EventVerdict(d) = "snapshot_required"
  \/ d.kind = "snapshot" /\ SnapshotVerdict(d) = "conflict"
Blocks(d) == d.kind = "event" /\ EventVerdict(d) = "snapshot_required"

DeliverHead ==
  /\ queue # <<>> /\ ~Blocks(Head(queue))
  /\ IngestDocument(Head(queue))
  /\ queue' = Tail(queue)
  /\ UNCHANGED <<source, draft, copies, breaks>>

\* The connection breaks: the head is sent again, and the first copy was
\* ingested already, or is on its way still, or is lost.
BreakConnection ==
  /\ queue # <<>> /\ breaks < MaxBreaks /\ breaks' = breaks + 1
  /\ \/ ~Blocks(Head(queue)) /\ IngestDocument(Head(queue)) /\ UNCHANGED copies
     \/ copies' = copies \cup {Head(queue)} /\ UNCHANGED readVars
  /\ UNCHANGED <<source, draft, queue>>

DeliverCopy(d) ==
  /\ copies' = copies \ {d}
  /\ IF Blocks(d) THEN UNCHANGED readVars ELSE IngestDocument(d)
  /\ UNCHANGED <<source, draft, queue, breaks>>

-----------------------------------------------------------------------------
\* The ready frame of _stream: may this cursor be continued from?
ScopeTail(scope) ==
  LET mine == {c \in held : log[c].thread \in scope} IN IF mine = {} THEN 0 ELSE Max(mine)
EventsAfter(scope, c) == {k \in held : k > c /\ log[k].thread \in scope}
Resync(scope, c, through) == c > ScopeTail(scope) \/ (through > 0 /\ c <= through)

FirstView == [meta |-> 1, control |-> "ready", crev |-> 1]
FirstSnapshot(t) == [kind |-> "snapshot", thread |-> t, rev |-> 1, seq |-> NoNumber,
                     view |-> FirstView, history |-> FALSE, host |-> NoNumber, at |-> 0]

ReadInit ==
  /\ source = [rev |-> [t \in Threads |-> 1],
               shown |-> [t \in Threads |-> IF t \in Edited THEN 0 ELSE 1],
               view |-> [t \in Threads |-> FirstView],
               host |-> 1, events |-> 0, clock |-> 0, changes |-> 0, sequenced |-> FALSE]
  /\ draft = <<>> /\ queue = <<>> /\ copies = {} /\ breaks = 0
  /\ host = [seq |-> NoNumber, at |-> 0]
  /\ row = [t \in Threads |-> IF t \in Edited THEN NoRow
                              ELSE RowAfter(NoRow, FirstSnapshot(t), "stored")]
  /\ stored = [t \in Threads |-> IF t \in Edited THEN <<>> ELSE <<FirstSnapshot(t)>>]
  /\ log = <<>> /\ held = {} /\ pruned = [t \in Threads |-> 0] /\ prunedHost = 0

ReadNext ==
  \/ \E t \in Edited : \/ Advance(t) \/ Retitle(t) \/ LoseControl(t) \/ GainControl(t)
                       \/ WriteSnapshot(t)
  \/ \E t \in Threads : \E h \in BOOLEAN : WriteEvent(t, h)
  \/ ChangeHost \/ UpgradeMac \/ WriteDraft \/ WriteHost
  \/ DeliverHead \/ BreakConnection \/ \E d \in copies : DeliverCopy(d)

ReadSpec == ReadInit /\ [][ReadNext]_desktopReadVars

-----------------------------------------------------------------------------
\* The picture of a host and its threads never goes back: a revision, a
\* snapshot sequence, a control revision and the host's sequence do not fall,
\* and a task that is not controllable becomes so only on a document written
\* after the one that took control away, though documents are resent, late or
\* without a sequence (desktop_store.ingest_snapshot, _same_revision_refresh,
\* _bind_host).
PictureNeverGoesBack ==
  [][/\ host'.seq >= host.seq
     /\ \A t \in Threads : row[t] # NoRow =>
          /\ row'[t].rev >= row[t].rev
          /\ row'[t].rev = row[t].rev =>
               row'[t].seq >= row[t].seq /\ row'[t].view.crev >= row[t].view.crev
          /\ row'[t].view.control = "ready" /\ row[t].view.control # "ready" =>
               row'[t].taken > row[t].taken]_desktopReadVars

\* No event is missed in silence: a reader that comes back with a cursor is
\* told to start again or is given every later event of its scope, whichever
\* threads the host's pruning has hit; and no document of the outbox is
\* refused for ever, so that the events behind it do arrive
\* (desktop_store.ingest_event, _prune_events; desktop_service._stream;
\* the Relay's CONSUMED_EVENT_TYPE_REJECTIONS).
EventsAreNotMissed ==
  /\ queue # <<>> => ~Blocks(Head(queue))
  /\ \A c \in 0..Len(log) :
       /\ Resync(Threads, c, prunedHost) \/ EventsAfter(Threads, c) = (c + 1)..Len(log)
       /\ \A t \in Threads :
            \/ Resync({t}, c, pruned[t])
            \/ EventsAfter({t}, c) = {k \in (c + 1)..Len(log) : log[k].thread = t}
=============================================================================
