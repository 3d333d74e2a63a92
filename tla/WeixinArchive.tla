---------------------------- MODULE WeixinArchive ----------------------------
(* Pictures that arrive in one message and are filed by another: how the      *)
(* Weixin Gateway stores a message and decides, in the same transaction,      *)
(* which attachments its text authorizes the Controller to archive            *)
(* (weixin_gateway/store.py: store_message, _correlate_media_archive), and    *)
(* what the end of the message's job does to that decision.                   *)
(*                                                                            *)
(* Abstractions.  One conversation of one person over one account: every      *)
(* query is within that scope.  A message is what media_archive_instruction   *)
(* makes of it: how many attachments it carries, what its text says and the   *)
(* count it names (0: none).  Its number is its rowid; its attachments are    *)
(* <<message, k>>.  A request stands under the number of the message that     *)
(* asked for it, with the set of its attachments: their order is left out.    *)
(* Files of the spool are as their rows say.                                  *)
EXTENDS Naturals, Sequences, FiniteSets

CONSTANTS
    Contents,     \* what a message may be: [images, says, count]
    MaxMessages,  \* how many messages arrive
    MaxItems      \* MEDIA_ARCHIVE_MAX_ATTACHMENTS

ASSUME ArchiveAssumption ==
    /\ \A c \in Contents : /\ c.says \in {"nothing", "other", "later", "these", "cancel", "archive"}
                           /\ c.images \in Nat /\ c.count \in Nat
    /\ MaxMessages \in Nat /\ MaxItems \in Nat \ {0}

VARIABLES
    log,       \* inbound_messages in the order of their rowids
    spool,     \* attachments: "ready", "consumed" or "gone"
    requests,  \* media_archive_requests with their attachments
    ended      \* the messages mark_finished was called for, and how

archiveVars == <<log, spool, requests, ended>>

Live == {"pending", "bound", "completed"}
ArchiveRequest(source, state, bound, items) ==
    [source |-> source, state |-> state, bound |-> bound, items |-> items]
NoRequest == ArchiveRequest("none", "none", 0, {})
Numbers == 1 .. MaxMessages

ArchiveInit == /\ log = << >>
               /\ spool = << >>
               /\ requests = [m \in Numbers |-> NoRequest]
               /\ ended = << >>

Items(m, n) == {m} \X (1 .. n)
Reserved(a) == \E m \in Numbers : requests[m].state \in Live /\ a \in requests[m].items

(* Mutant: attachments of completed requests count as available again.        *)
AvailableAgain(m) ==
    {a \in Items(m, log[m].images) :
        /\ spool[m][a[2]] = "ready"
        /\ ~ \E r \in Numbers : requests[r].state \in {"pending", "bound"} /\ a \in requests[r].items}

(* _available_message_attachments                                             *)
Available(m) == {a \in Items(m, log[m].images) : spool[m][a[2]] = "ready" /\ ~ Reserved(a)}

(* The messages _recent_media_archive_batch stops at: pictures all used, or   *)
(* a text that was no failed attempt to file them.                            *)
Stored(m) == \E k \in DOMAIN spool[m] : spool[m][k] # "gone"
FailedAttempt(m) == /\ \E r \in Numbers : requests[r].bound = m
                    /\ LET r == CHOOSE r \in Numbers : requests[r].bound = m IN requests[r].state = "failed"
Stops(m) == /\ Available(m) = {}
            /\ Stored(m) \/ (log[m].says # "nothing" /\ ~ FailedAttempt(m))

(* It walks back from the newest message, at most until the count is reached. *)
Collected(from) == UNION {Available(m) : m \in from .. Len(log)}
Enough(from, count) == Cardinality(Collected(from)) >= IF count = 0 THEN MaxItems + 1 ELSE count
RecentBatch(count) ==
    LET stops == {m \in DOMAIN log : Stops(m) \/ (m < Len(log) /\ Enough(m + 1, count))}
    IN  Collected(IF stops = {} THEN 1 ELSE 1 + CHOOSE m \in stops : \A n \in stops : n <= m)

Awaiting == {m \in Numbers : requests[m].state = "pending"}

(* What the transaction of store_message does to the requests when message m, *)
(* of content c, arrives: the pending request it finds decides first.         *)
Set(m, state) == [requests EXCEPT ![m].state = state]

JoinPending(p, m, c) ==
    LET items == requests[p].items \cup Items(m, c.images)
        expected == log[p].count IN
    IF c.says = "archive" THEN Set(p, "cancelled")
    ELSE IF Cardinality(items) > MaxItems \/ (expected # 0 /\ Cardinality(items) > expected) THEN Set(p, "failed")
    ELSE [requests EXCEPT ![p] = IF expected # 0 /\ Cardinality(items) < expected
                                 THEN [@ EXCEPT !.items = items]
                                 ELSE ArchiveRequest("intent_first", "bound", m, items)]

Announce(m) == [n \in Numbers |-> IF n = m THEN ArchiveRequest("intent_first", "pending", 0, {})
                                  ELSE IF n \in Awaiting THEN [requests[n] EXCEPT !.state = "cancelled"]
                                  ELSE requests[n]]

FileRecent(m, c) ==
    LET batch == RecentBatch(c.count) IN
    IF batch = {} \/ (c.count # 0 /\ Cardinality(batch) # c.count) \/ Cardinality(batch) > MaxItems
    THEN requests
    ELSE [requests EXCEPT ![m] = ArchiveRequest("image_first", "bound", m, batch)]

Correlated(m, c) ==
    CASE c.says = "cancel" -> IF Awaiting = {} THEN requests ELSE Set(CHOOSE p \in Awaiting : TRUE, "cancelled")
      [] c.says # "cancel" /\ c.images > 0 /\ Awaiting # {} -> JoinPending(CHOOSE p \in Awaiting : TRUE, m, c)
      [] c.images = 0 /\ c.says = "later" -> Announce(m)
      [] c.images = 0 /\ c.says = "these" -> FileRecent(m, c)
      [] OTHER -> requests

StoreMessage(c) ==
    LET m == Len(log) + 1 IN
    /\ m <= MaxMessages
    /\ log' = Append(log, c)
    /\ spool' = Append(spool, [k \in 1 .. c.images |-> "ready"])
    /\ requests' = Correlated(m, c)
    /\ ended' = Append(ended, "no")

(* mark_finished: the request bound to the message ends with it.              *)
FinishMessage(m, success) ==
    /\ m \in DOMAIN log /\ ended[m] = "no"
    /\ ended' = [ended EXCEPT ![m] = IF success THEN "completed" ELSE "failed"]
    /\ requests' = [r \in Numbers |->
          IF requests[r].state = "bound" /\ requests[r].bound = m
          THEN [requests[r] EXCEPT !.state = IF success THEN "completed" ELSE "failed"] ELSE requests[r]]
    /\ UNCHANGED <<log, spool>>

(* The next message's arrival finds the intent older than its lifetime.       *)
IntentExpires(m) == /\ m \in Awaiting
                    /\ requests' = Set(m, "expired")
                    /\ UNCHANGED <<log, spool, ended>>

(* consume_attachment, or acknowledge_attachment after a streamed read.       *)
Consume(a) == /\ a[1] \in DOMAIN log /\ a[2] \in DOMAIN spool[a[1]]
              /\ spool[a[1]][a[2]] = "ready"
              /\ spool' = [spool EXCEPT ![a[1]][a[2]] = "consumed"]
              /\ UNCHANGED <<log, requests, ended>>

(* cleanup_spool deletes what was consumed or has expired; an expired row is  *)
(* not available before that either.                                          *)
CleanupSpool(a) == /\ a[1] \in DOMAIN log /\ a[2] \in DOMAIN spool[a[1]]
                   /\ spool[a[1]][a[2]] # "gone"
                   /\ spool' = [spool EXCEPT ![a[1]][a[2]] = "gone"]
                   /\ UNCHANGED <<log, requests, ended>>

ArchiveNext ==
    \/ \E c \in Contents : StoreMessage(c)
    \/ \E m \in Numbers : IntentExpires(m)
    \/ \E m \in Numbers, success \in BOOLEAN : FinishMessage(m, success)
    \/ \E a \in Numbers \X (1 .. MaxItems + 1) : Consume(a) \/ CleanupSpool(a)

ArchiveSpec == ArchiveInit /\ [][ArchiveNext]_archiveVars

(* No attachment is authorized twice: it belongs to at most one request that  *)
(* is pending, bound or completed, however many messages ask for it, fail,    *)
(* are cancelled or come again (_available_message_attachments).  A bound     *)
(* request has the number of attachments its text named, and it is bound to   *)
(* a message that has not ended.                                              *)
ReservedOnce ==
    /\ \A m, n \in Numbers : (m # n /\ requests[m].state \in Live /\ requests[n].state \in Live)
          => requests[m].items \cap requests[n].items = {}
    /\ Cardinality(Awaiting) <= 1
    /\ \A m \in Numbers : requests[m].state = "bound" =>
          /\ ended[requests[m].bound] = "no"
          /\ Cardinality(requests[m].items) <= MaxItems
          /\ log[m].count # 0 => Cardinality(requests[m].items) = log[m].count
=============================================================================
