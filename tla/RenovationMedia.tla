-------------------------- MODULE RenovationMedia --------------------------
(***************************************************************************)
(* The Renovation Hub's media (renovation_hub/media.py and its handlers in *)
(* web.py).  An upload is received into a staging file by a coroutine and  *)
(* finalized in a thread: the bytes become a file named by their digest,   *)
(* which all uploads of the same content share, and one transaction then   *)
(* records the media.  Threads interleave at every step.                   *)
(*                                                                         *)
(* Abstractions.  A key fixes the request and its bytes (another request   *)
(* under it is refused as a conflict).  A transaction that is refused      *)
(* (writer stopped, project or linked object gone, database busy) is a     *)
(* choice.  Previews, durations and sizes are left out, so a file named by *)
(* a digest holds those bytes; fail_upload, one statement and one unlink,  *)
(* is one step.                                                            *)
(***************************************************************************)
EXTENDS Naturals, FiniteSets

CONSTANTS
    MediaThreads,     \* coroutines and threads at work on uploads
    Uploads,      \* idempotency keys
    PageUploads,         \* those of the browser; the others are Weixin's
    Content,      \* the digest of each upload's bytes
    MaxKills      \* bound on stops of the process

ASSUME MediaAssumption == PageUploads \subseteq Uploads /\ MaxKills \in Nat

VARIABLES
    upload,    \* table uploads: the state of each
    part,      \* its staging file: "none", "partial" or "whole"
    contents,  \* those with a file in the media root
    assets,    \* how many media_assets rows each upload made
    results,   \* uploads with a row in media_ingest_results
    thread,   \* [at, on, made]: made says it created the content's file
    robbed,    \* history: contents recorded while their file was being removed, until
               \* the same bytes are stored again
    kills

mediaVars == <<upload, part, contents, assets, results, thread, robbed, kills>>

AtRest == [at |-> "free", on |-> "none", made |-> FALSE]
ThreadGoes(h, at) == thread' = [thread EXCEPT ![h].at = at]
ThreadEnds(h) == thread' = [thread EXCEPT ![h] = AtRest]
SetUpload(k, state) == upload' = [upload EXCEPT ![k] = state]
Staged(k, bytes) == part' = [part EXCEPT ![k] = bytes]

MediaInit ==
    /\ upload = [k \in Uploads |-> "none"] /\ part = [k \in Uploads |-> "none"]
    /\ contents = {} /\ assets = [k \in Uploads |-> 0] /\ results = {}
    /\ thread = [h \in MediaThreads |-> AtRest] /\ robbed = {} /\ kills = 0

\* fail_upload: whatever the row says by now.
FailUpload(k) == SetUpload(k, "failed") /\ Staged(k, "none")

-----------------------------------------------------------------------------
(* The browser's create; asked again it finds the upload or its result.     *)
CreateUpload(k) ==
    /\ k \in PageUploads /\ upload[k] = "none" /\ k \notin results
    /\ SetUpload(k, "created")
    /\ UNCHANGED <<part, contents, assets, results, thread, robbed, kills>>

\* The staging file is opened exclusively: a second request, or one after a
\* stop, finds it there and fails the upload.
Opens(h, k) ==
    IF part[k] = "none"
    THEN /\ SetUpload(k, "uploading") /\ Staged(k, "partial")
         /\ thread' = [thread EXCEPT ![h] = [at |-> "streaming", on |-> k, made |-> FALSE]]
    ELSE FailUpload(k) /\ UNCHANGED thread

ReceivePage(h, k) ==
    /\ thread[h] = AtRest /\ k \in PageUploads /\ upload[k] \in {"created", "uploading"}
    /\ Opens(h, k)
    /\ UNCHANGED <<contents, assets, results, robbed, kills>>

ReceiveWeixin(h, k) ==
    /\ thread[h] = AtRest /\ k \notin PageUploads /\ k \notin results /\ upload[k] = "none"
    /\ Opens(h, k)
    /\ UNCHANGED <<contents, assets, results, robbed, kills>>

\* The last chunk.  A page's upload that failed meanwhile stays failed.
Received(h) ==
    LET k == thread[h].on IN
    /\ thread[h].at = "streaming"
    /\ IF k \notin PageUploads
       THEN ThreadGoes(h, "check") /\ UNCHANGED upload
            /\ Staged(k, IF part[k] = "partial" THEN "whole" ELSE part[k])
       ELSE /\ ThreadEnds(h)
            /\ IF upload[k] \in {"created", "uploading"}
               THEN SetUpload(k, "uploaded")
                    /\ Staged(k, IF part[k] = "partial" THEN "whole" ELSE part[k])
               ELSE FailUpload(k)
    /\ UNCHANGED <<contents, assets, results, robbed, kills>>

\* Too many bytes, too few, other bytes, or a lost connection.
ReceiveFails(h) ==
    /\ thread[h].at = "streaming"
    /\ FailUpload(thread[h].on) /\ ThreadEnds(h)
    /\ UNCHANGED <<contents, assets, results, robbed, kills>>

\* The page's complete; of a ready upload it returns the recorded result.
CompleteUpload(h, k) ==
    /\ thread[h] = AtRest /\ k \in PageUploads /\ upload[k] = "uploaded"
    /\ thread' = [thread EXCEPT ![h] = [at |-> "check", on |-> k, made |-> FALSE]]
    /\ UNCHANGED <<upload, part, contents, assets, results, robbed, kills>>

-----------------------------------------------------------------------------
(* finalize_upload, in a thread.                                            *)
CheckStaging(h) ==
    LET k == thread[h].on IN
    /\ thread[h].at = "check"
    /\ IF part[k] = "whole"
       THEN ThreadGoes(h, "exists") /\ UNCHANGED <<upload, part>>
       ELSE FailUpload(k) /\ ThreadEnds(h)
    /\ UNCHANGED <<contents, assets, results, robbed, kills>>

LookForContent(h) ==
    LET k == thread[h].on IN
    /\ thread[h].at = "exists"
    /\ IF Content[k] \in contents
       THEN Staged(k, "none") /\ ThreadGoes(h, "record")
       ELSE ThreadGoes(h, "store") /\ UNCHANGED part
    /\ UNCHANGED <<upload, contents, assets, results, robbed, kills>>

\* A failed upload of the same bytes has found no media of them and unlinks next.
RemovalPending(c) ==
    \E h \in MediaThreads : thread[h].at = "unlink" /\ Content[thread[h].on] = c

\* Moved, or copied beside the target and renamed; without its staging file
\* the thread fails and the upload's state stays.
StoreContent(h) ==
    LET k == thread[h].on IN
    /\ thread[h].at = "store"
    /\ IF part[k] = "whole"
       THEN /\ contents' = contents \cup {Content[k]} /\ Staged(k, "none")
            /\ thread' = [thread EXCEPT ![h] = [at |-> "record", on |-> k, made |-> TRUE]]
            /\ robbed' = IF RemovalPending(Content[k]) THEN robbed ELSE robbed \ {Content[k]}
       ELSE ThreadEnds(h) /\ UNCHANGED <<contents, part, robbed>>
    /\ UNCHANGED <<upload, assets, results, kills>>

\* media_ingest_results holds one row of a key.
RecordedAgain(k) == TRUE
Unrecorded(k) == k \notin results

BeingRemoved(c) == c \notin contents \/ RemovalPending(c)

RecordMedia(h) ==
    LET k == thread[h].on IN
    /\ thread[h].at = "record" /\ Unrecorded(k)
    /\ assets' = [assets EXCEPT ![k] = @ + 1]
    /\ results' = results \cup {k} /\ SetUpload(k, "ready") /\ ThreadEnds(h)
    /\ robbed' = IF BeingRemoved(Content[k]) THEN robbed \cup {Content[k]} ELSE robbed
    /\ UNCHANGED <<part, contents, kills>>

\* Rolled back; only the thread that made the file looks whether to remove it.
RecordRefused(h) ==
    /\ thread[h].at = "record"
    /\ IF thread[h].made THEN ThreadGoes(h, "look") ELSE ThreadEnds(h)
    /\ UNCHANGED <<upload, part, contents, assets, results, robbed, kills>>

NeverReferenced(c) == FALSE
Referenced(c) == \E k \in Uploads : assets[k] > 0 /\ Content[k] = c

LookForReferences(h) ==
    /\ thread[h].at = "look"
    /\ IF Referenced(Content[thread[h].on]) THEN ThreadEnds(h) ELSE ThreadGoes(h, "unlink")
    /\ UNCHANGED <<upload, part, contents, assets, results, robbed, kills>>

UnlinkContent(h) ==
    /\ thread[h].at = "unlink"
    /\ contents' = contents \ {Content[thread[h].on]} /\ ThreadEnds(h)
    /\ UNCHANGED <<upload, part, assets, results, robbed, kills>>

\* The process stops; nothing is reconciled when it starts again.
KillHub ==
    /\ kills < MaxKills /\ kills' = kills + 1
    /\ thread' = [h \in MediaThreads |-> AtRest] /\ robbed' = robbed \ contents
    /\ UNCHANGED <<upload, part, contents, assets, results>>

MediaNext ==
    \/ \E k \in Uploads : CreateUpload(k)
    \/ \E h \in MediaThreads, k \in Uploads :
         ReceivePage(h, k) \/ ReceiveWeixin(h, k) \/ CompleteUpload(h, k)
    \/ \E h \in MediaThreads :
         \/ Received(h) \/ ReceiveFails(h)
         \/ CheckStaging(h) \/ LookForContent(h) \/ StoreContent(h)
         \/ RecordMedia(h) \/ RecordRefused(h)
         \/ LookForReferences(h) \/ UnlinkContent(h)
    \/ KillHub

MediaSpec == MediaInit /\ [][MediaNext]_mediaVars

-----------------------------------------------------------------------------
(* An upload becomes one media at most, however often it is completed and   *)
(* wherever the process stops; what is called ready has its media; and a    *)
(* media has its content, unless it was recorded while the clean-up of a    *)
(* failed upload of the same bytes, which had found no media of them, was   *)
(* removing the file, and the bytes were not stored again since             *)
(* (finalize_upload against its own repetition).                            *)
IngestedOnce ==
    \A k \in Uploads :
        /\ assets[k] = (IF k \in results THEN 1 ELSE 0)
        /\ upload[k] = "ready" => k \in results
        /\ assets[k] > 0 => Content[k] \in contents \cup robbed
=============================================================================
