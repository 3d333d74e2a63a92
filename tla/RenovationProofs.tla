-------------------------- MODULE RenovationProofs --------------------------
(***************************************************************************)
(* Theorems about the Renovation Hub: its attachments, its media and the   *)
(* cutover of its writer, which share no state, each for any number of     *)
(* requests, contents, packages and stops.                                 *)
(***************************************************************************)
EXTENDS RenovationAttachments, RenovationMedia, RenovationCutover, RenovationLedger,
        FiniteSetTheorems, TLAPS

-----------------------------------------------------------------------------
(* Attachments.  A file that no row refers to belongs either to the request  *)
(* under way, which created it and has not finished with it, or to a marker  *)
(* left behind; the request that unlinks has found no row, and none is       *)
(* recorded before it ends.                                                  *)

Places == {"idle", "begun", "marked", "written", "placed", "recorded",
           "failing", "checking", "unlinking", "cleared"}
Owning ==
    /\ attaching.created
    /\ attaching.at \in {"placed", "recorded", "failing", "checking", "unlinking"}

Typed ==
    /\ attaching \in [of : Attachments \cup {NoAttachment}, at : Places,
                      marker : BOOLEAN, temporary : BOOLEAN, created : BOOLEAN]
    /\ abandoned \subseteq Attachments /\ scraps \subseteq Attachments
    /\ rows \subseteq Attachments /\ serving \in BOOLEAN

UnderWay ==
    /\ attaching.at # "idle" => serving /\ attaching.of \in Attachments
    /\ attaching.at = "idle" => attaching = NotAttaching

Marked ==
    /\ attaching.at \in {"marked", "written", "placed", "recorded"} => attaching.marker
    /\ attaching.created \/ attaching.temporary => attaching.marker
    /\ scraps \subseteq abandoned

Accounted == \A content \in stored :
    \/ Recorded(content)
    \/ \E k \in abandoned : Bytes[k] = content
    \/ Owning /\ ItsFile = content

Files ==
    /\ \A k \in rows : Bytes[k] \in stored
    /\ attaching.at = "placed" => ItsFile \in stored
    /\ attaching.at = "recorded" => attaching.of \in rows
    /\ attaching.at = "unlinking" => ~ Recorded(ItsFile)

AttachmentInv == Typed /\ UnderWay /\ Marked /\ Accounted /\ Files

-----------------------------------------------------------------------------
\* It holds of an empty directory.
LEMMA AttachmentInitInv == AttachmentsInit => AttachmentInv
BY DEF AttachmentsInit, AttachmentInv, Typed, UnderWay, Marked, Accounted, Files, Owning,
       Places, NotAttaching, Recorded

\* What ends where it is leaves its marker behind, and with it what it owned.
LEMMA AbandonInv ==
    ASSUME AttachmentInv, Abandon, serving' \in BOOLEAN
    PROVE  AttachmentInv'
<1>0. Typed /\ UnderWay /\ Marked /\ Accounted /\ Files
    BY DEF AttachmentInv
<1>1. attaching.marker => attaching.of \in Attachments
    BY <1>0 DEF UnderWay, NotAttaching
<1>2. attaching' = NotAttaching /\ attaching'.at = "idle" /\ ~ attaching'.marker
      /\ ~ attaching'.temporary /\ ~ attaching'.created
    BY DEF Abandon, NotAttaching
<1>3. /\ abandoned \subseteq abandoned' /\ abandoned' \subseteq Attachments
      /\ attaching.marker => attaching.of \in abandoned'
      /\ scraps' \subseteq abandoned' /\ stored' = stored /\ rows' = rows
    BY <1>0, <1>1 DEF Abandon, Typed, Marked
<1>4. Typed' /\ UnderWay' /\ Marked'
    BY <1>0, <1>2, <1>3 DEF Typed, UnderWay, Marked, Places, NotAttaching
<1>5. Accounted'
    BY <1>0, <1>3 DEF Accounted, Marked, Owning, Recorded, ItsFile
<1>6. Files'
    BY <1>0, <1>2, <1>3 DEF Files
<1> QED BY <1>4, <1>5, <1>6 DEF AttachmentInv

\* Every step of a request, a stop and the next start keep it
\* (attach_content, _reconcile_attachment_staging).
LEMMA AttachmentStepInv == AttachmentInv /\ [AttachmentsNext]_attachmentVars => AttachmentInv'
<1> SUFFICES ASSUME AttachmentInv, [AttachmentsNext]_attachmentVars
             PROVE  AttachmentInv'
    OBVIOUS
<1>0. Typed /\ UnderWay /\ Marked /\ Accounted /\ Files
    BY DEF AttachmentInv
<1>1. ASSUME NEW k \in Attachments, BeginAttach(k)
      PROVE  AttachmentInv'
  <2>1. attaching' = [of |-> k, at |-> "begun", marker |-> FALSE, temporary |-> FALSE,
                      created |-> FALSE]
      BY <1>1 DEF BeginAttach, NotAttaching
  <2>2. Typed' /\ UnderWay' /\ Marked' /\ Files'
      BY <1>0, <1>1, <2>1 DEF BeginAttach, Typed, UnderWay, Marked, Files, Places
  <2>3. Accounted'
      BY <1>0, <1>1, <2>1 DEF BeginAttach, Accounted, Recorded, Owning, UnderWay, NotAttaching
  <2> QED BY <2>2, <2>3 DEF AttachmentInv
<1>2. CASE WriteMarker \/ WriteTemporary
  <2>1. Typed' /\ UnderWay' /\ Marked' /\ Files'
      BY <1>0, <1>2 DEF WriteMarker, WriteTemporary, Typed, UnderWay, Marked, Files, Places
  <2>2. Accounted'
      BY <1>0, <1>2 DEF WriteMarker, WriteTemporary, Typed, Accounted, Recorded, Owning
  <2> QED BY <2>1, <2>2 DEF AttachmentInv
\* The file is new, and the request's, or accounted for already.
<1>3. CASE PlaceFile
  <2>1. Typed' /\ UnderWay' /\ Marked'
      BY <1>0, <1>3 DEF PlaceFile, Typed, UnderWay, Marked, Places
  <2>2. Files'
      BY <1>0, <1>3 DEF PlaceFile, Typed, Files, ItsFile
  <2>3. Accounted'
      BY <1>0, <1>3 DEF PlaceFile, Typed, Accounted, Recorded, Owning, ItsFile
  <2> QED BY <2>1, <2>2, <2>3 DEF AttachmentInv
<1>4. CASE CommitAttachment
  <2>1. attaching' = [attaching EXCEPT !.at = "recorded"] /\ attaching.of \in Attachments
      BY <1>0, <1>4 DEF CommitAttachment, UnderWay
  <2>2. Typed' /\ UnderWay' /\ Marked'
      BY <1>0, <1>4, <2>1 DEF CommitAttachment, Typed, UnderWay, Marked, Places
  <2>3. Files'
      BY <1>0, <1>4, <2>1 DEF CommitAttachment, Typed, Files, ItsFile
  <2>4. Accounted'
      BY <1>0, <1>4, <2>1 DEF CommitAttachment, Typed, Accounted, Recorded, Owning, ItsFile
  <2> QED BY <2>2, <2>3, <2>4 DEF AttachmentInv
\* What is recorded has its row, and what is cleared owns nothing any more.
<1>5. CASE RemoveMarker
  <2>1. attaching' = NotAttaching /\ attaching'.at = "idle"
      BY <1>5 DEF RemoveMarker, NotAttaching
  <2>2. Typed' /\ UnderWay' /\ Marked' /\ Files'
      BY <1>0, <1>5, <2>1 DEF RemoveMarker, Typed, UnderWay, Marked, Files, Places, NotAttaching
  <2>3. Accounted'
      BY <1>0, <1>5, <2>1 DEF RemoveMarker, Files, Accounted, Recorded, Owning, ItsFile
  <2> QED BY <2>2, <2>3 DEF AttachmentInv
<1>6. CASE AttachFails
  <2>1. Typed' /\ UnderWay' /\ Marked' /\ Files'
      BY <1>0, <1>6 DEF AttachFails, Typed, UnderWay, Marked, Files, Places
  <2>2. Accounted'
      BY <1>0, <1>6 DEF AttachFails, Typed, Accounted, Recorded, Owning, ItsFile
  <2> QED BY <2>1, <2>2 DEF AttachmentInv
<1>7. CASE RollBack
  <2>1. Typed' /\ UnderWay' /\ Marked' /\ Files'
      BY <1>0, <1>7 DEF RollBack, Typed, UnderWay, Marked, Files, Places
  <2>2. Accounted'
      BY <1>0, <1>7 DEF RollBack, Typed, Accounted, Recorded, Owning, ItsFile
  <2> QED BY <2>1, <2>2 DEF AttachmentInv
\* A file with a row has no other owner, one without keeps it.
<1>8. CASE CheckReferences
  <2>1. Typed' /\ UnderWay' /\ Marked'
      BY <1>0, <1>8 DEF CheckReferences, Typed, UnderWay, Marked, Places
  <2>2. Files' /\ Accounted'
      BY <1>0, <1>8 DEF CheckReferences, MayUnlink, Typed, Files, Accounted, Recorded,
                 Owning, ItsFile
  <2> QED BY <2>1, <2>2 DEF AttachmentInv
<1>9. CASE UnlinkFile
  <2>1. Typed' /\ UnderWay' /\ Marked'
      BY <1>0, <1>9 DEF UnlinkFile, Typed, UnderWay, Marked, Places
  <2>2. Files' /\ Accounted'
      BY <1>0, <1>9 DEF UnlinkFile, Typed, Files, Accounted, Recorded, Owning, ItsFile
  <2> QED BY <2>1, <2>2 DEF AttachmentInv
<1>10. CASE CleanUpFails \/ StopStore
    BY <1>0, <1>10, AbandonInv DEF CleanUpFails, StopStore, Typed
\* Nothing is under way, and the marker's file goes unless it has a row.
<1>11. ASSUME NEW k \in Attachments, ReconcileMarker(k)
      PROVE  AttachmentInv'
  <2>1. attaching = NotAttaching /\ attaching.at = "idle"
      BY <1>0, <1>11 DEF ReconcileMarker, UnderWay, NotAttaching
  <2>2. attaching' = attaching /\ rows' = rows /\ serving' = serving
      BY <1>11 DEF ReconcileMarker
  <2>3. Typed' /\ UnderWay' /\ Marked'
      BY <1>0, <1>11, <2>1, <2>2 DEF ReconcileMarker, Typed, UnderWay, Marked
  <2>4. Files'
      BY <1>0, <1>11, <2>1, <2>2 DEF ReconcileMarker, TargetCleared, Files, Recorded
  <2>5. Accounted'
      BY <1>0, <1>11, <2>1, <2>2
         DEF ReconcileMarker, TargetCleared, Accounted, Recorded, Owning
  <2> QED BY <2>3, <2>4, <2>5 DEF AttachmentInv
<1>12. CASE OpenStore
    BY <1>0, <1>12 DEF OpenStore, AttachmentInv, Typed, UnderWay, Marked, Accounted, Files,
       Owning, Recorded, ItsFile
<1>13. CASE UNCHANGED attachmentVars
    BY <1>0, <1>13 DEF attachmentVars, AttachmentInv, Typed, UnderWay, Marked, Accounted,
       Files, Owning, Recorded, ItsFile
<1> QED
    BY <1>1, <1>2, <1>3, <1>4, <1>5, <1>6, <1>7, <1>8, <1>9, <1>10, <1>11, <1>12, <1>13
       DEF AttachmentsNext

\* What the invariant says of the files is what the property says.
LEMMA AttachmentInvFiles == AttachmentInv => AttachmentsHaveFiles
<1> SUFFICES ASSUME AttachmentInv PROVE AttachmentsHaveFiles
    OBVIOUS
<1>1. ASSUME NEW content \in stored, ~ Recorded(content)
      PROVE  \E k \in Attachments : Announced(k) /\ Bytes[k] = content
  <2>1. CASE \E k \in abandoned : Bytes[k] = content
      BY <2>1 DEF AttachmentInv, Typed, Announced
  <2>2. CASE Owning /\ ItsFile = content
      BY <2>2 DEF AttachmentInv, UnderWay, Marked, Owning, ItsFile, Announced
  <2> QED BY <1>1, <2>1, <2>2 DEF AttachmentInv, Accounted
<1> QED BY <1>1 DEF AttachmentInv, AttachmentsHaveFiles, Files, Marked

\* Through failures, failing clean-ups and stops at every step of
\* attach_content, a recorded attachment has its file, and a file without a row
\* and every temporary is announced by a marker.
THEOREM FilesKept == AttachmentsSpec => []AttachmentsHaveFiles
<1>1. AttachmentsSpec => []AttachmentInv
    BY AttachmentInitInv, AttachmentStepInv, PTL DEF AttachmentsSpec
<1> QED BY <1>1, AttachmentInvFiles, PTL

-----------------------------------------------------------------------------
(* Media.  Every upload's media is counted by its result, and a file is only *)
(* unlinked by a thread that looked for media of it: what was recorded since *)
(* then is in robbed.                                                        *)

ThreadPlaces == {"free", "streaming", "check", "exists", "store", "record", "look", "unlink"}

MediaTypeOK ==
    /\ upload \in [Uploads -> {"none", "created", "uploading", "uploaded", "ready", "failed"}]
    /\ part \in [Uploads -> {"none", "partial", "whole"}]
    /\ assets \in [Uploads -> Nat] /\ results \subseteq Uploads
    /\ thread \in [MediaThreads -> [at : ThreadPlaces, on : Uploads \cup {"none"}, made : BOOLEAN]]
    /\ \A h \in MediaThreads : thread[h].at # "free" => thread[h].on \in Uploads

ResultsAgree ==
    \A k \in Uploads : /\ assets[k] = (IF k \in results THEN 1 ELSE 0)
                       /\ upload[k] = "ready" => k \in results
MediaThere ==
    /\ \A k \in results : Content[k] \in contents \cup robbed
    /\ \A h \in MediaThreads, k \in results :
          thread[h].at = "unlink" /\ Content[k] = Content[thread[h].on] => Content[k] \in robbed

MediaInv == MediaTypeOK /\ ResultsAgree /\ MediaThere

LEMMA MediaInitInv == MediaInit => MediaInv
BY DEF MediaInit, MediaInv, MediaTypeOK, ResultsAgree, MediaThere, ThreadPlaces, AtRest

\* A thread that goes on keeps its upload.
LEMMA GoesOn ==
    ASSUME NEW h \in MediaThreads, NEW at,
           thread[h] \in [at : ThreadPlaces, on : Uploads \cup {"none"}, made : BOOLEAN]
    PROVE  ThreadGoes(h, at) =>
              thread' = [thread EXCEPT ![h] = [at |-> at, on |-> thread[h].on, made |-> thread[h].made]]
<1>1. [thread[h] EXCEPT !.at = at] = [at |-> at, on |-> thread[h].on, made |-> thread[h].made]
    OBVIOUS
<1> QED BY <1>1 DEF ThreadGoes

\* What a thread does next leaves types and media as they are, as long as it
\* does not go to unlink.
LEMMA ThreadMoves ==
    ASSUME MediaInv, NEW h \in MediaThreads, NEW to, thread' = [thread EXCEPT ![h] = to],
           to \in [at : ThreadPlaces \ {"unlink"}, on : Uploads \cup {"none"}, made : BOOLEAN],
           to.at # "free" => to.on \in Uploads,
           upload' \in [Uploads -> {"none", "created", "uploading", "uploaded", "ready", "failed"}],
           \A k \in Uploads : upload'[k] = "ready" => upload[k] = "ready",
           part' \in [Uploads -> {"none", "partial", "whole"}],
           contents \subseteq contents', UNCHANGED <<assets, results>>,
           \A c \in robbed \ robbed' : c \in contents' /\ ~ RemovalPending(c)
    PROVE  MediaInv'
<1>0. MediaTypeOK /\ ResultsAgree /\ MediaThere
    BY DEF MediaInv
<1>1. MediaTypeOK'
    BY <1>0 DEF MediaTypeOK
<1>2. ResultsAgree'
    BY <1>0 DEF ResultsAgree
<1>3. \A g \in MediaThreads : thread'[g].at = "unlink" => thread'[g] = thread[g]
    BY <1>0 DEF MediaTypeOK
<1>4. MediaThere'
    BY <1>0, <1>3 DEF MediaThere, RemovalPending
<1> QED BY <1>1, <1>2, <1>4 DEF MediaInv

\* Nobody but the two transactions and the clean-up touches more.
LEMMA MediaStepInv == MediaInv /\ [MediaNext]_mediaVars => MediaInv'
<1> SUFFICES ASSUME MediaInv, [MediaNext]_mediaVars
             PROVE  MediaInv'
    OBVIOUS
<1>0. MediaTypeOK /\ ResultsAgree /\ MediaThere
    BY DEF MediaInv
<1>1. ASSUME NEW k \in Uploads, CreateUpload(k)
      PROVE  MediaInv'
    BY <1>0, <1>1 DEF CreateUpload, SetUpload, MediaInv, MediaTypeOK, ResultsAgree, MediaThere
<1>2. ASSUME NEW h \in MediaThreads, NEW k \in Uploads, Opens(h, k), thread[h] = AtRest,
             UNCHANGED <<contents, assets, results, robbed, kills>>
      PROVE  MediaInv'
  <2>1. CASE part[k] = "none"
    <3> DEFINE to == [at |-> "streaming", on |-> k, made |-> FALSE]
    <3>1. to \in [at : ThreadPlaces \ {"unlink"}, on : Uploads \cup {"none"}, made : BOOLEAN]
        BY DEF ThreadPlaces
    <3>2. thread' = [thread EXCEPT ![h] = to]
        BY <1>2, <2>1 DEF Opens
    <3>3. /\ upload' \in [Uploads -> {"none", "created", "uploading", "uploaded", "ready", "failed"}]
          /\ \A j \in Uploads : upload'[j] = "ready" => upload[j] = "ready"
          /\ part' \in [Uploads -> {"none", "partial", "whole"}]
        BY <1>0, <1>2, <2>1 DEF Opens, SetUpload, Staged, MediaTypeOK
    <3> QED BY <1>2, <3>1, <3>2, <3>3, ThreadMoves
  <2>2. CASE part[k] # "none"
      BY <1>0, <1>2, <2>2 DEF Opens, FailUpload, SetUpload, Staged, MediaInv, MediaTypeOK,
         ResultsAgree, MediaThere
  <2> QED BY <2>1, <2>2
<1>3. ASSUME NEW h \in MediaThreads, Received(h) \/ ReceiveFails(h)
      PROVE  MediaInv'
  <2>1. thread[h].on \in Uploads /\ thread[h] \in [at : ThreadPlaces, on : Uploads \cup {"none"}, made : BOOLEAN]
      BY <1>0, <1>3 DEF Received, ReceiveFails, MediaTypeOK
  <2>2. /\ upload' \in [Uploads -> {"none", "created", "uploading", "uploaded", "ready", "failed"}]
        /\ \A j \in Uploads : upload'[j] = "ready" => upload[j] = "ready"
        /\ part' \in [Uploads -> {"none", "partial", "whole"}]
      BY <1>0, <1>3, <2>1
         DEF Received, ReceiveFails, FailUpload, SetUpload, Staged, MediaTypeOK
  <2>3. \E to \in [at : ThreadPlaces \ {"unlink"}, on : Uploads \cup {"none"}, made : BOOLEAN] :
           (to.at # "free" => to.on \in Uploads) /\ thread' = [thread EXCEPT ![h] = to]
    <3>1. CASE ThreadEnds(h)
        BY <3>1 DEF ThreadEnds, AtRest, ThreadPlaces
    <3>2. CASE ThreadGoes(h, "check")
      <4>1. thread' = [thread EXCEPT ![h] = [at |-> "check", on |-> thread[h].on, made |-> thread[h].made]]
          BY <2>1, <3>2, GoesOn
      <4> QED BY <2>1, <4>1 DEF ThreadPlaces
    <3> QED BY <1>3, <3>1, <3>2 DEF Received, ReceiveFails
  <2> QED BY <1>3, <2>2, <2>3, ThreadMoves DEF Received, ReceiveFails
<1>4. ASSUME NEW h \in MediaThreads, NEW k \in Uploads, CompleteUpload(h, k)
      PROVE  MediaInv'
  <2> DEFINE to == [at |-> "check", on |-> k, made |-> FALSE]
  <2>1. to \in [at : ThreadPlaces \ {"unlink"}, on : Uploads \cup {"none"}, made : BOOLEAN]
      BY DEF ThreadPlaces
  <2>2. thread' = [thread EXCEPT ![h] = to]
      BY <1>4 DEF CompleteUpload
  <2>3. UNCHANGED <<upload, part, contents, assets, results, robbed>>
      BY <1>4 DEF CompleteUpload
  <2> HIDE DEF to
  <2>4. to.at # "free" => to.on \in Uploads
      BY DEF to
  <2> QED BY <1>0, <2>1, <2>2, <2>3, <2>4, ThreadMoves DEF MediaTypeOK
<1>5. ASSUME NEW h \in MediaThreads, CheckStaging(h) \/ LookForContent(h) \/ StoreContent(h)
      PROVE  MediaInv'
  <2>1. thread[h].on \in Uploads /\ thread[h] \in [at : ThreadPlaces, on : Uploads \cup {"none"}, made : BOOLEAN]
      BY <1>0, <1>5 DEF CheckStaging, LookForContent, StoreContent, MediaTypeOK
  <2>2. /\ upload' \in [Uploads -> {"none", "created", "uploading", "uploaded", "ready", "failed"}]
        /\ \A j \in Uploads : upload'[j] = "ready" => upload[j] = "ready"
        /\ part' \in [Uploads -> {"none", "partial", "whole"}]
        /\ contents \subseteq contents' /\ UNCHANGED <<assets, results>>
        /\ \A c \in robbed \ robbed' : c \in contents' /\ ~ RemovalPending(c)
      BY <1>0, <1>5, <2>1
         DEF CheckStaging, LookForContent, StoreContent, FailUpload, SetUpload, Staged, MediaTypeOK
  <2>3. \E to \in [at : ThreadPlaces \ {"unlink"}, on : Uploads \cup {"none"}, made : BOOLEAN] :
           (to.at # "free" => to.on \in Uploads) /\ thread' = [thread EXCEPT ![h] = to]
    <3>1. CASE ThreadEnds(h)
        BY <3>1 DEF ThreadEnds, AtRest, ThreadPlaces
    <3>2. ASSUME NEW at \in {"exists", "record", "store"}, NEW made \in BOOLEAN,
                 thread' = [thread EXCEPT ![h] = [at |-> at, on |-> thread[h].on, made |-> made]]
          PROVE  \E to \in [at : ThreadPlaces \ {"unlink"}, on : Uploads \cup {"none"}, made : BOOLEAN] :
                    (to.at # "free" => to.on \in Uploads) /\ thread' = [thread EXCEPT ![h] = to]
        BY <2>1, <3>2 DEF ThreadPlaces
    <3>3. \A at \in {"exists", "record", "store"} : ThreadGoes(h, at) =>
             thread' = [thread EXCEPT ![h] = [at |-> at, on |-> thread[h].on, made |-> thread[h].made]]
        BY <2>1, GoesOn
    <3>5. thread[h].made \in BOOLEAN
        BY <2>1
    <3>6. CASE \E at \in {"exists", "record", "store"} : ThreadGoes(h, at)
        BY <3>2, <3>3, <3>5, <3>6
    <3>7. CASE thread' = [thread EXCEPT ![h] = [at |-> "record", on |-> thread[h].on, made |-> TRUE]]
        BY <3>2, <3>7
    <3> QED BY <1>5, <3>1, <3>6, <3>7 DEF CheckStaging, LookForContent, StoreContent
  <2> QED BY <2>2, <2>3, ThreadMoves
\* The one media of an upload.
<1>6. ASSUME NEW h \in MediaThreads, RecordMedia(h)
      PROVE  MediaInv'
  <2> DEFINE k == thread[h].on
  <2>1. k \in Uploads /\ k \notin results /\ assets[k] = 0
      BY <1>0, <1>6 DEF RecordMedia, Unrecorded, MediaTypeOK, ResultsAgree
  <2>2. /\ assets' = [assets EXCEPT ![k] = 1] /\ results' = results \cup {k}
        /\ upload' = [upload EXCEPT ![k] = "ready"] /\ thread' = [thread EXCEPT ![h] = AtRest]
        /\ part' = part /\ contents' = contents
      BY <1>0, <1>6, <2>1 DEF RecordMedia, SetUpload, ThreadEnds, MediaTypeOK
  <2>3. /\ robbed \subseteq robbed'
        /\ Content[k] \notin contents => Content[k] \in robbed'
        /\ \A g \in MediaThreads : thread[g].at = "unlink" /\ Content[thread[g].on] = Content[k]
                                   => Content[k] \in robbed'
      BY <1>6 DEF RecordMedia, BeingRemoved, RemovalPending
  <2> HIDE DEF k
  <2>4. MediaTypeOK'
      BY <1>0, <2>1, <2>2 DEF MediaTypeOK, AtRest, ThreadPlaces
  <2>5. ResultsAgree'
      BY <1>0, <2>1, <2>2 DEF MediaTypeOK, ResultsAgree
  <2>6. \A g \in MediaThreads : thread'[g].at = "unlink" => thread'[g] = thread[g]
      BY <1>0, <2>2 DEF MediaTypeOK, AtRest
  <2>7. MediaThere'
      BY <1>0, <2>2, <2>3, <2>6 DEF MediaThere
  <2> QED BY <2>4, <2>5, <2>7 DEF MediaInv
<1>7. ASSUME NEW h \in MediaThreads, RecordRefused(h)
      PROVE  MediaInv'
  <2>1. thread[h].on \in Uploads /\ thread[h] \in [at : ThreadPlaces, on : Uploads \cup {"none"}, made : BOOLEAN]
      BY <1>0, <1>7 DEF RecordRefused, MediaTypeOK
  <2>2. \E to \in [at : ThreadPlaces \ {"unlink"}, on : Uploads \cup {"none"}, made : BOOLEAN] :
           (to.at # "free" => to.on \in Uploads) /\ thread' = [thread EXCEPT ![h] = to]
    <3>1. CASE ThreadEnds(h)
        BY <3>1 DEF ThreadEnds, AtRest, ThreadPlaces
    <3>2. CASE ThreadGoes(h, "look")
      <4>1. thread' = [thread EXCEPT ![h] = [at |-> "look", on |-> thread[h].on, made |-> thread[h].made]]
          BY <2>1, <3>2, GoesOn
      <4> QED BY <2>1, <4>1 DEF ThreadPlaces
    <3> QED BY <1>7, <3>1, <3>2 DEF RecordRefused
  <2>3. UNCHANGED <<upload, part, contents, assets, results, robbed>>
      BY <1>7 DEF RecordRefused
  <2> QED BY <1>0, <2>2, <2>3, ThreadMoves DEF MediaTypeOK
\* No media of the content is there when the thread looks.
<1>8. ASSUME NEW h \in MediaThreads, LookForReferences(h)
      PROVE  MediaInv'
  <2>1. thread[h].on \in Uploads /\ thread[h] \in [at : ThreadPlaces, on : Uploads \cup {"none"}, made : BOOLEAN]
      BY <1>0, <1>8 DEF LookForReferences, MediaTypeOK
  <2>2. UNCHANGED <<upload, part, contents, assets, results, robbed>>
      BY <1>8 DEF LookForReferences
  <2>3. CASE ThreadEnds(h)
    <3>1. AtRest \in [at : ThreadPlaces \ {"unlink"}, on : Uploads \cup {"none"}, made : BOOLEAN]
          /\ AtRest.at = "free"
        BY DEF AtRest, ThreadPlaces
    <3> QED BY <1>0, <2>2, <2>3, <3>1, ThreadMoves DEF ThreadEnds, MediaTypeOK
  <2>4. CASE ThreadGoes(h, "unlink") /\ ~ Referenced(Content[thread[h].on])
    <3>1. thread' = [thread EXCEPT ![h] = [at |-> "unlink", on |-> thread[h].on, made |-> thread[h].made]]
        BY <2>1, <2>4, GoesOn
    <3>2. \A k \in results : Content[k] # Content[thread[h].on]
        BY <1>0, <2>4 DEF Referenced, ResultsAgree, MediaTypeOK
    <3>3. MediaTypeOK'
        BY <1>0, <2>1, <2>2, <3>1 DEF MediaTypeOK, ThreadPlaces
    <3>4. \A g \in MediaThreads : g # h => thread'[g] = thread[g]
        BY <1>0, <3>1 DEF MediaTypeOK
    <3>5. thread'[h].on = thread[h].on
        BY <1>0, <3>1 DEF MediaTypeOK
    <3>6. MediaThere'
        BY <1>0, <2>2, <3>2, <3>4, <3>5 DEF MediaThere
    <3> QED BY <1>0, <2>2, <3>3, <3>6 DEF MediaInv, ResultsAgree
  <2> QED BY <1>8, <2>3, <2>4 DEF LookForReferences
<1>9. ASSUME NEW h \in MediaThreads, UnlinkContent(h)
      PROVE  MediaInv'
  <2>1. thread' = [thread EXCEPT ![h] = AtRest]
      BY <1>9 DEF UnlinkContent, ThreadEnds
  <2>2. MediaTypeOK' /\ ResultsAgree'
      BY <1>0, <1>9, <2>1 DEF UnlinkContent, MediaTypeOK, ResultsAgree, AtRest, ThreadPlaces
  <2>3. \A g \in MediaThreads : thread'[g].at = "unlink" => thread'[g] = thread[g]
      BY <1>0, <2>1 DEF MediaTypeOK, AtRest
  <2>4. MediaThere'
      BY <1>0, <1>9, <2>3 DEF UnlinkContent, MediaThere
  <2> QED BY <2>2, <2>4 DEF MediaInv
<1>10. CASE KillHub
    BY <1>0, <1>10 DEF KillHub, MediaInv, MediaTypeOK, ResultsAgree, MediaThere, AtRest, ThreadPlaces
<1>11. CASE UNCHANGED mediaVars
    BY <1>0, <1>11 DEF mediaVars, MediaInv, MediaTypeOK, ResultsAgree, MediaThere
<1>12. ASSUME NEW h \in MediaThreads, NEW k \in Uploads, ReceivePage(h, k) \/ ReceiveWeixin(h, k)
       PROVE  MediaInv'
    BY <1>2, <1>12 DEF ReceivePage, ReceiveWeixin
<1> QED
    BY <1>1, <1>3, <1>4, <1>5, <1>6, <1>7, <1>8, <1>9, <1>10, <1>11, <1>12 DEF MediaNext

\* However often an upload is received, completed, failed or interrupted, it
\* becomes one media at most (finalize_upload and media_ingest_results).
THEOREM MediaIngestedOnce == MediaSpec => []IngestedOnce
<1>1. MediaInv => IngestedOnce
    BY DEF MediaInv, MediaTypeOK, ResultsAgree, MediaThere, IngestedOnce
<1> QED BY <1>1, MediaInitInv, MediaStepInv, PTL DEF MediaSpec

-----------------------------------------------------------------------------
(* The cutover.  Only a Hub in read_only, which it is never again, takes a   *)
(* package, so there is one manifest; every stop of the writer takes a       *)
(* generation no string was read of yet; and until the manifest is seeded    *)
(* nothing is written here, so a seed only replaces what an earlier one left.*)

ManifestStates == {"none", "migration_prepared", "source_frozen", "primary_seeded",
                   "cutover_ready", "primary_writer"}
Seeded == {"primary_seeded", "cutover_ready", "primary_writer"}
WriterModes == {"read_only", "suspended", "migration_prepared", "source_frozen",
                "primary_seeded", "cutover_ready", "primary_writer"}
FirstSteps == {"copying", "copied", "loaded", "moved", "swapped", "restoring"}
SeedSteps == FirstSteps \cup {"recovering", "moved_again", "swapped_again"}
Confirmation == [on : Manifests, generation : Nat, read : Nat]

CutoverTypeOK ==
    /\ mode \in WriterModes /\ generation \in Nat
    /\ activeManifest \in Manifests \cup {None}
    /\ manifest \in [Manifests -> [state : ManifestStates, generation : Nat]]
    /\ request \in {Ready} \cup [at : {"staged"} \cup SeedSteps, on : Manifests]
    /\ written \in BOOLEAN /\ suspensions \in Nat
    /\ db \in [from : Manifests \cup {None}, own : BOOLEAN]
    /\ confirmations \subseteq Confirmation

OneManifest ==
    /\ \A m \in Manifests : State(m) # "none" =>
          activeManifest = m /\ manifest[m].generation = generation
    /\ activeManifest # None => manifest[activeManifest].generation = generation
    /\ mode = "read_only" \/ request.at = "staged" => activeManifest = None
    /\ request.at = "staged" => mode = "read_only"

ConfirmationsInTime ==
    /\ \A c \in confirmations : /\ c.on = activeManifest /\ c.generation <= generation
                                /\ c.generation = generation => c.read = suspensions
    /\ mode = "primary_writer" =>
          accepted.on = activeManifest /\ accepted.read = suspensions

SeededWhole ==
    /\ \A m \in Manifests : State(m) \in Seeded => db.from = m /\ attachments = m
    /\ request.at \in SeedSteps => State(request.on) = "source_frozen"

OwnDataStays ==
    /\ written => db.own
    /\ request.at \in FirstSteps => ~ written

CutoverInv == CutoverTypeOK /\ OneManifest /\ ConfirmationsInTime /\ SeededWhole /\ OwnDataStays

LEMMA CutoverInitInv == CutoverInit => CutoverInv
BY CutoverAssumption
   DEF CutoverInit, CutoverInv, CutoverTypeOK, OneManifest, ConfirmationsInTime, SeededWhole,
       OwnDataStays, WriterModes, ManifestStates, Seeded, SeedSteps, FirstSteps, Ready, None,
       State

\* A stop of the writer takes a new generation, if there is a package at all.
LEMMA SuspendedInv ==
    ASSUME CutoverInv, Suspended, request' \in {request, Ready}, request'.at # "staged",
           attachments' \in {attachments, "empty"},
           attachments' # attachments => attachments = "gone",
           UNCHANGED <<db, written, confirmations>>
    PROVE  CutoverInv'
<1>0. CutoverTypeOK /\ OneManifest /\ ConfirmationsInTime /\ SeededWhole /\ OwnDataStays
    BY DEF CutoverInv
<1>1. mode' = "suspended" /\ suspensions' = suspensions + 1 /\ activeManifest' = activeManifest
    BY DEF Suspended
<1>2. CASE activeManifest = None
  <2>1. UNCHANGED <<generation, manifest>>
      BY <1>2 DEF Suspended
  <2>2. confirmations = {}
      BY <1>0, <1>2, CutoverAssumption DEF ConfirmationsInTime, CutoverTypeOK, Confirmation, None
  <2>3. \A m \in Manifests : State(m) = "none"
      BY <1>0, <1>2, CutoverAssumption DEF OneManifest, None
  <2>4. request' = Ready
      BY <1>0, <2>3 DEF CutoverTypeOK, SeededWhole, SeedSteps, FirstSteps
  <2> QED BY <1>0, <1>1, <1>2, <2>1, <2>2, <2>3, <2>4
          DEF CutoverInv, CutoverTypeOK, OneManifest, ConfirmationsInTime, SeededWhole,
              OwnDataStays, WriterModes, Seeded, SeedSteps, FirstSteps, Ready, State
<1>3. CASE activeManifest # None
  <2>0. activeManifest \in Manifests /\ manifest[activeManifest].generation = generation
      BY <1>0, <1>3 DEF CutoverTypeOK, OneManifest
  <2>1. generation' = generation + 1
        /\ manifest' = [manifest EXCEPT ![activeManifest].generation = generation + 1]
      BY <1>0, <1>3, <2>0 DEF Suspended, NextGeneration, CutoverTypeOK
  <2>2. \A m \in Manifests : /\ State(m)' = State(m)
                             /\ m # activeManifest => manifest'[m] = manifest[m]
                             /\ m = activeManifest => manifest'[m].generation = generation + 1
      BY <1>0, <2>1 DEF CutoverTypeOK, State
  <2>3. manifest' \in [Manifests -> [state : ManifestStates, generation : Nat]]
      BY <1>0, <2>0, <2>1 DEF CutoverTypeOK
  <2>4. CutoverTypeOK'
      BY <1>0, <1>1, <2>1, <2>3 DEF CutoverTypeOK, WriterModes
  <2>5. OneManifest'
      BY <1>0, <1>1, <2>1, <2>2 DEF OneManifest, CutoverTypeOK
  <2>6. ConfirmationsInTime'
      BY <1>0, <1>1, <2>1 DEF ConfirmationsInTime, CutoverTypeOK, Confirmation
  <2>7. SeededWhole'
    <3>1. \A m \in Manifests : State(m) \in Seeded => attachments' = m
        BY <1>0, CutoverAssumption DEF SeededWhole
    <3>2. request'.at \in SeedSteps => request' = request /\ request.on \in Manifests
        BY <1>0 DEF CutoverTypeOK, Ready, SeedSteps, FirstSteps
    <3> QED BY <1>0, <2>2, <3>1, <3>2 DEF SeededWhole
  <2>8. OwnDataStays'
      BY <1>0 DEF OwnDataStays, Ready, FirstSteps
  <2> QED BY <2>4, <2>5, <2>6, <2>7, <2>8 DEF CutoverInv
<1> QED BY <1>2, <1>3

\* While a seed is under way, its steps may do with the data what they like,
\* as long as data written here is kept.
LEMMA SeedStepInv ==
    ASSUME CutoverInv, request.at \in SeedSteps, UNCHANGED <<leaseVars, confirmations, suspensions>>,
           request' = Ready \/ \E at \in SeedSteps : During(at, request.on),
           db' \in [from : Manifests \cup {None}, own : BOOLEAN],
           db' = db \/ request.at \in FirstSteps,
           written' = written,
           request'.at \in FirstSteps => request.at \in FirstSteps
    PROVE  CutoverInv'
<1>0. CutoverTypeOK /\ OneManifest /\ ConfirmationsInTime /\ SeededWhole /\ OwnDataStays
    BY DEF CutoverInv
<1>1. /\ request \in [at : SeedSteps, on : Manifests] /\ State(request.on) = "source_frozen"
      /\ activeManifest = request.on
    BY <1>0, CutoverAssumption DEF CutoverTypeOK, SeededWhole, OneManifest, Ready, SeedSteps,
       FirstSteps, None
<1>2. request' \in {Ready} \cup [at : SeedSteps, on : Manifests]
      /\ (request'.at \in SeedSteps => request'.on = request.on)
    BY <1>1 DEF During, Ready, SeedSteps, FirstSteps
<1>3. UNCHANGED <<mode, generation, activeManifest, manifest, accepted, confirmations, suspensions>>
    BY DEF leaseVars
<1>4. \A m \in Manifests : State(m) \notin Seeded
    BY <1>0, <1>1 DEF OneManifest, Seeded
<1>5. CutoverTypeOK'
    BY <1>0, <1>2, <1>3 DEF CutoverTypeOK
<1>6. OneManifest'
    BY <1>0, <1>2, <1>3 DEF OneManifest, State, Ready, SeedSteps, FirstSteps
<1>7. ConfirmationsInTime'
    BY <1>0, <1>3 DEF ConfirmationsInTime
<1>8. SeededWhole'
    BY <1>0, <1>1, <1>2, <1>3, <1>4 DEF SeededWhole, State
<1>9. OwnDataStays'
    BY <1>0 DEF OwnDataStays
<1> QED BY <1>5, <1>6, <1>7, <1>8, <1>9 DEF CutoverInv

LEMMA CutoverStepInv == CutoverInv /\ [CutoverNext]_cutoverVars => CutoverInv'
<1> SUFFICES ASSUME CutoverInv, [CutoverNext]_cutoverVars
             PROVE  CutoverInv'
    OBVIOUS
<1>0. CutoverTypeOK /\ OneManifest /\ ConfirmationsInTime /\ SeededWhole /\ OwnDataStays
    BY DEF CutoverInv
<1> USE DEF leaseVars, dataVars
<1>1. ASSUME NEW m \in Manifests, StageMigration(m)
      PROVE  CutoverInv'
  <2>1. activeManifest = None /\ mode = "read_only" /\ request' = [at |-> "staged", on |-> m]
      BY <1>0, <1>1 DEF StageMigration, During, OneManifest
  <2>2. request' \in [at : {"staged"} \cup SeedSteps, on : Manifests]
      BY <2>1
  <2> QED BY <1>0, <1>1, <2>1, <2>2 DEF StageMigration, CutoverInv, CutoverTypeOK, OneManifest,
             ConfirmationsInTime, SeededWhole, OwnDataStays, SeedSteps, FirstSteps, State
\* The only manifest there will be.
<1>2. CASE PrepareMigration
  <2> DEFINE m == request.on
  <2>1. m \in Manifests /\ activeManifest = None /\ confirmations = {}
        /\ \A n \in Manifests : State(n) = "none"
    <3>1. m \in Manifests /\ activeManifest = None
        BY <1>0, <1>2 DEF PrepareMigration, CutoverTypeOK, OneManifest, Ready
    <3>2. confirmations = {}
        BY <1>0, <3>1, CutoverAssumption DEF ConfirmationsInTime, CutoverTypeOK, Confirmation, None
    <3> QED BY <1>0, <3>1, <3>2, CutoverAssumption DEF OneManifest, None
  <2>2. manifest' = [manifest EXCEPT ![m] = [state |-> "migration_prepared",
                                             generation |-> generation + 1]]
        /\ generation' = generation + 1 /\ activeManifest' = m /\ mode' = "migration_prepared"
        /\ request' = Ready /\ UNCHANGED <<db, written, attachments, confirmations, suspensions>>
      BY <1>2 DEF PrepareMigration
  <2> HIDE DEF m
  <2>3. CutoverTypeOK'
      BY <1>0, <2>1, <2>2 DEF CutoverTypeOK, WriterModes, ManifestStates
  <2>4. OneManifest' /\ ConfirmationsInTime' /\ SeededWhole' /\ OwnDataStays'
      BY <1>0, <2>1, <2>2, CutoverAssumption
         DEF CutoverTypeOK, OneManifest, ConfirmationsInTime, SeededWhole, OwnDataStays, Seeded,
             SeedSteps, FirstSteps, Ready, State, None
  <2> QED BY <2>3, <2>4 DEF CutoverInv
<1>3. ASSUME NEW m \in Manifests, FreezeSource(m) \/ CutoverReady(m)
      PROVE  CutoverInv'
  <2>1. PICK to \in {"source_frozen", "cutover_ready"} :
           /\ manifest' = [manifest EXCEPT ![m].state = to] /\ mode' = to
           /\ State(m) # "none" /\ (to = "cutover_ready" => State(m) \in Seeded)
      BY <1>3 DEF FreezeSource, CutoverReady, Advance, Seeded
  <2>2. UNCHANGED <<generation, activeManifest, accepted, request, db, attachments, written,
                    confirmations, suspensions>> /\ request = Ready
      BY <1>3 DEF FreezeSource, CutoverReady, Advance, Serving
  <2>3. activeManifest = m
      BY <1>0, <2>1 DEF OneManifest
  <2>4. CutoverTypeOK'
      BY <1>0, <2>1, <2>2 DEF CutoverTypeOK, WriterModes, ManifestStates
  <2>5. \A n \in Manifests : /\ n # m => State(n)' = State(n)
                             /\ n = m => State(n)' = to
                             /\ manifest'[n].generation = manifest[n].generation
      BY <1>0, <2>1 DEF CutoverTypeOK, State
  <2>6. OneManifest'
      BY <1>0, <2>1, <2>2, <2>3, <2>5 DEF OneManifest, CutoverTypeOK, Ready
  <2>7. ConfirmationsInTime'
      BY <1>0, <2>1, <2>2 DEF ConfirmationsInTime
  <2>8. SeededWhole'
      BY <1>0, <2>1, <2>2, <2>5 DEF SeededWhole, Seeded, Ready, SeedSteps, FirstSteps
  <2>9. OwnDataStays'
      BY <1>0, <2>2 DEF OwnDataStays
  <2> QED BY <2>4, <2>6, <2>7, <2>8, <2>9 DEF CutoverInv
\* A first seed finds no data here; what a repeated one finds it keeps.
<1>4. ASSUME NEW m \in Manifests, BeginSeed(m)
      PROVE  CutoverInv'
  <2>1. PICK at \in {"copying", "recovering"} :
           request' = [at |-> at, on |-> m] /\ (at = "copying" => db = Empty)
      BY <1>4 DEF BeginSeed, During, Occupied
  <2>2. /\ State(m) = "source_frozen" /\ request = Ready
        /\ UNCHANGED <<leaseVars, confirmations, suspensions, db, attachments, written>>
      BY <1>4 DEF BeginSeed, SeedUnchanged, Serving
  <2>3. request' \in [at : {"staged"} \cup SeedSteps, on : Manifests]
      BY <2>1 DEF SeedSteps, FirstSteps
  <2>4. at = "copying" => ~ written
      BY <1>0, <2>1 DEF OwnDataStays, Empty
  <2>5. CutoverTypeOK' /\ OneManifest' /\ ConfirmationsInTime'
      BY <1>0, <2>1, <2>2, <2>3 DEF CutoverTypeOK, OneManifest, ConfirmationsInTime, State
  <2>6. SeededWhole' /\ OwnDataStays'
      BY <1>0, <2>1, <2>2, <2>4 DEF SeededWhole, OwnDataStays, State, SeedSteps, FirstSteps
  <2> QED BY <2>5, <2>6 DEF CutoverInv
<1>5. CASE CopyAttachments \/ LoadDatabase \/ MoveOldAway \/ RecoverAttachments \/ MoveNewIn
  <2>1. /\ request.at \in SeedSteps /\ written' = written
        /\ UNCHANGED <<leaseVars, confirmations, suspensions>>
      BY <1>5 DEF CopyAttachments, LoadDatabase, MoveOldAway, RecoverAttachments, MoveNewIn,
         SeedUnchanged, SeedSteps, FirstSteps
  <2>2. PICK at \in SeedSteps : During(at, request.on) /\ (at \in FirstSteps => request.at \in FirstSteps)
      BY <1>5 DEF CopyAttachments, LoadDatabase, MoveOldAway, RecoverAttachments, MoveNewIn,
         SeedSteps, FirstSteps
  <2>3. request'.at = at
      BY <2>2 DEF During
  <2>4. request.on \in Manifests
      BY <1>0, <2>1 DEF CutoverTypeOK, Ready, SeedSteps, FirstSteps
  <2>5. db' \in [from : Manifests \cup {None}, own : BOOLEAN] /\ (db' = db \/ request.at \in FirstSteps)
    <3>1. [from |-> request.on, own |-> FALSE] \in [from : Manifests \cup {None}, own : BOOLEAN]
        BY <2>4
    <3>2. CASE LoadDatabase
        BY <3>1, <3>2 DEF LoadDatabase, FirstSteps
    <3> QED BY <1>0, <1>5, <3>2 DEF CopyAttachments, MoveOldAway, RecoverAttachments, MoveNewIn,
           CutoverTypeOK
  <2> QED BY <2>1, <2>2, <2>3, <2>5, SeedStepInv
<1>6. CASE SeedFails \/ RestoreAttachments
  <2>1. /\ request.at \in SeedSteps /\ written' = written
        /\ UNCHANGED <<leaseVars, confirmations, suspensions>>
      BY <1>6 DEF SeedFails, RestoreAttachments, SeedUnchanged, SeedSteps, FirstSteps
  <2>2. /\ request' = Ready \/ During("restoring", request.on)
        /\ db' = db \/ (request.at \in FirstSteps /\ db' = Empty)
        /\ request' = Ready \/ request.at \in FirstSteps
      BY <1>6 DEF SeedFails, RestoreAttachments, FirstSteps
  <2>3. request'.at \in FirstSteps => request.at \in FirstSteps
      BY <2>2 DEF Ready, FirstSteps
  <2>4. db' \in [from : Manifests \cup {None}, own : BOOLEAN] /\ "restoring" \in SeedSteps
    <3>1. Empty \in [from : Manifests \cup {None}, own : BOOLEAN]
        BY DEF Empty
    <3> QED BY <1>0, <2>2, <3>1 DEF CutoverTypeOK, SeedSteps, FirstSteps
  <2> QED BY <2>1, <2>2, <2>3, <2>4, SeedStepInv
\* Only what is whole is called seeded.
<1>7. CASE MarkSeeded
  <2> DEFINE m == request.on
  <2>1. /\ m \in Manifests /\ State(m) = "source_frozen" /\ activeManifest = m
        /\ db.from = m /\ attachments = m
    <3>1. request.at \in SeedSteps /\ Whole(m)
        BY <1>7 DEF MarkSeeded, SeedSteps, FirstSteps
    <3>2. m \in Manifests
        BY <1>0, <3>1 DEF CutoverTypeOK, Ready, SeedSteps, FirstSteps
    <3>3. db.from = m /\ attachments = m
        BY <3>1 DEF Whole
    <3> QED BY <1>0, <3>1, <3>2, <3>3 DEF SeededWhole, OneManifest
  <2>2. /\ manifest' = [manifest EXCEPT ![m].state = "primary_seeded"]
        /\ mode' = "primary_seeded" /\ request' = Ready
        /\ UNCHANGED <<generation, activeManifest, accepted, db, attachments, written,
                       confirmations, suspensions>>
      BY <1>7 DEF MarkSeeded
  <2> HIDE DEF m
  <2>3. CutoverTypeOK'
      BY <1>0, <2>1, <2>2 DEF CutoverTypeOK, WriterModes, ManifestStates
  <2>4. \A n \in Manifests : /\ n # m => State(n)' = State(n)
                             /\ manifest'[n].generation = manifest[n].generation
      BY <1>0, <2>1, <2>2 DEF CutoverTypeOK, State
  <2>5. OneManifest'
      BY <1>0, <2>1, <2>2, <2>4 DEF OneManifest, CutoverTypeOK, Ready
  <2>6. ConfirmationsInTime'
      BY <1>0, <2>2 DEF ConfirmationsInTime
  <2>7. SeededWhole'
      BY <1>0, <2>1, <2>2, <2>4 DEF SeededWhole, Ready, SeedSteps, FirstSteps
  <2>8. OwnDataStays'
      BY <1>0, <2>2 DEF OwnDataStays, Ready, FirstSteps
  <2> QED BY <2>3, <2>5, <2>6, <2>7, <2>8 DEF CutoverInv
<1>8. ASSUME NEW m \in Manifests, ReadConfirmation(m)
      PROVE  CutoverInv'
  <2> DEFINE c == [on |-> m, generation |-> manifest[m].generation, read |-> suspensions]
  <2>1. confirmations' = confirmations \cup {c}
        /\ UNCHANGED <<leaseVars, request, db, attachments, written, suspensions>>
      BY <1>8 DEF ReadConfirmation
  <2>2. m = activeManifest /\ manifest[m].generation = generation
      BY <1>0, <1>8 DEF ReadConfirmation, OneManifest
  <2>3. c \in Confirmation /\ c.on = activeManifest /\ c.generation = generation /\ c.read = suspensions
      BY <1>0, <2>2 DEF CutoverTypeOK, Confirmation
  <2> HIDE DEF c
  <2>4. CutoverTypeOK' /\ OneManifest'
      BY <1>0, <2>1, <2>3 DEF CutoverTypeOK, OneManifest, State
  <2>5. ConfirmationsInTime'
      BY <1>0, <2>1, <2>3 DEF ConfirmationsInTime, CutoverTypeOK
  <2>6. SeededWhole' /\ OwnDataStays'
      BY <1>0, <2>1 DEF SeededWhole, OwnDataStays, State
  <2> QED BY <2>4, <2>5, <2>6 DEF CutoverInv
\* A string that names the present generation was read since the last stop.
<1>9. ASSUME NEW c \in confirmations, ActivateWriter(c)
      PROVE  CutoverInv'
  <2>1. c.on \in Manifests /\ c.on = activeManifest /\ c.read = suspensions
      BY <1>0, <1>9 DEF ActivateWriter, ConfirmationsInTime, CutoverTypeOK, Confirmation
  <2>2. /\ manifest' = [manifest EXCEPT ![c.on].state = "primary_writer"]
        /\ mode' = "primary_writer" /\ accepted' = c /\ request = Ready
        /\ State(c.on) \in Seeded
        /\ UNCHANGED <<generation, activeManifest, request, db, attachments, written,
                       confirmations, suspensions>>
      BY <1>9 DEF ActivateWriter, Serving, Seeded
  <2>3. CutoverTypeOK'
      BY <1>0, <2>1, <2>2 DEF CutoverTypeOK, WriterModes, ManifestStates
  <2>4. \A n \in Manifests : /\ n # c.on => State(n)' = State(n)
                             /\ manifest'[n].generation = manifest[n].generation
      BY <1>0, <2>1, <2>2 DEF CutoverTypeOK, State
  <2>5. OneManifest'
      BY <1>0, <2>1, <2>2, <2>4 DEF OneManifest, CutoverTypeOK, Ready, Seeded
  <2>6. ConfirmationsInTime'
      BY <1>0, <2>1, <2>2 DEF ConfirmationsInTime
  <2>7. SeededWhole'
      BY <1>0, <2>1, <2>2, <2>4 DEF SeededWhole, Ready, SeedSteps, FirstSteps
  <2>8. OwnDataStays'
      BY <1>0, <2>2 DEF OwnDataStays
  <2> QED BY <2>3, <2>5, <2>6, <2>7, <2>8 DEF CutoverInv
<1>10. CASE Suspend
  <2>1. Suspended /\ request' = request /\ request = Ready /\ UNCHANGED <<db, attachments, written, confirmations>>
      BY <1>10 DEF Suspend, Serving
  <2>2. Ready.at # "staged"
      BY DEF Ready
  <2> QED BY <2>1, <2>2, SuspendedInv
<1>11. ASSUME NEW configured, RestartHub(configured)
       PROVE  CutoverInv'
  <2>1. /\ request' = Ready /\ request'.at = "ready"
        /\ attachments' = IF attachments = "gone" THEN "empty" ELSE attachments
        /\ UNCHANGED <<db, written, confirmations>>
      BY <1>11 DEF RestartHub, Ready
  <2>2. CASE Suspended
      BY <2>1, <2>2, SuspendedInv
  <2>3. CASE UNCHANGED <<leaseVars, suspensions>>
    <3>1. CutoverTypeOK' /\ OneManifest' /\ ConfirmationsInTime' /\ OwnDataStays'
        BY <1>0, <2>1, <2>3 DEF CutoverTypeOK, OneManifest, ConfirmationsInTime, OwnDataStays,
           State, Ready, FirstSteps
    <3>2. SeededWhole'
        BY <1>0, <2>1, <2>3, CutoverAssumption DEF SeededWhole, State, SeedSteps, FirstSteps
    <3> QED BY <3>1, <3>2 DEF CutoverInv
  <2> QED BY <1>11, <2>2, <2>3 DEF RestartHub
<1>12. CASE Write
  <2>1. /\ db' = [db EXCEPT !.own = TRUE] /\ written' = TRUE /\ request = Ready
        /\ UNCHANGED <<leaseVars, request, attachments, confirmations, suspensions>>
      BY <1>12 DEF Write, Serving, SeedUnchanged
  <2>2. db' \in [from : Manifests \cup {None}, own : BOOLEAN] /\ db'.own = TRUE /\ db'.from = db.from
      BY <1>0, <2>1 DEF CutoverTypeOK
  <2>3. CutoverTypeOK' /\ OneManifest' /\ ConfirmationsInTime'
      BY <1>0, <2>1, <2>2 DEF CutoverTypeOK, OneManifest, ConfirmationsInTime, State
  <2>4. SeededWhole' /\ OwnDataStays'
      BY <1>0, <2>1, <2>2 DEF SeededWhole, OwnDataStays, State, Ready, SeedSteps, FirstSteps
  <2> QED BY <2>3, <2>4 DEF CutoverInv
<1>13. CASE UNCHANGED cutoverVars
    BY <1>0, <1>13 DEF cutoverVars, CutoverInv, CutoverTypeOK, OneManifest, ConfirmationsInTime,
       SeededWhole, OwnDataStays, State
<1> QED
    BY <1>1, <1>2, <1>3, <1>4, <1>5, <1>6, <1>7, <1>8, <1>9, <1>10, <1>11, <1>12, <1>13
       DEF CutoverNext

\* Whoever writes does so on a string read after the last stop of the writer,
\* over the whole of the seeded package; and what was written here no seed
\* replaces, wherever it is interrupted (activate_writer, seed_primary).
THEOREM CutoverIsFollowed == CutoverSpec => []WriterFollowsCutover
<1>1. CutoverInv => WriterFollowsCutover
    BY DEF CutoverInv, SeededWhole, ConfirmationsInTime, OwnDataStays, WriterFollowsCutover,
       MayWrite, Seeded
<1> QED BY <1>1, CutoverInitInv, CutoverStepInv, PTL DEF CutoverSpec

-----------------------------------------------------------------------------
(* The sum of a over a finite set.  MapThenSumSet takes the elements in an   *)
(* order of its own; by descent to a smallest counterexample, which needs no *)
(* induction scheme, its recursion has one solution, and any element may be  *)
(* taken first.                                                              *)

Chosen(s) == CHOOSE x \in s : TRUE
Adds(f, a, S) ==
    f = [s \in SUBSET S |-> IF s = {} THEN 0 ELSE a[Chosen(s)] + f[s \ {Chosen(s)}]]
SumOver(a, S) == MapThenSumSet(LAMBDA x : a[x], S)

\* A collection of finite sets has a smallest one.
LEMMA SmallestSet ==
    ASSUME NEW S, IsFiniteSet(S), NEW B \in SUBSET (SUBSET S), B # {}
    PROVE  \E T \in B : \A U \in B : U \subseteq T => U = T
<1>1. IsWellFoundedOn(StrictSubsetOrdering(S), SUBSET S)
    BY FS_StrictSubsetOrderingWellFounded, FS_FiniteSubsetsOfFinite
<1>2. PICK T \in B : \A U \in B : ~ (<<U, T>> \in StrictSubsetOrdering(S))
    BY <1>1, WFMin
<1>3. \A U \in B : U \subseteq T => U = T
    BY <1>2 DEF StrictSubsetOrdering
<1> QED BY <1>3

\* Two sums over one set are the same.
LEMMA AddsUnique ==
    ASSUME NEW S, IsFiniteSet(S), NEW a, NEW f, NEW g, Adds(f, a, S), Adds(g, a, S)
    PROVE  f = g
<1> DEFINE B == {T \in SUBSET S : f[T] # g[T]}
<1>1. /\ f = [s \in SUBSET S |-> f[s]] /\ g = [s \in SUBSET S |-> g[s]]
      /\ \A s \in SUBSET S : /\ f[s] = IF s = {} THEN 0 ELSE a[Chosen(s)] + f[s \ {Chosen(s)}]
                             /\ g[s] = IF s = {} THEN 0 ELSE a[Chosen(s)] + g[s \ {Chosen(s)}]
    BY DEF Adds
<1>2. SUFFICES ASSUME B # {} PROVE FALSE
    BY <1>1
<1>3. PICK T \in B : \A U \in B : U \subseteq T => U = T
  <2>1. B \in SUBSET (SUBSET S)
      OBVIOUS
  <2> HIDE DEF B
  <2> QED BY <1>2, <2>1, SmallestSet
<1>4. T # {} /\ T \in SUBSET S
    BY <1>1, <1>3
<1>5. Chosen(T) \in T
    BY <1>4 DEF Chosen
<1>6. f[T \ {Chosen(T)}] = g[T \ {Chosen(T)}]
    BY <1>3, <1>4, <1>5
<1> QED BY <1>1, <1>3, <1>4, <1>6

\* A sum over a set is one over its parts.
LEMMA AddsPart ==
    ASSUME NEW S, NEW T \in SUBSET S, NEW a, NEW f, Adds(f, a, S)
    PROVE  Adds([s \in SUBSET T |-> f[s]], a, T)
<1> DEFINE g == [s \in SUBSET T |-> f[s]]
<1>1. \A s \in SUBSET T : s \in SUBSET S /\ s \ {Chosen(s)} \in SUBSET T
    OBVIOUS
<1>2. \A s \in SUBSET S : f[s] = IF s = {} THEN 0 ELSE a[Chosen(s)] + f[s \ {Chosen(s)}]
    BY DEF Adds
<1>3. \A s \in SUBSET T : g[s] = IF s = {} THEN 0 ELSE a[Chosen(s)] + g[s \ {Chosen(s)}]
    BY <1>1, <1>2
<1>4. g = [s \in SUBSET T |-> g[s]]
    OBVIOUS
<1> HIDE DEF g
<1> QED BY <1>3, <1>4 DEF Adds, g

LEMMA AddsExists ==
    ASSUME NEW S, IsFiniteSet(S), NEW a
    PROVE  \E f : Adds(f, a, S)
<1> DEFINE B == {T \in SUBSET S : ~ \E f : Adds(f, a, T)}
<1>1. SUFFICES ASSUME B # {} PROVE FALSE
    OBVIOUS
<1>2. PICK U \in B : \A V \in B : V \subseteq U => V = U
  <2>1. B \in SUBSET (SUBSET S)
      OBVIOUS
  <2> HIDE DEF B
  <2> QED BY <1>1, <2>1, SmallestSet
<1> DEFINE F(V) == CHOOSE f : Adds(f, a, V)
           Less(s) == s \ {Chosen(s)}
           g == [s \in SUBSET U |-> IF s = {} THEN 0 ELSE a[Chosen(s)] + F(Less(s))[Less(s)]]
<1>3. \A V \in SUBSET U : V # U => Adds(F(V), a, V)
    BY <1>2
<1>4. \A s \in SUBSET U : s # {} => Less(s) \in SUBSET s /\ Less(s) # s /\ Less(s) # U
    BY DEF Chosen
<1>5. \A s \in SUBSET U : g[s] = IF s = {} THEN 0 ELSE a[Chosen(s)] + F(Less(s))[Less(s)]
    OBVIOUS
<1>6. ASSUME NEW V \in SUBSET U, V # U
      PROVE  g[V] = F(V)[V]
  <2>1. Adds(F(V), a, V) /\ IsFiniteSet(V)
      BY <1>2, <1>3, <1>6, FS_Subset
  <2>2. \A s \in SUBSET V : F(V)[s] = IF s = {} THEN 0 ELSE a[Chosen(s)] + F(V)[Less(s)]
      BY <2>1 DEF Adds
  <2>3. CASE V = {}
      BY <1>5, <2>2, <2>3
  <2>4. CASE V # {}
    <3> DEFINE W == Less(V)
    <3>1. W \in SUBSET V /\ W \in SUBSET U /\ W # U /\ IsFiniteSet(W)
        BY <1>4, <1>6, <2>1, <2>4, FS_Subset
    <3>2. Adds([s \in SUBSET W |-> F(V)[s]], a, W)
      <4> HIDE DEF F, W, g
      <4> QED BY <2>1, <3>1, AddsPart
    <3>3. Adds(F(W), a, W)
        BY <1>3, <3>1
    <3>4. F(W) = [s \in SUBSET W |-> F(V)[s]]
        BY <3>1, <3>2, <3>3, AddsUnique
    <3>5. F(W)[W] = F(V)[W]
        BY <3>4
    <3> HIDE DEF F, g
    <3> QED BY <1>5, <2>2, <2>4, <3>5
  <2> QED BY <2>3, <2>4
<1>7. \A s \in SUBSET U : s # {} => Less(s) \in SUBSET U
    OBVIOUS
<1>8. g = [s \in SUBSET U |-> g[s]]
    OBVIOUS
<1> HIDE DEF F, g
<1>9. \A s \in SUBSET U : g[s] = IF s = {} THEN 0 ELSE a[Chosen(s)] + g[Less(s)]
    BY <1>4, <1>5, <1>6, <1>7
<1>10. Adds(g, a, U)
    BY <1>8, <1>9 DEF Adds
<1> QED BY <1>2, <1>10

\* What MapThenSumSet computes.
LEMMA SumAdds ==
    ASSUME NEW S, IsFiniteSet(S), NEW a
    PROVE  \E f : Adds(f, a, S) /\ \A T \in SUBSET S : SumOver(a, T) = f[T]
<1>1. ASSUME NEW T, IsFiniteSet(T), NEW f, Adds(f, a, T)
      PROVE  SumOver(a, T) = f[T]
  <2> DEFINE P(g) == g = [s \in SUBSET T |-> IF s = {} THEN 0
                              ELSE a[CHOOSE x \in s : TRUE] + g[s \ {CHOOSE x \in s : TRUE}]]
  <2>1. \A g : P(g) <=> Adds(g, a, T)
      BY DEF Adds, Chosen
  <2>2. SumOver(a, T) = (CHOOSE g : P(g))[T]
      BY DEF SumOver, MapThenSumSet, MapThenFoldSet
  <2>3. \A g : P(g) => g = f
      BY <1>1, <2>1, AddsUnique
  <2> HIDE DEF P
  <2> QED BY <1>1, <2>1, <2>2, <2>3
<1>2. PICK f : Adds(f, a, S)
    BY AddsExists
<1>3. ASSUME NEW T \in SUBSET S PROVE SumOver(a, T) = f[T]
  <2>1. Adds([s \in SUBSET T |-> f[s]], a, T) /\ IsFiniteSet(T)
      BY <1>2, AddsPart, FS_Subset
  <2> QED BY <1>1, <2>1
<1> QED BY <1>2, <1>3

LEMMA SumStep ==
    ASSUME NEW S, IsFiniteSet(S), NEW a
    PROVE  /\ SumOver(a, {}) = 0
           /\ S # {} => SumOver(a, S) = a[Chosen(S)] + SumOver(a, S \ {Chosen(S)})
<1>1. PICK f : Adds(f, a, S) /\ \A T \in SUBSET S : SumOver(a, T) = f[T]
    BY SumAdds
<1>2. \A s \in SUBSET S : f[s] = IF s = {} THEN 0 ELSE a[Chosen(s)] + f[s \ {Chosen(s)}]
    BY <1>1 DEF Adds
<1>3. {} \in SUBSET S /\ S \in SUBSET S /\ S \ {Chosen(S)} \in SUBSET S
    OBVIOUS
<1> QED BY <1>1, <1>2, <1>3

LEMMA SumType ==
    ASSUME NEW S, IsFiniteSet(S), NEW a, \A x \in S : a[x] \in Nat
    PROVE  SumOver(a, S) \in Nat
<1> DEFINE B == {T \in SUBSET S : SumOver(a, T) \notin Nat}
<1>1. SUFFICES ASSUME B # {} PROVE FALSE
    OBVIOUS
<1>2. PICK T \in SUBSET S : /\ SumOver(a, T) \notin Nat
                           /\ \A U \in SUBSET T : U # T => SumOver(a, U) \in Nat
  <2>1. B \in SUBSET (SUBSET S)
      OBVIOUS
  <2>2. PICK T \in B : \A U \in B : U \subseteq T => U = T
    <3> HIDE DEF B
    <3> QED BY <1>1, <2>1, SmallestSet
  <2> QED BY <2>2
<1> HIDE DEF B
<1>3. IsFiniteSet(T)
    BY FS_Subset
<1>4. SumOver(a, {}) = 0 /\ (T # {} => SumOver(a, T) = a[Chosen(T)] + SumOver(a, T \ {Chosen(T)}))
    BY <1>3, SumStep
<1>5. T # {} /\ Chosen(T) \in T
  <2>1. SumOver(a, {}) \in Nat
      BY <1>4
  <2>2. T # {}
      BY <1>2, <2>1
  <2> QED BY <2>2 DEF Chosen
<1>6. a[Chosen(T)] \in Nat /\ SumOver(a, T \ {Chosen(T)}) \in Nat
    BY <1>2, <1>5
<1> QED BY <1>2, <1>4, <1>5, <1>6

\* Any element may be taken first.
LEMMA SumTaken ==
    ASSUME NEW S, IsFiniteSet(S), NEW a, \A x \in S : a[x] \in Nat, NEW k \in S
    PROVE  SumOver(a, S) = a[k] + SumOver(a, S \ {k})
<1> DEFINE Wrong(T) == \E j \in T : SumOver(a, T) # a[j] + SumOver(a, T \ {j})
           B == {T \in SUBSET S : Wrong(T)}
<1>1. SUFFICES ASSUME B # {} PROVE FALSE
    OBVIOUS
<1>2. PICK T \in SUBSET S : Wrong(T) /\ \A U \in SUBSET T : U # T => ~ Wrong(U)
  <2> HIDE DEF Wrong
  <2>1. B \in SUBSET (SUBSET S)
      OBVIOUS
  <2>2. PICK T \in B : \A U \in B : U \subseteq T => U = T
    <3> HIDE DEF B
    <3> QED BY <1>1, <2>1, SmallestSet
  <2> QED BY <2>2
<1> HIDE DEF B
<1>3. PICK j \in T : SumOver(a, T) # a[j] + SumOver(a, T \ {j})
    BY <1>2
<1>4. \A U \in SUBSET T : U # T => \A i \in U : SumOver(a, U) = a[i] + SumOver(a, U \ {i})
    BY <1>2
<1> HIDE DEF Wrong
<1>5. IsFiniteSet(T)
    BY FS_Subset
<1>6. PICK x \in T : SumOver(a, T) = a[x] + SumOver(a, T \ {x})
  <2>1. Chosen(T) \in T
      BY <1>3 DEF Chosen
  <2> QED BY <1>5, <2>1, SumStep
<1>7. x # j
    BY <1>3, <1>6
<1>8. /\ T \ {x} \in SUBSET T /\ T \ {x} # T /\ j \in T \ {x}
      /\ T \ {j} \in SUBSET T /\ T \ {j} # T /\ x \in T \ {j}
      /\ (T \ {x}) \ {j} = (T \ {j}) \ {x}
    BY <1>7
<1> DEFINE rest == (T \ {j}) \ {x}
<1>9. SumOver(a, T \ {x}) = a[j] + SumOver(a, rest)
    BY <1>4, <1>8
<1>10. SumOver(a, T \ {j}) = a[x] + SumOver(a, rest)
    BY <1>4, <1>8
<1>11. SumOver(a, rest) \in Nat
  <2>1. IsFiniteSet(rest) /\ \A y \in rest : a[y] \in Nat
      BY <1>5, FS_Subset
  <2> HIDE DEF rest
  <2> QED BY <2>1, SumType
<1>12. a[x] \in Nat /\ a[j] \in Nat
    OBVIOUS
<1> HIDE DEF rest
<1> QED BY <1>3, <1>6, <1>9, <1>10, <1>11, <1>12

LEMMA SumSame ==
    ASSUME NEW S, IsFiniteSet(S), NEW a, NEW b, \A x \in S : a[x] = b[x]
    PROVE  SumOver(a, S) = SumOver(b, S)
<1> DEFINE B == {T \in SUBSET S : SumOver(a, T) # SumOver(b, T)}
<1>1. SUFFICES ASSUME B # {} PROVE FALSE
    OBVIOUS
<1>2. PICK T \in SUBSET S : /\ SumOver(a, T) # SumOver(b, T)
                           /\ \A U \in SUBSET T : U # T => SumOver(a, U) = SumOver(b, U)
  <2>1. B \in SUBSET (SUBSET S)
      OBVIOUS
  <2>2. PICK T \in B : \A U \in B : U \subseteq T => U = T
    <3> HIDE DEF B
    <3> QED BY <1>1, <2>1, SmallestSet
  <2> QED BY <2>2
<1> HIDE DEF B
<1>3. IsFiniteSet(T)
    BY FS_Subset
<1>4. /\ SumOver(a, {}) = 0 /\ SumOver(b, {}) = 0
      /\ T # {} => /\ SumOver(a, T) = a[Chosen(T)] + SumOver(a, T \ {Chosen(T)})
                   /\ SumOver(b, T) = b[Chosen(T)] + SumOver(b, T \ {Chosen(T)})
    BY <1>3, SumStep
<1>5. T # {} /\ Chosen(T) \in T
    BY <1>2, <1>4 DEF Chosen
<1>6. a[Chosen(T)] = b[Chosen(T)]
      /\ SumOver(a, T \ {Chosen(T)}) = SumOver(b, T \ {Chosen(T)})
    BY <1>2, <1>5
<1> QED BY <1>2, <1>4, <1>5, <1>6

-----------------------------------------------------------------------------
(* The books.  Only finitely many entries are made; the invariant is the     *)
(* property itself, with what is refunded as a sum over the refunds, and     *)
(* each write changes one entry of it.                                       *)

EntryRow == [kind : {"payment", "refund"}, amount : Amounts, of : Entries,
             status : {"active", "voided"}, version : Nat]
Books == [Entries -> {NoEntry} \cup EntryRow]
IsLive(e, k) == e[k] # NoEntry /\ e[k].status = "active"
RefundsIn(e, p) == {r \in Entries : IsLive(e, r) /\ e[r].kind = "refund" /\ e[r].of = p}
Total(e, R) == SumOver([r \in Entries |-> e[r].amount], R)
Finite(e) == IsFiniteSet({k \in Entries : e[k] # NoEntry})
Sound(e) ==
    \A p \in Entries : RefundsIn(e, p) # {} =>
        IsLive(e, p) /\ e[p].kind = "payment" /\ Total(e, RefundsIn(e, p)) <= e[p].amount

InquiryRow == [status : InquiryStatuses,
               chosen : Offers \cup {"none"}, version : Nat]
OfferStates == OfferStatuses \cup {"none", "selected"}

BooksInv ==
    /\ entry \in Books /\ Finite(entry) /\ Sound(entry)
    /\ inquiry \in InquiryRow /\ offer \in [Offers -> OfferStates]
    /\ \A o \in Offers : offer[o] = "selected" => inquiry.chosen = o

\* An entry that is there is a whole row, and its amount a number.
LEMMA EntryThere ==
    ASSUME NEW e \in Books, NEW k \in Entries, e[k] # NoEntry
    PROVE  e[k] \in EntryRow /\ e[k].amount \in Nat
BY LedgerAssumption DEF Books, EntryRow, Amounts

LEMMA NoEntryIsNoRow == NoEntry \notin EntryRow
BY DEF NoEntry, EntryRow

\* What is refunded, as a sum.
LEMMA RefundedIs ==
    ASSUME NEW p, IsFiniteSet(RefundsOf(p))
    PROVE  RefundsOf(p) = RefundsIn(entry, p) /\ Refunded(p) = Total(entry, RefundsIn(entry, p))
<1> DEFINE R == RefundsOf(p)
           a == [r \in Entries |-> entry[r].amount]
           P(g) == g = [s \in SUBSET R |-> IF s = {} THEN 0
                          ELSE entry[CHOOSE x \in s : TRUE].amount + g[s \ {CHOOSE x \in s : TRUE}]]
<1>1. R = RefundsIn(entry, p) /\ R \subseteq Entries
    BY DEF RefundsOf, RefundsIn, LiveEntry, Made, IsLive
<1>2. Refunded(p) = (CHOOSE g : P(g))[R]
    BY DEF Refunded, MapThenSumSet, MapThenFoldSet
<1>3. \A s \in SUBSET R : s # {} =>
         entry[CHOOSE x \in s : TRUE].amount = a[Chosen(s)]
    BY <1>1 DEF Chosen
<1>4. ASSUME NEW g PROVE P(g) <=> Adds(g, a, R)
  <2> DEFINE f == [s \in SUBSET R |-> IF s = {} THEN 0
                     ELSE entry[CHOOSE x \in s : TRUE].amount + g[s \ {CHOOSE x \in s : TRUE}]]
             h == [s \in SUBSET R |-> IF s = {} THEN 0 ELSE a[Chosen(s)] + g[s \ {Chosen(s)}]]
  <2>1. \A s \in SUBSET R : f[s] = h[s]
    <3> HIDE DEF a
    <3> QED BY <1>3 DEF Chosen
  <2>2. f = h
      BY <2>1
  <2>3. P(g) <=> g = f
      OBVIOUS
  <2>4. Adds(g, a, R) <=> g = h
      BY DEF Adds
  <2> HIDE DEF f, h, P, a, R
  <2> QED BY <2>2, <2>3, <2>4
<1> HIDE DEF P, a
<1>5. PICK f : Adds(f, a, R) /\ \A T \in SUBSET R : SumOver(a, T) = f[T]
    BY SumAdds
<1>6. \A g : P(g) => g = f
    BY <1>4, <1>5, AddsUnique
<1>7. Refunded(p) = f[R]
    BY <1>2, <1>4, <1>5, <1>6
<1>8. SumOver(a, R) = f[R]
    BY <1>5
<1> QED BY <1>1, <1>7, <1>8 DEF Total, a

\* Refunds are finitely many, and their sum is a number.
LEMMA RefundsFinite ==
    ASSUME NEW e \in Books, Finite(e), NEW p
    PROVE  /\ IsFiniteSet(RefundsIn(e, p)) /\ RefundsIn(e, p) \subseteq Entries
           /\ \A r \in RefundsIn(e, p) : [q \in Entries |-> e[q].amount][r] \in Nat
           /\ Total(e, RefundsIn(e, p)) \in Nat
<1>1. RefundsIn(e, p) \in SUBSET {k \in Entries : e[k] # NoEntry}
    BY DEF RefundsIn, IsLive
<1>2. IsFiniteSet(RefundsIn(e, p)) /\ RefundsIn(e, p) \subseteq Entries
    BY <1>1, FS_Subset DEF Finite
<1>3. \A r \in RefundsIn(e, p) : e[r].amount \in Nat
    BY <1>1, EntryThere
<1>4. \A r \in RefundsIn(e, p) : [q \in Entries |-> e[q].amount][r] \in Nat
    BY <1>2, <1>3
<1> QED BY <1>2, <1>4, SumType DEF Total

\* One more entry leaves finitely many.
LEMMA FiniteStays ==
    ASSUME NEW e \in Books, Finite(e), NEW k \in Entries, NEW row \in EntryRow
    PROVE  [e EXCEPT ![k] = row] \in Books /\ Finite([e EXCEPT ![k] = row])
<1> DEFINE f == [e EXCEPT ![k] = row]
           M == {j \in Entries : e[j] # NoEntry}
<1>1. f \in Books
    BY DEF Books
<1>2. {j \in Entries : f[j] # NoEntry} = M \cup {k}
    BY NoEntryIsNoRow DEF Books
<1>3. IsFiniteSet(M)
    BY DEF Finite
<1> HIDE DEF M, f
<1>4. IsFiniteSet(M \cup {k})
    BY <1>3, FS_AddElement
<1> QED BY <1>1, <1>2, <1>4 DEF Finite, f

\* The same refunds of the same amounts are the same sum.
LEMMA TotalSame ==
    ASSUME NEW e \in Books, NEW f \in Books, Finite(e), NEW p, NEW R, R = RefundsIn(e, p),
           \A r \in R : f[r].amount = e[r].amount
    PROVE  Total(f, R) = Total(e, R)
<1>1. IsFiniteSet(R) /\ R \subseteq Entries
    BY RefundsFinite
<1>2. \A r \in R : [q \in Entries |-> f[q].amount][r] = [q \in Entries |-> e[q].amount][r]
    BY <1>1
<1> QED BY <1>1, <1>2, SumSame DEF Total

\* A payment may be added, and take any amount that covers its refunds.
LEMMA PaymentSound ==
    ASSUME NEW e \in Books, Finite(e), Sound(e), NEW k \in Entries, NEW row \in EntryRow,
           row.kind = "payment", row.status = "active",
           e[k] = NoEntry \/ e[k].kind = "payment",
           RefundsIn(e, k) # {} => Total(e, RefundsIn(e, k)) <= row.amount
    PROVE  Sound([e EXCEPT ![k] = row])
<1> DEFINE f == [e EXCEPT ![k] = row]
<1>1. f \in Books
    BY FiniteStays
<1>2. f[k] = row /\ row # NoEntry /\ \A j \in Entries : j # k => f[j] = e[j]
    BY NoEntryIsNoRow DEF Books
<1> HIDE DEF f
<1>3. \A p \in Entries : RefundsIn(f, p) = RefundsIn(e, p)
    BY <1>2 DEF RefundsIn, IsLive
<1>4. ASSUME NEW p \in Entries, RefundsIn(f, p) # {}
      PROVE  IsLive(f, p) /\ f[p].kind = "payment" /\ Total(f, RefundsIn(f, p)) <= f[p].amount
  <2>1. \A r \in RefundsIn(e, p) : f[r].amount = e[r].amount
      BY <1>2 DEF RefundsIn, IsLive
  <2>2. Total(f, RefundsIn(f, p)) = Total(e, RefundsIn(e, p))
      BY <1>1, <1>3, <2>1, TotalSame
  <2>3. CASE p = k
      BY <1>2, <1>3, <1>4, <2>2, <2>3 DEF IsLive
  <2>4. CASE p # k
      BY <1>2, <1>3, <1>4, <2>2, <2>4 DEF IsLive, Sound
  <2> QED BY <2>3, <2>4
<1> QED BY <1>4 DEF Sound, f

\* A refund within what was paid may be added.
LEMMA RefundSound ==
    ASSUME NEW e \in Books, Finite(e), Sound(e), NEW k \in Entries, NEW p \in Entries,
           NEW row \in EntryRow, row.kind = "refund", row.of = p, row.status = "active",
           e[k] = NoEntry, IsLive(e, p), e[p].kind = "payment",
           Total(e, RefundsIn(e, p)) + row.amount <= e[p].amount
    PROVE  Sound([e EXCEPT ![k] = row])
<1> DEFINE f == [e EXCEPT ![k] = row]
<1>1. f \in Books /\ Finite(f)
    BY FiniteStays
<1>2. f[k] = row /\ row # NoEntry /\ \A j \in Entries : j # k => f[j] = e[j]
    BY NoEntryIsNoRow DEF Books
<1>3. p # k
    BY DEF IsLive
<1> HIDE DEF f
<1>4. ASSUME NEW q \in Entries, RefundsIn(f, q) # {}
      PROVE  IsLive(f, q) /\ f[q].kind = "payment" /\ Total(f, RefundsIn(f, q)) <= f[q].amount
  <2>1. k \notin RefundsIn(e, q) /\ \A r \in RefundsIn(e, q) : f[r].amount = e[r].amount
      BY <1>2 DEF RefundsIn, IsLive
  <2>2. Total(f, RefundsIn(e, q)) = Total(e, RefundsIn(e, q))
      BY <1>1, <2>1, TotalSame
  <2>3. CASE q = p
    <3>1. RefundsIn(f, p) = RefundsIn(e, p) \cup {k} /\ RefundsIn(f, p) \ {k} = RefundsIn(e, p)
      <4>1. RefundsIn(f, p) = RefundsIn(e, p) \cup {k}
          BY <1>2 DEF RefundsIn, IsLive
      <4> QED BY <2>1, <2>3, <4>1
    <3>2. k \in RefundsIn(f, p)
        BY <3>1
    <3>3. Total(f, RefundsIn(f, p)) = [r \in Entries |-> f[r].amount][k] + Total(f, RefundsIn(f, p) \ {k})
      <4> DEFINE a == [r \in Entries |-> f[r].amount]
                 R == RefundsIn(f, p)
      <4>1. IsFiniteSet(R) /\ \A r \in R : a[r] \in Nat
          BY <1>1, RefundsFinite
      <4> HIDE DEF a, R
      <4>2. SumOver(a, R) = a[k] + SumOver(a, R \ {k})
          BY <3>2, <4>1, SumTaken DEF R
      <4> QED BY <4>2 DEF Total, a, R
    <3>4. Total(f, RefundsIn(f, p)) = row.amount + Total(e, RefundsIn(e, p))
        BY <1>2, <2>2, <2>3, <3>1, <3>3
    <3>5. Total(e, RefundsIn(e, p)) \in Nat /\ row.amount \in Nat /\ f[p] = e[p]
        BY <1>1, <1>2, <1>3, RefundsFinite, EntryThere
    <3> QED BY <1>2, <1>3, <2>3, <3>4, <3>5 DEF IsLive
  <2>4. CASE q # p
    <3>1. RefundsIn(f, q) = RefundsIn(e, q)
        BY <1>2, <2>4 DEF RefundsIn, IsLive
    <3>2. IsLive(e, q) /\ e[q].kind = "payment" /\ Total(e, RefundsIn(e, q)) <= e[q].amount
        BY <1>4, <3>1 DEF Sound
    <3>3. q # k
        BY <3>2 DEF IsLive
    <3> QED BY <1>2, <2>2, <3>1, <3>2, <3>3 DEF IsLive
  <2> QED BY <2>3, <2>4
<1> QED BY <1>4 DEF Sound, f

\* A refund may be undone, and a payment without refunds.
LEMMA UndoneSound ==
    ASSUME NEW e \in Books, Finite(e), Sound(e), NEW k \in Entries, NEW row \in EntryRow,
           row.status = "voided", IsLive(e, k), row.amount = e[k].amount,
           e[k].kind = "payment" => RefundsIn(e, k) = {}
    PROVE  Sound([e EXCEPT ![k] = row])
<1> DEFINE f == [e EXCEPT ![k] = row]
<1>1. f \in Books /\ Finite(f)
    BY FiniteStays
<1>2. f[k] = row /\ \A j \in Entries : j # k => f[j] = e[j]
    BY DEF Books
<1>3. \A j \in Entries : f[j].amount = e[j].amount
    BY <1>2
<1> HIDE DEF f
<1>4. ASSUME NEW q \in Entries, RefundsIn(f, q) # {}
      PROVE  IsLive(f, q) /\ f[q].kind = "payment" /\ Total(f, RefundsIn(f, q)) <= f[q].amount
  <2>1. RefundsIn(f, q) = RefundsIn(e, q) \ {k}
      BY <1>2 DEF RefundsIn, IsLive
  <2>2. IsLive(e, q) /\ e[q].kind = "payment" /\ Total(e, RefundsIn(e, q)) <= e[q].amount
      BY <1>4, <2>1 DEF Sound
  <2>3. q # k
      BY <1>4, <2>1, <2>2
  <2>4. Total(f, RefundsIn(e, q)) = Total(e, RefundsIn(e, q))
    <3>1. \A r \in RefundsIn(e, q) : f[r].amount = e[r].amount
        BY <1>3 DEF RefundsIn
    <3> QED BY <1>1, <3>1, TotalSame
  <2>5. Total(f, RefundsIn(f, q)) <= Total(f, RefundsIn(e, q))
    <3> DEFINE a == [r \in Entries |-> f[r].amount]
               R == RefundsIn(e, q)
    <3>1. CASE k \in R
      <4>1. IsFiniteSet(R) /\ \A r \in R : a[r] \in Nat
        <5>1. \A r \in R : [j \in Entries |-> e[j].amount][r] \in Nat /\ r \in Entries
            BY RefundsFinite
        <5> QED BY <1>3, <5>1, RefundsFinite
      <4> HIDE DEF a, R
      <4>2. SumOver(a, R) = a[k] + SumOver(a, R \ {k})
          BY <3>1, <4>1, SumTaken
      <4>3. IsFiniteSet(R \ {k}) /\ \A r \in R \ {k} : a[r] \in Nat
          BY <4>1, FS_Subset
      <4>4. SumOver(a, R \ {k}) \in Nat /\ a[k] \in Nat
          BY <3>1, <4>1, <4>3, SumType
      <4>5. SumOver(a, R \ {k}) <= SumOver(a, R)
          BY <4>2, <4>4
      <4> QED BY <2>1, <4>5 DEF Total, a, R
    <3>2. CASE k \notin R
      <4>1. RefundsIn(f, q) = RefundsIn(e, q)
          BY <2>1, <3>2
      <4>2. Total(f, RefundsIn(f, q)) \in Nat
          BY <1>1, RefundsFinite
      <4> QED BY <4>1, <4>2
    <3> QED BY <3>1, <3>2
  <2>6. /\ Total(f, RefundsIn(f, q)) \in Nat /\ Total(e, RefundsIn(e, q)) \in Nat
        /\ e[q].amount \in Nat
      BY <1>1, <2>2, RefundsFinite, EntryThere DEF IsLive
  <2> QED BY <1>2, <2>2, <2>3, <2>4, <2>5, <2>6 DEF IsLive
<1> QED BY <1>4 DEF Sound, f

\* What a write makes of the inquiry.
LEMMA BumpedRow ==
    ASSUME NEW r \in InquiryRow, NEW status \in InquiryStatuses
    PROVE  /\ Bumped(r) \in InquiryRow /\ Bumped(r).chosen = r.chosen
           /\ [Bumped(r) EXCEPT !.status = status] \in InquiryRow
           /\ [Bumped(r) EXCEPT !.status = status].chosen = r.chosen
<1>1. Bumped(r) \in InquiryRow /\ Bumped(r).chosen = r.chosen
    BY DEF Bumped, InquiryRow
<1> QED BY <1>1 DEF InquiryRow

LEMMA SelectedRow ==
    ASSUME NEW r \in InquiryRow, NEW o \in Offers
    PROVE  /\ [Bumped(r) EXCEPT !.status = "selected", !.chosen = o] \in InquiryRow
           /\ [Bumped(r) EXCEPT !.status = "selected", !.chosen = o].chosen = o
<1> DEFINE b == [Bumped(r) EXCEPT !.status = "selected"]
<1>1. b \in InquiryRow
    BY BumpedRow DEF InquiryStatuses
<1>2. [Bumped(r) EXCEPT !.status = "selected", !.chosen = o] = [b EXCEPT !.chosen = o]
    OBVIOUS
<1> HIDE DEF b
<1> QED BY <1>1, <1>2 DEF InquiryRow

\* A correction and an undo of one row.
LEMMA CorrectedRow ==
    ASSUME NEW r \in EntryRow, NEW amount \in Amounts, NEW version \in Nat
    PROVE  [r EXCEPT !.amount = amount, !.version = version]
           = [kind |-> r.kind, amount |-> amount, of |-> r.of, status |-> r.status, version |-> version]
<1> DEFINE b == [r EXCEPT !.amount = amount]
<1>1. b = [kind |-> r.kind, amount |-> amount, of |-> r.of, status |-> r.status, version |-> r.version]
    BY DEF EntryRow
<1>2. b \in EntryRow /\ b.amount = amount /\ b.kind = r.kind /\ b.of = r.of /\ b.status = r.status
    BY <1>1 DEF EntryRow
<1>3. [r EXCEPT !.amount = amount, !.version = version] = [b EXCEPT !.version = version]
    OBVIOUS
<1> HIDE DEF b
<1> QED BY <1>2, <1>3 DEF EntryRow

LEMMA UndoneRow ==
    ASSUME NEW r \in EntryRow, NEW version \in Nat
    PROVE  [r EXCEPT !.status = "voided", !.version = version]
           = [kind |-> r.kind, amount |-> r.amount, of |-> r.of, status |-> "voided", version |-> version]
<1> DEFINE b == [r EXCEPT !.status = "voided"]
<1>1. b = [kind |-> r.kind, amount |-> r.amount, of |-> r.of, status |-> "voided", version |-> r.version]
    BY DEF EntryRow
<1>2. b \in EntryRow /\ b.amount = r.amount /\ b.kind = r.kind /\ b.of = r.of /\ b.status = "voided"
    BY <1>1 DEF EntryRow
<1>3. [r EXCEPT !.status = "voided", !.version = version] = [b EXCEPT !.version = version]
    OBVIOUS
<1> HIDE DEF b
<1> QED BY <1>2, <1>3 DEF EntryRow

LEMMA BooksInitInv == BooksInit => BooksInv
<1> SUFFICES ASSUME BooksInit PROVE BooksInv
    OBVIOUS
<1>1. entry \in Books /\ \A k \in Entries : entry[k] = NoEntry
    BY DEF BooksInit, Books
<1>2. {k \in Entries : entry[k] # NoEntry} = {} /\ \A p \in Entries : RefundsIn(entry, p) = {}
    BY <1>1 DEF RefundsIn, IsLive
<1>3. Finite(entry) /\ Sound(entry)
    BY <1>2, FS_EmptySet DEF Finite, Sound
<1> QED BY <1>1, <1>3 DEF BooksInit, BooksInv, InquiryRow, InquiryStatuses,
       OpenInquiry, OfferStates

LEMMA BooksStepInv == BooksInv /\ [LedgerNext \/ QuotesNext]_booksVars => BooksInv'
<1> SUFFICES ASSUME BooksInv, [LedgerNext \/ QuotesNext]_booksVars
             PROVE  BooksInv'
    OBVIOUS
<1>0. entry \in Books /\ Finite(entry) /\ Sound(entry)
    BY DEF BooksInv
<1>a. \A p : RefundsOf(p) = RefundsIn(entry, p) /\ Refunded(p) = Total(entry, RefundsIn(entry, p))
  <2>1. \A p : RefundsOf(p) = RefundsIn(entry, p)
      BY DEF RefundsOf, RefundsIn, LiveEntry, Made, IsLive
  <2> QED BY <1>0, <2>1, RefundsFinite, RefundedIs
\* A write of one entry.
<1>b. ASSUME NEW k \in Entries, NEW row \in EntryRow, entry' = [entry EXCEPT ![k] = row],
             Sound([entry EXCEPT ![k] = row]), UNCHANGED quoteVars
      PROVE  BooksInv'
    BY <1>0, <1>b, FiniteStays DEF BooksInv, quoteVars
<1>1. ASSUME NEW k \in Entries, NEW amount \in Amounts, NEW context \in {Without, 1},
             AddPayment(k, amount, context)
      PROVE  BooksInv'
  <2> DEFINE row == [kind |-> "payment", amount |-> amount, of |-> k,
                     status |-> "active", version |-> context]
  <2>1. row \in EntryRow /\ row.kind = "payment" /\ row.status = "active"
      BY DEF EntryRow, Without
  <2>2. entry[k] = NoEntry /\ entry' = [entry EXCEPT ![k] = row] /\ UNCHANGED quoteVars
      BY <1>1 DEF AddPayment, Made, Committed
  <2> HIDE DEF row
  <2>3. RefundsIn(entry, k) = {}
      BY <1>0, <2>2 DEF Sound, IsLive
  <2> QED BY <1>0, <1>b, <2>1, <2>2, <2>3, PaymentSound
<1>2. ASSUME NEW k \in Entries, NEW p \in Entries, NEW amount \in Amounts,
             NEW context \in {Without, 1}, AddRefund(k, p, amount, context)
      PROVE  BooksInv'
  <2> DEFINE version == RefundContext(p, context)
  <2> DEFINE row == [kind |-> "refund", amount |-> amount, of |-> p,
                     status |-> "active", version |-> version]
  <2>0. version \in Nat
      BY DEF RefundContext, Without
  <2>1. row \in EntryRow /\ row.kind = "refund" /\ row.status = "active" /\ row.of = p
        /\ row.amount = amount
    <3> HIDE DEF version
    <3> QED BY <2>0 DEF EntryRow
  <2>2. entry[k] = NoEntry /\ entry' = [entry EXCEPT ![k] = row] /\ UNCHANGED quoteVars
      BY <1>2 DEF AddRefund, Made, Committed
  <2>3. IsLive(entry, p) /\ entry[p].kind = "payment"
        /\ Total(entry, RefundsIn(entry, p)) + amount <= entry[p].amount
      BY <1>2, <1>a DEF AddRefund, LivePayment, LiveEntry, Made, IsLive
  <2> HIDE DEF row
  <2> QED BY <1>0, <1>b, <2>1, <2>2, <2>3, RefundSound
\* A payment takes another amount.
<1>3. ASSUME NEW p \in Entries, NEW amount \in Amounts, NEW version \in Nat,
             LivePayment(p), amount >= Refunded(p),
             entry' = [entry EXCEPT ![p].amount = amount, ![p].version = version],
             UNCHANGED quoteVars
      PROVE  BooksInv'
  <2> DEFINE row == [kind |-> "payment", amount |-> amount, of |-> entry[p].of,
                     status |-> "active", version |-> version]
  <2>1. entry[p] \in EntryRow /\ entry[p].kind = "payment" /\ entry[p].status = "active"
      BY <1>0, <1>3, EntryThere DEF LivePayment, LiveEntry, Made
  <2>2. row \in EntryRow /\ row.kind = "payment" /\ row.status = "active" /\ row.amount = amount
      BY <2>1 DEF EntryRow
  <2>3. entry' = [entry EXCEPT ![p] = row]
    <3>1. [entry[p] EXCEPT !.amount = amount, !.version = version] = row
        BY <2>1, CorrectedRow
    <3> QED BY <1>0, <1>3, <3>1 DEF Books
  <2>4. Total(entry, RefundsIn(entry, p)) <= amount
    <3>1. amount \in Nat /\ Total(entry, RefundsIn(entry, p)) \in Nat
        BY <1>0, LedgerAssumption, RefundsFinite DEF Amounts
    <3> QED BY <1>3, <1>a, <3>1
  <2> HIDE DEF row
  <2> QED BY <1>0, <1>3, <1>b, <2>1, <2>2, <2>3, <2>4, PaymentSound
<1>4. ASSUME NEW k \in Entries, entry[k] # NoEntry PROVE entry[k].version \in Nat
    BY <1>0, <1>4, EntryThere DEF EntryRow
<1>5. ASSUME NEW k \in Entries, NEW amount \in Amounts, NEW v \in 0 .. MaxEdits,
             CorrectPayment(k, amount, v)
      PROVE  BooksInv'
  <2>1. LivePayment(k) /\ entry[k] # NoEntry
      BY <1>5 DEF CorrectPayment, LivePayment, LiveEntry, Made
  <2>2. Later(k, v) \in Nat
      BY <1>4, <2>1 DEF Later
  <2> QED BY <1>3, <1>5, <2>1, <2>2 DEF CorrectPayment, Committed
<1>6. ASSUME NEW k \in Entries, NEW amount \in Amounts, NEW project \in {"keep", "set", "clear"},
             ApplyChange(k, amount, project)
      PROVE  BooksInv'
  <2>1. LivePayment(k) /\ entry[k] # NoEntry
      BY <1>6 DEF ApplyChange, LivePayment, LiveEntry, Made
  <2>2. ContextAfter(entry[k].version, project) \in Nat
      BY <1>4, <2>1 DEF ContextAfter, Without
  <2> QED BY <1>3, <1>6, <2>1, <2>2 DEF ApplyChange, MayBecome
<1>7. ASSUME NEW k \in Entries, NEW v \in 0 .. MaxEdits, Undo(k, v)
      PROVE  BooksInv'
  <2> DEFINE row == [kind |-> entry[k].kind, amount |-> entry[k].amount, of |-> entry[k].of,
                     status |-> "voided", version |-> Later(k, v)]
  <2>1. IsLive(entry, k) /\ entry[k] \in EntryRow
      BY <1>0, <1>7, EntryThere DEF Undo, LiveEntry, Made, IsLive
  <2>2. Later(k, v) \in Nat
      BY <1>4, <2>1 DEF Later, IsLive
  <2>3. row \in EntryRow /\ row.status = "voided" /\ row.amount = entry[k].amount
      BY <2>1, <2>2 DEF EntryRow
  <2>4. entry' = [entry EXCEPT ![k] = row] /\ UNCHANGED quoteVars
    <3> DEFINE later == Later(k, v)
    <3>1. entry' = [entry EXCEPT ![k].status = "voided", ![k].version = later] /\ UNCHANGED quoteVars
        BY <1>7 DEF Undo, Committed
    <3> HIDE DEF later
    <3>2. [entry[k] EXCEPT !.status = "voided", !.version = later]
          = [kind |-> entry[k].kind, amount |-> entry[k].amount, of |-> entry[k].of,
             status |-> "voided", version |-> later]
        BY <2>1, <2>2, UndoneRow DEF later
    <3> QED BY <1>0, <3>1, <3>2 DEF Books, later
  <2>5. entry[k].kind = "payment" => RefundsIn(entry, k) = {}
      BY <1>7, <1>a DEF Undo, MayVoid
  <2> HIDE DEF row
  <2> QED BY <1>0, <1>b, <2>1, <2>3, <2>4, <2>5, UndoneSound
\* No other write touches the entries.
<1>8. CASE UNCHANGED <<entry, quoteVars>>
    BY <1>8 DEF BooksInv, quoteVars
<1>9. CASE LedgerNext
  <2>1. ASSUME NEW k \in Entries, Attach(k) PROVE BooksInv'
      BY <1>8, <2>1 DEF Attach, Committed
  <2>2. CASE Export \/ StopBeforeExport \/ SwitchWriter
      BY <1>8, <2>2 DEF Export, StopBeforeExport, SwitchWriter
  <2> QED BY <1>1, <1>2, <1>5, <1>6, <1>7, <1>9, <2>1, <2>2 DEF LedgerNext
\* Offers.
<1>10. ASSUME entry' = entry,
              inquiry' \in InquiryRow, offer' \in [Offers -> OfferStates],
              \A o \in Offers : offer'[o] = "selected" => inquiry'.chosen = o
       PROVE  BooksInv'
    BY <1>0, <1>10 DEF BooksInv
<1>11. CASE QuotesNext
  <2>0. /\ inquiry \in InquiryRow /\ offer \in [Offers -> OfferStates]
        /\ \A o \in Offers : offer[o] = "selected" => inquiry.chosen = o
      BY DEF BooksInv
  <2>1. ASSUME NEW o \in Offers, NEW status \in OfferStatuses,
               AddOffer(o, status) \/ UpdateOffer(o, status)
        PROVE  BooksInv'
    <3>1. inquiry' \in InquiryRow /\ inquiry'.chosen = inquiry.chosen
      <4>1. CASE UpdateOffer(o, status)
          BY <2>0, <4>1 DEF UpdateOffer
      <4>2. CASE AddOffer(o, status) /\ inquiry.status \notin OpenInquiry
          BY <2>0, <4>2 DEF AddOffer
      <4>3. CASE AddOffer(o, status) /\ inquiry.status \in OpenInquiry
        <5> DEFINE to == IF status = "review_required" THEN status ELSE "quoted"
        <5>1. to \in InquiryStatuses
            BY DEF InquiryStatuses, OpenInquiry
        <5>2. inquiry' = [Bumped(inquiry) EXCEPT !.status = to]
            BY <4>3 DEF AddOffer
        <5> HIDE DEF to
        <5> QED BY <2>0, <5>1, <5>2, BumpedRow
      <4> QED BY <2>1, <4>1, <4>2, <4>3
    <3>2. offer' = [offer EXCEPT ![o] = status] /\ entry' = entry
        BY <2>1 DEF AddOffer, UpdateOffer, Quoted, ledgerVars
    <3> QED BY <1>10, <2>0, <3>1, <3>2 DEF OfferStates, OfferStatuses
  <2>2. ASSUME NEW o \in Offers, ExpireOffer(o) PROVE BooksInv'
      BY <1>10, <2>0, <2>2 DEF ExpireOffer, Quoted, ledgerVars, OfferStates, OfferStatuses
  <2>3. ASSUME NEW o \in Offers, SelectOffer(o) PROVE BooksInv'
    <3>1. inquiry' \in InquiryRow /\ inquiry'.chosen = o
        BY <2>0, <2>3, SelectedRow DEF SelectOffer
    <3>2. entry' = entry
          /\ offer' = [x \in Offers |-> IF x = o THEN "selected"
                                        ELSE IF offer[x] = "selected" THEN "quoted" ELSE offer[x]]
        BY <2>3 DEF SelectOffer, Quoted, ledgerVars
    <3> QED BY <1>10, <2>0, <3>1, <3>2 DEF OfferStates, OfferStatuses
  <2>4. ASSUME NEW status \in InquiryStatuses, UpdateInquiry(status) PROVE BooksInv'
    <3>1. inquiry' \in InquiryRow /\ inquiry'.chosen = inquiry.chosen
        BY <2>0, <2>4, BumpedRow DEF UpdateInquiry
    <3>2. entry' = entry /\ offer' = offer
        BY <2>4 DEF UpdateInquiry, Quoted, ledgerVars
    <3> QED BY <1>10, <2>0, <3>1, <3>2
  <2>5. CASE SwitchWriter
      BY <1>8, <2>5 DEF SwitchWriter
  <2> QED BY <1>11, <2>1, <2>2, <2>3, <2>4, <2>5 DEF QuotesNext
<1>12. CASE UNCHANGED booksVars
    BY <1>8, <1>12 DEF booksVars, ledgerVars
<1> QED BY <1>9, <1>11, <1>12

\* No payments, refunds, corrections, undos and changes, in any number and of
\* any amounts, leave more refunded than was paid (_active_refund_cents and
\* the checks of its callers), or two offers selected.
THEOREM BooksBalance == BooksSpec => []BooksAddUp
<1>1. BooksInv => BooksAddUp
  <2> SUFFICES ASSUME BooksInv PROVE BooksAddUp
      OBVIOUS
  <2>1. \A p : RefundsOf(p) = RefundsIn(entry, p)
      BY DEF RefundsOf, RefundsIn, LiveEntry, Made, IsLive
  <2>2. \A p : Refunded(p) = Total(entry, RefundsIn(entry, p))
      BY <2>1, RefundsFinite, RefundedIs DEF BooksInv
  <2> QED BY <2>1, <2>2 DEF BooksInv, Sound, BooksAddUp, LivePayment, LiveEntry, Made, IsLive
<1> QED BY <1>1, BooksInitInv, BooksStepInv, PTL DEF BooksSpec
=============================================================================
