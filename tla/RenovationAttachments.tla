------------------------ MODULE RenovationAttachments ------------------------
(***************************************************************************)
(* The files behind the ledger's attachments (LedgerStore.attach_content). *)
(* A file is named by its digest and type and shared by all attachments of *)
(* the same bytes; a marker file announces it before it is written, and a  *)
(* failed request or the next start clears away what no row refers to.     *)
(*                                                                         *)
(* The server answers one request after the other: attach_content does not *)
(* give way to another before it returns or raises.                        *)
(*                                                                         *)
(* Abstractions.  A request that is refused before its marker, or answered *)
(* from its record, leaves nothing behind and is left out; so is a marker  *)
(* torn by the stop of the process, which has announced nothing yet.  The  *)
(* markers left behind by several attempts of one request are told apart   *)
(* from its present one, not from each other.                              *)
(***************************************************************************)
EXTENDS Naturals

CONSTANTS
    Attachments,   \* idempotency keys
    Bytes,         \* the storage name of each request's content
    MaxHalts,      \* bound on stops of the process
    NoAttachment

ASSUME AttachmentAssumption ==
    DOMAIN Bytes = Attachments /\ MaxHalts \in Nat /\ NoAttachment \notin Attachments

VARIABLES
    attaching, \* the request under way: whose it is, where it is, whether its marker
               \* and its temporary file exist, and created: target_created
    abandoned, \* requests with a .attach-pending file of an earlier attempt
    scraps,    \* requests with a .attach-*.tmp file of an earlier attempt
    stored,    \* contents with a file in attachments_dir
    rows,      \* requests with a committed row of table attachments
    serving,   \* the store is open
    halts

attachmentVars == <<attaching, abandoned, scraps, stored, rows, serving, halts>>

NotAttaching == [of |-> NoAttachment, at |-> "idle",
                 marker |-> FALSE, temporary |-> FALSE, created |-> FALSE]
ItsFile == Bytes[attaching.of]
Recorded(content) == \E k \in rows : Bytes[k] = content

AttachmentsInit ==
    /\ attaching = NotAttaching /\ abandoned = {} /\ scraps = {}
    /\ stored = {} /\ rows = {} /\ serving = TRUE /\ halts = 0

-----------------------------------------------------------------------------
BeginAttach(k) ==
    /\ serving /\ attaching.at = "idle" /\ k \notin rows
    /\ attaching' = [NotAttaching EXCEPT !.of = k, !.at = "begun"]
    /\ UNCHANGED <<abandoned, scraps, stored, rows, serving, halts>>

WriteMarker ==
    /\ attaching.at = "begun"
    /\ attaching' = [attaching EXCEPT !.at = "marked", !.marker = TRUE]
    /\ UNCHANGED <<abandoned, scraps, stored, rows, serving, halts>>

WriteTemporary ==
    /\ attaching.at = "marked"
    /\ attaching' = [attaching EXCEPT !.at = "written", !.temporary = TRUE]
    /\ UNCHANGED <<abandoned, scraps, stored, rows, serving, halts>>

\* The file of these bytes is there already, or the temporary becomes it.
PlaceFile ==
    /\ attaching.at = "written"
    /\ attaching' = [attaching EXCEPT !.at = "placed", !.temporary = FALSE,
                                      !.created = ItsFile \notin stored]
    /\ stored' = stored \cup {ItsFile}
    /\ UNCHANGED <<abandoned, scraps, rows, serving, halts>>

CommitAttachment ==
    /\ attaching.at = "placed" /\ attaching' = [attaching EXCEPT !.at = "recorded"]
    /\ rows' = rows \cup {attaching.of}
    /\ UNCHANGED <<abandoned, scraps, stored, serving, halts>>

RemoveMarker ==
    /\ attaching.at \in {"recorded", "cleared"} /\ attaching' = NotAttaching
    /\ UNCHANGED <<abandoned, scraps, stored, rows, serving, halts>>

-----------------------------------------------------------------------------
(* Anything raised, the removal of the marker after the commit included:    *)
(* the temporary is removed, the transaction rolled back if it is open, and *)
(* a file this request created is unlinked if no row refers to it.          *)
AttachFails ==
    /\ attaching.at \in {"begun", "marked", "written", "placed", "recorded"}
    /\ attaching' = [attaching EXCEPT !.at = "failing"]
    /\ UNCHANGED <<abandoned, scraps, stored, rows, serving, halts>>

RollBack ==
    /\ attaching.at = "failing"
    /\ attaching' = [attaching EXCEPT !.at = IF attaching.created THEN "checking" ELSE "cleared",
                                      !.temporary = FALSE]
    /\ UNCHANGED <<abandoned, scraps, stored, rows, serving, halts>>

RowsUnseen == TRUE
MayUnlink == ~ Recorded(ItsFile)

CheckReferences ==
    /\ attaching.at = "checking"
    /\ attaching' = [attaching EXCEPT !.at = IF MayUnlink THEN "unlinking" ELSE "cleared"]
    /\ UNCHANGED <<abandoned, scraps, stored, rows, serving, halts>>

UnlinkFile ==
    /\ attaching.at = "unlinking" /\ attaching' = [attaching EXCEPT !.at = "cleared"]
    /\ stored' = stored \ {ItsFile}
    /\ UNCHANGED <<abandoned, scraps, rows, serving, halts>>

-----------------------------------------------------------------------------
\* The request ends where it is, and its marker and temporary stay.
Abandon ==
    /\ attaching' = NotAttaching
    /\ abandoned' = IF attaching.marker THEN abandoned \cup {attaching.of} ELSE abandoned
    /\ scraps' = IF attaching.temporary THEN scraps \cup {attaching.of} ELSE scraps
    /\ UNCHANGED <<stored, rows>>

\* A step of the clean-up raises in its turn.
CleanUpFails ==
    /\ attaching.at \in {"failing", "checking", "unlinking", "cleared"} /\ Abandon
    /\ UNCHANGED <<serving, halts>>

StopStore ==
    /\ halts < MaxHalts /\ halts' = halts + 1
    /\ serving' = FALSE /\ Abandon

\* At the next start the markers are worked off before the store serves, which may
\* itself be stopped; a marker whose work fails is kept for the start after that.
TargetKept(k) == stored
TargetCleared(k) == IF Recorded(Bytes[k]) THEN stored ELSE stored \ {Bytes[k]}

ReconcileMarker(k) ==
    /\ ~ serving /\ k \in abandoned
    /\ scraps' = scraps \ {k}
    /\ \/ stored' = TargetCleared(k) /\ abandoned' = abandoned \ {k}
       \/ UNCHANGED <<stored, abandoned>>
    /\ UNCHANGED <<attaching, rows, serving, halts>>

OpenStore ==
    /\ ~ serving /\ serving' = TRUE
    /\ UNCHANGED <<attaching, abandoned, scraps, stored, rows, halts>>

AttachmentsNext ==
    \/ \E k \in Attachments : BeginAttach(k) \/ ReconcileMarker(k)
    \/ WriteMarker \/ WriteTemporary \/ PlaceFile \/ CommitAttachment \/ RemoveMarker
    \/ AttachFails \/ RollBack \/ CheckReferences \/ UnlinkFile \/ CleanUpFails
    \/ StopStore \/ OpenStore

AttachmentsSpec == AttachmentsInit /\ [][AttachmentsNext]_attachmentVars

-----------------------------------------------------------------------------
(* Through failures, failing clean-ups and halts at every step, every       *)
(* recorded attachment has its file, and a file without a row is announced  *)
(* by a marker, as is a temporary, so that a start can clear it away        *)
(* (attach_content, _reconcile_attachment_staging).                         *)
Announced(k) == k \in abandoned \/ (attaching.marker /\ attaching.of = k)
AttachmentsHaveFiles ==
    /\ \A k \in rows : Bytes[k] \in stored
    /\ \A content \in stored :
          Recorded(content) \/ \E k \in Attachments : Announced(k) /\ Bytes[k] = content
    /\ scraps \subseteq abandoned /\ (attaching.temporary => attaching.marker)
=============================================================================
