------------------------------ MODULE MCAddons ------------------------------
(* The parts of the add-ons that share no table with one another, each on a   *)
(* small instance: a behaviour of this specification is a behaviour of one    *)
(* part, and the others stay as they began.                                   *)
EXTENDS WeixinAccounts, WeixinArchive, WeixinRemoteWork, WeixinWatch,
        RenovationCutover, RenovationLedger, RenovationMedia, RenovationAttachments,
        HermesApprovals, TLC

CONSTANTS owner, member, first, second, session, invite, page, other, chat,
          receipt, copy, bill

VARIABLE component

C(images, says, count) == [images |-> images, says |-> says, count |-> count]
MCContents == {C(1, "nothing", 0), C(2, "nothing", 0), C(1, "archive", 0), C(0, "later", 2),
               C(0, "these", 0), C(0, "these", 2), C(0, "cancel", 0), C(0, "other", 0)}
MCScans == {<<second, member>>}
\* One upload of the page and one of Weixin carry the same bytes; so do two
\* of the attachments.
MCBytes == receipt :> "scan" @@ copy :> "scan" @@ bill :> "print"
MCContent == page :> "tiles" @@ chat :> "tiles" @@ other :> "floor"

weixinVars == <<accountVars, archiveVars, remoteWorkVars, watchVars>>
renovationVars == <<cutoverVars, booksVars, mediaVars, attachmentVars>>

Parts == {"accounts", "archive", "remote work", "watch",
          "cutover", "ledger", "quotes", "media", "attachments", "approvals"}

Init == /\ component \in Parts
        /\ AccountsInit /\ ArchiveInit /\ RemoteWorkInit /\ WatchInit
        /\ CutoverInit /\ BooksInit /\ MediaInit /\ AttachmentsInit /\ ApprovalsInit
        /\ component = "cutover" \/ (mode = "read_only" /\ ~ written)

Weixin == /\ UNCHANGED <<renovationVars, approvalVars>>
          /\ \/ component = "accounts" /\ AccountsNext /\ UNCHANGED <<archiveVars, remoteWorkVars, watchVars>>
             \/ component = "archive" /\ ArchiveNext /\ UNCHANGED <<accountVars, remoteWorkVars, watchVars>>
             \/ component = "remote work" /\ RemoteWorkNext /\ UNCHANGED <<accountVars, archiveVars, watchVars>>
             \/ component = "watch" /\ WatchNext /\ UNCHANGED <<accountVars, archiveVars, remoteWorkVars>>

Renovation == /\ UNCHANGED <<weixinVars, approvalVars>>
              /\ \/ component = "cutover" /\ CutoverNext /\ UNCHANGED <<booksVars, mediaVars, attachmentVars>>
                 \/ component = "ledger" /\ LedgerNext /\ UNCHANGED <<cutoverVars, mediaVars, attachmentVars>>
                 \/ component = "quotes" /\ QuotesNext /\ UNCHANGED <<cutoverVars, mediaVars, attachmentVars>>
                 \/ component = "media" /\ MediaNext /\ UNCHANGED <<cutoverVars, booksVars, attachmentVars>>
                 \/ /\ component = "attachments" /\ AttachmentsNext
                    /\ UNCHANGED <<cutoverVars, booksVars, mediaVars>>

Hermes == component = "approvals" /\ ApprovalsNext /\ UNCHANGED <<weixinVars, renovationVars>>

Next == UNCHANGED component /\ (Weixin \/ Renovation \/ Hermes)

Spec == Init /\ [][Next]_<<component, weixinVars, renovationVars, approvalVars>>
=============================================================================
