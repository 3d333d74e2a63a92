-------------------------- MODULE RenovationLedger --------------------------
(***************************************************************************)
(* The Renovation Hub's books: payments, refunds, corrections, undoing,    *)
(* previewed changes and attachments (ledger.py, hub.py), and the offers   *)
(* of an inquiry (quotes.py).  Every write is one transaction under an     *)
(* idempotency key, refused unless the Hub is the writer; a write of the   *)
(* ledger then exports the books, and the process may stop in between.     *)
(*                                                                         *)
(* Abstractions.  A transaction's identifier is the key that created it.   *)
(* Of a transaction's fields only the amount, the status and the version   *)
(* its project context carries are kept; of an attachment nothing but its  *)
(* export (its file is in RenovationAttachments).  Whether the Hub is the  *)
(* writer (RenovationCutover!MayWrite) is a switch.                        *)
(***************************************************************************)
EXTENDS Naturals, FiniteSetsExt

CONSTANTS
    Entries,     \* idempotency keys that create transactions
    MaxAmount,
    Offers,      \* supplier offers of one inquiry
    MaxEdits     \* bound on versions

ASSUME LedgerAssumption == MaxAmount \in Nat /\ MaxEdits \in Nat

VARIABLES
    entry,       \* table transactions with transaction_context
    mayWrite,    \* _require_writer passes
    exporting,   \* a committed write whose export has not run
    mirror,      \* metadata portable_export_state
    offer,       \* table quote_offers: the status of each
    inquiry      \* the quote request: [status, chosen, version]

ledgerVars == <<entry, mayWrite, exporting, mirror>>
quoteVars == <<offer, inquiry>>
booksVars == <<ledgerVars, quoteVars>>

NoEntry == [kind |-> "none"]
Amounts == 1..MaxAmount
Without == 0    \* no version given; no project context

BooksInit ==
    /\ entry = [k \in Entries |-> NoEntry] /\ mayWrite = TRUE /\ exporting = FALSE /\ mirror = "never"
    /\ offer = [o \in Offers |-> "none"]
    /\ inquiry = [status |-> "inquiry", chosen |-> "none", version |-> 1]

Made(k) == entry[k] # NoEntry
LiveEntry(k) == Made(k) /\ entry[k].status = "active"
LivePayment(k) == LiveEntry(k) /\ entry[k].kind = "payment"
RefundsOf(p) == {r \in Entries : LiveEntry(r) /\ entry[r].kind = "refund" /\ entry[r].of = p}
Refunded(p) == MapThenSumSet(LAMBDA r : entry[r].amount, RefundsOf(p))

\* A write of the ledger: committed, its export outstanding.
Writable == mayWrite /\ ~ exporting
Committed == exporting' = TRUE /\ UNCHANGED <<mayWrite, mirror, quoteVars>>

\* _validate_transaction_version and _after_transaction_update: a write that
\* gives no version is neither checked nor counted.
FitsVersion(k, v) == v = Without \/ (entry[k].version # Without /\ entry[k].version = v)
Later(k, v) == IF v = Without THEN entry[k].version ELSE entry[k].version + 1

-----------------------------------------------------------------------------
AddPayment(k, amount, context) ==
    /\ Writable /\ ~ Made(k)
    /\ entry' = [entry EXCEPT ![k] = [kind |-> "payment", amount |-> amount, of |-> k,
                                      status |-> "active", version |-> context]]
    /\ Committed

\* A refund for which no project is given takes that of its payment, if it has one.
RefundContext(p, context) == IF entry[p].version # Without THEN 1 ELSE context

AddRefund(k, p, amount, context) ==
    /\ Writable /\ ~ Made(k) /\ LivePayment(p)
    /\ Refunded(p) + amount <= entry[p].amount
    /\ entry' = [entry EXCEPT ![k] = [kind |-> "refund", amount |-> amount, of |-> p,
                                      status |-> "active", version |-> RefundContext(p, context)]]
    /\ Committed

CorrectPayment(p, amount, v) ==
    /\ Writable /\ LivePayment(p) /\ FitsVersion(p, v) /\ Later(p, v) <= MaxEdits
    /\ amount >= Refunded(p)
    /\ entry' = [entry EXCEPT ![p].amount = amount, ![p].version = Later(p, v)]
    /\ Committed

NothingDepends(k) == TRUE
MayVoid(k) == entry[k].kind = "payment" => RefundsOf(k) = {}

Undo(k, v) ==
    /\ Writable /\ LiveEntry(k) /\ FitsVersion(k, v) /\ Later(k, v) <= MaxEdits
    /\ MayVoid(k)
    /\ entry' = [entry EXCEPT ![k].status = "voided", ![k].version = Later(k, v)]
    /\ Committed

Attach(k) ==
    /\ Writable /\ LiveEntry(k)
    /\ Committed /\ UNCHANGED entry

-----------------------------------------------------------------------------
(* mutate: a preview reads the rows and shows a digest of them; the apply    *)
(* carries it and is refused unless they are the same still.  What can be    *)
(* applied is therefore a change of the rows as they are.  It is not         *)
(* exported.                                                                 *)
ContextAfter(version, project) ==
    CASE project = "clear" -> Without
      [] project = "keep" /\ version = Without -> Without
      [] OTHER -> version + 1

MayBecome(p, amount) == amount >= Refunded(p)

ApplyChange(p, amount, project) ==
    LET version == ContextAfter(entry[p].version, project) IN
    /\ Writable /\ LivePayment(p) /\ MayBecome(p, amount) /\ version <= MaxEdits
    /\ entry' = [entry EXCEPT ![p].amount = amount, ![p].version = version]
    /\ UNCHANGED <<mayWrite, exporting, mirror, quoteVars>>

-----------------------------------------------------------------------------
\* export_portable after the commit: _after_write notes a failure as stale.
Export ==
    /\ exporting /\ exporting' = FALSE /\ mirror' \in {"current", "stale"}
    /\ UNCHANGED <<entry, mayWrite, quoteVars>>

\* Killed between commit and export: the export is not made up for.
StopBeforeExport ==
    /\ exporting /\ exporting' = FALSE
    /\ UNCHANGED <<entry, mayWrite, mirror, quoteVars>>

SwitchWriter ==
    /\ ~ exporting /\ mayWrite' = ~ mayWrite
    /\ UNCHANGED <<entry, exporting, mirror, quoteVars>>

-----------------------------------------------------------------------------
(* Inquiries and offers.                                                    *)
Quoted == UNCHANGED ledgerVars
Bumped(r) == [r EXCEPT !.version = @ + 1]
OpenInquiry == {"inquiry", "quoted", "review_required"}
InquiryStatuses == OpenInquiry \cup {"selected", "purchased", "closed", "archived"}
OfferStatuses == {"quoted", "review_required", "rejected", "expired", "purchased"}

AddOffer(o, status) ==
    /\ Writable /\ offer[o] = "none" /\ inquiry.version < MaxEdits
    /\ offer' = [offer EXCEPT ![o] = status]
    /\ inquiry' = IF inquiry.status \in OpenInquiry
                  THEN [Bumped(inquiry) EXCEPT !.status =
                          IF status = "review_required" THEN status ELSE "quoted"]
                  ELSE inquiry
    /\ Quoted

\* An expired offer is one past its date; a selected one does not expire.
ExpireOffer(o) ==
    /\ offer[o] \in {"quoted", "review_required"}
    /\ offer' = [offer EXCEPT ![o] = "expired"]
    /\ UNCHANGED inquiry /\ Quoted

\* update_quote_offer; no status but through it, and never "selected".
UpdateOffer(o, status) ==
    /\ Writable /\ offer[o] # "none"
    /\ offer' = [offer EXCEPT ![o] = status]
    /\ UNCHANGED inquiry /\ Quoted

UpdateInquiry(status) ==
    /\ Writable /\ inquiry.version < MaxEdits
    /\ inquiry' = [Bumped(inquiry) EXCEPT !.status = status]
    /\ UNCHANGED offer /\ Quoted

SelectOffer(o) ==
    /\ Writable /\ inquiry.version < MaxEdits
    /\ offer[o] \notin {"none", "rejected", "expired"}
    /\ offer' = [x \in Offers |-> IF x = o THEN "selected"
                                  ELSE IF offer[x] = "selected" THEN "quoted" ELSE offer[x]]
    /\ inquiry' = [Bumped(inquiry) EXCEPT !.status = "selected", !.chosen = o]
    /\ Quoted

LedgerNext ==
    \/ \E k, p \in Entries, amount \in Amounts :
         \E context \in {Without, 1} :
            AddPayment(k, amount, context) \/ AddRefund(k, p, amount, context)
    \/ \E k \in Entries, v \in 0..MaxEdits :
         \/ \E amount \in Amounts : CorrectPayment(k, amount, v)
         \/ Undo(k, v)
    \/ \E k \in Entries, amount \in Amounts, project \in {"keep", "set", "clear"} :
         ApplyChange(k, amount, project)
    \/ \E k \in Entries : Attach(k)
    \/ Export \/ StopBeforeExport \/ SwitchWriter

QuotesNext ==
    \/ \E o \in Offers, status \in OfferStatuses :
         AddOffer(o, status) \/ UpdateOffer(o, status)
    \/ \E o \in Offers : ExpireOffer(o) \/ SelectOffer(o)
    \/ \E status \in InquiryStatuses : UpdateInquiry(status)
    \/ SwitchWriter

BooksSpec == BooksInit /\ [][LedgerNext \/ QuotesNext]_booksVars

-----------------------------------------------------------------------------
(* No sequence of payments, refunds, corrections, undos and previewed       *)
(* changes leaves more refunded than was paid, or a refund of what was not; *)
(* and of an inquiry's offers at most one is selected, the one it names.    *)
BooksAddUp ==
    /\ \A p \in Entries : RefundsOf(p) # {} =>
         LivePayment(p) /\ Refunded(p) <= entry[p].amount
    /\ \A o \in Offers : offer[o] = "selected" => inquiry.chosen = o
=============================================================================
