--------------------------- MODULE HermesApprovals ---------------------------
(***************************************************************************)
(* Hermes' ledger of proposed operations (ha-operations-approval, ledger.py *)
(* and __init__.py): the model proposes, an owner approves in a private     *)
(* chat, and an operation of level L3 is approved in two steps, the second  *)
(* with a challenge that the first one's answer carries.                    *)
(*                                                                         *)
(* Commands and tools open the ledger anew in any thread or profile.  Each  *)
(* reads the clock and then waits for the write lock (busy_timeout), so its *)
(* time may be old when its transaction runs: a call and its transaction    *)
(* are two steps.                                                           *)
(*                                                                         *)
(* Abstractions.  A proposal is its action_id; of its document only the     *)
(* risk level, which the code looks up (ACTION_RISKS), is kept.  A          *)
(* challenge is drawn once for a proposal, so an answer is right or wrong;  *)
(* it is right only if some owner has been shown it.                        *)
(***************************************************************************)
EXTENDS Naturals, FiniteSets

CONSTANTS
    Proposals,    \* action ids
    Approvers,       \* configured_owner_hashes
    NoOwner,
    Callers,      \* threads that serve a command or a tool
    Ttl,          \* ttl_seconds
    MaxPending,   \* max_pending
    MaxClock,     \* bound on time
    MaxCalls      \* bound on calls

ASSUME ApprovalAssumption ==
    /\ IsFiniteSet(Proposals)
    /\ Ttl \in Nat \ {0} /\ MaxPending \in Nat \ {0} /\ MaxClock \in Nat /\ MaxCalls \in Nat

VARIABLES
    operation,   \* table operations; "decider" is who made it approved, which no column keeps
    calls,       \* what each caller is about, with the time it has read
    shown,       \* proposals whose challenge reached an owner
    time,
    made         \* calls so far

approvalVars == <<operation, calls, shown, time, made>>

NoOperation == [state |-> "none", risk |-> "L1", expires |-> 0, started |-> 0, approved |-> 0,
                by |-> NoOwner, decider |-> NoOwner]
NoCall == [kind |-> "none"]

Nonterminal == {"awaiting_approval", "awaiting_confirmation", "approved"}   \* NONTERMINAL_STATES

ApprovalsInit ==
    /\ operation = [p \in Proposals |-> NoOperation] /\ calls = [c \in Callers |-> NoCall]
    /\ shown = {} /\ time = 0 /\ made = 0

\* The proposals that count when another one is made.
Active(now) == {p \in Proposals : operation[p].state \in Nonterminal /\ operation[p].expires > now}

Proposed == {p \in Proposals : operation[p] # NoOperation}
Called(kind) == {c \in Callers : calls[c].kind = kind}
On(c) == calls[c].on
Now(c) == calls[c].now

\* _expire_if_needed
Lapsed(p, now) == operation[p].state \in Nonterminal /\ now >= operation[p].expires
Looks(c) == calls[c].kind \in {"get", "approve", "confirm", "cancel"}
InTime(c) == ~ Lapsed(On(c), Now(c))

Writes(c, p, row) ==
    /\ operation' = [operation EXCEPT ![p] = row]
    /\ calls' = [calls EXCEPT ![c] = NoCall] /\ UNCHANGED <<time, made>>

Row(c) == operation[On(c)]
ByTheSame(c) == Row(c).by = calls[c].who

-----------------------------------------------------------------------------
\* A command or a tool is called and reads the clock.  Only owners reach the
\* commands (_capture_gateway_actor, _owner_actor), and any of them may answer
\* with a challenge that was shown to one.  An id is random, so nobody names a
\* proposal that is not there.
Call(c, call) ==
    /\ calls[c] = NoCall /\ made < MaxCalls /\ made' = made + 1
    /\ calls' = [calls EXCEPT ![c] = call]
    /\ UNCHANGED <<operation, shown, time>>
CallTool(c) ==
    \/ Call(c, [kind |-> "create", now |-> time])
    \/ \E p \in Proposed : Call(c, [kind |-> "get", on |-> p, now |-> time])
CallCommand(c) == \E kind \in {"approve", "confirm", "cancel"}, p \in Proposed, who \in Approvers :
    Call(c, [kind |-> kind, on |-> p, who |-> who, right |-> p \in shown, now |-> time])

\* create: the limit is checked, and the row inserted, in one transaction.
MayCreate(c) == Cardinality(Active(Now(c))) < MaxPending
CreateProposal(c, p, risk) ==
    /\ c \in Called("create") /\ MayCreate(c) /\ p \notin Proposed
    /\ Writes(c, p, [NoOperation EXCEPT !.state = "awaiting_approval", !.risk = risk,
                                        !.expires = Now(c) + Ttl])
    /\ UNCHANGED shown

\* Whatever looks at a proposal expires it first, by the time it has read.
ExpireProposal(c) ==
    /\ Looks(c) /\ ~ InTime(c)
    /\ Writes(c, On(c), [Row(c) EXCEPT !.state = "expired"]) /\ UNCHANGED shown

\* approve: below L3 at once; otherwise a challenge is drawn, and the answer
\* that carries it may be lost.
MayStart(c) == c \in Called("approve") /\ InTime(c) /\ Row(c).state = "awaiting_approval"
Approve(c) ==
    /\ MayStart(c) /\ Row(c).risk # "L3"
    /\ Writes(c, On(c), [Row(c) EXCEPT !.state = "approved", !.started = Now(c), !.approved = Now(c),
                                       !.by = calls[c].who, !.decider = calls[c].who])
    /\ UNCHANGED shown
AskConfirmation(c) ==
    /\ MayStart(c) /\ Row(c).risk = "L3"
    /\ Writes(c, On(c), [Row(c) EXCEPT !.state = "awaiting_confirmation", !.started = Now(c),
                                       !.by = calls[c].who])
    /\ shown' \in {shown, shown \cup {On(c)}}

\* Without comparing the owner: a mutant.
AnyoneMayConfirm(c) ==
    /\ c \in Called("confirm") /\ InTime(c) /\ Row(c).state = "awaiting_confirmation"
    /\ calls[c].right

\* confirm: by the owner who began, with the challenge.
MayConfirm(c) ==
    /\ c \in Called("confirm") /\ InTime(c) /\ Row(c).state = "awaiting_confirmation"
    /\ ByTheSame(c) /\ calls[c].right
Confirm(c) ==
    /\ MayConfirm(c)
    /\ Writes(c, On(c), [Row(c) EXCEPT !.state = "approved", !.approved = Now(c),
                                       !.decider = calls[c].who])
    /\ UNCHANGED shown

\* cancel: before anyone began, by any owner; after that by the one who did.
MayCancel(c) ==
    /\ c \in Called("cancel") /\ InTime(c)
    /\ \/ Row(c).state = "awaiting_approval"
       \/ Row(c).state = "awaiting_confirmation" /\ ByTheSame(c)
Cancel(c) ==
    /\ MayCancel(c)
    /\ Writes(c, On(c), [Row(c) EXCEPT !.state = "cancelled"]) /\ UNCHANGED shown

\* Everything else changes nothing: a status, a refusal, a repeated approval.
\* What is refused was not expired, so its rollback undoes nothing.
AnswerOnly(c) ==
    /\ \/ c \in Called("create") /\ ~ MayCreate(c)
       \/ Looks(c) /\ InTime(c) /\ ~ MayStart(c) /\ ~ MayConfirm(c) /\ ~ MayCancel(c)
    /\ calls' = [calls EXCEPT ![c] = NoCall] /\ UNCHANGED <<operation, shown, time, made>>

\* Hermes stops with calls under way; a transaction is committed or it is not.
StopHermes ==
    /\ \E c \in Callers : calls[c] # NoCall
    /\ calls' = [c \in Callers |-> NoCall] /\ UNCHANGED <<operation, shown, time, made>>

PassTime == /\ time < MaxClock /\ time' = time + 1
            /\ UNCHANGED <<operation, calls, shown, made>>

ApprovalsNext ==
    \/ \E c \in Callers :
        \/ CallTool(c) \/ CallCommand(c)
        \/ \E p \in Proposals, risk \in {"L1", "L3"} : CreateProposal(c, p, risk)
        \/ ExpireProposal(c) \/ Approve(c) \/ AskConfirmation(c) \/ Confirm(c) \/ Cancel(c) \/ AnswerOnly(c)
    \/ StopHermes \/ PassTime

ApprovalsSpec == ApprovalsInit /\ [][ApprovalsNext]_approvalVars

\* An approval is the decision of one owner within its time, whoever else
\* approves, confirms or cancels with old readings of the clock: the owner who
\* began also ended it, in this order, before it lapsed by the time read, and at
\* level L3 with a challenge that was shown (_approval_transition).
DecidedByOne == \A p \in Proposals : operation[p].state = "approved" =>
    /\ operation[p].decider = operation[p].by /\ operation[p].by \in Approvers
    /\ operation[p].started <= operation[p].approved /\ operation[p].approved < operation[p].expires
    /\ operation[p].risk = "L3" => p \in shown

\* No more proposals are pending and in time than max_pending (create).
FewPending == Cardinality(Active(time)) <= MaxPending

\* What approves and what limits proposals holds for callers that waited for the
\* lock with an old time.
ApprovalsHold == DecidedByOne /\ FewPending
=============================================================================
