------------------------ MODULE HermesApprovalsProofs ------------------------
(***************************************************************************)
(* ApprovalsHold for any number of proposals, owners and callers.  The     *)
(* argument: what a caller has read of the clock is past, a challenge that *)
(* was shown belongs to a begun approval, whose owner and time no longer   *)
(* change, and a call that knows the challenge read the clock after it was *)
(* shown.  A limit checked at an old time counts more proposals, not fewer.*)
(***************************************************************************)
EXTENDS HermesApprovals, FiniteSetTheorems, TLAPS

States == Nonterminal \cup {"none", "expired", "cancelled"}
Rows == [state : States, risk : {"L1", "L3"}, expires : Nat, started : Nat, approved : Nat,
         by : Approvers \cup {NoOwner}, decider : Approvers \cup {NoOwner}]
Commands == [kind : {"approve", "confirm", "cancel"}, on : Proposals, who : Approvers,
             right : BOOLEAN, now : Nat]
Calls == {NoCall} \cup [kind : {"create"}, now : Nat]
            \cup [kind : {"get"}, on : Proposals, now : Nat] \cup Commands

Typed ==
    /\ operation \in [Proposals -> Rows] /\ calls \in [Callers -> Calls]
    /\ shown \subseteq Proposals /\ time \in Nat

\* What was read is past.
Read == \A c \in Callers : calls[c] # NoCall => calls[c].now <= time

\* A shown challenge belongs to an approval that has begun.
Begun ==
    /\ \A p \in shown : /\ operation[p].state \notin {"none", "awaiting_approval"}
                        /\ operation[p].started <= time
    /\ \A p \in Proposals : operation[p].state = "awaiting_confirmation" => operation[p].by \in Approvers

\* Who knows the challenge has read the clock after it was shown.
Knows == \A c \in Callers : calls[c].kind = "confirm" /\ calls[c].right =>
    calls[c].on \in shown /\ operation[calls[c].on].started <= calls[c].now

ApprovalInv == Typed /\ Read /\ Begun /\ Knows /\ DecidedByOne

-----------------------------------------------------------------------------
\* It holds of an empty ledger.
LEMMA ApprovalInitInv == ApprovalsInit => ApprovalInv
<1> SUFFICES ASSUME ApprovalsInit PROVE ApprovalInv
    OBVIOUS
<1>1. NoOperation \in Rows
    BY DEF NoOperation, Rows, States
<1>2. Typed
  <2>1. NoCall \in Calls
      BY DEF Calls
  <2> QED BY <1>1, <2>1 DEF ApprovalsInit, Typed
<1>3. \A c \in Callers : calls[c] = NoCall /\ NoCall.kind = "none"
    BY DEF ApprovalsInit, NoCall
<1>4. Read /\ Knows
    BY <1>3 DEF Read, Knows
<1>5. Begun /\ DecidedByOne
    BY DEF ApprovalsInit, Begun, DecidedByOne, NoOperation
<1> QED BY <1>2, <1>4, <1>5 DEF ApprovalInv

\* A transaction that ends a call keeps the invariant if the row it writes
\* does: it has the owner and the time of what was shown, and what it approves
\* is decided by one (what Writes stands for).
LEMMA WriteKeeps ==
    ASSUME ApprovalInv, NEW c \in Callers, NEW p \in Proposals, NEW row \in Rows, Writes(c, p, row),
           shown \subseteq shown', shown' \subseteq shown \cup {p},
           p \in shown' => row.state \notin {"none", "awaiting_approval"} /\ row.started <= time,
           p \in shown => row.started = operation[p].started,
           row.state = "awaiting_confirmation" => row.by \in Approvers,
           row.state = "approved" => /\ row.decider = row.by /\ row.by \in Approvers
                                     /\ row.started <= row.approved /\ row.approved < row.expires
                                     /\ row.risk = "L3" => p \in shown'
    PROVE  ApprovalInv'
<1>1. operation' = [operation EXCEPT ![p] = row] /\ operation'[p] = row
        /\ \A q \in Proposals \ {p} : operation'[q] = operation[q]
    BY DEF Writes, ApprovalInv, Typed
<1>2. \A d \in Callers : calls'[d] = NoCall \/ calls'[d] = calls[d]
    BY DEF Writes, ApprovalInv, Typed
<1>3. NoCall.kind = "none"
    BY DEF NoCall
<1>4. Typed'
    BY <1>1 DEF Writes, ApprovalInv, Typed, Calls
<1>5. Read'
    BY <1>2 DEF Writes, ApprovalInv, Read
<1>6. Begun'
    BY <1>1 DEF Writes, ApprovalInv, Typed, Begun
<1>7. Knows'
    BY <1>1, <1>2, <1>3 DEF ApprovalInv, Typed, Knows
<1>8. DecidedByOne'
    BY <1>1 DEF ApprovalInv, DecidedByOne
<1> QED BY <1>4, <1>5, <1>6, <1>7, <1>8 DEF ApprovalInv

\* What a call under way carries.
LEMMA CallShape ==
    ASSUME Typed, Read, NEW c \in Callers
    PROVE  /\ c \in Called("create") => calls[c].now \in Nat /\ calls[c].now <= time
           /\ Looks(c) => calls[c].on \in Proposals /\ calls[c].now \in Nat /\ calls[c].now <= time
           /\ calls[c].kind \in {"approve", "confirm", "cancel"} =>
                 Looks(c) /\ calls[c].who \in Approvers
<1>1. calls[c] \in Calls /\ NoCall.kind = "none"
    BY DEF Typed, NoCall
<1> QED BY <1>1 DEF Read, Calls, Commands, Called, Looks

\* A call begins with the present time and what it knows.
LEMMA CallKeeps ==
    ASSUME ApprovalInv, NEW c \in Callers, CallTool(c) \/ CallCommand(c)
    PROVE  ApprovalInv'
<1>1. PICK call \in Calls :
        /\ Call(c, call) /\ call.now = time
        /\ call.kind = "confirm" /\ call.right => call.on \in shown
  <2>0. time \in Nat
      BY DEF ApprovalInv, Typed
  <2>1. CASE Call(c, [kind |-> "create", now |-> time])
    <3>1. [kind |-> "create", now |-> time] \in Calls
        BY <2>0 DEF Calls
    <3> QED BY <2>1, <3>1
  <2>2. ASSUME NEW p \in Proposals, Call(c, [kind |-> "get", on |-> p, now |-> time])
        PROVE  \E call \in Calls : /\ Call(c, call) /\ call.now = time
                                   /\ call.kind = "confirm" /\ call.right => call.on \in shown
    <3>1. [kind |-> "get", on |-> p, now |-> time] \in Calls
        BY <2>0 DEF Calls
    <3> QED BY <2>2, <3>1
  <2>3. ASSUME NEW kind \in {"approve", "confirm", "cancel"}, NEW p \in Proposals, NEW who \in Approvers,
               Call(c, [kind |-> kind, on |-> p, who |-> who, right |-> p \in shown, now |-> time])
        PROVE  \E call \in Calls : /\ Call(c, call) /\ call.now = time
                                   /\ call.kind = "confirm" /\ call.right => call.on \in shown
    <3> DEFINE command == [kind |-> kind, on |-> p, who |-> who, right |-> p \in shown, now |-> time]
    <3>1. command \in Calls /\ command.now = time /\ command.on = p /\ command.right = (p \in shown)
        BY <2>0 DEF Calls, Commands
    <3>2. Call(c, command)
        BY <2>3
    <3> HIDE DEF command
    <3> QED BY <3>1, <3>2
  <2> QED BY <2>1, <2>2, <2>3 DEF CallTool, CallCommand, Proposed
<1>2. UNCHANGED <<operation, shown, time>> /\ calls' = [calls EXCEPT ![c] = call]
    BY <1>1 DEF Call
<1>3. Typed'
    BY <1>2 DEF ApprovalInv, Typed
<1>4. calls'[c] = call /\ \A d \in Callers \ {c} : calls'[d] = calls[d]
    BY <1>2 DEF ApprovalInv, Typed
<1>5. Read'
    BY <1>1, <1>2, <1>4 DEF ApprovalInv, Typed, Read
<1>6. Knows'
    BY <1>1, <1>2, <1>4 DEF ApprovalInv, Typed, Begun, Knows
<1>7. Begun' /\ DecidedByOne'
    BY <1>2 DEF ApprovalInv, Begun, DecidedByOne
<1> QED BY <1>3, <1>5, <1>6, <1>7 DEF ApprovalInv

\* Every step keeps it: a transaction writes one row, by what its call has read
\* (create, get, approve, confirm, cancel); a stop loses the calls.
LEMMA ApprovalStepInv == ApprovalInv /\ [ApprovalsNext]_approvalVars => ApprovalInv'
<1> SUFFICES ASSUME ApprovalInv, [ApprovalsNext]_approvalVars PROVE ApprovalInv'
    OBVIOUS
<1>0. Typed /\ Read /\ Begun /\ Knows /\ DecidedByOne
    BY DEF ApprovalInv
<1>1. ASSUME NEW c \in Callers, CallTool(c) \/ CallCommand(c)
      PROVE  ApprovalInv'
    BY <1>1, CallKeeps
<1>2. ASSUME NEW c \in Callers, NEW p \in Proposals, NEW risk \in {"L1", "L3"},
             CreateProposal(c, p, risk)
      PROVE  ApprovalInv'
  <2> DEFINE row == [NoOperation EXCEPT !.state = "awaiting_approval", !.risk = risk,
                                        !.expires = Now(c) + Ttl]
  <2>0. Now(c) + Ttl \in Nat
      BY <1>0, <1>2, CallShape, ApprovalAssumption DEF CreateProposal, Now
  <2>1. row \in Rows /\ row.state = "awaiting_approval"
      BY <2>0 DEF NoOperation, Rows, States, Nonterminal
  <2>2. p \notin shown
      BY <1>0, <1>2 DEF CreateProposal, Proposed, Begun, NoOperation
  <2>3. Writes(c, p, row) /\ shown' = shown
      BY <1>2 DEF CreateProposal
  <2> HIDE DEF row
  <2> QED BY <2>1, <2>2, <2>3, WriteKeeps
<1>3. ASSUME NEW c \in Callers, ExpireProposal(c)
      PROVE  ApprovalInv'
  <2> DEFINE row == [Row(c) EXCEPT !.state = "expired"]
  <2>1. On(c) \in Proposals /\ Row(c) \in Rows
      BY <1>0, <1>3, CallShape DEF ExpireProposal, On, Row, Typed
  <2>2. row \in Rows /\ row.state = "expired" /\ row.started = Row(c).started
      BY <2>1 DEF Rows, States
  <2>3. Writes(c, On(c), row) /\ shown' = shown
      BY <1>3 DEF ExpireProposal
  <2> HIDE DEF row
  <2> QED BY <1>0, <2>1, <2>2, <2>3, WriteKeeps DEF Begun, Row
<1>4. ASSUME NEW c \in Callers, Approve(c)
      PROVE  ApprovalInv'
  <2> DEFINE row == [Row(c) EXCEPT !.state = "approved", !.started = Now(c), !.approved = Now(c),
                                   !.by = calls[c].who, !.decider = calls[c].who]
  <2>1. /\ On(c) \in Proposals /\ Row(c) \in Rows /\ Now(c) \in Nat /\ calls[c].who \in Approvers
        /\ Row(c).state = "awaiting_approval" /\ Row(c).risk # "L3" /\ Now(c) < Row(c).expires
      BY <1>0, <1>4, CallShape
         DEF Approve, MayStart, Called, InTime, Lapsed, Nonterminal, On, Row, Now, Typed, Rows
  <2>2. /\ row \in Rows /\ row.state = "approved" /\ row.risk = Row(c).risk
        /\ row.by = calls[c].who /\ row.decider = calls[c].who
        /\ row.started = Now(c) /\ row.approved = Now(c) /\ row.expires = Row(c).expires
      BY <2>1 DEF Rows, States, Nonterminal
  <2>3. Writes(c, On(c), row) /\ shown' = shown
      BY <1>4 DEF Approve
  <2>4. On(c) \notin shown
      BY <1>0, <2>1 DEF Begun, Row
  <2> HIDE DEF row
  <2> QED BY <2>1, <2>2, <2>3, <2>4, WriteKeeps
<1>5. ASSUME NEW c \in Callers, AskConfirmation(c)
      PROVE  ApprovalInv'
  <2> DEFINE row == [Row(c) EXCEPT !.state = "awaiting_confirmation", !.started = Now(c),
                                   !.by = calls[c].who]
  <2>1. /\ On(c) \in Proposals /\ Row(c) \in Rows /\ Now(c) \in Nat /\ Now(c) <= time
        /\ calls[c].who \in Approvers /\ Row(c).state = "awaiting_approval"
      BY <1>0, <1>5, CallShape DEF AskConfirmation, MayStart, Called, On, Row, Now, Typed
  <2>2. /\ row \in Rows /\ row.state = "awaiting_confirmation" /\ row.started = Now(c)
        /\ row.by = calls[c].who
      BY <2>1 DEF Rows, States, Nonterminal
  <2>3. Writes(c, On(c), row) /\ shown' \in {shown, shown \cup {On(c)}}
      BY <1>5 DEF AskConfirmation
  <2>4. On(c) \notin shown
      BY <1>0, <2>1 DEF Begun, Row
  <2> HIDE DEF row
  <2> QED BY <2>1, <2>2, <2>3, <2>4, WriteKeeps
<1>6. ASSUME NEW c \in Callers, Confirm(c)
      PROVE  ApprovalInv'
  <2> DEFINE row == [Row(c) EXCEPT !.state = "approved", !.approved = Now(c),
                                   !.decider = calls[c].who]
  <2>1. /\ On(c) \in Proposals /\ Row(c) \in Rows /\ Now(c) \in Nat /\ calls[c].who \in Approvers
        /\ Row(c).by = calls[c].who /\ Now(c) < Row(c).expires
      BY <1>0, <1>6, CallShape
         DEF Confirm, MayConfirm, ByTheSame, Called, InTime, Lapsed, Nonterminal, On, Row, Now, Typed, Rows
  <2>2. On(c) \in shown /\ Row(c).started <= Now(c) /\ Row(c).started <= time
      BY <1>0, <1>6 DEF Confirm, MayConfirm, Called, Knows, Begun, On, Row, Now
  <2>3. /\ row \in Rows /\ row.state = "approved" /\ row.by = Row(c).by /\ row.decider = calls[c].who
        /\ row.started = Row(c).started /\ row.approved = Now(c) /\ row.expires = Row(c).expires
      BY <2>1 DEF Rows, States, Nonterminal
  <2>4. Writes(c, On(c), row) /\ shown' = shown
      BY <1>6 DEF Confirm
  <2> HIDE DEF row
  <2> QED BY <2>1, <2>2, <2>3, <2>4, WriteKeeps DEF Row
<1>7. ASSUME NEW c \in Callers, Cancel(c)
      PROVE  ApprovalInv'
  <2> DEFINE row == [Row(c) EXCEPT !.state = "cancelled"]
  <2>1. On(c) \in Proposals /\ Row(c) \in Rows
      BY <1>0, <1>7, CallShape DEF Cancel, MayCancel, Called, On, Row, Typed
  <2>2. row \in Rows /\ row.state = "cancelled" /\ row.started = Row(c).started
      BY <2>1 DEF Rows, States
  <2>3. Writes(c, On(c), row) /\ shown' = shown
      BY <1>7 DEF Cancel
  <2> HIDE DEF row
  <2> QED BY <1>0, <2>1, <2>2, <2>3, WriteKeeps DEF Begun, Row
<1>8. ASSUME UNCHANGED <<operation, shown, time>>,
             calls' \in [Callers -> Calls], \A c \in Callers : calls'[c] \in {NoCall, calls[c]}
      PROVE  ApprovalInv'
  <2>1. NoCall.kind = "none"
      BY DEF NoCall
  <2>2. Typed'
      BY <1>0, <1>8 DEF Typed
  <2>3. Read' /\ Knows'
      BY <1>0, <1>8, <2>1 DEF Read, Knows
  <2>4. Begun' /\ DecidedByOne'
      BY <1>0, <1>8 DEF Begun, DecidedByOne
  <2> QED BY <2>2, <2>3, <2>4 DEF ApprovalInv
<1>9. NoCall \in Calls
    BY DEF Calls
<1>10. ASSUME NEW c \in Callers, AnswerOnly(c)
       PROVE  ApprovalInv'
    BY <1>0, <1>8, <1>9, <1>10 DEF AnswerOnly, Typed
<1>11. CASE StopHermes
    BY <1>0, <1>8, <1>9, <1>11 DEF StopHermes
<1>12. CASE PassTime
  <2>1. time' = time + 1 /\ time \in Nat /\ UNCHANGED <<operation, calls, shown>>
      BY <1>0, <1>12 DEF PassTime, Typed
  <2>2. Typed'
      BY <1>0, <2>1 DEF Typed
  <2>3. \A c \in Callers : calls[c] # NoCall => calls[c].now \in Nat
      BY <1>0 DEF Typed, Calls, Commands
  <2>4. \A p \in shown : operation[p].started \in Nat
      BY <1>0 DEF Typed, Rows
  <2>5. Read' /\ Begun' /\ Knows' /\ DecidedByOne'
      BY <1>0, <2>1, <2>3, <2>4 DEF Read, Begun, Knows, DecidedByOne
  <2> QED BY <2>2, <2>5 DEF ApprovalInv
<1>13. CASE UNCHANGED approvalVars
    BY <1>0, <1>8, <1>13 DEF approvalVars, Typed
<1> QED
    BY <1>1, <1>2, <1>3, <1>4, <1>5, <1>6, <1>7, <1>10, <1>11, <1>12, <1>13 DEF ApprovalsNext

-----------------------------------------------------------------------------
\* What counts at one time is finite.
LEMMA ActiveFinite == ASSUME NEW now PROVE IsFiniteSet(Active(now)) /\ Cardinality(Active(now)) \in Nat
<1>1. Active(now) \subseteq Proposals
    BY DEF Active
<1> QED BY <1>1, FS_Subset, FS_CardinalityType, ApprovalAssumption

\* Steps that make no proposal pending leave no more of them.
LEMMA NoMorePending ==
    ASSUME Typed, Typed', FewPending, time <= time',
           \A p \in Proposals : operation'[p].state \in Nonterminal =>
              operation[p].state \in Nonterminal /\ operation'[p].expires = operation[p].expires
    PROVE  FewPending'
<1>1. Active(time)' \subseteq Active(time)
  <2>1. \A p \in Proposals : operation[p].expires \in Nat
      BY DEF Typed, Rows
  <2> QED BY <2>1 DEF Active, Typed
<1>2. Cardinality(Active(time)') <= Cardinality(Active(time)) /\ Cardinality(Active(time)') \in Nat
    BY <1>1, ActiveFinite, FS_Subset, FS_CardinalityType
<1> QED BY <1>2, ActiveFinite, ApprovalAssumption DEF FewPending

\* Created with an old time, a proposal is counted with at least those pending
\* now.
LEMMA CreatedWithin ==
    ASSUME Typed, Read, NEW c \in Callers, NEW p \in Proposals, NEW risk, CreateProposal(c, p, risk)
    PROVE  FewPending'
<1>1. /\ Now(c) \in Nat /\ Now(c) <= time /\ time' = time /\ time \in Nat
      /\ \A q \in Proposals : operation[q].expires \in Nat
      /\ \A q \in Proposals \ {p} : operation'[q] = operation[q]
    BY CallShape DEF CreateProposal, Writes, Now, Typed, Rows
<1>2. Active(time)' \subseteq Active(Now(c)) \cup {p}
    BY <1>1 DEF Active
<1>3. /\ IsFiniteSet(Active(Now(c)) \cup {p})
      /\ Cardinality(Active(Now(c)) \cup {p}) <= Cardinality(Active(Now(c))) + 1
  <2> DEFINE pending == Active(Now(c))
  <2>1. IsFiniteSet(pending) /\ Cardinality(pending) \in Nat
      BY ActiveFinite
  <2> HIDE DEF pending
  <2>2. /\ IsFiniteSet(pending \cup {p})
        /\ Cardinality(pending \cup {p}) = IF p \in pending THEN Cardinality(pending)
                                                          ELSE Cardinality(pending) + 1
      BY <2>1, FS_AddElement
  <2>3. Cardinality(pending \cup {p}) <= Cardinality(pending) + 1
      BY <2>1, <2>2
  <2> QED BY <2>2, <2>3 DEF pending
<1>4. Cardinality(Active(time)') <= Cardinality(Active(Now(c)) \cup {p})
    BY <1>2, <1>3, FS_Subset
<1>5. Cardinality(Active(Now(c))) < MaxPending
    BY DEF CreateProposal, MayCreate
<1>6. /\ Cardinality(Active(time)') \in Nat /\ Cardinality(Active(Now(c)) \cup {p}) \in Nat
      /\ Cardinality(Active(Now(c))) \in Nat
    BY <1>2, <1>3, ActiveFinite, FS_Subset, FS_CardinalityType
<1> QED BY <1>3, <1>4, <1>5, <1>6, ApprovalAssumption DEF FewPending

\* The limit is kept by every step.
LEMMA PendingStep ==
    ASSUME ApprovalInv, ApprovalInv', FewPending, [ApprovalsNext]_approvalVars
    PROVE  FewPending'
<1>1. Typed /\ Typed' /\ Read /\ time \in Nat
    BY DEF ApprovalInv, Typed
<1>2. ASSUME UNCHANGED operation, time <= time'
      PROVE  FewPending'
    BY <1>1, <1>2, NoMorePending
<1>3. ASSUME NEW c \in Callers, Looks(c), NEW row, Writes(c, On(c), row),
             row.state \in Nonterminal => Row(c).state \in Nonterminal /\ row.expires = Row(c).expires
      PROVE  FewPending'
  <2>1. On(c) \in Proposals /\ time' = time
      BY <1>1, <1>3, CallShape DEF On, Writes
  <2>2. operation'[On(c)] = row /\ \A q \in Proposals \ {On(c)} : operation'[q] = operation[q]
      BY <1>1, <1>3, <2>1 DEF Writes, Typed
  <2>3. \A q \in Proposals : operation'[q].state \in Nonterminal =>
              operation[q].state \in Nonterminal /\ operation'[q].expires = operation[q].expires
      BY <1>3, <2>2 DEF Row
  <2> QED BY <1>1, <2>1, <2>3, NoMorePending
<1>4. ASSUME NEW c \in Callers, Looks(c) PROVE Row(c) \in Rows
    BY <1>1, <1>4, CallShape DEF Row, On, Typed
<1>5. ASSUME NEW c \in Callers, ExpireProposal(c) \/ Cancel(c)
      PROVE  FewPending'
  <2>1. Looks(c)
      BY <1>5 DEF ExpireProposal, Cancel, MayCancel, Called, Looks
  <2>2. PICK row : Writes(c, On(c), row) /\ row.state \notin Nonterminal
      BY <1>4, <1>5, <2>1 DEF ExpireProposal, Cancel, Rows, Nonterminal
  <2> QED BY <1>3, <2>1, <2>2
<1>6. ASSUME NEW c \in Callers, Approve(c) \/ AskConfirmation(c) \/ Confirm(c)
      PROVE  FewPending'
  <2>1. Looks(c) /\ Row(c).state \in Nonterminal
      BY <1>6 DEF Approve, AskConfirmation, Confirm, MayStart, MayConfirm, Called, Looks, Nonterminal
  <2>2. Row(c) \in Rows
      BY <1>4, <2>1
  <2>3. CASE Approve(c)
    <3> DEFINE row == [Row(c) EXCEPT !.state = "approved", !.started = Now(c), !.approved = Now(c),
                                     !.by = calls[c].who, !.decider = calls[c].who]
    <3>1. row.expires = Row(c).expires
        BY <2>2 DEF Rows
    <3>2. Writes(c, On(c), row)
        BY <2>3 DEF Approve
    <3> HIDE DEF row
    <3> QED BY <1>3, <2>1, <3>1, <3>2
  <2>4. CASE AskConfirmation(c)
    <3> DEFINE row == [Row(c) EXCEPT !.state = "awaiting_confirmation", !.started = Now(c),
                                     !.by = calls[c].who]
    <3>1. row.expires = Row(c).expires
        BY <2>2 DEF Rows
    <3>2. Writes(c, On(c), row)
        BY <2>4 DEF AskConfirmation
    <3> HIDE DEF row
    <3> QED BY <1>3, <2>1, <3>1, <3>2
  <2>5. CASE Confirm(c)
    <3> DEFINE row == [Row(c) EXCEPT !.state = "approved", !.approved = Now(c),
                                     !.decider = calls[c].who]
    <3>1. row.expires = Row(c).expires
        BY <2>2 DEF Rows
    <3>2. Writes(c, On(c), row)
        BY <2>5 DEF Confirm
    <3> HIDE DEF row
    <3> QED BY <1>3, <2>1, <3>1, <3>2
  <2> QED BY <1>6, <2>3, <2>4, <2>5
<1>7. CASE (\E c \in Callers : CallTool(c) \/ CallCommand(c) \/ AnswerOnly(c))
             \/ StopHermes \/ PassTime \/ UNCHANGED approvalVars
    BY <1>1, <1>2, <1>7
       DEF CallTool, CallCommand, Call, AnswerOnly, StopHermes, PassTime, approvalVars
<1>8. ASSUME NEW c \in Callers, NEW p \in Proposals, NEW risk \in {"L1", "L3"},
             CreateProposal(c, p, risk)
      PROVE  FewPending'
    BY <1>1, <1>8, CreatedWithin
<1> QED BY <1>5, <1>6, <1>7, <1>8 DEF ApprovalsNext

\* The limit holds of an empty ledger.
LEMMA PendingInit == ApprovalsInit => FewPending
<1> SUFFICES ASSUME ApprovalsInit PROVE FewPending
    OBVIOUS
<1>1. Active(time) = {}
    BY DEF ApprovalsInit, Active, NoOperation, Nonterminal
<1> QED BY <1>1, FS_EmptySet, ApprovalAssumption DEF FewPending

\* However long callers wait for the lock with the time they have read, an
\* approval is the decision of one owner within its time and with the challenge
\* it needs, and no more proposals are pending than max_pending.
THEOREM ApprovalsAreSound == ApprovalsSpec => []ApprovalsHold
<1>1. ApprovalsSpec => []ApprovalInv
    BY ApprovalInitInv, ApprovalStepInv, PTL DEF ApprovalsSpec
<1>2. ApprovalInv /\ ApprovalInv' /\ FewPending /\ [ApprovalsNext]_approvalVars => FewPending'
    BY PendingStep
<1>3. ApprovalsSpec => []FewPending
    BY <1>1, <1>2, PendingInit, PTL DEF ApprovalsSpec
<1>4. ApprovalInv /\ FewPending => ApprovalsHold
    BY DEF ApprovalInv, ApprovalsHold
<1> QED BY <1>1, <1>3, <1>4, PTL
=============================================================================
