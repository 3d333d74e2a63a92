---------------------- MODULE ControllerServiceProofs ----------------------
(* What the job runner of the Codex Controller keeps to, for any messages,    *)
(* any number of attempts, any reports of its turns and any stops: proofs     *)
(* about ControllerService.                                                   *)
EXTENDS ControllerService, SequenceTheorems, TLAPS

-----------------------------------------------------------------------------
(* Types.                                                                     *)

AnyIntent == [kind : Kinds, target : Targets]
JobRow == [state : ActiveStates \cup FinalStates, intent : AnyIntent,
           attempt : 0 .. MaxAttempts, bound : BOOLEAN, seen : BOOLEAN,
           text : BOOLEAN, retryable : BOOLEAN, rests : BOOLEAN, reviewed : BOOLEAN]
EventRow == [turn : Turns, kind : Reports \cup {"end"}, end : {NoEnd} \cup Endings]
TurnRow == [at : {"none", "asked", "live", "over", "dead"}, sent : SUBSET Reports,
            status : {"none", "completed", "failed", "interrupted"}]
Places == {"claimed", "ready", "asked", "answered", "bound", "assigned", "replaying",
           "told", "executing"}
ReaderPlaces == {"half_missed", "missed", "ending"}

JobsTypeOK ==
    /\ job \in [Jobs -> {NoRow} \cup JobRow]
    /\ arrived \in Seq(Jobs)

ThreadsTypeOK ==
    /\ sched \in {Idle} \cup [at : Places, job : Jobs]
    /\ reader \in {Idle} \cup [at : ReaderPlaces, event : EventRow]
    /\ replay \in Seq(EventRow)
    /\ buffer \in [Turns -> Seq(EventRow)]
    /\ ctx \in [job : Jobs \cup {NoJob}, turn : Turns \cup {NoTurn}]

AppTypeOK ==
    /\ wire \in Seq(EventRow)
    /\ turn \in [Turns -> TurnRow]

RunnerTypeOK == JobsTypeOK /\ ThreadsTypeOK /\ AppTypeOK

-----------------------------------------------------------------------------
(* The inductive invariant of jobs and turns.                                 *)

Busy == {"running", "recovery_required"}
Unasked == [at |-> "none", sent |-> {}, status |-> "none"]
Started == {"live", "over", "dead"}

(* One job at a time, in the scheduler's hands or bound to a turn.            *)
OneIsBusy == \A j, k \in Jobs : In(j, Busy) /\ In(k, Busy) => j = k
InHand == \A j \in Jobs : In(j, {"running"}) => job[j].bound \/ (sched # Idle /\ J = j)

(* What a row says of itself.                                                 *)
RowsAgree ==
    \A j \in Jobs : job[j] # NoRow =>
        /\ job[j].state = "queued" => ~ job[j].bound /\ job[j].attempt < MaxAttempts
        /\ job[j].state # "queued" => job[j].attempt # 0
        /\ job[j].reviewed => job[j].state \in FinalStates
        /\ job[j].bound => /\ job[j].intent.kind = "turn"
                           /\ turn[TurnOf(j)].at \in Started

(* Where the scheduler is, and the job and the turn it has in hand.           *)
SchedulerAgrees ==
    sched # Idle =>
        /\ job[J] # NoRow /\ job[J].attempt # 0
        /\ sched.at \in Places \ {"assigned", "replaying"} =>
              In(J, {"running"}) /\ ~ job[J].bound
        /\ sched.at \in {"assigned", "replaying"} => (In(J, {"running"}) => job[J].bound)
        /\ sched.at \in {"asked", "answered", "bound"} => job[J].intent.kind = "turn"
        /\ sched.at = "told" => job[J].intent.kind \in {"request", "confirm"}
        /\ sched.at = "executing" => job[J].intent.kind = "confirm"
        /\ sched.at \in {"claimed", "ready"} => turn[TurnOf(J)] = Unasked
        /\ sched.at = "asked" => turn[TurnOf(J)].at \in {"asked", "dead"}
        /\ sched.at \in {"answered", "bound"} => turn[TurnOf(J)].at \in Started

(* A turn is asked for once, by the job's latest attempt.                     *)
TurnsAgree ==
    \A t \in Turns :
        /\ job[t[1]] = NoRow \/ job[t[1]].attempt < t[2] => turn[t] = Unasked
        /\ turn[t].at \in {"none", "asked"} => turn[t].sent = {}
        /\ turn[t].at \in {"asked", "live"} =>
              /\ job[t[1]] # NoRow /\ t = TurnOf(t[1])
              /\ ~ In(t[1], {"queued"})
              /\ job[t[1]].intent.kind = "turn"

(* An end on its way is that of a turn which is over.                         *)
Told(turns, e) == IsEnd(e) => /\ turns[e.turn].at = "over"
                              /\ turns[e.turn].status = e.end.status
                              /\ e.end \in Endings
EndsAreTrue ==
    /\ \A n \in DOMAIN wire : Told(turn, wire[n])
    /\ reader # Idle => Told(turn, reader.event)
    /\ \A t \in Turns : \A n \in DOMAIN buffer[t] : Told(turn, buffer[t][n])
    /\ \A n \in DOMAIN replay : Told(turn, replay[n])

-----------------------------------------------------------------------------
(* The inductive invariant of reports: none overtakes the end of its turn,    *)
(* and what has not been applied is still on its way.                         *)

Reading(r, t) == r # Idle /\ r.event.turn = t
OnWire(events, t) == \E n \in DOMAIN events : events[n].turn = t

EndComesLast ==
    /\ \A m, n \in DOMAIN wire : m < n /\ IsEnd(wire[m]) => wire[m].turn # wire[n].turn
    /\ reader # Idle /\ IsEnd(reader.event) => ~ OnWire(wire, reader.event.turn)
    /\ \A t \in Turns : \A n \in DOMAIN buffer[t] :
          /\ buffer[t][n].turn = t
          /\ IsEnd(buffer[t][n]) => n = Len(buffer[t]) /\ ~ Reading(reader, t) /\ ~ OnWire(wire, t)
    /\ \A n \in DOMAIN replay :
          /\ replay[n].turn = TurnOf(J)
          /\ IsEnd(replay[n]) => /\ n = Len(replay) /\ buffer[TurnOf(J)] = << >>
                                 /\ ~ Reading(reader, TurnOf(J)) /\ ~ OnWire(wire, TurnOf(J))

ThreadsAgree ==
    /\ replay # << >> <=> At("replaying")
    /\ reader.at = "ending" => IsEnd(reader.event) /\ buffer[reader.event.turn] = << >>
    /\ reader.at = "half_missed" => reader.event.kind = "text"

(* A report of kind k of turn t that is not applied yet.                      *)
Ahead(t, k) ==
    \/ \E n \in DOMAIN wire : wire[n].turn = t /\ wire[n].kind = k
    \/ reader # Idle /\ reader.event.turn = t /\ reader.event.kind = k
    \/ \E n \in DOMAIN buffer[t] : buffer[t][n].kind = k
    \/ \E n \in DOMAIN replay : replay[n].turn = t /\ replay[n].kind = k

Accounted(t) ==
    /\ job[t[1]] # NoRow /\ t = TurnOf(t[1]) /\ ~ In(t[1], {"queued"})
    /\ In(t[1], {"running"}) =>
          /\ \A k \in turn[t].sent \cap Effects : job[t[1]].seen \/ Ahead(t, k)
          /\ "text" \in turn[t].sent => job[t[1]].text \/ Ahead(t, "text")
    /\ In(t[1], {"completed"}) /\ "text" \in turn[t].sent =>
          job[t[1]].text \/ job[t[1]].reviewed
Effective(t) == turn[t].sent \cap Effects # {}
NoneIsLost == \A t \in Turns \ lost : Effective(t) => Accounted(t)

RunnerInv == /\ RunnerTypeOK /\ OneIsBusy /\ InHand /\ RowsAgree /\ SchedulerAgrees
             /\ TurnsAgree /\ EndsAreTrue /\ OutcomeOfItsTurn
             /\ EndComesLast /\ ThreadsAgree /\ NoneIsLost

-----------------------------------------------------------------------------
(* Sequences.                                                                 *)

(* What is left when the first element is taken.                              *)
LEMMA TailFacts ==
    ASSUME NEW S, NEW s \in Seq(S), s # << >>
    PROVE  /\ Tail(s) \in Seq(S) /\ Len(Tail(s)) = Len(s) - 1
           /\ \A n \in DOMAIN Tail(s) : n + 1 \in DOMAIN s /\ Tail(s)[n] = s[n + 1]
           /\ \A n \in DOMAIN s : n # 1 => n - 1 \in DOMAIN Tail(s)
           /\ 1 \in DOMAIN s /\ Head(s) = s[1] /\ Head(s) \in S
           /\ Len(s) \in Nat \ {0}
<1>1. Len(s) \in Nat /\ DOMAIN s = 1 .. Len(s) /\ Len(s) # 0
  BY EmptySeq, LenProperties
<1>2. Tail(s) \in Seq(S) /\ Len(Tail(s)) = Len(s) - 1 /\ Head(s) = s[1]
      /\ \A i \in 1 .. Len(Tail(s)) : Tail(s)[i] = s[i + 1]
  BY HeadTailProperties
<1>3. DOMAIN Tail(s) = 1 .. (Len(s) - 1)
  BY <1>2, LenProperties
<1>4. Head(s) \in S
  BY HeadTailProperties
<1> QED BY <1>1, <1>2, <1>3, <1>4

(* What is there when one is appended.                                        *)
LEMMA AppendFacts ==
    ASSUME NEW S, NEW s \in Seq(S), NEW e \in S
    PROVE  /\ Append(s, e) \in Seq(S) /\ Len(Append(s, e)) = Len(s) + 1
           /\ Len(s) \in Nat /\ DOMAIN s = 1 .. Len(s)
           /\ DOMAIN Append(s, e) = 1 .. (Len(s) + 1)
           /\ \A n \in DOMAIN s : Append(s, e)[n] = s[n]
           /\ Append(s, e)[Len(s) + 1] = e
<1>1. Append(s, e) \in Seq(S) /\ Len(Append(s, e)) = Len(s) + 1
      /\ \A i \in 1 .. Len(s) : Append(s, e)[i] = s[i]
      /\ Append(s, e)[Len(s) + 1] = e
  BY AppendProperties
<1>2. Len(s) \in Nat /\ DOMAIN s = 1 .. Len(s)
  BY LenProperties
<1>3. DOMAIN Append(s, e) = 1 .. (Len(s) + 1)
  BY <1>1, <1>2, LenProperties
<1> QED BY <1>1, <1>2, <1>3

(* The end of a buffered turn comes last already: sorting changes nothing.    *)
LEMMA EndLastFacts ==
    ASSUME NEW S, NEW s \in Seq(S), \A n \in DOMAIN s : IsEnd(s[n]) => n = Len(s)
    PROVE  EndLast(s) = s
<1> DEFINE End(n) == IsEnd(s[n])
<1>1. CASE \E n \in DOMAIN s : IsEnd(s[n])
  <2> DEFINE m == CHOOSE n \in DOMAIN s : IsEnd(s[n])
  <2>1. m \in DOMAIN s /\ m = Len(s)
    BY <1>1
  <2>2. Len(s) \in Nat \ {0} /\ s # << >>
    BY <2>1, LenProperties, EmptySeq
  <2>3. EndLast(s) = Append(SubSeq(s, 1, Len(s) - 1) \o SubSeq(s, Len(s) + 1, Len(s)), s[Len(s)])
    BY <1>1, <2>1 DEF EndLast
  <2>4. SubSeq(s, Len(s) + 1, Len(s)) = << >>
    BY <2>2, SubSeqEmpty
  <2>5a. Len(s) - 1 \in Int /\ \A i \in 1 .. Len(s) - 1 : s[i] \in S
    BY <2>2, ElementOfSeq
  <2>5. SubSeq(s, 1, Len(s) - 1) \in Seq(S)
    BY <2>5a, SubSeqProperties
  <2>6. EndLast(s) = Append(SubSeq(s, 1, Len(s) - 1), s[Len(s)])
    BY <2>3, <2>4, <2>5, ConcatEmptySeq
  <2>7. Len(SubSeq(s, 1, Len(s) - 1)) = Len(s) - 1
        /\ \A i \in 1 .. Len(s) - 1 : SubSeq(s, 1, Len(s) - 1)[i] = s[i]
    <3> DEFINE l == Len(s) - 1
               q == SubSeq(s, 1, l)
    <3>1. l \in Nat /\ \A i \in 1 .. l : s[i] \in S
      BY <2>2, <2>5a
    <3> HIDE DEF l
    <3>2. Len(q) = (IF 1 <= l THEN l - 1 + 1 ELSE 0)
          /\ \A i \in 1 .. l - 1 + 1 : q[i] = s[1 + i - 1]
      BY <3>1, SubSeqProperties
    <3> HIDE DEF q
    <3>3. Len(q) = l /\ \A i \in 1 .. l : q[i] = s[i]
      BY <3>1, <3>2
    <3> QED BY <3>3 DEF l, q
  <2>8. s[Len(s)] \in S
    BY <2>2, ElementOfSeq
  <2>9. EndLast(s) \in Seq(S) /\ Len(EndLast(s)) = Len(s)
    BY <2>2, <2>5, <2>6, <2>7, <2>8, AppendFacts
  <2>10. \A i \in 1 .. Len(s) : EndLast(s)[i] = s[i]
    BY <2>2, <2>5, <2>6, <2>7, <2>8, AppendFacts
  <2> QED BY <2>9, <2>10, SeqEqual
<1>2. CASE ~ \E n \in DOMAIN s : IsEnd(s[n])
  BY <1>2 DEF EndLast
<1> QED BY <1>1, <1>2

-----------------------------------------------------------------------------
(* What each write of the job table does to the row of one job.               *)

OnlyRow(j) == /\ \A k \in Jobs \ {j} : job'[k] = job[k]
              /\ arrived' = arrived
(* The row of j goes to a state; message, attempt and review stay.            *)
Moves(j, state, bound) ==
    /\ OnlyRow(j)
    /\ job[j] \in JobRow /\ job'[j] \in JobRow
    /\ job'[j].state = state /\ job'[j].bound = bound
    /\ job'[j].intent = job[j].intent
    /\ job'[j].attempt = job[j].attempt
    /\ job'[j].reviewed = job[j].reviewed
Keeps(j) == job'[j].seen = job[j].seen /\ job'[j].text = job[j].text

(* A row that is there is a whole row.                                        *)
LEMMA RowThere ==
    ASSUME JobsTypeOK, NEW j \in Jobs
    PROVE  /\ job[j] # NoRow => job[j] \in JobRow
           /\ \A s \in ActiveStates \cup FinalStates : job[j].state = s => job[j] # NoRow
           /\ NoRow \notin JobRow
<1>1. NoRow \notin JobRow
  BY DEF NoRow, JobRow, ActiveStates, FinalStates
<1>2. job[j] \in {NoRow} \cup JobRow
  BY DEF JobsTypeOK
<1> QED BY <1>1, <1>2 DEF NoRow, ActiveStates, FinalStates

(* One row is written.                                                        *)
LEMMA RowWritten ==
    ASSUME JobsTypeOK, NEW j \in Jobs, NEW row \in JobRow, Update(j, row)
    PROVE  JobsTypeOK' /\ OnlyRow(j) /\ job'[j] = row
BY DEF JobsTypeOK, Update, OnlyRow

(* A running job is recorded as bound to its turn.                            *)
LEMMA AssignRow ==
    ASSUME JobsTypeOK, NEW j \in Jobs, AssignTurn(j)
    PROVE  JobsTypeOK' /\ Moves(j, "running", TRUE) /\ Keeps(j) /\ In(j, {"running"})
<1> DEFINE row == [job[j] EXCEPT !.bound = TRUE]
<1>1. job[j] \in JobRow /\ job[j].state = "running"
  BY RowThere DEF AssignTurn, In, ActiveStates
<1>2. row \in JobRow
  BY <1>1 DEF JobRow
<1>3. Update(j, row)
  BY DEF AssignTurn
<1>4. JobsTypeOK' /\ OnlyRow(j) /\ job'[j] = row
  BY <1>2, <1>3, RowWritten
<1> QED BY <1>1, <1>2, <1>4 DEF Moves, Keeps, In, JobRow

(* It completes with an answer.                                               *)
LEMMA DirectRow ==
    ASSUME JobsTypeOK, NEW j \in Jobs, CompleteDirect(j)
    PROVE  JobsTypeOK' /\ Moves(j, "completed", job[j].bound) /\ job'[j].text = TRUE
           /\ job'[j].seen = job[j].seen /\ In(j, {"running"})
<1> DEFINE row == [job[j] EXCEPT !.state = "completed", !.text = TRUE]
<1>1. job[j] \in JobRow /\ job[j].state = "running"
  BY RowThere DEF CompleteDirect, In, ActiveStates
<1>2. row \in JobRow
  BY <1>1 DEF JobRow, FinalStates
<1>3. Update(j, row)
  BY DEF CompleteDirect
<1>4. JobsTypeOK' /\ OnlyRow(j) /\ job'[j] = row
  BY <1>2, <1>3, RowWritten
<1> QED BY <1>1, <1>2, <1>4 DEF Moves, In, JobRow

(* It fails, or its outcome is left to a person.                              *)
LEMMA FailRow ==
    ASSUME JobsTypeOK, NEW j \in Jobs, NEW u \in BOOLEAN, FailClaimed(j, u)
    PROVE  /\ JobsTypeOK' /\ Keeps(j) /\ In(j, {"running"})
           /\ Moves(j, IF u THEN "recovery_required" ELSE "failed", job[j].bound)
<1> DEFINE row == [job[j] EXCEPT !.state = IF u THEN "recovery_required" ELSE "failed"]
<1>1. job[j] \in JobRow /\ job[j].state = "running"
  BY RowThere DEF FailClaimed, In, ActiveStates
<1>2. row \in JobRow
  BY <1>1 DEF JobRow, FinalStates, ActiveStates
<1>3. Update(j, row)
  BY DEF FailClaimed
<1>4. JobsTypeOK' /\ OnlyRow(j) /\ job'[j] = row
  BY <1>2, <1>3, RowWritten
<1> QED BY <1>1, <1>2, <1>4 DEF Moves, Keeps, In, JobRow

(* It is queued again, or fails when its attempts are used up.                *)
LEMMA OverloadRow ==
    ASSUME JobsTypeOK, NEW j \in Jobs, RetryOverloaded(j)
    PROVE  /\ JobsTypeOK' /\ Keeps(j) /\ In(j, {"running"})
           /\ \/ Moves(j, "queued", FALSE) /\ job[j].attempt < MaxAttempts
              \/ Moves(j, "failed", job[j].bound)
<1> DEFINE row == [job[j] EXCEPT !.state = "queued", !.bound = FALSE,
                                 !.retryable = TRUE, !.rests = TRUE]
<1>1. CASE job[j].attempt < MaxAttempts
  <2>1. job[j] \in JobRow /\ job[j].state = "running"
    BY <1>1, RowThere DEF RetryOverloaded, In, ActiveStates
  <2>2. row \in JobRow
    BY <2>1 DEF JobRow, ActiveStates
  <2>3. Update(j, row)
    BY <1>1 DEF RetryOverloaded
  <2>4. JobsTypeOK' /\ OnlyRow(j) /\ job'[j] = row
    BY <2>2, <2>3, RowWritten
  <2> QED BY <1>1, <2>1, <2>2, <2>4 DEF Moves, Keeps, In, JobRow
<1>2. CASE ~ job[j].attempt < MaxAttempts
  BY <1>2, FailRow DEF RetryOverloaded
<1> QED BY <1>1, <1>2

(* What a report leaves: an effect is seen, a text is there; an end gives the *)
(* outcome of its status, or the job back to the queue if nothing was seen.   *)
Reported(j, e) ==
    /\ NotEnd(e) /\ Moves(j, "running", TRUE)
    /\ job'[j].seen = job[j].seen \/ job'[j].seen = TRUE
    /\ job'[j].text = job[j].text \/ job'[j].text = TRUE
    /\ e.kind \in Effects => job'[j].seen = TRUE
    /\ e.kind = "text" => job'[j].text = TRUE
EndedIn(j, e) == IsEnd(e) /\ Moves(j, EndState(e.end), TRUE) /\ job'[j].text = job[j].text
EndedForRetry(j, e) == /\ IsEnd(e) /\ Moves(j, "queued", FALSE)
                       /\ job[j].attempt < MaxAttempts /\ job[j].seen = FALSE

LEMMA ReportRow ==
    ASSUME JobsTypeOK, NEW e \in EventRow, Holds(e.turn), Apply(e)
    PROVE  LET j == e.turn[1] IN
           /\ j \in Jobs /\ e.turn = TurnOf(j) /\ In(j, {"running"})
           /\ job[j].bound = TRUE
           /\ JobsTypeOK'
           /\ Reported(j, e) \/ EndedIn(j, e) \/ EndedForRetry(j, e)
<1> DEFINE j == e.turn[1]
<1>1. j \in Jobs /\ e.turn = TurnOf(j) /\ In(j, {"running"}) /\ job[j].bound
  BY DEF EventRow, Turns, Holds
<1>2. job[j] \in JobRow /\ job[j].state = "running" /\ job[j].bound = TRUE
  BY <1>1, RowThere DEF In, JobRow, ActiveStates
<1>3. e.kind \in Reports \cup {"end"}
  BY DEF EventRow
<1> HIDE DEF j
<1>4. CASE e.kind = "text"
  <2> DEFINE row == [job[j] EXCEPT !.text = TRUE, !.seen = TRUE]
  <2>1. Update(j, row)
    BY <1>4 DEF Apply, SetResultText, j
  <2>2. row \in JobRow
    BY <1>2 DEF JobRow
  <2>3. JobsTypeOK' /\ OnlyRow(j) /\ job'[j] = row
    BY <1>1, <2>1, <2>2, RowWritten
  <2>4. Reported(j, e)
    BY <1>2, <1>4, <2>2, <2>3 DEF Reported, Moves, NotEnd, JobRow, Effects
  <2> QED BY <1>1, <1>2, <2>3, <2>4 DEF j
<1>5. CASE e.kind = "activity"
  <2> DEFINE row == [job[j] EXCEPT !.seen = TRUE]
  <2>1. Update(j, row)
    BY <1>5 DEF Apply, ObserveTurnActivity, j
  <2>2. row \in JobRow
    BY <1>2 DEF JobRow
  <2>3. JobsTypeOK' /\ OnlyRow(j) /\ job'[j] = row
    BY <1>1, <2>1, <2>2, RowWritten
  <2>4. Reported(j, e)
    BY <1>2, <1>5, <2>2, <2>3 DEF Reported, Moves, NotEnd, JobRow, Effects
  <2> QED BY <1>1, <1>2, <2>3, <2>4 DEF j
<1>6. CASE e.kind = "end"
  <2>1. CompleteTurn(e.turn, e.end, Shows(e))
    BY <1>6 DEF Apply
  <2>2. CASE MayRetry(j, e.end, Shows(e))
    <3>1. Update(j, Requeued(j))
      BY <2>1, <2>2 DEF CompleteTurn, j
    <3>2. Requeued(j) \in JobRow
      BY <1>2 DEF Requeued, JobRow, ActiveStates
    <3>3. JobsTypeOK' /\ OnlyRow(j) /\ job'[j] = Requeued(j)
      BY <1>1, <3>1, <3>2, RowWritten
    <3>4. job[j].attempt < MaxAttempts /\ job[j].seen = FALSE
      BY <1>2, <2>2 DEF MayRetry, JobRow
    <3>5. EndedForRetry(j, e)
      BY <1>2, <1>6, <3>2, <3>3, <3>4 DEF EndedForRetry, Moves, IsEnd, Requeued, JobRow
    <3> QED BY <1>1, <1>2, <3>3, <3>5 DEF j
  <2>3. CASE ~ MayRetry(j, e.end, Shows(e))
    <3> DEFINE row == [job[j] EXCEPT !.state = EndState(e.end), !.seen = @ \/ Shows(e)]
    <3>1. Update(j, row)
      BY <2>1, <2>3 DEF CompleteTurn, j
    <3>2. EndState(e.end) \in FinalStates
      BY DEF EndState, FinalStates
    <3>3. (job[j].seen \/ Shows(e)) \in BOOLEAN
      OBVIOUS
    <3>4. row \in JobRow
      BY <1>2, <3>2, <3>3 DEF JobRow
    <3>5. JobsTypeOK' /\ OnlyRow(j) /\ job'[j] = row
      BY <1>1, <3>1, <3>4, RowWritten
    <3>6. EndedIn(j, e)
      BY <1>2, <1>6, <3>4, <3>5 DEF EndedIn, Moves, IsEnd, JobRow
    <3> QED BY <1>1, <1>2, <3>5, <3>6 DEF j
  <2> QED BY <2>2, <2>3
<1>7. CASE e.kind \in {"retriable_error", "error", "tool"}
  <2> DEFINE row == [job[j] EXCEPT !.retryable = (e.kind = "retriable_error")]
  <2>1. Update(j, row)
    BY <1>7 DEF Apply, ObserveTurnError, j
  <2>2. row \in JobRow
    BY <1>2 DEF JobRow
  <2>3. JobsTypeOK' /\ OnlyRow(j) /\ job'[j] = row
    BY <1>1, <2>1, <2>2, RowWritten
  <2>4. Reported(j, e)
    BY <1>2, <1>7, <2>2, <2>3 DEF Reported, Moves, NotEnd, JobRow, Effects
  <2> QED BY <1>1, <1>2, <2>3, <2>4 DEF j
<1> QED BY <1>3, <1>4, <1>5, <1>6, <1>7 DEF Reports

(* The next job is claimed: it is queued, and none is busy.                   *)
LEMMA ClaimRow ==
    ASSUME JobsTypeOK, RowsAgree, NEW j \in Jobs, ClaimNext(j)
    PROVE  /\ JobsTypeOK' /\ OnlyRow(j)
           /\ In(j, {"queued"}) /\ job[j] \in JobRow /\ job[j].bound = FALSE
           /\ \A k \in Jobs : ~ In(k, Busy)
           /\ First(j)
           /\ job'[j] \in JobRow
           /\ job'[j].state = "running" /\ job'[j].bound = FALSE
           /\ job'[j].attempt = job[j].attempt + 1
           /\ job'[j].intent = job[j].intent /\ job'[j].reviewed = FALSE
<1>1. In(j, {"queued"}) /\ First(j) /\ Update(j, Claimed(j)) /\ \A k \in Jobs : ~ In(k, Busy)
  BY DEF ClaimNext, First, Busy
<1>2. job[j] \in JobRow /\ job[j].state = "queued"
  BY <1>1, RowThere DEF In, ActiveStates
<1>3. ~ job[j].bound /\ job[j].attempt < MaxAttempts /\ ~ job[j].reviewed
  BY <1>2, RowThere DEF RowsAgree, FinalStates
<1>4. job[j].attempt + 1 \in 0 .. MaxAttempts
  BY <1>2, <1>3, JobsAssumption DEF JobRow
<1>5. Claimed(j) \in JobRow
  BY <1>2, <1>4 DEF Claimed, JobRow, ActiveStates
<1>6. JobsTypeOK' /\ OnlyRow(j) /\ job'[j] = Claimed(j)
  BY <1>1, <1>5, RowWritten
<1> QED BY <1>1, <1>2, <1>3, <1>5, <1>6 DEF Claimed, JobRow

(* Its retry time comes: nothing else of the row moves.                       *)
LEMMA RestRow ==
    ASSUME JobsTypeOK, NEW j \in Jobs, RetryTime(j)
    PROVE  JobsTypeOK' /\ Moves(j, "queued", job[j].bound) /\ Keeps(j) /\ In(j, {"queued"})
<1> DEFINE row == [job[j] EXCEPT !.rests = FALSE]
<1>1. job[j] \in JobRow /\ job[j].state = "queued"
  BY RowThere DEF RetryTime, In, ActiveStates
<1>2. row \in JobRow
  BY <1>1 DEF JobRow
<1>3. Update(j, row)
  BY DEF RetryTime
<1>4. JobsTypeOK' /\ OnlyRow(j) /\ job'[j] = row
  BY <1>2, <1>3, RowWritten
<1> QED BY <1>1, <1>2, <1>4 DEF Moves, Keeps, In, JobRow

(* A person decides what became of it.                                        *)
LEMMA ReviewRow ==
    ASSUME JobsTypeOK, NEW j \in Jobs, NEW o \in FinalStates, ResolveRecovery(j, o)
    PROVE  /\ JobsTypeOK' /\ OnlyRow(j) /\ Keeps(j) /\ In(j, {"recovery_required"})
           /\ job[j] \in JobRow /\ job'[j] \in JobRow
           /\ job'[j].state = o /\ job'[j].bound = job[j].bound
           /\ job'[j].intent = job[j].intent /\ job'[j].attempt = job[j].attempt
           /\ job'[j].reviewed = TRUE
<1> DEFINE row == [job[j] EXCEPT !.state = o, !.reviewed = TRUE]
<1>1. job[j] \in JobRow /\ job[j].state = "recovery_required"
  BY RowThere DEF ResolveRecovery, In, ActiveStates
<1>2. row \in JobRow
  BY <1>1 DEF JobRow, FinalStates
<1>3. Update(j, row)
  BY DEF ResolveRecovery
<1>4. JobsTypeOK' /\ OnlyRow(j) /\ job'[j] = row
  BY <1>2, <1>3, RowWritten
<1> QED BY <1>1, <1>2, <1>4 DEF Keeps, In, JobRow

(* A message becomes a job.                                                   *)
LEMMA NewRow ==
    ASSUME JobsTypeOK, NEW j \in Jobs, NEW i \in Intents[j], CreateJob(j, i)
    PROVE  /\ JobsTypeOK' /\ job[j] = NoRow /\ job'[j] \in JobRow
           /\ \A k \in Jobs \ {j} : job'[k] = job[k]
           /\ job'[j] = NewJob(i)
           /\ arrived' = Append(arrived, j)
<1>1. i \in AnyIntent
  BY IntentsAssumption DEF AnyIntent
<1>2. NewJob(i) \in JobRow
  BY <1>1, JobsAssumption DEF NewJob, JobRow, ActiveStates
<1>3. Append(arrived, j) \in Seq(Jobs)
  BY AppendFacts DEF JobsTypeOK
<1> QED BY <1>2, <1>3 DEF CreateJob, JobsTypeOK

(* After a stop the job that ran is left to a person.                         *)
LEMMA RecoveredRows ==
    ASSUME JobsTypeOK, RecoverRunning
    PROVE  /\ JobsTypeOK' /\ arrived' = arrived
           /\ \A j \in Jobs :
                 IF In(j, {"running"})
                 THEN /\ job[j] \in JobRow
                      /\ Keeps(j)
                      /\ job'[j].state = "recovery_required" /\ job'[j].bound = job[j].bound
                      /\ job'[j].intent = job[j].intent /\ job'[j].attempt = job[j].attempt
                      /\ job'[j].reviewed = job[j].reviewed
                 ELSE job'[j] = job[j]
<1> DEFINE row(j) == [job[j] EXCEPT !.state = "recovery_required"]
<1>1. arrived' = arrived
      /\ job' = [j \in Jobs |-> IF In(j, {"running"}) THEN row(j) ELSE job[j]]
  BY DEF RecoverRunning
<1>2. ASSUME NEW j \in Jobs, In(j, {"running"})
      PROVE  /\ job[j] \in JobRow /\ row(j) \in JobRow
             /\ row(j).state = "recovery_required" /\ row(j).bound = job[j].bound
             /\ row(j).intent = job[j].intent /\ row(j).attempt = job[j].attempt
             /\ row(j).reviewed = job[j].reviewed
             /\ row(j).seen = job[j].seen /\ row(j).text = job[j].text
  <2>1. job[j] \in JobRow
    BY <1>2, RowThere DEF In, ActiveStates
  <2> QED BY <2>1 DEF JobRow, ActiveStates
<1> HIDE DEF row
<1>3. JobsTypeOK'
  BY <1>1, <1>2 DEF JobsTypeOK
<1> QED BY <1>1, <1>2, <1>3 DEF Keeps

-----------------------------------------------------------------------------
(* Types are kept.                                                            *)

LEMMA HandIsThere ==
    ASSUME RunnerTypeOK, SchedulerAgrees, sched # Idle
    PROVE  /\ J \in Jobs /\ job[J] \in JobRow /\ TurnOf(J) \in Turns
           /\ sched \in [at : Places, job : Jobs]
<1>1. sched \in [at : Places, job : Jobs]
  BY DEF RunnerTypeOK, ThreadsTypeOK
<1>2. J \in Jobs
  BY <1>1 DEF J
<1>3. job[J] \in JobRow /\ job[J].attempt # 0
  BY <1>2, RowThere DEF RunnerTypeOK, SchedulerAgrees
<1> QED BY <1>1, <1>2, <1>3, JobsAssumption DEF TurnOf, Turns, JobRow

(* Where At(place) says the scheduler is, it is not idle.                     *)
LEMMA NotIdle ==
    ASSUME NEW place \in Places, At(place)
    PROVE  sched # Idle
BY DEF At, Idle, Places

(* The scheduler goes on in the same job.                                     *)
LEMMA GoesOn ==
    ASSUME RunnerTypeOK, SchedulerAgrees, sched # Idle, NEW place \in Places, Goes(place)
    PROVE  /\ sched' \in [at : Places, job : Jobs] /\ sched' # Idle
           /\ sched'.at = place /\ J' = J
<1>1. sched \in [at : Places, job : Jobs]
  BY HandIsThere
<1> QED BY <1>1 DEF Goes, J, Idle, Places

(* Messages submitted, time and reviews.                                      *)
LEMMA TypesOfQueue ==
    ASSUME RunnerInv, NEW j \in Jobs, Submit(j) \/ Admin(j) \/ TimeStep
    PROVE  RunnerTypeOK'
<1>1. JobsTypeOK /\ ThreadsTypeOK /\ AppTypeOK
  BY DEF RunnerInv, RunnerTypeOK
<1>2. JobsTypeOK'
  <2>1. CASE Submit(j)
    BY <1>1, <2>1, NewRow DEF Submit
  <2>2. CASE Admin(j)
    BY <1>1, <2>2, ReviewRow DEF Admin
  <2>3. CASE TimeStep
    BY <1>1, <2>3, RestRow DEF TimeStep, jobVars, JobsTypeOK
  <2> QED BY <2>1, <2>2, <2>3
<1>3. UNCHANGED serviceVars
  BY DEF Submit, Admin, TimeStep
<1> QED BY <1>1, <1>2, <1>3 DEF RunnerTypeOK, ThreadsTypeOK, AppTypeOK, serviceVars, threadVars, appVars

(* The scheduler's steps.                                                     *)
LEMMA TypesOfScheduler ==
    ASSUME RunnerInv, SchedulerStep
    PROVE  RunnerTypeOK'
<1>1. /\ JobsTypeOK /\ ThreadsTypeOK /\ AppTypeOK /\ RunnerTypeOK /\ SchedulerAgrees
      /\ RowsAgree
  BY DEF RunnerInv, RunnerTypeOK
<1>2. ASSUME sched # Idle, \/ CompleteDirect(J) \/ RetryOverloaded(J)
                           \/ \E u \in BOOLEAN : FailClaimed(J, u)
      PROVE  JobsTypeOK'
  BY <1>1, <1>2, HandIsThere, DirectRow, OverloadRow, FailRow
<1>3. ASSUME sched # Idle, Stops
      PROVE  sched' = Idle /\ ctx' \in [job : Jobs \cup {NoJob}, turn : Turns \cup {NoTurn}]
  BY <1>1, <1>3 DEF Stops, ClearJob, ThreadsTypeOK, NoContext
<1>4. ASSUME UNCHANGED jobVars
      PROVE  JobsTypeOK'
  BY <1>1, <1>4 DEF JobsTypeOK, jobVars
<1>5. ASSUME sched # Idle, Stops, JobsTypeOK', Calmly
      PROVE  RunnerTypeOK'
  BY <1>1, <1>3, <1>5 DEF RunnerTypeOK, ThreadsTypeOK, AppTypeOK, Calmly, appVars
<1>6. ASSUME sched # Idle, NEW place \in Places, Goes(place), JobsTypeOK', Calmly,
             ctx' \in [job : Jobs \cup {NoJob}, turn : Turns \cup {NoTurn}]
      PROVE  RunnerTypeOK'
  BY <1>1, <1>6, GoesOn DEF RunnerTypeOK, ThreadsTypeOK, AppTypeOK, Calmly, appVars
<1>7. ASSUME NEW j \in Jobs, Claim(j)
      PROVE  RunnerTypeOK'
  <2>1. JobsTypeOK'
    BY <1>1, <1>7, ClaimRow DEF Claim
  <2> QED BY <1>1, <1>7, <2>1 DEF Claim, RunnerTypeOK, ThreadsTypeOK, AppTypeOK, appVars, Places
<1>8. CASE NewThread
  BY <1>2, <1>5, <1>8, NotIdle DEF NewThread, Places
<1>9. CASE BeginJob
  <2>1. sched # Idle /\ Calmly
    BY <1>9, NotIdle DEF BeginJob, Places
  <2>2. CASE ctx = NoContext
    <3>1. ctx' = [job |-> J, turn |-> NoTurn] /\ Goes("ready") /\ UNCHANGED jobVars
      BY <1>9, <2>2 DEF BeginJob
    <3> QED BY <1>1, <1>4, <1>6, <2>1, <3>1, HandIsThere DEF Places
  <2>3. CASE ctx # NoContext
    BY <1>2, <1>5, <1>9, <2>1, <2>3 DEF BeginJob
  <2> QED BY <2>2, <2>3
<1>10. CASE DirectTool
  BY <1>2, <1>5, <1>10, NotIdle DEF DirectTool, Places
<1>11. CASE AskForCar
  <2>1. sched # Idle /\ Calmly
    BY <1>11, NotIdle DEF AskForCar, Places
  <2>2. CASE Goes("told") /\ UNCHANGED <<jobVars, ctx>>
    BY <1>1, <1>4, <1>6, <2>1, <2>2 DEF Places, ThreadsTypeOK
  <2>3. CASE FailClaimed(J, FALSE) /\ Stops
    BY <1>2, <1>5, <2>1, <2>3
  <2> QED BY <1>11, <2>2, <2>3 DEF AskForCar
<1>12. CASE ConfirmCar
  <2>1. sched # Idle /\ Calmly
    BY <1>12, NotIdle DEF ConfirmCar, Places
  <2>2. CASE Goes("told") /\ UNCHANGED <<jobVars, ctx>>
    BY <1>1, <1>4, <1>6, <2>1, <2>2 DEF Places, ThreadsTypeOK
  <2>3. CASE Goes("executing") /\ UNCHANGED <<jobVars, ctx>>
    BY <1>1, <1>4, <1>6, <2>1, <2>3 DEF Places, ThreadsTypeOK
  <2>4. CASE FailClaimed(J, FALSE) /\ Stops
    BY <1>2, <1>5, <2>1, <2>4
  <2> QED BY <1>12, <2>2, <2>3, <2>4 DEF ConfirmCar
<1>13. CASE ExecuteCar
  <2>1. sched # Idle /\ Calmly /\ UNCHANGED <<jobVars, ctx>>
    BY <1>13, NotIdle DEF ExecuteCar, Places
  <2>2. CASE Goes("told")
    BY <1>1, <1>4, <1>6, <2>1, <2>2 DEF Places, ThreadsTypeOK
  <2>3. CASE UNCHANGED sched
    BY <1>1, <1>4, <2>1, <2>3 DEF RunnerTypeOK, ThreadsTypeOK, AppTypeOK, Calmly, appVars
  <2> QED BY <1>13, <2>2, <2>3 DEF ExecuteCar
<1>14. CASE TellResult
  BY <1>2, <1>5, <1>14, NotIdle DEF TellResult, Places
<1>15. CASE AskTurn
  <2>1. sched # Idle
    BY <1>15, NotIdle DEF AskTurn, Places
  <2>2. sched' \in [at : Places, job : Jobs]
    BY <1>1, <1>15, <2>1, GoesOn DEF AskTurn, Places
  <2>3. turn' \in [Turns -> TurnRow]
    BY <1>1, <1>15, <2>1, HandIsThere DEF AskTurn, AppTypeOK, TurnRow
  <2> QED BY <1>1, <1>4, <1>15, <2>2, <2>3 DEF AskTurn, RunnerTypeOK, ThreadsTypeOK, AppTypeOK
<1>16. CASE FailBeforeTurn
  BY <1>2, <1>5, <1>16, NotIdle DEF FailBeforeTurn, Places
<1>17. CASE TurnRejected
  <2>1. sched # Idle
    BY <1>17, NotIdle DEF TurnRejected, Places
  <2>2. JobsTypeOK'
    BY <1>2, <1>17, <2>1 DEF TurnRejected
  <2>3. turn' \in [Turns -> TurnRow]
    BY <1>1, <1>17, <2>1, HandIsThere DEF TurnRejected, AppTypeOK, TurnRow
  <2> QED BY <1>1, <1>3, <1>17, <2>1, <2>2, <2>3
          DEF TurnRejected, RunnerTypeOK, ThreadsTypeOK, AppTypeOK
<1>18. CASE TurnUnanswered
  BY <1>2, <1>5, <1>18, NotIdle DEF TurnUnanswered, Places
<1>19. CASE BindTurn
  <2>1. sched # Idle /\ Calmly /\ Goes("bound") /\ UNCHANGED jobVars
    BY <1>19, NotIdle DEF BindTurn, Places
  <2>2. ctx' \in [job : Jobs \cup {NoJob}, turn : Turns \cup {NoTurn}]
    BY <1>1, <1>19, <2>1, HandIsThere DEF BindTurn, ThreadsTypeOK
  <2> QED BY <1>4, <1>6, <2>1, <2>2 DEF Places
<1>20. CASE AssignTheTurn
  <2>1. sched # Idle /\ Calmly /\ Goes("assigned") /\ UNCHANGED ctx
    BY <1>20, NotIdle DEF AssignTheTurn, Places
  <2>2. JobsTypeOK'
    BY <1>1, <1>20, <2>1, HandIsThere, AssignRow DEF AssignTheTurn
  <2> QED BY <1>1, <1>6, <2>1, <2>2 DEF Places, ThreadsTypeOK
<1>21. CASE AssignFails
  <2>1. sched # Idle /\ sched' = Idle /\ Calmly /\ UNCHANGED ctx
    BY <1>21, NotIdle DEF AssignFails, Places
  <2>2. JobsTypeOK'
    BY <1>2, <1>21, <2>1 DEF AssignFails
  <2> QED BY <1>1, <2>1, <2>2 DEF RunnerTypeOK, ThreadsTypeOK, AppTypeOK, Calmly, appVars
<1>22. CASE FlushTurnEvents
  <2>1. sched # Idle
    BY <1>22, NotIdle DEF FlushTurnEvents, Places
  <2>2. TurnOf(J) \in Turns
    BY <1>1, <2>1, HandIsThere
  <2>3. EndLast(buffer[TurnOf(J)]) = buffer[TurnOf(J)]
    BY <1>1, <2>2, EndLastFacts DEF ThreadsTypeOK, RunnerInv, EndComesLast
  <2>4. replay' \in Seq(EventRow)
    BY <1>1, <1>22, <2>2, <2>3 DEF FlushTurnEvents, ThreadsTypeOK
  <2>5. buffer' \in [Turns -> Seq(EventRow)]
    BY <1>1, <1>22, <2>2, EmptySeq DEF FlushTurnEvents, ThreadsTypeOK
  <2>6. sched' \in {Idle} \cup [at : Places, job : Jobs]
    BY <1>1, <1>22, <2>1, GoesOn DEF FlushTurnEvents, Places
  <2> QED BY <1>1, <1>4, <1>22, <2>4, <2>5, <2>6
          DEF FlushTurnEvents, RunnerTypeOK, ThreadsTypeOK, AppTypeOK, appVars
<1>23. CASE ReplayEvent
  <2> DEFINE e == Head(replay)
  <2>1. replay # << >>
    BY <1>23 DEF ReplayEvent, RunnerInv, ThreadsAgree
  <2>2. e \in EventRow /\ Tail(replay) \in Seq(EventRow)
    BY <1>1, <2>1, TailFacts DEF ThreadsTypeOK
  <2>3. JobsTypeOK'
    <3>1. CASE Holds(e.turn)
      BY <1>1, <1>23, <2>2, <3>1, ReportRow DEF ReplayEvent
    <3>2. CASE ~ Holds(e.turn)
      BY <1>4, <1>23, <3>2 DEF ReplayEvent
    <3> QED BY <3>1, <3>2
  <2>4. ctx' \in [job : Jobs \cup {NoJob}, turn : Turns \cup {NoTurn}]
    BY <1>1, <1>23 DEF ReplayEvent, EndTurn, ThreadsTypeOK, NoContext
  <2> QED BY <1>1, <1>23, <2>2, <2>3, <2>4
          DEF ReplayEvent, RunnerTypeOK, ThreadsTypeOK, AppTypeOK, appVars
<1> QED BY <1>7, <1>8, <1>9, <1>10, <1>11, <1>12, <1>13, <1>14, <1>15, <1>16, <1>17, <1>18,
           <1>19, <1>20, <1>21, <1>22, <1>23 DEF SchedulerStep

(* An event is kept in its turn's buffer, or dropped.                         *)
LEMMA KeptThere ==
    ASSUME ThreadsTypeOK, NEW e \in EventRow, Keep(e)
    PROVE  /\ buffer' \in [Turns -> Seq(EventRow)] /\ e.turn \in Turns
           /\ \/ /\ buffer' = [buffer EXCEPT ![e.turn] = Append(buffer[e.turn], e)]
                 /\ lost' = lost
              \/ buffer' = buffer /\ lost' = lost \cup {e.turn}
<1>1. e.turn \in Turns
  BY DEF EventRow
<1>2. buffer[e.turn] \in Seq(EventRow)
  BY <1>1 DEF ThreadsTypeOK
<1>3. Append(buffer[e.turn], e) \in Seq(EventRow)
  BY <1>2, AppendFacts
<1>4. CASE Len(buffer[e.turn]) < BufferCap
  <2>1. /\ buffer' = [buffer EXCEPT ![e.turn] = Append(buffer[e.turn], e)]
        /\ lost' = lost
    BY <1>4 DEF Keep
  <2>2. buffer' \in [Turns -> Seq(EventRow)]
    BY <1>1, <1>3, <2>1 DEF ThreadsTypeOK
  <2> QED BY <1>1, <2>1, <2>2
<1>5. CASE ~ Len(buffer[e.turn]) < BufferCap
  <2>1. buffer' = buffer /\ lost' = lost \cup {e.turn}
    BY <1>5 DEF Keep
  <2> QED BY <1>1, <2>1 DEF ThreadsTypeOK
<1> QED BY <1>4, <1>5

(* The reader's steps.                                                        *)
LEMMA TypesOfReader ==
    ASSUME RunnerInv, ReaderStep
    PROVE  RunnerTypeOK'
<1>1. JobsTypeOK /\ ThreadsTypeOK /\ AppTypeOK /\ RunnerTypeOK
  BY DEF RunnerInv, RunnerTypeOK
<1>2. ASSUME wire # << >>
      PROVE  Head(wire) \in EventRow /\ Tail(wire) \in Seq(EventRow)
  BY <1>1, <1>2, TailFacts DEF AppTypeOK
<1>3. ASSUME UNCHANGED jobVars
      PROVE  JobsTypeOK'
  BY <1>1, <1>3 DEF JobsTypeOK, jobVars
<1>4. ASSUME reader.at \in ReaderPlaces
      PROVE  reader \in [at : ReaderPlaces, event : EventRow] /\ reader.event \in EventRow
  <2>1. reader \in {Idle} \cup [at : ReaderPlaces, event : EventRow]
    BY <1>1 DEF ThreadsTypeOK
  <2>2. reader # Idle
    BY <1>4 DEF ReaderPlaces, Idle
  <2> QED BY <2>1, <2>2
<1>5. CASE ReadReport
  <2> DEFINE e == Head(wire)
  <2>1. e \in EventRow /\ Tail(wire) \in Seq(EventRow)
    BY <1>2, <1>5 DEF ReadReport
  <2>2. CASE Holds(e.turn)
    <3>1. JobsTypeOK'
      BY <1>1, <1>5, <2>1, <2>2, ReportRow DEF ReadReport
    <3> QED BY <1>1, <1>5, <2>1, <2>2, <3>1
            DEF ReadReport, RunnerTypeOK, ThreadsTypeOK, AppTypeOK
  <2>3. CASE ~ Holds(e.turn)
    <3>1. JobsTypeOK'
      BY <1>3, <1>5, <2>3 DEF ReadReport
    <3>2. reader' = [at |-> IF e.kind = "text" THEN "half_missed" ELSE "missed", event |-> e]
      BY <1>5, <2>3 DEF ReadReport
    <3>3. (IF e.kind = "text" THEN "half_missed" ELSE "missed") \in ReaderPlaces
      BY DEF ReaderPlaces
    <3>4. reader' \in [at : ReaderPlaces, event : EventRow]
      BY <2>1, <3>2, <3>3
    <3> QED BY <1>1, <1>5, <2>1, <3>1, <3>4
            DEF ReadReport, RunnerTypeOK, ThreadsTypeOK, AppTypeOK
  <2> QED BY <2>2, <2>3
<1>6. CASE ObserveMissedText
  <2>1. reader \in [at : ReaderPlaces, event : EventRow] /\ reader.event \in EventRow
    BY <1>4, <1>6 DEF ObserveMissedText, ReaderPlaces
  <2>2. JobsTypeOK'
    <3>1. CASE Holds(reader.event.turn)
      <4> DEFINE e == [reader.event EXCEPT !.kind = "activity"]
      <4>1. e \in EventRow /\ e.turn = reader.event.turn /\ e.kind = "activity"
        BY <2>1 DEF EventRow, Reports
      <4>2. Apply(e)
        BY <1>6, <3>1, <4>1 DEF ObserveMissedText, Apply
      <4> QED BY <1>1, <3>1, <4>1, <4>2, ReportRow
    <3>2. CASE ~ Holds(reader.event.turn)
      BY <1>3, <1>6, <3>2 DEF ObserveMissedText
    <3> QED BY <3>1, <3>2
  <2>3. reader' \in [at : ReaderPlaces, event : EventRow]
    BY <1>6, <2>1 DEF ObserveMissedText, ReaderPlaces
  <2> QED BY <1>1, <1>6, <2>2, <2>3
          DEF ObserveMissedText, RunnerTypeOK, ThreadsTypeOK, AppTypeOK, appVars
<1>7. CASE ReadEnd
  <2> DEFINE e == Head(wire)
  <2>1. e \in EventRow /\ Tail(wire) \in Seq(EventRow)
    BY <1>2, <1>7 DEF ReadEnd
  <2>2. buffer' \in [Turns -> Seq(EventRow)]
    BY <1>1, <1>7, <2>1, KeptThere DEF ReadEnd, ThreadsTypeOK
  <2>3. reader' \in {Idle} \cup [at : ReaderPlaces, event : EventRow]
    <3>1. reader' = reader \/ reader' = [at |-> "ending", event |-> e]
      BY <1>7 DEF ReadEnd
    <3> QED BY <1>1, <2>1, <3>1 DEF ThreadsTypeOK, ReaderPlaces
  <2>4. ctx' \in [job : Jobs \cup {NoJob}, turn : Turns \cup {NoTurn}]
    BY <1>1, <1>7 DEF ReadEnd, EndTurn, ThreadsTypeOK, NoContext
  <2> QED BY <1>1, <1>3, <1>7, <2>1, <2>2, <2>3, <2>4
          DEF ReadEnd, RunnerTypeOK, ThreadsTypeOK, AppTypeOK
<1>8. CASE CompleteRead
  <2>1. reader \in [at : ReaderPlaces, event : EventRow] /\ reader.event \in EventRow
    BY <1>4, <1>8 DEF CompleteRead, ReaderPlaces
  <2>2. CASE Holds(reader.event.turn)
    <3>1. JobsTypeOK'
      BY <1>1, <1>8, <2>1, <2>2, ReportRow DEF CompleteRead
    <3> QED BY <1>1, <1>8, <2>2, <3>1
            DEF CompleteRead, RunnerTypeOK, ThreadsTypeOK, AppTypeOK, appVars
  <2>3. CASE ~ Holds(reader.event.turn)
    <3>1. JobsTypeOK'
      BY <1>3, <1>8, <2>3 DEF CompleteRead
    <3>2. reader' \in [at : ReaderPlaces, event : EventRow]
      BY <1>8, <2>1, <2>3 DEF CompleteRead, ReaderPlaces
    <3> QED BY <1>1, <1>8, <3>1, <3>2
            DEF CompleteRead, RunnerTypeOK, ThreadsTypeOK, AppTypeOK, appVars
  <2> QED BY <2>2, <2>3
<1>9. CASE BufferEvent
  <2>1. reader.event \in EventRow
    BY <1>4, <1>9 DEF BufferEvent, ReaderPlaces
  <2>2. buffer' \in [Turns -> Seq(EventRow)]
    BY <1>1, <1>9, <2>1, KeptThere DEF BufferEvent
  <2> QED BY <1>1, <1>3, <1>9, <2>2
          DEF BufferEvent, RunnerTypeOK, ThreadsTypeOK, AppTypeOK, appVars
<1> QED BY <1>5, <1>6, <1>7, <1>8, <1>9 DEF ReaderStep

(* The app-server's steps, and a stop.                                        *)
LEMMA TypesOfAppServer ==
    ASSUME RunnerInv, AppServerStep \/ Restart
    PROVE  RunnerTypeOK'
<1>1. JobsTypeOK /\ ThreadsTypeOK /\ AppTypeOK /\ RunnerTypeOK /\ SchedulerAgrees
  BY DEF RunnerInv, RunnerTypeOK
<1>2. ASSUME UNCHANGED jobVars, UNCHANGED threadVars, AppTypeOK'
      PROVE  RunnerTypeOK'
  BY <1>1, <1>2 DEF RunnerTypeOK, JobsTypeOK, ThreadsTypeOK, jobVars, threadVars
<1>3. Gone \in [Turns -> TurnRow]
  BY <1>1 DEF Gone, AppTypeOK, TurnRow
<1>4. ASSUME NEW t \in Turns, StartTurn(t)
      PROVE  RunnerTypeOK'
  <2>1. turn' \in [Turns -> TurnRow]
    BY <1>1, <1>4 DEF StartTurn, AppTypeOK, TurnRow
  <2>2. sched' \in {Idle} \cup [at : Places, job : Jobs]
    BY <1>1, <1>4, NotIdle, GoesOn DEF StartTurn, ThreadsTypeOK, Places
  <2> QED BY <1>1, <1>4, <2>1, <2>2
          DEF StartTurn, RunnerTypeOK, JobsTypeOK, ThreadsTypeOK, AppTypeOK, jobVars
<1>5. ASSUME NEW t \in Turns, Report(t)
      PROVE  RunnerTypeOK'
  <2>1. PICK k \in TurnReports : /\ turn' = [turn EXCEPT ![t].sent = @ \cup {k}]
                                 /\ wire' = Append(wire, Event(t, k))
    BY <1>5 DEF Report
  <2>2. k \in Reports
    BY ReportsAssumption
  <2>3. Event(t, k) \in EventRow
    BY <2>2 DEF Event, EventRow
  <2>4. wire' \in Seq(EventRow)
    BY <1>1, <2>1, <2>3, AppendFacts DEF AppTypeOK
  <2>5. turn' \in [Turns -> TurnRow]
    BY <1>1, <2>1, <2>2 DEF AppTypeOK, TurnRow
  <2> QED BY <1>2, <1>5, <2>4, <2>5 DEF Report, AppTypeOK
<1>6. ASSUME NEW t \in Turns, FinishTurn(t)
      PROVE  RunnerTypeOK'
  <2>1. PICK e \in TurnEndings :
            /\ turn' = [turn EXCEPT ![t].at = "over", ![t].status = e.status]
            /\ wire' = Append(wire, EndOf(t, e))
    BY <1>6 DEF FinishTurn
  <2>2. e \in Endings
    BY ServiceAssumption
  <2>3. EndOf(t, e) \in EventRow
    BY <2>2 DEF EndOf, EventRow
  <2>4. wire' \in Seq(EventRow)
    BY <1>1, <2>1, <2>3, AppendFacts DEF AppTypeOK
  <2>5. turn' \in [Turns -> TurnRow]
    BY <1>1, <2>1, <2>2 DEF AppTypeOK, TurnRow, Endings
  <2> QED BY <1>2, <1>6, <2>4, <2>5 DEF FinishTurn, AppTypeOK
<1>7. ASSUME NEW t \in Turns, NEW c \in Callers, CallCarTool(t, c)
      PROVE  RunnerTypeOK'
  <2>1. turn' \in [Turns -> TurnRow] /\ wire' = wire
    BY <1>1, <1>7 DEF CallCarTool, AppTypeOK, TurnRow, Reports
  <2> QED BY <1>1, <1>2, <1>7, <2>1 DEF CallCarTool, AppTypeOK
<1>8. ASSUME NEW c \in Callers, CarryOut(c)
      PROVE  RunnerTypeOK'
  BY <1>1, <1>2, <1>8 DEF CarryOut, AppTypeOK, serviceVars, appVars
<1>9. CASE ServerExits
  BY <1>1, <1>2, <1>3, <1>9 DEF ServerExits, AppTypeOK
<1>10. CASE Restart
  <2>1. JobsTypeOK'
    BY <1>1, <1>10, RecoveredRows DEF Restart
  <2>2. << >> \in Seq(EventRow)
    BY EmptySeq
  <2> QED BY <1>3, <1>10, <2>1, <2>2
          DEF Restart, RunnerTypeOK, ThreadsTypeOK, AppTypeOK, NoContext
<1> QED BY <1>4, <1>5, <1>6, <1>7, <1>8, <1>9, <1>10 DEF AppServerStep

(* Every step keeps the types.                                                *)
LEMMA RunnerTypes ==
    ASSUME RunnerInv, [Next]_vars
    PROVE  RunnerTypeOK'
<1>1. CASE UNCHANGED vars
  BY <1>1 DEF RunnerInv, RunnerTypeOK, JobsTypeOK, ThreadsTypeOK, AppTypeOK, vars, jobVars,
              serviceVars, threadVars, appVars
<1>2. CASE TimeStep
  <2>1. PICK j \in Jobs : TRUE
    BY <1>2 DEF TimeStep
  <2> QED BY <1>2, TypesOfQueue
<1>3. CASE \E j \in Jobs : Submit(j) \/ Admin(j)
  BY <1>3, TypesOfQueue
<1> QED BY <1>1, <1>2, <1>3, TypesOfScheduler, TypesOfReader, TypesOfAppServer DEF Next

-----------------------------------------------------------------------------
(* Rows and turns agree.                                                      *)

RowsInv == OneIsBusy /\ RowsAgree /\ TurnsAgree /\ OutcomeOfItsTurn

(* The turns of two jobs are never the same.                                  *)
LEMMA TurnsDiffer ==
    /\ \A j \in Jobs : TurnOf(j)[1] = j /\ TurnOf(j)[2] = job[j].attempt
    /\ \A t \in Turns : t[1] \in Jobs /\ t[2] \in 1 .. MaxAttempts /\ t = <<t[1], t[2]>>
BY DEF TurnOf, Turns

(* A running job goes on, ends or is queued again.                            *)
LEMMA RowMoves ==
    ASSUME RunnerInv, JobsTypeOK', NEW j \in Jobs, In(j, {"running"}),
           NEW s \in ActiveStates \cup FinalStates, NEW b \in BOOLEAN, Moves(j, s, b),
           \A t \in Turns : \/ turn'[t] = turn[t]
                            \/ /\ t = TurnOf(j) /\ b = FALSE
                               /\ turn'[t].at = "none" /\ turn'[t].sent = {},
           s = "queued" => /\ b = FALSE /\ job[j].attempt < MaxAttempts
                           /\ turn'[TurnOf(j)].at \notin {"asked", "live"},
           b = TRUE => job[j].intent.kind = "turn" /\ turn[TurnOf(j)].at \in Started,
           s \in FinalStates /\ job[j].intent.kind = "turn" =>
              IF b = TRUE THEN /\ turn[TurnOf(j)].at = "over"
                               /\ EndState(turn[TurnOf(j)]) = s
                          ELSE s = "failed" /\ turn'[TurnOf(j)].at \in {"none", "dead"}
    PROVE  RowsInv'
<1>1. /\ JobsTypeOK /\ OneIsBusy /\ RowsAgree /\ TurnsAgree /\ OutcomeOfItsTurn
  BY DEF RunnerInv, RunnerTypeOK
<1>2. /\ job[j] \in JobRow /\ job'[j] \in JobRow /\ job[j].state = "running"
      /\ job'[j].state = s /\ job'[j].bound = b
      /\ job'[j].intent = job[j].intent /\ job'[j].attempt = job[j].attempt
      /\ job'[j].reviewed = job[j].reviewed
      /\ \A k \in Jobs \ {j} : job'[k] = job[k]
  BY DEF Moves, OnlyRow, In
<1>3. job[j].reviewed = FALSE /\ job[j].attempt # 0 /\ job[j] # NoRow /\ job'[j] # NoRow
  BY <1>1, <1>2, RowThere DEF RowsAgree, JobRow, FinalStates
<1>4. TurnOf(j) \in Turns
  BY <1>2, <1>3, JobsAssumption DEF TurnOf, Turns, JobRow
<1>5. \A k \in Jobs : TurnOf(k)' = TurnOf(k)
  BY <1>2 DEF TurnOf
<1>6. \A k \in Jobs \ {j} : TurnOf(k) \in Turns => turn'[TurnOf(k)] = turn[TurnOf(k)]
  BY TurnsDiffer
<1>7. b = TRUE => turn'[TurnOf(j)] = turn[TurnOf(j)]
  BY <1>4
<1>8. \A k \in Jobs : job[k] # NoRow /\ job[k].attempt # 0 => TurnOf(k) \in Turns
  BY <1>1, RowThere, JobsAssumption DEF TurnOf, Turns, JobRow
<1>9. OneIsBusy'
  BY <1>1, <1>2 DEF OneIsBusy, In, Busy
<1>10. RowsAgree'
  <2> SUFFICES ASSUME NEW k \in Jobs, job'[k] # NoRow
               PROVE  /\ job'[k].state = "queued" => ~ job'[k].bound /\ job'[k].attempt < MaxAttempts
                      /\ job'[k].state # "queued" => job'[k].attempt # 0
                      /\ job'[k].reviewed => job'[k].state \in FinalStates
                      /\ job'[k].bound => /\ job'[k].intent.kind = "turn"
                                          /\ turn'[TurnOf(k)'].at \in Started
    BY DEF RowsAgree
  <2>1. CASE k = j
    BY <1>2, <1>3, <1>5, <1>7, <2>1
  <2>2. CASE k # j
    <3>1. job'[k] = job[k] /\ job[k] # NoRow /\ TurnOf(k)' = TurnOf(k)
      BY <1>2, <1>5, <2>2
    <3>2. job[k].bound => job[k].attempt # 0 /\ turn'[TurnOf(k)] = turn[TurnOf(k)]
      BY <1>1, <1>6, <1>8, <2>2, <3>1 DEF RowsAgree
    <3> QED BY <1>1, <3>1, <3>2 DEF RowsAgree
  <2> QED BY <2>1, <2>2
<1>11. TurnsAgree'
  <2> SUFFICES ASSUME NEW t \in Turns
               PROVE  /\ job'[t[1]] = NoRow \/ job'[t[1]].attempt < t[2] => turn'[t] = Unasked
                      /\ turn'[t].at \in {"none", "asked"} => turn'[t].sent = {}
                      /\ turn'[t].at \in {"asked", "live"} =>
                            /\ job'[t[1]] # NoRow /\ t = TurnOf(t[1])'
                            /\ ~ In(t[1], {"queued"})'
                            /\ job'[t[1]].intent.kind = "turn"
    BY DEF TurnsAgree
  <2>1. t[1] \in Jobs /\ t[2] \in 1 .. MaxAttempts
    BY TurnsDiffer
  <2>2. CASE t[1] = j
    <3>1. job'[t[1]] = NoRow \/ job'[t[1]].attempt < t[2] => turn'[t] = Unasked
      <4> SUFFICES ASSUME job[j].attempt < t[2]
                   PROVE  turn'[t] = Unasked
        BY <1>2, <1>3, <2>2
      <4>1. t # TurnOf(j)
        BY <1>2, <2>1, TurnsDiffer DEF JobRow
      <4> QED BY <1>1, <2>2, <4>1 DEF TurnsAgree
    <3>2. turn'[t].at \in {"asked", "live"} => turn'[t] = turn[t]
      OBVIOUS
    <3>3. turn'[t].at \in {"asked", "live"} => t = TurnOf(j) /\ s # "queued"
      BY <1>1, <2>2, <3>2 DEF TurnsAgree
    <3> QED BY <1>1, <1>2, <1>3, <1>5, <2>2, <3>1, <3>2, <3>3 DEF TurnsAgree, In
  <2>3. CASE t[1] # j
    <3>1. turn'[t] = turn[t] /\ job'[t[1]] = job[t[1]] /\ TurnOf(t[1])' = TurnOf(t[1])
      BY <1>2, <1>5, <2>1, <2>3, TurnsDiffer
    <3> QED BY <1>1, <3>1 DEF TurnsAgree, In
  <2> QED BY <2>2, <2>3
<1>12. OutcomeOfItsTurn'
  <2> SUFFICES ASSUME NEW k \in Jobs, job'[k].state \in FinalStates, ~ job'[k].reviewed,
                      job'[k].intent.kind = "turn"
               PROVE  IF job'[k].bound
                      THEN turn'[TurnOf(k)'].at = "over"
                           /\ EndState(turn'[TurnOf(k)']) = job'[k].state
                      ELSE job'[k].state = "failed" /\ turn'[TurnOf(k)'].at \in {"none", "dead"}
    BY DEF OutcomeOfItsTurn, In
  <2>1. CASE k = j
    BY <1>2, <1>5, <1>7, <2>1
  <2>2. CASE k # j
    <3>1. job'[k] = job[k] /\ TurnOf(k)' = TurnOf(k)
      BY <1>2, <1>5, <2>2
    <3>2. job[k] # NoRow /\ job[k].attempt # 0
      BY <1>1, <3>1, RowThere DEF RowsAgree, FinalStates
    <3>3. turn'[TurnOf(k)] = turn[TurnOf(k)]
      BY <1>6, <1>8, <2>2, <3>2
    <3> QED BY <1>1, <3>1, <3>3 DEF OutcomeOfItsTurn, In
  <2> QED BY <2>1, <2>2
<1> QED BY <1>9, <1>10, <1>11, <1>12 DEF RowsInv

(* A row stays as it is, but for what the scheduler does not look at, or is   *)
(* left to a person or decided by one.                                        *)
Stays(k) ==
    \/ job'[k] = job[k]
    \/ /\ job[k] \in JobRow /\ job'[k] \in JobRow
       /\ job'[k].bound = job[k].bound /\ job'[k].intent = job[k].intent
       /\ job'[k].attempt = job[k].attempt
       /\ \/ job'[k].state = job[k].state /\ job'[k].reviewed = job[k].reviewed
          \/ /\ job[k].state = "running" /\ job'[k].state = "recovery_required"
             /\ job'[k].reviewed = job[k].reviewed
          \/ /\ job[k].state = "recovery_required" /\ job'[k].state \in FinalStates
             /\ job'[k].reviewed = TRUE

(* A turn goes on: it is asked for by the job that runs, or was already.      *)
GoesOnTurn(t) ==
    \/ turn'[t] = turn[t]
    \/ /\ \/ turn[t].at \in {"asked", "live"}
          \/ /\ turn[t].at = "none" /\ In(t[1], {"running"}) /\ t = TurnOf(t[1])
             /\ job[t[1]].intent.kind = "turn" /\ job'[t[1]] = job[t[1]]
       /\ turn'[t].at \in {"asked", "live", "over", "dead"}
       /\ turn'[t].at = "asked" => turn'[t].sent = {}
       /\ turn[t].at = "live" => turn'[t].at \in Started

LEMMA RowsStay ==
    ASSUME RunnerInv, \A k \in Jobs : Stays(k), \A t \in Turns : GoesOnTurn(t)
    PROVE  RowsInv'
<1>1. /\ JobsTypeOK /\ OneIsBusy /\ RowsAgree /\ TurnsAgree /\ OutcomeOfItsTurn
  BY DEF RunnerInv, RunnerTypeOK
<1>2. \A k \in Jobs : (job'[k] = NoRow) <=> (job[k] = NoRow)
  BY RowThere, <1>1 DEF Stays
<1>3. \A k \in Jobs : TurnOf(k)' = TurnOf(k)
  BY DEF TurnOf, Stays
<1>4. \A k \in Jobs : job[k] # NoRow /\ job[k].attempt # 0 => TurnOf(k) \in Turns
  BY <1>1, RowThere, JobsAssumption DEF TurnOf, Turns, JobRow
<1>5. \A k \in Jobs : job'[k].state \in Busy => job[k].state \in Busy
  BY DEF Stays, Busy, FinalStates
<1>6. OneIsBusy'
  BY <1>1, <1>5 DEF OneIsBusy, In
<1>7. RowsAgree'
  <2> SUFFICES ASSUME NEW k \in Jobs, job'[k] # NoRow
               PROVE  /\ job'[k].state = "queued" => ~ job'[k].bound /\ job'[k].attempt < MaxAttempts
                      /\ job'[k].state # "queued" => job'[k].attempt # 0
                      /\ job'[k].reviewed => job'[k].state \in FinalStates
                      /\ job'[k].bound => /\ job'[k].intent.kind = "turn"
                                          /\ turn'[TurnOf(k)'].at \in Started
    BY DEF RowsAgree
  <2>1. job[k] # NoRow /\ Stays(k)
    BY <1>2
  <2>2. job[k].bound => turn[TurnOf(k)].at \in Started /\ TurnOf(k) \in Turns
    BY <1>1, <1>4, <2>1 DEF RowsAgree
  <2>3. job[k].bound => turn'[TurnOf(k)].at \in Started
    BY <2>2 DEF GoesOnTurn, Started
  <2>4. job'[k].bound = job[k].bound /\ job'[k].intent = job[k].intent
        /\ job'[k].attempt = job[k].attempt
    BY <2>1 DEF Stays
  <2>5. job'[k].state = "queued" <=> job[k].state = "queued"
    BY <2>1 DEF Stays, FinalStates
  <2>6. job'[k].reviewed => job'[k].state \in FinalStates
    BY <1>1, <2>1 DEF Stays, RowsAgree, FinalStates
  <2> QED BY <1>1, <1>3, <2>1, <2>3, <2>4, <2>5, <2>6 DEF RowsAgree
<1>8. TurnsAgree'
  <2> SUFFICES ASSUME NEW t \in Turns
               PROVE  /\ job'[t[1]] = NoRow \/ job'[t[1]].attempt < t[2] => turn'[t] = Unasked
                      /\ turn'[t].at \in {"none", "asked"} => turn'[t].sent = {}
                      /\ turn'[t].at \in {"asked", "live"} =>
                            /\ job'[t[1]] # NoRow /\ t = TurnOf(t[1])'
                            /\ ~ In(t[1], {"queued"})'
                            /\ job'[t[1]].intent.kind = "turn"
    BY DEF TurnsAgree
  <2>1. t[1] \in Jobs /\ t[2] \in 1 .. MaxAttempts /\ Stays(t[1]) /\ GoesOnTurn(t)
    BY TurnsDiffer
  <2>2. job[t[1]] = NoRow \/ job[t[1]].attempt < t[2] => turn'[t] = turn[t]
    <3>1. SUFFICES ASSUME job[t[1]] = NoRow \/ job[t[1]].attempt < t[2]
                   PROVE  turn'[t] = turn[t]
      OBVIOUS
    <3>2. turn[t] = Unasked
      BY <1>1, <3>1 DEF TurnsAgree
    <3>3. t # TurnOf(t[1]) \/ ~ In(t[1], {"running"})
      <4>1. CASE job[t[1]] = NoRow
        BY <4>1 DEF In, NoRow
      <4>2. CASE job[t[1]] # NoRow /\ job[t[1]].attempt < t[2]
        BY <1>1, <2>1, <4>2, RowThere, TurnsDiffer DEF JobRow
      <4> QED BY <3>1, <4>1, <4>2
    <3> QED BY <2>1, <3>2, <3>3 DEF GoesOnTurn, Unasked
  <2>3. job'[t[1]] # NoRow => job'[t[1]].attempt = job[t[1]].attempt
    BY <2>1 DEF Stays
  <2>4. turn'[t].at \in {"asked", "live"} =>
            /\ job[t[1]] # NoRow /\ t = TurnOf(t[1]) /\ ~ In(t[1], {"queued"})
            /\ job[t[1]].intent.kind = "turn"
    <3>1. In(t[1], {"running"}) => job[t[1]] # NoRow /\ ~ In(t[1], {"queued"})
      BY <1>1, <2>1, RowThere DEF In, ActiveStates
    <3> QED BY <1>1, <2>1, <3>1 DEF GoesOnTurn, TurnsAgree
  <2>5. ~ In(t[1], {"queued"}) => ~ In(t[1], {"queued"})'
    BY <2>1 DEF Stays, In, FinalStates
  <2>6. job'[t[1]].intent = job[t[1]].intent
    BY <2>1 DEF Stays
  <2>7. turn'[t].at \in {"none", "asked"} => turn'[t].sent = {}
    BY <1>1, <2>1 DEF GoesOnTurn, TurnsAgree
  <2> QED BY <1>1, <1>2, <1>3, <2>1, <2>2, <2>3, <2>4, <2>5, <2>6, <2>7 DEF TurnsAgree
<1>9. OutcomeOfItsTurn'
  <2> SUFFICES ASSUME NEW k \in Jobs, job'[k].state \in FinalStates, ~ job'[k].reviewed,
                      job'[k].intent.kind = "turn"
               PROVE  IF job'[k].bound
                      THEN turn'[TurnOf(k)'].at = "over"
                           /\ EndState(turn'[TurnOf(k)']) = job'[k].state
                      ELSE job'[k].state = "failed" /\ turn'[TurnOf(k)'].at \in {"none", "dead"}
    BY DEF OutcomeOfItsTurn, In
  <2>1. job'[k].state = job[k].state /\ job'[k].reviewed = job[k].reviewed
        /\ job'[k].bound = job[k].bound /\ job'[k].intent = job[k].intent
    BY DEF Stays, FinalStates
  <2>2. job[k] # NoRow /\ job[k].attempt # 0 /\ TurnOf(k) \in Turns
    BY <1>1, <1>4, <2>1, RowThere DEF RowsAgree, FinalStates
  <2>3. IF job[k].bound THEN turn[TurnOf(k)].at = "over"
                             /\ EndState(turn[TurnOf(k)]) = job[k].state
        ELSE job[k].state = "failed" /\ turn[TurnOf(k)].at \in {"none", "dead"}
    BY <1>1, <2>1 DEF OutcomeOfItsTurn, In
  <2>4. turn'[TurnOf(k)] = turn[TurnOf(k)]
    <3>1. ~ In(k, {"running"}) /\ TurnOf(k)[1] = k
      BY <2>1, TurnsDiffer DEF In, FinalStates
    <3> QED BY <2>2, <2>3, <3>1 DEF GoesOnTurn
  <2> QED BY <1>3, <2>1, <2>3, <2>4
<1> QED BY <1>6, <1>7, <1>8, <1>9 DEF RowsInv

(* A new row, and a claimed one.                                              *)
LEMMA RowsBegin ==
    ASSUME RunnerInv, JobsTypeOK', NEW j \in Jobs, turn' = turn,
           \A k \in Jobs \ {j} : job'[k] = job[k],
           job'[j] \in JobRow, job'[j].bound = FALSE, job'[j].reviewed = FALSE,
           \/ job[j] = NoRow /\ job'[j].state = "queued" /\ job'[j].attempt = 0
           \/ /\ job[j] \in JobRow /\ job'[j].state = "running"
              /\ job'[j].attempt = job[j].attempt + 1 /\ job'[j].intent = job[j].intent
              /\ \A k \in Jobs : ~ In(k, Busy)
              /\ In(j, {"queued"})
    PROVE  RowsInv'
<1>1. /\ JobsTypeOK /\ OneIsBusy /\ RowsAgree /\ TurnsAgree /\ OutcomeOfItsTurn
  BY DEF RunnerInv, RunnerTypeOK
<1>2. job'[j] # NoRow
  BY <1>1, RowThere
<1>3. \A k \in Jobs \ {j} : TurnOf(k)' = TurnOf(k)
  BY DEF TurnOf
<1>4. OneIsBusy'
  BY <1>1 DEF OneIsBusy, In, Busy
<1>5. RowsAgree'
  <2>1. job'[j].state = "queued" => job'[j].attempt < MaxAttempts
    BY JobsAssumption
  <2>2. job'[j].state # "queued" => job'[j].attempt # 0
    BY DEF JobRow
  <2> QED BY <1>1, <1>3, <2>1, <2>2 DEF RowsAgree
<1>6. TurnsAgree'
  <2> SUFFICES ASSUME NEW t \in Turns
               PROVE  /\ job'[t[1]] = NoRow \/ job'[t[1]].attempt < t[2] => turn[t] = Unasked
                      /\ turn[t].at \in {"none", "asked"} => turn[t].sent = {}
                      /\ turn[t].at \in {"asked", "live"} =>
                            /\ job'[t[1]] # NoRow /\ t = TurnOf(t[1])'
                            /\ ~ In(t[1], {"queued"})'
                            /\ job'[t[1]].intent.kind = "turn"
    BY DEF TurnsAgree
  <2>1. t[1] \in Jobs /\ t[2] \in 1 .. MaxAttempts
    BY TurnsDiffer
  <2>2. CASE t[1] = j
    <3>1. job'[j].attempt < t[2] => turn[t] = Unasked
      <4>1. CASE job[j] = NoRow
        BY <1>1, <2>2, <4>1 DEF TurnsAgree
      <4>2. CASE job[j] \in JobRow /\ job'[j].attempt = job[j].attempt + 1
        BY <1>1, <2>1, <2>2, <4>2 DEF TurnsAgree, JobRow
      <4> QED BY <4>1, <4>2
    <3>2. turn[t].at \notin {"asked", "live"}
      BY <1>1, <2>2 DEF TurnsAgree
    <3> QED BY <1>1, <1>2, <2>2, <3>1, <3>2 DEF TurnsAgree
  <2>3. CASE t[1] # j
    BY <1>1, <1>3, <2>1, <2>3 DEF TurnsAgree, In
  <2> QED BY <2>2, <2>3
<1>7. OutcomeOfItsTurn'
  BY <1>1, <1>3 DEF OutcomeOfItsTurn, In, FinalStates
<1> QED BY <1>4, <1>5, <1>6, <1>7 DEF RowsInv

(* The job in hand is done with: no turn was started.                         *)
LEMMA RowsStop ==
    ASSUME RunnerInv, sched # Idle, sched.at \in Places \ {"assigned", "replaying"},
           \A t \in Turns : \/ turn'[t] = turn[t]
                            \/ t = TurnOf(J) /\ turn'[t].at = "none" /\ turn'[t].sent = {},
           \/ CompleteDirect(J) /\ job[J].intent.kind # "turn"
           \/ FailClaimed(J, TRUE)
           \/ /\ FailClaimed(J, FALSE)
              /\ job[J].intent.kind = "turn" => turn'[TurnOf(J)].at \in {"none", "dead"}
           \/ RetryOverloaded(J) /\ turn'[TurnOf(J)].at = "none"
    PROVE  RowsInv' /\ \E s \in {"completed", "failed", "recovery_required", "queued"} :
                          Moves(J, s, FALSE)
<1>1. /\ RunnerTypeOK /\ JobsTypeOK /\ SchedulerAgrees
  BY DEF RunnerInv, RunnerTypeOK
<1>2. /\ J \in Jobs /\ job[J] \in JobRow /\ In(J, {"running"})
      /\ job[J].bound = FALSE
  BY <1>1, HandIsThere DEF SchedulerAgrees, JobRow
<1>3. CASE CompleteDirect(J) /\ job[J].intent.kind # "turn"
  <2>1. JobsTypeOK' /\ Moves(J, "completed", FALSE)
    BY <1>1, <1>2, <1>3, DirectRow
  <2> QED BY <1>2, <1>3, <2>1, RowMoves DEF FinalStates, ActiveStates
<1>4. CASE FailClaimed(J, TRUE)
  <2>1. JobsTypeOK' /\ Moves(J, "recovery_required", FALSE)
    BY <1>1, <1>2, <1>4, FailRow
  <2> QED BY <1>2, <1>4, <2>1, RowMoves DEF FinalStates, ActiveStates
<1>5. CASE /\ FailClaimed(J, FALSE)
           /\ job[J].intent.kind = "turn" => turn'[TurnOf(J)].at \in {"none", "dead"}
  <2>1. JobsTypeOK' /\ Moves(J, "failed", FALSE)
    BY <1>1, <1>2, <1>5, FailRow
  <2> QED BY <1>2, <1>5, <2>1, RowMoves DEF FinalStates, ActiveStates
<1>6. CASE RetryOverloaded(J) /\ turn'[TurnOf(J)].at = "none"
  <2>1. JobsTypeOK'
    BY <1>1, <1>2, <1>6, OverloadRow
  <2>2. CASE Moves(J, "queued", FALSE) /\ job[J].attempt < MaxAttempts
    BY <1>2, <1>6, <2>1, <2>2, RowMoves DEF FinalStates, ActiveStates
  <2>3. CASE Moves(J, "failed", FALSE)
    BY <1>2, <1>6, <2>1, <2>3, RowMoves DEF FinalStates, ActiveStates
  <2> QED BY <1>1, <1>2, <1>6, <2>2, <2>3, OverloadRow
<1> QED BY <1>3, <1>4, <1>5, <1>6

(* What is reported of a turn on its way is applied.                          *)
LEMMA RowsReported ==
    ASSUME RunnerInv, turn' = turn, NEW e \in EventRow, Told(turn, e), Holds(e.turn), Apply(e)
    PROVE  /\ RowsInv'
           /\ e.turn[1] \in Jobs /\ e.turn = TurnOf(e.turn[1]) /\ In(e.turn[1], {"running"})
           /\ \E s \in {"running", "queued"} \cup FinalStates, b \in BOOLEAN :
                 /\ Moves(e.turn[1], s, b)
                 /\ s = "running" => b = TRUE
<1> DEFINE j == e.turn[1]
<1>1. JobsTypeOK /\ RowsAgree
  BY DEF RunnerInv, RunnerTypeOK
<1>2. /\ j \in Jobs /\ e.turn = TurnOf(j) /\ In(j, {"running"}) /\ job[j].bound = TRUE
      /\ JobsTypeOK'
      /\ Reported(j, e) \/ EndedIn(j, e) \/ EndedForRetry(j, e)
  BY <1>1, ReportRow
<1>3. job[j].intent.kind = "turn" /\ turn[TurnOf(j)].at \in Started
  BY <1>1, <1>2, RowThere DEF RowsAgree, In, ActiveStates
<1> HIDE DEF j
<1>4. CASE Reported(j, e)
  <2>1. Moves(j, "running", TRUE)
    BY <1>4 DEF Reported
  <2>2. RowsInv'
    BY <1>2, <1>3, <2>1, RowMoves DEF ActiveStates, FinalStates
  <2> QED BY <1>2, <2>1, <2>2 DEF j
<1>5. CASE EndedIn(j, e)
  <2>1. Moves(j, EndState(e.end), TRUE) /\ IsEnd(e)
    BY <1>5 DEF EndedIn
  <2>2. EndState(e.end) \in FinalStates
    BY DEF EndState, FinalStates
  <2>3. turn[TurnOf(j)].at = "over" /\ turn[TurnOf(j)].status = e.end.status
    BY <1>2, <2>1 DEF Told
  <2>4. EndState(turn[TurnOf(j)]) = EndState(e.end)
    BY <2>3 DEF EndState
  <2>5. RowsInv'
    BY <1>2, <1>3, <2>1, <2>2, <2>3, <2>4, RowMoves DEF FinalStates
  <2> QED BY <1>2, <2>1, <2>2, <2>5 DEF j, FinalStates
<1>6. CASE EndedForRetry(j, e)
  <2>1. Moves(j, "queued", FALSE) /\ IsEnd(e) /\ job[j].attempt < MaxAttempts
    BY <1>6 DEF EndedForRetry
  <2>2. turn[TurnOf(j)].at = "over"
    BY <1>2, <2>1 DEF Told
  <2>3. RowsInv'
    BY <1>2, <1>3, <2>1, <2>2, RowMoves DEF FinalStates, ActiveStates
  <2>4. \E s \in {"running", "queued"} \cup FinalStates, b \in BOOLEAN :
           Moves(j, s, b) /\ (s = "running" => b = TRUE)
    <3> WITNESS "queued" \in {"running", "queued"} \cup FinalStates, FALSE \in BOOLEAN
    <3> QED BY <2>1
  <2> QED BY <1>2, <2>3, <2>4 DEF j
<1> QED BY <1>2, <1>4, <1>5, <1>6

(* Nothing of rows and turns moves.                                           *)
LEMMA RowsSame ==
    ASSUME RunnerInv, job' = job, turn' = turn
    PROVE  RowsInv'
BY RowsStay DEF Stays, GoesOnTurn

(* The scheduler's steps.                                                     *)
LEMMA RowsOfScheduler ==
    ASSUME RunnerInv, RunnerTypeOK', SchedulerStep
    PROVE  RowsInv'
<1>1. /\ RunnerTypeOK /\ JobsTypeOK /\ ThreadsTypeOK /\ AppTypeOK /\ SchedulerAgrees
      /\ RowsAgree /\ JobsTypeOK'
  BY DEF RunnerInv, RunnerTypeOK
<1>2. ASSUME UNCHANGED jobVars
      PROVE  job' = job
  BY <1>2 DEF jobVars
<1>3. ASSUME Calmly
      PROVE  turn' = turn
  BY <1>3 DEF Calmly, appVars
<1>4. \A u \in BOOLEAN : u = TRUE \/ u = FALSE
  OBVIOUS
<1>5. ASSUME NEW place \in Places \ {"assigned", "replaying"}, At(place)
      PROVE  /\ sched # Idle /\ sched.at \in Places \ {"assigned", "replaying"}
             /\ J \in Jobs /\ TurnOf(J) \in Turns
  BY <1>1, <1>5, NotIdle, HandIsThere DEF At
<1>6. ASSUME At("claimed") \/ At("ready")
      PROVE  turn[TurnOf(J)].at = "none"
  BY <1>1, <1>6, NotIdle DEF SchedulerAgrees, At, Unasked, Places
<1>7. ASSUME NEW j \in Jobs, Claim(j)
      PROVE  RowsInv'
  <2>1. ClaimNext(j) /\ turn' = turn
    BY <1>7 DEF Claim, appVars
  <2>2. OnlyRow(j) /\ job[j].attempt + 1 = job'[j].attempt
    BY <1>1, <2>1, ClaimRow
  <2> QED BY <1>1, <2>1, <2>2, ClaimRow, RowsBegin DEF OnlyRow
<1>8. CASE NewThread
  BY <1>3, <1>4, <1>5, <1>6, <1>8, RowsStop DEF NewThread, Asks, Places
<1>9. CASE BeginJob
  <2>1. CASE ctx = NoContext
    BY <1>2, <1>3, <1>9, <2>1, RowsSame DEF BeginJob
  <2>2. CASE ctx # NoContext
    BY <1>3, <1>5, <1>6, <1>9, <2>2, RowsStop DEF BeginJob, Places
  <2> QED BY <2>1, <2>2
<1>10. CASE DirectTool
  BY <1>3, <1>5, <1>10, RowsStop DEF DirectTool, Asks, Places
<1>11. CASE AskForCar
  <2>1. CASE UNCHANGED jobVars
    BY <1>2, <1>3, <1>11, <2>1, RowsSame DEF AskForCar
  <2>2. CASE FailClaimed(J, FALSE)
    BY <1>3, <1>5, <1>6, <1>11, <2>2, RowsStop DEF AskForCar, Places
  <2> QED BY <1>11, <2>1, <2>2 DEF AskForCar
<1>12. CASE ConfirmCar
  <2>1. CASE UNCHANGED jobVars
    BY <1>2, <1>3, <1>12, <2>1, RowsSame DEF ConfirmCar
  <2>2. CASE FailClaimed(J, FALSE)
    BY <1>3, <1>5, <1>6, <1>12, <2>2, RowsStop DEF ConfirmCar, Places
  <2> QED BY <1>12, <2>1, <2>2 DEF ConfirmCar
<1>13. CASE ExecuteCar
  BY <1>2, <1>3, <1>13, RowsSame DEF ExecuteCar
<1>14. CASE TellResult
  <2>1. job[J].intent.kind # "turn"
    BY <1>1, <1>5, <1>14 DEF TellResult, SchedulerAgrees, At, Places
  <2> QED BY <1>3, <1>5, <1>14, <2>1, RowsStop DEF TellResult, Places
<1>15. CASE AskTurn
  <2>1. /\ sched # Idle /\ J \in Jobs /\ TurnOf(J) \in Turns /\ sched.at = "ready"
        /\ In(J, {"running"}) /\ job[J].intent.kind = "turn"
        /\ turn[TurnOf(J)] = Unasked
    BY <1>1, <1>5, <1>15 DEF AskTurn, SchedulerAgrees, At, Asks, Places
  <2>2. job' = job /\ turn' = [turn EXCEPT ![TurnOf(J)].at = "asked"]
    BY <1>2, <1>15 DEF AskTurn
  <2>3. turn'[TurnOf(J)] = [turn[TurnOf(J)] EXCEPT !.at = "asked"]
        /\ \A t \in Turns : t # TurnOf(J) => turn'[t] = turn[t]
    BY <1>1, <2>1, <2>2 DEF AppTypeOK
  <2>4. turn'[TurnOf(J)].at = "asked" /\ turn'[TurnOf(J)].sent = {}
        /\ turn[TurnOf(J)].at = "none"
    BY <2>1, <2>3 DEF Unasked
  <2>5. TurnOf(J)[1] = J
    BY <2>1, TurnsDiffer
  <2>6. \A t \in Turns : GoesOnTurn(t)
    BY <2>1, <2>2, <2>3, <2>4, <2>5 DEF GoesOnTurn
  <2> QED BY <2>2, <2>6, RowsStay DEF Stays
<1>16. CASE FailBeforeTurn
  BY <1>3, <1>4, <1>5, <1>6, <1>16, RowsStop DEF FailBeforeTurn, Places
<1>17. CASE TurnRejected
  <2>1. /\ sched # Idle /\ J \in Jobs /\ TurnOf(J) \in Turns
        /\ sched.at \in Places \ {"assigned", "replaying"}
        /\ turn[TurnOf(J)].at = "asked" /\ turn[TurnOf(J)].sent = {}
    BY <1>5, <1>17 DEF TurnRejected, Places, RunnerInv, TurnsAgree
  <2>2. turn'[TurnOf(J)] = [turn[TurnOf(J)] EXCEPT !.at = "none"]
        /\ \A t \in Turns : t # TurnOf(J) => turn'[t] = turn[t]
    BY <1>1, <1>17, <2>1 DEF TurnRejected, AppTypeOK
  <2>3. turn[TurnOf(J)] \in TurnRow
    BY <1>1, <2>1 DEF AppTypeOK
  <2>4. turn'[TurnOf(J)].at = "none" /\ turn'[TurnOf(J)].sent = {}
    BY <2>1, <2>2, <2>3 DEF TurnRow
  <2> QED BY <1>17, <2>1, <2>2, <2>4, RowsStop DEF TurnRejected
<1>18. CASE TurnUnanswered
  BY <1>3, <1>5, <1>18, RowsStop DEF TurnUnanswered, Places
<1>19. CASE BindTurn
  BY <1>2, <1>3, <1>19, RowsSame DEF BindTurn
<1>20. CASE AssignTheTurn
  <2>1. /\ sched # Idle /\ J \in Jobs /\ In(J, {"running"}) /\ job[J].intent.kind = "turn"
        /\ turn[TurnOf(J)].at \in Started
    BY <1>1, <1>5, <1>20 DEF AssignTheTurn, SchedulerAgrees, At, Places
  <2>2. Moves(J, "running", TRUE)
    BY <1>1, <1>20, <2>1, AssignRow DEF AssignTheTurn
  <2> QED BY <1>1, <1>3, <1>20, <2>1, <2>2, RowMoves DEF AssignTheTurn, ActiveStates, FinalStates
<1>21. CASE AssignFails
  BY <1>3, <1>5, <1>21, RowsStop DEF AssignFails, Places
<1>22. CASE FlushTurnEvents
  BY <1>2, <1>22, RowsSame DEF FlushTurnEvents, appVars
<1>23. CASE ReplayEvent
  <2> DEFINE e == Head(replay)
  <2>1. replay # << >>
    BY <1>23 DEF ReplayEvent, RunnerInv, ThreadsAgree
  <2>2. e \in EventRow /\ e = replay[1] /\ 1 \in DOMAIN replay
    BY <1>1, <2>1, TailFacts DEF ThreadsTypeOK
  <2>3. Told(turn, e) /\ turn' = turn
    BY <1>23, <2>2 DEF RunnerInv, EndsAreTrue, ReplayEvent, appVars
  <2>4. CASE Holds(e.turn)
    BY <1>23, <2>2, <2>3, <2>4, RowsReported DEF ReplayEvent
  <2>5. CASE ~ Holds(e.turn)
    BY <1>2, <1>23, <2>3, <2>5, RowsSame DEF ReplayEvent
  <2> QED BY <2>4, <2>5
<1> QED BY <1>7, <1>8, <1>9, <1>10, <1>11, <1>12, <1>13, <1>14, <1>15, <1>16, <1>17, <1>18,
           <1>19, <1>20, <1>21, <1>22, <1>23 DEF SchedulerStep

(* The second write of a text is a report of activity.                        *)
LEMMA SecondWrite ==
    ASSUME NEW e \in EventRow, Holds(e.turn), ObserveTurnActivity(e.turn)
    PROVE  \E f \in EventRow : f.turn = e.turn /\ f.kind = "activity" /\ Apply(f)
<1> DEFINE f == [e EXCEPT !.kind = "activity"]
<1>1. f \in EventRow /\ f.turn = e.turn /\ f.kind = "activity"
  BY DEF EventRow, Reports
<1>2. Apply(f)
  BY <1>1 DEF Apply
<1> QED BY <1>1, <1>2

(* What the reader holds, and what comes next.                                *)
LEMMA ReaderHolds ==
    ASSUME RunnerInv
    PROVE  /\ reader.at \in ReaderPlaces =>
                 /\ reader # Idle /\ reader \in [at : ReaderPlaces, event : EventRow]
                 /\ reader.event \in EventRow /\ Told(turn, reader.event)
           /\ wire # << >> =>
                 /\ Head(wire) \in EventRow /\ Told(turn, Head(wire))
                 /\ 1 \in DOMAIN wire /\ Head(wire) = wire[1]
                 /\ Tail(wire) \in Seq(EventRow)
<1>1. ThreadsTypeOK /\ AppTypeOK /\ EndsAreTrue
  BY DEF RunnerInv, RunnerTypeOK
<1>2. ASSUME reader.at \in ReaderPlaces
      PROVE  /\ reader # Idle /\ reader \in [at : ReaderPlaces, event : EventRow]
             /\ reader.event \in EventRow /\ Told(turn, reader.event)
  <2>1. reader \in {Idle} \cup [at : ReaderPlaces, event : EventRow]
    BY <1>1 DEF ThreadsTypeOK
  <2>2. reader # Idle
    BY <1>2 DEF ReaderPlaces, Idle
  <2>3. Told(turn, reader.event)
    BY <1>1, <2>2 DEF EndsAreTrue
  <2> QED BY <2>1, <2>2, <2>3
<1>3. ASSUME wire # << >>
      PROVE  /\ Head(wire) \in EventRow /\ Told(turn, Head(wire))
             /\ 1 \in DOMAIN wire /\ Head(wire) = wire[1]
             /\ Tail(wire) \in Seq(EventRow)
  <2>1. /\ Head(wire) \in EventRow /\ 1 \in DOMAIN wire /\ Head(wire) = wire[1]
        /\ Tail(wire) \in Seq(EventRow)
    BY <1>1, <1>3, TailFacts DEF AppTypeOK
  <2> QED BY <1>1, <2>1 DEF EndsAreTrue
<1> QED BY <1>2, <1>3

(* The reader's steps.                                                        *)
LEMMA RowsOfReader ==
    ASSUME RunnerInv, ReaderStep
    PROVE  RowsInv'
<1>1. ASSUME UNCHANGED jobVars, turn' = turn
      PROVE  RowsInv'
  BY <1>1, RowsSame DEF jobVars
<1>2. CASE ReadReport
  <2>1. Head(wire) \in EventRow /\ Told(turn, Head(wire)) /\ turn' = turn
    BY <1>2, ReaderHolds DEF ReadReport
  <2>2. CASE Holds(Head(wire).turn)
    BY <1>2, <2>1, <2>2, RowsReported DEF ReadReport
  <2>3. CASE ~ Holds(Head(wire).turn)
    BY <1>1, <1>2, <2>1, <2>3 DEF ReadReport
  <2> QED BY <2>2, <2>3
<1>3. CASE ObserveMissedText
  <2>1. reader.event \in EventRow /\ turn' = turn
    BY <1>3, ReaderHolds DEF ObserveMissedText, ReaderPlaces, appVars
  <2>2. CASE Holds(reader.event.turn)
    <3>1. PICK f \in EventRow : f.turn = reader.event.turn /\ f.kind = "activity" /\ Apply(f)
      BY <1>3, <2>1, <2>2, SecondWrite DEF ObserveMissedText
    <3>2. Told(turn, f)
      BY <3>1 DEF Told, IsEnd
    <3> QED BY <2>1, <2>2, <3>1, <3>2, RowsReported
  <2>3. CASE ~ Holds(reader.event.turn)
    BY <1>1, <1>3, <2>1, <2>3 DEF ObserveMissedText
  <2> QED BY <2>2, <2>3
<1>4. CASE ReadEnd
  BY <1>1, <1>4 DEF ReadEnd
<1>5. CASE CompleteRead
  <2>1. reader.event \in EventRow /\ Told(turn, reader.event) /\ turn' = turn
    BY <1>5, ReaderHolds DEF CompleteRead, ReaderPlaces, appVars
  <2>2. CASE Holds(reader.event.turn)
    BY <1>5, <2>1, <2>2, RowsReported DEF CompleteRead
  <2>3. CASE ~ Holds(reader.event.turn)
    BY <1>1, <1>5, <2>1, <2>3 DEF CompleteRead
  <2> QED BY <2>2, <2>3
<1>6. CASE BufferEvent
  BY <1>1, <1>6 DEF BufferEvent, appVars
<1> QED BY <1>2, <1>3, <1>4, <1>5, <1>6 DEF ReaderStep

(* The app-server's steps, and a stop.                                        *)
LEMMA GoneTurns ==
    ASSUME RunnerInv, turn' = Gone
    PROVE  \A t \in Turns : /\ GoesOnTurn(t) /\ turn'[t].at \notin {"asked", "live"}
                            /\ turn'[t].sent = turn[t].sent
                            /\ turn[t].at = "over" => turn'[t] = turn[t]
<1> SUFFICES ASSUME NEW t \in Turns
             PROVE  GoesOnTurn(t) /\ turn'[t].at \notin {"asked", "live"}
                    /\ turn'[t].sent = turn[t].sent
                    /\ (turn[t].at = "over" => turn'[t] = turn[t])
  OBVIOUS
<1>1. turn[t] \in TurnRow
  BY DEF RunnerInv, RunnerTypeOK, AppTypeOK
<1>2. CASE turn[t].at \in {"asked", "live"}
  <2>1. turn'[t] = [turn[t] EXCEPT !.at = "dead"]
    BY <1>2 DEF Gone
  <2>2. turn'[t].at = "dead" /\ turn'[t].sent = turn[t].sent
    BY <1>1, <2>1 DEF TurnRow
  <2> QED BY <1>2, <2>2 DEF GoesOnTurn, Started
<1>3. CASE turn[t].at \notin {"asked", "live"}
  BY <1>3 DEF Gone, GoesOnTurn
<1> QED BY <1>2, <1>3

LEMMA OneTurnGoesOn ==
    ASSUME RunnerInv, NEW t \in Turns, NEW row \in TurnRow, turn' = [turn EXCEPT ![t] = row],
           \/ turn[t].at = "asked" /\ row.at = "live"
           \/ turn[t].at = "live" /\ row.at \in {"live", "over"}
    PROVE  \A u \in Turns : GoesOnTurn(u)
<1>1. turn'[t] = row /\ \A u \in Turns : u # t => turn'[u] = turn[u]
  BY DEF RunnerInv, RunnerTypeOK, AppTypeOK
<1> QED BY <1>1 DEF GoesOnTurn, Started

LEMMA RowsOfAppServer ==
    ASSUME RunnerInv, AppServerStep \/ Restart
    PROVE  RowsInv'
<1>1. AppTypeOK /\ JobsTypeOK
  BY DEF RunnerInv, RunnerTypeOK
<1>2. ASSUME NEW t \in Turns, NEW row \in TurnRow, turn' = [turn EXCEPT ![t] = row],
             \/ turn[t].at = "asked" /\ row.at = "live"
             \/ turn[t].at = "live" /\ row.at \in {"live", "over"},
             UNCHANGED jobVars
      PROVE  RowsInv'
  BY <1>2, OneTurnGoesOn, RowsStay DEF Stays, jobVars
<1>3. ASSUME NEW t \in Turns
      PROVE  turn[t] \in TurnRow
  BY <1>1 DEF AppTypeOK
<1>4. ASSUME NEW t \in Turns, StartTurn(t)
      PROVE  RowsInv'
  <2> DEFINE row == [turn[t] EXCEPT !.at = "live"]
  <2>1. row \in TurnRow /\ row.at = "live"
    BY <1>3 DEF TurnRow
  <2> QED BY <1>2, <1>4, <2>1 DEF StartTurn
<1>5. ASSUME NEW t \in Turns, Report(t)
      PROVE  RowsInv'
  <2>1. PICK k \in TurnReports : turn' = [turn EXCEPT ![t].sent = @ \cup {k}]
    BY <1>5 DEF Report
  <2> DEFINE row == [turn[t] EXCEPT !.sent = @ \cup {k}]
  <2>2. row \in TurnRow /\ row.at = turn[t].at
    BY <1>3, ReportsAssumption DEF TurnRow
  <2> QED BY <1>2, <1>5, <2>1, <2>2 DEF Report
<1>6. ASSUME NEW t \in Turns, FinishTurn(t)
      PROVE  RowsInv'
  <2>1. PICK e \in TurnEndings : turn' = [turn EXCEPT ![t].at = "over", ![t].status = e.status]
    BY <1>6 DEF FinishTurn
  <2> DEFINE row == [turn[t] EXCEPT !.at = "over", !.status = e.status]
  <2>2. e.status \in {"completed", "failed", "interrupted"}
    BY ServiceAssumption DEF Endings
  <2>3. row \in TurnRow /\ row.at = "over"
    BY <1>3, <2>2 DEF TurnRow
  <2>4. turn' = [turn EXCEPT ![t] = row]
    BY <1>1, <2>1 DEF AppTypeOK
  <2> QED BY <1>2, <1>6, <2>3, <2>4 DEF FinishTurn
<1>7. ASSUME NEW t \in Turns, NEW c \in Callers, CallCarTool(t, c)
      PROVE  RowsInv'
  <2> DEFINE row == [turn[t] EXCEPT !.sent = @ \cup {"tool"}]
  <2>1. row \in TurnRow /\ row.at = turn[t].at
    BY <1>3 DEF TurnRow, Reports
  <2> QED BY <1>2, <1>7, <2>1 DEF CallCarTool
<1>8. ASSUME NEW c \in Callers, CarryOut(c)
      PROVE  RowsInv'
  BY <1>8, RowsSame DEF CarryOut, jobVars, serviceVars, appVars
<1>9. CASE ServerExits
  BY <1>9, GoneTurns, RowsStay DEF ServerExits, Stays, jobVars
<1>10. CASE Restart
  <2>1. \A k \in Jobs : Stays(k)
    <3> SUFFICES ASSUME NEW k \in Jobs PROVE Stays(k)
      OBVIOUS
    <3>1. CASE In(k, {"running"})
      <4>1. job'[k] # NoRow
        BY <1>1, <1>10, <3>1, RecoveredRows DEF Restart, NoRow
      <4>2. job'[k] \in JobRow
        BY <1>1, <1>10, <4>1, RecoveredRows DEF Restart, JobsTypeOK
      <4> QED BY <1>1, <1>10, <3>1, <4>2, RecoveredRows DEF Restart, Stays, In
    <3>2. CASE ~ In(k, {"running"})
      BY <1>1, <1>10, <3>2, RecoveredRows DEF Restart, Stays
    <3> QED BY <3>1, <3>2
  <2> QED BY <1>10, <2>1, GoneTurns, RowsStay DEF Restart
<1> QED BY <1>4, <1>5, <1>6, <1>7, <1>8, <1>9, <1>10 DEF AppServerStep

(* Every step keeps rows and turns in agreement.                              *)
LEMMA RowsStep ==
    ASSUME RunnerInv, RunnerTypeOK', [Next]_vars
    PROVE  RowsInv'
<1>1. JobsTypeOK /\ JobsTypeOK'
  BY DEF RunnerInv, RunnerTypeOK
<1>2. CASE UNCHANGED vars
  BY <1>2, RowsSame DEF vars, jobVars, serviceVars, appVars
<1>3. ASSUME NEW j \in Jobs, Submit(j)
      PROVE  RowsInv'
  <2>1. PICK i \in Intents[j] : CreateJob(j, i)
    BY <1>3 DEF Submit
  <2>2. turn' = turn
    BY <1>3 DEF Submit, serviceVars, appVars
  <2>3. NewJob(i).state = "queued" /\ NewJob(i).attempt = 0 /\ NewJob(i).bound = FALSE
        /\ NewJob(i).reviewed = FALSE
    BY DEF NewJob
  <2> QED BY <1>1, <2>1, <2>2, <2>3, NewRow, RowsBegin
<1>4. ASSUME NEW j \in Jobs, Admin(j)
      PROVE  RowsInv'
  <2>1. PICK o \in FinalStates : ResolveRecovery(j, o)
    BY <1>4 DEF Admin
  <2>2. turn' = turn
    BY <1>4 DEF Admin, serviceVars, appVars
  <2>3. \A k \in Jobs : Stays(k)
    BY <1>1, <2>1, ReviewRow DEF Stays, OnlyRow, In
  <2> QED BY <2>2, <2>3, RowsStay DEF GoesOnTurn
<1>5. CASE TimeStep
  <2>1. turn' = turn
    BY <1>5 DEF TimeStep, serviceVars, appVars
  <2>2. \A k \in Jobs : Stays(k)
    BY <1>1, <1>5, RestRow DEF TimeStep, Stays, Moves, OnlyRow, In, jobVars
  <2> QED BY <2>1, <2>2, RowsStay DEF GoesOnTurn
<1> QED BY <1>2, <1>3, <1>4, <1>5, RowsOfScheduler, RowsOfReader, RowsOfAppServer DEF Next

-----------------------------------------------------------------------------
(* The scheduler has a job that runs in hand, or a turn has.                  *)

(* Nothing unbound that runs moves, and the scheduler stays where it is.      *)
LEMMA HandStays ==
    ASSUME RunnerInv, RunnerTypeOK', sched' = sched,
           \A k \in Jobs :
              \/ job'[k] = job[k]
              \/ job[k] = NoRow /\ job'[k].state = "queued"
              \/ /\ job[k] \in JobRow /\ job'[k] \in JobRow
                 /\ job'[k].attempt = job[k].attempt /\ job'[k].intent = job[k].intent
                 /\ job[k].bound = TRUE \/ job[k].state # "running"
                 /\ job'[k].state = "running" => job[k].state = "running" /\ job'[k].bound = TRUE,
           \A t \in Turns :
              \/ turn'[t] = turn[t]
              \/ turn[t].at = "asked" /\ turn'[t].at = "dead"
              \/ turn[t].at = "live" /\ turn'[t].at \in Started
    PROVE  InHand' /\ SchedulerAgrees'
<1>1. JobsTypeOK /\ InHand /\ SchedulerAgrees /\ RunnerTypeOK /\ JobsTypeOK'
  BY DEF RunnerInv, RunnerTypeOK
<1>2. J' = J
  BY DEF J
<1>3. InHand'
  <2> SUFFICES ASSUME NEW k \in Jobs, job'[k].state = "running"
               PROVE  job'[k].bound \/ (sched # Idle /\ J = k)
    BY <1>2 DEF InHand, In
  <2> QED BY <1>1 DEF InHand, In
<1>4. SchedulerAgrees'
  <2> SUFFICES ASSUME sched # Idle
               PROVE  SchedulerAgrees'
    BY DEF SchedulerAgrees
  <2>1. J \in Jobs /\ job[J] \in JobRow /\ TurnOf(J) \in Turns /\ sched.at \in Places
    BY <1>1, HandIsThere
  <2>2. job[J] # NoRow
    BY <1>1, <2>1, RowThere
  <2>3. job'[J].attempt = job[J].attempt /\ job'[J].intent = job[J].intent /\ job'[J] # NoRow
    BY <1>1, <2>1, <2>2, RowThere
  <2>4. TurnOf(J)' = TurnOf(J)
    BY <1>2, <2>3 DEF TurnOf
  <2>5. sched.at \in Places \ {"assigned", "replaying"} => job'[J] = job[J]
    <3> SUFFICES ASSUME sched.at \in Places \ {"assigned", "replaying"}
                 PROVE  job'[J] = job[J]
      OBVIOUS
    <3>1. job[J].state = "running" /\ ~ job[J].bound
      BY <1>1 DEF SchedulerAgrees, In
    <3> QED BY <2>1, <2>2, <3>1
  <2>6. sched.at \in {"assigned", "replaying"} => (job'[J].state = "running" => job'[J].bound)
    BY <1>1, <2>1, <2>2 DEF SchedulerAgrees, In
  <2>7. sched.at \in {"claimed", "ready"} => turn'[TurnOf(J)] = Unasked
    BY <1>1, <2>1 DEF SchedulerAgrees, Unasked
  <2>8. sched.at = "asked" => turn'[TurnOf(J)].at \in {"asked", "dead"}
    BY <1>1, <2>1 DEF SchedulerAgrees
  <2>9. sched.at \in {"answered", "bound"} => turn'[TurnOf(J)].at \in Started
    BY <1>1, <2>1 DEF SchedulerAgrees, Started
  <2> QED BY <1>1, <1>2, <2>3, <2>4, <2>5, <2>6, <2>7, <2>8, <2>9 DEF SchedulerAgrees, In
<1> QED BY <1>3, <1>4

(* The scheduler lets go of a job that runs no more, or is bound.             *)
LEMMA HandStops ==
    ASSUME RunnerInv, sched # Idle, sched' = Idle,
           \A k \in Jobs : job'[k] = job[k] \/ job'[k].state # "running" \/ job'[k].bound = TRUE,
           job'[J].state # "running" \/ job'[J].bound = TRUE
    PROVE  InHand' /\ SchedulerAgrees'
<1>1. InHand' 
  BY DEF RunnerInv, InHand, In, Idle
<1> QED BY <1>1 DEF SchedulerAgrees

(* The scheduler goes on in its job.                                          *)
LEMMA HandGoesOn ==
    ASSUME RunnerInv, RunnerTypeOK', job' = job, sched # Idle,
           NEW place \in Places, Goes(place),
           place \notin {"assigned", "replaying"} =>
              sched.at \in Places \ {"assigned", "replaying"},
           place \in {"assigned", "replaying"} => (In(J, {"running"}) => job[J].bound),
           place \in {"asked", "answered", "bound"} => job[J].intent.kind = "turn",
           place = "told" => job[J].intent.kind \in {"request", "confirm"},
           place = "executing" => job[J].intent.kind = "confirm",
           place \in {"claimed", "ready"} => turn'[TurnOf(J)] = Unasked,
           place = "asked" => turn'[TurnOf(J)].at \in {"asked", "dead"},
           place \in {"answered", "bound"} => turn'[TurnOf(J)].at \in Started
    PROVE  InHand' /\ SchedulerAgrees'
<1>1. RunnerTypeOK /\ SchedulerAgrees /\ InHand
  BY DEF RunnerInv
<1>2. sched' # Idle /\ sched'.at = place /\ J' = J
  BY <1>1, GoesOn
<1>3. TurnOf(J)' = TurnOf(J)
  BY <1>2 DEF TurnOf
<1>4. InHand'
  BY <1>1, <1>2 DEF InHand, In
<1>5. SchedulerAgrees'
  BY <1>1, <1>2, <1>3 DEF SchedulerAgrees, In
<1> QED BY <1>4, <1>5

(* A report moves the row of the bound job that runs.                         *)
LEMMA HandReported ==
    ASSUME RunnerInv, RunnerTypeOK', turn' = turn, sched' = sched,
           NEW e \in EventRow, Told(turn, e), Holds(e.turn), Apply(e)
    PROVE  InHand' /\ SchedulerAgrees'
<1>1. JobsTypeOK
  BY DEF RunnerInv, RunnerTypeOK
<1>2. e.turn[1] \in Jobs /\ In(e.turn[1], {"running"}) /\ job[e.turn[1]].bound = TRUE
  BY <1>1, ReportRow
<1>3. PICK s \in {"running", "queued"} \cup FinalStates, b \in BOOLEAN :
         Moves(e.turn[1], s, b) /\ (s = "running" => b = TRUE)
  BY RowsReported
<1> QED BY <1>2, <1>3, HandStays DEF Moves, OnlyRow, In

(* The job in hand is over, or queued again.                                  *)
LEMMA HandLetsGo ==
    ASSUME RunnerInv, sched # Idle, sched' = Idle,
           \E s \in {"completed", "failed", "recovery_required", "queued"}, b \in BOOLEAN :
              Moves(J, s, b)
    PROVE  InHand' /\ SchedulerAgrees'
<1>1. J \in Jobs
  BY HandIsThere DEF RunnerInv
<1> QED BY <1>1, HandStops DEF Moves, OnlyRow

(* The scheduler's steps.                                                     *)
LEMMA HandOfScheduler ==
    ASSUME RunnerInv, RunnerTypeOK', SchedulerStep
    PROVE  InHand' /\ SchedulerAgrees'
<1>1. /\ RunnerTypeOK /\ JobsTypeOK /\ ThreadsTypeOK /\ AppTypeOK /\ SchedulerAgrees
      /\ RowsAgree /\ InHand /\ OneIsBusy /\ JobsTypeOK'
  BY DEF RunnerInv, RunnerTypeOK
<1>2. ASSUME UNCHANGED jobVars
      PROVE  job' = job
  BY <1>2 DEF jobVars
<1>3. ASSUME Calmly
      PROVE  turn' = turn
  BY <1>3 DEF Calmly, appVars
<1>4. ASSUME NEW place \in Places, At(place)
      PROVE  /\ sched # Idle /\ sched.at = place
             /\ J \in Jobs /\ TurnOf(J) \in Turns
  BY <1>1, <1>4, NotIdle, HandIsThere DEF At
<1>5. ASSUME sched # Idle, Stops,
             \/ CompleteDirect(J) \/ RetryOverloaded(J)
             \/ \E u \in BOOLEAN : FailClaimed(J, u)
      PROVE  InHand' /\ SchedulerAgrees'
  <2>1. J \in Jobs /\ sched' = Idle
    BY <1>1, <1>5, HandIsThere DEF Stops
  <2>2. \E s \in {"completed", "failed", "recovery_required", "queued"}, b \in BOOLEAN :
           Moves(J, s, b)
    <3>1. job[J] \in JobRow => job[J].bound \in BOOLEAN
      BY DEF JobRow
    <3>2. CASE CompleteDirect(J)
      <4>1. Moves(J, "completed", job[J].bound)
        BY <1>1, <2>1, <3>2, DirectRow
      <4> QED BY <3>1, <4>1 DEF Moves
    <3>3. CASE RetryOverloaded(J)
      <4>1. Moves(J, "queued", FALSE) \/ Moves(J, "failed", job[J].bound)
        BY <1>1, <2>1, <3>3, OverloadRow
      <4> QED BY <3>1, <4>1 DEF Moves
    <3>4. ASSUME NEW u \in BOOLEAN, FailClaimed(J, u)
          PROVE  \E s \in {"completed", "failed", "recovery_required", "queued"}, b \in BOOLEAN :
                    Moves(J, s, b)
      <4>1. Moves(J, IF u THEN "recovery_required" ELSE "failed", job[J].bound)
        BY <1>1, <2>1, <3>4, FailRow
      <4> QED BY <3>1, <4>1 DEF Moves
    <3> QED BY <1>5, <3>2, <3>3, <3>4
  <2> QED BY <1>5, <2>1, <2>2, HandLetsGo
<1>6. ASSUME NEW j \in Jobs, Claim(j)
      PROVE  InHand' /\ SchedulerAgrees'
  <2>1. ClaimNext(j) /\ turn' = turn /\ sched' = [at |-> "claimed", job |-> j] /\ sched = Idle
    BY <1>1, <1>6 DEF Claim, appVars, At, ThreadsTypeOK, Idle, Places
  <2>2. /\ OnlyRow(j) /\ job[j] \in JobRow /\ job'[j] \in JobRow
        /\ \A k \in Jobs : ~ In(k, Busy)
        /\ job'[j].state = "running" /\ job'[j].bound = FALSE
        /\ job'[j].attempt = job[j].attempt + 1
    BY <1>1, <2>1, ClaimRow
  <2>3. sched'.at = "claimed" /\ J' = j /\ sched' # Idle
    BY <2>1 DEF J, Idle
  <2>4. \A k \in Jobs : k # j => job'[k].state # "running"
    BY <2>2 DEF OnlyRow, In, Busy
  <2>5. InHand'
    BY <2>3, <2>4 DEF InHand, In
  <2>6. turn'[TurnOf(j)'] = Unasked
    <3>1. TurnOf(j)' = <<j, job'[j].attempt>>
      BY DEF TurnOf
    <3>2. job'[j].attempt \in 1 .. MaxAttempts
      BY <2>2, JobsAssumption DEF JobRow
    <3>3. TurnOf(j)' \in Turns /\ TurnOf(j)'[1] = j /\ TurnOf(j)'[2] = job'[j].attempt
      BY <3>1, <3>2 DEF Turns
    <3>4. job[j].attempt < TurnOf(j)'[2]
      BY <2>2, <3>3 DEF JobRow
    <3> QED BY <2>1, <3>3, <3>4 DEF RunnerInv, TurnsAgree
  <2>7. job'[j] # NoRow /\ job'[j].attempt # 0
    BY <1>1, <2>2, RowThere DEF JobRow
  <2>8. SchedulerAgrees'
    BY <2>2, <2>3, <2>6, <2>7 DEF SchedulerAgrees, In
  <2> QED BY <2>5, <2>8
<1>7. CASE NewThread
  BY <1>4, <1>5, <1>7 DEF NewThread, Places
<1>8. CASE BeginJob
  <2>1. CASE ctx = NoContext
    <3>1. /\ job' = job /\ turn' = turn /\ Goes("ready") /\ sched # Idle /\ sched.at = "claimed"
          /\ turn[TurnOf(J)] = Unasked
      BY <1>1, <1>2, <1>3, <1>4, <1>8, <2>1 DEF BeginJob, SchedulerAgrees, Places
    <3> QED BY <3>1, HandGoesOn DEF Places
  <2>2. CASE ctx # NoContext
    BY <1>4, <1>5, <1>8, <2>2 DEF BeginJob, Places
  <2> QED BY <2>1, <2>2
<1>9. CASE DirectTool
  BY <1>4, <1>5, <1>9 DEF DirectTool, Places
<1>10. CASE AskForCar
  <2>1. CASE UNCHANGED jobVars /\ Goes("told")
    BY <1>2, <1>4, <1>10, <2>1, HandGoesOn DEF AskForCar, Asks, Places
  <2>2. CASE FailClaimed(J, FALSE) /\ Stops
    BY <1>4, <1>5, <1>10, <2>2 DEF AskForCar, Places
  <2> QED BY <1>10, <2>1, <2>2 DEF AskForCar
<1>11. CASE ConfirmCar
  <2>1. CASE UNCHANGED jobVars /\ Goes("told")
    BY <1>2, <1>4, <1>11, <2>1, HandGoesOn DEF ConfirmCar, Asks, Places
  <2>2. CASE UNCHANGED jobVars /\ Goes("executing")
    BY <1>2, <1>4, <1>11, <2>2, HandGoesOn DEF ConfirmCar, Asks, Places
  <2>3. CASE FailClaimed(J, FALSE) /\ Stops
    BY <1>4, <1>5, <1>11, <2>3 DEF ConfirmCar, Places
  <2> QED BY <1>11, <2>1, <2>2, <2>3 DEF ConfirmCar
<1>12. CASE ExecuteCar
  <2>1. job' = job /\ turn' = turn /\ sched # Idle /\ sched.at = "executing"
    BY <1>2, <1>3, <1>4, <1>12 DEF ExecuteCar, Places
  <2>2. CASE UNCHANGED sched
    BY <2>1, <2>2, HandStays
  <2>3. CASE Goes("told")
    BY <1>1, <2>1, <2>3, HandGoesOn DEF SchedulerAgrees, Places
  <2> QED BY <1>12, <2>2, <2>3 DEF ExecuteCar
<1>13. CASE TellResult
  BY <1>4, <1>5, <1>13 DEF TellResult, Places
<1>14. CASE AskTurn
  <2>1. /\ sched # Idle /\ J \in Jobs /\ TurnOf(J) \in Turns /\ sched.at = "ready"
        /\ job[J].intent.kind = "turn" /\ Goes("asked")
    BY <1>4, <1>14 DEF AskTurn, Asks, Places
  <2>2. job' = job /\ turn' = [turn EXCEPT ![TurnOf(J)].at = "asked"]
    BY <1>2, <1>14 DEF AskTurn
  <2>3. turn'[TurnOf(J)].at = "asked"
    BY <1>1, <2>1, <2>2 DEF AppTypeOK, TurnRow
  <2> QED BY <2>1, <2>2, <2>3, HandGoesOn DEF Places
<1>15. CASE FailBeforeTurn
  BY <1>4, <1>5, <1>15 DEF FailBeforeTurn, Places
<1>16. CASE TurnRejected
  BY <1>4, <1>5, <1>16 DEF TurnRejected, Places
<1>17. CASE TurnUnanswered
  BY <1>4, <1>5, <1>17 DEF TurnUnanswered, Places
<1>18. CASE BindTurn
  <2>1. /\ job' = job /\ turn' = turn /\ Goes("bound") /\ sched # Idle
        /\ sched.at = "answered"
    BY <1>2, <1>3, <1>4, <1>18 DEF BindTurn, Places
  <2> QED BY <1>1, <2>1, HandGoesOn DEF SchedulerAgrees, Places
<1>19. CASE AssignTheTurn
  <2>1. /\ sched # Idle /\ J \in Jobs /\ turn' = turn /\ Goes("assigned") /\ AssignTurn(J)
    BY <1>3, <1>4, <1>19 DEF AssignTheTurn, Places
  <2>2. Moves(J, "running", TRUE)
    BY <1>1, <2>1, AssignRow
  <2>3. sched' # Idle /\ sched'.at = "assigned" /\ J' = J
    BY <1>1, <2>1, GoesOn DEF Places
  <2>4. InHand'
    BY <1>1, <2>3, <2>2 DEF InHand, In, Moves, OnlyRow
  <2>5. job'[J] # NoRow /\ job'[J].attempt # 0
    BY <1>1, <2>1, <2>2, RowThere DEF Moves, SchedulerAgrees
  <2>6. SchedulerAgrees'
    BY <2>2, <2>3, <2>5 DEF SchedulerAgrees, In, Moves
  <2> QED BY <2>4, <2>6
<1>20. CASE AssignFails
  <2>1. sched # Idle /\ sched' = Idle /\ J \in Jobs /\ FailClaimed(J, TRUE)
    BY <1>4, <1>20 DEF AssignFails, Places
  <2>2. Moves(J, "recovery_required", job[J].bound)
    BY <1>1, <2>1, FailRow
  <2>3. job[J].bound \in BOOLEAN
    BY <2>2 DEF Moves, JobRow
  <2> QED BY <2>1, <2>2, <2>3, HandLetsGo
<1>21. CASE FlushTurnEvents
  <2>1. job' = job /\ turn' = turn /\ sched # Idle /\ sched.at = "assigned" /\ J \in Jobs
    BY <1>2, <1>4, <1>21 DEF FlushTurnEvents, appVars, Places
  <2>2. job[J].state = "running" => job[J].bound = TRUE
    BY <1>1, <2>1, HandIsThere DEF SchedulerAgrees, In, JobRow
  <2>3. CASE sched' = Idle
    BY <2>1, <2>2, <2>3, HandStops
  <2>4. CASE Goes("replaying")
    BY <2>1, <2>2, <2>4, HandGoesOn DEF In, Places
  <2> QED BY <1>21, <2>3, <2>4 DEF FlushTurnEvents
<1>22. CASE ReplayEvent
  <2> DEFINE e == Head(replay)
  <2>1. replay # << >> /\ sched # Idle /\ sched.at = "replaying" /\ J \in Jobs
    BY <1>4, <1>22 DEF ReplayEvent, RunnerInv, ThreadsAgree, Places
  <2>2. e \in EventRow /\ e = replay[1] /\ 1 \in DOMAIN replay
    BY <1>1, <2>1, TailFacts DEF ThreadsTypeOK
  <2>3. Told(turn, e) /\ turn' = turn
    BY <1>22, <2>2 DEF RunnerInv, EndsAreTrue, ReplayEvent, appVars
  <2>4. CASE Holds(e.turn)
    <3>1. Apply(e)
      BY <1>22, <2>4 DEF ReplayEvent
    <3>2. CASE sched' = sched
      BY <2>2, <2>3, <2>4, <3>1, <3>2, HandReported
    <3>3. CASE sched' = Idle
      <4>1. PICK s \in {"running", "queued"} \cup FinalStates, b \in BOOLEAN :
               Moves(e.turn[1], s, b) /\ (s = "running" => b = TRUE)
        BY <2>2, <2>3, <2>4, <3>1, RowsReported
      <4>2. e.turn[1] \in Jobs
        BY <2>2 DEF EventRow, Turns
      <4>3. job[J].state = "running" => job[J].bound = TRUE
        BY <1>1, <2>1, HandIsThere DEF SchedulerAgrees, In, JobRow
      <4> QED BY <2>1, <3>3, <4>1, <4>2, <4>3, HandStops DEF Moves, OnlyRow
    <3> QED BY <1>22, <3>2, <3>3 DEF ReplayEvent
  <2>5. CASE ~ Holds(e.turn)
    <3>1. job' = job
      BY <1>2, <1>22, <2>5 DEF ReplayEvent
    <3>2. job[J].state = "running" => job[J].bound = TRUE
      BY <1>1, <2>1, HandIsThere DEF SchedulerAgrees, In, JobRow
    <3>3. CASE sched' = sched
      BY <2>3, <3>1, <3>3, HandStays
    <3>4. CASE sched' = Idle
      BY <2>1, <3>1, <3>2, <3>4, HandStops
    <3> QED BY <1>22, <3>3, <3>4 DEF ReplayEvent
  <2> QED BY <2>4, <2>5
<1> QED BY <1>6, <1>7, <1>8, <1>9, <1>10, <1>11, <1>12, <1>13, <1>14, <1>15, <1>16, <1>17, <1>18,
           <1>19, <1>20, <1>21, <1>22 DEF SchedulerStep

(* The reader's steps.                                                        *)
LEMMA HandOfReader ==
    ASSUME RunnerInv, RunnerTypeOK', ReaderStep
    PROVE  InHand' /\ SchedulerAgrees'
<1>1. ASSUME UNCHANGED jobVars, turn' = turn, sched' = sched
      PROVE  InHand' /\ SchedulerAgrees'
  BY <1>1, HandStays DEF jobVars
<1>2. CASE ReadReport
  <2>1. Head(wire) \in EventRow /\ Told(turn, Head(wire)) /\ turn' = turn /\ sched' = sched
    BY <1>2, ReaderHolds DEF ReadReport
  <2>2. CASE Holds(Head(wire).turn)
    BY <1>2, <2>1, <2>2, HandReported DEF ReadReport
  <2>3. CASE ~ Holds(Head(wire).turn)
    BY <1>1, <1>2, <2>1, <2>3 DEF ReadReport
  <2> QED BY <2>2, <2>3
<1>3. CASE ObserveMissedText
  <2>1. reader.event \in EventRow /\ turn' = turn /\ sched' = sched
    BY <1>3, ReaderHolds DEF ObserveMissedText, ReaderPlaces, appVars
  <2>2. CASE Holds(reader.event.turn)
    <3>1. PICK f \in EventRow : f.turn = reader.event.turn /\ f.kind = "activity" /\ Apply(f)
      BY <1>3, <2>1, <2>2, SecondWrite DEF ObserveMissedText
    <3>2. Told(turn, f)
      BY <3>1 DEF Told, IsEnd
    <3> QED BY <2>1, <2>2, <3>1, <3>2, HandReported
  <2>3. CASE ~ Holds(reader.event.turn)
    BY <1>1, <1>3, <2>1, <2>3 DEF ObserveMissedText
  <2> QED BY <2>2, <2>3
<1>4. CASE ReadEnd
  BY <1>1, <1>4 DEF ReadEnd
<1>5. CASE CompleteRead
  <2>1. /\ reader.event \in EventRow /\ Told(turn, reader.event) /\ turn' = turn
        /\ sched' = sched
    BY <1>5, ReaderHolds DEF CompleteRead, ReaderPlaces, appVars
  <2>2. CASE Holds(reader.event.turn)
    BY <1>5, <2>1, <2>2, HandReported DEF CompleteRead
  <2>3. CASE ~ Holds(reader.event.turn)
    BY <1>1, <1>5, <2>1, <2>3 DEF CompleteRead
  <2> QED BY <2>2, <2>3
<1>6. CASE BufferEvent
  BY <1>1, <1>6 DEF BufferEvent, appVars
<1> QED BY <1>2, <1>3, <1>4, <1>5, <1>6 DEF ReaderStep

(* The app-server's steps, and a stop.                                        *)
LEMMA HandOfAppServer ==
    ASSUME RunnerInv, RunnerTypeOK', AppServerStep \/ Restart
    PROVE  InHand' /\ SchedulerAgrees'
<1>1. AppTypeOK /\ JobsTypeOK /\ RunnerTypeOK /\ SchedulerAgrees
  BY DEF RunnerInv, RunnerTypeOK
<1>2. ASSUME UNCHANGED jobVars, sched' = sched,
             \A t \in Turns : \/ turn'[t] = turn[t]
                              \/ turn[t].at = "asked" /\ turn'[t].at = "dead"
                              \/ turn[t].at = "live" /\ turn'[t].at \in Started
      PROVE  InHand' /\ SchedulerAgrees'
  BY <1>2, HandStays DEF jobVars
<1>3. ASSUME NEW t \in Turns
      PROVE  turn[t] \in TurnRow
  BY <1>1 DEF AppTypeOK
<1>4. ASSUME NEW t \in Turns, StartTurn(t)
      PROVE  InHand' /\ SchedulerAgrees'
  <2>1. job' = job /\ turn' = [turn EXCEPT ![t].at = "live"] /\ turn[t].at = "asked"
    BY <1>4 DEF StartTurn, jobVars
  <2>2. turn'[t].at = "live" /\ \A u \in Turns : u # t => turn'[u] = turn[u]
    BY <1>1, <1>3, <2>1 DEF AppTypeOK, TurnRow
  <2>3. CASE At("asked") /\ t = TurnOf(J)
    <3>1. sched # Idle /\ sched.at = "asked" /\ Goes("answered")
      BY <1>4, <2>3, NotIdle DEF StartTurn, At, Places
    <3> QED BY <1>1, <2>1, <2>2, <2>3, <3>1, HandGoesOn DEF SchedulerAgrees, Places, Started
  <2>4. CASE ~ (At("asked") /\ t = TurnOf(J))
    <3>1. sched' = sched
      BY <1>4, <2>4 DEF StartTurn
    <3>2. J' = J /\ TurnOf(J)' = TurnOf(J)
      BY <2>1, <3>1 DEF J, TurnOf
    <3>3. sched # Idle => (turn[TurnOf(J)] = turn'[TurnOf(J)] \/ sched.at \notin
                           {"claimed", "ready", "asked", "answered", "bound"})
      <4> SUFFICES ASSUME sched # Idle, t = TurnOf(J)
                   PROVE  sched.at \notin {"claimed", "ready", "asked", "answered", "bound"}
        BY <1>1, <2>2, HandIsThere
      <4> QED BY <1>1, <2>1, <2>4 DEF SchedulerAgrees, At, Unasked, Started
    <3>4. InHand'
      BY <2>1, <3>1, <3>2 DEF InHand, RunnerInv, In
    <3>5. SchedulerAgrees'
      BY <1>1, <2>1, <3>1, <3>2, <3>3 DEF SchedulerAgrees, In
    <3> QED BY <3>4, <3>5
  <2> QED BY <2>3, <2>4
<1>5. ASSUME NEW t \in Turns, Report(t)
      PROVE  InHand' /\ SchedulerAgrees'
  <2>1. PICK k \in TurnReports : turn' = [turn EXCEPT ![t].sent = @ \cup {k}]
    BY <1>5 DEF Report
  <2>2. turn'[t].at = "live" /\ \A u \in Turns : u # t => turn'[u] = turn[u]
    BY <1>1, <1>3, <1>5, <2>1 DEF AppTypeOK, TurnRow, Report
  <2> QED BY <1>2, <1>5, <2>2 DEF Report, threadVars, Started
<1>6. ASSUME NEW t \in Turns, FinishTurn(t)
      PROVE  InHand' /\ SchedulerAgrees'
  <2>1. PICK e \in TurnEndings : turn' = [turn EXCEPT ![t].at = "over", ![t].status = e.status]
    BY <1>6 DEF FinishTurn
  <2>2. turn'[t].at = "over" /\ \A u \in Turns : u # t => turn'[u] = turn[u]
    BY <1>1, <1>3, <2>1 DEF AppTypeOK, TurnRow
  <2> QED BY <1>2, <1>6, <2>2 DEF FinishTurn, threadVars, Started
<1>7. ASSUME NEW t \in Turns, NEW c \in Callers, CallCarTool(t, c)
      PROVE  InHand' /\ SchedulerAgrees'
  <2>1. turn'[t].at = "live" /\ \A u \in Turns : u # t => turn'[u] = turn[u]
    BY <1>1, <1>3, <1>7 DEF AppTypeOK, TurnRow, CallCarTool
  <2> QED BY <1>2, <1>7, <2>1 DEF CallCarTool, threadVars, Started
<1>8. ASSUME NEW c \in Callers, CarryOut(c)
      PROVE  InHand' /\ SchedulerAgrees'
  BY <1>2, <1>8 DEF CarryOut, serviceVars, appVars, threadVars
<1>9. CASE ServerExits
  <2>1. \A t \in Turns : turn'[t] = turn[t] \/ (turn[t].at \in {"asked", "live"} /\ turn'[t].at = "dead")
    BY <1>1, <1>3, <1>9 DEF ServerExits, Gone, TurnRow
  <2> QED BY <1>2, <1>9, <2>1 DEF ServerExits, threadVars, Started
<1>10. CASE Restart
  <2>1. sched' = Idle /\ \A k \in Jobs : job'[k].state # "running"
    BY <1>1, <1>10, RecoveredRows DEF Restart, In
  <2> QED BY <2>1 DEF InHand, SchedulerAgrees, In
<1> QED BY <1>4, <1>5, <1>6, <1>7, <1>8, <1>9, <1>10 DEF AppServerStep

(* Every step.                                                                *)
LEMMA HandStep ==
    ASSUME RunnerInv, RunnerTypeOK', [Next]_vars
    PROVE  InHand' /\ SchedulerAgrees'
<1>1. JobsTypeOK /\ JobsTypeOK'
  BY DEF RunnerInv, RunnerTypeOK
<1>2. CASE UNCHANGED vars
  BY <1>2, HandStays DEF vars, jobVars, serviceVars, appVars, threadVars
<1>3. ASSUME NEW j \in Jobs, Submit(j)
      PROVE  InHand' /\ SchedulerAgrees'
  <2>1. PICK i \in Intents[j] : CreateJob(j, i)
    BY <1>3 DEF Submit
  <2>2. turn' = turn /\ sched' = sched
    BY <1>3 DEF Submit, serviceVars, appVars, threadVars
  <2>3. NewJob(i).state = "queued"
    BY DEF NewJob
  <2> QED BY <1>1, <2>1, <2>2, <2>3, NewRow, HandStays
<1>4. ASSUME NEW j \in Jobs, Admin(j)
      PROVE  InHand' /\ SchedulerAgrees'
  <2>1. PICK o \in FinalStates : ResolveRecovery(j, o)
    BY <1>4 DEF Admin
  <2>2. turn' = turn /\ sched' = sched
    BY <1>4 DEF Admin, serviceVars, appVars, threadVars
  <2> QED BY <1>1, <2>1, <2>2, ReviewRow, HandStays DEF OnlyRow, In, FinalStates
<1>5. CASE TimeStep
  <2>1. turn' = turn /\ sched' = sched
    BY <1>5 DEF TimeStep, serviceVars, appVars, threadVars
  <2>2. CASE UNCHANGED jobVars
    BY <2>1, <2>2, HandStays DEF jobVars
  <2>3. ASSUME NEW j \in Jobs, RetryTime(j)
        PROVE  InHand' /\ SchedulerAgrees'
    BY <1>1, <2>1, <2>3, RestRow, HandStays DEF OnlyRow, Moves, In
  <2> QED BY <1>5, <2>2, <2>3 DEF TimeStep
<1> QED BY <1>2, <1>3, <1>4, <1>5, HandOfScheduler, HandOfReader, HandOfAppServer DEF Next

-----------------------------------------------------------------------------
(* Rows and turns over one step.                                              *)

(* A row stays a row of its message; what is final stays, and only a claim    *)
(* makes another attempt.                                                     *)
Progress(k) == /\ job'[k] \in JobRow /\ job'[k].intent = job[k].intent
               /\ In(k, FinalStates) => job'[k] = job[k]
               /\ job'[k].attempt = job[k].attempt \/ Claim(k)

LEMMA MovesProgress ==
    ASSUME RunnerInv, NEW j \in Jobs, ~ In(j, FinalStates), NEW s, NEW b, Moves(j, s, b)
    PROVE  \A k \in Jobs : job[k] # NoRow => Progress(k)
BY RowThere DEF RunnerInv, RunnerTypeOK, Moves, OnlyRow, Progress

LEMMA RowsProgress ==
    ASSUME RunnerInv, [Next]_vars
    PROVE  \A k \in Jobs : job[k] # NoRow => Progress(k)
<1>1. /\ RunnerTypeOK /\ JobsTypeOK /\ ThreadsTypeOK /\ AppTypeOK /\ SchedulerAgrees
      /\ RowsAgree
  BY DEF RunnerInv, RunnerTypeOK
<1>2. ASSUME job' = job
      PROVE  \A k \in Jobs : job[k] # NoRow => Progress(k)
  BY <1>1, <1>2, RowThere DEF Progress
<1>3. ASSUME NEW j \in Jobs, \/ CompleteDirect(j) \/ RetryOverloaded(j) \/ AssignTurn(j)
                             \/ \E u \in BOOLEAN : FailClaimed(j, u)
                             \/ RetryTime(j)
      PROVE  \A k \in Jobs : job[k] # NoRow => Progress(k)
  BY <1>1, <1>3, DirectRow, OverloadRow, AssignRow, FailRow, RestRow, MovesProgress
     DEF In, FinalStates
<1>4. ASSUME NEW e \in EventRow, Holds(e.turn), Apply(e)
      PROVE  \A k \in Jobs : job[k] # NoRow => Progress(k)
  <2>1. /\ e.turn[1] \in Jobs /\ In(e.turn[1], {"running"})
        /\ \/ Reported(e.turn[1], e) \/ EndedIn(e.turn[1], e)
           \/ EndedForRetry(e.turn[1], e)
    BY <1>1, <1>4, ReportRow
  <2>2. ~ In(e.turn[1], FinalStates)
    BY <2>1 DEF In, FinalStates
  <2> QED BY <2>1, <2>2, MovesProgress DEF Reported, EndedIn, EndedForRetry
<1>5. CASE UNCHANGED vars
  BY <1>2, <1>5 DEF vars, jobVars
<1>6. ASSUME NEW j \in Jobs, Submit(j)
      PROVE  \A k \in Jobs : job[k] # NoRow => Progress(k)
  BY <1>1, <1>6, NewRow, RowThere DEF Submit, Progress
<1>7. ASSUME NEW j \in Jobs, Admin(j)
      PROVE  \A k \in Jobs : job[k] # NoRow => Progress(k)
  BY <1>1, <1>7, ReviewRow, RowThere DEF Admin, Progress, OnlyRow, In, FinalStates
<1>8. CASE TimeStep
  BY <1>2, <1>3, <1>8 DEF TimeStep, jobVars
<1>9. ASSUME NEW j \in Jobs, Claim(j)
      PROVE  \A k \in Jobs : job[k] # NoRow => Progress(k)
  <2>1. /\ OnlyRow(j) /\ In(j, {"queued"}) /\ job'[j] \in JobRow
        /\ job'[j].intent = job[j].intent
    BY <1>1, <1>9, ClaimRow DEF Claim
  <2> QED BY <1>1, <1>9, <2>1, RowThere DEF Progress, OnlyRow, In, FinalStates
<1>10. CASE SchedulerStep
  <2>1. ASSUME sched # Idle
        PROVE  J \in Jobs
    BY <1>1, <2>1, HandIsThere
  <2>2. \A place \in Places : At(place) => sched # Idle
    BY NotIdle
  <2>3. ASSUME sched # Idle, \/ CompleteDirect(J) \/ RetryOverloaded(J) \/ AssignTurn(J)
                             \/ \E u \in BOOLEAN : FailClaimed(J, u)
        PROVE  \A k \in Jobs : job[k] # NoRow => Progress(k)
    BY <1>3, <2>1, <2>3
  <2>4. CASE NewThread \/ BeginJob \/ DirectTool
    BY <1>2, <2>2, <2>3, <2>4 DEF NewThread, BeginJob, DirectTool, jobVars, Places
  <2>5. CASE AskForCar \/ ConfirmCar \/ ExecuteCar \/ TellResult
    BY <1>2, <2>2, <2>3, <2>5 DEF AskForCar, ConfirmCar, ExecuteCar, TellResult, jobVars, Places
  <2>6. CASE AskTurn \/ FailBeforeTurn \/ TurnRejected \/ TurnUnanswered
    BY <1>2, <2>2, <2>3, <2>6 DEF AskTurn, FailBeforeTurn, TurnRejected, TurnUnanswered,
                                  jobVars, Places
  <2>7. CASE BindTurn \/ AssignTheTurn \/ AssignFails \/ FlushTurnEvents
    BY <1>2, <2>2, <2>3, <2>7 DEF BindTurn, AssignTheTurn, AssignFails, FlushTurnEvents,
                                  jobVars, Places
  <2>8. CASE ReplayEvent
    <3>1. Head(replay) \in EventRow
      BY <1>1, <2>8, TailFacts DEF ThreadsTypeOK, ReplayEvent, RunnerInv, ThreadsAgree
    <3> QED BY <1>2, <1>4, <2>8, <3>1 DEF ReplayEvent, jobVars
  <2> QED BY <1>9, <1>10, <2>4, <2>5, <2>6, <2>7, <2>8 DEF SchedulerStep
<1>11. CASE ReaderStep
  <2>1. CASE ReadReport
    BY <1>2, <1>4, <2>1, ReaderHolds DEF ReadReport, jobVars
  <2>2. CASE ObserveMissedText
    <3>1. reader.event \in EventRow
      BY <2>2, ReaderHolds DEF ObserveMissedText, ReaderPlaces
    <3> QED BY <1>2, <1>4, <2>2, <3>1, SecondWrite DEF ObserveMissedText, jobVars
  <2>3. CASE ReadEnd \/ BufferEvent
    BY <1>2, <2>3 DEF ReadEnd, BufferEvent, jobVars
  <2>4. CASE CompleteRead
    BY <1>2, <1>4, <2>4, ReaderHolds DEF CompleteRead, ReaderPlaces, jobVars
  <2> QED BY <1>11, <2>1, <2>2, <2>3, <2>4 DEF ReaderStep
<1>12. CASE AppServerStep
  BY <1>2, <1>12 DEF AppServerStep, StartTurn, Report, FinishTurn, CallCarTool, CarryOut,
                     ServerExits, jobVars
<1>13. CASE Restart
  <2> SUFFICES ASSUME NEW k \in Jobs, job[k] # NoRow
               PROVE  Progress(k)
    OBVIOUS
  <2>1. CASE In(k, {"running"})
    <3>1. /\ JobsTypeOK' /\ job'[k].state = "recovery_required"
          /\ job'[k].intent = job[k].intent /\ job'[k].attempt = job[k].attempt
      BY <1>1, <1>13, <2>1, RecoveredRows DEF Restart
    <3>2. job'[k] \in JobRow
      BY <3>1 DEF JobsTypeOK, NoRow
    <3> QED BY <2>1, <3>1, <3>2 DEF Progress, In, FinalStates
  <2>2. CASE ~ In(k, {"running"})
    BY <1>1, <1>13, <2>2, RecoveredRows, RowThere DEF Restart, Progress
  <2> QED BY <2>1, <2>2
<1> QED BY <1>5, <1>6, <1>7, <1>8, <1>10, <1>11, <1>12, <1>13 DEF Next

(* A turn which is over stays as it ended, and what was sent stays sent.      *)
LEMMA TurnsProgress ==
    ASSUME RunnerInv, [Next]_vars
    PROVE  \A t \in Turns : /\ turn[t].at = "over" => turn'[t] = turn[t]
                            /\ turn[t].sent \subseteq turn'[t].sent
<1>1. /\ RunnerTypeOK /\ AppTypeOK /\ TurnsAgree
  BY DEF RunnerInv, RunnerTypeOK
<1>2. \A t \in Turns : turn[t] \in TurnRow
  BY <1>1 DEF AppTypeOK
<1>3. ASSUME turn' = turn
      PROVE  \A t \in Turns : /\ turn[t].at = "over" => turn'[t] = turn[t]
                              /\ turn[t].sent \subseteq turn'[t].sent
  BY <1>3
<1>4. ASSUME NEW t \in Turns, turn[t].at # "over", turn'[t].sent = turn[t].sent,
             \A u \in Turns : u # t => turn'[u] = turn[u]
      PROVE  \A u \in Turns : /\ turn[u].at = "over" => turn'[u] = turn[u]
                              /\ turn[u].sent \subseteq turn'[u].sent
  BY <1>4
<1>5. CASE AskTurn
  <2>1. turn[TurnOf(J)] = Unasked /\ TurnOf(J) \in Turns
    BY <1>1, <1>5, NotIdle, HandIsThere DEF AskTurn, RunnerInv, SchedulerAgrees, At, Places
  <2>2. turn'[TurnOf(J)] = [turn[TurnOf(J)] EXCEPT !.at = "asked"]
        /\ \A u \in Turns : u # TurnOf(J) => turn'[u] = turn[u]
    BY <1>1, <1>5, <2>1 DEF AskTurn, AppTypeOK
  <2>3. turn'[TurnOf(J)].sent = turn[TurnOf(J)].sent
    BY <1>2, <2>1, <2>2 DEF TurnRow
  <2> QED BY <1>4, <2>1, <2>2, <2>3 DEF Unasked
<1>6. CASE TurnRejected
  <2>1. turn[TurnOf(J)].at = "asked" /\ TurnOf(J) \in Turns
    BY <1>1, <1>6, NotIdle, HandIsThere DEF TurnRejected, RunnerInv, Places
  <2>2. turn'[TurnOf(J)] = [turn[TurnOf(J)] EXCEPT !.at = "none"]
        /\ \A u \in Turns : u # TurnOf(J) => turn'[u] = turn[u]
    BY <1>1, <1>6, <2>1 DEF TurnRejected, AppTypeOK
  <2>3. turn'[TurnOf(J)].sent = turn[TurnOf(J)].sent
    BY <1>2, <2>1, <2>2 DEF TurnRow
  <2> QED BY <1>4, <2>1, <2>2, <2>3
<1>7. ASSUME NEW t \in Turns, StartTurn(t)
      PROVE  \A u \in Turns : /\ turn[u].at = "over" => turn'[u] = turn[u]
                              /\ turn[u].sent \subseteq turn'[u].sent
  <2>1. turn'[t].sent = turn[t].sent /\ \A u \in Turns : u # t => turn'[u] = turn[u]
    BY <1>1, <1>2, <1>7 DEF StartTurn, AppTypeOK, TurnRow
  <2> QED BY <1>4, <1>7, <2>1 DEF StartTurn
<1>8. ASSUME NEW t \in Turns, Report(t)
      PROVE  \A u \in Turns : /\ turn[u].at = "over" => turn'[u] = turn[u]
                              /\ turn[u].sent \subseteq turn'[u].sent
  <2>1. PICK k \in TurnReports : turn' = [turn EXCEPT ![t].sent = @ \cup {k}]
    BY <1>8 DEF Report
  <2>2. turn'[t].sent = turn[t].sent \cup {k} /\ \A u \in Turns : u # t => turn'[u] = turn[u]
    BY <1>1, <1>2, <2>1 DEF AppTypeOK, TurnRow
  <2> QED BY <1>8, <2>2 DEF Report
<1>9. ASSUME NEW t \in Turns, FinishTurn(t)
      PROVE  \A u \in Turns : /\ turn[u].at = "over" => turn'[u] = turn[u]
                              /\ turn[u].sent \subseteq turn'[u].sent
  <2>1. PICK e \in TurnEndings : turn' = [turn EXCEPT ![t].at = "over", ![t].status = e.status]
    BY <1>9 DEF FinishTurn
  <2>2. turn'[t].sent = turn[t].sent /\ \A u \in Turns : u # t => turn'[u] = turn[u]
    BY <1>1, <1>2, <2>1 DEF AppTypeOK, TurnRow
  <2> QED BY <1>4, <1>9, <2>2 DEF FinishTurn
<1>10. ASSUME NEW t \in Turns, NEW c \in Callers, CallCarTool(t, c)
       PROVE  \A u \in Turns : /\ turn[u].at = "over" => turn'[u] = turn[u]
                               /\ turn[u].sent \subseteq turn'[u].sent
  <2>1. turn'[t].sent = turn[t].sent \cup {"tool"}
        /\ \A u \in Turns : u # t => turn'[u] = turn[u]
    BY <1>1, <1>2, <1>10 DEF CallCarTool, AppTypeOK, TurnRow
  <2> QED BY <1>10, <2>1 DEF CallCarTool
<1>11. CASE ServerExits \/ Restart
  BY <1>11, GoneTurns DEF ServerExits, Restart
<1>12. CASE UNCHANGED vars
  BY <1>3, <1>12 DEF vars, serviceVars, appVars
<1>13. CASE (\E j \in Jobs : Submit(j) \/ Admin(j)) \/ TimeStep
  BY <1>3, <1>13 DEF Submit, Admin, TimeStep, serviceVars, appVars
<1>14. CASE ReaderStep
  BY <1>3, <1>14 DEF ReaderStep, ReadReport, ObserveMissedText, ReadEnd, CompleteRead,
                     BufferEvent, appVars
<1>15. CASE SchedulerStep
  <2>1. CASE \E j \in Jobs : Claim(j)
    BY <1>3, <2>1 DEF Claim, appVars
  <2>2. CASE NewThread \/ BeginJob \/ DirectTool \/ AskForCar \/ ConfirmCar \/ ExecuteCar
    BY <1>3, <2>2 DEF NewThread, BeginJob, DirectTool, AskForCar, ConfirmCar, ExecuteCar,
                      Calmly, appVars
  <2>3. CASE TellResult \/ FailBeforeTurn \/ TurnUnanswered \/ BindTurn \/ AssignTheTurn
    BY <1>3, <2>3 DEF TellResult, FailBeforeTurn, TurnUnanswered, BindTurn, AssignTheTurn,
                      Calmly, appVars
  <2>4. CASE AssignFails \/ FlushTurnEvents \/ ReplayEvent
    BY <1>3, <2>4 DEF AssignFails, FlushTurnEvents, ReplayEvent, Calmly, appVars
  <2> QED BY <1>5, <1>6, <1>15, <2>1, <2>2, <2>3, <2>4 DEF SchedulerStep
<1>16. CASE AppServerStep
  <2>1. CASE \E c \in Callers \ {"scheduler"} : CarryOut(c)
    BY <1>3, <2>1 DEF CarryOut, serviceVars, appVars
  <2> QED BY <1>7, <1>8, <1>9, <1>10, <1>11, <1>16, <2>1 DEF AppServerStep
<1> QED BY <1>11, <1>12, <1>13, <1>14, <1>15, <1>16 DEF Next

-----------------------------------------------------------------------------
(* Events on their way: ends are true, and come after the reports.            *)

EventsInv == EndsAreTrue /\ EndComesLast /\ ThreadsAgree

(* An end on its way stays true.                                              *)
LEMMA ToldStays ==
    ASSUME RunnerInv, [Next]_vars
    PROVE  \A e \in EventRow : Told(turn, e) => Told(turn', e)
BY TurnsProgress DEF Told, EventRow

(* Where events are, in sequences of them.                                    *)
LEMMA EventsThere ==
    ASSUME RunnerInv
    PROVE  /\ \A n \in DOMAIN wire : wire[n] \in EventRow
           /\ \A n \in DOMAIN replay : replay[n] \in EventRow
           /\ \A t \in Turns : \A n \in DOMAIN buffer[t] : buffer[t][n] \in EventRow
           /\ reader # Idle => reader.event \in EventRow /\ reader.at \in ReaderPlaces
           /\ reader # Idle => reader \in [at : ReaderPlaces, event : EventRow]
<1>1. ThreadsTypeOK /\ AppTypeOK
  BY DEF RunnerInv, RunnerTypeOK
<1>2. \A s \in Seq(EventRow) : \A n \in DOMAIN s : s[n] \in EventRow
  BY ElementOfSeq, LenProperties
<1> QED BY <1>1, <1>2 DEF ThreadsTypeOK, AppTypeOK

(* The turn in hand stays while the scheduler applies its events.             *)
LEMMA TurnInHandStays ==
    ASSUME RunnerInv, [Next]_vars, At("replaying"), J' = J
    PROVE  TurnOf(J)' = TurnOf(J)
<1>1. J \in Jobs /\ job[J] # NoRow
  BY NotIdle, HandIsThere, RowThere DEF RunnerInv, RunnerTypeOK, SchedulerAgrees, Places
<1>2. job'[J].attempt = job[J].attempt
  BY <1>1, RowsProgress DEF Progress, Claim, At
<1> QED BY <1>2 DEF TurnOf

(* Nothing is sent, read, kept or applied.                                    *)
LEMMA EventsStay ==
    ASSUME RunnerInv, [Next]_vars, wire' = wire, buffer' = buffer, replay' = replay,
           reader' = reader,
           sched' = sched \/ (~ At("replaying") /\ sched'.at # "replaying")
    PROVE  EventsInv'
<1>1. EndsAreTrue /\ EndComesLast /\ ThreadsAgree
  BY DEF RunnerInv
<1>2. EndsAreTrue'
  BY <1>1, ToldStays, EventsThere DEF EndsAreTrue
<1>3. replay # << >> => TurnOf(J)' = TurnOf(J)
  BY <1>1, TurnInHandStays DEF ThreadsAgree, J
<1>4. EndComesLast'
  <2>1. \A m, n \in DOMAIN wire : m < n /\ IsEnd(wire[m]) => wire[m].turn # wire[n].turn
    BY <1>1 DEF EndComesLast
  <2>2. \A t : Reading(reader', t) = Reading(reader, t) /\ OnWire(wire', t) = OnWire(wire, t)
    BY DEF Reading, OnWire
  <2>3. \A n \in DOMAIN replay :
           /\ replay[n].turn = TurnOf(J)'
           /\ IsEnd(replay[n]) => /\ n = Len(replay) /\ buffer[TurnOf(J)'] = << >>
                                  /\ ~ Reading(reader, TurnOf(J)') /\ ~ OnWire(wire, TurnOf(J)')
    <3>1. replay = << >> => DOMAIN replay = {}
      OBVIOUS
    <3> QED BY <1>1, <1>3, <3>1 DEF EndComesLast
  <2> QED BY <1>1, <2>1, <2>2, <2>3 DEF EndComesLast, Reading, OnWire
<1>5. ThreadsAgree'
  BY <1>1 DEF ThreadsAgree, At
<1> QED BY <1>2, <1>4, <1>5 DEF EventsInv

(* A running turn sends an event: no end of it is on its way.                 *)
LEMMA EventsSent ==
    ASSUME RunnerInv, [Next]_vars, NEW t \in Turns, NEW e \in EventRow, e.turn = t,
           turn[t].at = "live", Told(turn', e), wire' = Append(wire, e),
           buffer' = buffer, replay' = replay, reader' = reader, sched' = sched, job' = job
    PROVE  EventsInv'
<1>1. EndsAreTrue /\ EndComesLast /\ ThreadsAgree /\ wire \in Seq(EventRow)
  BY DEF RunnerInv, RunnerTypeOK, AppTypeOK
<1>2. /\ Len(wire) \in Nat /\ DOMAIN wire = 1 .. Len(wire)
      /\ DOMAIN wire' = 1 .. (Len(wire) + 1)
      /\ \A n \in DOMAIN wire : wire'[n] = wire[n]
      /\ wire'[Len(wire) + 1] = e
  BY <1>1, AppendFacts
<1>3. \A f \in EventRow : Told(turn, f) /\ IsEnd(f) => f.turn # t
  BY DEF Told
<1>4. EndsAreTrue'
  <2>1. \A n \in DOMAIN wire' : Told(turn', wire'[n])
    <3> SUFFICES ASSUME NEW n \in DOMAIN wire' PROVE Told(turn', wire'[n])
      OBVIOUS
    <3>2. CASE n \in DOMAIN wire
      <4>1. wire'[n] = wire[n] /\ wire[n] \in EventRow /\ Told(turn, wire[n])
        BY <1>1, <1>2, <3>2, EventsThere DEF EndsAreTrue
      <4> QED BY <4>1, ToldStays
    <3>3. CASE n = Len(wire) + 1
      BY <1>2, <3>3 DEF Told
    <3> QED BY <1>2, <3>2, <3>3
  <2> QED BY <1>1, <2>1, ToldStays, EventsThere DEF EndsAreTrue
<1>5. \A u : Reading(reader', u) = Reading(reader, u)
  BY DEF Reading
<1>6. \A u : OnWire(wire', u) <=> OnWire(wire, u) \/ u = t
  BY <1>2 DEF OnWire
<1>7. TurnOf(J)' = TurnOf(J)
  BY DEF TurnOf, J
<1>8. EndComesLast'
  <2>1. \A m, n \in DOMAIN wire' : m < n /\ IsEnd(wire'[m]) => wire'[m].turn # wire'[n].turn
    <3> SUFFICES ASSUME NEW m \in DOMAIN wire', NEW n \in DOMAIN wire', m < n, IsEnd(wire'[m])
                 PROVE  wire'[m].turn # wire'[n].turn
      OBVIOUS
    <3>1. m \in DOMAIN wire /\ wire'[m] = wire[m] /\ wire[m] \in EventRow /\ Told(turn, wire[m])
      BY <1>1, <1>2, EventsThere DEF EndsAreTrue
    <3>2. CASE n \in DOMAIN wire
      BY <1>1, <1>2, <3>1, <3>2 DEF EndComesLast
    <3>3. CASE n = Len(wire) + 1
      BY <1>2, <1>3, <3>1, <3>3
    <3> QED BY <1>2, <3>2, <3>3
  <2>2. reader # Idle /\ IsEnd(reader.event) => ~ OnWire(wire', reader.event.turn)
    BY <1>1, <1>3, <1>6, EventsThere DEF EndComesLast, EndsAreTrue
  <2>3. \A u \in Turns : \A n \in DOMAIN buffer[u] :
          /\ buffer[u][n].turn = u
          /\ IsEnd(buffer[u][n]) => n = Len(buffer[u]) /\ ~ Reading(reader', u) /\ ~ OnWire(wire', u)
    BY <1>1, <1>3, <1>5, <1>6, EventsThere DEF EndComesLast, EndsAreTrue
  <2>4. ASSUME NEW n \in DOMAIN replay
        PROVE  /\ replay[n].turn = TurnOf(J)
               /\ IsEnd(replay[n]) => /\ n = Len(replay) /\ buffer[TurnOf(J)] = << >>
                                      /\ ~ Reading(reader, TurnOf(J)) /\ ~ OnWire(wire, TurnOf(J))
                                      /\ TurnOf(J) # t
    <3>1. replay[n].turn = TurnOf(J) /\ replay[n] \in EventRow /\ Told(turn, replay[n])
      BY <1>1, EventsThere DEF EndComesLast, EndsAreTrue
    <3>2. IsEnd(replay[n]) => TurnOf(J) # t
      BY <1>3, <3>1
    <3> QED BY <1>1, <3>1, <3>2 DEF EndComesLast
  <2>5. \A n \in DOMAIN replay' :
          /\ replay'[n].turn = TurnOf(J)'
          /\ IsEnd(replay'[n]) => /\ n = Len(replay') /\ buffer'[TurnOf(J)'] = << >>
                                  /\ ~ Reading(reader', TurnOf(J)') /\ ~ OnWire(wire', TurnOf(J)')
    BY <1>5, <1>6, <1>7, <2>4
  <2> QED BY <2>1, <2>2, <2>3, <2>5 DEF EndComesLast
<1>9. ThreadsAgree'
  BY <1>1 DEF ThreadsAgree, At
<1> QED BY <1>4, <1>8, <1>9 DEF EventsInv

(* The scheduler takes the buffer of the turn it has recorded.                *)
LEMMA EventsFlushed ==
    ASSUME RunnerInv, [Next]_vars, FlushTurnEvents
    PROVE  EventsInv'
<1>1. /\ EndsAreTrue /\ EndComesLast /\ ThreadsAgree /\ ThreadsTypeOK /\ RunnerTypeOK
      /\ SchedulerAgrees
  BY DEF RunnerInv, RunnerTypeOK
<1> DEFINE t == TurnOf(J)
<1>2. sched # Idle /\ t \in Turns /\ ~ At("replaying")
  BY <1>1, NotIdle, HandIsThere DEF FlushTurnEvents, At, Places
<1>3. buffer[t] \in Seq(EventRow) /\ \A n \in DOMAIN buffer[t] : IsEnd(buffer[t][n]) => n = Len(buffer[t])
  BY <1>1, <1>2 DEF ThreadsTypeOK, EndComesLast
<1>4. EndLast(buffer[t]) = buffer[t]
  BY <1>3, EndLastFacts
<1>5. /\ replay' = buffer[t] /\ wire' = wire /\ reader' = reader /\ job' = job
      /\ buffer' = [buffer EXCEPT ![t] = << >>]
      /\ IF buffer[t] = << >> THEN sched' = Idle ELSE Goes("replaying")
  BY <1>4 DEF FlushTurnEvents, appVars, jobVars
<1>6. buffer'[t] = << >> /\ \A u \in Turns : u # t => buffer'[u] = buffer[u]
  BY <1>1, <1>2, <1>5 DEF ThreadsTypeOK
<1>7. EndsAreTrue'
  <2>1. ASSUME NEW n \in DOMAIN replay'
        PROVE  Told(turn', replay'[n])
    <3>1. n \in DOMAIN buffer[t] /\ replay'[n] = buffer[t][n]
      BY <1>5
    <3>2. buffer[t][n] \in EventRow /\ Told(turn, buffer[t][n])
      BY <1>1, <1>2, <3>1, EventsThere DEF EndsAreTrue
    <3> QED BY <3>1, <3>2, ToldStays
  <2>2. ASSUME NEW u \in Turns, NEW n \in DOMAIN buffer'[u]
        PROVE  Told(turn', buffer'[u][n])
    <3>1. u # t /\ buffer'[u] = buffer[u]
      BY <1>6
    <3> QED BY <1>1, <3>1, ToldStays, EventsThere DEF EndsAreTrue
  <2> QED BY <1>1, <1>5, <2>1, <2>2, ToldStays, EventsThere DEF EndsAreTrue
<1>8. buffer[t] # << >> => J' = J /\ TurnOf(J)' = t /\ At("replaying")'
  <2> SUFFICES ASSUME buffer[t] # << >> PROVE J' = J /\ TurnOf(J)' = t /\ At("replaying")'
    OBVIOUS
  <2>1. J' = J /\ sched'.at = "replaying"
    BY <1>1, <1>2, <1>5, GoesOn DEF Places
  <2> QED BY <1>5, <2>1 DEF TurnOf, At
<1> HIDE DEF t
<1>9. \A u : (Reading(reader', u) <=> Reading(reader, u)) /\ (OnWire(wire', u) <=> OnWire(wire, u))
  BY <1>5 DEF Reading, OnWire
<1>10. EndComesLast'
  <2>1. \A u \in Turns : \A n \in DOMAIN buffer'[u] :
          /\ buffer'[u][n].turn = u
          /\ IsEnd(buffer'[u][n]) => n = Len(buffer'[u]) /\ ~ Reading(reader, u) /\ ~ OnWire(wire, u)
    BY <1>1, <1>2, <1>6 DEF EndComesLast
  <2>2. \A n \in DOMAIN buffer[t] :
          /\ buffer[t][n].turn = t
          /\ IsEnd(buffer[t][n]) => n = Len(buffer[t]) /\ ~ Reading(reader, t) /\ ~ OnWire(wire, t)
    BY <1>1, <1>2 DEF EndComesLast
  <2>3. \A n \in DOMAIN replay' :
          /\ replay'[n].turn = TurnOf(J)'
          /\ IsEnd(replay'[n]) => /\ n = Len(replay') /\ buffer'[TurnOf(J)'] = << >>
                                  /\ ~ Reading(reader, TurnOf(J)') /\ ~ OnWire(wire, TurnOf(J)')
    <3>1. CASE buffer[t] = << >>
      BY <1>5, <3>1
    <3>2. CASE buffer[t] # << >>
      BY <1>5, <1>6, <1>8, <2>2, <3>2
    <3> QED BY <3>1, <3>2
  <2>4. (TurnOf(J))' = TurnOf(J)'
    OBVIOUS
  <2> QED BY <1>1, <1>5, <1>9, <2>1, <2>3 DEF EndComesLast, OnWire, Reading
<1>11. ThreadsAgree'
  <2>1. replay' # << >> <=> At("replaying")'
    BY <1>5, <1>8 DEF At, Idle
  <2>2. \A u \in Turns : buffer[u] = << >> => buffer'[u] = << >>
    BY <1>6
  <2>3. reader # Idle => reader.event.turn \in Turns
    BY EventsThere DEF EventRow
  <2>4. reader.at = "ending" => reader # Idle
    BY DEF Idle
  <2> QED BY <1>1, <1>5, <2>1, <2>2, <2>3, <2>4 DEF ThreadsAgree
<1> QED BY <1>7, <1>10, <1>11 DEF EventsInv

(* The first event is read off the wire.                                      *)
LEMMA WireRead ==
    ASSUME RunnerInv, [Next]_vars, wire # << >>, wire' = Tail(wire)
    PROVE  /\ \A n \in DOMAIN wire' : Told(turn', wire'[n])
           /\ \A m, n \in DOMAIN wire' : m < n /\ IsEnd(wire'[m]) => wire'[m].turn # wire'[n].turn
           /\ \A t : OnWire(wire', t) => OnWire(wire, t)
           /\ OnWire(wire, Head(wire).turn)
           /\ IsEnd(Head(wire)) => ~ OnWire(wire', Head(wire).turn)
           /\ Head(wire) \in EventRow /\ Told(turn, Head(wire))
           /\ \A n \in DOMAIN wire : n # 1 => n - 1 \in DOMAIN wire' /\ wire'[n - 1] = wire[n]
<1>1. EndsAreTrue /\ EndComesLast /\ wire \in Seq(EventRow)
  BY DEF RunnerInv, RunnerTypeOK, AppTypeOK
<1>2. /\ \A n \in DOMAIN wire' : n + 1 \in DOMAIN wire /\ wire'[n] = wire[n + 1]
      /\ \A n \in DOMAIN wire : n # 1 => n - 1 \in DOMAIN wire'
      /\ 1 \in DOMAIN wire /\ Head(wire) = wire[1]
      /\ DOMAIN wire \subseteq Nat \ {0} /\ DOMAIN wire' \subseteq Nat \ {0}
  <2>1. wire' \in Seq(EventRow)
    BY <1>1, TailFacts
  <2>2. DOMAIN wire = 1 .. Len(wire) /\ DOMAIN wire' = 1 .. Len(wire')
    BY <1>1, <2>1, LenProperties
  <2> QED BY <1>1, <2>2, TailFacts
<1>3. ASSUME NEW n \in DOMAIN wire'
      PROVE  Told(turn', wire'[n])
  <2>1. wire'[n] \in EventRow /\ Told(turn, wire'[n])
    BY <1>1, <1>2, EventsThere DEF EndsAreTrue
  <2> QED BY <2>1, ToldStays
<1>4. ASSUME NEW m \in DOMAIN wire', NEW n \in DOMAIN wire', m < n, IsEnd(wire'[m])
      PROVE  wire'[m].turn # wire'[n].turn
  <2>1. m + 1 < n + 1
    BY <1>2, <1>4
  <2> QED BY <1>1, <1>2, <1>4, <2>1 DEF EndComesLast
<1>5. \A t : OnWire(wire', t) => OnWire(wire, t)
  BY <1>2 DEF OnWire
<1>6. OnWire(wire, Head(wire).turn)
  BY <1>2 DEF OnWire
<1>7. ASSUME IsEnd(Head(wire)), NEW n \in DOMAIN wire'
      PROVE  wire'[n].turn # Head(wire).turn
  <2>1. 1 < n + 1 /\ n + 1 \in DOMAIN wire
    BY <1>2
  <2> QED BY <1>1, <1>2, <1>7, <2>1 DEF EndComesLast
<1>8. IsEnd(Head(wire)) => ~ OnWire(wire', Head(wire).turn)
  BY <1>7 DEF OnWire
<1>9. Head(wire) \in EventRow /\ Told(turn, Head(wire))
  BY <1>1, <1>2, EventsThere DEF EndsAreTrue
<1>10. \A n \in DOMAIN wire : n # 1 => n - 1 \in DOMAIN wire' /\ wire'[n - 1] = wire[n]
  BY <1>2
<1> QED BY <1>3, <1>4, <1>5, <1>6, <1>8, <1>9, <1>10

(* The events in the scheduler's hands stay there.                            *)
LEMMA ReplayStays ==
    ASSUME RunnerInv, [Next]_vars, replay' = replay, sched' = sched
    PROVE  /\ replay' # << >> <=> At("replaying")'
           /\ \A n \in DOMAIN replay' : /\ replay'[n].turn = TurnOf(J)'
                                        /\ Told(turn', replay'[n])
           /\ \A n \in DOMAIN replay' :
                 IsEnd(replay'[n]) => /\ n = Len(replay') /\ buffer[TurnOf(J)'] = << >>
                                      /\ ~ Reading(reader, TurnOf(J)')
                                      /\ ~ OnWire(wire, TurnOf(J)')
<1>1. EndsAreTrue /\ EndComesLast /\ ThreadsAgree
  BY DEF RunnerInv
<1>2. replay # << >> => TurnOf(J)' = TurnOf(J)
  BY <1>1, TurnInHandStays DEF ThreadsAgree, J
<1>3. replay = << >> => DOMAIN replay = {}
  OBVIOUS
<1>4. \A n \in DOMAIN replay : Told(turn', replay[n])
  BY <1>1, ToldStays, EventsThere DEF EndsAreTrue
<1> QED BY <1>1, <1>2, <1>3, <1>4 DEF EndComesLast, ThreadsAgree, At

(* The reader takes the first event off the wire.                             *)
LEMMA EventTaken ==
    ASSUME RunnerInv, [Next]_vars, reader = Idle, wire # << >>, wire' = Tail(wire),
           buffer' = buffer, replay' = replay, sched' = sched,
           reader' = Idle
           \/ (\E place \in ReaderPlaces :
                 /\ reader' = [at |-> place, event |-> Head(wire)]
                 /\ place = "ending" => IsEnd(Head(wire)) /\ buffer[Head(wire).turn] = << >>
                 /\ place = "half_missed" => Head(wire).kind = "text"
                 /\ IsEnd(Head(wire)) => place = "ending")
    PROVE  EventsInv'
<1>1. EndsAreTrue /\ EndComesLast /\ ThreadsAgree
  BY DEF RunnerInv
<1> DEFINE e == Head(wire)
<1>2. e \in EventRow /\ Told(turn, e) /\ OnWire(wire, e.turn) /\ Told(turn', e)
  BY WireRead, ToldStays
<1>3. reader' # Idle => /\ reader'.event = e
                        /\ reader'.at = "ending" => IsEnd(e) /\ buffer[e.turn] = << >>
                        /\ reader'.at = "half_missed" => e.kind = "text"
                        /\ IsEnd(e) => buffer[e.turn] = << >>
  OBVIOUS
<1>4. \A t : Reading(reader', t) => t = e.turn
  BY <1>3 DEF Reading
<1> HIDE DEF e
<1>5. EndsAreTrue'
  <2>1. \A t \in Turns : \A n \in DOMAIN buffer[t] : Told(turn', buffer[t][n])
    BY <1>1, ToldStays, EventsThere DEF EndsAreTrue
  <2> QED BY <1>2, <1>3, <2>1, WireRead, ReplayStays DEF EndsAreTrue
<1>6. EndComesLast'
  <2>1. reader' # Idle /\ IsEnd(reader'.event) => ~ OnWire(wire', reader'.event.turn)
    BY <1>3, WireRead DEF e
  <2>2. ASSUME NEW t \in Turns, NEW n \in DOMAIN buffer[t]
        PROVE  /\ buffer[t][n].turn = t
               /\ IsEnd(buffer[t][n]) => n = Len(buffer[t]) /\ ~ Reading(reader', t) /\ ~ OnWire(wire', t)
    <3>1. IsEnd(buffer[t][n]) => t # e.turn
      BY <1>1, <1>2 DEF EndComesLast
    <3> QED BY <1>1, <1>4, <3>1, WireRead DEF EndComesLast
  <2>3. ASSUME NEW n \in DOMAIN replay', IsEnd(replay'[n])
        PROVE  /\ n = Len(replay') /\ buffer[TurnOf(J)'] = << >>
               /\ ~ Reading(reader', TurnOf(J)') /\ ~ OnWire(wire', TurnOf(J)')
    <3>1. TurnOf(J)' # e.turn
      BY <1>2, <2>3, ReplayStays
    <3> QED BY <1>4, <2>3, <3>1, ReplayStays, WireRead
  <2>4. \A n \in DOMAIN replay' : replay'[n].turn = TurnOf(J)'
    BY ReplayStays
  <2> QED BY <2>1, <2>2, <2>3, <2>4, WireRead DEF EndComesLast
<1>7. ThreadsAgree'
  <2>1. reader'.at \in {"ending", "half_missed"} => reader' # Idle
    BY DEF Idle
  <2> QED BY <1>3, <2>1, ReplayStays DEF ThreadsAgree, At
<1> QED BY <1>5, <1>6, <1>7 DEF EventsInv

(* It keeps an event for the scheduler.                                       *)
LEMMA EventKept ==
    ASSUME RunnerInv, [Next]_vars, NEW e \in EventRow, Told(turn, e), Keep(e),
           reader' = Idle, replay' = replay, sched' = sched,
           \/ reader # Idle /\ e = reader.event /\ wire' = wire
           \/ reader = Idle /\ wire # << >> /\ e = Head(wire) /\ wire' = Tail(wire)
    PROVE  EventsInv'
<1>1. EndsAreTrue /\ EndComesLast /\ ThreadsAgree /\ ThreadsTypeOK
  BY DEF RunnerInv, RunnerTypeOK
<1>2. /\ \A n \in DOMAIN wire' : Told(turn', wire'[n])
      /\ \A m, n \in DOMAIN wire' : m < n /\ IsEnd(wire'[m]) => wire'[m].turn # wire'[n].turn
      /\ \A t : OnWire(wire', t) => OnWire(wire, t)
      /\ Reading(reader, e.turn) \/ OnWire(wire, e.turn)
      /\ IsEnd(e) => ~ OnWire(wire', e.turn)
      /\ \A t : ~ Reading(reader', t)
  <2>1. CASE reader # Idle
    <3>1. \A n \in DOMAIN wire : Told(turn', wire[n])
      BY <1>1, ToldStays, EventsThere DEF EndsAreTrue
    <3> QED BY <1>1, <2>1, <3>1 DEF EndComesLast, Reading
  <2>2. CASE reader = Idle
    BY <2>2, WireRead DEF Reading
  <2> QED BY <2>1, <2>2
<1>3. e.turn \in Turns /\ Told(turn', e)
  BY ToldStays DEF EventRow
<1>4. ASSUME NEW n \in DOMAIN buffer[e.turn]
      PROVE  ~ IsEnd(buffer[e.turn][n]) /\ buffer[e.turn][n].turn = e.turn
  BY <1>1, <1>2, <1>3 DEF EndComesLast
<1>5. \A t \in Turns : \A n \in DOMAIN buffer[t] : Told(turn', buffer[t][n])
  BY <1>1, ToldStays, EventsThere DEF EndsAreTrue
<1>6. ASSUME NEW t \in Turns, NEW n \in DOMAIN buffer'[t]
      PROVE  /\ Told(turn', buffer'[t][n]) /\ buffer'[t][n].turn = t
             /\ IsEnd(buffer'[t][n]) => n = Len(buffer'[t]) /\ ~ OnWire(wire', t)
  <2>1. CASE buffer'[t] = buffer[t]
    BY <1>1, <1>2, <1>5, <2>1 DEF EndComesLast
  <2>2. CASE t = e.turn /\ buffer'[t] = Append(buffer[t], e)
    <3>1. buffer[t] \in Seq(EventRow)
      BY <1>1 DEF ThreadsTypeOK
    <3>2. CASE n \in DOMAIN buffer[t]
      BY <1>4, <1>5, <2>2, <3>1, <3>2, AppendFacts
    <3>3. CASE n = Len(buffer[t]) + 1
      BY <1>2, <1>3, <2>2, <3>1, <3>3, AppendFacts
    <3> QED BY <2>2, <3>1, <3>2, <3>3, AppendFacts
  <2>3. \/ buffer' = [buffer EXCEPT ![e.turn] = Append(buffer[e.turn], e)]
        \/ buffer' = buffer
    BY <1>1, KeptThere
  <2>4. DOMAIN buffer = Turns
    BY <1>1 DEF ThreadsTypeOK
  <2>5. buffer'[t] = buffer[t] \/ (t = e.turn /\ buffer'[t] = Append(buffer[t], e))
    BY <2>3, <2>4
  <2> QED BY <2>1, <2>2, <2>5
<1>7. EndsAreTrue'
  BY <1>2, <1>6, ReplayStays DEF EndsAreTrue
<1>8. ASSUME NEW n \in DOMAIN replay', IsEnd(replay'[n])
      PROVE  /\ n = Len(replay') /\ buffer'[TurnOf(J)'] = << >>
             /\ ~ Reading(reader', TurnOf(J)') /\ ~ OnWire(wire', TurnOf(J)')
  <2>1. TurnOf(J)' # e.turn
    BY <1>2, <1>8, ReplayStays
  <2>2. buffer'[TurnOf(J)'] = buffer[TurnOf(J)']
    <3>1. replay'[n].turn \in Turns
      BY EventsThere DEF EventRow
    <3> QED BY <1>1, <2>1, <3>1, KeptThere, ReplayStays DEF ThreadsTypeOK
  <2> QED BY <1>2, <1>8, <2>2, ReplayStays
<1>9. EndComesLast'
  <2>1. \A n \in DOMAIN replay' : replay'[n].turn = TurnOf(J)'
    BY ReplayStays
  <2> QED BY <1>2, <1>6, <1>8, <2>1 DEF EndComesLast
<1>10. ThreadsAgree'
  BY ReplayStays DEF ThreadsAgree, At, Idle
<1> QED BY <1>7, <1>9, <1>10 DEF EventsInv

(* The scheduler applies the first of the events it took.                     *)
LEMMA EventsReplayed ==
    ASSUME RunnerInv, [Next]_vars, ReplayEvent
    PROVE  EventsInv'
<1>1. EndsAreTrue /\ EndComesLast /\ ThreadsAgree /\ ThreadsTypeOK
  BY DEF RunnerInv, RunnerTypeOK
<1>2. /\ replay' = Tail(replay) /\ buffer' = buffer /\ reader' = reader /\ wire' = wire
      /\ IF Len(replay) = 1 THEN sched' = Idle ELSE sched' = sched
      /\ At("replaying")
  BY DEF ReplayEvent, appVars
<1>3. replay # << >> /\ replay \in Seq(EventRow)
  BY <1>1, <1>2 DEF ThreadsAgree, ThreadsTypeOK
<1>4. /\ Len(replay) \in Nat \ {0} /\ Len(replay') = Len(replay) - 1 /\ replay' \in Seq(EventRow)
      /\ \A n \in DOMAIN replay' : n + 1 \in DOMAIN replay /\ replay'[n] = replay[n + 1]
  BY <1>2, <1>3, TailFacts
<1>5. /\ replay' = << >> <=> Len(replay) = 1
      /\ DOMAIN replay' \subseteq Nat /\ replay' = << >> => DOMAIN replay' = {}
  <2>1. replay' = << >> <=> Len(replay') = 0
    BY <1>4, EmptySeq
  <2>2. DOMAIN replay' = 1 .. Len(replay')
    BY <1>4, LenProperties
  <2> QED BY <1>4, <2>1, <2>2
<1>6. replay' # << >> => TurnOf(J)' = TurnOf(J)
  BY <1>2, <1>5, TurnInHandStays DEF J
<1>7. EndsAreTrue'
  <2>1. \A n \in DOMAIN replay : Told(turn', replay[n])
    BY <1>1, ToldStays, EventsThere DEF EndsAreTrue
  <2>2. \A n \in DOMAIN replay' : Told(turn', replay'[n])
    BY <1>4, <2>1
  <2> QED BY <1>1, <1>2, <2>2, ToldStays, EventsThere DEF EndsAreTrue
<1>8. EndComesLast'
  <2> SUFFICES ASSUME NEW n \in DOMAIN replay'
               PROVE  /\ replay'[n].turn = TurnOf(J)'
                      /\ IsEnd(replay'[n]) => /\ n = Len(replay') /\ buffer[TurnOf(J)'] = << >>
                                              /\ ~ Reading(reader, TurnOf(J)')
                                              /\ ~ OnWire(wire, TurnOf(J)')
    BY <1>1, <1>2 DEF EndComesLast
  <2>1. TurnOf(J)' = TurnOf(J) /\ n \in Nat /\ n + 1 \in DOMAIN replay /\ replay'[n] = replay[n + 1]
    BY <1>4, <1>5, <1>6
  <2>2. IsEnd(replay'[n]) => n = Len(replay')
    BY <1>1, <1>4, <2>1 DEF EndComesLast
  <2> QED BY <1>1, <2>1, <2>2 DEF EndComesLast
<1>9. ThreadsAgree'
  BY <1>1, <1>2, <1>5 DEF ThreadsAgree, At, Idle
<1> QED BY <1>7, <1>8, <1>9 DEF EventsInv

(* The add-on starts with nothing on its way.                                 *)
LEMMA NothingOnItsWay ==
    ASSUME sched' = Idle, reader' = Idle, replay' = << >>, wire' = << >>,
           buffer' = [t \in Turns |-> << >>]
    PROVE  EventsInv'
BY DEF EventsInv, EndsAreTrue, EndComesLast, ThreadsAgree, At, Idle

(* The steps of the scheduler.                                                *)
LEMMA EventsOfScheduler ==
    ASSUME RunnerInv, [Next]_vars, SchedulerStep
    PROVE  EventsInv'
<1>1. RunnerTypeOK /\ SchedulerAgrees
  BY DEF RunnerInv
<1>2. ASSUME NEW at \in Places \ {"replaying"}, At(at), Calmly,
             \/ sched' = Idle
             \/ sched' = sched
             \/ \E place \in Places \ {"replaying"} : Goes(place)
      PROVE  EventsInv'
  <2>1. ~ At("replaying") /\ sched # Idle
    BY <1>2, NotIdle DEF At
  <2>2. sched'.at # "replaying"
    <3>1. CASE sched' = Idle
      BY <3>1 DEF Idle
    <3>2. CASE sched' = sched
      BY <2>1, <3>2 DEF At
    <3>3. CASE \E place \in Places \ {"replaying"} : Goes(place)
      BY <1>1, <2>1, <3>3, GoesOn
    <3> QED BY <1>2, <3>1, <3>2, <3>3
  <2> QED BY <1>2, <2>1, <2>2, EventsStay DEF Calmly, appVars
<1>3. ASSUME NEW j \in Jobs, Claim(j)
      PROVE  EventsInv'
  BY <1>3, EventsStay DEF Claim, At, appVars
<1>4. CASE NewThread \/ BeginJob \/ DirectTool
  BY <1>2, <1>4 DEF NewThread, BeginJob, DirectTool, Stops, Places
<1>5. CASE AskForCar \/ ConfirmCar
  BY <1>2, <1>5 DEF AskForCar, ConfirmCar, Stops, Places
<1>6. CASE ExecuteCar \/ TellResult \/ FailBeforeTurn
  BY <1>2, <1>6 DEF ExecuteCar, TellResult, FailBeforeTurn, Stops, Places
<1>7. CASE TurnUnanswered \/ BindTurn
  BY <1>2, <1>7 DEF TurnUnanswered, BindTurn, Stops, Places
<1>8. CASE AssignTheTurn \/ AssignFails
  BY <1>2, <1>8 DEF AssignTheTurn, AssignFails, Places
<1>9. CASE AskTurn \/ TurnRejected
  <2>1. /\ wire' = wire /\ buffer' = buffer /\ replay' = replay /\ reader' = reader
        /\ sched # Idle /\ ~ At("replaying")
        /\ Goes("asked") \/ sched' = Idle
    BY <1>9, NotIdle DEF AskTurn, TurnRejected, Stops, At, Places
  <2>2. sched'.at # "replaying"
    BY <1>1, <2>1, GoesOn DEF Idle, Places
  <2> QED BY <2>1, <2>2, EventsStay
<1> QED BY <1>3, <1>4, <1>5, <1>6, <1>7, <1>8, <1>9, EventsFlushed, EventsReplayed
        DEF SchedulerStep

(* The steps of the reader.                                                   *)
LEMMA EventsOfReader ==
    ASSUME RunnerInv, [Next]_vars, ReaderStep
    PROVE  EventsInv'
<1>1. EndsAreTrue /\ EndComesLast /\ ThreadsAgree /\ ThreadsTypeOK
  BY DEF RunnerInv, RunnerTypeOK
<1>2. reader.at \in ReaderPlaces => /\ reader # Idle /\ Told(turn, reader.event)
                                    /\ reader \in [at : ReaderPlaces, event : EventRow]
  BY <1>1, EventsThere DEF EndsAreTrue, Idle, ReaderPlaces
<1>3. ASSUME reader.at \in ReaderPlaces, wire' = wire, buffer' = buffer, replay' = replay,
             sched' = sched, reader' = Idle \/ reader' = [reader EXCEPT !.at = "missed"]
      PROVE  EventsInv'
  <2>1. reader' # Idle => reader'.event = reader.event /\ reader'.at = "missed"
    BY <1>2, <1>3 DEF ReaderPlaces
  <2>2. \A t : Reading(reader', t) => Reading(reader, t)
    BY <1>2, <1>3, <2>1 DEF Reading
  <2>3. EndsAreTrue'
    BY <1>1, <1>2, <1>3, <2>1, ReplayStays, ToldStays, EventsThere DEF EndsAreTrue
  <2>4. EndComesLast'
    <3>1. reader' # Idle /\ IsEnd(reader'.event) => ~ OnWire(wire, reader'.event.turn)
      BY <1>1, <1>2, <1>3, <2>1 DEF EndComesLast
    <3>2. \A t \in Turns : \A n \in DOMAIN buffer[t] :
             /\ buffer[t][n].turn = t
             /\ IsEnd(buffer[t][n]) =>
                   n = Len(buffer[t]) /\ ~ Reading(reader', t) /\ ~ OnWire(wire, t)
      BY <1>1, <2>2 DEF EndComesLast
    <3>3. \A n \in DOMAIN replay' :
             IsEnd(replay'[n]) => /\ n = Len(replay') /\ buffer[TurnOf(J)'] = << >>
                                  /\ ~ Reading(reader', TurnOf(J)')
                                  /\ ~ OnWire(wire, TurnOf(J)')
      BY <1>3, <2>2, ReplayStays
    <3>4. \A m, n \in DOMAIN wire : m < n /\ IsEnd(wire[m]) => wire[m].turn # wire[n].turn
      BY <1>1 DEF EndComesLast
    <3> QED BY <1>3, <3>1, <3>2, <3>3, <3>4, ReplayStays DEF EndComesLast
  <2>5. ThreadsAgree'
    <3>1. reader'.at # "ending" /\ reader'.at # "half_missed"
      BY <1>3, <2>1 DEF Idle
    <3> QED BY <1>3, <3>1, ReplayStays DEF ThreadsAgree
  <2> QED BY <2>3, <2>4, <2>5 DEF EventsInv
<1>4. CASE ReadReport
  <2>1. /\ reader = Idle /\ wire # << >> /\ wire' = Tail(wire) /\ NotEnd(Head(wire))
        /\ buffer' = buffer /\ replay' = replay /\ sched' = sched
        /\ \/ reader' = Idle
           \/ \E place \in {"half_missed", "missed"} :
                 /\ reader' = [at |-> place, event |-> Head(wire)]
                 /\ place = "half_missed" => Head(wire).kind = "text"
    BY <1>4 DEF ReadReport
  <2> QED BY <2>1, EventTaken DEF ReaderPlaces, NotEnd, IsEnd
<1>5. CASE ObserveMissedText
  BY <1>3, <1>5 DEF ObserveMissedText, ReaderPlaces, appVars
<1>6. CASE ReadEnd
  <2>1. /\ reader = Idle /\ wire # << >> /\ wire' = Tail(wire) /\ IsEnd(Head(wire))
        /\ replay' = replay /\ sched' = sched
    BY <1>6 DEF ReadEnd
  <2>2. CASE buffer[Head(wire).turn] # << >>
    BY <1>6, <2>1, <2>2, EventKept, WireRead DEF ReadEnd
  <2>3. CASE buffer[Head(wire).turn] = << >>
    <3>1. reader' = [at |-> "ending", event |-> Head(wire)] /\ buffer' = buffer
      BY <1>6, <2>3 DEF ReadEnd
    <3> QED BY <2>1, <2>3, <3>1, EventTaken DEF ReaderPlaces
  <2> QED BY <2>2, <2>3
<1>7. CASE CompleteRead
  <2>1. /\ reader.at \in ReaderPlaces
        /\ reader' = Idle \/ reader' = [reader EXCEPT !.at = "missed"]
    BY <1>7 DEF CompleteRead, ReaderPlaces
  <2> QED BY <1>3, <1>7, <2>1 DEF CompleteRead, appVars
<1>8. CASE BufferEvent
  <2>1. reader.at \in ReaderPlaces /\ Keep(reader.event) /\ reader' = Idle
    BY <1>8 DEF BufferEvent, ReaderPlaces
  <2>2. reader.event \in EventRow
    BY <1>2, <2>1
  <2> QED BY <1>2, <1>8, <2>1, <2>2, EventKept DEF BufferEvent, appVars
<1> QED BY <1>4, <1>5, <1>6, <1>7, <1>8 DEF ReaderStep

(* Every step.                                                                *)
LEMMA EventsStep ==
    ASSUME RunnerInv, [Next]_vars
    PROVE  EventsInv'
<1>1. AppTypeOK /\ RunnerTypeOK /\ SchedulerAgrees
  BY DEF RunnerInv, RunnerTypeOK
<1>2. CASE AppServerStep
  <2>1. ASSUME NEW t \in Turns, StartTurn(t)
        PROVE  EventsInv'
    <3>1. CASE sched' = sched
      BY <2>1, <3>1, EventsStay DEF StartTurn
    <3>2. CASE At("asked") /\ Goes("answered")
      <4>1. sched'.at = "answered" /\ ~ At("replaying")
        BY <1>1, <3>2, NotIdle, GoesOn DEF At, Places
      <4> QED BY <2>1, <4>1, EventsStay DEF StartTurn
    <3> QED BY <2>1, <3>1, <3>2 DEF StartTurn
  <2>2. ASSUME NEW t \in Turns, Report(t)
        PROVE  EventsInv'
    <3>1. PICK k \in TurnReports : wire' = Append(wire, Event(t, k)) /\ k # "tool"
      BY <2>2 DEF Report
    <3>2. Event(t, k) \in EventRow /\ ~ IsEnd(Event(t, k))
      BY <3>1, ReportsAssumption DEF Event, EventRow, IsEnd, Reports
    <3>3. Event(t, k).turn = t /\ Told(turn', Event(t, k))
      BY <3>2 DEF Event, Told
    <3> QED BY <2>2, <3>1, <3>2, <3>3, EventsSent DEF Report, threadVars, jobVars
  <2>3. ASSUME NEW t \in Turns, FinishTurn(t)
        PROVE  EventsInv'
    <3>1. PICK e \in TurnEndings : /\ wire' = Append(wire, EndOf(t, e))
                                   /\ turn' = [turn EXCEPT ![t].at = "over", ![t].status = e.status]
      BY <2>3 DEF FinishTurn
    <3>2. e \in Endings /\ EndOf(t, e) \in EventRow
      BY ServiceAssumption DEF EndOf, EventRow
    <3>3. turn[t] \in TurnRow /\ turn'[t] = [turn[t] EXCEPT !.at = "over", !.status = e.status]
      BY <1>1, <3>1 DEF AppTypeOK
    <3>4. turn'[t].at = "over" /\ turn'[t].status = e.status
      BY <3>3 DEF TurnRow
    <3>5. EndOf(t, e).turn = t /\ Told(turn', EndOf(t, e))
      BY <3>2, <3>4 DEF EndOf, Told
    <3> QED BY <2>3, <3>1, <3>2, <3>5, EventsSent DEF FinishTurn, threadVars, jobVars
  <2>4. ASSUME NEW t \in Turns, NEW c \in Callers, CallCarTool(t, c)
        PROVE  EventsInv'
    BY <2>4, EventsStay DEF CallCarTool, threadVars
  <2>5. ASSUME NEW c \in Callers, CarryOut(c)
        PROVE  EventsInv'
    BY <2>5, EventsStay DEF CarryOut, serviceVars, threadVars, appVars
  <2>6. CASE ServerExits
    BY <2>6, EventsStay DEF ServerExits, threadVars
  <2> QED BY <1>2, <2>1, <2>2, <2>3, <2>4, <2>5, <2>6 DEF AppServerStep
<1>3. CASE Restart
  BY <1>3, NothingOnItsWay DEF Restart
<1>4. CASE (\E j \in Jobs : Submit(j) \/ Admin(j)) \/ TimeStep
  BY <1>4, EventsStay DEF Submit, Admin, TimeStep, serviceVars, threadVars, appVars
<1>5. CASE UNCHANGED vars
  BY <1>5, EventsStay DEF vars, serviceVars, threadVars, appVars
<1> QED BY <1>2, <1>3, <1>4, <1>5, EventsOfScheduler, EventsOfReader DEF Next

-----------------------------------------------------------------------------
(* What turns did is known of their jobs, or on its way.                      *)

(* What a step must do to the row of an effective turn's job.                 *)
LEMMA StaysAccounted ==
    ASSUME RunnerInv, NEW t \in Turns, t \notin lost, Effective(t),
           turn'[t].sent \cap Effects = turn[t].sent \cap Effects,
           job'[t[1]] # NoRow, job'[t[1]].attempt = job[t[1]].attempt,
           job'[t[1]].state # "queued",
           job'[t[1]].state = "running" =>
              /\ job[t[1]].state = "running"
              /\ job[t[1]].seen => job'[t[1]].seen
              /\ job[t[1]].text => job'[t[1]].text
              /\ \A k \in Effects : Ahead(t, k) =>
                    Ahead(t, k)' \/ (job'[t[1]].seen /\ (k = "text" => job'[t[1]].text)),
           job'[t[1]].state = "completed" /\ "text" \in turn[t].sent =>
              job'[t[1]].text \/ job'[t[1]].reviewed
    PROVE  Accounted(t)'
<1>1. Accounted(t)
  BY DEF RunnerInv, NoneIsLost
<1>2. \A k \in Effects : k \in turn'[t].sent <=> k \in turn[t].sent
  OBVIOUS
<1> DEFINE j == t[1]
<1>3. t = <<j, job'[j].attempt>>
  BY <1>1 DEF Accounted, TurnOf
<1>4. job'[j].state = "running" => \A k \in turn'[t].sent \cap Effects : job'[j].seen \/ Ahead(t, k)'
  BY <1>1, <1>2 DEF Accounted, In
<1>5. job'[j].state = "running" /\ "text" \in turn'[t].sent => job'[j].text \/ Ahead(t, "text")'
  BY <1>1, <1>2 DEF Accounted, In, Effects
<1>6. job'[j].state = "completed" /\ "text" \in turn'[t].sent => job'[j].text \/ job'[j].reviewed
  BY <1>2 DEF Effects
<1> QED BY <1>3, <1>4, <1>5, <1>6 DEF Accounted, TurnOf, In

(* Its row is left alone, and what is on its way goes on.                     *)
LEMMA RowLeftAlone ==
    ASSUME RunnerInv, NEW t \in Turns, t \notin lost, Effective(t),
           turn'[t].sent \cap Effects = turn[t].sent \cap Effects,
           job'[t[1]] = job[t[1]],
           job[t[1]].state = "running" => \A k \in Effects : Ahead(t, k) => Ahead(t, k)'
    PROVE  Accounted(t)'
<1>1. Accounted(t)
  BY DEF RunnerInv, NoneIsLost
<1>2. "text" \in Effects
  BY DEF Effects
<1> QED BY <1>1, <1>2, StaysAccounted DEF Accounted, In

(* Its row is written, but says no less.                                      *)
LEMMA RowMovesOn ==
    ASSUME RunnerInv, NEW t \in Turns, t \notin lost, Effective(t),
           turn'[t].sent \cap Effects = turn[t].sent \cap Effects,
           NEW state, NEW bound, Moves(t[1], state, bound),
           \/ state \in {"failed", "recovery_required"}
           \/ state = "completed" /\ job'[t[1]].text = TRUE
           \/ /\ state = "running" /\ In(t[1], {"running"}) /\ Keeps(t[1])
              /\ \A k \in Effects : Ahead(t, k) => Ahead(t, k)'
    PROVE  Accounted(t)'
<1>1. job'[t[1]] # NoRow
  BY DEF Moves, NoRow, JobRow
<1> QED BY <1>1, StaysAccounted DEF Moves, Keeps, In

(* What is on its way stays there.                                            *)
LEMMA AheadStays ==
    ASSUME wire' = wire, reader' = reader, buffer' = buffer, replay' = replay
    PROVE  \A t, k : Ahead(t, k)' <=> Ahead(t, k)
BY DEF Ahead

(* A job that goes back to the queue had no effective turn.                   *)
LEMMA ScheduledRows ==
    ASSUME RunnerInv, sched # Idle, NEW t \in Turns, t \notin lost, Effective(t),
           turn'[t].sent \cap Effects = turn[t].sent \cap Effects,
           \A k \in Effects : Ahead(t, k) => Ahead(t, k)',
           \/ UNCHANGED job
           \/ CompleteDirect(J)
           \/ AssignTurn(J)
           \/ \E u \in BOOLEAN : FailClaimed(J, u)
           \/ RetryOverloaded(J) /\ turn[TurnOf(J)].sent = {}
    PROVE  Accounted(t)'
<1>1. JobsTypeOK /\ J \in Jobs /\ Accounted(t)
  BY HandIsThere DEF RunnerInv, RunnerTypeOK, NoneIsLost
<1>2. CASE job'[t[1]] = job[t[1]]
  BY <1>2, RowLeftAlone
<1>3. CASE t[1] = J
  <2>1. t = TurnOf(J) /\ turn[TurnOf(J)].sent # {}
    BY <1>1, <1>3 DEF Accounted, Effective
  <2>2. CASE UNCHANGED job
    BY <1>2, <2>2
  <2>3. CASE CompleteDirect(J)
    BY <1>1, <1>3, <2>3, DirectRow, RowMovesOn
  <2>4. CASE AssignTurn(J)
    BY <1>1, <1>3, <2>4, AssignRow, RowMovesOn
  <2>5. CASE \E u \in BOOLEAN : FailClaimed(J, u)
    <3>1. PICK u \in BOOLEAN : FailClaimed(J, u)
      BY <2>5
    <3>2. PICK state \in {"failed", "recovery_required"} : Moves(J, state, job[J].bound)
      BY <1>1, <3>1, FailRow
    <3> QED BY <1>3, <3>2, RowMovesOn
  <2> QED BY <2>1, <2>2, <2>3, <2>4, <2>5
<1>4. CASE t[1] # J
  <2>1. t[1] \in Jobs
    BY DEF Turns
  <2>2. UNCHANGED job \/ OnlyRow(J)
    BY <1>1, DirectRow, AssignRow, FailRow, OverloadRow DEF Moves
  <2> QED BY <1>2, <1>4, <2>1, <2>2 DEF OnlyRow
<1> QED BY <1>3, <1>4

(* An event is applied: its effect counts from now on, and an end finds       *)
(* nothing else of its turn on the way.                                       *)
LEMMA ReportAccounted ==
    ASSUME RunnerInv, NEW e \in EventRow, Holds(e.turn), Apply(e), turn' = turn,
           NEW t \in Turns, t \notin lost, Effective(t),
           \A k \in Effects : Ahead(t, k) => Ahead(t, k)' \/ (t = e.turn /\ e.kind = k),
           IsEnd(e) /\ t = e.turn => \A k \in Effects : ~ Ahead(t, k)
    PROVE  Accounted(t)'
<1>1. JobsTypeOK /\ Accounted(t) /\ t[1] \in Jobs
  BY DEF RunnerInv, RunnerTypeOK, NoneIsLost, Turns
<1>2. t = TurnOf(t[1]) /\ e.turn = TurnOf(e.turn[1]) /\ e.turn[1] \in Jobs
      /\ In(e.turn[1], {"running"})
  BY <1>1, ReportRow DEF Accounted
<1>3. CASE t # e.turn
  <2>1. t[1] # e.turn[1]
    BY <1>2, <1>3
  <2>2. OnlyRow(e.turn[1])
    BY <1>1, ReportRow DEF Reported, EndedIn, EndedForRetry, Moves
  <2>3. job'[t[1]] = job[t[1]]
    BY <1>1, <2>1, <2>2 DEF OnlyRow
  <2> QED BY <1>3, <2>3, RowLeftAlone
<1>4. CASE t = e.turn
  <2> DEFINE j == t[1]
  <2>1. Reported(j, e) \/ EndedIn(j, e) \/ EndedForRetry(j, e)
    BY <1>1, <1>4, ReportRow
  <2>2. CASE Reported(j, e)
    <3>1. job'[j] # NoRow /\ job'[j].attempt = job[j].attempt /\ job'[j].state = "running"
      BY <2>2 DEF Reported, Moves, NoRow, JobRow
    <3>2. job[j].state = "running" /\ job[j].seen => job'[j].seen
      BY <1>2, <1>4, <2>2 DEF Reported, In
    <3>3. job[j].text => job'[j].text
      BY <2>2 DEF Reported
    <3>4. \A k \in Effects : Ahead(t, k) => Ahead(t, k)' \/ (job'[j].seen /\ (k = "text" => job'[j].text))
      BY <2>2 DEF Reported
    <3>5. job[j].state = "running" /\ (job[j].seen => job'[j].seen)
      BY <1>2, <1>4, <2>2 DEF Reported, In
    <3> QED BY <3>1, <3>3, <3>4, <3>5, StaysAccounted
  <2>3. CASE EndedIn(j, e)
    <3>1. "text" \in Effects /\ \A k \in Effects : ~ Ahead(t, k)
      BY <1>4, <2>3 DEF EndedIn, Effects
    <3>2. "text" \in turn[t].sent => job'[j].text
      BY <1>1, <1>2, <1>4, <2>3, <3>1 DEF Accounted, EndedIn
    <3>3. job'[j] # NoRow /\ job'[j].attempt = job[j].attempt /\ job'[j].state \in FinalStates
      BY <2>3 DEF EndedIn, Moves, NoRow, JobRow, EndState, FinalStates
    <3> QED BY <3>2, <3>3, StaysAccounted DEF FinalStates
  <2>4. CASE EndedForRetry(j, e)
    <3>1. \A k \in Effects : ~ Ahead(t, k)
      BY <1>4, <2>4 DEF EndedForRetry
    <3>2. PICK k \in Effects : k \in turn[t].sent
      BY DEF Effective
    <3>3. job[j].seen \/ Ahead(t, k)
      BY <1>1, <1>2, <1>4, <3>2 DEF Accounted
    <3> QED BY <2>4, <3>1, <3>3 DEF EndedForRetry
  <2> QED BY <2>1, <2>2, <2>3, <2>4
<1> QED BY <1>3, <1>4

(* The scheduler's steps.                                                     *)
LEMMA AccountsOfReplay ==
    ASSUME RunnerInv, ReplayEvent, NEW t \in Turns, t \notin lost, Effective(t)
    PROVE  Accounted(t)'
<1>1. ThreadsAgree /\ EndComesLast /\ ThreadsTypeOK /\ SchedulerAgrees /\ RunnerTypeOK
  BY DEF RunnerInv, RunnerTypeOK
<1> DEFINE e == Head(replay)
<1>2. /\ replay' = Tail(replay) /\ buffer' = buffer /\ reader' = reader /\ wire' = wire
      /\ At("replaying") /\ turn' = turn
      /\ IF Holds(e.turn) THEN Apply(e) ELSE job' = job
  BY DEF ReplayEvent, appVars, jobVars
<1>3. replay # << >> /\ replay \in Seq(EventRow)
  BY <1>1, <1>2 DEF ThreadsAgree, ThreadsTypeOK
<1>4. /\ e \in EventRow /\ 1 \in DOMAIN replay /\ e = replay[1]
      /\ \A n \in DOMAIN replay : n # 1 => n - 1 \in DOMAIN replay' /\ replay'[n - 1] = replay[n]
      /\ DOMAIN replay = 1 .. Len(replay) /\ Len(replay) \in Nat
  <2>1. /\ Tail(replay) \in Seq(EventRow)
        /\ \A n \in DOMAIN Tail(replay) : n + 1 \in DOMAIN replay /\ Tail(replay)[n] = replay[n + 1]
        /\ \A n \in DOMAIN replay : n # 1 => n - 1 \in DOMAIN Tail(replay)
        /\ 1 \in DOMAIN replay /\ Head(replay) = replay[1] /\ Head(replay) \in EventRow
    BY <1>3, TailFacts
  <2>2. Len(replay) \in Nat /\ DOMAIN replay = 1 .. Len(replay)
    BY <1>3, LenProperties
  <2>3. ASSUME NEW n \in DOMAIN replay, n # 1
        PROVE  Tail(replay)[n - 1] = replay[n]
    <3>1. n - 1 \in DOMAIN Tail(replay) /\ n \in Nat /\ (n - 1) + 1 = n
      BY <2>1, <2>2, <2>3
    <3> QED BY <2>1, <3>1
  <2> QED BY <1>2, <2>1, <2>2, <2>3
<1>5. e.turn = TurnOf(J)
  BY <1>1, <1>4 DEF EndComesLast
<1> HIDE DEF e
<1>6. \A k \in Effects : Ahead(t, k) => Ahead(t, k)' \/ (t = e.turn /\ e.kind = k)
  BY <1>2, <1>4 DEF Ahead
<1>7. CASE Holds(e.turn)
  <2>1. ASSUME IsEnd(e), t = e.turn, NEW k \in Effects, Ahead(t, k)
        PROVE  FALSE
    <3>1. /\ Len(replay) = 1 /\ buffer[t] = << >>
          /\ ~ Reading(reader, t) /\ ~ OnWire(wire, t)
      BY <1>1, <1>4, <1>5, <2>1 DEF EndComesLast
    <3>2. \A n \in DOMAIN replay : n = 1
      BY <1>4, <3>1
    <3>3. k # "end"
      BY DEF Effects
    <3>4. DOMAIN buffer[t] = {}
      BY <3>1
    <3> QED BY <1>4, <2>1, <3>1, <3>2, <3>3, <3>4 DEF Ahead, Reading, OnWire, IsEnd
  <2> QED BY <1>2, <1>4, <1>6, <1>7, <2>1, ReportAccounted
<1>8. CASE ~ Holds(e.turn)
  <2>1. job' = job
    BY <1>2, <1>8
  <2>2. CASE t # e.turn
    BY <1>2, <1>6, <2>1, <2>2, RowLeftAlone
  <2>3. CASE t = e.turn
    <3>1. t[1] = J
      BY <1>5, <2>3 DEF TurnOf
    <3>2. sched # Idle
      BY <1>2, NotIdle DEF Places
    <3>3. In(J, {"running"}) => job[J].bound
      BY <1>1, <1>2, <3>2 DEF SchedulerAgrees, At, Places
    <3>4. ~ In(J, {"running"})
      BY <1>5, <1>8, <3>1, <2>3, <3>3 DEF Holds
    <3> QED BY <1>2, <2>1, <3>1, <3>4, RowLeftAlone DEF In
  <2> QED BY <2>2, <2>3
<1> QED BY <1>7, <1>8

LEMMA AccountsOfFlush ==
    ASSUME RunnerInv, FlushTurnEvents, NEW t \in Turns, t \notin lost, Effective(t)
    PROVE  Accounted(t)'
<1>1. /\ EndComesLast /\ ThreadsAgree /\ ThreadsTypeOK /\ RunnerTypeOK /\ SchedulerAgrees
  BY DEF RunnerInv, RunnerTypeOK
<1> DEFINE u == TurnOf(J)
<1>2. sched # Idle /\ u \in Turns /\ ~ At("replaying")
  BY <1>1, NotIdle, HandIsThere DEF FlushTurnEvents, At, Places
<1>3. buffer[u] \in Seq(EventRow) /\ \A n \in DOMAIN buffer[u] : IsEnd(buffer[u][n]) => n = Len(buffer[u])
  BY <1>1, <1>2 DEF ThreadsTypeOK, EndComesLast
<1>4. EndLast(buffer[u]) = buffer[u]
  BY <1>3, EndLastFacts
<1>5. /\ replay' = buffer[u] /\ wire' = wire /\ reader' = reader /\ job' = job /\ turn' = turn
      /\ buffer' = [buffer EXCEPT ![u] = << >>] /\ replay = << >>
  BY <1>1, <1>2, <1>4 DEF FlushTurnEvents, appVars, jobVars, ThreadsAgree
<1>6. \A v \in Turns : v # u => buffer'[v] = buffer[v]
  BY <1>1, <1>5 DEF ThreadsTypeOK
<1>7. \A n \in DOMAIN buffer[u] : buffer[u][n].turn = u
  BY <1>1, <1>2 DEF EndComesLast
<1> HIDE DEF u
<1>8. \A k : Ahead(t, k) => Ahead(t, k)'
  <2>1. CASE t = u
    BY <1>5, <1>7, <2>1 DEF Ahead
  <2>2. CASE t # u
    BY <1>5, <1>6, <2>2 DEF Ahead
  <2> QED BY <2>1, <2>2
<1> QED BY <1>5, <1>8, RowLeftAlone

LEMMA AccountsOfScheduler ==
    ASSUME RunnerInv, SchedulerStep, NEW t \in Turns, t \notin lost',
           Effective(t)'
    PROVE  Accounted(t)'
<1>1. RunnerTypeOK /\ SchedulerAgrees /\ JobsTypeOK /\ AppTypeOK /\ RowsAgree /\ TurnsAgree
  BY DEF RunnerInv, RunnerTypeOK
<1>2. lost' = lost
  BY DEF SchedulerStep, Claim, NewThread, BeginJob, DirectTool, AskForCar, ConfirmCar, ExecuteCar,
         TellResult, AskTurn, FailBeforeTurn, TurnRejected, TurnUnanswered, BindTurn,
         AssignTheTurn, AssignFails, FlushTurnEvents, ReplayEvent, Calmly
<1>3. turn'[t].sent = turn[t].sent
  <2>1. CASE turn' = turn
    BY <2>1
  <2>2. CASE AskTurn \/ TurnRejected
    <3>1. PICK at \in {"asked", "none"} : turn' = [turn EXCEPT ![TurnOf(J)].at = at]
      BY <2>2 DEF AskTurn, TurnRejected
    <3> QED BY <1>1, <3>1 DEF AppTypeOK, TurnRow
  <2> QED BY <2>1, <2>2
          DEF SchedulerStep, Claim, NewThread, BeginJob, DirectTool, AskForCar, ConfirmCar,
              ExecuteCar, TellResult, FailBeforeTurn, TurnUnanswered, BindTurn,
              AssignTheTurn, AssignFails, FlushTurnEvents, ReplayEvent, Calmly, appVars
<1>4. Effective(t) /\ t \notin lost /\ Accounted(t)
  BY <1>2, <1>3 DEF Effective, RunnerInv, NoneIsLost
<1>5. ASSUME NEW j \in Jobs, Claim(j)
      PROVE  Accounted(t)'
  <2>1. OnlyRow(j) /\ In(j, {"queued"})
    BY <1>1, <1>5, ClaimRow DEF Claim
  <2>2. t[1] # j /\ t[1] \in Jobs
    BY <1>4, <2>1 DEF Accounted, Turns
  <2>3. job'[t[1]] = job[t[1]]
    BY <2>1, <2>2 DEF OnlyRow
  <2> QED BY <1>3, <1>4, <1>5, <2>3, AheadStays, RowLeftAlone DEF Claim, appVars
<1>6. ASSUME wire' = wire, reader' = reader, buffer' = buffer, replay' = replay, sched # Idle,
             \/ UNCHANGED job
             \/ CompleteDirect(J)
             \/ AssignTurn(J)
             \/ \E u \in BOOLEAN : FailClaimed(J, u)
             \/ RetryOverloaded(J) /\ turn[TurnOf(J)].sent = {}
      PROVE  Accounted(t)'
  BY <1>3, <1>4, <1>6, AheadStays, ScheduledRows
<1>7. At("claimed") \/ At("ready") => turn[TurnOf(J)].sent = {}
  BY <1>1, NotIdle DEF SchedulerAgrees, At, Places, Unasked
<1>8. CASE NewThread \/ FailBeforeTurn
  BY <1>6, <1>7, <1>8, NotIdle DEF NewThread, FailBeforeTurn, Calmly, Places, appVars
<1>9. CASE BeginJob \/ DirectTool
  BY <1>6, <1>9, NotIdle DEF BeginJob, DirectTool, Calmly, Places, appVars, jobVars
<1>10. CASE AskForCar \/ ConfirmCar
  BY <1>6, <1>10, NotIdle DEF AskForCar, ConfirmCar, Calmly, Places, appVars, jobVars
<1>11. CASE ExecuteCar \/ TellResult
  BY <1>6, <1>11, NotIdle DEF ExecuteCar, TellResult, Calmly, Places, appVars, jobVars
<1>12. CASE TurnUnanswered \/ BindTurn
  BY <1>6, <1>12, NotIdle DEF TurnUnanswered, BindTurn, Calmly, Places, appVars, jobVars
<1>13. CASE AssignTheTurn \/ AssignFails
  BY <1>6, <1>13, NotIdle DEF AssignTheTurn, AssignFails, Calmly, Places, appVars
<1>14. CASE AskTurn
  BY <1>6, <1>14, NotIdle DEF AskTurn, Places, jobVars
<1>15. CASE TurnRejected
  <2>1. sched # Idle /\ turn[TurnOf(J)].sent = {}
    BY <1>1, <1>15, NotIdle, HandIsThere DEF TurnRejected, TurnsAgree, Places
  <2> QED BY <1>6, <1>15, <2>1 DEF TurnRejected
<1> QED BY <1>4, <1>5, <1>8, <1>9, <1>10, <1>11, <1>12, <1>13, <1>14, <1>15,
           AccountsOfFlush, AccountsOfReplay DEF SchedulerStep

(* The reader's steps.                                                        *)
LEMMA AccountsOfReader ==
    ASSUME RunnerInv, [Next]_vars, ReaderStep, NEW t \in Turns, t \notin lost', Effective(t)'
    PROVE  Accounted(t)'
<1>1. RunnerTypeOK /\ JobsTypeOK /\ ThreadsTypeOK /\ EndComesLast /\ ThreadsAgree /\ EndsAreTrue
  BY DEF RunnerInv, RunnerTypeOK
<1>2. turn' = turn /\ replay' = replay /\ lost \subseteq lost'
  BY DEF ReaderStep, ReadReport, ObserveMissedText, ReadEnd, CompleteRead, BufferEvent,
         Keep, appVars
<1>3. t \notin lost /\ Effective(t)
  BY <1>2 DEF Effective
<1>4. Accounted(t) /\ t[1] \in Jobs
  BY <1>3 DEF RunnerInv, NoneIsLost, Turns
<1>5. reader.at \in ReaderPlaces => reader # Idle /\ reader.event \in EventRow
                                    /\ reader \in [at : ReaderPlaces, event : EventRow]
  BY EventsThere DEF Idle, ReaderPlaces
<1>6. ASSUME reader = Idle, wire # << >>, wire' = Tail(wire)
      PROVE  \A k : Ahead(t, k) =>
                \/ \E n \in DOMAIN wire' : wire'[n].turn = t /\ wire'[n].kind = k
                \/ Head(wire).turn = t /\ Head(wire).kind = k
                \/ \E n \in DOMAIN buffer[t] : buffer[t][n].kind = k
                \/ \E n \in DOMAIN replay : replay[n].turn = t /\ replay[n].kind = k
  <2>1. wire[1] = Head(wire)
    OBVIOUS
  <2> QED BY <1>6, <2>1, WireRead DEF Ahead
<1>7. ASSUME NEW e \in EventRow, Keep(e)
      PROVE  \A k : \/ \E n \in DOMAIN buffer[t] : buffer[t][n].kind = k
                    \/ e.turn = t /\ e.kind = k
                    => \E n \in DOMAIN buffer'[t] : buffer'[t][n].kind = k
  <2>1. buffer[t] \in Seq(EventRow) /\ e.turn \in Turns /\ DOMAIN buffer = Turns
    BY <1>1 DEF ThreadsTypeOK, EventRow
  <2>2. CASE buffer' = buffer /\ lost' = lost \cup {e.turn}
    BY <2>2
  <2>3. CASE buffer' = [buffer EXCEPT ![e.turn] = Append(buffer[e.turn], e)]
    <3>1. CASE t # e.turn
      BY <2>1, <2>3, <3>1
    <3>2. CASE t = e.turn
      <4>1. buffer'[t] = Append(buffer[t], e)
        BY <2>1, <2>3, <3>2
      <4> QED BY <2>1, <4>1, <3>2, AppendFacts
    <3> QED BY <3>1, <3>2
  <2> QED BY <1>1, <1>7, <2>2, <2>3, KeptThere
<1>8. CASE ReadReport
  <2> DEFINE e == Head(wire)
  <2>1. /\ reader = Idle /\ wire # << >> /\ wire' = Tail(wire) /\ NotEnd(e) /\ buffer' = buffer
        /\ IF Holds(e.turn) THEN Apply(e) /\ reader' = reader
           ELSE job' = job /\ reader' # Idle /\ reader'.event = e
    BY <1>8 DEF ReadReport, jobVars, Idle
  <2>2. e \in EventRow
    BY <2>1, WireRead
  <2>3. CASE Holds(e.turn)
    <3>1. \A k \in Effects : Ahead(t, k) => Ahead(t, k)' \/ (t = e.turn /\ e.kind = k)
      BY <1>2, <1>6, <2>1 DEF Ahead
    <3> QED BY <1>2, <1>3, <2>1, <2>2, <2>3, <3>1, ReportAccounted DEF NotEnd, IsEnd
  <2>4. CASE ~ Holds(e.turn)
    <3>1. \A k \in Effects : Ahead(t, k) => Ahead(t, k)'
      BY <1>2, <1>6, <2>1, <2>4 DEF Ahead
    <3> QED BY <1>2, <1>3, <2>1, <2>4, <3>1, RowLeftAlone
  <2> QED BY <2>3, <2>4
<1>9. CASE ObserveMissedText
  <2>1. /\ reader.at \in ReaderPlaces /\ reader' = [reader EXCEPT !.at = "missed"]
        /\ wire' = wire /\ buffer' = buffer
    BY <1>9 DEF ObserveMissedText, ReaderPlaces, appVars
  <2>2. reader' # Idle /\ reader'.event = reader.event /\ reader # Idle
    BY <1>5, <2>1 DEF Idle
  <2>3. \A k \in Effects : Ahead(t, k) => Ahead(t, k)'
    BY <1>2, <2>1, <2>2 DEF Ahead
  <2>4. CASE Holds(reader.event.turn)
    <3> DEFINE f == [reader.event EXCEPT !.kind = "activity"]
    <3>1. f \in EventRow /\ f.turn = reader.event.turn /\ f.kind = "activity"
      BY <1>5, <2>1 DEF EventRow, Reports
    <3>2. Apply(f)
      BY <1>9, <2>4, <3>1 DEF ObserveMissedText, Apply
    <3> HIDE DEF f
    <3>3. Holds(f.turn) /\ ~ IsEnd(f)
      BY <2>4, <3>1 DEF IsEnd
    <3> QED BY <1>2, <1>3, <2>3, <3>1, <3>2, <3>3, ReportAccounted
  <2>5. CASE ~ Holds(reader.event.turn)
    <3>1. job' = job
      BY <1>9, <2>5 DEF ObserveMissedText, jobVars
    <3> QED BY <1>2, <1>3, <2>3, <3>1, RowLeftAlone
  <2> QED BY <2>4, <2>5
<1>10. CASE ReadEnd
  <2> DEFINE e == Head(wire)
  <2>1. /\ reader = Idle /\ wire # << >> /\ wire' = Tail(wire) /\ IsEnd(e) /\ job' = job
        /\ IF buffer[e.turn] # << >> THEN Keep(e) /\ reader' = reader ELSE buffer' = buffer
    BY <1>10 DEF ReadEnd, jobVars
  <2>2. e \in EventRow /\ \A k \in Effects : e.kind # k
    BY <2>1, WireRead DEF IsEnd, Effects
  <2>3. \A k : (\E n \in DOMAIN buffer[t] : buffer[t][n].kind = k)
               => \E n \in DOMAIN buffer'[t] : buffer'[t][n].kind = k
    BY <1>7, <2>1, <2>2
  <2> HIDE DEF e
  <2>4. \A k \in Effects : Ahead(t, k) => Ahead(t, k)'
    BY <1>2, <1>6, <2>1, <2>2, <2>3 DEF Ahead, e
  <2> QED BY <1>2, <1>3, <2>1, <2>4, RowLeftAlone
<1>11. CASE CompleteRead
  <2> DEFINE e == reader.event
  <2>1. /\ reader.at = "ending" /\ wire' = wire /\ buffer' = buffer
        /\ IF Holds(e.turn)
           THEN /\ Apply(e) /\ reader' = Idle
                /\ lost' = IF Overtakes(e.turn) THEN lost \cup {e.turn} ELSE lost
           ELSE job' = job /\ reader' = [reader EXCEPT !.at = "missed"]
    BY <1>11 DEF CompleteRead, appVars, jobVars
  <2>2. e \in EventRow /\ reader # Idle /\ IsEnd(e) /\ buffer[e.turn] = << >>
    BY <1>1, <1>5, <2>1 DEF ThreadsAgree, ReaderPlaces
  <2>3. \A k \in Effects : e.kind # k
    BY <2>2 DEF IsEnd, Effects
  <2>4. \A k \in Effects : Ahead(t, k) => Ahead(t, k)'
    BY <1>2, <2>1, <2>3 DEF Ahead
  <2>5. CASE Holds(e.turn)
    <3>1. ASSUME t = e.turn, NEW k \in Effects
          PROVE  ~ Ahead(t, k)
      <4>1. ~ Overtakes(t)
        BY <2>1, <2>5, <3>1
      <4>2. \A n \in DOMAIN replay : replay[n].turn # t
        BY <1>1, <4>1 DEF Overtakes, ThreadsAgree
      <4>3. ~ OnWire(wire, t)
        BY <1>1, <2>2, <3>1 DEF EndComesLast
      <4> QED BY <2>2, <2>3, <3>1, <4>2, <4>3 DEF Ahead, OnWire
    <3> QED BY <1>2, <1>3, <2>1, <2>2, <2>4, <2>5, <3>1, ReportAccounted
  <2>6. CASE ~ Holds(e.turn)
    BY <1>2, <1>3, <2>1, <2>4, <2>6, RowLeftAlone
  <2> QED BY <2>5, <2>6
<1>12. CASE BufferEvent
  <2>1. /\ reader.at \in ReaderPlaces /\ Keep(reader.event) /\ wire' = wire /\ job' = job
    BY <1>12 DEF BufferEvent, ReaderPlaces, appVars, jobVars
  <2>2. \A k \in Effects : Ahead(t, k) => Ahead(t, k)'
    BY <1>2, <1>5, <1>7, <2>1 DEF Ahead
  <2> QED BY <1>2, <1>3, <2>1, <2>2, RowLeftAlone
<1> QED BY <1>8, <1>9, <1>10, <1>11, <1>12 DEF ReaderStep

(* A turn does something: it runs, so its job is not over but by a review.    *)
LEMMA AccountsOfReport ==
    ASSUME RunnerInv, NEW t \in Turns, Report(t), t \notin lost, Effective(t)'
    PROVE  Accounted(t)'
<1>1. RunnerTypeOK /\ TurnsAgree /\ OutcomeOfItsTurn /\ wire \in Seq(EventRow) /\ AppTypeOK
  BY DEF RunnerInv, RunnerTypeOK, AppTypeOK
<1>2. PICK k \in TurnReports : /\ turn' = [turn EXCEPT ![t].sent = @ \cup {k}]
                               /\ wire' = Append(wire, Event(t, k)) /\ k # "tool"
  BY DEF Report
<1>3. /\ UNCHANGED <<job, replay, buffer, reader>> /\ turn[t].at = "live"
      /\ turn'[t].sent = turn[t].sent \cup {k}
  BY <1>1, <1>2 DEF Report, threadVars, jobVars, AppTypeOK, TurnRow
<1>4. Event(t, k) \in EventRow /\ Event(t, k).turn = t /\ Event(t, k).kind = k
  BY <1>2, ReportsAssumption DEF Event, EventRow
<1>5. \A l : Ahead(t, l) \/ l = k => Ahead(t, l)'
  BY <1>1, <1>2, <1>3, <1>4, AppendFacts DEF Ahead
<1>6. /\ job[t[1]] # NoRow /\ t = TurnOf(t[1]) /\ ~ In(t[1], {"queued"})
      /\ job[t[1]].intent.kind = "turn" /\ t[1] \in Jobs
  BY <1>1, <1>3 DEF TurnsAgree, Turns
<1>7. In(t[1], {"completed"}) => job[t[1]].reviewed
  <2>1. In(t[1], {"completed"}) => In(t[1], FinalStates) /\ job[t[1]].state # "failed"
    BY DEF In, FinalStates
  <2> QED BY <1>1, <1>3, <1>6, <2>1 DEF OutcomeOfItsTurn
<1>8. ASSUME In(t[1], {"running"})
      PROVE  /\ \A l \in turn[t].sent \cap Effects : job[t[1]].seen \/ Ahead(t, l)
             /\ "text" \in turn[t].sent => job[t[1]].text \/ Ahead(t, "text")
  <2>1. CASE Effective(t)
    BY <1>8, <2>1 DEF RunnerInv, NoneIsLost, Accounted
  <2>2. CASE ~ Effective(t)
    BY <2>2 DEF Effective, Effects
  <2> QED BY <2>1, <2>2
<1>9. In(t[1], {"running"}) =>
         /\ \A l \in turn'[t].sent \cap Effects : job[t[1]].seen \/ Ahead(t, l)'
         /\ "text" \in turn'[t].sent => job[t[1]].text \/ Ahead(t, "text")'
  BY <1>3, <1>5, <1>8
<1>10. job' = job
  BY <1>3
<1>11. t = TurnOf(t[1])'
  BY <1>6, <1>10 DEF TurnOf
<1>12. ~ In(t[1], {"queued"})' /\ job'[t[1]] # NoRow
  BY <1>6, <1>10 DEF In
<1>13. In(t[1], {"completed"})' => job'[t[1]].reviewed
  BY <1>7, <1>10 DEF In
<1>14. In(t[1], {"running"})' =>
          /\ \A l \in turn'[t].sent \cap Effects : job'[t[1]].seen \/ Ahead(t, l)'
          /\ "text" \in turn'[t].sent => job'[t[1]].text \/ Ahead(t, "text")'
  BY <1>9, <1>10 DEF In
<1> QED BY <1>11, <1>12, <1>13, <1>14 DEF Accounted

(* Every step.                                                                *)
LEMMA AccountsStep ==
    ASSUME RunnerInv, [Next]_vars
    PROVE  NoneIsLost'
<1> SUFFICES ASSUME NEW t \in Turns, t \notin lost', Effective(t)' PROVE Accounted(t)'
  BY DEF NoneIsLost
<1>1. JobsTypeOK /\ AppTypeOK /\ RunnerTypeOK
  BY DEF RunnerInv, RunnerTypeOK
<1>2. t[1] \in Jobs
  BY DEF Turns
<1>3. ASSUME lost' = lost, turn'[t].sent \cap Effects = turn[t].sent \cap Effects
      PROVE  t \notin lost /\ Effective(t) /\ Accounted(t)
  BY <1>3 DEF Effective, RunnerInv, NoneIsLost
<1>4. ASSUME lost' = lost, turn'[t].sent \cap Effects = turn[t].sent \cap Effects, job' = job,
             wire' = wire \/ \E e \in EventRow : wire' = Append(wire, e),
             reader' = reader, buffer' = buffer, replay' = replay
      PROVE  Accounted(t)'
  <2>1. \A n \in DOMAIN wire : n \in DOMAIN wire' /\ wire'[n] = wire[n]
    BY <1>1, <1>4, AppendFacts DEF AppTypeOK
  <2>2. \A k : Ahead(t, k) => Ahead(t, k)'
    BY <1>4, <2>1 DEF Ahead
  <2> QED BY <1>3, <1>4, <2>2, RowLeftAlone
<1>5. ASSUME lost' = lost, turn' = turn, NEW j \in Jobs, job[j] = NoRow \/ In(j, {"queued"}),
             \A k \in Jobs \ {j} : job'[k] = job[k],
             wire' = wire, reader' = reader, buffer' = buffer, replay' = replay
      PROVE  Accounted(t)'
  <2>1. t \notin lost /\ Effective(t) /\ Accounted(t)
    BY <1>3, <1>5
  <2>2. job'[t[1]] = job[t[1]]
    BY <1>2, <1>5, <2>1 DEF Accounted
  <2> QED BY <1>5, <2>1, <2>2, AheadStays, RowLeftAlone
<1>6. ASSUME NEW j \in Jobs, Submit(j)
      PROVE  Accounted(t)'
  <2>1. job[j] = NoRow /\ \A k \in Jobs \ {j} : job'[k] = job[k]
    BY <1>1, <1>6, NewRow DEF Submit
  <2> QED BY <1>5, <1>6, <2>1 DEF Submit, serviceVars, threadVars, appVars
<1>7. ASSUME NEW j \in Jobs, Admin(j)
      PROVE  Accounted(t)'
  <2>1. UNCHANGED serviceVars
    BY <1>7 DEF Admin
  <2>2. t \notin lost /\ Effective(t) /\ Accounted(t)
    BY <1>3, <2>1 DEF serviceVars, appVars
  <2>3. PICK o \in FinalStates : ResolveRecovery(j, o)
    BY <1>7 DEF Admin
  <2>4. CASE t[1] = j
    <3>1. job'[j] # NoRow /\ job'[j].attempt = job[j].attempt /\ job'[j].state \in FinalStates
          /\ job'[j].reviewed = TRUE
      <4>1. /\ job'[j] \in JobRow /\ job'[j].attempt = job[j].attempt
            /\ job'[j].state \in FinalStates /\ job'[j].reviewed = TRUE
        BY <1>1, <2>3, ReviewRow
      <4> QED BY <4>1 DEF NoRow, JobRow
    <3> QED BY <2>1, <2>2, <2>4, <3>1, StaysAccounted DEF FinalStates, serviceVars, appVars
  <2>5. CASE t[1] # j
    <3>1. job'[t[1]] = job[t[1]]
      BY <1>1, <1>2, <2>3, <2>5, ReviewRow DEF OnlyRow
    <3> QED BY <2>1, <2>2, <3>1, AheadStays, RowLeftAlone DEF serviceVars, threadVars, appVars
  <2> QED BY <2>4, <2>5
<1>8. CASE TimeStep
  <2>1. CASE \E j \in Jobs : RetryTime(j) /\ UNCHANGED <<carVars, serviceVars>>
    <3>1. PICK j \in Jobs : RetryTime(j) /\ UNCHANGED <<carVars, serviceVars>>
      BY <2>1
    <3>2. In(j, {"queued"}) /\ \A k \in Jobs \ {j} : job'[k] = job[k]
      BY <1>1, <3>1, RestRow DEF Moves, OnlyRow
    <3> QED BY <1>5, <3>1, <3>2 DEF serviceVars, threadVars, appVars
  <2>2. CASE UNCHANGED <<jobVars, serviceVars>>
    BY <1>4, <2>2 DEF jobVars, serviceVars, threadVars, appVars
  <2> QED BY <1>8, <2>1, <2>2 DEF TimeStep
<1>9. CASE AppServerStep
  <2>1. ASSUME NEW u \in Turns, StartTurn(u)
        PROVE  Accounted(t)'
    <3>1. turn'[t].sent = turn[t].sent
      BY <1>1, <2>1 DEF StartTurn, AppTypeOK, TurnRow
    <3> QED BY <1>4, <2>1, <3>1 DEF StartTurn, jobVars
  <2>2. ASSUME NEW u \in Turns, Report(u)
        PROVE  Accounted(t)'
    <3>1. CASE u = t
      BY <2>2, <3>1, AccountsOfReport DEF Report
    <3>2. CASE u # t
      <4>1. PICK k \in TurnReports : /\ turn' = [turn EXCEPT ![u].sent = @ \cup {k}]
                                     /\ wire' = Append(wire, Event(u, k))
        BY <2>2 DEF Report
      <4>2. turn'[t] = turn[t] /\ Event(u, k) \in EventRow
        BY <1>1, <3>2, <4>1, ReportsAssumption DEF AppTypeOK, Event, EventRow
      <4> QED BY <1>4, <2>2, <4>1, <4>2 DEF Report, jobVars, threadVars
    <3> QED BY <3>1, <3>2
  <2>3. ASSUME NEW u \in Turns, FinishTurn(u)
        PROVE  Accounted(t)'
    <3>1. PICK e \in TurnEndings : /\ turn' = [turn EXCEPT ![u].at = "over", ![u].status = e.status]
                                   /\ wire' = Append(wire, EndOf(u, e))
      BY <2>3 DEF FinishTurn
    <3>2. turn'[t].sent = turn[t].sent
      BY <1>1, <3>1 DEF AppTypeOK, TurnRow
    <3>3. EndOf(u, e) \in EventRow
      BY ServiceAssumption DEF EndOf, EventRow
    <3> QED BY <1>4, <2>3, <3>1, <3>2, <3>3 DEF FinishTurn, jobVars, threadVars
  <2>4. ASSUME NEW u \in Turns, NEW c \in Callers, CallCarTool(u, c)
        PROVE  Accounted(t)'
    <3>1. turn'[t].sent \subseteq turn[t].sent \cup {"tool"} /\ turn[t].sent \subseteq turn'[t].sent
      BY <1>1, <2>4 DEF CallCarTool, AppTypeOK, TurnRow
    <3> QED BY <1>4, <2>4, <3>1 DEF CallCarTool, jobVars, threadVars, Effects
  <2>5. ASSUME NEW c \in Callers, CarryOut(c)
        PROVE  Accounted(t)'
    BY <1>4, <2>5 DEF CarryOut, jobVars, serviceVars, threadVars, appVars
  <2>6. CASE ServerExits
    <3>1. turn'[t].sent = turn[t].sent
      BY <2>6, GoneTurns DEF ServerExits
    <3> QED BY <1>4, <2>6, <3>1 DEF ServerExits, jobVars, threadVars
  <2> QED BY <1>9, <2>1, <2>2, <2>3, <2>4, <2>5, <2>6 DEF AppServerStep
<1>10. CASE Restart
  <2>1. turn'[t].sent = turn[t].sent /\ lost' = lost
    BY <1>10, GoneTurns DEF Restart
  <2>2. t \notin lost /\ Effective(t) /\ Accounted(t)
    BY <1>3, <2>1
  <2>3. RecoverRunning
    BY <1>10 DEF Restart
  <2>4. CASE In(t[1], {"running"})
    <3>1. /\ job'[t[1]].state = "recovery_required" /\ job'[t[1]].attempt = job[t[1]].attempt
      BY <1>1, <1>2, <2>3, <2>4, RecoveredRows
    <3>2. job'[t[1]] # NoRow
      BY <3>1 DEF NoRow
    <3> QED BY <2>1, <2>2, <3>1, <3>2, StaysAccounted
  <2>5. CASE ~ In(t[1], {"running"})
    <3>1. job'[t[1]] = job[t[1]]
      BY <1>1, <1>2, <2>3, <2>5, RecoveredRows
    <3> QED BY <2>1, <2>2, <2>5, <3>1, RowLeftAlone DEF In
  <2> QED BY <2>4, <2>5
<1>11. CASE UNCHANGED vars
  BY <1>4, <1>11 DEF vars, jobVars, serviceVars, threadVars, appVars
<1> QED BY <1>6, <1>7, <1>8, <1>9, <1>10, <1>11, AccountsOfScheduler, AccountsOfReader DEF Next

-----------------------------------------------------------------------------
(* The theorems.                                                              *)

(* The add-on starts with no jobs and no turns.                               *)
LEMMA RunnerInit ==
    ASSUME Init
    PROVE  RunnerInv
<1>1. /\ job = [j \in Jobs |-> NoRow] /\ arrived = << >> /\ sched = Idle /\ replay = << >>
      /\ ctx = NoContext /\ buffer = [t \in Turns |-> << >>] /\ reader = Idle /\ wire = << >>
      /\ turn = [t \in Turns |-> Unasked] /\ lost = {}
  BY DEF Init, JobsInit, ServiceInit, Unasked
<1>2. \A states : \A j \in Jobs : In(j, states) => "absent" \in states
  BY <1>1 DEF In, NoRow
<1>3. RunnerTypeOK
  <2>1. << >> \in Seq(Jobs) /\ << >> \in Seq(EventRow)
    BY EmptySeq
  <2>2. JobsTypeOK
    BY <1>1, <2>1 DEF JobsTypeOK
  <2>3. ThreadsTypeOK
    BY <1>1, <2>1 DEF ThreadsTypeOK, NoContext
  <2>4. AppTypeOK
    BY <1>1, <2>1 DEF AppTypeOK, Unasked, TurnRow
  <2> QED BY <2>2, <2>3, <2>4 DEF RunnerTypeOK
<1>4. OneIsBusy /\ InHand
  BY <1>2 DEF OneIsBusy, InHand, Busy
<1>5. RowsAgree /\ SchedulerAgrees
  BY <1>1 DEF RowsAgree, SchedulerAgrees
<1>6. TurnsAgree
  BY <1>1 DEF TurnsAgree, Turns, Unasked
<1>7. OutcomeOfItsTurn
  BY <1>2 DEF OutcomeOfItsTurn, FinalStates
<1>8. EndsAreTrue /\ EndComesLast /\ ThreadsAgree
  BY <1>1 DEF EndsAreTrue, EndComesLast, ThreadsAgree, At, Idle
<1>9. NoneIsLost
  BY <1>1 DEF NoneIsLost, Effective, Unasked
<1> QED BY <1>3, <1>4, <1>5, <1>6, <1>7, <1>8, <1>9 DEF RunnerInv

(* The invariant of the job runner is inductive, types included: what the     *)
(* scheduler and the reader do with jobs, turns and reports fits together     *)
(* after every step of either, of the app-server, of a person and of a stop.  *)
THEOREM RunnerInvariant == Spec => []RunnerInv
<1>1. Init => RunnerInv
  BY RunnerInit
<1>2. RunnerInv /\ [Next]_vars => RunnerInv'
  BY RunnerTypes, RowsStep, HandStep, EventsStep, AccountsStep DEF RunnerInv, RowsInv, EventsInv
<1> QED BY <1>1, <1>2, PTL DEF Spec

(* One job at a time runs or awaits review, and a job that runs is in the     *)
(* scheduler's hands or bound to a turn (ClaimNext, FailClaimed, Restart).    *)
THEOREM RunsOneAtATime == Spec => []OneAtATime
<1>1. RunnerInv => OneAtATime
  BY DEF RunnerInv, OneIsBusy, InHand, OneAtATime, Busy, In
<1> QED BY <1>1, RunnerInvariant, PTL

(* A turn that may be running is the latest of its job, whose message is not  *)
(* in the queue again: no message is given to the model a second time while   *)
(* the first turn may still act (RetryOverloaded, TurnUnanswered, Restart).   *)
THEOREM NeverReplayed == Spec => []UncertainNeverReplayed
<1>1. RunnerInv => UncertainNeverReplayed
  BY DEF RunnerInv, TurnsAgree, UncertainNeverReplayed
<1> QED BY <1>1, RunnerInvariant, PTL

(* Unless a person decided it, a turn job's outcome is that of its last turn  *)
(* (CompleteTurn), and one that failed without a turn never started one.      *)
THEOREM OutcomeIsTheTurns == Spec => []OutcomeOfItsTurn
<1>1. RunnerInv => OutcomeOfItsTurn
  BY DEF RunnerInv
<1> QED BY <1>1, RunnerInvariant, PTL

(* Unless a report was dropped or overtaken, a turn that did something is not *)
(* tried again and the text of a completed job is there: buffering, replaying *)
(* and applying in either thread loses none (FlushTurnEvents, CompleteRead).  *)
THEOREM ReportsAreCounted == Spec => []ReportsCount
<1>1. RunnerInv => ReportsCount
  <2> SUFFICES ASSUME RunnerInv, NEW t \in Turns \ lost
               PROVE  /\ turn[t].sent \cap Effects # {} =>
                            t = TurnOf(t[1]) /\ ~ In(t[1], {"queued"})
                      /\ "text" \in turn[t].sent /\ t = TurnOf(t[1]) /\ In(t[1], {"completed"})
                            => job[t[1]].text \/ job[t[1]].reviewed
    BY DEF ReportsCount
  <2>1. Effective(t) => Accounted(t)
    BY DEF RunnerInv, NoneIsLost
  <2>2. "text" \in turn[t].sent => Effective(t)
    BY DEF Effective, Effects
  <2> QED BY <2>1, <2>2 DEF Accounted, Effective
<1> QED BY <1>1, RunnerInvariant, PTL

-----------------------------------------------------------------------------
(* The job table keeps the promise of JobLifecycle.                           *)

Phases == [j \in Jobs |-> Phase(j)]
AllTries == [j \in Jobs |-> Tries(j)]
LifeVars == <<Phases, arrived, AllTries>>
LifeStep == Lifecycle!LifecycleNext \/ UNCHANGED LifeVars

(* What the table says of a message, in one word.                             *)
LEMMA PhaseSays ==
    ASSUME JobsTypeOK, NEW j \in Jobs
    PROVE  /\ job[j] # NoRow => Phase(j) = job[j].state /\ Tries(j) = job[j].attempt
           /\ job[j] = NoRow => Phase(j) = "none" /\ Tries(j) = 0
           /\ \A states \in SUBSET (ActiveStates \cup FinalStates) :
                 In(j, states) <=> Phase(j) \in states
           /\ Phase(j) = "none" <=> job[j] = NoRow
BY RowThere DEF Phase, Tries, In, NoRow, JobRow, ActiveStates, FinalStates

(* Where one row is written, one message's word changes.                      *)
LEMMA OnePhase ==
    ASSUME NEW j \in Jobs, \A k \in Jobs \ {j} : job'[k] = job[k]
    PROVE  /\ Phases' = [Phases EXCEPT ![j] = Phase(j)']
           /\ AllTries' = [AllTries EXCEPT ![j] = Tries(j)']
<1>1. \A k \in Jobs \ {j} : Phase(k)' = Phase(k) /\ Tries(k)' = Tries(k)
  BY DEF Phase, Tries
<1> QED BY <1>1 DEF Phases, AllTries

(* A row that moves on is given back, left in doubt or finished, or is as it  *)
(* was for the promise.                                                       *)
LEMMA LifeMoves ==
    ASSUME RunnerInv, JobsTypeOK', NEW j \in Jobs, OnlyRow(j), job[j] # NoRow, job'[j] # NoRow,
           job'[j].attempt = job[j].attempt,
           \/ job'[j].state = job[j].state
           \/ In(j, {"running"}) /\ job'[j].state = "queued" /\ job[j].attempt < MaxAttempts
           \/ In(j, {"running"}) /\ job'[j].state = "recovery_required"
           \/ In(j, Busy) /\ job'[j].state \in FinalStates
    PROVE  LifeStep
<1>1. /\ Phase(j) = job[j].state /\ Tries(j) = job[j].attempt
      /\ Phase(j)' = job'[j].state /\ Tries(j)' = job'[j].attempt
  BY PhaseSays DEF RunnerInv, RunnerTypeOK, Phase, Tries
<1>2. /\ Phases' = [Phases EXCEPT ![j] = Phase(j)']
      /\ AllTries' = AllTries /\ arrived' = arrived
  <2>1. \A k \in Jobs : Tries(k)' = Tries(k)
    BY <1>1 DEF OnlyRow, Tries
  <2> QED BY <2>1, OnePhase DEF OnlyRow, AllTries
<1>3. Phases[j] = Phase(j) /\ AllTries[j] = Tries(j)
  BY DEF Phases, AllTries
<1>4. CASE job'[j].state = job[j].state
  BY <1>1, <1>2, <1>4 DEF LifeStep, LifeVars, Phases
<1>5. CASE In(j, {"running"}) /\ job'[j].state = "queued" /\ job[j].attempt < MaxAttempts
  <2>1. Lifecycle!GiveBack(j)
    BY <1>1, <1>2, <1>3, <1>5 DEF Lifecycle!GiveBack, Lifecycle!Becomes, Phases, AllTries, In
  <2> QED BY <2>1 DEF LifeStep, Lifecycle!LifecycleNext
<1>6. CASE In(j, {"running"}) /\ job'[j].state = "recovery_required"
  <2>1. Lifecycle!Doubt(j)
    BY <1>1, <1>2, <1>3, <1>6 DEF Lifecycle!Doubt, Lifecycle!Becomes, Phases, AllTries, In
  <2> QED BY <2>1 DEF LifeStep, Lifecycle!LifecycleNext
<1>7. CASE In(j, Busy) /\ job'[j].state \in FinalStates
  <2>1. Lifecycle!Finish(j)
    BY <1>1, <1>2, <1>3, <1>7 DEF Lifecycle!Finish, Lifecycle!Becomes, Lifecycle!Outcomes, Phases,
                                  AllTries, In, Busy, FinalStates
  <2> QED BY <2>1 DEF LifeStep, Lifecycle!LifecycleNext
<1> QED BY <1>4, <1>5, <1>6, <1>7

(* The queue has room exactly when the promise says so.                       *)
LEMMA OpenIsActive == ASSUME JobsTypeOK PROVE Lifecycle!Open = Active
BY PhaseSays DEF Lifecycle!Open, Active, ActiveStates, Phases

LEMMA LifeTakes ==
    ASSUME RunnerInv, NEW j \in Jobs, NEW i \in Intents[j], CreateJob(j, i)
    PROVE  LifeStep
<1>1. JobsTypeOK /\ JobsTypeOK'
  BY NewRow DEF RunnerInv, RunnerTypeOK
<1>2. /\ job[j] = NoRow /\ job'[j] = NewJob(i) /\ arrived' = Append(arrived, j)
      /\ \A k \in Jobs \ {j} : job'[k] = job[k]
      /\ job'[j] \in JobRow
  BY <1>1, NewRow
<1>3. /\ Phase(j) = "none" /\ Tries(j) = 0
      /\ Phase(j)' = "queued" /\ Tries(j)' = 0
  BY <1>1, <1>2, RowThere DEF Phase, Tries, NewJob, NoRow
<1>4. Phases' = [Phases EXCEPT ![j] = "queued"] /\ AllTries' = AllTries
  BY <1>2, <1>3, OnePhase DEF AllTries
<1>5. Lifecycle!Cardinality(Lifecycle!Open) < MaxQueue
  <2>1. \A S : Lifecycle!Cardinality(S) = Cardinality(S)
    BY DEF Cardinality, Lifecycle!Cardinality
  <2> QED BY <1>1, <2>1, OpenIsActive DEF CreateJob
<1>6. Phases[j] = "none"
  BY <1>3 DEF Phases
<1>7. Lifecycle!Take(j)
  BY <1>2, <1>4, <1>5, <1>6 DEF Lifecycle!Take, Lifecycle!Becomes, Phases, AllTries
<1> QED BY <1>7 DEF LifeStep, Lifecycle!LifecycleNext

(* What arrived before the first in the queue is not in the queue, and none   *)
(* is busy, so it is over.                                                    *)
LEMMA LifeStarts ==
    ASSUME RunnerInv, NEW j \in Jobs, ClaimNext(j)
    PROVE  LifeStep
<1>1. JobsTypeOK /\ RowsAgree
  BY DEF RunnerInv, RunnerTypeOK
<1>2. /\ JobsTypeOK' /\ OnlyRow(j) /\ In(j, {"queued"}) /\ First(j)
      /\ \A k \in Jobs : ~ In(k, Busy)
      /\ job[j] \in JobRow /\ job'[j] \in JobRow
      /\ job'[j].state = "running" /\ job'[j].attempt = job[j].attempt + 1
  BY <1>1, ClaimRow
<1>3. job[j] # NoRow /\ job[j].attempt < MaxAttempts
  BY <1>1, <1>2, RowThere DEF RowsAgree, In
<1>4. /\ Phase(j) = "queued" /\ Tries(j) = job[j].attempt
      /\ Phase(j)' = "running" /\ Tries(j)' = job[j].attempt + 1
  BY <1>1, <1>2, <1>3, RowThere DEF Phase, Tries, In
<1>5. /\ Phases' = [Phases EXCEPT ![j] = "running"]
      /\ AllTries' = [AllTries EXCEPT ![j] = Tries(j) + 1]
  BY <1>2, <1>4, OnePhase DEF OnlyRow
<1>6. \A k \in Jobs : Phase(k) \notin {"running", "recovery_required"}
  BY <1>1, <1>2, PhaseSays DEF Busy, ActiveStates
<1>7. \E n \in DOMAIN arrived : /\ arrived[n] = j
                                /\ \A m \in 1 .. n - 1 : arrived[m] \notin Lifecycle!Open
  <2>1. PICK n \in DOMAIN arrived : /\ arrived[n] = j
                                    /\ \A m \in 1 .. n - 1 : ~ In(arrived[m], {"queued"})
    BY <1>2 DEF First
  <2>2. ASSUME NEW m \in 1 .. n - 1
        PROVE  arrived[m] \notin Active
    <3>1. ~ In(arrived[m], {"queued"})
      BY <2>1
    <3> QED BY <1>2, <3>1 DEF Active, ActiveStates, In, Busy
  <2> QED BY <1>1, <2>1, <2>2, OpenIsActive
<1>8. Lifecycle!Start(j)
  BY <1>2, <1>3, <1>4, <1>5, <1>6, <1>7
     DEF Lifecycle!Start, Lifecycle!Becomes, Phases, AllTries, OnlyRow
<1> QED BY <1>8 DEF LifeStep, Lifecycle!LifecycleNext

(* A stop leaves at most one message in doubt.                                *)
LEMMA LifeStops ==
    ASSUME RunnerInv, RecoverRunning
    PROVE  LifeStep
<1>1. JobsTypeOK /\ OneIsBusy
  BY DEF RunnerInv, RunnerTypeOK
<1>2. CASE \A k \in Jobs : ~ In(k, {"running"})
  <2>1. arrived' = arrived /\ \A k \in Jobs : job'[k] = job[k]
    BY <1>1, <1>2, RecoveredRows
  <2> QED BY <2>1 DEF LifeStep, LifeVars, Phases, AllTries, Phase, Tries
<1>3. CASE \E k \in Jobs : In(k, {"running"})
  <2>1. PICK j \in Jobs : In(j, {"running"})
    BY <1>3
  <2>2. \A k \in Jobs \ {j} : ~ In(k, {"running"})
    BY <1>1, <2>1 DEF OneIsBusy, In, Busy
  <2>3. OnlyRow(j)
    BY <1>1, <2>2, RecoveredRows DEF OnlyRow
  <2>4. /\ JobsTypeOK' /\ job[j] \in JobRow /\ job'[j].state = "recovery_required"
        /\ job'[j].attempt = job[j].attempt
    BY <1>1, <2>1, RecoveredRows
  <2>5. job[j] # NoRow /\ job'[j] # NoRow
    BY <1>1, <2>4, RowThere DEF NoRow
  <2> QED BY <2>1, <2>3, <2>4, <2>5, LifeMoves
<1> QED BY <1>2, <1>3

LEMMA LifeSteps ==
    ASSUME RunnerInv, [Next]_vars
    PROVE  LifeStep
<1>1. /\ RunnerTypeOK /\ JobsTypeOK /\ ThreadsTypeOK /\ AppTypeOK /\ SchedulerAgrees
  BY DEF RunnerInv, RunnerTypeOK
<1>2. ASSUME UNCHANGED jobVars
      PROVE  LifeStep
  BY <1>2 DEF LifeStep, LifeVars, Phases, AllTries, Phase, Tries, jobVars
<1>3. ASSUME JobsTypeOK', NEW j \in Jobs, NEW s, NEW b, Moves(j, s, b),
             \/ s = job[j].state
             \/ In(j, {"running"}) /\ s = "queued" /\ job[j].attempt < MaxAttempts
             \/ In(j, {"running"}) /\ s \in {"recovery_required"} \cup FinalStates
      PROVE  LifeStep
  <2>1. job[j] # NoRow /\ job'[j] # NoRow
    BY <1>1, <1>3, RowThere DEF Moves
  <2> QED BY <1>3, <2>1, LifeMoves DEF Moves, In, Busy
<1>4. ASSUME NEW j \in Jobs, \/ CompleteDirect(j) \/ RetryOverloaded(j) \/ AssignTurn(j)
                             \/ \E u \in BOOLEAN : FailClaimed(j, u)
                             \/ RetryTime(j)
      PROVE  LifeStep
  <2>1. CASE CompleteDirect(j)
    BY <1>1, <1>3, <2>1, DirectRow DEF FinalStates
  <2>2. CASE RetryOverloaded(j)
    BY <1>1, <1>3, <2>2, OverloadRow DEF FinalStates
  <2>3. CASE AssignTurn(j)
    BY <1>1, <1>3, <2>3, AssignRow DEF In
  <2>4. CASE \E u \in BOOLEAN : FailClaimed(j, u)
    BY <1>1, <1>3, <2>4, FailRow DEF FinalStates
  <2>5. CASE RetryTime(j)
    BY <1>1, <1>3, <2>5, RestRow DEF In
  <2> QED BY <1>4, <2>1, <2>2, <2>3, <2>4, <2>5
<1>5. ASSUME NEW e \in EventRow, Holds(e.turn), Apply(e)
      PROVE  LifeStep
  <2>1. /\ e.turn[1] \in Jobs /\ In(e.turn[1], {"running"}) /\ JobsTypeOK'
        /\ \/ Reported(e.turn[1], e) \/ EndedIn(e.turn[1], e)
           \/ EndedForRetry(e.turn[1], e)
    BY <1>1, <1>5, ReportRow
  <2>2. EndState(e.end) \in FinalStates
    BY DEF EndState, FinalStates
  <2> QED BY <1>3, <2>1, <2>2 DEF Reported, EndedIn, EndedForRetry, In
<1>6. CASE UNCHANGED vars
  BY <1>2, <1>6 DEF vars
<1>7. ASSUME NEW j \in Jobs, Submit(j)
      PROVE  LifeStep
  BY <1>7, LifeTakes DEF Submit
<1>8. ASSUME NEW j \in Jobs, Admin(j)
      PROVE  LifeStep
  <2>1. PICK o \in FinalStates : ResolveRecovery(j, o)
    BY <1>8 DEF Admin
  <2>2. /\ JobsTypeOK' /\ OnlyRow(j) /\ In(j, {"recovery_required"})
        /\ job[j] \in JobRow /\ job'[j] \in JobRow
        /\ job'[j].state = o /\ job'[j].attempt = job[j].attempt
    BY <1>1, <2>1, ReviewRow
  <2>3. job[j] # NoRow /\ job'[j] # NoRow
    BY <1>1, <2>2, RowThere
  <2> QED BY <2>2, <2>3, LifeMoves DEF In, Busy
<1>9. CASE TimeStep
  BY <1>2, <1>4, <1>9 DEF TimeStep
<1>10. CASE SchedulerStep
  <2>1. ASSUME sched # Idle
        PROVE  J \in Jobs
    BY <1>1, <2>1, HandIsThere
  <2>2. \A place \in Places : At(place) => sched # Idle
    BY NotIdle
  <2>3. ASSUME sched # Idle, \/ CompleteDirect(J) \/ RetryOverloaded(J) \/ AssignTurn(J)
                             \/ \E u \in BOOLEAN : FailClaimed(J, u)
        PROVE  LifeStep
    BY <1>4, <2>1, <2>3
  <2>4. CASE NewThread \/ BeginJob \/ DirectTool
    BY <1>2, <2>2, <2>3, <2>4 DEF NewThread, BeginJob, DirectTool, jobVars, Places
  <2>5. CASE AskForCar \/ ConfirmCar \/ ExecuteCar \/ TellResult
    BY <1>2, <2>2, <2>3, <2>5 DEF AskForCar, ConfirmCar, ExecuteCar, TellResult, jobVars, Places
  <2>6. CASE AskTurn \/ FailBeforeTurn \/ TurnRejected \/ TurnUnanswered
    BY <1>2, <2>2, <2>3, <2>6 DEF AskTurn, FailBeforeTurn, TurnRejected, TurnUnanswered,
                                  jobVars, Places
  <2>7. CASE BindTurn \/ AssignTheTurn \/ AssignFails \/ FlushTurnEvents
    BY <1>2, <2>2, <2>3, <2>7 DEF BindTurn, AssignTheTurn, AssignFails, FlushTurnEvents,
                                  jobVars, Places
  <2>8. CASE ReplayEvent
    <3>1. Head(replay) \in EventRow
      BY <1>1, <2>8, TailFacts DEF ThreadsTypeOK, ReplayEvent, RunnerInv, ThreadsAgree
    <3> QED BY <1>2, <1>5, <2>8, <3>1 DEF ReplayEvent
  <2>9. CASE \E j \in Jobs : Claim(j)
    BY <2>9, LifeStarts DEF Claim
  <2> QED BY <1>10, <2>4, <2>5, <2>6, <2>7, <2>8, <2>9 DEF SchedulerStep
<1>11. CASE ReaderStep
  <2>1. CASE ReadReport
    BY <1>2, <1>5, <2>1, ReaderHolds DEF ReadReport, jobVars
  <2>2. CASE ObserveMissedText
    <3>1. reader.event \in EventRow
      BY <2>2, ReaderHolds DEF ObserveMissedText, ReaderPlaces
    <3> QED BY <1>2, <1>5, <2>2, <3>1, SecondWrite DEF ObserveMissedText, jobVars
  <2>3. CASE ReadEnd \/ BufferEvent
    BY <1>2, <2>3 DEF ReadEnd, BufferEvent, jobVars
  <2>4. CASE CompleteRead
    BY <1>2, <1>5, <2>4, ReaderHolds DEF CompleteRead, ReaderPlaces, jobVars
  <2> QED BY <1>11, <2>1, <2>2, <2>3, <2>4 DEF ReaderStep
<1>12. CASE AppServerStep
  BY <1>2, <1>12 DEF AppServerStep, StartTurn, Report, FinishTurn, CallCarTool, CarryOut,
                     ServerExits, jobVars
<1>13. CASE Restart
  BY <1>13, LifeStops DEF Restart
<1> QED BY <1>6, <1>7, <1>8, <1>9, <1>10, <1>11, <1>12, <1>13 DEF Next

(* The job runner implements JobLifecycle: through retries, stops, reviews    *)
(* and reports that come late in either thread, messages are worked on one by *)
(* one in the order of arrival, none too often, and an outcome is final       *)
(* (ClaimNext, CompleteTurn, RetryOverloaded, RecoverRunning).                *)
THEOREM ImplementsLifecycle == Spec => KeepsLifecycle
<1>1. Init => Lifecycle!LifecycleInit
  <2> SUFFICES ASSUME Init PROVE Lifecycle!LifecycleInit
    OBVIOUS
  <2>1. job = [j \in Jobs |-> NoRow] /\ arrived = << >>
    BY DEF Init, JobsInit
  <2> QED BY <2>1 DEF Lifecycle!LifecycleInit, Phase, Tries
<1>2. RunnerInv /\ [Next]_vars => [Lifecycle!LifecycleNext]_(Lifecycle!lifecycleVars)
  BY LifeSteps DEF LifeStep, LifeVars, Phases, AllTries, Lifecycle!lifecycleVars
<1> QED BY <1>1, <1>2, RunnerInvariant, PTL DEF Spec, KeepsLifecycle, Lifecycle!LifecycleSpec
=============================================================================
