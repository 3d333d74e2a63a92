------------------------- MODULE PrepareCarProofs -------------------------
(* The car is commanded only for a confirmation its conversation gave:        *)
(* proofs about the two-step preparation of the car within the job runner     *)
(* (PrepareCar, ControllerService), from the invariant of the runner.         *)
EXTENDS ControllerServiceProofs

-----------------------------------------------------------------------------
(* Types.                                                                     *)

Taken == {"executing", "submitted", "failed", "unknown"}
Given == {"pending", "cancelled", "expired"}
Outcomes == {"submitted", "failed", "unknown"}
ConfirmationRow == [state : Given \cup Taken, target : Targets, over : BOOLEAN,
                    by : Jobs \cup {NoJob}]
ExecRow == [at : {"read", "post"}, request : Jobs]
           \cup [at : {"end"}, request : Jobs, outcome : Outcomes]

CarTypeOK ==
    /\ confirmation \in [Jobs -> {NoConfirmation} \cup ConfirmationRow]
    /\ exec \in [Callers -> {NotExecuting} \cup ExecRow]
    /\ commands \in [Jobs -> Nat]

-----------------------------------------------------------------------------
(* The inductive invariant of the car.                                        *)

Ran(j) == job[j] # NoRow /\ job[j].attempt # 0
Asked(r) == confirmation[r] # NoConfirmation
IsTaken(r) == Asked(r) /\ confirmation[r].by # NoJob
InHandAt(j, places) == sched # Idle /\ J = j /\ sched.at \in places

(* Jobs run in the order of their messages.                                   *)
InOrder ==
    /\ \A j \in Jobs : job[j] # NoRow <=> \E n \in DOMAIN arrived : arrived[n] = j
    /\ \A m, n \in DOMAIN arrived : m < n =>
          /\ arrived[m] # arrived[n]
          /\ Ran(arrived[n]) => In(arrived[m], FinalStates)

(* The context is that of the job in hand, or of the one whose turn runs.     *)
ContextAgrees ==
    /\ ctx.job # NoJob => Ran(ctx.job)
    /\ sched # Idle /\ sched.at \notin {"claimed", "assigned", "replaying"} =>
          ctx.job \in {NoJob, J}
    /\ \A t \in Turns : turn[t].at \in {"asked", "live"} /\ ~ job[t[1]].reviewed =>
          ctx.job \in {NoJob, t[1]}

(* A confirmation is taken once, one is pending in a conversation, and the    *)
(* car is commanded for those that were taken.                                *)
ConfirmationsAgree ==
    /\ \A r \in Jobs : Asked(r) =>
          /\ Ran(r)
          /\ confirmation[r].by = NoJob <=> confirmation[r].state \in Given
          /\ \A b \in Jobs : confirmation[r].by = b => Ran(b)
    /\ \A r \in Jobs : commands[r] # 0 => IsTaken(r)
    /\ \A c \in Callers : exec[c] # NotExecuting => IsTaken(exec[c].request)
    /\ \A r, s \in Jobs : r \in Pending(s) /\ s \in Pending(r) => r = s

Exempt(k) == job[k].intent.kind \in {"new", "unavailable"} \/ job[k].reviewed
Begun(k) == \/ job[k].bound
            \/ InHandAt(k, {"asked", "answered", "bound", "told", "executing"})
            \/ InHandAt(k, {"ready"}) /\ job[k].intent.kind \in {"turn", "direct"}

(* Who asked: a turn, or a message that asks and was answered at once.        *)
AskedRightly ==
    \A r \in Jobs : Asked(r) =>
        /\ job[r].intent.kind \in {"turn", "request"}
        /\ job[r].intent.kind = "request" =>
              ~ In(r, {"queued"}) /\ (In(r, {"running"}) => InHandAt(r, {"told"}))
(* Who executes: the scheduler, for the message that confirms.                *)
ExecutedRightly ==
    /\ \A c \in Callers \ {"scheduler"} : exec[c] = NotExecuting
    /\ exec["scheduler"] # NotExecuting <=> At("executing")
    /\ At("executing") =>
          /\ confirmation[exec["scheduler"].request].by = J
          /\ exec["scheduler"].at \in {"read", "post"} => commands[exec["scheduler"].request] = 0
(* A confirmation that was taken was taken by a later message that confirms   *)
(* the same, with nothing else answered in between.                           *)
TakenRightly ==
    \A r \in Jobs : IsTaken(r) =>
        LET c == confirmation[r].by IN
        /\ commands[r] \in {0, 1}
        /\ Later(r, c) /\ Conversation[c] = Conversation[r]
        /\ job[c].intent = [kind |-> "confirm", target |-> confirmation[r].target]
        /\ ~ In(c, {"queued"})
        /\ In(c, {"running"}) => InHandAt(c, {"told", "executing"})
        /\ \A k \in Between(r, c) : In(k, {"completed"}) => Exempt(k)
(* No message was answered since a pending confirmation was asked for, and    *)
(* one that is being answered has cancelled all but its own.                  *)
PendingRightly ==
    /\ \A k \in Jobs : \A r \in Pending(k) : Later(r, k) /\ In(k, {"completed"}) => Exempt(k)
    /\ \A k \in Jobs : In(k, {"running"}) /\ Begun(k) => Pending(k) \subseteq {k}
    /\ ctx.job # NoJob /\ job[ctx.job].intent.kind \in {"turn", "direct"} =>
          Pending(ctx.job) \subseteq {ctx.job}

Attributed == AskedRightly /\ ExecutedRightly /\ TakenRightly /\ PendingRightly
CarInv == /\ CarTypeOK /\ InOrder /\ ContextAgrees /\ ConfirmationsAgree
          /\ ~ Misattributed => Attributed

-----------------------------------------------------------------------------
(* What a step does to confirmations, executions and commands.                *)

(* One write for the message of a job.                                        *)
CarWrite(j) ==
    \/ confirmation' = AfterOtherMessage(j) /\ UNCHANGED <<exec, commands>>
    \/ \E target \in Targets : PrepareCarRequest(j, target) \/ RefuseExecute(j, target)
    \/ \E target \in Targets, c \in Callers : ClaimExecute(c, j, target)
(* One step of an execution, or the time of a confirmation.                   *)
CarCarries == \/ \E c \in Callers : ReadEntity(c) \/ PostCommand(c) \/ FinishExecute(c)
              \/ \E r \in Jobs : ConfirmationLapses(r)
Forgets == exec' = [c \in Callers |-> NotExecuting] /\ UNCHANGED <<confirmation, commands>>

LEMMA CarSteps ==
    ASSUME RunnerInv, ContextAgrees, [Next]_vars
    PROVE  \/ UNCHANGED carVars
           \/ \E j \in Jobs : Ran(j) /\ CarWrite(j) /\ job' = job
           \/ CarCarries /\ job' = job
           \/ Forgets /\ Restart
<1>1. RunnerTypeOK /\ SchedulerAgrees
  BY DEF RunnerInv
<1>2. ASSUME sched # Idle
      PROVE  J \in Jobs /\ Ran(J) /\ job[J].intent.target \in Targets
  <2>1. J \in Jobs /\ job[J] \in JobRow
    BY <1>1, <1>2, HandIsThere
  <2> QED BY <1>1, <1>2, <2>1 DEF SchedulerAgrees, Ran, JobRow, AnyIntent
<1>3. CASE SchedulerStep
  <2>1. CASE BeginJob
    BY <1>2, <2>1, NotIdle DEF BeginJob, CarWrite, carVars, jobVars, Places
  <2>2. CASE AskForCar
    BY <1>2, <2>2, NotIdle DEF AskForCar, CarWrite, carVars, jobVars, Places
  <2>3. CASE ConfirmCar
    BY <1>2, <2>3, NotIdle, CallersAssumption
       DEF ConfirmCar, CarWrite, carVars, jobVars, Places
  <2>4. CASE ExecuteCar
    BY <2>4, CallersAssumption DEF ExecuteCar, CarCarries, jobVars
  <2>5. CASE (\E j \in Jobs : Claim(j)) \/ NewThread \/ DirectTool \/ TellResult
    BY <2>5 DEF Claim, NewThread, DirectTool, TellResult
  <2>6. CASE AskTurn \/ FailBeforeTurn \/ TurnRejected \/ TurnUnanswered \/ BindTurn
    BY <2>6 DEF AskTurn, FailBeforeTurn, TurnRejected, TurnUnanswered, BindTurn
  <2>7. CASE AssignTheTurn \/ AssignFails \/ FlushTurnEvents \/ ReplayEvent
    BY <2>7 DEF AssignTheTurn, AssignFails, FlushTurnEvents, ReplayEvent
  <2> QED BY <1>3, <2>1, <2>2, <2>3, <2>4, <2>5, <2>6, <2>7 DEF SchedulerStep
<1>4. CASE ReaderStep
  BY <1>4 DEF ReaderStep, ReadReport, ObserveMissedText, ReadEnd, CompleteRead, BufferEvent
<1>5. CASE AppServerStep
  <2>1. ASSUME NEW t \in Turns, NEW c \in Callers, CallCarTool(t, c)
        PROVE  \E j \in Jobs : Ran(j) /\ CarWrite(j) /\ job' = job
    <3>1. ctx.job \in Jobs /\ Ran(ctx.job)
      BY <1>1, <2>1 DEF CallCarTool, RunnerTypeOK, ThreadsTypeOK, ContextAgrees
    <3>2. CarWrite(ctx.job) /\ job' = job
      BY <2>1 DEF CallCarTool, CarWrite, jobVars
    <3> QED BY <3>1, <3>2
  <2>2. ASSUME NEW c \in Callers, CarryOut(c)
        PROVE  CarCarries /\ job' = job
    BY <2>2 DEF CarryOut, CarCarries, jobVars
  <2>3. ASSUME NEW t \in Turns, StartTurn(t) \/ Report(t) \/ FinishTurn(t)
        PROVE  UNCHANGED carVars
    BY <2>3 DEF StartTurn, Report, FinishTurn
  <2> QED BY <1>5, <2>1, <2>2, <2>3 DEF AppServerStep, ServerExits
<1>6. CASE (\E j \in Jobs : Submit(j) \/ Admin(j)) \/ TimeStep
  BY <1>6 DEF Submit, Admin, TimeStep, CarCarries, jobVars
<1>7. CASE Restart
  BY <1>7 DEF Restart, Forgets
<1>8. CASE UNCHANGED vars
  BY <1>8 DEF vars
<1> QED BY <1>3, <1>4, <1>5, <1>6, <1>7, <1>8 DEF Next

-----------------------------------------------------------------------------
(* Types, and what a confirmation keeps.                                      *)

(* A confirmation that is there stays there, for its action; once taken it    *)
(* stays taken by the same message.                                           *)
Kept(r) == Asked(r) => /\ Asked(r)' /\ confirmation'[r].target = confirmation[r].target
                       /\ confirmation[r].by # NoJob => confirmation'[r].by = confirmation[r].by

(* The rows of confirmations.                                                 *)
LEMMA ConfirmationThere ==
    ASSUME CarTypeOK, NEW r \in Jobs
    PROVE  /\ NoConfirmation \notin ConfirmationRow
           /\ Asked(r) => confirmation[r] \in ConfirmationRow
           /\ confirmation[r].state \in Given \cup Taken => confirmation[r] \in ConfirmationRow
<1>1. \A row \in ConfirmationRow : row.state \in Given \cup Taken
  BY DEF ConfirmationRow
<1>2. NoConfirmation.state \notin Given \cup Taken
  BY DEF NoConfirmation, Given, Taken
<1> QED BY <1>1, <1>2 DEF CarTypeOK, Asked

(* One confirmation goes to another state.                                    *)
LEMMA SettledThere ==
    ASSUME CarTypeOK, NEW r \in Jobs, Asked(r), NEW state \in Given \cup Taken,
           confirmation' = Settled(r, state)
    PROVE  /\ confirmation' \in [Jobs -> {NoConfirmation} \cup ConfirmationRow]
           /\ confirmation'[r] \in ConfirmationRow
           /\ confirmation'[r].state = state /\ confirmation'[r].by = confirmation[r].by
           /\ confirmation'[r].target = confirmation[r].target
           /\ confirmation'[r].over = confirmation[r].over
           /\ \A s \in Jobs \ {r} : confirmation'[s] = confirmation[s]
<1> DEFINE row == [confirmation[r] EXCEPT !.state = state]
<1>1. confirmation[r] \in ConfirmationRow
  BY ConfirmationThere
<1>2. row \in ConfirmationRow
  BY <1>1 DEF ConfirmationRow
<1>3. /\ row.state = state /\ row.by = confirmation[r].by
      /\ row.target = confirmation[r].target /\ row.over = confirmation[r].over
  BY <1>1 DEF ConfirmationRow
<1>4. confirmation'[r] = row /\ \A s \in Jobs \ {r} : confirmation'[s] = confirmation[s]
  BY DEF Settled, CarTypeOK
<1> HIDE DEF row
<1>5. confirmation' \in [Jobs -> {NoConfirmation} \cup ConfirmationRow]
  BY <1>2, <1>4 DEF Settled, CarTypeOK
<1> QED BY <1>2, <1>3, <1>4, <1>5

(* Several are cancelled.                                                     *)
LEMMA EndedThere ==
    ASSUME CarTypeOK, NEW set, \A r \in set : r \in Jobs /\ confirmation[r].state = "pending"
    PROVE  LET ended == Ended(set, "cancelled") IN
           /\ ended \in [Jobs -> {NoConfirmation} \cup ConfirmationRow]
           /\ \A r \in set : /\ ended[r] \in ConfirmationRow
                             /\ ended[r].state = "cancelled"
                             /\ ended[r].by = confirmation[r].by
                             /\ ended[r].target = confirmation[r].target
           /\ \A r \in Jobs \ set : ended[r] = confirmation[r]
<1> DEFINE ended == Ended(set, "cancelled")
           row(r) == [confirmation[r] EXCEPT !.state = "cancelled"]
<1>1. ASSUME NEW r \in set
      PROVE  /\ row(r) \in ConfirmationRow /\ row(r).state = "cancelled"
             /\ row(r).by = confirmation[r].by /\ row(r).target = confirmation[r].target
             /\ r \in Jobs /\ ended[r] = row(r)
  <2>1. r \in Jobs /\ confirmation[r] \in ConfirmationRow
    BY <1>1, ConfirmationThere DEF Given
  <2>2. row(r) \in ConfirmationRow
    BY <2>1 DEF ConfirmationRow, Given
  <2> QED BY <1>1, <2>1, <2>2 DEF ConfirmationRow, Ended
<1>2. \A r \in Jobs \ set : ended[r] = confirmation[r]
  BY DEF Ended
<1>3. ended \in [Jobs -> {NoConfirmation} \cup ConfirmationRow]
  BY <1>1, <1>2 DEF Ended, CarTypeOK
<1> QED BY <1>1, <1>2, <1>3

(* What may become of one confirmation in a step.                             *)
Same(r) == confirmation'[r] = confirmation[r]
Lives(r) == confirmation'[r] \in ConfirmationRow /\ confirmation'[r].target = confirmation[r].target
Dropped(r) == /\ confirmation[r].state = "pending" /\ Lives(r)
              /\ confirmation'[r].state \in Given /\ confirmation'[r].by = confirmation[r].by
TakenBy(r, j) == /\ confirmation[r].state = "pending" /\ Lives(r)
                 /\ confirmation'[r].state = "executing" /\ confirmation'[r].by = j
                 /\ Conversation[r] = Conversation[j]
Finished(r) == /\ confirmation[r].state = "executing" /\ Lives(r)
               /\ confirmation'[r].state \in Outcomes /\ confirmation'[r].by = confirmation[r].by
NewFor(r) == /\ ~ Asked(r) /\ confirmation'[r] \in ConfirmationRow
             /\ confirmation'[r].state = "pending" /\ confirmation'[r].by = NoJob
             /\ \A s \in Jobs \ {r} : confirmation'[s].state = "pending" =>
                   Same(s) /\ Conversation[s] # Conversation[r]
Typed == confirmation' \in [Jobs -> {NoConfirmation} \cup ConfirmationRow]
ExecTyped == exec' \in [Callers -> {NotExecuting} \cup ExecRow]

LEMMA RequestMoves ==
    ASSUME CarTypeOK, NEW j \in Jobs, NEW target \in Targets, PrepareCarRequest(j, target)
    PROVE  /\ Typed /\ UNCHANGED <<exec, commands>>
           /\ \/ Asked(j) /\ confirmation' = confirmation
              \/ NewFor(j) /\ \A r \in Jobs \ {j} : Same(r) \/ Dropped(r)
<1>1. UNCHANGED <<exec, commands>>
  BY DEF PrepareCarRequest
<1>2. CASE Asked(j)
  BY <1>1, <1>2 DEF PrepareCarRequest, Asked, CarTypeOK, Typed
<1>3. CASE ~ Asked(j)
  <2> DEFINE ended == Ended(Pending(j), "cancelled")
             row == [state |-> "pending", target |-> target, over |-> FALSE, by |-> NoJob]
  <2>1. row \in ConfirmationRow
    BY DEF ConfirmationRow, Given
  <2>2. \A r \in Pending(j) : r \in Jobs /\ confirmation[r].state = "pending"
    BY DEF Pending
  <2>3. /\ ended \in [Jobs -> {NoConfirmation} \cup ConfirmationRow]
        /\ \A r \in Pending(j) : /\ ended[r] \in ConfirmationRow /\ ended[r].state = "cancelled"
                                 /\ ended[r].by = confirmation[r].by
                                 /\ ended[r].target = confirmation[r].target
        /\ \A r \in Jobs \ Pending(j) : ended[r] = confirmation[r]
    BY <2>2, EndedThere
  <2>4. confirmation' = [ended EXCEPT ![j] = row]
    BY <1>3 DEF PrepareCarRequest, Asked
  <2> HIDE DEF ended, row
  <2>5. confirmation'[j] = row /\ \A r \in Jobs \ {j} : confirmation'[r] = ended[r]
    BY <2>3, <2>4
  <2>6. Typed
    BY <2>1, <2>3, <2>4 DEF Typed
  <2>7. \A r \in Jobs \ {j} : IF r \in Pending(j) THEN Dropped(r) /\ confirmation'[r].state = "cancelled"
                                                  ELSE Same(r)
    BY <2>2, <2>3, <2>5 DEF Dropped, Lives, Same, Given
  <2>8. row.state = "pending" /\ row.by = NoJob
    BY DEF row
  <2>9. ASSUME NEW s \in Jobs \ {j}, confirmation'[s].state = "pending"
        PROVE  Same(s) /\ Conversation[s] # Conversation[j]
    BY <2>7, <2>9 DEF Pending, Same
  <2> QED BY <1>1, <1>3, <2>1, <2>5, <2>6, <2>7, <2>8, <2>9 DEF NewFor
<1> QED BY <1>2, <1>3

LEMMA RefuseMoves ==
    ASSUME CarTypeOK, NEW j \in Jobs, NEW target \in Targets, RefuseExecute(j, target)
    PROVE  /\ Typed /\ UNCHANGED <<exec, commands>>
           /\ \A r \in Jobs : Same(r) \/ Dropped(r)
           /\ ExecutedBy(j) = {} => \/ Pending(j) = {} /\ confirmation' = confirmation
                                    \/ \E r \in Pending(j) : confirmation'[r].state # "pending"
<1>1. UNCHANGED <<exec, commands>>
  BY DEF RefuseExecute
<1>2. CASE /\ IF ExecutedBy(j) = {} THEN Pending(j) = {}
                                    ELSE \A r \in ExecutedBy(j) : confirmation[r].state # "executing"
           /\ confirmation' = confirmation
  BY <1>1, <1>2 DEF Typed, CarTypeOK, Same
<1>3. ASSUME NEW r \in Pending(j), NEW state \in {"expired", "cancelled"},
             confirmation' = Settled(r, state)
      PROVE  /\ Typed
             /\ \A s \in Jobs : Same(s) \/ Dropped(s)
             /\ confirmation'[r].state # "pending"
  <2>1. r \in Jobs /\ confirmation[r].state = "pending" /\ Asked(r) /\ state \in Given \cup Taken
    BY DEF Pending, Asked, NoConfirmation, Given
  <2>2. /\ Typed /\ confirmation'[r] \in ConfirmationRow
        /\ confirmation'[r].state = state /\ confirmation'[r].by = confirmation[r].by
        /\ confirmation'[r].target = confirmation[r].target
        /\ \A s \in Jobs \ {r} : confirmation'[s] = confirmation[s]
    BY <1>3, <2>1, SettledThere DEF Typed
  <2> QED BY <2>1, <2>2 DEF Same, Dropped, Lives, Given
<1>4. CASE \E r \in Pending(j), state \in {"expired", "cancelled"} : confirmation' = Settled(r, state)
  BY <1>1, <1>3, <1>4
<1> QED BY <1>2, <1>4 DEF RefuseExecute

LEMMA BeginsThere ==
    ASSUME CarTypeOK, NEW c \in Callers, NEW r \in Jobs, Begins(c, r)
    PROVE  /\ ExecTyped /\ exec'[c] # NotExecuting /\ exec'[c].request = r
           /\ \A d \in Callers \ {c} : exec'[d] = exec[d]
<1>1. [at |-> "read", request |-> r] \in ExecRow
  BY DEF ExecRow
<1>2. [at |-> "read", request |-> r] # NotExecuting
  BY DEF NotExecuting
<1> QED BY <1>1, <1>2 DEF Begins, CarTypeOK, ExecTyped

LEMMA ClaimMoves ==
    ASSUME CarTypeOK, NEW j \in Jobs, NEW target \in Targets, NEW c \in Callers,
           ClaimExecute(c, j, target)
    PROVE  /\ Typed /\ commands' = commands
           /\ \E r \in Jobs :
                 /\ Begins(c, r)
                 /\ \/ r \in ExecutedBy(j) /\ confirmation' = confirmation
                    \/ /\ r \in Pending(j) /\ ExecutedBy(j) = {}
                       /\ confirmation[r].target = target /\ ~ Asked(j)
                       /\ TakenBy(r, j) /\ \A s \in Jobs \ {r} : Same(s)
<1>1. commands' = commands
  BY DEF ClaimExecute
<1>2. ASSUME NEW r \in ExecutedBy(j), Begins(c, r), confirmation' = confirmation
      PROVE  Typed /\ r \in Jobs
  BY <1>2 DEF ExecutedBy, CarTypeOK, Typed
<1>3. ASSUME NEW r \in Pending(j), ExecutedBy(j) = {}, confirmation[r].target = target,
             confirmation' = [confirmation EXCEPT ![r].state = "executing", ![r].by = j]
      PROVE  Typed /\ r \in Jobs /\ TakenBy(r, j) /\ (\A s \in Jobs \ {r} : Same(s)) /\ ~ Asked(j)
  <2> DEFINE row == [confirmation[r] EXCEPT !.state = "executing", !.by = j]
  <2>1. /\ r \in Jobs /\ confirmation[r] \in ConfirmationRow /\ confirmation[r].state = "pending"
        /\ Conversation[r] = Conversation[j]
    BY ConfirmationThere DEF Pending, Given
  <2>2. row \in ConfirmationRow
    BY <2>1 DEF ConfirmationRow, Taken
  <2>3. row.state = "executing" /\ row.by = j /\ row.target = confirmation[r].target
    BY <2>1 DEF ConfirmationRow
  <2>4. confirmation'[r] = row /\ \A s \in Jobs \ {r} : confirmation'[s] = confirmation[s]
    BY <1>3, <2>1 DEF CarTypeOK
  <2> HIDE DEF row
  <2>5. Typed
    BY <1>3, <2>1, <2>2, <2>4 DEF CarTypeOK, Typed
  <2>6. ~ Asked(j)
    BY <1>3 DEF ClaimExecute, ConfirmConflict, Asked
  <2> QED BY <2>1, <2>2, <2>3, <2>4, <2>5, <2>6 DEF TakenBy, Lives, Same
<1> QED BY <1>1, <1>2, <1>3 DEF ClaimExecute

LEMMA CarriesMoves ==
    ASSUME CarTypeOK, ConfirmationsAgree, CarCarries
    PROVE  /\ Typed /\ ExecTyped /\ commands' \in [Jobs -> Nat]
           /\ \A r \in Jobs : Same(r) \/ Dropped(r) \/ Finished(r)
           /\ \A c \in Callers : exec'[c] # NotExecuting =>
                 exec[c] # NotExecuting /\ exec'[c].request = exec[c].request
           /\ \A r \in Jobs : commands'[r] # 0 => commands[r] # 0 \/ IsTaken(r)
<1>1. ASSUME NEW c \in Callers, exec[c].at \in {"read", "post", "end"}
      PROVE  /\ exec[c] \in ExecRow /\ exec[c] # NotExecuting /\ exec[c].request \in Jobs
             /\ IsTaken(exec[c].request)
             /\ exec[c].at = "end" => exec[c].outcome \in Outcomes
  <2>1. exec[c] # NotExecuting
    BY <1>1 DEF NotExecuting
  <2> QED BY <2>1 DEF CarTypeOK, ExecRow, ConfirmationsAgree
<1>2. ASSUME NEW c \in Callers, ReadEntity(c)
      PROVE  /\ ExecTyped /\ UNCHANGED <<confirmation, commands>>
             /\ \A d \in Callers : exec'[d] # NotExecuting =>
                   exec[d] # NotExecuting /\ exec'[d].request = exec[d].request
  <2>1. exec[c] \in ExecRow /\ exec[c] # NotExecuting /\ exec[c].at = "read"
    BY <1>1, <1>2 DEF ReadEntity
  <2>2. CASE exec' = [exec EXCEPT ![c].at = "post"]
    <3> DEFINE row == [exec[c] EXCEPT !.at = "post"]
    <3>1. row \in ExecRow /\ row.request = exec[c].request
      BY <2>1 DEF ExecRow
    <3>2. exec'[c] = row /\ \A d \in Callers \ {c} : exec'[d] = exec[d]
      BY <2>2 DEF CarTypeOK
    <3> HIDE DEF row
    <3> QED BY <1>2, <2>1, <2>2, <3>1, <3>2 DEF CarTypeOK, ExecTyped, ReadEntity
  <2>3. ASSUME NEW o \in Outcomes,
               exec' = [exec EXCEPT ![c] = [at |-> "end", request |-> exec[c].request, outcome |-> o]]
        PROVE  /\ ExecTyped
               /\ \A d \in Callers : exec'[d] # NotExecuting =>
                     exec[d] # NotExecuting /\ exec'[d].request = exec[d].request
    <3>1. [at |-> "end", request |-> exec[c].request, outcome |-> o] \in ExecRow
      BY <1>1, <2>1 DEF ExecRow
    <3> QED BY <2>1, <2>3, <3>1 DEF CarTypeOK, ExecTyped
  <2> QED BY <1>2, <2>2, <2>3 DEF ReadEntity, Outcomes
<1>3. ASSUME NEW c \in Callers, PostCommand(c)
      PROVE  /\ ExecTyped /\ commands' \in [Jobs -> Nat] /\ confirmation' = confirmation
             /\ \A d \in Callers : exec'[d] # NotExecuting =>
                   exec[d] # NotExecuting /\ exec'[d].request = exec[d].request
             /\ \A r \in Jobs : commands'[r] # 0 => commands[r] # 0 \/ IsTaken(r)
  <2>1. /\ exec[c] \in ExecRow /\ exec[c] # NotExecuting /\ exec[c].request \in Jobs
        /\ IsTaken(exec[c].request)
    BY <1>1, <1>3 DEF PostCommand
  <2>2. PICK o \in Outcomes :
          exec' = [exec EXCEPT ![c] = [at |-> "end", request |-> exec[c].request, outcome |-> o]]
    BY <1>3 DEF PostCommand, Outcomes
  <2>3. [at |-> "end", request |-> exec[c].request, outcome |-> o] \in ExecRow
    BY <2>1 DEF ExecRow
  <2>4. commands' = commands \/ commands' = [commands EXCEPT ![exec[c].request] = @ + 1]
    BY <1>3 DEF PostCommand
  <2>5. commands' \in [Jobs -> Nat]
    BY <2>1, <2>4 DEF CarTypeOK
  <2>6. \A r \in Jobs : commands'[r] # 0 => commands[r] # 0 \/ IsTaken(r)
    BY <2>1, <2>4 DEF CarTypeOK
  <2> QED BY <1>3, <2>1, <2>2, <2>3, <2>5, <2>6 DEF PostCommand, CarTypeOK, ExecTyped
<1>4. ASSUME NEW c \in Callers, FinishExecute(c)
      PROVE  /\ Typed /\ ExecTyped /\ commands' = commands
             /\ \A r \in Jobs : Same(r) \/ Finished(r)
             /\ \A d \in Callers : exec'[d] # NotExecuting => exec'[d] = exec[d]
  <2>1. exec[c].request \in Jobs /\ exec[c].outcome \in Outcomes
    BY <1>1, <1>4 DEF FinishExecute
  <2>2. exec' = [exec EXCEPT ![c] = NotExecuting] /\ commands' = commands
    BY <1>4 DEF FinishExecute
  <2>3. CASE confirmation' = confirmation
    BY <2>2, <2>3 DEF CarTypeOK, Typed, ExecTyped, Same
  <2>4. CASE /\ confirmation[exec[c].request].state = "executing"
             /\ confirmation' = Settled(exec[c].request, exec[c].outcome)
    <3> DEFINE r == exec[c].request
    <3>1. Asked(r) /\ exec[c].outcome \in Given \cup Taken
      BY <2>1, <2>4 DEF Asked, NoConfirmation, Taken, Outcomes
    <3>2. /\ Typed /\ confirmation'[r] \in ConfirmationRow
          /\ confirmation'[r].state = exec[c].outcome /\ confirmation'[r].by = confirmation[r].by
          /\ confirmation'[r].target = confirmation[r].target
          /\ \A s \in Jobs \ {r} : confirmation'[s] = confirmation[s]
      BY <2>1, <2>4, <3>1, SettledThere DEF Typed
    <3>3. Finished(r) /\ \A s \in Jobs \ {r} : Same(s)
      BY <2>1, <2>4, <3>2 DEF Finished, Lives, Same
    <3> QED BY <2>2, <3>2, <3>3 DEF CarTypeOK, ExecTyped
  <2> QED BY <1>4, <2>3, <2>4 DEF FinishExecute
<1>5. ASSUME NEW r \in Jobs, ConfirmationLapses(r)
      PROVE  /\ Typed /\ UNCHANGED <<exec, commands>>
             /\ \A s \in Jobs : Same(s) \/ Dropped(s)
  <2> DEFINE row == [confirmation[r] EXCEPT !.over = TRUE]
  <2>1. confirmation[r].state = "pending" /\ confirmation[r] \in ConfirmationRow
    BY <1>5, ConfirmationThere DEF ConfirmationLapses, Given
  <2>2. row \in ConfirmationRow /\ row.state = "pending" /\ row.by = confirmation[r].by
        /\ row.target = confirmation[r].target
    BY <2>1 DEF ConfirmationRow
  <2>3. confirmation'[r] = row /\ \A s \in Jobs \ {r} : confirmation'[s] = confirmation[s]
    BY <1>5 DEF ConfirmationLapses, CarTypeOK
  <2> HIDE DEF row
  <2>4. Typed
    BY <1>5, <2>2, <2>3 DEF ConfirmationLapses, CarTypeOK, Typed
  <2> QED BY <1>5, <2>1, <2>2, <2>3, <2>4 DEF ConfirmationLapses, Dropped, Lives, Same, Given
<1>6. UNCHANGED confirmation => Typed /\ \A r \in Jobs : Same(r)
  BY DEF CarTypeOK, Typed, Same
<1>7. UNCHANGED exec => ExecTyped
  BY DEF CarTypeOK, ExecTyped
<1>8. UNCHANGED commands => commands' \in [Jobs -> Nat]
  BY DEF CarTypeOK
<1> QED BY <1>2, <1>3, <1>4, <1>5, <1>6, <1>7, <1>8 DEF CarCarries

(* Every step, for every confirmation.                                        *)
LEMMA CarMoves ==
    ASSUME RunnerInv, CarTypeOK, ContextAgrees, ConfirmationsAgree, [Next]_vars
    PROVE  /\ CarTypeOK'
           /\ \A r \in Jobs : \/ Same(r) \/ Dropped(r) \/ Finished(r)
                              \/ \E j \in Jobs : TakenBy(r, j) /\ Ran(j)
                              \/ NewFor(r) /\ Ran(r)
           /\ \A c \in Callers : exec'[c] # NotExecuting =>
                 \/ exec[c] # NotExecuting /\ exec'[c].request = exec[c].request
                 \/ \E r \in Jobs : exec'[c].request = r /\ IsTaken(r)'
           /\ \A r \in Jobs : commands'[r] # 0 => commands[r] # 0 \/ IsTaken(r)
<1>1. CASE UNCHANGED carVars
  BY <1>1 DEF carVars, CarTypeOK, Same
<1>2. ASSUME NEW j \in Jobs, Ran(j), CarWrite(j)
      PROVE  /\ CarTypeOK'
             /\ \A r \in Jobs : \/ Same(r) \/ Dropped(r) \/ Finished(r)
                                \/ \E k \in Jobs : TakenBy(r, k) /\ Ran(k)
                                \/ NewFor(r) /\ Ran(r)
             /\ \A c \in Callers : exec'[c] # NotExecuting =>
                   \/ exec[c] # NotExecuting /\ exec'[c].request = exec[c].request
                   \/ \E r \in Jobs : exec'[c].request = r /\ IsTaken(r)'
             /\ commands' = commands
  <2>1. ASSUME confirmation' = AfterOtherMessage(j), UNCHANGED <<exec, commands>>
        PROVE  CarTypeOK' /\ \A r \in Jobs : Same(r) \/ Dropped(r)
    <3>1. \A r \in Pending(j) \ {j} : r \in Jobs /\ confirmation[r].state = "pending"
      BY DEF Pending
    <3> QED BY <2>1, <3>1, EndedThere
            DEF AfterOtherMessage, CarTypeOK, Same, Dropped, Lives, Given
  <2>2. ASSUME NEW target \in Targets, PrepareCarRequest(j, target) \/ RefuseExecute(j, target)
        PROVE  /\ CarTypeOK' /\ UNCHANGED <<exec, commands>>
               /\ \A r \in Jobs : Same(r) \/ Dropped(r) \/ (NewFor(r) /\ Ran(r))
    BY <1>2, <2>2, RequestMoves, RefuseMoves DEF CarTypeOK, Typed, Same
  <2>3. ASSUME NEW target \in Targets, NEW c \in Callers, ClaimExecute(c, j, target)
        PROVE  /\ CarTypeOK' /\ commands' = commands
               /\ \A r \in Jobs : Same(r) \/ (TakenBy(r, j) /\ Ran(j))
               /\ \A d \in Callers : exec'[d] # NotExecuting =>
                     \/ exec[d] # NotExecuting /\ exec'[d].request = exec[d].request
                     \/ \E r \in Jobs : exec'[d].request = r /\ IsTaken(r)'
    <3>1. Typed /\ commands' = commands
      BY <2>3, ClaimMoves
    <3>2. PICK r \in Jobs :
            /\ Begins(c, r)
            /\ \/ r \in ExecutedBy(j) /\ confirmation' = confirmation
               \/ TakenBy(r, j) /\ \A s \in Jobs \ {r} : Same(s)
      BY <2>3, ClaimMoves
    <3>3. /\ ExecTyped /\ exec'[c] # NotExecuting /\ exec'[c].request = r
          /\ \A d \in Callers \ {c} : exec'[d] = exec[d]
      BY <3>2, BeginsThere
    <3>4. confirmation'[r] # NoConfirmation /\ confirmation'[r].by # NoJob
      BY <3>2, ConversationAssumption, ConfirmationThere
         DEF ExecutedBy, TakenBy, Lives, NoConfirmation, ConfirmationRow
    <3> QED BY <1>2, <3>1, <3>2, <3>3, <3>4 DEF CarTypeOK, Typed, ExecTyped, Same, IsTaken, Asked
  <2> QED BY <1>2, <2>1, <2>2, <2>3 DEF CarWrite
<1>3. CASE CarCarries
  BY <1>3, CarriesMoves DEF CarTypeOK, Typed, ExecTyped
<1>4. CASE Forgets
  BY <1>4 DEF Forgets, CarTypeOK, Same
<1> QED BY <1>1, <1>2, <1>3, <1>4, CarSteps

(* A confirmation that is there stays there.                                  *)
LEMMA ConfirmationsKept ==
    ASSUME RunnerInv, CarTypeOK, ContextAgrees, ConfirmationsAgree, [Next]_vars
    PROVE  \A r \in Jobs : Kept(r)
<1> SUFFICES ASSUME NEW r \in Jobs, Asked(r) PROVE Kept(r)
  BY DEF Kept
<1>1. Same(r) \/ Dropped(r) \/ Finished(r) \/ \E j \in Jobs : TakenBy(r, j)
  BY CarMoves DEF NewFor
<1>2. confirmation[r].by # NoJob => confirmation[r].state # "pending"
  BY DEF ConfirmationsAgree, Given
<1>3. NoConfirmation \notin ConfirmationRow
  BY ConfirmationThere
<1> QED BY <1>1, <1>2, <1>3 DEF Same, Dropped, Finished, TakenBy, Lives, Kept, Asked

(* A job that ran has run.                                                    *)
LEMMA RanStays ==
    ASSUME RunnerInv, [Next]_vars
    PROVE  \A j \in Jobs : Ran(j) => Ran(j)'
<1> SUFFICES ASSUME NEW j \in Jobs, Ran(j) PROVE Ran(j)'
  OBVIOUS
<1>1. /\ job'[j] \in JobRow /\ (job'[j].attempt = job[j].attempt \/ Claim(j))
      /\ job[j] \in JobRow /\ NoRow \notin JobRow /\ JobsTypeOK /\ RowsAgree
  BY RowsProgress, RowThere DEF Ran, Progress, RunnerInv, RunnerTypeOK
<1>2. CASE Claim(j)
  <2>1. job'[j].attempt = job[j].attempt + 1
    BY <1>1, <1>2, ClaimRow DEF Claim
  <2>2. job[j].attempt \in Nat
    BY <1>1, JobsAssumption DEF JobRow
  <2>3. job'[j].attempt # 0 /\ job'[j] # NoRow
    BY <1>1, <2>1, <2>2
  <2> QED BY <2>3 DEF Ran
<1> QED BY <1>1, <1>2 DEF Ran

LEMMA ConfirmationsStep ==
    ASSUME RunnerInv, CarTypeOK, ContextAgrees, ConfirmationsAgree, [Next]_vars
    PROVE  CarTypeOK' /\ ConfirmationsAgree'
<1>1. /\ CarTypeOK'
      /\ \A r \in Jobs : \/ Same(r) \/ Dropped(r) \/ Finished(r)
                         \/ \E j \in Jobs : TakenBy(r, j) /\ Ran(j)
                         \/ NewFor(r) /\ Ran(r)
  BY CarMoves
<1>2. ASSUME NEW r \in Jobs, Asked(r)'
      PROVE  /\ Ran(r)'
             /\ confirmation'[r].by = NoJob <=> confirmation'[r].state \in Given
             /\ \A b \in Jobs : confirmation'[r].by = b => Ran(b)'
  <2>0. /\ Ran(r) => Ran(r)'
        /\ Asked(r) => confirmation[r] \in ConfirmationRow
        /\ \A row \in ConfirmationRow : row.by \in Jobs \cup {NoJob}
        /\ NoJob \notin Jobs
    BY RanStays, ConfirmationThere, ConversationAssumption DEF ConfirmationRow
  <2>1. CASE Same(r)
    <3>1. Asked(r)
      BY <1>2, <2>1 DEF Same, Asked
    <3>2. \A b \in Jobs : confirmation'[r].by = b => Ran(b)'
      BY <2>1, <3>1, RanStays DEF Same, ConfirmationsAgree
    <3>3. Ran(r) /\ (confirmation'[r].by = NoJob <=> confirmation'[r].state \in Given)
      BY <2>1, <3>1 DEF Same, ConfirmationsAgree
    <3> QED BY <2>0, <3>2, <3>3
  <2>2. CASE Dropped(r)
    <3>1. Asked(r) /\ confirmation[r].by = NoJob
      BY <2>2 DEF Dropped, Asked, NoConfirmation, ConfirmationsAgree, Given
    <3>2. /\ confirmation'[r].by = NoJob /\ confirmation'[r].state \in Given
          /\ \A b \in Jobs : confirmation'[r].by # b
      BY <2>0, <2>2, <3>1 DEF Dropped
    <3>3. Ran(r)
      BY <3>1 DEF ConfirmationsAgree
    <3> QED BY <2>0, <3>2, <3>3
  <2>3. CASE Finished(r)
    <3>1. Asked(r) /\ confirmation[r].by # NoJob /\ confirmation[r].by \in Jobs
      BY <2>0, <2>3 DEF Finished, Asked, NoConfirmation, ConfirmationsAgree, Given
    <3>2. Ran(r) /\ \A b \in Jobs : confirmation'[r].by = b => Ran(b)'
      BY <2>3, <3>1, RanStays DEF ConfirmationsAgree, Finished
    <3>3. confirmation'[r].state \notin Given /\ confirmation'[r].by # NoJob
      BY <2>3, <3>1 DEF Finished, Outcomes, Given
    <3> QED BY <2>0, <3>2, <3>3
  <2>4. ASSUME NEW j \in Jobs, TakenBy(r, j), Ran(j)
        PROVE  /\ Ran(r)'
               /\ confirmation'[r].by = NoJob <=> confirmation'[r].state \in Given
               /\ \A b \in Jobs : confirmation'[r].by = b => Ran(b)'
    <3>1. Asked(r)
      BY <2>4 DEF TakenBy, Asked, NoConfirmation
    <3>2. Ran(j)' /\ Ran(r)'
      BY <2>0, <2>4, <3>1, RanStays DEF ConfirmationsAgree
    <3>3. confirmation'[r].state \notin Given /\ confirmation'[r].by = j /\ j # NoJob
      BY <2>0, <2>4 DEF TakenBy, Given
    <3> QED BY <3>2, <3>3
  <2>5. CASE NewFor(r) /\ Ran(r)
    <3>1. /\ confirmation'[r].by = NoJob /\ confirmation'[r].state \in Given
          /\ \A b \in Jobs : confirmation'[r].by # b
      BY <2>0, <2>5 DEF NewFor, Given
    <3> QED BY <2>0, <2>5, <3>1
  <2> QED BY <1>1, <2>1, <2>2, <2>3, <2>4, <2>5
<1>3. \A r \in Jobs : IsTaken(r) => IsTaken(r)'
  <2> SUFFICES ASSUME NEW r \in Jobs, IsTaken(r) PROVE IsTaken(r)'
    OBVIOUS
  <2>1. Kept(r)
    BY ConfirmationsKept
  <2> QED BY <2>1 DEF Kept, IsTaken
<1>4. ASSUME NEW r \in Jobs, commands'[r] # 0
      PROVE  IsTaken(r)'
  BY <1>3, <1>4, CarMoves DEF ConfirmationsAgree
<1>5. ASSUME NEW c \in Callers, exec'[c] # NotExecuting
      PROVE  \E r \in Jobs : exec'[c].request = r /\ IsTaken(r)'
  <2>1. CASE exec[c] # NotExecuting /\ exec'[c].request = exec[c].request
    <3>1. exec[c].request \in Jobs /\ IsTaken(exec[c].request)
      BY <2>1 DEF CarTypeOK, ExecRow, ConfirmationsAgree
    <3>2. PICK r \in Jobs : r = exec[c].request /\ IsTaken(r)
      BY <3>1
    <3> QED BY <1>3, <2>1, <3>2
  <2> QED BY <1>5, <2>1, CarMoves
<1>6. \A c \in Callers : exec'[c] # NotExecuting => IsTaken(exec[c].request)'
  <2> SUFFICES ASSUME NEW c \in Callers, exec'[c] # NotExecuting
               PROVE  IsTaken(exec[c].request)'
    OBVIOUS
  <2>1. PICK r \in Jobs : exec'[c].request = r /\ IsTaken(r)'
    BY <1>5
  <2> QED BY <2>1 DEF IsTaken, Asked
<1>7. ASSUME NEW r \in Jobs, NEW s \in Jobs, confirmation'[r].state = "pending",
             confirmation'[s].state = "pending", Conversation[r] = Conversation[s]
      PROVE  r = s
  <2>1. ASSUME NEW q \in Jobs, confirmation'[q].state = "pending", ~ NewFor(q)
        PROVE  confirmation[q].state = "pending"
    BY <1>1, <2>1 DEF Same, Dropped, Finished, TakenBy, Outcomes
  <2>2. NewFor(r) => s = r
    BY <1>7 DEF NewFor
  <2>3. NewFor(s) => s = r
    BY <1>7 DEF NewFor
  <2>4. CASE ~ NewFor(r) /\ ~ NewFor(s)
    <3>1. confirmation[r].state = "pending" /\ confirmation[s].state = "pending"
      BY <1>7, <2>1, <2>4
    <3>2. r \in Pending(s) /\ s \in Pending(r)
      BY <1>7, <3>1 DEF Pending
    <3> QED BY <3>2 DEF ConfirmationsAgree
  <2> QED BY <2>2, <2>3, <2>4
<1>8. \A r, s \in Jobs : (r \in Pending(s) /\ s \in Pending(r))' => r = s
  BY <1>7 DEF Pending
<1> QED BY <1>1, <1>2, <1>4, <1>6, <1>8 DEF ConfirmationsAgree

-----------------------------------------------------------------------------
(* Jobs and the scheduler, as far as the car is concerned.                    *)

(* From where a job runs, is queued, completes and is bound to a turn.        *)
Answered(k) == \/ job[k].bound \/ InHandAt(k, {"told"})
               \/ InHandAt(k, {"ready"}) /\ job[k].intent.kind \in {"direct", "unavailable"}
               \/ InHandAt(k, {"claimed"}) /\ job[k].intent.kind = "new"
Moved(k) ==
    /\ In(k, {"running"})' => In(k, {"running"}) \/ Claim(k)
    /\ In(k, {"queued"})' => \/ In(k, {"queued"}) \/ job[k] = NoRow
                             \/ In(k, {"running"}) /\ (job[k].bound \/ InHandAt(k, {"claimed", "ready", "asked"}))
    /\ In(k, {"completed"})' => \/ In(k, {"completed"}) \/ job'[k].reviewed
                                \/ In(k, {"running"}) /\ Answered(k)
    /\ job'[k].bound => job[k].bound \/ InHandAt(k, {"bound"})
    /\ job[k] = NoRow => job'[k] = NoRow \/ Submit(k)

(* One running job is moved on.                                               *)
LEMMA MovedOn ==
    ASSUME NEW j \in Jobs, NEW s, NEW b, Moves(j, s, b), In(j, {"running"}),
           s = "queued" => job[j].bound \/ InHandAt(j, {"claimed", "ready", "asked"}),
           s = "completed" => Answered(j),
           b => job[j].bound \/ InHandAt(j, {"bound"})
    PROVE  \A k \in Jobs : Moved(k)
BY DEF Moves, OnlyRow, Moved, In, NoRow

LEMMA RowsMove ==
    ASSUME RunnerInv, [Next]_vars
    PROVE  \A k \in Jobs : Moved(k)
<1>1. /\ RunnerTypeOK /\ JobsTypeOK /\ ThreadsTypeOK /\ AppTypeOK /\ SchedulerAgrees
      /\ RowsAgree
  BY DEF RunnerInv, RunnerTypeOK
<1>2. ASSUME job' = job
      PROVE  \A k \in Jobs : Moved(k)
  BY <1>2 DEF Moved, In
<1>3. ASSUME NEW e \in EventRow, Holds(e.turn), Apply(e)
      PROVE  \A k \in Jobs : Moved(k)
  <2>1. /\ e.turn[1] \in Jobs /\ In(e.turn[1], {"running"}) /\ job[e.turn[1]].bound
        /\ \/ Reported(e.turn[1], e) \/ EndedIn(e.turn[1], e)
           \/ EndedForRetry(e.turn[1], e)
    BY <1>1, <1>3, ReportRow DEF Holds
  <2>2. \E s, b : Moves(e.turn[1], s, b)
    BY <2>1 DEF Reported, EndedIn, EndedForRetry
  <2> QED BY <2>1, <2>2, MovedOn DEF Answered
<1>4. CASE UNCHANGED vars
  BY <1>2, <1>4 DEF vars, jobVars
<1>5. ASSUME NEW j \in Jobs, Submit(j)
      PROVE  \A k \in Jobs : Moved(k)
  <2>1. PICK i \in Intents[j] : CreateJob(j, i)
    BY <1>5 DEF Submit
  <2>2. /\ job[j] = NoRow /\ job'[j] = NewJob(i) /\ \A k \in Jobs \ {j} : job'[k] = job[k]
    BY <1>1, <2>1, NewRow
  <2>3. NewJob(i).state = "queued" /\ NewJob(i).bound = FALSE
    BY DEF NewJob
  <2> QED BY <2>1, <2>2, <2>3, <1>5 DEF Moved, In
<1>6. ASSUME NEW j \in Jobs, Admin(j)
      PROVE  \A k \in Jobs : Moved(k)
  <2>1. PICK o \in FinalStates : ResolveRecovery(j, o)
    BY <1>6 DEF Admin
  <2>2. /\ OnlyRow(j) /\ job'[j].state \in FinalStates /\ job'[j].bound = job[j].bound
        /\ job'[j].reviewed /\ job[j] \in JobRow
    BY <1>1, <2>1, ReviewRow
  <2> QED BY <2>2, RowThere, <1>1 DEF Moved, In, OnlyRow, FinalStates
<1>7. CASE TimeStep
  <2>1. ASSUME NEW j \in Jobs, RetryTime(j)
        PROVE  \A k \in Jobs : Moved(k)
    <3>1. Moves(j, "queued", job[j].bound) /\ In(j, {"queued"})
      BY <1>1, <2>1, RestRow
    <3> QED BY <3>1 DEF Moved, Moves, OnlyRow, In, NoRow
  <2> QED BY <1>2, <1>7, <2>1 DEF TimeStep, jobVars
<1>8. CASE Restart
  <2> SUFFICES ASSUME NEW k \in Jobs PROVE Moved(k)
    OBVIOUS
  <2>1. CASE In(k, {"running"})
    BY <1>1, <1>8, <2>1, RecoveredRows DEF Restart, Moved, In, NoRow
  <2>2. CASE ~ In(k, {"running"})
    BY <1>1, <1>8, <2>2, RecoveredRows DEF Restart, Moved, In, NoRow
  <2> QED BY <2>1, <2>2
<1>9. CASE AppServerStep
  BY <1>2, <1>9 DEF AppServerStep, StartTurn, Report, FinishTurn, CallCarTool, CarryOut,
                    ServerExits, jobVars
<1>10. CASE ReaderStep
  <2>1. CASE ReadReport
    BY <1>2, <1>3, <2>1, ReaderHolds DEF ReadReport, jobVars
  <2>2. CASE ObserveMissedText
    <3>1. reader.event \in EventRow
      BY <2>2, ReaderHolds DEF ObserveMissedText, ReaderPlaces
    <3> QED BY <1>2, <1>3, <2>2, <3>1, SecondWrite DEF ObserveMissedText, jobVars
  <2>3. CASE ReadEnd \/ BufferEvent
    BY <1>2, <2>3 DEF ReadEnd, BufferEvent, jobVars
  <2>4. CASE CompleteRead
    BY <1>2, <1>3, <2>4, ReaderHolds DEF CompleteRead, ReaderPlaces, jobVars
  <2> QED BY <1>10, <2>1, <2>2, <2>3, <2>4 DEF ReaderStep
<1>11. CASE SchedulerStep
  <2>1. ASSUME NEW place \in Places, At(place)
        PROVE  /\ J \in Jobs /\ job[J] \in JobRow /\ sched # Idle
               /\ \A places : place \in places => InHandAt(J, places)
               /\ place \in Places \ {"assigned", "replaying"} => job[J].bound = FALSE
    <3>1. J \in Jobs /\ job[J] \in JobRow /\ sched # Idle
      BY <1>1, <2>1, HandIsThere, NotIdle
    <3> QED BY <1>1, <2>1, <3>1 DEF InHandAt, At, SchedulerAgrees, JobRow
  <2>2. ASSUME NEW place \in {"claimed", "ready", "asked", "bound"}, At(place),
               \/ RetryOverloaded(J) /\ place # "bound"
               \/ \E u \in BOOLEAN : FailClaimed(J, u)
        PROVE  \A k \in Jobs : Moved(k)
    <3>1. /\ J \in Jobs /\ job[J].bound = FALSE
          /\ place # "bound" => InHandAt(J, {"claimed", "ready", "asked"})
      BY <2>1, <2>2 DEF Places
    <3>2. CASE RetryOverloaded(J) /\ place # "bound"
      BY <1>1, <2>2, <3>1, <3>2, OverloadRow, MovedOn
    <3>3. ASSUME NEW u \in BOOLEAN, FailClaimed(J, u)
          PROVE  \A k \in Jobs : Moved(k)
      BY <1>1, <3>1, <3>3, FailRow, MovedOn
    <3> QED BY <2>2, <3>2, <3>3
  <2>3. ASSUME NEW place \in {"claimed", "ready", "told"}, At(place), CompleteDirect(J),
               place = "claimed" => job[J].intent.kind = "new",
               place = "ready" => job[J].intent.kind \in {"direct", "unavailable"}
        PROVE  \A k \in Jobs : Moved(k)
    <3>1. J \in Jobs /\ job[J].bound = FALSE /\ InHandAt(J, {place})
      BY <2>1, <2>3 DEF Places
    <3>2. Answered(J)
      BY <2>3, <3>1 DEF Answered
    <3> QED BY <1>1, <2>3, <3>1, <3>2, DirectRow, MovedOn
  <2>4. CASE NewThread \/ BeginJob \/ DirectTool
    BY <1>2, <2>2, <2>3, <2>4 DEF NewThread, BeginJob, DirectTool, jobVars, Asks
  <2>5. CASE AskForCar \/ ConfirmCar \/ ExecuteCar \/ TellResult
    BY <1>2, <2>2, <2>3, <2>5 DEF AskForCar, ConfirmCar, ExecuteCar, TellResult, jobVars
  <2>6. CASE AskTurn \/ FailBeforeTurn \/ TurnRejected \/ TurnUnanswered
    BY <1>2, <2>2, <2>6 DEF AskTurn, FailBeforeTurn, TurnRejected, TurnUnanswered, jobVars
  <2>7. CASE BindTurn \/ FlushTurnEvents
    BY <1>2, <2>7 DEF BindTurn, FlushTurnEvents, jobVars
  <2>8. CASE AssignTheTurn
    <3>1. J \in Jobs /\ InHandAt(J, {"bound"}) /\ AssignTurn(J)
      BY <2>1, <2>8 DEF AssignTheTurn, Places
    <3>2. Moves(J, "running", TRUE) /\ In(J, {"running"})
      BY <1>1, <3>1, AssignRow
    <3> QED BY <3>1, <3>2, MovedOn
  <2>9. CASE AssignFails
    BY <2>2, <2>9 DEF AssignFails
  <2>10. CASE ReplayEvent
    <3>1. Head(replay) \in EventRow
      BY <1>1, <2>10, TailFacts DEF ThreadsTypeOK, ReplayEvent, RunnerInv, ThreadsAgree
    <3> QED BY <1>2, <1>3, <2>10, <3>1 DEF ReplayEvent, jobVars
  <2>11. ASSUME NEW j \in Jobs, Claim(j)
         PROVE  \A k \in Jobs : Moved(k)
    <3>1. /\ OnlyRow(j) /\ job'[j].state = "running" /\ job'[j].bound = FALSE
          /\ In(j, {"queued"})
      BY <1>1, <2>11, ClaimRow DEF Claim
    <3> QED BY <2>11, <3>1 DEF Moved, OnlyRow, In, NoRow
  <2> QED BY <1>11, <2>4, <2>5, <2>6, <2>7, <2>8, <2>9, <2>10, <2>11 DEF SchedulerStep
<1> QED BY <1>4, <1>5, <1>6, <1>7, <1>8, <1>9, <1>10, <1>11 DEF Next

(* The scheduler goes from one place to the next, in one job.                 *)
LEMMA HandMoves ==
    ASSUME RunnerInv, [Next]_vars
    PROVE  \/ sched' = sched
           \/ /\ sched' = Idle
              /\ At("told") => TellResult \/ Restart
              /\ At("executing") => Restart
           \/ sched'.at = "claimed" /\ At("idle")
           \/ /\ sched # Idle /\ sched' # Idle /\ J' = J
              /\ \/ At("claimed") /\ sched'.at = "ready" /\ BeginJob
                 \/ At("ready") /\ sched'.at = "told" /\ AskForCar
                 \/ At("ready") /\ sched'.at \in {"told", "executing"} /\ ConfirmCar
                 \/ At("ready") /\ sched'.at = "asked" /\ Asks({"turn"})
                 \/ At("executing") /\ sched'.at = "told" /\ ExecuteCar
                 \/ At("asked") /\ sched'.at = "answered"
                 \/ At("answered") /\ sched'.at = "bound"
                 \/ At("bound") /\ sched'.at = "assigned"
                 \/ At("assigned") /\ sched'.at = "replaying"
<1>1. RunnerTypeOK /\ SchedulerAgrees
  BY DEF RunnerInv
<1>2. ASSUME NEW place \in Places, At(place), NEW next \in Places, Goes(next)
      PROVE  sched # Idle /\ sched' # Idle /\ J' = J /\ sched'.at = next
  BY <1>1, <1>2, NotIdle, GoesOn
<1>3. CASE SchedulerStep
  <2>1. CASE \E j \in Jobs : Claim(j)
    BY <2>1 DEF Claim
  <2>2. CASE NewThread \/ DirectTool \/ FailBeforeTurn \/ TurnRejected \/ TurnUnanswered
    BY <2>2 DEF NewThread, DirectTool, FailBeforeTurn, TurnRejected, TurnUnanswered, Stops, At
  <2>3. CASE BeginJob
    BY <1>2, <2>3 DEF BeginJob, Stops, At, Places
  <2>4. CASE AskForCar
    BY <1>2, <2>4 DEF AskForCar, Stops, At, Places
  <2>5. CASE ConfirmCar
    BY <1>2, <2>5 DEF ConfirmCar, Stops, At, Places
  <2>6. CASE ExecuteCar
    BY <1>2, <2>6 DEF ExecuteCar, At, Places
  <2>7. CASE TellResult
    BY <2>7 DEF TellResult, Stops, At
  <2>8. CASE AskTurn \/ BindTurn \/ AssignTheTurn
    BY <1>2, <2>8 DEF AskTurn, BindTurn, AssignTheTurn, Places
  <2>9. CASE AssignFails
    BY <2>9 DEF AssignFails, At
  <2>10. CASE FlushTurnEvents
    BY <1>2, <2>10 DEF FlushTurnEvents, At, Places
  <2>11. CASE ReplayEvent
    BY <2>11 DEF ReplayEvent, At
  <2> QED BY <1>3, <2>1, <2>2, <2>3, <2>4, <2>5, <2>6, <2>7, <2>8, <2>9, <2>10, <2>11
          DEF SchedulerStep
<1>4. CASE ReaderStep
  BY <1>4 DEF ReaderStep, ReadReport, ObserveMissedText, ReadEnd, CompleteRead, BufferEvent
<1>5. CASE AppServerStep
  <2>1. ASSUME NEW t \in Turns, StartTurn(t)
        PROVE  sched' = sched \/ (At("asked") /\ Goes("answered"))
    BY <2>1 DEF StartTurn
  <2>2. ASSUME NEW t \in Turns, Report(t) \/ FinishTurn(t) \/ \E c \in Callers : CallCarTool(t, c)
        PROVE  sched' = sched
    BY <2>2 DEF Report, FinishTurn, CallCarTool, threadVars
  <2>3. ASSUME ServerExits \/ \E c \in Callers : CarryOut(c)
        PROVE  sched' = sched
    BY <2>3 DEF ServerExits, CarryOut, serviceVars, threadVars
  <2> QED BY <1>2, <1>5, <2>1, <2>2, <2>3 DEF AppServerStep, Places
<1>6. CASE (\E j \in Jobs : Submit(j) \/ Admin(j)) \/ TimeStep
  BY <1>6 DEF Submit, Admin, TimeStep, serviceVars, threadVars
<1>7. CASE Restart
  BY <1>7 DEF Restart
<1>8. CASE UNCHANGED vars
  BY <1>8 DEF vars, serviceVars, threadVars
<1> QED BY <1>3, <1>4, <1>5, <1>6, <1>7, <1>8 DEF Next

(* The same, for one job.                                                     *)
LEMMA InHandMoves ==
    ASSUME RunnerInv, RunnerTypeOK', [Next]_vars, NEW k \in Jobs
    PROVE  /\ InHandAt(k, {"ready"})' => \/ InHandAt(k, {"ready"})
                                         \/ InHandAt(k, {"claimed"}) /\ BeginJob
           /\ InHandAt(k, {"asked", "answered", "bound"})' =>
                 \/ InHandAt(k, {"asked", "answered", "bound"})
                 \/ InHandAt(k, {"ready"}) /\ job[k].intent.kind = "turn"
           /\ InHandAt(k, {"executing"})' => \/ InHandAt(k, {"executing"})
                                             \/ InHandAt(k, {"ready"}) /\ ConfirmCar
           /\ InHandAt(k, {"told"})' => \/ InHandAt(k, {"told", "executing"})
                                        \/ InHandAt(k, {"ready"}) /\ (AskForCar \/ ConfirmCar)
           /\ InHandAt(k, {"told"}) /\ In(k, {"running"})' => InHandAt(k, {"told"})'
           /\ InHandAt(k, {"executing"}) /\ In(k, {"running"})' =>
                 InHandAt(k, {"told", "executing"})'
<1>1. /\ RunnerTypeOK /\ JobsTypeOK /\ SchedulerAgrees
      /\ \A place \in Places : At(place) => place # "idle"
  BY DEF RunnerInv, RunnerTypeOK, Places
<1>2. ASSUME At("told"), J = k, TellResult
      PROVE  ~ In(k, {"running"})'
  <2>1. Moves(k, "completed", job[k].bound)
    BY <1>1, <1>2, DirectRow DEF TellResult
  <2> QED BY <2>1 DEF Moves, In
<1>3. ASSUME Restart
      PROVE  ~ In(k, {"running"})'
  BY <1>1, <1>3, RecoveredRows DEF Restart, In
<1>4. \/ sched' = sched
      \/ /\ sched' = Idle
         /\ At("told") => TellResult \/ Restart
         /\ At("executing") => Restart
      \/ sched'.at = "claimed" /\ At("idle")
      \/ /\ sched # Idle /\ sched' # Idle /\ J' = J
         /\ \/ At("claimed") /\ sched'.at = "ready" /\ BeginJob
            \/ At("ready") /\ sched'.at = "told" /\ AskForCar
            \/ At("ready") /\ sched'.at \in {"told", "executing"} /\ ConfirmCar
            \/ At("ready") /\ sched'.at = "asked" /\ Asks({"turn"})
            \/ At("executing") /\ sched'.at = "told" /\ ExecuteCar
            \/ At("asked") /\ sched'.at = "answered"
            \/ At("answered") /\ sched'.at = "bound"
            \/ At("bound") /\ sched'.at = "assigned"
            \/ At("assigned") /\ sched'.at = "replaying"
  BY HandMoves
<1>5. CASE sched' = sched
  BY <1>5 DEF InHandAt, J
<1>6. CASE /\ sched' = Idle
           /\ At("told") => TellResult \/ Restart
           /\ At("executing") => Restart
  BY <1>2, <1>3, <1>6 DEF InHandAt, At
<1>7. CASE sched'.at = "claimed" /\ At("idle")
  BY <1>7 DEF InHandAt, At
<1>8. CASE /\ sched # Idle /\ sched' # Idle /\ J' = J
           /\ \/ At("claimed") /\ sched'.at = "ready" /\ BeginJob
              \/ At("ready") /\ sched'.at = "told" /\ AskForCar
              \/ At("ready") /\ sched'.at \in {"told", "executing"} /\ ConfirmCar
              \/ At("ready") /\ sched'.at = "asked" /\ Asks({"turn"})
              \/ At("executing") /\ sched'.at = "told" /\ ExecuteCar
              \/ At("asked") /\ sched'.at = "answered"
              \/ At("answered") /\ sched'.at = "bound"
              \/ At("bound") /\ sched'.at = "assigned"
              \/ At("assigned") /\ sched'.at = "replaying"
  BY <1>8 DEF InHandAt, At, Asks
<1> QED BY <1>4, <1>5, <1>6, <1>7, <1>8

(* The context is that of before, or that of the job which begins.            *)
LEMMA ContextMoves ==
    ASSUME RunnerInv, [Next]_vars
    PROVE  \/ ctx'.job \in {ctx.job, NoJob}
           \/ BeginJob /\ sched' # Idle /\ J' = J /\ ctx'.job = J /\ job' = job
<1>1. NoContext.job = NoJob
  BY DEF NoContext
<1>2. ctx \in [job : Jobs \cup {NoJob}, turn : Turns \cup {NoTurn}]
  BY DEF RunnerInv, RunnerTypeOK, ThreadsTypeOK
<1>3. (ctx' = ctx \/ ctx' = NoContext \/ \E t : ctx' = [ctx EXCEPT !.turn = t])
         => ctx'.job \in {ctx.job, NoJob}
  BY <1>1, <1>2
<1>4. ClearJob \/ (\E t : EndTurn(t)) => ctx' = ctx \/ ctx' = NoContext
  BY DEF ClearJob, EndTurn
<1>5. CASE SchedulerStep
  <2>1. CASE \E j \in Jobs : Claim(j)
    BY <1>3, <2>1 DEF Claim
  <2>2. CASE NewThread \/ DirectTool \/ FailBeforeTurn \/ TurnRejected \/ TurnUnanswered
    BY <1>3, <1>4, <2>2 DEF NewThread, DirectTool, FailBeforeTurn, TurnRejected, TurnUnanswered, Stops
  <2>3. CASE BeginJob
    <3>1. CASE ctx = NoContext
      BY <2>3, <3>1, NotIdle, GoesOn DEF BeginJob, jobVars, RunnerInv, Places
    <3>2. CASE ctx # NoContext
      BY <1>3, <1>4, <2>3, <3>2 DEF BeginJob, Stops
    <3> QED BY <3>1, <3>2
  <2>4. CASE AskForCar \/ ConfirmCar \/ ExecuteCar \/ TellResult
    BY <1>3, <1>4, <2>4 DEF AskForCar, ConfirmCar, ExecuteCar, TellResult, Stops
  <2>5. CASE AskTurn \/ AssignTheTurn \/ AssignFails \/ FlushTurnEvents
    BY <1>3, <2>5 DEF AskTurn, AssignTheTurn, AssignFails, FlushTurnEvents
  <2>6. CASE BindTurn
    BY <1>3, <2>6 DEF BindTurn
  <2>7. CASE ReplayEvent
    BY <1>3, <1>4, <2>7 DEF ReplayEvent
  <2> QED BY <1>5, <2>1, <2>2, <2>3, <2>4, <2>5, <2>6, <2>7 DEF SchedulerStep
<1>6. CASE ReaderStep
  BY <1>3, <1>4, <1>6 DEF ReaderStep, ReadReport, ObserveMissedText, ReadEnd, CompleteRead, BufferEvent
<1>7. CASE AppServerStep
  BY <1>3, <1>7 DEF AppServerStep, StartTurn, Report, FinishTurn, CallCarTool, CarryOut,
                    ServerExits, serviceVars, threadVars
<1>8. CASE (\E j \in Jobs : Submit(j) \/ Admin(j)) \/ TimeStep
  BY <1>3, <1>8 DEF Submit, Admin, TimeStep, serviceVars, threadVars
<1>9. CASE Restart
  BY <1>3, <1>9 DEF Restart
<1>10. CASE UNCHANGED vars
  BY <1>3, <1>10 DEF vars, serviceVars, threadVars
<1> QED BY <1>5, <1>6, <1>7, <1>8, <1>9, <1>10 DEF Next

(* A turn is asked for by the scheduler only.                                 *)
LEMMA TurnsBegin ==
    ASSUME RunnerInv, [Next]_vars, NEW t \in Turns, turn'[t].at \in {"asked", "live"}
    PROVE  \/ turn[t].at \in {"asked", "live"}
           \/ AskTurn /\ t = TurnOf(J)
<1>1. \A u \in Turns : turn[u] \in TurnRow
  BY DEF RunnerInv, RunnerTypeOK, AppTypeOK
<1>2. turn \in [Turns -> TurnRow] /\ RunnerTypeOK /\ SchedulerAgrees
  BY DEF RunnerInv, RunnerTypeOK, AppTypeOK
<1>3. turn' = turn => turn[t].at \in {"asked", "live"}
  OBVIOUS
<1>4. turn' = Gone => turn[t].at \in {"asked", "live"}
  BY <1>1 DEF Gone, TurnRow
<1>5. CASE SchedulerStep
  <2>1. CASE AskTurn
    BY <1>2, <2>1 DEF AskTurn
  <2>2. CASE TurnRejected
    BY <1>2, <2>2 DEF TurnRejected
  <2>3. CASE (\E j \in Jobs : Claim(j)) \/ FlushTurnEvents \/ ReplayEvent
    BY <1>3, <2>3 DEF Claim, FlushTurnEvents, ReplayEvent, appVars
  <2>4. CASE NewThread \/ BeginJob \/ DirectTool \/ FailBeforeTurn \/ TurnUnanswered
    BY <1>3, <2>4 DEF NewThread, BeginJob, DirectTool, FailBeforeTurn, TurnUnanswered,
                      Calmly, appVars
  <2>5. CASE AskForCar \/ ConfirmCar \/ ExecuteCar \/ TellResult
    BY <1>3, <2>5 DEF AskForCar, ConfirmCar, ExecuteCar, TellResult, Calmly, appVars
  <2>6. CASE BindTurn \/ AssignTheTurn \/ AssignFails
    BY <1>3, <2>6 DEF BindTurn, AssignTheTurn, AssignFails, Calmly, appVars
  <2> QED BY <1>5, <2>1, <2>2, <2>3, <2>4, <2>5, <2>6 DEF SchedulerStep
<1>6. CASE ReaderStep
  BY <1>3, <1>6 DEF ReaderStep, ReadReport, ObserveMissedText, ReadEnd, CompleteRead,
                    BufferEvent, appVars
<1>7. CASE AppServerStep
  <2>1. ASSUME NEW u \in Turns, StartTurn(u) \/ Report(u) \/ FinishTurn(u)
                                \/ \E c \in Callers : CallCarTool(u, c)
        PROVE  turn[t].at \in {"asked", "live"}
    <3>1. turn[u].at \in {"asked", "live"} /\ \A v \in Turns \ {u} : turn'[v] = turn[v]
      BY <1>2, <2>1 DEF StartTurn, Report, FinishTurn, CallCarTool
    <3> QED BY <3>1
  <2>2. CASE ServerExits
    BY <1>4, <2>2 DEF ServerExits
  <2>3. ASSUME NEW c \in Callers, CarryOut(c)
        PROVE  turn' = turn
    BY <2>3 DEF CarryOut, serviceVars, appVars
  <2> QED BY <1>3, <1>7, <2>1, <2>2, <2>3 DEF AppServerStep
<1>8. CASE (\E j \in Jobs : Submit(j) \/ Admin(j)) \/ TimeStep
  BY <1>3, <1>8 DEF Submit, Admin, TimeStep, serviceVars, appVars
<1>9. CASE Restart
  BY <1>4, <1>9 DEF Restart
<1>10. CASE UNCHANGED vars
  BY <1>3, <1>10 DEF vars, serviceVars, appVars
<1> QED BY <1>5, <1>6, <1>7, <1>8, <1>9, <1>10 DEF Next

(* A message arrives, or none does.                                           *)
LEMMA ArrivedMoves ==
    ASSUME RunnerInv, [Next]_vars
    PROVE  \/ arrived' = arrived /\ \A j \in Jobs : job'[j] = NoRow <=> job[j] = NoRow
           \/ \E j \in Jobs : /\ job[j] = NoRow /\ job'[j] # NoRow /\ job'[j].attempt = 0
                              /\ \A k \in Jobs \ {j} : job'[k] = job[k]
                              /\ arrived' = Append(arrived, j)
<1>1. RunnerTypeOK /\ JobsTypeOK
  BY DEF RunnerInv, RunnerTypeOK
<1>2. ASSUME NEW j \in Jobs, Submit(j)
      PROVE  /\ job[j] = NoRow /\ job'[j] # NoRow /\ job'[j].attempt = 0
             /\ \A k \in Jobs \ {j} : job'[k] = job[k]
             /\ arrived' = Append(arrived, j)
  <2>1. PICK i \in Intents[j] : CreateJob(j, i)
    BY <1>2 DEF Submit
  <2>2. NewJob(i).attempt = 0
    BY DEF NewJob
  <2> QED BY <1>1, <2>1, <2>2, NewRow, RowThere
<1>3. CASE ~ \E j \in Jobs : Submit(j)
  <2>2. arrived' = arrived
    <3>1. ASSUME NEW j, NEW row, Update(j, row)
          PROVE  arrived' = arrived
      BY <3>1 DEF Update
    <3>2. ASSUME NEW j, \/ CompleteDirect(j) \/ RetryOverloaded(j) \/ AssignTurn(j)
                        \/ RetryTime(j) \/ ClaimNext(j)
                        \/ \E u \in BOOLEAN : FailClaimed(j, u)
                        \/ \E o \in FinalStates : ResolveRecovery(j, o)
          PROVE  arrived' = arrived
      BY <3>1, <3>2 DEF CompleteDirect, RetryOverloaded, AssignTurn, RetryTime, ClaimNext,
                        FailClaimed, ResolveRecovery
    <3>3. ASSUME NEW e, Apply(e)
          PROVE  arrived' = arrived
      <4>1. \/ SetResultText(e.turn) \/ ObserveTurnActivity(e.turn)
            \/ CompleteTurn(e.turn, e.end, Shows(e))
            \/ ObserveTurnError(e.turn, e.kind = "retriable_error")
        BY <3>3 DEF Apply
      <4> QED BY <3>1, <4>1 DEF SetResultText, ObserveTurnActivity, CompleteTurn, ObserveTurnError
    <3>4. UNCHANGED jobVars => arrived' = arrived
      BY DEF jobVars
    <3>5. CASE SchedulerStep
      <4>1. CASE (\E j \in Jobs : Claim(j)) \/ NewThread \/ BeginJob \/ DirectTool \/ AskForCar
        BY <3>2, <3>4, <4>1 DEF Claim, NewThread, BeginJob, DirectTool, AskForCar
      <4>2. CASE ConfirmCar \/ ExecuteCar \/ TellResult \/ AskTurn \/ FailBeforeTurn
        BY <3>2, <3>4, <4>2 DEF ConfirmCar, ExecuteCar, TellResult, AskTurn, FailBeforeTurn, jobVars
      <4>3. CASE TurnRejected \/ TurnUnanswered \/ BindTurn \/ AssignTheTurn \/ AssignFails
        BY <3>2, <3>4, <4>3 DEF TurnRejected, TurnUnanswered, BindTurn, AssignTheTurn, AssignFails
      <4>4. CASE FlushTurnEvents \/ ReplayEvent
        BY <3>3, <3>4, <4>4 DEF FlushTurnEvents, ReplayEvent
      <4> QED BY <3>5, <4>1, <4>2, <4>3, <4>4 DEF SchedulerStep
    <3>6. CASE ReaderStep
      <4>1. ASSUME NEW t, ObserveTurnActivity(t)
            PROVE  arrived' = arrived
        BY <3>1, <4>1 DEF ObserveTurnActivity
      <4> QED BY <3>3, <3>4, <3>6, <4>1 DEF ReaderStep, ReadReport, ObserveMissedText, ReadEnd,
                                          CompleteRead, BufferEvent, jobVars
    <3>7. CASE AppServerStep
      BY <3>4, <3>7 DEF AppServerStep, StartTurn, Report, FinishTurn, CallCarTool, CarryOut,
                        ServerExits, jobVars
    <3>8. CASE (\E j \in Jobs : Admin(j)) \/ TimeStep \/ Restart
      BY <3>2, <3>4, <3>8 DEF Admin, TimeStep, Restart, RecoverRunning
    <3>9. CASE UNCHANGED vars
      BY <3>4, <3>9 DEF vars
    <3> QED BY <1>3, <3>5, <3>6, <3>7, <3>8, <3>9 DEF Next
  <2>3. \A j \in Jobs : job[j] # NoRow => job'[j] # NoRow
    BY <1>1, RowsProgress, RowThere DEF Progress
  <2>4. \A j \in Jobs : job[j] = NoRow => job'[j] = NoRow
    BY <1>3, RowsMove DEF Moved
  <2> QED BY <2>2, <2>3, <2>4
<1> QED BY <1>2, <1>3

(* Jobs still run in the order of their messages.                             *)
LEMMA OrderStep ==
    ASSUME RunnerInv, InOrder, [Next]_vars
    PROVE  InOrder'
<1>1. /\ RunnerTypeOK /\ JobsTypeOK /\ RowsAgree /\ arrived \in Seq(Jobs)
      /\ \A n \in DOMAIN arrived : arrived[n] \in Jobs
  <2>1. arrived \in Seq(Jobs)
    BY DEF RunnerInv, RunnerTypeOK, JobsTypeOK
  <2> QED BY <2>1, ElementOfSeq, LenProperties DEF RunnerInv, RunnerTypeOK
<1>2. ASSUME NEW j \in Jobs, job[j] # NoRow
      PROVE  /\ In(j, FinalStates) => In(j, FinalStates)'
             /\ Ran(j)' => Ran(j) \/ Claim(j)
  BY <1>2, RowsProgress DEF Progress, In, Ran
<1>3. CASE arrived' = arrived /\ \A j \in Jobs : job'[j] = NoRow <=> job[j] = NoRow
  <2>1. (\A j \in Jobs : job[j] # NoRow <=> \E n \in DOMAIN arrived : arrived[n] = j)'
    BY <1>3 DEF InOrder
  <2>2. ASSUME NEW m \in DOMAIN arrived, NEW n \in DOMAIN arrived, m < n, Ran(arrived[n])'
        PROVE  In(arrived[m], FinalStates)'
    <3>0. PICK i \in Jobs, j \in Jobs : i = arrived[m] /\ j = arrived[n]
      BY <1>1
    <3>1. i \in Jobs /\ j \in Jobs /\ job[i] # NoRow /\ job[j] # NoRow
      BY <3>0 DEF InOrder
    <3>2. CASE Ran(j)
      <4>1. In(i, FinalStates)
        BY <2>2, <3>0, <3>2 DEF InOrder
      <4> QED BY <1>2, <1>3, <3>0, <3>1, <4>1 DEF In
    <3>3. CASE Claim(j)
      <4>1. ClaimNext(j) /\ First(j) /\ \A k \in Jobs : ~ In(k, Busy)
        BY <3>3 DEF Claim, ClaimNext, Busy
      <4>2. PICK l \in DOMAIN arrived : /\ arrived[l] = j
                                        /\ \A q \in 1 .. l - 1 : ~ In(arrived[q], {"queued"})
        BY <4>1 DEF First
      <4>3. DOMAIN arrived = 1 .. Len(arrived) /\ Len(arrived) \in Nat
        BY <1>1, LenProperties
      <4>4. l = n
        BY <3>0, <4>2, <4>3 DEF InOrder
      <4>5. ~ In(i, {"queued"}) /\ ~ In(i, Busy)
        BY <2>2, <3>0, <3>1, <4>1, <4>2, <4>3, <4>4
      <4>6. job[i] \in JobRow
        BY <1>1, <3>1, RowThere
      <4>7. In(i, FinalStates)
        BY <4>5, <4>6 DEF In, JobRow, ActiveStates, Busy
      <4> QED BY <1>2, <1>3, <3>0, <3>1, <4>7 DEF In
    <3>4. Ran(j)' => Ran(j) \/ Claim(j)
      BY <1>2, <3>1
    <3>5. Ran(arrived[n])' => Ran(j)'
      BY <1>3, <3>0 DEF Ran
    <3> QED BY <2>2, <3>2, <3>3, <3>4, <3>5
  <2>3. \A m, n \in DOMAIN arrived : m < n => arrived[m] # arrived[n]
    BY DEF InOrder
  <2> QED BY <1>3, <2>1, <2>2, <2>3 DEF InOrder
<1>4. ASSUME NEW j \in Jobs, job[j] = NoRow, job'[j] # NoRow, job'[j].attempt = 0,
             \A k \in Jobs \ {j} : job'[k] = job[k],
             arrived' = Append(arrived, j)
      PROVE  InOrder'
  <2> DEFINE len == Len(arrived)
  <2>1. /\ len \in Nat /\ DOMAIN arrived = 1 .. len /\ DOMAIN arrived' = 1 .. (len + 1)
        /\ \A n \in DOMAIN arrived : arrived'[n] = arrived[n]
        /\ arrived'[len + 1] = j
    BY <1>1, <1>4, AppendFacts
  <2> HIDE DEF len
  <2>2. \A n \in DOMAIN arrived : arrived[n] # j /\ arrived[n] \in Jobs /\ job[arrived[n]] # NoRow
    BY <1>1, <1>4 DEF InOrder
  <2>3. ASSUME NEW k \in Jobs
        PROVE  job'[k] # NoRow <=> \E n \in DOMAIN arrived' : arrived'[n] = k
    <3>1. CASE k = j
      BY <1>4, <2>1, <3>1
    <3>2. CASE k # j
      <4>1. job'[k] # NoRow <=> \E n \in DOMAIN arrived : arrived[n] = k
        BY <1>4, <3>2 DEF InOrder
      <4> QED BY <2>1, <3>2, <4>1
    <3> QED BY <3>1, <3>2
  <2>4. ASSUME NEW m \in DOMAIN arrived', NEW n \in DOMAIN arrived', m < n
        PROVE  /\ arrived'[m] # arrived'[n]
               /\ Ran(arrived[n])' => In(arrived[m], FinalStates)'
    <3>1. m \in DOMAIN arrived /\ arrived'[m] = arrived[m]
      BY <2>1, <2>4
    <3>2. CASE n = len + 1
      <4>1. ~ Ran(arrived[n])' /\ arrived'[n] = j
        BY <1>4, <2>1, <3>2 DEF Ran
      <4> QED BY <2>2, <3>1, <4>1
    <3>3. CASE n # len + 1
      <4>1. n \in DOMAIN arrived /\ arrived'[n] = arrived[n]
        BY <2>1, <2>4, <3>3
      <4>2. arrived[m] # arrived[n] /\ (Ran(arrived[n]) => In(arrived[m], FinalStates))
        BY <2>4, <3>1, <4>1 DEF InOrder
      <4>3. job'[arrived[n]] = job[arrived[n]] /\ job'[arrived[m]] = job[arrived[m]]
        BY <1>4, <2>2, <3>1, <4>1
      <4> QED BY <3>1, <4>1, <4>2, <4>3 DEF Ran, In
    <3> QED BY <3>2, <3>3
  <2> QED BY <2>3, <2>4 DEF InOrder
<1> QED BY <1>3, <1>4, ArrivedMoves

(* Which is the later of two messages does not change.                        *)
LEMMA LaterStays ==
    ASSUME RunnerInv, InOrder, [Next]_vars, NEW r \in Jobs, NEW c \in Jobs
    PROVE  /\ Later(r, c) => Later(r, c)'
           /\ Later(r, c)' /\ job[c] # NoRow => Later(r, c)
<1>1. /\ arrived \in Seq(Jobs) /\ DOMAIN arrived = 1 .. Len(arrived) /\ Len(arrived) \in Nat
  BY LenProperties DEF RunnerInv, RunnerTypeOK, JobsTypeOK
<1>2. CASE arrived' = arrived
  BY <1>2 DEF Later
<1>3. ASSUME NEW j \in Jobs, job[j] = NoRow, arrived' = Append(arrived, j)
      PROVE  /\ Later(r, c) => Later(r, c)'
             /\ Later(r, c)' /\ job[c] # NoRow => Later(r, c)
  <2>1. /\ DOMAIN arrived' = 1 .. (Len(arrived) + 1)
        /\ \A n \in DOMAIN arrived : arrived'[n] = arrived[n]
        /\ arrived'[Len(arrived) + 1] = j
    BY <1>1, <1>3, AppendFacts
  <2>2. Later(r, c) => Later(r, c)'
    BY <1>1, <2>1 DEF Later
  <2>3. ASSUME NEW m \in DOMAIN arrived', NEW n \in DOMAIN arrived', m < n,
               arrived'[m] = r, arrived'[n] = c, job[c] # NoRow
        PROVE  Later(r, c)
    <3>1. n # Len(arrived) + 1
      BY <1>3, <2>1, <2>3
    <3>2. n \in DOMAIN arrived /\ m \in DOMAIN arrived
      BY <1>1, <2>1, <2>3, <3>1
    <3> QED BY <2>1, <2>3, <3>2 DEF Later
  <2>4. Later(r, c)' /\ job[c] # NoRow => Later(r, c)
    BY <2>3 DEF Later
  <2> QED BY <2>2, <2>4
<1> QED BY <1>2, <1>3, ArrivedMoves

(* What later means for jobs that ran.                                        *)
LEMMA LaterRan ==
    ASSUME RunnerTypeOK, InOrder, NEW r \in Jobs, NEW c \in Jobs
    PROVE  /\ Later(r, c) => job[r] # NoRow /\ job[c] # NoRow /\ r # c
           /\ Later(r, c) /\ Ran(c) => In(r, FinalStates)
           /\ job[r] # NoRow /\ job[c] # NoRow /\ r # c => Later(r, c) \/ Later(c, r)
<1>1. /\ arrived \in Seq(Jobs) /\ DOMAIN arrived = 1 .. Len(arrived) /\ Len(arrived) \in Nat
  BY LenProperties DEF RunnerTypeOK, JobsTypeOK
<1>2. Later(r, c) => job[r] # NoRow /\ job[c] # NoRow /\ r # c
  BY DEF Later, InOrder
<1>3. Later(r, c) /\ Ran(c) => In(r, FinalStates)
  BY DEF Later, InOrder
<1>4. job[r] # NoRow /\ job[c] # NoRow /\ r # c => Later(r, c) \/ Later(c, r)
  <2> SUFFICES ASSUME job[r] # NoRow, job[c] # NoRow, r # c
               PROVE  Later(r, c) \/ Later(c, r)
    OBVIOUS
  <2>1. PICK m \in DOMAIN arrived : arrived[m] = r
    BY DEF InOrder
  <2>2. PICK n \in DOMAIN arrived : arrived[n] = c
    BY DEF InOrder
  <2>3. m < n \/ n < m
    BY <1>1, <2>1, <2>2
  <2> QED BY <2>1, <2>2, <2>3 DEF Later
<1> QED BY <1>2, <1>3, <1>4

(* A turn that may run, of a job nobody reviewed: the job is busy.            *)
LEMMA TurnIsBusy ==
    ASSUME RunnerInv, NEW t \in Turns, turn[t].at \in {"asked", "live"}, ~ job[t[1]].reviewed
    PROVE  /\ t[1] \in Jobs /\ In(t[1], Busy) /\ Ran(t[1])
           /\ job[t[1]].intent.kind = "turn"
<1>1. /\ RunnerTypeOK /\ JobsTypeOK /\ RowsAgree /\ TurnsAgree /\ OutcomeOfItsTurn
      /\ t[1] \in Jobs
  BY TurnsDiffer DEF RunnerInv, RunnerTypeOK
<1>2. /\ job[t[1]] # NoRow /\ t = TurnOf(t[1]) /\ ~ In(t[1], {"queued"})
      /\ job[t[1]].intent.kind = "turn"
  BY <1>1 DEF TurnsAgree
<1>3. job[t[1]] \in JobRow
  BY <1>1, <1>2, RowThere
<1>4. ~ In(t[1], FinalStates)
  BY <1>1, <1>2 DEF OutcomeOfItsTurn
<1>5. In(t[1], Busy)
  BY <1>2, <1>3, <1>4 DEF In, JobRow, ActiveStates, Busy
<1>6. Ran(t[1])
  BY <1>1, <1>2 DEF RowsAgree, Ran, In
<1> QED BY <1>1, <1>2, <1>5, <1>6

(* The context still agrees.                                                  *)
LEMMA ContextStep ==
    ASSUME RunnerInv, RunnerTypeOK', ContextAgrees, [Next]_vars
    PROVE  ContextAgrees'
<1>1. /\ RunnerTypeOK /\ JobsTypeOK /\ SchedulerAgrees /\ RowsAgree /\ TurnsAgree /\ OneIsBusy
  BY DEF RunnerInv, RunnerTypeOK
<1>2. ctx.job \in Jobs \cup {NoJob} /\ ctx'.job \in Jobs \cup {NoJob}
  BY DEF RunnerTypeOK, ThreadsTypeOK, RunnerInv
<1>3. sched # Idle => J \in Jobs /\ Ran(J)
  BY <1>1, HandIsThere DEF SchedulerAgrees, Ran
<1>4. BeginJob => sched # Idle /\ At("claimed") /\ In(J, {"running"})
  BY <1>1, NotIdle DEF BeginJob, SchedulerAgrees, At, Places
<1>5. \/ ctx'.job \in {ctx.job, NoJob}
      \/ BeginJob /\ sched' # Idle /\ J' = J /\ ctx'.job = J /\ job' = job
  BY ContextMoves
<1>6. ASSUME NEW q \in Jobs, ctx'.job = q
      PROVE  Ran(q)'
  BY <1>2, <1>3, <1>4, <1>5, <1>6, RanStays, ConversationAssumption DEF ContextAgrees
<1>7. ctx'.job # NoJob => Ran(ctx.job)'
  BY <1>2, <1>6 DEF Ran
<1>8. sched' # Idle /\ sched'.at \notin {"claimed", "assigned", "replaying"}
         => ctx'.job \in {NoJob, J'}
  <2> SUFFICES ASSUME sched' # Idle, sched'.at \notin {"claimed", "assigned", "replaying"},
                      ctx'.job \in {ctx.job, NoJob}
               PROVE  ctx'.job \in {NoJob, J'}
    BY <1>5
  <2>1. CASE sched' = sched
    BY <2>1 DEF ContextAgrees, J
  <2>2. CASE /\ sched # Idle /\ J' = J
             /\ sched.at \notin {"claimed", "assigned", "replaying"}
    BY <2>2 DEF ContextAgrees
  <2>3. CASE BeginJob
    <3>1. CASE ctx = NoContext
      BY <2>3, <3>1 DEF NoContext
    <3>2. CASE ctx # NoContext
      BY <2>3, <3>2 DEF BeginJob, Stops
    <3> QED BY <3>1, <3>2
  <2> QED BY <2>1, <2>2, <2>3, HandMoves DEF At
<1>9. ASSUME NEW t \in Turns, turn'[t].at \in {"asked", "live"}, ~ job'[t[1]].reviewed
      PROVE  ctx'.job \in {NoJob, t[1]}
  <2>1. CASE turn[t].at \in {"asked", "live"}
    <3>1. job[t[1]] # NoRow /\ t[1] \in Jobs
      BY <1>1, <2>1, TurnsDiffer DEF TurnsAgree
    <3>2. ~ job[t[1]].reviewed
      BY <1>1, <1>9, <3>1, RowsProgress DEF RowsAgree, Progress, In
    <3>3. ctx.job \in {NoJob, t[1]}
      BY <2>1, <3>2 DEF ContextAgrees
    <3>4. In(t[1], Busy)
      BY <2>1, <3>2, TurnIsBusy
    <3>5. BeginJob => J = t[1]
      BY <1>1, <1>3, <1>4, <3>1, <3>4 DEF OneIsBusy, In, Busy
    <3> QED BY <1>5, <3>3, <3>5
  <2>2. CASE AskTurn /\ t = TurnOf(J)
    <3>1. sched # Idle /\ At("ready") /\ ctx' = ctx
      BY <2>2, NotIdle DEF AskTurn, Places
    <3>2. ctx.job \in {NoJob, J}
      BY <3>1 DEF ContextAgrees, At
    <3> QED BY <2>2, <3>1, <3>2, TurnsDiffer, <1>3
  <2> QED BY <1>9, <2>1, <2>2, TurnsBegin
<1> QED BY <1>7, <1>8, <1>9 DEF ContextAgrees

-----------------------------------------------------------------------------
(* Steps while every call is attributed.                                      *)

(* What was misattributed stays so.                                           *)
LEMMA StaysMisattributed ==
    ASSUME RunnerInv, [Next]_vars, Misattributed
    PROVE  Misattributed'
<1>1. PICK t \in Turns : job[t[1]] # NoRow /\ job[t[1]].reviewed /\ "tool" \in turn[t].sent
  BY DEF Misattributed
<1>2. t[1] \in Jobs
  BY TurnsDiffer
<1>3. job'[t[1]] = job[t[1]]
  BY <1>1, <1>2, RowsProgress DEF RunnerInv, RowsAgree, Progress, In
<1>4. "tool" \in turn'[t].sent
  BY <1>1, TurnsProgress
<1> QED BY <1>1, <1>3, <1>4 DEF Misattributed

(* A turn's call of the car's tools is that of its own job.                   *)
Calls(k) == /\ job' = job /\ sched' = sched /\ ctx' = ctx /\ ctx.job = k
            /\ In(k, Busy) /\ Ran(k) /\ job[k].intent.kind = "turn"
            /\ \E target \in Targets : PrepareCarRequest(k, target) \/ RefuseExecute(k, target)

LEMMA CallIsAttributed ==
    ASSUME RunnerInv, CarInv, ~ Misattributed', Attributed,
           NEW t \in Turns, NEW c \in Callers, CallCarTool(t, c)
    PROVE  \E k \in Jobs : Calls(k)
<1>1. RunnerTypeOK /\ JobsTypeOK /\ turn \in [Turns -> TurnRow] /\ t[1] \in Jobs
  BY TurnsDiffer DEF RunnerInv, RunnerTypeOK, AppTypeOK
<1>2. job' = job /\ sched' = sched /\ ctx' = ctx /\ turn[t].at = "live"
  BY DEF CallCarTool, jobVars, threadVars
<1>3. job[t[1]] # NoRow
  BY <1>1, <1>2 DEF RunnerInv, TurnsAgree
<1>4. "tool" \in turn'[t].sent
  BY <1>1 DEF CallCarTool, TurnRow
<1>5. ~ job[t[1]].reviewed
  BY <1>2, <1>3, <1>4 DEF Misattributed
<1>6. In(t[1], Busy) /\ Ran(t[1]) /\ job[t[1]].intent.kind = "turn"
  BY <1>2, <1>5, TurnIsBusy
<1>7. ctx.job = t[1]
  BY <1>2, <1>5 DEF CarInv, ContextAgrees, CallCarTool
<1>8. PICK k \in Jobs : k = t[1]
  BY <1>1
<1>9. ASSUME NEW target \in Targets, ClaimExecute(c, k, target)
      PROVE  FALSE
  <2>1. PICK r \in Jobs :
          \/ r \in ExecutedBy(k)
          \/ r \in Pending(k) /\ ~ Asked(k)
    BY <1>9, ClaimMoves DEF CarInv
  <2>2. CASE r \in ExecutedBy(k)
    <3>1. IsTaken(r) /\ confirmation[r].by = k
      BY <2>2, <1>8, ConversationAssumption DEF ExecutedBy, IsTaken, Asked
    <3>2. job[k].intent = [kind |-> "confirm", target |-> confirmation[r].target]
      BY <3>1 DEF Attributed, TakenRightly
    <3>3. job[k].intent.kind = "confirm"
      BY <3>2
    <3> QED BY <1>6, <1>8, <3>3
  <2>3. CASE r \in Pending(k) /\ ~ Asked(k)
    <3>1. Pending(k) \subseteq {k}
      BY <1>6, <1>7, <1>8, ConversationAssumption DEF Attributed, PendingRightly
    <3>2. confirmation[k].state = "pending"
      BY <2>3, <3>1 DEF Pending
    <3> QED BY <2>3, <3>2 DEF Asked, NoConfirmation
  <2> QED BY <2>1, <2>2, <2>3
<1>10. \E target \in Targets : PrepareCarRequest(k, target) \/ RefuseExecute(k, target)
  BY <1>7, <1>8, <1>9 DEF CallCarTool
<1>11. Calls(k)
  BY <1>2, <1>6, <1>7, <1>8, <1>10 DEF Calls
<1> QED BY <1>11

(* The steps that touch the car.                                              *)
LEMMA AttributedSteps ==
    ASSUME RunnerInv, CarInv, ~ Misattributed', Attributed, [Next]_vars
    PROVE  \/ UNCHANGED carVars /\ ~ ExecuteCar
           \/ BeginJob \/ AskForCar \/ ConfirmCar \/ ExecuteCar
           \/ \E k \in Jobs : Calls(k)
           \/ \E r \in Jobs : ConfirmationLapses(r) /\ UNCHANGED <<jobVars, serviceVars>>
           \/ Restart
<1>1. CASE SchedulerStep
  <2>1. CASE (\E j \in Jobs : Claim(j)) \/ NewThread \/ DirectTool \/ TellResult
    BY <2>1 DEF Claim, NewThread, DirectTool, TellResult, ExecuteCar, At
  <2>2. CASE AskTurn \/ FailBeforeTurn \/ TurnRejected \/ TurnUnanswered \/ BindTurn
    BY <2>2 DEF AskTurn, FailBeforeTurn, TurnRejected, TurnUnanswered, BindTurn, ExecuteCar, At
  <2>3. CASE AssignTheTurn \/ AssignFails \/ FlushTurnEvents \/ ReplayEvent
    BY <2>3 DEF AssignTheTurn, AssignFails, FlushTurnEvents, ReplayEvent, ExecuteCar, At
  <2> QED BY <1>1, <2>1, <2>2, <2>3 DEF SchedulerStep
<1>2. CASE AppServerStep
  <2>1. ASSUME NEW t \in Turns, NEW c \in Callers, CallCarTool(t, c)
        PROVE  \E k \in Jobs : Calls(k)
    BY <2>1, CallIsAttributed
  <2>2. ASSUME NEW c \in Callers \ {"scheduler"}, CarryOut(c)
        PROVE  FALSE
    <3>1. exec[c] = NotExecuting
      BY DEF Attributed, ExecutedRightly
    <3>2. exec[c].at \in {"read", "post", "end"}
      BY <2>2 DEF CarryOut, ReadEntity, PostCommand, FinishExecute
    <3> QED BY <3>1, <3>2 DEF NotExecuting
  <2>3. ASSUME \/ ServerExits
               \/ \E t \in Turns : StartTurn(t) \/ Report(t) \/ FinishTurn(t)
        PROVE  UNCHANGED carVars /\ (ExecuteCar => jobVars' = jobVars)
    BY <2>3 DEF ServerExits, StartTurn, Report, FinishTurn
  <2> QED BY <1>2, <2>1, <2>2, <2>3 DEF AppServerStep
<1>3. CASE ReaderStep
  BY <1>3 DEF ReaderStep, ReadReport, ObserveMissedText, ReadEnd, CompleteRead, BufferEvent
<1>4. CASE (\E j \in Jobs : Submit(j) \/ Admin(j)) \/ TimeStep
  BY <1>4 DEF Submit, Admin, TimeStep
<1>5. CASE UNCHANGED vars
  BY <1>5 DEF vars
<1> QED BY <1>1, <1>2, <1>3, <1>4, <1>5 DEF Next

(* A confirmation moves in one way.                                           *)
LEMMA MovesDiffer ==
    ASSUME CarTypeOK, NEW r \in Jobs
    PROVE  /\ NewFor(r) => /\ ~ Same(r) /\ ~ Dropped(r) /\ ~ Finished(r)
                           /\ \A j \in Jobs : ~ TakenBy(r, j)
           /\ \A j \in Jobs : TakenBy(r, j) => ~ Same(r) /\ ~ Dropped(r) /\ ~ Finished(r)
<1>1. NoConfirmation \notin ConfirmationRow /\ NoConfirmation.state = "none"
  BY ConfirmationThere DEF NoConfirmation
<1>2. NewFor(r) => confirmation[r] = NoConfirmation /\ confirmation'[r] # NoConfirmation
  BY <1>1 DEF NewFor, Asked
<1> QED BY <1>1, <1>2 DEF Same, Dropped, Finished, TakenBy, Given, Outcomes

(* The job the scheduler has begun with, before it answers.                   *)
LEMMA WhenReady ==
    ASSUME RunnerInv, Attributed, CarTypeOK, At("ready")
    PROVE  /\ J \in Jobs /\ sched # Idle /\ In(J, {"running"}) /\ Ran(J)
           /\ InHandAt(J, {"ready"}) /\ ~ InHandAt(J, {"told", "executing"})
           /\ job[J] \in JobRow /\ job[J].bound = FALSE
           /\ job[J].intent.kind = "request" => ~ Asked(J)
           /\ ExecutedBy(J) = {}
<1>1. RunnerTypeOK /\ SchedulerAgrees /\ sched # Idle /\ sched.at = "ready"
  BY NotIdle DEF RunnerInv, At, Places
<1>2. J \in Jobs /\ job[J] \in JobRow
  BY <1>1, HandIsThere
<1>3. In(J, {"running"}) /\ Ran(J) /\ job[J].bound = FALSE
  BY <1>1, <1>2 DEF SchedulerAgrees, Ran, Places, JobRow
<1>4. InHandAt(J, {"ready"}) /\ ~ InHandAt(J, {"told", "executing"})
  BY <1>1 DEF InHandAt
<1>5. job[J].intent.kind = "request" => ~ Asked(J)
  BY <1>2, <1>3, <1>4 DEF Attributed, AskedRightly, InHandAt
<1>6. ASSUME NEW r \in ExecutedBy(J)
      PROVE  FALSE
  <2>1. r \in Jobs /\ IsTaken(r) /\ confirmation[r].by = J
    BY <1>2, <1>6, ConversationAssumption DEF ExecutedBy, IsTaken, Asked
  <2>2. In(J, {"running"}) => InHandAt(J, {"told", "executing"})
    BY <2>1 DEF Attributed, TakenRightly
  <2> QED BY <1>3, <1>4, <2>2
<1> QED BY <1>1, <1>2, <1>3, <1>4, <1>5, <1>6

(* What every step does to confirmations, but asking and taking.              *)
Settles == \A r \in Jobs : Same(r) \/ Dropped(r) \/ Finished(r)

LEMMA OtherMessageMoves ==
    ASSUME CarTypeOK, NEW j \in Jobs, confirmation' = AfterOtherMessage(j)
    PROVE  /\ \A r \in Jobs : Same(r) \/ Dropped(r)
           /\ \A r \in Jobs : r \in Pending(j)' => r = j
<1>1. \A r \in Pending(j) \ {j} : r \in Jobs /\ confirmation[r].state = "pending"
  BY DEF Pending
<1>2. /\ \A r \in Pending(j) \ {j} : /\ confirmation'[r] \in ConfirmationRow
                                     /\ confirmation'[r].state = "cancelled"
                                     /\ confirmation'[r].by = confirmation[r].by
                                     /\ confirmation'[r].target = confirmation[r].target
      /\ \A r \in Jobs \ (Pending(j) \ {j}) : confirmation'[r] = confirmation[r]
  BY <1>1, EndedThere DEF AfterOtherMessage
<1>3. \A r \in Jobs : Same(r) \/ Dropped(r)
  BY <1>1, <1>2 DEF Same, Dropped, Lives, Given
<1>4. \A r \in Jobs : r \in Pending(j)' => r = j
  BY <1>2 DEF Pending
<1> QED BY <1>3, <1>4

LEMMA StepsMove ==
    ASSUME RunnerInv, CarInv, ~ Misattributed', Attributed, [Next]_vars
    PROVE  \/ Settles
           \/ /\ AskForCar /\ At("ready") /\ J' = J /\ sched' # Idle /\ sched'.at = "told"
              /\ job' = job /\ ctx' = ctx /\ job[J].intent.kind = "request"
              /\ \E target \in Targets : PrepareCarRequest(J, target)
           \/ /\ ConfirmCar /\ At("ready") /\ J' = J /\ sched' # Idle /\ sched'.at = "executing"
              /\ job' = job /\ ctx' = ctx /\ job[J].intent.kind = "confirm"
              /\ ClaimExecute("scheduler", J, job[J].intent.target)
           \/ \E k \in Jobs : Calls(k)
<1>1. /\ CarTypeOK /\ ConfirmationsAgree /\ RunnerTypeOK /\ SchedulerAgrees
  BY DEF CarInv, RunnerInv
<1>2. UNCHANGED carVars => Settles
  BY DEF carVars, Settles, Same
<1>3. ASSUME sched # Idle
      PROVE  J \in Jobs /\ job[J].intent.target \in Targets
  <2>1. J \in Jobs /\ job[J] \in JobRow
    BY <1>1, <1>3, HandIsThere
  <2> QED BY <2>1 DEF JobRow, AnyIntent
<1>4. CASE BeginJob
  <2>1. sched # Idle
    BY <1>4, NotIdle DEF BeginJob, Places
  <2>2. CASE confirmation' = AfterOtherMessage(J)
    BY <1>1, <1>3, <2>1, <2>2, OtherMessageMoves DEF Settles
  <2>3. CASE confirmation' = confirmation
    BY <2>3 DEF Settles, Same
  <2> QED BY <1>4, <2>2, <2>3 DEF BeginJob, carVars
<1>5. CASE AskForCar
  <2>1. sched # Idle /\ J \in Jobs /\ job[J].intent.target \in Targets
        /\ job[J].intent.kind = "request" /\ At("ready")
    BY <1>3, <1>5, NotIdle DEF AskForCar, Places, Asks
  <2>2. CASE PrepareCarRequest(J, job[J].intent.target) /\ Goes("told") /\ UNCHANGED <<jobVars, ctx>>
    BY <1>1, <1>5, <2>1, <2>2, GoesOn DEF jobVars, Places
  <2> QED BY <1>2, <1>5, <2>2 DEF AskForCar
<1>6. CASE ConfirmCar
  <2>1. sched # Idle /\ J \in Jobs /\ job[J].intent.target \in Targets
        /\ job[J].intent.kind = "confirm" /\ At("ready")
    BY <1>3, <1>6, NotIdle DEF ConfirmCar, Places, Asks
  <2>2. CASE /\ ClaimExecute("scheduler", J, job[J].intent.target)
             /\ Goes("executing") /\ UNCHANGED <<jobVars, ctx>>
    BY <1>1, <1>6, <2>1, <2>2, GoesOn DEF jobVars, Places
  <2>3. CASE RefuseExecute(J, job[J].intent.target)
    BY <1>1, <2>1, <2>3, RefuseMoves DEF Settles
  <2> QED BY <1>2, <1>6, <2>2, <2>3 DEF ConfirmCar
<1>7. CASE CarCarries
  BY <1>1, <1>7, CarriesMoves DEF Settles
<1>8. CASE Restart
  BY <1>8 DEF Restart, Settles, Same
<1> QED BY <1>2, <1>4, <1>5, <1>6, <1>7, <1>8, AttributedSteps, CallersAssumption
        DEF ExecuteCar, CarCarries

(* Who asks for a confirmation is busy, and is the job of the context.        *)
LEMMA NewIsAsked ==
    ASSUME RunnerInv, CarInv, ~ Misattributed', Attributed, [Next]_vars,
           NEW r \in Jobs, NewFor(r)
    PROVE  /\ job' = job /\ ctx' = ctx /\ In(r, Busy) /\ Ran(r) /\ ctx.job \in {NoJob, r}
           /\ job[r].intent.kind \in {"turn", "request"}
           /\ job[r].intent.kind = "request" => InHandAt(r, {"told"})' /\ In(r, {"running"})
<1>1. CarTypeOK /\ ContextAgrees /\ ~ Same(r) /\ ~ Dropped(r) /\ ~ Finished(r)
      /\ \A j \in Jobs : ~ TakenBy(r, j)
  BY MovesDiffer DEF CarInv
<1>2. ~ Settles
  BY <1>1 DEF Settles
<1>3. CASE /\ AskForCar /\ At("ready") /\ J' = J /\ sched' # Idle /\ sched'.at = "told"
           /\ job' = job /\ ctx' = ctx /\ job[J].intent.kind = "request"
           /\ \E target \in Targets : PrepareCarRequest(J, target)
  <2>1. J \in Jobs /\ In(J, {"running"}) /\ Ran(J) /\ sched # Idle
    BY <1>1, <1>3, WhenReady
  <2>2. r = J
    BY <1>1, <1>3, <2>1, RequestMoves DEF Same
  <2>3. ctx.job \in {NoJob, J}
    BY <1>1, <1>3, <2>1 DEF ContextAgrees, At
  <2> QED BY <1>3, <2>1, <2>2, <2>3 DEF InHandAt, In, Busy
<1>4. CASE ConfirmCar /\ At("ready") /\ ClaimExecute("scheduler", J, job[J].intent.target)
  <2>1. J \in Jobs /\ job[J].intent.target \in Targets
    BY <1>1, <1>4, WhenReady DEF JobRow, AnyIntent
  <2>2. Same(r) \/ TakenBy(r, J)
    BY <1>1, <1>4, <2>1, ClaimMoves, CallersAssumption DEF Same
  <2> QED BY <1>1, <2>1, <2>2
<1>5. ASSUME NEW k \in Jobs, Calls(k)
      PROVE  /\ job' = job /\ ctx' = ctx /\ In(r, Busy) /\ Ran(r) /\ ctx.job \in {NoJob, r}
             /\ job[r].intent.kind = "turn"
  <2>1. r = k
    BY <1>1, <1>5, RequestMoves, RefuseMoves DEF Same, Calls
  <2> QED BY <1>5, <2>1 DEF Calls
<1> QED BY <1>2, <1>3, <1>4, <1>5, StepsMove

(* Who takes one is the message that confirms it.                             *)
LEMMA TakenIsConfirmed ==
    ASSUME RunnerInv, CarInv, ~ Misattributed', Attributed, [Next]_vars,
           NEW r \in Jobs, NEW c \in Jobs, TakenBy(r, c)
    PROVE  /\ c = J /\ At("ready") /\ InHandAt(c, {"ready"}) /\ InHandAt(c, {"executing"})'
           /\ job' = job /\ In(c, {"running"}) /\ Ran(c)
           /\ Conversation[c] = Conversation[r]
           /\ job[c].intent = [kind |-> "confirm", target |-> confirmation[r].target]
           /\ ~ Asked(c)
<1>1. CarTypeOK /\ ConfirmationsAgree /\ ~ Same(r) /\ ~ Dropped(r) /\ ~ Finished(r)
  BY MovesDiffer DEF CarInv
<1>2. ~ Settles
  BY <1>1 DEF Settles
<1>3. ASSUME NEW k \in Jobs, Calls(k)
      PROVE  FALSE
  <2>1. Same(r) \/ Dropped(r) \/ NewFor(r)
    BY <1>1, <1>3, RequestMoves, RefuseMoves DEF Same, Calls
  <2> QED BY <1>1, <2>1, MovesDiffer
<1>4. CASE /\ AskForCar /\ At("ready")
           /\ \E target \in Targets : PrepareCarRequest(J, target)
  <2>1. Same(r) \/ Dropped(r) \/ NewFor(r)
    BY <1>1, <1>4, WhenReady, RequestMoves DEF Same
  <2> QED BY <1>1, <2>1, MovesDiffer
<1>5. CASE /\ ConfirmCar /\ At("ready") /\ J' = J /\ sched' # Idle /\ sched'.at = "executing"
           /\ job' = job /\ ctx' = ctx /\ job[J].intent.kind = "confirm"
           /\ ClaimExecute("scheduler", J, job[J].intent.target)
  <2>1. /\ J \in Jobs /\ job[J].intent.target \in Targets /\ job[J].intent \in AnyIntent
        /\ In(J, {"running"}) /\ Ran(J) /\ InHandAt(J, {"ready"})
    BY <1>1, <1>5, WhenReady DEF JobRow, AnyIntent
  <2>2. confirmation[r].target = job[J].intent.target /\ ~ Asked(J) /\ TakenBy(r, J)
    BY <1>1, <1>5, <2>1, ClaimMoves, CallersAssumption DEF Same
  <2>3. c = J /\ Conversation[c] = Conversation[r]
    BY <2>2 DEF TakenBy
  <2>4. job[J].intent = [kind |-> "confirm", target |-> confirmation[r].target]
    BY <1>5, <2>1, <2>2 DEF AnyIntent
  <2>5. InHandAt(J, {"executing"})' /\ InHandAt(c, {"executing"})'
    BY <1>5, <2>3 DEF InHandAt
  <2> QED BY <1>5, <2>1, <2>2, <2>3, <2>4, <2>5
<1> QED BY <1>2, <1>3, <1>4, <1>5, StepsMove

-----------------------------------------------------------------------------
(* Every call still attributed, the parts of Attributed are kept.             *)

(* Nothing is executed but by the scheduler, and the car is commanded once.   *)
Executes == /\ exec' = exec /\ commands' = commands
            /\ At("executing")' <=> At("executing")
            /\ At("executing") => J' = J

LEMMA ExecutesOn ==
    ASSUME CarInv, Attributed, \A r \in Jobs : Kept(r), Executes
    PROVE  ExecutedRightly' /\ \A r \in Jobs : commands'[r] \in {0, 1}
<1> DEFINE x == exec["scheduler"]
<1>1. /\ CarTypeOK /\ ConfirmationsAgree /\ ExecutedRightly /\ TakenRightly
      /\ "scheduler" \in Callers
  BY CallersAssumption DEF CarInv, Attributed
<1>2. At("executing") => /\ x.request \in Jobs /\ IsTaken(x.request)
                         /\ confirmation[x.request].by = J
                         /\ x.at \in {"read", "post"} => commands[x.request] = 0
  BY <1>1 DEF ExecutedRightly, CarTypeOK, ExecRow, ConfirmationsAgree
<1>3. At("executing") => confirmation'[x.request].by = J
  BY <1>2 DEF Kept, IsTaken
<1>4. ExecutedRightly'
  BY <1>1, <1>2, <1>3 DEF Executes, ExecutedRightly
<1>5. \A r \in Jobs : commands[r] \in {0, 1}
  BY <1>1 DEF ConfirmationsAgree, TakenRightly
<1> QED BY <1>4, <1>5 DEF Executes

LEMMA ExecutedStep ==
    ASSUME RunnerInv, CarInv, ~ Misattributed', Attributed, [Next]_vars
    PROVE  ExecutedRightly' /\ \A r \in Jobs : commands'[r] \in {0, 1}
<1> DEFINE x == exec["scheduler"]
<1>1. /\ CarTypeOK /\ ConfirmationsAgree /\ ExecutedRightly /\ TakenRightly /\ ContextAgrees
      /\ RunnerTypeOK /\ SchedulerAgrees
      /\ "scheduler" \in Callers /\ \A r \in Jobs : Kept(r)
  BY CallersAssumption, ConfirmationsKept DEF CarInv, Attributed, RunnerInv
<1>2. \A r \in Jobs : commands[r] \in {0, 1}
  BY <1>1 DEF ConfirmationsAgree, TakenRightly
<1>3. CASE ConfirmCar
  <2>1. /\ J \in Jobs /\ job[J].intent.target \in Targets /\ At("ready") /\ sched # Idle
        /\ ExecutedBy(J) = {} /\ ~ At("executing")
    BY <1>1, <1>3, WhenReady DEF ConfirmCar, At, JobRow, AnyIntent
  <2>2. CASE ClaimExecute("scheduler", J, job[J].intent.target) /\ Goes("executing")
    <3>1. commands' = commands
      BY <1>1, <2>1, <2>2, ClaimMoves
    <3>2. PICK r \in Jobs : Begins("scheduler", r) /\ TakenBy(r, J)
      BY <1>1, <2>1, <2>2, ClaimMoves
    <3>3. /\ exec'["scheduler"] # NotExecuting /\ exec'["scheduler"].request = r
          /\ \A d \in Callers \ {"scheduler"} : exec'[d] = exec[d]
      BY <1>1, <3>2, BeginsThere
    <3>4. commands[r] = 0
      BY <1>1, <3>2 DEF ConfirmationsAgree, TakenBy, Given, IsTaken, Asked
    <3>5. At("executing")' /\ J' = J /\ confirmation'[r].by = J
      BY <1>1, <2>1, <2>2, <3>2, GoesOn DEF At, TakenBy, Places
    <3>6. confirmation'[exec'["scheduler"].request].by = J' /\ commands'[exec'["scheduler"].request] = 0
      BY <3>1, <3>3, <3>4, <3>5
    <3> QED BY <1>1, <1>2, <3>1, <3>3, <3>5, <3>6 DEF ExecutedRightly
  <2>3. CASE RefuseExecute(J, job[J].intent.target) /\ Goes("told")
    <3>1. exec' = exec /\ commands' = commands
      BY <1>1, <2>1, <2>3, RefuseMoves
    <3>2. ~ At("executing")'
      BY <1>1, <2>1, <2>3, GoesOn DEF At, Places
    <3> QED BY <1>1, <2>1, <3>1, <3>2, ExecutesOn DEF Executes
  <2>4. CASE Stops /\ UNCHANGED carVars
    <3>1. ~ At("executing")'
      BY <2>4 DEF Stops, At, Idle
    <3> QED BY <1>1, <2>1, <2>4, <3>1, ExecutesOn DEF Executes, carVars
  <2> QED BY <1>3, <2>2, <2>3, <2>4 DEF ConfirmCar
<1>4. CASE ExecuteCar
  <2>1. /\ At("executing") /\ x # NotExecuting /\ x \in ExecRow /\ x.request \in Jobs
        /\ IsTaken(x.request) /\ confirmation[x.request].by = J
        /\ x.at \in {"read", "post"} => commands[x.request] = 0
    BY <1>1, <1>4 DEF ExecuteCar, ExecutedRightly, CarTypeOK, ExecRow, ConfirmationsAgree
  <2>2. confirmation'[x.request].by = J
    BY <1>1, <2>1 DEF Kept, IsTaken
  <2>3. ASSUME NEW row, exec' = [exec EXCEPT !["scheduler"] = row], row # NotExecuting,
               row.request = x.request, sched' = sched,
               \A r \in Jobs : commands'[r] \in {0, 1},
               row.at \in {"read", "post"} => commands'[x.request] = 0
        PROVE  ExecutedRightly' /\ \A r \in Jobs : commands'[r] \in {0, 1}
    <3>1. exec'["scheduler"] = row /\ \A d \in Callers \ {"scheduler"} : exec'[d] = exec[d]
      BY <1>1, <2>3 DEF CarTypeOK
    <3>2. At("executing")' /\ J' = J
      BY <2>1, <2>3 DEF At, J
    <3> QED BY <1>1, <2>2, <2>3, <3>1, <3>2 DEF ExecutedRightly
  <2>4. ASSUME NEW o \in Outcomes
        PROVE  LET row == [at |-> "end", request |-> x.request, outcome |-> o] IN
               row # NotExecuting /\ row.request = x.request /\ row.at \notin {"read", "post"}
    BY DEF NotExecuting
  <2>5. CASE ReadEntity("scheduler") /\ sched' = sched
    <3>1. x.at = "read" /\ commands' = commands
      BY <2>5 DEF ReadEntity
    <3>2. CASE exec' = [exec EXCEPT !["scheduler"].at = "post"]
      <4> DEFINE row == [x EXCEPT !.at = "post"]
      <4>1. row.request = x.request /\ row # NotExecuting
        BY <2>1, <3>1 DEF ExecRow, NotExecuting
      <4>2. exec' = [exec EXCEPT !["scheduler"] = row]
        BY <3>2
      <4> HIDE DEF row
      <4> QED BY <1>2, <2>1, <2>3, <2>5, <3>1, <4>1, <4>2
    <3>3. ASSUME NEW o \in Outcomes,
                 exec' = [exec EXCEPT !["scheduler"] =
                            [at |-> "end", request |-> x.request, outcome |-> o]]
          PROVE  ExecutedRightly' /\ \A r \in Jobs : commands'[r] \in {0, 1}
      BY <1>2, <2>3, <2>4, <2>5, <3>1, <3>3
    <3> QED BY <2>5, <3>2, <3>3 DEF ReadEntity, Outcomes
  <2>6. CASE PostCommand("scheduler") /\ sched' = sched
    <3>1. PICK o \in Outcomes : exec' = [exec EXCEPT !["scheduler"] =
                                  [at |-> "end", request |-> x.request, outcome |-> o]]
      BY <2>6 DEF PostCommand, Outcomes
    <3>2. commands' = commands \/ commands' = [commands EXCEPT ![x.request] = @ + 1]
      BY <2>6 DEF PostCommand
    <3>3. commands[x.request] = 0
      BY <2>1, <2>6 DEF PostCommand
    <3>4. \A r \in Jobs : commands'[r] \in {0, 1}
      BY <1>1, <1>2, <2>1, <3>2, <3>3 DEF CarTypeOK
    <3> QED BY <2>3, <2>4, <2>6, <3>1, <3>4
  <2>7. CASE FinishExecute("scheduler") /\ Goes("told")
    <3>1. exec' = [exec EXCEPT !["scheduler"] = NotExecuting] /\ commands' = commands
      BY <2>7 DEF FinishExecute
    <3>2. exec'["scheduler"] = NotExecuting /\ \A d \in Callers \ {"scheduler"} : exec'[d] = exec[d]
      BY <1>1, <3>1 DEF CarTypeOK
    <3>3. ~ At("executing")'
      BY <1>1, <2>1, <2>7, NotIdle, GoesOn DEF At, Places
    <3> QED BY <1>1, <1>2, <3>1, <3>2, <3>3 DEF ExecutedRightly
  <2> QED BY <1>4, <2>5, <2>6, <2>7 DEF ExecuteCar
<1>5. CASE Restart
  <2>1. exec' = [c \in Callers |-> NotExecuting] /\ commands' = commands /\ ~ At("executing")'
    BY <1>5 DEF Restart, At, Idle
  <2> QED BY <1>1, <1>2, <2>1 DEF ExecutedRightly
<1>6. CASE ~ ConfirmCar /\ ~ ExecuteCar /\ ~ Restart
  <2>1. exec' = exec /\ commands' = commands
    <3>1. CASE BeginJob \/ AskForCar
      BY <3>1 DEF BeginJob, AskForCar, PrepareCarRequest, carVars
    <3>2. CASE \E k \in Jobs : Calls(k)
      BY <3>2 DEF Calls, PrepareCarRequest, RefuseExecute
    <3>3. CASE \E r \in Jobs : ConfirmationLapses(r)
      BY <3>3 DEF ConfirmationLapses
    <3> QED BY <1>6, <3>1, <3>2, <3>3, AttributedSteps DEF carVars
  <2>2. sched' = sched \/ (~ At("executing") /\ ~ At("executing")')
    BY <1>6, HandMoves DEF At, Idle
  <2>3. Executes
    BY <2>1, <2>2 DEF Executes, At, J
  <2> QED BY <1>1, <2>3, ExecutesOn
<1> QED BY <1>3, <1>4, <1>5, <1>6

(* A message that ran keeps what it asks for.                                 *)
LEMMA IntentStays ==
    ASSUME RunnerInv, [Next]_vars, NEW k \in Jobs, job[k] # NoRow
    PROVE  /\ job'[k].intent = job[k].intent /\ job'[k] \in JobRow
           /\ Exempt(k) => Exempt(k)'
           /\ In(k, FinalStates) => job'[k] = job[k]
BY RowsProgress DEF Progress, RunnerInv, RowsAgree, Exempt, In

LEMMA AskedStep ==
    ASSUME RunnerInv, CarInv, ~ Misattributed', Attributed, [Next]_vars
    PROVE  AskedRightly'
<1> SUFFICES ASSUME NEW r \in Jobs, Asked(r)'
             PROVE  /\ job'[r].intent.kind \in {"turn", "request"}
                    /\ job'[r].intent.kind = "request" =>
                          /\ ~ In(r, {"queued"})'
                          /\ In(r, {"running"})' => InHandAt(r, {"told"})'
  BY DEF AskedRightly
<1>1. /\ CarTypeOK /\ ConfirmationsAgree /\ ContextAgrees /\ RunnerTypeOK' /\ AskedRightly
      /\ RowsAgree
  BY RunnerTypes DEF CarInv, Attributed, RunnerInv
<1>2. CASE Asked(r)
  <2>1. /\ Ran(r) /\ job[r].intent.kind \in {"turn", "request"}
        /\ job[r].intent.kind = "request" =>
              ~ In(r, {"queued"}) /\ (In(r, {"running"}) => InHandAt(r, {"told"}))
    BY <1>1, <1>2 DEF ConfirmationsAgree, AskedRightly
  <2>2. job'[r].intent = job[r].intent
    BY <2>1, IntentStays DEF Ran
  <2>3. ASSUME job[r].intent.kind = "request"
        PROVE  /\ ~ In(r, {"queued"})'
               /\ In(r, {"running"})' => InHandAt(r, {"told"})'
    <3>1. ~ In(r, {"queued"}) /\ (In(r, {"running"}) => InHandAt(r, {"told"})) /\ job[r] # NoRow
      BY <2>1, <2>3 DEF Ran
    <3>2. ~ job[r].bound
      BY <1>1, <2>3, <3>1 DEF RowsAgree
    <3>3. ~ InHandAt(r, {"told"}) \/ ~ InHandAt(r, {"claimed", "ready", "asked"})
      BY DEF InHandAt
    <3>4. ~ In(r, {"queued"})'
      BY <3>1, <3>2, <3>3, RowsMove DEF Moved
    <3>5. In(r, {"running"})' => In(r, {"running"})
      <4>1. ~ Claim(r)
        BY <3>1 DEF Claim, ClaimNext, First
      <4> QED BY <4>1, RowsMove DEF Moved
    <3>6. In(r, {"running"})' => InHandAt(r, {"told"})'
      BY <1>1, <3>1, <3>5, InHandMoves
    <3> QED BY <3>4, <3>6
  <2> QED BY <2>1, <2>2, <2>3
<1>3. CASE ~ Asked(r)
  <2>1. NewFor(r)
    <3>1. confirmation[r] = NoConfirmation /\ confirmation'[r] # NoConfirmation
      BY <1>3 DEF Asked
    <3>2. confirmation[r].state \notin {"pending", "executing"}
      BY <3>1 DEF NoConfirmation
    <3> QED BY <1>1, <3>1, <3>2, CarMoves DEF Same, Dropped, Finished, TakenBy
  <2> QED BY <2>1, NewIsAsked DEF In, Busy
<1> QED BY <1>2, <1>3

(* A confirmation that was taken by c was taken rightly.                      *)
TakenFor(r, c) ==
    /\ Later(r, c) /\ Conversation[c] = Conversation[r]
    /\ job[c].intent = [kind |-> "confirm", target |-> confirmation[r].target]
    /\ ~ In(c, {"queued"})
    /\ In(c, {"running"}) => InHandAt(c, {"told", "executing"})
    /\ \A k \in Between(r, c) : In(k, {"completed"}) => Exempt(k)

LEMMA TakenForStays ==
    ASSUME RunnerInv, CarInv, ~ Misattributed', Attributed, [Next]_vars,
           NEW r \in Jobs, NEW c \in Jobs, Asked(r), confirmation[r].by = c
    PROVE  confirmation'[r].by = c /\ TakenFor(r, c)'
<1>1. /\ ContextAgrees /\ CarTypeOK /\ ConfirmationsAgree /\ RunnerTypeOK /\ RunnerTypeOK'
      /\ InOrder /\ InOrder' /\ RowsAgree /\ c # NoJob
  BY RunnerTypes, OrderStep, ConversationAssumption DEF CarInv, RunnerInv
<1>2. confirmation'[r].by = c /\ confirmation'[r].target = confirmation[r].target
  BY <1>1, ConfirmationsKept DEF Kept
<1>3. /\ Later(r, c) /\ Conversation[c] = Conversation[r]
      /\ job[c].intent = [kind |-> "confirm", target |-> confirmation[r].target]
      /\ ~ In(c, {"queued"})
      /\ In(c, {"running"}) => InHandAt(c, {"told", "executing"})
      /\ \A k \in Between(r, c) : In(k, {"completed"}) => Exempt(k)
      /\ Ran(c) /\ job[c] # NoRow
  BY <1>1 DEF Attributed, TakenRightly, IsTaken, ConfirmationsAgree, Ran
<1>4. Later(r, c)' /\ job'[c].intent = job[c].intent
  BY <1>1, <1>3, LaterStays, IntentStays
<1>5. ~ In(c, {"queued"})'
  <2>1. job[c].intent.kind = "confirm"
    BY <1>3
  <2>2. ~ job[c].bound
    BY <1>1, <1>3, <2>1 DEF RowsAgree
  <2>3. ~ InHandAt(c, {"told", "executing"}) \/ ~ InHandAt(c, {"claimed", "ready", "asked"})
    BY DEF InHandAt
  <2> QED BY <1>3, <2>2, <2>3, RowsMove DEF Moved
<1>6. In(c, {"running"})' => InHandAt(c, {"told", "executing"})'
  <2>1. ~ Claim(c)
    BY <1>3 DEF Claim, ClaimNext, First
  <2>2. In(c, {"running"})' => In(c, {"running"})
    BY <2>1, RowsMove DEF Moved
  <2>3. InHandAt(c, {"told", "executing"}) => InHandAt(c, {"told"}) \/ InHandAt(c, {"executing"})
    BY DEF InHandAt
  <2>4. InHandAt(c, {"told"})' => InHandAt(c, {"told", "executing"})'
    BY DEF InHandAt
  <2> QED BY <1>1, <1>3, <2>2, <2>3, <2>4, InHandMoves
<1>7. ASSUME NEW k \in Jobs, Later(r, k)', Later(k, c)', Conversation[k] = Conversation[r],
             In(k, {"completed"})'
      PROVE  Exempt(k)'
  <2>1. Later(k, c)
    BY <1>1, <1>3, <1>7, LaterStays
  <2>2. job[k] # NoRow /\ In(k, FinalStates)
    BY <1>1, <1>3, <2>1, LaterRan
  <2>3. Later(r, k)
    BY <1>1, <1>7, <2>2, LaterStays
  <2>4. job'[k] = job[k]
    BY <2>2, IntentStays
  <2>5. In(k, {"completed"})
    BY <1>7, <2>4 DEF In
  <2>6. Exempt(k)
    BY <1>3, <1>7, <2>1, <2>3, <2>5 DEF Between
  <2> QED BY <2>2, <2>6, IntentStays
<1> QED BY <1>2, <1>3, <1>4, <1>5, <1>6, <1>7 DEF TakenFor, Between

LEMMA TakenForBegins ==
    ASSUME RunnerInv, CarInv, ~ Misattributed', Attributed, [Next]_vars,
           NEW r \in Jobs, NEW c \in Jobs, TakenBy(r, c)
    PROVE  confirmation'[r].by = c /\ TakenFor(r, c)'
<1>1. /\ CarTypeOK /\ ConfirmationsAgree /\ RunnerTypeOK /\ RunnerTypeOK'
      /\ InOrder /\ InOrder' /\ RowsAgree
  BY RunnerTypes, OrderStep DEF CarInv, RunnerInv
<1>2. /\ InHandAt(c, {"executing"})' /\ job' = job /\ In(c, {"running"}) /\ Ran(c)
      /\ Conversation[c] = Conversation[r]
      /\ job[c].intent = [kind |-> "confirm", target |-> confirmation[r].target]
      /\ ~ Asked(c)
  BY TakenIsConfirmed
<1>3. /\ confirmation'[r].by = c /\ confirmation'[r].target = confirmation[r].target
      /\ confirmation[r].state = "pending" /\ Asked(r) /\ Ran(r)
  BY <1>1 DEF TakenBy, Lives, Asked, NoConfirmation, ConfirmationsAgree
<1>4. Later(r, c)
  <2>1. r # c
    BY <1>2, <1>3
  <2>2. ~ Later(c, r)
    BY <1>1, <1>2, <1>3, LaterRan DEF In, FinalStates
  <2> QED BY <1>1, <1>2, <1>3, <2>1, <2>2, LaterRan DEF Ran
<1>5. ASSUME NEW k \in Jobs, Later(r, k)', Later(k, c)', Conversation[k] = Conversation[r],
             In(k, {"completed"})'
      PROVE  Exempt(k)'
  <2>1. Later(k, c) /\ job[k] # NoRow /\ In(k, {"completed"})
    BY <1>1, <1>2, <1>5, LaterStays, LaterRan DEF In, Ran
  <2>2. Later(r, k)
    BY <1>1, <1>5, <2>1, LaterStays
  <2>3. r \in Pending(k)
    BY <1>3, <1>5 DEF Pending
  <2>4. Exempt(k)
    BY <2>1, <2>2, <2>3 DEF Attributed, PendingRightly
  <2> QED BY <1>2, <2>4 DEF Exempt
<1>6. Later(r, c)'
  BY <1>1, <1>4, LaterStays
<1>7. ~ In(c, {"queued"})' /\ InHandAt(c, {"told", "executing"})'
  BY <1>2 DEF In, InHandAt
<1> QED BY <1>2, <1>3, <1>5, <1>6, <1>7 DEF TakenFor, Between

LEMMA TakenStep ==
    ASSUME RunnerInv, CarInv, ~ Misattributed', Attributed, [Next]_vars
    PROVE  TakenRightly'
<1>1. ASSUME NEW r \in Jobs, IsTaken(r)'
      PROVE  \E c \in Jobs : confirmation'[r].by = c /\ TakenFor(r, c)'
  <2>1. /\ CarTypeOK /\ ContextAgrees /\ ConfirmationsAgree /\ CarTypeOK'
        /\ confirmation'[r] \in ConfirmationRow /\ confirmation'[r].by \in Jobs
    <3>1. CarTypeOK /\ ContextAgrees /\ ConfirmationsAgree
      BY DEF CarInv
    <3>2. CarTypeOK'
      BY <3>1, CarMoves
    <3> QED BY <1>1, <3>1, <3>2 DEF CarTypeOK, IsTaken, Asked, ConfirmationRow
  <2>2. CASE \E c \in Jobs : TakenBy(r, c)
    BY <2>2, TakenForBegins
  <2>3. CASE Asked(r) /\ confirmation[r].by # NoJob
    <3>1. PICK c \in Jobs : c = confirmation[r].by
      BY <2>1, <2>3 DEF CarTypeOK, ConfirmationRow, Asked
    <3> QED BY <2>3, <3>1, TakenForStays
  <2>4. CASE Same(r) \/ Dropped(r) \/ Finished(r) \/ NewFor(r)
    <3>1. ~ NewFor(r)
      BY <1>1 DEF IsTaken, NewFor
    <3>2. confirmation[r].by # NoJob
      BY <1>1, <2>4, <3>1 DEF IsTaken, Same, Dropped, Finished
    <3>3. Asked(r)
      BY <1>1, <2>4, <3>1 DEF IsTaken, Same, Dropped, Finished, Asked, NoConfirmation
    <3> QED BY <2>3, <3>2, <3>3
  <2> QED BY <2>1, <2>2, <2>4, CarMoves
<1>2. \A r \in Jobs : commands'[r] \in {0, 1}
  BY ExecutedStep
<1>3. ASSUME NEW r \in Jobs, NEW c \in Jobs, confirmation'[r].by = c, TakenFor(r, c)'
      PROVE  (LET d == confirmation[r].by IN
              /\ commands[r] \in {0, 1}
              /\ Later(r, d) /\ Conversation[d] = Conversation[r]
              /\ job[d].intent = [kind |-> "confirm", target |-> confirmation[r].target]
              /\ ~ In(d, {"queued"})
              /\ In(d, {"running"}) => InHandAt(d, {"told", "executing"})
              /\ \A k \in Between(r, d) : In(k, {"completed"}) => Exempt(k))'
  BY <1>2, <1>3 DEF TakenFor, Later, Between, In, InHandAt, Exempt
<1> QED BY <1>1, <1>3 DEF TakenRightly

(* What is pending was pending, or is asked for in this step.                 *)
LEMMA PendingBefore ==
    ASSUME RunnerInv, CarInv, [Next]_vars, NEW r \in Jobs, NEW k \in Jobs, r \in Pending(k)'
    PROVE  /\ Conversation[r] = Conversation[k] /\ confirmation'[r].state = "pending"
           /\ r \in Pending(k) \/ NewFor(r)
BY CarMoves DEF CarInv, Pending, Same, Dropped, Finished, TakenBy, Outcomes

(* Nobody was answered since, but who may be.                                 *)
LEMMA AnsweredStep ==
    ASSUME RunnerInv, CarInv, ~ Misattributed', Attributed, [Next]_vars,
           NEW k \in Jobs, NEW r \in Jobs, r \in Pending(k)', Later(r, k)', In(k, {"completed"})'
    PROVE  Exempt(k)'
<1>1. /\ RunnerTypeOK /\ RunnerTypeOK' /\ JobsTypeOK' /\ InOrder /\ InOrder' /\ RowsAgree
      /\ RowsAgree' /\ PendingRightly
  BY RunnerTypes, RowsStep, OrderStep DEF CarInv, RunnerInv, RunnerTypeOK, Attributed, RowsInv
<1>2. r \in Pending(k) \/ NewFor(r)
  BY PendingBefore
<1>3. Ran(k)'
  <2>1. job'[k] # NoRow
    BY <1>1, LaterRan DEF InOrder, Later
  <2> QED BY <1>1, <2>1 DEF RowsAgree, Ran, In
<1>4. CASE NewFor(r)
  <2>1. job' = job /\ In(r, Busy)
    BY <1>4, NewIsAsked
  <2>2. Later(r, k) /\ Ran(k)
    BY <1>1, <1>3, <2>1, LaterStays DEF Ran
  <2>3. In(r, FinalStates)
    BY <1>1, <2>2, LaterRan
  <2> QED BY <2>1, <2>3 DEF In, Busy, FinalStates
<1>5. CASE r \in Pending(k)
  <2>1. job[k] # NoRow
    BY <1>3, ArrivedMoves DEF Ran
  <2>2. Later(r, k)
    BY <1>1, <2>1, LaterStays
  <2>3. r # k
    BY <1>1, <2>2, LaterRan
  <2>4. CASE In(k, {"completed"})
    BY <1>1, <1>5, <2>1, <2>2, <2>4, IntentStays DEF PendingRightly
  <2>5. CASE job'[k].reviewed
    BY <2>5 DEF Exempt
  <2>6. CASE In(k, {"running"}) /\ Answered(k)
    <3>1. ~ Begun(k)
      BY <1>1, <1>5, <2>3, <2>6 DEF PendingRightly
    <3>2. job[k].intent.kind \in {"new", "unavailable"}
      BY <2>6, <3>1 DEF Answered, Begun, InHandAt
    <3> QED BY <2>1, <3>2, IntentStays DEF Exempt
  <2> QED BY <2>4, <2>5, <2>6, RowsMove DEF Moved
<1> QED BY <1>2, <1>4, <1>5

(* Who is being answered has cancelled what was pending.                      *)
LEMMA BegunStep ==
    ASSUME RunnerInv, CarInv, ~ Misattributed', Attributed, [Next]_vars,
           NEW k \in Jobs, NEW r \in Jobs, r \in Pending(k)', In(k, {"running"})', Begun(k)'
    PROVE  r = k
<1>1. /\ RunnerTypeOK /\ RunnerTypeOK' /\ JobsTypeOK /\ RowsAgree /\ CarTypeOK
      /\ ConfirmationsAgree /\ PendingRightly /\ SchedulerAgrees /\ OneIsBusy
  BY RunnerTypes DEF CarInv, RunnerInv, RunnerTypeOK, Attributed
<1>2. CASE NewFor(r)
  <2>1. job' = job /\ In(r, Busy)
    BY <1>2, NewIsAsked
  <2>2. In(k, Busy)
    BY <2>1 DEF In, Busy
  <2> QED BY <1>1, <2>1, <2>2 DEF OneIsBusy
<1>3. CASE r \in Pending(k) /\ Claim(k)
  <2>1. job'[k].bound = FALSE /\ sched' = [at |-> "claimed", job |-> k]
    BY <1>1, <1>3, ClaimRow DEF Claim
  <2>2. ~ Begun(k)'
    BY <2>1 DEF Begun, InHandAt
  <2> QED BY <2>2
<1>4. CASE r \in Pending(k) /\ In(k, {"running"})
  <2>1. job[k] # NoRow /\ job'[k].intent = job[k].intent
    BY <1>1, <1>4, RowThere, IntentStays DEF In, ActiveStates
  <2>2. CASE Begun(k)
    BY <1>1, <1>4, <2>2 DEF PendingRightly
  <2>3. CASE ~ Begun(k) /\ InHandAt(k, {"claimed"}) /\ BeginJob /\ InHandAt(k, {"ready"})'
             /\ job[k].intent.kind \in {"turn", "direct"}
    <3>1. J = k /\ sched' # Idle
      BY <2>3 DEF InHandAt
    <3>2. confirmation' = AfterOtherMessage(k)
      BY <2>3, <3>1 DEF BeginJob, Asks, Stops
    <3> QED BY <1>1, <3>2, OtherMessageMoves
  <2>4. CASE InHandAt(k, {"ready"}) /\ AskForCar /\ InHandAt(k, {"told"})'
    <3>1. J = k /\ sched' # Idle /\ At("ready") /\ job[k].intent.kind = "request"
      BY <2>4 DEF InHandAt, At, AskForCar, Asks
    <3>2. PrepareCarRequest(k, job[k].intent.target)
      BY <2>4, <3>1 DEF AskForCar, Stops
    <3>3. ~ Asked(k) /\ job[k].intent.target \in Targets
      BY <1>1, <3>1, WhenReady DEF JobRow, AnyIntent
    <3>4. NewFor(k)
      BY <1>1, <3>2, <3>3, RequestMoves
    <3> QED BY <3>4, PendingBefore DEF NewFor
  <2>5. CASE InHandAt(k, {"ready"}) /\ ConfirmCar /\ InHandAt(k, {"told", "executing"})'
    <3>1. J = k /\ sched' # Idle /\ At("ready")
      BY <2>5 DEF InHandAt, At
    <3>2. ExecutedBy(k) = {} /\ job[k].intent.target \in Targets
      BY <1>1, <3>1, WhenReady DEF JobRow, AnyIntent
    <3>3. \/ ClaimExecute("scheduler", k, job[k].intent.target)
          \/ RefuseExecute(k, job[k].intent.target)
      BY <2>5, <3>1 DEF ConfirmCar, Stops
    <3>4. confirmation'[r].state = "pending" /\ r \in Pending(k)
      BY <1>4, PendingBefore
    <3>5. \A s \in Pending(k) : s = r
      BY <1>1, <1>4 DEF Pending, ConfirmationsAgree
    <3>6. CASE ClaimExecute("scheduler", k, job[k].intent.target)
      <4>1. \E s \in Pending(k) : TakenBy(s, k)
        BY <1>1, <3>2, <3>6, ClaimMoves, CallersAssumption
      <4> QED BY <3>4, <3>5, <4>1 DEF TakenBy
    <3>7. CASE RefuseExecute(k, job[k].intent.target)
      <4>1. Pending(k) = {} \/ \E s \in Pending(k) : confirmation'[s].state # "pending"
        BY <1>1, <3>2, <3>7, RefuseMoves
      <4> QED BY <3>4, <3>5, <4>1
    <3> QED BY <3>3, <3>6, <3>7
  <2>6. CASE ~ Begun(k)
    <3>1. ~ job'[k].bound
      BY <2>1, <2>6, RowsMove DEF Moved, Begun, InHandAt
    <3>2. \/ InHandAt(k, {"asked", "answered", "bound"})' \/ InHandAt(k, {"told"})'
          \/ InHandAt(k, {"executing"})'
          \/ InHandAt(k, {"ready"})' /\ job[k].intent.kind \in {"turn", "direct"}
      BY <2>1, <3>1 DEF Begun, InHandAt
    <3>3. CASE InHandAt(k, {"asked", "answered", "bound"})'
      <4>1. \/ InHandAt(k, {"asked", "answered", "bound"})
            \/ InHandAt(k, {"ready"}) /\ job[k].intent.kind = "turn"
        BY <1>1, <3>3, InHandMoves
      <4> QED BY <2>6, <4>1 DEF Begun, InHandAt
    <3>4. CASE InHandAt(k, {"told"})'
      <4>1. \/ InHandAt(k, {"told", "executing"})
            \/ InHandAt(k, {"ready"}) /\ (AskForCar \/ ConfirmCar)
        BY <1>1, <3>4, InHandMoves
      <4>2. InHandAt(k, {"told", "executing"})'
        BY <3>4 DEF InHandAt
      <4> QED BY <2>4, <2>5, <2>6, <3>4, <4>1, <4>2 DEF Begun, InHandAt
    <3>5. CASE InHandAt(k, {"executing"})'
      <4>1. InHandAt(k, {"executing"}) \/ (InHandAt(k, {"ready"}) /\ ConfirmCar)
        BY <1>1, <3>5, InHandMoves
      <4>2. InHandAt(k, {"told", "executing"})'
        BY <3>5 DEF InHandAt
      <4> QED BY <2>5, <2>6, <4>1, <4>2 DEF Begun, InHandAt
    <3>6. CASE InHandAt(k, {"ready"})' /\ job[k].intent.kind \in {"turn", "direct"}
      <4>1. InHandAt(k, {"ready"}) \/ (InHandAt(k, {"claimed"}) /\ BeginJob)
        BY <1>1, <3>6, InHandMoves
      <4> QED BY <2>3, <2>6, <3>6, <4>1 DEF Begun
    <3> QED BY <3>2, <3>3, <3>4, <3>5, <3>6
  <2> QED BY <2>2, <2>6
<1> QED BY <1>2, <1>3, <1>4, PendingBefore, RowsMove DEF Moved

(* So has the job of the context, when its message was not about the car.     *)
LEMMA ContextPending ==
    ASSUME RunnerInv, CarInv, ~ Misattributed', Attributed, [Next]_vars,
           NEW q \in Jobs, ctx'.job = q, job'[q].intent.kind \in {"turn", "direct"},
           NEW r \in Jobs, r \in Pending(q)'
    PROVE  r = q
<1>1. /\ RunnerTypeOK /\ ContextAgrees /\ CarTypeOK /\ PendingRightly /\ SchedulerAgrees
  BY DEF CarInv, RunnerInv, Attributed
<1>2. CASE ctx'.job = ctx.job
  <2>1. Ran(q) /\ ctx.job = q
    BY <1>1, <1>2, ConversationAssumption DEF ContextAgrees
  <2>2. job[q].intent.kind \in {"turn", "direct"}
    BY <2>1, IntentStays DEF Ran
  <2>3. CASE NewFor(r)
    BY <2>1, <2>3, NewIsAsked, ConversationAssumption
  <2>4. CASE r \in Pending(q)
    BY <1>1, <2>1, <2>2, <2>4, ConversationAssumption DEF PendingRightly
  <2> QED BY <2>3, <2>4, PendingBefore
<1>3. CASE BeginJob /\ sched' # Idle /\ ctx'.job = J /\ job' = job
  <2>1. J = q
    BY <1>3
  <2>2. confirmation' = AfterOtherMessage(q)
    BY <1>3, <2>1 DEF BeginJob, Asks, Stops
  <2> QED BY <1>1, <2>2, OtherMessageMoves
<1>4. ctx'.job # NoJob
  BY ConversationAssumption
<1> QED BY <1>2, <1>3, <1>4, ContextMoves

LEMMA PendingStep ==
    ASSUME RunnerInv, CarInv, ~ Misattributed', Attributed, [Next]_vars
    PROVE  PendingRightly'
<1>1. \A k \in Jobs : Pending(k) \subseteq Jobs /\ Pending(k)' \subseteq Jobs
  BY DEF Pending
<1>2. \A k \in Jobs : \A r \in Pending(k)' : Later(r, k)' /\ In(k, {"completed"})' => Exempt(k)'
  BY <1>1, AnsweredStep
<1>3. \A k \in Jobs : In(k, {"running"})' /\ Begun(k)' => Pending(k)' \subseteq {k}
  BY <1>1, BegunStep
<1>4. ctx'.job \in Jobs \cup {NoJob}
  BY RunnerTypes DEF RunnerTypeOK, ThreadsTypeOK
<1>5. ASSUME NEW q \in Jobs, ctx'.job = q, job'[q].intent.kind \in {"turn", "direct"}
      PROVE  Pending(q)' \subseteq {q}
  BY <1>1, <1>5, ContextPending
<1>6. ctx'.job # NoJob /\ job'[ctx'.job].intent.kind \in {"turn", "direct"} =>
          Pending(ctx.job)' \subseteq {ctx'.job}
  BY <1>4, <1>5 DEF Pending
<1>7. \A k \in Jobs : \A r \in Pending(k)' : (Later(r, k) /\ In(k, {"completed"}) => Exempt(k))'
  BY <1>2 DEF Later, In, Exempt
<1> QED BY <1>3, <1>6, <1>7 DEF PendingRightly

-----------------------------------------------------------------------------
(* The theorem.                                                               *)

LEMMA CarBegins ==
    ASSUME Init
    PROVE  CarInv
<1>1. /\ job = [j \in Jobs |-> NoRow] /\ arrived = << >> /\ sched = Idle /\ ctx = NoContext
      /\ turn = [t \in Turns |-> Unasked]
      /\ confirmation = [j \in Jobs |-> NoConfirmation]
      /\ exec = [c \in Callers |-> NotExecuting] /\ commands = [j \in Jobs |-> 0]
  BY DEF Init, JobsInit, CarInit, ServiceInit, Unasked
<1>2. \A r \in Jobs : ~ Asked(r) /\ ~ IsTaken(r) /\ \A k \in Jobs : r \notin Pending(k)
  BY <1>1 DEF Asked, IsTaken, Pending, NoConfirmation
<1>3. CarTypeOK
  BY <1>1 DEF CarTypeOK
<1>4. InOrder
  BY <1>1 DEF InOrder
<1>5. ContextAgrees
  BY <1>1 DEF ContextAgrees, NoContext, Unasked
<1>6. ConfirmationsAgree
  BY <1>1, <1>2 DEF ConfirmationsAgree, Pending
<1>7. Attributed
  <2>1. ~ At("executing") /\ ctx.job = NoJob
    BY <1>1 DEF At, Idle, NoContext
  <2>2. AskedRightly /\ TakenRightly
    BY <1>2 DEF AskedRightly, TakenRightly
  <2>3. ExecutedRightly
    BY <1>1, <2>1, CallersAssumption DEF ExecutedRightly
  <2>4. \A k \in Jobs : Pending(k) = {}
    BY <1>2 DEF Pending
  <2>5. PendingRightly
    BY <2>1, <2>4 DEF PendingRightly
  <2> QED BY <2>2, <2>3, <2>5 DEF Attributed
<1> QED BY <1>3, <1>4, <1>5, <1>6, <1>7 DEF CarInv

LEMMA CarStep ==
    ASSUME RunnerInv, CarInv, [Next]_vars
    PROVE  CarInv'
<1>1. CarTypeOK' /\ ConfirmationsAgree'
  BY ConfirmationsStep DEF CarInv
<1>2. InOrder' /\ ContextAgrees'
  BY OrderStep, ContextStep, RunnerTypes DEF CarInv
<1>3. ASSUME ~ Misattributed'
      PROVE  Attributed'
  <2>1. Attributed
    BY <1>3, StaysMisattributed DEF CarInv
  <2> QED BY <1>3, <2>1, AskedStep, ExecutedStep, TakenStep, PendingStep DEF Attributed
<1> QED BY <1>1, <1>2, <1>3 DEF CarInv

(* The invariant of the car is inductive, with that of the job runner: every  *)
(* step of a job, of a turn that calls the car's tools, of an execution and   *)
(* of a stop keeps confirmations, the jobs they name and their order.         *)
THEOREM CarInvariant == Spec => []CarInv
<1>1. Init => CarInv
  BY CarBegins
<1>2. RunnerInv /\ CarInv /\ [Next]_vars => CarInv'
  BY CarStep
<1> QED BY <1>1, <1>2, RunnerInvariant, PTL DEF Spec

(* The car is commanded only for a confirmation that a message took and,      *)
(* unless a call was misattributed, at most once, for a later message of the  *)
(* conversation that confirms the same action, nothing answered between them  *)
(* (ClaimExecute, AfterOtherMessage, ExecuteCar).                             *)
THEOREM CarIsConfirmed == Spec => []CommandedOnConfirmation
<1>1. CarInv => CommandedOnConfirmation
  <2> SUFFICES ASSUME CarInv, NEW r \in Jobs, commands[r] > 0
               PROVE  LET c == confirmation[r].by IN
                      /\ c # NoJob
                      /\ Misattributed \/
                         /\ commands[r] = 1
                         /\ Later(r, c) /\ Conversation[c] = Conversation[r]
                         /\ job[c].intent = [kind |-> "confirm", target |-> confirmation[r].target]
                         /\ \A k \in Between(r, c) : In(k, {"completed"}) => Exempt(k)
    BY DEF CommandedOnConfirmation, Exempt
  <2>1. IsTaken(r)
    BY DEF CarInv, CarTypeOK, ConfirmationsAgree
  <2>2. ~ Misattributed => TakenRightly
    BY DEF CarInv, Attributed
  <2> QED BY <2>1, <2>2 DEF IsTaken, TakenRightly
<1> QED BY <1>1, CarInvariant, PTL
=============================================================================
