------------------------- MODULE ControllerService -------------------------
(* How the Codex Controller runs its jobs (codex_controller/service.py,       *)
(* app_server.py, tool_proxy.py).  Three parties meet: the scheduler thread   *)
(* takes jobs off the queue and starts turns, the reader thread applies what  *)
(* the app-server reports of them, and the app-server's turns call tools.     *)
(* A report may be read before the scheduler has recorded its turn: the       *)
(* reader then keeps it in a buffer the scheduler empties afterwards.         *)
(*                                                                            *)
(* Abstractions.  The app-server answers turn/start before it reports on the  *)
(* turn; it reports tool or text activity, texts and errors in any order and  *)
(* then the end.  Of the tools a turn calls only the car's are modelled; all  *)
(* others are its activity.  A direct job (memo, car's status, a member's     *)
(* command of the car) calls its tool and completes in one step; so does an   *)
(* unavailable one, a command of the car while its tool is switched off.      *)
EXTENDS PrepareCar

CONSTANTS
    NoTurn,
    BufferCap,     \* events kept for one turn (32)
    TurnEndings,   \* how turns may end, a subset of Endings
    TurnReports    \* what turns may report before, a subset of Reports

ASSUME ServiceAssumption ==
    /\ BufferCap \in Nat \ {0}
    /\ NoTurn \notin Turns
    /\ TurnEndings \subseteq Endings

(* What a message asks for: "/new", the car's two steps, either of them while *)
(* its tool is switched off, what one call of a tool answers, or a turn.      *)
Kinds == {"new", "request", "confirm", "unavailable", "direct", "turn"}

ASSUME IntentsAssumption ==
    \A j \in Jobs : Intents[j] \subseteq [kind : Kinds, target : Targets]

Reports == {"activity", "text", "retriable_error", "error", "tool"}
Effects == {"activity", "text"}

ASSUME ReportsAssumption == TurnReports \subseteq Reports

VARIABLES
    sched,     \* the scheduler thread: [at, job]
    replay,    \* events it has taken from the buffer and not applied yet
    ctx,       \* tool_proxy's _active_context: [job, turn]
    buffer,    \* _pending_turn_events
    reader,    \* the reader thread: [at, event]
    app,       \* the app-server process: "up" or "gone"
    wire,      \* what it has written and the reader not read
    turn,      \* its turns: [at, sent, status]
    lost       \* turns of which an event was dropped or overtaken by their end

threadVars == <<sched, replay, ctx, buffer, reader>>
appVars == <<app, wire, turn>>
serviceVars == <<threadVars, appVars, lost>>
vars == <<jobVars, carVars, serviceVars>>

Idle == [at |-> "idle"]
NoContext == [job |-> NoJob, turn |-> NoTurn]
NoEnd == [status |-> "none", retry |-> "row", shown |-> FALSE]
Event(t, k) == [turn |-> t, kind |-> k, end |-> NoEnd]
EndOf(t, e) == [turn |-> t, kind |-> "end", end |-> e]

ServiceInit ==
    /\ sched = Idle /\ replay = << >> /\ ctx = NoContext
    /\ buffer = [t \in Turns |-> << >>]
    /\ reader = Idle /\ app = "up" /\ wire = << >>
    /\ turn = [t \in Turns |-> [at |-> "none", sent |-> {}, status |-> "none"]]
    /\ lost = {}

Init == JobsInit /\ CarInit /\ ServiceInit

-----------------------------------------------------------------------------
(* The scheduler.                                                             *)

At(place) == sched.at = place
J == sched.job
Goes(place) == sched' = [sched EXCEPT !.at = place]
Asks(kinds) == job[J].intent.kind \in kinds
(* finally: the context and media of a job whose turn did not start.          *)
ClearJob == ctx' = IF ctx.job = J THEN NoContext ELSE ctx
Stops == sched' = Idle /\ ClearJob

Submit(j) == \E i \in Intents[j] :
    CreateJob(j, i) /\ UNCHANGED <<carVars, serviceVars>>

Claim(j) == /\ At("idle") /\ app = "up"
            /\ ClaimNext(j)
            /\ sched' = [at |-> "claimed", job |-> j]
            /\ UNCHANGED <<carVars, replay, ctx, buffer, reader, appVars, lost>>

Calmly == UNCHANGED <<replay, buffer, reader, appVars, lost>>

(* "/new" and its like: a thread is started before anything else is done.     *)
NewThread == /\ At("claimed") /\ Asks({"new"})
             /\ \/ CompleteDirect(J)
                \/ \E uncertain \in BOOLEAN : FailClaimed(J, uncertain)
                \/ RetryOverloaded(J)
             /\ Stops /\ UNCHANGED carVars /\ Calmly

(* Mutant: the message does not cancel the confirmation it follows.           *)
BeginWithoutCancelling ==
    /\ At("claimed") /\ ~ Asks({"new"})
    /\ ctx = NoContext
    /\ ctx' = [job |-> J, turn |-> NoTurn]
    /\ Goes("ready")
    /\ UNCHANGED <<jobVars, carVars>> /\ Calmly

BeginJob ==
    /\ At("claimed") /\ ~ Asks({"new"})
    /\ IF ctx = NoContext
       THEN /\ ctx' = [job |-> J, turn |-> NoTurn]
            /\ Goes("ready")
            /\ confirmation' = IF Asks({"request", "confirm", "unavailable"})
                               THEN confirmation
                               ELSE AfterOtherMessage(J)
            /\ UNCHANGED <<jobVars, exec, commands>>
       ELSE /\ FailClaimed(J, FALSE)             \* tool_context_busy
            /\ Stops /\ UNCHANGED carVars
    /\ Calmly

DirectTool == /\ At("ready") /\ Asks({"direct", "unavailable"})
              /\ CompleteDirect(J) \/ FailClaimed(J, FALSE)
              /\ Stops /\ UNCHANGED carVars /\ Calmly

AskForCar ==
    /\ At("ready") /\ Asks({"request"})
    /\ LET target == job[J].intent.target IN
       \/ /\ PrepareCarRequest(J, target)
          /\ Goes("told") /\ UNCHANGED <<jobVars, ctx>>
       \/ /\ AskConflict(J, target)
          /\ FailClaimed(J, FALSE) /\ Stops /\ UNCHANGED carVars
    /\ Calmly

ConfirmCar ==
    /\ At("ready") /\ Asks({"confirm"})
    /\ LET target == job[J].intent.target IN
       \/ /\ ClaimExecute("scheduler", J, target)
          /\ Goes("executing") /\ UNCHANGED <<jobVars, ctx>>
       \/ /\ RefuseExecute(J, target)
          /\ Goes("told") /\ UNCHANGED <<jobVars, ctx>>
       \/ /\ ConfirmConflict(J, target)
          /\ FailClaimed(J, FALSE) /\ Stops /\ UNCHANGED carVars
    /\ Calmly

ExecuteCar == /\ At("executing")
              /\ \/ /\ ReadEntity("scheduler") \/ PostCommand("scheduler")
                    /\ UNCHANGED sched
                 \/ FinishExecute("scheduler") /\ Goes("told")
              /\ UNCHANGED <<jobVars, ctx>> /\ Calmly

TellResult == /\ At("told") /\ CompleteDirect(J)
              /\ Stops /\ UNCHANGED carVars /\ Calmly

(* thread/start or thread/resume, the media and turn/start's request; each    *)
(* may fail before the turn is asked for.                                     *)
AskTurn == /\ At("ready") /\ Asks({"turn"}) /\ app = "up"
           /\ turn' = [turn EXCEPT ![TurnOf(J)].at = "asked"]
           /\ Goes("asked")
           /\ UNCHANGED <<jobVars, carVars, replay, ctx, buffer, reader, app, wire, lost>>

FailBeforeTurn == /\ At("ready") /\ Asks({"turn"})
                  /\ \/ \E uncertain \in BOOLEAN : FailClaimed(J, uncertain)
                     \/ RetryOverloaded(J)
                  /\ Stops /\ UNCHANGED carVars /\ Calmly

(* turn/start is answered with an error, so no turn exists.                   *)
TurnRejected == /\ At("asked") /\ turn[TurnOf(J)].at = "asked" /\ app = "up"
                /\ turn' = [turn EXCEPT ![TurnOf(J)].at = "none"]
                /\ RetryOverloaded(J) \/ FailClaimed(J, FALSE)
                /\ Stops
                /\ UNCHANGED <<carVars, replay, buffer, reader, app, wire, lost>>

(* No answer within the request's time, or the channel closed.                *)
TurnUnanswered == /\ At("asked")
                  /\ FailClaimed(J, TRUE)
                  /\ Stops /\ UNCHANGED carVars /\ Calmly

BindTurn == /\ At("answered") /\ ctx.job = J
            /\ ctx' = [ctx EXCEPT !.turn = TurnOf(J)]
            /\ Goes("bound")
            /\ UNCHANGED <<jobVars, carVars>> /\ Calmly

AssignTheTurn == /\ At("bound")
                 /\ AssignTurn(J) /\ Goes("assigned")
                 /\ UNCHANGED <<carVars, ctx>> /\ Calmly

(* The database refuses the write: the turn runs, the context stays.          *)
AssignFails == /\ At("bound")
               /\ FailClaimed(J, TRUE)
               /\ sched' = Idle
               /\ UNCHANGED <<carVars, ctx>> /\ Calmly

NotEnd(e) == e.kind # "end"
IsEnd(e) == e.kind = "end"
(* A turn has one end, which is moved behind the rest.                        *)
EndLast(events) ==
    IF \E n \in DOMAIN events : IsEnd(events[n])
    THEN LET n == CHOOSE n \in DOMAIN events : IsEnd(events[n])
         IN  Append(SubSeq(events, 1, n - 1) \o SubSeq(events, n + 1, Len(events)), events[n])
    ELSE events

FlushTurnEvents ==
    /\ At("assigned")
    /\ LET events == buffer[TurnOf(J)] IN
       /\ replay' = EndLast(events)
       /\ buffer' = [buffer EXCEPT ![TurnOf(J)] = << >>]
       /\ IF events = << >> THEN sched' = Idle ELSE Goes("replaying")
    /\ UNCHANGED <<jobVars, carVars, ctx, reader, appVars, lost>>

-----------------------------------------------------------------------------
(* What both threads do with an event whose turn is recorded.                 *)

EndTurn(t) == ctx' = IF ctx.turn = t THEN NoContext ELSE ctx

(* The items the turn/completed lists may show what the turn did.             *)
Shows(e) == e.end.shown /\ turn[e.turn].sent \cap Effects # {}

Apply(e) ==
    CASE e.kind = "text"     -> SetResultText(e.turn)
      [] e.kind = "activity" -> ObserveTurnActivity(e.turn)
      [] e.kind = "end"      -> CompleteTurn(e.turn, e.end, Shows(e))
      [] OTHER -> ObserveTurnError(e.turn, e.kind = "retriable_error")

(* The scheduler applies what it took from the buffer; what then finds no     *)
(* running job is dropped (allow_buffer=False).                               *)
ReplayEvent ==
    /\ At("replaying")
    /\ LET e == Head(replay) IN
       /\ IF Holds(e.turn) THEN Apply(e) ELSE UNCHANGED jobVars
       /\ IF e.kind = "end" THEN EndTurn(e.turn) ELSE UNCHANGED ctx
    /\ replay' = Tail(replay)
    /\ IF Len(replay) = 1 THEN sched' = Idle ELSE UNCHANGED sched
    /\ UNCHANGED <<carVars, buffer, reader, appVars, lost>>

SchedulerStep ==
    \/ \E j \in Jobs : Claim(j)
    \/ NewThread \/ BeginJob \/ DirectTool
    \/ AskForCar \/ ConfirmCar \/ ExecuteCar \/ TellResult
    \/ AskTurn \/ FailBeforeTurn \/ TurnRejected \/ TurnUnanswered
    \/ BindTurn \/ AssignTheTurn \/ AssignFails
    \/ FlushTurnEvents \/ ReplayEvent

-----------------------------------------------------------------------------
(* The reader.                                                                *)

Keep(e) == IF Len(buffer[e.turn]) < BufferCap
           THEN /\ buffer' = [buffer EXCEPT ![e.turn] = Append(@, e)]
                /\ UNCHANGED lost
           ELSE /\ lost' = lost \cup {e.turn}
                /\ UNCHANGED buffer

(* A report other than the end: applied, or missed because its turn is not    *)
(* recorded.  A text is two writes, and only the first one's answer counts.   *)
ReadReport ==
    /\ reader = Idle /\ wire # << >> /\ NotEnd(Head(wire))
    /\ LET e == Head(wire) IN
       IF Holds(e.turn)
       THEN Apply(e) /\ UNCHANGED reader
       ELSE /\ reader' = [at |-> IF e.kind = "text" THEN "half_missed" ELSE "missed",
                          event |-> e]
            /\ UNCHANGED jobVars
    /\ wire' = Tail(wire)
    /\ UNCHANGED <<carVars, sched, replay, ctx, buffer, app, turn, lost>>

ObserveMissedText ==
    /\ reader.at = "half_missed"
    /\ IF Holds(reader.event.turn) THEN ObserveTurnActivity(reader.event.turn)
                                   ELSE UNCHANGED jobVars
    /\ reader' = [reader EXCEPT !.at = "missed"]
    /\ UNCHANGED <<carVars, sched, replay, ctx, buffer, appVars, lost>>

(* Mutant: the end does not wait behind buffered reports of its turn.         *)
ReadEndAtOnce ==
    /\ reader = Idle /\ wire # << >> /\ IsEnd(Head(wire))
    /\ LET e == Head(wire) IN
       reader' = [at |-> "ending", event |-> e] /\ EndTurn(e.turn)
    /\ wire' = Tail(wire)
    /\ UNCHANGED <<jobVars, carVars, buffer, sched, replay, app, turn, lost>>

(* The end waits behind buffered reports; otherwise the context ends first.   *)
ReadEnd ==
    /\ reader = Idle /\ wire # << >> /\ IsEnd(Head(wire))
    /\ LET e == Head(wire) IN
       IF buffer[e.turn] # << >>
       THEN Keep(e) /\ UNCHANGED <<reader, ctx>>
       ELSE /\ reader' = [at |-> "ending", event |-> e]
            /\ EndTurn(e.turn)
            /\ UNCHANGED <<buffer, lost>>
    /\ wire' = Tail(wire)
    /\ UNCHANGED <<jobVars, carVars, sched, replay, app, turn>>

(* Reports of the turn the scheduler has in hand are overtaken.               *)
Overtakes(t) == At("replaying") /\ \E n \in DOMAIN replay : replay[n].turn = t

CompleteRead ==
    /\ reader.at = "ending"
    /\ LET e == reader.event IN
       IF Holds(e.turn)
       THEN /\ Apply(e)
            /\ lost' = IF Overtakes(e.turn) THEN lost \cup {e.turn} ELSE lost
            /\ reader' = Idle
       ELSE /\ reader' = [reader EXCEPT !.at = "missed"]
            /\ UNCHANGED <<jobVars, lost>>
    /\ UNCHANGED <<carVars, sched, replay, ctx, buffer, appVars>>

BufferEvent ==
    /\ reader.at = "missed"
    /\ Keep(reader.event)
    /\ reader' = Idle
    /\ UNCHANGED <<jobVars, carVars, sched, replay, ctx, appVars>>

ReaderStep == \/ ReadReport \/ ObserveMissedText \/ ReadEnd
              \/ CompleteRead \/ BufferEvent

-----------------------------------------------------------------------------
(* The app-server and its turns.                                              *)

Gone == [t \in Turns |-> IF turn[t].at \in {"asked", "live"}
                         THEN [turn[t] EXCEPT !.at = "dead"] ELSE turn[t]]

(* The turn is started.  The scheduler takes the answer if it still waits; an *)
(* answer nobody waits for is an unknown id, after which the Controller ends  *)
(* the process (ServerExits).                                                 *)
StartTurn(t) ==
    /\ app = "up" /\ turn[t].at = "asked"
    /\ turn' = [turn EXCEPT ![t].at = "live"]
    /\ IF At("asked") /\ t = TurnOf(J) THEN Goes("answered") ELSE UNCHANGED sched
    /\ UNCHANGED <<jobVars, carVars, replay, ctx, buffer, reader, app, wire, lost>>

Report(t) ==
    /\ turn[t].at = "live"
    /\ \E k \in TurnReports \ (turn[t].sent \cup {"tool"}) :
          /\ turn' = [turn EXCEPT ![t].sent = @ \cup {k}]
          /\ wire' = Append(wire, Event(t, k))
    /\ UNCHANGED <<jobVars, carVars, threadVars, app, lost>>

FinishTurn(t) ==
    /\ turn[t].at = "live"
    /\ \E e \in TurnEndings :
          /\ turn' = [turn EXCEPT ![t].at = "over", ![t].status = e.status]
          /\ wire' = Append(wire, EndOf(t, e))
    /\ UNCHANGED <<jobVars, carVars, threadVars, app, lost>>

(* A turn calls a tool of the car, in the name of the job whose context is    *)
(* active; a claim it wins is carried out by this caller.                     *)
CallCarTool(t, c) ==
    /\ turn[t].at = "live" /\ "tool" \in TurnReports \ turn[t].sent
    /\ ctx.job # NoJob /\ exec[c] = NotExecuting
    /\ turn' = [turn EXCEPT ![t].sent = @ \cup {"tool"}]
    /\ \E target \in Targets :
          \/ PrepareCarRequest(ctx.job, target)
          \/ ClaimExecute(c, ctx.job, target)
          \/ RefuseExecute(ctx.job, target)
    /\ UNCHANGED <<jobVars, threadVars, app, wire, lost>>

CarryOut(c) == /\ ReadEntity(c) \/ PostCommand(c) \/ FinishExecute(c)
               /\ UNCHANGED <<jobVars, serviceVars>>

ServerExits == /\ app = "up"
               /\ app' = "gone" /\ turn' = Gone
               /\ UNCHANGED <<jobVars, carVars, threadVars, wire, lost>>

AppServerStep ==
    \/ \E t \in Turns : StartTurn(t) \/ Report(t) \/ FinishTurn(t)
    \/ \E t \in Turns, c \in Callers \ {"scheduler"} : CallCarTool(t, c)
    \/ \E c \in Callers \ {"scheduler"} : CarryOut(c)
    \/ ServerExits

-----------------------------------------------------------------------------
(* The add-on stops anywhere and starts again, with its app-server or         *)
(* without.                                                                   *)
Restart ==
    /\ RecoverRunning
    /\ sched' = Idle /\ replay' = << >> /\ ctx' = NoContext
    /\ buffer' = [t \in Turns |-> << >>]
    /\ reader' = Idle /\ wire' = << >>
    /\ app' \in {"up", "gone"} /\ turn' = Gone
    /\ exec' = [c \in Callers |-> NotExecuting]
    /\ UNCHANGED <<confirmation, commands, lost>>

(* /healthz fails while the app-server is gone and the watchdog restarts.     *)
Watchdog == app = "gone" /\ Restart

Admin(j) == /\ \E o \in FinalStates : ResolveRecovery(j, o)
            /\ UNCHANGED <<carVars, serviceVars>>

TimeStep == \/ \E j \in Jobs : RetryTime(j) /\ UNCHANGED <<carVars, serviceVars>>
            \/ \E r \in Jobs : ConfirmationLapses(r) /\ UNCHANGED <<jobVars, serviceVars>>

Next == \/ \E j \in Jobs : Submit(j) \/ Admin(j)
        \/ SchedulerStep \/ ReaderStep \/ AppServerStep
        \/ TimeStep \/ Restart

Spec == Init /\ [][Next]_vars

(* Both threads go on, a turn that runs ends at last, and the watchdog acts.  *)
Fairness == /\ WF_vars(SchedulerStep) /\ WF_vars(ReaderStep) /\ WF_vars(Watchdog)
            /\ \A t \in Turns : WF_vars(FinishTurn(t))
FairSpec == Spec /\ Fairness

-----------------------------------------------------------------------------
(* At most one job runs or awaits review, and a job that runs is in the       *)
(* scheduler's hands or bound to a turn: nothing else will ever move it on.   *)
OneAtATime ==
    \A j \in Jobs : In(j, {"running", "recovery_required"}) =>
        /\ \A k \in Jobs \ {j} : ~ In(k, {"running", "recovery_required"})
        /\ In(j, {"running"}) => job[j].bound \/ (sched # Idle /\ J = j)

(* A turn that may be running is the latest of its job, and its job is not in *)
(* the queue: whatever timed out, was refused or failed, no message is given  *)
(* to the model a second time while the first turn may still act on it        *)
(* (DOCS.md: what is uncertain is never replayed automatically).              *)
UncertainNeverReplayed ==
    \A t \in Turns : turn[t].at \in {"asked", "live"} =>
        t = TurnOf(t[1]) /\ ~ In(t[1], {"queued"})

(* Unless a person decided it, a turn job's outcome is that of its last turn, *)
(* and one that failed without a turn never started one.                      *)
OutcomeOfItsTurn ==
    \A j \in Jobs :
        In(j, FinalStates) /\ ~ job[j].reviewed /\ job[j].intent.kind = "turn" =>
            LET last == turn[TurnOf(j)] IN
            IF job[j].bound THEN last.at = "over" /\ EndState(last) = job[j].state
                            ELSE job[j].state = "failed" /\ last.at \in {"none", "dead"}

(* Unless an event was dropped for want of room or overtaken by the end of    *)
(* its turn, a turn that did something is not tried again, and the text of a  *)
(* completed job is there.                                                    *)
ReportsCount ==
    \A t \in Turns \ lost :
        /\ turn[t].sent \cap Effects # {} =>
              t = TurnOf(t[1]) /\ ~ In(t[1], {"queued"})
        /\ "text" \in turn[t].sent /\ t = TurnOf(t[1]) /\ In(t[1], {"completed"})
              => job[t[1]].text \/ job[t[1]].reviewed

Later(r, c) == \E m, n \in DOMAIN arrived : m < n /\ arrived[m] = r /\ arrived[n] = c
Between(r, c) == {k \in Jobs : Later(r, k) /\ Later(k, c) /\ Conversation[k] = Conversation[r]}

(* A turn still running after its job was reviewed calls its tools in the     *)
(* name of whichever job is active then.                                      *)
Misattributed == \E t \in Turns : job[t[1]] # NoRow /\ job[t[1]].reviewed
                                   /\ "tool" \in turn[t].sent

(* The car is commanded only for a confirmation that a message took and,      *)
(* unless a call was misattributed, at most once, for a later message of the  *)
(* conversation that confirms the same action, with no message between the    *)
(* two that was answered, but "/new", a command of the car while its tool was *)
(* switched off, or after a review.                                           *)
CommandedOnConfirmation ==
    \A r \in Jobs : commands[r] > 0 =>
        LET c == confirmation[r].by IN
        /\ c # NoJob
        /\ Misattributed \/
           /\ commands[r] = 1
           /\ Later(r, c) /\ Conversation[c] = Conversation[r]
           /\ job[c].intent = [kind |-> "confirm", target |-> confirmation[r].target]
           /\ \A k \in Between(r, c) : In(k, {"completed"}) =>
                 job[k].intent.kind \in {"new", "unavailable"} \/ job[k].reviewed

(* The job table does what JobLifecycle promises: a retry, a stop or a late   *)
(* report in either thread neither starts two messages at once nor lets one   *)
(* overtake another, tries none too often and changes no outcome.             *)
Phase(j) == IF job[j] = NoRow THEN "none" ELSE job[j].state
Tries(j) == IF job[j] = NoRow THEN 0 ELSE job[j].attempt

Lifecycle == INSTANCE JobLifecycle WITH phase <- [j \in Jobs |-> Phase(j)], order <- arrived,
                                        tries <- [j \in Jobs |-> Tries(j)]
KeepsLifecycle == Lifecycle!LifecycleSpec

(* A running job stops running, unless the end of its turn was kept in the    *)
(* buffer after the scheduler had emptied it, or dropped.                     *)
Stranded(j) == job[j].bound /\ (buffer[TurnOf(j)] # << >> \/ TurnOf(j) \in lost)
RunningEnds == \A j \in Jobs : In(j, {"running"}) ~> ~ In(j, {"running"}) \/ Stranded(j)

(* README.md: the context ends with the turn.  Between steps of the two       *)
(* threads it is not that of a job which is over.                             *)
ContextEndsWithTurn ==
    sched = Idle /\ reader = Idle /\ ctx.job # NoJob =>
        ~ In(ctx.job, FinalStates) \/ job[ctx.job].reviewed
=============================================================================
