---------------------------- MODULE WeixinProofs ----------------------------
(***************************************************************************)
(* Theorems about the Weixin Gateway: what the owner is told of remote     *)
(* work, what the Gateway records of it, how a message is answered, and    *)
(* who may send one, for any number of people, accounts, sessions,         *)
(* messages, commands, runs and failures.                                  *)
(***************************************************************************)
EXTENDS WeixinWatch, WeixinRemoteWork, WeixinArchive, WeixinDelivery, WeixinAccounts,
        FiniteSetTheorems, SequenceTheorems, WellFoundedInduction, TLAPS

-----------------------------------------------------------------------------
(* Remote work, version 2.  What was told is booked: a state of a command's  *)
(* work that was told has its key in the outbound ledger, whoever told it.   *)

States == {"dispatched", "running", "completed"}
CommandNumbers == 1 .. MaxCommands

WatchRow == [source : 0 .. MaxCommands, key : {"none"} \cup States, closed : BOOLEAN]
HandlerState == [at : {"idle", "track", "again", "send", "resend"}, source : 0 .. MaxCommands,
                 key : {"none"}, state : {"none"} \cup States]

WatchTypeOK ==
    /\ work \in [runs : 0 .. MaxCommands, state : {"none"} \cup States]
    /\ watch \in WatchRow /\ handler \in HandlerState
    /\ poll \in [at : {"idle", "ask", "send"}, source : 0 .. MaxCommands,
                 key : {"none"} \cup States, state : {"none"} \cup States]
    /\ told \in [CommandNumbers -> [States -> Nat]]

\* Whoever is about to tell something tells it of a command that was given.
TellersKnow ==
    /\ handler.at # "idle" => handler.source # 0 /\ handler.state # "none" /\ work.state # "none"
    /\ poll.at # "idle" => poll.source # 0 /\ watch.source # 0 /\ work.state # "none"
    /\ poll.at = "send" => poll.state # "none"
    /\ handler.at = "send" => watch.source # 0
    /\ ~ watch.closed => watch.source # 0 /\ work.state # "none"

ToldIsBooked ==
    \A n \in CommandNumbers : \A s \in States :
        told[n][s] # 0 => told[n][s] = 1 /\ Key(s, n) \in booked

WatchInv == WatchTypeOK /\ TellersKnow /\ ToldIsBooked

LEMMA WatchInitInv == WatchInit => WatchInv
BY WatchAssumption DEF WatchInit, WatchInv, WatchTypeOK, WatchRow, HandlerState, TellersKnow, ToldIsBooked, NoWatch, Nobody,
   States, CommandNumbers

\* The records two fields of which are written at once.
LEMMA RearmedWatch ==
    ASSUME NEW r \in WatchRow, NEW key, NEW closed
    PROVE  [r EXCEPT !.key = key, !.closed = closed] = [source |-> r.source, key |-> key, closed |-> closed]
<1> DEFINE b == [r EXCEPT !.key = key]
<1>1. b = [source |-> r.source, key |-> key, closed |-> r.closed]
    BY DEF WatchRow
<1>2. [r EXCEPT !.key = key, !.closed = closed] = [b EXCEPT !.closed = closed]
    OBVIOUS
<1>3. [b EXCEPT !.closed = closed] = [source |-> b.source, key |-> b.key, closed |-> closed]
      /\ b.source = r.source /\ b.key = key
  <2> HIDE DEF b
  <2> QED BY <1>1
<1> QED BY <1>2, <1>3

LEMMA WatchIsNotified ==
    ASSUME watch \in WatchRow, NEW state, Notified(state)
    PROVE  \E closed \in BOOLEAN : watch' = [source |-> watch.source, key |-> state, closed |-> closed]
<1> DEFINE closed == (state = "completed")
<1>1. closed \in BOOLEAN
    OBVIOUS
<1>2. watch' = [watch EXCEPT !.key = state, !.closed = closed]
    BY DEF Notified
<1> HIDE DEF closed
<1>3. watch' = [source |-> watch.source, key |-> state, closed |-> closed]
    BY <1>2, RearmedWatch
<1> QED BY <1>1, <1>3

LEMMA HandlerGoesOn ==
    ASSUME NEW r \in HandlerState, NEW at, NEW state
    PROVE  [r EXCEPT !.at = at, !.state = state]
           = [at |-> at, source |-> r.source, key |-> r.key, state |-> state]
<1> DEFINE b == [r EXCEPT !.at = at]
<1>1. b = [at |-> at, source |-> r.source, key |-> r.key, state |-> r.state]
    BY DEF HandlerState
<1>2. [r EXCEPT !.at = at, !.state = state] = [b EXCEPT !.state = state]
    OBVIOUS
<1>3. [b EXCEPT !.state = state] = [at |-> b.at, source |-> b.source, key |-> b.key, state |-> state]
      /\ b.at = at /\ b.source = r.source /\ b.key = r.key
  <2> HIDE DEF b
  <2> QED BY <1>1
<1> QED BY <1>2, <1>3

LEMMA HandlerTakesUp ==
    ASSUME NEW runs
    PROVE  [Nobody EXCEPT !.at = "track", !.source = runs, !.state = "dispatched"]
           = [at |-> "track", source |-> runs, key |-> "none", state |-> "dispatched"]
<1> DEFINE b == [Nobody EXCEPT !.at = "track"]
           c == [b EXCEPT !.source = runs]
<1>1. b = [at |-> "track", source |-> 0, key |-> "none", state |-> "none"]
    BY DEF Nobody
<1>2. c = [at |-> "track", source |-> runs, key |-> "none", state |-> "none"]
  <2> HIDE DEF b
  <2> QED BY <1>1
<1>3. [Nobody EXCEPT !.at = "track", !.source = runs, !.state = "dispatched"] = [c EXCEPT !.state = "dispatched"]
    OBVIOUS
<1>4. [c EXCEPT !.state = "dispatched"] = [at |-> "track", source |-> runs, key |-> "none", state |-> "dispatched"]
  <2> HIDE DEF c
  <2> QED BY <1>2
<1> QED BY <1>3, <1>4

\* A reply under a key that is booked is not sent again.
LEMMA ToldOnceMore ==
    ASSUME WatchInv, NEW s \in States, NEW n \in CommandNumbers, Tell(s, n)
    PROVE  told' \in [CommandNumbers -> [States -> Nat]] /\ ToldIsBooked'
<1>1. booked' = booked \cup {Key(s, n)} /\ told \in [CommandNumbers -> [States -> Nat]] /\ ToldIsBooked
    BY DEF Tell, WatchInv, WatchTypeOK
<1>2. CASE Key(s, n) \in booked
    BY <1>1, <1>2 DEF Tell, ToldIsBooked
<1>3. CASE Key(s, n) \notin booked
  <2>1. told' = [told EXCEPT ![n][s] = @ + 1] /\ told[n][s] = 0
      BY <1>1, <1>3 DEF Tell, ToldIsBooked
  <2>2. told' \in [CommandNumbers -> [States -> Nat]]
      BY <1>1, <2>1
  <2>3. \A m \in CommandNumbers, t \in States :
            told'[m][t] = IF m = n /\ t = s THEN 1 ELSE told[m][t]
      BY <1>1, <2>1
  <2> QED BY <1>1, <2>2, <2>3 DEF ToldIsBooked
<1> QED BY <1>2, <1>3

LEMMA WatchStepInv == WatchInv /\ [WatchNext]_watchVars => WatchInv'
<1> SUFFICES ASSUME WatchInv, [WatchNext]_watchVars
             PROVE  WatchInv'
    OBVIOUS
<1>0. WatchTypeOK /\ TellersKnow /\ ToldIsBooked
    BY DEF WatchInv
\* What sends nothing.
<1>1. ASSUME Command \/ Replay \/ Track \/ HandlerFails \/ ReadWatch \/ WatchAnswered \/ WatchFails
             \/ (\E state \in {"running", "completed"} : Works(state)) \/ UNCHANGED watchVars
      PROVE  ToldIsBooked' /\ told' = told /\ booked' = booked
    BY <1>0, <1>1 DEF Command, Replay, Track, HandlerFails, ReadWatch, WatchAnswered, WatchFails, Works,
       watchVars, ToldIsBooked
<1>2. CASE Command
  <2>1. work' = [runs |-> work.runs + 1, state |-> "dispatched"] /\ work.runs + 1 \in 1 .. MaxCommands
        /\ handler' = [at |-> "track", source |-> work.runs + 1, key |-> "none", state |-> "dispatched"]
    <3>1. work' = [runs |-> work.runs + 1, state |-> "dispatched"] /\ work.runs + 1 \in 1 .. MaxCommands
        BY <1>0, <1>2, WatchAssumption DEF Command, WatchTypeOK
    <3>2. PICK runs : runs = work.runs + 1
        OBVIOUS
    <3>3. work'.runs = runs
        BY <3>1, <3>2
    <3>4. handler' = [Nobody EXCEPT !.at = "track", !.source = runs, !.state = "dispatched"]
        BY <1>2, <3>3 DEF Command
    <3> QED BY <3>1, <3>2, <3>4, HandlerTakesUp
  <2> QED BY WatchAssumption, <1>0, <1>1, <1>2, <2>1 DEF WatchInv, WatchTypeOK, WatchRow, HandlerState, TellersKnow, States, Command
<1>3. CASE Replay
  <2>1. handler' = [at |-> "track", source |-> handler.source, key |-> handler.key, state |-> work.state]
      BY <1>0, <1>3, HandlerGoesOn DEF Replay, WatchTypeOK
  <2> QED BY WatchAssumption, <1>0, <1>1, <1>3, <2>1 DEF HandlerState, WatchInv, WatchTypeOK, TellersKnow, States, Replay
<1>4. CASE Track
    BY WatchAssumption, <1>0, <1>1, <1>4 DEF WatchInv, WatchTypeOK, WatchRow, HandlerState, TellersKnow, States, Track
<1>5. CASE HandlerFails
    BY WatchAssumption, <1>0, <1>1, <1>5 DEF WatchInv, WatchTypeOK, WatchRow, HandlerState, TellersKnow, States, HandlerFails
<1>6. CASE ReadWatch
    BY WatchAssumption, <1>0, <1>1, <1>6 DEF WatchInv, WatchTypeOK, WatchRow, HandlerState, TellersKnow, States, ReadWatch, Nobody
<1>7. CASE WatchAnswered
    BY WatchAssumption, <1>0, <1>1, <1>7 DEF WatchInv, WatchTypeOK, WatchRow, HandlerState, TellersKnow, States, WatchAnswered
<1>8. CASE WatchFails
    BY WatchAssumption, <1>0, <1>1, <1>8 DEF WatchInv, WatchTypeOK, WatchRow, HandlerState, TellersKnow, States, WatchFails, Nobody
<1>9. ASSUME NEW state \in {"running", "completed"}, Works(state)
      PROVE  WatchInv'
    BY WatchAssumption, <1>0, <1>1, <1>9 DEF WatchInv, WatchTypeOK, WatchRow, HandlerState, TellersKnow, States, Works
<1>10. CASE UNCHANGED watchVars
    BY WatchAssumption, <1>0, <1>1, <1>10 DEF WatchInv, WatchTypeOK, WatchRow, HandlerState, TellersKnow, watchVars
\* The two that send.
<1>11. CASE HandlerSends
  <2>1. handler.state \in States /\ handler.source \in CommandNumbers
      BY <1>0, <1>11 DEF HandlerSends, WatchTypeOK, HandlerState, TellersKnow, CommandNumbers
  <2>2. told' \in [CommandNumbers -> [States -> Nat]] /\ ToldIsBooked'
      BY <1>11, <2>1, ToldOnceMore DEF HandlerSends
  <2>3. \/ handler.at # "send" /\ watch' = watch
        \/ \E closed \in BOOLEAN : watch' = [source |-> watch.source, key |-> handler.state, closed |-> closed]
      BY <1>0, <1>11, WatchIsNotified DEF HandlerSends, WatchTypeOK
  <2> QED BY <1>0, <1>11, <2>1, <2>2, <2>3, WatchAssumption
          DEF WatchInv, WatchTypeOK, WatchRow, HandlerState, TellersKnow, States, HandlerSends, Nobody
<1>12. CASE WatchTells
  <2>1. poll.state \in States /\ poll.source \in CommandNumbers
      BY <1>0, <1>12 DEF WatchTells, WatchTypeOK, TellersKnow, CommandNumbers
  <2>2. told' \in [CommandNumbers -> [States -> Nat]] /\ ToldIsBooked'
    <3>1. CASE poll.state = poll.key
        BY <1>0, <1>12, <3>1 DEF WatchTells, WatchTypeOK, ToldIsBooked
    <3>2. CASE poll.state # poll.key
        BY <1>12, <2>1, <3>2, ToldOnceMore DEF WatchTells
    <3> QED BY <3>1, <3>2
  <2>3. \E closed \in BOOLEAN : watch' = [source |-> watch.source, key |-> poll.state, closed |-> closed]
      BY <1>0, <1>12, WatchIsNotified DEF WatchTells, WatchTypeOK
  <2> QED BY <1>0, <1>12, <2>1, <2>2, <2>3, WatchAssumption
          DEF WatchInv, WatchTypeOK, WatchRow, HandlerState, TellersKnow, States, WatchTells, Nobody
<1> QED BY <1>2, <1>3, <1>4, <1>5, <1>6, <1>7, <1>8, <1>9, <1>10, <1>11, <1>12 DEF WatchNext

\* However a command's handler, its replays and the delivery loop interleave
\* and fail, each state of its work is told at most once
\* (_handle_runner_manager_v2, _deliver_runner_manager_v2_updates).
THEOREM StatesAreToldOnce == WatchSpec => []ToldOnce
<1>1. WatchInv => ToldOnce
    BY DEF WatchInv, WatchTypeOK, ToldIsBooked, ToldOnce
<1> QED BY <1>1, WatchInitInv, WatchStepInv, PTL DEF WatchSpec

-----------------------------------------------------------------------------
(* Remote work, version 1.  The Mac's events are numbered, a run's first is   *)
(* the only one that can say it is queued and its last the only final one;    *)
(* what was recorded was sent.                                                *)

Sent == {"queued", "running", "awaiting_confirmation", "completed"}
Event == [run : Nat, seq : Nat, state : Sent]

RemoteTypeOK ==
    /\ task \in [state : {"absent", "waiting_mac", "expired"} \cup Sent, run : Nat, seq : Nat]
    /\ outbox \in [Commands -> {"none", "pending", "published", "failed"}]
    /\ mac = NoEvent \/ mac \in Event
    /\ mqtt \subseteq Event
    /\ DOMAIN events \subseteq mqtt

EventsAreOrdered ==
    /\ \A e \in mqtt : /\ e.run # 0 /\ e.seq # 0 /\ ~ Before(mac, e)
                       /\ e.state = "queued" => e.seq = 1
                       /\ e.run = mac.run /\ e.seq = mac.seq => e.state = mac.state
    /\ \A e, f \in mqtt : e.run = f.run =>
          /\ e.seq = f.seq => e = f
          /\ e.state \in Terminal => ~ e.seq < f.seq
    /\ mac = NoEvent \/ mac \in mqtt

TaskAgrees ==
    /\ outbox["start"] = "none" => mqtt = {}
    /\ task.state \in {"absent", "waiting_mac"} => task.run = 0 /\ DOMAIN events = {}
    /\ task.state = "queued" => \A e \in DOMAIN events : e.run = task.run => e.state = "queued"

RemoteInv == RemoteTypeOK /\ EventsAreOrdered /\ TaskAgrees /\ TaskIsLatestEvent

LEMMA RemoteInitInv == RemoteWorkInit => RemoteInv
BY DEF RemoteWorkInit, RemoteInv, RemoteTypeOK, EventsAreOrdered, TaskAgrees, TaskIsLatestEvent,
   NoTask, NoEvent, Commands, Terminal, Sent, Event

\* An event the Mac sends comes after all it has sent, and opens a run or
\* goes on with one that has not ended.
LEMMA MacStepInv ==
    ASSUME RemoteInv, NEW state \in Sent, NEW more \in BOOLEAN, MacSends(state, more)
    PROVE  RemoteInv'
<1>0. RemoteTypeOK /\ EventsAreOrdered /\ TaskAgrees /\ TaskIsLatestEvent
    BY DEF RemoteInv
<1>1. UNCHANGED <<task, outbox, events>> /\ outbox["start"] = "published" /\ mqtt' = mqtt \cup {mac'}
    BY DEF MacSends
<1>2. /\ mac' \in Event /\ mac'.run # 0 /\ mac'.seq # 0 /\ mac'.state = state
      /\ \/ mac'.run = mac.run + 1 /\ mac'.seq = 1
         \/ mac \in Event /\ mac'.run = mac.run /\ mac'.seq = mac.seq + 1
            /\ mac.state \notin Terminal /\ state # "queued"
  <2>1. CASE more
      BY <1>0, <2>1 DEF MacSends, RemoteTypeOK, Event, NoEvent
  <2>2. CASE ~ more
    <3>1. mac.run # 0 /\ mac \in Event
        BY <1>0, <2>2 DEF MacSends, RemoteTypeOK, Event, NoEvent
    <3>2. mac' = [run |-> mac.run, seq |-> mac.seq + 1, state |-> state]
      <4> DEFINE b == [mac EXCEPT !.seq = @ + 1]
      <4>1. b \in Event /\ b.run = mac.run /\ b.seq = mac.seq + 1
          BY <3>1 DEF Event
      <4>2. mac' = [b EXCEPT !.state = state]
          BY <2>2 DEF MacSends
      <4> HIDE DEF b
      <4> QED BY <4>1, <4>2 DEF Event
    <3> QED BY <2>2, <3>1, <3>2 DEF MacSends, Event
  <2> QED BY <2>1, <2>2
<1>3. PICK m \in Event : m = mac'
    BY <1>2
<1>4. \A e \in mqtt : Before(e, m)
    BY <1>0, <1>2, <1>3 DEF RemoteTypeOK, EventsAreOrdered, Before, Event, NoEvent
<1>5. RemoteTypeOK'
    BY <1>0, <1>1, <1>3 DEF RemoteTypeOK
<1>6. EventsAreOrdered'
  <2>1. \A e \in mqtt : e.run = m.run => e.state \notin Terminal
      BY <1>0, <1>2, <1>3 DEF RemoteTypeOK, EventsAreOrdered, Before, Event, NoEvent
  <2>2. m.state = "queued" => m.seq = 1
      BY <1>2, <1>3
  <2> QED BY <1>0, <1>1, <1>2, <1>3, <1>4, <2>1, <2>2 DEF RemoteTypeOK, EventsAreOrdered, Before, Event, NoEvent
<1>7. TaskAgrees' /\ TaskIsLatestEvent'
    BY <1>0, <1>1 DEF TaskAgrees, TaskIsLatestEvent, Before, Terminal
<1> QED BY <1>5, <1>6, <1>7 DEF RemoteInv

\* The event that is recorded is the latest, for what is overtaken is not.
LEMMA RecordStepInv ==
    ASSUME RemoteInv, NEW e \in mqtt, RecordEvent(e)
    PROVE  RemoteInv'
<1>0. RemoteTypeOK /\ EventsAreOrdered /\ TaskAgrees /\ TaskIsLatestEvent
    BY DEF RemoteInv
<1>1. /\ task' = [state |-> e.state, run |-> e.run, seq |-> e.seq]
      /\ DOMAIN events' = DOMAIN events \cup {e} /\ UNCHANGED <<outbox, mac, mqtt>>
      /\ ~ Overtaken(e) /\ ~ (task.state \in Terminal /\ e.run <= task.run)
    BY DEF RecordEvent
<1>2. e \in Event /\ e.run # 0 /\ e.seq # 0 /\ (e.state = "queued" => e.seq = 1)
    BY <1>0 DEF RemoteTypeOK, EventsAreOrdered
<1>3. Before(task, e)
    BY <1>0, <1>1, <1>2 DEF RemoteTypeOK, Overtaken, Before, Event
<1>4. \A f \in DOMAIN events : Before(f, e) /\ f \in Event /\ f \in mqtt
    BY <1>0, <1>2, <1>3 DEF RemoteTypeOK, TaskIsLatestEvent, Before, Event
<1>5. RemoteTypeOK' /\ EventsAreOrdered'
    BY <1>0, <1>1, <1>2 DEF RemoteTypeOK, EventsAreOrdered, Event, Before
<1>6. TaskAgrees'
    BY <1>0, <1>1, <1>2, <1>4 DEF TaskAgrees, EventsAreOrdered, Event, Before, Sent
<1>7. TaskIsLatestEvent'
  <2>1. \A f \in DOMAIN events : f.run = e.run => f.state \notin Terminal /\ f.seq < e.seq
      BY <1>0, <1>2, <1>4 DEF EventsAreOrdered, Event, Before
  <2>2. e.state # "expired"
      BY <1>2 DEF Event, Sent
  <2> QED BY <1>1, <1>2, <1>4, <2>1, <2>2 DEF TaskIsLatestEvent, Event, Before
<1> QED BY <1>5, <1>6, <1>7 DEF RemoteInv

LEMMA RemoteStepInv == RemoteInv /\ [RemoteWorkNext]_remoteWorkVars => RemoteInv'
<1> SUFFICES ASSUME RemoteInv, [RemoteWorkNext]_remoteWorkVars
             PROVE  RemoteInv'
    OBVIOUS
<1>0. RemoteTypeOK /\ EventsAreOrdered /\ TaskAgrees /\ TaskIsLatestEvent
    BY DEF RemoteInv
\* What touches neither the task nor the events.
<1>1. ASSUME UNCHANGED <<task, mac, mqtt>>, DOMAIN events' = DOMAIN events,
             outbox' \in [Commands -> {"none", "pending", "published", "failed"}],
             outbox'["start"] = "none" => outbox["start"] = "none"
      PROVE  RemoteInv'
  <2>1. RemoteTypeOK' /\ EventsAreOrdered'
      BY <1>0, <1>1 DEF RemoteTypeOK, EventsAreOrdered, Before
  <2>2. TaskAgrees' /\ TaskIsLatestEvent'
      BY <1>0, <1>1 DEF TaskAgrees, TaskIsLatestEvent, Before
  <2> QED BY <2>1, <2>2 DEF RemoteInv
<1>2. CASE UNCHANGED remoteWorkVars
    BY <1>0, <1>1, <1>2 DEF remoteWorkVars, RemoteTypeOK
<1>3. ASSUME NEW c \in Commands, Enqueue(c)
      PROVE  RemoteInv'
  <2>1. outbox[c] = "none" /\ outbox' = [outbox EXCEPT ![c] = "pending"] /\ UNCHANGED <<mac, mqtt, events>>
      BY <1>3 DEF Enqueue
  <2>2. CASE c # "start"
      BY <1>0, <1>1, <1>3, <2>1, <2>2 DEF Enqueue, RemoteTypeOK
  <2>3. CASE c = "start"
    <3>1. mqtt = {} /\ DOMAIN events = {}
        BY <1>0, <2>1, <2>3 DEF TaskAgrees, RemoteTypeOK
    <3>2. task' = [state |-> "waiting_mac", run |-> 0, seq |-> 0]
        BY <1>3, <2>3 DEF Enqueue, NoTask
    <3>3. RemoteTypeOK' /\ EventsAreOrdered'
        BY <1>0, <2>1, <3>1, <3>2 DEF RemoteTypeOK, EventsAreOrdered
    <3>4. TaskAgrees' /\ TaskIsLatestEvent'
        BY <1>0, <2>1, <3>1, <3>2 DEF TaskAgrees, TaskIsLatestEvent
    <3> QED BY <3>3, <3>4 DEF RemoteInv
  <2> QED BY <2>2, <2>3
<1>4. ASSUME NEW p \in Publishers, ListPending(p)
      PROVE  RemoteInv'
    BY <1>0, <1>1, <1>4 DEF ListPending, RemoteTypeOK
<1>5. ASSUME NEW p \in Publishers, NEW c \in Commands, Publish(p, c)
      PROVE  RemoteInv'
    BY <1>0, <1>1, <1>5 DEF Publish, RemoteTypeOK
<1>6. CASE TaskExpires
  <2>1. task' = [state |-> "expired", run |-> task.run, seq |-> task.seq]
        /\ task.state \in {"waiting_mac", "queued"} /\ UNCHANGED <<outbox, mac, mqtt, events>>
      BY <1>0, <1>6 DEF TaskExpires, RemoteTypeOK
  <2>2. RemoteTypeOK' /\ EventsAreOrdered'
      BY <1>0, <2>1 DEF RemoteTypeOK, EventsAreOrdered, Before
  <2>3. TaskAgrees' /\ TaskIsLatestEvent'
      BY <1>0, <2>1 DEF TaskAgrees, TaskIsLatestEvent, Before
  <2> QED BY <2>2, <2>3 DEF RemoteInv
<1>7. ASSUME NEW e \in mqtt, Answer(e)
      PROVE  RemoteInv'
    BY <1>0, <1>1, <1>7 DEF Answer, RemoteTypeOK
<1>8. ASSUME NEW how \in {"sent", "suppressed"}, MarkReply(how)
      PROVE  RemoteInv'
    BY <1>0, <1>1, <1>8 DEF MarkReply, RemoteTypeOK
<1> QED BY <1>2, <1>3, <1>4, <1>5, <1>6, <1>7, <1>8, MacStepInv, RecordStepInv DEF RemoteWorkNext, Sent

\* Events resent and reordered at will, the recorded task follows the latest
\* one, and a final state stands until another run
\* (record_remote_work_event, _expire_remote_work_tasks).
THEOREM TaskFollowsEvents == RemoteWorkSpec => []TaskIsLatestEvent
<1>1. RemoteInv => TaskIsLatestEvent
    BY DEF RemoteInv
<1> QED BY <1>1, RemoteInitInv, RemoteStepInv, PTL DEF RemoteWorkSpec

-----------------------------------------------------------------------------
(* Pictures and the messages that file them.  A request's pictures came with  *)
(* messages that are in the log; what a live request has is not available.    *)

RequestRow == [source : {"none", "intent_first", "image_first"},
               state : {"none", "pending", "bound", "completed", "failed", "cancelled", "expired"},
               bound : Nat, items : SUBSET (Nat \X Nat)]

LogTypeOK ==
    /\ log \in Seq(Contents) /\ Len(log) <= MaxMessages
    /\ ended \in Seq({"no", "completed", "failed"}) /\ Len(ended) = Len(log)

RowFits(m, row, contents) ==
    /\ row.state # "none" => m <= Len(contents)
    /\ row.state = "bound" => row.bound \in 1 .. Len(contents)
    /\ IsFiniteSet(row.items) /\ \A a \in row.items : a[1] <= Len(contents)
BoundIsWhole(row, content, message) ==
    row.state = "bound" =>
        /\ message = "no" /\ Cardinality(row.items) <= MaxItems
        /\ content.count # 0 => Cardinality(row.items) = content.count
NothingIsShared(row, other) ==
    row.state \in Live /\ other.state \in Live => row.items \cap other.items = {}

RowsHold(rws, contents, messages) ==
    /\ rws \in [Numbers -> RequestRow]
    /\ \A m \in Numbers : /\ RowFits(m, rws[m], contents)
                          /\ BoundIsWhole(rws[m], contents[m], messages[rws[m].bound])
    /\ \A m, n \in Numbers : m # n =>
          NothingIsShared(rws[m], rws[n]) /\ ~ (rws[m].state = "pending" /\ rws[n].state = "pending")

ArchiveInv == LogTypeOK /\ RowsHold(requests, log, ended)

LEMMA ArchiveInitInv == ArchiveInit => ArchiveInv
<1> SUFFICES ASSUME ArchiveInit PROVE ArchiveInv
    OBVIOUS
<1>1. LogTypeOK
    BY ArchiveAssumption DEF ArchiveInit, LogTypeOK
<1>2. requests \in [Numbers -> RequestRow]
      /\ \A m \in Numbers : requests[m].state = "none" /\ requests[m].items = {}
    BY DEF ArchiveInit, NoRequest, ArchiveRequest, RequestRow
<1>3. \A m \in Numbers : RowFits(m, requests[m], log)
    BY <1>2, FS_EmptySet DEF RowFits
<1> QED BY <1>1, <1>2, <1>3 DEF ArchiveInv, RowsHold, BoundIsWhole, NothingIsShared, Live

\* A message's pictures are finitely many, and so are those of several.
LEMMA PicturesAreFinite ==
    ASSUME NEW m, NEW n \in Nat
    PROVE  IsFiniteSet(Items(m, n)) /\ \A a \in Items(m, n) : a[1] = m
<1>1. IsFiniteSet({m}) /\ IsFiniteSet(1 .. n)
  <2>1. IsFiniteSet({m})
      BY FS_Singleton
  <2>2. IsFiniteSet(1 .. n)
      BY FS_Interval
  <2> QED BY <2>1, <2>2
<1>2. IsFiniteSet({m} \X (1 .. n))
    BY <1>1, FS_Product
<1> QED BY <1>2 DEF Items

LEMMA CollectedIsFinite ==
    ASSUME LogTypeOK, NEW from \in Nat \ {0}
    PROVE  /\ IsFiniteSet(Collected(from))
           /\ \A a \in Collected(from) : a[1] \in 1 .. Len(log) /\ a \in Nat \X Nat /\ ~ Reserved(a)
<1> DEFINE S == from .. Len(log)
           T == {Available(m) : m \in S}
           f == [m \in S |-> Available(m)]
<1>1. \A m \in S : m \in 1 .. Len(log) /\ log[m].images \in Nat
    BY ArchiveAssumption DEF LogTypeOK
<1>2. \A m \in S : /\ IsFiniteSet(Available(m))
                   /\ \A a \in Available(m) : a[1] = m /\ a \in Nat \X Nat /\ ~ Reserved(a)
  <2> SUFFICES ASSUME NEW m \in S
               PROVE  /\ IsFiniteSet(Available(m))
                      /\ \A a \in Available(m) : a[1] = m /\ a \in Nat \X Nat /\ ~ Reserved(a)
      OBVIOUS
  <2>1. Available(m) \in SUBSET Items(m, log[m].images) /\ \A a \in Available(m) : ~ Reserved(a)
      BY DEF Available
  <2>2. IsFiniteSet(Items(m, log[m].images)) /\ \A a \in Items(m, log[m].images) : a[1] = m
      BY <1>1, PicturesAreFinite
  <2>3. IsFiniteSet(Available(m))
      BY <2>1, <2>2, FS_Subset
  <2>4. \A a \in Items(m, log[m].images) : a \in Nat \X Nat
      BY <1>1 DEF Items
  <2> QED BY <2>1, <2>2, <2>3, <2>4
<1>3. f \in Surjection(S, T)
    BY DEF Surjection
<1>4. IsFiniteSet(T)
  <2>1. IsFiniteSet(S)
      BY FS_Interval DEF LogTypeOK
  <2> HIDE DEF S, T, f
  <2> QED BY <1>3, <2>1, FS_Surjection
<1>5. IsFiniteSet(UNION T)
  <2>1. \A t \in T : IsFiniteSet(t)
      BY <1>2
  <2> HIDE DEF T
  <2> QED BY <1>4, <2>1, FS_UNION
<1> QED BY <1>1, <1>2, <1>5 DEF Collected

\* Requests close, and have nothing then that another may not have.
LEMMA RowsClose ==
    ASSUME NEW contents, NEW messages, NEW rws, RowsHold(rws, contents, messages),
           NEW next \in [Numbers -> RequestRow],
           \A n \in Numbers :
               \/ next[n] = rws[n]
               \/ /\ next[n].items = rws[n].items /\ rws[n].state # "none"
                  /\ \/ next[n].state \in {"cancelled", "failed", "expired"}
                     \/ next[n].state = "completed" /\ rws[n].state = "bound"
    PROVE  RowsHold(next, contents, messages)
<1>1. \A n \in Numbers : RowFits(n, next[n], contents)
    BY DEF RowsHold, RowFits
<1>2. \A n \in Numbers : BoundIsWhole(next[n], contents[n], messages[next[n].bound])
    BY DEF RowsHold, BoundIsWhole
<1>3. \A m, n \in Numbers : m # n =>
          NothingIsShared(next[m], next[n]) /\ ~ (next[m].state = "pending" /\ next[n].state = "pending")
    BY DEF RowsHold, NothingIsShared, Live
<1> QED BY <1>1, <1>2, <1>3 DEF RowsHold

LEMMA RowCloses ==
    ASSUME NEW contents, NEW messages, RowsHold(requests, contents, messages),
           NEW p \in Awaiting, NEW state \in {"cancelled", "failed", "expired"}
    PROVE  RowsHold(Set(p, state), contents, messages)
<1>1. p \in Numbers /\ requests[p].state = "pending" /\ requests[p] \in RequestRow
    BY DEF Awaiting, RowsHold
<1>2. Set(p, state) \in [Numbers -> RequestRow]
      /\ \A n \in Numbers : Set(p, state)[n] = IF n = p THEN [requests[p] EXCEPT !.state = state] ELSE requests[n]
    BY <1>1 DEF Set, RowsHold, RequestRow
<1>3. [requests[p] EXCEPT !.state = state].items = requests[p].items
      /\ [requests[p] EXCEPT !.state = state].state = state
    BY <1>1 DEF RequestRow
<1> DEFINE next == Set(p, state)
<1>4. next \in [Numbers -> RequestRow]
      /\ \A n \in Numbers :
            \/ next[n] = requests[n]
            \/ /\ next[n].items = requests[n].items /\ requests[n].state # "none"
               /\ next[n].state \in {"cancelled", "failed", "expired"}
    BY <1>1, <1>2, <1>3
<1> HIDE DEF next
<1>5. RowsHold(next, contents, messages)
    BY <1>4, RowsClose
<1> QED BY <1>5 DEF next

\* A request takes pictures no live one has.
LEMMA RowTakes ==
    ASSUME NEW contents, NEW messages, NEW rws, RowsHold(rws, contents, messages),
           NEW m \in Numbers, NEW row \in RequestRow, RowFits(m, row, contents),
           BoundIsWhole(row, contents[m], messages[row.bound]),
           \A n \in Numbers \ {m} : NothingIsShared(row, rws[n]),
           row.state = "pending" => \A n \in Numbers \ {m} : rws[n].state # "pending"
    PROVE  RowsHold([rws EXCEPT ![m] = row], contents, messages)
<1> DEFINE next == [rws EXCEPT ![m] = row]
<1>1. next \in [Numbers -> RequestRow] /\ next[m] = row /\ \A n \in Numbers \ {m} : next[n] = rws[n]
    BY DEF RowsHold
<1> HIDE DEF next
<1>2. \A n \in Numbers : /\ RowFits(n, next[n], contents)
                         /\ BoundIsWhole(next[n], contents[n], messages[next[n].bound])
    BY <1>1 DEF RowsHold
<1>3. \A a, b \in Numbers : a # b =>
          NothingIsShared(next[a], next[b]) /\ ~ (next[a].state = "pending" /\ next[b].state = "pending")
    BY <1>1 DEF RowsHold, NothingIsShared
<1>4. RowsHold(next, contents, messages)
    BY <1>1, <1>2, <1>3 DEF RowsHold
<1> QED BY <1>4 DEF next

-----------------------------------------------------------------------------
\* A message joins the log, whatever it says.
LEMMA LogGrows ==
    ASSUME ArchiveInv, NEW c \in Contents, StoreMessage(c), NEW m, m = Len(log) + 1
    PROVE  /\ LogTypeOK' /\ RowsHold(requests, log', ended') /\ m \in Numbers
           /\ Len(log') = m /\ log'[m] = c /\ ended'[m] = "no"
           /\ \A k \in 1 .. Len(log) : log'[k] = log[k]
           /\ \A k \in Numbers : requests[k].state # "none" => k # m
<1>1. LogTypeOK /\ RowsHold(requests, log, ended)
    BY DEF ArchiveInv
<1>2. m <= MaxMessages /\ log' = Append(log, c) /\ ended' = Append(ended, "no")
    BY DEF StoreMessage
<1>3. /\ LogTypeOK' /\ m \in Numbers /\ Len(log') = m /\ log'[m] = c /\ ended'[m] = "no"
      /\ \A k \in 1 .. Len(log) : log'[k] = log[k] /\ ended'[k] = ended[k]
    BY <1>1, <1>2, ArchiveAssumption DEF LogTypeOK, Numbers
<1>4. Len(log) \in Nat /\ Len(log') = Len(log) + 1
    BY <1>1, <1>3 DEF LogTypeOK
<1>5. \A k \in Numbers : requests[k].state # "none" => k <= Len(log)
    BY <1>1 DEF RowsHold, RowFits
<1>6. \A k \in Numbers : RowFits(k, requests[k], log')
  <2>1. \A k \in Numbers : RowFits(k, requests[k], log) /\ k \in Nat
      BY <1>1 DEF RowsHold, Numbers
  <2>2. \A k \in Numbers : \A a \in requests[k].items : a[1] \in Nat
      BY <1>1 DEF RowsHold, RequestRow
  <2>3. \A i \in Nat : i <= Len(log) => i <= Len(log')
      BY <1>4
  <2>4. \A i \in 1 .. Len(log) : i \in 1 .. Len(log')
      BY <1>4
  <2> QED BY <2>1, <2>2, <2>3, <2>4 DEF RowFits
<1>7. \A k \in Numbers : BoundIsWhole(requests[k], log'[k], ended'[requests[k].bound])
  <2>1. \A k \in Numbers : requests[k].state = "bound" =>
            k \in 1 .. Len(log) /\ requests[k].bound \in 1 .. Len(log)
      BY <1>1, <1>5 DEF RowsHold, RowFits, Numbers
  <2> QED BY <1>1, <1>3, <2>1 DEF RowsHold, BoundIsWhole
<1> QED BY <1>1, <1>3, <1>4, <1>5, <1>6, <1>7 DEF RowsHold

\* A picture message meets the request that waits for it.
LEMMA JoinHolds ==
    ASSUME ArchiveInv, NEW c \in Contents, StoreMessage(c), NEW m, m = Len(log) + 1,
           NEW p \in Awaiting
    PROVE  RowsHold(JoinPending(p, m, c), log', ended')
<1>0. LogTypeOK /\ RowsHold(requests, log, ended)
    BY DEF ArchiveInv
<1>1. /\ RowsHold(requests, log', ended') /\ m \in Numbers /\ Len(log') = m /\ ended'[m] = "no"
      /\ \A k \in 1 .. Len(log) : log'[k] = log[k]
    BY LogGrows
<1>2. p \in Numbers /\ requests[p].state = "pending" /\ requests[p] \in RequestRow /\ p <= Len(log)
    BY <1>0 DEF Awaiting, RowsHold, RowFits
<1> DEFINE items == requests[p].items \cup Items(m, c.images)
           expected == log[p].count
<1>3. IsFiniteSet(items) /\ items \in SUBSET (Nat \X Nat) /\ \A a \in items : a[1] <= m
  <2>1. c.images \in Nat /\ m \in Nat
      BY <1>1, ArchiveAssumption DEF Numbers
  <2>2. /\ IsFiniteSet(Items(m, c.images)) /\ Items(m, c.images) \in SUBSET (Nat \X Nat)
        /\ \A a \in Items(m, c.images) : a[1] = m
    <3>1. Items(m, c.images) \in SUBSET (Nat \X Nat)
        BY <2>1 DEF Items
    <3> QED BY <2>1, <3>1, PicturesAreFinite
  <2>3. /\ IsFiniteSet(requests[p].items) /\ requests[p].items \in SUBSET (Nat \X Nat)
        /\ \A a \in requests[p].items : a[1] <= m
      BY <1>1, <1>2 DEF RowsHold, RowFits, RequestRow
  <2>4. IsFiniteSet(items)
      BY <2>2, <2>3, FS_Union
  <2> QED BY <2>1, <2>2, <2>3, <2>4
<1>4. \A n \in Numbers \ {p} : requests[n].state \in Live => items \cap requests[n].items = {}
  <2>1. \A n \in Numbers : \A a \in requests[n].items : a[1] # m
    <3>1. \A n \in Numbers : \A a \in requests[n].items : a[1] <= Len(log) /\ a[1] \in Nat
        BY <1>0 DEF RowsHold, RowFits, RequestRow
    <3> QED BY <1>0, <3>1 DEF LogTypeOK
  <2>2. \A a \in Items(m, c.images) : a[1] = m
      BY PicturesAreFinite, ArchiveAssumption
  <2>3. \A n \in Numbers \ {p} : requests[n].state \in Live => requests[p].items \cap requests[n].items = {}
      BY <1>0, <1>2 DEF RowsHold, NothingIsShared, Live
  <2> QED BY <2>1, <2>2, <2>3
<1>5. p \in Nat /\ expected \in Nat /\ log'[p] = log[p] /\ Cardinality(items) \in Nat /\ Len(log) \in Nat
  <2>1. p \in 1 .. Len(log) /\ Len(log) \in Nat
      BY <1>0, <1>2 DEF LogTypeOK, Numbers
  <2> QED BY <1>0, <1>1, <1>3, <2>1, ArchiveAssumption, FS_CardinalityType DEF LogTypeOK
\* It is refused, or closes the request.
<1>6. CASE c.says = "archive" \/ Cardinality(items) > MaxItems
           \/ (expected # 0 /\ Cardinality(items) > expected)
    BY <1>1, <1>6, RowCloses DEF JoinPending
<1>7. CASE ~ (c.says = "archive" \/ Cardinality(items) > MaxItems
              \/ (expected # 0 /\ Cardinality(items) > expected))
  <2> DEFINE waiting == [requests[p] EXCEPT !.items = items]
             filed == ArchiveRequest("intent_first", "bound", m, items)
  <2> HIDE DEF items
  <2>1. waiting \in RequestRow /\ waiting.state = "pending" /\ waiting.items = items
      BY <1>2, <1>3 DEF RequestRow
  <2>2. filed \in RequestRow /\ filed.state = "bound" /\ filed.bound = m /\ filed.items = items
      BY <1>1, <1>3 DEF ArchiveRequest, RequestRow, Numbers
  <2> HIDE DEF waiting, filed
  <2>3. CASE expected # 0 /\ Cardinality(items) < expected
    <3>1. JoinPending(p, m, c) = [requests EXCEPT ![p] = waiting]
        BY <1>7, <2>3 DEF JoinPending, items, waiting
    <3>2. RowFits(p, waiting, log')
        BY <1>1, <1>2, <1>3, <1>5, <2>1 DEF RowFits, Numbers
    <3>3. /\ BoundIsWhole(waiting, log'[p], ended'[waiting.bound])
          /\ \A n \in Numbers \ {p} : NothingIsShared(waiting, requests[n]) /\ requests[n].state # "pending"
        BY <1>0, <1>2, <1>4, <2>1 DEF BoundIsWhole, NothingIsShared, RowsHold
    <3> QED BY <1>1, <1>2, <2>1, <3>1, <3>2, <3>3, RowTakes
  <2>4. CASE ~ (expected # 0 /\ Cardinality(items) < expected)
    <3>1. JoinPending(p, m, c) = [requests EXCEPT ![p] = filed]
        BY <1>7, <2>4 DEF JoinPending, items, filed
    <3>2. RowFits(p, filed, log')
        BY <1>1, <1>2, <1>3, <1>5, <2>2 DEF RowFits, Numbers
    <3>3. BoundIsWhole(filed, log'[p], ended'[filed.bound])
        BY <1>1, <1>5, <1>7, <2>2, <2>4, ArchiveAssumption DEF BoundIsWhole
    <3>4. \A n \in Numbers \ {p} : NothingIsShared(filed, requests[n])
        BY <1>4, <2>2 DEF NothingIsShared
    <3> QED BY <1>1, <1>2, <2>2, <3>1, <3>2, <3>3, <3>4, RowTakes
  <2> QED BY <2>3, <2>4
<1> QED BY <1>6, <1>7

\* An announcement takes the place of the one before it.
LEMMA AnnounceHolds ==
    ASSUME ArchiveInv, NEW c \in Contents, StoreMessage(c), NEW m, m = Len(log) + 1
    PROVE  RowsHold(Announce(m), log', ended')
<1>0. /\ RowsHold(requests, log', ended') /\ m \in Numbers /\ Len(log') = m
      /\ \A k \in Numbers : requests[k].state # "none" => k # m
    BY LogGrows
<1> DEFINE shut == [n \in Numbers |-> IF n \in Awaiting THEN [requests[n] EXCEPT !.state = "cancelled"]
                                      ELSE requests[n]]
           row == ArchiveRequest("intent_first", "pending", 0, {})
<1>1. requests \in [Numbers -> RequestRow] /\ m \notin Awaiting
    BY <1>0 DEF RowsHold, Awaiting
<1>2. /\ shut \in [Numbers -> RequestRow]
      /\ \A n \in Numbers :
            \/ shut[n] = requests[n] /\ requests[n].state # "pending"
            \/ /\ shut[n].items = requests[n].items /\ requests[n].state # "none"
               /\ shut[n].state = "cancelled"
    <2>1. ASSUME NEW n \in Numbers, n \in Awaiting
          PROVE  /\ shut[n] \in RequestRow /\ shut[n].items = requests[n].items
                 /\ shut[n].state = "cancelled" /\ requests[n].state # "none"
        <3>1. shut[n] = [requests[n] EXCEPT !.state = "cancelled"] /\ requests[n].state = "pending"
            BY <2>1 DEF Awaiting
        <3>2. requests[n] \in RequestRow
            BY <1>1
        <3> QED BY <3>1, <3>2 DEF RequestRow
    <2>2. ASSUME NEW n \in Numbers, n \notin Awaiting
          PROVE  shut[n] = requests[n] /\ shut[n] \in RequestRow /\ requests[n].state # "pending"
        BY <1>1, <2>2 DEF Awaiting
    <2> QED BY <2>1, <2>2
<1>3. Announce(m) = [shut EXCEPT ![m] = row]
    BY <1>0, <1>1 DEF Announce
<1>4. row \in RequestRow /\ row.state = "pending" /\ row.items = {} /\ m \in Nat
    BY <1>0 DEF ArchiveRequest, RequestRow, Numbers
<1> HIDE DEF shut, row
<1>5. RowsHold(shut, log', ended')
    BY <1>0, <1>2, RowsClose
<1>6. RowFits(m, row, log')
    BY <1>0, <1>4, FS_EmptySet DEF RowFits
<1>7. /\ BoundIsWhole(row, log'[m], ended'[row.bound])
      /\ \A n \in Numbers \ {m} : NothingIsShared(row, shut[n]) /\ shut[n].state # "pending"
    BY <1>2, <1>4 DEF BoundIsWhole, NothingIsShared
<1>8. /\ m \in Numbers /\ row \in RequestRow
      /\ row.state = "pending" => \A n \in Numbers \ {m} : shut[n].state # "pending"
    BY <1>0, <1>4, <1>7
<1>9. RowsHold([shut EXCEPT ![m] = row], log', ended')
    BY <1>5, <1>6, <1>7, <1>8, RowTakes
<1> QED BY <1>3, <1>9

\* The smallest of some naturals.
LEMMA SmallestOf ==
    ASSUME NEW T, T \subseteq Nat, T # {}
    PROVE  \E x \in T : \A y \in T : x <= y
<1>1. IsWellFoundedOn(OpToRel(<, Nat), Nat)
    BY NatLessThanWellFounded
<1>2. PICK x \in T : \A y \in T : ~ (<<y, x>> \in OpToRel(<, Nat))
    BY <1>1, WFMin
<1>3. \A y \in T : ~ (y < x)
    BY <1>2 DEF OpToRel
<1>4. x \in Nat /\ \A y \in T : y \in Nat
    OBVIOUS
<1> QED BY <1>3, <1>4

\* The last of the messages a walk stops at.
LEMMA LastOfSome ==
    ASSUME NEW n \in Nat, NEW S \in SUBSET (1 .. n), S # {}
    PROVE  \E k \in S : \A j \in S : j <= k
<1> DEFINE Above == {i \in Nat : \A j \in S : j <= i}
<1>1. n \in Above
    OBVIOUS
<1>2. PICK least \in Above : \A i \in Above : least <= i
    BY <1>1, SmallestOf
<1>3. least \in S
  <2> SUFFICES ASSUME least \notin S PROVE FALSE
      OBVIOUS
  <2>1. PICK j \in S : TRUE
      OBVIOUS
  <2>2. \A i \in S : i < least /\ i \in Nat /\ i >= 1
      BY <1>2
  <2>3. least - 1 \in Above
      BY <1>2, <2>1, <2>2
  <2> QED BY <1>2, <2>3
<1> QED BY <1>2, <1>3

\* The pictures found for a text that comes after them are nobody's.
LEMMA FileHolds ==
    ASSUME ArchiveInv, NEW c \in Contents, StoreMessage(c), NEW m, m = Len(log) + 1
    PROVE  RowsHold(FileRecent(m, c), log', ended')
<1>0. /\ LogTypeOK /\ RowsHold(requests, log', ended') /\ m \in Numbers /\ Len(log') = m
      /\ log'[m] = c /\ ended'[m] = "no" /\ Len(log) \in Nat
    BY LogGrows DEF ArchiveInv, LogTypeOK
<1>1. PICK batch : batch = RecentBatch(c.count)
    OBVIOUS
<1>2. PICK from \in Nat \ {0} : batch = Collected(from)
  <2> DEFINE stops == {k \in DOMAIN log : Stops(k) \/ (k < Len(log) /\ Enough(k + 1, c.count))}
             last == CHOOSE k \in stops : \A n \in stops : n <= k
  <2>1. CASE stops = {}
      BY <1>1, <2>1 DEF RecentBatch
  <2>2. CASE stops # {}
    <3>1. last \in stops
      <4>1. stops \in SUBSET (1 .. Len(log))
          BY <1>0 DEF LogTypeOK
      <4> HIDE DEF stops
      <4>2. \E k \in stops : \A n \in stops : n <= k
          BY <1>0, <2>2, <4>1, LastOfSome
      <4> QED BY <4>2
    <3>2. last \in Nat
        BY <1>0, <3>1 DEF LogTypeOK
    <3>3. batch = Collected(1 + last)
        BY <1>1, <2>2 DEF RecentBatch
    <3> HIDE DEF last
    <3>4. 1 + last \in Nat \ {0}
        BY <3>2
    <3> QED BY <3>3, <3>4
  <2> QED BY <2>1, <2>2
<1>3. /\ IsFiniteSet(batch) /\ batch \in SUBSET (Nat \X Nat)
      /\ \A a \in batch : a[1] \in 1 .. Len(log) /\ ~ Reserved(a)
    BY <1>0, <1>2, CollectedIsFinite
<1>4. CASE batch = {} \/ (c.count # 0 /\ Cardinality(batch) # c.count) \/ Cardinality(batch) > MaxItems
    BY <1>0, <1>1, <1>4 DEF FileRecent
<1>5. CASE ~ (batch = {} \/ (c.count # 0 /\ Cardinality(batch) # c.count) \/ Cardinality(batch) > MaxItems)
  <2> DEFINE row == ArchiveRequest("image_first", "bound", m, batch)
  <2>1. FileRecent(m, c) = [requests EXCEPT ![m] = row]
      BY <1>1, <1>5 DEF FileRecent
  <2>2. row \in RequestRow /\ row.state = "bound" /\ row.bound = m /\ row.items = batch
      BY <1>0, <1>3 DEF ArchiveRequest, RequestRow, Numbers
  <2> HIDE DEF row
  <2>3. RowFits(m, row, log')
      BY <1>0, <1>3, <2>2 DEF RowFits, Numbers
  <2>4. BoundIsWhole(row, log'[m], ended'[row.bound])
    <3>1. Cardinality(batch) \in Nat
        BY <1>3, FS_CardinalityType
    <3> QED BY <1>0, <1>5, <2>2, <3>1, ArchiveAssumption DEF BoundIsWhole
  <2>5. \A n \in Numbers \ {m} : NothingIsShared(row, requests[n])
      BY <1>3, <2>2 DEF NothingIsShared, Reserved
  <2> QED BY <1>0, <2>1, <2>2, <2>3, <2>4, <2>5, RowTakes
<1> QED BY <1>4, <1>5

\* A message and everything it does to the requests (store_message).
LEMMA StoreHolds ==
    ASSUME ArchiveInv, NEW c \in Contents, StoreMessage(c)
    PROVE  ArchiveInv'
<1>1. PICK m : m = Len(log) + 1
    OBVIOUS
<1>2. LogTypeOK' /\ RowsHold(requests, log', ended') /\ m \in Numbers
    BY <1>1, LogGrows
<1>3. requests' = Correlated(m, c)
    BY <1>1 DEF StoreMessage
<1>4. RowsHold(Correlated(m, c), log', ended')
  <2> DEFINE p == CHOOSE q \in Awaiting : TRUE
  <2>0. Awaiting # {} => p \in Awaiting
      OBVIOUS
  <2>1. CASE c.says = "cancel"
    <3>1. Correlated(m, c) = IF Awaiting = {} THEN requests ELSE Set(p, "cancelled")
        BY <2>1 DEF Correlated
    <3> HIDE DEF p
    <3> QED BY <1>2, <2>0, <3>1, RowCloses
  <2>2. CASE c.says # "cancel" /\ c.images > 0 /\ Awaiting # {}
    <3>1. Correlated(m, c) = JoinPending(p, m, c)
        BY <2>2, ArchiveAssumption DEF Correlated
    <3> HIDE DEF p
    <3> QED BY <1>1, <2>0, <2>2, <3>1, JoinHolds
  <2>3. CASE c.says # "cancel" /\ ~ (c.images > 0 /\ Awaiting # {})
    <3>1. Correlated(m, c) \in {Announce(m), FileRecent(m, c), requests}
        BY <2>3 DEF Correlated
    <3> QED BY <1>1, <1>2, <3>1, AnnounceHolds, FileHolds
  <2> QED BY <2>1, <2>2, <2>3
<1> QED BY <1>2, <1>3, <1>4 DEF ArchiveInv

\* The end of a message is the end of the request bound to it.
LEMMA FinishHolds ==
    ASSUME ArchiveInv, NEW m \in Numbers, NEW success \in BOOLEAN, FinishMessage(m, success)
    PROVE  ArchiveInv'
<1>0. LogTypeOK /\ RowsHold(requests, log, ended) /\ requests \in [Numbers -> RequestRow]
    BY DEF ArchiveInv, RowsHold
<1> DEFINE how == IF success THEN "completed" ELSE "failed"
           next == [r \in Numbers |-> IF requests[r].state = "bound" /\ requests[r].bound = m
                                      THEN [requests[r] EXCEPT !.state = how] ELSE requests[r]]
<1>1. /\ m \in DOMAIN log /\ UNCHANGED log /\ requests' = next
      /\ ended' = [ended EXCEPT ![m] = how] /\ how \in {"completed", "failed"}
    BY DEF FinishMessage
<1> HIDE DEF how
<1>2. /\ next \in [Numbers -> RequestRow]
      /\ \A r \in Numbers : \/ next[r] = requests[r] /\ ~ (requests[r].state = "bound" /\ requests[r].bound = m)
                            \/ /\ next[r].items = requests[r].items /\ requests[r].state = "bound"
                               /\ next[r].state = how
    BY <1>0, <1>1 DEF RequestRow
<1> HIDE DEF next
<1>3. RowsHold(next, log, ended)
    BY <1>0, <1>1, <1>2, RowsClose
<1>4. LogTypeOK' /\ \A k \in DOMAIN log : k # m => ended'[k] = ended[k]
    BY <1>0, <1>1 DEF LogTypeOK
<1>5. \A r \in Numbers : BoundIsWhole(next[r], log[r], ended'[next[r].bound])
  <2>1. \A r \in Numbers : next[r].state = "bound" => next[r].bound # m /\ next[r].bound \in 1 .. Len(log)
      BY <1>1, <1>2, <1>3 DEF RowsHold, RowFits
  <2>2. \A r \in Numbers : next[r].state = "bound" => ended'[next[r].bound] = ended[next[r].bound]
      BY <1>0, <1>4, <2>1 DEF LogTypeOK
  <2> QED BY <1>3, <2>2 DEF RowsHold, BoundIsWhole
<1>6. RowsHold(requests', log', ended')
    BY <1>1, <1>3, <1>5 DEF RowsHold
<1> QED BY <1>4, <1>6 DEF ArchiveInv

LEMMA ArchiveStepInv == ArchiveInv /\ [ArchiveNext]_archiveVars => ArchiveInv'
<1> SUFFICES ASSUME ArchiveInv, [ArchiveNext]_archiveVars
             PROVE  ArchiveInv'
    OBVIOUS
<1>1. ASSUME NEW m \in Numbers, IntentExpires(m)
      PROVE  ArchiveInv'
  <2>1. m \in Awaiting /\ requests' = Set(m, "expired") /\ UNCHANGED <<log, ended>>
      BY <1>1 DEF IntentExpires
  <2> QED BY <2>1, RowCloses DEF ArchiveInv, LogTypeOK
<1>2. ASSUME UNCHANGED <<log, requests, ended>> PROVE ArchiveInv'
    BY <1>2 DEF ArchiveInv, LogTypeOK
<1>3. ASSUME NEW a \in Numbers \X (1 .. MaxItems + 1), Consume(a) \/ CleanupSpool(a)
      PROVE  ArchiveInv'
    BY <1>2, <1>3 DEF Consume, CleanupSpool
<1>4. CASE UNCHANGED archiveVars
    BY <1>2, <1>4 DEF archiveVars
<1> QED BY <1>1, <1>3, <1>4, StoreHolds, FinishHolds DEF ArchiveNext

\* However many messages ask for them, fail, are cancelled or come in which
\* order, no pictures are authorized twice, and a request is bound with as
\* many as its text named, to a message that has not ended
\* (_correlate_media_archive, mark_finished).
THEOREM PicturesAreReservedOnce == ArchiveSpec => []ReservedOnce
<1>1. ArchiveInv => ReservedOnce
  <2> SUFFICES ASSUME ArchiveInv PROVE ReservedOnce
      OBVIOUS
  <2>1. RowsHold(requests, log, ended)
      BY DEF ArchiveInv
  <2>2. Cardinality(Awaiting) <= 1
    <3>1. CASE Awaiting = {}
        BY <3>1, FS_EmptySet
    <3>2. CASE Awaiting # {}
      <4>1. PICK m \in Awaiting : TRUE
          BY <3>2
      <4>2. Awaiting = {m}
          BY <2>1, <4>1 DEF RowsHold, Awaiting
      <4>3. Cardinality({m}) = 1
          BY FS_Singleton
      <4> QED BY <4>2, <4>3
    <3> QED BY <3>1, <3>2
  <2> QED BY <2>1, <2>2 DEF RowsHold, NothingIsShared, BoundIsWhole, ReservedOnce
<1> QED BY <1>1, ArchiveInitInv, ArchiveStepInv, PTL DEF ArchiveSpec

-----------------------------------------------------------------------------
(* The delivery loop.                                                        *)

JobDoc == [state : {"none", "running", "recovery_required", "completed", "failed"},
           profile : {"none", "owner", "member"}, file : BOOLEAN]

DeliveryTypeOK ==
    /\ standing \in [Users -> {"owner", "member", "suspended", "removed"}]
    /\ inbox \in [Mail -> [state : {"none", "pending", "submitted", "completed", "failed"},
                           from : Users, profile : {"none", "owner", "member"}]]
    /\ jobs \in [Mail -> JobDoc]
    /\ parts \in [Mail -> [Part -> {"pending", "sent", "failed", "unknown"}]]
    /\ wire \in [Mail -> [Part -> Nat]] /\ lost \in [Mail -> [Part -> Nat]]
    /\ loop \in [at : {"rest", "pending", "submit", "mark", "submitted", "ready", "send"},
                 m : Nat, todo : SUBSET Mail, left : Seq(Part), job : JobDoc]

\* What the loop has in hand has arrived, and its person may be answered.
LoopAgrees ==
    /\ \A m \in loop.todo : inbox[m].state # "none"
    /\ loop.at \in {"submit", "mark", "ready", "send"} => loop.m \in Mail /\ inbox[loop.m].state # "none"
    /\ loop.at \in {"submit", "send"} => standing[inbox[loop.m].from] \in Active

ProfilesAgree ==
    \A m \in Mail : /\ inbox[m].state # "none" => inbox[m].profile # "none"
                    /\ jobs[m].state = "none" => jobs[m].profile = "none"

\* A part is booked when its answer comes, and sent again only before that; a
\* link is sent for a file that failed, or may have failed, for good.
PartsAgree ==
    \A m \in Mail :
       /\ \A k \in Part : /\ wire[m][k] <= lost[m][k] + (IF parts[m][k] = "sent" THEN 1 ELSE 0)
                          /\ parts[m][k] = "sent" => wire[m][k] > 0
       /\ wire[m]["link"] > 0 => parts[m]["file"] \in {"failed", "unknown"}

\* Of an answer, every part is booked or still to be sent; what was read as
\* completed is as it was read.
Answering == loop.at \in {"ready", "send"}
Explained == {"none", "failed", "recovery_required"}
AnswerIsWhole ==
    /\ Answering /\ "link" \in ToSet(loop.left) => parts[loop.m]["file"] \in {"failed", "unknown"}
    /\ Answering =>
         \/ loop.job.state \in Explained
         \/ /\ loop.job.state = "completed" /\ jobs[loop.m] = loop.job
            /\ \A k \in ToSet(Texts) : parts[loop.m][k] = "sent" \/ k \in ToSet(loop.left)
            /\ loop.job.file => \E k \in {"file", "link"} :
                                       parts[loop.m][k] = "sent" \/ k \in ToSet(loop.left)
CompletedIsAnswered ==
    \A m \in In("completed") :
       /\ jobs[m].state = "completed"
       /\ \A k \in ToSet(Texts) : parts[m][k] = "sent"
       /\ jobs[m].file => \E k \in {"file", "link"} : parts[m][k] = "sent"

DeliveryInv == /\ DeliveryTypeOK /\ LoopAgrees /\ ProfilesAgree /\ PartsAgree
               /\ AnswerIsWhole /\ CompletedIsAnswered

LEMMA DeliveryInitInv == DeliveryInit => DeliveryInv
<1> SUFFICES ASSUME DeliveryInit PROVE DeliveryInv
  OBVIOUS
<1>1. loop = AtRest /\ << >> \in Seq(Part) /\ NoJob \in JobDoc
  BY EmptySeq DEF DeliveryInit, NoJob, JobDoc
<1>2. DeliveryTypeOK
  BY <1>1, DeliveryAssumption DEF DeliveryInit, DeliveryTypeOK, NoMail, AtRest
<1>3. LoopAgrees /\ AnswerIsWhole
  BY <1>1 DEF LoopAgrees, AnswerIsWhole, Answering, AtRest
<1>4. ProfilesAgree /\ CompletedIsAnswered
  BY DEF DeliveryInit, ProfilesAgree, CompletedIsAnswered, In, NoMail, NoJob
<1>5. PartsAgree
  <2>1. "link" \in Part
    BY DEF Part
  <2> QED BY <2>1 DEF DeliveryInit, PartsAgree
<1> QED BY <1>2, <1>3, <1>4, <1>5 DEF DeliveryInv

\* Sequences of parts.
LEMMA PartsLeft ==
    ASSUME NEW s \in Seq(Part), s # << >>
    PROVE  /\ Head(s) \in Part /\ Tail(s) \in Seq(Part) /\ Head(s) \in ToSet(s)
           /\ ToSet(s) = {Head(s)} \cup ToSet(Tail(s))
<1>1. /\ Head(s) \in Part /\ Tail(s) \in Seq(Part) /\ Len(Tail(s)) = Len(s) - 1 /\ Len(s) \in Nat
      /\ \A i \in 1 .. (Len(s) - 1) : Tail(s)[i] = s[i + 1]
      /\ Head(s) = s[1] /\ 1 \in DOMAIN s /\ DOMAIN s = 1 .. Len(s)
  BY HeadTailProperties, EmptySeq, LenProperties
<1>2. DOMAIN Tail(s) = 1 .. (Len(s) - 1)
  BY <1>1, LenProperties
<1>3. ToSet(Tail(s)) \subseteq ToSet(s)
  <2> SUFFICES ASSUME NEW i \in DOMAIN Tail(s) PROVE Tail(s)[i] \in ToSet(s)
    BY DEF ToSet
  <2>1. i + 1 \in DOMAIN s /\ Tail(s)[i] = s[i + 1]
    BY <1>1, <1>2
  <2> QED BY <2>1 DEF ToSet
<1>4. ToSet(s) \subseteq {Head(s)} \cup ToSet(Tail(s))
  <2> SUFFICES ASSUME NEW i \in DOMAIN s, i # 1 PROVE s[i] \in ToSet(Tail(s))
    BY <1>1 DEF ToSet
  <2>1. i - 1 \in DOMAIN Tail(s) /\ (i - 1) + 1 = i
    BY <1>1, <1>2
  <2>2. Tail(s)[i - 1] = s[i]
    BY <1>1, <1>2, <2>1
  <2> QED BY <2>1, <2>2 DEF ToSet
<1>5. Head(s) \in ToSet(s)
  BY <1>1 DEF ToSet
<1>6. ToSet(s) = {Head(s)} \cup ToSet(Tail(s))
  BY <1>3, <1>4, <1>5
<1> QED BY <1>1, <1>5, <1>6

LEMMA LinkPut ==
    ASSUME NEW t \in Seq(Part)
    PROVE  (<<"link">> \o t) \in Seq(Part) /\ ToSet(<<"link">> \o t) = {"link"} \cup ToSet(t)
<1>1. <<"link">> \in Seq(Part) /\ Len(<<"link">>) = 1 /\ <<"link">>[1] = "link"
  BY DEF Part
<1> DEFINE c == <<"link">> \o t
<1>2. /\ c \in Seq(Part) /\ Len(c) = Len(t) + 1 /\ Len(t) \in Nat
      /\ \A i \in 1 .. (Len(t) + 1) : c[i] = IF i <= 1 THEN <<"link">>[i] ELSE t[i - 1]
  BY <1>1, ConcatProperties, LenProperties
<1>3. DOMAIN c = 1 .. (Len(t) + 1) /\ DOMAIN t = 1 .. Len(t)
  BY <1>2, LenProperties
<1>4. c[1] = "link" /\ 1 \in DOMAIN c
  BY <1>1, <1>2, <1>3
<1>5. ASSUME NEW i \in DOMAIN t PROVE i + 1 \in DOMAIN c /\ c[i + 1] = t[i]
  <2>1. i + 1 \in 1 .. (Len(t) + 1) /\ ~ (i + 1 <= 1) /\ (i + 1) - 1 = i
    BY <1>2, <1>3
  <2> QED BY <1>2, <1>3, <2>1
<1>6. ASSUME NEW i \in DOMAIN c, i # 1 PROVE i - 1 \in DOMAIN t /\ c[i] = t[i - 1]
  BY <1>2, <1>3, <1>6
<1> HIDE DEF c
<1>7. ToSet(c) = {"link"} \cup ToSet(t)
  <2>1. ToSet(c) \subseteq {"link"} \cup ToSet(t)
    BY <1>4, <1>6 DEF ToSet
  <2>2. {"link"} \cup ToSet(t) \subseteq ToSet(c)
    BY <1>4, <1>5 DEF ToSet
  <2> QED BY <2>1, <2>2
<1> USE DEF c
<1> QED BY <1>2, <1>7

LEMMA WholeAnswer ==
    /\ Texts \in Seq(Part) /\ Append(Texts, "file") \in Seq(Part) /\ <<"notice">> \in Seq(Part)
    /\ ToSet(Append(Texts, "file")) = ToSet(Texts) \cup {"file"}
    /\ ToSet(<<"notice">>) = {"notice"} /\ ToSet(<< >>) = {} /\ << >> \in Seq(Part)
    /\ "link" \notin ToSet(Texts) /\ "file" \notin ToSet(Texts)
    /\ ToSet(Texts) \subseteq Part /\ "file" \in Part /\ "link" \in Part /\ "notice" \in Part
<1>1. Texts \in Seq(ToSet(Texts)) /\ ToSet(Texts) \subseteq Part
  BY DeliveryAssumption DEF Part
<1>2. DOMAIN Texts = 1 .. Len(Texts) /\ Len(Texts) \in Nat /\ \A i \in 1 .. Len(Texts) : Texts[i] \in Part
  BY <1>1, LenProperties, ElementOfSeq
<1>3. Texts \in Seq(Part)
  BY <1>1, SeqDef
<1>4. "file" \in Part /\ "link" \in Part /\ "notice" \in Part
  BY DEF Part
<1>5. /\ Append(Texts, "file") \in Seq(Part) /\ Len(Append(Texts, "file")) = Len(Texts) + 1
      /\ \A i \in 1 .. Len(Texts) : Append(Texts, "file")[i] = Texts[i]
      /\ Append(Texts, "file")[Len(Texts) + 1] = "file"
  BY <1>3, <1>4, AppendProperties
<1>6. DOMAIN Append(Texts, "file") = 1 .. (Len(Texts) + 1)
  BY <1>5, LenProperties
<1>7. ToSet(Append(Texts, "file")) = ToSet(Texts) \cup {"file"}
  <2>1. \A i \in 1 .. (Len(Texts) + 1) : i \in 1 .. Len(Texts) \/ i = Len(Texts) + 1
    BY <1>2
  <2>2. \A i \in 1 .. Len(Texts) : i \in 1 .. (Len(Texts) + 1)
    BY <1>2
  <2>3. Len(Texts) + 1 \in 1 .. (Len(Texts) + 1)
    BY <1>2
  <2> QED BY <1>2, <1>5, <1>6, <2>1, <2>2, <2>3 DEF ToSet
<1>8. <<"notice">> \in Seq(Part) /\ ToSet(<<"notice">>) = {"notice"}
  <2>1. <<"notice">> \in Seq(Part) /\ DOMAIN <<"notice">> = 1 .. 1 /\ <<"notice">>[1] = "notice"
    BY <1>4
  <2> QED BY <2>1 DEF ToSet
<1>9. ToSet(<< >>) = {} /\ << >> \in Seq(Part)
  <2>1. << >> \in Seq(Part) /\ DOMAIN << >> = {}
    BY EmptySeq
  <2> QED BY <2>1 DEF ToSet
<1> QED BY <1>1, <1>3, <1>4, <1>5, <1>7, <1>8, <1>9, DeliveryAssumption

-----------------------------------------------------------------------------
(* Steps of the loop, and around it.                                         *)

Places == {"rest", "pending", "submit", "mark", "submitted", "ready", "send"}
LoopPlace == [at : Places, m : Nat, todo : SUBSET Mail, left : Seq(Part), job : JobDoc]

LEMMA LoopForms ==
    ASSUME DeliveryInv
    PROVE  /\ loop \in LoopPlace /\ AtRest \in LoopPlace /\ Turn \in LoopPlace /\ Submitted \in LoopPlace
           /\ AtRest.at = "rest" /\ AtRest.todo = {} /\ Turn.at = "submitted" /\ Submitted.at = "submitted"
           /\ Turn.todo \subseteq loop.todo /\ Submitted.todo = In("submitted")
           /\ loop.at \in {"submit", "mark", "ready", "send"} => loop.m \in Mail
<1>1. loop \in LoopPlace /\ << >> \in Seq(Part) /\ NoJob \in JobDoc
  BY WholeAnswer DEF DeliveryInv, DeliveryTypeOK, LoopPlace, Places, NoJob, JobDoc
<1>2. Turn = [at |-> "submitted", m |-> loop.m, todo |-> loop.todo \ {loop.m}, left |-> << >>, job |-> NoJob]
  BY DEF Turn
<1>3. Submitted = [at |-> "submitted", m |-> 0, todo |-> In("submitted"), left |-> << >>, job |-> NoJob]
  BY DEF Submitted
<1>4. In("submitted") \subseteq Mail
  BY DEF In
<1> QED BY <1>1, <1>2, <1>3, <1>4 DEF LoopPlace, Places, AtRest, DeliveryInv, LoopAgrees

LEMMA EndsFacts ==
    ASSUME DeliveryTypeOK, NEW m \in Mail, NEW how \in {"none", "pending", "submitted", "completed", "failed"}, Ends(m, how)
    PROVE  /\ inbox' \in [Mail -> [state : {"none", "pending", "submitted", "completed", "failed"},
                                   from : Users, profile : {"none", "owner", "member"}]]
           /\ \A n \in Mail : /\ inbox'[n].state = (IF n = m THEN how ELSE inbox[n].state)
                              /\ inbox'[n].from = inbox[n].from /\ inbox'[n].profile = inbox[n].profile
<1>1. inbox' = [inbox EXCEPT ![m] = [state |-> how, from |-> inbox[m].from, profile |-> inbox[m].profile]]
  <2>0. inbox[m] \in [state : {"none", "pending", "submitted", "completed", "failed"},
                      from : Users, profile : {"none", "owner", "member"}]
    BY DEF DeliveryTypeOK
  <2>1. [inbox[m] EXCEPT !.state = how] = [state |-> how, from |-> inbox[m].from, profile |-> inbox[m].profile]
    BY <2>0
  <2> QED BY <2>1 DEF Ends, DeliveryTypeOK
<1>2. [state |-> how, from |-> inbox[m].from, profile |-> inbox[m].profile] \in
          [state : {"none", "pending", "submitted", "completed", "failed"},
           from : Users, profile : {"none", "owner", "member"}]
  BY DEF DeliveryTypeOK
<1> QED BY <1>1, <1>2 DEF DeliveryTypeOK

\* The loop is where it was or gave up, and nothing but the directory changed.
LEMMA Around ==
    ASSUME DeliveryInv, UNCHANGED <<inbox, jobs, parts, wire, lost>>, loop' = loop \/ loop' = AtRest,
           standing' \in [Users -> {"owner", "member", "suspended", "removed"}],
           loop'.at \in {"submit", "send"} => standing' = standing
    PROVE  DeliveryInv'
<1>1. DeliveryTypeOK'
  BY LoopForms DEF DeliveryInv, DeliveryTypeOK, LoopPlace, Places
<1>2. LoopAgrees' /\ AnswerIsWhole'
  <2>1. CASE loop' = loop
    BY <2>1 DEF DeliveryInv, LoopAgrees, AnswerIsWhole, Answering
  <2>2. CASE loop' = AtRest
    BY <2>2 DEF LoopAgrees, AnswerIsWhole, Answering, AtRest
  <2> QED BY <2>1, <2>2
<1>3. ProfilesAgree' /\ PartsAgree' /\ CompletedIsAnswered'
  BY DEF DeliveryInv, ProfilesAgree, PartsAgree, CompletedIsAnswered, In
<1> QED BY <1>1, <1>2, <1>3 DEF DeliveryInv

\* The loop goes on without an answer in hand.
LEMMA Onwards ==
    ASSUME DeliveryInv, UNCHANGED <<standing, jobs, parts, wire, lost>>,
           loop' \in LoopPlace, LoopAgrees', loop'.at \notin {"ready", "send"},
           inbox' = inbox \/ \E m \in Mail, how \in {"submitted", "failed"} : inbox[m].state # "none" /\ Ends(m, how)
    PROVE  DeliveryInv'
<1>1. /\ inbox' \in [Mail -> [state : {"none", "pending", "submitted", "completed", "failed"},
                              from : Users, profile : {"none", "owner", "member"}]]
      /\ \A n \in Mail : /\ inbox'[n].profile = inbox[n].profile
                         /\ inbox'[n].state = "completed" => inbox[n].state = "completed"
                         /\ inbox'[n].state # "none" => inbox[n].state # "none"
  <2>1. CASE inbox' = inbox
    BY <2>1 DEF DeliveryInv, DeliveryTypeOK
  <2>2. CASE \E m \in Mail, how \in {"submitted", "failed"} : inbox[m].state # "none" /\ Ends(m, how)
    BY <2>2, EndsFacts DEF DeliveryInv
  <2> QED BY <2>1, <2>2
<1>2. DeliveryTypeOK'
  BY <1>1 DEF DeliveryInv, DeliveryTypeOK, LoopPlace, Places
<1>3. ProfilesAgree'
  BY <1>1 DEF DeliveryInv, ProfilesAgree
<1>4. PartsAgree' /\ CompletedIsAnswered'
  BY <1>1 DEF DeliveryInv, PartsAgree, CompletedIsAnswered, In
<1> QED BY <1>2, <1>3, <1>4 DEF DeliveryInv, AnswerIsWhole, Answering

LEMMA LoopMoves ==
    ASSUME DeliveryInv,
           BeginPass \/ EndPhase \/ PollFails \/ SubmitRefused \/ MarkSubmitted \/ Authorize
    PROVE  DeliveryInv'
<1>1. /\ DeliveryTypeOK /\ LoopAgrees /\ loop \in LoopPlace /\ AtRest \in LoopPlace /\ Submitted \in LoopPlace
      /\ AtRest.at = "rest" /\ AtRest.todo = {} /\ Submitted.at = "submitted" /\ Submitted.todo = In("submitted")
      /\ loop.at \in {"submit", "mark", "ready", "send"} => loop.m \in Mail
  BY LoopForms DEF DeliveryInv
<1>2. CASE BeginPass
  <2>1. loop' = [at |-> "pending", m |-> 0, todo |-> In("pending"), left |-> << >>, job |-> NoJob]
        /\ UNCHANGED <<standing, inbox, jobs, parts, wire, lost>>
    BY <1>2 DEF BeginPass, AtRest, outsideVars
  <2>2. loop' \in LoopPlace
    BY <2>1, WholeAnswer DEF LoopPlace, Places, In, NoJob, JobDoc
  <2>3. LoopAgrees' /\ loop'.at \notin {"ready", "send"}
    BY <2>1 DEF LoopAgrees, In
  <2> QED BY <2>1, <2>2, <2>3, Onwards
<1>3. CASE EndPhase \/ PollFails
  <2>1. (loop' = Submitted \/ loop' = AtRest) /\ UNCHANGED <<standing, inbox, jobs, parts, wire, lost>>
    BY <1>3 DEF EndPhase, PollFails, outsideVars
  <2>2. loop' \in LoopPlace /\ LoopAgrees' /\ loop'.at \notin {"ready", "send"}
    BY <1>1, <2>1 DEF LoopAgrees, In
  <2> QED BY <2>1, <2>2, Onwards
<1>4. CASE SubmitRefused
  <2>1. loop' = Submitted /\ UNCHANGED <<standing, inbox, jobs, parts, wire, lost>>
    BY <1>4 DEF SubmitRefused, outsideVars
  <2>2. loop' \in LoopPlace /\ LoopAgrees' /\ loop'.at \notin {"ready", "send"}
    BY <1>1, <2>1 DEF LoopAgrees, In
  <2> QED BY <2>1, <2>2, Onwards
<1>5. CASE MarkSubmitted
  <2>1. /\ loop.at = "mark" /\ loop' = [loop EXCEPT !.at = "pending"]
        /\ inbox' = inbox \/ Ends(loop.m, "submitted")
        /\ UNCHANGED <<standing, jobs, parts, wire, lost>>
    BY <1>5 DEF MarkSubmitted, outsideVars
  <2>2. loop' \in LoopPlace /\ loop'.at = "pending" /\ loop'.todo = loop.todo
    BY <1>1, <2>1 DEF LoopPlace, Places
  <2>3. loop.m \in Mail /\ inbox[loop.m].state # "none"
    BY <1>1, <2>1 DEF LoopAgrees
  <2>4. PICK m \in Mail : m = loop.m
    BY <2>3
  <2>5. inbox' = inbox \/ Ends(m, "submitted")
    BY <2>1, <2>4 DEF Ends
  <2>6. \A n \in Mail : inbox[n].state # "none" => inbox'[n].state # "none"
    BY <1>1, <2>5, EndsFacts
  <2>7. LoopAgrees'
    BY <1>1, <2>2, <2>6 DEF LoopAgrees, LoopPlace
  <2>8. inbox' = inbox \/ \E n \in Mail, how \in {"submitted", "failed"} : inbox[n].state # "none" /\ Ends(n, how)
    BY <2>3, <2>4, <2>5
  <2> QED BY <2>1, <2>2, <2>7, <2>8, Onwards
<1>6. CASE Authorize
  <2>1. PICK m \in loop.todo :
           IF standing[inbox[m].from] \in Active
           THEN loop' = [loop EXCEPT !.at = "submit", !.m = m, !.todo = @ \ {m}] /\ UNCHANGED inbox
           ELSE loop' = [loop EXCEPT !.todo = @ \ {m}] /\ Ends(m, "failed")
    BY <1>6 DEF Authorize
  <2>2. UNCHANGED <<standing, jobs, parts, wire, lost>> /\ loop.at = "pending"
    BY <1>6 DEF Authorize, outsideVars
  <2>3. m \in Mail /\ m \in Nat /\ inbox[m].state # "none"
    BY <1>1, <2>1 DEF LoopAgrees, LoopPlace, Mail
  <2>4. CASE standing[inbox[m].from] \in Active
    <3>1. loop' = [at |-> "submit", m |-> m, todo |-> loop.todo \ {m}, left |-> loop.left, job |-> loop.job] /\ inbox' = inbox
      BY <1>1, <2>1, <2>4 DEF LoopPlace
    <3>2. loop' \in LoopPlace
      BY <1>1, <2>3, <3>1 DEF LoopPlace, Places
    <3>3. LoopAgrees' /\ loop'.at \notin {"ready", "send"}
      BY <1>1, <2>2, <2>3, <2>4, <3>1 DEF LoopAgrees
    <3> QED BY <2>2, <3>1, <3>2, <3>3, Onwards
  <2>5. CASE standing[inbox[m].from] \notin Active
    <3>1. loop' = [at |-> loop.at, m |-> loop.m, todo |-> loop.todo \ {m}, left |-> loop.left, job |-> loop.job]
          /\ Ends(m, "failed")
      BY <1>1, <2>1, <2>5 DEF LoopPlace
    <3>2. loop' \in LoopPlace /\ loop'.at = "pending"
      BY <1>1, <2>2, <3>1 DEF LoopPlace
    <3>3. \A n \in Mail : inbox[n].state # "none" => inbox'[n].state # "none"
      BY <1>1, <2>3, <3>1, EndsFacts
    <3>4. LoopAgrees' /\ loop'.at \notin {"ready", "send"}
      BY <1>1, <3>1, <3>2, <3>3 DEF LoopAgrees, LoopPlace
    <3>5. \E n \in Mail, how \in {"submitted", "failed"} : inbox[n].state # "none" /\ Ends(n, how)
      BY <2>3, <3>1
    <3> QED BY <2>2, <3>2, <3>4, <3>5, Onwards
  <2> QED BY <2>4, <2>5
<1> QED BY <1>2, <1>3, <1>4, <1>5, <1>6

LEMMA OutsideMoves ==
    ASSUME DeliveryInv,
           \/ StopPollers \/ GatewayRestarts \/ UNCHANGED deliveryVars
           \/ \E p \in Users : DirectoryChanges(p) \/ LinkExpires(p) \/ Relogin(p)
    PROVE  DeliveryInv'
<1>1. standing \in [Users -> {"owner", "member", "suspended", "removed"}]
  BY DEF DeliveryInv, DeliveryTypeOK
<1>2. CASE StopPollers \/ GatewayRestarts \/ UNCHANGED deliveryVars \/ \E p \in Users : LinkExpires(p) \/ Relogin(p)
  <2>1. UNCHANGED <<standing, inbox, jobs, parts, wire, lost>> /\ (loop' = loop \/ loop' = AtRest)
    BY <1>2 DEF StopPollers, GatewayRestarts, LinkExpires, Relogin, deliveryVars
  <2> QED BY <1>1, <2>1, Around
<1>3. ASSUME NEW p \in Users, DirectoryChanges(p) PROVE DeliveryInv'
  <2>1. UNCHANGED <<inbox, jobs, parts, wire, lost, loop>> /\ loop.at \notin {"submit", "send"}
        /\ (Suspended(p) \/ Resumed(p) \/ Removed(p) \/ Transferred(p))
    BY <1>3 DEF DirectoryChanges, Locked
  <2>2. standing' \in [Users -> {"owner", "member", "suspended", "removed"}]
    BY <1>1, <2>1 DEF Suspended, Resumed, Removed, Transferred, Directory!Suspend, Directory!Resume,
                      Directory!Remove, Directory!Transfer, Directory!Becomes
  <2> QED BY <2>1, <2>2, Around
<1> QED BY <1>2, <1>3

LEMMA MailArrives == ASSUME DeliveryInv, NEW m \in Mail, NEW p \in Users, StoreMail(m, p) PROVE DeliveryInv'
<1>1. DeliveryTypeOK /\ LoopAgrees /\ ProfilesAgree /\ AnswerIsWhole /\ CompletedIsAnswered /\ PartsAgree
  BY DEF DeliveryInv
<1>2. /\ inbox[m].state = "none"
      /\ inbox' = [inbox EXCEPT ![m] = [state |-> "pending", from |-> p, profile |-> Profile(p)]]
      /\ UNCHANGED <<standing, jobs, parts, wire, loop, lost>>
  BY DEF StoreMail
<1>3. Profile(p) \in {"owner", "member"}
  BY DEF Profile
<1>4. DeliveryTypeOK'
  <2>1. [state |-> "pending", from |-> p, profile |-> Profile(p)] \in
            [state : {"none", "pending", "submitted", "completed", "failed"},
             from : Users, profile : {"none", "owner", "member"}]
    BY <1>3
  <2> QED BY <1>1, <1>2, <2>1 DEF DeliveryTypeOK
<1>5. /\ \A n \in Mail \ {m} : inbox'[n] = inbox[n]
      /\ inbox'[m].state = "pending" /\ inbox'[m].profile = Profile(p)
  BY <1>1, <1>2 DEF DeliveryTypeOK
<1>6. LoopAgrees'
  <2>1. loop.todo \subseteq Mail
    BY <1>1 DEF DeliveryTypeOK
  <2> QED BY <1>1, <1>2, <1>5, <2>1 DEF LoopAgrees
<1>7. ProfilesAgree'
  BY <1>1, <1>2, <1>3, <1>5 DEF ProfilesAgree
<1>8. AnswerIsWhole' /\ PartsAgree'
  BY <1>1, <1>2 DEF AnswerIsWhole, Answering, PartsAgree
<1>9. CompletedIsAnswered'
  BY <1>1, <1>2, <1>5 DEF CompletedIsAnswered, In
<1> QED BY <1>4, <1>6, <1>7, <1>8, <1>9 DEF DeliveryInv

LEMMA JobsEnd ==
    ASSUME DeliveryInv, NEW m \in Mail, NEW from \in {"running", "recovery_required"},
           NEW s \in {"completed", "failed", "recovery_required"}, NEW f \in BOOLEAN, JobGoes(m, from, s, f)
    PROVE  DeliveryInv'
<1>1. DeliveryTypeOK /\ LoopAgrees /\ ProfilesAgree /\ AnswerIsWhole /\ CompletedIsAnswered /\ PartsAgree
  BY DEF DeliveryInv
<1>2. /\ jobs[m].state = from
      /\ UNCHANGED <<standing, inbox, parts, wire, loop, lost>>
  BY DEF JobGoes
<1>3. jobs' = [jobs EXCEPT ![m] = [state |-> s, profile |-> jobs[m].profile, file |-> f]]
  BY DEF JobGoes
<1>4. \A n \in Mail \ {m} : jobs'[n] = jobs[n]
  BY <1>1, <1>3 DEF DeliveryTypeOK
<1>5. jobs'[m].state = s
  BY <1>1, <1>3 DEF DeliveryTypeOK
<1>6. DeliveryTypeOK'
  <2>1. [state |-> s, profile |-> jobs[m].profile, file |-> f] \in JobDoc
    BY <1>1 DEF DeliveryTypeOK, JobDoc
  <2> QED BY <1>1, <1>2, <1>3, <2>1 DEF DeliveryTypeOK
<1>7. LoopAgrees' /\ PartsAgree'
  BY <1>1, <1>2 DEF LoopAgrees, PartsAgree
<1>8. ProfilesAgree'
  BY <1>1, <1>2, <1>4, <1>5 DEF ProfilesAgree
<1>9. AnswerIsWhole'
  <2>1. Answering => loop.m \in Mail
    BY <1>1 DEF Answering, LoopAgrees
  <2>2. loop.job.state = "completed" /\ jobs[loop.m] = loop.job => loop.m # m
    BY <1>2
  <2> QED BY <1>1, <1>2, <1>4, <2>1, <2>2 DEF AnswerIsWhole, Answering
<1>10. CompletedIsAnswered'
  BY <1>1, <1>2, <1>4 DEF CompletedIsAnswered, In
<1> QED BY <1>6, <1>7, <1>8, <1>9, <1>10 DEF DeliveryInv

\* The loop has an answer in hand, or gives one up, with nothing else changed.
LEMMA InHand ==
    ASSUME DeliveryInv, UNCHANGED <<standing, inbox, jobs, parts, wire, lost>>,
           loop' \in LoopPlace, LoopAgrees', AnswerIsWhole'
    PROVE  DeliveryInv'
<1>1. DeliveryTypeOK'
  BY DEF DeliveryInv, DeliveryTypeOK, LoopPlace, Places
<1> QED BY <1>1 DEF DeliveryInv, ProfilesAgree, PartsAgree, CompletedIsAnswered, In

LEMMA SubmitMoves == ASSUME DeliveryInv, Submit \/ Incompatible PROVE DeliveryInv'
<1>1. /\ DeliveryTypeOK /\ LoopAgrees /\ ProfilesAgree /\ PartsAgree /\ CompletedIsAnswered
      /\ loop \in LoopPlace /\ Submitted \in LoopPlace /\ Submitted.at = "submitted"
      /\ Submitted.todo = In("submitted")
  BY LoopForms DEF DeliveryInv
<1>2. CASE Incompatible
  <2>1. /\ loop.at = "submit" /\ jobs[loop.m].state = "none"
        /\ loop' = [loop EXCEPT !.at = "ready", !.job = NoJob, !.left = <<"notice">>]
        /\ UNCHANGED <<standing, inbox, jobs, parts, wire, lost>>
    BY <1>2 DEF Incompatible, outsideVars
  <2>2. loop' = [at |-> "ready", m |-> loop.m, todo |-> loop.todo, left |-> <<"notice">>, job |-> NoJob]
    BY <1>1, <2>1 DEF LoopPlace
  <2>3. loop' \in LoopPlace
    BY <1>1, <2>2, WholeAnswer DEF LoopPlace, Places, NoJob, JobDoc
  <2>4. LoopAgrees'
    BY <1>1, <2>1, <2>2 DEF LoopAgrees
  <2>5. "link" \notin ToSet(<<"notice">>)
    BY WholeAnswer
  <2>6. AnswerIsWhole'
    BY <2>1, <2>2, <2>5 DEF AnswerIsWhole, Answering, Explained, NoJob
  <2> QED BY <2>1, <2>3, <2>4, <2>6, InHand
<1>3. CASE Submit
  <2>1. PICK m \in Mail : m = loop.m
    BY <1>1, <1>3 DEF Submit, LoopAgrees
  <2>2. /\ loop.at = "submit"
        /\ jobs' = jobs \/ (jobs[m].state = "none"
                            /\ jobs' = [jobs EXCEPT ![m] = [state |-> "running", profile |-> Effective(m), file |-> FALSE]])
        /\ loop' = [loop EXCEPT !.at = "mark"] \/ loop' = Submitted
        /\ UNCHANGED <<standing, inbox, parts, wire, lost>>
    BY <1>3, <2>1 DEF Submit, outsideVars
  <2>3. Effective(m) \in {"owner", "member"}
    BY DEF Effective, Lower
  <2>5. loop' \in LoopPlace /\ loop'.at \in {"mark", "submitted"}
        /\ (loop'.at = "mark" => loop'.m = loop.m /\ loop'.todo = loop.todo)
        /\ (loop'.at = "submitted" => loop'.todo = In("submitted"))
    <3>1. CASE loop' = [loop EXCEPT !.at = "mark"]
      BY <1>1, <3>1 DEF LoopPlace, Places
    <3>2. CASE loop' = Submitted
      BY <1>1, <3>2
    <3> QED BY <2>2, <3>1, <3>2
  <2>6. LoopAgrees'
    BY <1>1, <2>2, <2>5 DEF LoopAgrees, In
  <2>7. AnswerIsWhole'
    BY <2>5 DEF AnswerIsWhole, Answering
  <2>8. jobs' \in [Mail -> JobDoc]
        /\ \A n \in Mail : jobs'[n] = jobs[n] \/ (jobs[n].state = "none" /\ jobs'[n].state = "running")
    <3>1. CASE jobs' = jobs
      BY <1>1, <3>1 DEF DeliveryTypeOK
    <3>2. CASE jobs[m].state = "none"
               /\ jobs' = [jobs EXCEPT ![m] = [state |-> "running", profile |-> Effective(m), file |-> FALSE]]
      <4>1. [state |-> "running", profile |-> Effective(m), file |-> FALSE] \in JobDoc
        BY <2>3 DEF JobDoc
      <4> QED BY <1>1, <3>2, <4>1 DEF DeliveryTypeOK
    <3> QED BY <2>2, <3>1, <3>2
  <2>9. DeliveryTypeOK'
    BY <1>1, <2>2, <2>5, <2>8 DEF DeliveryTypeOK, LoopPlace, Places
  <2>10. ProfilesAgree'
    BY <1>1, <2>2, <2>8 DEF ProfilesAgree
  <2>11. PartsAgree' /\ CompletedIsAnswered'
    BY <1>1, <2>2, <2>8 DEF PartsAgree, CompletedIsAnswered, In
  <2> QED BY <2>6, <2>7, <2>9, <2>10, <2>11 DEF DeliveryInv
<1> QED BY <1>2, <1>3

\* One entry of a table of parts.
LEMMA BookedAlone ==
    ASSUME NEW S, NEW f \in [Mail -> [Part -> S]], NEW m \in Mail, NEW k \in Part, NEW v \in S,
           NEW g, g = [f EXCEPT ![m][k] = v]
    PROVE  /\ g \in [Mail -> [Part -> S]] /\ g[m][k] = v
           /\ \A n \in Mail, j \in Part : n # m \/ j # k => g[n][j] = f[n][j]
<1>1. f[m] \in [Part -> S]
  OBVIOUS
<1>2. g = [f EXCEPT ![m] = [f[m] EXCEPT ![k] = v]]
  OBVIOUS
<1>3. [f[m] EXCEPT ![k] = v] \in [Part -> S]
  BY <1>1
<1> QED BY <1>2, <1>3

LEMMA PollMoves == ASSUME DeliveryInv, NEW m \in Mail, Poll(m) PROVE DeliveryInv'
<1>1. /\ DeliveryTypeOK /\ LoopAgrees /\ ProfilesAgree /\ PartsAgree /\ CompletedIsAnswered
      /\ loop \in LoopPlace
  BY LoopForms DEF DeliveryInv
<1>2. /\ loop.at = "submitted" /\ m \in loop.todo /\ m \in Nat
      /\ UNCHANGED <<standing, inbox, jobs, wire, lost>>
      /\ parts' = parts \/ (parts[m]["file"] = "pending" /\ parts' = [parts EXCEPT ![m]["file"] = "failed"])
  BY DEF Poll, outsideVars, Mail
<1>3. /\ parts' \in [Mail -> [Part -> {"pending", "sent", "failed", "unknown"}]]
      /\ \A n \in Mail, k \in Part :
            parts'[n][k] = parts[n][k] \/ (k = "file" /\ parts[n][k] = "pending" /\ parts'[n][k] = "failed")
  <2>1. CASE parts' = parts
    BY <1>1, <2>1 DEF DeliveryTypeOK
  <2>2. CASE parts[m]["file"] = "pending" /\ parts' = [parts EXCEPT ![m]["file"] = "failed"]
    BY <1>1, <2>2, BookedAlone, WholeAnswer DEF DeliveryTypeOK
  <2> QED BY <1>2, <2>1, <2>2
<1>4. PartsAgree'
  BY <1>1, <1>2, <1>3, WholeAnswer DEF PartsAgree
<1>5. CompletedIsAnswered'
  <2>1. \A n \in Mail, k \in Part : parts[n][k] = "sent" => parts'[n][k] = "sent"
    BY <1>3
  <2> QED BY <1>1, <1>2, <2>1, WholeAnswer DEF CompletedIsAnswered, In
<1>6. CASE jobs[m].state = "running"
  <2>1. loop' = [loop EXCEPT !.todo = @ \ {m}]
    BY <1>6 DEF Poll
  <2>2. loop' \in LoopPlace /\ loop'.at = "submitted" /\ loop'.todo = loop.todo \ {m}
    BY <1>1, <1>2, <2>1 DEF LoopPlace
  <2>3. DeliveryTypeOK'
    BY <1>1, <1>2, <1>3, <2>2 DEF DeliveryTypeOK, LoopPlace, Places
  <2>4. LoopAgrees' /\ AnswerIsWhole' /\ ProfilesAgree'
    BY <1>1, <1>2, <2>2 DEF LoopAgrees, AnswerIsWhole, Answering, ProfilesAgree
  <2> QED BY <1>4, <1>5, <2>3, <2>4 DEF DeliveryInv
<1>7. ASSUME NEW l \in Seq(Part), "link" \notin ToSet(l),
             loop' = [loop EXCEPT !.at = "ready", !.m = m, !.job = jobs[m], !.left = l],
             \/ jobs[m].state \in {"failed", "recovery_required"}
             \/ /\ jobs[m].state = "completed" /\ ToSet(Texts) \subseteq ToSet(l)
                /\ jobs[m].file => "file" \in ToSet(l)
      PROVE  DeliveryInv'
  <2>1. loop' = [at |-> "ready", m |-> m, todo |-> loop.todo, left |-> l, job |-> jobs[m]]
    BY <1>1, <1>7 DEF LoopPlace
  <2>2. loop' \in LoopPlace
    BY <1>1, <1>2, <2>1 DEF LoopPlace, Places, DeliveryTypeOK
  <2>3. DeliveryTypeOK'
    BY <1>1, <1>2, <1>3, <2>2 DEF DeliveryTypeOK, LoopPlace, Places
  <2>4. LoopAgrees' /\ ProfilesAgree'
    BY <1>1, <1>2, <2>1 DEF LoopAgrees, ProfilesAgree
  <2>5. loop'.m = m /\ loop'.left = l /\ loop'.job = jobs[m] /\ jobs'[m] = jobs[m]
    BY <1>2, <2>1
  <2>6. AnswerIsWhole'
    BY <1>7, <2>5 DEF AnswerIsWhole, Explained
  <2> QED BY <1>4, <1>5, <2>3, <2>4, <2>6 DEF DeliveryInv
<1>8. CASE jobs[m].state \in {"failed", "recovery_required"}
  <2>1. loop' = [loop EXCEPT !.at = "ready", !.m = m, !.job = jobs[m], !.left = <<"notice">>]
    BY <1>8 DEF Poll
  <2> QED BY <1>7, <1>8, <2>1, WholeAnswer
<1>9. CASE jobs[m].state = "completed"
  <2>1. PICK l : l = IF jobs[m].file THEN Append(Texts, "file") ELSE Texts
    OBVIOUS
  <2>2. loop' = [loop EXCEPT !.at = "ready", !.m = m, !.job = jobs[m], !.left = l]
    BY <1>9, <2>1 DEF Poll
  <2>3. l \in Seq(Part) /\ "link" \notin ToSet(l) /\ ToSet(Texts) \subseteq ToSet(l)
        /\ (jobs[m].file => "file" \in ToSet(l))
    BY <2>1, WholeAnswer
  <2> QED BY <1>7, <1>9, <2>2, <2>3
<1> QED BY <1>6, <1>8, <1>9 DEF Poll

LEMMA LocksTaken == ASSUME DeliveryInv, TakeLocks PROVE DeliveryInv'
<1>1. /\ DeliveryTypeOK /\ LoopAgrees /\ AnswerIsWhole
      /\ loop \in LoopPlace /\ Turn \in LoopPlace /\ Submitted \in LoopPlace
      /\ Turn.at = "submitted" /\ Submitted.at = "submitted"
      /\ Turn.todo \subseteq loop.todo /\ Submitted.todo = In("submitted")
      /\ loop.at = "ready" /\ UNCHANGED <<standing, jobs, parts, wire, lost>>
  BY LoopForms DEF DeliveryInv, TakeLocks, outsideVars
<1>2. PICK m \in Mail : m = loop.m
  BY <1>1 DEF LoopAgrees
<1>3. inbox[m].state # "none"
  BY <1>1, <1>2 DEF LoopAgrees
<1>4. CASE loop' = Unanswered(loop.m) /\ inbox' = inbox
  <2>1. loop' = Turn \/ loop' = Submitted
    BY <1>4 DEF Unanswered
  <2>2. loop' \in LoopPlace /\ LoopAgrees' /\ loop'.at \notin {"ready", "send"}
    BY <1>1, <1>4, <2>1 DEF LoopAgrees, In
  <2> QED BY <1>1, <1>4, <2>2, Onwards
<1>5. CASE /\ Ends(loop.m, "failed")
           /\ loop' = IF inbox[loop.m].state = "pending" THEN [loop EXCEPT !.at = "pending", !.left = << >>] ELSE Turn
  <2>2. loop' \in LoopPlace /\ loop'.at \in {"pending", "submitted"} /\ loop'.todo \subseteq loop.todo
    <3>1. CASE loop' = Turn
      BY <1>1, <3>1
    <3>2. CASE loop' = [loop EXCEPT !.at = "pending", !.left = << >>]
      <4>1. loop' = [at |-> "pending", m |-> loop.m, todo |-> loop.todo, left |-> << >>, job |-> loop.job]
        BY <1>1, <3>2 DEF LoopPlace
      <4> QED BY <1>1, <4>1, WholeAnswer DEF LoopPlace, Places
    <3> QED BY <1>5, <3>1, <3>2
  <2>3. Ends(m, "failed")
    BY <1>2, <1>5 DEF Ends
  <2>4. \A n \in Mail : inbox[n].state # "none" => inbox'[n].state # "none"
    BY <1>1, <2>3, EndsFacts
  <2>5. LoopAgrees' /\ loop'.at \notin {"ready", "send"}
    BY <1>1, <2>2, <2>4 DEF LoopAgrees, LoopPlace
  <2>6. \E n \in Mail, how \in {"submitted", "failed"} : inbox[n].state # "none" /\ Ends(n, how)
    BY <1>3, <2>3
  <2> QED BY <1>1, <2>2, <2>5, <2>6, Onwards
<1>6. CASE /\ ~ Suppressed(loop.m) /\ loop' = [loop EXCEPT !.at = "send"] /\ inbox' = inbox
  <2>1. /\ loop' \in LoopPlace /\ loop'.at = "send" /\ loop'.todo = loop.todo /\ loop'.m = loop.m
        /\ loop'.left = loop.left /\ loop'.job = loop.job
    BY <1>1, <1>6 DEF LoopPlace, Places
  <2>2. LoopAgrees'
    BY <1>1, <1>6, <2>1 DEF LoopAgrees, Suppressed
  <2>3. AnswerIsWhole'
    BY <1>1, <2>1 DEF AnswerIsWhole, Answering
  <2> QED BY <1>1, <1>6, <2>1, <2>2, <2>3, InHand
<1> QED BY <1>4, <1>5, <1>6 DEF TakeLocks

\* A part is tried, once.
Tried(m, k) ==
    \/ Sends(m, k) /\ Book(m, k, "sent") /\ lost' = lost
    \/ Book(m, k, "failed") /\ UNCHANGED <<wire, lost>>
    \/ /\ Sends(m, k) \/ UNCHANGED wire
       /\ lost' = [lost EXCEPT ![m][k] = @ + 1]
       /\ (k = "file" /\ Book(m, k, "unknown")) \/ UNCHANGED parts

\* What is known of the part afterwards.
Fared(m, k) ==
    \/ parts'[m][k] = "sent" /\ wire'[m][k] = wire[m][k] + 1 /\ lost'[m][k] = lost[m][k]
    \/ parts'[m][k] = "failed" /\ wire'[m][k] = wire[m][k] /\ lost'[m][k] = lost[m][k]
    \/ /\ parts'[m][k] = parts[m][k] \/ (k = "file" /\ parts'[m][k] = "unknown")
       /\ wire'[m][k] \in {wire[m][k], wire[m][k] + 1} /\ lost'[m][k] = lost[m][k] + 1

LEMMA TriedOnce ==
    ASSUME DeliveryTypeOK, NEW m \in Mail, NEW k \in Part, Tried(m, k)
    PROVE  /\ parts' \in [Mail -> [Part -> {"pending", "sent", "failed", "unknown"}]]
           /\ wire' \in [Mail -> [Part -> Nat]] /\ lost' \in [Mail -> [Part -> Nat]]
           /\ \A n \in Mail, j \in Part : n # m \/ j # k =>
                 parts'[n][j] = parts[n][j] /\ wire'[n][j] = wire[n][j] /\ lost'[n][j] = lost[n][j]
           /\ Fared(m, k)
<1>1. /\ parts \in [Mail -> [Part -> {"pending", "sent", "failed", "unknown"}]]
      /\ wire \in [Mail -> [Part -> Nat]] /\ lost \in [Mail -> [Part -> Nat]]
      /\ wire[m][k] + 1 \in Nat /\ lost[m][k] + 1 \in Nat
  BY DEF DeliveryTypeOK
<1>2. ASSUME NEW how \in {"sent", "failed", "unknown"}, Book(m, k, how)
      PROVE  /\ parts' \in [Mail -> [Part -> {"pending", "sent", "failed", "unknown"}]] /\ parts'[m][k] = how
             /\ \A n \in Mail, j \in Part : n # m \/ j # k => parts'[n][j] = parts[n][j]
  <2>1. parts' = [parts EXCEPT ![m][k] = how] /\ how \in {"pending", "sent", "failed", "unknown"}
    BY <1>2 DEF Book
  <2> QED BY <1>1, <2>1, BookedAlone
<1>3. ASSUME Sends(m, k)
      PROVE  /\ wire' \in [Mail -> [Part -> Nat]] /\ wire'[m][k] = wire[m][k] + 1
             /\ \A n \in Mail, j \in Part : n # m \/ j # k => wire'[n][j] = wire[n][j]
  <2>1. wire' = [wire EXCEPT ![m][k] = wire[m][k] + 1]
    BY <1>3 DEF Sends
  <2> QED BY <1>1, <2>1, BookedAlone
<1>4. ASSUME lost' = [lost EXCEPT ![m][k] = @ + 1]
      PROVE  /\ lost' \in [Mail -> [Part -> Nat]] /\ lost'[m][k] = lost[m][k] + 1
             /\ \A n \in Mail, j \in Part : n # m \/ j # k => lost'[n][j] = lost[n][j]
  <2>1. lost' = [lost EXCEPT ![m][k] = lost[m][k] + 1]
    BY <1>4
  <2> QED BY <1>1, <2>1, BookedAlone
<1>5. CASE Sends(m, k) /\ Book(m, k, "sent") /\ lost' = lost
  BY <1>1, <1>2, <1>3, <1>5 DEF Fared
<1>6. CASE Book(m, k, "failed") /\ UNCHANGED <<wire, lost>>
  BY <1>1, <1>2, <1>6 DEF Fared
<1>7. CASE /\ Sends(m, k) \/ UNCHANGED wire
           /\ lost' = [lost EXCEPT ![m][k] = @ + 1]
           /\ (k = "file" /\ Book(m, k, "unknown")) \/ UNCHANGED parts
  <2>1. /\ lost' \in [Mail -> [Part -> Nat]] /\ lost'[m][k] = lost[m][k] + 1
        /\ \A n \in Mail, j \in Part : n # m \/ j # k => lost'[n][j] = lost[n][j]
    BY <1>4, <1>7
  <2>2. /\ wire' \in [Mail -> [Part -> Nat]] /\ wire'[m][k] \in {wire[m][k], wire[m][k] + 1}
        /\ \A n \in Mail, j \in Part : n # m \/ j # k => wire'[n][j] = wire[n][j]
    BY <1>1, <1>3, <1>7
  <2>3. /\ parts' \in [Mail -> [Part -> {"pending", "sent", "failed", "unknown"}]]
        /\ parts'[m][k] = parts[m][k] \/ (k = "file" /\ parts'[m][k] = "unknown")
        /\ \A n \in Mail, j \in Part : n # m \/ j # k => parts'[n][j] = parts[n][j]
    BY <1>1, <1>2, <1>7
  <2> QED BY <2>1, <2>2, <2>3 DEF Fared
<1> QED BY <1>5, <1>6, <1>7 DEF Tried

\* What is tried of the answer in hand leaves the parts in agreement.
LEMMA PartsMove ==
    ASSUME DeliveryInv, NEW m \in Mail, NEW k \in Part, m = loop.m, Waits(k), Tried(m, k), jobs' = jobs,
           \A n \in Mail : inbox'[n].state = "completed" => inbox[n].state = "completed"
    PROVE  /\ PartsAgree' /\ CompletedIsAnswered'
           /\ \A n \in Mail, j \in Part : parts[n][j] = "sent" => parts'[n][j] = "sent"
           /\ k # "file" => parts'[m]["file"] = parts[m]["file"]
           /\ k = "file" => parts[m]["file"] = "pending" /\ "link" \notin ToSet(loop.left)
<1>1. /\ DeliveryTypeOK /\ PartsAgree /\ AnswerIsWhole /\ CompletedIsAnswered
      /\ loop.left \in Seq(Part) /\ loop.left # << >> /\ Head(loop.left) = k /\ parts[m][k] # "sent"
      /\ k = "file" => parts[m]["file"] = "pending"
      /\ Answering
  BY DEF DeliveryInv, DeliveryTypeOK, Waits, Done, Answering
<1>2. k \in ToSet(loop.left)
  BY <1>1, PartsLeft
<1>3. \A n \in Mail, j \in Part : n # m \/ j # k =>
          parts'[n][j] = parts[n][j] /\ wire'[n][j] = wire[n][j] /\ lost'[n][j] = lost[n][j]
  BY <1>1, TriedOnce
<1>4. Fared(m, k)
  BY <1>1, TriedOnce
<1>5. \A n \in Mail, j \in Part : parts[n][j] = "sent" => parts'[n][j] = "sent"
  BY <1>1, <1>3
<1>6. "link" \in ToSet(loop.left) => parts[m]["file"] \in {"failed", "unknown"}
  BY <1>1 DEF AnswerIsWhole
<1>7. k # "file" => parts'[m]["file"] = parts[m]["file"]
  BY <1>3, WholeAnswer
<1>8. CompletedIsAnswered'
  BY <1>1, <1>5, WholeAnswer DEF CompletedIsAnswered, In
<1>9. ASSUME NEW n \in Mail, NEW j \in Part
      PROVE  /\ wire'[n][j] <= lost'[n][j] + (IF parts'[n][j] = "sent" THEN 1 ELSE 0)
             /\ parts'[n][j] = "sent" => wire'[n][j] > 0
  <2>1. /\ wire[n][j] <= lost[n][j] + (IF parts[n][j] = "sent" THEN 1 ELSE 0)
        /\ parts[n][j] = "sent" => wire[n][j] > 0
        /\ wire[n][j] \in Nat /\ lost[n][j] \in Nat
    BY <1>1 DEF PartsAgree, DeliveryTypeOK
  <2>2. CASE n # m \/ j # k
    BY <1>3, <2>1, <2>2
  <2>3. CASE n = m /\ j = k
    <3>1. CASE parts'[m][k] = "sent" /\ wire'[m][k] = wire[m][k] + 1 /\ lost'[m][k] = lost[m][k]
      BY <1>1, <2>1, <2>3, <3>1
    <3>2. CASE parts'[m][k] = "failed" /\ wire'[m][k] = wire[m][k] /\ lost'[m][k] = lost[m][k]
      BY <1>1, <2>1, <2>3, <3>2
    <3>3. CASE /\ parts'[m][k] = parts[m][k] \/ (k = "file" /\ parts'[m][k] = "unknown")
               /\ wire'[m][k] \in {wire[m][k], wire[m][k] + 1} /\ lost'[m][k] = lost[m][k] + 1
      <4>1. parts'[m][k] # "sent" /\ wire[m][k] <= lost[m][k] /\ wire[m][k] \in Nat /\ lost[m][k] \in Nat
        BY <1>1, <2>1, <2>3, <3>3
      <4>2. wire'[m][k] <= lost'[m][k]
        BY <3>3, <4>1
      <4>3. lost'[m][k] \in Nat /\ lost'[m][k] + 0 = lost'[m][k]
        BY <3>3, <4>1
      <4> QED BY <2>3, <4>1, <4>2, <4>3
    <3> QED BY <1>4, <3>1, <3>2, <3>3 DEF Fared
  <2> QED BY <2>2, <2>3
<1>10. ASSUME NEW n \in Mail, wire'[n]["link"] > 0 PROVE parts'[n]["file"] \in {"failed", "unknown"}
  <2>1. wire[n]["link"] > 0 => parts[n]["file"] \in {"failed", "unknown"}
    BY <1>1 DEF PartsAgree
  <2>2. CASE n # m
    BY <1>3, <1>10, <2>1, <2>2, WholeAnswer
  <2>3. CASE n = m /\ k = "link"
    BY <1>2, <1>6, <1>7, <2>3
  <2>4. CASE n = m /\ k # "link"
    <3>1. wire'[m]["link"] = wire[m]["link"]
      BY <1>3, <2>4, WholeAnswer
    <3> QED BY <1>1, <1>7, <1>10, <2>1, <2>4, <3>1
  <2> QED BY <2>2, <2>3, <2>4
<1> QED BY <1>1, <1>5, <1>6, <1>7, <1>8, <1>9, <1>10 DEF PartsAgree

\* The answer in hand, after a part of it was tried: the part is booked and
\* passed, or the loop gives up, or a file is to be replaced.
LEMMA HandMoves ==
    ASSUME DeliveryInv, NEW k \in Part,
           \/ SendPart(k) \/ PartRefused(k) \/ PartLost(k)
    PROVE  DeliveryInv'
<1>1. /\ DeliveryTypeOK /\ LoopAgrees /\ ProfilesAgree /\ AnswerIsWhole
      /\ loop \in LoopPlace /\ AtRest \in LoopPlace /\ AtRest.at = "rest" /\ AtRest.todo = {}
  BY LoopForms DEF DeliveryInv
<1>2. /\ Waits(k) /\ UNCHANGED <<standing, inbox, jobs>> /\ Tried(loop.m, k)
      /\ loop.at = "send" /\ loop.left # << >> /\ Head(loop.left) = k
  BY DEF SendPart, PartRefused, PartLost, Waits, outsideVars, Tried
<1>3. PICK m \in Mail : m = loop.m
  BY <1>1, <1>2 DEF LoopAgrees
<1>4. Tried(m, k)
  BY <1>2, <1>3
<1>5. /\ PartsAgree' /\ CompletedIsAnswered'
      /\ \A n \in Mail, j \in Part : parts[n][j] = "sent" => parts'[n][j] = "sent"
      /\ k # "file" => parts'[m]["file"] = parts[m]["file"]
      /\ k = "file" => parts[m]["file"] = "pending" /\ "link" \notin ToSet(loop.left)
  BY <1>2, <1>3, <1>4, PartsMove
<1>6. /\ parts' \in [Mail -> [Part -> {"pending", "sent", "failed", "unknown"}]]
      /\ wire' \in [Mail -> [Part -> Nat]] /\ lost' \in [Mail -> [Part -> Nat]]
  BY <1>1, <1>4, TriedOnce
<1>7. ASSUME loop' \in LoopPlace, LoopAgrees', AnswerIsWhole' PROVE DeliveryInv'
  <2>1. DeliveryTypeOK'
    BY <1>1, <1>2, <1>6, <1>7 DEF DeliveryTypeOK, LoopPlace, Places
  <2>2. ProfilesAgree'
    BY <1>1, <1>2 DEF ProfilesAgree
  <2> QED BY <1>5, <1>7, <2>1, <2>2 DEF DeliveryInv
<1>8. /\ loop.left \in Seq(Part) /\ Tail(loop.left) \in Seq(Part)
      /\ ToSet(loop.left) = {k} \cup ToSet(Tail(loop.left))
  BY <1>1, <1>2, PartsLeft DEF LoopPlace
<1>9. \/ loop.job.state \in Explained
      \/ /\ loop.job.state = "completed" /\ jobs[m] = loop.job
         /\ \A j \in ToSet(Texts) : parts[m][j] = "sent" \/ j \in ToSet(loop.left)
         /\ loop.job.file => \E j \in {"file", "link"} : parts[m][j] = "sent" \/ j \in ToSet(loop.left)
  BY <1>1, <1>2, <1>3 DEF AnswerIsWhole, Answering
<1>10. "link" \in ToSet(loop.left) => k # "file" /\ parts'[m]["file"] \in {"failed", "unknown"}
  BY <1>1, <1>2, <1>3, <1>5 DEF AnswerIsWhole, Answering
<1>11. CASE SendPart(k)
  <2>1. loop' = [at |-> "send", m |-> m, todo |-> loop.todo, left |-> Tail(loop.left), job |-> loop.job]
    BY <1>1, <1>2, <1>3, <1>11 DEF SendPart, Rest, LoopPlace
  <2>2. loop' \in LoopPlace
    BY <1>1, <1>3, <1>8, <2>1 DEF LoopPlace, Places, Mail
  <2>3. LoopAgrees'
    BY <1>1, <1>2, <1>3, <2>1 DEF LoopAgrees
  <2>4. parts'[m][k] = "sent"
    <3>1. parts' = [parts EXCEPT ![m][k] = "sent"]
      BY <1>3, <1>11 DEF SendPart, Book
    <3> QED BY <1>1, <3>1, BookedAlone DEF DeliveryTypeOK
  <2>5. \A j \in Part : parts[m][j] = "sent" \/ j \in ToSet(loop.left)
                           => parts'[m][j] = "sent" \/ j \in ToSet(Tail(loop.left))
    BY <1>5, <1>8, <2>4
  <2>6. \/ loop.job.state \in Explained
        \/ /\ loop.job.state = "completed" /\ jobs[m] = loop.job
           /\ \A j \in ToSet(Texts) : parts'[m][j] = "sent" \/ j \in ToSet(Tail(loop.left))
           /\ loop.job.file => \E j \in {"file", "link"} : parts'[m][j] = "sent" \/ j \in ToSet(Tail(loop.left))
    BY <1>9, <2>5, WholeAnswer
  <2>7. "link" \in ToSet(Tail(loop.left)) => parts'[m]["file"] \in {"failed", "unknown"}
    BY <1>8, <1>10
  <2>8. loop'.m = m /\ loop'.left = Tail(loop.left) /\ loop'.job = loop.job /\ jobs' = jobs
    BY <1>2, <2>1
  <2>9. AnswerIsWhole'
    BY <2>6, <2>7, <2>8 DEF AnswerIsWhole
  <2> QED BY <1>7, <2>2, <2>3, <2>9
<1>12. CASE loop' = AtRest
  <2>1. LoopAgrees' /\ AnswerIsWhole'
    BY <1>1, <1>12 DEF LoopAgrees, AnswerIsWhole, Answering
  <2> QED BY <1>1, <1>7, <1>12, <2>1
<1>13. CASE loop' = loop
  <2>1. LoopAgrees'
    BY <1>1, <1>2, <1>13 DEF LoopAgrees
  <2>2. \/ loop.job.state \in Explained
        \/ /\ loop.job.state = "completed" /\ jobs[m] = loop.job
           /\ \A j \in ToSet(Texts) : parts'[m][j] = "sent" \/ j \in ToSet(loop.left)
           /\ loop.job.file => \E j \in {"file", "link"} : parts'[m][j] = "sent" \/ j \in ToSet(loop.left)
    BY <1>5, <1>9, WholeAnswer
  <2>3. AnswerIsWhole'
    BY <1>2, <1>3, <1>10, <1>13, <2>2 DEF AnswerIsWhole
  <2> QED BY <1>1, <1>7, <1>13, <2>1, <2>3
<1> QED BY <1>11, <1>12, <1>13 DEF PartRefused, PartLost

\* What needs no send: a part already booked, and a link in place of a file.
LEMMA HandGoesOn == ASSUME DeliveryInv, SkipSent \/ UseLink PROVE DeliveryInv'
<1>1. /\ DeliveryTypeOK /\ LoopAgrees /\ AnswerIsWhole /\ loop \in LoopPlace
      /\ loop.at = "send" /\ loop.left # << >>
      /\ UNCHANGED <<standing, inbox, jobs, parts, wire, lost>>
  BY LoopForms DEF DeliveryInv, SkipSent, UseLink, outsideVars
<1>2. PICK m \in Mail : m = loop.m
  BY <1>1 DEF LoopAgrees
<1>3. PICK k \in Part : k = Head(loop.left)
  BY <1>1, PartsLeft DEF LoopPlace
<1>4. /\ loop.left \in Seq(Part) /\ Tail(loop.left) \in Seq(Part)
      /\ ToSet(loop.left) = {k} \cup ToSet(Tail(loop.left))
  BY <1>1, <1>3, PartsLeft DEF LoopPlace
<1>5. \/ loop.job.state \in Explained
      \/ /\ loop.job.state = "completed" /\ jobs[m] = loop.job
         /\ \A j \in ToSet(Texts) : parts[m][j] = "sent" \/ j \in ToSet(loop.left)
         /\ loop.job.file => \E j \in {"file", "link"} : parts[m][j] = "sent" \/ j \in ToSet(loop.left)
  BY <1>1, <1>2 DEF AnswerIsWhole, Answering
<1>6. "link" \in ToSet(loop.left) => parts[m]["file"] \in {"failed", "unknown"}
  BY <1>1, <1>2 DEF AnswerIsWhole, Answering
<1>7. ASSUME NEW l \in Seq(Part), loop' = [loop EXCEPT !.left = l],
             "link" \in ToSet(l) => parts[m]["file"] \in {"failed", "unknown"},
             \A j \in ToSet(Texts) : parts[m][j] = "sent" \/ j \in ToSet(loop.left)
                                        => parts[m][j] = "sent" \/ j \in ToSet(l),
             (\E j \in {"file", "link"} : parts[m][j] = "sent" \/ j \in ToSet(loop.left))
                => \E j \in {"file", "link"} : parts[m][j] = "sent" \/ j \in ToSet(l)
      PROVE  DeliveryInv'
  <2>1. loop' = [at |-> "send", m |-> m, todo |-> loop.todo, left |-> l, job |-> loop.job]
    BY <1>1, <1>2, <1>7 DEF LoopPlace
  <2>2. loop' \in LoopPlace
    BY <1>1, <1>2, <1>7, <2>1 DEF LoopPlace, Places
  <2>3. LoopAgrees'
    BY <1>1, <1>2, <2>1 DEF LoopAgrees
  <2>4. loop'.m = m /\ loop'.left = l /\ loop'.job = loop.job
    BY <2>1
  <2>5. AnswerIsWhole'
    BY <1>1, <1>5, <1>7, <2>4 DEF AnswerIsWhole
  <2> QED BY <1>1, <2>2, <2>3, <2>5, InHand
<1>8. CASE SkipSent
  <2>1. loop' = [loop EXCEPT !.left = Tail(loop.left)] /\ parts[m][k] = "sent"
    BY <1>2, <1>3, <1>8 DEF SkipSent, Rest, Done
  <2> QED BY <1>4, <1>6, <1>7, <2>1
<1>9. CASE UseLink
  <2>1. PICK l : l = <<"link">> \o Tail(loop.left)
    OBVIOUS
  <2>2. /\ loop' = [loop EXCEPT !.left = l] /\ k = "file" /\ parts[m]["file"] \in {"failed", "unknown"}
    BY <1>2, <1>3, <1>9, <2>1 DEF UseLink, Rest
  <2>3. l \in Seq(Part) /\ ToSet(l) = {"link"} \cup ToSet(Tail(loop.left))
    BY <1>4, <2>1, LinkPut
  <2>4. \A j \in ToSet(Texts) : j # "file"
    BY WholeAnswer
  <2> QED BY <1>4, <1>7, <2>2, <2>3, <2>4
<1> QED BY <1>8, <1>9

\* The answer is over: in full, refused for want of a link, or put off.
LEMMA HandEnds == ASSUME DeliveryInv, Finish \/ NoAddress \/ \E k \in Part : PartExpired(k) PROVE DeliveryInv'
<1>1. /\ DeliveryTypeOK /\ LoopAgrees /\ AnswerIsWhole /\ ProfilesAgree /\ PartsAgree /\ CompletedIsAnswered
      /\ loop \in LoopPlace /\ Turn \in LoopPlace /\ Submitted \in LoopPlace
      /\ Turn.at = "submitted" /\ Submitted.at = "submitted"
      /\ Turn.todo \subseteq loop.todo /\ Submitted.todo = In("submitted")
      /\ loop.at = "send" /\ UNCHANGED <<standing, jobs>>
  BY LoopForms DEF DeliveryInv, Finish, NoAddress, PartExpired, Waits, outsideVars
<1>2. PICK m \in Mail : m = loop.m
  BY <1>1 DEF LoopAgrees
<1>3. inbox[m].state # "none"
  BY <1>1, <1>2 DEF LoopAgrees
<1>4. CASE \E k \in Part : PartExpired(k)
  <2>1. /\ loop' = Turn \/ loop' = Submitted
        /\ UNCHANGED <<inbox, parts, wire, lost>>
    BY <1>4 DEF PartExpired, Unanswered
  <2>2. loop' \in LoopPlace /\ LoopAgrees' /\ loop'.at \notin {"ready", "send"}
    BY <1>1, <2>1 DEF LoopAgrees, In
  <2> QED BY <1>1, <2>1, <2>2, Onwards
<1>5. CASE NoAddress
  <2>1. /\ Waits("link") /\ Book(m, "link", "failed") /\ Ends(m, "failed") /\ loop' = Turn
        /\ UNCHANGED <<wire, lost>>
    BY <1>2, <1>5 DEF NoAddress, Ends, Book
  <2>2. PICK k \in Part : k = "link"
    BY WholeAnswer
  <2>3. Waits(k) /\ Tried(m, k)
    BY <2>1, <2>2 DEF Tried, Book
  <2>4. /\ inbox' \in [Mail -> [state : {"none", "pending", "submitted", "completed", "failed"},
                                from : Users, profile : {"none", "owner", "member"}]]
        /\ \A n \in Mail : /\ inbox'[n].profile = inbox[n].profile
                           /\ inbox'[n].state = "completed" => inbox[n].state = "completed"
                           /\ inbox'[n].state # "none" => inbox[n].state # "none"
                           /\ inbox[n].state # "none" => inbox'[n].state # "none"
    BY <1>1, <1>3, <2>1, EndsFacts
  <2>5. PartsAgree' /\ CompletedIsAnswered'
    BY <1>1, <1>2, <2>3, <2>4, PartsMove
  <2>6. /\ parts' \in [Mail -> [Part -> {"pending", "sent", "failed", "unknown"}]]
        /\ wire' \in [Mail -> [Part -> Nat]] /\ lost' \in [Mail -> [Part -> Nat]]
    BY <1>1, <2>3, TriedOnce
  <2>7. DeliveryTypeOK'
    BY <1>1, <2>1, <2>4, <2>6 DEF DeliveryTypeOK, LoopPlace, Places
  <2>8. LoopAgrees' /\ AnswerIsWhole'
    BY <1>1, <2>1, <2>4 DEF LoopAgrees, AnswerIsWhole, Answering, LoopPlace
  <2>9. ProfilesAgree'
    BY <1>1, <2>4 DEF ProfilesAgree
  <2> QED BY <2>5, <2>7, <2>8, <2>9 DEF DeliveryInv
<1>6. CASE Finish
  <2>1. PICK how \in {"completed", "failed"} :
           how = IF loop.job.state = "completed" THEN "completed" ELSE "failed"
    OBVIOUS
  <2>2. /\ Ends(m, how) /\ loop.left = << >>
        /\ loop' = Turn \/ loop' = [loop EXCEPT !.at = "pending"]
        /\ UNCHANGED <<parts, wire, lost>>
    BY <1>2, <1>6, <2>1 DEF Finish, Ends
  <2>3. /\ inbox' \in [Mail -> [state : {"none", "pending", "submitted", "completed", "failed"},
                                from : Users, profile : {"none", "owner", "member"}]]
        /\ \A n \in Mail : /\ inbox'[n].profile = inbox[n].profile
                           /\ inbox'[n].state = "completed" =>
                                 inbox[n].state = "completed" \/ (n = m /\ loop.job.state = "completed")
                           /\ inbox'[n].state # "none" => inbox[n].state # "none"
                           /\ inbox[n].state # "none" => inbox'[n].state # "none"
    BY <1>1, <1>3, <2>1, <2>2, EndsFacts
  <2>4. loop' \in LoopPlace /\ loop'.at \in {"pending", "submitted"} /\ loop'.todo \subseteq loop.todo
    <3>1. CASE loop' = Turn
      BY <1>1, <3>1
    <3>2. CASE loop' = [loop EXCEPT !.at = "pending"]
      BY <1>1, <3>2 DEF LoopPlace, Places
    <3> QED BY <2>2, <3>1, <3>2
  <2>5. LoopAgrees' /\ AnswerIsWhole'
    BY <1>1, <2>3, <2>4 DEF LoopAgrees, AnswerIsWhole, Answering, LoopPlace
  <2>6. DeliveryTypeOK'
    BY <1>1, <2>2, <2>3, <2>4 DEF DeliveryTypeOK, LoopPlace, Places
  <2>7. ProfilesAgree' /\ PartsAgree'
    BY <1>1, <2>2, <2>3 DEF ProfilesAgree, PartsAgree
  <2>8. loop.job.state = "completed" =>
           /\ jobs[m].state = "completed"
           /\ \A k \in ToSet(Texts) : parts[m][k] = "sent"
           /\ jobs[m].file => \E k \in {"file", "link"} : parts[m][k] = "sent"
    BY <1>1, <1>2, <2>2, WholeAnswer DEF AnswerIsWhole, Answering, Explained
  <2>9. CompletedIsAnswered'
    BY <1>1, <2>2, <2>3, <2>8 DEF CompletedIsAnswered, In
  <2> QED BY <2>5, <2>6, <2>7, <2>9 DEF DeliveryInv
<1> QED BY <1>4, <1>5, <1>6

LEMMA DeliveryNextInv == ASSUME DeliveryInv, [DeliveryNext]_deliveryVars PROVE DeliveryInv'
<1>1. CASE DeliveryStep
  BY <1>1, LoopMoves, SubmitMoves, PollMoves, LocksTaken, HandMoves, HandGoesOn, HandEnds DEF DeliveryStep
<1>2. CASE \E m \in Mail, p \in Users : StoreMail(m, p)
  BY <1>2, MailArrives
<1>3. CASE \/ \E m \in Mail : JobDoubted(m)
           \/ \E m \in Mail, state \in {"completed", "failed"}, file \in BOOLEAN :
                  JobEnds(m, state, file) \/ JobReviewed(m, state, file)
  BY <1>3, JobsEnd DEF JobDoubted, JobEnds, JobReviewed
<1>4. CASE \/ StopPollers \/ GatewayRestarts \/ UNCHANGED deliveryVars
           \/ \E p \in Users : DirectoryChanges(p) \/ LinkExpires(p) \/ Relogin(p)
  BY <1>4, OutsideMoves
<1> QED BY <1>1, <1>2, <1>3, <1>4 DEF DeliveryNext

(* The delivery loop keeps its books: what is in hand has arrived and may be  *)
(* answered, a part is booked when its answer comes, and of an answer every   *)
(* part is booked or still to be sent (service.py: _delivery_loop).           *)
THEOREM DeliveryKeepsBooks == DeliverySpec => []DeliveryInv
<1> QED BY DeliveryInitInv, DeliveryNextInv, PTL DEF DeliverySpec

LEMMA BooksMeanOnce == DeliveryInv => DeliveredOnce
<1> SUFFICES ASSUME DeliveryInv PROVE DeliveredOnce
  OBVIOUS
<1>1. /\ wire \in [Mail -> [Part -> Nat]] /\ lost \in [Mail -> [Part -> Nat]]
      /\ PartsAgree /\ CompletedIsAnswered
      /\ "file" \in Part /\ "link" \in Part /\ ToSet(Texts) \subseteq Part
  BY WholeAnswer DEF DeliveryInv, DeliveryTypeOK
<1>2. ASSUME NEW m \in Mail
      PROVE  /\ \A k \in Part : wire[m][k] <= 1 + lost[m][k]
             /\ wire[m]["file"] > 0 /\ wire[m]["link"] > 0 => lost[m]["file"] > 0
  <2>1. \A k \in Part : wire[m][k] \in Nat /\ lost[m][k] \in Nat
    BY <1>1
  <2>2. \A k \in Part : wire[m][k] <= lost[m][k] + (IF parts[m][k] = "sent" THEN 1 ELSE 0)
    BY <1>1 DEF PartsAgree
  <2>3. wire[m]["link"] > 0 => parts[m]["file"] # "sent"
    BY <1>1 DEF PartsAgree
  <2>4. \A k \in Part : wire[m][k] <= 1 + lost[m][k]
    BY <2>1, <2>2
  <2>5. wire[m]["file"] > 0 /\ wire[m]["link"] > 0 => lost[m]["file"] > 0
    BY <1>1, <2>1, <2>2, <2>3
  <2> QED BY <2>4, <2>5
<1>3. ASSUME NEW m \in In("completed")
      PROVE  /\ jobs[m].state = "completed"
             /\ \A k \in ToSet(Texts) : wire[m][k] > 0
             /\ jobs[m].file => wire[m]["file"] + wire[m]["link"] > 0
  <2>1. m \in Mail /\ \A k \in Part : wire[m][k] \in Nat
    BY <1>1 DEF In
  <2>2. \A k \in Part : parts[m][k] = "sent" => wire[m][k] > 0
    BY <1>1, <2>1 DEF PartsAgree
  <2>3. /\ jobs[m].state = "completed"
        /\ \A k \in ToSet(Texts) : parts[m][k] = "sent"
        /\ jobs[m].file => \E k \in {"file", "link"} : parts[m][k] = "sent"
    BY <1>1 DEF CompletedIsAnswered
  <2>4. jobs[m].file => wire[m]["file"] > 0 \/ wire[m]["link"] > 0
    BY <1>1, <2>2, <2>3
  <2>5. wire[m]["file"] \in Nat /\ wire[m]["link"] \in Nat
    BY <1>1, <2>1
  <2>6. jobs[m].file => wire[m]["file"] + wire[m]["link"] > 0
    BY <2>4, <2>5
  <2> QED BY <1>1, <2>2, <2>3, <2>6
<1> QED BY <1>2, <1>3 DEF DeliveredOnce

(* A part of an answer reaches the person twice only if the outcome of a send *)
(* was never learnt, a file and its link only if the file's fate was unknown, *)
(* and a completed message was answered in full (prepare_chunk,               *)
(* prepare_artifact, _send_completed_job), for any number of people, messages *)
(* and parts.                                                                 *)
THEOREM AnsweredOnce == DeliverySpec => []DeliveredOnce
<1> QED BY DeliveryKeepsBooks, BooksMeanOnce, PTL

LEMMA EntitledStep ==
    ASSUME DeliveryInv, [DeliveryNext]_deliveryVars
    PROVE  /\ wire' # wire => standing[inbox[loop.m].from] \in Active
           /\ \A m \in Mail : jobs[m].state = "none" /\ jobs'[m].profile = "owner"
                 => inbox[m].profile = "owner" /\ standing[inbox[m].from] = "owner"
<1>1. /\ LoopAgrees /\ ProfilesAgree
      /\ jobs \in [Mail -> JobDoc]
      /\ inbox \in [Mail -> [state : {"none", "pending", "submitted", "completed", "failed"},
                             from : Users, profile : {"none", "owner", "member"}]]
  BY DEF DeliveryInv, DeliveryTypeOK
<1>2. wire' # wire => loop.at = "send"
  BY DEF DeliveryNext, DeliveryStep, BeginPass, Authorize, Submit, SubmitRefused, Incompatible, MarkSubmitted,
         EndPhase, TakeLocks, SkipSent, UseLink, NoAddress, Finish, PollFails, Poll, SendPart, PartRefused,
         PartLost, PartExpired, StopPollers, GatewayRestarts, StoreMail, JobEnds, JobDoubted, JobReviewed, JobGoes,
         DirectoryChanges,
         LinkExpires, Relogin, deliveryVars, Waits
<1>3. ASSUME NEW m \in Mail, jobs[m].state = "none", jobs'[m].profile = "owner"
      PROVE  inbox[m].profile = "owner" /\ standing[inbox[m].from] = "owner"
  <2>1. jobs[m].profile = "none" /\ jobs' # jobs
    BY <1>1, <1>3 DEF ProfilesAgree
  <2>2. Submit \/ \E state, file : \E n \in Mail, from \in {"running", "recovery_required"} :
                     JobGoes(n, from, state, file)
    BY <2>1 DEF DeliveryNext, JobEnds, JobDoubted, JobReviewed, DeliveryStep, BeginPass, Authorize, SubmitRefused, Incompatible, MarkSubmitted,
         EndPhase, TakeLocks, SkipSent, UseLink, NoAddress, Finish, PollFails, Poll, SendPart, PartRefused,
         PartLost, PartExpired, StopPollers, GatewayRestarts, StoreMail, DirectoryChanges,
         LinkExpires, Relogin, deliveryVars
  <2>3. ASSUME NEW n \in Mail, NEW from \in {"running", "recovery_required"}, NEW state, NEW file,
               JobGoes(n, from, state, file)
        PROVE  FALSE
    <3>1. n # m /\ jobs' = [jobs EXCEPT ![n] = [state |-> state, profile |-> @.profile, file |-> file]]
      BY <1>3, <2>3 DEF JobGoes
    <3>2. jobs'[m] = jobs[m]
      BY <1>1, <3>1
    <3> QED BY <1>3, <2>1, <3>2
  <2>4. PICK n \in Mail : n = loop.m
    BY <1>1, <2>2, <2>3 DEF Submit, LoopAgrees
  <2>5. jobs' = [jobs EXCEPT ![n] = [state |-> "running", profile |-> Effective(n), file |-> FALSE]]
    BY <2>1, <2>2, <2>3, <2>4 DEF Submit
  <2>6. n = m
    BY <1>1, <1>3, <2>1, <2>5
  <2>7. Effective(m) = "owner"
    BY <1>1, <1>3, <2>5, <2>6
  <2>8. "member" \notin {inbox[m].profile, Profile(inbox[m].from)}
    BY <2>7 DEF Effective, Lower
  <2>9. Profile(inbox[m].from) = "owner" /\ standing[inbox[m].from] = "owner"
    BY <2>8 DEF Profile
  <2>10. inbox[m].profile # "none"
    BY <1>1, <2>2, <2>3, <2>4, <2>6 DEF Submit, LoopAgrees, ProfilesAgree
  <2> QED BY <1>1, <2>8, <2>9, <2>10
<1> QED BY <1>1, <1>2, <1>3 DEF LoopAgrees

(* Nothing is sent for a person who is suspended or removed, and no job runs  *)
(* with more authority than the message came with or than its sender still    *)
(* has (authorize_stored_message), whenever the directory changed.            *)
THEOREM EntitledOnly == DeliverySpec => OnlyForTheEntitled
<1>1. DeliveryInv /\ [DeliveryNext]_deliveryVars =>
        [/\ wire' # wire => standing[inbox[loop.m].from] \in Active
         /\ \A m \in Mail : jobs[m].state = "none" /\ jobs'[m].profile = "owner"
               => inbox[m].profile = "owner" /\ standing[inbox[m].from] = "owner"]_deliveryVars
  BY EntitledStep
<1> QED BY <1>1, DeliveryKeepsBooks, PTL DEF DeliverySpec, OnlyForTheEntitled

-----------------------------------------------------------------------------
(* The directory of people and accounts.                                     *)

PersonStatus == {"active", "suspended", "revoked"}
UserRow == {Absent} \cup [role : {"owner", "member"}, status : PersonStatus]
BindingRow == {Unbound} \cup [account : Accounts, sender : People,
                              type : {"primary", "legacy_shared"}, state : PersonStatus]
IdentState == {"absent", "active", "paused", "revoked", "pending_pairing", "session_expired"}
SessionRow == [state : {"unused", "waiting_qr", "pending_pairing", "claimed",
                        "expired", "failed", "cancelled", "already_bound"},
               target : People \cup {NoOne}, account : Accounts \cup {NoAccount},
               scanner : People \cup {NoOne}, tries : Nat]

AccountsTypeOK ==
    /\ users \in [People -> UserRow] /\ bindings \in [People -> BindingRow]
    /\ idents \in [Accounts -> IdentState] /\ sessions \in [Sessions -> SessionRow]
    /\ files \in [Accounts -> SUBSET (People \cup {NoOne})] /\ allow \in [Accounts -> SUBSET People]
    /\ active \in Accounts /\ self \in Accounts /\ pollers \subseteq Accounts
    /\ runtimes \in [Accounts -> {"none", "pairing", "polling", "stopped", "session_expired"}]
    /\ qr \in [session : Sessions \cup {NoSession}, tasks : Nat] /\ (qr.tasks > 0 => qr.session \in Sessions)
    /\ doing.step \in {"idle", "register_owner", "attach", "allow_sender", "mirror"}
    /\ admin.step \in {"idle", "suspend", "resume", "revoke"} /\ (admin.step = "idle" => admin = Idle)

\* There is one owner, who is active; a binding belongs to a row and says what
\* it says; before the first owner there is nothing; and the owner is bound,
\* but while the ownership moves.
OneOwner == /\ \A p, q \in Owners : p = q
            /\ \A p \in People : users[p].role = "owner" => users[p].status = "active"
RowsAgree == \A p \in People : /\ users[p] = Absent => bindings[p] = Unbound
                               /\ bindings[p] # Unbound => bindings[p].state = users[p].status
BeforeTheOwner == Owners = {} => /\ Open = {}
                                 /\ \A p \in People : users[p] = Absent
                                 /\ doing.step # "register_owner" => allow[self] = {}
OwnerIsBound == doing.step # "mirror" => \A p \in Owners : bindings[p] # Unbound

\* What a handler that a crash may cut in two has done already.
DoingAgrees ==
    /\ doing.step = "idle" => doing = Idle
    /\ doing.step = "register_owner" => files[self] = {doing.person} /\ doing.person \in People
    /\ doing.step \in {"attach", "allow_sender"} => doing.account \in Accounts /\ doing.person \in People
    /\ doing.step = "attach" => qr.session \in Sessions
    /\ doing.step = "allow_sender" => idents[doing.account] = "active" /\ Owners # {}
    /\ doing.step = "mirror" =>
          /\ doing.person \in Owners /\ doing.from \in People
          /\ users[doing.from] = [role |-> "member", status |-> "active"]
          /\ bindings[doing.from] # Unbound /\ doing.account = bindings[doing.person].account

\* An account waits for its pairing message in the one open session, or is
\* somebody's own; who changes a member holds the member's own account; and
\* nobody is served on an account that waits or was removed.
OneOpen == \A s, t \in Open : s = t
Owned(a) == \E p \in People : bindings[p].account = a /\ bindings[p].type = "primary"
PendingKnown == \A a \in Accounts : idents[a] = "pending_pairing" => Pending(a) # {} \/ Owned(a)
AdminAgrees == admin # Idle => /\ admin.person \in People /\ admin.account \in Accounts
                               /\ bindings[admin.person].account = admin.account
                               /\ bindings[admin.person].type = "primary"
PollingAgrees == \A a \in Accounts : runtimes[a] = "polling" =>
                    /\ idents[a] # "pending_pairing"
                    /\ idents[a] = "revoked" /\ a \in pollers => admin.step = "revoke" /\ admin.account = a

DirectoryInv == /\ AccountsTypeOK /\ OneOwner /\ RowsAgree /\ BeforeTheOwner /\ OwnerIsBound
                /\ DoingAgrees /\ OneOpen /\ PendingKnown /\ AdminAgrees /\ PollingAgrees

LEMMA DirectoryInitInv == AccountsInit => DirectoryInv
<1> SUFFICES ASSUME AccountsInit PROVE DirectoryInv
  OBVIOUS
<1>1. AccountsTypeOK
  <2>1. Unused \in SessionRow
    BY DEF Unused, SessionRow
  <2>2. NoQr \in [session : Sessions \cup {NoSession}, tasks : Nat] /\ ~ (NoQr.tasks > 0)
    BY DEF NoQr
  <2>3. Idle.step = "idle" /\ Absent \in UserRow /\ Unbound \in BindingRow
    BY DEF Idle, UserRow, BindingRow
  <2> QED BY <2>1, <2>2, <2>3, AccountsAssumption
          DEF AccountsInit, AccountsTypeOK, IdentState, NoFile
<1>2. Owners = {} /\ Open = {} /\ \A p \in People : users[p] = Absent
  BY DEF AccountsInit, Owners, Open, Absent, Unused
<1>3. OneOwner /\ RowsAgree /\ BeforeTheOwner /\ OwnerIsBound
  BY <1>2, AccountsAssumption DEF AccountsInit, OneOwner, RowsAgree, BeforeTheOwner, OwnerIsBound, Absent
<1>4. doing = Idle /\ Idle.step = "idle" /\ admin = Idle
  BY DEF AccountsInit, Idle
<1>5. DoingAgrees /\ OneOpen /\ AdminAgrees
  BY <1>2, <1>4 DEF DoingAgrees, OneOpen, AdminAgrees
<1>6. PendingKnown /\ PollingAgrees
  BY DEF AccountsInit, PendingKnown, PollingAgrees
<1> QED BY <1>1, <1>3, <1>5, <1>6 DEF DirectoryInv

\* A row of the table of sessions with two of its columns changed.
LEMMA RowFails ==
    ASSUME NEW u \in SessionRow, NEW state, NEW n
    PROVE  [u EXCEPT !.tries = n, !.state = state] =
               [state |-> state, target |-> u.target, account |-> u.account, scanner |-> u.scanner, tries |-> n]
<1>1. PICK t : t = [state |-> u.state, target |-> u.target, account |-> u.account,
                    scanner |-> u.scanner, tries |-> n]
  OBVIOUS
<1>2. [u EXCEPT !.tries = n] = t
  BY <1>1 DEF SessionRow
<1>3. [t EXCEPT !.state = state] =
          [state |-> state, target |-> u.target, account |-> u.account, scanner |-> u.scanner, tries |-> n]
  BY <1>1
<1> QED BY <1>2, <1>3

LEMMA RowOpens ==
    ASSUME NEW state, NEW t
    PROVE  [Unused EXCEPT !.state = state, !.target = t] =
               [state |-> state, target |-> t, account |-> NoAccount, scanner |-> NoOne, tries |-> 0]
<1>1. PICK z : z = [state |-> state, target |-> NoOne, account |-> NoAccount, scanner |-> NoOne, tries |-> 0]
  OBVIOUS
<1>2. [Unused EXCEPT !.state = state] = z
  BY <1>1 DEF Unused
<1>3. [z EXCEPT !.target = t] =
          [state |-> state, target |-> t, account |-> NoAccount, scanner |-> NoOne, tries |-> 0]
  BY <1>1
<1> QED BY <1>2, <1>3

LEMMA ClosedRow ==
    ASSUME AccountsTypeOK, NEW s \in Sessions,
           NEW how \in {"claimed", "expired", "failed", "cancelled", "already_bound"}, sessions' = Closed(s, how)
    PROVE  /\ sessions' \in [Sessions -> SessionRow] /\ sessions'[s].state = how
           /\ \A t \in Sessions : t # s => sessions'[t] = sessions[t]
           /\ Open' \subseteq Open
<1>1. sessions[s] \in SessionRow
  BY DEF AccountsTypeOK
<1>2. sessions' = [sessions EXCEPT ![s] = [state |-> how, target |-> sessions[s].target, account |-> sessions[s].account,
                                           scanner |-> sessions[s].scanner, tries |-> sessions[s].tries]]
  <2>1. [sessions[s] EXCEPT !.state = how] =
            [state |-> how, target |-> sessions[s].target, account |-> sessions[s].account,
             scanner |-> sessions[s].scanner, tries |-> sessions[s].tries]
    BY <1>1 DEF SessionRow
  <2>2. sessions' = [sessions EXCEPT ![s] = [sessions[s] EXCEPT !.state = how]]
    BY DEF Closed
  <2> QED BY <2>1, <2>2
<1>3. [state |-> how, target |-> sessions[s].target, account |-> sessions[s].account,
       scanner |-> sessions[s].scanner, tries |-> sessions[s].tries] \in SessionRow
  BY <1>1 DEF SessionRow
<1>4. sessions' \in [Sessions -> SessionRow]
  BY <1>2, <1>3 DEF AccountsTypeOK
<1>5. sessions'[s].state = how /\ \A t \in Sessions : t # s => sessions'[t] = sessions[t]
  BY <1>1, <1>2 DEF AccountsTypeOK
<1>6. Open' \subseteq Open
  BY <1>5 DEF Open
<1> QED BY <1>4, <1>5, <1>6

\* A session ends, and with it the account that waited for its pairing.
LEMMA SessionCloses ==
    ASSUME AccountsTypeOK, NEW s \in Open,
           NEW how \in {"claimed", "expired", "failed", "cancelled", "already_bound"},
           sessions' = Closed(s, how), idents' = Withdrawn(sessions[s].account)
    PROVE  /\ sessions' \in [Sessions -> SessionRow] /\ idents' \in [Accounts -> IdentState]
           /\ Open' \subseteq Open
           /\ \A a \in Accounts : idents'[a] = idents[a] \/ (idents[a] = "pending_pairing" /\ idents'[a] = "revoked")
           /\ \A a \in Accounts : idents'[a] = "pending_pairing" => Pending(a) \subseteq Pending(a)'
<1>1. s \in Sessions /\ sessions[s] \in SessionRow
  BY DEF Open, AccountsTypeOK
<1>4. sessions' \in [Sessions -> SessionRow] /\ Open' \subseteq Open
  BY <1>1, ClosedRow
<1>5. sessions'[s].state = how /\ \A t \in Sessions : t # s => sessions'[t] = sessions[t]
  BY <1>1, ClosedRow
<1>7. /\ idents' \in [Accounts -> IdentState]
      /\ \A a \in Accounts : idents'[a] = idents[a] \/ (idents[a] = "pending_pairing" /\ idents'[a] = "revoked")
      /\ \A a \in Accounts : idents'[a] = "pending_pairing" => a # sessions[s].account
  <2>1. CASE sessions[s].account # NoAccount /\ idents[sessions[s].account] = "pending_pairing"
    <3>1. idents' = [idents EXCEPT ![sessions[s].account] = "revoked"] /\ sessions[s].account \in Accounts
      BY <1>1, <2>1 DEF Withdrawn, SessionRow
    <3> QED BY <2>1, <3>1 DEF AccountsTypeOK, IdentState
  <2>2. CASE ~ (sessions[s].account # NoAccount /\ idents[sessions[s].account] = "pending_pairing")
    <3>1. idents' = idents
      BY <2>2 DEF Withdrawn
    <3>2. \A a \in Accounts : a # NoAccount
      BY AccountsAssumption
    <3> QED BY <2>2, <3>1, <3>2 DEF AccountsTypeOK
  <2> QED BY <2>1, <2>2
<1>8. \A a \in Accounts : idents'[a] = "pending_pairing" => Pending(a) \subseteq Pending(a)'
  BY <1>5, <1>7 DEF Pending, Open
<1> QED BY <1>4, <1>7, <1>8

\* A step that leaves the people, and the handler under way, alone.
LEMMA Alongside ==
    ASSUME DirectoryInv, UNCHANGED <<users, bindings, self, doing>>,
           AccountsTypeOK', OneOpen', PendingKnown', AdminAgrees', PollingAgrees',
           Owners = {} => Open' = {} /\ (doing.step # "register_owner" => allow'[self] = {}),
           Quiet \/ (/\ files' = files /\ qr' = qr
                     /\ \A a \in Accounts : idents[a] = "active" => idents'[a] = "active")
    PROVE  DirectoryInv'
<1>1. OneOwner' /\ RowsAgree' /\ Owners' = Owners /\ OwnerIsBound'
  BY DEF DirectoryInv, OneOwner, RowsAgree, OwnerIsBound, Owners
<1>2. BeforeTheOwner'
  BY <1>1 DEF DirectoryInv, BeforeTheOwner, Quiet
<1>3. DoingAgrees'
  <2>1. CASE Quiet
    <3>1. doing'.step = "idle" /\ doing' = Idle
      BY <2>1 DEF Quiet, Idle
    <3> QED BY <3>1 DEF DoingAgrees
  <2>2. CASE ~ Quiet
    BY <1>1, <2>2 DEF DirectoryInv, DoingAgrees
  <2> QED BY <2>1, <2>2
<1> QED BY <1>1, <1>2, <1>3 DEF DirectoryInv

\* A pairing code or an invitation, nothing else.
LEMMA CodesMove ==
    ASSUME DirectoryInv,
           \/ StartOwnerPairing \/ OwnerCodeLapses \/ UNCHANGED accountVars
           \/ \E i \in Invites : CreateInvitation(i) \/ InvitationEnds(i)
    PROVE  DirectoryInv'
<1>1. UNCHANGED <<users, bindings, idents, sessions, files, active, enabled,
                  self, runtimes, allow, pollers, qr, doing, admin>>
  BY DEF StartOwnerPairing, OwnerCodeLapses, CreateInvitation, InvitationEnds, SetInvite, accountVars, processVars
<1> QED BY <1>1 DEF DirectoryInv, AccountsTypeOK, OneOwner, RowsAgree, BeforeTheOwner, OwnerIsBound, DoingAgrees,
              OneOpen, PendingKnown, AdminAgrees, PollingAgrees, Owners, Open, Pending, Owned, Quiet

\* What a closed session leaves of the accounts.
LEMMA AfterClosing ==
    ASSUME DirectoryInv, UNCHANGED <<users, bindings, self, active, doing, admin>>,
           NEW s \in Open, NEW how \in {"claimed", "expired", "failed", "cancelled", "already_bound"},
           sessions' = Closed(s, how), idents' = Withdrawn(sessions[s].account),
           Quiet \/ (files' = files /\ qr' = qr), allow' = allow,
           files' \in [Accounts -> SUBSET (People \cup {NoOne})],
           qr' \in [session : Sessions \cup {NoSession}, tasks : Nat], qr'.tasks > 0 => qr'.session \in Sessions,
           runtimes' \in [Accounts -> {"none", "pairing", "polling", "stopped", "session_expired"}],
           pollers' \subseteq pollers,
           \A a \in Accounts : runtimes'[a] = "polling" => runtimes[a] = "polling"
    PROVE  DirectoryInv'
<1>1. /\ AccountsTypeOK /\ BeforeTheOwner /\ OneOpen /\ PendingKnown /\ AdminAgrees /\ PollingAgrees
  BY DEF DirectoryInv
<1>2. /\ sessions' \in [Sessions -> SessionRow] /\ idents' \in [Accounts -> IdentState]
      /\ Open' \subseteq Open
      /\ \A a \in Accounts : idents'[a] = idents[a] \/ (idents[a] = "pending_pairing" /\ idents'[a] = "revoked")
      /\ \A a \in Accounts : idents'[a] = "pending_pairing" => Pending(a) \subseteq Pending(a)'
  BY <1>1, SessionCloses
<1>3. AccountsTypeOK'
  BY <1>1, <1>2 DEF AccountsTypeOK
<1>4. OneOpen' /\ AdminAgrees'
  BY <1>1, <1>2 DEF OneOpen, AdminAgrees
<1>5. PendingKnown'
  <2> SUFFICES ASSUME NEW a \in Accounts, idents'[a] = "pending_pairing" PROVE Pending(a)' # {} \/ Owned(a)'
    BY DEF PendingKnown
  <2>1. Pending(a) # {} \/ Owned(a)
    BY <1>1, <1>2 DEF PendingKnown
  <2> QED BY <1>2, <2>1 DEF Owned
<1>6. PollingAgrees'
  BY <1>1, <1>2 DEF PollingAgrees
<1>7. Owners # {}
  BY <1>1 DEF BeforeTheOwner
<1>8. \A a \in Accounts : idents[a] = "active" => idents'[a] = "active"
  BY <1>2
<1> QED BY <1>3, <1>4, <1>5, <1>6, <1>7, <1>8, Alongside

LEMMA DiscardFacts ==
    ASSUME AccountsTypeOK, NEW a \in Accounts, Discard(a)
    PROVE  /\ files' \in [Accounts -> SUBSET (People \cup {NoOne})]
           /\ pollers' = pollers \ {a}
           /\ runtimes' \in [Accounts -> {"none", "pairing", "polling", "stopped", "session_expired"}]
           /\ runtimes'[a] = "none" /\ \A b \in Accounts : b # a => runtimes'[b] = runtimes[b]
BY DEF AccountsTypeOK, Discard, NoFile

LEMMA SessionsEnd ==
    ASSUME DirectoryInv,
           \/ \E s \in Sessions : SessionLapses(s) \/ CleanupExpires(s) \/ CancelOnboarding(s)
           \/ \E how \in {"expired", "failed", "already_bound"} : QrEnds(how)
    PROVE  DirectoryInv'
<1>1. AccountsTypeOK
  BY DEF DirectoryInv
<1>2. ASSUME NEW s \in Sessions, SessionLapses(s) PROVE DirectoryInv'
  <2>1. s \in Open /\ sessions' = Closed(s, "expired") /\ idents' = Withdrawn(sessions[s].account)
        /\ UNCHANGED <<users, bindings, self, active, doing, admin, files, qr, allow, runtimes, pollers>>
    BY <1>2 DEF SessionLapses, processVars
  <2> QED BY <1>1, <2>1, AfterClosing DEF AccountsTypeOK
<1>3. ASSUME NEW s \in Sessions, CleanupExpires(s) \/ CancelOnboarding(s) PROVE DirectoryInv'
  <2>1. PICK a : a = sessions[s].account
    OBVIOUS
  <2>2. PICK how \in {"expired", "cancelled"} : sessions' = Closed(s, how)
    BY <1>3 DEF CleanupExpires, CancelOnboarding
  <2>3. /\ s \in Open /\ idents' = Withdrawn(sessions[s].account) /\ Quiet
        /\ UNCHANGED <<users, bindings, self, active, doing, admin, allow>>
        /\ IF a # NoAccount /\ runtimes[a] # "none" THEN Discard(a) ELSE UNCHANGED <<files, runtimes, pollers>>
    BY <1>3, <2>1 DEF CleanupExpires, CancelOnboarding, Discard
  <2>4. qr' = qr \/ (qr.tasks > 0 /\ qr' = [qr EXCEPT !.tasks = @ - 1])
    BY <1>3 DEF CleanupExpires, CancelOnboarding
  <2>5. qr' \in [session : Sessions \cup {NoSession}, tasks : Nat] /\ (qr'.tasks > 0 => qr'.session \in Sessions)
    BY <1>1, <2>4 DEF AccountsTypeOK
  <2>6. a \in Accounts \cup {NoAccount}
    BY <1>1, <2>1 DEF AccountsTypeOK, SessionRow
  <2>7. /\ files' \in [Accounts -> SUBSET (People \cup {NoOne})] /\ pollers' \subseteq pollers
        /\ runtimes' \in [Accounts -> {"none", "pairing", "polling", "stopped", "session_expired"}]
        /\ \A b \in Accounts : runtimes'[b] = "polling" => runtimes[b] = "polling"
    <3>1. CASE a # NoAccount /\ runtimes[a] # "none"
      BY <1>1, <2>3, <2>6, <3>1, DiscardFacts
    <3>2. CASE ~ (a # NoAccount /\ runtimes[a] # "none")
      BY <1>1, <2>3, <3>2 DEF AccountsTypeOK
    <3> QED BY <3>1, <3>2
  <2>8. how \in {"claimed", "expired", "failed", "cancelled", "already_bound"}
    OBVIOUS
  <2> QED BY <2>2, <2>3, <2>5, <2>7, <2>8, AfterClosing
<1>4. ASSUME NEW how \in {"expired", "failed", "already_bound"}, QrEnds(how) PROVE DirectoryInv'
  <2>1. /\ Quiet /\ qr.tasks > 0 /\ qr' = [qr EXCEPT !.tasks = @ - 1] /\ OnboardingEnds(qr.session, how)
        /\ UNCHANGED <<users, bindings, self, active, doing, admin, allow, files, runtimes, pollers>>
    BY <1>4 DEF QrEnds
  <2>2. qr' \in [session : Sessions \cup {NoSession}, tasks : Nat] /\ (qr'.tasks > 0 => qr'.session \in Sessions)
    BY <1>1, <2>1 DEF AccountsTypeOK
  <2>3. CASE qr.session \in Open
    <3>1. PICK s \in Open : s = qr.session
      BY <2>3
    <3>2. sessions' = Closed(s, how) /\ idents' = Withdrawn(sessions[s].account)
      BY <2>1, <3>1 DEF OnboardingEnds
    <3> QED BY <1>1, <2>1, <2>2, <3>2, AfterClosing DEF AccountsTypeOK
  <2>4. CASE qr.session \notin Open
    <3>1. UNCHANGED <<sessions, idents>>
      BY <2>1, <2>4 DEF OnboardingEnds
    <3>2. AccountsTypeOK'
      BY <1>1, <2>1, <2>2, <3>1 DEF AccountsTypeOK
    <3>3. OneOpen' /\ PendingKnown' /\ AdminAgrees' /\ PollingAgrees' /\ Open' = Open
      BY <2>1, <3>1 DEF DirectoryInv, OneOpen, PendingKnown, AdminAgrees, PollingAgrees, Open, Pending, Owned
    <3> QED BY <2>1, <3>2, <3>3, Alongside DEF DirectoryInv, BeforeTheOwner
  <2> QED BY <2>3, <2>4
<1> QED BY <1>2, <1>3, <1>4

LEMMA WrongCodes == ASSUME DirectoryInv, NEW a \in Accounts, NEW x \in People, WrongCode(a, x) PROVE DirectoryInv'
<1>1. /\ AccountsTypeOK /\ BeforeTheOwner /\ OneOpen /\ PendingKnown /\ AdminAgrees /\ PollingAgrees
  BY DEF DirectoryInv
<1>2. PICK s \in Pending(a) :
          IF sessions[s].tries + 1 < MaxTries
          THEN /\ sessions' = [sessions EXCEPT ![s].tries = @ + 1]
               /\ UNCHANGED <<idents, files, runtimes, pollers>>
          ELSE /\ sessions' = [sessions EXCEPT ![s].tries = @ + 1, ![s].state = "failed"]
               /\ idents' = [idents EXCEPT ![a] = "revoked"]
               /\ Discard(a)
  BY DEF WrongCode
<1>3. Quiet /\ UNCHANGED <<users, bindings, active, self, allow, qr, doing, admin>>
  BY DEF WrongCode, Listens, Hears
<1>4. s \in Open /\ s \in Sessions /\ sessions[s] \in SessionRow /\ sessions[s].account = a
  BY <1>1, <1>2 DEF Pending, Open, AccountsTypeOK
<1>5. Owners # {}
  BY <1>1, <1>4 DEF BeforeTheOwner
<1>6. sessions[s].tries + 1 \in Nat
  BY <1>4 DEF SessionRow
<1>7. CASE sessions[s].tries + 1 < MaxTries
  <2>1. sessions' = [sessions EXCEPT ![s] = [sessions[s] EXCEPT !.tries = sessions[s].tries + 1]]
        /\ UNCHANGED <<idents, files, runtimes, pollers>>
    BY <1>2, <1>7
  <2>2. [sessions[s] EXCEPT !.tries = sessions[s].tries + 1] \in SessionRow
        /\ [sessions[s] EXCEPT !.tries = sessions[s].tries + 1].state = sessions[s].state
        /\ [sessions[s] EXCEPT !.tries = sessions[s].tries + 1].account = sessions[s].account
    BY <1>4, <1>6 DEF SessionRow
  <2>3. sessions' \in [Sessions -> SessionRow]
        /\ \A t \in Sessions : sessions'[t].state = sessions[t].state /\ sessions'[t].account = sessions[t].account
    BY <1>1, <1>4, <2>1, <2>2 DEF AccountsTypeOK
  <2>4. Open' = Open
    BY <2>3 DEF Open
  <2>5. \A b \in Accounts : Pending(b)' = Pending(b)
    BY <2>3, <2>4 DEF Pending, Open
  <2>6. AccountsTypeOK'
    BY <1>1, <1>3, <2>1, <2>3 DEF AccountsTypeOK
  <2>7. OneOpen' /\ PendingKnown' /\ AdminAgrees' /\ PollingAgrees'
    BY <1>1, <1>3, <2>1, <2>4, <2>5 DEF OneOpen, PendingKnown, AdminAgrees, PollingAgrees, Owned
  <2> QED BY <1>3, <1>5, <2>6, <2>7, Alongside
<1>8. CASE ~ (sessions[s].tries + 1 < MaxTries)
  <2>1. /\ sessions' = [sessions EXCEPT ![s].tries = @ + 1, ![s].state = "failed"]
        /\ idents' = [idents EXCEPT ![a] = "revoked"] /\ Discard(a)
    BY <1>2, <1>8
  <2>2. PICK r : r = [state |-> "failed", target |-> sessions[s].target, account |-> a,
                      scanner |-> sessions[s].scanner, tries |-> sessions[s].tries + 1]
    OBVIOUS
  <2>3. r \in SessionRow /\ r.state = "failed"
    BY <1>4, <1>6, <2>2 DEF SessionRow
  <2>4. sessions' = [sessions EXCEPT ![s] = r]
    <3>1. [[sessions[s] EXCEPT !.tries = sessions[s].tries + 1] EXCEPT !.state = "failed"] = r
      <4>1. [[sessions[s] EXCEPT !.tries = sessions[s].tries + 1] EXCEPT !.state = "failed"] =
                [sessions[s] EXCEPT !.tries = sessions[s].tries + 1, !.state = "failed"]
        OBVIOUS
      <4>2. [sessions[s] EXCEPT !.tries = sessions[s].tries + 1, !.state = "failed"] = r
        BY <1>4, <2>2, RowFails
      <4> QED BY <4>1, <4>2
    <3>2. PICK q : q = [sessions EXCEPT ![s] = [sessions[s] EXCEPT !.tries = sessions[s].tries + 1]]
      OBVIOUS
    <3>3. sessions' = [q EXCEPT ![s] = [q[s] EXCEPT !.state = "failed"]]
      BY <1>1, <1>4, <2>1, <3>2 DEF AccountsTypeOK
    <3> QED BY <1>1, <1>4, <3>1, <3>2, <3>3 DEF AccountsTypeOK
  <2>5. sessions' \in [Sessions -> SessionRow] /\ sessions'[s].state = "failed"
        /\ \A t \in Sessions : t # s => sessions'[t] = sessions[t]
    BY <1>1, <1>4, <2>3, <2>4 DEF AccountsTypeOK
  <2>6. Open' \subseteq Open
    BY <2>5 DEF Open
  <2>7. /\ idents' \in [Accounts -> IdentState] /\ idents'[a] = "revoked"
        /\ \A b \in Accounts : b # a => idents'[b] = idents[b]
    BY <1>1, <2>1 DEF AccountsTypeOK, IdentState
  <2>8. \A b \in Accounts : b # a => Pending(b) \subseteq Pending(b)'
    BY <1>4, <2>5 DEF Pending, Open
  <2>9. AccountsTypeOK'
    BY <1>1, <1>3, <2>1, <2>5, <2>7, DiscardFacts DEF AccountsTypeOK
  <2>10. OneOpen' /\ AdminAgrees'
    BY <1>1, <1>3, <2>6 DEF OneOpen, AdminAgrees
  <2>11. PendingKnown'
    <3> SUFFICES ASSUME NEW b \in Accounts, idents'[b] = "pending_pairing" PROVE Pending(b)' # {} \/ Owned(b)'
      BY DEF PendingKnown
    <3>1. b # a /\ (Pending(b) # {} \/ Owned(b))
      BY <1>1, <2>7 DEF PendingKnown
    <3> QED BY <1>3, <2>8, <3>1 DEF Owned
  <2>12. PollingAgrees'
    BY <1>1, <1>3, <2>1, <2>7, DiscardFacts DEF PollingAgrees
  <2> QED BY <1>3, <1>5, <2>9, <2>10, <2>11, <2>12, Alongside
<1> QED BY <1>7, <1>8

\* A session for a new account, and the account that a scan brings.
LEMMA SessionBegins ==
    ASSUME DirectoryInv, NEW s \in Sessions, NEW t \in People \cup {NoOne}, CreateOnboarding(s, t)
    PROVE  DirectoryInv'
<1>1. /\ AccountsTypeOK /\ BeforeTheOwner /\ OneOpen /\ PendingKnown /\ AdminAgrees /\ PollingAgrees
  BY DEF DirectoryInv
<1>2. /\ Quiet /\ Open = {} /\ Owners # {} /\ sessions[s] = Unused
      /\ UNCHANGED <<users, bindings, idents, files, active, self, runtimes, allow, pollers, doing, admin>>
      /\ \/ /\ sessions' = [sessions EXCEPT ![s] = [Unused EXCEPT !.state = "waiting_qr", !.target = t]]
            /\ qr' = [session |-> s, tasks |-> qr.tasks + 1]
         \/ /\ sessions' = [sessions EXCEPT ![s] = [Unused EXCEPT !.state = "failed", !.target = t]]
            /\ qr' = qr
  BY DEF CreateOnboarding
<1>3. PICK how \in {"waiting_qr", "failed"} :
          /\ sessions' = [sessions EXCEPT ![s] = [Unused EXCEPT !.state = how, !.target = t]]
          /\ qr' = qr \/ qr' = [session |-> s, tasks |-> qr.tasks + 1]
  BY <1>2
<1>4. PICK r : r = [state |-> how, target |-> t, account |-> NoAccount, scanner |-> NoOne, tries |-> 0]
  OBVIOUS
<1>5. sessions' = [sessions EXCEPT ![s] = r]
  <2>1. [Unused EXCEPT !.state = how, !.target = t] = r
    BY <1>4, RowOpens
  <2> QED BY <1>3, <2>1
<1>6. r \in SessionRow
  BY <1>4 DEF SessionRow
<1>7. sessions' \in [Sessions -> SessionRow] /\ \A q \in Sessions : q # s => sessions'[q] = sessions[q]
  BY <1>1, <1>5, <1>6 DEF AccountsTypeOK
<1>8. Open' \subseteq {s}
  BY <1>2, <1>7 DEF Open
<1>9. qr' \in [session : Sessions \cup {NoSession}, tasks : Nat] /\ (qr'.tasks > 0 => qr'.session \in Sessions)
  <2>1. qr.tasks + 1 \in Nat
    BY <1>1 DEF AccountsTypeOK
  <2>2. CASE qr' = qr
    BY <1>1, <2>2 DEF AccountsTypeOK
  <2>3. CASE qr' = [session |-> s, tasks |-> qr.tasks + 1]
    BY <2>1, <2>3
  <2> QED BY <1>3, <2>2, <2>3
<1>10. AccountsTypeOK'
  BY <1>1, <1>2, <1>7, <1>9 DEF AccountsTypeOK
<1>11. \A a \in Accounts : Pending(a) = {}
  BY <1>2 DEF Pending
<1>12. OneOpen' /\ PendingKnown' /\ AdminAgrees' /\ PollingAgrees'
  BY <1>1, <1>2, <1>8, <1>11 DEF OneOpen, PendingKnown, AdminAgrees, PollingAgrees, Owned
<1> QED BY <1>2, <1>10, <1>12, Alongside

LEMMA ScanAccepted == ASSUME DirectoryInv, NEW a \in Accounts, NEW x \in People, AcceptMemberQr(a, x) PROVE DirectoryInv'
<1>1. AccountsTypeOK
  BY DEF DirectoryInv
<1>2. /\ Quiet /\ qr.tasks > 0 /\ qr' = [qr EXCEPT !.tasks = @ - 1]
      /\ files' = [files EXCEPT ![a] = {}] /\ doing' = Step("attach", a, x)
      /\ UNCHANGED <<users, bindings, idents, sessions, active, self, runtimes, allow, pollers, admin>>
  BY DEF AcceptMemberQr
<1>3. /\ qr' \in [session : Sessions \cup {NoSession}, tasks : Nat] /\ (qr'.tasks > 0 => qr'.session \in Sessions)
      /\ qr'.session \in Sessions
  BY <1>1, <1>2 DEF AccountsTypeOK
<1>4. doing'.step = "attach" /\ doing'.account = a /\ doing'.person = x
  BY <1>2 DEF Step
<1>5. AccountsTypeOK'
  BY <1>1, <1>2, <1>3, <1>4 DEF AccountsTypeOK
<1>6. DoingAgrees'
  BY <1>3, <1>4 DEF DoingAgrees
<1>7. doing.step = "idle"
  BY <1>2 DEF Quiet, Idle
<1>8. OneOwner' /\ RowsAgree' /\ BeforeTheOwner' /\ OwnerIsBound'
  BY <1>2, <1>4, <1>7 DEF DirectoryInv, OneOwner, RowsAgree, BeforeTheOwner, OwnerIsBound, Owners, Open, Quiet, Idle
<1>9. OneOpen' /\ PendingKnown' /\ AdminAgrees' /\ PollingAgrees'
  BY <1>2 DEF DirectoryInv, OneOpen, PendingKnown, AdminAgrees, PollingAgrees, Open, Pending, Owned
<1> QED BY <1>5, <1>6, <1>8, <1>9 DEF DirectoryInv

LEMMA ResumeFacts ==
    ASSUME AccountsTypeOK, NEW a \in Accounts, NEW ids \in [Accounts -> IdentState],
           NEW allows \in [Accounts -> SUBSET People], Resume(a, ids, allows)
    PROVE  /\ idents' \in [Accounts -> IdentState] /\ pollers' \subseteq Accounts /\ pollers' \subseteq pollers \cup {a}
           /\ runtimes' \in [Accounts -> {"none", "pairing", "polling", "stopped", "session_expired"}]
           /\ \A b \in Accounts : b # a => runtimes'[b] = runtimes[b] /\ idents'[b] = ids[b]
           /\ runtimes'[a] = "polling" => idents'[a] = "active"
           /\ ids[a] = "pending_pairing" => idents'[a] = "pending_pairing"
<1>1. CASE ~ enabled
  BY <1>1 DEF Resume, AccountsTypeOK
<1>2. CASE enabled
  <2>1. PICK r : r = IF Pairs(a, ids, allows) THEN "pairing" ELSE "polling"
    OBVIOUS
  <2>2. PICK i : i = IF Pairs(a, ids, allows) THEN "pending_pairing" ELSE "active"
    OBVIOUS
  <2>3. /\ runtimes' = [runtimes EXCEPT ![a] = r] /\ idents' = [ids EXCEPT ![a] = i] /\ pollers' = pollers \cup {a}
    BY <1>2, <2>1, <2>2 DEF Resume
  <2>4. r \in {"pairing", "polling"} /\ i \in IdentState /\ (r = "polling" => i = "active")
        /\ (ids[a] = "pending_pairing" => i = "pending_pairing")
    BY <2>1, <2>2 DEF Pairs, IdentState
  <2> QED BY <2>3, <2>4 DEF AccountsTypeOK
<1> QED BY <1>1, <1>2

LEMMA AttachMoves == ASSUME DirectoryInv, AttachIdentity PROVE DirectoryInv'
<1>1. /\ AccountsTypeOK /\ OneOpen /\ PendingKnown /\ AdminAgrees /\ PollingAgrees /\ BeforeTheOwner
      /\ doing.step = "attach" /\ doing' = Idle
      /\ UNCHANGED <<users, bindings, files, active, self, qr, admin>>
  BY DEF DirectoryInv, AttachIdentity
<1>2. PICK s \in Sessions : s = qr.session
  BY <1>1 DEF DirectoryInv, DoingAgrees
<1>3. PICK a \in Accounts : a = doing.account
  BY <1>1 DEF DirectoryInv, DoingAgrees
<1>4. PICK x \in People : x = doing.person
  BY <1>1 DEF DirectoryInv, DoingAgrees
<1>5. doing'.step = "idle" /\ DoingAgrees'
  BY <1>1 DEF Idle, DoingAgrees
<1>6. OneOwner' /\ RowsAgree' /\ OwnerIsBound' /\ Owners' = Owners
  BY <1>1 DEF DirectoryInv, OneOwner, RowsAgree, OwnerIsBound, Owners
<1>7. ASSUME sessions' \in [Sessions -> SessionRow], idents' \in [Accounts -> IdentState],
             allow' \in [Accounts -> SUBSET People], pollers' \subseteq Accounts,
             runtimes' \in [Accounts -> {"none", "pairing", "polling", "stopped", "session_expired"}]
      PROVE  AccountsTypeOK'
  BY <1>1, <1>5, <1>7 DEF AccountsTypeOK
<1>a. PICK duplicate \in Duplicates(x) :
          IF MayAttach(s, duplicate)
          THEN /\ sessions' = [sessions EXCEPT ![s] = [@ EXCEPT !.state = "pending_pairing",
                                                               !.account = a, !.scanner = x]]
               /\ allow' = [allow EXCEPT ![a] = {}]
               /\ Resume(a, [idents EXCEPT ![a] = "pending_pairing"], allow')
          ELSE /\ sessions' = IF sessions[s].state = "waiting_qr" THEN Closed(s, "failed") ELSE sessions
               /\ UNCHANGED <<idents, runtimes, allow, pollers>>
  BY <1>2, <1>3, <1>4 DEF AttachIdentity
<1>8. CASE MayAttach(s, duplicate)
  <2>1. /\ sessions' = [sessions EXCEPT ![s] = [@ EXCEPT !.state = "pending_pairing", !.account = a, !.scanner = x]]
        /\ allow' = [allow EXCEPT ![a] = {}]
        /\ Resume(a, [idents EXCEPT ![a] = "pending_pairing"], allow')
    BY <1>8, <1>a
  <2>2. sessions[s] \in SessionRow /\ sessions[s].state = "waiting_qr" /\ s \in Open
    BY <1>1, <1>8 DEF AccountsTypeOK, MayAttach, Open
  <2>3. PICK r : r = [state |-> "pending_pairing", target |-> sessions[s].target, account |-> a,
                      scanner |-> x, tries |-> sessions[s].tries]
    OBVIOUS
  <2>4. [sessions[s] EXCEPT !.state = "pending_pairing", !.account = a, !.scanner = x] = r
    <3>1. PICK v : v = [state |-> "pending_pairing", target |-> sessions[s].target, account |-> sessions[s].account,
                        scanner |-> sessions[s].scanner, tries |-> sessions[s].tries]
      OBVIOUS
    <3>2. [sessions[s] EXCEPT !.state = "pending_pairing"] = v
      BY <2>2, <3>1 DEF SessionRow
    <3>3. PICK w : w = [state |-> "pending_pairing", target |-> sessions[s].target, account |-> a,
                        scanner |-> sessions[s].scanner, tries |-> sessions[s].tries]
      OBVIOUS
    <3>4. [v EXCEPT !.account = a] = w
      BY <3>1, <3>3
    <3>5. [w EXCEPT !.scanner = x] = r
      BY <2>3, <3>3
    <3> QED BY <3>2, <3>4, <3>5
  <2>5. sessions' = [sessions EXCEPT ![s] = r] /\ r \in SessionRow
    BY <2>1, <2>2, <2>3, <2>4 DEF SessionRow
  <2>6. sessions' \in [Sessions -> SessionRow] /\ sessions'[s] = r
        /\ \A t \in Sessions : t # s => sessions'[t] = sessions[t]
    BY <1>1, <2>5 DEF AccountsTypeOK
  <2>7. Open' = Open
    BY <2>2, <2>3, <2>6 DEF Open
  <2>8. s \in Pending(a)' /\ \A b \in Accounts : Pending(b) \subseteq Pending(b)'
    BY <2>2, <2>3, <2>6, <2>7 DEF Pending, Open
  <2>9. PICK ids \in [Accounts -> IdentState] : ids = [idents EXCEPT ![a] = "pending_pairing"]
    BY <1>1 DEF AccountsTypeOK, IdentState
  <2>10. ids[a] = "pending_pairing" /\ \A b \in Accounts : b # a => ids[b] = idents[b]
    BY <1>1, <2>9 DEF AccountsTypeOK
  <2>11. PICK allows \in [Accounts -> SUBSET People] : allows = allow'
    BY <1>1, <2>1 DEF AccountsTypeOK
  <2>12. Resume(a, ids, allows)
    BY <2>1, <2>9, <2>11 DEF Resume, Pairs
  <2>13. /\ idents' \in [Accounts -> IdentState] /\ pollers' \subseteq Accounts /\ pollers' \subseteq pollers \cup {a}
         /\ runtimes' \in [Accounts -> {"none", "pairing", "polling", "stopped", "session_expired"}]
         /\ \A b \in Accounts : b # a => runtimes'[b] = runtimes[b] /\ idents'[b] = ids[b]
         /\ runtimes'[a] = "polling" => idents'[a] = "active"
         /\ ids[a] = "pending_pairing" => idents'[a] = "pending_pairing"
    BY <1>1, <2>12, ResumeFacts
  <2>14. AccountsTypeOK'
    BY <1>7, <2>6, <2>11, <2>13
  <2>15. OneOpen' /\ AdminAgrees'
    BY <1>1, <2>7 DEF OneOpen, AdminAgrees
  <2>16. PendingKnown'
    <3> SUFFICES ASSUME NEW b \in Accounts, idents'[b] = "pending_pairing" PROVE Pending(b)' # {} \/ Owned(b)'
      BY DEF PendingKnown
    <3>1. CASE b = a
      BY <2>8, <3>1
    <3>2. CASE b # a
      <4>1. Pending(b) # {} \/ Owned(b)
        BY <1>1, <2>10, <2>13, <3>2 DEF PendingKnown
      <4> QED BY <1>1, <2>8, <4>1 DEF Owned
    <3> QED BY <3>1, <3>2
  <2>17. PollingAgrees'
    BY <1>1, <2>10, <2>13 DEF PollingAgrees
  <2>18. Owners # {}
    BY <1>1, <2>2 DEF BeforeTheOwner
  <2>19. BeforeTheOwner'
    BY <1>6, <2>18 DEF BeforeTheOwner
  <2> QED BY <1>5, <1>6, <2>14, <2>15, <2>16, <2>17, <2>19 DEF DirectoryInv
<1>9. CASE ~ MayAttach(s, duplicate)
  <2>1. /\ sessions' = IF sessions[s].state = "waiting_qr" THEN Closed(s, "failed") ELSE sessions
        /\ UNCHANGED <<idents, runtimes, allow, pollers>>
    BY <1>9, <1>a
  <2>2. /\ sessions' \in [Sessions -> SessionRow] /\ Open' \subseteq Open
        /\ \A b \in Accounts : Pending(b) \subseteq Pending(b)'
    <3>1. CASE sessions[s].state # "waiting_qr"
      BY <1>1, <2>1, <3>1 DEF AccountsTypeOK, Open, Pending
    <3>2. CASE sessions[s].state = "waiting_qr"
      <4>1. sessions' = Closed(s, "failed") /\ s \in Sessions
        BY <1>1, <2>1, <3>2
      <4>2. /\ sessions' \in [Sessions -> SessionRow] /\ sessions'[s].state = "failed"
            /\ \A t \in Sessions : t # s => sessions'[t] = sessions[t]
        BY <1>1, <4>1, ClosedRow
      <4> QED BY <3>2, <4>2 DEF Open, Pending
    <3> QED BY <3>1, <3>2
  <2>3. AccountsTypeOK'
    BY <1>1, <1>7, <2>1, <2>2 DEF AccountsTypeOK
  <2>4. OneOpen' /\ PendingKnown' /\ AdminAgrees' /\ PollingAgrees'
    BY <1>1, <2>1, <2>2 DEF OneOpen, PendingKnown, AdminAgrees, PollingAgrees, Owned
  <2>5. BeforeTheOwner'
    BY <1>1, <1>6, <2>1, <2>2 DEF BeforeTheOwner
  <2> QED BY <1>5, <1>6, <2>3, <2>4, <2>5 DEF DirectoryInv
<1> QED BY <1>8, <1>9

\* What a start and a stop of the pollers leave.
LEMMA StartFacts ==
    ASSUME DirectoryInv, UNCHANGED <<idents, admin>>, Start(Known, idents, allow)
    PROVE  /\ pollers' \subseteq Accounts
           /\ runtimes' \in [Accounts -> {"none", "pairing", "polling", "stopped", "session_expired"}]
           /\ PollingAgrees'
<1>1. AccountsTypeOK /\ PollingAgrees
  BY DEF DirectoryInv
<1>2. /\ pollers' = (Known \cap Startable(idents)) \cup (pollers \cap Known)
      /\ runtimes' = [a \in Accounts |->
             IF a \in pollers' \ pollers THEN IF Pairs(a, idents, allow) THEN "pairing" ELSE "polling"
             ELSE runtimes[a]]
  BY DEF Start
<1>3. pollers' \subseteq Accounts
  BY <1>1, <1>2 DEF AccountsTypeOK, Known
<1>4. runtimes' \in [Accounts -> {"none", "pairing", "polling", "stopped", "session_expired"}]
  BY <1>1, <1>2 DEF AccountsTypeOK
<1>5. ASSUME NEW a \in Accounts, runtimes'[a] = "polling"
      PROVE  /\ idents[a] # "pending_pairing"
             /\ idents[a] = "revoked" /\ a \in pollers' => admin.step = "revoke" /\ admin.account = a
  <2>1. CASE a \in pollers' \ pollers
    <3>1. a \in Startable(idents) /\ ~ Pairs(a, idents, allow)
      BY <1>2, <1>5, <2>1
    <3> QED BY <3>1 DEF Startable, Pairs
  <2>2. CASE a \notin pollers' \ pollers
    <3>1. runtimes[a] = "polling"
      BY <1>2, <1>5, <2>2
    <3> QED BY <1>1, <2>2, <3>1 DEF PollingAgrees
  <2> QED BY <2>1, <2>2
<1> QED BY <1>3, <1>4, <1>5 DEF PollingAgrees

LEMMA StopFacts ==
    ASSUME StopAll
    PROVE  /\ pollers' \subseteq Accounts
           /\ runtimes' \in [Accounts -> {"none", "pairing", "polling", "stopped", "session_expired"}]
           /\ PollingAgrees'
BY DEF StopAll, PollingAgrees

LEMMA PollersMove ==
    ASSUME DirectoryInv,
           \/ PauseMaintenance \/ ResumeMaintenance \/ \E on \in BOOLEAN : SetPoller(on)
    PROVE  DirectoryInv'
<1>1. /\ Quiet /\ UNCHANGED <<users, bindings, idents, sessions, files, active, self, allow, qr, doing, admin>>
      /\ Start(Known, idents, allow) \/ StopAll \/ UNCHANGED <<pollers, runtimes>>
  BY DEF PauseMaintenance, ResumeMaintenance, SetPoller, durableVars
<1>2. AccountsTypeOK /\ PollingAgrees /\ BeforeTheOwner
  BY DEF DirectoryInv
<1>3. /\ pollers' \subseteq Accounts
      /\ runtimes' \in [Accounts -> {"none", "pairing", "polling", "stopped", "session_expired"}]
      /\ PollingAgrees'
  <2>1. CASE UNCHANGED <<pollers, runtimes>>
    BY <1>1, <1>2, <2>1 DEF AccountsTypeOK, PollingAgrees
  <2> QED BY <1>1, <2>1, StartFacts, StopFacts
<1>4. AccountsTypeOK'
  BY <1>1, <1>2, <1>3 DEF AccountsTypeOK
<1>5. OneOpen' /\ PendingKnown' /\ AdminAgrees' /\ Open' = Open
  BY <1>1 DEF DirectoryInv, OneOpen, PendingKnown, AdminAgrees, Open, Pending, Owned
<1> QED BY <1>1, <1>2, <1>3, <1>4, <1>5, Alongside DEF BeforeTheOwner

LEMMA SessionsExpire == ASSUME DirectoryInv, NEW a \in Accounts, SessionExpired(a) PROVE DirectoryInv'
<1>1. /\ Quiet /\ UNCHANGED <<users, bindings, sessions, files, active, self, allow, qr, doing, admin>>
      /\ runtimes' = [runtimes EXCEPT ![a] = "session_expired"]
      /\ idents' = [idents EXCEPT ![a] = "session_expired"] /\ pollers' = pollers \ {a}
  BY DEF SessionExpired, Hears
<1>2. AccountsTypeOK /\ PollingAgrees /\ BeforeTheOwner /\ PendingKnown /\ OneOpen /\ AdminAgrees
  BY DEF DirectoryInv
<1>3. AccountsTypeOK'
  BY <1>1, <1>2 DEF AccountsTypeOK, IdentState
<1>4. /\ idents'[a] = "session_expired" /\ runtimes'[a] = "session_expired"
      /\ \A b \in Accounts : b # a => idents'[b] = idents[b] /\ runtimes'[b] = runtimes[b]
  BY <1>1, <1>2 DEF AccountsTypeOK
<1>5. PendingKnown' /\ PollingAgrees'
  BY <1>1, <1>2, <1>4 DEF PendingKnown, PollingAgrees, Pending, Open, Owned
<1>6. OneOpen' /\ AdminAgrees' /\ Open' = Open
  BY <1>1, <1>2 DEF OneOpen, AdminAgrees, Open
<1> QED BY <1>1, <1>2, <1>3, <1>5, <1>6, Alongside DEF BeforeTheOwner

\* ThenRuntime: who changes a member holds the member's own account.
LEMMA HeldThen ==
    ASSUME AccountsTypeOK, NEW p \in People, NEW act \in {"suspend", "resume", "revoke"}, ThenRuntime(p, act)
    PROVE  /\ admin'.step \in {"idle", "suspend", "resume", "revoke"} /\ (admin'.step = "idle" => admin' = Idle)
           /\ admin' # Idle => /\ admin'.person = p /\ admin'.account = bindings[p].account
                               /\ admin'.account \in Accounts /\ bindings[p].type = "primary" /\ admin'.step = act
           /\ bindings[p].type = "primary" /\ runtimes[bindings[p].account] # "none" => admin' # Idle
<1>1. bindings[p].type = "primary" => bindings[p].account \in Accounts
  BY DEF AccountsTypeOK, BindingRow, Unbound
<1>2. CASE bindings[p].type = "primary" /\ runtimes[bindings[p].account] # "none"
  <2>1. admin' = Step(act, bindings[p].account, p)
    BY <1>2 DEF ThenRuntime
  <2> QED BY <1>1, <1>2, <2>1 DEF Step, Idle
<1>3. CASE ~ (bindings[p].type = "primary" /\ runtimes[bindings[p].account] # "none")
  BY <1>3 DEF ThenRuntime, Idle
<1> QED BY <1>2, <1>3

LEMMA ReplaysMove ==
    ASSUME DirectoryInv, NEW p \in People, NEW act \in {"suspend", "resume", "revoke"}, ReplayChange(p, act)
    PROVE  DirectoryInv'
<1>1. /\ Quiet /\ admin = Idle /\ ThenRuntime(p, act)
      /\ UNCHANGED <<users, bindings, idents, sessions, files, active, self, runtimes, allow, pollers, qr, doing>>
  BY DEF ReplayChange, durableVars
<1>2. AccountsTypeOK /\ PollingAgrees /\ BeforeTheOwner /\ PendingKnown /\ OneOpen
  BY DEF DirectoryInv
<1>3. /\ admin'.step \in {"idle", "suspend", "resume", "revoke"} /\ (admin'.step = "idle" => admin' = Idle)
      /\ admin' # Idle => /\ admin'.person = p /\ admin'.account = bindings[p].account
                          /\ admin'.account \in Accounts /\ bindings[p].type = "primary" /\ admin'.step = act
  BY <1>1, <1>2, HeldThen
<1>4. AccountsTypeOK' /\ AdminAgrees'
  BY <1>1, <1>2, <1>3 DEF AccountsTypeOK, AdminAgrees
<1>5. admin.step # "revoke"
  BY <1>1 DEF Idle
<1>6. PollingAgrees'
  BY <1>1, <1>2, <1>5 DEF PollingAgrees
<1>7. OneOpen' /\ PendingKnown' /\ Open' = Open
  BY <1>1, <1>2 DEF OneOpen, PendingKnown, Open, Pending, Owned
<1> QED BY <1>1, <1>2, <1>4, <1>6, <1>7, Alongside DEF BeforeTheOwner

LEMMA ChangeEnds == ASSUME DirectoryInv, FinishChange PROVE DirectoryInv'
<1>1. /\ AccountsTypeOK /\ PollingAgrees /\ BeforeTheOwner /\ PendingKnown /\ OneOpen /\ AdminAgrees
      /\ Quiet /\ admin # Idle /\ admin' = Idle
      /\ UNCHANGED <<users, bindings, sessions, active, self, allow, qr, doing>>
  BY DEF DirectoryInv, FinishChange
<1>2. PICK a \in Accounts : a = admin.account
  BY <1>1 DEF AdminAgrees
<1>3. Owned(a) /\ admin.step \in {"suspend", "resume", "revoke"}
  BY <1>1, <1>2 DEF AdminAgrees, Owned, AccountsTypeOK
<1>4. admin'.step = "idle"
  BY <1>1 DEF Idle
<1>5. /\ idents' \in [Accounts -> IdentState] /\ pollers' \subseteq Accounts
      /\ files' \in [Accounts -> SUBSET (People \cup {NoOne})]
      /\ runtimes' \in [Accounts -> {"none", "pairing", "polling", "stopped", "session_expired"}]
      /\ \A b \in Accounts : b # a => runtimes'[b] = runtimes[b] /\ idents'[b] = idents[b]
      /\ pollers' \subseteq pollers \cup {a}
      /\ runtimes'[a] = "polling" => idents'[a] # "pending_pairing" /\ (a \in pollers' => idents'[a] # "revoked")
  <2>1. CASE admin.step = "suspend"
    <3>1. pollers' = pollers \ {a} /\ runtimes' = [runtimes EXCEPT ![a] = "stopped"] /\ UNCHANGED <<files, idents>>
      BY <1>2, <2>1 DEF FinishChange
    <3> QED BY <1>1, <3>1 DEF AccountsTypeOK
  <2>2. CASE admin.step = "revoke"
    <3>1. Discard(a) /\ UNCHANGED idents
      BY <1>2, <2>2 DEF FinishChange
    <3> QED BY <1>1, <3>1, DiscardFacts DEF AccountsTypeOK
  <2>3. CASE admin.step = "resume"
    <3>1. /\ IF a \in pollers /\ enabled THEN UNCHANGED <<idents, runtimes, pollers>>
                                         ELSE Resume(a, idents, allow)
          /\ UNCHANGED files
      BY <1>2, <2>3 DEF FinishChange
    <3>2. CASE a \in pollers /\ enabled
      BY <1>1, <2>3, <3>1, <3>2 DEF AccountsTypeOK, PollingAgrees
    <3>3. CASE ~ (a \in pollers /\ enabled)
      <4>1. /\ Resume(a, idents, allow) /\ UNCHANGED files
            /\ idents \in [Accounts -> IdentState] /\ allow \in [Accounts -> SUBSET People]
        BY <1>1, <3>1, <3>3 DEF AccountsTypeOK
      <4>2. /\ idents' \in [Accounts -> IdentState] /\ pollers' \subseteq Accounts /\ pollers' \subseteq pollers \cup {a}
            /\ runtimes' \in [Accounts -> {"none", "pairing", "polling", "stopped", "session_expired"}]
            /\ \A b \in Accounts : b # a => runtimes'[b] = runtimes[b] /\ idents'[b] = idents[b]
            /\ runtimes'[a] = "polling" => idents'[a] = "active"
        BY <1>1, <4>1, ResumeFacts
      <4> QED BY <1>1, <4>1, <4>2 DEF AccountsTypeOK
    <3> QED BY <3>2, <3>3
  <2> QED BY <1>3, <2>1, <2>2, <2>3
<1>6. AccountsTypeOK'
  BY <1>1, <1>4, <1>5 DEF AccountsTypeOK
<1>7. PendingKnown'
  BY <1>1, <1>3, <1>5 DEF PendingKnown, Owned, Pending, Open
<1>8. PollingAgrees'
  BY <1>1, <1>2, <1>5 DEF PollingAgrees
<1>9. OneOpen' /\ AdminAgrees' /\ Open' = Open
  BY <1>1 DEF OneOpen, AdminAgrees, Open
<1> QED BY <1>1, <1>6, <1>7, <1>8, <1>9, Alongside DEF BeforeTheOwner

\* What is settled at a start, or when the first owner is registered: an owner
\* if somebody is allowed, and a binding for everybody.
LEMMA OwnerChosen ==
    ASSUME DirectoryInv, NEW allowed \in SUBSET People
    PROVE  /\ WithOwner(allowed) \in [People -> UserRow]
           /\ Owners # {} \/ allowed = {} => WithOwner(allowed) = users
           /\ Owners = {} /\ allowed # {} =>
                 \E p \in allowed : /\ WithOwner(allowed)[p] = [role |-> "owner", status |-> "active"]
                                    /\ \A q \in People : q # p => WithOwner(allowed)[q] = Absent
<1>1. users \in [People -> UserRow] /\ (Owners = {} => \A p \in People : users[p] = Absent)
  BY DEF DirectoryInv, AccountsTypeOK, BeforeTheOwner
<1>2. CASE Owners # {} \/ allowed = {}
  <2>1. WithOwner(allowed) = users
    BY <1>2 DEF WithOwner
  <2> QED BY <1>1, <1>2, <2>1
<1>3. CASE Owners = {} /\ allowed # {}
  <2>1. PICK p \in allowed : p = CHOOSE q \in allowed : TRUE
    BY <1>3
  <2>2. PICK w : w = [users EXCEPT ![p] = [role |-> "owner", status |-> "active"]]
    OBVIOUS
  <2>3. WithOwner(allowed) = w
    BY <1>3, <2>1, <2>2 DEF WithOwner
  <2>4. [role |-> "owner", status |-> "active"] \in UserRow
    BY DEF UserRow, PersonStatus
  <2>5. w \in [People -> UserRow] /\ w[p] = [role |-> "owner", status |-> "active"]
        /\ \A q \in People : q # p => w[q] = Absent
    BY <1>1, <1>3, <2>2, <2>4
  <2> QED BY <1>3, <2>3, <2>5
<1> QED BY <1>2, <1>3

LEMMA EverybodyBound ==
    ASSUME AccountsTypeOK, NEW a \in Accounts, NEW rows \in [People -> UserRow],
           \A p \in People : /\ rows[p] = Absent => bindings[p] = Unbound
                             /\ bindings[p] # Unbound => bindings[p].state = rows[p].status
    PROVE  /\ Migrated(a, rows) \in [People -> BindingRow]
           /\ \A p \in People :
                 /\ rows[p] = Absent => Migrated(a, rows)[p] = Unbound
                 /\ rows[p] # Absent => /\ Migrated(a, rows)[p] # Unbound
                                        /\ Migrated(a, rows)[p].state = rows[p].status
                 /\ bindings[p].type = "primary" => Migrated(a, rows)[p] = bindings[p]
<1>1. ASSUME NEW p \in People
      PROVE  /\ Migrated(a, rows)[p] \in BindingRow
             /\ rows[p] = Absent => Migrated(a, rows)[p] = Unbound
             /\ rows[p] # Absent => /\ Migrated(a, rows)[p] # Unbound
                                    /\ Migrated(a, rows)[p].state = rows[p].status
             /\ bindings[p].type = "primary" => Migrated(a, rows)[p] = bindings[p]
  <2>1. bindings[p] \in BindingRow /\ rows[p] \in UserRow
    BY DEF AccountsTypeOK
  <2>2. CASE rows[p] = Absent
    <3>1. Migrated(a, rows)[p] = bindings[p]
      BY <2>2 DEF Migrated
    <3> QED BY <2>1, <2>2, <3>1
  <2>3. CASE rows[p] # Absent /\ bindings[p].type = "primary"
    <3>1. Migrated(a, rows)[p] = bindings[p]
      BY <2>3 DEF Migrated
    <3>2. bindings[p] # Unbound
      BY <2>3 DEF Unbound
    <3> QED BY <2>1, <2>3, <3>1, <3>2
  <2>4. CASE rows[p] # Absent /\ bindings[p].type # "primary"
    <3>1. PICK t : t = IF rows[p].role = "owner" THEN "primary" ELSE "legacy_shared"
      OBVIOUS
    <3>2. PICK s : s = IF bindings[p].state = "revoked" THEN "revoked" ELSE rows[p].status
      OBVIOUS
    <3>3. Migrated(a, rows)[p] = [account |-> a, sender |-> p, type |-> t, state |-> s]
      BY <2>4, <3>1, <3>2 DEF Migrated, Binding
    <3>4. bindings[p].state = "revoked" => bindings[p] # Unbound
      BY DEF Unbound
    <3>5. s = rows[p].status /\ rows[p].status \in PersonStatus
      BY <2>1, <2>4, <3>2, <3>4 DEF UserRow
    <3>6. t \in {"primary", "legacy_shared"}
      BY <3>1
    <3>7. Migrated(a, rows)[p] \in BindingRow
      BY <3>3, <3>5, <3>6 DEF BindingRow
    <3>8. Migrated(a, rows)[p] # Unbound
      BY <3>3, <3>6 DEF Unbound
    <3> QED BY <2>4, <3>3, <3>5, <3>7, <3>8
  <2> QED BY <2>2, <2>3, <2>4
<1>2. Migrated(a, rows) = [p \in People |-> Migrated(a, rows)[p]]
  BY DEF Migrated
<1> QED BY <1>1, <1>2

LEMMA Settled ==
    ASSUME DirectoryInv, NEW a \in Accounts, NEW allowed \in SUBSET People,
           users' = WithOwner(allowed), bindings' = Migrated(a, users')
    PROVE  /\ users' \in [People -> UserRow] /\ bindings' \in [People -> BindingRow]
           /\ OneOwner' /\ RowsAgree' /\ \A p \in Owners' : bindings'[p] # Unbound
           /\ \A p \in People : bindings[p].type = "primary" => bindings'[p] = bindings[p]
           /\ \A b \in Accounts : Owned(b) => Owned(b)'
           /\ Owners' = {} => Owners = {} /\ allowed = {} /\ users' = users
<1>1. /\ users' \in [People -> UserRow]
      /\ Owners # {} \/ allowed = {} => users' = users
      /\ Owners = {} /\ allowed # {} =>
            \E p \in allowed : /\ users'[p] = [role |-> "owner", status |-> "active"]
                               /\ \A q \in People : q # p => users'[q] = Absent
  BY OwnerChosen
<1>2. /\ AccountsTypeOK /\ OneOwner /\ RowsAgree
      /\ Owners = {} => \A p \in People : users[p] = Absent
  BY DEF DirectoryInv, BeforeTheOwner
<1>3. \A p \in People : /\ users'[p] = Absent => bindings[p] = Unbound
                        /\ bindings[p] # Unbound => bindings[p].state = users'[p].status
  BY <1>1, <1>2 DEF RowsAgree
<1>4. PICK rows \in [People -> UserRow] : rows = users'
  BY <1>1
<1>5. /\ bindings' \in [People -> BindingRow]
      /\ \A p \in People :
            /\ users'[p] = Absent => bindings'[p] = Unbound
            /\ users'[p] # Absent => bindings'[p] # Unbound /\ bindings'[p].state = users'[p].status
            /\ bindings[p].type = "primary" => bindings'[p] = bindings[p]
  <2>1. bindings' = Migrated(a, rows)
    BY <1>4 DEF Migrated
  <2> QED BY <1>2, <1>3, <1>4, <2>1, EverybodyBound
<1>6. RowsAgree'
  BY <1>5 DEF RowsAgree
<1>7. OneOwner' /\ (Owners' = {} => Owners = {} /\ allowed = {} /\ users' = users)
  <2>1. CASE Owners # {} \/ allowed = {}
    <3>1. users' = users /\ Owners' = Owners
      BY <1>1, <2>1 DEF Owners
    <3> QED BY <1>2, <2>1, <3>1 DEF OneOwner
  <2>2. CASE Owners = {} /\ allowed # {}
    <3>1. PICK p \in allowed : /\ users'[p] = [role |-> "owner", status |-> "active"]
                               /\ \A q \in People : q # p => users'[q] = Absent
      BY <1>1, <2>2
    <3>2. Absent.role = "none"
      BY DEF Absent
    <3>3. Owners' = {p}
      BY <3>1, <3>2 DEF Owners
    <3>4. \A q \in People : users'[q].role = "owner" => users'[q].status = "active"
      BY <3>1, <3>2
    <3> QED BY <3>3, <3>4 DEF OneOwner
  <2> QED BY <2>1, <2>2
<1>8. \A p \in Owners' : bindings'[p] # Unbound
  BY <1>5 DEF Owners, Absent
<1>9. \A b \in Accounts : Owned(b) => Owned(b)'
  BY <1>5 DEF Owned
<1> QED BY <1>1, <1>5, <1>6, <1>7, <1>8, <1>9

LEMMA OwnerClaims == ASSUME DirectoryInv, NEW p \in People, ClaimOwner(p) PROVE DirectoryInv'
<1>1. AccountsTypeOK
  BY DEF DirectoryInv
<1>2. /\ Quiet /\ files' = [files EXCEPT ![self] = {p}] /\ allow' = [allow EXCEPT ![self] = {p}] /\ active' = self
      /\ doing' = Step("register_owner", self, p)
      /\ UNCHANGED <<users, bindings, idents, sessions, self, runtimes, pollers, qr, admin>>
  BY DEF ClaimOwner, Hears
<1>3. doing'.step = "register_owner" /\ doing'.person = p /\ doing.step = "idle"
  BY <1>2 DEF Step, Quiet, Idle
<1>4. AccountsTypeOK'
  BY <1>1, <1>2, <1>3 DEF AccountsTypeOK
<1>5. DoingAgrees'
  BY <1>1, <1>2, <1>3 DEF DoingAgrees, AccountsTypeOK
<1>6. OneOwner' /\ RowsAgree' /\ BeforeTheOwner' /\ OwnerIsBound'
  BY <1>2, <1>3 DEF DirectoryInv, OneOwner, RowsAgree, BeforeTheOwner, OwnerIsBound, Owners, Open
<1>7. OneOpen' /\ PendingKnown' /\ AdminAgrees' /\ PollingAgrees'
  BY <1>2 DEF DirectoryInv, OneOpen, PendingKnown, AdminAgrees, PollingAgrees, Open, Pending, Owned
<1> QED BY <1>4, <1>5, <1>6, <1>7 DEF DirectoryInv

LEMMA OwnerRegistered == ASSUME DirectoryInv, RegisterOwner PROVE DirectoryInv'
<1>1. /\ AccountsTypeOK /\ OneOpen /\ PendingKnown /\ AdminAgrees /\ PollingAgrees
      /\ doing.step = "register_owner" /\ users' = WithOwner(files[self]) /\ bindings' = Migrated(self, users')
      /\ idents' = [idents EXCEPT ![self] = "active"] /\ runtimes' = [runtimes EXCEPT ![self] = "polling"]
      /\ doing' = Idle
      /\ UNCHANGED <<sessions, files, active, self, allow, pollers, qr, admin>>
  BY DEF DirectoryInv, RegisterOwner
<1>2. PICK allowed \in SUBSET People : allowed = files[self] /\ allowed # {}
  BY <1>1 DEF DirectoryInv, DoingAgrees
<1>3. /\ users' \in [People -> UserRow] /\ bindings' \in [People -> BindingRow]
      /\ OneOwner' /\ RowsAgree' /\ \A p \in Owners' : bindings'[p] # Unbound
      /\ \A p \in People : bindings[p].type = "primary" => bindings'[p] = bindings[p]
      /\ \A b \in Accounts : Owned(b) => Owned(b)'
      /\ Owners' # {}
  <2>1. self \in Accounts /\ users' = WithOwner(allowed)
    BY <1>1, <1>2 DEF AccountsTypeOK
  <2> QED BY <1>1, <1>2, <2>1, Settled
<1>4. doing'.step = "idle" /\ DoingAgrees'
  BY <1>1 DEF Idle, DoingAgrees
<1>5. AccountsTypeOK'
  BY <1>1, <1>3, <1>4 DEF AccountsTypeOK, IdentState
<1>6. OwnerIsBound' /\ BeforeTheOwner'
  BY <1>3 DEF OwnerIsBound, BeforeTheOwner
<1>7. idents'[self] = "active" /\ \A b \in Accounts : b # self => idents'[b] = idents[b] /\ runtimes'[b] = runtimes[b]
  BY <1>1 DEF AccountsTypeOK
<1>8. PollingAgrees'
  BY <1>1, <1>7 DEF PollingAgrees
<1>9. PendingKnown'
  <2> SUFFICES ASSUME NEW b \in Accounts, idents'[b] = "pending_pairing" PROVE Pending(b)' # {} \/ Owned(b)'
    BY DEF PendingKnown
  <2>1. Pending(b) # {} \/ Owned(b)
    BY <1>1, <1>7 DEF PendingKnown
  <2> QED BY <1>1, <1>3, <2>1 DEF Pending, Open
<1>10. OneOpen' /\ AdminAgrees'
  BY <1>1, <1>3 DEF OneOpen, AdminAgrees, Open
<1> QED BY <1>3, <1>4, <1>5, <1>6, <1>8, <1>9, <1>10 DEF DirectoryInv

LEMMA SenderAllowed == ASSUME DirectoryInv, AllowSender PROVE DirectoryInv'
<1>1. /\ AccountsTypeOK /\ OneOpen /\ PendingKnown /\ AdminAgrees /\ PollingAgrees
      /\ doing.step = "allow_sender" /\ doing' = Idle
      /\ files' = [files EXCEPT ![doing.account] = {doing.person}]
      /\ allow' = [allow EXCEPT ![doing.account] = {doing.person}]
      /\ runtimes' = [runtimes EXCEPT ![doing.account] = "polling"]
      /\ UNCHANGED <<users, bindings, idents, sessions, active, self, pollers, qr, admin>>
  BY DEF DirectoryInv, AllowSender
<1>2. PICK a \in Accounts, x \in People : a = doing.account /\ x = doing.person
  BY <1>1 DEF DirectoryInv, DoingAgrees
<1>3. idents[a] = "active" /\ Owners # {}
  BY <1>1, <1>2 DEF DirectoryInv, DoingAgrees
<1>4. doing'.step = "idle" /\ DoingAgrees'
  BY <1>1 DEF Idle, DoingAgrees
<1>5. AccountsTypeOK'
  BY <1>1, <1>2, <1>4 DEF AccountsTypeOK
<1>6. Owners' = Owners /\ OneOwner' /\ RowsAgree'
  BY <1>1 DEF DirectoryInv, OneOwner, RowsAgree, Owners
<1>7. OwnerIsBound' /\ BeforeTheOwner'
  BY <1>1, <1>3, <1>6 DEF DirectoryInv, OwnerIsBound, BeforeTheOwner
<1>8. PollingAgrees'
  BY <1>1, <1>2, <1>3 DEF PollingAgrees, AccountsTypeOK
<1>9. OneOpen' /\ PendingKnown' /\ AdminAgrees'
  BY <1>1 DEF OneOpen, PendingKnown, AdminAgrees, Open, Pending, Owned
<1> QED BY <1>4, <1>5, <1>6, <1>7, <1>8, <1>9 DEF DirectoryInv

\* change_user_state is about a member: the owner's row is not touched.
LEMMA MemberChanges ==
    ASSUME DirectoryInv, NEW p \in People, NEW act \in {"suspend", "resume", "revoke"}, ChangeUserState(p, act)
    PROVE  /\ users' \in [People -> UserRow] /\ bindings' \in [People -> BindingRow]
           /\ idents' \in [Accounts -> IdentState]
           /\ Owners' = Owners /\ OneOwner' /\ RowsAgree'
           /\ \A q \in People : users[q] = Absent => users'[q] = Absent
           /\ \A q \in People : /\ (bindings'[q] = Unbound) = (bindings[q] = Unbound)
                                /\ bindings'[q].account = bindings[q].account
                                /\ bindings'[q].type = bindings[q].type
           /\ \A b \in Accounts : /\ idents'[b] = "pending_pairing" => idents[b] = "pending_pairing"
                                  /\ idents'[b] = "revoked" =>
                                        \/ idents[b] = "revoked"
                                        \/ act = "revoke" /\ bindings[p].type = "primary" /\ bindings[p].account = b
<1>1. /\ AccountsTypeOK /\ OneOwner /\ RowsAgree /\ MayChange(p, act)
      /\ users' = [users EXCEPT ![p].status = Status(act)]
      /\ bindings' = IF bindings[p] = Unbound THEN bindings ELSE [bindings EXCEPT ![p].state = Status(act)]
      /\ idents' = IF bindings[p].type # "primary" THEN idents
                   ELSE [idents EXCEPT ![bindings[p].account] = IdentFor(act)]
  BY DEF DirectoryInv, ChangeUserState
<1>2. users[p] \in UserRow /\ users[p].role = "member" /\ bindings[p] \in BindingRow
  BY <1>1 DEF MayChange, AccountsTypeOK
<1>3. PICK to \in PersonStatus : to = Status(act)
  BY DEF Status, PersonStatus
<1>4. PICK id \in {"paused", "active", "revoked"} : id = IdentFor(act) /\ (id = "revoked" => act = "revoke")
  BY DEF IdentFor
<1>5. users' \in [People -> UserRow] /\ users'[p] = [role |-> "member", status |-> to]
      /\ \A q \in People : q # p => users'[q] = users[q]
  <2>1. [users[p] EXCEPT !.status = to] = [role |-> "member", status |-> to]
    BY <1>2 DEF UserRow, Absent
  <2>2. users' = [users EXCEPT ![p] = [role |-> "member", status |-> to]]
    BY <1>1, <1>3, <2>1
  <2>3. [role |-> "member", status |-> to] \in UserRow
    BY DEF UserRow
  <2> QED BY <1>1, <2>2, <2>3 DEF AccountsTypeOK
<1>6. /\ bindings' \in [People -> BindingRow] /\ \A q \in People : q # p => bindings'[q] = bindings[q]
      /\ (bindings'[p] = Unbound) = (bindings[p] = Unbound)
      /\ bindings'[p].account = bindings[p].account /\ bindings'[p].type = bindings[p].type
      /\ bindings[p] # Unbound => bindings'[p].state = to
  <2>1. CASE bindings[p] = Unbound
    <3>1. bindings' = bindings
      BY <1>1, <2>1
    <3> QED BY <1>1, <2>1, <3>1 DEF AccountsTypeOK
  <2>2. CASE bindings[p] # Unbound
    <3>1. PICK r : r = [account |-> bindings[p].account, sender |-> bindings[p].sender,
                        type |-> bindings[p].type, state |-> to]
      OBVIOUS
    <3>2. bindings[p] \in [account : Accounts, sender : People,
                           type : {"primary", "legacy_shared"}, state : PersonStatus]
      BY <1>2, <2>2 DEF BindingRow
    <3>3. [bindings[p] EXCEPT !.state = to] = r
      BY <3>1, <3>2
    <3>4. bindings' = [bindings EXCEPT ![p] = r]
      BY <1>1, <1>3, <2>2, <3>3
    <3>5. r \in BindingRow /\ r # Unbound
      BY <3>1, <3>2 DEF BindingRow, Unbound
    <3>6. bindings' \in [People -> BindingRow] /\ bindings'[p] = r /\ \A q \in People : q # p => bindings'[q] = bindings[q]
      BY <1>1, <3>4, <3>5 DEF AccountsTypeOK
    <3>7. /\ r.account = bindings[p].account /\ r.type = bindings[p].type /\ r.state = to
      BY <3>1
    <3>8. (bindings'[p] = Unbound) = (bindings[p] = Unbound)
      BY <2>2, <3>5, <3>6
    <3> QED BY <3>6, <3>7, <3>8
  <2> QED BY <2>1, <2>2
<1>7. /\ idents' \in [Accounts -> IdentState]
      /\ \A b \in Accounts : /\ idents'[b] = "pending_pairing" => idents[b] = "pending_pairing"
                             /\ idents'[b] = "revoked" =>
                                   \/ idents[b] = "revoked"
                                   \/ act = "revoke" /\ bindings[p].type = "primary" /\ bindings[p].account = b
  <2>1. CASE bindings[p].type # "primary"
    <3>1. idents' = idents
      BY <1>1, <2>1
    <3> QED BY <1>1, <3>1 DEF AccountsTypeOK
  <2>2. CASE bindings[p].type = "primary"
    <3>1. bindings[p].account \in Accounts
      BY <1>2, <2>2 DEF BindingRow, Unbound
    <3>2. idents' = [idents EXCEPT ![bindings[p].account] = id] /\ id \in IdentState
      BY <1>1, <1>4, <2>2 DEF IdentState
    <3> QED BY <1>1, <1>4, <2>2, <3>1, <3>2 DEF AccountsTypeOK
  <2> QED BY <2>1, <2>2
<1>8. Owners' = Owners
  BY <1>2, <1>5 DEF Owners
<1>9. OneOwner'
  BY <1>1, <1>5, <1>8 DEF OneOwner
<1>10. RowsAgree' /\ \A q \in People : users[q] = Absent => users'[q] = Absent
  <2>1. users[p] # Absent /\ users'[p] # Absent
    BY <1>2, <1>5 DEF Absent
  <2> QED BY <1>1, <1>5, <1>6, <2>1 DEF RowsAgree
<1> QED BY <1>5, <1>6, <1>7, <1>8, <1>9, <1>10

LEMMA StatesChange ==
    ASSUME DirectoryInv, NEW p \in People, NEW act \in {"suspend", "resume", "revoke"}, ChangeUserState(p, act)
    PROVE  DirectoryInv'
<1>1. /\ AccountsTypeOK /\ OneOpen /\ PendingKnown /\ BeforeTheOwner /\ OwnerIsBound /\ DoingAgrees /\ PollingAgrees
      /\ Quiet /\ admin = Idle /\ ThenRuntime(p, act)
      /\ UNCHANGED <<sessions, files, active, self, runtimes, allow, pollers, qr, doing>>
  BY DEF DirectoryInv, ChangeUserState
<1>2. /\ users' \in [People -> UserRow] /\ bindings' \in [People -> BindingRow]
      /\ idents' \in [Accounts -> IdentState]
      /\ Owners' = Owners /\ OneOwner' /\ RowsAgree'
      /\ \A q \in People : users[q] = Absent => users'[q] = Absent
      /\ \A q \in People : /\ (bindings'[q] = Unbound) = (bindings[q] = Unbound)
                           /\ bindings'[q].account = bindings[q].account
                           /\ bindings'[q].type = bindings[q].type
      /\ \A b \in Accounts : /\ idents'[b] = "pending_pairing" => idents[b] = "pending_pairing"
                             /\ idents'[b] = "revoked" =>
                                   \/ idents[b] = "revoked"
                                   \/ act = "revoke" /\ bindings[p].type = "primary" /\ bindings[p].account = b
  BY MemberChanges
<1>3. /\ admin'.step \in {"idle", "suspend", "resume", "revoke"} /\ (admin'.step = "idle" => admin' = Idle)
      /\ admin' # Idle => /\ admin'.person = p /\ admin'.account = bindings[p].account
                          /\ admin'.account \in Accounts /\ bindings[p].type = "primary" /\ admin'.step = act
      /\ bindings[p].type = "primary" /\ runtimes[bindings[p].account] # "none" => admin' # Idle
  BY <1>1, HeldThen
<1>4. doing.step = "idle" /\ admin.step = "idle"
  BY <1>1 DEF Quiet, Idle
<1>5. AccountsTypeOK'
  BY <1>1, <1>2, <1>3, <1>4 DEF AccountsTypeOK
<1>6. DoingAgrees' /\ OwnerIsBound'
  BY <1>1, <1>2, <1>4 DEF DoingAgrees, OwnerIsBound, Owners
<1>7. Open' = Open /\ OneOpen' /\ BeforeTheOwner'
  BY <1>1, <1>2 DEF OneOpen, BeforeTheOwner, Open
<1>8. PendingKnown'
  BY <1>1, <1>2 DEF PendingKnown, Pending, Open, Owned
<1>9. AdminAgrees'
  BY <1>2, <1>3 DEF AdminAgrees
<1>10. PollingAgrees'
  <2> SUFFICES ASSUME NEW b \in Accounts, runtimes'[b] = "polling"
               PROVE  /\ idents'[b] # "pending_pairing"
                      /\ idents'[b] = "revoked" /\ b \in pollers' => admin'.step = "revoke" /\ admin'.account = b
    BY DEF PollingAgrees
  <2>1. idents[b] # "pending_pairing" /\ ~ (idents[b] = "revoked" /\ b \in pollers)
    BY <1>1, <1>4 DEF PollingAgrees
  <2> QED BY <1>1, <1>2, <1>3, <2>1
<1> QED BY <1>2, <1>5, <1>6, <1>7, <1>8, <1>9, <1>10 DEF DirectoryInv

LEMMA OwnerReturns == ASSUME DirectoryInv, NEW x \in People, AcceptOwnerQr(x) PROVE DirectoryInv'
<1>1. /\ AccountsTypeOK /\ OneOwner /\ RowsAgree /\ OneOpen /\ PendingKnown /\ BeforeTheOwner /\ PollingAgrees
      /\ Quiet /\ admin = Idle /\ runtimes[self] = "stopped"
      /\ files' = [files EXCEPT ![self] = Owners] /\ allow' = [allow EXCEPT ![self] = Owners]
      /\ active' = self /\ bindings' = Migrated(self, users) /\ idents' = Kept(self)
      /\ UNCHANGED <<users, sessions, self, runtimes, pollers, qr, doing, admin>>
  BY DEF DirectoryInv, AcceptOwnerQr
<1>2. /\ bindings' \in [People -> BindingRow]
      /\ \A p \in People :
            /\ users[p] = Absent => bindings'[p] = Unbound
            /\ users[p] # Absent => bindings'[p] # Unbound /\ bindings'[p].state = users[p].status
            /\ bindings[p].type = "primary" => bindings'[p] = bindings[p]
  <2>1. self \in Accounts /\ users \in [People -> UserRow]
        /\ \A p \in People : /\ users[p] = Absent => bindings[p] = Unbound
                             /\ bindings[p] # Unbound => bindings[p].state = users[p].status
    BY <1>1 DEF AccountsTypeOK, RowsAgree
  <2>2. PICK rows \in [People -> UserRow] : rows = users
    BY <2>1
  <2>3. bindings' = Migrated(self, rows)
    BY <1>1, <2>2
  <2> QED BY <1>1, <2>1, <2>2, <2>3, EverybodyBound
<1>3. Owners' = Owners /\ Owners \subseteq People /\ Open' = Open /\ doing.step = "idle"
  BY <1>1 DEF Owners, Open, Quiet, Idle
<1>4. /\ idents' \in [Accounts -> IdentState] /\ idents'[self] \in {"revoked", "active"}
      /\ \A b \in Accounts : b # self => idents'[b] = idents[b]
  <2>1. idents' = [idents EXCEPT ![self] = IF idents[self] = "revoked" THEN idents[self] ELSE "active"]
    BY <1>1 DEF Kept
  <2> QED BY <1>1, <2>1 DEF AccountsTypeOK, IdentState
<1>5. AccountsTypeOK'
  BY <1>1, <1>2, <1>3, <1>4 DEF AccountsTypeOK
<1>6. OneOwner' /\ RowsAgree' /\ OneOpen'
  BY <1>1, <1>2, <1>3 DEF OneOwner, RowsAgree, OneOpen
<1>7. BeforeTheOwner'
  BY <1>1, <1>3 DEF BeforeTheOwner, AccountsTypeOK
<1>8. OwnerIsBound'
  BY <1>1, <1>2, <1>3 DEF OwnerIsBound, Owners, Absent
<1>9. DoingAgrees'
  BY <1>1, <1>3 DEF DoingAgrees, Quiet
<1>10. PendingKnown'
  <2> SUFFICES ASSUME NEW b \in Accounts, idents'[b] = "pending_pairing" PROVE Pending(b)' # {} \/ Owned(b)'
    BY DEF PendingKnown
  <2>1. Pending(b) # {} \/ Owned(b)
    BY <1>1, <1>4 DEF PendingKnown
  <2> QED BY <1>1, <1>2, <2>1 DEF Pending, Open, Owned
<1>11. AdminAgrees' /\ PollingAgrees'
  BY <1>1, <1>4 DEF AdminAgrees, PollingAgrees
<1> QED BY <1>5, <1>6, <1>7, <1>8, <1>9, <1>10, <1>11 DEF DirectoryInv

\* A person who had no row, or a shared binding only, is a member from now on.
LEMMA MemberJoins ==
    ASSUME DirectoryInv, NEW p \in People, NEW r \in BindingRow,
           users[p] = Absent \/ users[p] = [role |-> "member", status |-> "active"],
           users' = [users EXCEPT ![p] = [role |-> "member", status |-> "active"]],
           bindings' = [bindings EXCEPT ![p] = r],
           bindings[p].type # "primary", r # Unbound => r.state = "active"
    PROVE  /\ users' \in [People -> UserRow] /\ bindings' \in [People -> BindingRow]
           /\ Owners' = Owners /\ OneOwner' /\ RowsAgree'
           /\ \A q \in People : q # p => users'[q] = users[q] /\ bindings'[q] = bindings[q]
           /\ users'[p] = [role |-> "member", status |-> "active"] /\ bindings'[p] = r
           /\ \A b \in Accounts : Owned(b) => Owned(b)'
           /\ AdminAgrees /\ UNCHANGED admin => AdminAgrees'
<1>1. AccountsTypeOK /\ OneOwner /\ RowsAgree /\ p \notin Owners /\ users[p].role # "owner"
  BY DEF DirectoryInv, Owners, Absent
<1>2. [role |-> "member", status |-> "active"] \in UserRow /\ [role |-> "member", status |-> "active"] # Absent
  BY DEF UserRow, PersonStatus, Absent
<1>3. /\ users' \in [People -> UserRow] /\ users'[p] = [role |-> "member", status |-> "active"]
      /\ \A q \in People : q # p => users'[q] = users[q]
  BY <1>1, <1>2 DEF AccountsTypeOK
<1>4. /\ bindings' \in [People -> BindingRow] /\ bindings'[p] = r
      /\ \A q \in People : q # p => bindings'[q] = bindings[q]
  BY <1>1 DEF AccountsTypeOK
<1>5. Owners' = Owners
  BY <1>1, <1>3 DEF Owners
<1>6. OneOwner'
  BY <1>1, <1>3, <1>5 DEF OneOwner
<1>7. RowsAgree'
  <2> SUFFICES ASSUME NEW q \in People
               PROVE  /\ users'[q] = Absent => bindings'[q] = Unbound
                      /\ bindings'[q] # Unbound => bindings'[q].state = users'[q].status
    BY DEF RowsAgree
  <2>1. CASE q = p
    BY <1>2, <1>3, <1>4, <2>1
  <2>2. CASE q # p
    BY <1>1, <1>3, <1>4, <2>2 DEF RowsAgree
  <2> QED BY <2>1, <2>2
<1>8. \A b \in Accounts : Owned(b) => Owned(b)'
  BY <1>4 DEF Owned
<1>9. AdminAgrees /\ UNCHANGED admin => AdminAgrees'
  BY <1>4 DEF AdminAgrees
<1> QED BY <1>3, <1>4, <1>5, <1>6, <1>7, <1>8, <1>9

LEMMA InvitationClaimed ==
    ASSUME DirectoryInv, NEW i \in Invites, NEW x \in People, ClaimInvitation(i, x) PROVE DirectoryInv'
<1>1. /\ AccountsTypeOK /\ OneOpen /\ PendingKnown /\ BeforeTheOwner /\ RowsAgree /\ OwnerIsBound
      /\ AdminAgrees /\ PollingAgrees
      /\ Quiet /\ allow[self] # {} /\ users[x] = Absent
      /\ users' = [users EXCEPT ![x] = [role |-> "member", status |-> "active"]]
      /\ bindings' = IF Shared = {} THEN bindings
                     ELSE [bindings EXCEPT ![x] = Binding(CHOOSE a \in Shared : TRUE, x, "legacy_shared", "active")]
      /\ UNCHANGED <<idents, sessions, files, active, self, runtimes, allow, pollers, qr, doing, admin>>
  BY DEF DirectoryInv, ClaimInvitation, Hears, processVars
<1>2. bindings[x] = Unbound /\ Unbound.type # "primary" /\ doing.step = "idle"
  BY <1>1 DEF RowsAgree, Unbound, Quiet, Idle
<1>3. PICK r \in BindingRow : /\ bindings' = [bindings EXCEPT ![x] = r]
                              /\ r # Unbound => r.state = "active"
  <2>1. CASE Shared = {}
    <3>1. bindings' = [bindings EXCEPT ![x] = Unbound] /\ Unbound \in BindingRow
      BY <1>1, <1>2, <2>1 DEF AccountsTypeOK, BindingRow
    <3> QED BY <3>1
  <2>2. CASE Shared # {}
    <3>1. PICK a \in Accounts : a = CHOOSE b \in Shared : TRUE
      BY <2>2 DEF Shared
    <3>2. PICK r : r = [account |-> a, sender |-> x, type |-> "legacy_shared", state |-> "active"]
      OBVIOUS
    <3>3. bindings' = [bindings EXCEPT ![x] = r]
      BY <1>1, <2>2, <3>1, <3>2 DEF Binding
    <3>4. r \in BindingRow /\ r.state = "active"
      BY <3>2 DEF BindingRow, PersonStatus
    <3> QED BY <3>3, <3>4
  <2> QED BY <2>1, <2>2
<1>4. /\ users' \in [People -> UserRow] /\ bindings' \in [People -> BindingRow]
      /\ Owners' = Owners /\ OneOwner' /\ RowsAgree'
      /\ \A q \in People : q # x => users'[q] = users[q] /\ bindings'[q] = bindings[q]
      /\ \A b \in Accounts : Owned(b) => Owned(b)'
      /\ AdminAgrees'
  BY <1>1, <1>2, <1>3, MemberJoins
<1>5. Owners # {} /\ Open' = Open
  BY <1>1, <1>2 DEF BeforeTheOwner, Open
<1>6. AccountsTypeOK'
  BY <1>1, <1>4 DEF AccountsTypeOK
<1>7. BeforeTheOwner' /\ OneOpen' /\ PollingAgrees'
  BY <1>1, <1>4, <1>5 DEF BeforeTheOwner, OneOpen, PollingAgrees
<1>8. OwnerIsBound'
  <2>1. x \notin Owners
    BY <1>1 DEF Owners, Absent
  <2> QED BY <1>1, <1>4, <2>1 DEF OwnerIsBound, Owners
<1>9. DoingAgrees'
  BY <1>1, <1>2 DEF DoingAgrees, Quiet
<1>10. PendingKnown'
  BY <1>1, <1>4 DEF PendingKnown, Pending, Open
<1> QED BY <1>4, <1>6, <1>7, <1>8, <1>9, <1>10 DEF DirectoryInv

LEMMA OnboardingClaimed ==
    ASSUME DirectoryInv, NEW a \in Accounts, NEW x \in People, ClaimOnboarding(a, x) PROVE DirectoryInv'
<1>1. /\ AccountsTypeOK /\ OneOpen /\ PendingKnown /\ BeforeTheOwner /\ OwnerIsBound /\ AdminAgrees /\ PollingAgrees
      /\ Quiet /\ runtimes[a] = "pairing"
      /\ idents' = [idents EXCEPT ![a] = "active"] /\ doing' = Step("allow_sender", a, x)
      /\ UNCHANGED <<files, active, self, runtimes, allow, pollers, qr, admin>>
  BY DEF DirectoryInv, ClaimOnboarding, Listens, Hears
<1>2. PICK s \in Pending(a) :
          /\ MayBind(s, a, x)
          /\ users' = [users EXCEPT ![Target(s, x)] = [role |-> "member", status |-> "active"]]
          /\ bindings' = [bindings EXCEPT ![Target(s, x)] = Binding(a, x, "primary", "active")]
          /\ sessions' = Closed(s, "claimed")
  BY DEF ClaimOnboarding
<1>3. s \in Open /\ s \in Sessions /\ sessions[s].account = a
  BY DEF Pending, Open
<1>4. PICK p \in People : p = Target(s, x)
  BY <1>1, <1>3 DEF Target, AccountsTypeOK, SessionRow
<1>5. users[p] = Absent \/ users[p] = [role |-> "member", status |-> "active"]
  BY <1>2, <1>4 DEF MayBind
<1>6. bindings[p].type # "primary"
  BY <1>2, <1>4 DEF MayBind
<1>7. PICK r \in BindingRow : /\ r = [account |-> a, sender |-> x, type |-> "primary", state |-> "active"]
                              /\ r.state = "active"
  <2>1. PICK r : r = [account |-> a, sender |-> x, type |-> "primary", state |-> "active"]
    OBVIOUS
  <2>2. r \in BindingRow /\ r.state = "active"
    BY <2>1 DEF BindingRow, PersonStatus
  <2> QED BY <2>1, <2>2
<1>8. /\ users' = [users EXCEPT ![p] = [role |-> "member", status |-> "active"]]
      /\ bindings' = [bindings EXCEPT ![p] = r]
  BY <1>2, <1>4, <1>7 DEF Binding
<1>9. /\ users' \in [People -> UserRow] /\ bindings' \in [People -> BindingRow]
      /\ Owners' = Owners /\ OneOwner' /\ RowsAgree'
      /\ \A q \in People : q # p => users'[q] = users[q] /\ bindings'[q] = bindings[q]
      /\ \A b \in Accounts : Owned(b) => Owned(b)'
      /\ AdminAgrees'
  BY <1>1, <1>5, <1>6, <1>7, <1>8, MemberJoins
<1>10. /\ sessions' \in [Sessions -> SessionRow] /\ Open' \subseteq Open
       /\ \A t \in Sessions : t # s => sessions'[t] = sessions[t]
  BY <1>1, <1>2, <1>3, ClosedRow
<1>11. Owners # {}
  BY <1>1, <1>3 DEF BeforeTheOwner
<1>12. /\ idents' \in [Accounts -> IdentState] /\ idents'[a] = "active"
       /\ \A b \in Accounts : b # a => idents'[b] = idents[b]
  BY <1>1 DEF AccountsTypeOK, IdentState
<1>13. /\ doing'.step = "allow_sender" /\ doing'.account = a /\ doing'.person = x /\ doing.step = "idle"
  BY <1>1 DEF Step, Quiet, Idle
<1>14. AccountsTypeOK'
  BY <1>1, <1>9, <1>10, <1>12, <1>13 DEF AccountsTypeOK
<1>15. DoingAgrees'
  BY <1>9, <1>11, <1>12, <1>13 DEF DoingAgrees
<1>16. BeforeTheOwner' /\ OneOpen'
  BY <1>1, <1>9, <1>10, <1>11 DEF BeforeTheOwner, OneOpen
<1>17. OwnerIsBound'
  <2>1. p \notin Owners
    BY <1>5 DEF Owners, Absent
  <2> QED BY <1>1, <1>9, <1>13, <2>1 DEF OwnerIsBound, Owners
<1>18. PollingAgrees'
  BY <1>1, <1>12 DEF PollingAgrees
<1>19. PendingKnown'
  <2> SUFFICES ASSUME NEW b \in Accounts, idents'[b] = "pending_pairing" PROVE Pending(b)' # {} \/ Owned(b)'
    BY DEF PendingKnown
  <2>1. b # a /\ (Pending(b) # {} \/ Owned(b))
    BY <1>1, <1>12 DEF PendingKnown
  <2>2. Pending(b) \subseteq Pending(b)'
    BY <1>3, <1>10, <2>1 DEF Pending, Open
  <2> QED BY <1>9, <2>1, <2>2
<1> QED BY <1>9, <1>14, <1>15, <1>16, <1>17, <1>18, <1>19 DEF DirectoryInv

\* The ownership passes from one active person to another, and nothing else.
LEMMA SwappedFacts ==
    ASSUME AccountsTypeOK, RowsAgree, NEW o \in People, NEW t \in People,
           Owners = {o}, users[o] = [role |-> "owner", status |-> "active"],
           users[t] = [role |-> "member", status |-> "active"], users' = Swapped(o, t),
           \A p \in People : users[p].role = "owner" => users[p].status = "active"
    PROVE  /\ users' \in [People -> UserRow] /\ Owners' = {t} /\ OneOwner'
           /\ users'[o] = [role |-> "member", status |-> "active"]
           /\ users'[t] = [role |-> "owner", status |-> "active"]
           /\ \A p \in People : p # o /\ p # t => users'[p] = users[p]
           /\ bindings' = bindings => RowsAgree'
<1>1. o # t
  OBVIOUS
<1>2. PICK v \in [People -> UserRow] : v = [users EXCEPT ![o] = [role |-> "member", status |-> "active"]]
  BY DEF AccountsTypeOK, UserRow, PersonStatus
<1>3. PICK w \in [People -> UserRow] : w = [v EXCEPT ![t] = [role |-> "owner", status |-> "active"]]
  BY <1>2 DEF UserRow, PersonStatus
<1>4. users' = w
  <2>1. [users EXCEPT ![o].role = "member"] = v
    <3>1. [users[o] EXCEPT !.role = "member"] = [role |-> "member", status |-> "active"]
      OBVIOUS
    <3>2. [users EXCEPT ![o].role = "member"] = [users EXCEPT ![o] = [users[o] EXCEPT !.role = "member"]]
      OBVIOUS
    <3> QED BY <1>2, <3>1, <3>2
  <2>2. v[t] = [role |-> "member", status |-> "active"]
    BY <1>1, <1>2
  <2>3. [v EXCEPT ![t].role = "owner"] = w
    <3>1. [v[t] EXCEPT !.role = "owner"] = [role |-> "owner", status |-> "active"]
      BY <2>2
    <3>2. [v EXCEPT ![t].role = "owner"] = [v EXCEPT ![t] = [v[t] EXCEPT !.role = "owner"]]
      OBVIOUS
    <3> QED BY <1>3, <3>1, <3>2
  <2>4. Swapped(o, t) = [[users EXCEPT ![o].role = "member"] EXCEPT ![t].role = "owner"]
    BY DEF Swapped
  <2> QED BY <2>1, <2>3, <2>4
<1>5. /\ users' \in [People -> UserRow]
      /\ users'[o] = [role |-> "member", status |-> "active"] /\ users'[t] = [role |-> "owner", status |-> "active"]
      /\ \A p \in People : p # o /\ p # t => users'[p] = users[p]
  BY <1>1, <1>2, <1>3, <1>4 DEF AccountsTypeOK
<1>6. Owners' = {t}
  BY <1>1, <1>5 DEF Owners
<1>7. OneOwner'
  BY <1>5, <1>6 DEF OneOwner
<1>8. ASSUME bindings' = bindings PROVE RowsAgree'
  <2>1. /\ \A p \in People : users'[p].status = users[p].status
        /\ \A p \in People : users'[p] = Absent => users[p] = Absent
    BY <1>5 DEF Absent
  <2> QED BY <1>8, <2>1 DEF RowsAgree
<1> QED BY <1>5, <1>6, <1>7, <1>8

LEMMA OwnershipMoves == ASSUME DirectoryInv, NEW t \in People, TransferOwner(t) PROVE DirectoryInv'
<1>1. /\ AccountsTypeOK /\ OneOwner /\ RowsAgree /\ OneOpen /\ PendingKnown /\ AdminAgrees /\ PollingAgrees
      /\ Owners # {} /\ bindings[Owner].state = "active"
      /\ users[t] = [role |-> "member", status |-> "active"]
      /\ users' = Swapped(Owner, t)
      /\ doing' = [Step("mirror", bindings[t].account, t) EXCEPT !.from = Owner]
      /\ UNCHANGED <<bindings, idents, sessions, files, active, self, runtimes, allow, pollers, qr, admin>>
  BY DEF DirectoryInv, TransferOwner
<1>2. PICK o \in People : o = Owner /\ Owners = {o}
  BY <1>1 DEF Owner, Owners, OneOwner
<1>3. users[o] = [role |-> "owner", status |-> "active"]
  BY <1>1, <1>2 DEF Owners, AccountsTypeOK, UserRow, Absent
<1>4. bindings[o] # Unbound
  BY <1>1, <1>2 DEF Unbound
<1>5. /\ users' \in [People -> UserRow] /\ Owners' = {t} /\ OneOwner' /\ RowsAgree'
      /\ users'[o] = [role |-> "member", status |-> "active"]
  BY <1>1, <1>2, <1>3, SwappedFacts DEF OneOwner
<1>6. doing'.step = "mirror" /\ doing'.account = bindings[t].account /\ doing'.person = t /\ doing'.from = o
  BY <1>1, <1>2 DEF Step
<1>7. AccountsTypeOK'
  BY <1>1, <1>5, <1>6 DEF AccountsTypeOK
<1>8. DoingAgrees'
  BY <1>1, <1>4, <1>5, <1>6 DEF DoingAgrees
<1>9. BeforeTheOwner' /\ OwnerIsBound'
  BY <1>5, <1>6 DEF BeforeTheOwner, OwnerIsBound
<1>10. OneOpen' /\ PendingKnown' /\ AdminAgrees' /\ PollingAgrees'
  BY <1>1 DEF OneOpen, PendingKnown, AdminAgrees, PollingAgrees, Open, Pending, Owned
<1> QED BY <1>5, <1>7, <1>8, <1>9, <1>10 DEF DirectoryInv

LEMMA OwnershipMirrored == ASSUME DirectoryInv, MirrorOwner PROVE DirectoryInv'
<1>1. /\ AccountsTypeOK /\ OneOwner /\ RowsAgree /\ OneOpen /\ PendingKnown /\ AdminAgrees /\ PollingAgrees
      /\ doing.step = "mirror" /\ doing' = Idle
      /\ UNCHANGED <<bindings, idents, sessions, runtimes, pollers, qr, admin>>
  BY DEF DirectoryInv, MirrorOwner
<1>2. PICK t \in People, o \in People :
          /\ t = doing.person /\ o = doing.from /\ t \in Owners
          /\ users[o] = [role |-> "member", status |-> "active"]
          /\ bindings[o] # Unbound /\ doing.account = bindings[t].account
  BY <1>1 DEF DirectoryInv, DoingAgrees, Owners
<1>3. Owners = {t} /\ users[t] = [role |-> "owner", status |-> "active"]
  BY <1>1, <1>2 DEF Owners, OneOwner, AccountsTypeOK, UserRow, Absent
<1>4. doing'.step = "idle" /\ DoingAgrees'
  BY <1>1 DEF Idle, DoingAgrees
<1>5. PICK p \in People :
          /\ bindings[p] # Unbound /\ Mirror(bindings[p].account, bindings[p].sender)
          /\ users' \in [People -> UserRow] /\ Owners' = {p} /\ OneOwner' /\ RowsAgree'
  <2>1. CASE /\ doing.account # NoAccount /\ bindings[t].state = "active" /\ idents[doing.account] = "active"
             /\ runtimes[doing.account] # "none"
    <3>1. Mirror(bindings[t].account, bindings[t].sender) /\ UNCHANGED users
      BY <1>2, <2>1 DEF MirrorOwner
    <3>2. bindings[t] # Unbound
      BY <2>1 DEF Unbound
    <3>3. Owners' = {t} /\ OneOwner' /\ RowsAgree'
      BY <1>1, <1>3, <3>1 DEF Owners, OneOwner, RowsAgree
    <3> QED BY <1>1, <3>1, <3>2, <3>3 DEF AccountsTypeOK
  <2>2. CASE ~ (/\ doing.account # NoAccount /\ bindings[t].state = "active" /\ idents[doing.account] = "active"
                /\ runtimes[doing.account] # "none")
    <3>1. users' = Swapped(t, o) /\ Mirror(bindings[o].account, bindings[o].sender)
      BY <1>2, <2>2 DEF MirrorOwner
    <3>2. users' \in [People -> UserRow] /\ Owners' = {o} /\ OneOwner' /\ RowsAgree'
      BY <1>1, <1>2, <1>3, <3>1, SwappedFacts DEF OneOwner
    <3> QED BY <1>2, <3>1, <3>2
  <2> QED BY <2>1, <2>2
<1>6. PICK a \in Accounts, x \in People : a = bindings[p].account /\ x = bindings[p].sender
  BY <1>1, <1>5 DEF AccountsTypeOK, BindingRow
<1>7. /\ files' = [files EXCEPT ![a] = {x}] /\ allow' = [allow EXCEPT ![a] = {x}]
      /\ active' = a /\ self' = a
  BY <1>5, <1>6 DEF Mirror
<1>8. AccountsTypeOK'
  BY <1>1, <1>4, <1>5, <1>7 DEF AccountsTypeOK
<1>9. BeforeTheOwner' /\ OwnerIsBound'
  BY <1>1, <1>5 DEF BeforeTheOwner, OwnerIsBound
<1>10. OneOpen' /\ PendingKnown' /\ AdminAgrees' /\ PollingAgrees'
  BY <1>1 DEF OneOpen, PendingKnown, AdminAgrees, PollingAgrees, Open, Pending, Owned
<1> QED BY <1>4, <1>5, <1>8, <1>9, <1>10 DEF DirectoryInv

\* Whatever was under way, the start settles it.
LEMMA StartsAgain == ASSUME DirectoryInv, Restart PROVE DirectoryInv'
<1>1. /\ AccountsTypeOK /\ BeforeTheOwner /\ OneOpen /\ PendingKnown
      /\ users' = WithOwner(files[active] \ NoFile) /\ bindings' = Migrated(active, users')
      /\ idents' = Kept(active) /\ self' = active /\ allow' = [a \in Accounts |-> files'[a] \ NoFile]
      /\ qr' = NoQr /\ doing' = Idle /\ admin' = Idle /\ UNCHANGED <<sessions, active>>
  BY DEF DirectoryInv, Restart
<1>2. PICK allowed \in SUBSET People : allowed = files[active] \ NoFile
  BY <1>1 DEF AccountsTypeOK, NoFile
<1>3. /\ users' \in [People -> UserRow] /\ bindings' \in [People -> BindingRow]
      /\ OneOwner' /\ RowsAgree' /\ \A p \in Owners' : bindings'[p] # Unbound
      /\ \A b \in Accounts : Owned(b) => Owned(b)'
      /\ Owners' = {} => Owners = {} /\ allowed = {} /\ users' = users
  <2>1. active \in Accounts /\ users' = WithOwner(allowed)
    BY <1>1, <1>2 DEF AccountsTypeOK
  <2> QED BY <1>1, <2>1, Settled
<1>4. PICK o \in SUBSET People : /\ o = {p \in People : users'[p].role = "owner"}
                                 /\ files' = IF o = {} THEN files ELSE [files EXCEPT ![active] = o]
  BY DEF Restart
<1>5. files' \in [Accounts -> SUBSET (People \cup {NoOne})] /\ allow' \in [Accounts -> SUBSET People]
  <2>1. files' \in [Accounts -> SUBSET (People \cup {NoOne})]
    BY <1>1, <1>4 DEF AccountsTypeOK
  <2> QED BY <1>1, <2>1 DEF NoFile
<1>6. /\ idents' \in [Accounts -> IdentState] /\ idents'[active] \in {"revoked", "active"}
      /\ \A b \in Accounts : b # active => idents'[b] = idents[b]
  <2>1. idents' = [idents EXCEPT ![active] = IF idents[active] = "revoked" THEN idents[active] ELSE "active"]
    BY <1>1 DEF Kept
  <2> QED BY <1>1, <2>1 DEF AccountsTypeOK, IdentState
<1>7. /\ pollers' \subseteq Startable(idents')
      /\ runtimes' \in [Accounts -> {"none", "pairing", "polling", "stopped", "session_expired"}]
      /\ \A a \in Accounts : runtimes'[a] = "polling" => a \in pollers' /\ ~ Pairs(a, idents', allow')
  <2>1. PICK known : known = {a \in Accounts : \/ a = active
                                               \/ files[a] # NoFile /\ idents[a] \notin {"absent", "revoked"}}
    OBVIOUS
  <2>2. PICK up : up = IF enabled THEN known \cap Startable(idents') ELSE {}
    OBVIOUS
  <2>3. /\ pollers' = up
        /\ \E orderly \in BOOLEAN : runtimes' = [a \in Accounts |->
              IF a \in up THEN IF Pairs(a, idents', allow') THEN "pairing" ELSE "polling"
              ELSE IF a \notin known THEN "none"
              ELSE IF ~ orderly /\ idents[a] = "session_expired" THEN "session_expired" ELSE "stopped"]
    BY <2>1, <2>2 DEF Restart
  <2>4. up \subseteq Startable(idents')
    BY <2>2
  <2> QED BY <2>3, <2>4
<1>8. pollers' \subseteq Accounts
  BY <1>7 DEF Startable
<1>9. doing'.step = "idle" /\ admin'.step = "idle" /\ NoQr \in [session : Sessions \cup {NoSession}, tasks : Nat]
      /\ ~ (NoQr.tasks > 0)
  BY <1>1 DEF Idle, NoQr
<1>10. AccountsTypeOK'
  BY <1>1, <1>3, <1>5, <1>6, <1>7, <1>8, <1>9 DEF AccountsTypeOK
<1>11. BeforeTheOwner'
  <2> SUFFICES ASSUME Owners' = {}
               PROVE  Open' = {} /\ (\A p \in People : users'[p] = Absent) /\ allow'[self'] = {}
    BY DEF BeforeTheOwner
  <2>1. Open' = {} /\ \A p \in People : users'[p] = Absent
    BY <1>1, <1>3 DEF BeforeTheOwner, Open
  <2>2. o = {}
    BY <1>4, <2>1 DEF Absent
  <2>3. files'[active] \ NoFile = {}
    BY <1>2, <1>3, <1>4, <2>2
  <2> QED BY <1>1, <2>1, <2>3 DEF AccountsTypeOK
<1>12. OwnerIsBound' /\ DoingAgrees' /\ OneOpen' /\ AdminAgrees'
  BY <1>1, <1>3, <1>9 DEF OwnerIsBound, DoingAgrees, OneOpen, AdminAgrees, Open
<1>13. PendingKnown'
  <2> SUFFICES ASSUME NEW b \in Accounts, idents'[b] = "pending_pairing" PROVE Pending(b)' # {} \/ Owned(b)'
    BY DEF PendingKnown
  <2>1. Pending(b) # {} \/ Owned(b)
    BY <1>1, <1>6 DEF PendingKnown
  <2> QED BY <1>1, <1>3, <2>1 DEF Pending, Open
<1>14. PollingAgrees'
  <2> SUFFICES ASSUME NEW b \in Accounts, runtimes'[b] = "polling"
               PROVE  idents'[b] # "pending_pairing" /\ idents'[b] # "revoked"
    BY DEF PollingAgrees
  <2>1. b \in pollers' /\ ~ Pairs(b, idents', allow')
    BY <1>7
  <2> QED BY <1>7, <2>1 DEF Startable, Pairs
<1> QED BY <1>3, <1>10, <1>11, <1>12, <1>13, <1>14 DEF DirectoryInv

LEMMA DirectoryStep == DirectoryInv /\ [AccountsNext]_accountVars => DirectoryInv'
<1> SUFFICES ASSUME DirectoryInv, [AccountsNext]_accountVars PROVE DirectoryInv'
  OBVIOUS
<1>1. ASSUME \/ StartOwnerPairing \/ OwnerCodeLapses \/ UNCHANGED accountVars
             \/ \E i \in Invites : CreateInvitation(i) \/ InvitationEnds(i)
      PROVE  DirectoryInv'
  BY <1>1, CodesMove
<1>2. ASSUME RegisterOwner PROVE DirectoryInv'
  BY <1>2, OwnerRegistered
<1>3. ASSUME AttachIdentity PROVE DirectoryInv'
  BY <1>3, AttachMoves
<1>4. ASSUME AllowSender \/ FinishChange \/ MirrorOwner \/ Restart PROVE DirectoryInv'
  BY <1>4, SenderAllowed, ChangeEnds, OwnershipMirrored, StartsAgain
<1>5. ASSUME PauseMaintenance \/ ResumeMaintenance \/ \E on \in BOOLEAN : SetPoller(on) PROVE DirectoryInv'
  BY <1>5, PollersMove
<1>6. ASSUME NEW p \in People, ClaimOwner(p) \/ AcceptOwnerQr(p) \/ TransferOwner(p) PROVE DirectoryInv'
  BY <1>6, OwnerClaims, OwnerReturns, OwnershipMoves
<1>7. ASSUME \/ \E s \in Sessions : SessionLapses(s) \/ CleanupExpires(s) \/ CancelOnboarding(s)
             \/ \E how \in {"expired", "failed", "already_bound"} : QrEnds(how)
      PROVE  DirectoryInv'
  BY <1>7, SessionsEnd
<1>8. ASSUME NEW s \in Sessions, NEW t \in People \cup {NoOne}, CreateOnboarding(s, t) PROVE DirectoryInv'
  BY <1>8, SessionBegins
<1>9. ASSUME NEW a \in Accounts, NEW x \in People, AcceptMemberQr(a, x) \/ ClaimOnboarding(a, x) \/ WrongCode(a, x)
      PROVE  DirectoryInv'
  BY <1>9, ScanAccepted, OnboardingClaimed, WrongCodes
<1>10. ASSUME NEW i \in Invites, NEW x \in People, ClaimInvitation(i, x) PROVE DirectoryInv'
  BY <1>10, InvitationClaimed
<1>11. ASSUME NEW p \in People, NEW act \in {"suspend", "resume", "revoke"}, ChangeUserState(p, act) \/ ReplayChange(p, act)
       PROVE  DirectoryInv'
  BY <1>11, StatesChange, ReplaysMove
<1>12. ASSUME NEW a \in Accounts, SessionExpired(a) PROVE DirectoryInv'
  BY <1>12, SessionsExpire
<1> QED BY <1>1, <1>2, <1>3, <1>4, <1>5, <1>6, <1>7, <1>8, <1>9, <1>10, <1>11, <1>12 DEF AccountsNext

LEMMA DirectorySays == DirectoryInv => DirectoryAgrees
<1> SUFFICES ASSUME DirectoryInv PROVE DirectoryAgrees
  OBVIOUS
<1>1. /\ AccountsTypeOK /\ OneOwner /\ RowsAgree /\ OwnerIsBound /\ OneOpen /\ PendingKnown /\ PollingAgrees
  BY DEF DirectoryInv
<1>2. ASSUME NEW S, \A x, y \in S : x = y PROVE Cardinality(S) <= 1
  <2>1. CASE S = {}
    BY <2>1, FS_EmptySet
  <2>2. CASE S # {}
    <3>1. PICK x : S = {x}
      BY <1>2, <2>2
    <3> QED BY <3>1, FS_Singleton
  <2> QED BY <2>1, <2>2
<1>3. Cardinality(Owners) <= 1 /\ Cardinality(Open) <= 1
  BY <1>1, <1>2 DEF OneOwner, OneOpen
<1>4. ASSUME Quiet, Owners # {} PROVE bindings[Owner].state = "active"
  <2>1. Owner \in Owners
    BY <1>4 DEF Owner
  <2>2. doing.step # "mirror"
    BY <1>4 DEF Quiet, Idle
  <2> QED BY <1>1, <2>1, <2>2 DEF OwnerIsBound, RowsAgree, Owners
<1>5. \A p \in People : bindings[p] # Unbound => bindings[p].state = users[p].status
  BY <1>1 DEF RowsAgree
<1>6. \A a \in Accounts : idents[a] = "pending_pairing" =>
          Pending(a) # {} \/ \E p \in People : bindings[p].account = a /\ bindings[p].type = "primary"
  BY <1>1 DEF PendingKnown, Owned
<1>7. admin = Idle => \A a \in pollers : idents[a] # "revoked" \/ runtimes[a] # "polling"
  BY <1>1 DEF AccountsTypeOK, PollingAgrees, Idle
<1> QED BY <1>3, <1>4, <1>5, <1>6, <1>7 DEF DirectoryAgrees

\* The tables, the files and the runtimes of the directory keep their invariant
\* at every step of every handler of the gateway, and at a restart between any
\* two (DirectoryInv).
THEOREM DirectoryStaysSound == AccountsSpec => []DirectoryInv
<1>1. AccountsInit => DirectoryInv
  BY DirectoryInitInv
<1>2. DirectoryInv /\ [AccountsNext]_accountVars => DirectoryInv'
  BY DirectoryStep
<1> QED BY <1>1, <1>2, PTL DEF AccountsSpec

\* At most one owner, who outside a transfer is bound to an account; a binding
\* with its person's status; one onboarding session at a time; an account that
\* waits for a pairing message somebody can send; no poller serving a removed
\* account: for any people, accounts, sessions, invitations and scans.
THEOREM TheDirectoryAgrees == AccountsSpec => []DirectoryAgrees
<1>1. DirectoryInv => DirectoryAgrees
  BY DirectorySays
<1> QED BY <1>1, DirectoryStaysSound, PTL

-----------------------------------------------------------------------------
(* The directory keeps the promise of WeixinStanding.                        *)

Words == [p \in People |-> Standing(p)]

LEMMA StandingSays ==
    ASSUME AccountsTypeOK, OneOwner, NEW p \in People
    PROVE  /\ (Standing(p) = "owner") = (p \in Owners)
           /\ (Standing(p) = "none") = (users[p] = Absent)
           /\ (Standing(p) = "member") = (users[p] = [role |-> "member", status |-> "active"])
           /\ (Standing(p) = "suspended") = (users[p] = [role |-> "member", status |-> "suspended"])
           /\ (Standing(p) = "removed") = (users[p] = [role |-> "member", status |-> "revoked"])
<1>1. users[p] = Absent \/ users[p] \in [role : {"owner", "member"}, status : PersonStatus]
  BY DEF AccountsTypeOK, UserRow
<1>2. CASE users[p] = Absent
  <2>1. users[p].role = "none" /\ users[p].status = "none"
    BY <1>2 DEF Absent
  <2>2. Standing(p) = "none"
    BY <2>1 DEF Standing
  <2> QED BY <1>2, <2>1, <2>2 DEF Owners
<1>3. CASE users[p] \in [role : {"owner", "member"}, status : PersonStatus]
  <2>1. users[p] # Absent
    BY <1>3 DEF Absent
  <2>2. CASE users[p].role = "owner"
    <3>1. users[p].status = "active"
      BY <2>2 DEF OneOwner
    <3>2. Standing(p) = "owner"
      BY <2>2 DEF Standing
    <3>3. p \in Owners /\ users[p].role # "member"
      BY <2>2, <3>1 DEF Owners
    <3> QED BY <2>1, <3>2, <3>3
  <2>3. CASE users[p].role = "member"
    <3>1. users[p] = [role |-> "member", status |-> users[p].status]
      BY <1>3, <2>3
    <3>2. CASE users[p].status = "active"
      <4>1. Standing(p) = "member"
        BY <2>3, <3>2 DEF Standing
      <4> QED BY <2>1, <2>3, <3>1, <3>2, <4>1 DEF Owners
    <3>3. CASE users[p].status = "suspended"
      <4>1. Standing(p) = "suspended"
        BY <2>3, <3>3 DEF Standing
      <4> QED BY <2>1, <2>3, <3>1, <3>3, <4>1 DEF Owners
    <3>4. CASE users[p].status = "revoked"
      <4>1. Standing(p) = "removed"
        BY <2>3, <3>4 DEF Standing
      <4> QED BY <2>1, <2>3, <3>1, <3>4, <4>1 DEF Owners
    <3> QED BY <1>3, <3>2, <3>3, <3>4 DEF PersonStatus
  <2> QED BY <1>3, <2>2, <2>3
<1> QED BY <1>1, <1>2, <1>3

\* One row changes.
LEMMA OneBecomes ==
    ASSUME NEW p \in People, \A q \in People : q # p => users'[q] = users[q],
           NEW word, Standing(p)' = word
    PROVE  Promise!Becomes(p, word)
<1>1. \A q \in People : q # p => Standing(q)' = Standing(q)
  BY DEF Standing
<1>2. Words' = [Words EXCEPT ![p] = word]
  BY <1>1 DEF Words
<1> QED BY <1>2 DEF Words, Promise!Becomes

\* The first owner, registered or found again at a start.
LEMMA FoundOrSame ==
    ASSUME DirectoryInv, DirectoryInv', NEW allowed \in SUBSET People, users' = WithOwner(allowed)
    PROVE  users' = users \/ \E p \in People : Promise!Found(p)
<1>1. /\ Owners # {} \/ allowed = {} => users' = users
      /\ Owners = {} /\ allowed # {} =>
            \E p \in allowed : /\ users'[p] = [role |-> "owner", status |-> "active"]
                               /\ \A q \in People : q # p => users'[q] = Absent
  BY OwnerChosen
<1>2. /\ AccountsTypeOK /\ OneOwner
      /\ Owners = {} => \A p \in People : users[p] = Absent
  BY DEF DirectoryInv, BeforeTheOwner
<1>3. CASE Owners = {} /\ allowed # {}
  <2>1. PICK p \in People : /\ users'[p] = [role |-> "owner", status |-> "active"]
                            /\ \A q \in People : q # p => users'[q] = Absent
    BY <1>1, <1>3
  <2>2. Standing(p)' = "owner"
    <3>1. users'[p].role = "owner"
      BY <2>1
    <3> QED BY <3>1 DEF Standing
  <2>3. Promise!Becomes(p, "owner")
    <3>1. \A q \in People : q # p => users'[q] = users[q]
      BY <1>2, <1>3, <2>1
    <3> QED BY <2>2, <3>1, OneBecomes
  <2>4. \A q \in People : Standing(q) = "none"
    <3> TAKE q \in People
    <3>1. users[q] = Absent
      BY <1>2, <1>3
    <3> QED BY <1>2, <3>1, StandingSays
  <2>5. Promise!Found(p)
    BY <2>3, <2>4 DEF Promise!Found
  <2> QED BY <2>5
<1> QED BY <1>1, <1>3

\* Somebody who had no row becomes a member.
LEMMA JoinsOrSame ==
    ASSUME DirectoryInv, NEW p \in People, Owners # {},
           users[p] = Absent \/ users[p] = [role |-> "member", status |-> "active"],
           users' = [users EXCEPT ![p] = [role |-> "member", status |-> "active"]]
    PROVE  users' = users \/ Promise!Join(p)
<1>1. AccountsTypeOK /\ OneOwner
  BY DEF DirectoryInv
<1>2. CASE users[p] = Absent
  <2>1. users'[p] = [role |-> "member", status |-> "active"] /\ \A q \in People : q # p => users'[q] = users[q]
    BY <1>1 DEF AccountsTypeOK
  <2>2. Standing(p)' = "member"
    BY <2>1 DEF Standing
  <2>3. Promise!Becomes(p, "member")
    BY <2>1, <2>2, OneBecomes
  <2>4. Standing(p) = "none" /\ \E q \in People : Standing(q) = "owner"
    BY <1>1, <1>2, StandingSays DEF Owners
  <2> QED BY <2>3, <2>4 DEF Promise!Join
<1>3. CASE users[p] = [role |-> "member", status |-> "active"]
  BY <1>1, <1>3 DEF AccountsTypeOK
<1> QED BY <1>2, <1>3

LEMMA ChangesAsPromised ==
    ASSUME DirectoryInv, NEW p \in People, NEW act \in {"suspend", "resume", "revoke"}, ChangeUserState(p, act)
    PROVE  Promise!Suspend(p) \/ Promise!Resume(p) \/ Promise!Remove(p)
<1>1. AccountsTypeOK /\ OneOwner /\ MayChange(p, act) /\ users' = [users EXCEPT ![p].status = Status(act)]
  BY DEF DirectoryInv, ChangeUserState
<1>2. users[p] \in UserRow /\ users[p].role = "member"
  BY <1>1 DEF MayChange, AccountsTypeOK
<1>3. PICK to : to = Status(act)
  OBVIOUS
<1>4. users'[p] = [role |-> "member", status |-> to] /\ \A q \in People : q # p => users'[q] = users[q]
  <2>1. [users[p] EXCEPT !.status = to] = [role |-> "member", status |-> to]
    BY <1>2 DEF UserRow, Absent
  <2>2. users' = [users EXCEPT ![p] = [role |-> "member", status |-> to]]
    BY <1>1, <1>3, <2>1
  <2> QED BY <1>1, <2>2 DEF AccountsTypeOK
<1>5. CASE act = "suspend"
  <2>1. users[p] = [role |-> "member", status |-> "active"] /\ to = "suspended"
    BY <1>1, <1>3, <1>5 DEF MayChange, Status
  <2>2. Standing(p) = "member"
    BY <1>1, <2>1, StandingSays
  <2>3. Standing(p)' = "suspended"
    BY <1>4, <2>1 DEF Standing
  <2> QED BY <1>4, <2>2, <2>3, OneBecomes DEF Promise!Suspend
<1>6. CASE act = "resume"
  <2>1. users[p] = [role |-> "member", status |-> "suspended"] /\ to = "active"
    BY <1>1, <1>3, <1>6 DEF MayChange, Status
  <2>2. Standing(p) = "suspended"
    BY <1>1, <2>1, StandingSays
  <2>3. Standing(p)' = "member"
    BY <1>4, <2>1 DEF Standing
  <2> QED BY <1>4, <2>2, <2>3, OneBecomes DEF Promise!Resume
<1>7. CASE act = "revoke"
  <2>1. users[p].role = "member" /\ users[p].status # "revoked" /\ to = "revoked"
    BY <1>1, <1>3, <1>7 DEF MayChange, Status
  <2>2. users[p] = [role |-> "member", status |-> "active"] \/ users[p] = [role |-> "member", status |-> "suspended"]
    BY <1>2, <2>1 DEF UserRow, PersonStatus, Absent
  <2>3. Standing(p) \in {"member", "suspended"}
    BY <1>1, <2>2, StandingSays
  <2>4. Standing(p)' = "removed"
    BY <1>4, <2>1 DEF Standing
  <2> QED BY <1>4, <2>3, <2>4, OneBecomes DEF Promise!Remove
<1> QED BY <1>5, <1>6, <1>7

\* The ownership moves, or moves back.
LEMMA SwapsAsPromised ==
    ASSUME DirectoryInv, NEW o \in People, NEW t \in People, Owners = {o},
           users[t] = [role |-> "member", status |-> "active"], users' = Swapped(o, t)
    PROVE  Promise!Transfer(t)
<1>1. AccountsTypeOK /\ OneOwner /\ RowsAgree
  BY DEF DirectoryInv
<1>2. users[o] = [role |-> "owner", status |-> "active"]
  <2>1. users[o].role = "owner" /\ users[o].status = "active" /\ users[o] \in UserRow
    BY <1>1 DEF Owners, AccountsTypeOK
  <2> QED BY <2>1 DEF UserRow, Absent
<1>3. /\ users'[o] = [role |-> "member", status |-> "active"] /\ users'[t] = [role |-> "owner", status |-> "active"]
      /\ \A p \in People : p # o /\ p # t => users'[p] = users[p]
  BY <1>1, <1>2, SwappedFacts DEF OneOwner
<1>4. Standing(t) = "member" /\ \A p \in People : (Standing(p) = "owner") = (p = o)
  BY <1>1, StandingSays
<1>5. Standing(o)' = "member" /\ Standing(t)' = "owner"
  BY <1>3 DEF Standing
<1>6. \A p \in People : p # o /\ p # t => Standing(p)' = Standing(p)
  <2> TAKE p \in People
  <2> HAVE p # o /\ p # t
  <2>1. users'[p] = users[p]
    BY <1>3
  <2> QED BY <2>1 DEF Standing
<1>7. o # t
  BY <1>2
<1>8. Words' = [q \in People |-> IF q = t THEN "owner" ELSE IF Words[q] = "owner" THEN "member" ELSE Words[q]]
  BY <1>4, <1>5, <1>6, <1>7 DEF Words
<1> QED BY <1>4, <1>8 DEF Words, Promise!Transfer

LEMMA StandingMoves ==
    ASSUME DirectoryInv, DirectoryInv', [AccountsNext]_accountVars
    PROVE  users' = users \/ Promise!StandingNext
<1>1. AccountsTypeOK /\ OneOwner /\ BeforeTheOwner /\ DoingAgrees
  BY DEF DirectoryInv
<1>2. \A o \in Owners : Owners = {o}
  BY <1>1 DEF OneOwner
<1>3. CASE RegisterOwner \/ Restart
  <2>1. PICK allowed \in SUBSET People : users' = WithOwner(allowed)
    <3>1. CASE RegisterOwner
      <4>1. users' = WithOwner(files[self]) /\ files[self] = {doing.person} /\ doing.person \in People
        BY <1>1, <3>1 DEF RegisterOwner, DoingAgrees
      <4>2. files[self] \in SUBSET People
        BY <4>1
      <4> QED BY <4>1, <4>2
    <3>2. CASE Restart
      <4>1. users' = WithOwner(files[active] \ NoFile)
        BY <3>2 DEF Restart
      <4>2. files[active] \ NoFile \in SUBSET People
        BY <1>1 DEF AccountsTypeOK, NoFile
      <4> QED BY <4>1, <4>2
    <3> QED BY <1>3, <3>1, <3>2
  <2> QED BY <2>1, FoundOrSame DEF Promise!StandingNext
<1>4. ASSUME NEW a \in Accounts, NEW x \in People, ClaimOnboarding(a, x)
      PROVE  users' = users \/ Promise!StandingNext
  <2>1. PICK s \in Pending(a) :
            /\ MayBind(s, a, x)
            /\ users' = [users EXCEPT ![Target(s, x)] = [role |-> "member", status |-> "active"]]
    BY <1>4 DEF ClaimOnboarding
  <2>2. s \in Open /\ s \in Sessions
    BY DEF Pending, Open
  <2>3. PICK p \in People : p = Target(s, x)
    BY <1>1, <2>2 DEF Target, AccountsTypeOK, SessionRow
  <2>4. users[p] = Absent \/ users[p] = [role |-> "member", status |-> "active"]
    BY <2>1, <2>3 DEF MayBind
  <2>5. Owners # {} /\ users' = [users EXCEPT ![p] = [role |-> "member", status |-> "active"]]
    BY <1>1, <2>1, <2>2, <2>3 DEF BeforeTheOwner
  <2>6. users' = users \/ Promise!Join(p)
    BY <2>4, <2>5, JoinsOrSame
  <2> QED BY <2>6 DEF Promise!StandingNext
<1>5. ASSUME NEW i \in Invites, NEW x \in People, ClaimInvitation(i, x)
      PROVE  users' = users \/ Promise!StandingNext
  <2>1. /\ Quiet /\ allow[self] # {} /\ users[x] = Absent
        /\ users' = [users EXCEPT ![x] = [role |-> "member", status |-> "active"]]
    BY <1>5 DEF ClaimInvitation, Hears
  <2>2. Owners # {}
    BY <1>1, <2>1 DEF BeforeTheOwner, Quiet, Idle
  <2>3. users' = users \/ Promise!Join(x)
    BY <2>1, <2>2, JoinsOrSame
  <2> QED BY <2>3 DEF Promise!StandingNext
<1>6. ASSUME NEW p \in People, NEW act \in {"suspend", "resume", "revoke"}, ChangeUserState(p, act)
      PROVE  Promise!StandingNext
  <2>1. Promise!Suspend(p) \/ Promise!Resume(p) \/ Promise!Remove(p)
    BY <1>6, ChangesAsPromised
  <2> QED BY <2>1 DEF Promise!StandingNext
<1>7. ASSUME NEW t \in People, TransferOwner(t) PROVE Promise!StandingNext
  <2>1. /\ Owners # {} /\ users[t] = [role |-> "member", status |-> "active"] /\ users' = Swapped(Owner, t)
    BY <1>7 DEF TransferOwner
  <2>2. PICK o \in People : o = Owner /\ Owners = {o}
    BY <1>2, <2>1 DEF Owner, Owners
  <2>3. Promise!Transfer(t)
    BY <2>1, <2>2, SwapsAsPromised
  <2> QED BY <2>3 DEF Promise!StandingNext
<1>8. CASE MirrorOwner
  <2>1. PICK t \in People, o \in People :
            /\ t = doing.person /\ o = doing.from /\ t \in Owners
            /\ users[o] = [role |-> "member", status |-> "active"]
    BY <1>1, <1>8 DEF MirrorOwner, DoingAgrees, Owners
  <2>2. users' = users \/ users' = Swapped(t, o)
    BY <1>8, <2>1 DEF MirrorOwner
  <2>3. users' = users \/ Promise!Transfer(o)
    BY <1>2, <2>1, <2>2, SwapsAsPromised
  <2> QED BY <2>3 DEF Promise!StandingNext
<1>9. ASSUME \/ StartOwnerPairing \/ OwnerCodeLapses \/ AttachIdentity \/ AllowSender \/ FinishChange
             \/ PauseMaintenance \/ ResumeMaintenance \/ UNCHANGED accountVars
             \/ \E p \in People : ClaimOwner(p) \/ AcceptOwnerQr(p)
             \/ \E s \in Sessions : SessionLapses(s) \/ CleanupExpires(s) \/ CancelOnboarding(s)
             \/ \E s \in Sessions, t \in People \cup {NoOne} : CreateOnboarding(s, t)
             \/ \E how \in {"expired", "failed", "already_bound"} : QrEnds(how)
             \/ \E a \in Accounts, x \in People : AcceptMemberQr(a, x) \/ WrongCode(a, x)
             \/ \E i \in Invites : CreateInvitation(i) \/ InvitationEnds(i)
             \/ \E p \in People, act \in {"suspend", "resume", "revoke"} : ReplayChange(p, act)
             \/ \E on \in BOOLEAN : SetPoller(on)
             \/ \E a \in Accounts : SessionExpired(a)
      PROVE  users' = users
  BY <1>9 DEF StartOwnerPairing, OwnerCodeLapses, AttachIdentity, AllowSender, FinishChange, PauseMaintenance,
              ResumeMaintenance, ClaimOwner, AcceptOwnerQr, SessionLapses, CleanupExpires, CancelOnboarding,
              CreateOnboarding, QrEnds, AcceptMemberQr, WrongCode, CreateInvitation, InvitationEnds, SetInvite,
              ReplayChange, SetPoller, SessionExpired, durableVars, accountVars
<1> QED BY <1>3, <1>4, <1>5, <1>6, <1>7, <1>8, <1>9 DEF AccountsNext

\* The directory implements WeixinStanding: every change of the table of people
\* is one of its steps, through claims, invitations, changes of state, transfers
\* that are taken back, and restarts; a removed person never comes back.
THEOREM ImplementsStanding == AccountsSpec => KeepsStanding /\ Promise!StandingSpec
<1>1. AccountsInit => Promise!StandingInit
  <2> SUFFICES ASSUME AccountsInit PROVE \A p \in People : Standing(p) = "none"
    BY DEF Promise!StandingInit
  <2> TAKE p \in People
  <2>1. users[p].role = "none" /\ users[p].status = "none"
    BY DEF AccountsInit, Absent
  <2> QED BY <2>1 DEF Standing
<1>2. DirectoryInv /\ DirectoryInv' /\ [AccountsNext]_accountVars => [users' # users => Promise!StandingNext]_users
  BY StandingMoves
<1>3. DirectoryInv /\ DirectoryInv' /\ [AccountsNext]_accountVars
        => [Promise!StandingNext]_[p \in People |-> Standing(p)]
  <2> SUFFICES ASSUME DirectoryInv, DirectoryInv', [AccountsNext]_accountVars, users' = users
               PROVE  [p \in People |-> Standing(p)]' = [p \in People |-> Standing(p)]
    BY StandingMoves
  <2> QED BY DEF Standing
<1> QED BY <1>1, <1>2, <1>3, DirectoryStaysSound, PTL
        DEF AccountsSpec, KeepsStanding, Promise!StandingSpec
=============================================================================
