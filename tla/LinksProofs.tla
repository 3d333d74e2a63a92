---------------------------- MODULE LinksProofs ----------------------------
(***************************************************************************)
(* Theorems about what travels over connections that break: the Relay's    *)
(* table of connections, for any number of handlers and Runners; the way   *)
(* of a notification to the owner, for any requests and keys; the          *)
(* Controller's picture of a Desktop host, for any tasks and documents;    *)
(* and remote control of a task, for any requests and answers.             *)
(***************************************************************************)
EXTENDS RunnerRelay, Notifications, DesktopCommands, DesktopReadModel, FiniteSetTheorems,
        SequenceTheorems, WellFoundedInduction, TLAPS

-----------------------------------------------------------------------------
(* The Relay.  A place is held by whoever stands before its activation, and  *)
(* a Runner's place in the table by the handler that was activated for it.   *)

Phases == {"idle", "reserved", "named", "refused", "active", "posting"}
Reserved == {h \in Handlers : phase[h] \in {"reserved", "named", "refused"}}
Named == {h \in Handlers : phase[h] = "named"}
Authenticated == {h \in Handlers : phase[h] \in {"active", "posting"}}

RelayTypeOK ==
    /\ phase \in [Handlers -> Phases] /\ runner \in [Handlers -> Runners]
    /\ open \subseteq Handlers
    /\ connections \in [Runners -> Handlers \cup {NoHandler}]
    /\ publishing \in [Runners -> Handlers \cup {NoHandler}]

\* Places are counted by whoever holds them.
PlacesAgree ==
    /\ IsFiniteSet(Reserved) /\ pendingConnections = Cardinality(Reserved)
    /\ IsFiniteSet(Connected)
    /\ Cardinality(Connected) + pendingConnections <= MaxConnections

\* A Runner's first frame keeps every other one out until it is activated.
NamesAgree ==
    /\ pendingRunners = {runner[h] : h \in Named}
    /\ \A g, h \in Named : runner[g] = runner[h] => g = h
    /\ \A h \in Named : connections[runner[h]] \notin open

\* The table holds authenticated handlers, and all whose socket is open.
TableAgrees ==
    /\ \A r \in Runners : connections[r] # NoHandler =>
          connections[r] \in Authenticated /\ runner[connections[r]] = r
    /\ \A h \in Authenticated : h \in open => connections[runner[h]] = h

RelayInv == RelayTypeOK /\ PlacesAgree /\ NamesAgree /\ TableAgrees

LEMMA RelayInitInv == RelayInit => RelayInv
<1> SUFFICES ASSUME RelayInit PROVE RelayInv
  OBVIOUS
<1>1. (CHOOSE r \in Runners : TRUE) \in Runners
  BY RelayAssumption
<1>2. Reserved = {} /\ Connected = {} /\ Named = {} /\ Authenticated = {}
  BY DEF RelayInit, Reserved, Connected, Named, Authenticated
<1>3. RelayTypeOK
  BY <1>1 DEF RelayInit, RelayTypeOK, Phases
<1>4. PlacesAgree
  BY <1>2, FS_EmptySet, RelayAssumption DEF RelayInit, PlacesAgree
<1> QED BY <1>2, <1>3, <1>4 DEF RelayInit, RelayInv, NamesAgree, TableAgrees

\* The reserved handlers when one comes or goes.
LEMMA PlacesMove ==
    ASSUME PlacesAgree, NEW h \in Handlers
    PROVE  /\ IsFiniteSet(Reserved \cup {h}) /\ IsFiniteSet(Reserved \ {h})
           /\ h \notin Reserved => Cardinality(Reserved \cup {h}) = pendingConnections + 1
           /\ h \in Reserved => Cardinality(Reserved \ {h}) = pendingConnections - 1
           /\ pendingConnections \in Nat /\ Cardinality(Connected) \in Nat
           /\ h \in Reserved => pendingConnections > 0
<1>1. IsFiniteSet(Reserved) /\ pendingConnections = Cardinality(Reserved)
      /\ IsFiniteSet(Connected)
  BY DEF PlacesAgree
<1>2. pendingConnections \in Nat /\ Cardinality(Connected) \in Nat
  BY <1>1, FS_CardinalityType
<1>3. /\ IsFiniteSet(Reserved \cup {h})
      /\ Cardinality(Reserved \cup {h}) =
           IF h \in Reserved THEN Cardinality(Reserved) ELSE Cardinality(Reserved) + 1
  BY <1>1, FS_AddElement
<1>4. /\ IsFiniteSet(Reserved \ {h})
      /\ Cardinality(Reserved \ {h}) =
           IF h \in Reserved THEN Cardinality(Reserved) - 1 ELSE Cardinality(Reserved)
  BY <1>1, FS_RemoveElement
<1>5. h \in Reserved => Cardinality(Reserved \ {h}) \in Nat
  BY <1>4, FS_CardinalityType
<1>6. h \in Reserved => pendingConnections > 0
  BY <1>1, <1>2, <1>4, <1>5
<1> QED BY <1>1, <1>2, <1>3, <1>4, <1>6

LEMMA RelayStepInv == RelayInv /\ [RelayNext]_relayVars => RelayInv'
<1> SUFFICES ASSUME RelayInv, [RelayNext]_relayVars PROVE RelayInv'
  OBVIOUS
<1>1. RelayTypeOK /\ PlacesAgree /\ NamesAgree /\ TableAgrees
  BY DEF RelayInv
<1>2. ASSUME NEW h \in Handlers, AcceptSocket(h) PROVE RelayInv'
  <2>1. /\ phase' = [phase EXCEPT ![h] = "reserved"] /\ phase[h] = "idle"
        /\ UNCHANGED <<runner, connections, pendingRunners, publishing>>
        /\ open' = open \cup {h} /\ pendingConnections' = pendingConnections + 1
        /\ Cardinality(Connected) + pendingConnections < MaxConnections
    BY <1>2 DEF AcceptSocket, Goes
  <2>2. Reserved' = Reserved \cup {h} /\ h \notin Reserved
    BY <1>1, <2>1 DEF Reserved, RelayTypeOK
  <2>3. Named' = Named /\ Authenticated' = Authenticated /\ Connected' = Connected
    BY <1>1, <2>1 DEF Named, Authenticated, Connected, RelayTypeOK
  <2>4. PlacesAgree'
    BY <1>1, <2>1, <2>2, <2>3, PlacesMove, RelayAssumption DEF PlacesAgree
  <2>5. h \notin Authenticated /\ h \notin Named
    BY <2>1 DEF Authenticated, Named
  <2>6. RelayTypeOK'
    BY <1>1, <2>1 DEF RelayTypeOK, Phases
  <2>7. NamesAgree'
    BY <1>1, <2>1, <2>3, <2>5, RelayAssumption
       DEF NamesAgree, TableAgrees, RelayTypeOK, Named, NoHandler
  <2>8. TableAgrees'
    BY <1>1, <2>1, <2>3, <2>5 DEF TableAgrees
  <2> QED BY <2>4, <2>6, <2>7, <2>8 DEF RelayInv
<1>3. ASSUME NEW h \in Handlers, NEW r \in Runners, FirstFrame(h, r) PROVE RelayInv'
  <2>1. /\ phase[h] = "reserved" /\ h \in open
        /\ runner' = [runner EXCEPT ![h] = r]
        /\ UNCHANGED <<open, connections, pendingConnections, publishing>>
    BY <1>3 DEF FirstFrame
  <2>2. phase'[h] \in {"named", "refused"} /\ phase' = [phase EXCEPT ![h] = phase'[h]]
    BY <1>1, <1>3 DEF FirstFrame, Goes, RelayTypeOK
  <2>3. Reserved' = Reserved /\ Authenticated' = Authenticated /\ Connected' = Connected
    BY <1>1, <2>1, <2>2 DEF Reserved, Authenticated, Connected, RelayTypeOK
  <2>4. PlacesAgree'
    BY <1>1, <2>1, <2>3 DEF PlacesAgree
  <2>5. RelayTypeOK'
    BY <1>1, <2>1, <2>2 DEF RelayTypeOK, Phases
  <2>6. h \notin Authenticated /\ h \notin Named
    BY <2>1 DEF Authenticated, Named
  <2>7. TableAgrees'
    BY <1>1, <2>1, <2>3, <2>6 DEF TableAgrees, Authenticated, RelayTypeOK
  <2>8. \A g \in Named : runner'[g] = runner[g]
    BY <1>1, <2>1, <2>6 DEF RelayTypeOK, Named
  <2>9. NamesAgree'
    <3>1. CASE Taken(r)
      <4>1. pendingRunners' = pendingRunners /\ phase'[h] = "refused"
        BY <1>1, <1>3, <3>1 DEF FirstFrame, Goes, RelayTypeOK
      <4>2. Named' = Named
        BY <1>1, <2>2, <2>6, <4>1 DEF Named, RelayTypeOK
      <4>3. {runner'[g] : g \in Named} = {runner[g] : g \in Named}
        BY <2>8
      <4> QED BY <1>1, <2>1, <2>8, <4>1, <4>2, <4>3 DEF NamesAgree
    <3>2. CASE ~ Taken(r)
      <4>1. pendingRunners' = pendingRunners \cup {r} /\ phase'[h] = "named"
        BY <1>1, <1>3, <3>2 DEF FirstFrame, Goes, RelayTypeOK
      <4>2. Named' = Named \cup {h}
        BY <1>1, <2>2, <2>6, <4>1 DEF Named, RelayTypeOK
      <4>3. runner'[h] = r
        BY <1>1, <2>1 DEF RelayTypeOK
      <4>4. {runner'[g] : g \in Named'} = {runner[g] : g \in Named} \cup {r}
        BY <2>8, <4>2, <4>3
      <4>5. r \notin {runner[g] : g \in Named} /\ connections[r] \notin open
        BY <1>1, <3>2, RelayAssumption DEF Taken, NamesAgree, RelayTypeOK, NoHandler
      <4> QED BY <1>1, <2>1, <2>8, <4>1, <4>2, <4>3, <4>4, <4>5 DEF NamesAgree
    <3> QED BY <3>1, <3>2
  <2> QED BY <2>4, <2>5, <2>7, <2>9 DEF RelayInv
<1>4. ASSUME NEW h \in Handlers, Activate(h) PROVE RelayInv'
  <2> DEFINE r == runner[h]
  <2>1. /\ phase[h] = "named" /\ phase' = [phase EXCEPT ![h] = "active"]
        /\ connections' = [connections EXCEPT ![r] = h]
        /\ pendingRunners' = pendingRunners \ {r}
        /\ pendingConnections' = pendingConnections - 1
        /\ UNCHANGED <<runner, open, publishing>> /\ r \in Runners
    BY <1>1, <1>4 DEF Activate, Goes, RelayTypeOK
  <2>2. Reserved' = Reserved \ {h} /\ h \in Reserved /\ Named' = Named \ {h} /\ h \in Named
        /\ Authenticated' = Authenticated \cup {h} /\ h \notin Authenticated
    BY <1>1, <2>1 DEF Reserved, Named, Authenticated, RelayTypeOK
  <2>3. Connected' = Connected \cup {r}
    BY <1>1, <2>1, RelayAssumption DEF Connected, RelayTypeOK, NoHandler
  <2>4. /\ IsFiniteSet(Connected \cup {r})
        /\ Cardinality(Connected \cup {r}) =
             IF r \in Connected THEN Cardinality(Connected) ELSE Cardinality(Connected) + 1
    BY <1>1, FS_AddElement DEF PlacesAgree
  <2>5. PlacesAgree'
    <3>1. pendingConnections - 1 = Cardinality(Reserved \ {h}) /\ IsFiniteSet(Reserved \ {h})
          /\ pendingConnections \in Nat /\ Cardinality(Connected) \in Nat
          /\ Cardinality(Connected) + pendingConnections <= MaxConnections
      BY <1>1, <2>2, PlacesMove DEF PlacesAgree
    <3>2. Cardinality(Connected') + (pendingConnections - 1) <= MaxConnections
      BY <2>3, <2>4, <3>1, RelayAssumption
    <3> QED BY <2>1, <2>2, <2>3, <2>4, <3>1, <3>2 DEF PlacesAgree
  <2>6. RelayTypeOK'
    BY <1>1, <2>1 DEF RelayTypeOK, Phases
  <2>7. NamesAgree'
    <3>1. \A g \in Named \ {h} : runner[g] # r
      BY <1>1, <2>2 DEF NamesAgree
    <3>2. \A g \in Named \ {h} : connections'[runner[g]] = connections[runner[g]]
      BY <1>1, <2>1, <3>1 DEF RelayTypeOK, Named
    <3>3. pendingRunners \ {r} = {runner[g] : g \in Named \ {h}}
      BY <1>1, <3>1 DEF NamesAgree
    <3> QED BY <1>1, <2>1, <2>2, <3>1, <3>2, <3>3 DEF NamesAgree
  <2>8. TableAgrees'
    <3>1. ASSUME NEW g \in Authenticated, g \in open PROVE connections'[runner[g]] = g
      <4>1. connections[runner[g]] = g /\ runner[g] # r
        BY <1>1, <2>2, <3>1 DEF TableAgrees, NamesAgree
      <4> QED BY <1>1, <2>1, <4>1 DEF RelayTypeOK, Authenticated
    <3>2. connections'[r] = h /\ \A q \in Runners \ {r} : connections'[q] = connections[q]
      BY <1>1, <2>1 DEF RelayTypeOK
    <3> QED BY <1>1, <2>1, <2>2, <3>1, <3>2 DEF TableAgrees
  <2> QED BY <2>5, <2>6, <2>7, <2>8 DEF RelayInv
<1>5. ASSUME NEW h \in Handlers, Release(h) PROVE RelayInv'
  <2>1. /\ phase[h] \in {"reserved", "named", "refused"}
        /\ phase' = [phase EXCEPT ![h] = "idle"] /\ open' = open \ {h}
        /\ UNCHANGED <<runner, connections, publishing>>
    BY <1>5 DEF Release, Goes
  <2>2. Reserved' = Reserved \ {h} /\ h \in Reserved /\ Named' = Named \ {h}
        /\ Authenticated' = Authenticated /\ h \notin Authenticated /\ Connected' = Connected
    BY <1>1, <2>1 DEF Reserved, Named, Authenticated, RelayTypeOK, Connected
  <2>3. pendingConnections' = pendingConnections - 1
    BY <1>1, <1>5, <2>2, PlacesMove DEF Release
  <2>4. PlacesAgree'
    <3>1. pendingConnections - 1 = Cardinality(Reserved \ {h}) /\ IsFiniteSet(Reserved \ {h})
          /\ pendingConnections \in Nat /\ Cardinality(Connected) \in Nat
          /\ Cardinality(Connected) + pendingConnections <= MaxConnections
      BY <1>1, <2>2, PlacesMove DEF PlacesAgree
    <3>2. Cardinality(Connected) + (pendingConnections - 1) <= MaxConnections
      BY <3>1, RelayAssumption
    <3> QED BY <1>1, <2>2, <2>3, <3>1, <3>2 DEF PlacesAgree
  <2>5. RelayTypeOK'
    BY <1>1, <2>1 DEF RelayTypeOK, Phases
  <2>6. TableAgrees'
    BY <1>1, <2>1, <2>2 DEF TableAgrees
  <2>7. pendingRunners' = {runner[g] : g \in Named \ {h}}
    BY <1>1, <1>5, <2>1 DEF Release, NamesAgree, Named
  <2>8. NamesAgree'
    BY <1>1, <2>1, <2>2, <2>7 DEF NamesAgree
  <2> QED BY <2>4, <2>5, <2>6, <2>8 DEF RelayInv
<1>6. ASSUME NEW h \in Handlers, Post(h) \/ Acknowledge(h) \/ RejectEvent(h) \/ Close(h)
      PROVE  RelayInv'
  <2>1. /\ phase' = [phase EXCEPT ![h] = phase'[h]] /\ open' \subseteq open
        /\ \/ phase'[h] = phase[h]
           \/ phase[h] \in {"active", "posting"} /\ phase'[h] \in {"active", "posting"}
        /\ UNCHANGED <<runner, connections, pendingConnections, pendingRunners, publishing>>
    BY <1>1, <1>6 DEF Post, Acknowledge, RejectEvent, Close, Goes, RelayTypeOK
  <2>2. Reserved' = Reserved /\ Named' = Named /\ Authenticated' = Authenticated
        /\ Connected' = Connected
    BY <1>1, <2>1 DEF Reserved, Named, Authenticated, RelayTypeOK, Connected
  <2>3. RelayTypeOK'
    BY <1>1, <2>1 DEF RelayTypeOK, Phases
  <2> QED BY <1>1, <2>1, <2>2, <2>3 DEF RelayInv, PlacesAgree, NamesAgree, TableAgrees
<1>7. ASSUME NEW h \in Handlers, Unregister(h) PROVE RelayInv'
  <2> DEFINE r == runner[h]
  <2>1. /\ phase[h] = "active" /\ h \notin open /\ phase' = [phase EXCEPT ![h] = "idle"]
        /\ UNCHANGED <<runner, open, pendingConnections, pendingRunners, publishing>>
        /\ r \in Runners
    BY <1>1, <1>7 DEF Unregister, Goes, RelayTypeOK
  <2>2. /\ connections' \in [Runners -> Handlers \cup {NoHandler}]
        /\ \A q \in Runners : connections'[q] = IF connections[q] = h THEN NoHandler
                                                ELSE connections[q]
    <3>1. \A q \in Runners : connections[q] = h => q = r
      BY <1>1, RelayAssumption DEF TableAgrees, NoHandler
    <3> QED BY <1>1, <1>7, <2>1, <3>1 DEF Unregister, Dropped, RelayTypeOK
  <2>3. Reserved' = Reserved /\ Named' = Named /\ Authenticated' = Authenticated \ {h}
    BY <1>1, <2>1 DEF Reserved, Named, Authenticated, RelayTypeOK
  <2>4. IsFiniteSet(Connected') /\ Cardinality(Connected') <= Cardinality(Connected)
    <3>1. Connected' \subseteq Connected
      BY <2>2 DEF Connected
    <3> QED BY <1>1, <3>1, FS_Subset DEF PlacesAgree
  <2>5. Cardinality(Connected') \in Nat
    BY <2>4, FS_CardinalityType
  <2>6. PlacesAgree'
    <3>1. pendingConnections \in Nat /\ Cardinality(Connected) \in Nat
          /\ Cardinality(Connected) + pendingConnections <= MaxConnections
      BY <1>1, PlacesMove DEF PlacesAgree
    <3>2. Cardinality(Connected') + pendingConnections <= MaxConnections
      BY <2>4, <2>5, <3>1, RelayAssumption
    <3> QED BY <1>1, <2>1, <2>3, <2>4, <3>2 DEF PlacesAgree
  <2>7. RelayTypeOK'
    BY <1>1, <2>1, <2>2 DEF RelayTypeOK, Phases
  <2>8. NamesAgree'
    BY <1>1, <2>1, <2>2, <2>3, RelayAssumption DEF NamesAgree, RelayTypeOK, NoHandler, Named
  <2>9. TableAgrees'
    BY <1>1, <2>1, <2>2, <2>3 DEF TableAgrees, Authenticated, RelayTypeOK
  <2> QED BY <2>6, <2>7, <2>8, <2>9 DEF RelayInv
<1>8. ASSUME NEW r \in Runners, LookUp(r) \/ WriteFrame(r) PROVE RelayInv'
  <2>1. /\ UNCHANGED <<phase, runner, open, connections, pendingConnections, pendingRunners>>
        /\ publishing' \in [Runners -> Handlers \cup {NoHandler}]
    BY <1>1, <1>8 DEF LookUp, WriteFrame, RelayTypeOK
  <2> QED BY <1>1, <2>1 DEF RelayInv, RelayTypeOK, PlacesAgree, NamesAgree, TableAgrees,
                            Reserved, Named, Authenticated, Connected
<1>9. CASE UNCHANGED relayVars
  BY <1>1, <1>9 DEF relayVars, RelayInv, RelayTypeOK, PlacesAgree, NamesAgree, TableAgrees,
                    Reserved, Named, Authenticated, Connected
<1> QED BY <1>2, <1>3, <1>4, <1>5, <1>6, <1>7, <1>8, <1>9 DEF RelayNext

(* A Runner that is connected can be reached, and places are neither leaked  *)
(* nor given out twice, for any number of handlers and Runners               *)
(* (RelayHub.websocket, _reserve_runner, _activate, _unregister, publish).   *)
THEOREM ConnectedStaysReachable == RelaySpec => []ConnectedIsReachable
<1>1. RelayInv => ConnectedIsReachable
  BY DEF RelayInv, PlacesAgree, NamesAgree, TableAgrees, ConnectedIsReachable, Reserved,
         Named, Authenticated
<1> QED BY <1>1, RelayInitInv, RelayStepInv, PTL DEF RelaySpec

-----------------------------------------------------------------------------
(* Notifications.  A message's row says how far its sending may have come:   *)
(* one that was never entered reached nobody, and one whose sending may have *)
(* been entered is never taken up for sending again.                         *)

WorkerPlaces == {"idle", "begin", "sending", "got", "missed", "pause", "publish"}
LedgerRow == [status : {"none", "accepted", "sending", "retrying"} \cup FinalStatus,
              received : Nat, attempts : Nat]

NoticeTypeOK ==
    /\ adapter \in {"gateway", "hermes"}
    /\ clock \in Nat /\ expires \in [Messages -> Nat] /\ keyOf \in [Messages -> Keys]
    /\ ledger \in [Messages -> LedgerRow]
    /\ waiting \in Seq(Messages)
    /\ worker \in [m : Messages \cup {"none"}, at : WorkerPlaces, attempts : Nat, wake : Nat]
    /\ worker.at # "idle" => worker.m \in Messages
    /\ published \in [Messages -> SUBSET FinalStatus]
    /\ reached \in [Messages -> Nat]

\* The worker and the row of the message it has in hand.
WorkerAgrees ==
    /\ worker.at = "begin" => ledger[worker.m].status = "accepted"
    /\ worker.at \in {"sending", "got", "missed"} => ledger[worker.m].status = "sending"
    /\ worker.at = "pause" => ledger[worker.m].status = "retrying"
    /\ worker.at = "publish" => ledger[worker.m].status \in FinalStatus

Excused(m) == adapter = "hermes" /\ m \in blind
Unreached(m) == reached[m] = 0 \/ Excused(m)

ReachedAgrees ==
    /\ \A m \in Messages : reached[m] <= 1 \/ Excused(m)
    /\ worker.at \in {"sending", "missed", "pause"} => Unreached(worker.m)
    /\ \A m \in Messages : ledger[m].status \in {"none", "accepted", "duplicate"} => reached[m] = 0
    /\ \A m \in Messages : ledger[m].status = "none" => ledger[m] = NotInLedger

PublishedAgrees ==
    \A m \in Messages : published[m] \subseteq {ledger[m].status} \cap FinalStatus

\* Of one key, those that count were received more than a window apart.
KeysApart ==
    /\ \A m \in Messages : ledger[m].status # "none" => ledger[m].received <= clock
    /\ \A m, n \in Messages :
         (/\ m # n /\ keyOf[m] = keyOf[n]
          /\ ledger[m].status \in Counts /\ ledger[n].status \in Counts
          /\ ledger[m].received <= ledger[n].received)
            => ledger[m].received + DedupeWindow < ledger[n].received

NoticeInv == NoticeTypeOK /\ WorkerAgrees /\ ReachedAgrees /\ PublishedAgrees /\ KeysApart

LEMMA NoticeInitInv == NotificationInit => NoticeInv
<1> SUFFICES ASSUME NotificationInit PROVE NoticeInv
  OBVIOUS
<1>1. \A m \in Messages : ledger[m] = NotInLedger /\ published[m] = {} /\ reached[m] = 0
  BY DEF NotificationInit
<1>2. NoticeTypeOK
  <2>1. ledger \in [Messages -> LedgerRow]
    BY DEF NotificationInit, NotInLedger, LedgerRow
  <2>2. worker \in [m : Messages \cup {"none"}, at : WorkerPlaces, attempts : Nat, wake : Nat]
        /\ worker.at = "idle"
    BY DEF NotificationInit, Worker0, WorkerAt, WorkerPlaces
  <2> QED BY <2>1, <2>2 DEF NotificationInit, NoticeTypeOK
<1>3. worker.at = "idle"
  BY DEF NotificationInit, Worker0, WorkerAt
<1> QED BY <1>1, <1>2, <1>3
        DEF NoticeInv, WorkerAgrees, ReachedAgrees, PublishedAgrees, KeysApart, NotInLedger, Counts

\* What a booking writes.
LEMMA BookedRow ==
    ASSUME NoticeTypeOK, NEW m \in Messages, NEW status, NEW attempts \in Nat,
           status \in {"accepted", "sending", "retrying"} \cup FinalStatus,
           Booked(m, status, attempts)
    PROVE  /\ ledger' \in [Messages -> LedgerRow]
           /\ ledger'[m].status = status
           /\ ledger'[m].received = IF ledger[m].status = "none" THEN clock ELSE ledger[m].received
           /\ \A n \in Messages \ {m} : ledger'[n] = ledger[n]
<1> DEFINE new == [status |-> status, attempts |-> attempts,
                   received |-> IF ledger[m].status = "none" THEN clock ELSE ledger[m].received]
<1>1. ledger' = [ledger EXCEPT ![m] = new]
  BY DEF Booked
<1>2. ledger[m] \in LedgerRow /\ clock \in Nat /\ ledger \in [Messages -> LedgerRow]
  BY DEF NoticeTypeOK
<1>3. ledger[m].received \in Nat
  BY <1>2 DEF LedgerRow
<1>4. new \in LedgerRow
  BY <1>2, <1>3 DEF LedgerRow
<1>5. new.status = status
      /\ new.received = IF ledger[m].status = "none" THEN clock ELSE ledger[m].received
  OBVIOUS
<1> HIDE DEF new
<1> QED BY <1>1, <1>2, <1>4, <1>5

\* A row that is written keeps what was published and the keys apart: a
\* result is not written over, and a message begins to count only when no
\* other of its key was received within the window.
LEMMA RowsStayApart ==
    ASSUME NoticeInv, NEW m \in Messages, NEW status, NEW attempts \in Nat,
           status \in {"accepted", "sending", "retrying"} \cup FinalStatus,
           Booked(m, status, attempts), clock' = clock, keyOf' = keyOf, published' = published,
           ledger[m].status \notin FinalStatus,
           status \in Counts => ledger[m].status \in Counts \/ (ledger[m].status = "none" /\ ~ HasRecentDedupe(m))
    PROVE  PublishedAgrees' /\ KeysApart' /\ ledger' \in [Messages -> LedgerRow]
<1>1. NoticeTypeOK /\ PublishedAgrees /\ KeysApart
  BY DEF NoticeInv
<1>2. /\ ledger' \in [Messages -> LedgerRow]
      /\ ledger'[m].status = status
      /\ ledger'[m].received = IF ledger[m].status = "none" THEN clock ELSE ledger[m].received
      /\ \A n \in Messages \ {m} : ledger'[n] = ledger[n]
  BY <1>1, BookedRow
<1>3. published[m] = {}
  BY <1>1 DEF PublishedAgrees
<1>4. PublishedAgrees'
  BY <1>1, <1>2, <1>3 DEF PublishedAgrees
<1>5. \A n \in Messages : ledger[n].received \in Nat /\ ledger'[n].received \in Nat
  BY <1>1, <1>2 DEF NoticeTypeOK, LedgerRow
<1>6. clock \in Nat /\ DedupeWindow \in Nat
  BY <1>1, NotificationAssumption DEF NoticeTypeOK
<1>7. \A n \in Messages : ledger'[n].status # "none" => ledger'[n].received <= clock
  BY <1>1, <1>2, <1>6 DEF KeysApart
<1>8. ASSUME NEW j \in Messages, NEW k \in Messages, j # k, keyOf[j] = keyOf[k],
             ledger'[j].status \in Counts, ledger'[k].status \in Counts,
             ledger'[j].received <= ledger'[k].received
      PROVE  ledger'[j].received + DedupeWindow < ledger'[k].received
  <2>1. CASE j # m /\ k # m
    BY <1>1, <1>2, <1>8, <2>1 DEF KeysApart
  <2>2. CASE ledger[m].status \in Counts /\ (j = m \/ k = m)
    <3>1. ledger[m].status # "none"
      BY <2>2 DEF Counts
    <3>2. ledger'[m].received = ledger[m].received
      BY <1>2, <3>1
    <3>3. ledger'[j].received = ledger[j].received /\ ledger'[k].received = ledger[k].received
          /\ ledger[j].status \in Counts /\ ledger[k].status \in Counts
      BY <1>2, <1>8, <2>2, <3>2
    <3> QED BY <1>1, <1>8, <3>3 DEF KeysApart
  <2>3. CASE ledger[m].status \notin Counts /\ (j = m \/ k = m)
    <3>1. ledger[m].status = "none" /\ ~ HasRecentDedupe(m) /\ ledger'[m].received = clock
      BY <1>2, <1>8, <2>3
    <3>2. ASSUME NEW n \in Messages, n # m, keyOf[n] = keyOf[m], ledger[n].status \in Counts
          PROVE  ledger[n].received + DedupeWindow < clock
      BY <1>5, <1>6, <3>1, <3>2 DEF HasRecentDedupe
    <3>3. CASE k = m
      BY <1>2, <1>8, <3>1, <3>2, <3>3
    <3>4. CASE j = m
      <4>1. ledger[k].received + DedupeWindow < clock /\ clock <= ledger[k].received
        BY <1>2, <1>8, <3>1, <3>2, <3>4
      <4> QED BY <1>5, <1>6, <4>1
    <3> QED BY <2>3, <3>3, <3>4
  <2> QED BY <2>1, <2>2, <2>3
<1>9. KeysApart'
  BY <1>7, <1>8 DEF KeysApart
<1> QED BY <1>2, <1>4, <1>9

\* The worker books a message it may book, and goes on to a place that fits.
LEMMA WorkerGoesOn ==
    ASSUME NoticeInv, NEW m \in Messages, NEW status, NEW attempts \in Nat,
           status \in {"accepted", "sending", "retrying"} \cup FinalStatus,
           Booked(m, status, attempts),
           UNCHANGED <<adapter, clock, keyOf, expires, published, reached>>, blind \subseteq blind',
           waiting' \in Seq(Messages),
           ledger[m].status \notin FinalStatus,
           status \in Counts => ledger[m].status \in Counts \/ (ledger[m].status = "none" /\ ~ HasRecentDedupe(m)),
           worker' \in [m : Messages \cup {"none"}, at : WorkerPlaces, attempts : Nat, wake : Nat],
           worker'.m = m,
           \/ worker'.at = "begin" /\ status = "accepted" /\ ledger[m].status = "none"
           \/ worker'.at = "sending" /\ status = "sending" /\ Unreached(m)
           \/ worker'.at = "pause" /\ status = "retrying" /\ (Unreached(m) \/ (adapter = "hermes" /\ m \in blind'))
           \/ worker'.at = "publish" /\ status \in FinalStatus
              /\ (status = "duplicate" => ledger[m].status = "none")
    PROVE  NoticeInv'
<1>1. NoticeTypeOK /\ ReachedAgrees
  BY DEF NoticeInv
<1>2. PublishedAgrees' /\ KeysApart' /\ ledger' \in [Messages -> LedgerRow]
  BY RowsStayApart
<1>3. ledger'[m].status = status /\ \A n \in Messages \ {m} : ledger'[n] = ledger[n]
  BY <1>1, BookedRow
<1>4. NoticeTypeOK'
  BY <1>1, <1>2 DEF NoticeTypeOK
<1>5. WorkerAgrees'
  BY <1>3 DEF WorkerAgrees, FinalStatus
<1>6. \A n \in Messages : Excused(n) => Excused(n)'
  BY DEF Excused
<1>7. \A n \in Messages : reached'[n] = reached[n]
  OBVIOUS
<1>8. worker'.at \in {"sending", "missed", "pause"} => Unreached(worker.m)'
  BY <1>6, <1>7 DEF Unreached, Excused
<1>9. ReachedAgrees'
  BY <1>1, <1>3, <1>6, <1>7, <1>8 DEF ReachedAgrees, FinalStatus
<1> QED BY <1>2, <1>4, <1>5, <1>9 DEF NoticeInv

\* A worker elsewhere, or a message published, with the rows as they are.
LEMMA RowsUntouched ==
    ASSUME NoticeInv, NoticeTypeOK', WorkerAgrees', PublishedAgrees',
           UNCHANGED <<adapter, ledger, reached, blind, keyOf>>, clock <= clock',
           worker'.at \in {"sending", "missed", "pause"} => worker' = worker
    PROVE  NoticeInv'
<1>1. NoticeTypeOK /\ ReachedAgrees /\ KeysApart
  BY DEF NoticeInv
<1>2. \A m \in Messages : ledger[m].received \in Nat
  BY <1>1 DEF NoticeTypeOK, LedgerRow
<1>3. KeysApart'
  <2>1. clock \in Nat /\ clock' \in Nat /\ UNCHANGED <<ledger, keyOf>> /\ clock <= clock'
    BY <1>1 DEF NoticeTypeOK
  <2>2. ASSUME NEW m \in Messages, ledger[m].status # "none" PROVE ledger[m].received <= clock'
    <3>1. ledger[m].received <= clock /\ ledger[m].received \in Nat
      BY <1>1, <1>2, <2>2 DEF KeysApart
    <3> QED BY <2>1, <3>1
  <2> QED BY <1>1, <2>1, <2>2 DEF KeysApart
<1>4. ReachedAgrees'
  BY <1>1 DEF ReachedAgrees, Unreached, Excused
<1> QED BY <1>3, <1>4 DEF NoticeInv

LEMMA WorkerAtType ==
    ASSUME NEW m \in Messages, NEW at \in WorkerPlaces
    PROVE  /\ WorkerAt(m, at) \in [m : Messages \cup {"none"}, at : WorkerPlaces,
                                   attempts : Nat, wake : Nat]
           /\ WorkerAt(m, at).m = m /\ WorkerAt(m, at).at = at
  BY DEF WorkerAt

LEMMA TakeStep == NoticeInv /\ Take => NoticeInv'
<1> SUFFICES ASSUME NoticeInv, Take PROVE NoticeInv'
  OBVIOUS
<1> DEFINE m == Head(waiting)
<1>0. NoticeTypeOK /\ WorkerAgrees /\ ReachedAgrees /\ PublishedAgrees /\ KeysApart
  BY DEF NoticeInv
<1>1. /\ worker.at = "idle" /\ m \in Messages /\ waiting' \in Seq(Messages)
      /\ UNCHANGED <<adapter, clock, unacked, reached, blind, expires, keyOf, due, published, losses>>
      /\ IF ledger[m] = NotInLedger THEN Admitted(m) ELSE TakenUp(m, ledger[m])
  <2>1. worker.at = "idle" /\ waiting \in Seq(Messages) /\ waiting # << >>
    BY <1>0 DEF Take, NoticeTypeOK
  <2>2. m \in Messages /\ Tail(waiting) \in Seq(Messages)
    BY <2>1, HeadTailProperties
  <2> QED BY <2>1, <2>2 DEF Take, mqttVars
<1>2. ledger[m] \in LedgerRow /\ ledger[m].attempts \in Nat
      /\ ledger[m].status \in {"none", "accepted", "sending", "retrying"} \cup FinalStatus
      /\ (ledger[m] = NotInLedger <=> ledger[m].status = "none")
      /\ clock \in Nat /\ expires[m] \in Nat
  <2>1. m \in Messages
    BY <1>1
  <2> HIDE DEF m
  <2>2. ledger[m] \in LedgerRow /\ clock \in Nat /\ expires[m] \in Nat
    BY <1>0, <2>1 DEF NoticeTypeOK
  <2>3. ledger[m].attempts \in Nat
        /\ ledger[m].status \in {"none", "accepted", "sending", "retrying"} \cup FinalStatus
    BY <2>2 DEF LedgerRow
  <2>4. ledger[m] = NotInLedger => ledger[m].status = "none"
    BY DEF NotInLedger
  <2>5. ledger[m].status = "none" => ledger[m] = NotInLedger
    BY <1>0, <2>1 DEF ReachedAgrees
  <2> QED BY <2>2, <2>3, <2>4, <2>5
<1>3. ASSUME NEW at \in WorkerPlaces, worker' = WorkerAt(m, at)
      PROVE  /\ worker' \in [m : Messages \cup {"none"}, at : WorkerPlaces, attempts : Nat, wake : Nat]
             /\ worker'.m = m /\ worker'.at = at
  BY <1>1, <1>3, WorkerAtType
<1>4. "publish" \in WorkerPlaces /\ "begin" \in WorkerPlaces
  BY DEF WorkerPlaces
<1> HIDE DEF m
<1>5. CASE ledger[m] = NotInLedger
  <2>1. ledger[m].status = "none" /\ ledger[m].status \notin FinalStatus
    BY <1>2, <1>5 DEF FinalStatus
  <2>2. CASE Finished(m, "expired", 0) \/ Finished(m, "duplicate", 0) \/ Finished(m, "failed", 0)
    <3>1. PICK status \in {"expired", "duplicate", "failed"} : Finished(m, status, 0)
      BY <2>2
    <3>2. Booked(m, status, 0) /\ worker' = WorkerAt(m, "publish")
      BY <3>1 DEF Finished
    <3>3. status \in FinalStatus /\ status \notin Counts
      BY <3>1 DEF FinalStatus, Counts
    <3> QED BY <1>1, <1>3, <1>4, <2>1, <3>2, <3>3, WorkerGoesOn
  <2>3. CASE Booked(m, "accepted", 0) /\ worker' = WorkerAt(m, "begin") /\ ~ HasRecentDedupe(m)
    BY <1>1, <1>3, <1>4, <2>1, <2>3, WorkerGoesOn
  <2> QED BY <1>1, <1>2, <1>5, <2>2, <2>3 DEF Admitted
<1>6. CASE ledger[m] # NotInLedger
  <2>1. ledger[m].status # "none"
    BY <1>2, <1>6
  <2>2. CASE /\ ledger[m].status \notin FinalStatus
             /\ Finished(m, "expired", ledger[m].attempts) \/ Finished(m, "failed", ledger[m].attempts)
    <3>1. PICK status \in {"expired", "failed"} : Finished(m, status, ledger[m].attempts)
      BY <2>2
    <3>2. Booked(m, status, ledger[m].attempts) /\ worker' = WorkerAt(m, "publish")
      BY <3>1 DEF Finished
    <3>3. status \in FinalStatus /\ status \notin Counts /\ status # "duplicate"
      BY <3>1 DEF FinalStatus, Counts
    <3> QED BY <1>1, <1>2, <1>3, <1>4, <2>2, <3>2, <3>3, WorkerGoesOn
  <2>3. CASE /\ UNCHANGED ledger
             /\ \/ ledger[m].status \in FinalStatus /\ worker' = WorkerAt(m, "publish")
                \/ ledger[m].status = "accepted" /\ worker' = WorkerAt(m, "begin")
    <3>1. NoticeTypeOK'
      BY <1>0, <1>1, <1>3, <1>4, <2>3 DEF NoticeTypeOK
    <3>2. WorkerAgrees'
      BY <1>3, <1>4, <2>3 DEF WorkerAgrees
    <3>3. PublishedAgrees'
      BY <1>0, <1>1, <2>3 DEF PublishedAgrees
    <3>4. worker'.at \notin {"sending", "missed", "pause"} /\ clock <= clock'
      BY <1>0, <1>1, <1>3, <1>4, <2>3 DEF NoticeTypeOK
    <3> QED BY <1>1, <2>3, <3>1, <3>2, <3>3, <3>4, RowsUntouched
  <2>4. TakenUp(m, ledger[m])
    BY <1>1, <1>6
  <2>5. CASE ledger[m].status \in FinalStatus
    <3>1. ledger[m].status \notin {"sending", "retrying"}
      BY <2>5 DEF FinalStatus
    <3> QED BY <2>3, <2>4, <2>5, <3>1 DEF TakenUp
  <2>6. CASE ledger[m].status \notin FinalStatus /\ clock >= expires[m]
    BY <2>2, <2>4, <2>6 DEF TakenUp
  <2>7. CASE ledger[m].status \in {"sending", "retrying"} /\ clock < expires[m]
    <3>1. ledger[m].status \notin FinalStatus /\ ~ clock >= expires[m]
      BY <1>2, <2>7 DEF FinalStatus
    <3> QED BY <2>2, <2>4, <2>7, <3>1 DEF TakenUp
  <2>8. CASE ledger[m].status = "accepted" /\ clock < expires[m]
    <3>1. ledger[m].status \notin FinalStatus /\ ~ clock >= expires[m]
          /\ ledger[m].status \notin {"sending", "retrying"}
      BY <1>2, <2>8 DEF FinalStatus
    <3> QED BY <2>3, <2>4, <2>8, <3>1 DEF TakenUp
  <2> QED BY <1>2, <2>1, <2>5, <2>6, <2>7, <2>8
<1> QED BY <1>5, <1>6

LEMMA EnterStep ==
    ASSUME NoticeInv, worker.at # "idle", Entered(worker.m), Unreached(worker.m),
           ledger[worker.m].status \in {"accepted", "retrying"},
           UNCHANGED <<adapter, clock, unacked, waiting, reached, blind, mqttVars>>
    PROVE  NoticeInv'
<1>1. NoticeTypeOK
  BY DEF NoticeInv
<1>2. worker \in [m : Messages \cup {"none"}, at : WorkerPlaces, attempts : Nat, wake : Nat]
      /\ worker.m \in Messages /\ worker.attempts + 1 \in Nat
  BY <1>1 DEF NoticeTypeOK
<1>3. /\ worker' \in [m : Messages \cup {"none"}, at : WorkerPlaces, attempts : Nat, wake : Nat]
      /\ worker'.m = worker.m /\ worker'.at = "sending"
  BY <1>2 DEF Entered, WorkerPlaces
<1>4. Booked(worker.m, "sending", worker.attempts + 1)
  BY DEF Entered
<1>5. ledger[worker.m].status \in Counts /\ ledger[worker.m].status \notin FinalStatus
  BY DEF Counts, FinalStatus
<1>6. UNCHANGED <<adapter, clock, keyOf, expires, published, reached>> /\ blind \subseteq blind'
      /\ waiting' \in Seq(Messages)
  BY <1>1 DEF mqttVars, NoticeTypeOK
<1>7. PICK k \in Messages : k = worker.m
  BY <1>2
<1> QED BY <1>2, <1>3, <1>4, <1>5, <1>6, <1>7, WorkerGoesOn

LEMMA ReachStep == NoticeInv /\ (\E m \in Messages : Reach(m)) => NoticeInv'
<1> SUFFICES ASSUME NoticeInv, NEW m \in Messages, Reach(m) PROVE NoticeInv'
  OBVIOUS
<1>0. NoticeTypeOK /\ WorkerAgrees /\ ReachedAgrees /\ PublishedAgrees /\ KeysApart
  BY DEF NoticeInv
<1>1. /\ worker.at = "sending" /\ m = worker.m
      /\ UNCHANGED <<adapter, clock, waiting, ledger, blind, expires, keyOf, published>>
  BY DEF Reach, mqttVars
<1>2. PICK got \in {0, 1} : reached' = [reached EXCEPT ![m] = @ + got]
  BY DEF Reach
<1>3. reached' \in [Messages -> Nat] /\ reached'[m] = reached[m] + got /\ reached[m] \in Nat
      /\ \A n \in Messages \ {m} : reached'[n] = reached[n]
  BY <1>0, <1>2 DEF NoticeTypeOK
<1>4. /\ worker' \in [m : Messages \cup {"none"}, at : WorkerPlaces, attempts : Nat, wake : Nat]
      /\ worker'.m = m
      /\ worker'.at = IF reached'[m] = reached[m] THEN "missed" ELSE "got"
  BY <1>0, <1>1 DEF Reach, NoticeTypeOK, WorkerPlaces
<1>5. NoticeTypeOK'
  BY <1>0, <1>1, <1>3, <1>4 DEF NoticeTypeOK
<1>6. WorkerAgrees'
  BY <1>0, <1>1, <1>4 DEF WorkerAgrees
<1>7. ReachedAgrees'
  <2>1. ledger[m].status = "sending" /\ Unreached(m)
    BY <1>0, <1>1 DEF WorkerAgrees, ReachedAgrees
  <2>2. \A n \in Messages : Excused(n)' = Excused(n)
    BY <1>1 DEF Excused
  <2>3. reached'[m] <= 1 \/ Excused(m)'
    BY <1>2, <1>3, <2>1, <2>2 DEF Unreached
  <2>4. worker'.at = "missed" => Unreached(worker.m)'
    BY <1>1, <1>3, <1>4, <2>1 DEF Unreached, Excused
  <2>5. worker'.at \notin {"sending", "pause"}
    BY <1>4
  <2>6. \A n \in Messages : reached'[n] <= 1 \/ Excused(n)'
    BY <1>0, <1>3, <2>2, <2>3 DEF ReachedAgrees
  <2> QED BY <1>0, <1>1, <1>3, <2>1, <2>4, <2>5, <2>6 DEF ReachedAgrees
<1>8. PublishedAgrees' /\ KeysApart'
  BY <1>0, <1>1 DEF PublishedAgrees, KeysApart
<1> QED BY <1>5, <1>6, <1>7, <1>8 DEF NoticeInv

LEMMA AnsweredStep == NoticeInv /\ Answered => NoticeInv'
<1> SUFFICES ASSUME NoticeInv, Answered PROVE NoticeInv'
  OBVIOUS
<1>0. NoticeTypeOK /\ WorkerAgrees /\ ReachedAgrees /\ PublishedAgrees /\ KeysApart
  BY DEF NoticeInv
<1>1. /\ worker.at \in {"got", "missed"} /\ worker.m \in Messages /\ worker.attempts \in Nat
      /\ worker \in [m : Messages \cup {"none"}, at : WorkerPlaces, attempts : Nat, wake : Nat]
      /\ UNCHANGED <<adapter, clock, waiting, reached, expires, keyOf, published>>
      /\ waiting' \in Seq(Messages)
  BY <1>0 DEF Answered, mqttVars, NoticeTypeOK
<1>2. PICK m \in Messages : m = worker.m
  BY <1>1
<1>3. PICK answer \in Answers(worker.at) :
         /\ CASE answer = "ok" -> Finished(m, "sent", worker.attempts)
              [] answer \in {"refused", "doubt"} -> Finished(m, "failed", worker.attempts)
              [] OTHER -> Retry(m)
         /\ blind' = IF answer \in {"doubt", "doubt_again"} THEN blind \cup {m} ELSE blind
  BY <1>2 DEF Answered
<1>4. ledger[m].status = "sending" /\ ledger[m].status \in Counts
      /\ ledger[m].status \notin FinalStatus /\ ledger[m].status # "none"
  BY <1>0, <1>1, <1>2 DEF WorkerAgrees, Counts, FinalStatus
<1>5. blind \subseteq blind' /\ "publish" \in WorkerPlaces
  BY <1>3 DEF WorkerPlaces
<1>6. ASSUME NEW status \in {"sent", "failed", "expired"}, Finished(m, status, worker.attempts)
      PROVE  NoticeInv'
  <2>1. Booked(m, status, worker.attempts) /\ worker' = WorkerAt(m, "publish")
    BY <1>6 DEF Finished
  <2>2. status \in FinalStatus /\ status # "duplicate"
    BY <1>6 DEF FinalStatus
  <2>3. /\ worker' \in [m : Messages \cup {"none"}, at : WorkerPlaces, attempts : Nat, wake : Nat]
        /\ worker'.m = m /\ worker'.at = "publish"
    BY <1>5, <2>1, WorkerAtType
  <2> QED BY <1>1, <1>4, <1>5, <2>1, <2>2, <2>3, WorkerGoesOn
<1>7. ASSUME answer \notin {"ok", "refused", "doubt"}, Retry(m) PROVE NoticeInv'
  <2>1. CASE \E status \in {"failed", "expired"} : Finished(m, status, worker.attempts)
    BY <1>6, <2>1
  <2>2. CASE \E pause \in {0, 1} :
               /\ Booked(m, "retrying", worker.attempts)
               /\ worker' = [worker EXCEPT !.at = "pause", !.wake = clock + pause]
    <3>1. PICK pause \in {0, 1} :
               /\ Booked(m, "retrying", worker.attempts)
               /\ worker' = [worker EXCEPT !.at = "pause", !.wake = clock + pause]
      BY <2>2
    <3>2. clock + pause \in Nat
      BY <1>0 DEF NoticeTypeOK
    <3>3. /\ worker' \in [m : Messages \cup {"none"}, at : WorkerPlaces, attempts : Nat, wake : Nat]
          /\ worker'.m = m /\ worker'.at = "pause"
      BY <1>1, <1>2, <3>1, <3>2 DEF WorkerPlaces
    <3>4. Unreached(m) \/ (adapter = "hermes" /\ m \in blind')
      <4>1. CASE worker.at = "missed"
        BY <1>0, <1>2, <4>1 DEF ReachedAgrees
      <4>2. CASE worker.at = "got"
        <5>1. adapter # "gateway" /\ answer = "doubt_again"
          BY <1>3, <1>7, <4>2 DEF Answers, GatewayAnswers, HermesAnswers
        <5> QED BY <1>0, <1>3, <5>1 DEF NoticeTypeOK
      <4> QED BY <1>1, <4>1, <4>2
    <3> QED BY <1>1, <1>4, <1>5, <3>1, <3>3, <3>4, WorkerGoesOn
  <2> QED BY <1>2, <1>7, <2>1, <2>2 DEF Retry
<1> QED BY <1>3, <1>6, <1>7

LEMMA NoticeStepInv == NoticeInv /\ [NotificationNext]_notificationVars => NoticeInv'
<1> SUFFICES ASSUME NoticeInv, [NotificationNext]_notificationVars PROVE NoticeInv'
  OBVIOUS
<1>0. NoticeTypeOK /\ WorkerAgrees /\ ReachedAgrees /\ PublishedAgrees /\ KeysApart
  BY DEF NoticeInv
<1>1. CASE Tick
  BY <1>0, <1>1, RowsUntouched
     DEF Tick, mqttVars, NoticeTypeOK, WorkerAgrees, PublishedAgrees
<1>2. ASSUME NEW m \in Messages, Request(m) PROVE NoticeInv'
  <2>1. PICK ttl \in Ttls : expires' = [expires EXCEPT ![m] = clock + ttl]
    BY <1>2 DEF Request
  <2>2. expires' \in [Messages -> Nat]
    BY <1>0, <2>1, NotificationAssumption DEF NoticeTypeOK
  <2> QED BY <1>0, <1>2, <2>2, RowsUntouched
          DEF Request, NoticeTypeOK, WorkerAgrees, PublishedAgrees
<1>3. ASSUME NEW m \in Messages, DeliverNotice(m) PROVE NoticeInv'
  <2>1. waiting' \in Seq(Messages)
    <3>1. waiting \in Seq(Messages)
      BY <1>0 DEF NoticeTypeOK
    <3>2. Append(waiting, m) \in Seq(Messages)
      BY <3>1, AppendProperties
    <3> QED BY <1>3, <3>1, <3>2 DEF DeliverNotice
  <2> QED BY <1>0, <1>3, <2>1, RowsUntouched
          DEF DeliverNotice, NoticeTypeOK, WorkerAgrees, PublishedAgrees
<1>4. CASE Reconnect
  BY <1>0, <1>4, RowsUntouched DEF Reconnect, NoticeTypeOK, WorkerAgrees, PublishedAgrees
<1>5. CASE AdapterRestarts
  <2>1. /\ worker' \in [m : Messages \cup {"none"}, at : WorkerPlaces, attempts : Nat, wake : Nat]
        /\ worker'.at = "idle"
    BY <1>5 DEF AdapterRestarts, Worker0, WorkerAt, WorkerPlaces
  <2>2. waiting' \in Seq(Messages)
    BY <1>5, EmptySeq DEF AdapterRestarts
  <2> QED BY <1>0, <1>5, <2>1, <2>2, RowsUntouched
          DEF AdapterRestarts, NoticeTypeOK, WorkerAgrees, PublishedAgrees
<1>6. CASE BeginSend
  <2>1. ledger[worker.m].status = "accepted" /\ worker.m \in Messages
    BY <1>0, <1>6 DEF BeginSend, WorkerAgrees, NoticeTypeOK
  <2>2. Unreached(worker.m)
    BY <1>0, <2>1 DEF ReachedAgrees, Unreached
  <2> QED BY <1>6, <2>1, <2>2, EnterStep DEF BeginSend
<1>7. CASE AfterPause
  <2>1. ledger[worker.m].status = "retrying" /\ Unreached(worker.m)
    BY <1>0, <1>7 DEF AfterPause, WorkerAgrees, ReachedAgrees
  <2> QED BY <1>7, <2>1, EnterStep DEF AfterPause
<1>8. CASE PublishFinal
  <2>1. PICK m \in Messages : m = worker.m
    BY <1>0, <1>8 DEF PublishFinal, NoticeTypeOK
  <2>2. /\ worker' \in [m : Messages \cup {"none"}, at : WorkerPlaces, attempts : Nat, wake : Nat]
        /\ worker'.at = "idle"
    BY <1>8 DEF PublishFinal, Worker0, WorkerAt, WorkerPlaces
  <2>3. ledger[m].status \in FinalStatus
    BY <1>0, <1>8, <2>1 DEF PublishFinal, WorkerAgrees
  <2>4. \/ published' = published
        \/ published' = [published EXCEPT ![m] = published[m] \cup {ledger[m].status}]
    BY <1>8, <2>1 DEF PublishFinal
  <2>5. published' \in [Messages -> SUBSET FinalStatus]
    <3>1. published \in [Messages -> SUBSET FinalStatus]
      BY <1>0 DEF NoticeTypeOK
    <3>2. published[m] \cup {ledger[m].status} \in SUBSET FinalStatus
      BY <2>3, <3>1
    <3> QED BY <2>4, <3>1, <3>2
  <2>6. PublishedAgrees'
    <3>1. \A n \in Messages : published'[n] \subseteq published[n] \cup
             (IF n = m THEN {ledger[m].status} ELSE {})
      BY <1>0, <2>4 DEF NoticeTypeOK
    <3>2. ASSUME NEW n \in Messages
          PROVE  published'[n] \subseteq {ledger[n].status} \cap FinalStatus
      <4>1. published[n] \subseteq {ledger[n].status} \cap FinalStatus
        BY <1>0 DEF PublishedAgrees
      <4>2. CASE n = m
        BY <2>3, <3>1, <4>1, <4>2
      <4>3. CASE n # m
        <5>1. published'[n] \subseteq published[n]
          BY <3>1, <4>3
        <5> QED BY <4>1, <5>1
      <4> QED BY <4>2, <4>3
    <3> QED BY <1>8, <3>2 DEF PublishFinal, PublishedAgrees
  <2>7. NoticeTypeOK'
    BY <1>0, <1>8, <2>2, <2>5 DEF PublishFinal, NoticeTypeOK
  <2> QED BY <1>0, <1>8, <2>2, <2>6, <2>7, RowsUntouched
          DEF PublishFinal, WorkerAgrees, NoticeTypeOK
<1>9. CASE UNCHANGED notificationVars
  BY <1>0, <1>9, RowsUntouched
     DEF notificationVars, NoticeTypeOK, WorkerAgrees, PublishedAgrees
<1> QED BY <1>1, <1>2, <1>3, <1>4, <1>5, <1>6, <1>7, <1>8, <1>9, TakeStep, ReachStep, AnsweredStep
        DEF NotificationNext, WorkerStep

(* A notification reaches the owner once, its final result stays, and within *)
(* the window no second one of its key does, for any number of requests,     *)
(* lost connections and restarts (process, _finish, _on_message of both      *)
(* adapters).                                                                *)
THEOREM ToldTheOwnerOnce == NotificationSpec => []NotifiedOnce
<1>1. NoticeInv => NotifiedOnce
  <2> SUFFICES ASSUME NoticeInv PROVE NotifiedOnce
    OBVIOUS
  <2>0. NoticeTypeOK /\ ReachedAgrees /\ PublishedAgrees /\ KeysApart
    BY DEF NoticeInv
  <2>1. \A m \in Messages : reached[m] <= 1 \/ (adapter = "hermes" /\ m \in blind)
    BY <2>0 DEF ReachedAgrees, Excused
  <2>2. ASSUME NEW m \in Messages PROVE Cardinality(published[m]) <= 1
    <3>1. published[m] \subseteq {ledger[m].status}
      BY <2>0 DEF PublishedAgrees
    <3>2. IsFiniteSet({ledger[m].status}) /\ Cardinality({ledger[m].status}) = 1
      BY FS_Singleton
    <3>3. Cardinality(published[m]) <= Cardinality({ledger[m].status})
      BY <3>1, <3>2, FS_Subset
    <3> QED BY <3>2, <3>3
  <2>3. ASSUME NEW m \in Messages, NEW n \in Messages, m # n, keyOf[m] = keyOf[n],
               reached[m] > 0, reached[n] > 0, ledger[m].received <= ledger[n].received,
               ledger[m].received + DedupeWindow >= ledger[n].received
        PROVE  {ledger[m].status, ledger[n].status} \cap {"failed", "expired"} # {}
    <3>1. \A k \in {m, n} : ledger[k] \in LedgerRow /\ reached[k] # 0
      BY <2>0, <2>3 DEF NoticeTypeOK
    <3>2. \A k \in {m, n} : ledger[k].status \in Counts \cup {"failed", "expired"}
      BY <2>0, <3>1 DEF ReachedAgrees, LedgerRow, Counts, FinalStatus
    <3>3. ~ (ledger[m].status \in Counts /\ ledger[n].status \in Counts)
      <4>1. ledger[m].received \in Nat /\ ledger[n].received \in Nat /\ DedupeWindow \in Nat
        BY <3>1, NotificationAssumption DEF LedgerRow
      <4> QED BY <2>0, <2>3, <4>1 DEF KeysApart
    <3> QED BY <3>2, <3>3
  <2> QED BY <2>1, <2>2, <2>3 DEF NotifiedOnce
<1> QED BY <1>1, NoticeInitInv, NoticeStepInv, PTL DEF NotificationSpec

-----------------------------------------------------------------------------
(* Desktop's picture: types.                                                 *)

View == [meta : Nat, control : {"none", "ready"} \cup NonWritable, crev : Nat]
AnyDocument == [kind : {"snapshot", "event", "host"}, thread : Threads \cup {"none"}, rev : Nat,
                seq : Nat, view : View, history : BOOLEAN, host : Nat, at : Nat]
ThreadRow == [rev : Nat \ {0}, doc : AnyDocument, taken : Nat, seq : Nat, view : View]
MacState == [rev : [Threads -> Nat \ {0}], shown : [Threads -> Nat], view : [Threads -> View],
             host : Nat, events : Nat, clock : Nat, changes : Nat, sequenced : BOOLEAN]

SourceTypeOK ==
    /\ source \in MacState
    /\ queue \in Seq(AnyDocument) /\ draft \in Seq(AnyDocument) /\ copies \subseteq AnyDocument
RowTypeOK ==
    /\ host \in [seq : Nat, at : Nat]
    /\ row \in [Threads -> {NoRow} \cup ThreadRow]

-----------------------------------------------------------------------------
(* What the Mac wrote.  Documents carry the time they were written at, a new *)
(* Mac numbers its snapshots by it, and a task's revisions grow with it.     *)

OnTheWay == {queue[i] : i \in DOMAIN queue} \cup {draft[i] : i \in DOMAIN draft} \cup copies
Snapshots(t) == {d \in OnTheWay : d.kind = "snapshot" /\ d.thread = t}

WrittenRightly(d) ==
    /\ d.at <= source.clock
    /\ d.kind = "snapshot" => d.seq \in {NoNumber, d.at} /\ (d.seq # NoNumber => source.sequenced)
    /\ d.kind \in {"snapshot", "event"} => /\ d.thread \in Threads /\ d.rev # 0
                                           /\ d.rev <= source.rev[d.thread]
    /\ d.view.control = "ready" => d.view.crev # NoNumber
WrittenInOrder(d, e) ==
    /\ d.rev > e.rev => d.at > e.at
    /\ d.seq = NoNumber /\ e.seq # NoNumber => d.at < e.at

DocumentsAgree ==
    /\ \A t \in Threads : source.view[t].control = "ready" => source.view[t].crev # NoNumber
    /\ \A d \in OnTheWay : WrittenRightly(d)
    /\ \A t \in Threads : \A d, e \in Snapshots(t) : WrittenInOrder(d, e)

\* A document without a number leaves the outbox in the order of writing.
Unnumbered(d) == d.kind = "snapshot" /\ d.seq = NoNumber
OutboxInOrder ==
    /\ \A i \in DOMAIN draft : draft[i].kind = "snapshot" /\ draft[i].seq # NoNumber
    /\ \A i, j \in DOMAIN queue :
          i < j /\ Unnumbered(queue[i]) /\ Unnumbered(queue[j]) => queue[i].at < queue[j].at
    /\ \A d \in copies, j \in DOMAIN queue :
          Unnumbered(d) /\ Unnumbered(queue[j]) => d = queue[j] \/ d.at < queue[j].at

-----------------------------------------------------------------------------
(* What the Controller made of it.  A document that can do nothing any more  *)
(* is absorbed; every other one in flight is newer than the row.             *)

Absorbed(r, d) ==
    \/ r.rev > d.rev
    \/ /\ r.rev = d.rev
       /\ \/ r.seq # NoNumber \/ d.view.crev = NoNumber
          \/ r.view.crev >= d.view.crev \/ r.view.meta # d.view.meta
NewerThan(d, r) ==
    /\ d.rev > r.rev => d.at > r.taken
    /\ r.seq = NoNumber /\ d.seq # NoNumber => d.at > r.taken
    /\ r.seq # NoNumber /\ d.seq = NoNumber => d.at < r.taken
    /\ d.seq = NoNumber => Absorbed(r, d) \/ d.at > r.taken

RowsFollow ==
    \A t \in Threads : row[t] # NoRow =>
        /\ row[t].taken <= source.clock /\ row[t].rev <= source.rev[t]
        /\ row[t].seq \in {NoNumber, row[t].taken}
        /\ row[t].seq # NoNumber => source.sequenced
        /\ \A d \in Snapshots(t) : NewerThan(d, row[t])
CopiesAreAbsorbed ==
    \A d \in copies : Unnumbered(d) =>
        \/ row[d.thread] # NoRow /\ Absorbed(row[d.thread], d)
        \/ queue # << >> /\ d = Head(queue)

\* What is stored is whole, and of revisions up to the row's own.
StoredFits(r, documents) ==
    /\ IsFiniteSet(DOMAIN documents)
    /\ \A v \in DOMAIN documents :
          /\ v \in Nat /\ documents[v] \in AnyDocument /\ documents[v].rev = v
          /\ r # NoRow /\ v <= r.rev
          /\ documents[v].seq = NoNumber => Absorbed(r, documents[v])
    /\ r # NoRow => r.rev \in DOMAIN documents
StoredAgrees == DOMAIN stored = Threads /\ \A t \in Threads : StoredFits(row[t], stored[t])

PictureInv == /\ SourceTypeOK /\ RowTypeOK /\ DocumentsAgree /\ OutboxInOrder
              /\ RowsFollow /\ CopiesAreAbsorbed /\ StoredAgrees

LEMMA PictureInitInv == ReadInit => PictureInv
<1> SUFFICES ASSUME ReadInit PROVE PictureInv
  OBVIOUS
<1>1. ASSUME NEW t \in Threads PROVE FirstSnapshot(t) \in AnyDocument
  BY DEF FirstSnapshot, FirstView, AnyDocument, View, NoNumber
<1>2. source \in MacState
  BY DEF ReadInit, MacState, View, FirstView
<1>3. queue = << >> /\ draft = << >> /\ copies = {} /\ OnTheWay = {}
  BY DEF ReadInit, OnTheWay
<1>4. SourceTypeOK
  BY <1>2, <1>3, EmptySeq DEF SourceTypeOK
<1>5. ASSUME NEW t \in Threads
      PROVE  \/ row[t] = NoRow /\ stored[t] = << >>
             \/ /\ row[t] = [rev |-> 1, doc |-> FirstSnapshot(t), taken |-> 0, seq |-> 0,
                             view |-> FirstView]
                /\ stored[t] = << FirstSnapshot(t) >>
  <2>1. /\ row[t] = IF t \in Edited THEN NoRow ELSE RowAfter(NoRow, FirstSnapshot(t), "stored")
        /\ stored[t] = IF t \in Edited THEN << >> ELSE << FirstSnapshot(t) >>
    BY DEF ReadInit
  <2>2. /\ FirstSnapshot(t).rev = 1 /\ FirstSnapshot(t).at = 0 /\ FirstSnapshot(t).seq = 0
        /\ FirstSnapshot(t).view = FirstView /\ NoRow.rev = 0
    BY DEF FirstSnapshot, NoRow, NoNumber
  <2>3. RowAfter(NoRow, FirstSnapshot(t), "stored") =
          [rev |-> 1, doc |-> FirstSnapshot(t), taken |-> 0, seq |-> 0, view |-> FirstView]
    BY <2>2 DEF RowAfter, NoNumber
  <2> QED BY <2>1, <2>3
<1>6. ASSUME NEW t \in Threads PROVE row[t] \in {NoRow} \cup ThreadRow
  <2>1. FirstView \in View
    BY DEF FirstView, View
  <2>2. [rev |-> 1, doc |-> FirstSnapshot(t), taken |-> 0, seq |-> 0, view |-> FirstView]
          \in ThreadRow
    BY <1>1, <2>1 DEF ThreadRow
  <2> QED BY <1>5, <2>2
<1>7. RowTypeOK
  BY <1>6 DEF RowTypeOK, ReadInit, NoNumber
<1>8. ASSUME NEW t \in Threads PROVE source.view[t] = FirstView /\ source.rev[t] = 1 /\ source.clock = 0
  BY DEF ReadInit
<1>9. DocumentsAgree /\ OutboxInOrder
  BY <1>3, <1>8 DEF DocumentsAgree, OutboxInOrder, FirstView, NoNumber, Snapshots
<1>10. RowsFollow
  <2>1. ASSUME NEW t \in Threads, row[t] # NoRow
        PROVE  row[t].rev = 1 /\ row[t].taken = 0 /\ row[t].seq = 0
    <3>1. row[t] = [rev |-> 1, doc |-> FirstSnapshot(t), taken |-> 0, seq |-> 0,
                    view |-> FirstView]
      BY <1>5, <2>1
    <3> QED BY <3>1
  <2> QED BY <1>3, <1>8, <2>1 DEF RowsFollow, NoNumber, Snapshots
<1>11. StoredAgrees
  <2> SUFFICES ASSUME NEW t \in Threads
               PROVE StoredFits(row[t], stored[t])
    BY DEF StoredAgrees, ReadInit
  <2>1. CASE stored[t] = << >> /\ row[t] = NoRow
    <3>1. DOMAIN stored[t] = {}
      BY <2>1
    <3> QED BY <2>1, <3>1, FS_EmptySet DEF StoredFits
  <2>2. CASE /\ stored[t] = << FirstSnapshot(t) >>
             /\ row[t] = [rev |-> 1, doc |-> FirstSnapshot(t), taken |-> 0, seq |-> 0,
                             view |-> FirstView]
    <3>1. DOMAIN stored[t] = {1} /\ stored[t][1] = FirstSnapshot(t)
      BY <2>2
    <3>2. IsFiniteSet({1})
      BY FS_Singleton
    <3>3. row[t] # NoRow /\ row[t].rev = 1 /\ row[t].view = FirstView
      BY <2>2 DEF NoRow
    <3>4. FirstSnapshot(t).rev = 1 /\ FirstSnapshot(t).view = FirstView
      BY DEF FirstSnapshot
    <3>5. Absorbed(row[t], FirstSnapshot(t))
      BY <3>3, <3>4 DEF Absorbed, FirstView
    <3> QED BY <1>1, <3>1, <3>2, <3>3, <3>4, <3>5 DEF StoredFits
  <2> QED BY <1>5, <2>1, <2>2
<1> QED BY <1>3, <1>4, <1>7, <1>9, <1>10, <1>11 DEF PictureInv, CopiesAreAbsorbed

-----------------------------------------------------------------------------
(* What a snapshot does to a row.                                            *)

\* A document about the row's own revision that changes it.
LEMMA Refreshes ==
    ASSUME NEW r \in ThreadRow, NEW d \in AnyDocument, d.rev = r.rev,
           d.view.control = "ready" => d.view.crev # NoNumber,
           SameRevision(r, d) \in {"refreshed", "latched"}
    PROVE  /\ d.view.meta = r.view.meta \/ (d.seq # NoNumber /\ r.seq # NoNumber)
           /\ d.seq = NoNumber => r.seq = NoNumber
           /\ d.seq # NoNumber /\ r.seq # NoNumber => d.seq >= r.seq
           /\ SameRevision(r, d) = "latched" =>
                 d.view.crev = NoNumber /\ d.view.control # "ready"
           /\ SameRevision(r, d) = "refreshed" => d.view.crev >= r.view.crev
           /\ SameRevision(r, d) = "refreshed" /\ d.view.control = "ready" /\ r.view.control # "ready" =>
                 /\ d.view.meta = r.view.meta /\ d.view.crev > r.view.crev
                 /\ d.seq # NoNumber /\ r.seq # NoNumber => d.seq > r.seq
<1>1. /\ r.seq \in Nat /\ d.seq \in Nat /\ r.view \in View /\ d.view \in View
      /\ r.view.meta \in Nat /\ d.view.meta \in Nat /\ r.view.crev \in Nat /\ d.view.crev \in Nat
  BY DEF ThreadRow, AnyDocument, View
<1> DEFINE D == Differs(r, d)
<1>2. /\ "metadata" \in D <=> r.view.meta # d.view.meta
      /\ "control" \in D <=> r.view.control # d.view.control \/ r.view.crev # d.view.crev
      /\ "fields" \in D <=> ~ ((r.seq = NoNumber) <=> (d.seq = NoNumber))
      /\ D \subseteq {"metadata", "control", "fields"}
  BY DEF Differs
<1>3. ASSUME NEW S, S \subseteq {"metadata", "control", "fields"},
             "control" \in S <=> "control" \in D,
             ControlRefresh(r, d, S) \in {"refreshed", "latched"}
      PROVE  /\ S \subseteq {"control"}
             /\ ControlRefresh(r, d, S) = "latched" =>
                   d.view.crev = NoNumber /\ d.view.control # "ready"
             /\ ControlRefresh(r, d, S) = "refreshed" =>
                   /\ d.view.crev >= r.view.crev
                   /\ d.view.control = "ready" /\ r.view.control # "ready" =>
                         d.view.crev > r.view.crev
  <2>1. S \subseteq {"control"}
    BY <1>3 DEF ControlRefresh
  <2>2. CASE S = {}
    <3>1. r.view.control = d.view.control /\ r.view.crev = d.view.crev
      BY <1>2, <1>3, <2>2
    <3>2. ControlRefresh(r, d, S) = "refreshed"
      BY <2>2 DEF ControlRefresh
    <3> QED BY <1>1, <2>1, <3>1, <3>2
  <2>3. CASE S # {} /\ d.view.crev = NoNumber
    <3>1. ControlRefresh(r, d, S) =
            IF r.view.crev = NoNumber
            THEN IF {r.view.control, d.view.control} \subseteq NonWritable
                 THEN "refreshed" ELSE "conflict"
            ELSE IF d.view.control \in Degraded THEN "latched" ELSE "conflict"
      BY <2>1, <2>3 DEF ControlRefresh
    <3> QED BY <1>1, <2>1, <2>3, <3>1 DEF Degraded
  <2>4. CASE S # {} /\ d.view.crev # NoNumber
    <3>1. ControlRefresh(r, d, S) =
            IF r.view.crev = NoNumber \/ d.view.crev > r.view.crev THEN "refreshed"
            ELSE IF d.view.crev < r.view.crev THEN "stale" ELSE "conflict"
      BY <1>1, <2>1, <2>4 DEF ControlRefresh, NoNumber
    <3> QED BY <1>1, <2>1, <2>4, <3>1 DEF NoNumber
  <2> QED BY <2>2, <2>3, <2>4
<1> HIDE DEF D
<1>4. CASE d.seq = NoNumber
  <2>1. SameRevision(r, d) = ControlRefresh(r, d, D)
    BY <1>4 DEF SameRevision, D
  <2>2. D \subseteq {"control"}
    BY <1>2, <1>3, <2>1
  <2> QED BY <1>1, <1>2, <1>3, <1>4, <2>1, <2>2
<1>5. CASE d.seq # NoNumber /\ r.seq = NoNumber
  <2>1. SameRevision(r, d) = LegacyRefresh(r, d)
    BY <1>5 DEF SameRevision
  <2>2. SameRevision(r, d) = ControlRefresh(r, d, D \ {"fields"})
    BY <2>1 DEF LegacyRefresh, D
  <2>3. D \ {"fields"} \subseteq {"control"}
    BY <1>2, <1>3, <2>2
  <2>4. "metadata" \notin D
    BY <1>2, <2>3
  <2> QED BY <1>1, <1>2, <1>3, <1>5, <2>2, <2>4
<1>6. CASE d.seq # NoNumber /\ r.seq # NoNumber
  <2>1. d.seq >= r.seq
    BY <1>1, <1>6 DEF SameRevision
  <2>2. CASE d.seq = r.seq
    <3>1. SameRevision(r, d) = IF D = {} THEN "refreshed" ELSE "conflict"
      BY <1>1, <1>6, <2>2 DEF SameRevision, D
    <3> QED BY <1>1, <1>2, <1>6, <2>2, <3>1
  <2>3. CASE d.seq > r.seq /\ D = {"metadata"}
    <3>1. SameRevision(r, d) = "refreshed"
      BY <1>1, <1>6, <2>3 DEF SameRevision, D
    <3> QED BY <1>1, <1>2, <1>6, <2>3, <3>1
  <2>4. CASE d.seq > r.seq /\ D # {"metadata"}
    <3>1. SameRevision(r, d) = ControlRefresh(r, d, D)
      BY <1>1, <1>6, <2>4 DEF SameRevision, D
    <3>2. D \subseteq {"control"}
      BY <1>2, <1>3, <3>1
    <3>3. "metadata" \notin D
      BY <1>2, <3>2
    <3>4. d.view.meta = r.view.meta
      BY <1>2, <3>3
    <3>5. /\ SameRevision(r, d) = "latched" => d.view.crev = NoNumber /\ d.view.control # "ready"
          /\ SameRevision(r, d) = "refreshed" =>
                /\ d.view.crev >= r.view.crev
                /\ d.view.control = "ready" /\ r.view.control # "ready" => d.view.crev > r.view.crev
      BY <1>2, <1>3, <3>1
    <3> QED BY <1>6, <2>1, <2>4, <3>1, <3>4, <3>5
  <2> QED BY <1>1, <1>6, <2>1, <2>2, <2>3, <2>4
<1> QED BY <1>4, <1>5, <1>6

\* An unnumbered document about the row's own revision that does not.
LEMMA LeavesAlone ==
    ASSUME NEW r \in ThreadRow, NEW d \in AnyDocument, d.rev = r.rev, d.seq = NoNumber,
           SameRevision(r, d) \notin {"refreshed", "latched"}
    PROVE  Absorbed(r, d)
<1>1. /\ r.view.meta \in Nat /\ d.view.meta \in Nat /\ r.view.crev \in Nat /\ d.view.crev \in Nat
  BY DEF ThreadRow, AnyDocument, View
<1>2. CASE r.seq = NoNumber /\ d.view.meta = r.view.meta /\ d.view.crev # NoNumber
  <2>1. SameRevision(r, d) = ControlRefresh(r, d, Differs(r, d))
    BY DEF SameRevision
  <2>2. Differs(r, d) \subseteq {"control"}
    BY <1>2 DEF Differs
  <2>3. r.view.crev # NoNumber /\ d.view.crev <= r.view.crev
    BY <1>1, <1>2, <2>1, <2>2 DEF ControlRefresh, NoNumber
  <2> QED BY <1>1, <2>3 DEF Absorbed
<1> QED BY <1>2 DEF Absorbed

\* How a row r goes on to be q when document d is taken.
Advances(r, q, d) ==
    /\ q \in ThreadRow /\ q.rev = d.rev /\ q.seq = d.seq
    /\ q.taken >= d.at
    /\ q.seq # NoNumber => q.taken = d.at
    /\ d.seq = NoNumber => Absorbed(q, d)
    /\ r = NoRow => q.taken = d.at
    /\ r # NoRow =>
          /\ q.rev >= r.rev /\ q.taken \in {r.taken, d.at} /\ q.taken >= r.taken
          /\ q.seq = NoNumber => r.seq = NoNumber
          /\ q.rev = r.rev => /\ q.seq >= r.seq /\ q.view.crev >= r.view.crev
                              /\ q.view.meta = r.view.meta \/ q.seq # NoNumber
          /\ q.view.control = "ready" /\ r.view.control # "ready" => q.taken > r.taken

LEMMA TakenRow ==
    ASSUME NEW r \in {NoRow} \cup ThreadRow, NEW d \in AnyDocument, NEW verdict,
           d.rev # 0, d.seq \in {NoNumber, d.at},
           d.view.control = "ready" => d.view.crev # NoNumber,
           r # NoRow => r.seq \in {NoNumber, r.taken} /\ NewerThan(d, r),
           \/ verdict = "stored" /\ d.rev > r.rev
           \/ /\ verdict \in {"refreshed", "latched"} /\ verdict = SameRevision(r, d)
              /\ d.rev = r.rev
    PROVE  Advances(r, RowAfter(r, d, verdict), d)
<1> DEFINE q == RowAfter(r, d, verdict)
<1>1. /\ d.rev \in Nat /\ d.at \in Nat /\ d.seq \in Nat /\ d.view \in View /\ d.view.crev \in Nat
      /\ d.view.meta \in Nat /\ d.view.control \in {"none", "ready"} \cup NonWritable
  BY DEF AnyDocument, View
<1>2. CASE r = NoRow
  <2>1. r.rev = 0 /\ verdict = "stored"
    BY <1>1, <1>2 DEF NoRow
  <2>2. q = [rev |-> d.rev, doc |-> d, taken |-> d.at, seq |-> d.seq, view |-> d.view]
    BY <1>1, <1>2, <2>1 DEF RowAfter, NoNumber
  <2>3. q \in ThreadRow
    BY <1>1, <2>2 DEF ThreadRow
  <2>4. Absorbed(q, d)
    BY <1>1, <2>2 DEF Absorbed
  <2> QED BY <1>1, <1>2, <2>2, <2>3, <2>4 DEF Advances
<1>3. CASE r # NoRow
  <2> SUFFICES Advances(r, q, d)
    OBVIOUS
  <2>1. /\ r \in ThreadRow /\ r.rev \in Nat \ {0} /\ r.taken \in Nat /\ r.seq \in Nat
        /\ r.view \in View /\ r.view.crev \in Nat /\ r.view.meta \in Nat
    BY <1>3 DEF ThreadRow, View
  <2> DEFINE taken == Greater(r.taken, d.at)
             view == IF verdict = "latched" THEN Latched(r, d) ELSE d.view
  <2>2. taken \in Nat /\ taken \in {r.taken, d.at} /\ taken >= r.taken /\ taken >= d.at
    BY <1>1, <2>1 DEF Greater
  <2>3. verdict = "latched" => d.rev = r.rev /\ d.view.crev = NoNumber /\ d.view.control # "ready"
    BY <1>1, <2>1, Refreshes
  <2>4. /\ view \in View
        /\ view.meta = IF verdict = "latched" THEN r.view.meta ELSE d.view.meta
        /\ view.crev = IF verdict = "latched" THEN r.view.crev ELSE d.view.crev
        /\ view.control = d.view.control
    BY <1>1, <2>1 DEF Latched, View
  <2>5. d.rev = r.rev /\ d.seq = NoNumber => r.seq = NoNumber
    BY <1>1, <2>1, Refreshes
  <2>6. q = [rev |-> d.rev, doc |-> d, taken |-> taken, seq |-> d.seq, view |-> view]
    BY <2>1, <2>5 DEF RowAfter, NoNumber
  <2> HIDE DEF taken, view
  <2>7. q \in ThreadRow /\ q.rev = d.rev /\ q.seq = d.seq /\ q.taken = taken /\ q.view = view
    BY <1>1, <2>2, <2>4, <2>6 DEF ThreadRow
  <2> HIDE DEF q
  <2>8. q.rev >= r.rev
    BY <1>1, <2>1, <2>7
  <2>9. q.seq # NoNumber => q.taken = d.at
    <3> SUFFICES ASSUME d.seq # NoNumber PROVE taken = d.at
      BY <2>7
    <3>1. d.seq = d.at
      OBVIOUS
    <3>2. CASE r.seq = NoNumber \/ d.rev > r.rev
      BY <1>1, <1>3, <2>1, <2>2, <3>2 DEF NewerThan
    <3>3. CASE r.seq # NoNumber /\ ~ (d.rev > r.rev)
      BY <1>1, <1>3, <2>1, <2>2, <3>1, <3>3, Refreshes
    <3> QED BY <3>2, <3>3
  <2>10. q.seq = NoNumber => r.seq = NoNumber
    BY <1>1, <1>3, <2>1, <2>5, <2>7 DEF NewerThan
  <2>11. CASE verdict = "stored"
    <3>1. d.at > r.taken /\ d.rev > r.rev
      BY <1>3, <2>11 DEF NewerThan
    <3>2. q.taken > r.taken
      BY <1>1, <2>1, <2>2, <2>7, <3>1
    <3>3. Absorbed(q, d)
      BY <1>1, <2>4, <2>7, <2>11 DEF Absorbed
    <3>4. q.rev # r.rev
      BY <1>1, <2>1, <2>7, <3>1
    <3> QED BY <1>3, <2>2, <2>7, <2>8, <2>9, <2>10, <3>2, <3>3, <3>4 DEF Advances
  <2>12. CASE verdict \in {"refreshed", "latched"} /\ verdict = SameRevision(r, d) /\ d.rev = r.rev
    <3>1. /\ d.view.meta = r.view.meta \/ (d.seq # NoNumber /\ r.seq # NoNumber)
          /\ d.seq # NoNumber /\ r.seq # NoNumber => d.seq >= r.seq
          /\ verdict = "refreshed" => d.view.crev >= r.view.crev
          /\ verdict = "refreshed" /\ d.view.control = "ready" /\ r.view.control # "ready" =>
                 /\ d.view.meta = r.view.meta /\ d.view.crev > r.view.crev
                 /\ d.seq # NoNumber /\ r.seq # NoNumber => d.seq > r.seq
      BY <2>1, <2>12, Refreshes
    <3>2. q.seq >= r.seq
      BY <1>1, <2>1, <2>5, <2>7, <2>12, <3>1 DEF NoNumber
    <3>3. q.view.crev >= r.view.crev /\ (q.view.meta = r.view.meta \/ q.seq # NoNumber)
      BY <2>1, <2>4, <2>7, <2>12, <3>1
    <3>4. d.seq = NoNumber => Absorbed(q, d)
      BY <1>1, <2>1, <2>3, <2>4, <2>7, <2>12 DEF Absorbed
    <3>5. q.view.control = "ready" /\ r.view.control # "ready" => d.at > r.taken
      <4> SUFFICES ASSUME q.view.control = "ready", r.view.control # "ready" PROVE d.at > r.taken
        OBVIOUS
      <4>1. verdict = "refreshed" /\ d.view.control = "ready" /\ d.view.crev > r.view.crev
            /\ d.view.meta = r.view.meta /\ d.view.crev # NoNumber
        BY <2>3, <2>4, <2>7, <2>12, <3>1
      <4>2. CASE d.seq = NoNumber
        <5>1. ~ Absorbed(r, d)
          BY <1>1, <2>1, <2>5, <2>12, <4>1, <4>2 DEF Absorbed
        <5> QED BY <1>3, <4>2, <5>1 DEF NewerThan
      <4>3. CASE d.seq # NoNumber /\ r.seq = NoNumber
        BY <1>3, <4>3 DEF NewerThan
      <4>4. CASE d.seq # NoNumber /\ r.seq # NoNumber
        BY <1>3, <3>1, <4>1, <4>4
      <4> QED BY <4>2, <4>3, <4>4
    <3>6. q.view.control = "ready" /\ r.view.control # "ready" => q.taken > r.taken
      BY <1>1, <2>1, <2>2, <2>7, <3>5
    <3> QED BY <1>3, <2>2, <2>7, <2>8, <2>9, <2>10, <3>2, <3>3, <3>4, <3>6 DEF Advances
  <2> QED BY <2>11, <2>12
<1> QED BY <1>2, <1>3

\* What was absorbed stays so.
LEMMA StaysAbsorbed ==
    ASSUME NEW r \in ThreadRow, NEW q \in ThreadRow, NEW d \in AnyDocument, NEW x \in AnyDocument,
           r # NoRow, Advances(r, q, d), Absorbed(r, x)
    PROVE  Absorbed(q, x)
<1>1. /\ r.rev \in Nat /\ q.rev \in Nat /\ x.rev \in Nat /\ r.seq \in Nat /\ q.seq \in Nat
      /\ r.view.crev \in Nat /\ q.view.crev \in Nat /\ x.view.crev \in Nat
  BY DEF ThreadRow, View, AnyDocument
<1>2. /\ q.rev >= r.rev
      /\ q.rev = r.rev => /\ q.seq >= r.seq /\ q.view.crev >= r.view.crev
                          /\ q.view.meta = r.view.meta \/ q.seq # NoNumber
  BY DEF Advances
<1> QED BY <1>1, <1>2 DEF Absorbed, NoNumber

\* What taking document d does to the row of its thread and to what is stored.
Takes(d) ==
    /\ RowTypeOK' /\ StoredAgrees'
    /\ \A t \in Threads : d.kind # "snapshot" \/ t # d.thread => row'[t] = row[t]
    /\ d.kind = "snapshot" =>
          /\ row'[d.thread] # NoRow /\ row'[d.thread].rev >= d.rev
          /\ \/ row'[d.thread] = row[d.thread]
             \/ Advances(row[d.thread], row'[d.thread], d)
          /\ d.seq = NoNumber => Absorbed(row'[d.thread], d)

LEMMA FlightFacts ==
    ASSUME SourceTypeOK
    PROVE  /\ OnTheWay \subseteq AnyDocument
           /\ DOMAIN queue = 1 .. Len(queue) /\ Len(queue) \in Nat
           /\ DOMAIN draft = 1 .. Len(draft) /\ Len(draft) \in Nat
           /\ queue # << >> => Head(queue) = queue[1] /\ 1 \in DOMAIN queue /\ Head(queue) \in OnTheWay
<1>1. queue \in Seq(AnyDocument) /\ draft \in Seq(AnyDocument) /\ copies \subseteq AnyDocument
  BY DEF SourceTypeOK
<1>2. /\ DOMAIN queue = 1 .. Len(queue) /\ Len(queue) \in Nat
      /\ DOMAIN draft = 1 .. Len(draft) /\ Len(draft) \in Nat
      /\ \A i \in DOMAIN queue : queue[i] \in AnyDocument
      /\ \A i \in DOMAIN draft : draft[i] \in AnyDocument
  BY <1>1, LenProperties, ElementOfSeq
<1>3. queue # << >> => Head(queue) = queue[1] /\ 1 \in DOMAIN queue
  BY <1>1, <1>2, EmptySeq
<1> QED BY <1>1, <1>2, <1>3 DEF OnTheWay

LEMMA SnapshotTaken ==
    ASSUME PictureInv, NEW d \in OnTheWay, d.kind = "snapshot", PutSnapshot(d)
    PROVE  Takes(d)
<1> DEFINE t == d.thread  r == row[t]  verdict == SnapshotVerdict(d)
           changed == verdict \in {"stored", "refreshed", "latched"}
<1>0. SourceTypeOK /\ RowTypeOK /\ DocumentsAgree /\ RowsFollow /\ StoredAgrees
  BY DEF PictureInv
<1>1. /\ d \in AnyDocument /\ t \in Threads /\ d.rev \in Nat \ {0} /\ d.at \in Nat /\ d.host \in Nat
      /\ d.seq \in {NoNumber, d.at} /\ (d.view.control = "ready" => d.view.crev # NoNumber)
  BY <1>0, FlightFacts DEF DocumentsAgree, WrittenRightly, AnyDocument
<1>2. /\ r \in {NoRow} \cup ThreadRow /\ StoredFits(r, stored[t])
      /\ r # NoRow => r.seq \in {NoNumber, r.taken} /\ NewerThan(d, r)
      /\ r.rev \in Nat
  <2>1. r \in {NoRow} \cup ThreadRow /\ StoredFits(r, stored[t])
    BY <1>0, <1>1 DEF RowTypeOK, StoredAgrees
  <2>2. r # NoRow => r.seq \in {NoNumber, r.taken} /\ NewerThan(d, r)
    BY <1>0, <1>1 DEF RowsFollow, Snapshots
  <2> QED BY <2>1, <2>2 DEF NoRow, ThreadRow
<1>3. /\ row' = IF changed THEN [row EXCEPT ![t] = RowAfter(r, d, verdict)] ELSE row
      /\ stored' = IF changed THEN [stored EXCEPT ![t] = StoredAfter(d)] ELSE stored
      /\ host' = IF verdict \in {"duplicate", "conflict"} THEN host ELSE HostAfter(d)
  BY DEF PutSnapshot
<1>4. host' \in [seq : Nat, at : Nat]
  BY <1>0, <1>1, <1>3 DEF HostAfter, RowTypeOK
<1>7. SameRevision(r, d) \notin {"duplicate", "stored"}
  BY DEF SameRevision, ControlRefresh, LegacyRefresh
<1>5. /\ verdict = "duplicate" => \E v \in DOMAIN stored[t] : stored[t][v] = d
      /\ verdict # "duplicate" => verdict = IF d.rev > r.rev THEN "stored"
                                            ELSE IF d.rev < r.rev THEN "stale"
                                            ELSE SameRevision(r, d)
  BY <1>7 DEF SnapshotVerdict
<1>6. verdict = "duplicate" => /\ r # NoRow /\ d.rev <= r.rev
                               /\ d.seq = NoNumber => Absorbed(r, d)
  BY <1>2, <1>5 DEF StoredFits
<1>8. changed =>
        \/ verdict = "stored" /\ d.rev > r.rev
        \/ /\ verdict \in {"refreshed", "latched"} /\ verdict = SameRevision(r, d)
           /\ d.rev = r.rev
  BY <1>1, <1>2, <1>5, <1>7
<1>9. ~ changed => /\ r # NoRow /\ r.rev >= d.rev
                   /\ d.seq = NoNumber => Absorbed(r, d)
  <2> SUFFICES ASSUME ~ changed PROVE /\ r # NoRow /\ r.rev >= d.rev
                                      /\ d.seq = NoNumber => Absorbed(r, d)
    OBVIOUS
  <2>1. CASE verdict = "duplicate"
    BY <1>1, <1>2, <1>6, <2>1
  <2>2. CASE verdict # "duplicate"
    <3>1. ~ (d.rev > r.rev)
      BY <1>5, <2>2
    <3>2. r # NoRow /\ r \in ThreadRow
      BY <1>1, <1>2, <3>1 DEF NoRow
    <3>3. CASE d.rev < r.rev
      BY <1>1, <1>2, <3>2, <3>3 DEF Absorbed
    <3>4. CASE d.rev = r.rev
      <4>1. SameRevision(r, d) \notin {"refreshed", "latched"}
        BY <1>1, <1>2, <1>5, <2>2, <3>4
      <4> QED BY <1>1, <1>2, <3>2, <3>4, <4>1, LeavesAlone
    <3> QED BY <1>1, <1>2, <3>1, <3>3, <3>4
  <2> QED BY <2>1, <2>2
<1> DEFINE q == RowAfter(r, d, verdict)
<1>10. changed => Advances(r, q, d)
  <2> SUFFICES ASSUME changed PROVE Advances(r, q, d)
    OBVIOUS
  <2> HIDE DEF verdict
  <2> QED BY <1>1, <1>2, <1>8, TakenRow
<1> HIDE DEF q, verdict
<1>11. /\ \A u \in Threads \ {t} : row'[u] = row[u] /\ stored'[u] = stored[u]
       /\ DOMAIN stored' = Threads
       /\ ~ changed => row'[t] = r /\ stored'[t] = stored[t]
       /\ changed => row'[t] = q /\ stored'[t] = StoredAfter(d)
  BY <1>0, <1>1, <1>3 DEF RowTypeOK, StoredAgrees, q
<1>12. changed => q \in ThreadRow /\ q # NoRow /\ q.rev = d.rev /\ (d.seq = NoNumber => Absorbed(q, d))
  <2> SUFFICES ASSUME changed PROVE q \in ThreadRow /\ q # NoRow /\ q.rev = d.rev
                                    /\ (d.seq = NoNumber => Absorbed(q, d))
    OBVIOUS
  <2>1. q \in ThreadRow /\ q.rev = d.rev /\ (d.seq = NoNumber => Absorbed(q, d))
    BY <1>10 DEF Advances
  <2>2. NoRow.rev = 0
    BY DEF NoRow
  <2> QED BY <1>1, <2>1, <2>2
<1>13. RowTypeOK'
  BY <1>0, <1>1, <1>3, <1>4, <1>12 DEF RowTypeOK, q
<1>14. changed => StoredFits(q, StoredAfter(d))
  <2> SUFFICES ASSUME changed PROVE StoredFits(q, StoredAfter(d))
    OBVIOUS
  <2> DEFINE S == DOMAIN stored[t] \cup {d.rev}
             newest == NewestOf(SnapshotsPerThread, S)
  <2>1. /\ IsFiniteSet(DOMAIN stored[t])
        /\ \A v \in DOMAIN stored[t] :
              /\ v \in Nat /\ stored[t][v] \in AnyDocument /\ stored[t][v].rev = v
              /\ r # NoRow /\ v <= r.rev
              /\ stored[t][v].seq = NoNumber => Absorbed(r, stored[t][v])
    BY <1>2 DEF StoredFits
  <2>2. IsFiniteSet(S)
    BY <2>1, FS_AddElement
  <2>3. IsFiniteSet(newest) /\ newest \subseteq S
    BY <2>2, FS_Subset DEF NewestOf
  <2>4. r # NoRow => d.rev >= r.rev
    BY <1>1, <1>2, <1>8
  <2>5. d.rev \in newest
    <3>1. {w \in S : w > d.rev} = {}
      BY <1>1, <1>2, <2>1, <2>4
    <3>2. Cardinality({w \in S : w > d.rev}) = 0
      BY <3>1, FS_EmptySet
    <3> QED BY <3>2, ReadAssumption DEF NewestOf
  <2>6. /\ DOMAIN StoredAfter(d) = newest
        /\ \A v \in newest : StoredAfter(d)[v] = IF v = d.rev THEN d ELSE stored[t][v]
    BY DEF StoredAfter
  <2> HIDE DEF newest
  <2>7. ASSUME NEW v \in newest
        PROVE  /\ v \in Nat /\ StoredAfter(d)[v] \in AnyDocument /\ StoredAfter(d)[v].rev = v
               /\ v <= q.rev /\ (StoredAfter(d)[v].seq = NoNumber => Absorbed(q, StoredAfter(d)[v]))
    <3>1. CASE v = d.rev
      BY <1>1, <1>12, <2>6, <3>1
    <3>2. CASE v # d.rev
      <4>1. v \in DOMAIN stored[t] /\ StoredAfter(d)[v] = stored[t][v]
        BY <2>3, <2>6, <3>2
      <4>2. r # NoRow /\ r \in ThreadRow /\ v <= r.rev /\ v \in Nat /\ stored[t][v] \in AnyDocument
        BY <1>2, <2>1, <4>1
      <4>3. v <= q.rev
        BY <1>1, <1>2, <1>12, <2>4, <4>2
      <4>4. stored[t][v].seq = NoNumber => Absorbed(q, stored[t][v])
        BY <1>1, <1>10, <1>12, <2>1, <4>1, <4>2, StaysAbsorbed
      <4> QED BY <2>1, <4>1, <4>2, <4>3, <4>4
    <3> QED BY <3>1, <3>2
  <2> QED BY <1>12, <2>3, <2>5, <2>6, <2>7 DEF StoredFits
<1>15. StoredAgrees'
  BY <1>0, <1>1, <1>2, <1>11, <1>14 DEF StoredAgrees
<1>16. row'[t] # NoRow /\ row'[t].rev >= d.rev /\ (row'[t] = r \/ Advances(r, row'[t], d))
       /\ (d.seq = NoNumber => Absorbed(row'[t], d))
  BY <1>1, <1>9, <1>10, <1>11, <1>12
<1> QED BY <1>11, <1>13, <1>15, <1>16 DEF Takes

LEMMA DocumentTaken ==
    ASSUME PictureInv, NEW d \in OnTheWay, IngestDocument(d)
    PROVE  Takes(d)
<1>1. SourceTypeOK /\ RowTypeOK /\ StoredAgrees
  BY DEF PictureInv
<1>2. d \in AnyDocument /\ d.kind \in {"snapshot", "event", "host"} /\ d.host \in Nat /\ d.at \in Nat
  BY <1>1, FlightFacts DEF AnyDocument
<1>3. CASE d.kind = "snapshot"
  BY <1>3, SnapshotTaken DEF IngestDocument
<1>4. CASE d.kind # "snapshot"
  <2>1. row' = row /\ stored' = stored /\ (host' = host \/ host' = HostAfter(d))
    BY <1>2, <1>4 DEF IngestDocument, PutEvent, PutHost
  <2>2. host' \in [seq : Nat, at : Nat]
    BY <1>1, <1>2, <2>1 DEF HostAfter, RowTypeOK
  <2> QED BY <1>1, <1>4, <2>1, <2>2 DEF Takes, RowTypeOK, StoredAgrees
<1> QED BY <1>3, <1>4

\* Of the unnumbered documents in flight, the one that is taken was written
\* first, but for those that are absorbed.
LEMMA FirstIsTaken ==
    ASSUME PictureInv, NEW d \in copies \cup {Head(queue)}, d \in copies \/ queue # << >>,
           Unnumbered(d), NEW x \in Snapshots(d.thread), x.seq = NoNumber, x # d
    PROVE  d.at < x.at \/ (row[d.thread] # NoRow /\ Absorbed(row[d.thread], x))
<1>1. SourceTypeOK /\ OutboxInOrder /\ CopiesAreAbsorbed
  BY DEF PictureInv
<1>2. Unnumbered(x) /\ x.thread = d.thread
  BY DEF Snapshots, Unnumbered
<1>3. \A i \in DOMAIN draft : draft[i] # x
  BY <1>1, <1>2 DEF OutboxInOrder, Unnumbered
<1>4. x \in copies \/ \E j \in DOMAIN queue : queue[j] = x
  BY <1>3 DEF Snapshots, OnTheWay
<1>5. queue # << >> => Head(queue) = queue[1] /\ 1 \in DOMAIN queue
  BY <1>1, FlightFacts
<1>6. ASSUME NEW j \in DOMAIN queue, queue[j] = x PROVE d.at < x.at
  <2>1. CASE d \in copies
    BY <1>1, <1>2, <1>6, <2>1 DEF OutboxInOrder
  <2>2. CASE d \notin copies
    <3>1. d = queue[1] /\ 1 \in DOMAIN queue
      BY <1>5, <2>2
    <3>2. j # 1 /\ j \in 1 .. Len(queue)
      BY <1>1, <1>6, <3>1, FlightFacts
    <3> QED BY <1>1, <1>2, <1>6, <3>1, <3>2 DEF OutboxInOrder
  <2> QED BY <2>1, <2>2
<1>7. CASE x \in copies
  <2>1. \/ row[x.thread] # NoRow /\ Absorbed(row[x.thread], x)
        \/ queue # << >> /\ x = Head(queue)
    BY <1>1, <1>2, <1>7 DEF CopiesAreAbsorbed
  <2> QED BY <1>2, <1>5, <1>6, <2>1
<1> QED BY <1>4, <1>6, <1>7

LEMMA RowsGoOn ==
    ASSUME PictureInv, NEW d \in OnTheWay, Takes(d), source' = source, OnTheWay' \subseteq OnTheWay,
           Unnumbered(d) =>
              \A x \in Snapshots(d.thread) : x.seq = NoNumber /\ x # d =>
                 d.at < x.at \/ (row[d.thread] # NoRow /\ Absorbed(row[d.thread], x))
    PROVE  RowsFollow'
<1>0. SourceTypeOK /\ RowTypeOK /\ DocumentsAgree /\ RowsFollow
  BY DEF PictureInv
<1>1. \A u \in Threads : Snapshots(u)' \subseteq Snapshots(u)
  BY DEF Snapshots
<1>2. ASSUME NEW u \in Threads, row'[u] = row[u], row'[u] # NoRow
      PROVE  /\ row'[u].taken <= source'.clock /\ row'[u].rev <= source'.rev[u]
             /\ row'[u].seq \in {NoNumber, row'[u].taken}
             /\ row'[u].seq # NoNumber => source'.sequenced
             /\ \A x \in Snapshots(u)' : NewerThan(x, row'[u])
  BY <1>0, <1>1, <1>2 DEF RowsFollow
<1>3. CASE d.kind = "snapshot" /\ Advances(row[d.thread], row'[d.thread], d)
  <2> DEFINE t == d.thread
  <2>0. PICK r \in {NoRow} \cup ThreadRow : r = row[t]
    BY <1>0, <1>3 DEF RowTypeOK, DocumentsAgree, WrittenRightly
  <2>1. PICK q \in ThreadRow : q = row'[t]
    BY <1>3 DEF Advances
  <2>2. Advances(r, q, d)
    BY <1>3, <2>0, <2>1
  <2>3. /\ q.rev = d.rev /\ q.seq = d.seq /\ q.taken >= d.at
        /\ q.seq # NoNumber => q.taken = d.at
        /\ d.seq = NoNumber => Absorbed(q, d)
        /\ r = NoRow => q.taken = d.at
        /\ r # NoRow => /\ q.rev >= r.rev /\ q.taken \in {r.taken, d.at}
                        /\ q.seq = NoNumber => r.seq = NoNumber
    BY <2>2 DEF Advances
  <2>4. /\ d \in AnyDocument /\ t \in Threads /\ d.at <= source.clock /\ d.rev <= source.rev[t]
        /\ d.seq \in {NoNumber, d.at} /\ (d.seq # NoNumber => source.sequenced)
        /\ d.at \in Nat /\ d.rev \in Nat
    BY <1>0, <1>3, FlightFacts DEF DocumentsAgree, WrittenRightly, AnyDocument
  <2>5. /\ q.taken \in Nat /\ q.rev \in Nat /\ q.seq \in Nat
        /\ r # NoRow => /\ r \in ThreadRow /\ r.taken \in Nat /\ r.rev \in Nat /\ r.seq \in Nat
                        /\ r.taken <= source.clock
    BY <1>0, <2>0, <2>4 DEF ThreadRow, RowsFollow
  <2>6. ASSUME NEW x \in Snapshots(t) PROVE NewerThan(x, q)
    <3>1. x \in AnyDocument /\ x.at \in Nat /\ x.rev \in Nat /\ x.seq \in Nat
      BY <1>0, <2>6, FlightFacts DEF Snapshots, AnyDocument
    <3>2. /\ x.rev > d.rev => x.at > d.at
          /\ d.seq = NoNumber /\ x.seq # NoNumber => d.at < x.at
          /\ x.seq = NoNumber /\ d.seq # NoNumber => x.at < d.at
      BY <1>0, <1>3, <2>4, <2>6 DEF DocumentsAgree, WrittenInOrder, Snapshots
    <3>3. r # NoRow => NewerThan(x, r)
      BY <1>0, <2>0, <2>4, <2>6 DEF RowsFollow
    <3>4. x.rev > q.rev => x.at > q.taken
      BY <2>3, <2>4, <2>5, <3>1, <3>2, <3>3 DEF NewerThan
    <3>5. q.seq = NoNumber /\ x.seq # NoNumber => x.at > q.taken
      BY <2>3, <2>4, <2>5, <3>1, <3>2, <3>3 DEF NewerThan
    <3>6. q.seq # NoNumber /\ x.seq = NoNumber => x.at < q.taken
      BY <2>3, <3>2
    <3>7. ASSUME x.seq = NoNumber PROVE Absorbed(q, x) \/ x.at > q.taken
      <4>1. CASE x = d
        BY <2>3, <3>7, <4>1
      <4>2. CASE r # NoRow /\ Absorbed(r, x)
        BY <2>2, <2>4, <2>5, <3>1, <4>2, StaysAbsorbed
      <4>3. CASE x # d /\ ~ (r # NoRow /\ Absorbed(r, x)) /\ d.seq = NoNumber
        <5>1. d.at < x.at
          BY <1>3, <2>0, <2>6, <3>7, <4>3 DEF Unnumbered
        <5>2. r # NoRow => x.at > r.taken
          BY <3>3, <3>7, <4>3 DEF NewerThan
        <5> QED BY <2>3, <2>5, <3>1, <5>1, <5>2
      <4>4. CASE d.seq # NoNumber
        BY <2>3, <2>4, <2>5, <3>1, <3>4, <4>4 DEF Absorbed
      <4> QED BY <4>1, <4>2, <4>3, <4>4
    <3> QED BY <3>4, <3>5, <3>6, <3>7 DEF NewerThan
  <2>7. /\ q.taken <= source.clock /\ q.rev <= source.rev[t]
        /\ q.seq \in {NoNumber, q.taken} /\ (q.seq # NoNumber => source.sequenced)
    BY <2>3, <2>4, <2>5
  <2>8. \A u \in Threads \ {t} : row'[u] = row[u]
    BY DEF Takes
  <2> QED BY <1>1, <1>2, <2>1, <2>6, <2>7, <2>8 DEF RowsFollow
<1>4. CASE \A u \in Threads : row'[u] = row[u]
  BY <1>2, <1>4 DEF RowsFollow
<1> QED BY <1>3, <1>4 DEF Takes

LEMMA StillAbsorbed ==
    ASSUME PictureInv, NEW d \in OnTheWay, Takes(d), NEW x \in OnTheWay, Unnumbered(x),
           x = d \/ (row[x.thread] # NoRow /\ Absorbed(row[x.thread], x))
    PROVE  row'[x.thread] # NoRow /\ Absorbed(row'[x.thread], x)
<1>0. SourceTypeOK /\ RowTypeOK /\ DocumentsAgree
  BY DEF PictureInv
<1>1. x.kind = "snapshot" /\ x.seq = NoNumber /\ x \in AnyDocument /\ d \in AnyDocument /\ x.thread \in Threads
  BY <1>0, FlightFacts DEF Unnumbered, DocumentsAgree, WrittenRightly
<1>2. CASE x = d
  BY <1>1, <1>2 DEF Takes
<1>3. CASE row'[x.thread] = row[x.thread] /\ x # d
  BY <1>3
<1>4. CASE d.kind = "snapshot" /\ x.thread = d.thread /\ x # d
           /\ Advances(row[d.thread], row'[d.thread], d)
  <2>1. PICK r \in ThreadRow : r = row[d.thread]
    BY <1>0, <1>1, <1>4 DEF RowTypeOK
  <2>2. PICK q \in ThreadRow : q = row'[d.thread]
    BY <1>4 DEF Advances
  <2>3. r # NoRow /\ Absorbed(r, x) /\ Advances(r, q, d)
    BY <1>4, <2>1, <2>2
  <2>4. Absorbed(q, x)
    BY <1>1, <2>3, StaysAbsorbed
  <2> QED BY <1>4, <2>2, <2>4 DEF Takes
<1> QED BY <1>1, <1>2, <1>3, <1>4 DEF Takes

-----------------------------------------------------------------------------
(* The steps.                                                                *)

\* A change at the Mac, and the document written of it, if one is.
MacMoves(N) ==
    /\ source' \in MacState /\ source'.clock \in {source.clock, source.clock + 1}
    /\ \A t \in Threads : source'.rev[t] >= source.rev[t]
    /\ source.sequenced => source'.sequenced
    /\ \A t \in Threads : source'.view[t].control = "ready" => source'.view[t].crev # NoNumber
    /\ N \subseteq AnyDocument /\ \A d, e \in N : d = e
    /\ \A d \in N : /\ d.at = source.clock + 1 /\ source'.clock = source.clock + 1
                    /\ WrittenRightly(d)'
                    /\ d.kind = "snapshot" => /\ d.rev = source'.rev[d.thread]
                                              /\ d.seq = NoNumber => ~ source.sequenced

LEMMA MacGoesOn ==
    ASSUME PictureInv, NEW N, MacMoves(N), OnTheWay' \subseteq OnTheWay \cup N, row' = row
    PROVE  DocumentsAgree' /\ RowsFollow'
<1>0. SourceTypeOK /\ RowTypeOK /\ DocumentsAgree /\ RowsFollow
  BY DEF PictureInv
<1>1. /\ source.clock \in Nat /\ source'.clock \in Nat /\ source'.clock >= source.clock
      /\ \A t \in Threads : source.rev[t] \in Nat /\ source'.rev[t] \in Nat
  BY <1>0 DEF SourceTypeOK, MacMoves, MacState
<1>2. ASSUME NEW d \in OnTheWay
      PROVE  /\ WrittenRightly(d)' /\ d \in AnyDocument /\ d.at \in Nat /\ d.rev \in Nat /\ d.seq \in Nat
             /\ d.at <= source.clock
  <2>1. d \in AnyDocument /\ WrittenRightly(d)
    BY <1>0, FlightFacts DEF DocumentsAgree
  <2>2. d.at \in Nat /\ d.rev \in Nat /\ d.seq \in Nat
    BY <2>1 DEF AnyDocument
  <2>3. d.at <= source'.clock
    BY <1>1, <2>1, <2>2 DEF WrittenRightly
  <2>4. d.kind \in {"snapshot", "event"} => d.rev <= source'.rev[d.thread]
    BY <1>1, <2>1, <2>2 DEF WrittenRightly, MacMoves
  <2> QED BY <2>1, <2>2, <2>3, <2>4 DEF WrittenRightly, MacMoves
<1>3. ASSUME NEW d \in N
      PROVE  d \in AnyDocument /\ WrittenRightly(d)' /\ d.at = source.clock + 1 /\ d.at \in Nat
             /\ d.rev \in Nat /\ d.seq \in Nat
  BY <1>1 DEF MacMoves, AnyDocument
<1>4. \A d \in OnTheWay' : WrittenRightly(d)'
  BY <1>2, <1>3
<1>5. ASSUME NEW t \in Threads, NEW d \in Snapshots(t)', NEW e \in Snapshots(t)'
      PROVE  WrittenInOrder(d, e)
  <2>1. d.kind = "snapshot" /\ d.thread = t /\ e.kind = "snapshot" /\ e.thread = t
        /\ d \in OnTheWay \cup N /\ e \in OnTheWay \cup N
    BY DEF Snapshots
  <2>2. CASE d \in OnTheWay /\ e \in OnTheWay
    BY <1>0, <2>1, <2>2 DEF DocumentsAgree, Snapshots
  <2>3. CASE d \in N /\ e \in OnTheWay
    <3>1. d.at > e.at
      BY <1>1, <1>2, <1>3, <2>3
    <3>2. d.seq = NoNumber => e.seq = NoNumber
      BY <1>0, <2>1, <2>3 DEF MacMoves, DocumentsAgree, WrittenRightly
    <3> QED BY <3>1, <3>2 DEF WrittenInOrder
  <2>4. CASE d \in OnTheWay /\ e \in N
    <3>1. d.at < e.at
      BY <1>1, <1>2, <1>3, <2>4
    <3>2. ~ d.rev > e.rev
      <4>1. e.rev = source'.rev[t] /\ d.rev <= source'.rev[t]
        BY <1>2, <2>1, <2>4 DEF MacMoves, WrittenRightly
      <4> QED BY <1>1, <1>2, <2>4, <4>1
    <3> QED BY <3>1, <3>2 DEF WrittenInOrder
  <2>5. CASE d \in N /\ e \in N
    <3>1. d = e
      BY <2>5 DEF MacMoves
    <3> QED BY <1>3, <2>5, <3>1 DEF WrittenInOrder
  <2> QED BY <2>1, <2>2, <2>3, <2>4, <2>5
<1>6. DocumentsAgree'
  BY <1>4, <1>5 DEF DocumentsAgree, MacMoves
<1>7. ASSUME NEW t \in Threads, row[t] # NoRow
      PROVE  /\ row[t].taken <= source'.clock /\ row[t].rev <= source'.rev[t]
             /\ row[t].seq \in {NoNumber, row[t].taken}
             /\ row[t].seq # NoNumber => source'.sequenced
             /\ \A d \in Snapshots(t)' : NewerThan(d, row[t])
  <2>1. /\ row[t].taken \in Nat /\ row[t].rev \in Nat /\ row[t].taken <= source.clock
        /\ row[t].rev <= source.rev[t] /\ row[t].seq \in {NoNumber, row[t].taken}
        /\ row[t].seq # NoNumber => source.sequenced
        /\ \A d \in Snapshots(t) : NewerThan(d, row[t])
    BY <1>0, <1>7 DEF RowTypeOK, ThreadRow, RowsFollow
  <2>2. row[t].taken <= source'.clock /\ row[t].rev <= source'.rev[t]
    <3>1. source'.rev[t] >= source.rev[t]
      BY DEF MacMoves
    <3> QED BY <1>1, <2>1, <3>1
  <2>3. ASSUME NEW d \in Snapshots(t)', d \notin OnTheWay PROVE NewerThan(d, row[t])
    <3>1. d \in N /\ d.kind = "snapshot"
      BY <2>3 DEF Snapshots
    <3>2. d.at > row[t].taken /\ (row[t].seq # NoNumber => d.seq # NoNumber)
      BY <1>1, <1>3, <2>1, <3>1 DEF MacMoves
    <3> QED BY <3>2 DEF NewerThan
  <2> QED BY <2>1, <2>2, <2>3 DEF Snapshots, MacMoves
<1>8. RowsFollow'
  BY <1>7 DEF RowsFollow
<1> QED BY <1>6, <1>8

\* The Mac changes, and nothing is written of it.
LEMMA MacChanges ==
    ASSUME PictureInv,
           \/ \E t \in Edited : Advance(t) \/ Retitle(t) \/ LoseControl(t) \/ GainControl(t)
           \/ ChangeHost \/ UpgradeMac
    PROVE  MacMoves({}) /\ UNCHANGED <<draft, queue, copies, readVars>>
<1>0. SourceTypeOK /\ DocumentsAgree
  BY DEF PictureInv
<1>1. /\ source \in MacState /\ source.clock \in Nat /\ source.changes \in Nat
      /\ \A t \in Threads : /\ source.rev[t] \in Nat \ {0} /\ source.view[t] \in View
                            /\ source.view[t].control = "ready" => source.view[t].crev # NoNumber
  BY <1>0 DEF SourceTypeOK, MacState, DocumentsAgree
<1>2. ASSUME NEW t \in Edited, NEW v \in View, NEW rev \in Nat \ {0}, Changes(t, v, rev),
             rev >= source.rev[t], v.control = "ready" => v.crev # NoNumber
      PROVE  MacMoves({}) /\ UNCHANGED <<draft, queue, copies, readVars>>
  <2>1. t \in Threads
    BY ReadAssumption
  <2>2. source' = [source EXCEPT !.changes = @ + 1, !.rev[t] = rev, !.view[t] = v]
    BY <1>2 DEF Changes
  <2>3. /\ source'.rev = [source.rev EXCEPT ![t] = rev] /\ source'.view = [source.view EXCEPT ![t] = v]
        /\ source'.clock = source.clock /\ source'.sequenced = source.sequenced
    BY <1>1, <2>2 DEF MacState
  <2>4. source' \in MacState
    <3>1. source' = [rev |-> [source.rev EXCEPT ![t] = rev], shown |-> source.shown,
                     view |-> [source.view EXCEPT ![t] = v], host |-> source.host,
                     events |-> source.events, clock |-> source.clock,
                     changes |-> source.changes + 1, sequenced |-> source.sequenced]
      BY <1>1, <2>2 DEF MacState
    <3>2. /\ [source.rev EXCEPT ![t] = rev] \in [Threads -> Nat \ {0}]
          /\ [source.view EXCEPT ![t] = v] \in [Threads -> View]
      BY <1>1, <1>2 DEF MacState
    <3> QED BY <1>1, <3>1, <3>2 DEF MacState
  <2>5. \A u \in Threads : /\ source'.rev[u] >= source.rev[u]
                           /\ source'.view[u].control = "ready" => source'.view[u].crev # NoNumber
    BY <1>1, <1>2, <2>1, <2>3 DEF MacState
  <2> QED BY <1>2, <2>3, <2>4, <2>5 DEF MacMoves, Changes
<1>3. ASSUME NEW t \in Edited, Advance(t) \/ Retitle(t) \/ LoseControl(t) \/ GainControl(t)
      PROVE  MacMoves({}) /\ UNCHANGED <<draft, queue, copies, readVars>>
  <2>0. t \in Threads
    BY ReadAssumption
  <2>1. CASE Advance(t)
    BY <1>1, <1>2, <2>0, <2>1 DEF Advance
  <2>2. CASE Retitle(t)
    <3>1. [source.view[t] EXCEPT !.meta = @ + 1] \in View
      BY <1>1, <2>0 DEF View
    <3> QED BY <1>1, <1>2, <2>0, <2>2, <3>1 DEF Retitle, View
  <2>3. CASE LoseControl(t)
    <3>1. PICK c \in NonWritable : Changes(t, Seen(t, c, NoNumber), source.rev[t])
      BY <2>3 DEF LoseControl
    <3>4. Seen(t, c, NoNumber) \in View /\ Seen(t, c, NoNumber).control # "ready"
      BY <1>1, <2>0 DEF Seen, View, NonWritable, Degraded, NoNumber
    <3>2. PICK v \in View : v = Seen(t, c, NoNumber) /\ v.control # "ready"
      BY <3>4
    <3>3. source.rev[t] \in Nat \ {0} /\ source.rev[t] >= source.rev[t]
      BY <1>1, <2>0
    <3> QED BY <1>2, <3>1, <3>2, <3>3
  <2>4. CASE GainControl(t)
    <3>3. LET s == Seen(t, "ready", source.changes + 2) IN s \in View /\ s.crev # NoNumber
      BY <1>1, <2>0 DEF Seen, View, NoNumber
    <3>1. PICK v \in View : v = Seen(t, "ready", source.changes + 2) /\ v.crev # NoNumber
      BY <3>3
    <3>2. source.rev[t] \in Nat \ {0} /\ source.rev[t] >= source.rev[t]
      BY <1>1, <2>0
    <3> QED BY <1>2, <2>4, <3>1, <3>2 DEF GainControl
  <2> QED BY <1>3, <2>1, <2>2, <2>3, <2>4
<1>4. ASSUME source' \in MacState, source'.rev = source.rev, source'.view = source.view,
             source'.clock = source.clock, source.sequenced => source'.sequenced,
             UNCHANGED <<draft, queue, copies, readVars>>
      PROVE  MacMoves({}) /\ UNCHANGED <<draft, queue, copies, readVars>>
  <2>1. \A t \in Threads : /\ source'.rev[t] >= source.rev[t]
                           /\ source'.view[t].control = "ready" => source'.view[t].crev # NoNumber
    BY <1>1, <1>4
  <2> QED BY <1>4, <2>1 DEF MacMoves
<1>5. CASE ChangeHost
  <2>1. source' = [rev |-> source.rev, shown |-> source.shown, view |-> source.view,
                   host |-> source.host + 1, events |-> source.events, clock |-> source.clock,
                   changes |-> source.changes + 1, sequenced |-> source.sequenced]
    BY <1>1, <1>5 DEF ChangeHost, MacState
  <2>2. source' \in MacState
    BY <1>1, <2>1 DEF MacState
  <2> QED BY <1>4, <1>5, <2>1, <2>2 DEF ChangeHost
<1>6. CASE UpgradeMac
  <2>1. source' \in MacState /\ source'.rev = source.rev /\ source'.view = source.view
        /\ source'.clock = source.clock /\ source'.sequenced
    BY <1>1, <1>6 DEF UpgradeMac, MacState
  <2> QED BY <1>4, <1>6, <2>1 DEF UpgradeMac
<1> QED BY <1>3, <1>5, <1>6

\* A document more at the end of the outbox.
LEMMA OutboxGrows ==
    ASSUME PictureInv, NEW d \in AnyDocument, Unnumbered(d) => \A x \in OnTheWay : x.at < d.at,
           queue' = Append(queue, d), UNCHANGED <<draft, copies, row>>
    PROVE  /\ queue' \in Seq(AnyDocument) /\ OnTheWay' \subseteq OnTheWay \cup {d}
           /\ OutboxInOrder' /\ CopiesAreAbsorbed'
<1>0. SourceTypeOK /\ OutboxInOrder /\ CopiesAreAbsorbed
  BY DEF PictureInv
<1>1. queue \in Seq(AnyDocument) /\ DOMAIN queue = 1 .. Len(queue) /\ Len(queue) \in Nat
  BY <1>0, FlightFacts DEF SourceTypeOK
<1>2. /\ queue' \in Seq(AnyDocument) /\ DOMAIN queue' = 1 .. (Len(queue) + 1)
      /\ \A i \in 1 .. Len(queue) : queue'[i] = queue[i]
      /\ queue'[Len(queue) + 1] = d
  BY <1>1, AppendProperties, LenProperties
<1>3. OnTheWay' \subseteq OnTheWay \cup {d}
  <2>1. \A i \in DOMAIN queue' : queue'[i] = d \/ \E j \in DOMAIN queue : queue'[i] = queue[j]
    BY <1>1, <1>2
  <2> QED BY <2>1 DEF OnTheWay
<1>4. OutboxInOrder'
  <2>1. ASSUME NEW i \in DOMAIN queue', NEW j \in DOMAIN queue', i < j, Unnumbered(queue'[i]),
               Unnumbered(queue'[j])
        PROVE  queue'[i].at < queue'[j].at
    <3>1. i \in DOMAIN queue /\ queue'[i] = queue[i]
      BY <1>1, <1>2, <2>1
    <3>2. CASE j \in DOMAIN queue
      BY <1>0, <1>1, <1>2, <2>1, <3>1, <3>2 DEF OutboxInOrder
    <3>3. CASE j \notin DOMAIN queue
      <4>1. queue'[j] = d
        BY <1>1, <1>2, <3>3
      <4>2. queue[i] \in OnTheWay
        BY <3>1 DEF OnTheWay
      <4> QED BY <2>1, <3>1, <4>1, <4>2
    <3> QED BY <3>2, <3>3
  <2>2. ASSUME NEW c \in copies', NEW j \in DOMAIN queue', Unnumbered(c), Unnumbered(queue'[j])
        PROVE  c = queue'[j] \/ c.at < queue'[j].at
    <3>1. CASE j \in DOMAIN queue
      BY <1>0, <1>1, <1>2, <2>2, <3>1 DEF OutboxInOrder
    <3>2. CASE j \notin DOMAIN queue
      <4>1. queue'[j] = d
        BY <1>1, <1>2, <3>2
      <4>2. c \in OnTheWay
        BY <2>2 DEF OnTheWay
      <4> QED BY <2>2, <4>1, <4>2
    <3> QED BY <3>1, <3>2
  <2> QED BY <1>0, <2>1, <2>2 DEF OutboxInOrder, Unnumbered
<1>5. CopiesAreAbsorbed'
  <2>1. queue # << >> => queue' # << >> /\ Head(queue') = Head(queue)
    <3> SUFFICES ASSUME queue # << >> PROVE queue' # << >> /\ Head(queue') = Head(queue)
      OBVIOUS
    <3>1. 1 \in 1 .. Len(queue) /\ Head(queue) = queue[1]
      BY <1>0, <1>1, FlightFacts
    <3>2. queue' # << >>
      BY <1>1, <1>2, EmptySeq
    <3>3. Head(queue') = queue'[1]
      BY <1>2, <3>2
    <3> QED BY <1>2, <3>1, <3>2, <3>3
  <2> QED BY <1>0, <2>1 DEF CopiesAreAbsorbed, Unnumbered
<1> QED BY <1>2, <1>3, <1>4, <1>5

\* A document of the outbox less at its head, and a copy more or less.
LEMMA OutboxShrinks ==
    ASSUME PictureInv,
           \/ /\ queue # << >> /\ queue' = Tail(queue) /\ UNCHANGED copies
           \/ /\ queue' = queue
              /\ copies' \subseteq copies \/ (queue # << >> /\ copies' = copies \cup {Head(queue)}),
           draft' = draft
    PROVE  /\ queue' \in Seq(AnyDocument) /\ copies' \subseteq AnyDocument
           /\ OnTheWay' \subseteq OnTheWay /\ OutboxInOrder'
<1>0. SourceTypeOK /\ OutboxInOrder
  BY DEF PictureInv
<1>1. /\ queue \in Seq(AnyDocument) /\ DOMAIN queue = 1 .. Len(queue) /\ Len(queue) \in Nat
      /\ copies \subseteq AnyDocument /\ OnTheWay \subseteq AnyDocument
      /\ queue # << >> => Head(queue) = queue[1] /\ 1 \in DOMAIN queue /\ Head(queue) \in OnTheWay
  BY <1>0, FlightFacts DEF SourceTypeOK
<1>2. CASE queue # << >> /\ queue' = Tail(queue) /\ UNCHANGED copies
  <2>1. /\ queue' \in Seq(AnyDocument) /\ DOMAIN queue' = 1 .. (Len(queue) - 1)
        /\ \A i \in DOMAIN queue' : queue'[i] = queue[i + 1]
    BY <1>1, <1>2, HeadTailProperties, LenProperties
  <2>2. \A i \in DOMAIN queue' : i + 1 \in DOMAIN queue /\ queue'[i] = queue[i + 1] /\ i \in Nat
    BY <1>1, <2>1
  <2>3. OnTheWay' \subseteq OnTheWay
    <3>1. \A i \in DOMAIN queue' : \E j \in DOMAIN queue : queue'[i] = queue[j]
      BY <2>2
    <3> QED BY <1>2, <3>1 DEF OnTheWay
  <2>4. OutboxInOrder'
    <3>1. ASSUME NEW i \in DOMAIN queue', NEW j \in DOMAIN queue', i < j, Unnumbered(queue'[i]),
                 Unnumbered(queue'[j])
          PROVE  queue'[i].at < queue'[j].at
      <4>1. /\ i + 1 \in DOMAIN queue /\ j + 1 \in DOMAIN queue /\ i + 1 < j + 1
            /\ queue'[i] = queue[i + 1] /\ queue'[j] = queue[j + 1]
        BY <2>2, <3>1
      <4>2. Unnumbered(queue[i + 1]) /\ Unnumbered(queue[j + 1])
        BY <3>1, <4>1
      <4> QED BY <1>0, <4>1, <4>2 DEF OutboxInOrder
    <3> QED BY <1>0, <1>2, <2>2, <3>1 DEF OutboxInOrder, Unnumbered
  <2> QED BY <1>1, <1>2, <2>1, <2>3, <2>4
<1>3. CASE queue' = queue /\ copies' \subseteq copies
  BY <1>0, <1>1, <1>3 DEF OnTheWay, OutboxInOrder, Unnumbered
<1>4. CASE queue' = queue /\ queue # << >> /\ copies' = copies \cup {Head(queue)}
  <2>1. OnTheWay' \subseteq OnTheWay
    BY <1>1, <1>4 DEF OnTheWay
  <2>2. ASSUME NEW j \in DOMAIN queue, Unnumbered(queue[1]), Unnumbered(queue[j])
        PROVE  queue[1] = queue[j] \/ queue[1].at < queue[j].at
    <3>1. CASE j = 1
      BY <3>1
    <3>2. CASE j # 1
      <4>0. 1 \in DOMAIN queue
        BY <1>1, <1>4
      <4>2. j \in 1 .. Len(queue)
        BY <1>1, <2>2
      <4>1. 1 \in DOMAIN queue /\ 1 < j
        BY <1>1, <3>2, <4>0, <4>2
      <4> QED BY <1>0, <2>2, <4>1 DEF OutboxInOrder
    <3> QED BY <3>1, <3>2
  <2>3. ASSUME NEW c \in copies', NEW j \in DOMAIN queue', Unnumbered(c), Unnumbered(queue'[j])
        PROVE  c = queue'[j] \/ c.at < queue'[j].at
    <3>1. j \in DOMAIN queue /\ queue'[j] = queue[j] /\ (c \in copies \/ c = queue[1])
      BY <1>1, <1>4, <2>3
    <3>2. CASE c \in copies
      BY <1>0, <2>3, <3>1, <3>2 DEF OutboxInOrder
    <3>3. CASE c = queue[1]
      BY <2>2, <2>3, <3>1, <3>3
    <3> QED BY <3>1, <3>2, <3>3
  <2>4. OutboxInOrder'
    BY <1>0, <1>4, <2>3 DEF OutboxInOrder, Unnumbered
  <2> QED BY <1>1, <1>4, <2>1, <2>4
<1> QED BY <1>2, <1>3, <1>4

LEMMA DocumentsAreWhole ==
    ASSUME SourceTypeOK, NEW kind \in {"snapshot", "event", "host"}, NEW t \in Threads \cup {"none"},
           kind # "host" => t \in Threads, NEW seq \in Nat, NEW view \in View, NEW history \in BOOLEAN
    PROVE  LET d == DocumentOf(kind, t, seq, view, history) IN
             /\ d \in AnyDocument /\ d.kind = kind /\ d.thread = t /\ d.seq = seq /\ d.view = view
             /\ d.at = source.clock + 1 /\ (kind # "host" => d.rev = source.rev[t])
<1>1. /\ source.clock \in Nat /\ source.host \in Nat /\ source.rev \in [Threads -> Nat \ {0}]
  BY DEF SourceTypeOK, MacState
<1>2. /\ (IF kind = "host" THEN 0 ELSE source.rev[t]) \in Nat
      /\ (IF source.sequenced THEN source.host ELSE NoNumber) \in Nat
  BY <1>1 DEF NoNumber
<1> QED BY <1>1, <1>2 DEF DocumentOf, AnyDocument

\* The Mac's own record after a document is written.
LEMMA SourceWritten ==
    ASSUME SourceTypeOK,
           \/ source' = Written("event") \/ source' = [Written("event") EXCEPT !.events = @ + 1]
           \/ \E t \in Threads : source' = [Written("event") EXCEPT !.shown[t] = source.rev[t]]
    PROVE  /\ source' \in MacState /\ source'.clock = source.clock + 1 /\ source'.rev = source.rev
           /\ source'.view = source.view /\ source'.sequenced = source.sequenced
<1>1. /\ source \in MacState /\ source.clock + 1 \in Nat /\ source.events + 1 \in Nat
  BY DEF SourceTypeOK, MacState
<1> DEFINE After(shown, events) ==
      [rev |-> source.rev, shown |-> shown, view |-> source.view, host |-> source.host,
       events |-> events, clock |-> source.clock + 1, changes |-> source.changes,
       sequenced |-> source.sequenced]
<1>2. Written("event") = After(source.shown, source.events)
  <2>1. ASSUME NEW s, s = [source EXCEPT !.clock = source.clock + 1]
        PROVE  s = After(source.shown, source.events)
    BY <1>1, <2>1 DEF MacState
  <2> QED BY <2>1 DEF Written
<1>3. ASSUME NEW shown \in [Threads -> Nat], NEW events \in Nat, source' = After(shown, events)
      PROVE  /\ source' \in MacState /\ source'.clock = source.clock + 1 /\ source'.rev = source.rev
             /\ source'.view = source.view /\ source'.sequenced = source.sequenced
  BY <1>1, <1>3 DEF MacState
<1>4. source.shown \in [Threads -> Nat] /\ source.events \in Nat
  BY <1>1 DEF MacState
<1>5. CASE source' = Written("event")
  BY <1>2, <1>3, <1>4, <1>5
<1>6. CASE source' = [Written("event") EXCEPT !.events = @ + 1]
  <2>1. source' = After(source.shown, source.events + 1)
    BY <1>2, <1>6
  <2> QED BY <1>1, <1>3, <1>4, <2>1
<1>7. ASSUME NEW t \in Threads, source' = [Written("event") EXCEPT !.shown[t] = source.rev[t]]
      PROVE  /\ source' \in MacState /\ source'.clock = source.clock + 1 /\ source'.rev = source.rev
             /\ source'.view = source.view /\ source'.sequenced = source.sequenced
  <2>1. source' = After([source.shown EXCEPT ![t] = source.rev[t]], source.events)
    BY <1>2, <1>7
  <2>2. [source.shown EXCEPT ![t] = source.rev[t]] \in [Threads -> Nat]
    BY <1>1, <1>4, <1>7 DEF MacState
  <2> QED BY <1>3, <1>4, <2>1, <2>2
<1> QED BY <1>5, <1>6, <1>7

\* The Mac writes a document.
LEMMA MacWrites ==
    ASSUME PictureInv,
           \/ \E t \in Edited : WriteSnapshot(t)
           \/ \E t \in Threads : \E h \in BOOLEAN : WriteEvent(t, h)
           \/ WriteHost
    PROVE  /\ UNCHANGED <<copies, readVars>>
           /\ \E d \in AnyDocument :
                /\ MacMoves({d}) /\ d.at = source.clock + 1
                /\ \/ queue' = Append(queue, d) /\ UNCHANGED draft
                   \/ /\ draft' = <<d>> /\ UNCHANGED queue
                      /\ draft = << >> /\ d.kind = "snapshot" /\ d.seq # NoNumber
<1>0. SourceTypeOK /\ DocumentsAgree
  BY DEF PictureInv
<1>1. /\ source.clock \in Nat /\ source.host \in Nat /\ source.events \in Nat
      /\ \A t \in Threads : /\ source.rev[t] \in Nat \ {0} /\ source.view[t] \in View
                            /\ source.view[t].control = "ready" => source.view[t].crev # NoNumber
  BY <1>0 DEF SourceTypeOK, MacState, DocumentsAgree
<1>2. ASSUME NEW d \in AnyDocument, source' \in MacState, source'.clock = source.clock + 1,
             source'.rev = source.rev, source'.view = source.view, source'.sequenced = source.sequenced,
             d.at = source.clock + 1, d.view.control = "ready" => d.view.crev # NoNumber,
             d.kind # "host" => d.thread \in Threads /\ d.rev = source.rev[d.thread],
             d.kind = "snapshot" =>
                d.seq = (IF source.sequenced THEN source.clock + 1 ELSE NoNumber)
      PROVE  MacMoves({d})
  <2>1. WrittenRightly(d)'
    BY <1>1, <1>2 DEF WrittenRightly
  <2>2. \A t \in Threads : source'.rev[t] >= source.rev[t]
    BY <1>1, <1>2
  <2>3. d.kind = "snapshot" => (d.seq = NoNumber => ~ source.sequenced)
    BY <1>1, <1>2 DEF NoNumber
  <2> QED BY <1>1, <1>2, <2>1, <2>2, <2>3 DEF MacMoves
<1>3. ASSUME NEW t \in Edited, WriteSnapshot(t)
      PROVE  /\ UNCHANGED <<copies, readVars>>
             /\ \E d \in AnyDocument :
                  /\ MacMoves({d}) /\ d.at = source.clock + 1
                  /\ \/ queue' = Append(queue, d) /\ UNCHANGED draft
                     \/ /\ draft' = <<d>> /\ UNCHANGED queue
                        /\ draft = << >> /\ d.kind = "snapshot" /\ d.seq # NoNumber
  <2>1. t \in Threads
    BY ReadAssumption
  <2> DEFINE seq == IF source.sequenced THEN source.clock + 1 ELSE NoNumber
  <2>2. seq \in Nat /\ source.view[t] \in View
    BY <1>1, <2>1 DEF NoNumber
  <2>7. LET d == DocumentOf("snapshot", t, seq, source.view[t], FALSE) IN
           /\ d \in AnyDocument /\ d.kind = "snapshot" /\ d.thread = t /\ d.seq = seq
           /\ d.view = source.view[t] /\ d.at = source.clock + 1 /\ d.rev = source.rev[t]
    <3> HIDE DEF seq
    <3>1. PICK h \in BOOLEAN : h = FALSE
      OBVIOUS
    <3>2. LET d == DocumentOf("snapshot", t, seq, source.view[t], h) IN
           /\ d \in AnyDocument /\ d.kind = "snapshot" /\ d.thread = t /\ d.seq = seq
           /\ d.view = source.view[t] /\ d.at = source.clock + 1 /\ d.rev = source.rev[t]
      BY <1>0, <2>1, <2>2, DocumentsAreWhole
    <3> QED BY <3>1, <3>2
  <2>3. PICK d \in AnyDocument :
           /\ d = SnapshotOf(t) /\ d.kind = "snapshot" /\ d.thread = t /\ d.seq = seq
           /\ d.view = source.view[t] /\ d.at = source.clock + 1 /\ d.rev = source.rev[t]
    BY <2>7 DEF SnapshotOf
  <2>4. source' = [Written("event") EXCEPT !.shown[t] = source.rev[t]]
    BY <1>3 DEF WriteSnapshot, Written
  <2>5. MacMoves({d})
    BY <1>0, <1>1, <1>2, <2>1, <2>3, <2>4, SourceWritten
  <2>6. source.sequenced => d.seq # NoNumber
    BY <1>1, <2>3 DEF NoNumber
  <2> QED BY <1>3, <2>3, <2>5, <2>6 DEF WriteSnapshot
<1>4. ASSUME NEW t \in Threads, NEW h \in BOOLEAN, WriteEvent(t, h)
      PROVE  /\ UNCHANGED <<copies, readVars>>
             /\ \E d \in AnyDocument : /\ MacMoves({d}) /\ d.at = source.clock + 1
                                       /\ queue' = Append(queue, d) /\ UNCHANGED draft
  <2>1. source.events + 1 \in Nat /\ NoView \in View /\ NoView.control # "ready"
    BY <1>1 DEF NoView, View, NoNumber
  <2>2. PICK d \in AnyDocument :
           /\ d = DocumentOf("event", t, source.events + 1, NoView, h)
           /\ d.kind = "event" /\ d.thread = t /\ d.view = NoView
           /\ d.at = source.clock + 1 /\ d.rev = source.rev[t]
    BY <1>0, <2>1, DocumentsAreWhole
  <2>3. MacMoves({d})
    BY <1>0, <1>2, <1>4, <2>1, <2>2, SourceWritten DEF WriteEvent
  <2> QED BY <1>4, <2>2, <2>3 DEF WriteEvent
<1>5. ASSUME WriteHost
      PROVE  /\ UNCHANGED <<copies, readVars>>
             /\ \E d \in AnyDocument : /\ MacMoves({d}) /\ d.at = source.clock + 1
                                       /\ queue' = Append(queue, d) /\ UNCHANGED draft
  <2>1. NoView \in View /\ NoView.control # "ready"
    BY DEF NoView, View, NoNumber
  <2>5. LET d == DocumentOf("host", "none", source.host, NoView, FALSE) IN
           d \in AnyDocument /\ d.kind = "host" /\ d.view = NoView /\ d.at = source.clock + 1
    <3>1. PICK h \in BOOLEAN, kind \in {"snapshot", "event", "host"}, t \in Threads \cup {"none"} :
             h = FALSE /\ kind = "host" /\ t = "none"
      OBVIOUS
    <3>3. PICK n \in Nat, view \in View : n = source.host /\ view = NoView
      BY <1>1, <2>1
    <3>4. kind # "host" => t \in Threads
      BY <3>1
    <3>5. LET d == DocumentOf(kind, t, n, view, h) IN
             d \in AnyDocument /\ d.kind = kind /\ d.view = view /\ d.at = source.clock + 1
      BY <1>0, <3>4, DocumentsAreWhole
    <3>2. LET d == DocumentOf("host", "none", source.host, NoView, h) IN
             d \in AnyDocument /\ d.kind = "host" /\ d.view = NoView /\ d.at = source.clock + 1
      BY <3>1, <3>3, <3>5
    <3> QED BY <3>1, <3>2
  <2>2. PICK d \in AnyDocument :
           /\ d = DocumentOf("host", "none", source.host, NoView, FALSE)
           /\ d.kind = "host" /\ d.view = NoView /\ d.at = source.clock + 1
    BY <2>5
  <2>3. source' = Written("event")
    BY <1>5 DEF WriteHost, Written
  <2>4. MacMoves({d})
    BY <1>0, <1>2, <2>1, <2>2, <2>3, SourceWritten
  <2> QED BY <1>5, <2>2, <2>4 DEF WriteHost
<1> QED BY <1>3, <1>4, <1>5

\* A step that takes document d, or takes nothing.
LEMMA ReaderGoesOn ==
    ASSUME PictureInv, NEW d \in copies \cup {Head(queue)}, d \in copies \/ queue # << >>,
           source' = source, draft' = draft,
           IngestDocument(d) \/ UNCHANGED readVars,
           \/ /\ queue' = queue
              /\ \/ copies' = copies
                 \/ copies' = copies \ {d}
                 \/ queue # << >> /\ copies' = copies \cup {Head(queue)}
           \/ /\ queue # << >> /\ d = Head(queue) /\ IngestDocument(d)
              /\ queue' = Tail(queue) /\ copies' = copies
    PROVE  PictureInv'
<1>0. SourceTypeOK /\ RowTypeOK /\ DocumentsAgree /\ OutboxInOrder /\ CopiesAreAbsorbed /\ StoredAgrees
      /\ RowsFollow
  BY DEF PictureInv
<1>1. /\ queue' \in Seq(AnyDocument) /\ copies' \subseteq AnyDocument
      /\ OnTheWay' \subseteq OnTheWay /\ OutboxInOrder'
  BY OutboxShrinks
<1>2. SourceTypeOK'
  BY <1>0, <1>1 DEF SourceTypeOK
<1>3. DocumentsAgree'
  <2>1. \A t \in Threads : Snapshots(t)' \subseteq Snapshots(t)
    BY <1>1 DEF Snapshots
  <2> QED BY <1>0, <1>1, <2>1 DEF DocumentsAgree, WrittenRightly
<1>4. d \in OnTheWay
  BY <1>0, FlightFacts DEF OnTheWay
<1>5. CASE UNCHANGED readVars /\ ~ IngestDocument(d)
  <2>1. row' = row /\ stored' = stored /\ host' = host
    BY <1>5 DEF readVars
  <2>2. RowTypeOK' /\ StoredAgrees'
    BY <1>0, <2>1 DEF RowTypeOK, StoredAgrees
  <2>3. RowsFollow'
    <3>1. \A t \in Threads : Snapshots(t)' \subseteq Snapshots(t)
      BY <1>1 DEF Snapshots
    <3> QED BY <1>0, <2>1, <3>1 DEF RowsFollow
  <2>4. CopiesAreAbsorbed'
    BY <1>0, <1>5, <2>1 DEF CopiesAreAbsorbed, Unnumbered
  <2> QED BY <1>1, <1>2, <1>3, <2>2, <2>3, <2>4 DEF PictureInv
<1>6. CASE IngestDocument(d)
  <2>1. Takes(d)
    BY <1>4, <1>6, DocumentTaken
  <2>2. RowsFollow'
    BY <1>1, <1>4, <2>1, FirstIsTaken, RowsGoOn
  <2>3. ASSUME NEW x \in copies', Unnumbered(x)
        PROVE  \/ row'[x.thread] # NoRow /\ Absorbed(row'[x.thread], x)
               \/ queue' # << >> /\ x = Head(queue')
    <3>1. \/ x \in copies \/ (queue' = queue /\ queue # << >> /\ x = Head(queue))
      BY <2>3
    <3>2. CASE queue' = queue /\ queue # << >> /\ x = Head(queue)
      BY <3>2
    <3>3. CASE x = d
      BY <1>4, <2>1, <2>3, <3>3, StillAbsorbed
    <3>4. CASE x \in copies /\ row[x.thread] # NoRow /\ Absorbed(row[x.thread], x)
      <4>1. x \in OnTheWay
        BY <3>4 DEF OnTheWay
      <4> QED BY <1>4, <2>1, <2>3, <3>4, <4>1, StillAbsorbed
    <3>5. x \in copies => \/ row[x.thread] # NoRow /\ Absorbed(row[x.thread], x)
                          \/ queue # << >> /\ x = Head(queue)
      BY <1>0, <2>3 DEF CopiesAreAbsorbed
    <3>6. CASE queue # << >> /\ x = Head(queue) /\ queue' # queue
      BY <3>3, <3>6
    <3> QED BY <3>1, <3>2, <3>3, <3>4, <3>5, <3>6
  <2>4. CopiesAreAbsorbed'
    BY <2>3 DEF CopiesAreAbsorbed, Unnumbered
  <2> QED BY <1>1, <1>2, <1>3, <2>1, <2>2, <2>4 DEF PictureInv, Takes
<1> QED BY <1>5, <1>6

LEMMA PictureStepInv == PictureInv /\ [ReadNext]_desktopReadVars => PictureInv'
<1> SUFFICES ASSUME PictureInv, [ReadNext]_desktopReadVars PROVE PictureInv'
  OBVIOUS
<1>0. SourceTypeOK /\ RowTypeOK /\ DocumentsAgree /\ OutboxInOrder /\ CopiesAreAbsorbed /\ StoredAgrees
  BY DEF PictureInv
<1>1. ASSUME NEW N, MacMoves(N), OnTheWay' \subseteq OnTheWay \cup N, UNCHANGED readVars,
             queue' \in Seq(AnyDocument), draft' \in Seq(AnyDocument), copies' = copies,
             OutboxInOrder', CopiesAreAbsorbed'
      PROVE  PictureInv'
  <2>1. row' = row /\ stored' = stored /\ host' = host
    BY <1>1 DEF readVars
  <2>2. DocumentsAgree' /\ RowsFollow'
    BY <1>1, <2>1, MacGoesOn
  <2>3. SourceTypeOK'
    BY <1>0, <1>1 DEF SourceTypeOK, MacMoves
  <2>4. RowTypeOK' /\ StoredAgrees'
    BY <1>0, <2>1 DEF RowTypeOK, StoredAgrees
  <2> QED BY <1>1, <2>2, <2>3, <2>4 DEF PictureInv
<1>2. ASSUME MacMoves({}), UNCHANGED <<draft, queue, copies, readVars>> PROVE PictureInv'
  <2>1. OnTheWay' \subseteq OnTheWay \cup {}
    BY <1>2 DEF OnTheWay
  <2>2. row' = row
    BY <1>2 DEF readVars
  <2>3. OutboxInOrder' /\ CopiesAreAbsorbed'
    BY <1>0, <1>2, <2>2 DEF OutboxInOrder, CopiesAreAbsorbed, Unnumbered
  <2>4. queue' \in Seq(AnyDocument) /\ draft' \in Seq(AnyDocument)
    BY <1>0, <1>2 DEF SourceTypeOK
  <2> QED BY <1>1, <1>2, <2>1, <2>3, <2>4
<1>3. ASSUME \/ \E t \in Edited : Advance(t) \/ Retitle(t) \/ LoseControl(t) \/ GainControl(t)
             \/ ChangeHost \/ UpgradeMac
      PROVE  PictureInv'
  BY <1>2, <1>3, MacChanges
<1>4. ASSUME \/ \E t \in Edited : WriteSnapshot(t)
             \/ \E t \in Threads : \E h \in BOOLEAN : WriteEvent(t, h)
             \/ WriteHost
      PROVE  PictureInv'
  <2>1. PICK d \in AnyDocument :
                /\ MacMoves({d}) /\ d.at = source.clock + 1
                /\ \/ queue' = Append(queue, d) /\ UNCHANGED draft
                   \/ /\ draft' = <<d>> /\ UNCHANGED queue
                      /\ draft = << >> /\ d.kind = "snapshot" /\ d.seq # NoNumber
    BY <1>4, MacWrites
  <2>2. UNCHANGED <<copies, readVars>> /\ row' = row
    <3>1. UNCHANGED <<copies, readVars>>
      BY <1>4, MacWrites
    <3> QED BY <3>1 DEF readVars
  <2>3. \A x \in OnTheWay : x.at < d.at
    <3>1. ASSUME NEW x \in OnTheWay PROVE x.at < d.at
      <4>1. x \in AnyDocument /\ x.at <= source.clock /\ source.clock \in Nat
        BY <1>0, FlightFacts DEF DocumentsAgree, WrittenRightly, SourceTypeOK, MacState
      <4> QED BY <2>1, <4>1 DEF AnyDocument
    <3> QED BY <3>1
  <2>4. CASE queue' = Append(queue, d) /\ UNCHANGED draft
    <3>1. /\ queue' \in Seq(AnyDocument) /\ OnTheWay' \subseteq OnTheWay \cup {d}
          /\ OutboxInOrder' /\ CopiesAreAbsorbed'
      BY <2>2, <2>3, <2>4, OutboxGrows
    <3>2. draft' \in Seq(AnyDocument)
      BY <1>0, <2>4 DEF SourceTypeOK
    <3> QED BY <1>1, <2>1, <2>2, <3>1, <3>2
  <2>5. CASE /\ draft' = <<d>> /\ UNCHANGED queue
             /\ draft = << >> /\ d.kind = "snapshot" /\ d.seq # NoNumber
    <3>1. draft' \in Seq(AnyDocument) /\ DOMAIN draft' = {1} /\ draft'[1] = d
      BY <2>5
    <3>2. OnTheWay' \subseteq OnTheWay \cup {d}
      BY <2>2, <2>5, <3>1 DEF OnTheWay
    <3>3. OutboxInOrder' /\ CopiesAreAbsorbed'
      BY <1>0, <2>2, <2>5, <3>1 DEF OutboxInOrder, CopiesAreAbsorbed, Unnumbered
    <3>4. queue' \in Seq(AnyDocument)
      BY <1>0, <2>5 DEF SourceTypeOK
    <3> QED BY <1>1, <2>1, <2>2, <3>1, <3>2, <3>3, <3>4
  <2> QED BY <2>1, <2>4, <2>5
<1>5. CASE WriteDraft
  <2>1. /\ draft # << >> /\ queue' = queue \o draft /\ draft' = << >> /\ source' = source
        /\ copies' = copies /\ UNCHANGED readVars /\ row' = row
    BY <1>5 DEF WriteDraft, readVars
  <2>2. /\ queue \in Seq(AnyDocument) /\ draft \in Seq(AnyDocument)
        /\ DOMAIN queue = 1 .. Len(queue) /\ Len(queue) \in Nat
        /\ DOMAIN draft = 1 .. Len(draft) /\ Len(draft) \in Nat
    BY <1>0, FlightFacts DEF SourceTypeOK
  <2>3. /\ queue' \in Seq(AnyDocument) /\ DOMAIN queue' = 1 .. (Len(queue) + Len(draft))
        /\ \A i \in 1 .. (Len(queue) + Len(draft)) :
              queue'[i] = IF i <= Len(queue) THEN queue[i] ELSE draft[i - Len(queue)]
    BY <2>1, <2>2, ConcatProperties, LenProperties
  <2>4. ASSUME NEW i \in DOMAIN queue'
        PROVE  \/ i \in DOMAIN queue /\ queue'[i] = queue[i]
               \/ i \notin DOMAIN queue /\ i > Len(queue) /\ \E k \in DOMAIN draft : queue'[i] = draft[k]
    <3>1. CASE i <= Len(queue)
      BY <2>2, <2>3, <3>1
    <3>2. CASE ~ i <= Len(queue)
      <4>1. i - Len(queue) \in DOMAIN draft /\ queue'[i] = draft[i - Len(queue)]
        BY <2>2, <2>3, <3>2
      <4> QED BY <2>2, <2>3, <3>2, <4>1
    <3> QED BY <3>1, <3>2
  <2>5. \A i \in DOMAIN queue' : Unnumbered(queue'[i]) => i \in DOMAIN queue /\ queue'[i] = queue[i]
    BY <1>0, <2>4 DEF OutboxInOrder, Unnumbered
  <2>6. draft' \in Seq(AnyDocument) /\ DOMAIN draft' = {}
    BY <2>1, EmptySeq
  <2>7. OnTheWay' \subseteq OnTheWay \cup {}
    BY <2>1, <2>4, <2>6 DEF OnTheWay
  <2>8. OutboxInOrder'
    <3>1. \A i, j \in DOMAIN queue' : i < j /\ Unnumbered(queue'[i]) /\ Unnumbered(queue'[j]) =>
             queue'[i].at < queue'[j].at
      BY <1>0, <2>5 DEF OutboxInOrder
    <3>2. \A c \in copies', j \in DOMAIN queue' : Unnumbered(c) /\ Unnumbered(queue'[j]) =>
             c = queue'[j] \/ c.at < queue'[j].at
      BY <1>0, <2>1, <2>5 DEF OutboxInOrder
    <3> QED BY <2>6, <3>1, <3>2 DEF OutboxInOrder, Unnumbered
  <2>9. CopiesAreAbsorbed'
    <3>1. queue # << >> => queue' # << >> /\ Head(queue') = Head(queue)
      <4> SUFFICES ASSUME queue # << >> PROVE queue' # << >> /\ Head(queue') = Head(queue)
        OBVIOUS
      <4>1. 1 \in 1 .. Len(queue) /\ Head(queue) = queue[1]
        BY <1>0, <2>2, FlightFacts
      <4>2. 1 \in DOMAIN queue' /\ queue'[1] = queue[1]
        BY <2>2, <2>3, <4>1
      <4>3. queue' # << >>
        BY <4>2, EmptySeq
      <4>4. Head(queue') = queue'[1]
        BY <2>3, <4>3
      <4> QED BY <4>1, <4>2, <4>3, <4>4
    <3> QED BY <1>0, <2>1, <3>1 DEF CopiesAreAbsorbed, Unnumbered
  <2>10. MacMoves({})
    <3>1. source \in MacState
      BY <1>0 DEF SourceTypeOK
    <3>2. \A t \in Threads : source.rev[t] >= source.rev[t]
      BY <3>1 DEF MacState
    <3> QED BY <1>0, <2>1, <3>1, <3>2 DEF MacMoves, DocumentsAgree
  <2> QED BY <1>1, <2>1, <2>3, <2>6, <2>7, <2>8, <2>9, <2>10
<1>6. CASE DeliverHead
  <2>1. PICK d \in {Head(queue)} : d = Head(queue)
    OBVIOUS
  <2>2. /\ queue # << >> /\ IngestDocument(d) /\ queue' = Tail(queue) /\ source' = source
        /\ draft' = draft /\ copies' = copies
    BY <1>6, <2>1 DEF DeliverHead
  <2> QED BY <2>1, <2>2, ReaderGoesOn
<1>7. CASE BreakConnection
  <2>1. PICK d \in {Head(queue)} : d = Head(queue)
    OBVIOUS
  <2>2. /\ queue # << >> /\ source' = source /\ draft' = draft /\ queue' = queue
        /\ \/ IngestDocument(d) /\ copies' = copies
           \/ copies' = copies \cup {Head(queue)} /\ UNCHANGED readVars
    BY <1>7, <2>1 DEF BreakConnection
  <2> QED BY <2>1, <2>2, ReaderGoesOn
<1>8. ASSUME NEW d \in copies, DeliverCopy(d) PROVE PictureInv'
  <2>1. /\ source' = source /\ draft' = draft /\ queue' = queue /\ copies' = copies \ {d}
        /\ IngestDocument(d) \/ UNCHANGED readVars
    BY <1>8 DEF DeliverCopy
  <2> QED BY <2>1, ReaderGoesOn
<1>9. CASE UNCHANGED desktopReadVars
  <2>1. /\ source' = source /\ UNCHANGED <<draft, queue, copies, readVars>>
    BY <1>9 DEF desktopReadVars
  <2>2. MacMoves({})
    <3>1. source \in MacState
      BY <1>0 DEF SourceTypeOK
    <3>2. \A t \in Threads : source.rev[t] >= source.rev[t]
      BY <3>1 DEF MacState
    <3> QED BY <1>0, <2>1, <3>1, <3>2 DEF MacMoves, DocumentsAgree
  <2> QED BY <1>2, <2>1, <2>2
<1> QED BY <1>3, <1>4, <1>5, <1>6, <1>7, <1>8, <1>9 DEF ReadNext

\* What a step does to the host's state and to a row.
HostGoesOn == host'.seq >= host.seq
RowGoesOn(t) ==
    row[t] # NoRow =>
       /\ row'[t].rev >= row[t].rev
       /\ row'[t].rev = row[t].rev =>
             row'[t].seq >= row[t].seq /\ row'[t].view.crev >= row[t].view.crev
       /\ row'[t].view.control = "ready" /\ row[t].view.control # "ready" =>
             row'[t].taken > row[t].taken

LEMMA ReadersMove ==
    ASSUME PictureInv, ReadNext
    PROVE  UNCHANGED readVars \/ \E d \in OnTheWay : IngestDocument(d)
<1>0. SourceTypeOK
  BY DEF PictureInv
<1>1. CASE \/ \E t \in Edited : \/ Advance(t) \/ Retitle(t) \/ LoseControl(t) \/ GainControl(t)
                                \/ WriteSnapshot(t)
           \/ \E t \in Threads : \E h \in BOOLEAN : WriteEvent(t, h)
           \/ ChangeHost \/ UpgradeMac \/ WriteDraft \/ WriteHost
  BY <1>1 DEF Advance, Retitle, LoseControl, GainControl, Changes, WriteSnapshot, WriteEvent,
              ChangeHost, UpgradeMac, WriteDraft, WriteHost
<1>2. CASE DeliverHead \/ BreakConnection
  <2>1. queue # << >> /\ Head(queue) \in OnTheWay
    BY <1>0, <1>2, FlightFacts DEF DeliverHead, BreakConnection
  <2>2. IngestDocument(Head(queue)) \/ UNCHANGED readVars
    BY <1>2 DEF DeliverHead, BreakConnection
  <2> QED BY <2>1, <2>2
<1>3. ASSUME NEW d \in copies, DeliverCopy(d)
      PROVE  UNCHANGED readVars \/ \E x \in OnTheWay : IngestDocument(x)
  <2>1. d \in OnTheWay
    BY DEF OnTheWay
  <2> QED BY <1>3, <2>1 DEF DeliverCopy
<1> QED BY <1>1, <1>2, <1>3 DEF ReadNext

LEMMA PictureMoves ==
    ASSUME PictureInv, ReadNext
    PROVE  HostGoesOn /\ \A t \in Threads : RowGoesOn(t)
<1>0. SourceTypeOK /\ RowTypeOK
  BY DEF PictureInv
<1>1. host.seq \in Nat /\ host.at \in Nat
  BY <1>0 DEF RowTypeOK
<1>2. ASSUME NEW t \in Threads, row[t] # NoRow
      PROVE  row[t] \in ThreadRow /\ row[t].rev \in Nat /\ row[t].seq \in Nat
             /\ row[t].taken \in Nat /\ row[t].view.crev \in Nat
  BY <1>0, <1>2 DEF RowTypeOK, ThreadRow, View
<1>3. ASSUME NEW t \in Threads, row'[t] = row[t] PROVE RowGoesOn(t)
  BY <1>2, <1>3 DEF RowGoesOn
<1>4. CASE UNCHANGED readVars
  BY <1>1, <1>3, <1>4 DEF HostGoesOn, readVars
<1>5. ASSUME NEW d \in OnTheWay, IngestDocument(d)
      PROVE  HostGoesOn /\ \A t \in Threads : RowGoesOn(t)
  <2>1. d \in AnyDocument /\ d.host \in Nat /\ d.at \in Nat
    BY <1>0, FlightFacts DEF AnyDocument
  <2>2. host' = host \/ host' = HostAfter(d)
    BY <1>5 DEF IngestDocument, PutSnapshot, PutEvent, PutHost
  <2>3. HostGoesOn
    BY <1>1, <2>1, <2>2 DEF HostAfter, HostGoesOn
  <2>4. Takes(d)
    BY <1>5, DocumentTaken
  <2>5. ASSUME NEW t \in Threads, row[t] # NoRow, Advances(row[t], row'[t], d)
        PROVE  RowGoesOn(t)
    <3>1. PICK r \in ThreadRow : r = row[t]
      BY <1>2, <2>5
    <3>2. PICK q \in ThreadRow : q = row'[t]
      BY <2>5 DEF Advances
    <3>3. Advances(r, q, d) /\ r # NoRow
      BY <2>5, <3>1, <3>2
    <3>4. /\ q.rev >= r.rev
          /\ q.rev = r.rev => q.seq >= r.seq /\ q.view.crev >= r.view.crev
          /\ q.view.control = "ready" /\ r.view.control # "ready" => q.taken > r.taken
      BY <3>3 DEF Advances
    <3> QED BY <3>1, <3>2, <3>4 DEF RowGoesOn
  <2>6. ASSUME NEW t \in Threads PROVE RowGoesOn(t)
    <3>1. row'[t] = row[t] \/ (t = d.thread /\ Advances(row[t], row'[t], d))
      BY <2>4 DEF Takes
    <3>2. CASE row[t] = NoRow
      BY <3>2 DEF RowGoesOn
    <3>3. CASE row[t] # NoRow
      BY <1>3, <2>5, <3>1, <3>3
    <3> QED BY <3>2, <3>3
  <2> QED BY <2>3, <2>6
<1> QED BY <1>4, <1>5, ReadersMove

(* The picture of a host and of its tasks never goes back, for any number of *)
(* resent, late and unnumbered documents (desktop_store.ingest_snapshot,     *)
(* _same_revision_refresh, _bind_host).                                      *)
THEOREM PictureGoesOn == ReadSpec => PictureNeverGoesBack
<1>1. PictureInv /\ [ReadNext]_desktopReadVars
        => [HostGoesOn /\ \A t \in Threads : RowGoesOn(t)]_desktopReadVars
  BY PictureMoves
<1> QED BY <1>1, PictureInitInv, PictureStepInv, PTL
        DEF ReadSpec, PictureNeverGoesBack, HostGoesOn, RowGoesOn

-----------------------------------------------------------------------------
(* The event log.  What is pruned lies below the watermarks.                 *)

LogAgrees ==
    /\ log \in Seq(AnyDocument) /\ \A k \in DOMAIN log : log[k].thread \in Threads
    /\ pruned \in [Threads -> Nat] /\ prunedHost \in 0 .. Len(log)
    /\ held \subseteq DOMAIN log
    /\ \A k \in held : k > prunedHost
    /\ \A k \in DOMAIN log \ held : k <= prunedHost /\ k <= pruned[log[k].thread]

\* A cursor in reach of its watermark misses nothing.
LEMMA NothingMissed ==
    ASSUME LogAgrees, NEW scope \in SUBSET Threads, NEW through \in Nat, NEW c \in 0 .. Len(log),
           \A k \in DOMAIN log \ held : log[k].thread \in scope => k <= through
    PROVE  \/ Resync(scope, c, through)
           \/ EventsAfter(scope, c) = {k \in (c + 1) .. Len(log) : log[k].thread \in scope}
<1>1. DOMAIN log = 1 .. Len(log) /\ Len(log) \in Nat
  BY LenProperties DEF LogAgrees
<1> SUFFICES ASSUME ~ Resync(scope, c, through)
             PROVE  EventsAfter(scope, c) = {k \in (c + 1) .. Len(log) : log[k].thread \in scope}
  OBVIOUS
<1>2. ~ (through > 0 /\ c <= through)
  BY DEF Resync
<1>3. ASSUME NEW k \in (c + 1) .. Len(log), log[k].thread \in scope PROVE k \in held
  <2>1. k \in DOMAIN log /\ k > c
    BY <1>1
  <2>2. CASE k \notin held
    <3>1. k <= through
      BY <1>3, <2>1, <2>2
    <3> QED BY <1>1, <1>2, <2>1, <3>1
  <2> QED BY <2>2
<1>4. ASSUME NEW k \in held, k > c PROVE k \in (c + 1) .. Len(log)
  BY <1>1, <1>4 DEF LogAgrees
<1> QED BY <1>1, <1>3, <1>4 DEF EventsAfter

LEMMA SmallestOf ==
    ASSUME NEW T, T \subseteq Nat, T # {}
    PROVE  \E x \in T : \A y \in T : x <= y
<1>1. IsWellFoundedOn(OpToRel(<, Nat), Nat)
    BY NatLessThanWellFounded
<1>2. PICK x \in T : \A y \in T : ~ (<<y, x>> \in OpToRel(<, Nat))
    BY <1>1, WFMin
<1>3. \A y \in T : ~ (y < x)
    BY <1>2 DEF OpToRel
<1>4. x \in Nat /\ \A y \in T : y \in Nat
    OBVIOUS
<1> QED BY <1>3, <1>4

LEMMA MaxOfSome ==
    ASSUME NEW n \in Nat, NEW S \in SUBSET (1 .. n), S # {}
    PROVE  Max(S) \in S /\ \A j \in S : j <= Max(S)
<1> DEFINE Above == {i \in Nat : \A j \in S : j <= i}
<1>1. n \in Above
    OBVIOUS
<1>2. PICK least \in Above : \A i \in Above : least <= i
    BY <1>1, SmallestOf
<1>3. least \in S
  <2> SUFFICES ASSUME least \notin S PROVE FALSE
      OBVIOUS
  <2>1. PICK j \in S : TRUE
      OBVIOUS
  <2>2. \A i \in S : i < least /\ i \in Nat /\ i >= 1
      BY <1>2
  <2>3. least - 1 \in Above
      BY <1>2, <2>1, <2>2
  <2> QED BY <1>2, <2>3
<1>4. \E k \in S : \A j \in S : k >= j
    BY <1>2, <1>3
<1>5. Max(S) \in S /\ \A j \in S : Max(S) >= j
    BY <1>4 DEF Max
<1> QED BY <1>5

\* The newest are newer than all the others.
LEMMA NewestAreNewer ==
    ASSUME NEW n \in Nat, NEW S \in SUBSET (1 .. n), NEW m \in Nat,
           NEW k \in NewestOf(m, S), NEW g \in S \ NewestOf(m, S)
    PROVE  g < k
<1>1. k \in S /\ k \in Nat /\ g \in Nat /\ k # g
  BY DEF NewestOf
<1>2. CASE k < g
  <2> DEFINE Over(i) == {w \in S : w > i}
  <2>1. Over(g) \subseteq Over(k)
    <3>1. \A w \in S : w \in Nat
      OBVIOUS
    <3>2. \A w \in S : w > g => w > k
      BY <1>1, <1>2, <3>1
    <3> QED BY <3>2
  <2>2. IsFiniteSet(Over(k))
    <3>1. IsFiniteSet(1 .. n)
      BY FS_Interval
    <3> QED BY <3>1, FS_Subset
  <2>3. /\ Cardinality(Over(g)) <= Cardinality(Over(k))
        /\ Cardinality(Over(g)) \in Nat /\ Cardinality(Over(k)) \in Nat
    <3>1. IsFiniteSet(Over(g))
      BY <2>1, <2>2, FS_Subset
    <3> HIDE DEF Over
    <3> QED BY <2>1, <2>2, <3>1, FS_Subset, FS_CardinalityType
  <2>4. Cardinality(Over(k)) < m /\ ~ (Cardinality(Over(g)) < m)
    BY <1>1 DEF NewestOf
  <2> HIDE DEF Over
  <2> QED BY <2>3, <2>4
<1> QED BY <1>1, <1>2

LEMMA EventTaken ==
    ASSUME PictureInv, LogAgrees, NEW d \in OnTheWay, IngestDocument(d)
    PROVE  LogAgrees'
<1>1. /\ SourceTypeOK /\ d \in AnyDocument
      /\ d.kind = "event" => d.thread \in Threads
  BY FlightFacts DEF PictureInv, DocumentsAgree, WrittenRightly
<1>2. CASE UNCHANGED <<log, held, pruned, prunedHost>>
  BY <1>2 DEF LogAgrees
<1>3. CASE d.kind = "event" /\ EventVerdict(d) = "stored"
  <2> DEFINE n == Len(log) + 1
             all == held \cup {n}
             left == NewestOf(EventsPerHost, all)
             gone == all \ left
             mine(t) == {c \in gone : log[c].thread = t}
  <2>1. /\ log' = Append(log, d) /\ held' = all \ gone
        /\ pruned' = [t \in Threads |-> Watermark(t, gone, d)]
        /\ prunedHost' = IF gone = {} THEN prunedHost ELSE Max(gone)
    BY <1>3 DEF IngestDocument, PutEvent
  <2>2. /\ DOMAIN log = 1 .. Len(log) /\ Len(log) \in Nat /\ n \in Nat /\ EventsPerHost \in Nat
    BY LenProperties, ReadAssumption DEF LogAgrees
  <2>3. /\ log' \in Seq(AnyDocument) /\ DOMAIN log' = 1 .. n
        /\ \A k \in DOMAIN log : log'[k] = log[k]
        /\ log'[n] = d
    BY <1>1, <2>1, <2>2, AppendProperties, LenProperties DEF LogAgrees
  <2>4. \A k \in DOMAIN log' : log'[k].thread \in Threads
    BY <1>1, <1>3, <2>2, <2>3 DEF LogAgrees
  <2>5. all \in SUBSET (1 .. n) /\ left \subseteq all
    BY <2>2 DEF LogAgrees, NewestOf
  <2>6. held' = left
    BY <2>1, <2>5
  <2>7. \A k \in left, g \in gone : g < k
    BY <2>2, <2>5, NewestAreNewer
  <2>8. gone # {} => Max(gone) \in gone /\ \A j \in gone : j <= Max(gone)
    <3>1. gone \in SUBSET (1 .. n)
      BY <2>5
    <3> HIDE DEF gone
    <3> QED BY <2>2, <3>1, MaxOfSome
  <2>9. ASSUME NEW t \in Threads, mine(t) # {}
        PROVE  Max(mine(t)) \in Nat /\ \A j \in mine(t) : j <= Max(mine(t))
    <3>1. mine(t) \in SUBSET (1 .. n)
      BY <2>5
    <3>2. Max(mine(t)) \in mine(t) /\ \A j \in mine(t) : j <= Max(mine(t))
      <4> HIDE DEF mine
      <4> QED BY <2>2, <2>9, <3>1, MaxOfSome
    <3> HIDE DEF mine
    <3> QED BY <2>2, <3>1, <3>2
  <2>10. \A t \in Threads : /\ pruned'[t] = IF mine(t) = {} THEN pruned[t] ELSE Greater(pruned[t], Max(mine(t)))
    BY <2>1 DEF Watermark
  <2>11. n \notin gone
    <3>1. {w \in all : w > n} = {}
      BY <2>2, <2>5
    <3>2. Cardinality({w \in all : w > n}) = 0
      BY <3>1, FS_EmptySet
    <3>3. n \in all /\ 0 < EventsPerHost
      BY <2>2, ReadAssumption
    <3>4. n \in left
      BY <3>2, <3>3 DEF NewestOf
    <3> QED BY <3>4
  <2>12. /\ gone \subseteq held /\ all = held \cup {n} /\ left = all \ gone
         /\ \A k \in gone : k \in mine(log[k].thread)
    BY <2>5, <2>11
  <2>13. /\ prunedHost \in Nat /\ prunedHost <= Len(log)
         /\ held \subseteq DOMAIN log /\ \A k \in held : k > prunedHost
         /\ \A k \in DOMAIN log \ held : k <= prunedHost /\ k <= pruned[log[k].thread]
         /\ \A k \in DOMAIN log : log[k].thread \in Threads
         /\ \A t \in Threads : pruned[t] \in Nat
    BY <2>2 DEF LogAgrees
  <2> HIDE DEF all, left, gone, mine
  <2>14. /\ prunedHost' \in 0 .. n /\ prunedHost' >= prunedHost
         /\ \A k \in gone : k <= prunedHost'
         /\ \A k \in left : k > prunedHost'
    <3>1. CASE gone = {}
      BY <2>1, <2>2, <2>12, <2>13, <3>1
    <3>2. CASE gone # {}
      <4>1. prunedHost' = Max(gone) /\ Max(gone) \in held
        BY <2>1, <2>8, <2>12, <3>2
      <4>2. Max(gone) \in 1 .. Len(log) /\ Max(gone) > prunedHost
        BY <2>2, <2>13, <4>1
      <4>3. \A k \in gone : k <= Max(gone)
        BY <2>8, <3>2
      <4>4. \A k \in left : k > Max(gone)
        <5>1. \A k \in left : Max(gone) < k /\ k \in Nat
          BY <2>2, <2>7, <2>8, <2>12, <2>13, <3>2
        <5> QED BY <4>2, <5>1
      <4> QED BY <2>2, <2>13, <4>1, <4>2, <4>3, <4>4
    <3> QED BY <3>1, <3>2
  <2>15. ASSUME NEW t \in Threads
         PROVE  /\ pruned'[t] \in Nat /\ pruned'[t] >= pruned[t]
                /\ \A j \in mine(t) : j <= pruned'[t]
    <3>1. CASE mine(t) = {}
      BY <2>10, <2>13, <3>1
    <3>2. CASE mine(t) # {}
      <4>1. mine(t) \subseteq Nat
        BY <2>2, <2>12, <2>13 DEF mine
      <4>2. Max(mine(t)) \in Nat /\ pruned[t] \in Nat /\ \A j \in mine(t) : j <= Max(mine(t))
        BY <2>9, <2>13, <3>2
      <4>3. pruned'[t] = Greater(pruned[t], Max(mine(t)))
        BY <2>10, <3>2
      <4> QED BY <4>1, <4>2, <4>3 DEF Greater
    <3> QED BY <3>1, <3>2
  <2>16. pruned' \in [Threads -> Nat]
    BY <2>1, <2>15
  <2>17. ASSUME NEW k \in DOMAIN log' \ held'
         PROVE  k <= prunedHost' /\ k <= pruned'[log'[k].thread]
    <3>1. k \in DOMAIN log /\ (k \in gone \/ k \notin held) /\ k \in Nat
      <4>1. k # n
        BY <2>6, <2>11, <2>12, <2>17
      <4>2. k \in DOMAIN log
        BY <2>2, <2>3, <2>17, <4>1
      <4> QED BY <2>2, <2>6, <2>12, <2>17, <4>2
    <3>2. PICK t \in Threads : t = log[k].thread
      BY <2>13, <3>1
    <3>3. log'[k].thread = t
      BY <2>3, <3>1, <3>2
    <3>4. CASE k \in gone
      <4>1. k \in mine(t)
        BY <2>12, <3>2, <3>4
      <4> QED BY <2>14, <2>15, <3>3, <3>4, <4>1
    <3>5. CASE k \notin gone
      <4>1. k <= prunedHost /\ k <= pruned[t]
        BY <2>13, <3>1, <3>2, <3>5
      <4>2. prunedHost' \in Nat /\ pruned[t] \in Nat
        BY <2>2, <2>13, <2>14
      <4> QED BY <2>13, <2>14, <2>15, <3>1, <3>3, <4>1, <4>2
    <3> QED BY <3>4, <3>5
  <2>18. held' \subseteq DOMAIN log' /\ \A k \in held' : k > prunedHost'
    BY <2>3, <2>5, <2>6, <2>14
  <2>19. prunedHost' \in 0 .. Len(log')
    BY <2>2, <2>3, <2>14, LenProperties
  <2> QED BY <2>3, <2>4, <2>16, <2>17, <2>18, <2>19 DEF LogAgrees
<1> QED BY <1>2, <1>3 DEF IngestDocument, PutSnapshot, PutEvent, PutHost

-----------------------------------------------------------------------------
(* The outbox.  Before an event comes a snapshot of its task at least as new, *)
(* unless the Controller has one already.                                    *)

Told(t, rev, n) ==
    \/ row[t].rev >= rev
    \/ \E j \in DOMAIN queue : /\ j <= n /\ queue[j].kind = "snapshot"
                               /\ queue[j].thread = t /\ queue[j].rev >= rev
OutboxTells ==
    /\ \A t \in Threads : Told(t, source.shown[t], Len(queue))
    /\ \A i \in DOMAIN queue : queue[i].kind = "event" => Told(queue[i].thread, queue[i].rev, i - 1)

EventsInv == PictureInv /\ LogAgrees /\ OutboxTells

LEMMA RowsGrow ==
    ASSUME PictureInv, [ReadNext]_desktopReadVars, NEW t \in Threads
    PROVE  row'[t].rev \in Nat /\ row[t].rev \in Nat /\ row'[t].rev >= row[t].rev
<1>1. PictureInv'
  BY PictureStepInv
<1>2. row'[t].rev \in Nat /\ row[t].rev \in Nat
  BY <1>1 DEF PictureInv, RowTypeOK, NoRow, ThreadRow
<1>3. CASE row[t] = NoRow
  BY <1>2, <1>3 DEF NoRow
<1>4. CASE row[t] # NoRow /\ ReadNext
  BY <1>2, <1>4, PictureMoves DEF RowGoesOn
<1>5. CASE UNCHANGED desktopReadVars
  BY <1>2, <1>5 DEF desktopReadVars, readVars
<1> QED BY <1>2, <1>3, <1>4, <1>5

\* Told stays so while rows grow and what is ahead in the outbox stays ahead.
LEMMA StillTold ==
    ASSUME NEW t \in Threads, NEW rev \in Nat, NEW n \in Nat, NEW m \in Nat, Told(t, rev, n),
           row'[t].rev \in Nat, row[t].rev \in Nat, row'[t].rev >= row[t].rev,
           \A j \in DOMAIN queue : j <= n =>
              \/ \E i \in DOMAIN queue' : i <= m /\ queue'[i] = queue[j]
              \/ queue[j].kind = "snapshot" /\ queue[j].thread = t /\ queue[j].rev \in Nat =>
                    row'[t].rev >= queue[j].rev,
           \A j \in DOMAIN queue : queue[j].rev \in Nat
    PROVE  Told(t, rev, m)'
<1>1. CASE row[t].rev >= rev
  BY <1>1 DEF Told
<1>2. ASSUME NEW j \in DOMAIN queue, j <= n, queue[j].kind = "snapshot", queue[j].thread = t,
             queue[j].rev >= rev
      PROVE  Told(t, rev, m)'
  <2>1. CASE \E i \in DOMAIN queue' : i <= m /\ queue'[i] = queue[j]
    BY <1>2, <2>1 DEF Told
  <2>2. CASE row'[t].rev >= queue[j].rev
    BY <1>2, <2>2 DEF Told
  <2> QED BY <1>2, <2>1, <2>2
<1> QED BY <1>1, <1>2 DEF Told

LEMMA TellsMore ==
    ASSUME EventsInv, [ReadNext]_desktopReadVars,
           DOMAIN queue \subseteq DOMAIN queue', \A i \in DOMAIN queue : queue'[i] = queue[i],
           \A i \in DOMAIN queue' \ DOMAIN queue : queue'[i].kind = "event" =>
              queue'[i].thread \in Threads /\ source.shown[queue'[i].thread] = queue'[i].rev,
           \A t \in Threads : \/ source'.shown[t] = source.shown[t]
                              \/ \E i \in DOMAIN queue' : /\ queue'[i].kind = "snapshot"
                                                          /\ queue'[i].thread = t
                                                          /\ queue'[i].rev >= source'.shown[t]
    PROVE  OutboxTells'
<1>0. SourceTypeOK /\ DocumentsAgree /\ OutboxTells /\ SourceTypeOK'
  BY PictureStepInv DEF EventsInv, PictureInv
<1>1. /\ DOMAIN queue = 1 .. Len(queue) /\ Len(queue) \in Nat /\ OnTheWay \subseteq AnyDocument
      /\ DOMAIN queue' = 1 .. Len(queue)' /\ Len(queue)' \in Nat
  BY <1>0, FlightFacts, LenProperties DEF SourceTypeOK
<1>2. ASSUME NEW i \in DOMAIN queue
      PROVE  queue[i] \in AnyDocument /\ queue[i].rev \in Nat /\ queue[i] \in OnTheWay
  BY <1>1 DEF OnTheWay, AnyDocument
<1>3. Len(queue)' >= Len(queue)
  <2>1. CASE Len(queue) = 0
    BY <1>1, <2>1
  <2>2. CASE Len(queue) # 0
    BY <1>1, <2>2
  <2> QED BY <2>1, <2>2
<1>4. ASSUME NEW t \in Threads, NEW rev \in Nat, NEW n \in Nat, NEW m \in Nat, n <= m, Told(t, rev, n)
      PROVE  Told(t, rev, m)'
  <2>1. row'[t].rev \in Nat /\ row[t].rev \in Nat /\ row'[t].rev >= row[t].rev
    BY RowsGrow DEF EventsInv
  <2>2. \A j \in DOMAIN queue : j <= n => \E i \in DOMAIN queue' : i <= m /\ queue'[i] = queue[j]
    BY <1>1, <1>4
  <2> QED BY <1>2, <1>4, <2>1, <2>2, StillTold
<1>5. \A t \in Threads : source.shown[t] \in Nat /\ source'.shown[t] \in Nat
  BY <1>0 DEF SourceTypeOK, MacState
<1>6. ASSUME NEW t \in Threads PROVE Told(t, source.shown[t], Len(queue))'
  <2>1. CASE source'.shown[t] = source.shown[t]
    <3>1. PICK rev \in Nat, n \in Nat, m \in Nat : rev = source.shown[t] /\ n = Len(queue) /\ m = Len(queue)'
      BY <1>1, <1>5
    <3>2. n <= m /\ Told(t, rev, n)
      BY <1>0, <1>1, <1>3, <3>1 DEF OutboxTells
    <3>3. Told(t, rev, m)'
      BY <1>4, <3>2
    <3> QED BY <2>1, <3>1, <3>3 DEF Told
  <2>2. CASE \E i \in DOMAIN queue' : /\ queue'[i].kind = "snapshot" /\ queue'[i].thread = t
                                      /\ queue'[i].rev >= source'.shown[t]
    BY <1>1, <2>2 DEF Told
  <2> QED BY <2>1, <2>2
<1>7. ASSUME NEW i \in DOMAIN queue', queue'[i].kind = "event",
             NEW t \in Threads, NEW rev \in Nat, t = queue'[i].thread, rev = queue'[i].rev
      PROVE  Told(t, rev, i - 1)'
  <2>1. CASE i \in DOMAIN queue
    <3>1. queue[i].kind = "event" /\ queue'[i] = queue[i] /\ i - 1 \in Nat
      BY <1>1, <1>7, <2>1
    <3>2. PICK n \in Nat : n = i - 1
      BY <3>1
    <3>3. Told(t, rev, n)
      BY <1>0, <1>7, <2>1, <3>1, <3>2 DEF OutboxTells
    <3>4. Told(t, rev, n)'
      BY <1>4, <3>3
    <3> QED BY <3>2, <3>4
  <2>2. CASE i \notin DOMAIN queue
    <3>5. source.shown[queue'[i].thread] = queue'[i].rev
      BY <1>7, <2>2
    <3>6. i - 1 \in Nat /\ Len(queue) \in Nat
      BY <1>1
    <3>1. PICK n \in Nat, m \in Nat : n = Len(queue) /\ m = i - 1 /\ rev = source.shown[t]
      BY <1>7, <3>5, <3>6
    <3>2. n <= m
      BY <1>1, <2>2, <3>1
    <3>3. Told(t, rev, n)
      BY <1>0, <3>1 DEF OutboxTells
    <3>4. Told(t, rev, m)'
      BY <1>4, <3>2, <3>3
    <3> QED BY <3>1, <3>4
  <2> QED BY <2>1, <2>2
<1>8. ASSUME NEW i \in DOMAIN queue', queue'[i].kind = "event"
      PROVE  queue'[i].thread \in Threads /\ queue'[i].rev \in Nat
  <2>1. SourceTypeOK' /\ DocumentsAgree'
    BY PictureStepInv DEF EventsInv, PictureInv
  <2>2. queue' \in Seq(AnyDocument)
    BY <2>1 DEF SourceTypeOK
  <2>3. PICK d \in AnyDocument : d = queue'[i]
    BY <2>2, ElementOfSeq, LenProperties
  <2>4. d \in OnTheWay'
    BY <2>3 DEF OnTheWay
  <2>5. WrittenRightly(d)'
    BY <2>1, <2>4 DEF DocumentsAgree
  <2> QED BY <1>8, <2>3, <2>5 DEF WrittenRightly, AnyDocument
<1> QED BY <1>6, <1>7, <1>8 DEF OutboxTells, Told

LEMMA TellsHead ==
    ASSUME EventsInv, [ReadNext]_desktopReadVars, DeliverHead
    PROVE  OutboxTells'
<1>0. SourceTypeOK /\ DocumentsAgree /\ OutboxTells
  BY DEF EventsInv, PictureInv
<1>1. /\ DOMAIN queue = 1 .. Len(queue) /\ Len(queue) \in Nat /\ OnTheWay \subseteq AnyDocument
      /\ queue # << >> /\ queue' = Tail(queue) /\ source' = source
      /\ Head(queue) = queue[1] /\ 1 \in DOMAIN queue /\ queue[1] \in OnTheWay
  BY <1>0, FlightFacts DEF DeliverHead
<1>2. /\ DOMAIN queue' = 1 .. (Len(queue) - 1) /\ Len(queue') = Len(queue) - 1
      /\ \A i \in DOMAIN queue' : queue'[i] = queue[i + 1]
  BY <1>0, <1>1, HeadTailProperties, LenProperties DEF SourceTypeOK
<1>3. ASSUME NEW i \in DOMAIN queue
      PROVE  queue[i] \in AnyDocument /\ queue[i].rev \in Nat /\ queue[i] \in OnTheWay
  BY <1>1 DEF OnTheWay, AnyDocument
<1>4. queue[1].kind = "snapshot" => row'[queue[1].thread].rev >= queue[1].rev
  <2>1. IngestDocument(queue[1])
    BY <1>1 DEF DeliverHead
  <2>2. Takes(queue[1])
    BY <1>1, <2>1, DocumentTaken DEF EventsInv
  <2> QED BY <2>2 DEF Takes
<1>5. ASSUME NEW t \in Threads, NEW rev \in Nat, NEW n \in Nat, NEW m \in Nat, n <= m + 1, Told(t, rev, n)
      PROVE  Told(t, rev, m)'
  <2>1. row'[t].rev \in Nat /\ row[t].rev \in Nat /\ row'[t].rev >= row[t].rev
    BY RowsGrow DEF EventsInv
  <2>2. ASSUME NEW j \in DOMAIN queue, j <= n
        PROVE  \/ \E i \in DOMAIN queue' : i <= m /\ queue'[i] = queue[j]
               \/ queue[j].kind = "snapshot" /\ queue[j].thread = t => row'[t].rev >= queue[j].rev
    <3>1. CASE j = 1
      BY <1>4, <3>1
    <3>2. CASE j # 1
      <4>1. j - 1 \in DOMAIN queue' /\ j - 1 <= m /\ (j - 1) + 1 = j
        BY <1>1, <1>2, <1>5, <2>2, <3>2
      <4>2. queue'[j - 1] = queue[(j - 1) + 1]
        BY <1>2, <4>1
      <4> QED BY <4>1, <4>2
    <3> QED BY <3>1, <3>2
  <2> QED BY <1>3, <1>5, <2>1, <2>2, StillTold
<1>6. ASSUME NEW t \in Threads PROVE Told(t, source.shown[t], Len(queue))'
  <2>1. PICK rev \in Nat, n \in Nat, m \in Nat : rev = source.shown[t] /\ n = Len(queue) /\ m = Len(queue) - 1
    <3>1. source.shown[t] \in Nat
      BY <1>0 DEF SourceTypeOK, MacState
    <3>2. Len(queue) \in Nat /\ Len(queue) - 1 \in Nat
      BY <1>1
    <3> QED BY <3>1, <3>2
  <2>2. n <= m + 1 /\ Told(t, rev, n)
    BY <1>0, <2>1 DEF OutboxTells
  <2>3. Told(t, rev, m)'
    BY <1>5, <2>2
  <2> QED BY <1>1, <1>2, <2>1, <2>3 DEF Told
<1>7. ASSUME NEW i \in DOMAIN queue', queue'[i].kind = "event",
             NEW t \in Threads, NEW rev \in Nat, t = queue'[i].thread, rev = queue'[i].rev
      PROVE  Told(t, rev, i - 1)'
  <2>1. i + 1 \in DOMAIN queue /\ queue'[i] = queue[i + 1] /\ i - 1 \in Nat /\ i \in Nat
    BY <1>1, <1>2
  <2>2. queue[i + 1].kind = "event"
    BY <1>7, <2>1
  <2>3. PICK n \in Nat, m \in Nat : n = i /\ m = i - 1
    BY <2>1
  <2>4. n <= m + 1 /\ Told(t, rev, n)
    <3>1. Told(queue[i + 1].thread, queue[i + 1].rev, (i + 1) - 1)
      BY <1>0, <2>1, <2>2 DEF OutboxTells
    <3>2. (i + 1) - 1 = i
      BY <2>1
    <3> QED BY <1>7, <2>1, <2>3, <3>1, <3>2
  <2>5. Told(t, rev, m)'
    BY <1>5, <2>4
  <2> QED BY <2>3, <2>5
<1>8. ASSUME NEW i \in DOMAIN queue', queue'[i].kind = "event"
      PROVE  queue'[i].thread \in Threads /\ queue'[i].rev \in Nat
  <2>1. SourceTypeOK' /\ DocumentsAgree'
    BY PictureStepInv DEF EventsInv, PictureInv
  <2>2. queue' \in Seq(AnyDocument)
    BY <2>1 DEF SourceTypeOK
  <2>3. PICK d \in AnyDocument : d = queue'[i]
    BY <2>2, ElementOfSeq, LenProperties
  <2>4. d \in OnTheWay'
    BY <2>3 DEF OnTheWay
  <2>5. WrittenRightly(d)'
    BY <2>1, <2>4 DEF DocumentsAgree
  <2> QED BY <1>8, <2>3, <2>5 DEF WrittenRightly, AnyDocument
<1> QED BY <1>6, <1>7, <1>8 DEF OutboxTells, Told

LEMMA EventsInitInv == ReadInit => EventsInv
<1> SUFFICES ASSUME ReadInit PROVE EventsInv
  OBVIOUS
<1>1. PictureInv
  BY PictureInitInv
<1>2. LogAgrees
  <2>1. log = << >> /\ held = {} /\ pruned = [t \in Threads |-> 0] /\ prunedHost = 0
    BY DEF ReadInit
  <2>2. log \in Seq(AnyDocument) /\ DOMAIN log = {} /\ Len(log) = 0
    BY <2>1, EmptySeq
  <2> QED BY <2>1, <2>2 DEF LogAgrees
<1>3. OutboxTells
  <2>1. DOMAIN queue = {}
    BY EmptySeq DEF ReadInit
  <2>2. ASSUME NEW t \in Threads PROVE row[t].rev >= source.shown[t]
    <3>1. /\ row[t] = IF t \in Edited THEN NoRow ELSE RowAfter(NoRow, FirstSnapshot(t), "stored")
          /\ source.shown[t] = IF t \in Edited THEN 0 ELSE 1
      BY DEF ReadInit
    <3>2. RowAfter(NoRow, FirstSnapshot(t), "stored").rev = 1 /\ NoRow.rev = 0
      BY DEF RowAfter, FirstSnapshot, NoRow
    <3> QED BY <3>1, <3>2
  <2> QED BY <2>1, <2>2 DEF OutboxTells, Told
<1> QED BY <1>1, <1>2, <1>3 DEF EventsInv

LEMMA EventsStepInv == EventsInv /\ [ReadNext]_desktopReadVars => EventsInv'
<1> SUFFICES ASSUME EventsInv, [ReadNext]_desktopReadVars PROVE EventsInv'
  OBVIOUS
<1>0. PictureInv /\ LogAgrees /\ SourceTypeOK /\ OutboxInOrder
  BY DEF EventsInv, PictureInv
<1>1. PictureInv'
  BY <1>0, PictureStepInv
<1>2. LogAgrees'
  <2>1. CASE UNCHANGED readVars
    BY <1>0, <2>1 DEF LogAgrees, readVars
  <2>2. CASE \E d \in OnTheWay : IngestDocument(d)
    BY <1>0, <2>2, EventTaken
  <2>3. CASE UNCHANGED desktopReadVars
    BY <2>1, <2>3 DEF desktopReadVars
  <2> QED BY <1>0, <2>1, <2>2, <2>3, ReadersMove
<1>3. /\ queue \in Seq(AnyDocument) /\ draft \in Seq(AnyDocument)
      /\ DOMAIN queue = 1 .. Len(queue) /\ Len(queue) \in Nat
      /\ DOMAIN draft = 1 .. Len(draft) /\ Len(draft) \in Nat
      /\ source \in MacState
      /\ \A t \in Threads : source.shown[t] \in Nat /\ source.rev[t] \in Nat
  BY <1>0, FlightFacts DEF SourceTypeOK, MacState
<1>4. ASSUME queue' = queue, source'.shown = source.shown PROVE OutboxTells'
  BY <1>4, TellsMore
<1>5. ASSUME NEW d \in AnyDocument, queue' = Append(queue, d)
      PROVE  /\ DOMAIN queue' = 1 .. (Len(queue) + 1) /\ DOMAIN queue \subseteq DOMAIN queue'
             /\ \A i \in DOMAIN queue : queue'[i] = queue[i]
             /\ \A i \in DOMAIN queue' \ DOMAIN queue : queue'[i] = d
             /\ Len(queue) + 1 \in DOMAIN queue' /\ queue'[Len(queue) + 1] = d
  <2>1. /\ DOMAIN queue' = 1 .. (Len(queue) + 1)
        /\ \A i \in 1 .. Len(queue) : queue'[i] = queue[i]
        /\ queue'[Len(queue) + 1] = d
    BY <1>3, <1>5, AppendProperties, LenProperties
  <2> QED BY <1>3, <2>1
<1>6. ASSUME \/ \E t \in Edited : Advance(t) \/ Retitle(t) \/ LoseControl(t) \/ GainControl(t)
             \/ ChangeHost \/ UpgradeMac
      PROVE  OutboxTells'
  <2>1. source'.shown = source.shown /\ queue' = queue
    BY <1>3, <1>6 DEF Advance, Retitle, LoseControl, GainControl, Changes, ChangeHost, UpgradeMac, MacState
  <2> QED BY <1>4, <2>1
<1>7. ASSUME NEW t \in Edited, WriteSnapshot(t) PROVE OutboxTells'
  <2>1. t \in Threads
    BY ReadAssumption
  <2>2. source'.shown = [source.shown EXCEPT ![t] = source.rev[t]]
    BY <1>3, <1>7 DEF WriteSnapshot, Written, MacState
  <2>3. \A u \in Threads : source'.shown[u] = IF u = t THEN source.rev[t] ELSE source.shown[u]
    BY <1>3, <2>2 DEF MacState
  <2>4. CASE queue' = queue /\ source.shown[t] = source.rev[t]
    <3>1. \A u \in Threads : source'.shown[u] = source.shown[u]
      BY <2>3, <2>4
    <3> QED BY <2>4, <3>1, TellsMore
  <2>5. CASE queue' = Append(queue, SnapshotOf(t))
    <3>1. PICK d \in AnyDocument : /\ queue' = Append(queue, d) /\ d.kind = "snapshot" /\ d.thread = t
                                   /\ d.rev = source.rev[t]
      <4> DEFINE seq == IF source.sequenced THEN source.clock + 1 ELSE NoNumber
      <4>1. seq \in Nat /\ source.view[t] \in View
        BY <1>3, <2>1 DEF MacState, NoNumber
      <4> HIDE DEF seq
      <4>2. PICK h \in BOOLEAN : h = FALSE
        OBVIOUS
      <4>3. LET d == DocumentOf("snapshot", t, seq, source.view[t], h) IN
               d \in AnyDocument /\ d.kind = "snapshot" /\ d.thread = t /\ d.rev = source.rev[t]
        BY <1>0, <2>1, <4>1, DocumentsAreWhole
      <4> QED BY <2>5, <4>2, <4>3 DEF SnapshotOf, seq
    <3>2. \A i \in DOMAIN queue' \ DOMAIN queue : queue'[i].kind # "event"
      BY <1>5, <3>1
    <3>3. \A u \in Threads : \/ source'.shown[u] = source.shown[u]
                             \/ \E i \in DOMAIN queue' : /\ queue'[i].kind = "snapshot"
                                                         /\ queue'[i].thread = u
                                                         /\ queue'[i].rev >= source'.shown[u]
      <4>1. Len(queue) + 1 \in DOMAIN queue' /\ queue'[Len(queue) + 1] = d
        BY <1>5, <3>1
      <4>2. source'.shown[t] = d.rev /\ d.rev >= source'.shown[t]
        BY <1>3, <2>1, <2>3, <3>1
      <4> QED BY <2>3, <3>1, <4>1, <4>2
    <3> QED BY <1>5, <3>1, <3>2, <3>3, TellsMore
  <2> QED BY <1>7, <2>4, <2>5 DEF WriteSnapshot
<1>8. ASSUME NEW t \in Threads, NEW h \in BOOLEAN, WriteEvent(t, h) PROVE OutboxTells'
  <2>1. source.events + 1 \in Nat /\ NoView \in View
    BY <1>3 DEF NoView, View, NoNumber, MacState
  <2>2. PICK d \in AnyDocument : /\ queue' = Append(queue, d) /\ d.thread = t
                                 /\ d.rev = source.rev[t]
    <3>1. LET d == DocumentOf("event", t, source.events + 1, NoView, h) IN
             d \in AnyDocument /\ d.thread = t /\ d.rev = source.rev[t]
      BY <1>0, <2>1, DocumentsAreWhole
    <3> QED BY <1>8, <3>1 DEF WriteEvent
  <2>3. source'.shown = source.shown /\ source.shown[t] = source.rev[t]
    BY <1>3, <1>8 DEF WriteEvent, Written, MacState
  <2>4. \A i \in DOMAIN queue' \ DOMAIN queue :
           queue'[i].thread \in Threads /\ source.shown[queue'[i].thread] = queue'[i].rev
    BY <1>5, <2>2, <2>3
  <2> QED BY <1>5, <2>2, <2>3, <2>4, TellsMore
<1>9. ASSUME WriteHost PROVE OutboxTells'
  <2>1. PICK d \in AnyDocument : queue' = Append(queue, d) /\ d.kind = "host"
    <3>1. PICK h \in BOOLEAN, kind \in {"snapshot", "event", "host"}, t \in Threads \cup {"none"} :
             h = FALSE /\ kind = "host" /\ t = "none"
      OBVIOUS
    <3>2. PICK n \in Nat, view \in View : n = source.host /\ view = NoView
      BY <1>3 DEF MacState, NoView, View, NoNumber
    <3>3. kind # "host" => t \in Threads
      BY <3>1
    <3>4. LET d == DocumentOf(kind, t, n, view, h) IN d \in AnyDocument /\ d.kind = kind
      BY <1>0, <3>3, DocumentsAreWhole
    <3> QED BY <1>9, <3>1, <3>2, <3>4 DEF WriteHost
  <2>2. source'.shown = source.shown
    BY <1>3, <1>9 DEF WriteHost, Written, MacState
  <2>3. \A i \in DOMAIN queue' \ DOMAIN queue : queue'[i].kind # "event"
    BY <1>5, <2>1
  <2> QED BY <1>5, <2>1, <2>2, <2>3, TellsMore
<1>10. ASSUME WriteDraft PROVE OutboxTells'
  <2>1. draft # << >> /\ queue' = queue \o draft /\ source' = source
    BY <1>10 DEF WriteDraft
  <2>2. /\ DOMAIN queue' = 1 .. (Len(queue) + Len(draft))
        /\ \A i \in 1 .. (Len(queue) + Len(draft)) :
              queue'[i] = IF i <= Len(queue) THEN queue[i] ELSE draft[i - Len(queue)]
    BY <1>3, <2>1, ConcatProperties, LenProperties
  <2>3. DOMAIN queue \subseteq DOMAIN queue' /\ \A i \in DOMAIN queue : queue'[i] = queue[i]
    BY <1>3, <2>2
  <2>4. ASSUME NEW i \in DOMAIN queue' \ DOMAIN queue PROVE queue'[i].kind # "event"
    <3>1. i - Len(queue) \in DOMAIN draft /\ queue'[i] = draft[i - Len(queue)]
      BY <1>3, <2>2, <2>4
    <3> QED BY <1>0, <3>1 DEF OutboxInOrder
  <2> QED BY <2>1, <2>3, <2>4, TellsMore
<1>11. ASSUME DeliverHead PROVE OutboxTells'
  BY <1>11, TellsHead
<1>12. ASSUME BreakConnection \/ (\E d \in copies : DeliverCopy(d)) \/ UNCHANGED desktopReadVars
       PROVE  OutboxTells'
  BY <1>4, <1>12 DEF BreakConnection, DeliverCopy, desktopReadVars
<1>13. OutboxTells'
  BY <1>6, <1>7, <1>8, <1>9, <1>10, <1>11, <1>12 DEF ReadNext
<1> QED BY <1>1, <1>2, <1>13 DEF EventsInv

(* No event is missed in silence: of the head of the outbox the Controller   *)
(* always disposes, and a reader's cursor is either answered in full or told *)
(* to start again, for any number of events, however few are left            *)
(* (ingest_event, _prune_events, _stream).                                   *)
THEOREM CursorsMissNothing == ReadSpec => []EventsAreNotMissed
<1>1. EventsInv => EventsAreNotMissed
  <2> SUFFICES ASSUME EventsInv PROVE EventsAreNotMissed
    OBVIOUS
  <2>0. SourceTypeOK /\ RowTypeOK /\ DocumentsAgree /\ StoredAgrees /\ LogAgrees /\ OutboxTells
    BY DEF EventsInv, PictureInv
  <2>1. ASSUME queue # << >> PROVE ~ Blocks(Head(queue))
    <3>1. PICK d \in AnyDocument : d = Head(queue) /\ d = queue[1] /\ 1 \in DOMAIN queue /\ d \in OnTheWay
      BY <2>0, <2>1, FlightFacts
    <3>2. CASE d.kind # "event"
      BY <3>1, <3>2 DEF Blocks
    <3>3. CASE d.kind = "event"
      <4>1. d.thread \in Threads /\ d.rev # 0 /\ d.rev \in Nat
        BY <2>0, <3>1, <3>3 DEF DocumentsAgree, WrittenRightly, AnyDocument
      <4>2. Told(d.thread, d.rev, 1 - 1)
        BY <2>0, <3>1, <3>3 DEF OutboxTells
      <4>3. row[d.thread].rev >= d.rev
        <5>1. \A j \in DOMAIN queue : ~ (j <= 1 - 1)
          BY <2>0, FlightFacts
        <5> QED BY <4>2, <5>1 DEF Told
      <4>4. row[d.thread].rev \in Nat /\ row[d.thread] \in {NoRow} \cup ThreadRow
        BY <2>0, <4>1 DEF RowTypeOK, NoRow, ThreadRow
      <4>5. row[d.thread] # NoRow /\ row[d.thread].rev # 0
        BY <4>1, <4>3, <4>4 DEF NoRow
      <4>6. row[d.thread].rev \in DOMAIN stored[d.thread]
        BY <2>0, <4>1, <4>5 DEF StoredAgrees, StoredFits
      <4>7. EventVerdict(d) # "snapshot_required"
        BY <4>1, <4>3, <4>4, <4>5, <4>6 DEF EventVerdict
      <4> QED BY <3>1, <4>7 DEF Blocks
    <3> QED BY <3>2, <3>3
  <2>2. ASSUME NEW c \in 0 .. Len(log)
        PROVE  Resync(Threads, c, prunedHost) \/ EventsAfter(Threads, c) = (c + 1) .. Len(log)
    <3>1. DOMAIN log = 1 .. Len(log) /\ Len(log) \in Nat /\ prunedHost \in Nat
      BY <2>0, LenProperties DEF LogAgrees
    <3>2. {k \in (c + 1) .. Len(log) : log[k].thread \in Threads} = (c + 1) .. Len(log)
      <4>1. \A k \in (c + 1) .. Len(log) : k \in DOMAIN log
        BY <3>1
      <4> QED BY <2>0, <4>1 DEF LogAgrees
    <3>3. \A k \in DOMAIN log \ held : k <= prunedHost
      BY <2>0 DEF LogAgrees
    <3>4. PICK scope \in SUBSET Threads : scope = Threads
      OBVIOUS
    <3>5. \/ Resync(scope, c, prunedHost)
          \/ EventsAfter(scope, c) = {k \in (c + 1) .. Len(log) : log[k].thread \in scope}
      BY <2>0, <3>1, <3>3, NothingMissed
    <3> QED BY <3>2, <3>4, <3>5
  <2>3. ASSUME NEW c \in 0 .. Len(log), NEW t \in Threads
        PROVE  \/ Resync({t}, c, pruned[t])
               \/ EventsAfter({t}, c) = {k \in (c + 1) .. Len(log) : log[k].thread = t}
    <3>1. pruned[t] \in Nat
      BY <2>0 DEF LogAgrees
    <3>2. \A k \in DOMAIN log \ held : log[k].thread \in {t} => k <= pruned[t]
      BY <2>0 DEF LogAgrees
    <3>3. PICK scope \in SUBSET Threads : scope = {t}
      OBVIOUS
    <3>4. \/ Resync(scope, c, pruned[t])
          \/ EventsAfter(scope, c) = {k \in (c + 1) .. Len(log) : log[k].thread \in scope}
      BY <2>0, <3>1, <3>2, <3>3, NothingMissed
    <3>5. {k \in (c + 1) .. Len(log) : log[k].thread \in scope}
             = {k \in (c + 1) .. Len(log) : log[k].thread = t}
      BY <3>3
    <3> QED BY <3>3, <3>4, <3>5
  <2> QED BY <2>1, <2>2, <2>3 DEF EventsAreNotMissed
<1> QED BY <1>1, EventsInitInv, EventsStepInv, PTL DEF ReadSpec

-----------------------------------------------------------------------------
(* Remote control: types.                                                    *)

Letter == [kind : {"receipt", "result", "snapshot"}, request : Requests \cup {"none"},
           state : Final \cup {"accepted", "ready"}, at : Nat \X Nat]
CommandTypeOK ==
    /\ command \in [Requests -> Unsettled \cup Final \cup {"absent"}]
    /\ call \in [Requests -> {"none", "prepared", "ok", "runner_offline", "indeterminate"}]
    /\ receipts \subseteq {d \in Letter : d.kind = "receipt"}
    /\ picture \in [at : Nat \X Nat, control : {"ready", "refresh_required", "recovery_required"}]
    /\ base \in [Requests -> Nat] /\ wire \subseteq Requests
    /\ mac \in [revision : Nat, taken : Nat, work : [Requests -> {"none", "working"} \cup Final],
                at : [Requests -> Nat]]
    /\ outbox \in Seq(Letter) /\ echo \subseteq Letter

-----------------------------------------------------------------------------
(* What the Mac says.  A request is taken once, acknowledged at most once,   *)
(* before its outcome, and has one outcome; revisions leave in order.        *)

Sent == {outbox[i] : i \in DOMAIN outbox} \cup echo
Accepted(d) == d.kind = "receipt" /\ d.state = "accepted"
Outcome(r) == Document("receipt", r, mac.work[r], <<mac.at[r], 0>>)
SaysRight(d) ==
    /\ d.kind = "receipt" =>
         /\ d.request \in Commands /\ mac.work[d.request] # "none"
         /\ d.state # "accepted" => mac.work[d.request] \in Final /\ d = Outcome(d.request)
    /\ d.kind = "result" => /\ d.request \in Reads /\ mac.work[d.request] = d.state
                            /\ d.state \in {"confirmed", "failed"}
    /\ d.kind # "result" => d.at[1] <= mac.revision
LettersAgree ==
    /\ \A d \in Sent \cup receipts : SaysRight(d)
    /\ \A d, e \in Sent \cup receipts :
          Accepted(d) /\ Accepted(e) /\ d.request = e.request => d = e
    /\ \A i, j \in DOMAIN outbox : i < j =>
          /\ outbox[i].kind # "result" /\ outbox[j].kind # "result" =>
                outbox[i].at[1] <= outbox[j].at[1]
          /\ outbox[i].kind = "receipt" /\ outbox[i].state # "accepted" =>
                ~ (Accepted(outbox[j]) /\ outbox[j].request = outbox[i].request)
    /\ \A r \in Commands : mac.work[r] \in Final =>
          Outcome(r) \in receipts \/ \E i \in DOMAIN outbox : outbox[i] = Outcome(r)

-----------------------------------------------------------------------------
(* What the Controller has stored of it.                                     *)

Settled(r) == \E d \in receipts : d.request = r /\ d.state # "accepted"
StoredAfterAccepted ==
    \A f \in receipts : f.state # "accepted" =>
       \A i \in DOMAIN outbox : /\ ~ (Accepted(outbox[i]) /\ outbox[i].request = f.request)
                                /\ outbox[i].kind = "snapshot" => outbox[i].at[1] >= f.at[1]
EchoesAreOld ==
    \A d \in echo : \/ outbox # << >> /\ d = Head(outbox)
                    \/ /\ d.kind = "receipt" => d \in receipts
                       /\ d.kind = "snapshot" => ~ Later(d.at, picture.at)

\* A request that never reached the Mac.
Untouched(r) == mac.work[r] = "none" /\ r \notin wire
CallsAgree ==
    \A r \in Requests :
       /\ command[r] = "absent" => Untouched(r) /\ call[r] = "none"
       /\ call[r] \in {"prepared", "runner_offline"} => Untouched(r) /\ command[r] = "pending"
       /\ r \in wire => mac.work[r] = "none" /\ command[r] \in {"pending", "submitted", "unknown"}
JournalsAgree ==
    /\ \A r \in Commands :
          \/ Settled(r) /\ command[r] = mac.work[r] /\ command[r] \in Final
          \/ ~ Settled(r) /\ (command[r] = "failed" => Untouched(r))
                          /\ command[r] \in {"absent", "failed"} \cup Unsettled
    /\ \A r \in Reads :
          \/ command[r] \in {"absent", "pending", "submitted", "unknown"}
          \/ command[r] \in {"confirmed", "failed"} /\ mac.work[r] = command[r]
          \/ command[r] = "failed" /\ Untouched(r)
OneActive == \A r, q \in Active : r = q
PictureIsFresh ==
    picture.control = "ready" =>
       \A f \in receipts : f.request \in Controls /\ f.state = "confirmed" => picture.at[1] >= f.at[1]

CommandInv == /\ CommandTypeOK /\ LettersAgree /\ StoredAfterAccepted /\ EchoesAreOld
              /\ CallsAgree /\ JournalsAgree /\ OneActive /\ PictureIsFresh

LEMMA CommandInitInv == DesktopInit => CommandInv
<1> SUFFICES ASSUME DesktopInit PROVE CommandInv
  OBVIOUS
<1>1. outbox = << >> /\ outbox \in Seq(Letter) /\ DOMAIN outbox = {} /\ receipts = {} /\ echo = {}
  BY EmptySeq DEF DesktopInit
<1>2. CommandTypeOK
  BY <1>1 DEF DesktopInit, CommandTypeOK
<1>3. LettersAgree /\ StoredAfterAccepted /\ EchoesAreOld
  BY <1>1 DEF DesktopInit, LettersAgree, StoredAfterAccepted, EchoesAreOld, Sent, Final, Requests
<1>4. CallsAgree /\ JournalsAgree /\ OneActive /\ PictureIsFresh
  BY <1>1 DEF DesktopInit, CallsAgree, JournalsAgree, OneActive, PictureIsFresh, Untouched, Settled,
              Active, Unsettled, Requests, Commands
<1> QED BY <1>2, <1>3, <1>4 DEF CommandInv

LEMMA BoxFacts ==
    ASSUME CommandTypeOK
    PROVE  /\ Sent \subseteq Letter /\ receipts \subseteq Letter
           /\ DOMAIN outbox = 1 .. Len(outbox) /\ Len(outbox) \in Nat
           /\ \A i \in DOMAIN outbox : outbox[i] \in Letter /\ outbox[i] \in Sent
           /\ outbox # << >> => Head(outbox) = outbox[1] /\ 1 \in DOMAIN outbox /\ Head(outbox) \in Sent
<1>1. outbox \in Seq(Letter) /\ echo \subseteq Letter /\ receipts \subseteq Letter
  BY DEF CommandTypeOK
<1>2. /\ DOMAIN outbox = 1 .. Len(outbox) /\ Len(outbox) \in Nat
      /\ \A i \in DOMAIN outbox : outbox[i] \in Letter
  BY <1>1, LenProperties, ElementOfSeq
<1>3. outbox # << >> => Head(outbox) = outbox[1] /\ 1 \in DOMAIN outbox
  BY <1>1, <1>2, EmptySeq
<1> QED BY <1>1, <1>2, <1>3 DEF Sent

LEMMA LaterFacts ==
    ASSUME NEW a \in Nat \X Nat, NEW b \in Nat \X Nat, NEW c \in Nat \X Nat
    PROVE  ~ Later(a, a) /\ (~ Later(c, b) /\ Later(a, b) => ~ Later(c, a))
<1>1. a[1] \in Nat /\ a[2] \in Nat /\ b[1] \in Nat /\ b[2] \in Nat /\ c[1] \in Nat /\ c[2] \in Nat
  OBVIOUS
<1> QED BY <1>1 DEF Later

\* The Mac takes a request or ends one.
LEMMA MacKeepsWord ==
    ASSUME CommandInv, NEW r \in Requests, mac.work[r] \in {"none", "working"},
           mac'.revision \in Nat, mac'.revision >= mac.revision,
           \A q \in Requests \ {r} : mac'.work[q] = mac.work[q] /\ mac'.at[q] = mac.at[q],
           mac'.work[r] # "none", NEW e \in Sent \cup receipts
    PROVE  SaysRight(e)' /\ (e.kind = "receipt" /\ mac.work[r] = "none" => e.request # r)
<1>1. CommandTypeOK /\ SaysRight(e) /\ e \in Letter
  BY BoxFacts DEF CommandInv, LettersAgree
<1>2. mac.revision \in Nat /\ (e.at \in Nat \X Nat) /\ e.at[1] \in Nat
  BY <1>1 DEF CommandTypeOK, Letter
<1>3. e.kind # "result" => e.at[1] <= mac'.revision
  BY <1>1, <1>2 DEF SaysRight
<1>4. e.kind = "result" => e.request \in Requests \ {r}
  BY <1>1 DEF SaysRight, Requests
<1>5. e.kind = "receipt" => e.request \in Requests /\ (e.state = "accepted" \/ e.request # r)
  BY <1>1 DEF SaysRight, Requests, Final
<1> QED BY <1>1, <1>3, <1>4, <1>5 DEF SaysRight, Outcome

\* A letter more at the end of the outbox.
LEMMA LetterSent ==
    ASSUME CommandInv, NEW d \in Letter, outbox' = outbox \o <<d>>, UNCHANGED <<echo, receipts, picture>>,
           mac'.revision \in Nat, mac'.revision >= mac.revision,
           \A e \in Sent \cup receipts : SaysRight(e)',
           SaysRight(d)', d.kind # "result" => d.at[1] = mac'.revision,
           Accepted(d) => \A e \in Sent \cup receipts : e.kind = "receipt" => e.request # d.request,
           \A q \in Commands : mac'.work[q] \in Final =>
              \/ Outcome(q)' = d
              \/ mac.work[q] \in Final /\ mac'.work[q] = mac.work[q] /\ mac'.at[q] = mac.at[q]
    PROVE  outbox' \in Seq(Letter) /\ LettersAgree' /\ StoredAfterAccepted' /\ EchoesAreOld'
<1>0. CommandTypeOK /\ LettersAgree /\ StoredAfterAccepted /\ EchoesAreOld
  BY DEF CommandInv
<1>1. /\ outbox \in Seq(Letter) /\ DOMAIN outbox = 1 .. Len(outbox) /\ Len(outbox) \in Nat
      /\ Sent \subseteq Letter /\ receipts \subseteq Letter
      /\ \A i \in DOMAIN outbox : outbox[i] \in Letter /\ outbox[i] \in Sent
  BY <1>0, BoxFacts DEF CommandTypeOK
<1>2. /\ outbox' \in Seq(Letter) /\ DOMAIN outbox' = 1 .. (Len(outbox) + 1)
      /\ \A i \in DOMAIN outbox : outbox'[i] = outbox[i]
      /\ outbox'[Len(outbox) + 1] = d
  <2>1. <<d>> \in Seq(Letter) /\ Len(<<d>>) = 1 /\ <<d>>[1] = d
    OBVIOUS
  <2>2. /\ outbox' \in Seq(Letter) /\ Len(outbox') = Len(outbox) + 1
        /\ \A i \in 1 .. (Len(outbox) + 1) :
              outbox'[i] = IF i <= Len(outbox) THEN outbox[i] ELSE <<d>>[i - Len(outbox)]
    BY <1>1, <2>1, ConcatProperties
  <2>3. DOMAIN outbox' = 1 .. (Len(outbox) + 1)
    BY <2>2, LenProperties
  <2>4. outbox'[Len(outbox) + 1] = <<d>>[(Len(outbox) + 1) - Len(outbox)] /\ (Len(outbox) + 1) - Len(outbox) = 1
    BY <1>1, <2>2
  <2> QED BY <1>1, <2>1, <2>2, <2>3, <2>4
<1>3. ASSUME NEW i \in DOMAIN outbox' PROVE i \in DOMAIN outbox \/ (i = Len(outbox) + 1 /\ outbox'[i] = d)
  BY <1>1, <1>2
<1>4. Sent' \subseteq Sent \cup {d}
  BY <1>2, <1>3 DEF Sent
<1>5. \A e \in Sent' \cup receipts' : SaysRight(e)'
  BY <1>4
<1>6. ASSUME NEW a \in Sent' \cup receipts', NEW e \in Sent' \cup receipts', Accepted(a), Accepted(e),
             a.request = e.request
      PROVE  a = e
  <2>1. a \in Sent \cup receipts \cup {d} /\ e \in Sent \cup receipts \cup {d}
    BY <1>4
  <2> QED BY <1>0, <1>6, <2>1 DEF LettersAgree, Accepted
<1>7. ASSUME NEW i \in DOMAIN outbox', NEW j \in DOMAIN outbox', i < j
      PROVE  /\ outbox'[i].kind # "result" /\ outbox'[j].kind # "result" =>
                outbox'[i].at[1] <= outbox'[j].at[1]
             /\ outbox'[i].kind = "receipt" /\ outbox'[i].state # "accepted" =>
                ~ (Accepted(outbox'[j]) /\ outbox'[j].request = outbox'[i].request)
  <2>1. i \in DOMAIN outbox /\ outbox'[i] = outbox[i] /\ outbox[i] \in Sent /\ outbox[i] \in Letter
    BY <1>1, <1>2, <1>7
  <2>2. CASE j \in DOMAIN outbox
    BY <1>0, <1>2, <1>7, <2>1, <2>2 DEF LettersAgree
  <2>3. CASE j = Len(outbox) + 1 /\ outbox'[j] = d
    <3>1. SaysRight(outbox[i])
      BY <1>0, <2>1 DEF LettersAgree
    <3>2. outbox[i].kind # "result" => outbox[i].at[1] <= mac'.revision
      <4>1. mac.revision \in Nat /\ outbox[i].at[1] \in Nat
        BY <1>0, <2>1 DEF CommandTypeOK, Letter
      <4> QED BY <3>1, <4>1 DEF SaysRight
    <3> QED BY <2>1, <2>3, <3>2
  <2> QED BY <1>3, <2>2, <2>3
<1>8. ASSUME NEW q \in Commands, mac'.work[q] \in Final
      PROVE  Outcome(q)' \in receipts' \/ \E i \in DOMAIN outbox' : outbox'[i] = Outcome(q)'
  <2>1. CASE Outcome(q)' = d
    <3>1. Len(outbox) + 1 \in DOMAIN outbox'
      BY <1>1, <1>2
    <3> QED BY <1>2, <2>1, <3>1
  <2>2. CASE mac.work[q] \in Final /\ mac'.work[q] = mac.work[q] /\ mac'.at[q] = mac.at[q]
    <3>1. Outcome(q)' = Outcome(q)
      BY <2>2 DEF Outcome
    <3>2. Outcome(q) \in receipts \/ \E i \in DOMAIN outbox : outbox[i] = Outcome(q)
      BY <1>0, <2>2 DEF LettersAgree
    <3>3. \A i \in DOMAIN outbox : i \in DOMAIN outbox' /\ outbox'[i] = outbox[i]
      BY <1>1, <1>2
    <3> QED BY <3>1, <3>2, <3>3
  <2> QED BY <1>8, <2>1, <2>2
<1>9. LettersAgree'
  BY <1>5, <1>6, <1>7, <1>8 DEF LettersAgree, Accepted
<1>10. StoredAfterAccepted'
  <2> SUFFICES ASSUME NEW f \in receipts, f.state # "accepted", NEW i \in DOMAIN outbox'
               PROVE  /\ ~ (Accepted(outbox'[i]) /\ outbox'[i].request = f.request)
                      /\ outbox'[i].kind = "snapshot" => outbox'[i].at[1] >= f.at[1]
    BY DEF StoredAfterAccepted, Accepted
  <2>1. CASE i \in DOMAIN outbox
    BY <1>0, <1>2, <2>1 DEF StoredAfterAccepted
  <2>2. CASE outbox'[i] = d
    <3>1. f.kind = "receipt" /\ f \in Letter /\ SaysRight(f)
      BY <1>0 DEF CommandTypeOK, LettersAgree
    <3>2. f.at[1] <= mac'.revision /\ f.at[1] \in Nat
      <4>1. mac.revision \in Nat /\ f.at[1] \in Nat
        BY <1>0, <3>1 DEF CommandTypeOK, Letter
      <4> QED BY <3>1, <4>1 DEF SaysRight
    <3> QED BY <2>2, <3>1, <3>2
  <2> QED BY <1>3, <2>1, <2>2
<1>11. EchoesAreOld'
  <2>1. outbox # << >> => outbox' # << >> /\ Head(outbox') = Head(outbox)
    <3> SUFFICES ASSUME outbox # << >> PROVE outbox' # << >> /\ Head(outbox') = Head(outbox)
      OBVIOUS
    <3>1. 1 \in DOMAIN outbox /\ Head(outbox) = outbox[1]
      BY <1>0, BoxFacts
    <3>2. 1 \in DOMAIN outbox' /\ outbox'[1] = outbox[1]
      BY <1>1, <1>2, <3>1
    <3>3. outbox' # << >>
      BY <3>2, EmptySeq
    <3>4. Head(outbox') = outbox'[1]
      BY <1>2, <3>3
    <3> QED BY <3>1, <3>2, <3>3, <3>4
  <2> QED BY <1>0, <2>1 DEF EchoesAreOld
<1> QED BY <1>2, <1>9, <1>10, <1>11

-----------------------------------------------------------------------------
(* Steps of the Mac.                                                         *)

\* What the Controller knows is not affected by the Mac alone.
LEMMA ControllerKept ==
    ASSUME CommandInv, UNCHANGED <<command, receipts, picture>>
    PROVE  OneActive' /\ PictureIsFresh'
BY DEF CommandInv, OneActive, PictureIsFresh, Active

\* The outbox is as it was, and no outcome is new.
LEMMA NothingSent ==
    ASSUME CommandInv, UNCHANGED <<outbox, echo, receipts, picture>>,
           \A e \in Sent \cup receipts : SaysRight(e)',
           \A q \in Commands : mac'.work[q] \in Final =>
              mac.work[q] \in Final /\ mac'.work[q] = mac.work[q] /\ mac'.at[q] = mac.at[q]
    PROVE  LettersAgree' /\ StoredAfterAccepted' /\ EchoesAreOld'
<1>1. LettersAgree /\ StoredAfterAccepted /\ EchoesAreOld
  BY DEF CommandInv
<1>2. Sent' = Sent
  BY DEF Sent
<1>3. ASSUME NEW q \in Commands, mac'.work[q] \in Final
      PROVE  Outcome(q)' \in receipts \/ \E i \in DOMAIN outbox : outbox[i] = Outcome(q)'
  BY <1>1, <1>3 DEF LettersAgree, Outcome
<1>4. LettersAgree'
  BY <1>1, <1>2, <1>3 DEF LettersAgree, Accepted
<1> QED BY <1>1, <1>4 DEF StoredAfterAccepted, EchoesAreOld, Accepted

LEMMA OwnerStep ==
    ASSUME CommandInv, OwnerWorks \/ \E r \in Requests : LoseCommand(r)
    PROVE  CommandInv'
<1>1. CASE OwnerWorks
  <2>1. CommandTypeOK /\ mac' = [mac EXCEPT !.revision = @ + 1]
        /\ UNCHANGED <<command, receipts, results, picture, kept, call, base, wire, outbox, echo, troubles>>
    BY <1>1 DEF CommandInv, OwnerWorks, controllerVars
  <2>2. mac.revision \in Nat
    BY <2>1 DEF CommandTypeOK
  <2>3. /\ mac' \in [revision : Nat, taken : Nat, work : [Requests -> {"none", "working"} \cup Final],
                     at : [Requests -> Nat]]
        /\ mac'.revision = mac.revision + 1 /\ mac'.work = mac.work /\ mac'.at = mac.at
    <3>1. mac' = [revision |-> mac.revision + 1, taken |-> mac.taken, work |-> mac.work, at |-> mac.at]
      BY <2>1 DEF CommandTypeOK
    <3>2. mac.revision + 1 \in Nat
      BY <2>2
    <3>3. mac.work \in [Requests -> {"none", "working"} \cup Final] /\ mac.at \in [Requests -> Nat] /\ mac.taken \in Nat
      BY <2>1 DEF CommandTypeOK
    <3> QED BY <3>1, <3>2, <3>3
  <2>4. CommandTypeOK'
    BY <2>1, <2>3 DEF CommandTypeOK
  <2>5. ASSUME NEW e \in Sent \cup receipts PROVE SaysRight(e)'
    <3>1. SaysRight(e) /\ e \in Letter
      BY <2>1, BoxFacts DEF CommandInv, LettersAgree
    <3>2. e.at[1] \in Nat
      BY <3>1 DEF Letter
    <3> QED BY <2>3, <2>2, <3>1, <3>2 DEF SaysRight, Outcome
  <2>6. LettersAgree' /\ StoredAfterAccepted' /\ EchoesAreOld'
    BY <2>1, <2>3, <2>5, NothingSent
  <2>7. CallsAgree' /\ JournalsAgree'
    BY <2>1, <2>3 DEF CommandInv, CallsAgree, JournalsAgree, Untouched, Settled
  <2> QED BY <2>1, <2>4, <2>6, <2>7, ControllerKept DEF CommandInv
<1>2. CASE \E r \in Requests : LoseCommand(r)
  <2>1. CommandTypeOK /\ wire' \subseteq wire
        /\ UNCHANGED <<command, receipts, results, picture, kept, call, base, mac, outbox, echo, troubles>>
    BY <1>2 DEF CommandInv, LoseCommand, controllerVars
  <2>2. CommandTypeOK'
    BY <2>1 DEF CommandTypeOK
  <2>3. \A e \in Sent \cup receipts : SaysRight(e)'
    BY <2>1 DEF CommandInv, LettersAgree, SaysRight, Outcome
  <2>4. LettersAgree' /\ StoredAfterAccepted' /\ EchoesAreOld'
    BY <2>1, <2>3, NothingSent
  <2>5. CallsAgree' /\ JournalsAgree'
    BY <2>1 DEF CommandInv, CallsAgree, JournalsAgree, Untouched, Settled
  <2> QED BY <2>1, <2>2, <2>4, <2>5, ControllerKept DEF CommandInv
<1> QED BY <1>1, <1>2

\* A request is taken, or ends, and the Mac may say so.
LEMMA MacStep ==
    ASSUME CommandInv, NEW r \in Requests, mac.work[r] \in {"none", "working"}, ~ Untouched(r),
           NEW s \in {"working"} \cup Final, NEW v \in Nat, NEW w \in Nat, w >= mac.revision,
           mac' = [revision |-> w, taken |-> mac.taken, work |-> [mac.work EXCEPT ![r] = s],
                   at |-> [mac.at EXCEPT ![r] = v]],
           wire' = wire \ {r}, UNCHANGED <<command, call, receipts, picture, base, echo>>,
           \/ outbox' = outbox /\ s = "working"
           \/ \E d \in Letter :
                 /\ outbox' = outbox \o <<d>> /\ d.request = r
                 /\ SaysRight(d)' /\ (d.kind # "result" => d.at[1] = w)
                 /\ Accepted(d) => mac.work[r] = "none"
                 /\ s \in Final /\ r \in Commands => d = Outcome(r)'
    PROVE  CommandInv'
<1>1. CommandTypeOK /\ LettersAgree /\ CallsAgree /\ JournalsAgree
  BY DEF CommandInv
<1>2. /\ mac' \in [revision : Nat, taken : Nat, work : [Requests -> {"none", "working"} \cup Final],
                   at : [Requests -> Nat]]
      /\ mac'.revision = w /\ mac'.work[r] = s /\ mac'.at[r] = v
      /\ \A q \in Requests \ {r} : mac'.work[q] = mac.work[q] /\ mac'.at[q] = mac.at[q]
  <2>1. s \in {"none", "working"} \cup Final
    OBVIOUS
  <2>2. [mac.work EXCEPT ![r] = s] \in [Requests -> {"none", "working"} \cup Final]
        /\ [mac.at EXCEPT ![r] = v] \in [Requests -> Nat] /\ mac.taken \in Nat
    BY <1>1, <2>1 DEF CommandTypeOK
  <2>3. mac' \in [revision : Nat, taken : Nat, work : [Requests -> {"none", "working"} \cup Final],
                  at : [Requests -> Nat]]
    BY <2>2
  <2>4. mac'.revision = w /\ mac'.work[r] = s /\ mac'.at[r] = v
    BY <1>1 DEF CommandTypeOK
  <2>5. \A q \in Requests \ {r} : mac'.work[q] = mac.work[q] /\ mac'.at[q] = mac.at[q]
    BY <1>1 DEF CommandTypeOK
  <2> QED BY <2>3, <2>4, <2>5
<1>3. s # "none" /\ r \notin wire'
  BY DEF Final
<1>4. ASSUME NEW e \in Sent \cup receipts
      PROVE  SaysRight(e)' /\ (e.kind = "receipt" /\ mac.work[r] = "none" => e.request # r)
  <2>1. mac'.revision \in Nat /\ mac'.revision >= mac.revision /\ mac'.work[r] # "none"
    BY <1>2, <1>3
  <2> QED BY <1>2, <2>1, MacKeepsWord
<1>5. outbox' \in Seq(Letter) /\ LettersAgree' /\ StoredAfterAccepted' /\ EchoesAreOld'
  <2>1. CASE outbox' = outbox /\ s = "working"
    <3>1. \A q \in Commands : mac'.work[q] \in Final =>
             mac.work[q] \in Final /\ mac'.work[q] = mac.work[q] /\ mac'.at[q] = mac.at[q]
      BY <1>2, <2>1 DEF Final, Requests
    <3> QED BY <1>1, <1>4, <2>1, <3>1, NothingSent DEF CommandTypeOK
  <2>2. CASE \E d \in Letter :
                /\ outbox' = outbox \o <<d>> /\ d.request = r
                /\ SaysRight(d)' /\ (d.kind # "result" => d.at[1] = w)
                /\ Accepted(d) => mac.work[r] = "none"
                /\ s \in Final /\ r \in Commands => d = Outcome(r)'
    <3>1. PICK d \in Letter :
                /\ outbox' = outbox \o <<d>> /\ d.request = r
                /\ SaysRight(d)' /\ (d.kind # "result" => d.at[1] = w)
                /\ Accepted(d) => mac.work[r] = "none"
                /\ s \in Final /\ r \in Commands => d = Outcome(r)'
      BY <2>2
    <3>2. \A e \in Sent \cup receipts : SaysRight(e)'
      BY <1>4
    <3>3. Accepted(d) => \A e \in Sent \cup receipts : e.kind = "receipt" => e.request # d.request
      BY <1>4, <3>1
    <3>4. \A q \in Commands : mac'.work[q] \in Final =>
             \/ Outcome(q)' = d
             \/ mac.work[q] \in Final /\ mac'.work[q] = mac.work[q] /\ mac'.at[q] = mac.at[q]
      BY <1>2, <3>1 DEF Requests
    <3>5. outbox' = outbox \o <<d>> /\ SaysRight(d)' /\ (d.kind # "result" => d.at[1] = mac'.revision)
      BY <1>2, <3>1
    <3>6. mac'.revision \in Nat /\ mac'.revision >= mac.revision /\ UNCHANGED <<echo, receipts, picture>>
      BY <1>2
    <3> QED BY <3>2, <3>3, <3>4, <3>5, <3>6, LetterSent
  <2> QED BY <2>1, <2>2
<1>6. CommandTypeOK'
  BY <1>1, <1>2, <1>5 DEF CommandTypeOK
<1>7. CallsAgree'
  BY <1>1, <1>2, <1>3 DEF CallsAgree, Untouched
<1>8. r \in Commands => ~ Settled(r) /\ command[r] # "failed"
  <2>1. ~ \E f \in receipts : f.request = r /\ f.state # "accepted"
    <3> SUFFICES ASSUME NEW f \in receipts, f.request = r, f.state # "accepted" PROVE FALSE
      OBVIOUS
    <3>1. f.kind = "receipt" /\ SaysRight(f)
      BY <1>1 DEF CommandTypeOK, LettersAgree
    <3> QED BY <3>1 DEF SaysRight, Final
  <2> QED BY <1>1, <2>1 DEF JournalsAgree, Settled
<1>9. r \in Reads => command[r] \in {"absent", "pending", "submitted", "unknown"}
  BY <1>1 DEF JournalsAgree
<1>10. \A q \in Requests : /\ Settled(q)' <=> Settled(q)
                           /\ q # r /\ Untouched(q) => Untouched(q)'
  BY <1>2 DEF Settled, Untouched
<1>11. JournalsAgree'
  <2>1. \A q \in Commands : \/ Settled(q)' /\ command[q] = mac'.work[q] /\ command[q] \in Final
                            \/ ~ Settled(q)' /\ (command[q] = "failed" => Untouched(q)')
                                             /\ command[q] \in {"absent", "failed"} \cup Unsettled
    BY <1>1, <1>2, <1>8, <1>10 DEF JournalsAgree, Requests
  <2>2. \A q \in Reads : \/ command[q] \in {"absent", "pending", "submitted", "unknown"}
                         \/ command[q] \in {"confirmed", "failed"} /\ mac'.work[q] = command[q]
                         \/ command[q] = "failed" /\ Untouched(q)'
    BY <1>1, <1>2, <1>9, <1>10 DEF JournalsAgree, Requests
  <2> QED BY <2>1, <2>2 DEF JournalsAgree
<1> QED BY <1>5, <1>6, <1>7, <1>11, ControllerKept DEF CommandInv

LEMMA TakesAgree == ASSUME CommandInv, NEW r \in Requests, TakeCommand(r) PROVE CommandInv'
<1>1. CommandTypeOK /\ mac.revision \in Nat /\ base[r] \in Nat /\ r \in wire /\ mac.work[r] = "none"
      /\ mac.at[r] \in Nat /\ ~ Untouched(r)
  BY DEF CommandInv, CommandTypeOK, TakeCommand, Untouched
<1>2. wire' = wire \ {r} /\ UNCHANGED <<command, call, receipts, picture, base, echo>>
  BY DEF TakeCommand, controllerVars
<1>3. CASE r \in Controls /\ base[r] # mac.revision
  <2>0. PICK d : d = Document("receipt", r, "conflict", <<mac.revision, 0>>)
    OBVIOUS
  <2>1. mac' = [mac EXCEPT !.work[r] = "conflict", !.at[r] = mac.revision] /\ outbox' = outbox \o <<d>>
    BY <1>3, <2>0 DEF TakeCommand, Send
  <2>2. mac' = [revision |-> mac.revision, taken |-> mac.taken, work |-> [mac.work EXCEPT ![r] = "conflict"],
                at |-> [mac.at EXCEPT ![r] = mac.revision]]
    BY <1>1, <2>1 DEF CommandTypeOK
  <2>3. mac'.work[r] = "conflict" /\ mac'.at[r] = mac.revision /\ mac'.revision = mac.revision
    BY <1>1, <2>2 DEF CommandTypeOK
  <2>4. d \in Letter /\ d.request = r /\ d.kind = "receipt" /\ d.state = "conflict" /\ d.at[1] = mac.revision
    BY <1>1, <2>0 DEF Document, Letter, Final
  <2>5. d = Outcome(r)'
    BY <2>0, <2>3 DEF Document, Outcome
  <2>6. SaysRight(d)'
    BY <1>1, <1>3, <2>3, <2>4, <2>5 DEF SaysRight, Commands, Final
  <2>7. ~ Accepted(d)
    BY <2>4 DEF Accepted
  <2>8. "conflict" \in {"working"} \cup Final
    BY DEF Final
  <2>9. mac.revision >= mac.revision
    BY <1>1
  <2>10. \E e \in Letter :
             /\ outbox' = outbox \o <<e>> /\ e.request = r
             /\ SaysRight(e)' /\ (e.kind # "result" => e.at[1] = mac.revision)
             /\ Accepted(e) => mac.work[r] = "none"
             /\ "conflict" \in Final /\ r \in Commands => e = Outcome(r)'
    BY <2>1, <2>4, <2>5, <2>6, <2>7
  <2> QED BY <1>1, <1>2, <2>2, <2>8, <2>9, <2>10, MacStep
<1>4. CASE ~ (r \in Controls /\ base[r] # mac.revision)
  <2>0. PICK d : d = Document("receipt", r, "accepted", <<mac.revision, 0>>)
    OBVIOUS
  <2>1. /\ mac' = [mac EXCEPT !.work[r] = "working"]
        /\ (r \notin Reads /\ outbox' = outbox \o <<d>>) \/ outbox' = outbox
    BY <1>4, <2>0 DEF TakeCommand, Send
  <2>2. mac' = [revision |-> mac.revision, taken |-> mac.taken, work |-> [mac.work EXCEPT ![r] = "working"],
                at |-> [mac.at EXCEPT ![r] = mac.at[r]]]
    BY <1>1, <2>1 DEF CommandTypeOK
  <2>3. mac'.work[r] = "working" /\ mac'.revision = mac.revision
    BY <1>1, <2>2 DEF CommandTypeOK
  <2>4. d \in Letter /\ d.request = r /\ d.kind = "receipt" /\ d.state = "accepted" /\ d.at[1] = mac.revision
    BY <1>1, <2>0 DEF Document, Letter, Final
  <2>5. r \notin Reads => SaysRight(d)'
    BY <1>1, <2>3, <2>4 DEF SaysRight, Requests
  <2>6. "working" \in {"working"} \cup Final /\ "working" \notin Final
    BY DEF Final
  <2>7. mac.revision >= mac.revision
    BY <1>1
  <2>8. \/ outbox' = outbox /\ "working" = "working"
        \/ \E e \in Letter :
             /\ outbox' = outbox \o <<e>> /\ e.request = r
             /\ SaysRight(e)' /\ (e.kind # "result" => e.at[1] = mac.revision)
             /\ Accepted(e) => mac.work[r] = "none"
             /\ "working" \in Final /\ r \in Commands => e = Outcome(r)'
    BY <1>1, <2>1, <2>4, <2>5, <2>6
  <2> QED BY <1>1, <1>2, <2>2, <2>6, <2>7, <2>8, MacStep
<1> QED BY <1>3, <1>4

LEMMA EndsAgree ==
    ASSUME CommandInv, NEW r \in Requests, NEW s \in Final, FinishCommand(r, s)
    PROVE  CommandInv'
<1>1. CommandTypeOK /\ mac.revision \in Nat /\ base[r] \in Nat /\ mac.work[r] = "working"
      /\ mac.at[r] \in Nat /\ ~ Untouched(r) /\ r \notin wire
  BY DEF CommandInv, CommandTypeOK, FinishCommand, Untouched, CallsAgree
<1>2. wire' = wire \ {r} /\ UNCHANGED <<command, call, receipts, picture, base, echo>>
  BY <1>1 DEF FinishCommand, controllerVars
<1>3. PICK v \in {mac.revision, mac.revision + 1} :
         /\ mac' = [mac EXCEPT !.work[r] = s, !.at[r] = v, !.revision = v]
         /\ outbox' = outbox \o <<IF r \in Reads THEN Document("result", r, s, <<base[r], 0>>)
                                  ELSE Document("receipt", r, s, <<v, 0>>)>>
  BY DEF FinishCommand, Send
<1>4. v \in Nat /\ v >= mac.revision
  BY <1>1
<1>5. mac' = [revision |-> v, taken |-> mac.taken, work |-> [mac.work EXCEPT ![r] = s],
              at |-> [mac.at EXCEPT ![r] = v]]
  BY <1>1, <1>3 DEF CommandTypeOK
<1>6. mac'.work[r] = s /\ mac'.at[r] = v /\ mac'.revision = v
  BY <1>1, <1>5 DEF CommandTypeOK
<1>7. s # "accepted" /\ (r \in Reads => s \in {"confirmed", "failed"})
  BY DEF FinishCommand, Final
<1>0. PICK d : d = IF r \in Reads THEN Document("result", r, s, <<base[r], 0>>)
                   ELSE Document("receipt", r, s, <<v, 0>>)
  OBVIOUS
<1>8. d \in Letter /\ d.request = r /\ d.state = s
      /\ d.kind = (IF r \in Reads THEN "result" ELSE "receipt")
      /\ (r \notin Reads => d.at[1] = v /\ d = Outcome(r)')
  BY <1>0, <1>1, <1>4, <1>6 DEF Document, Letter, Outcome
<1>9. (r \in Commands => r \notin Reads) /\ (r \notin Reads => r \in Commands)
  BY CommandAssumption DEF Commands, Requests
<1>10. SaysRight(d)' /\ ~ Accepted(d)
  <2>1. CASE r \in Reads
    BY <1>6, <1>7, <1>8, <2>1 DEF SaysRight, Accepted
  <2>2. CASE r \notin Reads
    <3>1. d.kind = "receipt" /\ d = Outcome(r)' /\ d.at[1] = mac'.revision /\ mac'.work[r] \in Final
          /\ mac'.work[r] # "none" /\ r \in Commands
      BY <1>6, <1>8, <1>9, <2>2 DEF Final
    <3>2. d.at[1] <= mac'.revision
      BY <1>4, <1>6, <3>1
    <3> QED BY <1>7, <1>8, <3>1, <3>2 DEF SaysRight, Accepted
  <2> QED BY <2>1, <2>2
<1>11. \E e \in Letter :
           /\ outbox' = outbox \o <<e>> /\ e.request = r
           /\ SaysRight(e)' /\ (e.kind # "result" => e.at[1] = v)
           /\ Accepted(e) => mac.work[r] = "none"
           /\ s \in Final /\ r \in Commands => e = Outcome(r)'
  BY <1>0, <1>3, <1>8, <1>9, <1>10
<1>12. s \in {"working"} \cup Final
  OBVIOUS
<1> QED BY <1>1, <1>2, <1>4, <1>5, <1>11, <1>12, MacStep

LEMMA SnapshotsAgree == ASSUME CommandInv, TakeSnapshot PROVE CommandInv'
<1>1. CommandTypeOK /\ mac.revision \in Nat /\ mac.taken \in Nat
  BY DEF CommandInv, CommandTypeOK
<1>2. PICK d : d = Document("snapshot", "none", "ready", <<mac.revision, mac.taken + 1>>)
  OBVIOUS
<1>3. /\ mac' = [mac EXCEPT !.taken = @ + 1] /\ outbox' = outbox \o <<d>>
      /\ UNCHANGED <<command, call, receipts, picture, base, wire, echo>>
  BY <1>2 DEF TakeSnapshot, Send, controllerVars
<1>4. mac' = [revision |-> mac.revision, taken |-> mac.taken + 1, work |-> mac.work, at |-> mac.at]
  BY <1>1, <1>3 DEF CommandTypeOK
<1>5. mac'.revision = mac.revision /\ mac'.work = mac.work /\ mac'.at = mac.at
  BY <1>4
<1>6. mac' \in [revision : Nat, taken : Nat, work : [Requests -> {"none", "working"} \cup Final],
                at : [Requests -> Nat]]
  <2>1. mac.taken + 1 \in Nat /\ mac.work \in [Requests -> {"none", "working"} \cup Final]
        /\ mac.at \in [Requests -> Nat]
    BY <1>1 DEF CommandTypeOK
  <2> QED BY <1>1, <1>4, <2>1
<1>7. d \in Letter /\ d.kind = "snapshot" /\ d.at[1] = mac.revision
  BY <1>1, <1>2 DEF Document, Letter
<1>8. \A e \in Sent \cup receipts : SaysRight(e)'
  BY <1>5 DEF CommandInv, LettersAgree, SaysRight, Outcome
<1>9. SaysRight(d)' /\ ~ Accepted(d)
  BY <1>1, <1>5, <1>7 DEF SaysRight, Accepted
<1>10. outbox' \in Seq(Letter) /\ LettersAgree' /\ StoredAfterAccepted' /\ EchoesAreOld'
  <2>1. \A q \in Commands : mac'.work[q] \in Final =>
           \/ Outcome(q)' = d
           \/ mac.work[q] \in Final /\ mac'.work[q] = mac.work[q] /\ mac'.at[q] = mac.at[q]
    BY <1>5
  <2>2. mac'.revision \in Nat /\ mac'.revision >= mac.revision /\ (d.kind # "result" => d.at[1] = mac'.revision)
    BY <1>1, <1>5, <1>7
  <2>3. outbox' = outbox \o <<d>> /\ UNCHANGED <<echo, receipts, picture>>
    BY <1>3
  <2> QED BY <1>7, <1>8, <1>9, <2>1, <2>2, <2>3, LetterSent
<1>11. CommandTypeOK'
  BY <1>1, <1>3, <1>6, <1>10 DEF CommandTypeOK
<1>12. CallsAgree' /\ JournalsAgree'
  BY <1>3, <1>5 DEF CommandInv, CallsAgree, JournalsAgree, Untouched, Settled
<1> QED BY <1>3, <1>10, <1>11, <1>12, ControllerKept DEF CommandInv

-----------------------------------------------------------------------------
(* Steps of the Controller's calls and of its clock.                         *)

LEMMA CallMoves ==
    ASSUME CommandInv, UNCHANGED <<receipts, picture, mac, outbox, echo>>,
           CommandTypeOK', CallsAgree', JournalsAgree', OneActive'
    PROVE  CommandInv'
<1>1. \A e \in Sent \cup receipts : SaysRight(e)'
  BY DEF CommandInv, LettersAgree, SaysRight, Outcome
<1>2. LettersAgree' /\ StoredAfterAccepted' /\ EchoesAreOld'
  BY <1>1, NothingSent
<1>3. PictureIsFresh'
  BY DEF CommandInv, PictureIsFresh
<1> QED BY <1>2, <1>3 DEF CommandInv

LEMMA CallsKeep ==
    ASSUME CommandInv, NEW r \in Requests, Prepare(r) \/ Publish(r) \/ Mark(r) \/ Sweep(r)
    PROVE  CommandInv'
<1>1. CommandTypeOK /\ CallsAgree /\ JournalsAgree /\ OneActive
  BY DEF CommandInv
<1>2. CASE Prepare(r)
  <2>1. /\ command[r] = "absent" /\ call[r] = "none" /\ (r \in Controls => Active = {})
        /\ command' = [command EXCEPT ![r] = "pending"]
        /\ call' = [call EXCEPT ![r] = "prepared"]
        /\ base' = [base EXCEPT ![r] = picture.at[1]]
        /\ UNCHANGED <<receipts, picture, wire, mac, outbox, echo>>
    BY <1>2 DEF Prepare, MayPrepare, MayControl, Inserted
  <2>2. picture.at[1] \in Nat
    BY <1>1 DEF CommandTypeOK
  <2>3. CommandTypeOK'
    BY <1>1, <2>1, <2>2 DEF CommandTypeOK, Unsettled
  <2>4. \A q \in Requests : command'[q] = (IF q = r THEN "pending" ELSE command[q])
                            /\ call'[q] = (IF q = r THEN "prepared" ELSE call[q])
    BY <1>1, <2>1 DEF CommandTypeOK
  <2>5. \A q \in Requests : (Untouched(q)' <=> Untouched(q)) /\ (Settled(q)' <=> Settled(q))
    BY <2>1 DEF Untouched, Settled
  <2>6. Untouched(r)
    BY <1>1, <2>1 DEF CallsAgree
  <2>7. CallsAgree'
    BY <1>1, <2>1, <2>4, <2>5, <2>6 DEF CallsAgree
  <2>8. r \in Commands => ~ Settled(r)
    BY <1>1, <2>1 DEF JournalsAgree, Final
  <2>9. JournalsAgree'
    BY <1>1, <2>1, <2>4, <2>5, <2>8 DEF JournalsAgree, Requests, Unsettled
  <2>10. OneActive'
    <3>1. Active' \subseteq Active \cup (IF r \in Controls THEN {r} ELSE {})
      BY <2>4 DEF Active, Requests, Commands
    <3> QED BY <1>1, <2>1, <3>1 DEF OneActive
  <2> QED BY <2>1, <2>3, <2>7, <2>9, <2>10, CallMoves
<1>3. CASE Publish(r)
  <2>1. /\ call[r] = "prepared"
        /\ \/ call' = [call EXCEPT ![r] = "ok"] /\ wire' = wire \cup {r}
           \/ call' = [call EXCEPT ![r] = "runner_offline"] /\ wire' = wire
           \/ call' = [call EXCEPT ![r] = "indeterminate"] /\ wire' \in {wire, wire \cup {r}}
        /\ UNCHANGED <<command, receipts, picture, base, mac, outbox, echo>>
    BY <1>3 DEF Publish, controllerVars
  <2>2. CommandTypeOK'
    BY <1>1, <2>1 DEF CommandTypeOK
  <2>3. Untouched(r) /\ command[r] = "pending"
    BY <1>1, <2>1 DEF CallsAgree
  <2>4. \A q \in Requests \ {r} : /\ call'[q] = call[q] /\ (q \in wire' <=> q \in wire)
                                  /\ Untouched(q)' <=> Untouched(q)
    BY <1>1, <2>1 DEF CommandTypeOK, Untouched
  <2>5. call'[r] \in {"ok", "runner_offline", "indeterminate"} /\ (call'[r] = "runner_offline" => Untouched(r)')
    BY <1>1, <2>1, <2>3 DEF CommandTypeOK, Untouched
  <2>6. CallsAgree'
    BY <1>1, <2>1, <2>3, <2>4, <2>5 DEF CallsAgree, Untouched
  <2>7. \A q \in Requests : Settled(q)' <=> Settled(q)
    BY <2>1 DEF Settled
  <2>8. JournalsAgree'
    BY <1>1, <2>1, <2>3, <2>4, <2>7 DEF JournalsAgree, Requests
  <2>9. OneActive'
    BY <1>1, <2>1 DEF OneActive, Active
  <2> QED BY <2>1, <2>2, <2>6, <2>8, <2>9, CallMoves
<1>4. CASE Mark(r)
  <2>1. /\ call[r] \in {"ok", "runner_offline", "indeterminate"}
        /\ command' = (IF command[r] = "pending" THEN [command EXCEPT ![r] = MarkedAs(call[r])] ELSE command)
        /\ call' = [call EXCEPT ![r] = "none"]
        /\ UNCHANGED <<receipts, picture, base, wire, mac, outbox, echo>>
    BY <1>4 DEF Mark, Marked
  <2>2. MarkedAs(call[r]) \in {"submitted", "failed", "unknown"}
        /\ (MarkedAs(call[r]) = "failed" => call[r] = "runner_offline")
    BY <2>1 DEF MarkedAs
  <2>3. CommandTypeOK'
    BY <1>1, <2>1, <2>2 DEF CommandTypeOK, Unsettled, Final
  <2>4. \A q \in Requests : command'[q] = (IF q = r /\ command[r] = "pending" THEN MarkedAs(call[r]) ELSE command[q])
                            /\ call'[q] = (IF q = r THEN "none" ELSE call[q])
    BY <1>1, <2>1 DEF CommandTypeOK
  <2>5. \A q \in Requests : (Untouched(q)' <=> Untouched(q)) /\ (Settled(q)' <=> Settled(q))
    BY <2>1 DEF Untouched, Settled
  <2>6. MarkedAs(call[r]) = "failed" => Untouched(r)
    BY <1>1, <2>2 DEF CallsAgree
  <2>7. CallsAgree'
    BY <1>1, <2>1, <2>2, <2>4, <2>5, <2>6 DEF CallsAgree, Untouched
  <2>8. r \in Commands /\ command[r] = "pending" => ~ Settled(r)
    BY <1>1 DEF JournalsAgree, Final
  <2>9. JournalsAgree'
    BY <1>1, <2>1, <2>2, <2>4, <2>5, <2>6, <2>8 DEF JournalsAgree, Requests, Unsettled
  <2>10. OneActive'
    <3>1. Active' \subseteq Active
      BY <2>4 DEF Active, Requests, Commands, Unsettled
    <3> QED BY <1>1, <3>1 DEF OneActive
  <2> QED BY <2>1, <2>3, <2>7, <2>9, <2>10, CallMoves
<1>5. CASE Sweep(r)
  <2>1. /\ command[r] \in {"submitted", "accepted"}
        /\ command' = [command EXCEPT ![r] = "unknown"]
        /\ UNCHANGED <<call, receipts, picture, base, wire, mac, outbox, echo>>
    BY <1>5 DEF Sweep
  <2>2. CommandTypeOK'
    BY <1>1, <2>1 DEF CommandTypeOK, Unsettled
  <2>3. \A q \in Requests : command'[q] = (IF q = r THEN "unknown" ELSE command[q])
    BY <1>1, <2>1 DEF CommandTypeOK
  <2>4. \A q \in Requests : (Untouched(q)' <=> Untouched(q)) /\ (Settled(q)' <=> Settled(q))
    BY <2>1 DEF Untouched, Settled
  <2>5. CallsAgree'
    BY <1>1, <2>1, <2>3, <2>4 DEF CallsAgree
  <2>6. r \in Commands => ~ Settled(r)
    BY <1>1, <2>1 DEF JournalsAgree, Final
  <2>7. JournalsAgree'
    BY <1>1, <2>1, <2>3, <2>4, <2>6 DEF JournalsAgree, Requests, Unsettled
  <2>8. OneActive'
    <3>1. Active' \subseteq Active
      BY <2>1, <2>3 DEF Active, Requests, Commands, Unsettled
    <3> QED BY <1>1, <3>1 DEF OneActive
  <2> QED BY <2>1, <2>2, <2>5, <2>7, <2>8, CallMoves
<1> QED BY <1>2, <1>3, <1>4, <1>5

LEMMA RestartKeeps == ASSUME CommandInv, RestartController PROVE CommandInv'
<1>1. CommandTypeOK /\ CallsAgree /\ JournalsAgree /\ OneActive
  BY DEF CommandInv
<1>2. /\ call' = [r \in Requests |-> "none"]
      /\ command' = [r \in Requests |-> IF command[r] = "pending" THEN "unknown" ELSE command[r]]
      /\ UNCHANGED <<receipts, picture, base, wire, mac, outbox, echo>>
  BY DEF RestartController
<1>3. CommandTypeOK'
  BY <1>1, <1>2 DEF CommandTypeOK, Unsettled
<1>4. \A q \in Requests : (Untouched(q)' <=> Untouched(q)) /\ (Settled(q)' <=> Settled(q))
  BY <1>2 DEF Untouched, Settled
<1>5. CallsAgree'
  BY <1>1, <1>2, <1>4 DEF CallsAgree
<1>6. JournalsAgree'
  BY <1>1, <1>2, <1>4 DEF JournalsAgree, Requests, Unsettled, Final
<1>7. Active' \subseteq Active
  BY <1>2 DEF Active, Requests, Commands, Unsettled
<1>8. OneActive'
  BY <1>1, <1>7 DEF OneActive
<1> QED BY <1>2, <1>3, <1>5, <1>6, <1>8, CallMoves

-----------------------------------------------------------------------------
(* What comes in.                                                            *)

\* A document of the outbox or of a dead connection is known, or is the next.
LEMMA ReceiptIn ==
    ASSUME CommandInv, NEW d \in Sent, d \in echo \/ (outbox # << >> /\ d = Head(outbox)),
           d.kind = "receipt", ~ Refused(d), IngestReceipt(d)
    PROVE  \/ d \in receipts /\ UNCHANGED <<command, receipts, picture>>
           \/ /\ outbox # << >> /\ d = Head(outbox)
              /\ receipts' = receipts \cup {d} /\ command' = [command EXCEPT ![d.request] = d.state]
              /\ picture' = (IF d.request \in Controls
                             THEN [picture EXCEPT !.control = ControlAfter(d)] ELSE picture)
              /\ ~ Settled(d.request)
              /\ d.state = "accepted" => \A f \in receipts : f.request # d.request
<1>1. CommandTypeOK /\ EchoesAreOld /\ StoredAfterAccepted
  BY DEF CommandInv
<1>2. Duplicate(d) \/ (outbox # << >> /\ d = Head(outbox))
  BY <1>1 DEF EchoesAreOld, Duplicate
<1>3. CASE Duplicate(d)
  BY <1>3 DEF IngestReceipt, Duplicate
<1>4. CASE ~ Duplicate(d)
  <2>1. outbox # << >> /\ d = Head(outbox) /\ 1 \in DOMAIN outbox /\ d = outbox[1]
    BY <1>1, <1>2, <1>4, BoxFacts
  <2>2. ~ Superseded(d)
    <3> SUFFICES ASSUME Superseded(d) PROVE FALSE
      OBVIOUS
    <3>1. Accepted(d) /\ \E f \in receipts : f.request = d.request /\ f.state # "accepted"
      BY DEF Superseded, HasFinal, Stored, Accepted
    <3> QED BY <1>1, <2>1, <3>1 DEF StoredAfterAccepted
  <2>3. ~ Settled(d.request)
    BY <1>4, <2>2 DEF Refused, Settled, HasFinal, Stored
  <2>4. d.state = "accepted" => \A f \in receipts : f.request # d.request
    BY <1>4, <2>2 DEF Refused, Stored
  <2>5. /\ receipts' = receipts \cup {d} /\ command' = [command EXCEPT ![d.request] = d.state]
        /\ picture' = (IF d.request \in Controls
                       THEN [picture EXCEPT !.control = ControlAfter(d)] ELSE picture)
    BY <1>4, <2>2 DEF IngestReceipt
  <2> QED BY <2>1, <2>3, <2>4, <2>5
<1> QED BY <1>3, <1>4

\* Whatever comes in, the picture only goes on, and what came in is known.
Heeded(d) ==
    /\ receipts' = receipts \/ (d.kind = "receipt" /\ outbox # << >> /\ d = Head(outbox)
                                /\ receipts' = receipts \cup {d})
    /\ d.kind = "receipt" => d \in receipts'
    /\ d.kind = "snapshot" => ~ Later(d.at, picture'.at)
    /\ picture'.at = picture.at \/ Later(picture'.at, picture.at)
    /\ CallsAgree' /\ JournalsAgree' /\ OneActive' /\ PictureIsFresh'
    /\ command' \in [Requests -> Unsettled \cup Final \cup {"absent"}]
    /\ receipts' \subseteq {e \in Letter : e.kind = "receipt"}
    /\ picture' \in [at : Nat \X Nat, control : {"ready", "refresh_required", "recovery_required"}]

LEMMA ReceiptHeeded ==
    ASSUME CommandInv, NEW d \in Sent, d \in echo \/ (outbox # << >> /\ d = Head(outbox)),
           d.kind = "receipt", ~ Refused(d), IngestReceipt(d), UNCHANGED <<mac, wire, call>>
    PROVE  Heeded(d)
<1>1. CommandTypeOK /\ CallsAgree /\ JournalsAgree /\ OneActive /\ PictureIsFresh
      /\ SaysRight(d) /\ d \in Letter
  BY BoxFacts DEF CommandInv, LettersAgree
<1>2. CASE d \in receipts /\ UNCHANGED <<command, receipts, picture>>
  <2>1. CallsAgree' /\ JournalsAgree' /\ OneActive' /\ PictureIsFresh'
    BY <1>1, <1>2 DEF CallsAgree, JournalsAgree, OneActive, PictureIsFresh, Untouched, Settled, Active
  <2> QED BY <1>1, <1>2, <2>1 DEF Heeded, CommandTypeOK
<1>3. CASE /\ outbox # << >> /\ d = Head(outbox)
           /\ receipts' = receipts \cup {d} /\ command' = [command EXCEPT ![d.request] = d.state]
           /\ picture' = (IF d.request \in Controls
                          THEN [picture EXCEPT !.control = ControlAfter(d)] ELSE picture)
           /\ ~ Settled(d.request)
           /\ d.state = "accepted" => \A f \in receipts : f.request # d.request
  <2> DEFINE r == d.request
  <2>1. r \in Commands /\ r \in Requests /\ mac.work[r] # "none"
        /\ (d.state # "accepted" => mac.work[r] \in Final /\ d = Outcome(r))
    BY <1>1 DEF SaysRight, Requests
  <2>2. d.state # "accepted" => d.state = mac.work[r] /\ d.state \in Final
    <3>1. Outcome(r).state = mac.work[r]
      BY DEF Outcome, Document
    <3> QED BY <2>1, <3>1
  <2>3. d.state \in Final \cup {"accepted"}
    BY <2>2
  <2>4. \A q \in Requests : command'[q] = (IF q = r THEN d.state ELSE command[q])
    BY <1>1, <1>3, <2>1 DEF CommandTypeOK
  <2>5. command' \in [Requests -> Unsettled \cup Final \cup {"absent"}]
    BY <1>1, <1>3, <2>1, <2>3 DEF CommandTypeOK, Unsettled
  <2>6. receipts' \subseteq {e \in Letter : e.kind = "receipt"}
    BY <1>1, <1>3 DEF CommandTypeOK
  <2>7. picture'.at = picture.at
        /\ picture' \in [at : Nat \X Nat, control : {"ready", "refresh_required", "recovery_required"}]
        /\ (r \in Controls => picture'.control = ControlAfter(d))
        /\ (r \notin Controls => picture' = picture)
    <3>1. ControlAfter(d) \in {"ready", "refresh_required", "recovery_required"}
      BY <1>1 DEF ControlAfter, CommandTypeOK
    <3>2. CASE r \in Controls
      BY <1>1, <1>3, <3>1, <3>2 DEF CommandTypeOK
    <3>3. CASE r \notin Controls
      BY <1>1, <1>3, <3>3 DEF CommandTypeOK
    <3> QED BY <3>2, <3>3
  <2>8. \A q \in Requests : Untouched(q)' <=> Untouched(q)
    BY DEF Untouched
  <2>9. ~ Untouched(r) /\ r \notin wire /\ d.state # "absent" /\ call[r] \notin {"prepared", "runner_offline"}
    BY <1>1, <2>1, <2>3 DEF Untouched, CallsAgree, Final
  <2>10. CallsAgree'
    BY <1>1, <2>4, <2>8, <2>9 DEF CallsAgree
  <2>11. \A q \in Requests \ {r} : Settled(q)' <=> Settled(q)
    BY <1>3 DEF Settled
  <2>12. Settled(r)' <=> d.state # "accepted"
    BY <1>3 DEF Settled
  <2>13. JournalsAgree'
    <3>1. ASSUME NEW q \in Commands
          PROVE  \/ Settled(q)' /\ command'[q] = mac'.work[q] /\ command'[q] \in Final
                 \/ ~ Settled(q)' /\ (command'[q] = "failed" => Untouched(q)')
                                  /\ command'[q] \in {"absent", "failed"} \cup Unsettled
      <4>1. CASE q = r
        BY <2>1, <2>2, <2>4, <2>12, <4>1 DEF Unsettled
      <4>2. CASE q # r
        BY <1>1, <2>4, <2>8, <2>11, <4>2 DEF JournalsAgree, Requests
      <4> QED BY <4>1, <4>2
    <3>2. ASSUME NEW q \in Reads
          PROVE  \/ command'[q] \in {"absent", "pending", "submitted", "unknown"}
                 \/ command'[q] \in {"confirmed", "failed"} /\ mac'.work[q] = command'[q]
                 \/ command'[q] = "failed" /\ Untouched(q)'
      <4>1. q # r /\ q \in Requests
        BY <2>1, CommandAssumption DEF Commands, Requests
      <4> QED BY <1>1, <2>4, <2>8, <4>1 DEF JournalsAgree
    <3> QED BY <3>1, <3>2 DEF JournalsAgree
  <2>14. OneActive'
    <3>1. command[r] \in Unsettled
      BY <1>1, <1>3, <2>1, <2>9 DEF JournalsAgree, CallsAgree, Untouched
    <3>2. Active' \subseteq Active
      BY <2>4, <3>1 DEF Active, Requests, Commands
    <3> QED BY <1>1, <3>2 DEF OneActive
  <2>15. PictureIsFresh'
    <3> SUFFICES ASSUME picture'.control = "ready", NEW f \in receipts', f.request \in Controls, f.state = "confirmed"
                 PROVE  picture'.at[1] >= f.at[1]
      BY DEF PictureIsFresh
    <3>1. f # d
      BY <2>7 DEF ControlAfter
    <3>2. f \in receipts
      BY <1>3, <3>1
    <3>3. picture.control = "ready"
      BY <1>1, <2>7 DEF ControlAfter, CommandTypeOK
    <3> QED BY <1>1, <2>7, <3>2, <3>3 DEF PictureIsFresh
  <2> QED BY <1>3, <2>5, <2>6, <2>7, <2>10, <2>13, <2>14, <2>15 DEF Heeded
<1> QED BY <1>2, <1>3, ReceiptIn

LEMMA SnapshotHeeded ==
    ASSUME CommandInv, NEW d \in Sent, d \in echo \/ (outbox # << >> /\ d = Head(outbox)),
           d.kind = "snapshot", IngestSnapshot(d), UNCHANGED <<mac, wire, call>>
    PROVE  Heeded(d)
<1>1. CommandTypeOK /\ CallsAgree /\ JournalsAgree /\ OneActive /\ PictureIsFresh
      /\ EchoesAreOld /\ StoredAfterAccepted /\ d \in Letter /\ UNCHANGED <<command, receipts>>
  BY BoxFacts DEF CommandInv, IngestSnapshot
<1>2. CallsAgree' /\ JournalsAgree' /\ OneActive'
  BY <1>1 DEF CallsAgree, JournalsAgree, OneActive, Untouched, Settled, Active
<1>3. d.at \in Nat \X Nat /\ picture.at \in Nat \X Nat
  BY <1>1 DEF Letter, CommandTypeOK
<1>4. CASE ~ Later(d.at, picture.at)
  <2>1. picture' = picture
    BY <1>4 DEF IngestSnapshot
  <2>2. PictureIsFresh'
    BY <1>1, <2>1 DEF PictureIsFresh
  <2> QED BY <1>1, <1>2, <1>4, <2>1, <2>2 DEF Heeded, CommandTypeOK
<1>5. CASE Later(d.at, picture.at)
  <2>1. picture' = [at |-> d.at, control |-> "ready"]
    BY <1>5 DEF IngestSnapshot
  <2>2. picture'.at = d.at /\ ~ Later(d.at, picture'.at)
    BY <1>3, <2>1, LaterFacts
  <2>3. picture' \in [at : Nat \X Nat, control : {"ready", "refresh_required", "recovery_required"}]
    BY <1>3, <2>1
  <2>4. 1 \in DOMAIN outbox /\ d = outbox[1]
    BY <1>1, <1>5, BoxFacts DEF EchoesAreOld
  <2>5. PictureIsFresh'
    <3> SUFFICES ASSUME NEW f \in receipts, f.state = "confirmed" PROVE d.at[1] >= f.at[1]
      BY <1>1, <2>2 DEF PictureIsFresh
    <3> QED BY <1>1, <2>4 DEF StoredAfterAccepted
  <2> QED BY <1>1, <1>2, <1>5, <2>2, <2>3, <2>5 DEF Heeded, CommandTypeOK
<1> QED BY <1>4, <1>5

LEMMA ResultHeeded ==
    ASSUME CommandInv, NEW d \in Sent, d.kind = "result", IngestResult(d) \/ StoredOnly(d), UNCHANGED <<mac, wire, call>>
    PROVE  Heeded(d)
<1>1. CommandTypeOK /\ CallsAgree /\ JournalsAgree /\ OneActive /\ PictureIsFresh
      /\ SaysRight(d) /\ UNCHANGED <<receipts, picture>>
  BY DEF CommandInv, LettersAgree, IngestResult, StoredOnly
<1> DEFINE r == d.request
<1>2. r \in Reads /\ r \in Requests /\ mac.work[r] = d.state /\ d.state \in {"confirmed", "failed"}
  BY <1>1 DEF SaysRight, Requests
<1>3. \/ command' = command
      \/ command[r] \in {"pending", "submitted", "unknown"} /\ command' = [command EXCEPT ![r] = d.state]
  BY DEF IngestResult, StoredOnly
<1>4. \A q \in Requests \ {r} : command'[q] = command[q]
  BY <1>1, <1>3 DEF CommandTypeOK
<1>5. command'[r] = command[r] \/ command'[r] = d.state
  BY <1>1, <1>2, <1>3 DEF CommandTypeOK
<1>6. command' \in [Requests -> Unsettled \cup Final \cup {"absent"}]
  BY <1>1, <1>2, <1>3 DEF CommandTypeOK, Final
<1>7. \A q \in Requests : (Untouched(q)' <=> Untouched(q)) /\ (Settled(q)' <=> Settled(q))
  BY <1>1 DEF Untouched, Settled
<1>8. ~ Untouched(r) /\ r \notin wire /\ call[r] \notin {"prepared", "runner_offline"}
  BY <1>1, <1>2 DEF Untouched, CallsAgree
<1>9. CallsAgree'
  BY <1>1, <1>2, <1>4, <1>5, <1>7, <1>8 DEF CallsAgree
<1>10. r \notin Commands
  BY <1>2, CommandAssumption DEF Commands
<1>11. JournalsAgree'
  <2>1. ASSUME NEW q \in Commands
        PROVE  \/ Settled(q)' /\ command'[q] = mac'.work[q] /\ command'[q] \in Final
               \/ ~ Settled(q)' /\ (command'[q] = "failed" => Untouched(q)')
                                /\ command'[q] \in {"absent", "failed"} \cup Unsettled
    <3>1. q \in Requests \ {r}
      BY <1>10 DEF Requests
    <3> QED BY <1>1, <1>4, <1>7, <3>1 DEF JournalsAgree
  <2>2. ASSUME NEW q \in Reads
        PROVE  \/ command'[q] \in {"absent", "pending", "submitted", "unknown"}
               \/ command'[q] \in {"confirmed", "failed"} /\ mac'.work[q] = command'[q]
               \/ command'[q] = "failed" /\ Untouched(q)'
    <3>1. CASE q = r /\ command'[q] = d.state
      BY <1>2, <3>1
    <3>2. CASE command'[q] = command[q]
      BY <1>1, <1>7, <3>2 DEF JournalsAgree, Requests
    <3> QED BY <1>4, <1>5, <3>1, <3>2 DEF Requests
  <2> QED BY <2>1, <2>2 DEF JournalsAgree
<1>12. OneActive' /\ PictureIsFresh'
  <2>1. Active' = Active
    BY <1>4, <1>10 DEF Active, Requests, Commands
  <2> QED BY <1>1, <2>1 DEF OneActive, PictureIsFresh
<1> QED BY <1>1, <1>6, <1>9, <1>11, <1>12 DEF Heeded, CommandTypeOK

-----------------------------------------------------------------------------
(* The outbox is as it was, or its head is acknowledged.                     *)

LEMMA BoxKeeps ==
    ASSUME CommandInv, NEW d \in Sent, Heeded(d), UNCHANGED mac, NEW k \in {0, 1},
           outbox' \in Seq(Letter),
           \A i \in DOMAIN outbox' : i + k \in DOMAIN outbox /\ outbox'[i] = outbox[i + k],
           \A i \in DOMAIN outbox : i # 1 \/ k = 0 => \E j \in DOMAIN outbox' : outbox'[j] = outbox[i],
           k = 1 => outbox # << >> /\ d = Head(outbox),
           k = 0 => outbox' = outbox,
           echo' \subseteq Sent,
           \A e \in echo' : e \in echo \/ (k = 0 /\ e = Head(outbox) /\ outbox # << >>)
    PROVE  LettersAgree' /\ StoredAfterAccepted' /\ EchoesAreOld'
<1>1. CommandTypeOK /\ LettersAgree /\ StoredAfterAccepted /\ EchoesAreOld
  BY DEF CommandInv
<1>2. /\ DOMAIN outbox = 1 .. Len(outbox) /\ Len(outbox) \in Nat
      /\ \A i \in DOMAIN outbox : outbox[i] \in Letter /\ outbox[i] \in Sent
      /\ outbox # << >> => Head(outbox) = outbox[1] /\ 1 \in DOMAIN outbox
  BY <1>1, BoxFacts
<1>3. DOMAIN outbox' = 1 .. Len(outbox') /\ Len(outbox') \in Nat
  BY LenProperties
<1>4. Sent' \subseteq Sent
  BY <1>2 DEF Sent
<1>5. receipts' \subseteq receipts \cup {d} /\ receipts \subseteq receipts'
      /\ Sent' \cup receipts' \subseteq Sent \cup receipts
  BY <1>4 DEF Heeded
<1>6. \A e \in Sent' \cup receipts' : SaysRight(e)'
  BY <1>1, <1>5 DEF LettersAgree, SaysRight, Outcome
<1>7. ASSUME NEW a \in Sent' \cup receipts', NEW e \in Sent' \cup receipts', Accepted(a), Accepted(e),
             a.request = e.request
      PROVE  a = e
  BY <1>1, <1>5, <1>7 DEF LettersAgree
<1>8. ASSUME NEW i \in DOMAIN outbox', NEW j \in DOMAIN outbox', i < j
      PROVE  /\ outbox'[i].kind # "result" /\ outbox'[j].kind # "result" =>
                outbox'[i].at[1] <= outbox'[j].at[1]
             /\ outbox'[i].kind = "receipt" /\ outbox'[i].state # "accepted" =>
                ~ (Accepted(outbox'[j]) /\ outbox'[j].request = outbox'[i].request)
  <2>1. i + k \in DOMAIN outbox /\ j + k \in DOMAIN outbox /\ i + k < j + k
        /\ outbox'[i] = outbox[i + k] /\ outbox'[j] = outbox[j + k]
    BY <1>3, <1>8
  <2> QED BY <1>1, <2>1 DEF LettersAgree
<1>9. ASSUME NEW q \in Commands, mac.work[q] \in Final
      PROVE  Outcome(q) \in receipts' \/ \E i \in DOMAIN outbox' : outbox'[i] = Outcome(q)
  <2>1. CASE Outcome(q) \in receipts
    BY <1>5, <2>1
  <2>2. CASE \E i \in DOMAIN outbox : outbox[i] = Outcome(q)
    <3>1. PICK i \in DOMAIN outbox : outbox[i] = Outcome(q)
      BY <2>2
    <3>2. CASE i # 1 \/ k = 0
      BY <3>1, <3>2
    <3>3. CASE i = 1 /\ k = 1
      <4>1. d = Outcome(q) /\ d.kind = "receipt"
        BY <1>2, <3>1, <3>3 DEF Outcome, Document
      <4> QED BY <4>1 DEF Heeded
    <3> QED BY <3>2, <3>3
  <2> QED BY <1>1, <1>9, <2>1, <2>2 DEF LettersAgree
<1>10. LettersAgree'
  <2>1. \A q \in Commands : mac'.work[q] = mac.work[q] /\ Outcome(q)' = Outcome(q)
    BY DEF Outcome
  <2>2. \A q \in Commands : mac'.work[q] \in Final =>
           Outcome(q)' \in receipts' \/ \E i \in DOMAIN outbox' : outbox'[i] = Outcome(q)'
    BY <1>9, <2>1
  <2> QED BY <1>6, <1>7, <1>8, <2>2 DEF LettersAgree, Accepted
<1>11. StoredAfterAccepted'
  <2> SUFFICES ASSUME NEW f \in receipts', f.state # "accepted", NEW i \in DOMAIN outbox'
               PROVE  /\ ~ (Accepted(outbox'[i]) /\ outbox'[i].request = f.request)
                      /\ outbox'[i].kind = "snapshot" => outbox'[i].at[1] >= f.at[1]
    BY DEF StoredAfterAccepted, Accepted
  <2>1. i + k \in DOMAIN outbox /\ outbox'[i] = outbox[i + k]
    OBVIOUS
  <2>2. CASE f \in receipts
    BY <1>1, <2>1, <2>2 DEF StoredAfterAccepted
  <2>3. CASE f \notin receipts
    <3>1. f = outbox[1] /\ f.kind = "receipt" /\ 1 \in DOMAIN outbox /\ f \in Letter
      BY <1>2, <2>3 DEF Heeded
    <3>2. CASE i + k = 1
      BY <2>1, <3>1, <3>2 DEF Accepted
    <3>3. CASE i + k # 1
      <4>1. 1 < i + k /\ outbox[i + k] \in Letter
        BY <1>2, <1>3, <2>1, <3>3
      <4>2. /\ outbox[i + k].kind # "result" => f.at[1] <= outbox[i + k].at[1]
            /\ ~ (Accepted(outbox[i + k]) /\ outbox[i + k].request = f.request)
        BY <1>1, <2>1, <3>1, <4>1 DEF LettersAgree
      <4>3. f.at[1] \in Nat /\ outbox[i + k].at[1] \in Nat
        BY <3>1, <4>1 DEF Letter
      <4> QED BY <2>1, <4>2, <4>3
    <3> QED BY <3>2, <3>3
  <2> QED BY <2>2, <2>3
<1>12. EchoesAreOld'
  <2> SUFFICES ASSUME NEW e \in echo'
               PROVE  \/ outbox' # << >> /\ e = Head(outbox')
                      \/ /\ e.kind = "receipt" => e \in receipts'
                         /\ e.kind = "snapshot" => ~ Later(e.at, picture'.at)
    BY DEF EchoesAreOld, Later
  <2>1. CASE outbox # << >> /\ e = Head(outbox)
    BY <2>1 DEF Heeded
  <2>2. CASE e \in echo /\ ~ (outbox # << >> /\ e = Head(outbox))
    <3>1. /\ e.kind = "receipt" => e \in receipts
          /\ e.kind = "snapshot" => ~ Later(e.at, picture.at)
      BY <1>1, <2>2 DEF EchoesAreOld
    <3>2. e.at \in Nat \X Nat /\ picture.at \in Nat \X Nat
      BY <1>1, <2>2 DEF CommandTypeOK, Letter
    <3>3. picture'.at \in Nat \X Nat
      BY DEF Heeded
    <3>4. e.kind = "snapshot" => ~ Later(e.at, picture'.at)
      <4>1. PICK a \in Nat \X Nat : a = picture'.at
        BY <3>3
      <4>2. a = picture.at \/ Later(a, picture.at)
        BY <4>1 DEF Heeded
      <4> QED BY <3>1, <3>2, <4>1, <4>2, LaterFacts
    <3> QED BY <1>5, <3>1, <3>4
  <2> QED BY <2>1, <2>2
<1> QED BY <1>10, <1>11, <1>12

LEMMA InComes ==
    ASSUME CommandInv, NEW d \in Sent, d \in echo \/ (outbox # << >> /\ d = Head(outbox)),
           ~ Refused(d), Ingest(d) \/ StoredOnly(d), UNCHANGED <<mac, wire, call>>
    PROVE  Heeded(d)
<1>1. d \in Letter /\ d.kind \in {"receipt", "result", "snapshot"}
  BY BoxFacts DEF CommandInv, Letter
<1>2. CASE d.kind = "receipt"
  <2>1. IngestReceipt(d)
    BY <1>2 DEF Ingest, StoredOnly
  <2> QED BY <1>2, <2>1, ReceiptHeeded
<1>3. CASE d.kind = "snapshot"
  <2>1. IngestSnapshot(d)
    BY <1>3 DEF Ingest, StoredOnly
  <2> QED BY <1>3, <2>1, SnapshotHeeded
<1>4. CASE d.kind = "result"
  <2>1. IngestResult(d) \/ StoredOnly(d)
    BY <1>4 DEF Ingest
  <2> QED BY <1>4, <2>1, ResultHeeded
<1> QED BY <1>1, <1>2, <1>3, <1>4

\* The head as if it had come in, when nothing does.
LEMMA NothingComes ==
    ASSUME CommandInv, UNCHANGED <<command, call, receipts, picture, mac, wire>>
    PROVE  /\ CallsAgree' /\ JournalsAgree' /\ OneActive' /\ PictureIsFresh'
BY DEF CommandInv, CallsAgree, JournalsAgree, OneActive, PictureIsFresh, Untouched, Settled, Active

LEMMA EchoesKept ==
    ASSUME CommandInv, UNCHANGED <<receipts, picture, mac, outbox>>, echo' \subseteq Sent,
           \A e \in echo' : e \in echo \/ (e = Head(outbox) /\ outbox # << >>)
    PROVE  LettersAgree' /\ StoredAfterAccepted' /\ EchoesAreOld'
<1>1. LettersAgree /\ StoredAfterAccepted /\ EchoesAreOld
  BY DEF CommandInv
<1>2. Sent' \subseteq Sent
  BY DEF Sent
<1>3. LettersAgree'
  BY <1>1, <1>2 DEF LettersAgree, SaysRight, Outcome, Accepted
<1> QED BY <1>1, <1>3 DEF StoredAfterAccepted, EchoesAreOld, Accepted, Later

LEMMA DocumentsIn ==
    ASSUME CommandInv, Deliver \/ AckLost \/ ConnectionBreaks \/ \E d \in echo : DeliverEcho(d)
    PROVE  CommandInv'
<1>1. /\ CommandTypeOK /\ outbox \in Seq(Letter) /\ echo \subseteq Sent /\ Sent \subseteq Letter
      /\ DOMAIN outbox = 1 .. Len(outbox) /\ Len(outbox) \in Nat
      /\ outbox # << >> => Head(outbox) = outbox[1] /\ 1 \in DOMAIN outbox /\ Head(outbox) \in Sent
  BY BoxFacts DEF CommandInv, CommandTypeOK, Sent
<1>2. ASSUME NEW d \in Sent, Heeded(d), UNCHANGED <<call, base, wire, mac>>,
             outbox' \in Seq(Letter), echo' \subseteq Letter,
             LettersAgree' /\ StoredAfterAccepted' /\ EchoesAreOld'
      PROVE  CommandInv'
  <2>1. CommandTypeOK'
    BY <1>1, <1>2 DEF Heeded, CommandTypeOK
  <2> QED BY <1>2, <2>1 DEF Heeded, CommandInv
<1>3. CASE Deliver
  <2>1. /\ outbox # << >> /\ ~ Refused(Head(outbox)) /\ Ingest(Head(outbox)) /\ outbox' = Tail(outbox)
        /\ UNCHANGED <<call, base, wire, mac, echo>>
    BY <1>3 DEF Deliver
  <2>2. PICK d \in Sent : d = Head(outbox)
    BY <1>1, <2>1
  <2>3. ~ Refused(d) /\ Ingest(d)
    BY <2>1, <2>2
  <2>4. Heeded(d)
    BY <2>1, <2>2, <2>3, InComes
  <2>5. /\ outbox' \in Seq(Letter) /\ Len(outbox') = Len(outbox) - 1
        /\ \A i \in 1 .. (Len(outbox) - 1) : outbox'[i] = outbox[i + 1]
    BY <1>1, <2>1, HeadTailProperties
  <2>6. DOMAIN outbox' = 1 .. (Len(outbox) - 1)
    BY <2>5, LenProperties
  <2>7. \A i \in DOMAIN outbox' : i + 1 \in DOMAIN outbox /\ outbox'[i] = outbox[i + 1]
    BY <1>1, <2>5, <2>6
  <2>8. ASSUME NEW i \in DOMAIN outbox, i # 1 PROVE \E j \in DOMAIN outbox' : outbox'[j] = outbox[i]
    <3>1. i - 1 \in DOMAIN outbox' /\ (i - 1) + 1 = i
      BY <1>1, <2>6, <2>8
    <3>2. outbox'[i - 1] = outbox[i]
      BY <2>7, <3>1
    <3> QED BY <3>1, <3>2
  <2>9. LettersAgree' /\ StoredAfterAccepted' /\ EchoesAreOld'
    <3>1. PICK k \in {0, 1} : k = 1
      OBVIOUS
    <3>2. \A i \in DOMAIN outbox' : i + k \in DOMAIN outbox /\ outbox'[i] = outbox[i + k]
      BY <2>7, <3>1
    <3>3. \A i \in DOMAIN outbox : i # 1 \/ k = 0 => \E j \in DOMAIN outbox' : outbox'[j] = outbox[i]
      BY <2>8, <3>1
    <3>4. (k = 1 => outbox # << >> /\ d = Head(outbox)) /\ (k = 0 => outbox' = outbox)
      BY <2>1, <2>2, <3>1
    <3>5. echo' \subseteq Sent /\ \A e \in echo' : e \in echo \/ (k = 0 /\ e = Head(outbox) /\ outbox # << >>)
      BY <1>1, <2>1
    <3> QED BY <2>1, <2>4, <2>5, <3>2, <3>3, <3>4, <3>5, BoxKeeps
  <2>10. echo' \subseteq Letter
    BY <1>1, <2>1
  <2> QED BY <1>2, <2>1, <2>4, <2>5, <2>9, <2>10
<1>4. ASSUME NEW d \in Sent, Heeded(d), UNCHANGED <<mac, outbox>>, echo' \subseteq echo
      PROVE  LettersAgree' /\ StoredAfterAccepted' /\ EchoesAreOld' /\ outbox' \in Seq(Letter) /\ echo' \subseteq Letter
  <2>1. PICK k \in {0, 1} : k = 0
    OBVIOUS
  <2>2. \A i \in DOMAIN outbox' : i + k \in DOMAIN outbox /\ outbox'[i] = outbox[i + k]
    BY <1>1, <1>4, <2>1
  <2>3. \A i \in DOMAIN outbox : i # 1 \/ k = 0 => \E j \in DOMAIN outbox' : outbox'[j] = outbox[i]
    BY <1>4
  <2>4. (k = 1 => outbox # << >> /\ d = Head(outbox)) /\ (k = 0 => outbox' = outbox) /\ outbox' \in Seq(Letter)
    BY <1>1, <1>4, <2>1
  <2>5. echo' \subseteq Sent /\ \A e \in echo' : e \in echo \/ (k = 0 /\ e = Head(outbox) /\ outbox # << >>)
    BY <1>1, <1>4
  <2>6. LettersAgree' /\ StoredAfterAccepted' /\ EchoesAreOld'
    BY <1>4, <2>2, <2>3, <2>4, <2>5, BoxKeeps
  <2> QED BY <1>1, <1>4, <2>4, <2>6
<1>5. CASE AckLost
  <2>1. /\ outbox # << >> /\ ~ Refused(Head(outbox)) /\ (Ingest(Head(outbox)) \/ StoredOnly(Head(outbox)))
        /\ UNCHANGED <<call, base, wire, mac, outbox, echo>>
    BY <1>5 DEF AckLost
  <2>2. PICK d \in Sent : d = Head(outbox)
    BY <1>1, <2>1
  <2>3. ~ Refused(d) /\ (Ingest(d) \/ StoredOnly(d))
    BY <2>1, <2>2
  <2>4. Heeded(d)
    BY <2>1, <2>2, <2>3, InComes
  <2> QED BY <1>2, <1>4, <2>1, <2>4
<1>6. ASSUME UNCHANGED <<command, call, receipts, picture, base, mac, wire, outbox>>, echo' \subseteq Sent,
             \A e \in echo' : e \in echo \/ (e = Head(outbox) /\ outbox # << >>)
      PROVE  CommandInv'
  <2>1. CommandTypeOK'
    BY <1>1, <1>6 DEF CommandTypeOK
  <2>2. CallsAgree' /\ JournalsAgree' /\ OneActive' /\ PictureIsFresh'
    BY <1>6, NothingComes
  <2>3. LettersAgree' /\ StoredAfterAccepted' /\ EchoesAreOld'
    BY <1>6, EchoesKept
  <2> QED BY <2>1, <2>2, <2>3 DEF CommandInv
<1>7. CASE ConnectionBreaks
  BY <1>1, <1>6, <1>7 DEF ConnectionBreaks, controllerVars
<1>8. ASSUME NEW d \in echo, DeliverEcho(d) PROVE CommandInv'
  <2>1. d \in Sent /\ echo' = echo \ {d} /\ UNCHANGED <<call, base, wire, mac, outbox>>
    BY <1>1, <1>8 DEF DeliverEcho
  <2>2. CASE Refused(d)
    <3>1. UNCHANGED <<command, receipts, picture>>
      BY <1>8, <2>2 DEF DeliverEcho, controllerVars
    <3> QED BY <1>1, <1>6, <2>1, <3>1
  <2>3. CASE ~ Refused(d)
    <3>1. Ingest(d)
      BY <1>8, <2>3 DEF DeliverEcho
    <3>2. Heeded(d)
      BY <2>1, <2>3, <3>1, InComes
    <3>3. echo' \subseteq echo
      BY <2>1
    <3> QED BY <1>2, <1>4, <2>1, <3>2, <3>3
  <2> QED BY <2>2, <2>3
<1> QED BY <1>3, <1>5, <1>7, <1>8

LEMMA CommandStepInv == CommandInv /\ [DesktopNext]_desktopVars => CommandInv'
<1> SUFFICES ASSUME CommandInv, [DesktopNext]_desktopVars PROVE CommandInv'
  OBVIOUS
<1>1. CASE UNCHANGED desktopVars
  <2>1. UNCHANGED <<command, call, receipts, picture, base, wire, mac, outbox, echo>>
    BY <1>1 DEF desktopVars
  <2>2. CommandTypeOK' /\ CallsAgree' /\ JournalsAgree' /\ OneActive'
    BY <2>1 DEF CommandInv, CommandTypeOK, CallsAgree, JournalsAgree, OneActive, Untouched, Settled, Active
  <2> QED BY <2>1, <2>2, CallMoves
<1>2. ASSUME NEW r \in Requests, Prepare(r) \/ Publish(r) \/ Mark(r) \/ Sweep(r) PROVE CommandInv'
  BY <1>2, CallsKeep
<1>3. ASSUME NEW r \in Requests, TakeCommand(r) PROVE CommandInv'
  BY <1>3, TakesAgree
<1>4. ASSUME NEW r \in Requests, NEW s \in Final, FinishCommand(r, s) PROVE CommandInv'
  BY <1>4, EndsAgree
<1>5. CASE OwnerWorks \/ \E r \in Requests : LoseCommand(r)
  BY <1>5, OwnerStep
<1>6. CASE RestartController
  BY <1>6, RestartKeeps
<1>7. CASE TakeSnapshot
  BY <1>7, SnapshotsAgree
<1>8. CASE Deliver \/ AckLost \/ ConnectionBreaks \/ \E d \in echo : DeliverEcho(d)
  BY <1>8, DocumentsIn
<1> QED BY <1>1, <1>2, <1>3, <1>4, <1>5, <1>6, <1>7, <1>8 DEF DesktopNext

LEMMA OrderFromInv == CommandInv => ControlInOrder
<1> SUFFICES ASSUME CommandInv PROVE ControlInOrder
  OBVIOUS
<1>1. CommandTypeOK /\ LettersAgree /\ CallsAgree /\ JournalsAgree /\ OneActive /\ PictureIsFresh
  BY DEF CommandInv
<1>2. ASSUME NEW r \in AtTheMac PROVE r \in Active
  <2>1. r \in Controls /\ r \in Commands /\ r \in Requests /\ (r \in wire \/ mac.work[r] = "working")
    BY <1>2 DEF AtTheMac, Requests, Commands
  <2>2. CASE r \in wire
    BY <1>1, <2>1, <2>2 DEF CallsAgree, Active, Unsettled
  <2>3. CASE mac.work[r] = "working"
    <3>1. ~ Untouched(r)
      BY <2>3 DEF Untouched
    <3>2. command[r] \in Unsettled
      BY <1>1, <2>1, <2>3, <3>1 DEF JournalsAgree, CallsAgree, Final
    <3> QED BY <2>1, <3>2 DEF Active
  <2> QED BY <2>1, <2>2, <2>3
<1>3. Cardinality(AtTheMac) <= 1
  <2>1. CASE AtTheMac = {}
    <3>1. Cardinality(AtTheMac) = 0
      BY <2>1, FS_EmptySet
    <3> QED BY <3>1
  <2>2. CASE AtTheMac # {}
    <3>1. PICK r \in AtTheMac : TRUE
      BY <2>2
    <3>2. AtTheMac = {r}
      BY <1>1, <1>2, <3>1 DEF OneActive
    <3>3. Cardinality(AtTheMac) = 1
      BY <3>2, FS_Singleton
    <3> QED BY <3>3
  <2> QED BY <2>1, <2>2
<1>4. ASSUME picture.control = "ready", NEW r \in Controls, command[r] = "confirmed"
      PROVE  picture.at[1] >= mac.at[r]
  <2>1. r \in Commands /\ Settled(r)
    BY <1>1, <1>4 DEF Commands, JournalsAgree, Unsettled
  <2>2. PICK f \in receipts : f.request = r /\ f.state # "accepted"
    BY <2>1 DEF Settled
  <2>3. command[r] = mac.work[r]
    BY <1>1, <2>1 DEF JournalsAgree
  <2>4. f = Outcome(r)
    BY <1>1, <2>2 DEF LettersAgree, SaysRight, CommandTypeOK
  <2>5. f.state = "confirmed" /\ f.at[1] = mac.at[r]
    BY <1>4, <2>3, <2>4 DEF Outcome, Document
  <2> QED BY <1>1, <1>4, <2>2, <2>5 DEF PictureIsFresh
<1> QED BY <1>3, <1>4 DEF ControlInOrder

LEMMA JournalFromInv == CommandInv => JournalTellsTheMac
<1> SUFFICES ASSUME CommandInv PROVE JournalTellsTheMac
  OBVIOUS
<1>1. CommandTypeOK /\ LettersAgree /\ StoredAfterAccepted /\ JournalsAgree
  BY DEF CommandInv
<1>2. ASSUME NEW r \in Requests
      PROVE  /\ command[r] = "failed" =>
                  mac.work[r] = "failed" \/ (mac.work[r] = "none" /\ r \notin wire)
             /\ command[r] \in Final \ {"failed", "unknown"} => mac.work[r] = command[r]
  <2>1. CASE r \in Commands
    BY <1>1, <2>1 DEF JournalsAgree, Untouched, Final, Unsettled
  <2>2. CASE r \in Reads
    BY <1>1, <2>2 DEF JournalsAgree, Untouched, Final
  <2> QED BY <2>1, <2>2 DEF Requests
<1>3. ASSUME NEW r \in Requests, outbox = << >>, mac.work[r] \in Final, r \notin Reads
      PROVE  command[r] = mac.work[r]
  <2>1. r \in Commands /\ DOMAIN outbox = {}
    BY <1>3, EmptySeq DEF Requests
  <2>2. Outcome(r) \in receipts
    BY <1>1, <1>3, <2>1 DEF LettersAgree
  <2>3. Outcome(r).request = r /\ Outcome(r).state = mac.work[r] /\ mac.work[r] # "accepted"
    BY <1>3 DEF Outcome, Document, Final
  <2>4. Settled(r)
    BY <2>2, <2>3 DEF Settled
  <2> QED BY <1>1, <2>1, <2>4 DEF JournalsAgree
<1>4. ASSUME outbox # << >>, Refused(Head(outbox)) PROVE FALSE
  <2>1. PICK d : d = Head(outbox)
    OBVIOUS
  <2>2. 1 \in DOMAIN outbox /\ d = outbox[1] /\ d \in Sent /\ d \in Letter
    BY <1>1, <1>4, <2>1, BoxFacts
  <2>3. d.kind = "receipt" /\ d \notin receipts /\ (Settled(d.request) \/ d.state = "accepted")
        /\ (\E f \in receipts : f.request = d.request)
    BY <1>4, <2>1 DEF Refused, Duplicate, Settled, HasFinal, Stored
  <2>4. CASE d.state # "accepted"
    <3>1. PICK f \in receipts : f.request = d.request /\ f.state # "accepted"
      BY <2>3, <2>4 DEF Settled
    <3>2. d = Outcome(d.request) /\ f = Outcome(d.request)
      BY <1>1, <2>2, <2>3, <2>4, <3>1 DEF LettersAgree, SaysRight, CommandTypeOK
    <3> QED BY <2>3, <3>2
  <2>5. CASE d.state = "accepted"
    <3>1. PICK f \in receipts : f.request = d.request
      BY <2>3
    <3>2. f.state = "accepted"
      BY <1>1, <2>2, <2>3, <2>5, <3>1 DEF StoredAfterAccepted, Accepted
    <3>3. Accepted(d) /\ Accepted(f)
      BY <1>1, <2>3, <2>5, <3>2 DEF Accepted, CommandTypeOK
    <3>4. d = f
      BY <1>1, <2>2, <3>1, <3>3 DEF LettersAgree
    <3> QED BY <2>3, <3>4
  <2> QED BY <2>4, <2>5
<1> QED BY <1>2, <1>3, <1>4 DEF JournalTellsTheMac

\* At most one control command is on its way to the Mac or at work there, and
\* the task is ready again only on a picture that has seen the last outcome,
\* for any requests, documents, restarts and broken connections
\* (desktop_service._submit_locked, desktop_store.active_command).
THEOREM OneCommandAtATime == DesktopSpec => []ControlInOrder
<1>1. DesktopInit => CommandInv
  BY CommandInitInv
<1>2. CommandInv /\ [DesktopNext]_desktopVars => CommandInv'
  BY CommandStepInv
<1>3. CommandInv => ControlInOrder
  BY OrderFromInv
<1> QED BY <1>1, <1>2, <1>3, PTL DEF DesktopSpec

\* What the journals say of a request is what happened at the Mac, and the
\* head of the outbox is never refused (desktop_store.ingest_receipt,
\* _DesktopCreateJournal.ingest_receipt, desktop_service.receive).
THEOREM JournalsAreTrue == DesktopSpec => []JournalTellsTheMac
<1>1. DesktopInit => CommandInv
  BY CommandInitInv
<1>2. CommandInv /\ [DesktopNext]_desktopVars => CommandInv'
  BY CommandStepInv
<1>3. CommandInv => JournalTellsTheMac
  BY JournalFromInv
<1> QED BY <1>1, <1>2, <1>3, PTL DEF DesktopSpec
=============================================================================
