--------------------------- MODULE RunnerRelay ---------------------------
(***************************************************************************)
(* The Codex Runner Relay: the WebSocket handlers of the Runners, the      *)
(* reservations they take before they are authenticated, the table of live *)
(* connections, and publishing to a Runner.  A handler may stop at every   *)
(* await while its socket closes; each use of the table is one lock        *)
(* section.                                                                *)
(***************************************************************************)
EXTENDS Naturals, FiniteSets

CONSTANTS Handlers,        \* concurrent requests to the WebSocket endpoint
          Runners,
          MaxConnections   \* max_connections

ASSUME RelayAssumption == Runners # {} /\ "none" \notin Handlers /\ MaxConnections \in Nat

VARIABLES phase,       \* where each handler is
          runner,      \* the Runner its first frame named
          open,        \* handlers whose socket is open
          connections, \* RelayHub.connections: Runner -> handler
          pendingConnections, pendingRunners,
          publishing   \* the handler a publish to the Runner has looked up

relayVars == <<phase, runner, open, connections, pendingConnections,
               pendingRunners, publishing>>

NoHandler == "none"
Connected == {r \in Runners : connections[r] # NoHandler}
Goes(h, p) == phase' = [phase EXCEPT ![h] = p]

\* _reserve_connection; at capacity the request is turned away with a 503.
AcceptSocket(h) ==
  /\ phase[h] = "idle"
  /\ Cardinality(Connected) + pendingConnections < MaxConnections
  /\ pendingConnections' = pendingConnections + 1
  /\ Goes(h, "reserved") /\ open' = open \cup {h}
  /\ UNCHANGED <<runner, connections, pendingRunners, publishing>>

\* A valid first frame, then _reserve_runner: an open connection of the
\* Runner, or another handler about to have one, keeps this one out.
Taken(r) == (connections[r] # NoHandler /\ connections[r] \in open) \/ r \in pendingRunners

FirstFrame(h, r) ==
  /\ phase[h] = "reserved" /\ h \in open
  /\ runner' = [runner EXCEPT ![h] = r]
  /\ IF Taken(r)
     THEN Goes(h, "refused") /\ UNCHANGED pendingRunners
     ELSE Goes(h, "named") /\ pendingRunners' = pendingRunners \cup {r}
  /\ UNCHANGED <<open, connections, pendingConnections, publishing>>

\* The Controller enrolls or authenticates the Runner; _activate.
Activate(h) ==
  /\ phase[h] = "named"
  /\ connections' = [connections EXCEPT ![runner[h]] = h]
  /\ pendingRunners' = pendingRunners \ {runner[h]}
  /\ pendingConnections' = pendingConnections - 1
  /\ Goes(h, "active")
  /\ UNCHANGED <<runner, open, publishing>>

\* No first frame in time, a bad one, a Runner already connected, or the
\* Controller's refusal: the error is sent, the reservations are released.
Release(h) ==
  /\ phase[h] \in {"reserved", "named", "refused"}
  /\ pendingRunners' = IF phase[h] = "named" THEN pendingRunners \ {runner[h]} ELSE pendingRunners
  /\ pendingConnections' = IF pendingConnections > 0 THEN pendingConnections - 1 ELSE 0
  /\ Goes(h, "idle") /\ open' = open \ {h}
  /\ UNCHANGED <<runner, connections, publishing>>

\* An event of the Runner is posted to the Controller, acknowledged or not.
Post(h) ==
  /\ phase[h] = "active" /\ h \in open
  /\ Goes(h, "posting")
  /\ UNCHANGED <<runner, open, connections, pendingConnections, pendingRunners, publishing>>
Acknowledge(h) ==
  /\ phase[h] = "posting" /\ Goes(h, "active")
  /\ UNCHANGED <<runner, open, connections, pendingConnections, pendingRunners, publishing>>
RejectEvent(h) ==
  /\ phase[h] = "posting" /\ Goes(h, "active") /\ open' = open \ {h}
  /\ UNCHANGED <<runner, connections, pendingConnections, pendingRunners, publishing>>

\* The socket closes: the peer is gone, or missed a heartbeat.
Close(h) ==
  /\ h \in open /\ open' = open \ {h}
  /\ UNCHANGED <<phase, runner, connections, pendingConnections, pendingRunners, publishing>>

\* Whoever is in the table is dropped: a mutant of Dropped.
WhoeverIsThere(h) == [connections EXCEPT ![runner[h]] = NoHandler]
Dropped(h) == IF connections[runner[h]] = h
              THEN [connections EXCEPT ![runner[h]] = NoHandler] ELSE connections

\* _unregister, from the handler's finally.
Unregister(h) ==
  /\ phase[h] = "active" /\ h \notin open
  /\ connections' = Dropped(h)
  /\ Goes(h, "idle")
  /\ UNCHANGED <<runner, open, pendingConnections, pendingRunners, publishing>>

\* publish: look the connection up under the lock, then write to it.  Without
\* an open one the answer is 503 runner_offline.
LookUp(r) ==
  /\ publishing[r] = NoHandler
  /\ connections[r] # NoHandler /\ connections[r] \in open
  /\ publishing' = [publishing EXCEPT ![r] = connections[r]]
  /\ UNCHANGED <<phase, runner, open, connections, pendingConnections, pendingRunners>>
WriteFrame(r) ==
  /\ publishing[r] # NoHandler
  /\ publishing' = [publishing EXCEPT ![r] = NoHandler]
  /\ UNCHANGED <<phase, runner, open, connections, pendingConnections, pendingRunners>>

RelayInit ==
  /\ phase = [h \in Handlers |-> "idle"]
  /\ runner \in [Handlers -> {CHOOSE r \in Runners : TRUE}]
  /\ open = {}
  /\ connections = [r \in Runners |-> NoHandler]
  /\ pendingConnections = 0 /\ pendingRunners = {}
  /\ publishing = [r \in Runners |-> NoHandler]

RelayNext ==
  \/ \E h \in Handlers : \/ AcceptSocket(h) \/ Activate(h) \/ Release(h) \/ Post(h)
                         \/ Acknowledge(h) \/ RejectEvent(h) \/ Close(h) \/ Unregister(h)
                         \/ \E r \in Runners : FirstFrame(h, r)
  \/ \E r \in Runners : LookUp(r) \/ WriteFrame(r)

RelaySpec == RelayInit /\ [][RelayNext]_relayVars

-----------------------------------------------------------------------------
\* A Runner has one live connection and can be reached over it: publish says
\* "runner_offline", which the Controller takes as proof that nothing was
\* delivered, only when no authenticated socket of the Runner is open, though
\* the handler of an older, broken connection cleans up at any later moment;
\* and no place is leaked or given out twice (RelayHub.websocket,
\* _reserve_runner, _activate, _unregister, publish).
ConnectedIsReachable ==
  /\ \A h \in Handlers : phase[h] \in {"active", "posting"} /\ h \in open =>
       connections[runner[h]] = h
  /\ pendingConnections = Cardinality({h \in Handlers : phase[h] \in {"reserved", "named", "refused"}})
  /\ pendingRunners = {runner[h] : h \in {g \in Handlers : phase[g] = "named"}}
  /\ Cardinality(Connected) + pendingConnections <= MaxConnections
=============================================================================
