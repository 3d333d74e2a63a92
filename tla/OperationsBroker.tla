-------------------------- MODULE OperationsBroker --------------------------
(* The whole broker: the passkey ceremony and the restart executor of       *)
(* operations_broker/main.py, in one process over one database.  A crash    *)
(* takes the open challenges and the running execute() together; what is    *)
(* committed stays.  The atomic Authorize of BrokerExecution is replaced by *)
(* the ceremony that leads to it.                                           *)
EXTENDS BrokerExecution, BrokerAuthorization

ASSUME OneProcess == Cardinality(Brokers) = 1

brokerVars == <<storeVars, execVars, ceremonyVars>>

Alive == \A b \in Brokers : exec[b].pc # "down"

BrokerInit == ExecutionInit /\ CeremonyInit

BrokerCrash(b) ==
    /\ exec[b].pc # "down"
    /\ exec' = [exec EXCEPT ![b] = [pc |-> "down"]]
    /\ ForgetFlows
    /\ UNCHANGED <<storeVars, executions, lease, calls>>

BrokerNext ==
    \/ /\ Environment \/ \E b \in Brokers : Alive /\ ServeClient(exec[b].config)
       /\ UNCHANGED <<execVars, ceremonyVars>>
    \/ /\ Alive /\ Ceremony
       /\ UNCHANGED execVars
    \/ /\ \/ \E b \in Brokers :
                \/ Step(b) \/ Fault(b)
                \/ \E k, r \in Keys : Execute(b, k, r)
                \/ \E config \in Configs : Start(b, config)
          \/ \E k \in Keys : Alive /\ ResolveRecovery(k)
       /\ UNCHANGED ceremonyVars
    \/ \E b \in Brokers : BrokerCrash(b)

BrokerSpec == BrokerInit /\ [][BrokerNext]_brokerVars

----------------------------------------------------------------------------
(* No add-on is restarted without a touch: behind every restart call is one *)
(* completed ceremony of an enrolled user, for the very action, finished    *)
(* before the proposal it approved expired -- through crashes of the broker *)
(* between any two steps.  And every receipt was granted in time, however   *)
(* long before the handler looked at the clock.                             *)
NoRestartWithoutCeremony ==
    /\ \A k \in Keys : calls[k] > 0 =>
          /\ \E g \in granted :
                g.key = k /\ passkeys[g.user].enrolled /\ g.at < proposals[k].expires
          /\ proposals[k].target \in proposals[k].config.allow
    /\ \A g \in granted :
          /\ passkeys[g.user].enrolled
          /\ g.at < receipts[g.key].expires
          /\ receipts[g.key].expires = requests[g.key].expires

(* The ceremony moves the executor's tables only the way the executor       *)
(* expects of them: the composed broker implements BrokerExecution, whose   *)
(* results therefore hold of it.                                            *)
ImplementsExecution == ExecutionSpec
=============================================================================
