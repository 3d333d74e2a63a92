---------------------------- MODULE BrokerProofs ----------------------------
(* Theorems about BrokerExecution, for any number of brokers, actions,      *)
(* add-ons and option sets, and any clock; and about OperationsBroker, for  *)
(* any number of users, handlers and challenges besides.  The composed      *)
(* broker implements BrokerExecution, so the theorems about the executor    *)
(* hold of it; what the ceremony adds is an invariant over challenges,      *)
(* handlers and grants.                                                     *)
EXTENDS OperationsBroker, FiniteSetTheorems, TLAPS

----------------------------------------------------------------------------
(* Type correctness.                                                        *)

LEMMA StoreInitType == StoreInit => StoreTypeOK
  BY StoreAssumption DEF StoreInit, StoreTypeOK, AddonInfo, NoProposal, NoEvidence,
     NoRequest, NoReceipt, Time

LEMMA EnvironmentType == StoreTypeOK /\ Environment => StoreTypeOK'
<1> SUFFICES ASSUME StoreTypeOK, Environment PROVE StoreTypeOK'
  OBVIOUS
<1>1. CASE Tick
  BY <1>1, StoreAssumption DEF Tick, StoreTypeOK, Time, Baselines, AddonInfo
<1>2. ASSUME NEW t \in Targets, AddonChange(t) PROVE StoreTypeOK'
  <2>1. addon[t] \in AddonInfo
    BY DEF StoreTypeOK
  <2>2. CASE addon' = [addon EXCEPT ![t].running = ~ @]
    <3>1. [addon[t] EXCEPT !.running = ~ @] \in AddonInfo
      BY <2>1 DEF AddonInfo
    <3> QED BY <1>2, <2>2, <3>1 DEF AddonChange, StoreTypeOK, Time
  <2>3. CASE addon[t].version < MaxVersion /\ addon' = [addon EXCEPT ![t].version = @ + 1]
    <3>1. [addon[t] EXCEPT !.version = @ + 1] \in AddonInfo
      BY <2>1, <2>3, StoreAssumption DEF AddonInfo
    <3> QED BY <1>2, <2>3, <3>1 DEF AddonChange, StoreTypeOK, Time
  <2> QED BY <1>2, <2>2, <2>3 DEF AddonChange
<1> QED BY <1>1, <1>2 DEF Environment

LEMMA ServeClientType ==
  ASSUME NEW config \in Configs, StoreTypeOK, ServeClient(config)
  PROVE  StoreTypeOK'
<1>1. ASSUME NEW e \in EvidenceIds, NEW scope \in Scopes, NEW t \in Targets,
             NEW life \in EvidenceLives,
             RegisterEvidence(e, scope, Baseline(t), now, now + life)
      PROVE  StoreTypeOK'
  <2>1. Baseline(t) \in Baselines
    BY DEF StoreTypeOK, Baseline, Baselines
  <2>2. now \in Nat /\ now + life \in Nat
    BY StoreAssumption DEF StoreTypeOK
  <2> QED BY <1>1, <2>1, <2>2 DEF RegisterEvidence, StoreTypeOK, Time
<1>2. ASSUME NEW k \in Keys, NEW t \in Targets, NEW base \in Baselines,
             CreateProposal(config, k, t, base)
      PROVE  StoreTypeOK'
  <2>1. now + ProposalTTL \in Nat
    BY StoreAssumption DEF StoreTypeOK
  <2> QED BY <1>2, <2>1 DEF CreateProposal, StoreTypeOK, Time
<1>3. ASSUME NEW k \in Keys, NativeRequest(k) PROVE StoreTypeOK'
  <2>1. proposals[k].expires \in Nat
    BY <1>3 DEF NativeRequest, ProposalLive, StoreTypeOK, Time
  <2> QED BY <1>3, <2>1 DEF NativeRequest, StoreTypeOK, Time
<1>4. ASSUME NEW k \in Keys, LegacyRequest(k, now + ProposalTTL) PROVE StoreTypeOK'
  <2>1. now + ProposalTTL \in Nat
    BY StoreAssumption DEF StoreTypeOK
  <2> QED BY <1>4, <2>1 DEF LegacyRequest, StoreTypeOK, Time
<1>5. ASSUME NEW k \in Keys, ReadRequest(k) PROVE StoreTypeOK'
  BY <1>5 DEF ReadRequest, RequestStateRead, StoreTypeOK, Time
<1> QED BY <1>1, <1>2, <1>3, <1>4, <1>5 DEF ServeClient

LEMMA AuthorizeType ==
  ASSUME NEW k \in Keys, NEW at \in Nat, StoreTypeOK, Authorize(k, at) PROVE StoreTypeOK'
<1>1. now \in Nat
  BY StoreAssumption DEF StoreTypeOK
<1>2. requests[k].expires \in Nat
  BY DEF Authorize, Authorizable, StoreTypeOK, Time
<1> QED BY <1>1, <1>2 DEF Authorize, Authorizable, StoreTypeOK, Time

----------------------------------------------------------------------------
(* Control flow: what Goto, Return and UpdateExecution do.                  *)

LEMMA PcSets ==
    /\ Early \cap Claimed = {}
    /\ "idle" \notin Early \cup Claimed /\ "down" \notin Early \cup Claimed
  BY DEF Early, Claimed

LEMMA RunningShape ==
  ASSUME ExecTypeOK, NEW b \in Brokers, exec[b].pc \in Early \cup Claimed
  PROVE  /\ exec[b] \in Running
         /\ exec[b].key \in Keys /\ exec[b].receipt \in Keys
         /\ exec[b].config \in Configs
<1>1. exec[b] \in Stopped \cup Waiting \cup Running
  BY DEF ExecTypeOK
<1>2. exec[b] \notin Stopped /\ exec[b] \notin Waiting
  BY PcSets DEF Stopped, Waiting
<1> QED BY <1>1, <1>2 DEF Running

LEMMA GotoEffect ==
  ASSUME ExecTypeOK, NEW b \in Brokers, exec[b].pc \in Early \cup Claimed,
         NEW pc \in Early \cup Claimed, Goto(b, pc)
  PROVE  /\ exec' \in [Brokers -> Stopped \cup Waiting \cup Running]
         /\ exec'[b].pc = pc /\ exec'[b].key = exec[b].key
         /\ exec'[b].receipt = exec[b].receipt
         /\ \A c \in Brokers \ {b} : exec'[c] = exec[c]
<1>1. exec[b] \in Running
  BY RunningShape
<1>2. [exec[b] EXCEPT !.pc = pc] \in Running
  BY <1>1 DEF Running
<1> QED BY <1>1, <1>2 DEF Goto, ExecTypeOK, Running

LEMMA ReturnEffect ==
  ASSUME ExecTypeOK, NEW b \in Brokers,
         exec[b].pc \in Early \cup Claimed \/ exec[b].pc = "idle",
         NEW reply \in {"none", "record"}, Return(b, reply)
  PROVE  /\ exec' \in [Brokers -> Stopped \cup Waiting \cup Running]
         /\ exec'[b].pc = "idle"
         /\ \A c \in Brokers \ {b} : exec'[c] = exec[c]
<1>1. exec[b].config \in Configs
  <2>1. exec[b] \in Stopped \cup Waiting \cup Running
    BY DEF ExecTypeOK
  <2>2. exec[b] \notin Stopped
    BY PcSets DEF Stopped
  <2> QED BY <2>1, <2>2 DEF Waiting, Running
<1>2. [pc |-> "idle", config |-> exec[b].config, reply |-> reply] \in Waiting
  BY <1>1 DEF Waiting
<1> QED BY <1>2 DEF Return, ExecTypeOK

LEMMA UpdateEffect ==
  ASSUME ExecTypeOK, NEW k \in Keys, NEW from \in InFlight,
         NEW to \in InFlight \cup {"succeeded", "failed", "recovery_required"},
         NEW leaseTo \in Held \cup {"released"},
         UpdateExecution(k, from, to, leaseTo)
  PROVE  /\ executions' \in [Keys -> {NoExecution} \cup Executions]
         /\ lease' \in [Keys -> {NoLease} \cup Leases]
         /\ executions[k].state = from /\ executions'[k].state = to
         /\ executions'[k].resolved = executions[k].resolved
         /\ executions'[k].receipt = executions[k].receipt
         /\ executions[k] # NoExecution /\ executions'[k] # NoExecution
         /\ \A other \in Keys \ {k} :
               executions'[other] = executions[other] /\ lease'[other] = lease[other]
         /\ lease'[k].state = IF lease[k].state = "active" THEN leaseTo ELSE lease[k].state
<1>1. executions[k] \in Executions /\ executions[k] # NoExecution
  BY DEF UpdateExecution, ExecTypeOK, NoExecution, InFlight
<1>2. [executions[k] EXCEPT !.state = to] \in Executions
  BY <1>1 DEF Executions
<1>3. [executions[k] EXCEPT !.state = to] # NoExecution
  BY <1>1, <1>2 DEF Executions, NoExecution, InFlight
<1>4. CASE lease[k].state = "active" /\ leaseTo # "active"
  <2>1. lease[k] \in Leases
    BY <1>4 DEF ExecTypeOK, NoLease
  <2>2. [lease[k] EXCEPT !.state = leaseTo] \in Leases
    BY <2>1 DEF Leases
  <2> QED BY <1>1, <1>2, <1>3, <1>4, <2>1, <2>2 DEF UpdateExecution, ExecTypeOK, Executions, Leases
<1>5. CASE ~ (lease[k].state = "active" /\ leaseTo # "active")
  BY <1>1, <1>2, <1>3, <1>5 DEF UpdateExecution, ExecTypeOK, Executions
<1> QED BY <1>4, <1>5

LEMMA HeartbeatEffect ==
  ASSUME ExecTypeOK, StoreTypeOK, NEW b \in Brokers, exec[b].pc \in Claimed,
         NEW next \in Claimed, Heartbeat(b, exec[b].key, next)
  PROVE  /\ exec' \in [Brokers -> Stopped \cup Waiting \cup Running]
         /\ lease' \in [Keys -> {NoLease} \cup Leases]
         /\ \A c \in Brokers \ {b} : exec'[c] = exec[c]
         /\ \A k \in Keys : lease'[k].state = lease[k].state
         /\ \/ exec'[b].pc = "idle"
            \/ exec'[b].pc = next /\ exec'[b].key = exec[b].key
<1> DEFINE k == exec[b].key
<1>1. k \in Keys
  BY RunningShape
<1>2. CASE lease[k].state = "active" /\ lease[k].owner = b
  <2>1. lease[k] \in Leases /\ now + LeaseTTL \in Nat
    BY <1>1, <1>2, StoreAssumption, ExecutionAssumption DEF ExecTypeOK, NoLease, StoreTypeOK
  <2>2. [lease[k] EXCEPT !.expires = now + LeaseTTL] \in Leases
    BY <2>1 DEF Leases
  <2>3. Goto(b, next) /\ lease' = [lease EXCEPT ![k].expires = now + LeaseTTL]
    BY <1>2 DEF Heartbeat
  <2>4. lease' \in [Keys -> {NoLease} \cup Leases]
        /\ \A other \in Keys : lease'[other].state = lease[other].state
    BY <1>1, <2>1, <2>2, <2>3 DEF ExecTypeOK, Leases
  <2> QED BY <2>3, <2>4, GotoEffect
<1>3. CASE ~ (lease[k].state = "active" /\ lease[k].owner = b)
  <2>1. Return(b, "none") /\ lease' = lease
    BY <1>3 DEF Heartbeat
  <2> QED BY <2>1, ReturnEffect DEF ExecTypeOK
<1> QED BY <1>2, <1>3

LEMMA ExecTypeStep ==
  ASSUME StoreTypeOK, ExecTypeOK, ExecutionNext
  PROVE  ExecTypeOK'
<1>1. ASSUME NEW b \in Brokers, NEW k \in Keys, NEW r \in Keys, Execute(b, k, r)
      PROVE  ExecTypeOK'
  <2>1. CASE exec' = [exec EXCEPT ![b] =
                        [pc |-> "checked", config |-> exec[b].config, key |-> k, receipt |-> r]]
    <3>1. exec[b] \in Waiting
      BY <1>1 DEF Execute, ExecTypeOK, Stopped, Running, Early, Claimed
    <3>2. [pc |-> "checked", config |-> exec[b].config, key |-> k, receipt |-> r] \in Running
      BY <3>1 DEF Waiting, Running, Early
    <3> QED BY <1>1, <2>1, <3>2 DEF Execute, ExecTypeOK
  <2>2. CASE \E reply \in {"none", "record"} : Return(b, reply)
    BY <1>1, <2>2, ReturnEffect DEF Execute, ExecTypeOK
  <2> QED BY <1>1, <2>1, <2>2 DEF Execute
<1>2. ASSUME NEW b \in Brokers, Preflight(b) PROVE ExecTypeOK'
  <2>1. exec[b].pc \in Early \cup Claimed /\ "claim" \in Early \cup Claimed
    BY <1>2 DEF Preflight, Early
  <2> QED BY <1>2, <2>1, ReturnEffect, GotoEffect DEF Preflight, ExecTypeOK
<1>3. ASSUME NEW b \in Brokers,
             ClaimReplay(b) \/ ClaimRefused(b) \/ \E other \in Keys : ClaimExpires(b, other)
      PROVE  ExecTypeOK'
  <2>1. exec[b].pc \in Early \cup Claimed
    BY <1>3 DEF ClaimReplay, ClaimRefused, ClaimExpires, Early
  <2>2. CASE ClaimReplay(b) \/ ClaimRefused(b)
    BY <2>1, <2>2, ReturnEffect DEF ClaimReplay, ClaimRefused, ExecTypeOK
  <2>3. ASSUME NEW other \in Keys, ClaimExpires(b, other) PROVE ExecTypeOK'
    <3>1. lease[other] \in Leases
      BY <2>3 DEF ClaimExpires, ExpiredLease, ExecTypeOK, NoLease
    <3>2. lease' \in [Keys -> {NoLease} \cup Leases]
      BY <2>3, <3>1 DEF ClaimExpires, ExecTypeOK, Leases, Held
    <3>3. executions' \in [Keys -> {NoExecution} \cup Executions]
      <4>1. CASE executions[other].state \in InFlight
        <5>1. executions[other] \in Executions
          BY <4>1 DEF ExecTypeOK, NoExecution, InFlight
        <5>2. [executions[other] EXCEPT !.state = "recovery_required"] \in Executions
          BY <5>1 DEF Executions
        <5> QED BY <2>3, <4>1, <5>2 DEF ClaimExpires, ExecTypeOK
      <4> QED BY <2>3, <4>1 DEF ClaimExpires, ExecTypeOK
    <3> QED BY <2>1, <2>3, <3>2, <3>3, ReturnEffect DEF ClaimExpires, ExecTypeOK
  <2> QED BY <1>3, <2>2, <2>3
<1>4. ASSUME NEW b \in Brokers, Claim(b) PROVE ExecTypeOK'
  <2>1. exec[b].pc \in Early \cup Claimed /\ "revalidate" \in Early \cup Claimed
    BY <1>4 DEF Claim, Early, Claimed
  <2>2. exec[b].key \in Keys /\ exec[b].receipt \in Keys
    BY <2>1, RunningShape
  <2>3. [state |-> "authorized", receipt |-> exec[b].receipt, resolved |-> FALSE] \in Executions
    BY <2>2 DEF Executions, InFlight
  <2>4. [state |-> "active", owner |-> b, expires |-> now + LeaseTTL] \in Leases
    BY StoreAssumption, ExecutionAssumption DEF Leases, Held, StoreTypeOK
  <2> QED BY <1>4, <2>1, <2>2, <2>3, <2>4, GotoEffect DEF Claim, ExecTypeOK
<1>5. ASSUME NEW b \in Brokers, Revalidate(b) \/ RecordRestart(b) \/ Postflight(b)
      PROVE  ExecTypeOK'
  <2>1. exec[b].pc \in Early \cup Claimed
    BY <1>5 DEF Revalidate, RecordRestart, Postflight, Claimed
  <2>2. exec[b].key \in Keys /\ calls' = calls
    BY <1>5, <2>1, RunningShape DEF Revalidate, RecordRestart, Postflight
  <2>3. executions' \in [Keys -> {NoExecution} \cup Executions]
        /\ lease' \in [Keys -> {NoLease} \cup Leases]
    <3>1. CASE \E from \in InFlight :
                 \E to \in InFlight \cup {"succeeded", "failed", "recovery_required"} :
                 \E leaseTo \in Held \cup {"released"} :
                    UpdateExecution(exec[b].key, from, to, leaseTo)
      BY <2>2, <3>1, UpdateEffect
    <3>2. CASE executions' = executions /\ lease' = lease
      BY <3>2 DEF ExecTypeOK
    <3> QED BY <1>5, <3>1, <3>2
         DEF Revalidate, RecordRestart, Postflight, StateConflict, InFlight, Held
  <2>4. exec' \in [Brokers -> Stopped \cup Waiting \cup Running]
    <3>1. CASE \E pc \in {"heartbeat", "verify"} : Goto(b, pc)
      BY <2>1, <3>1, GotoEffect DEF Claimed
    <3>2. CASE \E reply \in {"none", "record"} : Return(b, reply)
      BY <2>1, <3>2, ReturnEffect
    <3> QED BY <1>5, <3>1, <3>2 DEF Revalidate, RecordRestart, Postflight, StateConflict
  <2> QED BY <2>2, <2>3, <2>4 DEF ExecTypeOK
<1>6. ASSUME NEW b \in Brokers, FirstHeartbeat(b) \/ SecondHeartbeat(b) PROVE ExecTypeOK'
  BY <1>6, HeartbeatEffect DEF FirstHeartbeat, SecondHeartbeat, ExecTypeOK, Claimed
<1>7. ASSUME NEW b \in Brokers, RestartAddon(b) PROVE ExecTypeOK'
  <2>1. exec[b].pc \in Early \cup Claimed /\ {"restarted", "uncertain"} \subseteq Early \cup Claimed
    BY <1>7 DEF RestartAddon, Claimed
  <2>2. exec[b].key \in Keys
    BY <2>1, RunningShape
  <2>3. exec' \in [Brokers -> Stopped \cup Waiting \cup Running]
    BY <1>7, <2>1, GotoEffect DEF RestartAddon
  <2>4. calls' \in [Keys -> Nat]
    BY <1>7, <2>2 DEF RestartAddon, ExecTypeOK
  <2> QED BY <1>7, <2>3, <2>4 DEF RestartAddon, ExecTypeOK
<1>8. ASSUME NEW b \in Brokers, Fault(b) PROVE ExecTypeOK'
  BY <1>8, ReturnEffect DEF Fault, ExecTypeOK
<1>9. ASSUME NEW b \in Brokers, Crash(b) PROVE ExecTypeOK'
  BY <1>9 DEF Crash, ExecTypeOK, Stopped
<1>10. ASSUME NEW b \in Brokers, NEW config \in Configs, Start(b, config) PROVE ExecTypeOK'
  <2>1. exec' \in [Brokers -> Stopped \cup Waiting \cup Running]
    BY <1>10 DEF Start, ExecTypeOK, Waiting
  <2>2. executions' \in [Keys -> {NoExecution} \cup Executions]
    <3>1. ASSUME NEW k \in Keys, executions[k].state \in InFlight
          PROVE  [executions[k] EXCEPT !.state = "recovery_required"] \in Executions
      <4>1. executions[k] \in Executions
        BY <3>1 DEF ExecTypeOK, NoExecution, InFlight
      <4> QED BY <4>1 DEF Executions
    <3> QED BY <1>10, <3>1 DEF Start, ExecTypeOK
  <2>3. lease' \in [Keys -> {NoLease} \cup Leases]
    <3>1. ASSUME NEW k \in Keys, lease[k].state = "active"
          PROVE  [lease[k] EXCEPT !.state = "recovery_required"] \in Leases
      <4>1. lease[k] \in Leases
        BY <3>1 DEF ExecTypeOK, NoLease
      <4> QED BY <4>1 DEF Leases, Held
    <3> QED BY <1>10, <3>1 DEF Start, ExecTypeOK
  <2> QED BY <1>10, <2>1, <2>2, <2>3 DEF Start, ExecTypeOK
<1>11. ASSUME NEW k \in Keys, ResolveRecovery(k) PROVE ExecTypeOK'
  <2>1. [executions[k] EXCEPT !.resolved = TRUE] \in Executions
    <3>1. executions[k] \in Executions
      BY <1>11 DEF ResolveRecovery, Unresolved, ExecTypeOK, NoExecution
    <3> QED BY <3>1 DEF Executions
  <2>2. lease[k].state = "recovery_required" =>
           [lease[k] EXCEPT !.state = "released"] \in Leases
    BY DEF ExecTypeOK, NoLease, Leases
  <2> QED BY <1>11, <2>1, <2>2 DEF ResolveRecovery, ExecTypeOK
<1>12. CASE UNCHANGED execVars
  BY <1>12 DEF execVars, ExecTypeOK
<1> QED BY <1>1, <1>2, <1>3, <1>4, <1>5, <1>6, <1>7, <1>8, <1>9, <1>10, <1>11, <1>12
     DEF ExecutionNext, Step, Serve

LEMMA StoreTypeStep ==
  ASSUME StoreTypeOK, ExecTypeOK, ExecutionNext
  PROVE  StoreTypeOK'
<1>1. CASE Environment
  BY <1>1, EnvironmentType
<1>2. ASSUME NEW b \in Brokers, Serve(b) PROVE StoreTypeOK'
  <2>1. exec[b].config \in Configs
    BY <1>2 DEF Serve, ExecTypeOK, Stopped, Waiting, Running
  <2> QED BY <1>2, <2>1, ServeClientType, AuthorizeType DEF Serve
<1>3. ASSUME NEW b \in Brokers, Claim(b) PROVE StoreTypeOK'
  <2>1. exec[b].receipt \in Keys
    BY <1>3, RunningShape DEF Claim, Early
  <2>2. receipts[exec[b].receipt] # NoReceipt
    BY <1>3 DEF Claim, Claimable
  <2>3. receipts' = [receipts EXCEPT ![exec[b].receipt].state = "consumed"]
    BY <1>3 DEF Claim
  <2> QED BY <1>3, <2>1, <2>2, <2>3 DEF Claim, StoreTypeOK, Time
<1>4. CASE UNCHANGED storeVars
  BY <1>4 DEF storeVars, StoreTypeOK
<1> QED BY <1>1, <1>2, <1>3, <1>4
     DEF ExecutionNext, Step, Execute, Preflight, ClaimReplay, ClaimExpires, ClaimRefused,
         Revalidate, FirstHeartbeat, RestartAddon, RecordRestart, SecondHeartbeat, Postflight,
         Fault, Crash, Start, ResolveRecovery

(* Type correctness: no step of a broker, a client or the environment takes *)
(* a row of the database or a local of execute() out of its type.           *)
THEOREM TypeCorrect == ExecutionSpec => []ExecutionTypeOK
<1>1. ExecutionInit => ExecutionTypeOK
  BY StoreInitType DEF ExecutionInit, ExecutionTypeOK, ExecTypeOK, NoExecution, NoLease, Stopped
<1>2. ExecutionTypeOK /\ [ExecutionNext]_vars => ExecutionTypeOK'
  <2>1. CASE ExecutionNext
    BY <2>1, ExecTypeStep, StoreTypeStep DEF ExecutionTypeOK
  <2>2. CASE UNCHANGED vars
    BY <2>2 DEF vars, storeVars, execVars, ExecutionTypeOK, StoreTypeOK, ExecTypeOK
  <2> QED BY <2>1, <2>2
<1> QED BY <1>1, <1>2, PTL DEF ExecutionSpec

----------------------------------------------------------------------------
(* At most one write per action, and outcomes that tell the truth about it. *)

(* A broker that leaves execute(), or was never past its claim, cannot      *)
(* break what is said of writers, as long as rows only move to recovery.    *)
LEMMA WriteInvRest ==
  ASSUME ExecTypeOK, WriteInv, calls' = calls, NEW b \in Brokers,
         \A c \in Brokers \ {b} : exec'[c] = exec[c],
         exec'[b].pc \notin Claimed,
         \A k \in Keys : \/ executions'[k] = executions[k]
                         \/ /\ executions[k].state # "none"
                            /\ executions'[k].state = "recovery_required"
  PROVE  WriteInv'
<1> USE DEF WriteInv
<1>1. \A c \in Brokers : exec'[c].pc \in Claimed => c # b /\ exec'[c] = exec[c]
  OBVIOUS
<1>2. \A k \in Keys : executions'[k].state # executions[k].state =>
         executions[k].state # "none" /\ executions'[k].state = "recovery_required"
  OBVIOUS
<1>3. UnclaimedUntouched'
  BY <1>1, <1>2 DEF UnclaimedUntouched
<1>4. OneWriter'
  BY <1>1 DEF OneWriter
<1>5. PositionTruthful'
  <2>1. ASSUME NEW c \in Brokers, exec'[c].pc \in Claimed
        PROVE  /\ exec'[c].pc \in {"revalidate", "heartbeat", "restart"} => calls'[exec'[c].key] = 0
               /\ exec'[c].pc \in {"restarted", "verify", "postflight"} => calls'[exec'[c].key] = 1
               /\ exec'[c].pc \in Claimed \ {"revalidate"} =>
                     executions'[exec'[c].key].state \notin {"authorized", "failed"}
    <3>1. exec[c].key \in Keys
      BY <1>1, <2>1, RunningShape
    <3> QED BY <1>1, <1>2, <2>1, <3>1 DEF PositionTruthful
  <2> QED BY <2>1 DEF PositionTruthful, Claimed
<1>6. RestartAtMostOnce'
  BY DEF RestartAtMostOnce
<1>7. OutcomeTruthful'
  <2>1. ASSUME NEW k \in Keys
        PROVE  /\ executions'[k].state \in {"none", "authorized", "failed"} => calls'[k] = 0
               /\ executions'[k].state \in {"verifying", "succeeded"} => calls'[k] = 1
               /\ executions'[k].state = "failed" =>
                     \A c \in Brokers : exec'[c].pc \in Claimed => exec'[c].key # k
    BY <1>1, <1>2 DEF OutcomeTruthful
  <2> QED BY <2>1 DEF OutcomeTruthful
<1> QED BY <1>3, <1>4, <1>5, <1>6, <1>7

(* What the only broker past the claim of action k must leave behind.       *)
Consistent(pc, state, n) ==
    /\ n \in {0, 1}
    /\ state # "none"
    /\ state \in {"authorized", "failed"} => n = 0
    /\ state \in {"verifying", "succeeded"} => n = 1
    /\ state = "failed" => pc \notin Claimed
    /\ pc \in {"revalidate", "heartbeat", "restart"} => n = 0
    /\ pc \in {"restarted", "verify", "postflight"} => n = 1
    /\ pc \in Claimed \ {"revalidate"} => state \notin {"authorized", "failed"}

LEMMA WriteInvAct ==
  ASSUME ExecTypeOK, WriteInv, NEW b \in Brokers, NEW k \in Keys,
         \A c \in Brokers \ {b} : exec'[c] = exec[c],
         \A c \in Brokers \ {b} : exec[c].pc \in Claimed => exec[c].key # k,
         \A other \in Keys \ {k} :
            executions'[other].state = executions[other].state /\ calls'[other] = calls[other],
         exec[b].pc \in Claimed => exec[b].key = k,
         exec'[b].pc \in Claimed => exec'[b].key = k,
         Consistent(exec'[b].pc, executions'[k].state, calls'[k])
  PROVE  WriteInv'
<1> USE DEF WriteInv
<1>1. ASSUME NEW c \in Brokers, c # b, exec[c].pc \in Claimed
      PROVE  exec[c].key \in Keys \ {k}
  BY <1>1, RunningShape
<1>2. UnclaimedUntouched'
  BY DEF UnclaimedUntouched, Consistent
<1>3. OneWriter'
  BY DEF OneWriter
<1>4. PositionTruthful'
  <2>1. ASSUME NEW c \in Brokers, exec'[c].pc \in Claimed
        PROVE  /\ exec'[c].pc \in {"revalidate", "heartbeat", "restart"} => calls'[exec'[c].key] = 0
               /\ exec'[c].pc \in {"restarted", "verify", "postflight"} => calls'[exec'[c].key] = 1
               /\ exec'[c].pc \in Claimed \ {"revalidate"} =>
                     executions'[exec'[c].key].state \notin {"authorized", "failed"}
    <3>1. CASE c = b
      BY <2>1, <3>1 DEF Consistent
    <3>2. CASE c # b
      BY <1>1, <2>1, <3>2 DEF PositionTruthful
    <3> QED BY <3>1, <3>2
  <2> QED BY <2>1 DEF PositionTruthful, Claimed
<1>5. RestartAtMostOnce'
  BY DEF RestartAtMostOnce, Consistent
<1>6. OutcomeTruthful'
  <2>1. ASSUME NEW other \in Keys
        PROVE  /\ executions'[other].state \in {"none", "authorized", "failed"} => calls'[other] = 0
               /\ executions'[other].state \in {"verifying", "succeeded"} => calls'[other] = 1
               /\ executions'[other].state = "failed" =>
                     \A c \in Brokers : exec'[c].pc \in Claimed => exec'[c].key # other
    <3>1. CASE other = k
      BY <3>1 DEF Consistent
    <3>2. CASE other # k
      BY <3>2 DEF OutcomeTruthful
    <3> QED BY <3>1, <3>2
  <2> QED BY <2>1 DEF OutcomeTruthful
<1> QED BY <1>2, <1>3, <1>4, <1>5, <1>6

LEMMA WriteStep ==
  ASSUME StoreTypeOK, ExecTypeOK, ExecTypeOK', WriteInv, ExecutionNext
  PROVE  WriteInv'
<1> USE DEF WriteInv
<1>1. ASSUME NEW b \in Brokers, NEW k \in Keys, NEW r \in Keys, Execute(b, k, r)
      PROVE  WriteInv'
  <2>1. exec'[b].pc \notin Claimed /\ \A c \in Brokers \ {b} : exec'[c] = exec[c]
    BY <1>1 DEF Execute, Return, ExecTypeOK, Claimed
  <2> QED BY <1>1, <2>1, WriteInvRest DEF Execute
<1>2. ASSUME NEW b \in Brokers,
             \/ Preflight(b) \/ ClaimReplay(b) \/ ClaimRefused(b) \/ Fault(b) \/ Crash(b)
             \/ \E other \in Keys : ClaimExpires(b, other)
      PROVE  WriteInv'
  <2>1. exec'[b].pc \notin Claimed /\ \A c \in Brokers \ {b} : exec'[c] = exec[c]
    <3>1. CASE Crash(b)
      BY <3>1 DEF Crash, ExecTypeOK, Claimed
    <3>2. CASE Preflight(b) /\ Goto(b, "claim")
      BY <3>2, PcSets, GotoEffect DEF Preflight, Early
    <3>3. CASE \E reply \in {"none", "record"} : exec[b].pc \in Early \cup Claimed /\ Return(b, reply)
      BY <3>3, ReturnEffect DEF Claimed
    <3> QED BY <1>2, <3>1, <3>2, <3>3
         DEF Preflight, ClaimReplay, ClaimRefused, ClaimExpires, Fault, Early
  <2>2. \A k \in Keys : \/ executions'[k] = executions[k]
                        \/ /\ executions[k].state # "none"
                           /\ executions'[k].state = "recovery_required"
    <3>1. ASSUME NEW other \in Keys, ClaimExpires(b, other), executions' # executions
          PROVE  /\ executions[other].state # "none"
                 /\ executions'[other].state = "recovery_required"
                 /\ \A k \in Keys \ {other} : executions'[k] = executions[k]
      <4>1. executions[other] \in Executions /\ executions[other].state \in InFlight
        BY <3>1 DEF ClaimExpires, ExecTypeOK, NoExecution, InFlight
      <4> QED BY <3>1, <4>1 DEF ClaimExpires, ExecTypeOK, InFlight, Executions
    <3> QED BY <1>2, <3>1 DEF Preflight, ClaimReplay, ClaimRefused, Fault, Crash
  <2>3. calls' = calls
    BY <1>2 DEF Preflight, ClaimReplay, ClaimRefused, ClaimExpires, Fault, Crash
  <2> QED BY <2>1, <2>2, <2>3, WriteInvRest
<1>3. ASSUME NEW b \in Brokers, Claim(b) PROVE WriteInv'
  <2> DEFINE k == exec[b].key
  <2>1. k \in Keys /\ executions[k] = NoExecution
    BY <1>3, RunningShape DEF Claim, Early
  <2>2. /\ exec[b].pc \notin Claimed /\ exec'[b].pc = "revalidate" /\ exec'[b].key = k
        /\ \A c \in Brokers \ {b} : exec'[c] = exec[c]
    BY <1>3, PcSets, GotoEffect DEF Claim, Early, Claimed
  <2>3. /\ executions'[k].state = "authorized" /\ calls' = calls
        /\ \A other \in Keys \ {k} : executions'[other] = executions[other]
    BY <1>3, <2>1 DEF Claim, ExecTypeOK
  <2>4. calls[k] = 0 /\ \A c \in Brokers : exec[c].pc \in Claimed => exec[c].key # k
    BY <2>1 DEF NoExecution, UnclaimedUntouched
  <2>5. Consistent(exec'[b].pc, executions'[k].state, calls'[k])
    BY <2>2, <2>3, <2>4 DEF Consistent, Claimed
  <2> QED BY <2>1, <2>2, <2>3, <2>4, <2>5, WriteInvAct
<1>4. ASSUME NEW b \in Brokers, exec[b].pc \in Claimed
      PROVE  /\ exec[b].key \in Keys
             /\ \A c \in Brokers \ {b} : exec[c].pc \in Claimed => exec[c].key # exec[b].key
             /\ executions[exec[b].key].state # "none"
             /\ Consistent(exec[b].pc, executions[exec[b].key].state, calls[exec[b].key])
  <2>1. exec[b].key \in Keys
    BY <1>4, RunningShape
  <2>2. calls[exec[b].key] \in {0, 1}
    BY <2>1 DEF RestartAtMostOnce, ExecTypeOK
  <2>3. executions[exec[b].key].state # "none"
    BY <1>4, <2>1 DEF UnclaimedUntouched
  <2> QED BY <1>4, <2>1, <2>2, <2>3
       DEF OneWriter, PositionTruthful, OutcomeTruthful, Consistent
<1>5. ASSUME NEW b \in Brokers, Revalidate(b) PROVE WriteInv'
  <2> DEFINE k == exec[b].key
  <2>1. exec[b].pc = "revalidate" /\ exec[b].pc \in Claimed /\ calls' = calls
    BY <1>5 DEF Revalidate, Claimed
  <2>2. CASE UpdateExecution(k, "authorized", "executing", "active") /\ Goto(b, "heartbeat")
    <3>1. /\ exec'[b].pc = "heartbeat" /\ exec'[b].key = k
          /\ \A c \in Brokers \ {b} : exec'[c] = exec[c]
      BY <2>1, <2>2, GotoEffect DEF Claimed
    <3>2. /\ executions'[k].state = "executing"
          /\ \A other \in Keys \ {k} : executions'[other] = executions[other]
      BY <1>4, <2>1, <2>2, UpdateEffect DEF InFlight, Held
    <3>3. Consistent(exec'[b].pc, executions'[k].state, calls'[k])
      BY <1>4, <2>1, <3>1, <3>2 DEF Consistent
    <3> QED BY <1>4, <2>1, <3>1, <3>2, <3>3, WriteInvAct
  <2>3. CASE UpdateExecution(k, "authorized", "failed", "released") /\ Return(b, "record")
    <3>1. exec'[b].pc = "idle" /\ \A c \in Brokers \ {b} : exec'[c] = exec[c]
      BY <2>1, <2>3, ReturnEffect
    <3>2. /\ executions'[k].state = "failed"
          /\ \A other \in Keys \ {k} : executions'[other] = executions[other]
      BY <1>4, <2>1, <2>3, UpdateEffect DEF InFlight, Held
    <3>3. Consistent(exec'[b].pc, executions'[k].state, calls'[k])
      BY <1>4, <2>1, <3>1, <3>2 DEF Consistent, Claimed
    <3> QED BY <1>4, <2>1, <3>1, <3>2, <3>3, WriteInvAct DEF Claimed
  <2>4. CASE StateConflict(b, "authorized")
    <3>1. exec'[b].pc = "idle" /\ \A c \in Brokers \ {b} : exec'[c] = exec[c]
      BY <2>1, <2>4, ReturnEffect DEF StateConflict
    <3> QED BY <2>1, <2>4, <3>1, WriteInvRest DEF StateConflict, Claimed
  <2> QED BY <1>5, <2>2, <2>3, <2>4 DEF Revalidate
<1>6. ASSUME NEW b \in Brokers, FirstHeartbeat(b) \/ SecondHeartbeat(b) PROVE WriteInv'
  <2> DEFINE k == exec[b].key
  <2>1. /\ exec[b].pc \in Claimed
        /\ \A c \in Brokers \ {b} : exec'[c] = exec[c]
        /\ \/ exec'[b].pc = "idle"
           \/ exec[b].pc = "heartbeat" /\ exec'[b].pc = "restart" /\ exec'[b].key = k
           \/ exec[b].pc = "verify" /\ exec'[b].pc = "postflight" /\ exec'[b].key = k
    BY <1>6, HeartbeatEffect DEF FirstHeartbeat, SecondHeartbeat, Claimed
  <2>2. executions' = executions /\ calls' = calls
    BY <1>6 DEF FirstHeartbeat, SecondHeartbeat
  <2>3. CASE exec'[b].pc = "idle"
    BY <2>1, <2>2, <2>3, WriteInvRest DEF Claimed
  <2>4. CASE exec'[b].pc # "idle"
    <3>1. Consistent(exec'[b].pc, executions'[k].state, calls'[k])
      BY <1>4, <2>1, <2>2, <2>4 DEF Consistent, Claimed
    <3> QED BY <1>4, <2>1, <2>2, <2>4, <3>1, WriteInvAct
  <2> QED BY <2>3, <2>4
<1>7. ASSUME NEW b \in Brokers, RestartAddon(b) PROVE WriteInv'
  <2> DEFINE k == exec[b].key
  <2>1. exec[b].pc = "restart" /\ exec[b].pc \in Claimed /\ executions' = executions
    BY <1>7 DEF RestartAddon, Claimed
  <2>2. /\ exec'[b].pc \in {"restarted", "uncertain"} /\ exec'[b].key = k
        /\ \A c \in Brokers \ {b} : exec'[c] = exec[c]
    BY <1>7, <2>1, GotoEffect DEF RestartAddon, Claimed
  <2>3. /\ calls'[k] = 1 \/ (calls'[k] = 0 /\ exec'[b].pc = "uncertain")
        /\ \A other \in Keys \ {k} : calls'[other] = calls[other]
    <3>1. calls[k] = 0 /\ k \in Keys
      BY <1>4, <2>1 DEF Consistent
    <3>2. CASE calls' = calls /\ Goto(b, "uncertain")
      BY <2>1, <3>1, <3>2, GotoEffect DEF Claimed
    <3>3. CASE calls' = [calls EXCEPT ![k] = @ + 1]
      BY <3>1, <3>3 DEF ExecTypeOK
    <3> QED BY <1>7, <3>2, <3>3 DEF RestartAddon
  <2>4. Consistent(exec'[b].pc, executions'[k].state, calls'[k])
    BY <1>4, <2>1, <2>2, <2>3 DEF Consistent
  <2> QED BY <1>4, <2>1, <2>2, <2>3, <2>4, WriteInvAct
<1>8. ASSUME NEW b \in Brokers, RecordRestart(b) \/ Postflight(b) PROVE WriteInv'
  <2> DEFINE k == exec[b].key
  <2>1. /\ exec[b].pc \in {"restarted", "uncertain", "postflight"}
        /\ exec[b].pc \in Claimed /\ calls' = calls
    BY <1>8 DEF RecordRestart, Postflight, Claimed
  <2>2. CASE /\ exec[b].pc = "restarted" /\ Goto(b, "verify")
             /\ UpdateExecution(k, "executing", "verifying", "active")
    <3>1. /\ exec'[b].pc = "verify" /\ exec'[b].key = k
          /\ \A c \in Brokers \ {b} : exec'[c] = exec[c]
      BY <2>1, <2>2, GotoEffect DEF Claimed
    <3>2. /\ executions'[k].state = "verifying"
          /\ \A other \in Keys \ {k} : executions'[other] = executions[other]
      BY <1>4, <2>1, <2>2, UpdateEffect DEF InFlight, Held
    <3>3. Consistent(exec'[b].pc, executions'[k].state, calls'[k])
      BY <1>4, <2>1, <2>2, <3>1, <3>2 DEF Consistent
    <3> QED BY <1>4, <2>1, <3>1, <3>2, <3>3, WriteInvAct
  <2>3. CASE /\ exec[b].pc = "postflight" /\ Return(b, "record")
             /\ UpdateExecution(k, "verifying", "succeeded", "released")
    <3>1. exec'[b].pc = "idle" /\ \A c \in Brokers \ {b} : exec'[c] = exec[c]
      BY <2>1, <2>3, ReturnEffect
    <3>2. /\ executions'[k].state = "succeeded"
          /\ \A other \in Keys \ {k} : executions'[other] = executions[other]
      BY <1>4, <2>1, <2>3, UpdateEffect DEF InFlight, Held
    <3>3. Consistent(exec'[b].pc, executions'[k].state, calls'[k])
      BY <1>4, <2>1, <2>3, <3>1, <3>2 DEF Consistent, Claimed
    <3> QED BY <1>4, <2>1, <3>1, <3>2, <3>3, WriteInvAct DEF Claimed
  <2>4. CASE \E from \in {"executing", "verifying"} :
                /\ UpdateExecution(k, from, "recovery_required", "recovery_required")
                /\ Return(b, "record")
    <3>1. exec'[b].pc = "idle" /\ \A c \in Brokers \ {b} : exec'[c] = exec[c]
      BY <2>1, <2>4, ReturnEffect
    <3>2. /\ executions[k].state # "none" /\ executions'[k].state = "recovery_required"
          /\ \A other \in Keys \ {k} : executions'[other] = executions[other]
      BY <1>4, <2>1, <2>4, UpdateEffect DEF InFlight, Held
    <3> QED BY <2>1, <3>1, <3>2, WriteInvRest DEF Claimed
  <2>5. CASE StateConflict(b, "executing") \/ StateConflict(b, "verifying")
    <3>1. exec'[b].pc = "idle" /\ \A c \in Brokers \ {b} : exec'[c] = exec[c]
      BY <2>1, <2>5, ReturnEffect DEF StateConflict
    <3> QED BY <2>1, <2>5, <3>1, WriteInvRest DEF StateConflict, Claimed
  <2> QED BY <1>8, <2>2, <2>3, <2>4, <2>5 DEF RecordRestart, Postflight
<1>9. ASSUME NEW b \in Brokers, NEW config \in Configs, Start(b, config) PROVE WriteInv'
  <2>1. exec'[b].pc \notin Claimed /\ \A c \in Brokers \ {b} : exec'[c] = exec[c]
    BY <1>9 DEF Start, ExecTypeOK, Claimed
  <2>2. \A k \in Keys : \/ executions'[k] = executions[k]
                        \/ /\ executions[k].state # "none"
                           /\ executions'[k].state = "recovery_required"
    <3>1. ASSUME NEW k \in Keys, executions[k].state \in InFlight
          PROVE  /\ executions[k].state # "none"
                 /\ executions'[k].state = "recovery_required"
      <4>1. executions[k] \in Executions
        BY <3>1 DEF ExecTypeOK, NoExecution, InFlight
      <4> QED BY <1>9, <3>1, <4>1 DEF Start, InFlight, Executions
    <3> QED BY <1>9, <3>1 DEF Start
  <2> QED BY <1>9, <2>1, <2>2, WriteInvRest DEF Start
<1>10. ASSUME NEW k \in Keys, ResolveRecovery(k) PROVE WriteInv'
  <2>1. executions[k] \in Executions
    BY <1>10 DEF ResolveRecovery, Unresolved, ExecTypeOK, NoExecution
  <2>2. \A other \in Keys : executions'[other].state = executions[other].state
    BY <1>10, <2>1 DEF ResolveRecovery, ExecTypeOK, Executions
  <2>3. exec' = exec /\ calls' = calls
    BY <1>10 DEF ResolveRecovery
  <2>4. \A b \in Brokers : exec[b].pc \in Claimed => exec[b].key \in Keys
    BY RunningShape
  <2>5. UnclaimedUntouched' /\ OneWriter' /\ RestartAtMostOnce' /\ OutcomeTruthful'
    BY <2>2, <2>3 DEF UnclaimedUntouched, OneWriter, RestartAtMostOnce, OutcomeTruthful
  <2>6. PositionTruthful'
    BY <2>2, <2>3, <2>4 DEF PositionTruthful
  <2> QED BY <2>5, <2>6
<1>11. CASE UNCHANGED execVars
  BY <1>11 DEF execVars, UnclaimedUntouched, OneWriter, PositionTruthful, RestartAtMostOnce,
               OutcomeTruthful
<1> QED BY <1>1, <1>2, <1>3, <1>5, <1>6, <1>7, <1>8, <1>9, <1>10, <1>11
     DEF ExecutionNext, Step, Serve

LEMMA WriteInvariant == ExecutionSpec => [](ExecutionTypeOK /\ WriteInv)
<1>1. ExecutionInit => WriteInv
  BY DEF ExecutionInit, WriteInv, UnclaimedUntouched, OneWriter, PositionTruthful,
         RestartAtMostOnce, OutcomeTruthful, NoExecution, Claimed
<1>2. /\ ExecutionTypeOK /\ ExecutionTypeOK' /\ WriteInv /\ [ExecutionNext]_vars
      => WriteInv'
  <2>1. ASSUME ExecutionTypeOK, ExecutionTypeOK', WriteInv, ExecutionNext PROVE WriteInv'
    BY <2>1, WriteStep DEF ExecutionTypeOK
  <2>2. WriteInv /\ UNCHANGED vars => WriteInv'
    BY DEF vars, execVars, WriteInv, UnclaimedUntouched, OneWriter, PositionTruthful,
           RestartAtMostOnce, OutcomeTruthful
  <2> QED BY <2>1, <2>2
<1> QED BY <1>1, <1>2, TypeCorrect, PTL DEF ExecutionSpec

(* At most one restart call per action, for any number of brokers on one    *)
(* database, with crashes, uncaught exceptions and lease takeovers anywhere.*)
THEOREM AtMostOnce == ExecutionSpec => []RestartAtMostOnce
<1>1. WriteInv => RestartAtMostOnce
  BY DEF WriteInv
<1> QED BY <1>1, WriteInvariant, PTL

(* The recorded outcome of an action is true of its restart call.           *)
THEOREM OutcomesAreTrue == ExecutionSpec => []OutcomeTruthful
<1>1. WriteInv => OutcomeTruthful
  BY DEF WriteInv
<1> QED BY <1>1, WriteInvariant, PTL

----------------------------------------------------------------------------
(* Leases and executions.                                                   *)

(* What the lease of an action with this execution row must be; an action   *)
(* in flight has no verdict of an operator yet.                             *)
LeaseFits(row, state) ==
    /\ state = "active" <=> row.state \in InFlight
    /\ state = "recovery_required" <=> row.state = "recovery_required" /\ ~ row.resolved
    /\ state = "none" <=> row.state = "none"
    /\ row.state \in InFlight => ~ row.resolved

OneHolder ==
    \A k, other \in Keys : lease[k].state \in Held /\ lease[other].state \in Held => k = other

LeaseInv == OneHolder /\ \A k \in Keys : LeaseFits(executions[k], lease[k].state)

LEMMA LeaseInvImplies == LeaseInv => LeaseMatchesExecution
  BY DEF LeaseInv, OneHolder, LeaseFits, LeaseMatchesExecution, Unresolved

(* Nothing happens to leases and executions but that a lease is prolonged.  *)
LEMMA LeaseKept ==
  ASSUME LeaseInv, executions' = executions,
         \A k \in Keys : lease'[k].state = lease[k].state
  PROVE  LeaseInv'
<1>1. OneHolder'
  BY DEF LeaseInv, OneHolder
<1>2. ASSUME NEW k \in Keys PROVE LeaseFits(executions'[k], lease'[k].state)
  BY DEF LeaseInv
<1> QED BY <1>1, <1>2 DEF LeaseInv

(* Both rows of one action are written, and no second action gets hold.     *)
LEMMA LeaseWritten ==
  ASSUME LeaseInv, NEW k \in Keys,
         \A other \in Keys \ {k} :
            executions'[other] = executions[other] /\ lease'[other] = lease[other],
         LeaseFits(executions'[k], lease'[k].state),
         lease'[k].state \in Held =>
            lease[k].state \in Held \/ \A other \in Keys : lease[other].state \notin Held
  PROVE  LeaseInv'
<1>1. OneHolder'
  BY DEF LeaseInv, OneHolder
<1>2. ASSUME NEW other \in Keys PROVE LeaseFits(executions'[other], lease'[other].state)
  BY DEF LeaseInv
<1> QED BY <1>1, <1>2 DEF LeaseInv

(* The pairs of execution state and lease state update_execution is called  *)
(* with.                                                                    *)
LEMMA LeaseUpdated ==
  ASSUME ExecTypeOK, LeaseInv, NEW k \in Keys, NEW from \in InFlight,
         NEW to \in InFlight \cup {"succeeded", "failed", "recovery_required"},
         NEW leaseTo \in Held \cup {"released"},
         UpdateExecution(k, from, to, leaseTo),
         leaseTo = "active" <=> to \in InFlight,
         leaseTo = "recovery_required" <=> to = "recovery_required"
  PROVE  LeaseInv'
<1>1. /\ executions[k].state = from /\ executions'[k].state = to
      /\ executions'[k].resolved = executions[k].resolved
      /\ \A other \in Keys \ {k} :
            executions'[other] = executions[other] /\ lease'[other] = lease[other]
      /\ lease'[k].state = IF lease[k].state = "active" THEN leaseTo ELSE lease[k].state
  BY UpdateEffect
<1>2. LeaseFits(executions[k], lease[k].state)
  BY DEF LeaseInv
<1>3. lease[k].state = "active" /\ ~ executions[k].resolved
  BY <1>1, <1>2 DEF LeaseFits
<1>4. LeaseFits(executions'[k], lease'[k].state)
  BY <1>1, <1>3 DEF LeaseFits, InFlight, Held
<1> QED BY <1>1, <1>3, <1>4, LeaseWritten DEF Held

LEMMA LeaseStep ==
  ASSUME StoreTypeOK, ExecTypeOK, LeaseInv, ExecutionNext
  PROVE  LeaseInv'
<1>1. CASE UNCHANGED <<executions, lease>>
  BY <1>1, LeaseKept
<1>2. ASSUME NEW b \in Brokers, NEW other \in Keys, ClaimExpires(b, other) PROVE LeaseInv'
  <2>1. lease[other] \in Leases /\ lease[other].state = "active"
    BY <1>2 DEF ClaimExpires, ExpiredLease, ExecTypeOK, NoLease
  <2>2. LeaseFits(executions[other], "active")
    BY <2>1 DEF LeaseInv
  <2>3. executions[other].state \in InFlight /\ ~ executions[other].resolved
    BY <2>2 DEF LeaseFits
  <2>4. executions[other] \in Executions
    BY <2>3 DEF ExecTypeOK, NoExecution, InFlight
  <2>5. /\ executions'[other].state = "recovery_required" /\ ~ executions'[other].resolved
        /\ \A k \in Keys \ {other} : executions'[k] = executions[k]
    BY <1>2, <2>3, <2>4 DEF ClaimExpires, ExecTypeOK, Executions
  <2>6. /\ lease'[other].state = "recovery_required"
        /\ \A k \in Keys \ {other} : lease'[k] = lease[k]
    BY <1>2, <2>1 DEF ClaimExpires, ExecTypeOK, Leases
  <2>7. LeaseFits(executions'[other], lease'[other].state)
    BY <2>5, <2>6 DEF LeaseFits, InFlight
  <2> QED BY <2>1, <2>5, <2>6, <2>7, LeaseWritten DEF Held
<1>3. ASSUME NEW b \in Brokers, Claim(b) PROVE LeaseInv'
  <2> DEFINE k == exec[b].key
  <2>1. k \in Keys
    BY <1>3, RunningShape DEF Claim, Early
  <2>2. /\ executions'[k].state = "authorized" /\ ~ executions'[k].resolved
        /\ lease'[k].state = "active"
        /\ \A other \in Keys \ {k} :
              executions'[other] = executions[other] /\ lease'[other] = lease[other]
    BY <1>3, <2>1 DEF Claim, ExecTypeOK
  <2>3. \A other \in Keys : lease[other].state \notin Held
    BY <1>3 DEF Claim, Claimable
  <2>4. LeaseFits(executions'[k], lease'[k].state)
    BY <2>2 DEF LeaseFits, InFlight
  <2> QED BY <2>1, <2>2, <2>3, <2>4, LeaseWritten
<1>4. ASSUME NEW b \in Brokers, Revalidate(b) \/ RecordRestart(b) \/ Postflight(b)
      PROVE  LeaseInv'
  <2>1. exec[b].key \in Keys
    BY <1>4, RunningShape DEF Revalidate, RecordRestart, Postflight, Claimed
  <2>2. CASE \E from \in InFlight :
               \/ \E to \in InFlight : UpdateExecution(exec[b].key, from, to, "active")
               \/ \E to \in {"succeeded", "failed"} :
                     UpdateExecution(exec[b].key, from, to, "released")
               \/ UpdateExecution(exec[b].key, from, "recovery_required", "recovery_required")
    BY <2>1, <2>2, LeaseUpdated DEF InFlight, Held
  <2>3. CASE UNCHANGED <<executions, lease>>
    BY <2>3, LeaseKept
  <2> QED BY <1>4, <2>2, <2>3
       DEF Revalidate, RecordRestart, Postflight, StateConflict, InFlight
<1>5. ASSUME NEW b \in Brokers, FirstHeartbeat(b) \/ SecondHeartbeat(b) PROVE LeaseInv'
  <2>1. executions' = executions
    BY <1>5 DEF FirstHeartbeat, SecondHeartbeat
  <2>2. \A k \in Keys : lease'[k].state = lease[k].state
    BY <1>5, HeartbeatEffect DEF FirstHeartbeat, SecondHeartbeat, Claimed
  <2> QED BY <2>1, <2>2, LeaseKept
<1>6. ASSUME NEW b \in Brokers, NEW config \in Configs, Start(b, config) PROVE LeaseInv'
  <2>1. ASSUME NEW k \in Keys
        PROVE  /\ LeaseFits(executions'[k], lease'[k].state)
               /\ lease'[k].state \in Held => lease[k].state \in Held
    <3>1. LeaseFits(executions[k], lease[k].state)
      BY DEF LeaseInv
    <3>2. CASE lease[k].state = "active"
      <4>1. executions[k] \in Executions /\ lease[k] \in Leases
        BY <3>1, <3>2 DEF LeaseFits, ExecTypeOK, NoExecution, NoLease, InFlight
      <4>2. /\ executions'[k] = [executions[k] EXCEPT !.state = "recovery_required"]
            /\ lease'[k] = [lease[k] EXCEPT !.state = "recovery_required"]
        BY <1>6, <3>1, <3>2 DEF Start, LeaseFits
      <4>3. /\ executions'[k].state = "recovery_required" /\ ~ executions'[k].resolved
            /\ lease'[k].state = "recovery_required"
        BY <3>1, <3>2, <4>1, <4>2 DEF LeaseFits, Executions, Leases
      <4> QED BY <3>2, <4>3 DEF LeaseFits, InFlight, Held
    <3>3. CASE lease[k].state # "active"
      <4>1. executions'[k] = executions[k] /\ lease'[k] = lease[k]
        BY <1>6, <3>1, <3>3 DEF Start, LeaseFits
      <4> QED BY <3>1, <4>1
    <3> QED BY <3>2, <3>3
  <2>2. OneHolder'
    BY <2>1 DEF LeaseInv, OneHolder
  <2> QED BY <2>1, <2>2 DEF LeaseInv
<1>7. ASSUME NEW k \in Keys, ResolveRecovery(k) PROVE LeaseInv'
  <2>1. executions[k] \in Executions /\ executions[k].state = "recovery_required"
    BY <1>7 DEF ResolveRecovery, Unresolved, ExecTypeOK, NoExecution
  <2>2. lease[k].state = "recovery_required" /\ lease[k] \in Leases
    <3>1. LeaseFits(executions[k], lease[k].state)
      BY DEF LeaseInv
    <3>2. lease[k].state = "recovery_required"
      BY <1>7, <3>1 DEF LeaseFits, ResolveRecovery, Unresolved
    <3> QED BY <3>2 DEF ExecTypeOK, NoLease
  <2>3. /\ executions'[k].state = "recovery_required" /\ executions'[k].resolved
        /\ lease'[k].state = "released"
        /\ \A other \in Keys \ {k} :
              executions'[other] = executions[other] /\ lease'[other] = lease[other]
    BY <1>7, <2>1, <2>2 DEF ResolveRecovery, ExecTypeOK, Executions, Leases
  <2>4. LeaseFits(executions'[k], lease'[k].state)
    BY <2>3 DEF LeaseFits, InFlight
  <2> QED BY <2>2, <2>3, <2>4, LeaseWritten DEF Held
<1> QED BY <1>1, <1>2, <1>3, <1>4, <1>5, <1>6, <1>7
     DEF ExecutionNext, execVars, Step, Serve, Execute, Preflight, ClaimReplay, ClaimRefused,
         RestartAddon, Fault, Crash

LEMMA LeaseInvariant == ExecutionSpec => []LeaseInv
<1>1. ExecutionInit => LeaseInv
  BY DEF ExecutionInit, LeaseInv, OneHolder, LeaseFits, NoExecution, NoLease, Held, InFlight
<1>2. ExecutionTypeOK /\ LeaseInv /\ [ExecutionNext]_vars => LeaseInv'
  <2>1. CASE ExecutionNext
    BY <2>1, LeaseStep DEF ExecutionTypeOK
  <2>2. CASE UNCHANGED vars
    BY <2>2, LeaseKept DEF vars, execVars
  <2> QED BY <2>1, <2>2
<1> QED BY <1>1, <1>2, TypeCorrect, PTL DEF ExecutionSpec

(* The lease of an action is active while it is in flight, in recovery while*)
(* it waits for a verdict and released after it, through every claim,       *)
(* takeover, crash, start and resolution; and one action at a time holds it.*)
THEOREM LeasesFollowExecutions == ExecutionSpec => []LeaseMatchesExecution
  BY LeaseInvariant, LeaseInvImplies, PTL

----------------------------------------------------------------------------
(* What the rows of one action have to do with each other.                  *)

(* A native request lives as long as its proposal, a receipt as long as its *)
(* request; a receipt marks its request authorized, an execution its        *)
(* receipt consumed, and what is executed was asked for by a proposal.      *)
RequestOfProposal ==
    \A k \in Keys : requests[k] # NoRequest /\ requests[k].origin = "broker_native" =>
        /\ proposals[k] # NoProposal
        /\ requests[k].expires = proposals[k].expires

ReceiptOfRequest ==
    \A k \in Keys :
        /\ receipts[k] # NoReceipt <=> requests[k].state = "authorized"
        /\ receipts[k] # NoReceipt => receipts[k].expires = requests[k].expires

ExecutionOfReceipt ==
    \A k \in Keys :
        /\ executions[k] # NoExecution <=> receipts[k].state = "consumed"
        /\ executions[k] # NoExecution => requests[k].origin = "broker_native"

ProposalOfConfig ==
    \A k \in Keys : proposals[k] # NoProposal => proposals[k].target \in proposals[k].config.allow

(* A broker on its way to the claim runs with operations enabled.           *)
EnabledEarly == \A b \in Brokers : exec[b].pc \in Early => exec[b].config.enabled

RowsInv == RequestOfProposal /\ ReceiptOfRequest /\ ExecutionOfReceipt /\ ProposalOfConfig

(* A step of the store that leaves receipts alone and keeps the origin,     *)
(* expiry and authorization of requests keeps the rows together.            *)
LEMMA RowsKept ==
  ASSUME RowsInv, receipts' = receipts,
         \A k \in Keys : executions[k] # NoExecution <=> executions'[k] # NoExecution,
         \A k \in Keys : proposals'[k] = proposals[k]
                         \/ /\ proposals[k] = NoProposal
                            /\ proposals'[k].target \in proposals'[k].config.allow,
         \A k \in Keys :
            \/ /\ requests'[k].origin = requests[k].origin
               /\ requests'[k].expires = requests[k].expires
               /\ requests'[k].state = "authorized" <=> requests[k].state = "authorized"
               /\ requests[k] # NoRequest
            \/ requests'[k] = requests[k]
            \/ /\ requests[k] = NoRequest /\ requests'[k].state = "pending"
               /\ requests'[k].origin = "legacy"
                  \/ /\ proposals[k] # NoProposal
                     /\ requests'[k].expires = proposals[k].expires
  PROVE  RowsInv'
<1>1. RequestOfProposal'
  BY DEF RowsInv, RequestOfProposal
<1>2. ReceiptOfRequest'
  BY DEF RowsInv, ReceiptOfRequest, NoRequest
<1>3. ExecutionOfReceipt'
  BY DEF RowsInv, ExecutionOfReceipt, ReceiptOfRequest, NoRequest, NoReceipt
<1>4. ProposalOfConfig'
  BY DEF RowsInv, ProposalOfConfig
<1> QED BY <1>1, <1>2, <1>3, <1>4 DEF RowsInv

LEMMA RowsServeClient ==
  ASSUME StoreTypeOK, RowsInv, NEW config \in Configs, ServeClient(config),
         executions' = executions
  PROVE  RowsInv'
<1>1. ASSUME NEW e \in EvidenceIds, NEW scope \in Scopes, NEW t \in Targets,
             NEW life \in EvidenceLives,
             RegisterEvidence(e, scope, Baseline(t), now, now + life)
      PROVE  RowsInv'
  BY <1>1, RowsKept DEF RegisterEvidence
<1>2. ASSUME NEW k \in Keys, NEW t \in Targets, NEW base \in Baselines,
             CreateProposal(config, k, t, base)
      PROVE  RowsInv'
  <2>1. /\ proposals[k] = NoProposal /\ proposals'[k].target \in proposals'[k].config.allow
        /\ \A other \in Keys \ {k} : proposals'[other] = proposals[other]
    BY <1>2 DEF CreateProposal, StoreTypeOK
  <2> QED BY <1>2, <2>1, RowsKept DEF CreateProposal
<1>3. ASSUME NEW k \in Keys, NativeRequest(k) \/ LegacyRequest(k, now + ProposalTTL)
      PROVE  RowsInv'
  <2>1. /\ requests[k] = NoRequest /\ requests'[k].state = "pending"
        /\ requests'[k].origin = "legacy"
           \/ /\ proposals[k] # NoProposal
              /\ requests'[k].expires = proposals[k].expires
        /\ \A other \in Keys \ {k} : requests'[other] = requests[other]
    BY <1>3 DEF NativeRequest, LegacyRequest, ProposalLive, StoreTypeOK
  <2> QED BY <1>3, <2>1, RowsKept DEF NativeRequest, LegacyRequest
<1>4. ASSUME NEW k \in Keys, ReadRequest(k) PROVE RowsInv'
  <2>1. /\ requests'[k].origin = requests[k].origin
        /\ requests'[k].expires = requests[k].expires
        /\ requests'[k].state = "authorized" <=> requests[k].state = "authorized"
        /\ requests[k] # NoRequest
        /\ \A other \in Keys \ {k} : requests'[other] = requests[other]
    BY <1>4 DEF ReadRequest, RequestStateRead, StoreTypeOK
  <2> QED BY <1>4, <2>1, RowsKept DEF ReadRequest
<1> QED BY <1>1, <1>2, <1>3, <1>4 DEF ServeClient

(* authorize finds a pending request, which has no receipt yet, and leaves  *)
(* the two rows agreeing.                                                   *)
LEMMA RowsAuthorize ==
  ASSUME StoreTypeOK, RowsInv, NEW k \in Keys, NEW at, Authorize(k, at),
         executions' = executions
  PROVE  /\ RowsInv'
         /\ receipts[k] = NoReceipt /\ receipts'[k].state = "issued"
         /\ \A other \in Keys \ {k} : receipts'[other] = receipts[other]
<1>1. requests[k] # NoRequest /\ requests[k].state = "pending"
  BY DEF Authorize, Authorizable
<1>2. receipts[k] = NoReceipt
  BY <1>1 DEF RowsInv, ReceiptOfRequest
<1>3. /\ receipts'[k].state = "issued" /\ receipts'[k].expires = requests[k].expires
      /\ requests'[k].state = "authorized" /\ requests'[k].expires = requests[k].expires
      /\ requests'[k].origin = requests[k].origin
      /\ \A other \in Keys \ {k} :
            receipts'[other] = receipts[other] /\ requests'[other] = requests[other]
      /\ proposals' = proposals
  <2>1. requests[k] \in [state : {"pending", "authorized", "expired"},
                         origin : {"legacy", "broker_native"}, expires : Time]
    BY <1>1 DEF StoreTypeOK
  <2> QED BY <2>1 DEF Authorize, StoreTypeOK
<1>4. executions[k] = NoExecution
  BY <1>2 DEF RowsInv, ExecutionOfReceipt, NoReceipt
<1>5. RequestOfProposal'
  BY <1>1, <1>3 DEF RowsInv, RequestOfProposal
<1>6. ReceiptOfRequest'
  BY <1>3 DEF RowsInv, ReceiptOfRequest, NoReceipt
<1>7. ExecutionOfReceipt'
  BY <1>3, <1>4 DEF RowsInv, ExecutionOfReceipt
<1>8. ProposalOfConfig'
  BY <1>3 DEF RowsInv, ProposalOfConfig
<1> QED BY <1>2, <1>3, <1>5, <1>6, <1>7, <1>8 DEF RowsInv

LEMMA RowsStep ==
  ASSUME StoreTypeOK, ExecTypeOK, RowsInv, ExecutionNext
  PROVE  RowsInv'
<1>1. CASE UNCHANGED <<proposals, requests, receipts, executions>>
  BY <1>1, RowsKept
<1>2. ASSUME NEW b \in Brokers, Serve(b) PROVE RowsInv'
  <2>1. exec[b].config \in Configs
    BY <1>2 DEF Serve, ExecTypeOK, Stopped, Waiting, Running
  <2> QED BY <1>2, <2>1, RowsServeClient, RowsAuthorize DEF Serve, execVars
<1>3. ASSUME NEW b \in Brokers, Claim(b) PROVE RowsInv'
  <2> DEFINE k == exec[b].key
  <2>1. k \in Keys
    BY <1>3, RunningShape DEF Claim, Early
  <2>2. /\ receipts[k] # NoReceipt /\ receipts'[k].state = "consumed"
        /\ receipts'[k].expires = receipts[k].expires /\ receipts'[k] # NoReceipt
        /\ requests[k].origin = "broker_native"
        /\ executions'[k] # NoExecution
        /\ \A other \in Keys \ {k} :
              receipts'[other] = receipts[other] /\ executions'[other] = executions[other]
        /\ requests' = requests /\ proposals' = proposals
    <3>1. receipts[k] \in [state : {"issued", "consumed"}, expires : Time]
      BY <1>3, <2>1 DEF Claim, Claimable, StoreTypeOK
    <3>2. exec[b].receipt = k
      BY <1>3 DEF Claim, Claimable
    <3> QED BY <1>3, <2>1, <3>1, <3>2 DEF Claim, Claimable, StoreTypeOK, ExecTypeOK,
            NoExecution, NoReceipt
  <2>3. RequestOfProposal' /\ ProposalOfConfig'
    BY <2>2 DEF RowsInv, RequestOfProposal, ProposalOfConfig
  <2>4. ReceiptOfRequest'
    BY <2>1, <2>2 DEF RowsInv, ReceiptOfRequest
  <2>5. ExecutionOfReceipt'
    BY <2>1, <2>2 DEF RowsInv, ExecutionOfReceipt
  <2> QED BY <2>3, <2>4, <2>5 DEF RowsInv
<1>4. ASSUME UNCHANGED <<proposals, requests, receipts>>,
             \A k \in Keys : executions[k] # NoExecution <=> executions'[k] # NoExecution
      PROVE  RowsInv'
  BY <1>4, RowsKept
<1>5. ASSUME NEW b \in Brokers, Revalidate(b) \/ RecordRestart(b) \/ Postflight(b)
      PROVE  RowsInv'
  <2>1. exec[b].key \in Keys
    BY <1>5, RunningShape DEF Revalidate, RecordRestart, Postflight, Claimed
  <2>2. CASE \E from \in InFlight :
               \E to \in InFlight \cup {"succeeded", "failed", "recovery_required"} :
               \E leaseTo \in Held \cup {"released"} :
                  UpdateExecution(exec[b].key, from, to, leaseTo)
    <3>1. \A k \in Keys : executions[k] # NoExecution <=> executions'[k] # NoExecution
      BY <2>1, <2>2, UpdateEffect
    <3> QED BY <1>4, <1>5, <3>1 DEF Revalidate, RecordRestart, Postflight, storeVars
  <2>3. CASE executions' = executions
    BY <1>1, <1>5, <2>3 DEF Revalidate, RecordRestart, Postflight, storeVars
  <2> QED BY <1>5, <2>2, <2>3
       DEF Revalidate, RecordRestart, Postflight, StateConflict, InFlight, Held
<1>6. ASSUME NEW b \in Brokers, NEW other \in Keys, ClaimExpires(b, other) PROVE RowsInv'
  <2>1. \A k \in Keys : executions[k] # NoExecution <=> executions'[k] # NoExecution
    BY <1>6 DEF ClaimExpires, ExecTypeOK, NoExecution, InFlight, Executions
  <2> QED BY <1>4, <1>6, <2>1 DEF ClaimExpires, storeVars
<1>7. ASSUME NEW b \in Brokers, NEW config \in Configs, Start(b, config) PROVE RowsInv'
  <2>1. \A k \in Keys : executions[k] # NoExecution <=> executions'[k] # NoExecution
    BY <1>7 DEF Start, ExecTypeOK, NoExecution, InFlight, Executions
  <2> QED BY <1>4, <1>7, <2>1 DEF Start, storeVars
<1>8. ASSUME NEW k \in Keys, ResolveRecovery(k) PROVE RowsInv'
  <2>1. \A other \in Keys : executions[other] # NoExecution <=> executions'[other] # NoExecution
    BY <1>8 DEF ResolveRecovery, Unresolved, ExecTypeOK, NoExecution, InFlight, Executions
  <2> QED BY <1>4, <1>8, <2>1 DEF ResolveRecovery, storeVars
<1> QED BY <1>1, <1>2, <1>3, <1>5, <1>6, <1>7, <1>8
     DEF ExecutionNext, Environment, Tick, AddonChange, execVars, storeVars, Step, Execute,
         Preflight, ClaimReplay, ClaimRefused, FirstHeartbeat, SecondHeartbeat, RestartAddon,
         Fault, Crash

LEMMA EnabledStep ==
  ASSUME ExecTypeOK, EnabledEarly, ExecutionNext
  PROVE  EnabledEarly'
<1> SUFFICES ASSUME NEW c \in Brokers, exec'[c].pc \in Early PROVE exec'[c].config.enabled
  BY DEF EnabledEarly
<1>1. CASE exec'[c] = exec[c]
  BY <1>1 DEF EnabledEarly
<1>2. ASSUME NEW b \in Brokers, NEW k \in Keys, NEW r \in Keys, Execute(b, k, r)
      PROVE  exec'[c].config.enabled
  <2>1. CASE Executable(b, k) /\ c = b
             /\ exec' = [exec EXCEPT ![b] =
                   [pc |-> "checked", config |-> exec[b].config, key |-> k, receipt |-> r]]
    BY <2>1 DEF Executable, ExecTypeOK
  <2>2. CASE \E reply : Return(b, reply) /\ c = b
    BY <2>2 DEF Return, ExecTypeOK, Early
  <2>3. c # b => exec'[c] = exec[c]
    BY <1>2 DEF Execute, Return, ExecTypeOK
  <2> QED BY <1>1, <1>2, <2>1, <2>2, <2>3 DEF Execute
<1>3. ASSUME NEW b \in Brokers, Step(b) \/ Fault(b) PROVE exec'[c].config.enabled
  <2>1. exec[b].pc \in Early \cup Claimed
    BY <1>3 DEF Step, Preflight, ClaimReplay, Claim, ClaimRefused, ClaimExpires, Revalidate,
        FirstHeartbeat, RestartAddon, RecordRestart, SecondHeartbeat, Postflight, Fault,
        Early, Claimed
  <2>2. exec[b] \in Running
    BY <2>1, RunningShape
  <2>3. \/ \E reply : Return(b, reply)
        \/ exec[b].pc = "checked" /\ Goto(b, "claim")
        \/ \E pc \in Claimed : Goto(b, pc)
    BY <1>3 DEF Step, Preflight, ClaimReplay, Claim, ClaimRefused, ClaimExpires, Revalidate,
        FirstHeartbeat, RestartAddon, RecordRestart, SecondHeartbeat, Postflight, Fault,
        Heartbeat, StateConflict, Claimed
  <2>4. c # b => exec'[c] = exec[c]
    BY <2>3 DEF Goto, Return, ExecTypeOK
  <2>5. CASE c = b
    <3>1. exec[b].pc = "checked" /\ Goto(b, "claim")
      BY <2>2, <2>3, <2>5 DEF Goto, Return, ExecTypeOK, Running, Early, Claimed
    <3>2. exec'[b].config = exec[b].config /\ exec[b].config.enabled
      BY <2>2, <3>1 DEF Goto, ExecTypeOK, Running, EnabledEarly, Early
    <3> QED BY <2>5, <3>2
  <2> QED BY <1>1, <2>4, <2>5
<1>4. ASSUME NEW b \in Brokers, Crash(b) \/ \E config \in Configs : Start(b, config)
      PROVE  exec'[c].config.enabled
  BY <1>1, <1>4 DEF Crash, Start, ExecTypeOK, Early
<1> QED BY <1>1, <1>2, <1>3, <1>4 DEF ExecutionNext, execVars, Serve, ResolveRecovery

LEMMA RowsInvariant == ExecutionSpec => [](RowsInv /\ EnabledEarly)
<1>1. ExecutionInit => RowsInv /\ EnabledEarly
  BY DEF ExecutionInit, StoreInit, RowsInv, RequestOfProposal, ReceiptOfRequest,
         ExecutionOfReceipt, ProposalOfConfig, EnabledEarly, NoExecution, NoReceipt,
         NoRequest, NoProposal, Early
<1>2. ExecutionTypeOK /\ RowsInv /\ EnabledEarly /\ [ExecutionNext]_vars
      => RowsInv' /\ EnabledEarly'
  <2>1. CASE ExecutionNext
    BY <2>1, RowsStep, EnabledStep DEF ExecutionTypeOK
  <2>2. CASE UNCHANGED vars
    BY <2>2, RowsKept DEF vars, storeVars, execVars, EnabledEarly
  <2> QED BY <2>1, <2>2
<1> QED BY <1>1, <1>2, TypeCorrect, PTL DEF ExecutionSpec

----------------------------------------------------------------------------
(* The recovery interlock.                                                  *)

(* Only the claim creates an execution row.                                 *)
LEMMA OnlyClaimBegins ==
  ASSUME ExecTypeOK, ExecutionNext, NEW k \in Keys,
         executions[k] = NoExecution, executions'[k] # NoExecution
  PROVE  \E b \in Brokers : Claim(b) /\ exec[b].key = k /\ exec[b].receipt = k
<1>1. executions' # executions
  OBVIOUS
<1>2. ASSUME NEW b \in Brokers, Claim(b) PROVE exec[b].key = k /\ exec[b].receipt = k
  BY <1>2 DEF Claim, Claimable, ExecTypeOK
<1>3. ASSUME NEW b \in Brokers, Revalidate(b) \/ RecordRestart(b) \/ Postflight(b) PROVE FALSE
  <2>1. exec[b].key \in Keys
    BY <1>3, RunningShape DEF Revalidate, RecordRestart, Postflight, Claimed
  <2>2. \E from \in InFlight :
        \E to \in InFlight \cup {"succeeded", "failed", "recovery_required"} :
        \E leaseTo \in Held \cup {"released"} :
           UpdateExecution(exec[b].key, from, to, leaseTo)
    BY <1>1, <1>3 DEF Revalidate, RecordRestart, Postflight, StateConflict, InFlight, Held
  <2> QED BY <2>1, <2>2, UpdateEffect
<1>4. ASSUME NEW b \in Brokers,
             \/ \E other \in Keys : ClaimExpires(b, other)
             \/ \E config \in Configs : Start(b, config)
      PROVE  FALSE
  BY <1>4 DEF ClaimExpires, Start, ExecTypeOK, NoExecution, InFlight
<1>5. ASSUME NEW other \in Keys, ResolveRecovery(other) PROVE FALSE
  BY <1>5 DEF ResolveRecovery, Unresolved, ExecTypeOK, NoExecution
<1> QED BY <1>1, <1>2, <1>3, <1>4, <1>5
     DEF ExecutionNext, execVars, Step, Serve, Execute, Preflight, ClaimReplay, ClaimRefused,
         FirstHeartbeat, SecondHeartbeat, RestartAddon, Fault, Crash

LEMMA InterlockStep ==
  ASSUME StoreTypeOK, ExecTypeOK, LeaseInv, RowsInv, EnabledEarly, ExecutionNext,
         NEW k \in Keys, executions[k] = NoExecution, executions'[k] # NoExecution
  PROVE  /\ \A other \in Keys : executions[other].state \notin InFlight
         /\ \A other \in Keys : ~ Unresolved(other)
         /\ requests[k].state = "authorized" /\ requests[k].origin = "broker_native"
         /\ executions'[k].receipt = k /\ receipts'[k].state = "consumed"
         /\ now < proposals[k].expires
         /\ evidence[proposals[k].evidence].expires >= proposals[k].expires
         /\ \E b \in Brokers : exec[b].pc = "claim" /\ exec[b].config.enabled /\ Bound(b, k)
<1>1. PICK b \in Brokers : Claim(b) /\ exec[b].key = k /\ exec[b].receipt = k
  BY OnlyClaimBegins
<1>2. Claimable(b, k, k)
  BY <1>1 DEF Claim
<1>3. \A other \in Keys : executions[other].state \notin InFlight
  BY <1>2 DEF Claimable, LeaseInv, LeaseFits, Held
<1>4. /\ receipts[k] # NoReceipt /\ now < receipts[k].expires
      /\ requests[k] # NoRequest
      /\ requests[k].state = "authorized" /\ requests[k].origin = "broker_native"
  BY <1>2 DEF Claimable, NoRequest
<1>5. receipts[k].expires = proposals[k].expires
  BY <1>4 DEF RowsInv, ReceiptOfRequest, RequestOfProposal
<1>6. now < proposals[k].expires
  BY <1>4, <1>5
<1>7. evidence[proposals[k].evidence].expires >= proposals[k].expires
  BY <1>2, <1>5 DEF Claimable, EvidenceValid
<1>8. exec[b].pc = "claim" /\ exec[b].config.enabled /\ Bound(b, k)
  BY <1>1, <1>2 DEF Claim, Claimable, EnabledEarly, Early
<1>9. executions'[k].receipt = k /\ receipts'[k].state = "consumed"
  BY <1>1, <1>4 DEF Claim, StoreTypeOK, ExecTypeOK
<1> QED BY <1>2, <1>3, <1>4, <1>6, <1>7, <1>8, <1>9 DEF Claimable

(* An execution begins only when nothing else is in flight or unresolved,   *)
(* on its own native, authorized and still living request, under the        *)
(* options of its proposal, although execute() looked at these in earlier   *)
(* transactions and other instances write the same database meanwhile.      *)
THEOREM ClaimsAreInterlocked == ExecutionSpec => ClaimInterlocked
<1>1. /\ ExecutionTypeOK /\ LeaseInv /\ RowsInv /\ EnabledEarly /\ [ExecutionNext]_vars
      => [\A k \in Keys : executions[k] = NoExecution /\ executions'[k] # NoExecution =>
          /\ \A other \in Keys : executions[other].state \notin InFlight
          /\ \A other \in Keys : ~ Unresolved(other)
          /\ requests[k].state = "authorized" /\ requests[k].origin = "broker_native"
          /\ executions'[k].receipt = k /\ receipts'[k].state = "consumed"
          /\ now < proposals[k].expires
          /\ evidence[proposals[k].evidence].expires >= proposals[k].expires
          /\ \E b \in Brokers : exec[b].pc = "claim" /\ exec[b].config.enabled
                                /\ Bound(b, k)]_vars
  BY InterlockStep DEF ExecutionTypeOK
<1> QED BY <1>1, TypeCorrect, LeaseInvariant, RowsInvariant, PTL
     DEF ExecutionSpec, ClaimInterlocked

----------------------------------------------------------------------------
(* The executor keeps the promise of RestartLedger.                         *)

VerdictOf(row) ==
    IF row.state \in InFlight THEN "open"
    ELSE IF row.state # "recovery_required" THEN row.state
    ELSE IF row.resolved THEN "resolved" ELSE "recovery"

(* One action's verdict moves, or none does.                                *)
LEMMA VerdictMoves ==
  ASSUME NEW k \in Keys,
         \A other \in Keys \ {k} : VerdictOf(executions'[other]) = VerdictOf(executions[other])
  PROVE  LedgerVerdict' = [LedgerVerdict EXCEPT ![k] = VerdictOf(executions'[k])]
  BY DEF LedgerVerdict, VerdictOf

LEMMA VerdictStays ==
  ASSUME \A k \in Keys : VerdictOf(executions'[k]) = VerdictOf(executions[k])
  PROVE  LedgerVerdict' = LedgerVerdict
  BY DEF LedgerVerdict, VerdictOf

LEMMA LedgerStutters ==
  ASSUME receipts' = receipts, calls' = calls,
         \A k \in Keys : VerdictOf(executions'[k]) = VerdictOf(executions[k])
  PROVE  UNCHANGED Ledger!ledgerVars
<1>1. LedgerReceipt' = LedgerReceipt
  BY DEF LedgerReceipt
<1> QED BY <1>1, VerdictStays DEF Ledger!ledgerVars

(* A row that moves from in flight to an outcome its call bears out, or     *)
(* from recovery to resolved, is a decision of the ledger.                  *)
LEMMA LedgerDecides ==
  ASSUME NEW k \in Keys, receipts' = receipts, calls' = calls,
         \A other \in Keys \ {k} : VerdictOf(executions'[other]) = VerdictOf(executions[other]),
         LET old == VerdictOf(executions[k])
             new == VerdictOf(executions'[k])
         IN  \/ old = "open" /\ new = "failed" /\ calls[k] = 0
             \/ old = "open" /\ new = "succeeded" /\ calls[k] = 1
             \/ old = "open" /\ new = "recovery"
             \/ old = "recovery" /\ new = "resolved"
  PROVE  Ledger!LedgerNext
<1>1. LedgerReceipt' = LedgerReceipt
  BY DEF LedgerReceipt
<1>2. LedgerVerdict' = [LedgerVerdict EXCEPT ![k] = VerdictOf(executions'[k])]
  BY VerdictMoves
<1>3. LedgerVerdict[k] = VerdictOf(executions[k])
  BY DEF LedgerVerdict, VerdictOf
<1>4. Ledger!Decide(k)
  BY <1>1, <1>2, <1>3 DEF Ledger!Decide
<1> QED BY <1>4 DEF Ledger!LedgerNext

LEMMA LedgerUpdates ==
  ASSUME ExecTypeOK, WriteInv, LeaseInv, NEW k \in Keys, NEW from \in InFlight,
         NEW to \in InFlight \cup {"succeeded", "failed", "recovery_required"},
         NEW leaseTo \in Held \cup {"released"},
         UpdateExecution(k, from, to, leaseTo), receipts' = receipts, calls' = calls,
         to = "failed" => calls[k] = 0,
         to = "succeeded" => calls[k] = 1
  PROVE  [Ledger!LedgerNext]_(Ledger!ledgerVars)
<1>1. /\ executions[k].state = from /\ executions'[k].state = to
      /\ executions'[k].resolved = executions[k].resolved
      /\ \A other \in Keys \ {k} : executions'[other] = executions[other]
  BY UpdateEffect
<1>2. ~ executions[k].resolved
  BY <1>1 DEF LeaseInv, LeaseFits
<1>3. VerdictOf(executions[k]) = "open"
  BY <1>1 DEF VerdictOf
<1>4. \A other \in Keys \ {k} : VerdictOf(executions'[other]) = VerdictOf(executions[other])
  BY <1>1
<1>5. CASE to \in InFlight
  <2>1. VerdictOf(executions'[k]) = "open"
    BY <1>1, <1>5 DEF VerdictOf
  <2> QED BY <1>3, <1>4, <2>1, LedgerStutters
<1>6. CASE to \in {"succeeded", "failed"}
  <2>1. VerdictOf(executions'[k]) = to
    BY <1>1, <1>6 DEF VerdictOf, InFlight
  <2> QED BY <1>3, <1>4, <1>6, <2>1, LedgerDecides
<1>7. CASE to = "recovery_required"
  <2>1. VerdictOf(executions'[k]) = "recovery"
    BY <1>1, <1>2, <1>7 DEF VerdictOf, InFlight
  <2> QED BY <1>3, <1>4, <2>1, LedgerDecides
<1> QED BY <1>5, <1>6, <1>7

LEMMA LedgerStep ==
  ASSUME StoreTypeOK, ExecTypeOK, WriteInv, LeaseInv, RowsInv, ExecutionNext
  PROVE  [Ledger!LedgerNext]_(Ledger!ledgerVars)
<1>1. CASE UNCHANGED <<receipts, calls, executions>>
  BY <1>1, LedgerStutters
<1>2. ASSUME NEW b \in Brokers, Serve(b) PROVE [Ledger!LedgerNext]_(Ledger!ledgerVars)
  <2>1. CASE ServeClient(exec[b].config)
    BY <1>1, <1>2, <2>1 DEF Serve, execVars, ServeClient, RegisterEvidence, CreateProposal,
       NativeRequest, LegacyRequest, ReadRequest
  <2>2. ASSUME NEW k \in Keys, NEW at \in 0 .. now, Authorize(k, at)
        PROVE  Ledger!LedgerNext
    <3>1. /\ receipts[k] = NoReceipt /\ receipts'[k].state = "issued"
          /\ \A other \in Keys \ {k} : receipts'[other] = receipts[other]
      BY <1>2, <2>2, RowsAuthorize DEF Serve, execVars
    <3>2. LedgerReceipt[k] = "none" /\ LedgerReceipt' = [LedgerReceipt EXCEPT ![k] = "issued"]
      <4>1. receipts'[k] # NoReceipt
        BY <3>1 DEF NoReceipt
      <4>2. LedgerReceipt[k] = "none"
        BY <3>1 DEF LedgerReceipt
      <4> QED BY <3>1, <4>1, <4>2 DEF LedgerReceipt
    <3>3. LedgerVerdict' = LedgerVerdict /\ calls' = calls
      BY <1>2 DEF Serve, execVars, LedgerVerdict
    <3>4. Ledger!Issue(k)
      BY <3>2, <3>3 DEF Ledger!Issue
    <3> QED BY <3>4 DEF Ledger!LedgerNext
  <2> QED BY <1>2, <2>1, <2>2 DEF Serve
<1>3. ASSUME NEW b \in Brokers, Claim(b) PROVE Ledger!LedgerNext
  <2> DEFINE k == exec[b].key
  <2>1. k \in Keys
    BY <1>3, RunningShape DEF Claim, Early
  <2>2. Claimable(b, k, k) /\ exec[b].receipt = k
    BY <1>3 DEF Claim, Claimable
  <2>3. /\ receipts[k].state = "issued" /\ receipts[k] # NoReceipt
        /\ receipts'[k].state = "consumed" /\ receipts'[k] # NoReceipt
        /\ \A other \in Keys \ {k} : receipts'[other] = receipts[other]
    <3>1. receipts[k] \in [state : {"issued", "consumed"}, expires : Time]
      BY <2>1, <2>2 DEF Claimable, StoreTypeOK
    <3> QED BY <1>3, <2>1, <2>2, <3>1 DEF Claim, Claimable, StoreTypeOK, NoReceipt
  <2>4. /\ executions[k] = NoExecution /\ executions'[k].state = "authorized"
        /\ \A other \in Keys \ {k} : executions'[other] = executions[other]
    BY <1>3, <2>1 DEF Claim, ExecTypeOK
  <2>5. LedgerReceipt[k] = "issued" /\ LedgerReceipt' = [LedgerReceipt EXCEPT ![k] = "spent"]
    BY <2>1, <2>3 DEF LedgerReceipt
  <2>6. VerdictOf(executions[k]) = "none" /\ VerdictOf(executions'[k]) = "open"
    BY <2>4 DEF VerdictOf, NoExecution, InFlight
  <2>7. LedgerVerdict[k] = "none" /\ LedgerVerdict' = [LedgerVerdict EXCEPT ![k] = "open"]
    <3>1. LedgerVerdict[k] = VerdictOf(executions[k])
      BY <2>1 DEF LedgerVerdict, VerdictOf
    <3> QED BY <2>1, <2>4, <2>6, <3>1, VerdictMoves
  <2>8. \A other \in Keys : ~ Ledger!Undecided(other)
    <3>1. ASSUME NEW other \in Keys
          PROVE  executions[other].state \notin InFlight /\ ~ Unresolved(other)
      BY <2>2 DEF Claimable, LeaseInv, LeaseFits, Held
    <3>2. ASSUME NEW other \in Keys
          PROVE  LedgerVerdict[other] \notin {"open", "recovery"}
      <4>1. executions[other] \in {NoExecution} \cup Executions
        BY DEF ExecTypeOK
      <4>2. executions[other].state \in {"none", "succeeded", "failed", "recovery_required"}
        BY <3>1, <4>1 DEF NoExecution, Executions
      <4> QED BY <3>1, <4>2 DEF LedgerVerdict, Unresolved
    <3> QED BY <3>2 DEF Ledger!Undecided
  <2>9. Ledger!Spend(k)
    BY <1>3, <2>5, <2>7, <2>8 DEF Claim, Ledger!Spend
  <2> QED BY <2>1, <2>9 DEF Ledger!LedgerNext
<1>4. ASSUME NEW b \in Brokers, Revalidate(b) \/ RecordRestart(b) \/ Postflight(b)
      PROVE  [Ledger!LedgerNext]_(Ledger!ledgerVars)
  <2> DEFINE k == exec[b].key
  <2>1. k \in Keys /\ receipts' = receipts /\ calls' = calls
    BY <1>4, RunningShape DEF Revalidate, RecordRestart, Postflight, Claimed, storeVars
  <2>2. CASE executions' = executions
    BY <1>1, <2>1, <2>2
  <2>3. CASE \E from \in InFlight, to \in InFlight \cup {"recovery_required"},
                leaseTo \in Held : UpdateExecution(k, from, to, leaseTo)
    BY <2>1, <2>3, LedgerUpdates DEF InFlight
  <2>4. CASE UpdateExecution(k, "authorized", "failed", "released")
    <3>1. calls[k] = 0
      BY <2>1, <2>4 DEF UpdateExecution, WriteInv, OutcomeTruthful
    <3> QED BY <2>1, <2>4, <3>1, LedgerUpdates DEF InFlight
  <2>5. CASE UpdateExecution(k, "verifying", "succeeded", "released")
    <3>1. calls[k] = 1
      BY <2>1, <2>5 DEF UpdateExecution, WriteInv, OutcomeTruthful
    <3> QED BY <2>1, <2>5, <3>1, LedgerUpdates DEF InFlight
  <2> QED BY <1>4, <2>2, <2>3, <2>4, <2>5
       DEF Revalidate, RecordRestart, Postflight, StateConflict, InFlight, Held
<1>5. ASSUME NEW b \in Brokers, RestartAddon(b) PROVE [Ledger!LedgerNext]_(Ledger!ledgerVars)
  <2> DEFINE k == exec[b].key
  <2>1. k \in Keys /\ exec[b].pc = "restart" /\ exec[b].pc \in Claimed
    BY <1>5, RunningShape DEF RestartAddon, Claimed
  <2>2. calls[k] = 0
    BY <2>1 DEF WriteInv, PositionTruthful
  <2>3. executions[k].state \in {"executing", "recovery_required"}
    <3>1. executions[k] \in {NoExecution} \cup Executions
      BY <2>1 DEF ExecTypeOK
    <3>2. executions[k].state \notin {"none", "authorized", "failed", "verifying", "succeeded"}
      BY <2>1, <2>2 DEF WriteInv, PositionTruthful, OutcomeTruthful, UnclaimedUntouched
    <3> QED BY <3>1, <3>2 DEF NoExecution, Executions, InFlight
  <2>4. LedgerReceipt[k] = "spent" /\ LedgerReceipt' = LedgerReceipt
    <3>1. executions[k] # NoExecution
      BY <2>3 DEF NoExecution
    <3>2. receipts[k].state = "consumed" /\ receipts[k] # NoReceipt
      BY <2>1, <3>1 DEF RowsInv, ExecutionOfReceipt, NoReceipt
    <3> QED BY <1>5, <2>1, <3>2 DEF LedgerReceipt, RestartAddon, storeVars
  <2>5. /\ LedgerVerdict[k] \in {"open", "recovery", "resolved"}
        /\ LedgerVerdict' = LedgerVerdict
    BY <1>5, <2>1, <2>3 DEF LedgerVerdict, RestartAddon, InFlight
  <2>6. CASE calls' = [calls EXCEPT ![k] = @ + 1]
    <3>1. calls' = [calls EXCEPT ![k] = 1]
      BY <2>1, <2>2, <2>6 DEF ExecTypeOK
    <3>2. Ledger!Write(k)
      BY <2>2, <2>4, <2>5, <3>1 DEF Ledger!Write
    <3> QED BY <2>1, <3>2 DEF Ledger!LedgerNext
  <2>7. CASE calls' = calls
    BY <2>4, <2>5, <2>7 DEF Ledger!ledgerVars
  <2> QED BY <1>5, <2>6, <2>7 DEF RestartAddon
<1>6. ASSUME NEW b \in Brokers, NEW other \in Keys, ClaimExpires(b, other)
      PROVE  Ledger!LedgerNext
  <2>1. LeaseFits(executions[other], "active")
    BY <1>6 DEF ClaimExpires, ExpiredLease, LeaseInv
  <2>2. executions[other].state \in InFlight /\ ~ executions[other].resolved
    BY <2>1 DEF LeaseFits
  <2>3. executions[other] \in Executions
    BY <2>2 DEF ExecTypeOK, NoExecution, InFlight
  <2>4. /\ executions'[other].state = "recovery_required" /\ ~ executions'[other].resolved
        /\ \A k \in Keys \ {other} : executions'[k] = executions[k]
    BY <1>6, <2>2, <2>3 DEF ClaimExpires, ExecTypeOK, Executions
  <2>5. VerdictOf(executions[other]) = "open" /\ VerdictOf(executions'[other]) = "recovery"
    BY <2>2, <2>4 DEF VerdictOf, InFlight
  <2> QED BY <1>6, <2>4, <2>5, LedgerDecides DEF ClaimExpires, storeVars
<1>7. ASSUME NEW b \in Brokers, NEW config \in Configs, Start(b, config)
      PROVE  [Ledger!LedgerNext]_(Ledger!ledgerVars)
  <2>1. receipts' = receipts /\ calls' = calls
    BY <1>7 DEF Start, storeVars
  <2>2. ASSUME NEW k \in Keys, executions[k].state \notin InFlight
        PROVE  VerdictOf(executions'[k]) = VerdictOf(executions[k])
    BY <1>7, <2>2 DEF Start
  <2>3. CASE \A k \in Keys : executions[k].state \notin InFlight
    BY <2>1, <2>2, <2>3, LedgerStutters
  <2>4. ASSUME NEW k \in Keys, executions[k].state \in InFlight PROVE Ledger!LedgerNext
    <3>1. lease[k].state = "active" /\ ~ executions[k].resolved
      BY <2>4 DEF LeaseInv, LeaseFits
    <3>2. \A other \in Keys \ {k} : executions[other].state \notin InFlight
      BY <3>1 DEF LeaseInv, LeaseFits, OneHolder, Held
    <3>3. executions[k] \in Executions
      BY <2>4 DEF ExecTypeOK, NoExecution, InFlight
    <3>4. executions'[k].state = "recovery_required" /\ ~ executions'[k].resolved
      BY <1>7, <2>4, <3>1, <3>3 DEF Start, Executions
    <3>5. VerdictOf(executions[k]) = "open" /\ VerdictOf(executions'[k]) = "recovery"
      BY <2>4, <3>4 DEF VerdictOf, InFlight
    <3> QED BY <2>1, <2>2, <3>2, <3>5, LedgerDecides
  <2> QED BY <2>3, <2>4
<1>8. ASSUME NEW k \in Keys, ResolveRecovery(k) PROVE Ledger!LedgerNext
  <2>1. executions[k] \in Executions /\ executions[k].state = "recovery_required"
        /\ ~ executions[k].resolved
    BY <1>8 DEF ResolveRecovery, Unresolved, ExecTypeOK, NoExecution
  <2>2. /\ executions'[k].state = "recovery_required" /\ executions'[k].resolved
        /\ \A other \in Keys \ {k} : executions'[other] = executions[other]
    BY <1>8, <2>1 DEF ResolveRecovery, ExecTypeOK, Executions
  <2>3. VerdictOf(executions[k]) = "recovery" /\ VerdictOf(executions'[k]) = "resolved"
    BY <2>1, <2>2 DEF VerdictOf, InFlight
  <2> QED BY <1>8, <2>2, <2>3, LedgerDecides DEF ResolveRecovery, storeVars
<1> QED BY <1>1, <1>2, <1>3, <1>4, <1>5, <1>6, <1>7, <1>8
     DEF ExecutionNext, Environment, Tick, AddonChange, execVars, storeVars, Step, Execute,
         Preflight, ClaimReplay, ClaimRefused, FirstHeartbeat, SecondHeartbeat, Fault, Crash

(* The executor implements RestartLedger: read as the ledger's receipt,     *)
(* writes and verdict, its rows begin as the ledger does, and every         *)
(* transaction, call, crash and start is a step of the ledger or none.      *)
THEOREM ImplementsLedger == ExecutionSpec => KeepsLedger
<1>1. ExecutionInit => Ledger!LedgerInit
  BY DEF ExecutionInit, StoreInit, Ledger!LedgerInit, LedgerReceipt, LedgerVerdict,
         NoExecution, NoReceipt, InFlight
<1>2. ExecutionTypeOK /\ WriteInv /\ LeaseInv /\ RowsInv /\ [ExecutionNext]_vars
      => [Ledger!LedgerNext]_(Ledger!ledgerVars)
  <2>1. CASE ExecutionNext
    BY <2>1, LedgerStep DEF ExecutionTypeOK
  <2>2. CASE UNCHANGED vars
    BY <2>2, LedgerStutters DEF vars, storeVars, execVars
  <2> QED BY <2>1, <2>2
<1> QED BY <1>1, <1>2, WriteInvariant, LeaseInvariant, RowsInvariant, PTL
     DEF ExecutionSpec, KeepsLedger, Ledger!LedgerSpec


----------------------------------------------------------------------------
(* Types of the ceremony's state.                                           *)

Answers == Nat \cup {Unsigned}
OpenFlows == [state : {"open"}, kind : {"registration", "authorization"}, user : Users,
              key : Keys \cup {NoKey}, expires : Nat, answer : Answers]
Enrolling == [pc : {"enroll"}, flow : FlowIds, user : Users, key : {NoKey}, answer : Answers]
Checking == [pc : {"check", "verify"}, flow : FlowIds, user : Users, key : Keys,
             answer : Answers]
Granting == [pc : {"count", "authorize"}, flow : FlowIds, user : Users, key : Keys,
             answer : Nat, old : Nat, at : Nat]

CeremonyTypeOK ==
    /\ passkeys \in [Users -> [enrolled : BOOLEAN, count : Nat]]
    /\ device \in [Users -> Nat]
    /\ flows \in [FlowIds -> {Unused, Gone} \cup OpenFlows]
    /\ handler \in [Handlers -> {Idle} \cup Enrolling \cup Checking \cup Granting]
    /\ \A h \in Handlers : handler[h] \in Granting => handler[h].at <= now
    /\ granted \subseteq [key : Keys, user : Users, flow : FlowIds, at : Nat]

LEMMA HandlerShape ==
  ASSUME CeremonyTypeOK, NEW h \in Handlers
  PROVE  /\ handler[h].pc = "enroll" => handler[h] \in Enrolling
         /\ handler[h].pc \in {"check", "verify"} => handler[h] \in Checking
         /\ handler[h].pc \in {"count", "authorize"} => handler[h] \in Granting
         /\ handler[h] # Idle => /\ handler[h].flow \in FlowIds /\ handler[h].user \in Users
                                 /\ handler[h].pc # "idle"
<1>1. handler[h] \in {Idle} \cup Enrolling \cup Checking \cup Granting
  BY DEF CeremonyTypeOK
<1> QED BY <1>1 DEF Idle, Enrolling, Checking, Granting

(* _put_flow adds one unused id and drops expired challenges; it never      *)
(* brings one back.                                                         *)
LEMMA PutFlowEffect ==
  ASSUME CeremonyTypeOK, NEW f \in FlowIds, NEW flow \in OpenFlows, PutFlow(f, flow)
  PROVE  /\ flows' \in [FlowIds -> {Unused, Gone} \cup OpenFlows]
         /\ \A g \in FlowIds :
               \/ flows'[g] = flows[g]
               \/ flows'[g] = Gone
               \/ g = f /\ flows[g] = Unused /\ flows'[g] = flow
         /\ \A g \in FlowIds : flows[g] = Gone => flows'[g] = Gone
<1> DEFINE live == {g \in FlowIds : Open(g) /\ flows[g].expires > now}
           kept == [g \in FlowIds |-> IF Open(g) /\ g \notin live THEN Gone ELSE flows[g]]
<1>1. kept \in [FlowIds -> {Unused, Gone} \cup OpenFlows]
  BY DEF CeremonyTypeOK
<1>2. flows[f] = Unused
  BY DEF PutFlow
<1>3. \A g \in FlowIds : kept[g] = flows[g] \/ (kept[g] = Gone /\ Open(g))
  OBVIOUS
<1>4. kept[f] = Unused
  BY <1>2, <1>3 DEF Open, Unused
<1>5. flows' = kept \/ flows' = [kept EXCEPT ![f] = flow]
  BY DEF PutFlow
<1>6. \A g \in FlowIds : flows[g] = Gone => ~ Open(g) /\ g # f
  BY <1>2 DEF Open, Gone, Unused
<1> HIDE DEF live, kept
<1> QED BY <1>1, <1>2, <1>3, <1>4, <1>5, <1>6

(* A handler that reads the request again finds it, and so may a client:    *)
(* get_request is one of the things a live broker does for its clients.     *)
LEMMA CeremonyStore ==
  ASSUME CeremonyTypeOK, Ceremony
  PROVE  \/ UNCHANGED storeVars
         \/ \E k \in Keys : ReadRequest(k)
         \/ \E h \in Handlers : /\ handler[h] \in Granting /\ handler[h].pc = "authorize"
                                /\ Authorize(handler[h].key, handler[h].at)
<1>1. ASSUME NEW h \in Handlers, Handle(h)
      PROVE  \/ UNCHANGED storeVars
             \/ \E k \in Keys : ReadRequest(k)
             \/ /\ handler[h] \in Granting /\ handler[h].pc = "authorize"
                /\ Authorize(handler[h].key, handler[h].at)
  <2>1. CASE CheckRequest(h)
    BY <2>1, HandlerShape DEF CheckRequest, Checking
  <2>2. CASE IssueReceipt(h)
    BY <2>2, HandlerShape DEF IssueReceipt
  <2> QED BY <1>1, <2>1, <2>2 DEF Handle, Enroll, VerifyAssertion, UpdateCounter, Abandon
<1> QED BY <1>1 DEF Ceremony, BeginRegistration, BeginAuthorization, Answer, TakeFlow

LEMMA SomeBroker == \E b \in Brokers : TRUE
  BY OneProcess, FS_EmptySet

(* Every step of the composed broker is a step of the executor or leaves it *)
(* alone.                                                                   *)
LEMMA ExecutionSimulates ==
  ASSUME StoreTypeOK, CeremonyTypeOK, BrokerNext
  PROVE  [ExecutionNext]_vars
<1>1. CASE Ceremony /\ Alive /\ UNCHANGED execVars
  <2>1. PICK b \in Brokers : exec[b].pc # "down"
    BY <1>1, SomeBroker DEF Alive
  <2>2. CASE UNCHANGED storeVars
    BY <1>1, <2>2 DEF vars
  <2>3. CASE \E k \in Keys : ReadRequest(k)
    <3>1. Serve(b)
      BY <1>1, <2>1, <2>3 DEF Serve, ServeClient
    <3> QED BY <3>1 DEF ExecutionNext
  <2>4. ASSUME NEW h \in Handlers, handler[h] \in Granting,
               Authorize(handler[h].key, handler[h].at)
        PROVE  ExecutionNext
    <3>1. handler[h].key \in Keys /\ handler[h].at \in 0 .. now
      BY <2>4, StoreAssumption DEF CeremonyTypeOK, Granting, StoreTypeOK
    <3>2. Serve(b)
      BY <1>1, <2>1, <2>4, <3>1 DEF Serve
    <3> QED BY <3>2 DEF ExecutionNext
  <2> QED BY <1>1, <2>2, <2>3, <2>4, CeremonyStore
<1>2. CASE \E b \in Brokers : Alive /\ ServeClient(exec[b].config) /\ UNCHANGED execVars
  BY <1>2 DEF Alive, Serve, ExecutionNext
<1>3. CASE \E b \in Brokers : BrokerCrash(b)
  BY <1>3 DEF BrokerCrash, Crash, ExecutionNext
<1> QED BY <1>1, <1>2, <1>3 DEF BrokerNext, ExecutionNext

(* The ceremony's own moves keep its state typed.                           *)
LEMMA CeremonyTypeMoves ==
  ASSUME StoreTypeOK, CeremonyTypeOK, Ceremony
  PROVE  CeremonyTypeOK'
<1>0. now \in Nat
  BY StoreAssumption DEF StoreTypeOK
<1>1. ASSUME NEW u \in Users, NEW f \in FlowIds, NEW k \in Keys \cup {NoKey},
             NEW kind \in {"registration", "authorization"},
             PutFlow(f, Challenge(kind, u, k)), now' = now,
             UNCHANGED <<passkeys, device, handler, granted>>
      PROVE  CeremonyTypeOK'
  <2>1. now + ChallengeTTL \in Nat
    BY <1>0, CeremonyAssumption
  <2>2. Challenge(kind, u, k) \in OpenFlows
    BY <2>1 DEF Challenge, OpenFlows, Answers
  <2> QED BY <1>1, <2>2, PutFlowEffect DEF CeremonyTypeOK
<1>2. ASSUME NEW u \in Users, NEW f \in FlowIds, BeginRegistration(u, f) PROVE CeremonyTypeOK'
  BY <1>1, <1>2 DEF BeginRegistration, storeVars
<1>3. ASSUME NEW u \in Users, NEW k \in Keys, NEW f \in FlowIds, BeginAuthorization(u, k, f)
      PROVE  CeremonyTypeOK'
  <2>1. CASE PutFlow(f, Challenge("authorization", u, k)) /\ UNCHANGED storeVars
    BY <1>1, <1>3, <2>1 DEF BeginAuthorization, storeVars
  <2>2. CASE ReadRequest(k) /\ UNCHANGED flows
    BY <1>3, <2>2 DEF BeginAuthorization, ReadRequest, CeremonyTypeOK
  <2> QED BY <1>3, <2>1, <2>2 DEF BeginAuthorization
<1>4. ASSUME NEW f \in FlowIds, Answer(f) PROVE CeremonyTypeOK'
  <2>1. flows[f] \in OpenFlows
    BY <1>4 DEF Answer, Open, CeremonyTypeOK, Unused, Gone
  <2> DEFINE u == flows[f].user
             count == IF flows[f].kind = "authorization" /\ u \notin ZeroCounter
                      THEN device[u] + 1 ELSE device[u]
  <2>2. u \in Users /\ count \in Nat
    BY <2>1 DEF OpenFlows, CeremonyTypeOK
  <2>3. /\ device' = [device EXCEPT ![u] = count]
        /\ flows' = [flows EXCEPT ![f].answer = count]
    BY <1>4 DEF Answer
  <2>4. [flows[f] EXCEPT !.answer = count] \in OpenFlows
    BY <2>1, <2>2 DEF OpenFlows, Answers
  <2> HIDE DEF count
  <2> QED BY <1>4, <2>2, <2>3, <2>4 DEF Answer, CeremonyTypeOK, storeVars
<1>5. ASSUME NEW h \in Handlers, NEW f \in FlowIds, NEW u \in Users,
             NEW k \in Keys \cup {NoKey}, TakeFlow(h, f, u, k)
      PROVE  CeremonyTypeOK'
  <2>1. flows[f] \in OpenFlows
    BY <1>5 DEF TakeFlow, Open, CeremonyTypeOK, Unused, Gone
  <2> DEFINE row == [pc |-> IF k = NoKey THEN "enroll" ELSE "check",
                     flow |-> f, user |-> u, key |-> k, answer |-> flows[f].answer]
  <2>2. row \in Enrolling \cup Checking /\ row \notin Granting
    BY <2>1 DEF OpenFlows, Enrolling, Checking, Granting
  <2>3. handler' = [handler EXCEPT ![h] = row] \/ handler' = handler
    BY <1>5 DEF TakeFlow
  <2> HIDE DEF row
  <2> QED BY <1>5, <2>2, <2>3 DEF TakeFlow, CeremonyTypeOK, storeVars
<1>6. ASSUME NEW h \in Handlers, Done(h), now' = now,
             UNCHANGED <<device, flows>>,
             passkeys' \in [Users -> [enrolled : BOOLEAN, count : Nat]],
             granted' \subseteq [key : Keys, user : Users, flow : FlowIds, at : Nat]
      PROVE  CeremonyTypeOK'
  <2>1. Idle \notin Granting
    BY DEF Idle, Granting
  <2> QED BY <1>6, <2>1 DEF Done, CeremonyTypeOK
<1>7. ASSUME NEW h \in Handlers, Enroll(h) PROVE CeremonyTypeOK'
  <2>1. handler[h] \in Enrolling
    BY <1>7, HandlerShape DEF Enroll
  <2>2. handler[h].answer # Unsigned =>
           [enrolled |-> TRUE, count |-> handler[h].answer] \in [enrolled : BOOLEAN, count : Nat]
    BY <2>1 DEF Enrolling, Answers
  <2>3. passkeys' \in [Users -> [enrolled : BOOLEAN, count : Nat]]
    BY <1>7, <2>2 DEF Enroll, CeremonyTypeOK
  <2> QED BY <1>6, <1>7, <2>3 DEF Enroll, storeVars, CeremonyTypeOK
<1>8. ASSUME NEW h \in Handlers, CheckRequest(h) PROVE CeremonyTypeOK'
  <2>1. handler[h] \in Checking
    BY <1>8, HandlerShape DEF CheckRequest
  <2>2. CASE Done(h)
    BY <1>6, <1>8, <2>2 DEF CheckRequest, ReadRequest, CeremonyTypeOK
  <2>3. CASE Proceed(h, "verify")
    <3>1. [handler[h] EXCEPT !.pc = "verify"] \in Checking
          /\ [handler[h] EXCEPT !.pc = "verify"] \notin Granting
      BY <2>1 DEF Checking, Granting
    <3>2. now' = now /\ UNCHANGED <<passkeys, device, flows, granted>>
      BY <1>8 DEF CheckRequest, ReadRequest
    <3> QED BY <2>3, <3>1, <3>2 DEF Proceed, CeremonyTypeOK
  <2> QED BY <1>8, <2>2, <2>3 DEF CheckRequest
<1>9. ASSUME NEW h \in Handlers, VerifyAssertion(h) PROVE CeremonyTypeOK'
  <2>1. handler[h] \in Checking /\ handler[h].answer \in Nat
    BY <1>9, HandlerShape DEF VerifyAssertion, Checking, Answers
  <2> DEFINE row == [pc |-> "count", flow |-> handler[h].flow, user |-> handler[h].user,
                     key |-> handler[h].key, answer |-> handler[h].answer,
                     old |-> passkeys[handler[h].user].count, at |-> now]
  <2>2. row \in Granting /\ row.at <= now
    BY <1>0, <2>1 DEF Checking, Granting, CeremonyTypeOK
  <2>3. handler' = [handler EXCEPT ![h] = row] /\ now' = now
        /\ UNCHANGED <<passkeys, device, flows, granted>>
    BY <1>9 DEF VerifyAssertion, storeVars
  <2> HIDE DEF row
  <2> QED BY <2>2, <2>3 DEF CeremonyTypeOK
<1>10. ASSUME NEW h \in Handlers, UpdateCounter(h) PROVE CeremonyTypeOK'
  <2>1. handler[h] \in Granting
    BY <1>10, HandlerShape DEF UpdateCounter
  <2>2. CASE passkeys' = passkeys /\ Done(h)
    BY <1>6, <1>10, <2>2 DEF UpdateCounter, storeVars, CeremonyTypeOK
  <2>3. CASE /\ passkeys' = [passkeys EXCEPT ![handler[h].user].count = handler[h].answer]
             /\ Proceed(h, "authorize")
    <3>1. [handler[h] EXCEPT !.pc = "authorize"] \in Granting
          /\ [handler[h] EXCEPT !.pc = "authorize"].at = handler[h].at
      BY <2>1 DEF Granting
    <3>2. handler[h].user \in Users /\ handler[h].answer \in Nat /\ handler[h].at <= now
      BY <2>1 DEF Granting, CeremonyTypeOK
    <3>3. now' = now /\ UNCHANGED <<device, flows, granted>>
      BY <1>10 DEF UpdateCounter, storeVars
    <3>4. passkeys' \in [Users -> [enrolled : BOOLEAN, count : Nat]]
      BY <2>3, <3>2 DEF CeremonyTypeOK
    <3> QED BY <2>3, <3>1, <3>2, <3>3, <3>4 DEF Proceed, CeremonyTypeOK
  <2> QED BY <1>10, <2>2, <2>3 DEF UpdateCounter
<1>11. ASSUME NEW h \in Handlers, IssueReceipt(h) PROVE CeremonyTypeOK'
  <2>1. handler[h] \in Granting
    BY <1>11, HandlerShape DEF IssueReceipt
  <2>2. granted' \subseteq [key : Keys, user : Users, flow : FlowIds, at : Nat]
    BY <1>11, <2>1 DEF IssueReceipt, Granting, CeremonyTypeOK
  <2>3. now' = now
    BY <1>11 DEF IssueReceipt, Authorize, storeVars
  <2> QED BY <1>6, <1>11, <2>2, <2>3 DEF IssueReceipt, CeremonyTypeOK
<1>12. ASSUME NEW h \in Handlers, Abandon(h) PROVE CeremonyTypeOK'
  BY <1>6, <1>12 DEF Abandon, storeVars, CeremonyTypeOK
<1> QED BY <1>2, <1>3, <1>4, <1>5, <1>7, <1>8, <1>9, <1>10, <1>11, <1>12
     DEF Ceremony, Handle

(* What the clock, the clients and the executor do to what the ceremony     *)
(* reads: time goes on, and a receipt is at most consumed.                  *)
LEMMA ExecutorsMoves ==
  ASSUME StoreTypeOK, ExecTypeOK, NEW b \in Brokers,
         \/ Environment \/ ServeClient(exec[b].config)
         \/ Step(b) \/ Fault(b)
         \/ \E k, r \in Keys : Execute(b, k, r)
         \/ \E config \in Configs : Start(b, config)
         \/ \E k \in Keys : ResolveRecovery(k)
  PROVE  /\ now <= now'
         /\ \A k \in Keys :
               /\ receipts'[k] # NoReceipt <=> receipts[k] # NoReceipt
               /\ receipts[k] # NoReceipt => receipts'[k].expires = receipts[k].expires
<1>1. now \in Nat
  BY StoreAssumption DEF StoreTypeOK
<1>2. CASE now <= now' /\ receipts' = receipts
  BY <1>2
<1>3. CASE Claim(b)
  <2>1. exec[b].receipt \in Keys
    BY <1>3, RunningShape DEF Claim, Early
  <2>2. receipts[exec[b].receipt] \in [state : {"issued", "consumed"}, expires : Time]
    BY <1>3, <2>1 DEF Claim, Claimable, StoreTypeOK
  <2>3. /\ receipts'[exec[b].receipt].state = "consumed"
        /\ receipts'[exec[b].receipt].expires = receipts[exec[b].receipt].expires
        /\ \A k \in Keys \ {exec[b].receipt} : receipts'[k] = receipts[k]
    BY <1>3, <2>1, <2>2 DEF Claim, StoreTypeOK
  <2>4. receipts[exec[b].receipt] # NoReceipt /\ receipts'[exec[b].receipt] # NoReceipt
    BY <2>2, <2>3 DEF NoReceipt
  <2>5. now <= now'
    BY <1>1, <1>3 DEF Claim
  <2> QED BY <2>3, <2>4, <2>5
<1>4. CASE Environment
  BY <1>1, <1>2, <1>4 DEF Environment, Tick, AddonChange
<1>5. CASE ServeClient(exec[b].config)
  BY <1>1, <1>2, <1>5
     DEF ServeClient, RegisterEvidence, CreateProposal, NativeRequest, LegacyRequest,
         ReadRequest, storeVars
<1>6. CASE Step(b) /\ ~ Claim(b)
  <2>1. UNCHANGED storeVars
    BY <1>6
       DEF Step, Preflight, ClaimReplay, ClaimRefused, ClaimExpires, Revalidate,
           FirstHeartbeat, RestartAddon, RecordRestart, SecondHeartbeat, Postflight
  <2> QED BY <1>1, <1>2, <2>1 DEF storeVars
<1>7. CASE \/ Fault(b)
           \/ \E k, r \in Keys : Execute(b, k, r)
           \/ \E config \in Configs : Start(b, config)
           \/ \E k \in Keys : ResolveRecovery(k)
  <2>1. UNCHANGED storeVars
    BY <1>7 DEF Fault, Execute, Start, ResolveRecovery
  <2> QED BY <1>1, <1>2, <2>1 DEF storeVars
<1> QED BY <1>3, <1>4, <1>5, <1>6, <1>7

(* The forms a step of the broker takes, as the ceremony sees them.         *)
LEMMA BrokerSteps ==
  ASSUME StoreTypeOK, ExecTypeOK, BrokerNext
  PROVE  \/ /\ UNCHANGED ceremonyVars /\ now <= now'
            /\ \A k \in Keys :
                  /\ receipts'[k] # NoReceipt <=> receipts[k] # NoReceipt
                  /\ receipts[k] # NoReceipt => receipts'[k].expires = receipts[k].expires
         \/ Ceremony /\ UNCHANGED execVars
         \/ ForgetFlows /\ UNCHANGED storeVars
  BY ExecutorsMoves, SomeBroker DEF BrokerNext, BrokerCrash

LEMMA CeremonyTypeStep ==
  ASSUME StoreTypeOK, ExecTypeOK, CeremonyTypeOK, BrokerNext
  PROVE  CeremonyTypeOK'
<1>0. now \in Nat
  BY StoreAssumption DEF StoreTypeOK
<1>1. CASE UNCHANGED ceremonyVars /\ now <= now' /\ now' \in Nat
  <2>1. ASSUME NEW h \in Handlers, handler[h] \in Granting PROVE handler[h].at <= now'
    BY <1>0, <1>1, <2>1 DEF CeremonyTypeOK, Granting
  <2> QED BY <1>1, <2>1 DEF ceremonyVars, CeremonyTypeOK
<1>2. CASE ForgetFlows /\ UNCHANGED storeVars
  BY <1>2 DEF ForgetFlows, CeremonyTypeOK, Idle, Granting
<1>3. now' \in Nat
  <2>1. StoreTypeOK'
    BY ExecutionSimulates, StoreTypeStep DEF vars, storeVars, StoreTypeOK
  <2> QED BY <2>1, StoreAssumption DEF StoreTypeOK
<1> QED BY <1>1, <1>2, <1>3, BrokerSteps, CeremonyTypeMoves

LEMMA BrokerTypes == BrokerSpec => [](ExecutionTypeOK /\ CeremonyTypeOK)
<1>1. BrokerInit => ExecutionTypeOK /\ CeremonyTypeOK
  <2>1. ExecutionInit => ExecutionTypeOK
    BY StoreInitType
    DEF ExecutionInit, ExecutionTypeOK, ExecTypeOK, NoExecution, NoLease, Stopped
  <2>2. CeremonyInit => CeremonyTypeOK
    BY DEF CeremonyInit, CeremonyTypeOK, Idle, Granting
  <2> QED BY <2>1, <2>2 DEF BrokerInit
<1>2. ExecutionTypeOK /\ CeremonyTypeOK /\ [BrokerNext]_brokerVars
      => ExecutionTypeOK' /\ CeremonyTypeOK'
  <2>1. ASSUME ExecutionTypeOK, CeremonyTypeOK, BrokerNext
        PROVE  ExecutionTypeOK' /\ CeremonyTypeOK'
    <3>1. CASE ExecutionNext
      BY <2>1, <3>1, ExecTypeStep, StoreTypeStep, CeremonyTypeStep DEF ExecutionTypeOK
    <3>2. CASE UNCHANGED vars
      BY <2>1, <3>2, CeremonyTypeStep
      DEF vars, storeVars, execVars, ExecutionTypeOK, StoreTypeOK, ExecTypeOK
    <3> QED BY <2>1, <3>1, <3>2, ExecutionSimulates DEF ExecutionTypeOK
  <2>2. CASE UNCHANGED brokerVars
    BY <2>2 DEF brokerVars, storeVars, execVars, ceremonyVars, ExecutionTypeOK, StoreTypeOK,
       ExecTypeOK, CeremonyTypeOK
  <2> QED BY <2>1, <2>2
<1> QED BY <1>1, <1>2, PTL DEF BrokerSpec

(* The composed broker implements BrokerExecution: the ceremony moves the   *)
(* database only as the executor expects of an authorization, and a crash   *)
(* of the process is a crash of the executor.                               *)
THEOREM BrokerImplementsExecution == BrokerSpec => ImplementsExecution
<1>1. BrokerInit => ExecutionInit
  BY DEF BrokerInit
<1>2. ExecutionTypeOK /\ CeremonyTypeOK /\ [BrokerNext]_brokerVars => [ExecutionNext]_vars
  BY ExecutionSimulates DEF ExecutionTypeOK, brokerVars, vars
<1> QED BY <1>1, <1>2, BrokerTypes, PTL DEF BrokerSpec, ImplementsExecution, ExecutionSpec

(* So the whole broker, ceremony and crashes included, restarts an add-on   *)
(* at most once per action and keeps the ledger's promise.                  *)
THEOREM BrokerKeepsPromise == BrokerSpec => []RestartAtMostOnce /\ KeepsLedger
  BY BrokerImplementsExecution, AtMostOnce, ImplementsLedger, PTL DEF ImplementsExecution

----------------------------------------------------------------------------
(* Ceremonies and receipts.                                                 *)

(* A challenge somebody has taken, or that has led to a receipt, is gone.   *)
FlowsSpent ==
    /\ \A h \in Handlers : handler[h] # Idle => flows[handler[h].flow] = Gone
    /\ \A g \in granted : flows[g.flow] = Gone

OneCeremonyPerFlow ==
    /\ \A g, h \in granted : g.flow = h.flow => g = h
    /\ \A g \in granted, h \in Handlers : handler[h] # Idle => handler[h].flow # g.flow
    /\ \A h, i \in Handlers :
          handler[h] # Idle /\ handler[i] # Idle /\ h # i => handler[h].flow # handler[i].flow

(* Whoever is challenged, or on the way to a receipt, is enrolled.          *)
EnrolledAreAsked ==
    /\ \A f \in FlowIds :
          Open(f) /\ flows[f].kind = "authorization" => passkeys[flows[f].user].enrolled
    /\ \A h \in Handlers :
          handler[h].pc \in {"check", "verify", "count", "authorize"}
             => passkeys[handler[h].user].enrolled

(* Receipts and grants come in pairs, and each was granted in time.         *)
GrantsOfReceipts ==
    /\ \A k \in Keys : receipts[k] # NoReceipt => \E g \in granted : g.key = k
    /\ \A g, h \in granted : g.key = h.key => g = h
    /\ \A g \in granted :
          /\ receipts[g.key] # NoReceipt
          /\ g.at < receipts[g.key].expires
          /\ passkeys[g.user].enrolled

GrantInv == FlowsSpent /\ OneCeremonyPerFlow /\ EnrolledAreAsked /\ GrantsOfReceipts

(* Nothing that concerns a grant happens: handlers leave, challenges close, *)
(* users enrol.                                                             *)
LEMMA GrantKept ==
  ASSUME CeremonyTypeOK, GrantInv, granted' = granted,
         \A h \in Handlers :
            \/ handler'[h] = Idle
            \/ /\ handler[h] # Idle
               /\ handler'[h].flow = handler[h].flow /\ handler'[h].user = handler[h].user
               /\ handler'[h].pc \in {"check", "verify", "count", "authorize"} =>
                     handler[h].pc \in {"check", "verify", "count", "authorize"},
         \A f \in FlowIds : /\ flows[f] = Gone => flows'[f] = Gone
                            /\ flows'[f].state = "open" =>
                                  \/ /\ Open(f) /\ flows'[f].kind = flows[f].kind
                                     /\ flows'[f].user = flows[f].user
                                  \/ /\ flows'[f].user \in Users
                                     /\ flows'[f].kind = "authorization" =>
                                           passkeys[flows'[f].user].enrolled,
         \A u \in Users : passkeys[u].enrolled => passkeys'[u].enrolled,
         \A k \in Keys :
            /\ receipts'[k] # NoReceipt <=> receipts[k] # NoReceipt
            /\ receipts[k] # NoReceipt => receipts'[k].expires = receipts[k].expires
  PROVE  GrantInv'
<1> USE DEF GrantInv
<1>1. /\ \A h \in Handlers : handler[h] # Idle =>
            handler[h].flow \in FlowIds /\ handler[h].user \in Users
      /\ \A g \in granted : g.key \in Keys /\ g.user \in Users /\ g.flow \in FlowIds
  BY HandlerShape DEF CeremonyTypeOK
<1>2. FlowsSpent'
  BY <1>1 DEF FlowsSpent
<1>3. OneCeremonyPerFlow'
  BY DEF OneCeremonyPerFlow
<1>4. EnrolledAreAsked'
  <2>1. ASSUME NEW f \in FlowIds, flows'[f].state = "open", flows'[f].kind = "authorization"
        PROVE  passkeys'[flows'[f].user].enrolled
    <3>1. CASE Open(f) /\ flows'[f].kind = flows[f].kind /\ flows'[f].user = flows[f].user
      <4>1. flows[f].user \in Users
        BY <3>1 DEF Open, CeremonyTypeOK, OpenFlows, Unused, Gone
      <4> QED BY <2>1, <3>1, <4>1 DEF EnrolledAreAsked
    <3> QED BY <2>1, <3>1
  <2>2. ASSUME NEW h \in Handlers,
               handler'[h].pc \in {"check", "verify", "count", "authorize"}
        PROVE  passkeys'[handler'[h].user].enrolled
    <3>1. handler'[h] # Idle
      BY <2>2 DEF Idle
    <3> QED BY <1>1, <2>2, <3>1 DEF EnrolledAreAsked
  <2> QED BY <2>1, <2>2 DEF EnrolledAreAsked, Open
<1>5. GrantsOfReceipts'
  BY <1>1 DEF GrantsOfReceipts
<1> QED BY <1>2, <1>3, <1>4, <1>5

(* A flow is taken: it was open, so nobody else's, and its user enrolled.   *)
LEMMA GrantTakeFlow ==
  ASSUME CeremonyTypeOK, GrantInv, NEW h \in Handlers, NEW f \in FlowIds, NEW u \in Users,
         NEW k \in Keys \cup {NoKey}, TakeFlow(h, f, u, k)
  PROVE  GrantInv'
<1> DEFINE kind == IF k = NoKey THEN "registration" ELSE "authorization"
           row == [pc |-> IF k = NoKey THEN "enroll" ELSE "check",
                   flow |-> f, user |-> u, key |-> k, answer |-> flows[f].answer]
<1>1. /\ handler[h] = Idle /\ Open(f) /\ flows[f] \in OpenFlows
      /\ UNCHANGED <<now, receipts, passkeys, granted>>
  BY DEF TakeFlow, Open, CeremonyTypeOK, Unused, Gone, storeVars
<1>2. flows'[f] = Gone /\ \A g \in FlowIds \ {f} : flows'[g] = flows[g]
  BY DEF TakeFlow, CeremonyTypeOK
<1>3. ASSUME NEW g \in FlowIds
      PROVE  /\ flows[g] = Gone => flows'[g] = Gone
             /\ flows'[g].state = "open" => flows'[g] = flows[g] /\ Open(g)
  BY <1>2 DEF Gone, Open
<1>4. CASE ~ Matches(f, kind, u, k)
  <2>1. handler' = handler
    BY <1>4 DEF TakeFlow
  <2>2. \A i \in Handlers : handler'[i] \in {Idle, handler[i]}
    BY <2>1
  <2> QED BY <1>1, <1>3, <2>2, GrantKept
<1>5. CASE Matches(f, kind, u, k)
  <2>1. handler'[h] = row /\ \A i \in Handlers \ {h} : handler'[i] = handler[i]
    BY <1>5 DEF TakeFlow, CeremonyTypeOK
  <2>2. row # Idle /\ row.flow = f /\ row.user = u /\ row.pc \in {"enroll", "check"}
    BY DEF Idle
  <2>3. row.pc = "check" => passkeys[u].enrolled
    BY <1>1, <1>5 DEF Matches, GrantInv, EnrolledAreAsked
  <2> HIDE DEF row, kind
  <2>4. flows[f] # Gone
    BY <1>1 DEF Open, Gone
  <2>5. \A i \in Handlers : handler[i] # Idle => handler[i].flow # f
    BY <2>4 DEF GrantInv, FlowsSpent
  <2>6. \A g \in granted : g.flow # f /\ g.flow \in FlowIds /\ g.user \in Users
    BY <2>4 DEF GrantInv, FlowsSpent, CeremonyTypeOK
  <2>7. FlowsSpent'
    <3>1. ASSUME NEW i \in Handlers, handler'[i] # Idle PROVE flows'[handler'[i].flow] = Gone
      BY <1>2, <1>3, <2>1, <2>2, <3>1, HandlerShape DEF GrantInv, FlowsSpent
    <3> QED BY <1>1, <1>3, <2>6, <3>1 DEF GrantInv, FlowsSpent
  <2>8. OneCeremonyPerFlow'
    <3>1. ASSUME NEW g \in granted, NEW i \in Handlers, handler'[i] # Idle
          PROVE  handler'[i].flow # g.flow
      BY <2>1, <2>2, <2>6, <3>1 DEF GrantInv, OneCeremonyPerFlow
    <3>2. ASSUME NEW i \in Handlers, NEW j \in Handlers, i # j,
                 handler'[i] # Idle, handler'[j] # Idle
          PROVE  handler'[i].flow # handler'[j].flow
      <4>1. CASE i = h
        BY <2>1, <2>2, <2>5, <3>2, <4>1
      <4>2. CASE j = h
        BY <2>1, <2>2, <2>5, <3>2, <4>2
      <4>3. CASE i # h /\ j # h
        BY <2>1, <3>2, <4>3 DEF GrantInv, OneCeremonyPerFlow
      <4> QED BY <4>1, <4>2, <4>3
    <3> QED BY <1>1, <3>1, <3>2 DEF GrantInv, OneCeremonyPerFlow
  <2>9. EnrolledAreAsked'
    <3>1. ASSUME NEW i \in Handlers,
                 handler'[i].pc \in {"check", "verify", "count", "authorize"}
          PROVE  passkeys[handler'[i].user].enrolled
      BY <2>1, <2>2, <2>3, <3>1 DEF GrantInv, EnrolledAreAsked
    <3>2. \A g \in FlowIds : flows'[g].state = "open" /\ flows'[g].kind = "authorization"
             => passkeys[flows'[g].user].enrolled
      BY <1>3 DEF GrantInv, EnrolledAreAsked
    <3> QED BY <1>1, <3>1, <3>2 DEF EnrolledAreAsked, Open
  <2>10. GrantsOfReceipts'
    BY <1>1 DEF GrantInv, GrantsOfReceipts
  <2> QED BY <2>7, <2>8, <2>9, <2>10 DEF GrantInv
<1> QED BY <1>4, <1>5

(* The receipt is written: the request had none, so it had no grant either. *)
LEMMA GrantIssueReceipt ==
  ASSUME StoreTypeOK, CeremonyTypeOK, RowsInv, GrantInv, NEW h \in Handlers, IssueReceipt(h),
         executions' = executions
  PROVE  GrantInv'
<1> DEFINE k == handler[h].key
           g0 == [key |-> k, user |-> handler[h].user, flow |-> handler[h].flow,
                  at |-> handler[h].at]
<1>1. handler[h] \in Granting /\ handler[h] # Idle /\ handler[h].pc = "authorize"
  BY HandlerShape DEF IssueReceipt, Granting, Idle
<1>2. /\ handler'[h] = Idle /\ \A i \in Handlers \ {h} : handler'[i] = handler[i]
      /\ UNCHANGED <<passkeys, flows>>
  BY DEF IssueReceipt, Done, CeremonyTypeOK
<1>3. \A f \in FlowIds : flows'[f] = flows[f]
  BY <1>2
<1>4. \A i \in Handlers : handler'[i] \in {Idle, handler[i]}
  BY <1>2
<1>5. CASE UNCHANGED <<storeVars, granted>>
  <2>1. \A j \in Keys : receipts'[j] = receipts[j]
    BY <1>5 DEF storeVars
  <2> QED BY <1>2, <1>3, <1>4, <1>5, <2>1, GrantKept DEF Open
<1>6. CASE Authorize(k, handler[h].at) /\ granted' = granted \cup {g0}
  <2>1. k \in Keys /\ handler[h].user \in Users /\ handler[h].flow \in FlowIds
    BY <1>1 DEF Granting
  <2>2. /\ receipts[k] = NoReceipt /\ receipts'[k].state = "issued"
        /\ \A other \in Keys \ {k} : receipts'[other] = receipts[other]
    BY <1>6, <2>1, RowsAuthorize
  <2>3. receipts'[k] # NoReceipt
    BY <2>2 DEF NoReceipt
  <2>4. handler[h].at < receipts'[k].expires
    BY <1>6, <2>1 DEF Authorize, Authorizable, StoreTypeOK
  <2>5. g0.key = k /\ g0.flow = handler[h].flow /\ g0.user = handler[h].user
        /\ g0.at = handler[h].at
    OBVIOUS
  <2> HIDE DEF g0
  <2>6. \A g \in granted : g.key # k /\ g.key \in Keys
    BY <2>2 DEF GrantInv, GrantsOfReceipts, CeremonyTypeOK
  <2>7. FlowsSpent'
    BY <1>1, <1>2, <1>4, <1>6, <2>5 DEF GrantInv, FlowsSpent
  <2>8. OneCeremonyPerFlow'
    <3>1. \A g \in granted : g.flow # handler[h].flow
      BY <1>1 DEF GrantInv, OneCeremonyPerFlow
    <3>2. \A g, g1 \in granted' : g.flow = g1.flow => g = g1
      BY <1>6, <2>5, <3>1 DEF GrantInv, OneCeremonyPerFlow
    <3>3. ASSUME NEW g \in granted', NEW i \in Handlers, handler'[i] # Idle
          PROVE  handler'[i].flow # g.flow
      BY <1>1, <1>2, <1>6, <2>5, <3>3 DEF GrantInv, OneCeremonyPerFlow
    <3>4. \A i, j \in Handlers : handler'[i] # Idle /\ handler'[j] # Idle /\ i # j
             => handler'[i].flow # handler'[j].flow
      BY <1>4 DEF GrantInv, OneCeremonyPerFlow
    <3> QED BY <3>2, <3>3, <3>4 DEF OneCeremonyPerFlow
  <2>9. EnrolledAreAsked'
    BY <1>2, <1>4 DEF GrantInv, EnrolledAreAsked, Open, Idle
  <2>10. GrantsOfReceipts'
    <3>1. passkeys[handler[h].user].enrolled
      BY <1>1 DEF GrantInv, EnrolledAreAsked
    <3>2. ASSUME NEW j \in Keys, receipts'[j] # NoReceipt PROVE \E g \in granted' : g.key = j
      <4>1. CASE j = k
        BY <1>6, <2>5, <4>1
      <4>2. CASE j # k
        BY <1>6, <2>2, <3>2, <4>2 DEF GrantInv, GrantsOfReceipts
      <4> QED BY <4>1, <4>2
    <3>3. \A g, g1 \in granted' : g.key = g1.key => g = g1
      BY <1>6, <2>5, <2>6 DEF GrantInv, GrantsOfReceipts
    <3>4. ASSUME NEW g \in granted'
          PROVE  /\ receipts'[g.key] # NoReceipt /\ g.at < receipts'[g.key].expires
                 /\ passkeys'[g.user].enrolled
      <4>1. CASE g = g0
        BY <1>2, <2>3, <2>4, <2>5, <3>1, <4>1
      <4>2. CASE g \in granted
        BY <1>2, <2>2, <2>6, <4>2 DEF GrantInv, GrantsOfReceipts
      <4> QED BY <1>6, <4>1, <4>2
    <3> QED BY <3>2, <3>3, <3>4 DEF GrantsOfReceipts
  <2> QED BY <2>7, <2>8, <2>9, <2>10 DEF GrantInv
<1> QED BY <1>5, <1>6 DEF IssueReceipt

LEMMA GrantStep ==
  ASSUME StoreTypeOK, ExecTypeOK, CeremonyTypeOK, RowsInv, GrantInv, BrokerNext
  PROVE  GrantInv'
<1>1. CASE /\ UNCHANGED ceremonyVars
           /\ \A k \in Keys :
                 /\ receipts'[k] # NoReceipt <=> receipts[k] # NoReceipt
                 /\ receipts[k] # NoReceipt => receipts'[k].expires = receipts[k].expires
  <2>1. \A h \in Handlers : handler'[h] \in {Idle, handler[h]}
    BY <1>1 DEF ceremonyVars
  <2>2. /\ \A f \in FlowIds : flows'[f] = flows[f]
        /\ \A u \in Users : passkeys'[u] = passkeys[u]
        /\ granted' = granted
    BY <1>1 DEF ceremonyVars
  <2> QED BY <1>1, <2>1, <2>2, GrantKept DEF Open
<1>2. CASE ForgetFlows /\ UNCHANGED storeVars
  <2>1. /\ \A h \in Handlers : handler'[h] = Idle
        /\ \A f \in FlowIds : /\ flows'[f].state # "open"
                              /\ flows[f] = Gone => flows'[f] = Gone
        /\ granted' = granted /\ passkeys' = passkeys /\ receipts' = receipts
    BY <1>2 DEF ForgetFlows, storeVars, Open, Gone
  <2> QED BY <2>1, GrantKept
<1>3. ASSUME NEW u \in Users, NEW f \in FlowIds, NEW k \in Keys \cup {NoKey},
             NEW kind \in {"registration", "authorization"},
             PutFlow(f, Challenge(kind, u, k)),
             kind = "authorization" => passkeys[u].enrolled,
             UNCHANGED <<storeVars, passkeys, handler, granted>>
      PROVE  GrantInv'
  <2>1. now + ChallengeTTL \in Nat
    BY StoreAssumption, CeremonyAssumption DEF StoreTypeOK
  <2>2. Challenge(kind, u, k) \in OpenFlows
    BY <2>1 DEF Challenge, OpenFlows, Answers
  <2>3. /\ \A g \in FlowIds :
              \/ flows'[g] = flows[g]
              \/ flows'[g] = Gone
              \/ flows'[g] = Challenge(kind, u, k)
        /\ \A g \in FlowIds : flows[g] = Gone => flows'[g] = Gone
    BY <1>3, <2>2, PutFlowEffect
  <2>4. ASSUME NEW g \in FlowIds, flows'[g].state = "open"
        PROVE  \/ /\ Open(g) /\ flows'[g].kind = flows[g].kind
                  /\ flows'[g].user = flows[g].user
               \/ /\ flows'[g].user \in Users
                  /\ flows'[g].kind = "authorization" => passkeys[flows'[g].user].enrolled
    BY <1>3, <2>3, <2>4 DEF Challenge, Open, Gone
  <2>5. \A h \in Handlers : handler'[h] \in {Idle, handler[h]}
    BY <1>3
  <2>6. \A j \in Keys : receipts'[j] = receipts[j]
    BY <1>3 DEF storeVars
  <2> QED BY <1>3, <2>3, <2>4, <2>5, <2>6, GrantKept
<1>4. ASSUME NEW u \in Users, NEW f \in FlowIds, BeginRegistration(u, f) PROVE GrantInv'
  BY <1>3, <1>4 DEF BeginRegistration
<1>5. ASSUME NEW u \in Users, NEW k \in Keys, NEW f \in FlowIds, BeginAuthorization(u, k, f)
      PROVE  GrantInv'
  <2>1. CASE /\ PutFlow(f, Challenge("authorization", u, k)) /\ passkeys[u].enrolled
             /\ UNCHANGED storeVars
    BY <1>3, <1>5, <2>1 DEF BeginAuthorization
  <2>2. CASE ReadRequest(k) /\ UNCHANGED flows
    <3>1. UNCHANGED ceremonyVars /\ receipts' = receipts
      BY <1>5, <2>2 DEF BeginAuthorization, ReadRequest, ceremonyVars
    <3> QED BY <1>1, <3>1
  <2> QED BY <1>5, <2>1, <2>2 DEF BeginAuthorization
<1>6. ASSUME NEW f \in FlowIds, Answer(f) PROVE GrantInv'
  <2>1. flows[f] \in OpenFlows
    BY <1>6 DEF Answer, Open, CeremonyTypeOK, Unused, Gone
  <2>2. \A g \in FlowIds : /\ flows'[g].state = flows[g].state
                           /\ flows'[g].kind = flows[g].kind
                           /\ flows'[g].user = flows[g].user
                           /\ flows[g] = Gone => flows'[g] = Gone
    BY <1>6, <2>1 DEF Answer, CeremonyTypeOK, OpenFlows, Gone
  <2>3. \A h \in Handlers : handler'[h] \in {Idle, handler[h]}
    BY <1>6 DEF Answer
  <2>4. UNCHANGED <<receipts, passkeys, granted>>
    BY <1>6 DEF Answer, storeVars
  <2> QED BY <2>2, <2>3, <2>4, GrantKept DEF Open
<1>7. ASSUME NEW h \in Handlers, flows' = flows, granted' = granted, receipts' = receipts,
             \A u \in Users : passkeys[u].enrolled => passkeys'[u].enrolled,
             \A i \in Handlers \ {h} : handler'[i] = handler[i],
             \/ handler'[h] = Idle
             \/ /\ handler[h].pc \in {"check", "verify", "count"}
                /\ handler'[h].flow = handler[h].flow /\ handler'[h].user = handler[h].user
      PROVE  GrantInv'
  <2>1. \A i \in Handlers :
           \/ handler'[i] = Idle
           \/ /\ handler[i] # Idle
              /\ handler'[i].flow = handler[i].flow /\ handler'[i].user = handler[i].user
              /\ handler'[i].pc \in {"check", "verify", "count", "authorize"} =>
                    handler[i].pc \in {"check", "verify", "count", "authorize"}
    BY <1>7 DEF Idle
  <2>2. \A f \in FlowIds : flows'[f] = flows[f]
    BY <1>7
  <2> QED BY <1>7, <2>1, <2>2, GrantKept DEF Open
<1>8. ASSUME NEW h \in Handlers, Enroll(h) PROVE GrantInv'
  BY <1>7, <1>8 DEF Enroll, Done, CeremonyTypeOK, storeVars
<1>9. ASSUME NEW h \in Handlers, CheckRequest(h) PROVE GrantInv'
  BY <1>7, <1>9, HandlerShape
  DEF CheckRequest, ReadRequest, Done, Proceed, CeremonyTypeOK, Checking
<1>10. ASSUME NEW h \in Handlers, VerifyAssertion(h) PROVE GrantInv'
  BY <1>7, <1>10 DEF VerifyAssertion, CeremonyTypeOK, storeVars
<1>11. ASSUME NEW h \in Handlers, UpdateCounter(h) PROVE GrantInv'
  BY <1>7, <1>11, HandlerShape
  DEF UpdateCounter, Done, Proceed, CeremonyTypeOK, Granting, storeVars
<1>12. ASSUME NEW h \in Handlers, Abandon(h) PROVE GrantInv'
  BY <1>7, <1>12 DEF Abandon, Done, CeremonyTypeOK, storeVars
<1>13. CASE Ceremony /\ UNCHANGED execVars
  BY <1>4, <1>5, <1>6, <1>8, <1>9, <1>10, <1>11, <1>12, <1>13, GrantTakeFlow,
     GrantIssueReceipt DEF Ceremony, Handle, execVars
<1> QED BY <1>1, <1>2, <1>13, BrokerSteps

LEMMA GrantInvariant ==
  BrokerSpec => [](ExecutionTypeOK /\ CeremonyTypeOK /\ WriteInv /\ RowsInv /\ GrantInv)
<1>1. BrokerInit => GrantInv
  BY DEF BrokerInit, CeremonyInit, StoreInit, GrantInv, FlowsSpent, OneCeremonyPerFlow,
         EnrolledAreAsked, GrantsOfReceipts, Open, Unused, Idle
<1>2. ExecutionTypeOK /\ CeremonyTypeOK /\ RowsInv /\ GrantInv /\ [BrokerNext]_brokerVars
      => GrantInv'
  <2>1. CASE BrokerNext
    BY <2>1, GrantStep DEF ExecutionTypeOK
  <2>2. CASE UNCHANGED brokerVars
    BY <2>2 DEF brokerVars, storeVars, ceremonyVars, GrantInv, FlowsSpent,
       OneCeremonyPerFlow, EnrolledAreAsked, GrantsOfReceipts, Open
  <2> QED BY <2>1, <2>2
<1> QED BY <1>1, <1>2, BrokerTypes, BrokerImplementsExecution, WriteInvariant, RowsInvariant,
        PTL DEF BrokerSpec, ImplementsExecution

(* A request yields one receipt, by one ceremony, and a challenge answers   *)
(* for one ceremony, whatever handlers and clients do at the same time.     *)
THEOREM OneReceipt == BrokerSpec => []OneReceiptPerRequest
<1>1. ASSUME CeremonyTypeOK, RowsInv, GrantInv PROVE OneReceiptPerRequest
  <2>1. ASSUME NEW k \in Keys
        PROVE  requests[k] # NoRequest /\ requests[k].state = "authorized"
                  <=> receipts[k] # NoReceipt
    BY <1>1 DEF RowsInv, ReceiptOfRequest, NoRequest
  <2>2. ASSUME NEW k \in Keys, receipts[k] # NoReceipt
        PROVE  Cardinality({g \in granted : g.key = k}) = 1
    <3>1. PICK g \in granted : g.key = k
      BY <1>1, <2>2 DEF GrantInv, GrantsOfReceipts
    <3>2. {i \in granted : i.key = k} = {g}
      BY <1>1, <3>1 DEF GrantInv, GrantsOfReceipts
    <3> QED BY <3>2, FS_Singleton
  <2> QED BY <1>1, <2>1, <2>2 DEF OneReceiptPerRequest, GrantInv, OneCeremonyPerFlow
<1> QED BY <1>1, GrantInvariant, PTL

(* Behind every restart call is one finished ceremony of an enrolled user,  *)
(* for the very action and in time.                                         *)
THEOREM RestartsAreAuthorized == BrokerSpec => []NoRestartWithoutCeremony
<1>1. ASSUME ExecutionTypeOK, CeremonyTypeOK, WriteInv, RowsInv, GrantInv
      PROVE  NoRestartWithoutCeremony
  <2>1. ASSUME NEW g \in granted
        PROVE  /\ g.key \in Keys /\ passkeys[g.user].enrolled
               /\ g.at < receipts[g.key].expires
               /\ receipts[g.key].expires = requests[g.key].expires
    BY <1>1 DEF GrantInv, GrantsOfReceipts, RowsInv, ReceiptOfRequest, CeremonyTypeOK
  <2>2. ASSUME NEW k \in Keys, calls[k] > 0
        PROVE  /\ \E g \in granted :
                     g.key = k /\ passkeys[g.user].enrolled /\ g.at < proposals[k].expires
               /\ proposals[k].target \in proposals[k].config.allow
    <3>1. executions[k].state # "none"
      BY <1>1, <2>2 DEF WriteInv, UnclaimedUntouched, ExecutionTypeOK, ExecTypeOK
    <3>2. receipts[k].state = "consumed" /\ requests[k].origin = "broker_native"
      BY <1>1, <3>1 DEF RowsInv, ExecutionOfReceipt, NoExecution
    <3>3. receipts[k] # NoReceipt
      BY <3>2 DEF NoReceipt
    <3>4. requests[k] # NoRequest /\ requests[k].state = "authorized"
      BY <1>1, <3>3 DEF RowsInv, ReceiptOfRequest, NoRequest
    <3>5. proposals[k] # NoProposal /\ receipts[k].expires = proposals[k].expires
      BY <1>1, <3>2, <3>3, <3>4 DEF RowsInv, ReceiptOfRequest, RequestOfProposal
    <3>6. PICK g \in granted : g.key = k
      BY <1>1, <3>3 DEF GrantInv, GrantsOfReceipts
    <3> QED BY <1>1, <2>1, <3>5, <3>6 DEF RowsInv, ProposalOfConfig
  <2> QED BY <2>1, <2>2 DEF NoRestartWithoutCeremony
<1> QED BY <1>1, GrantInvariant, PTL
=============================================================================
