-------------------------- MODULE BrokerExecution --------------------------
(* ExecutionManager (ha_operations_broker/operations_broker/execution.py):  *)
(* consume one passkey receipt and restart one allowlisted add-on, at most  *)
(* once.  Brokers are processes that share one authorization database: one  *)
(* in the normal deployment, two while a second instance is running.        *)
(*                                                                          *)
(* execute() is a sequence of steps, each at most one store transaction or  *)
(* one Supervisor call, with any other process in between.  An exception    *)
(* nobody catches ends it between two steps (Fault), a crash ends the whole *)
(* process (Crash); Start runs recover_incomplete_executions.               *)
(*                                                                          *)
(* The two lease rows of an action (singleton:operations and addon:<slug>)  *)
(* are inserted and updated together: one lease per action.                 *)
EXTENDS BrokerStore

CONSTANTS
    Brokers,     \* broker processes sharing the database
    LeaseTTL     \* lease_ttl_seconds

ASSUME ExecutionAssumption == LeaseTTL \in Nat \ {0}

VARIABLES
    executions,  \* operation_executions: [state, receipt, resolved]
    lease,       \* operation_leases: [state, owner, expires]
    exec,        \* per broker: where its execute() call is, and its locals
    calls        \* history: restart calls the Supervisor received, per key

execVars == <<executions, lease, exec, calls>>
vars == <<storeVars, execVars>>

InFlight == {"authorized", "executing", "verifying"}
Held == {"active", "recovery_required"}
NoExecution == [state |-> "none"]
NoLease == [state |-> "none"]

\* pc values: outside execute(), before the claim, and after it.
Early == {"checked", "claim"}
Claimed == {"revalidate", "heartbeat", "restart", "restarted", "uncertain",
            "verify", "postflight"}

Unresolved(k) ==
    executions[k].state = "recovery_required" /\ ~ executions[k].resolved

Executions == [state : InFlight \cup {"succeeded", "failed", "recovery_required"},
               receipt : Keys, resolved : BOOLEAN]
Leases == [state : Held \cup {"released"}, owner : Brokers, expires : Nat]
Running == [pc : Early \cup Claimed, config : Configs, key : Keys, receipt : Keys]
Stopped == [pc : {"down"}]
Waiting == [pc : {"idle"}, config : Configs, reply : {"none", "record"}]

ExecTypeOK ==
    /\ executions \in [Keys -> {NoExecution} \cup Executions]
    /\ lease \in [Keys -> {NoLease} \cup Leases]
    /\ exec \in [Brokers -> Stopped \cup Waiting \cup Running]
    /\ calls \in [Keys -> Nat]

ExecutionTypeOK == StoreTypeOK /\ ExecTypeOK

ExecutionInit ==
    /\ StoreInit
    /\ executions = [k \in Keys |-> NoExecution]
    /\ lease = [k \in Keys |-> NoLease]
    /\ exec = [b \in Brokers |-> [pc |-> "down"]]
    /\ calls = [k \in Keys |-> 0]

----------------------------------------------------------------------------
(* Control flow of one execute() call.                                      *)

Goto(b, pc) == exec' = [exec EXCEPT ![b].pc = pc]

(* execute() returns the record or raises; the finally clause releases the  *)
(* lock either way.                                                         *)
Return(b, reply) ==
    exec' = [exec EXCEPT ![b] = [pc |-> "idle", config |-> @.config, reply |-> reply]]

(* update_execution: refused unless the row is in the expected state; the   *)
(* lease follows the outcome.                                               *)
UpdateExecution(k, from, to, leaseTo) ==
    /\ executions[k].state = from
    /\ executions' = [executions EXCEPT ![k].state = to]
    /\ lease' = IF lease[k].state = "active" /\ leaseTo # "active"
                THEN [lease EXCEPT ![k].state = leaseTo] ELSE lease

(* The same call when another process has moved the row: it raises          *)
(* execution_state_conflict.                                                *)
StateConflict(b, from) ==
    /\ executions[exec[b].key].state # from
    /\ Return(b, "none")
    /\ UNCHANGED <<executions, lease>>

(* heartbeat_execution_leases: prolongs an active lease of this instance,   *)
(* or raises lease_lost.                                                    *)
Heartbeat(b, k, next) ==
    IF lease[k].state = "active" /\ lease[k].owner = b
    THEN /\ lease' = [lease EXCEPT ![k].expires = now + LeaseTTL]
         /\ Goto(b, next)
    ELSE /\ Return(b, "none")
         /\ UNCHANGED lease

(* The proposal was made under the bindings this process runs with.         *)
Bound(b, k) == proposals[k].config.policy = exec[b].config.policy
            /\ proposals[k].config.allow = exec[b].config.allow

----------------------------------------------------------------------------
(* What execute() demands of the proposal, before anything else.            *)
Executable(b, k) ==
    /\ exec[b].config.enabled
    /\ ProposalLive(k)
    /\ Bound(b, k)
    /\ proposals[k].target \in exec[b].config.allow

(* execute(), from the lock to get_execution: a proposal that is missing,   *)
(* expired or bound to other options is refused before the replay of an     *)
(* existing execution is considered.                                        *)
Execute(b, k, r) ==
    /\ exec[b].pc = "idle"
    /\ \/ /\ ~ Executable(b, k)
          /\ Return(b, "none")
       \/ /\ Executable(b, k) /\ executions[k] # NoExecution
          /\ Return(b, IF executions[k].receipt = r THEN "record" ELSE "none")
       \/ /\ Executable(b, k) /\ executions[k] = NoExecution
          /\ exec' = [exec EXCEPT ![b] =
                [pc |-> "checked", config |-> @.config, key |-> k, receipt |-> r]]
    /\ UNCHANGED <<storeVars, executions, lease, calls>>

(* assert_execution_interlock_clear, assert_backup_evidence_valid, and the  *)
(* Supervisor's addon_info compared with the proposal's baseline.  The      *)
(* Supervisor may fail to answer.                                           *)
Preflight(b) ==
    /\ exec[b].pc = "checked"
    /\ LET k == exec[b].key IN
       \/ /\ \A other \in Keys : ~ Unresolved(other)
          /\ EvidenceValid(proposals[k].evidence, proposals[k].baseline,
                           proposals[k].expires)
          /\ addon[proposals[k].target].running
          /\ proposals[k].baseline = Baseline(proposals[k].target)
          /\ Goto(b, "claim")
       \/ Return(b, "none")
    /\ UNCHANGED <<storeVars, executions, lease, calls>>

ExpiredLease(k) == lease[k].state = "active" /\ lease[k].expires <= now

(* Mutants of Claimable: a claim that does not look at the receipt's row,   *)
(* at where its request came from, at leases, at leases in recovery, or at  *)
(* the time once more.                                                      *)
ClaimableWithoutReceipt(b, k, r) ==
    /\ \A other \in Keys : lease[other].state \notin Held /\ ~ Unresolved(other)
    /\ r = k /\ ProposalLive(k) /\ Bound(b, k)

ClaimableOfAnyOrigin(b, k, r) ==
    /\ \A other \in Keys : lease[other].state \notin Held /\ ~ Unresolved(other)
    /\ receipts[r] # NoReceipt /\ r = k
    /\ receipts[r].state = "issued" /\ now < receipts[r].expires

ClaimableUnleased(b, k, r) ==
    /\ \A other \in Keys : ~ Unresolved(other)
    /\ receipts[r] # NoReceipt /\ r = k /\ requests[r].origin = "broker_native"
    /\ receipts[r].state = "issued" /\ now < receipts[r].expires

ClaimableInRecovery(b, k, r) ==
    /\ \A other \in Keys : lease[other].state # "active"
    /\ receipts[r] # NoReceipt /\ r = k /\ requests[r].origin = "broker_native"
    /\ receipts[r].state = "issued" /\ now < receipts[r].expires

ClaimableLate(b, k, r) ==
    /\ \A other \in Keys : lease[other].state \notin Held /\ ~ Unresolved(other)
    /\ receipts[r] # NoReceipt /\ r = k /\ requests[r].origin = "broker_native"
    /\ requests[r].state = "authorized" /\ receipts[r].state = "issued" /\ Bound(b, k)

(* What the claim transaction demands of the receipt: one of a native,      *)
(* authorized request for this very action, unconsumed and unexpired.       *)
Claimable(b, k, r) ==
    /\ \A other \in Keys : lease[other].state \notin Held /\ ~ Unresolved(other)
    /\ receipts[r] # NoReceipt
    /\ requests[r].origin = "broker_native"
    /\ r = k
    /\ requests[r].state = "authorized"
    /\ receipts[r].state = "issued"
    /\ now < receipts[r].expires
    /\ EvidenceValid(proposals[k].evidence, proposals[k].baseline, receipts[r].expires)
    /\ Bound(b, k)

(* claim_execution, first outcome: the action was claimed meanwhile.        *)
ClaimReplay(b) ==
    /\ exec[b].pc = "claim"
    /\ LET k == exec[b].key IN
       /\ executions[k] # NoExecution
       /\ Return(b, IF executions[k].receipt = exec[b].receipt THEN "record" ELSE "none")
    /\ UNCHANGED <<storeVars, executions, lease, calls>>

(* Mutant: the action whose lease ran out is given up as never written.     *)
ClaimExpiresAsFailed(b, other) ==
    /\ exec[b].pc = "claim"
    /\ executions[exec[b].key] = NoExecution
    /\ ExpiredLease(other)
    /\ executions' = [executions EXCEPT ![other].state = "failed"]
    /\ lease' = [lease EXCEPT ![other].state = "released"]
    /\ Return(b, "none")
    /\ UNCHANGED <<storeVars, calls>>

(* Second outcome: some action's lease ran out.  That action is handed to   *)
(* recovery, committed, and the claim is refused.                           *)
ClaimExpires(b, other) ==
    /\ exec[b].pc = "claim"
    /\ executions[exec[b].key] = NoExecution
    /\ ExpiredLease(other)
    /\ executions' = IF executions[other].state \in InFlight
                     THEN [executions EXCEPT ![other].state = "recovery_required"]
                     ELSE executions
    /\ lease' = [lease EXCEPT ![other].state = "recovery_required"]
    /\ Return(b, "none")
    /\ UNCHANGED <<storeVars, calls>>

(* Third: the receipt is consumed, the execution inserted and the lease     *)
(* taken, in one transaction.                                               *)
Claim(b) ==
    /\ exec[b].pc = "claim"
    /\ LET k == exec[b].key
           r == exec[b].receipt IN
       /\ executions[k] = NoExecution
       /\ \A other \in Keys : ~ ExpiredLease(other)
       /\ Claimable(b, k, r)
       /\ receipts' = [receipts EXCEPT ![r].state = "consumed"]
       /\ executions' = [executions EXCEPT ![k] =
             [state |-> "authorized", receipt |-> r, resolved |-> FALSE]]
       /\ lease' = [lease EXCEPT ![k] =
             [state |-> "active", owner |-> b, expires |-> now + LeaseTTL]]
    /\ Goto(b, "revalidate")
    /\ UNCHANGED <<now, addon, proposals, evidence, requests, calls>>

(* Fourth: refused, with nothing changed.                                   *)
ClaimRefused(b) ==
    /\ exec[b].pc = "claim"
    /\ executions[exec[b].key] = NoExecution
    /\ \A other \in Keys : ~ ExpiredLease(other)
    /\ ~ Claimable(b, exec[b].key, exec[b].receipt)
    /\ Return(b, "none")
    /\ UNCHANGED <<storeVars, executions, lease, calls>>

(* A second look at the add-on; then the row becomes 'executing'.  If the   *)
(* look fails or differs, _fail_before_write closes the action unwritten.   *)
Revalidate(b) ==
    /\ exec[b].pc = "revalidate"
    /\ LET k == exec[b].key
           t == proposals[k].target IN
       \/ /\ proposals[k].baseline = Baseline(t) /\ addon[t].running
          /\ UpdateExecution(k, "authorized", "executing", "active")
          /\ Goto(b, "heartbeat")
       \/ /\ UpdateExecution(k, "authorized", "failed", "released")
          /\ Return(b, "record")
       \/ StateConflict(b, "authorized")
    /\ UNCHANGED <<storeVars, calls>>

FirstHeartbeat(b) ==
    /\ exec[b].pc = "heartbeat"
    /\ Heartbeat(b, exec[b].key, "restart")
    /\ UNCHANGED <<storeVars, executions, calls>>

(* Mutant: a call that failed is tried again.                               *)
RestartAddonRetrying(b) ==
    /\ exec[b].pc = "restart"
    /\ calls' = [calls EXCEPT ![exec[b].key] = @ + 1]
    /\ \E pc \in {"restarted", "restart"} : Goto(b, pc)
    /\ UNCHANGED <<storeVars, executions, lease>>

(* supervisor.restart_addon: the call may fail before or after it reached   *)
(* the Supervisor.  What it does to the add-on is AddonChange's.            *)
RestartAddon(b) ==
    /\ exec[b].pc = "restart"
    /\ \/ /\ calls' = [calls EXCEPT ![exec[b].key] = @ + 1]
          /\ \E pc \in {"restarted", "uncertain"} : Goto(b, pc)
       \/ /\ UNCHANGED calls
          /\ Goto(b, "uncertain")
    /\ UNCHANGED <<storeVars, executions, lease>>

(* Mutant: a call that failed is recorded as not made.                      *)
RecordRestartAsFailed(b) ==
    /\ LET k == exec[b].key IN
       \/ /\ exec[b].pc = "restarted"
          /\ UpdateExecution(k, "executing", "verifying", "active")
          /\ Goto(b, "verify")
       \/ /\ exec[b].pc = "uncertain"
          /\ UpdateExecution(k, "executing", "failed", "released")
          /\ Return(b, "record")
    /\ UNCHANGED <<storeVars, calls>>

(* The outcome of the call is written down.                                 *)
RecordRestart(b) ==
    /\ LET k == exec[b].key IN
       \/ /\ exec[b].pc = "restarted"
          /\ UpdateExecution(k, "executing", "verifying", "active")
          /\ Goto(b, "verify")
       \/ /\ exec[b].pc = "uncertain"
          /\ UpdateExecution(k, "executing", "recovery_required", "recovery_required")
          /\ Return(b, "record")
       \/ /\ exec[b].pc \in {"restarted", "uncertain"}
          /\ StateConflict(b, "executing")
    /\ UNCHANGED <<storeVars, calls>>

SecondHeartbeat(b) ==
    /\ exec[b].pc = "verify"
    /\ Heartbeat(b, exec[b].key, "postflight")
    /\ UNCHANGED <<storeVars, executions, calls>>

(* The last look: started again, same version; anything else, or no answer, *)
(* is an unknown outcome.                                                   *)
Postflight(b) ==
    /\ exec[b].pc = "postflight"
    /\ LET k == exec[b].key
           after == addon[proposals[k].target] IN
       \/ /\ after.running /\ after.version = proposals[k].baseline.info.version
          /\ UpdateExecution(k, "verifying", "succeeded", "released")
          /\ Return(b, "record")
       \/ /\ UpdateExecution(k, "verifying", "recovery_required", "recovery_required")
          /\ Return(b, "record")
       \/ StateConflict(b, "verifying")
    /\ UNCHANGED <<storeVars, calls>>

----------------------------------------------------------------------------
(* An exception execute() does not catch (sqlite3 locked, http.client):     *)
(* the lock is released, the row stays as it is.                            *)
Fault(b) ==
    /\ exec[b].pc \in Early \cup Claimed
    /\ Return(b, "none")
    /\ UNCHANGED <<storeVars, executions, lease, calls>>

Crash(b) ==
    /\ exec[b].pc # "down"
    /\ exec' = [exec EXCEPT ![b] = [pc |-> "down"]]
    /\ UNCHANGED <<storeVars, executions, lease, calls>>

(* Mutant: recovery forgets the leases.                                     *)
StartKeepingLeases(b, config) ==
    /\ exec[b].pc = "down"
    /\ exec' = [exec EXCEPT ![b] = [pc |-> "idle", config |-> config, reply |-> "none"]]
    /\ executions' = [k \in Keys |->
          IF executions[k].state \in InFlight
          THEN [executions[k] EXCEPT !.state = "recovery_required"] ELSE executions[k]]
    /\ UNCHANGED <<storeVars, lease, calls>>

(* A process starts, perhaps with other options: everything in flight in    *)
(* the database, whoever runs it, goes to recovery.                         *)
Start(b, config) ==
    /\ exec[b].pc = "down"
    /\ exec' = [exec EXCEPT ![b] = [pc |-> "idle", config |-> config, reply |-> "none"]]
    /\ executions' = [k \in Keys |->
          IF executions[k].state \in InFlight
          THEN [executions[k] EXCEPT !.state = "recovery_required"] ELSE executions[k]]
    /\ lease' = [k \in Keys |->
          IF lease[k].state = "active"
          THEN [lease[k] EXCEPT !.state = "recovery_required"] ELSE lease[k]]
    /\ UNCHANGED <<storeVars, calls>>

(* AuthorizationStore.resolve_recovery: an operator's verdict.              *)
ResolveRecovery(k) ==
    /\ Unresolved(k)
    /\ executions' = [executions EXCEPT ![k].resolved = TRUE]
    /\ lease' = IF lease[k].state = "recovery_required"
                THEN [lease EXCEPT ![k].state = "released"] ELSE lease
    /\ UNCHANGED <<storeVars, exec, calls>>

Step(b) ==
    \/ Preflight(b) \/ ClaimReplay(b) \/ Claim(b) \/ ClaimRefused(b)
    \/ \E other \in Keys : ClaimExpires(b, other)
    \/ Revalidate(b) \/ FirstHeartbeat(b) \/ RestartAddon(b)
    \/ RecordRestart(b) \/ SecondHeartbeat(b) \/ Postflight(b)

(* A live broker serves its clients; a verified assertion ends in Authorize *)
(* (the ceremony that leads to it is module BrokerAuthorization).           *)
Serve(b) ==
    /\ exec[b].pc # "down"
    /\ ServeClient(exec[b].config) \/ \E k \in Keys, at \in 0 .. now : Authorize(k, at)
    /\ UNCHANGED execVars

ExecutionNext ==
    \/ Environment /\ UNCHANGED execVars
    \/ \E b \in Brokers :
          \/ Step(b) \/ Fault(b) \/ Crash(b) \/ Serve(b)
          \/ \E k, r \in Keys : Execute(b, k, r)
          \/ \E config \in Configs : Start(b, config)
    \/ \E k \in Keys : ResolveRecovery(k)

ExecutionSpec == ExecutionInit /\ [][ExecutionNext]_vars

----------------------------------------------------------------------------
(* Properties.                                                              *)

(* One authorization is worth one restart: however many brokers, crashes,   *)
(* retries of execute() and recoveries there are, the Supervisor receives   *)
(* at most one restart call for an action (execution.py's "consumes one     *)
(* Passkey receipt and executes at most one exact add-on restart").         *)
RestartAtMostOnce == \A k \in Keys : calls[k] <= 1

(* The outcome on record is the truth about the write: 'failed' means the   *)
(* Supervisor was never called and never will be, 'succeeded' that it was   *)
(* called, and a row still 'authorized' that it has not been called yet.    *)
OutcomeTruthful ==
    \A k \in Keys :
        /\ executions[k].state \in {"none", "authorized", "failed"} => calls[k] = 0
        /\ executions[k].state \in {"verifying", "succeeded"} => calls[k] = 1
        /\ executions[k].state = "failed" =>
              \A b \in Brokers : exec[b].pc \in Claimed => exec[b].key # k

(* Lease rows and execution rows never disagree, whichever of the five      *)
(* transactions that write both tables ran last: a lease is active exactly  *)
(* while its action is in flight, waits for recovery exactly as long as the *)
(* action does, and is released otherwise, so no lease is stuck and none is *)
(* lost.  And however many brokers there are, at most one action holds      *)
(* singleton:operations at a time.                                          *)
LeaseMatchesExecution ==
    /\ \A k, other \in Keys :
          lease[k].state \in Held /\ lease[other].state \in Held => k = other
    /\ \A k \in Keys :
          /\ lease[k].state = "active" <=> executions[k].state \in InFlight
          /\ lease[k].state = "recovery_required" <=> Unresolved(k)
          /\ lease[k].state = "none" <=> executions[k].state = "none"

(* What makes these inductive.  An action nobody claimed has no writer; two *)
(* brokers past the claim work on different actions; a broker's position    *)
(* says whether its call was made and which outcomes its row may show.      *)
UnclaimedUntouched ==
    \A k \in Keys : executions[k].state = "none" =>
        /\ calls[k] = 0
        /\ \A b \in Brokers : exec[b].pc \in Claimed => exec[b].key # k

OneWriter ==
    \A b, c \in Brokers :
        exec[b].pc \in Claimed /\ exec[c].pc \in Claimed /\ exec[b].key = exec[c].key
            => b = c

PositionTruthful ==
    \A b \in Brokers :
        /\ exec[b].pc \in {"revalidate", "heartbeat", "restart"} => calls[exec[b].key] = 0
        /\ exec[b].pc \in {"restarted", "verify", "postflight"} => calls[exec[b].key] = 1
        /\ exec[b].pc \in Claimed \ {"revalidate"} =>
              executions[exec[b].key].state \notin {"authorized", "failed"}

WriteInv ==
    /\ UnclaimedUntouched /\ OneWriter /\ PositionTruthful
    /\ RestartAtMostOnce /\ OutcomeTruthful

(* The recovery interlock, as a property of steps: an execution begins only *)
(* when no other action is in flight or unresolved, on a receipt of its own *)
(* request, which came from a native proposal, within the life of proposal  *)
(* and evidence, and under the options its proposal was made with, although *)
(* all of these were looked at in earlier transactions.                     *)
ClaimInterlocked ==
    [][\A k \in Keys : executions[k] = NoExecution /\ executions'[k] # NoExecution =>
          /\ \A other \in Keys : executions[other].state \notin InFlight
          /\ \A other \in Keys : ~ Unresolved(other)
          /\ requests[k].state = "authorized" /\ requests[k].origin = "broker_native"
          /\ executions'[k].receipt = k /\ receipts'[k].state = "consumed"
          /\ now < proposals[k].expires
          /\ evidence[proposals[k].evidence].expires >= proposals[k].expires
          /\ \E b \in Brokers : exec[b].pc = "claim" /\ exec[b].config.enabled /\ Bound(b, k)]_vars

(* CHANGELOG.md of the add-on, line 47: with two instances on one database  *)
(* "the persistent lease blocks the second write".  So no call is sent for  *)
(* one action while another action holds the lease.                         *)
LeaseBlocksSecondWrite ==
    [][\A k \in Keys : calls'[k] # calls[k] =>
          \A other \in Keys \ {k} : lease[other].state # "active"]_vars

(* The rows of an action, read as the promise's receipt and verdict.        *)
LedgerReceipt == [k \in Keys |->
    IF receipts[k] = NoReceipt THEN "none"
    ELSE IF receipts[k].state = "issued" THEN "issued" ELSE "spent"]

LedgerVerdict == [k \in Keys |->
    IF executions[k].state \in InFlight THEN "open"
    ELSE IF executions[k].state # "recovery_required" THEN executions[k].state
    ELSE IF executions[k].resolved THEN "resolved" ELSE "recovery"]

Ledger == INSTANCE RestartLedger
    WITH receipt <- LedgerReceipt, writes <- calls, verdict <- LedgerVerdict

(* The executor keeps the promise stated in RestartLedger: receipts are     *)
(* spent once, at most one write follows, 'failed' and 'succeeded' are      *)
(* claimed only with knowledge, and one action at a time is undecided.      *)
KeepsLedger == Ledger!LedgerSpec
=============================================================================
