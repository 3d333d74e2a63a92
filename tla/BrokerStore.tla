---------------------------- MODULE BrokerStore ----------------------------
(* The authorization database of the HA Operations Broker                  *)
(* (ha_operations_broker/operations_broker/authorization.py), as far as     *)
(* its two users share it: the passkey ceremony (BrokerAuthorization) and   *)
(* the restart executor (BrokerExecution).                                  *)
(*                                                                          *)
(* Every method of AuthorizationStore that writes runs in one               *)
(* BEGIN IMMEDIATE transaction, so it is one action here.                   *)
(*                                                                          *)
(* Abstractions.  An idempotency key owns at most one proposal, and a       *)
(* proposal at most one request and one receipt, so a key stands for the    *)
(* ids of all four rows.  A proposal hash is the proposal: rows that copy   *)
(* the immutable proposal are not copied again.  The policy and adapter     *)
(* fields of a binding are always compared together: one policy value.      *)
(* A baseline etag is the observation it hashes.  Time is whole seconds     *)
(* (iso_timestamp truncates) up to MaxTime.                                 *)
EXTENDS Naturals, FiniteSets

CONSTANTS
    Keys,          \* idempotency keys of restart intents
    Targets,       \* add-on slugs
    Configs,       \* option sets a broker may start with: [policy, allow, enabled]
    EvidenceIds,   \* logical ids of backup evidence, numbered in their text order
    Scopes,        \* scopes the evidence issuer uses
    ProposalTTL,   \* proposal_ttl_seconds
    EvidenceLives, \* how long pieces of evidence are issued for
    MaxTime,       \* bound on the clock
    MaxVersion     \* bound on the versions an add-on goes through

ASSUME StoreAssumption ==
    /\ ProposalTTL \in Nat \ {0}
    /\ EvidenceLives \subseteq Nat \ {0}
    /\ MaxTime \in Nat
    /\ MaxVersion \in Nat
    /\ EvidenceIds \subseteq Nat

VARIABLES
    now,         \* the clock every component reads
    addon,       \* Supervisor: what addon_info reports of each add-on
    proposals,   \* operation_proposals
    evidence,    \* backup_evidence
    requests,    \* authorization_requests
    receipts     \* authorization_receipts

storeVars == <<now, addon, proposals, evidence, requests, receipts>>

Time == Nat
AddonInfo == [version : 0 .. MaxVersion, running : BOOLEAN]
Baselines == [slug : Targets, info : AddonInfo]

Baseline(t) == [slug |-> t, info |-> addon[t]]

NoProposal == [state |-> "none"]
NoEvidence == [state |-> "none"]
NoRequest == [state |-> "none"]
NoReceipt == [state |-> "none"]

StoreTypeOK ==
    /\ now \in 0 .. MaxTime
    /\ addon \in [Targets -> AddonInfo]
    /\ proposals \in [Keys -> {NoProposal} \cup
          [state : {"stored"}, target : Targets, baseline : Baselines,
           evidence : EvidenceIds, config : Configs, expires : Time]]
    /\ evidence \in [EvidenceIds -> {NoEvidence} \cup
          [state : {"registered"}, scope : Scopes, baseline : Baselines,
           created : Time, expires : Time]]
    /\ requests \in [Keys -> {NoRequest} \cup
          [state : {"pending", "authorized", "expired"},
           origin : {"legacy", "broker_native"}, expires : Time]]
    /\ receipts \in [Keys -> {NoReceipt} \cup
          [state : {"issued", "consumed"}, expires : Time]]

StoreInit ==
    /\ now = 0
    /\ addon = [t \in Targets |-> [version |-> 0, running |-> TRUE]]
    /\ proposals = [k \in Keys |-> NoProposal]
    /\ evidence = [e \in EvidenceIds |-> NoEvidence]
    /\ requests = [k \in Keys |-> NoRequest]
    /\ receipts = [k \in Keys |-> NoReceipt]

----------------------------------------------------------------------------
(* Environment: the clock, and everything that touches an add-on from       *)
(* outside the broker (updates, crashes, an operator's stop).               *)

Tick ==
    /\ now < MaxTime
    /\ now' = now + 1
    /\ UNCHANGED <<addon, proposals, evidence, requests, receipts>>

AddonChange(t) ==
    /\ \/ addon' = [addon EXCEPT ![t].running = ~ @]
       \/ /\ addon[t].version < MaxVersion
          /\ addon' = [addon EXCEPT ![t].version = @ + 1]
    /\ UNCHANGED <<now, proposals, evidence, requests, receipts>>

----------------------------------------------------------------------------
(* Backup evidence.                                                         *)

(* register_backup_evidence: a logical id is written once (the same content *)
(* again returns the row, other content is a conflict: no change).          *)
RegisterEvidence(e, scope, base, created, expires) ==
    /\ created <= now /\ expires > now /\ expires > created
    /\ evidence[e] = NoEvidence
    /\ evidence' = [evidence EXCEPT ![e] =
          [state |-> "registered", scope |-> scope, baseline |-> base,
           created |-> created, expires |-> expires]]
    /\ UNCHANGED <<now, addon, proposals, requests, receipts>>

(* _assert_backup_evidence_row with scopes ("addon", "full").               *)
EvidenceValid(e, base, until) ==
    /\ evidence[e] # NoEvidence
    /\ evidence[e].scope \in {"addon", "full"}
    /\ evidence[e].baseline = base
    /\ evidence[e].created <= now
    /\ evidence[e].expires > now
    /\ evidence[e].expires >= until

(* ORDER BY scope priority, created_at DESC, logical_id ASC.                *)
Precedes(e, f) ==
    LET rank(x) == IF evidence[x].scope = "addon" THEN 0 ELSE 1
    IN  \/ rank(e) < rank(f)
        \/ /\ rank(e) = rank(f)
           /\ \/ evidence[e].created > evidence[f].created
              \/ evidence[e].created = evidence[f].created /\ e <= f

(* select_backup_evidence: the evidence a new proposal is bound to.         *)
Selected(e, base, until) ==
    /\ EvidenceValid(e, base, until)
    /\ \A f \in EvidenceIds : EvidenceValid(f, base, until) => Precedes(e, f)

----------------------------------------------------------------------------
(* Proposals and requests.                                                  *)

(* AuthorizationManager.create_proposal.  The baseline is read from the     *)
(* Supervisor before the store's transaction, so it may be any observation  *)
(* the add-on can have given.                                               *)
CreateProposal(config, k, t, base) ==
    LET expires == now + ProposalTTL IN
    /\ t \in config.allow
    /\ proposals[k] = NoProposal
    /\ base.slug = t /\ base.info.version <= addon[t].version
    /\ \E e \in EvidenceIds :
          /\ Selected(e, base, expires)
          /\ proposals' = [proposals EXCEPT ![k] =
                [state |-> "stored", target |-> t, baseline |-> base,
                 evidence |-> e, config |-> config, expires |-> expires]]
    /\ UNCHANGED <<now, addon, evidence, requests, receipts>>

ProposalLive(k) == proposals[k] # NoProposal /\ now < proposals[k].expires

(* create_request_from_native_proposal; action_id is UNIQUE, so an existing *)
(* request is returned or is a conflict.                                    *)
NativeRequest(k) ==
    /\ ProposalLive(k)
    /\ requests[k] = NoRequest
    /\ requests' = [requests EXCEPT ![k] =
          [state |-> "pending", origin |-> "broker_native",
           expires |-> proposals[k].expires]]
    /\ UNCHANGED <<now, addon, proposals, evidence, receipts>>

(* create_request: the envelope of an earlier protocol, with its own hash   *)
(* and its own expiry, under an action id the caller chooses.               *)
LegacyRequest(k, expires) ==
    /\ requests[k] = NoRequest
    /\ expires > now
    /\ requests' = [requests EXCEPT ![k] =
          [state |-> "pending", origin |-> "legacy", expires |-> expires]]
    /\ UNCHANGED <<now, addon, proposals, evidence, receipts>>

(* The state get_request reports, and stores, for a request it reads.       *)
RequestStateRead(k) ==
    IF requests[k].state = "pending" /\ now >= requests[k].expires
    THEN "expired" ELSE requests[k].state

(* get_request.                                                             *)
ReadRequest(k) ==
    /\ requests[k] # NoRequest
    /\ requests' = [requests EXCEPT ![k].state = RequestStateRead(k)]
    /\ UNCHANGED <<now, addon, proposals, evidence, receipts>>

(* Mutants of Authorizable: without the check for 'pending', and without    *)
(* the one for the expiry.                                                  *)
AuthorizableTwice(k, at) == requests[k] # NoRequest /\ at < requests[k].expires
AuthorizableLate(k, at) == requests[k] # NoRequest /\ requests[k].state = "pending"

(* AuthorizationStore.authorize.  An expired request is refused, and the    *)
(* UPDATE to 'expired' made before the exception is rolled back with it.    *)
(* `at` is the time the ceremony's handler read, some steps ago.            *)
Authorizable(k, at) ==
    requests[k] # NoRequest /\ requests[k].state = "pending" /\ at < requests[k].expires

Authorize(k, at) ==
    /\ Authorizable(k, at)
    /\ receipts' = [receipts EXCEPT ![k] =
          [state |-> "issued", expires |-> requests[k].expires]]
    /\ requests' = [requests EXCEPT ![k].state = "authorized"]
    /\ UNCHANGED <<now, addon, proposals, evidence>>

Environment == Tick \/ \E t \in Targets : AddonChange(t)

(* What a broker running with `config` does to the store at the request of  *)
(* its API clients, the passkey ceremony and execute() apart.  Evidence is  *)
(* issued for an add-on as it is at that time.                              *)
ServeClient(config) ==
    \/ \E e \in EvidenceIds, scope \in Scopes, t \in Targets, life \in EvidenceLives :
          RegisterEvidence(e, scope, Baseline(t), now, now + life)
    \/ \E k \in Keys, t \in Targets, base \in Baselines : CreateProposal(config, k, t, base)
    \/ \E k \in Keys : NativeRequest(k)
    \/ \E k \in Keys : LegacyRequest(k, now + ProposalTTL)
    \/ \E k \in Keys : ReadRequest(k)
=============================================================================
