------------------------ MODULE BrokerAuthorization ------------------------
(* AuthorizationManager (ha_operations_broker/operations_broker/            *)
(* authorization.py): enrolling passkeys and turning a pending request into *)
(* a receipt by a WebAuthn assertion.                                       *)
(*                                                                          *)
(* Challenges (flows) live in memory and are lost when the process stops;   *)
(* passkeys, requests and receipts are in the database.  Each HTTP request  *)
(* runs in a thread of its own (ThreadingHTTPServer): Handlers.  A handler  *)
(* takes the flow under the manager's lock, then makes separate store       *)
(* transactions.                                                            *)
(*                                                                          *)
(* An enrolment creates a new credential id, and a user has one passkey: a  *)
(* user stands for the credential.  An authenticator counts its signatures, *)
(* or always reports zero (ZeroCounter).                                    *)
EXTENDS BrokerStore

CONSTANTS
    Users,         \* Home Assistant users
    ZeroCounter,   \* the users whose authenticator reports no counter
    FlowIds,       \* fresh flow ids (bound on the number of ceremonies)
    Handlers,      \* server threads
    ChallengeTTL,  \* passkey_challenge_ttl_seconds
    MaxPending,    \* max_pending_passkey_flows
    MaxPasskeys,   \* max_passkeys
    NoKey,         \* a registration's approval_id
    Unsigned       \* a challenge nobody has answered

ASSUME CeremonyAssumption ==
    /\ ZeroCounter \subseteq Users
    /\ ChallengeTTL \in Nat \ {0}
    /\ MaxPending \in Nat \ {0}
    /\ MaxPasskeys \in Nat \ {0}
    /\ NoKey \notin Keys
    /\ Unsigned \notin Nat

VARIABLES
    passkeys,  \* the passkeys table: [enrolled, count] per user
    device,    \* signatures the user's authenticator has made
    flows,     \* AuthorizationManager._flows, with the client's answer
    handler,   \* per thread: where its complete_* call is, and its locals
    granted    \* history: [key, user, flow, authorized_at] of every receipt

ceremonyVars == <<passkeys, device, flows, handler, granted>>
Unused == [state |-> "unused"]
Gone == [state |-> "gone"]
Idle == [pc |-> "idle"]

CeremonyInit ==
    /\ StoreInit
    /\ passkeys = [u \in Users |-> [enrolled |-> FALSE, count |-> 0]]
    /\ device = [u \in Users |-> 0]
    /\ flows = [f \in FlowIds |-> Unused]
    /\ handler = [h \in Handlers |-> Idle]
    /\ granted = {}

----------------------------------------------------------------------------
(* Flows.                                                                   *)

Open(f) == flows[f].state = "open"
Enrolled == {u \in Users : passkeys[u].enrolled}

(* _put_flow: drop the expired flows, then add one unless the limit is      *)
(* reached.                                                                 *)
PutFlow(f, flow) ==
    LET live == {g \in FlowIds : Open(g) /\ flows[g].expires > now}
        kept == [g \in FlowIds |-> IF Open(g) /\ g \notin live THEN Gone ELSE flows[g]]
    IN  /\ flows[f] = Unused
        /\ flows' = IF Cardinality(live) < MaxPending
                    THEN [kept EXCEPT ![f] = flow] ELSE kept

Challenge(kind, u, k) ==
    [state |-> "open", kind |-> kind, user |-> u, key |-> k,
     expires |-> now + ChallengeTTL, answer |-> Unsigned]

(* begin_registration, past the enrollment token.                           *)
BeginRegistration(u, f) ==
    /\ ~ passkeys[u].enrolled
    /\ Cardinality(Enrolled) < MaxPasskeys
    /\ PutFlow(f, Challenge("registration", u, NoKey))
    /\ UNCHANGED <<storeVars, passkeys, device, handler, granted>>

(* begin_authorization: get_request may find, and record, that the request  *)
(* expired.                                                                 *)
BeginAuthorization(u, k, f) ==
    /\ requests[k] # NoRequest
    /\ \/ /\ RequestStateRead(k) = "pending"
          /\ passkeys[u].enrolled
          /\ PutFlow(f, Challenge("authorization", u, k))
          /\ UNCHANGED storeVars
       \/ /\ RequestStateRead(k) = "expired"
          /\ ReadRequest(k)
          /\ UNCHANGED flows
    /\ UNCHANGED <<passkeys, device, handler, granted>>

(* External: the user answers an open challenge on the authenticator.  For  *)
(* an assertion the answer carries the signature counter.                   *)
Answer(f) ==
    /\ Open(f) /\ flows[f].answer = Unsigned
    /\ LET u == flows[f].user
           count == IF flows[f].kind = "authorization" /\ u \notin ZeroCounter
                    THEN device[u] + 1 ELSE device[u] IN
       /\ device' = [device EXCEPT ![u] = count]
       /\ flows' = [flows EXCEPT ![f].answer = count]
    /\ UNCHANGED <<storeVars, passkeys, handler, granted>>

Matches(f, kind, u, k) ==
    /\ flows[f].kind = kind
    /\ flows[f].expires > now
    /\ flows[f].user = u
    /\ flows[f].key = k

(* Mutant: the flow is looked up and left in place.                         *)
TakeFlowKeeping(h, f, u, k) ==
    LET kind == IF k = NoKey THEN "registration" ELSE "authorization" IN
    /\ handler[h] = Idle
    /\ Open(f) /\ Matches(f, kind, u, k)
    /\ handler' = [handler EXCEPT ![h] =
          [pc |-> IF k = NoKey THEN "enroll" ELSE "check",
           flow |-> f, user |-> u, key |-> k, answer |-> flows[f].answer]]
    /\ UNCHANGED <<storeVars, passkeys, device, flows, granted>>

(* _take_flow for a complete_registration (k is NoKey) or a                 *)
(* complete_authorization of user u: whoever names the flow first removes   *)
(* it, and goes on only if the flow is the one it claims to answer.         *)
TakeFlow(h, f, u, k) ==
    LET kind == IF k = NoKey THEN "registration" ELSE "authorization" IN
    /\ handler[h] = Idle
    /\ Open(f)
    /\ flows' = [flows EXCEPT ![f] = Gone]
    /\ handler' = IF Matches(f, kind, u, k)
                  THEN [handler EXCEPT ![h] =
                          [pc |-> IF k = NoKey THEN "enroll" ELSE "check",
                           flow |-> f, user |-> u, key |-> k, answer |-> flows[f].answer]]
                  ELSE handler
    /\ UNCHANGED <<storeVars, passkeys, device, granted>>

----------------------------------------------------------------------------
(* The rest of complete_registration and complete_authorization.            *)

Done(h) == handler' = [handler EXCEPT ![h] = Idle]
Proceed(h, pc) == handler' = [handler EXCEPT ![h].pc = pc]

(* registration_complete and add_credential.                                *)
Enroll(h) ==
    /\ handler[h].pc = "enroll"
    /\ LET u == handler[h].user IN
       passkeys' = IF handler[h].answer # Unsigned /\ ~ passkeys[u].enrolled
                   THEN [passkeys EXCEPT ![u] = [enrolled |-> TRUE, count |-> handler[h].answer]]
                   ELSE passkeys
    /\ Done(h)
    /\ UNCHANGED <<storeVars, device, flows, granted>>

(* get_request once more: still pending?                                    *)
CheckRequest(h) ==
    /\ handler[h].pc = "check"
    /\ ReadRequest(handler[h].key)
    /\ IF RequestStateRead(handler[h].key) = "pending" THEN Proceed(h, "verify") ELSE Done(h)
    /\ UNCHANGED <<passkeys, device, flows, granted>>

(* credentials_for_user and authentication_complete: the counter is read    *)
(* here, and so is the clock the receipt is dated by.                       *)
VerifyAssertion(h) ==
    /\ handler[h].pc = "verify"
    /\ handler[h].answer # Unsigned
    /\ handler' = [handler EXCEPT ![h] =
          [pc |-> "count", flow |-> @.flow, user |-> @.user, key |-> @.key,
           answer |-> @.answer, old |-> passkeys[@.user].count, at |-> now]]
    /\ UNCHANGED <<storeVars, passkeys, device, flows, granted>>

(* update_counter: both counters zero, or a larger one; and the row still   *)
(* has the counter that was read.                                           *)
CounterAdvances(old, new) == (old = 0 /\ new = 0) \/ new > old

UpdateCounter(h) ==
    /\ handler[h].pc = "count"
    /\ LET u == handler[h].user
           old == handler[h].old
           new == handler[h].answer IN
       IF CounterAdvances(old, new) /\ passkeys[u].count = old
       THEN /\ passkeys' = [passkeys EXCEPT ![u].count = new]
            /\ Proceed(h, "authorize")
       ELSE /\ UNCHANGED passkeys
            /\ Done(h)
    /\ UNCHANGED <<storeVars, device, flows, granted>>

(* Mutant: the receipt is inserted and the request forgotten.               *)
IssueReceiptOnly(h) ==
    /\ handler[h].pc = "authorize"
    /\ Authorizable(handler[h].key, handler[h].at)
    /\ receipts' = [receipts EXCEPT ![handler[h].key] =
          [state |-> "issued", expires |-> requests[handler[h].key].expires]]
    /\ granted' = granted \cup {[key |-> handler[h].key, user |-> handler[h].user,
                                 flow |-> handler[h].flow, at |-> handler[h].at]}
    /\ Done(h)
    /\ UNCHANGED <<now, addon, proposals, evidence, requests, passkeys, device, flows>>

(* AuthorizationStore.authorize.                                            *)
IssueReceipt(h) ==
    /\ handler[h].pc = "authorize"
    /\ LET k == handler[h].key IN
       \/ /\ Authorize(k, handler[h].at)
          /\ granted' = granted \cup
                {[key |-> k, user |-> handler[h].user, flow |-> handler[h].flow,
                  at |-> handler[h].at]}
       \/ /\ ~ Authorizable(k, handler[h].at)
          /\ UNCHANGED <<storeVars, granted>>
    /\ Done(h)
    /\ UNCHANGED <<passkeys, device, flows>>

(* The handler raises: the response does not verify, or the database is     *)
(* locked.  What it committed before stays.                                 *)
Abandon(h) ==
    /\ handler[h] # Idle
    /\ Done(h)
    /\ UNCHANGED <<storeVars, passkeys, device, flows, granted>>

(* The process stops: flows and running handlers are gone.                  *)
ForgetFlows ==
    /\ flows' = [f \in FlowIds |-> IF Open(f) THEN Gone ELSE flows[f]]
    /\ handler' = [h \in Handlers |-> Idle]
    /\ UNCHANGED <<passkeys, device, granted>>

Handle(h) ==
    \/ Enroll(h) \/ CheckRequest(h) \/ VerifyAssertion(h)
    \/ UpdateCounter(h) \/ IssueReceipt(h) \/ Abandon(h)

Ceremony ==
    \/ \E u \in Users, f \in FlowIds : BeginRegistration(u, f)
    \/ \E u \in Users, k \in Keys, f \in FlowIds : BeginAuthorization(u, k, f)
    \/ \E f \in FlowIds : Answer(f)
    \/ \E h \in Handlers, f \in FlowIds, u \in Users, k \in Keys \cup {NoKey} :
          TakeFlow(h, f, u, k)
    \/ \E h \in Handlers : Handle(h)

----------------------------------------------------------------------------
(* Properties.                                                              *)

(* A request yields one receipt, however many challenges for it are open,   *)
(* handled at once, or answered by authenticators without a counter: its    *)
(* state and its receipt agree, and exactly one ceremony granted it         *)
(* (authorize's pending check).  And a challenge answers for one ceremony:  *)
(* of the handlers at work and the receipts granted, no two came from the   *)
(* same flow, although any client may post any flow id at any time          *)
(* (_take_flow).                                                            *)
OneReceiptPerRequest ==
    /\ \A k \in Keys :
          /\ requests[k] # NoRequest /\ requests[k].state = "authorized"
                <=> receipts[k] # NoReceipt
          /\ receipts[k] # NoReceipt => Cardinality({g \in granted : g.key = k}) = 1
    /\ \A g, h \in granted : g.flow = h.flow => g = h
    /\ \A g \in granted, h \in Handlers : handler[h] # Idle => handler[h].flow # g.flow
    /\ \A h, i \in Handlers :
          handler[h] # Idle /\ handler[i] # Idle /\ h # i => handler[h].flow # handler[i].flow

=============================================================================
