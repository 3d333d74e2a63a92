--------------------------- MODULE WeixinAccounts ---------------------------
(* Who may talk to the house through WeChat, and over which ClawBot: the      *)
(* tables weixin_users, identity_bindings, ilink_identities,                  *)
(* onboarding_sessions and pairing_invitations of the Weixin Gateway          *)
(* (weixin_gateway/store.py), the identity files beside them, and the         *)
(* runtimes and pollers of the running process (service.py).                  *)
(*                                                                            *)
(* A table change is one BEGIN IMMEDIATE transaction; a file is replaced      *)
(* atomically; the handlers run on one event loop.  What a crash can separate *)
(* is a step of its own (doing), and so is what an await separates while the  *)
(* authorization lock is held (admin).                                        *)
(*                                                                            *)
(* Abstractions.  A person stands for the private id, the user row and the    *)
(* principal made for it; a binding's sender may be someone else than its     *)
(* principal.  An account stands for its identity_id, its token and its       *)
(* hash.  A request names the users_revision it was made from and a stale one *)
(* is refused, so an accepted request is one made from the present tables.    *)
(* The intermediate QR states and aliases are left out, and so are token      *)
(* locks: one process holds them all.  The index on a binding's account and   *)
(* sender refuses a claim; that it could refuse a migration at the start too, *)
(* when a suspended member scanned the code of one who was made the owner     *)
(* since, is left out.                                                        *)
EXTENDS Naturals, FiniteSets

CONSTANTS
    People,         \* private ids of WeChat users
    Accounts,       \* ClawBot accounts
    Sessions,       \* onboarding sessions there may ever be
    Invites,        \* member invitations there may ever be
    Scans,          \* which account a confirmed scan brings, and whose it is
    FirstAccount,   \* the account the add-on was first given
    MaxTries,       \* MAX_ONBOARDING_ATTEMPTS
    MaxUsers,       \* MAX_WEIXIN_USERS
    MaxIdentities,  \* max_active_identities
    NoOne, NoAccount, NoSession

ASSUME AccountsAssumption ==
    /\ Scans \subseteq Accounts \X People
    /\ FirstAccount \in Accounts
    /\ MaxTries \in Nat \ {0}
    /\ MaxUsers \in Nat /\ MaxIdentities \in Nat
    /\ NoOne \notin People /\ NoAccount \notin Accounts /\ NoSession \notin Sessions

VARIABLES
    users,       \* table weixin_users
    bindings,    \* table identity_bindings, by principal
    idents,      \* ilink_identities.state
    sessions,    \* table onboarding_sessions
    invites,     \* table pairing_invitations
    files,       \* accounts/<hash>.json: the allowed_user_ids of each
    active,      \* active.json
    code,        \* whether an owner pairing code is waiting in its file
    enabled,     \* gateway_meta.poller_override
    self,        \* service.identity
    runtimes,    \* service._runtimes: the poller_state of each
    allow,       \* and the allowed_user_ids it has in memory
    pollers,     \* the accounts whose poll_task runs
    paused,      \* the maintenance lease
    qr,          \* the session of member_qr_state and the tasks that poll for it
    doing,       \* the handler a crash may cut in two
    admin,       \* the holder of _authorization_lock between two awaits
    replies      \* admin_mutations of changes of user state

durableVars == <<users, bindings, idents, sessions, invites, files, active, code, enabled, replies>>
processVars == <<self, runtimes, allow, pollers, paused, qr, doing, admin>>
accountVars == <<users, bindings, idents, sessions, invites, files, active, code, enabled,
                 replies, self, runtimes, allow, pollers, paused, qr, doing, admin>>

Absent == [role |-> "none", status |-> "none"]
Unbound == [account |-> NoAccount, sender |-> NoOne, type |-> "none", state |-> "none"]
Binding(a, p, t, s) == [account |-> a, sender |-> p, type |-> t, state |-> s]
Unused == [state |-> "unused", target |-> NoOne, account |-> NoAccount, scanner |-> NoOne, tries |-> 0]
Idle == [step |-> "idle", account |-> NoAccount, person |-> NoOne, from |-> NoOne]
Step(s, a, p) == [step |-> s, account |-> a, person |-> p, from |-> NoOne]
NoQr == [session |-> NoSession, tasks |-> 0]
NoFile == {NoOne}                       \* an account without a credential file

Open == {s \in Sessions : sessions[s].state \in {"waiting_qr", "pending_pairing"}}
Members == {p \in People : users[p].status \notin {"none", "revoked"}}
Owners == {p \in People : users[p].role = "owner" /\ users[p].status = "active"}
Owner == CHOOSE p \in Owners : TRUE
(* user_by_identity_sender                                                    *)
Principals(a, x) == {p \in People : /\ bindings[p].account = a /\ bindings[p].sender = x
                                    /\ bindings[p].state = "active"}

AccountsInit ==
    /\ users = [p \in People |-> Absent] /\ bindings = [p \in People |-> Unbound]
    /\ idents = [a \in Accounts |-> IF a = FirstAccount THEN "active" ELSE "absent"]
    /\ sessions = [s \in Sessions |-> Unused]
    /\ invites = [i \in Invites |-> "unused"]
    /\ files = [a \in Accounts |-> IF a = FirstAccount THEN {} ELSE NoFile]
    /\ active = FirstAccount /\ code = FALSE /\ enabled = TRUE /\ replies = {}
    /\ self = FirstAccount
    /\ runtimes = [a \in Accounts |-> IF a = FirstAccount THEN "pairing" ELSE "none"]
    /\ allow = [a \in Accounts |-> {}] /\ pollers = {FirstAccount} /\ paused = FALSE
    /\ qr = NoQr /\ doing = Idle /\ admin = Idle

Quiet == doing = Idle
Hears(a) == Quiet /\ a \in pollers

(* A runtime and its credentials are dropped; the file active.json names      *)
(* cannot be removed.                                                         *)
Discard(a) == /\ pollers' = pollers \ {a}
              /\ runtimes' = [runtimes EXCEPT ![a] = "none"]
              /\ files' = IF active = a THEN files ELSE [files EXCEPT ![a] = NoFile]

(* ---- the first owner ----------------------------------------------------- *)

StartOwnerPairing ==
    /\ Quiet /\ runtimes[self] = "pairing" /\ allow[self] = {}
    /\ code' = TRUE
    /\ UNCHANGED <<users, bindings, idents, sessions, invites, files, active, enabled, replies>>
    /\ UNCHANGED processVars

OwnerCodeLapses == /\ code /\ code' = FALSE
                   /\ UNCHANGED <<users, bindings, idents, sessions, invites, files, active, enabled, replies>>
                   /\ UNCHANGED processVars

ClaimOwner(p) ==
    /\ Hears(self) /\ allow[self] = {} /\ code
    /\ files' = [files EXCEPT ![self] = {p}]
    /\ allow' = [allow EXCEPT ![self] = {p}]
    /\ active' = self
    /\ code' = FALSE
    /\ doing' = Step("register_owner", self, p)
    /\ UNCHANGED <<users, bindings, idents, sessions, invites, enabled, replies,
                   self, runtimes, pollers, paused, qr, admin>>

(* migrate_identity_allowlist: the first user is the owner.                   *)
WithOwner(allowed) ==
    IF Owners = {} /\ allowed # {}
    THEN [users EXCEPT ![CHOOSE p \in allowed : TRUE] = [role |-> "owner", status |-> "active"]]
    ELSE users

(* migrate_legacy_identity: everybody without an account of their own is      *)
(* served by this one.                                                        *)
Migrated(a, rows) ==
    [p \in People |->
        IF rows[p] = Absent \/ bindings[p].type = "primary" THEN bindings[p]
        ELSE Binding(a, p, IF rows[p].role = "owner" THEN "primary" ELSE "legacy_shared",
                     IF bindings[p].state = "revoked" THEN "revoked" ELSE rows[p].status)]

Kept(a) == [idents EXCEPT ![a] = IF @ = "revoked" THEN @ ELSE "active"]

RegisterOwner ==
    /\ doing.step = "register_owner"
    /\ users' = WithOwner(files[self])
    /\ bindings' = Migrated(self, users')
    /\ idents' = [idents EXCEPT ![self] = "active"]
    /\ runtimes' = [runtimes EXCEPT ![self] = "polling"]
    /\ doing' = Idle
    /\ UNCHANGED <<sessions, invites, files, active, code, enabled, replies, self, allow, pollers, paused, qr, admin>>

(* The QR login of the owner, with the pollers stopped: the same account and  *)
(* the same person, or it is refused.                                         *)
AcceptOwnerQr(x) ==
    /\ Quiet /\ admin = Idle
    /\ runtimes[self] = "stopped"
    /\ Owners \subseteq {x}
    /\ files' = [files EXCEPT ![self] = Owners]
    /\ allow' = [allow EXCEPT ![self] = Owners]
    /\ active' = self /\ code' = FALSE
    /\ bindings' = Migrated(self, users)
    /\ idents' = Kept(self)
    /\ UNCHANGED <<users, sessions, invites, enabled, replies, self, runtimes, pollers, paused, qr, doing, admin>>

(* ---- onboarding a member with a ClawBot of their own --------------------- *)

(* _expire_onboarding_sessions, run by every reader of the table: nothing is  *)
(* said to the runtime.                                                       *)
Closed(s, state) == [sessions EXCEPT ![s].state = state]
Withdrawn(a) == IF a # NoAccount /\ idents[a] = "pending_pairing"
                THEN [idents EXCEPT ![a] = "revoked"] ELSE idents

SessionLapses(s) ==
    /\ s \in Open
    /\ sessions' = Closed(s, "expired")
    /\ idents' = Withdrawn(sessions[s].account)
    /\ UNCHANGED <<users, bindings, invites, files, active, code, enabled, replies>>
    /\ UNCHANGED processVars

(* The cleanup loop does it first: it knows the accounts and drops them.      *)
CleanupExpires(s) ==
    /\ Quiet /\ s \in Open
    /\ sessions' = Closed(s, "expired")
    /\ idents' = Withdrawn(sessions[s].account)
    /\ LET a == sessions[s].account IN
          IF a # NoAccount /\ runtimes[a] # "none" THEN Discard(a)
          ELSE UNCHANGED <<files, runtimes, pollers>>
    /\ UNCHANGED <<users, bindings, invites, active, code, enabled, replies, self, allow, paused, qr, doing, admin>>

(* create_onboarding_session, and the QR code of start_member_onboarding:     *)
(* shown, or not to be had, which ends the session.  The task of an earlier   *)
(* session is not stopped and goes on with the new state.                     *)
CreateOnboarding(s, t) ==
    /\ Quiet /\ enabled
    /\ sessions[s] = Unused /\ Open = {} /\ Owners # {}
    /\ Cardinality({a \in Accounts : idents[a] \notin {"absent", "revoked"}}) < MaxIdentities
    /\ IF t = NoOne THEN Cardinality(Members) < MaxUsers
       ELSE /\ users[t] = [role |-> "member", status |-> "active"]
            /\ bindings[t].state = "active" => bindings[t].type = "legacy_shared"
    /\ \/ /\ sessions' = [sessions EXCEPT ![s] = [Unused EXCEPT !.state = "waiting_qr", !.target = t]]
          /\ qr' = [session |-> s, tasks |-> qr.tasks + 1]
       \/ /\ sessions' = [sessions EXCEPT ![s] = [Unused EXCEPT !.state = "failed", !.target = t]]
          /\ UNCHANGED qr
    /\ UNCHANGED <<users, bindings, idents, invites, files, active, code, enabled, replies,
                   self, runtimes, allow, pollers, paused, doing, admin>>

(* set_onboarding_qr_state: a session that has ended keeps its end.           *)
OnboardingEnds(s, how) ==
    IF s \in Open THEN /\ sessions' = Closed(s, how)
                       /\ idents' = Withdrawn(sessions[s].account)
    ELSE UNCHANGED <<sessions, idents>>

(* A task ends without an account: the code expired too often, the account is *)
(* already bound, it has polled for eight minutes.                            *)
QrEnds(how) ==
    /\ Quiet /\ qr.tasks > 0
    /\ qr' = [qr EXCEPT !.tasks = @ - 1]
    /\ OnboardingEnds(qr.session, how)
    /\ UNCHANGED <<users, bindings, invites, files, active, code, enabled, replies,
                   self, runtimes, allow, pollers, paused, doing, admin>>

(* _accept_member_qr: the file first, whatever the session has become.        *)
AcceptMemberQr(a, x) ==
    /\ Quiet /\ qr.tasks > 0 /\ <<a, x>> \in Scans
    /\ files' = [files EXCEPT ![a] = {}]
    /\ qr' = [qr EXCEPT !.tasks = @ - 1]
    /\ doing' = Step("attach", a, x)
    /\ UNCHANGED <<users, bindings, idents, sessions, invites, active, code, enabled, replies,
                   self, runtimes, allow, pollers, paused, admin>>

(* The one row that is fetched of those which bind x already, or none.        *)
Duplicates(x) ==
    LET bound == {p \in People : bindings[p].sender = x /\ bindings[p].state = "active"} IN
    IF bound = {} THEN {NoOne} ELSE bound

MayAttach(s, duplicate) ==
    /\ sessions[s].state = "waiting_qr"
    /\ duplicate # NoOne => /\ duplicate = sessions[s].target
                            /\ bindings[duplicate].type = "legacy_shared"

(* _resume_identity_runtime                                                   *)
Pairs(a, ids, allows) == ids[a] = "pending_pairing" \/ allows[a] = {}

Resume(a, ids, allows) ==
    IF ~ enabled
    THEN /\ runtimes' = [runtimes EXCEPT ![a] = "stopped"]
         /\ idents' = ids /\ UNCHANGED pollers
    ELSE /\ runtimes' = [runtimes EXCEPT ![a] = IF Pairs(a, ids, allows) THEN "pairing" ELSE "polling"]
         /\ idents' = [ids EXCEPT ![a] = IF Pairs(a, ids, allows) THEN "pending_pairing" ELSE "active"]
         /\ pollers' = pollers \cup {a}

AttachIdentity ==
    /\ doing.step = "attach"
    /\ doing' = Idle
    /\ LET s == qr.session  a == doing.account  x == doing.person IN
       \E duplicate \in Duplicates(x) :
          IF MayAttach(s, duplicate)
          THEN /\ sessions' = [sessions EXCEPT ![s] = [@ EXCEPT !.state = "pending_pairing",
                                                               !.account = a, !.scanner = x]]
               /\ allow' = [allow EXCEPT ![a] = {}]
               /\ Resume(a, [idents EXCEPT ![a] = "pending_pairing"], allow')
          ELSE /\ sessions' = IF sessions[s].state = "waiting_qr" THEN Closed(s, "failed") ELSE sessions
               /\ UNCHANGED <<idents, runtimes, allow, pollers>>
    /\ UNCHANGED <<users, bindings, invites, files, active, code, enabled, replies, self, paused, qr, admin>>

(* The session a message on account a may claim.                              *)
Pending(a) == {s \in Open : sessions[s].state = "pending_pairing" /\ sessions[s].account = a}
Listens(a, x) == /\ Hears(a) /\ a # self /\ runtimes[a] = "pairing"
                 /\ \E s \in Pending(a) : sessions[s].scanner = x

(* identity_bindings_sender_idx: no other principal has the sender there.     *)
SenderFree(a, x, p) == \A o \in People \ {p} : bindings[o].account # a \/ bindings[o].sender # x

(* The principal a session binds, and whether the tables still take it: a     *)
(* new one needs a private id no row has, of a removed member neither.        *)
Target(s, x) == IF sessions[s].target = NoOne THEN x ELSE sessions[s].target
MayBind(s, a, x) ==
    LET p == Target(s, x) IN
    /\ IF sessions[s].target = NoOne
       THEN users[p] = Absent /\ Cardinality(Members) < MaxUsers
       ELSE users[p] = [role |-> "member", status |-> "active"]
    /\ bindings[p].type \in {"none", "legacy_shared"} /\ SenderFree(a, x, p)

(* claim_onboarding with the right code; refused, the transaction is rolled   *)
(* back and the poll loop tries the message again.                            *)
ClaimOnboarding(a, x) ==
    /\ Listens(a, x)
    /\ \E s \in Pending(a) :
          /\ MayBind(s, a, x)
          /\ users' = [users EXCEPT ![Target(s, x)] = [role |-> "member", status |-> "active"]]
          /\ bindings' = [bindings EXCEPT ![Target(s, x)] = Binding(a, x, "primary", "active")]
          /\ sessions' = Closed(s, "claimed")
    /\ idents' = [idents EXCEPT ![a] = "active"]
    /\ doing' = Step("allow_sender", a, x)
    /\ UNCHANGED <<invites, files, active, code, enabled, replies, self, runtimes, allow, pollers, paused, qr, admin>>

AllowSender ==
    /\ doing.step = "allow_sender"
    /\ files' = [files EXCEPT ![doing.account] = {doing.person}]
    /\ allow' = [allow EXCEPT ![doing.account] = {doing.person}]
    /\ runtimes' = [runtimes EXCEPT ![doing.account] = "polling"]
    /\ doing' = Idle
    /\ UNCHANGED <<users, bindings, idents, sessions, invites, active, code, enabled, replies,
                   self, pollers, paused, qr, admin>>

WrongCode(a, x) ==
    /\ Listens(a, x)
    /\ \E s \in Pending(a) :
          IF sessions[s].tries + 1 < MaxTries
          THEN /\ sessions' = [sessions EXCEPT ![s].tries = @ + 1]
               /\ UNCHANGED <<idents, files, runtimes, pollers>>
          ELSE /\ sessions' = [sessions EXCEPT ![s].tries = @ + 1, ![s].state = "failed"]
               /\ idents' = [idents EXCEPT ![a] = "revoked"]
               /\ Discard(a)
    /\ UNCHANGED <<users, bindings, invites, active, code, enabled, replies, self, allow, paused, qr, doing, admin>>

(* Under the authorization lock; the QR task is cancelled with the session it *)
(* polls for.                                                                 *)
CancelOnboarding(s) ==
    /\ Quiet /\ admin = Idle /\ s \in Open
    /\ sessions' = Closed(s, "cancelled")
    /\ idents' = Withdrawn(sessions[s].account)
    /\ qr' = IF qr.session = s /\ qr.tasks > 0 THEN [qr EXCEPT !.tasks = @ - 1] ELSE qr
    /\ LET a == sessions[s].account IN
          IF a # NoAccount /\ runtimes[a] # "none" THEN Discard(a)
          ELSE UNCHANGED <<files, runtimes, pollers>>
    /\ UNCHANGED <<users, bindings, invites, active, code, enabled, replies, self, allow, paused, doing, admin>>

(* ---- invitations to the owner's ClawBot ---------------------------------- *)

SetInvite(i, from, to) == /\ invites[i] = from
                          /\ invites' = [invites EXCEPT ![i] = to]
                          /\ UNCHANGED <<users, bindings, idents, sessions, files, active, code, enabled, replies>>
                          /\ UNCHANGED processVars

CreateInvitation(i) == Cardinality(Members) < MaxUsers /\ SetInvite(i, "unused", "waiting")
InvitationEnds(i) == \E how \in {"cancelled", "expired"} : SetInvite(i, "waiting", how)

(* The accounts an active owner is served on.                                 *)
Shared == {a \in Accounts : /\ idents[a] = "active"
                            /\ \E p \in Owners : bindings[p].account = a /\ bindings[p].state = "active"}

ClaimInvitation(i, x) ==
    /\ Hears(self) /\ allow[self] # {} /\ Principals(self, x) = {}
    /\ users[x] = Absent /\ invites[i] = "waiting"
    /\ Cardinality(Members) < MaxUsers
    /\ users' = [users EXCEPT ![x] = [role |-> "member", status |-> "active"]]
    /\ \A a \in Shared : SenderFree(a, x, x)
    /\ bindings' = IF Shared = {} THEN bindings
                   ELSE [bindings EXCEPT ![x] = Binding(CHOOSE a \in Shared : TRUE, x, "legacy_shared", "active")]
    /\ invites' = [invites EXCEPT ![i] = "claimed"]
    /\ UNCHANGED <<idents, sessions, files, active, code, enabled, replies>>
    /\ UNCHANGED processVars

(* ---- suspending, resuming and removing members --------------------------- *)

(* Mutant: a member is resumed whatever became of them.                       *)
MayResumeAnyone(p, act) ==
    CASE act = "suspend" -> users[p] = [role |-> "member", status |-> "active"]
      [] act = "resume" -> users[p].role = "member" /\ users[p].status # "active"
      [] OTHER -> users[p].role = "member" /\ users[p].status # "revoked"

MayChange(p, act) ==
    CASE act = "suspend" -> users[p] = [role |-> "member", status |-> "active"]
      [] act = "resume" -> users[p] = [role |-> "member", status |-> "suspended"]
      [] OTHER -> users[p].role = "member" /\ users[p].status # "revoked"

Status(act) == CASE act = "suspend" -> "suspended" [] act = "resume" -> "active" [] OTHER -> "revoked"
IdentFor(act) == CASE act = "suspend" -> "paused" [] act = "resume" -> "active" [] OTHER -> "revoked"

(* change_user_state decides what to do with the runtime from the binding it  *)
(* read first, whether the store changed anything or answered a replay.       *)
ThenRuntime(p, act) ==
    admin' = IF bindings[p].type = "primary" /\ runtimes[bindings[p].account] # "none"
             THEN Step(act, bindings[p].account, p) ELSE Idle

(* Mutant: the binding keeps its state when the user's status changes.        *)
ChangeUserOnly(p, act) ==
    /\ Quiet /\ admin = Idle /\ MayChange(p, act)
    /\ users' = [users EXCEPT ![p].status = Status(act)]
    /\ replies' = replies \cup {<<p, act>>}
    /\ ThenRuntime(p, act)
    /\ UNCHANGED <<bindings, idents, sessions, invites, files, active, code, enabled,
                   self, runtimes, allow, pollers, paused, qr, doing>>

ChangeUserState(p, act) ==
    /\ Quiet /\ admin = Idle /\ MayChange(p, act)
    /\ users' = [users EXCEPT ![p].status = Status(act)]
    /\ bindings' = IF bindings[p] = Unbound THEN bindings
                   ELSE [bindings EXCEPT ![p].state = Status(act)]
    /\ idents' = IF bindings[p].type # "primary" THEN idents
                 ELSE [idents EXCEPT ![bindings[p].account] = IdentFor(act)]
    /\ replies' = replies \cup {<<p, act>>}
    /\ ThenRuntime(p, act)
    /\ UNCHANGED <<sessions, invites, files, active, code, enabled,
                   self, runtimes, allow, pollers, paused, qr, doing>>

ReplayChange(p, act) ==
    /\ Quiet /\ admin = Idle /\ <<p, act>> \in replies
    /\ ThenRuntime(p, act)
    /\ UNCHANGED durableVars
    /\ UNCHANGED <<self, runtimes, allow, pollers, paused, qr, doing>>

FinishChange ==
    /\ Quiet /\ admin # Idle
    /\ admin' = Idle
    /\ LET a == admin.account IN
          CASE admin.step = "suspend" -> /\ pollers' = pollers \ {a}
                                         /\ runtimes' = [runtimes EXCEPT ![a] = "stopped"]
                                         /\ UNCHANGED <<files, idents>>
            [] admin.step = "revoke" -> Discard(a) /\ UNCHANGED idents
            [] OTHER -> /\ IF a \in pollers /\ enabled THEN UNCHANGED <<idents, runtimes, pollers>>
                           ELSE Resume(a, idents, allow)
                        /\ UNCHANGED files
    /\ UNCHANGED <<users, bindings, sessions, invites, active, code, enabled, replies,
                   self, allow, paused, qr, doing>>

(* ---- moving the ownership ------------------------------------------------- *)

Swapped(old, new) == [users EXCEPT ![old].role = "member", ![new].role = "owner"]

(* The tables first, then active.json; doing.person is the new owner.         *)
TransferOwner(t) ==
    /\ Quiet /\ admin = Idle /\ Owners # {}
    /\ bindings[Owner].state = "active"
    /\ idents[bindings[Owner].account] # "revoked" /\ runtimes[bindings[Owner].account] # "none"
    /\ users[t] = [role |-> "member", status |-> "active"]
    /\ users' = Swapped(Owner, t)
    /\ doing' = [Step("mirror", bindings[t].account, t) EXCEPT !.from = Owner]
    /\ UNCHANGED <<bindings, idents, sessions, invites, files, active, code, enabled, replies,
                   self, runtimes, allow, pollers, paused, qr, admin>>

Mirror(a, x) == /\ files' = [files EXCEPT ![a] = {x}]
                /\ allow' = [allow EXCEPT ![a] = {x}]
                /\ active' = a /\ self' = a

MirrorOwner ==
    /\ doing.step = "mirror"
    /\ doing' = Idle
    /\ LET a == doing.account IN
          IF a # NoAccount /\ bindings[doing.person].state = "active" /\ idents[a] = "active" /\ runtimes[a] # "none"
          THEN Mirror(a, bindings[doing.person].sender) /\ UNCHANGED users
          ELSE /\ users' = Swapped(doing.person, doing.from)
               /\ Mirror(bindings[doing.from].account, bindings[doing.from].sender)
    /\ UNCHANGED <<bindings, idents, sessions, invites, code, enabled, replies,
                   runtimes, pollers, paused, qr, admin>>

(* ---- pollers -------------------------------------------------------------- *)

Startable(ids) == {a \in Accounts : ids[a] \in {"active", "pending_pairing"}}

Start(known, ids, allows) ==
    /\ pollers' = (known \cap Startable(ids)) \cup (pollers \cap known)
    /\ runtimes' = [a \in Accounts |->
          IF a \in pollers' \ pollers THEN IF Pairs(a, ids, allows) THEN "pairing" ELSE "polling"
          ELSE runtimes[a]]

Known == {a \in Accounts : runtimes[a] # "none"}
StopAll == /\ pollers' = {}
           /\ runtimes' = [a \in Accounts |-> IF a \in Known THEN "stopped" ELSE "none"]

SetPoller(on) ==
    /\ Quiet
    /\ enabled' = on /\ paused' = FALSE
    /\ IF on THEN Start(Known, idents, allow) ELSE StopAll
    /\ UNCHANGED <<users, bindings, idents, sessions, invites, files, active, code, replies,
                   self, allow, qr, doing, admin>>

PauseMaintenance ==
    /\ Quiet /\ ~ paused
    /\ paused' = TRUE
    /\ IF enabled THEN StopAll ELSE UNCHANGED <<pollers, runtimes>>
    /\ UNCHANGED <<self, allow, qr, doing, admin>> /\ UNCHANGED durableVars

(* By request or at the end of the lease.                                     *)
ResumeMaintenance ==
    /\ Quiet /\ paused
    /\ paused' = FALSE
    /\ IF enabled THEN Start(Known, idents, allow) ELSE UNCHANGED <<pollers, runtimes>>
    /\ UNCHANGED <<self, allow, qr, doing, admin>> /\ UNCHANGED durableVars

(* iLink ends the session of an account; the answer may find it removed.      *)
SessionExpired(a) ==
    /\ Hears(a)
    /\ runtimes' = [runtimes EXCEPT ![a] = "session_expired"]
    /\ idents' = [idents EXCEPT ![a] = "session_expired"]
    /\ pollers' = pollers \ {a}
    /\ UNCHANGED <<users, bindings, sessions, invites, files, active, code, enabled, replies,
                   self, allow, paused, qr, doing, admin>>

(* The process ends anywhere and starts again: __init__ migrates from the     *)
(* active file, _load_secondary_runtimes takes the other files.  The state of *)
(* an account it does not start is what its row says: an orderly stop wrote   *)
(* "stopped".                                                                 *)
Restart ==
    /\ users' = WithOwner(files[active] \ NoFile)
    /\ LET o == {p \in People : users'[p].role = "owner"} IN
          files' = IF o = {} THEN files ELSE [files EXCEPT ![active] = o]
    /\ bindings' = Migrated(active, users')
    /\ idents' = Kept(active)
    /\ self' = active
    /\ allow' = [a \in Accounts |-> files'[a] \ NoFile]
    /\ LET known == {a \in Accounts : \/ a = active
                                      \/ files[a] # NoFile /\ idents[a] \notin {"absent", "revoked"}}
           up == IF enabled THEN known \cap Startable(idents') ELSE {} IN
          /\ pollers' = up
          /\ \E orderly \in BOOLEAN : runtimes' = [a \in Accounts |->
                IF a \in up THEN IF Pairs(a, idents', allow') THEN "pairing" ELSE "polling"
                ELSE IF a \notin known THEN "none"
                ELSE IF ~ orderly /\ idents[a] = "session_expired" THEN "session_expired" ELSE "stopped"]
    /\ paused' = FALSE /\ qr' = NoQr /\ doing' = Idle /\ admin' = Idle
    /\ UNCHANGED <<sessions, invites, active, code, enabled, replies>>

AccountsNext ==
    \/ StartOwnerPairing \/ OwnerCodeLapses \/ RegisterOwner
    \/ AttachIdentity \/ AllowSender \/ FinishChange \/ MirrorOwner
    \/ PauseMaintenance \/ ResumeMaintenance \/ Restart
    \/ \E p \in People : ClaimOwner(p) \/ AcceptOwnerQr(p) \/ TransferOwner(p)
    \/ \E s \in Sessions : SessionLapses(s) \/ CleanupExpires(s) \/ CancelOnboarding(s)
    \/ \E s \in Sessions, t \in People \cup {NoOne} : CreateOnboarding(s, t)
    \/ \E how \in {"expired", "failed", "already_bound"} : QrEnds(how)
    \/ \E a \in Accounts, x \in People : AcceptMemberQr(a, x) \/ ClaimOnboarding(a, x) \/ WrongCode(a, x)
    \/ \E i \in Invites : CreateInvitation(i) \/ InvitationEnds(i)
    \/ \E i \in Invites, x \in People : ClaimInvitation(i, x)
    \/ \E p \in People, act \in {"suspend", "resume", "revoke"} : ChangeUserState(p, act) \/ ReplayChange(p, act)
    \/ \E on \in BOOLEAN : SetPoller(on)
    \/ \E a \in Accounts : SessionExpired(a)

AccountsSpec == AccountsInit /\ [][AccountsNext]_accountVars

(* The directory agrees with itself at every step of every handler, and after *)
(* a crash at any of them: at most one owner, who outside a transfer is bound *)
(* to an account; every binding has its person's status; at most one open     *)
(* onboarding session, and an account that waits for its pairing message has  *)
(* one, or serves somebody already; no poller runs for a removed account.     *)
DirectoryAgrees ==
    /\ Cardinality(Owners) <= 1
    /\ Quiet /\ Owners # {} => bindings[Owner].state = "active"
    /\ \A p \in People : bindings[p] # Unbound => bindings[p].state = users[p].status
    /\ Cardinality(Open) <= 1
    /\ \A a \in Accounts : idents[a] = "pending_pairing" =>
          Pending(a) # {} \/ \E p \in People : bindings[p].account = a /\ bindings[p].type = "primary"
    /\ admin = Idle => \A a \in pollers : idents[a] # "revoked" \/ runtimes[a] # "polling"

(* "The owner cannot be suspended or removed", and removing a member does not *)
(* touch the others: the account the owner is bound to is never revoked.      *)
OwnerKeepsAccount ==
    Quiet /\ admin = Idle /\ Owners # {} => idents[bindings[Owner].account] # "revoked"

(* The rows of weixin_users, each in one word.                                *)
Standing(p) == IF users[p].role = "owner" THEN "owner"
               ELSE IF users[p].status = "active" THEN "member"
               ELSE IF users[p].status = "revoked" THEN "removed" ELSE users[p].status

Promise == INSTANCE WeixinStanding WITH standing <- [p \in People |-> Standing(p)]

(* The directory keeps the promise of WeixinStanding, on which WeixinDelivery *)
(* relies: through claims, invitations, changes of state, a transfer that is  *)
(* taken back, and restarts, the table only changes by a step of it.          *)
KeepsStanding == Promise!StandingInit /\ [][users' # users => Promise!StandingNext]_users
=============================================================================
