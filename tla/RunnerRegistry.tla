--------------------------- MODULE RunnerRegistry ---------------------------
(* The registry half of codex_controller/runner_store.py: what the           *)
(* controller knows of each Codex Runner, the one-time enrollments that admit *)
(* it and the long-lived credentials it authenticates with.  Every action is  *)
(* one BEGIN IMMEDIATE transaction; a request the code refuses leaves the     *)
(* tables alone and is no step.  Clocks are flags: a pending enrollment may   *)
(* expire, and the age of the last heartbeat only grows until the next one.   *)
(* Which projects, labels and capabilities a Runner has is not modelled.      *)
EXTENDS Naturals, Sequences

CONSTANTS Runners,            \* rows of runner_registry, created or not
          Tasks,              \* the task ids a Runner may be busy with
          NoTask,             \* current_task_id IS NULL
          HeartbeatReports,   \* what a heartbeat may say of the Runner itself
          MaxEnrollments, MaxCredentials   \* bounds on the rows of one Runner

AdminStates == {"absent", "pending", "enabled", "draining", "disabled", "revoked"}
WorkStates  == {"idle", "busy", "recovery_required", "error"}
Links       == {"online", "stale", "offline"}
EnrollmentStates == {"pending", "expired", "claimed", "revoked"}
CredentialStates == {"active", "revoked"}

ASSUME NoTaskAssumption == NoTask \notin Tasks
ASSUME ReportsAssumption ==
    HeartbeatReports \subseteq [work: WorkStates, online: BOOLEAN, checked: BOOLEAN]

VARIABLES runner,       \* runner_registry, by runner_id
          enrollment,   \* runner_enrollments of a Runner, oldest first
          credential    \* runner_credentials of a Runner, oldest first

registryVars == <<runner, enrollment, credential>>

(* "checked" is self_check_json.ok, "link" what _connectivity answers.       *)
RunnerRow == [admin: AdminStates, archived: BOOLEAN, checked: BOOLEAN,
              work: WorkStates, current: Tasks \cup {NoTask}, link: Links]

RegistryTypeOK ==
    /\ runner \in [Runners -> RunnerRow]
    /\ enrollment \in [Runners -> Seq(EnrollmentStates)]
    /\ credential \in [Runners -> Seq(CredentialStates)]

NewRow(admin) == [admin |-> admin, archived |-> FALSE, checked |-> FALSE,
                  work |-> "idle", current |-> NoTask, link |-> "offline"]

RegistryInit ==
    /\ runner = [r \in Runners |-> NewRow("absent")]
    /\ enrollment = [r \in Runners |-> <<>>]
    /\ credential = [r \in Runners |-> <<>>]

Has(s, value) == \E i \in DOMAIN s : s[i] = value

(* Every element of s that is in "from" becomes "to".                        *)
Turn(s, from, to) == [i \in DOMAIN s |-> IF s[i] \in from THEN to ELSE s[i]]

(* verify_credential: an active credential of a Runner that is not revoked.  *)
Authenticated(r) ==
    /\ Has(credential[r], "active")
    /\ runner[r].admin # "revoked"

-----------------------------------------------------------------------------
(* Enrollment.                                                               *)

CreateEnrollment(r) ==
    /\ runner[r].admin = "absent"
    /\ runner' = [runner EXCEPT ![r] = NewRow("pending")]
    /\ enrollment' = [enrollment EXCEPT ![r] = <<"pending">>]
    /\ UNCHANGED credential

(* fifteen minutes go by                                                     *)
EnrollmentExpires(r) ==
    \E i \in DOMAIN enrollment[r] :
        /\ enrollment[r][i] = "pending"
        /\ enrollment' = [enrollment EXCEPT ![r][i] = "expired"]
        /\ UNCHANGED <<runner, credential>>

Redeemable(r, i) == /\ enrollment[r][i] = "pending"
                    /\ runner[r].admin # "revoked"

(* redeem_enrollment: claim one token, mint one credential, keep the check   *)
(* the agent reports of itself.                                              *)
RedeemEnrollment(r, i, ok) ==
    /\ Redeemable(r, i)
    /\ Len(credential[r]) < MaxCredentials
    /\ enrollment' = [enrollment EXCEPT ![r][i] = "claimed"]
    /\ credential' = [credential EXCEPT ![r] = Append(@, "active")]
    /\ runner' = [runner EXCEPT ![r].checked = ok]

(* revoke_enrollment looks at the newest row only.                           *)
RevokeEnrollment(r) ==
    LET last == Len(enrollment[r]) IN
    /\ last > 0
    /\ enrollment[r][last] = "pending"
    /\ runner[r].admin # "revoked"
    /\ enrollment' = [enrollment EXCEPT ![r][last] = "revoked"]
    /\ UNCHANGED <<runner, credential>>

Reenrollable(r) ==
    /\ runner[r].admin \in {"pending", "disabled"}
    /\ runner[r].current = NoTask
    /\ ~Has(enrollment[r], "claimed")
    /\ ~Has(credential[r], "active")

RegenerateEnrollment(r) ==
    /\ Reenrollable(r)
    /\ Len(enrollment[r]) < MaxEnrollments
    /\ enrollment' = [enrollment EXCEPT ![r] =
                        Append(Turn(@, {"pending", "expired"}, "revoked"), "pending")]
    /\ UNCHANGED <<runner, credential>>

-----------------------------------------------------------------------------
(* Administration.                                                           *)

(* Mutant: a Runner is enabled without looking at its self check.            *)
EnableUnchecked(r) ==
    /\ runner[r].admin \in {"pending", "disabled"}
    /\ runner' = [runner EXCEPT ![r].admin = "enabled"]
    /\ UNCHANGED <<enrollment, credential>>

(* update_runner with admin_state "enabled"                                  *)
EnableRunner(r) ==
    /\ runner[r].admin \in {"pending", "disabled"}
    /\ runner[r].checked
    /\ runner' = [runner EXCEPT ![r].admin = "enabled"]
    /\ UNCHANGED <<enrollment, credential>>

(* update_runner with admin_state "disabled": the current admin_state is not *)
(* looked at.                                                                *)
DisableRunner(r) ==
    /\ runner[r].admin # "absent"
    /\ runner[r].current = NoTask
    /\ runner[r].work # "recovery_required"
    /\ runner' = [runner EXCEPT ![r].admin = "disabled"]
    /\ UNCHANGED <<enrollment, credential>>

Drain(r) ==
    /\ runner[r].admin = "enabled"
    /\ runner' = [runner EXCEPT ![r].admin =
                    IF runner[r].current # NoTask THEN "draining" ELSE "disabled"]
    /\ UNCHANGED <<enrollment, credential>>

(* Mutant: rotate_credential forgets to revoke the credential it replaces.   *)
RotateKeepingOld(r) ==
    /\ runner[r].admin # "revoked"
    /\ Has(credential[r], "active")
    /\ Len(credential[r]) < MaxCredentials
    /\ credential' = [credential EXCEPT ![r] = Append(@, "active")]
    /\ UNCHANGED <<runner, enrollment>>

RotateCredential(r) ==
    /\ runner[r].admin # "revoked"
    /\ Has(credential[r], "active")
    /\ Len(credential[r]) < MaxCredentials
    /\ credential' = [credential EXCEPT ![r] =
                        Append(Turn(@, {"active"}, "revoked"), "active")]
    /\ UNCHANGED <<runner, enrollment>>

DeleteRunner(r) ==
    /\ runner[r].admin = "disabled"
    /\ runner[r].current = NoTask
    /\ runner[r].work = "idle"
    /\ credential' = [credential EXCEPT ![r] = Turn(@, {"active"}, "revoked")]
    /\ runner' = [runner EXCEPT ![r].admin = "revoked", ![r].archived = TRUE]
    /\ UNCHANGED enrollment

(* the last heartbeat grows older: runner_online_seconds, then               *)
(* runner_offline_seconds, have gone by                                      *)
LinkAges(r) ==
    /\ runner[r].link # "offline"
    /\ runner' = [runner EXCEPT ![r].link =
                    IF @ = "online" THEN "stale" ELSE "offline"]
    /\ UNCHANGED <<enrollment, credential>>

RegistryStep ==
    \E r \in Runners :
        \/ CreateEnrollment(r)
        \/ EnrollmentExpires(r)
        \/ \E i \in DOMAIN enrollment[r], ok \in BOOLEAN : RedeemEnrollment(r, i, ok)
        \/ RevokeEnrollment(r)
        \/ RegenerateEnrollment(r)
        \/ RotateCredential(r)
        \/ DeleteRunner(r)

AdminStep ==
    \E r \in Runners :
        \/ EnableRunner(r)
        \/ DisableRunner(r)
        \/ Drain(r)
        \/ LinkAges(r)

=============================================================================
