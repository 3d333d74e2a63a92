------------------------- MODULE RunnerCenterProofs -------------------------
(* Theorems about the Runner Center, for any sets of Runners and tasks, any   *)
(* bounds and any number of concurrent handlers.                              *)
EXTENDS RunnerCenter, TLAPS, SequenceTheorems

----------------------------------------------------------------------------
(* The registry: rows, and the sequences of enrollments and credentials.      *)

LEMMA TurnType ==
  ASSUME NEW S, NEW s \in Seq(S), NEW from, NEW to \in S
  PROVE  /\ Turn(s, from, to) \in Seq(S)
         /\ DOMAIN Turn(s, from, to) = DOMAIN s
         /\ \A i \in DOMAIN s : Turn(s, from, to)[i] = IF s[i] \in from THEN to ELSE s[i]
<1>1. Len(s) \in Nat /\ DOMAIN s = 1 .. Len(s)
  OBVIOUS
<1>2. \A i \in 1 .. Len(s) : (IF s[i] \in from THEN to ELSE s[i]) \in S
  BY <1>1
<1> QED BY <1>1, <1>2, IsASeq DEF Turn

LEMMA RegistryInitType == RegistryInit => RegistryTypeOK
  BY NoTaskAssumption DEF RegistryInit, RegistryTypeOK, RunnerRow, NewRow, AdminStates,
     WorkStates, Links

LEMMA RegistryStepType == RegistryTypeOK /\ RegistryStep => RegistryTypeOK'
<1> SUFFICES ASSUME RegistryTypeOK, NEW r \in Runners,
                    \/ CreateEnrollment(r)
                    \/ EnrollmentExpires(r)
                    \/ \E i \in DOMAIN enrollment[r], ok \in BOOLEAN :
                          RedeemEnrollment(r, i, ok)
                    \/ RevokeEnrollment(r)
                    \/ RegenerateEnrollment(r)
                    \/ RotateCredential(r)
                    \/ DeleteRunner(r)
             PROVE  RegistryTypeOK'
  BY DEF RegistryStep
<1>1. /\ enrollment[r] \in Seq(EnrollmentStates)
      /\ credential[r] \in Seq(CredentialStates)
      /\ runner[r] \in RunnerRow
  BY DEF RegistryTypeOK
<1> DEFINE Turned == Turn(credential[r], {"active"}, "revoked")
<1>2. Turned \in Seq(CredentialStates)
  BY <1>1, TurnType DEF CredentialStates
<1>3. CASE CreateEnrollment(r)
  <2>1. <<"pending">> \in Seq(EnrollmentStates)
    BY DEF EnrollmentStates
  <2> QED BY <1>3, <2>1 DEF CreateEnrollment, RegistryTypeOK, RunnerRow, NewRow, AdminStates,
              WorkStates, Links
<1>4. CASE EnrollmentExpires(r)
  <2> PICK i \in DOMAIN enrollment[r] :
         /\ enrollment' = [enrollment EXCEPT ![r][i] = "expired"]
         /\ UNCHANGED <<runner, credential>>
    BY <1>4 DEF EnrollmentExpires
  <2>1. [enrollment[r] EXCEPT ![i] = "expired"] \in Seq(EnrollmentStates)
    BY <1>1 DEF EnrollmentStates
  <2> QED BY <2>1 DEF RegistryTypeOK
<1>5. ASSUME NEW i \in DOMAIN enrollment[r], NEW ok \in BOOLEAN, RedeemEnrollment(r, i, ok)
      PROVE  RegistryTypeOK'
  <2>1. [enrollment[r] EXCEPT ![i] = "claimed"] \in Seq(EnrollmentStates)
    BY <1>1 DEF EnrollmentStates
  <2>2. Append(credential[r], "active") \in Seq(CredentialStates)
    BY <1>1 DEF CredentialStates
  <2>3. [runner[r] EXCEPT !.checked = ok] \in RunnerRow
    BY <1>1 DEF RunnerRow
  <2> QED BY <1>5, <2>1, <2>2, <2>3 DEF RedeemEnrollment, RegistryTypeOK
<1>6. CASE RevokeEnrollment(r)
  <2> DEFINE last == Len(enrollment[r])
  <2>1. last \in DOMAIN enrollment[r]
    BY <1>1, <1>6 DEF RevokeEnrollment
  <2>2. [enrollment[r] EXCEPT ![last] = "revoked"] \in Seq(EnrollmentStates)
    BY <1>1, <2>1 DEF EnrollmentStates
  <2>3. /\ enrollment' = [enrollment EXCEPT ![r][last] = "revoked"]
        /\ UNCHANGED <<runner, credential>>
    BY <1>6 DEF RevokeEnrollment
  <2> QED BY <2>2, <2>3 DEF RegistryTypeOK
<1>7. CASE RegenerateEnrollment(r)
  <2>1. Turn(enrollment[r], {"pending", "expired"}, "revoked") \in Seq(EnrollmentStates)
    BY <1>1, TurnType DEF EnrollmentStates
  <2>2. Append(Turn(enrollment[r], {"pending", "expired"}, "revoked"), "pending")
           \in Seq(EnrollmentStates)
    BY <2>1 DEF EnrollmentStates
  <2> QED BY <1>7, <2>2 DEF RegenerateEnrollment, RegistryTypeOK
<1>8. CASE RotateCredential(r)
  <2>1. Append(Turned, "active") \in Seq(CredentialStates)
    BY <1>2 DEF CredentialStates
  <2> QED BY <1>8, <2>1 DEF RotateCredential, RegistryTypeOK
<1>9. CASE DeleteRunner(r)
  BY <1>1, <1>2, <1>9 DEF DeleteRunner, RegistryTypeOK, RunnerRow, AdminStates
<1> QED BY <1>3, <1>4, <1>5, <1>6, <1>7, <1>8, <1>9

LEMMA AdminStepType == RegistryTypeOK /\ AdminStep => RegistryTypeOK'
<1> SUFFICES ASSUME RegistryTypeOK, NEW r \in Runners,
                    EnableRunner(r) \/ DisableRunner(r) \/ Drain(r) \/ LinkAges(r)
             PROVE  RegistryTypeOK'
  BY DEF AdminStep
<1>1. runner[r] \in RunnerRow
  BY DEF RegistryTypeOK
<1>2. CASE EnableRunner(r)
  BY <1>1, <1>2 DEF EnableRunner, RegistryTypeOK, RunnerRow, AdminStates
<1>3. CASE DisableRunner(r)
  BY <1>1, <1>3 DEF DisableRunner, RegistryTypeOK, RunnerRow, AdminStates
<1>4. CASE Drain(r)
  BY <1>1, <1>4 DEF Drain, RegistryTypeOK, RunnerRow, AdminStates
<1>5. CASE LinkAges(r)
  BY <1>1, <1>5 DEF LinkAges, RegistryTypeOK, RunnerRow, Links
<1> QED BY <1>2, <1>3, <1>4, <1>5

----------------------------------------------------------------------------
(* What the shared updates return.                                            *)

LEMMA UnassignedRow ==
  ASSUME NEW row \in TaskRow, NEW state \in TaskStates
  PROVE  /\ Unassigned(row, state) \in TaskRow
         /\ Unassigned(row, state).state = state
         /\ Unassigned(row, state).owner = NoRunner
         /\ Unassigned(row, state).epoch = row.epoch
         /\ Unassigned(row, state).ran = row.ran
  BY DEF Unassigned, TaskRow

LEMMA FreedRow ==
  ASSUME NEW row \in RunnerRow
  PROVE  /\ Freed(row) \in RunnerRow /\ Freed(row).current = NoTask
         /\ Freed(row).admin = row.admin /\ Freed(row).checked = row.checked
  BY DEF Freed, RunnerRow, WorkStates

LEMMA UndrainedRow ==
  ASSUME NEW row \in RunnerRow
  PROVE  /\ Undrained(row) \in RunnerRow /\ Undrained(row).current = row.current
         /\ Undrained(row).checked = row.checked
         /\ Undrained(row).admin \in {row.admin, "disabled"}
         /\ row.admin # "draining" => Undrained(row).admin = row.admin
  BY DEF Undrained, RunnerRow, AdminStates

LEMMA ReleasedLease ==
  ASSUME TasksTypeOK, NEW t \in Tasks, NEW how \in {"released", "expired"}
  PROVE  /\ Released(t, how) \in [Tasks -> [Epochs -> LeaseStates]]
         /\ \A e \in Epochs : Released(t, how)[t][e] # "active"
         /\ \A u \in Tasks \ {t} : Released(t, how)[u] = lease[u]
  BY DEF Released, TasksTypeOK, LeaseStates

----------------------------------------------------------------------------
(* Type correctness of the task operations.                                   *)

LEMMA TasksInitType == TasksInit => TasksTypeOK
  BY BoundsAssumption DEF TasksInit, TasksTypeOK, TaskRow, LeaseStates, TaskStates, Epochs

AssignedHasEpoch ==
    \A t \in Tasks : task[t].owner # NoRunner => task[t].epoch \in Epochs

LEMMA OwnerStepType == TypeOK /\ AssignedHasEpoch /\ OwnerStep => TypeOK'
<1> SUFFICES ASSUME TypeOK, AssignedHasEpoch, NEW t \in Tasks,
                    \/ CreateWorkTask(t) \/ CancelAtOnce(t) \/ RequestCancel(t)
                    \/ Continue(t)
                    \/ \E delivered \in BOOLEAN : PublishControl(t, delivered)
             PROVE  TypeOK'
  BY DEF OwnerStep
<1>1. task[t] \in TaskRow
  BY DEF TypeOK, TasksTypeOK
<1>2. CASE CreateWorkTask(t)
  <2>1. [task[t] EXCEPT !.state = "waiting_runner"] \in TaskRow
    BY <1>1 DEF TaskRow, TaskStates
  <2> QED BY <1>2, <2>1 DEF CreateWorkTask, TypeOK, TasksTypeOK, RegistryTypeOK,
              registryVars, threadVars, agentVars
<1>3. CASE CancelAtOnce(t)
  <2>1. /\ Unassigned(task[t], "cancelled") \in TaskRow
        /\ [task[t] EXCEPT !.state = "cancelled", !.lost = FALSE] \in TaskRow
    BY <1>1, UnassignedRow DEF TaskRow, TaskStates, Terminal
  <2>2. Released(t, "released") \in [Tasks -> [Epochs -> LeaseStates]]
    BY ReleasedLease DEF TypeOK
  <2> QED BY <1>3, <2>1, <2>2 DEF CancelAtOnce, TypeOK, TasksTypeOK, RegistryTypeOK,
              registryVars, threadVars, agentVars
<1>4. CASE RequestCancel(t)
  <2>1. [task[t] EXCEPT !.lost = FALSE] \in TaskRow
    BY <1>1 DEF TaskRow
  <2> QED BY <1>4, <2>1 DEF RequestCancel, TypeOK, TasksTypeOK, RegistryTypeOK,
              registryVars, threadVars, agentVars
<1>5. CASE Continue(t)
  <2> DEFINE r == task[t].owner
  <2>1. r \in Runners /\ runner[r] \in RunnerRow
    BY <1>1, <1>5 DEF Continue, TaskRow, TypeOK, RegistryTypeOK
  <2>2. [task[t] EXCEPT !.state = "dispatched", !.lapsed = FALSE, !.overdue = FALSE,
                        !.lost = FALSE] \in TaskRow
    BY <1>1 DEF TaskRow, TaskStates, Active
  <2>3. [runner[r] EXCEPT !.work = "busy", !.current = t] \in RunnerRow
    BY <2>1 DEF RunnerRow, WorkStates
  <2>4. [lease[t] EXCEPT ![task[t].epoch] = "active"] \in [Epochs -> LeaseStates]
    BY DEF TypeOK, TasksTypeOK, LeaseStates
  <2>5. lease' \in [Tasks -> [Epochs -> LeaseStates]]
    BY <1>5, <2>4 DEF Continue, TypeOK, TasksTypeOK
  <2>6. task' \in [Tasks -> TaskRow]
    BY <1>5, <2>2 DEF Continue, TypeOK, TasksTypeOK
  <2>7. runner' \in [Runners -> RunnerRow]
    BY <1>5, <2>1, <2>3 DEF Continue, TypeOK, RegistryTypeOK
  <2> QED BY <1>5, <2>5, <2>6, <2>7 DEF Continue, TypeOK, TasksTypeOK, RegistryTypeOK,
              agentVars
<1>6. ASSUME NEW delivered \in BOOLEAN, PublishControl(t, delivered) PROVE TypeOK'
  <2>1. CASE working' = working
    BY <1>6, <2>1 DEF PublishControl, TypeOK, TasksTypeOK, RegistryTypeOK, registryVars
  <2>2. CASE task[t].owner # NoRunner
             /\ working' = [working EXCEPT ![task[t].owner] =
                              @ \cup {[task |-> t, epoch |-> task[t].epoch]}]
    <3>1. /\ task[t].owner \in Runners
          /\ [task |-> t, epoch |-> task[t].epoch] \in Assignment
      BY <1>1, <2>2 DEF TaskRow, Assignment, AssignedHasEpoch
    <3>2. working' \in [Runners -> SUBSET Assignment]
      BY <2>2, <3>1 DEF TypeOK, TasksTypeOK
    <3> QED BY <1>6, <3>2 DEF PublishControl, TypeOK, TasksTypeOK, RegistryTypeOK,
                registryVars
  <2> QED BY <1>6, <2>1, <2>2 DEF PublishControl
<1> QED BY <1>2, <1>3, <1>4, <1>5, <1>6

LEMMA DispatchStepType == TypeOK /\ DispatchStep => TypeOK'
<1>1. ASSUME TypeOK, NEW t \in Waiting, NEW r \in Runners, NEW passed \in SUBSET Overdue,
             ClaimNext(t, r, passed)
      PROVE  TypeOK'
  <2> DEFINE e == task[t].epoch + 1
  <2>1. t \in Tasks /\ task[t] \in TaskRow /\ e \in Epochs
    BY <1>1 DEF Waiting, TypeOK, TasksTypeOK, ClaimNext
  <2>2. [task[t] EXCEPT !.state = "leased", !.owner = r, !.epoch = e, !.sequence = 1,
                        !.lapsed = FALSE] \in TaskRow
    <3>1. 1 \in 0 .. MaxSequence /\ e \in 0 .. MaxEpoch
      BY <2>1, BoundsAssumption DEF Epochs
    <3> QED BY <2>1, <3>1 DEF TaskRow, TaskStates, Active
  <2>3. \A u \in Tasks : [task[u] EXCEPT !.state = "expired"] \in TaskRow
    BY <1>1 DEF TypeOK, TasksTypeOK, TaskRow, TaskStates, Terminal
  <2>4. task' \in [Tasks -> TaskRow]
    BY <1>1, <2>2, <2>3 DEF ClaimNext, TypeOK, TasksTypeOK
  <2>5. lease' \in [Tasks -> [Epochs -> LeaseStates]]
    BY <1>1, <2>1 DEF ClaimNext, TypeOK, TasksTypeOK, LeaseStates
  <2>6. [runner[r] EXCEPT !.work = "busy", !.current = t] \in RunnerRow
    BY <1>1, <2>1 DEF RunnerRow, WorkStates, TypeOK, RegistryTypeOK
  <2>7. runner' \in [Runners -> RunnerRow]
    BY <1>1, <2>6 DEF ClaimNext, TypeOK, RegistryTypeOK
  <2>8. [task |-> t, runner |-> r, epoch |-> e, marked |-> FALSE] \in Dispatch
    BY <1>1, <2>1 DEF Dispatch
  <2>9. dispatching' \subseteq Dispatch
    BY <1>1, <2>8 DEF ClaimNext, TypeOK, TasksTypeOK
  <2> QED BY <1>1, <2>4, <2>5, <2>7, <2>9 DEF ClaimNext, TypeOK, TasksTypeOK, RegistryTypeOK,
              agentVars
<1>2. ASSUME TypeOK, NEW d \in dispatching, MarkDispatched(d) PROVE TypeOK'
  <2>1. d \in Dispatch /\ [d EXCEPT !.marked = TRUE] \in Dispatch /\ d.task \in Tasks
    BY <1>2 DEF TypeOK, TasksTypeOK, Dispatch
  <2> DEFINE row == task[d.task]
  <2>2. row \in TaskRow
    BY <1>2, <2>1 DEF TypeOK, TasksTypeOK
  <2>3. [row EXCEPT !.state = "dispatched", !.lost = FALSE] \in TaskRow
    BY <2>2 DEF TaskRow, TaskStates, Active
  <2>4. task' \in [Tasks -> TaskRow]
    BY <1>2, <2>1, <2>3 DEF MarkDispatched, TypeOK, TasksTypeOK
  <2>5. dispatching' \subseteq Dispatch
    BY <1>2, <2>1 DEF MarkDispatched, TypeOK, TasksTypeOK
  <2> QED BY <1>2, <2>4, <2>5 DEF MarkDispatched, TypeOK, TasksTypeOK, RegistryTypeOK,
              registryVars, agentVars
<1>3. ASSUME TypeOK, NEW d \in dispatching, NEW delivered \in BOOLEAN,
             PublishRequest(d, delivered)
      PROVE  TypeOK'
  <2>1. d.runner \in Runners /\ [task |-> d.task, epoch |-> d.epoch] \in Assignment
    BY <1>3 DEF TypeOK, TasksTypeOK, Dispatch, Assignment
  <2>2. working' \in [Runners -> SUBSET Assignment]
    BY <1>3, <2>1 DEF PublishRequest, TypeOK, TasksTypeOK
  <2> QED BY <1>3, <2>2 DEF PublishRequest, TypeOK, TasksTypeOK, RegistryTypeOK, registryVars
<1>4. ASSUME TypeOK, NEW d \in dispatching, RescheduleUndelivered(d) PROVE TypeOK'
  <2>1. /\ d.task \in Tasks /\ d.runner \in Runners /\ d.epoch \in Epochs
        /\ task[d.task] \in TaskRow /\ runner[d.runner] \in RunnerRow
    BY <1>4 DEF TypeOK, TasksTypeOK, RegistryTypeOK, Dispatch
  <2>2. Unassigned(task[d.task], "waiting_runner") \in TaskRow
    BY <2>1, UnassignedRow DEF TaskStates
  <2>3. [Freed(runner[d.runner]) EXCEPT !.link = "offline"] \in RunnerRow
    BY <2>1, FreedRow DEF RunnerRow, Links
  <2>4. task' \in [Tasks -> TaskRow]
    BY <1>4, <2>1, <2>2 DEF RescheduleUndelivered, TypeOK, TasksTypeOK
  <2>5. runner' \in [Runners -> RunnerRow]
    BY <1>4, <2>1, <2>3 DEF RescheduleUndelivered, TypeOK, RegistryTypeOK
  <2>6. lease' \in [Tasks -> [Epochs -> LeaseStates]]
    BY <1>4, <2>1 DEF RescheduleUndelivered, TypeOK, TasksTypeOK, LeaseStates
  <2> QED BY <1>4, <2>4, <2>5, <2>6 DEF RescheduleUndelivered, TypeOK, TasksTypeOK,
              RegistryTypeOK, agentVars
<1> QED BY <1>1, <1>2, <1>3, <1>4 DEF DispatchStep

LEMMA AgentStepType == TypeOK /\ AgentStep => TypeOK'
<1>1. ASSUME TypeOK, NEW r \in Runners, NEW report \in HeartbeatReports,
             NEW a \in working[r] \cup {NoTask}, Heartbeat(r, a, report)
      PROVE  TypeOK'
  <2>1. runner[r] \in RunnerRow
    BY <1>1 DEF TypeOK, RegistryTypeOK
  <2>2. report \in [work: WorkStates, online: BOOLEAN, checked: BOOLEAN]
    BY <1>1, ReportsAssumption
  <2> DEFINE link == IF report.online THEN "online" ELSE "offline"
             work == IF runner[r].current # NoTask /\ report.work = "idle"
                     THEN runner[r].work ELSE report.work
  <2>3. [runner[r] EXCEPT !.link = link, !.checked = report.checked, !.work = work]
           \in RunnerRow
    BY <2>1, <2>2 DEF RunnerRow, Links
  <2>4. runner' = [runner EXCEPT ![r] = [runner[r] EXCEPT !.link = link,
                                   !.checked = report.checked, !.work = work]]
    BY <1>1, <2>1 DEF Heartbeat, TypeOK, RegistryTypeOK
  <2>5. runner' \in [Runners -> RunnerRow]
    BY <2>3, <2>4, <1>1 DEF TypeOK, RegistryTypeOK
  <2>6. task' \in [Tasks -> TaskRow]
    <3>1. CASE UNCHANGED task
      BY <1>1, <3>1 DEF TypeOK, TasksTypeOK
    <3>2. CASE a # NoTask /\ task' = [task EXCEPT ![a.task].lapsed = FALSE]
      <4>1. a.task \in Tasks /\ task[a.task] \in TaskRow
        BY <1>1, <3>2 DEF TypeOK, TasksTypeOK, Assignment
      <4>2. [task[a.task] EXCEPT !.lapsed = FALSE] \in TaskRow
        BY <4>1 DEF TaskRow
      <4> QED BY <1>1, <3>2, <4>1, <4>2 DEF TypeOK, TasksTypeOK
    <3> QED BY <1>1, <3>1, <3>2 DEF Heartbeat
  <2> QED BY <1>1, <2>5, <2>6 DEF Heartbeat, TypeOK, TasksTypeOK, RegistryTypeOK,
              threadVars, agentVars
<1>2. ASSUME TypeOK, NEW r \in Runners, NEW n \in Sequences, NEW a \in working[r],
             NEW kind \in {"status", "result"},
             NEW state \in IF kind = "status" THEN StatusReports ELSE ResultReports,
             Report(r, a, kind, state, n)
      PROVE  TypeOK'
  <2> DEFINE m == [kind |-> kind, runner |-> r, task |-> a.task, epoch |-> a.epoch,
                   sequence |-> n, state |-> state]
  <2>1. a.task \in Tasks /\ a.epoch \in Epochs
    BY <1>2 DEF TypeOK, TasksTypeOK, Assignment
  <2>2. m \in Message
    BY <1>2, <2>1 DEF Message
  <2>3. sent' \subseteq Message /\ arrived' \subseteq Message
    BY <1>2, <2>2 DEF Report, TypeOK, TasksTypeOK
  <2>4. working' \in [Runners -> SUBSET Assignment]
    BY <1>2 DEF Report, TypeOK, TasksTypeOK
  <2> QED BY <1>2, <2>3, <2>4 DEF Report, TypeOK, TasksTypeOK, RegistryTypeOK, registryVars
<1>3. ASSUME TypeOK, NEW m \in sent, Resend(m) PROVE TypeOK'
  BY <1>3 DEF Resend, TypeOK, TasksTypeOK, RegistryTypeOK, registryVars, agentVars
<1> QED
  <2> SUFFICES ASSUME TypeOK, AgentStep PROVE TypeOK'
    OBVIOUS
  <2>1. CASE \E r \in Runners, report \in HeartbeatReports :
               \E a \in working[r] \cup {NoTask} : Heartbeat(r, a, report)
    BY <1>1, <2>1
  <2>2. CASE \E r \in Runners, n \in Sequences : \E a \in working[r] :
               \/ \E state \in StatusReports : Report(r, a, "status", state, n)
               \/ \E state \in ResultReports : Report(r, a, "result", state, n)
    BY <1>2, <2>2
  <2>3. CASE \E m \in sent : Resend(m)
    BY <1>3, <2>3
  <2> QED BY <2>1, <2>2, <2>3 DEF AgentStep

(* What a message says, seen from the task it is about.                       *)
LEMMA MessageShape ==
  ASSUME NEW m \in Message
  PROVE  /\ m.runner \in Runners /\ m.task \in Tasks /\ m.epoch \in Epochs
         /\ m.sequence \in Sequences /\ m.kind \in {"status", "result"}
         /\ m.state \in TaskStates \ {"absent", "waiting_runner"}
         /\ m.kind = "status" => m.state # "completed"
  BY StatusAssumption, ResultAssumption DEF Message, TaskStates, Terminal, Active

LEMMA MessageStepType == TypeOK /\ MessageStep => TypeOK'
<1>1. ASSUME TypeOK, NEW m \in arrived, RecordMessage(m) PROVE TypeOK'
  BY <1>1 DEF RecordMessage, TypeOK, TasksTypeOK, RegistryTypeOK, registryVars, agentVars
<1>2. ASSUME TypeOK, NEW m \in applying PROVE
         /\ m.runner \in Runners /\ m.task \in Tasks /\ m.epoch \in Epochs
         /\ runner[m.runner] \in RunnerRow /\ task[m.task] \in TaskRow
         /\ m.state \in TaskStates /\ m.sequence \in 0 .. MaxSequence
  <2>1. m \in Message
    BY <1>2 DEF TypeOK, TasksTypeOK
  <2>2. Sequences \subseteq 0 .. MaxSequence
    BY BoundsAssumption DEF Sequences
  <2> QED BY <1>2, <2>1, <2>2, MessageShape DEF TypeOK, TasksTypeOK, RegistryTypeOK
<1>3. ASSUME TypeOK, NEW m \in applying, ApplyStatus(m) PROVE TypeOK'
  <2> DEFINE row == task[m.task]
  <2>1. [row EXCEPT !.state = m.state, !.ran = @ \/ m.state = "running",
                    !.sequence = m.sequence, !.lost = FALSE] \in TaskRow
    BY <1>2, <1>3 DEF TaskRow
  <2>2. task' \in [Tasks -> TaskRow]
    BY <1>2, <1>3, <2>1 DEF ApplyStatus, TypeOK, TasksTypeOK
  <2>3. [runner[m.runner] EXCEPT !.work = "recovery_required", !.current = m.task]
           \in RunnerRow
    BY <1>2, <1>3 DEF RunnerRow, WorkStates
  <2>4. runner' \in [Runners -> RunnerRow]
    BY <1>2, <1>3, <2>3 DEF ApplyStatus, TypeOK, RegistryTypeOK
  <2> QED BY <1>3, <2>2, <2>4 DEF ApplyStatus, TypeOK, TasksTypeOK, RegistryTypeOK, agentVars
<1>4. ASSUME TypeOK, NEW m \in applying, ApplyResult(m) PROVE TypeOK'
  <2> DEFINE row == task[m.task]
  <2>1. [row EXCEPT !.state = m.state, !.sequence = m.sequence, !.lost = FALSE] \in TaskRow
    BY <1>2, <1>4 DEF TaskRow
  <2>2. task' \in [Tasks -> TaskRow]
    BY <1>2, <1>4, <2>1 DEF ApplyResult, TypeOK, TasksTypeOK
  <2>3. Undrained(Freed(runner[m.runner])) \in RunnerRow
    BY <1>2, <1>4, FreedRow, UndrainedRow
  <2>4. [Undrained(runner[m.runner]) EXCEPT !.work = "recovery_required",
                                            !.current = m.task] \in RunnerRow
    <3> DEFINE u == Undrained(runner[m.runner])
    <3>1. u \in RunnerRow /\ m.task \in Tasks
      BY <1>2, <1>4, UndrainedRow
    <3> HIDE DEF u
    <3>2. [u EXCEPT !.work = "recovery_required", !.current = m.task] \in RunnerRow
      BY <3>1 DEF RunnerRow, WorkStates
    <3> QED BY <3>2 DEF u
  <2>5. runner' \in [Runners -> RunnerRow]
    BY <1>2, <1>4, <2>3, <2>4 DEF ApplyResult, TypeOK, RegistryTypeOK
  <2>6. lease' \in [Tasks -> [Epochs -> LeaseStates]]
    <3> DEFINE l == lease[m.task]
    <3>1. l \in [Epochs -> LeaseStates]
      BY <1>2, <1>4 DEF TypeOK, TasksTypeOK
    <3>2. [l EXCEPT ![m.epoch] = IF @ = "active" THEN "released" ELSE @]
             \in [Epochs -> LeaseStates]
      BY <1>2, <1>4, <3>1 DEF LeaseStates
    <3>3. lease' = lease \/ lease' = [lease EXCEPT ![m.task] =
                      [l EXCEPT ![m.epoch] = IF @ = "active" THEN "released" ELSE @]]
      BY <1>2, <1>4, <3>1 DEF ApplyResult, TypeOK, TasksTypeOK
    <3> QED BY <1>2, <1>4, <3>2, <3>3 DEF TypeOK, TasksTypeOK
  <2> QED BY <1>4, <2>2, <2>5, <2>6 DEF ApplyResult, TypeOK, TasksTypeOK, RegistryTypeOK,
              agentVars
<1> QED BY <1>1, <1>3, <1>4 DEF MessageStep

LEMMA RecoveryStepType == TypeOK /\ RecoveryStep => TypeOK'
<1> SUFFICES ASSUME TypeOK, RecoveryStep PROVE TypeOK'
  OBVIOUS
<1>1. \A t \in Tasks : /\ task[t] \in TaskRow
                       /\ Released(t, "released") \in [Tasks -> [Epochs -> LeaseStates]]
                       /\ Released(t, "expired")[t] \in [Epochs -> LeaseStates]
  BY ReleasedLease DEF TypeOK, TasksTypeOK
<1>2. \A r \in Runners : runner[r] \in RunnerRow
  BY DEF TypeOK, RegistryTypeOK
<1>3. ASSUME NEW r \in Runners, EmergencyDisable(r) PROVE TypeOK'
  <2> DEFINE t == runner[r].current
  <2>1. t = NoTask \/ t \in Tasks
    BY <1>2 DEF RunnerRow
  <2>2. CASE t = NoTask
    <3>1. [runner[r] EXCEPT !.admin = "disabled"] \in RunnerRow
      BY <1>2 DEF RunnerRow, AdminStates
    <3> QED BY <1>3, <2>2, <3>1 DEF EmergencyDisable, TypeOK, TasksTypeOK, RegistryTypeOK,
                threadVars, agentVars
  <2>3. CASE t # NoTask /\ task[t].ran
    <3>1. /\ task' = [task EXCEPT ![t].state = "recovery_required", ![t].lost = FALSE]
          /\ runner' = [runner EXCEPT ![r].admin = "disabled",
                                      ![r].work = "recovery_required"]
          /\ UNCHANGED <<lease, enrollment, credential, messages, threadVars, agentVars>>
      BY <1>3, <2>3 DEF EmergencyDisable
    <3>2. t \in Tasks /\ task[t] \in TaskRow
      BY <1>1, <2>1, <2>3
    <3> HIDE DEF t
    <3>3. task' \in [Tasks -> TaskRow]
      BY <3>1, <3>2 DEF TypeOK, TasksTypeOK, TaskRow, TaskStates
    <3>4. runner' \in [Runners -> RunnerRow]
      BY <1>2, <3>1 DEF TypeOK, RegistryTypeOK, RunnerRow, AdminStates, WorkStates
    <3> QED BY <3>1, <3>3, <3>4 DEF TypeOK, TasksTypeOK, RegistryTypeOK, threadVars, agentVars
  <2>4. CASE t # NoTask /\ ~task[t].ran
    <3>1. Unassigned(task[t], "cancelled") \in TaskRow
      BY <1>1, <2>1, <2>4, UnassignedRow DEF TaskStates, Terminal
    <3>2. [Freed(runner[r]) EXCEPT !.admin = "disabled"] \in RunnerRow
      BY <1>2, FreedRow DEF RunnerRow, AdminStates
    <3>3. /\ task' = [task EXCEPT ![t] = Unassigned(@, "cancelled")]
          /\ lease' = Released(t, "released")
          /\ runner' = [runner EXCEPT ![r] = [Freed(@) EXCEPT !.admin = "disabled"]]
          /\ UNCHANGED <<enrollment, credential, messages, threadVars, agentVars>>
      BY <1>3, <2>4 DEF EmergencyDisable
    <3>4. t \in Tasks
      BY <2>1, <2>4
    <3> HIDE DEF t
    <3>5. task' \in [Tasks -> TaskRow] /\ runner' \in [Runners -> RunnerRow]
      BY <3>1, <3>2, <3>3, <3>4 DEF TypeOK, TasksTypeOK, RegistryTypeOK
    <3>6. lease' \in [Tasks -> [Epochs -> LeaseStates]]
      BY <1>1, <3>3, <3>4
    <3> QED BY <3>3, <3>5, <3>6 DEF TypeOK, TasksTypeOK, RegistryTypeOK, threadVars, agentVars
  <2> QED BY <2>2, <2>3, <2>4
<1>4. ASSUME NEW r \in Runners, NEW t \in Tasks, ResolveTaskRecovery(r, t) PROVE TypeOK'
  <2>1. [task[t] EXCEPT !.state = "failed", !.lost = FALSE] \in TaskRow
    BY <1>1 DEF TaskRow, TaskStates, Terminal
  <2>2. Undrained(Freed(runner[r])) \in RunnerRow
    BY <1>2, FreedRow, UndrainedRow
  <2> QED BY <1>1, <1>4, <2>1, <2>2 DEF ResolveTaskRecovery, TypeOK, TasksTypeOK,
              RegistryTypeOK, threadVars, agentVars
<1>5. CASE Sweep
  <2> PICK last \in [Runners -> Tasks \cup {NoTask}] :
         /\ task' = [t \in Tasks |-> SweptTask(t)]
         /\ lease' = [t \in Tasks |-> SweptLease(t)]
         /\ runner' = [r \in Runners |->
                         LET row == SweptRunner(r, last[r])
                         IN IF row.current = NoTask THEN Undrained(row) ELSE row]
         /\ UNCHANGED <<enrollment, credential, messages, threadVars, agentVars>>
    BY <1>5 DEF Sweep
  <2>1. \A t \in Tasks : SweptTask(t) \in TaskRow
    <3> TAKE t \in Tasks
    <3>1. Unassigned(task[t], "waiting_runner") \in TaskRow
      BY <1>1, UnassignedRow DEF TaskStates
    <3>2. /\ [task[t] EXCEPT !.state = "expired"] \in TaskRow
          /\ [task[t] EXCEPT !.state = "recovery_required", !.lost = TRUE] \in TaskRow
      BY <1>1 DEF TaskRow, TaskStates, Terminal
    <3> QED BY <1>1, <3>1, <3>2 DEF SweptTask
  <2>2. \A t \in Tasks : SweptLease(t) \in [Epochs -> LeaseStates]
    BY <1>1 DEF SweptLease, TypeOK, TasksTypeOK
  <2>3. \A r \in Runners : SweptRunner(r, last[r]) \in RunnerRow
    <3> TAKE r \in Runners
    <3>1. Freed(runner[r]) \in RunnerRow
      BY <1>2, FreedRow
    <3>2. ASSUME last[r] # NoTask
          PROVE  [runner[r] EXCEPT !.work = "recovery_required", !.current = last[r]]
                    \in RunnerRow
      <4>1. last[r] \in Tasks /\ runner[r] \in RunnerRow
        BY <1>2, <3>2
      <4> QED BY <4>1 DEF RunnerRow, WorkStates
    <3> QED BY <1>2, <3>1, <3>2 DEF SweptRunner
  <2>4. runner' \in [Runners -> RunnerRow]
    BY <2>3, UndrainedRow
  <2> QED BY <2>1, <2>2, <2>4 DEF TypeOK, TasksTypeOK, RegistryTypeOK, threadVars, agentVars
<1>6. ASSUME NEW t \in Tasks, LeaseLapses(t) \/ TaskOverdue(t) PROVE TypeOK'
  <2>1. /\ [task[t] EXCEPT !.lapsed = TRUE] \in TaskRow
        /\ [task[t] EXCEPT !.overdue = TRUE] \in TaskRow
    BY <1>1 DEF TaskRow
  <2> QED BY <1>6, <2>1 DEF LeaseLapses, TaskOverdue, TypeOK, TasksTypeOK, RegistryTypeOK,
              registryVars, threadVars, agentVars
<1>7. CASE Crash
  BY <1>7 DEF Crash, TypeOK, TasksTypeOK, RegistryTypeOK, registryVars, agentVars
<1> QED BY <1>3, <1>4, <1>5, <1>6, <1>7 DEF RecoveryStep

----------------------------------------------------------------------------
(* The inductive invariant.  ActiveLeaseIsCurrent, CurrentIsAssigned and      *)
(* OutcomeIsVouchedFor need three more facts: an assignment has an epoch, a   *)
(* task that waits or does not exist is nobody's and has never run, and a     *)
(* message is recorded before it is applied.                                  *)

UnstartedIsUnassigned ==
    \A t \in Tasks : task[t].state \in {"absent", "waiting_runner"}
                       => task[t].owner = NoRunner /\ ~task[t].ran

TaskInv == /\ TypeOK
           /\ AssignedHasEpoch
           /\ UnstartedIsUnassigned
           /\ ActiveLeaseIsCurrent
           /\ CurrentIsAssigned
           /\ applying \subseteq messages
           /\ OutcomeIsVouchedFor

(* What one step can do to one task and its leases: leave the assignment as   *)
(* it is, drop a task that has not run, or lease a waiting task.              *)
Keeps(t) ==
    /\ task'[t].owner = task[t].owner
    /\ task'[t].epoch = task[t].epoch
    /\ \/ task'[t].ran = task[t].ran
       \/ task[t].owner # NoRunner /\ Vouched(t, "status", "running")
    /\ task[t].ran => task'[t].ran
    /\ \/ task'[t].state = task[t].state
       \/ task'[t].state \notin {"absent", "waiting_runner"}
       \/ task[t].state = "absent" /\ task'[t].state = "waiting_runner"
    /\ task'[t].state = "completed" =>
          task[t].state = "completed" \/ Vouched(t, "result", "completed")
    /\ \A e \in Epochs : lease'[t][e] = "active" =>
          \/ lease[t][e] = "active"
          \/ task[t].owner # NoRunner /\ e = task[t].epoch

Drops(t) ==
    /\ ~task[t].ran /\ ~task'[t].ran
    /\ task'[t].owner = NoRunner
    /\ task'[t].state \in {"waiting_runner", "cancelled"}
    /\ \A e \in Epochs : lease'[t][e] # "active"

Leases(t) ==
    /\ task[t].state = "waiting_runner" /\ task'[t].state = "leased"
    /\ task'[t].ran = task[t].ran
    /\ task'[t].owner \in Runners
    /\ task'[t].epoch \in Epochs
    /\ \A e \in Epochs : lease'[t][e] = "active" => e = task'[t].epoch

Moves == \A t \in Tasks : Keeps(t) \/ Drops(t) \/ Leases(t)

LEMMA UntouchedIsKept ==
  ASSUME NEW t \in Tasks, task'[t] = task[t], lease'[t] = lease[t]
  PROVE  Keeps(t)
  BY DEF Keeps

LEMMA StaysIfRan ==
  ASSUME TaskInv, NEW t \in Tasks, task[t].owner = NoRunner
  PROVE  ~task[t].ran
<1> SUFFICES ASSUME task[t].ran PROVE FALSE
  OBVIOUS
<1>1. PICK m \in messages : m.runner = task[t].owner
  BY DEF TaskInv, OutcomeIsVouchedFor, Vouched
<1>2. m.runner \in Runners
  BY <1>1, MessageShape DEF TaskInv, TypeOK, TasksTypeOK
<1> QED BY <1>1, <1>2, NoRunnerAssumption

LEMMA OwnerStepMoves == TaskInv /\ OwnerStep => Moves
<1> SUFFICES ASSUME TaskInv, NEW t \in Tasks,
                    \/ CreateWorkTask(t) \/ CancelAtOnce(t) \/ RequestCancel(t)
                    \/ Continue(t)
                    \/ \E delivered \in BOOLEAN : PublishControl(t, delivered)
             PROVE  Moves
  BY DEF OwnerStep
<1>1. /\ task \in [Tasks -> TaskRow] /\ task[t] \in TaskRow
      /\ lease \in [Tasks -> [Epochs -> LeaseStates]]
  BY DEF TaskInv, TypeOK, TasksTypeOK
<1>2. CASE CreateWorkTask(t)
  BY <1>1, <1>2, UntouchedIsKept DEF CreateWorkTask, Moves, Keeps, TaskRow
<1>3. CASE CancelAtOnce(t)
  <2>1. CASE task' = [task EXCEPT ![t].state = "cancelled", ![t].lost = FALSE]
             /\ UNCHANGED lease
    BY <1>1, <2>1, UntouchedIsKept DEF Moves, Keeps, TaskRow
  <2>2. CASE /\ task[t].owner = NoRunner
             /\ task' = [task EXCEPT ![t] = Unassigned(@, "cancelled")]
             /\ lease' = Released(t, "released")
    <3>1. ~task[t].ran
      BY <2>2, StaysIfRan
    <3>2. Drops(t)
      BY <1>1, <2>2, <3>1, UnassignedRow, ReleasedLease
         DEF Drops, TaskStates, Terminal, TaskInv, TypeOK
    <3>3. \A u \in Tasks \ {t} : Keeps(u)
      BY <1>1, <2>2, ReleasedLease, UntouchedIsKept DEF TaskInv, TypeOK
    <3> QED BY <3>2, <3>3 DEF Moves
  <2> QED BY <1>3, <2>1, <2>2 DEF CancelAtOnce
<1>4. CASE RequestCancel(t)
  BY <1>1, <1>4, UntouchedIsKept DEF RequestCancel, Moves, Keeps, TaskRow
<1>5. CASE Continue(t)
  <2>1. /\ task[t].owner # NoRunner
        /\ task' = [task EXCEPT ![t].state = "dispatched", ![t].lapsed = FALSE,
                                ![t].overdue = FALSE, ![t].lost = FALSE]
        /\ lease' = [lease EXCEPT ![t][task[t].epoch] = "active"]
    BY <1>5 DEF Continue
  <2>2. Keeps(t)
    BY <1>1, <2>1 DEF Keeps, TaskRow
  <2>3. \A u \in Tasks \ {t} : Keeps(u)
    BY <1>1, <2>1, UntouchedIsKept
  <2> QED BY <2>2, <2>3 DEF Moves
<1>6. ASSUME NEW delivered \in BOOLEAN, PublishControl(t, delivered) PROVE Moves
  BY <1>6, UntouchedIsKept DEF PublishControl, Moves
<1> QED BY <1>2, <1>3, <1>4, <1>5, <1>6

LEMMA DispatchStepMoves == TaskInv /\ DispatchStep => Moves
<1> SUFFICES ASSUME TaskInv, DispatchStep PROVE Moves
  OBVIOUS
<1>1. /\ task \in [Tasks -> TaskRow]
      /\ lease \in [Tasks -> [Epochs -> LeaseStates]]
      /\ dispatching \subseteq Dispatch
  BY DEF TaskInv, TypeOK, TasksTypeOK
<1>2. ASSUME NEW t \in Waiting, NEW r \in Runners, NEW passed \in SUBSET Overdue,
             ClaimNext(t, r, passed)
      PROVE  Moves
  <2> DEFINE e == task[t].epoch + 1
  <2>1. /\ t \in Tasks /\ task[t] \in TaskRow /\ task[t].state = "waiting_runner"
        /\ t \notin passed
        /\ e \in Epochs /\ \A i \in Epochs : lease[t][i] # "active"
    BY <1>1, <1>2 DEF Waiting, ClaimNext
  <2>2. /\ task' = [u \in Tasks |->
                  IF u = t THEN [task[t] EXCEPT !.state = "leased", !.owner = r,
                                   !.epoch = e, !.sequence = 1, !.lapsed = FALSE]
                  ELSE IF u \in passed THEN [task[u] EXCEPT !.state = "expired"]
                  ELSE task[u]]
        /\ lease' = [lease EXCEPT ![t][e] = "active"]
    BY <1>2 DEF ClaimNext
  <2> HIDE DEF e
  <2>3. Leases(t)
    BY <1>1, <2>1, <2>2 DEF Leases, TaskRow
  <2>4. ASSUME NEW u \in Tasks \ {t} PROVE Keeps(u)
    <3>1. task[u] \in TaskRow /\ lease'[u] = lease[u]
      BY <1>1, <2>2
    <3>2. task'[u] = task[u] \/ task'[u] = [task[u] EXCEPT !.state = "expired"]
      BY <2>2
    <3> QED BY <3>1, <3>2 DEF Keeps, TaskRow
  <2> QED BY <2>3, <2>4 DEF Moves
<1>3. ASSUME NEW d \in dispatching, MarkDispatched(d) PROVE Moves
  <2>1. d.task \in Tasks
    BY <1>1, <1>3 DEF Dispatch
  <2>2. /\ lease' = lease
        /\ \/ task' = task
           \/ task' = [task EXCEPT ![d.task].state = "dispatched",
                                   ![d.task].lost = FALSE]
    BY <1>3 DEF MarkDispatched
  <2>3. CASE task' = task
    BY <2>2, <2>3, UntouchedIsKept DEF Moves
  <2>4. CASE task' = [task EXCEPT ![d.task].state = "dispatched", ![d.task].lost = FALSE]
    <3>1. /\ task[d.task] \in TaskRow
          /\ task'[d.task] = [task[d.task] EXCEPT !.state = "dispatched", !.lost = FALSE]
      BY <1>1, <2>1, <2>4
    <3>2. Keeps(d.task)
      BY <2>2, <3>1 DEF Keeps, TaskRow
    <3>3. ASSUME NEW u \in Tasks \ {d.task} PROVE Keeps(u)
      <4>1. task'[u] = task[u] /\ lease'[u] = lease[u]
        BY <1>1, <2>2, <2>4
      <4> QED BY <4>1, UntouchedIsKept
    <3> QED BY <3>2, <3>3 DEF Moves
  <2> QED BY <2>2, <2>3, <2>4
<1>4. ASSUME NEW d \in dispatching, NEW delivered \in BOOLEAN, PublishRequest(d, delivered)
      PROVE  Moves
  BY <1>4, UntouchedIsKept DEF PublishRequest, Moves
<1>5. ASSUME NEW d \in dispatching, RescheduleUndelivered(d) PROVE Moves
  <2>1. d.task \in Tasks /\ d.epoch \in Epochs /\ task[d.task] \in TaskRow
    BY <1>1, <1>5 DEF Dispatch
  <2>2. CASE UNCHANGED <<task, lease>>
    BY <2>2, UntouchedIsKept DEF Moves
  <2>3. CASE /\ StillUndelivered(d)
             /\ lease' = [lease EXCEPT ![d.task][d.epoch] = "released"]
             /\ task' = [task EXCEPT ![d.task] = Unassigned(@, "waiting_runner")]
    <3>1. ~task[d.task].ran /\ task[d.task].epoch = d.epoch
      BY <2>3 DEF StillUndelivered
    <3>2. \A e \in Epochs : lease[d.task][e] = "active" => e = d.epoch
      BY <2>1, <3>1 DEF TaskInv, ActiveLeaseIsCurrent
    <3>3. \A e \in Epochs : lease'[d.task][e] # "active"
      BY <1>1, <2>1, <2>3, <3>2
    <3>4. Drops(d.task)
      BY <1>1, <2>1, <2>3, <3>1, <3>3, UnassignedRow DEF Drops, TaskStates
    <3>5. \A u \in Tasks \ {d.task} : Keeps(u)
      BY <1>1, <2>3, UntouchedIsKept
    <3> QED BY <3>4, <3>5 DEF Moves
  <2> QED BY <1>5, <2>2, <2>3 DEF RescheduleUndelivered
<1> QED BY <1>2, <1>3, <1>4, <1>5 DEF DispatchStep

LEMMA AgentStepMoves == TaskInv /\ AgentStep => Moves
<1> SUFFICES ASSUME TaskInv, AgentStep PROVE Moves
  OBVIOUS
<1>1. CASE UNCHANGED <<task, lease>>
  BY <1>1, UntouchedIsKept DEF Moves
<1>2. ASSUME NEW a, a.task \in Tasks, UNCHANGED lease,
             task' = [task EXCEPT ![a.task].lapsed = FALSE]
      PROVE  Moves
  <2>1. task \in [Tasks -> TaskRow] /\ task[a.task] \in TaskRow
    BY <1>2 DEF TaskInv, TypeOK, TasksTypeOK
  <2>2. Keeps(a.task)
    BY <1>2, <2>1 DEF Keeps, TaskRow
  <2>3. \A u \in Tasks \ {a.task} : Keeps(u)
    BY <1>2, <2>1, UntouchedIsKept
  <2> QED BY <2>2, <2>3 DEF Moves
<1>3. ASSUME NEW r \in Runners, NEW report \in HeartbeatReports,
             NEW a \in working[r] \cup {NoTask}, Heartbeat(r, a, report)
      PROVE  Moves
  <2>1. a # NoTask => a.task \in Tasks
    BY <1>3 DEF TaskInv, TypeOK, TasksTypeOK, Assignment
  <2>2. lease' = lease
    BY <1>3 DEF Heartbeat
  <2>3. CASE a = NoTask
    <3>1. task' = task
      BY <1>3, <2>3 DEF Heartbeat
    <3> QED BY <1>1, <2>2, <3>1
  <2>4. CASE a # NoTask
    <3>1. task' = task \/ task' = [task EXCEPT ![a.task].lapsed = FALSE]
      BY <1>3, <2>4 DEF Heartbeat
    <3> QED BY <1>1, <1>2, <2>1, <2>2, <2>4, <3>1
  <2> QED BY <2>3, <2>4
<1>4. ASSUME NEW r \in Runners, NEW a, NEW kind, NEW state, NEW n, Report(r, a, kind, state, n)
      PROVE  UNCHANGED <<task, lease>>
  BY <1>4 DEF Report
<1>5. ASSUME NEW m, Resend(m) PROVE UNCHANGED <<task, lease>>
  BY <1>5 DEF Resend
<1> QED BY <1>1, <1>3, <1>4, <1>5 DEF AgentStep

LEMMA MessageStepMoves == TaskInv /\ MessageStep => Moves
<1> SUFFICES ASSUME TaskInv, MessageStep PROVE Moves
  OBVIOUS
<1>1. /\ task \in [Tasks -> TaskRow]
      /\ lease \in [Tasks -> [Epochs -> LeaseStates]]
      /\ applying \subseteq messages /\ messages \subseteq Message
  BY DEF TaskInv, TypeOK, TasksTypeOK
<1>2. ASSUME UNCHANGED <<task, lease>> PROVE Moves
  BY <1>2, UntouchedIsKept DEF Moves
<1>3. ASSUME NEW m \in arrived, RecordMessage(m) PROVE Moves
  BY <1>2, <1>3 DEF RecordMessage
<1>4. ASSUME NEW m \in applying, IsAssignment(m)
      PROVE  /\ m \in messages /\ m.task \in Tasks /\ task[m.task] \in TaskRow
             /\ task[m.task].owner # NoRunner
             /\ m.epoch \in Epochs /\ m.epoch = task[m.task].epoch
             /\ m.state \in TaskStates \ {"absent", "waiting_runner"}
             /\ m.kind = "status" => m.state # "completed"
             /\ Vouched(m.task, m.kind, m.state)
  BY <1>1, <1>4, MessageShape, NoRunnerAssumption DEF IsAssignment, Vouched
<1>5. ASSUME NEW m \in applying, ApplyStatus(m) PROVE Moves
  <2>1. CASE ~IsAssignment(m)
    BY <1>2, <1>5, <2>1 DEF ApplyStatus
  <2>2. CASE IsAssignment(m)
    <3>1. /\ m.kind = "status" /\ UNCHANGED lease
          /\ task' = [task EXCEPT ![m.task].state = m.state,
                          ![m.task].ran = @ \/ m.state = "running",
                          ![m.task].sequence = m.sequence, ![m.task].lost = FALSE]
      BY <1>5, <2>2 DEF ApplyStatus
    <3>2. /\ task'[m.task].owner = task[m.task].owner
          /\ task'[m.task].epoch = task[m.task].epoch
          /\ task'[m.task].state = m.state
          /\ task'[m.task].ran = (task[m.task].ran \/ m.state = "running")
      BY <1>1, <1>4, <2>2, <3>1 DEF TaskRow
    <3>3. Keeps(m.task)
      <4>1. CASE m.state = "running"
        BY <1>4, <2>2, <3>1, <3>2, <4>1 DEF Keeps
      <4>2. CASE m.state # "running"
        <5>1. task'[m.task].ran = task[m.task].ran
          BY <1>4, <2>2, <3>2, <4>2 DEF TaskRow
        <5> QED BY <1>4, <2>2, <3>1, <3>2, <5>1 DEF Keeps
      <4> QED BY <4>1, <4>2
    <3>4. \A u \in Tasks \ {m.task} : Keeps(u)
      BY <1>1, <3>1, UntouchedIsKept
    <3> QED BY <3>3, <3>4 DEF Moves
  <2> QED BY <2>1, <2>2
<1>6. ASSUME NEW m \in applying, ApplyResult(m) PROVE Moves
  <2>1. CASE ~IsAssignment(m)
    BY <1>2, <1>6, <2>1 DEF ApplyResult
  <2>2. CASE IsAssignment(m)
    <3>1. /\ m.kind = "result"
          /\ task' = [task EXCEPT ![m.task].state = m.state,
                          ![m.task].sequence = m.sequence, ![m.task].lost = FALSE]
          /\ lease' = [lease EXCEPT ![m.task][m.epoch] =
                           IF @ = "active" THEN "released" ELSE @]
      BY <1>6, <2>2 DEF ApplyResult
    <3>2. /\ task'[m.task].owner = task[m.task].owner
          /\ task'[m.task].epoch = task[m.task].epoch
          /\ task'[m.task].state = m.state
          /\ task'[m.task].ran = task[m.task].ran
      BY <1>1, <1>4, <2>2, <3>1 DEF TaskRow
    <3>3. \A e \in Epochs : lease'[m.task][e] = "active" => lease[m.task][e] = "active"
      BY <1>1, <1>4, <2>2, <3>1
    <3>4. Keeps(m.task)
      BY <1>4, <2>2, <3>1, <3>2, <3>3 DEF Keeps
    <3>5. \A u \in Tasks \ {m.task} : Keeps(u)
      BY <1>1, <3>1, UntouchedIsKept
    <3> QED BY <3>4, <3>5 DEF Moves
  <2> QED BY <2>1, <2>2
<1> QED BY <1>3, <1>5, <1>6 DEF MessageStep

LEMMA RecoveryStepMoves == TaskInv /\ RecoveryStep => Moves
<1> SUFFICES ASSUME TaskInv, RecoveryStep PROVE Moves
  OBVIOUS
<1>1. /\ task \in [Tasks -> TaskRow] /\ TasksTypeOK
      /\ lease \in [Tasks -> [Epochs -> LeaseStates]]
  BY DEF TaskInv, TypeOK, TasksTypeOK
<1>2. ASSUME UNCHANGED <<task, lease>> PROVE Moves
  BY <1>2, UntouchedIsKept DEF Moves
<1>3. ASSUME NEW r \in Runners, EmergencyDisable(r) PROVE Moves
  <2> DEFINE t == runner[r].current
  <2>1. t = NoTask \/ t \in Tasks
    BY DEF TaskInv, TypeOK, RegistryTypeOK, RunnerRow
  <2>2. CASE t = NoTask
    BY <1>2, <1>3, <2>2 DEF EmergencyDisable
  <2>3. CASE t # NoTask /\ task[t].ran
    <3>1. /\ UNCHANGED lease
          /\ task' = [task EXCEPT ![t].state = "recovery_required", ![t].lost = FALSE]
      BY <1>3, <2>3 DEF EmergencyDisable
    <3>2. t \in Tasks
      BY <2>1, <2>3
    <3> HIDE DEF t
    <3>3. Keeps(t) /\ \A u \in Tasks \ {t} : Keeps(u)
      BY <1>1, <3>1, <3>2, UntouchedIsKept DEF Keeps, TaskRow
    <3> QED BY <3>3 DEF Moves
  <2>4. CASE t # NoTask /\ ~task[t].ran
    <3>1. /\ task' = [task EXCEPT ![t] = Unassigned(@, "cancelled")]
          /\ lease' = Released(t, "released")
      BY <1>3, <2>4 DEF EmergencyDisable
    <3>2. t \in Tasks
      BY <2>1, <2>4
    <3>3. ~task[t].ran
      BY <2>4
    <3> HIDE DEF t
    <3>4. Drops(t)
      BY <1>1, <3>1, <3>2, <3>3, UnassignedRow, ReleasedLease DEF Drops, TaskStates, Terminal
    <3>5. \A u \in Tasks \ {t} : Keeps(u)
      BY <1>1, <3>1, <3>2, ReleasedLease, UntouchedIsKept
    <3> QED BY <3>4, <3>5 DEF Moves
  <2> QED BY <2>2, <2>3, <2>4
<1>4. ASSUME NEW r \in Runners, NEW t \in Tasks, ResolveTaskRecovery(r, t) PROVE Moves
  <2>1. /\ task' = [task EXCEPT ![t].state = "failed", ![t].lost = FALSE]
        /\ lease' = Released(t, "released")
    BY <1>4 DEF ResolveTaskRecovery
  <2>2. Keeps(t)
    BY <1>1, <2>1, ReleasedLease DEF Keeps, TaskRow
  <2>3. \A u \in Tasks \ {t} : Keeps(u)
    BY <1>1, <2>1, ReleasedLease, UntouchedIsKept
  <2> QED BY <2>2, <2>3 DEF Moves
<1>5. CASE Sweep
  <2>1. /\ task' = [t \in Tasks |-> SweptTask(t)]
        /\ lease' = [t \in Tasks |-> SweptLease(t)]
    BY <1>5 DEF Sweep
  <2>2. ASSUME NEW t \in Tasks PROVE Keeps(t) \/ Drops(t)
    <3>1. task[t] \in TaskRow /\ task'[t] = SweptTask(t) /\ lease'[t] = SweptLease(t)
      BY <1>1, <2>1
    <3>2. CASE ~OutOfReach(t) \/ task[t].ran
      <4>1. lease'[t] = lease[t]
        BY <3>1, <3>2 DEF SweptLease
      <4>2. \/ task'[t] = task[t]
            \/ task'[t] = [task[t] EXCEPT !.state = "expired"]
            \/ task'[t] = [task[t] EXCEPT !.state = "recovery_required", !.lost = TRUE]
        BY <3>1, <3>2 DEF SweptTask
      <4> QED BY <3>1, <4>1, <4>2 DEF Keeps, TaskRow
    <3>3. CASE OutOfReach(t) /\ ~task[t].ran
      <4>1. t \notin Overdue
        BY <3>3 DEF OutOfReach, Overdue, Waiting
      <4>2. task'[t] = Unassigned(task[t], "waiting_runner")
        BY <3>1, <3>3, <4>1 DEF SweptTask
      <4>3. lease'[t] = Released(t, "expired")[t]
        BY <3>1, <3>3 DEF SweptLease
      <4> QED BY <1>1, <3>1, <3>3, <4>2, <4>3, UnassignedRow, ReleasedLease
              DEF Drops, TaskStates
    <3> QED BY <3>2, <3>3
  <2> QED BY <2>2 DEF Moves
<1>6. ASSUME NEW t \in Tasks, LeaseLapses(t) \/ TaskOverdue(t) PROVE Moves
  <2>1. /\ lease' = lease
        /\ \/ task' = [task EXCEPT ![t].lapsed = TRUE]
           \/ task' = [task EXCEPT ![t].overdue = TRUE]
    BY <1>6 DEF LeaseLapses, TaskOverdue
  <2>2. task[t] \in TaskRow
    BY <1>1
  <2>3. Keeps(t)
    BY <1>1, <2>1, <2>2 DEF Keeps, TaskRow
  <2>4. ASSUME NEW u \in Tasks \ {t} PROVE Keeps(u)
    <3>1. task'[u] = task[u] /\ lease'[u] = lease[u]
      BY <1>1, <2>1
    <3> QED BY <3>1, UntouchedIsKept
  <2> QED BY <2>3, <2>4 DEF Moves
<1>7. CASE Crash
  BY <1>2, <1>7 DEF Crash
<1> QED BY <1>3, <1>4, <1>5, <1>6, <1>7 DEF RecoveryStep

(* What a move does to the assignments, the leases and the outcomes.          *)
LEMMA MovesKeepLeases ==
  ASSUME TaskInv, TypeOK', Moves, messages \subseteq messages'
  PROVE  /\ AssignedHasEpoch' /\ UnstartedIsUnassigned'
         /\ ActiveLeaseIsCurrent' /\ OutcomeIsVouchedFor'
<1>1. ASSUME NEW t \in Tasks
      PROVE  /\ task'[t].owner # NoRunner => task'[t].epoch \in Epochs
             /\ task'[t].state \in {"absent", "waiting_runner"}
                  => task'[t].owner = NoRunner /\ ~task'[t].ran
             /\ \A e \in Epochs : lease'[t][e] = "active"
                  => task'[t].owner # NoRunner /\ task'[t].epoch = e
             /\ task'[t].ran => Vouched(t, "status", "running")'
             /\ task'[t].state = "completed" => Vouched(t, "result", "completed")'
  <2>1. /\ task[t].owner # NoRunner => task[t].epoch \in Epochs
        /\ task[t].state \in {"absent", "waiting_runner"}
             => task[t].owner = NoRunner /\ ~task[t].ran
        /\ \A e \in Epochs : lease[t][e] = "active"
             => task[t].owner # NoRunner /\ task[t].epoch = e
        /\ task[t].ran => Vouched(t, "status", "running")
        /\ task[t].state = "completed" => Vouched(t, "result", "completed")
    BY DEF TaskInv, AssignedHasEpoch, UnstartedIsUnassigned, ActiveLeaseIsCurrent,
           OutcomeIsVouchedFor
  <2>2. task[t] \in TaskRow /\ task'[t] \in TaskRow
    BY DEF TaskInv, TypeOK, TasksTypeOK
  <2>3. CASE Keeps(t)
    <3>1. ASSUME NEW kind, NEW state, Vouched(t, kind, state)
          PROVE  Vouched(t, kind, state)'
      BY <2>3, <3>1 DEF Keeps, Vouched
    <3>2. /\ task'[t].ran => Vouched(t, "status", "running")
          /\ task'[t].state = "completed" => Vouched(t, "result", "completed")
      BY <2>1, <2>3 DEF Keeps
    <3>3. /\ task'[t].owner # NoRunner => task'[t].epoch \in Epochs
          /\ \A e \in Epochs : lease'[t][e] = "active"
               => task'[t].owner # NoRunner /\ task'[t].epoch = e
      BY <2>1, <2>3 DEF Keeps
    <3>4. task'[t].state \in {"absent", "waiting_runner"}
            => task'[t].owner = NoRunner /\ ~task'[t].ran
      BY <2>1, <2>3 DEF Keeps
    <3> QED BY <3>1, <3>2, <3>3, <3>4
  <2>4. CASE Drops(t)
    BY <2>4 DEF Drops
  <2>5. CASE Leases(t)
    BY <2>1, <2>2, <2>5, NoRunnerAssumption DEF Leases
  <2> QED BY <2>3, <2>4, <2>5 DEF Moves
<1>2. AssignedHasEpoch' /\ UnstartedIsUnassigned' /\ ActiveLeaseIsCurrent'
  BY <1>1 DEF AssignedHasEpoch, UnstartedIsUnassigned, ActiveLeaseIsCurrent
<1>3. OutcomeIsVouchedFor'
  BY <1>1 DEF OutcomeIsVouchedFor
<1> QED BY <1>2, <1>3

(* A message is recorded before it is applied and never forgotten.            *)
LEMMA MessagesGrow ==
  ASSUME applying \subseteq messages, Next
  PROVE  messages \subseteq messages' /\ applying' \subseteq messages'
<1>1. CASE UNCHANGED taskVars
  BY <1>1 DEF taskVars
<1>2. CASE OwnerStep
  BY <1>2 DEF OwnerStep, CreateWorkTask, CancelAtOnce, RequestCancel, Continue,
              PublishControl, threadVars
<1>3. CASE DispatchStep
  BY <1>3 DEF DispatchStep, ClaimNext, MarkDispatched, PublishRequest,
              RescheduleUndelivered
<1>4. CASE AgentStep
  <2>1. ASSUME NEW r, NEW a, NEW report, Heartbeat(r, a, report)
        PROVE  UNCHANGED <<messages, applying>>
    BY <2>1 DEF Heartbeat, threadVars
  <2>2. ASSUME NEW r, NEW a, NEW kind, NEW state, NEW n, Report(r, a, kind, state, n)
        PROVE  UNCHANGED <<messages, applying>>
    BY <2>2 DEF Report
  <2>3. ASSUME NEW m, Resend(m) PROVE UNCHANGED <<messages, applying>>
    BY <2>3 DEF Resend
  <2>4. UNCHANGED <<messages, applying>>
    BY <1>4, <2>1, <2>2, <2>3 DEF AgentStep
  <2> QED BY <2>4
<1>5. CASE MessageStep
  <2>1. ASSUME NEW m, RecordMessage(m)
        PROVE  messages \subseteq messages' /\ applying' \subseteq messages'
    BY <2>1 DEF RecordMessage
  <2>2. ASSUME NEW m, ApplyStatus(m) \/ ApplyResult(m)
        PROVE  messages \subseteq messages' /\ applying' \subseteq messages'
    BY <2>2 DEF ApplyStatus, ApplyResult
  <2> QED BY <1>5, <2>1, <2>2 DEF MessageStep
<1>6. CASE RecoveryStep
  <2>1. ASSUME NEW r, EmergencyDisable(r) PROVE UNCHANGED <<messages, applying>>
    BY <2>1 DEF EmergencyDisable, threadVars
  <2>2. ASSUME NEW r, NEW t, ResolveTaskRecovery(r, t)
        PROVE  UNCHANGED <<messages, applying>>
    BY <2>2 DEF ResolveTaskRecovery, threadVars
  <2>3. ASSUME Sweep PROVE UNCHANGED <<messages, applying>>
    BY <2>3 DEF Sweep, threadVars
  <2>4. ASSUME NEW t, LeaseLapses(t) \/ TaskOverdue(t)
        PROVE  UNCHANGED <<messages, applying>>
    BY <2>4 DEF LeaseLapses, TaskOverdue, threadVars
  <2>5. ASSUME Crash PROVE messages' = messages /\ applying' = {}
    BY <2>5 DEF Crash
  <2> QED BY <1>6, <2>1, <2>2, <2>3, <2>4, <2>5 DEF RecoveryStep
<1> QED BY <1>1, <1>2, <1>3, <1>4, <1>5, <1>6 DEF Next, EnrolledNext, WorkStep

(* No step leaves a Runner busy with a task that it takes from the Runner.    *)
LEMMA OwnerStepKeepsCurrent == TaskInv /\ OwnerStep => CurrentIsAssigned'
<1> SUFFICES ASSUME TaskInv, NEW t \in Tasks,
                    \/ CreateWorkTask(t) \/ CancelAtOnce(t) \/ RequestCancel(t)
                    \/ Continue(t)
                    \/ \E delivered \in BOOLEAN : PublishControl(t, delivered)
             PROVE  CurrentIsAssigned'
  BY DEF OwnerStep
<1>1. /\ task \in [Tasks -> TaskRow] /\ task[t] \in TaskRow
      /\ runner \in [Runners -> RunnerRow]
  BY DEF TaskInv, TypeOK, TasksTypeOK, RegistryTypeOK
<1>2. \A u \in Tasks : task'[u].owner = task[u].owner
  <2>1. ASSUME NEW row \in TaskRow, row.owner = NoRunner
        PROVE  Unassigned(row, "cancelled").owner = row.owner
    BY <2>1 DEF Unassigned, TaskRow
  <2>2. ASSUME CancelAtOnce(t) PROVE \A u \in Tasks : task'[u].owner = task[u].owner
    <3>1. \/ task' = [task EXCEPT ![t].state = "cancelled", ![t].lost = FALSE]
          \/ /\ task[t].owner = NoRunner
             /\ task' = [task EXCEPT ![t] = Unassigned(@, "cancelled")]
      BY <2>2 DEF CancelAtOnce
    <3> QED BY <1>1, <2>1, <3>1 DEF TaskRow
  <2>3. ASSUME CreateWorkTask(t) \/ RequestCancel(t) \/ Continue(t)
        PROVE  \A u \in Tasks : task'[u].owner = task[u].owner
    BY <1>1, <2>3 DEF CreateWorkTask, RequestCancel, Continue, TaskRow
  <2>4. ASSUME NEW delivered \in BOOLEAN, PublishControl(t, delivered)
        PROVE  task' = task
    BY <2>4 DEF PublishControl
  <2> QED BY <2>2, <2>3, <2>4
<1>3. CASE Continue(t)
  <2> DEFINE q == task[t].owner
  <2>1. runner' = [runner EXCEPT ![q].work = "busy", ![q].current = t]
    BY <1>3 DEF Continue
  <2>2. ASSUME NEW r \in Runners
        PROVE  \/ runner'[r].current = runner[r].current
               \/ runner'[r].current = t /\ task[t].owner = r
    <3>1. runner[r] \in RunnerRow
      BY <1>1
    <3> HIDE DEF q
    <3>2. CASE r = q
      <4>1. runner'[r].current = t
        BY <1>1, <2>1, <3>1, <3>2 DEF RunnerRow
      <4> QED BY <3>2, <4>1 DEF q
    <3>3. CASE r # q
      BY <1>1, <2>1, <3>3
    <3> QED BY <3>2, <3>3
  <2>3. \A r \in Runners : runner[r].current \in Tasks \cup {NoTask}
    BY <1>1 DEF RunnerRow
  <2> QED BY <1>2, <2>2, <2>3 DEF TaskInv, CurrentIsAssigned
<1>4. CASE ~Continue(t)
  <2>1. runner' = runner
    BY <1>4 DEF CreateWorkTask, CancelAtOnce, RequestCancel, PublishControl, registryVars
  <2>2. \A r \in Runners : runner[r].current \in Tasks \cup {NoTask}
    BY <1>1 DEF RunnerRow
  <2> QED BY <1>2, <2>1, <2>2 DEF TaskInv, CurrentIsAssigned
<1> QED BY <1>3, <1>4

LEMMA DispatchStepKeepsCurrent == TaskInv /\ DispatchStep => CurrentIsAssigned'
<1> SUFFICES ASSUME TaskInv, DispatchStep PROVE CurrentIsAssigned'
  OBVIOUS
<1>1. /\ task \in [Tasks -> TaskRow] /\ runner \in [Runners -> RunnerRow]
      /\ dispatching \subseteq Dispatch
  BY DEF TaskInv, TypeOK, TasksTypeOK, RegistryTypeOK
<1>2. ASSUME NEW r \in Runners, runner[r].current # NoTask
      PROVE  runner[r].current \in Tasks /\ task[runner[r].current].owner = r
  BY <1>1, <1>2 DEF TaskInv, CurrentIsAssigned, RunnerRow
<1>3. ASSUME NEW t \in Waiting, NEW q \in Runners, NEW passed \in SUBSET Overdue,
             ClaimNext(t, q, passed)
      PROVE  CurrentIsAssigned'
  <2>1. t \in Tasks /\ task[t].owner = NoRunner
    BY DEF Waiting, TaskInv, UnstartedIsUnassigned
  <2>2. /\ task' = [u \in Tasks |->
                  IF u = t THEN [task[t] EXCEPT !.state = "leased", !.owner = q,
                              !.epoch = task[t].epoch + 1, !.sequence = 1, !.lapsed = FALSE]
                  ELSE IF u \in passed THEN [task[u] EXCEPT !.state = "expired"]
                  ELSE task[u]]
        /\ runner' = [runner EXCEPT ![q].work = "busy", ![q].current = t]
    BY <1>3 DEF ClaimNext
  <2>3. task'[t].owner = q /\ \A u \in Tasks \ {t} : task'[u].owner = task[u].owner
    BY <1>1, <2>1, <2>2 DEF TaskRow
  <2>4. \A r \in Runners : IF r = q THEN runner'[r].current = t
                           ELSE runner'[r].current = runner[r].current
    BY <1>1, <2>2 DEF RunnerRow
  <2>5. ASSUME NEW r \in Runners, runner'[r].current # NoTask
        PROVE  task'[runner'[r].current].owner = r
    <3>1. CASE r = q
      BY <2>3, <2>4, <3>1
    <3>2. CASE r # q
      BY <1>2, <2>1, <2>3, <2>4, <2>5, <3>2, NoRunnerAssumption
    <3> QED BY <3>1, <3>2
  <2> QED BY <2>5 DEF CurrentIsAssigned
<1>4. ASSUME NEW d \in dispatching, NEW delivered \in BOOLEAN,
             MarkDispatched(d) \/ PublishRequest(d, delivered)
      PROVE  CurrentIsAssigned'
  <2>1. /\ runner' = runner
        /\ \/ task' = task
           \/ task' = [task EXCEPT ![d.task].state = "dispatched", ![d.task].lost = FALSE]
    BY <1>4 DEF MarkDispatched, PublishRequest, registryVars
  <2>2. \A u \in Tasks : task'[u].owner = task[u].owner
    BY <1>1, <2>1 DEF TaskRow
  <2> QED BY <1>2, <2>1, <2>2 DEF CurrentIsAssigned
<1>5. ASSUME NEW d \in dispatching, RescheduleUndelivered(d) PROVE CurrentIsAssigned'
  <2>1. d.task \in Tasks /\ d.runner \in Runners
    BY <1>1, <1>5 DEF Dispatch
  <2>2. CASE UNCHANGED <<task, runner>>
    BY <1>2, <2>2 DEF CurrentIsAssigned
  <2>3. CASE /\ StillUndelivered(d)
             /\ task' = [task EXCEPT ![d.task] = Unassigned(@, "waiting_runner")]
             /\ runner' = [runner EXCEPT ![d.runner] = [Freed(@) EXCEPT !.link = "offline"]]
    <3>1. task[d.task].owner = d.runner
      BY <2>3 DEF StillUndelivered
    <3>2. runner'[d.runner].current = NoTask
      BY <1>1, <2>1, <2>3 DEF RunnerRow, Freed
    <3>3. \A u \in Tasks \ {d.task} : task'[u].owner = task[u].owner
      BY <1>1, <2>1, <2>3
    <3>4. \A r \in Runners \ {d.runner} : runner'[r].current = runner[r].current
      BY <1>1, <2>1, <2>3
    <3> QED BY <1>2, <3>1, <3>2, <3>3, <3>4 DEF CurrentIsAssigned
  <2> QED BY <1>5, <2>2, <2>3 DEF RescheduleUndelivered
<1> QED BY <1>3, <1>4, <1>5 DEF DispatchStep

LEMMA AgentStepKeepsCurrent == TaskInv /\ AgentStep => CurrentIsAssigned'
<1> SUFFICES ASSUME TaskInv, AgentStep PROVE CurrentIsAssigned'
  OBVIOUS
<1>1. /\ task \in [Tasks -> TaskRow] /\ runner \in [Runners -> RunnerRow]
  BY DEF TaskInv, TypeOK, TasksTypeOK, RegistryTypeOK
<1>2. ASSUME NEW r \in Runners, runner[r].current # NoTask
      PROVE  runner[r].current \in Tasks /\ task[runner[r].current].owner = r
  BY <1>1, <1>2 DEF TaskInv, CurrentIsAssigned, RunnerRow
<1>3. ASSUME NEW q \in Runners, NEW report \in HeartbeatReports,
             NEW a \in working[q] \cup {NoTask}, Heartbeat(q, a, report)
      PROVE  CurrentIsAssigned'
  <2>1. runner' = [runner EXCEPT
         ![q].link = IF report.online THEN "online" ELSE "offline",
         ![q].checked = report.checked,
         ![q].work = IF runner[q].current # NoTask /\ report.work = "idle" THEN @
                     ELSE report.work]
    BY <1>3 DEF Heartbeat
  <2>2. \A r \in Runners : runner'[r].current = runner[r].current
    BY <1>1, <2>1 DEF RunnerRow
  <2>3. task' = task \/ task' = [task EXCEPT ![a.task].lapsed = FALSE]
    BY <1>3 DEF Heartbeat
  <2>4. \A u \in Tasks : task'[u].owner = task[u].owner
    BY <1>1, <2>3 DEF TaskRow
  <2> QED BY <1>2, <2>2, <2>4 DEF CurrentIsAssigned
<1>4. ASSUME UNCHANGED <<task, runner>> PROVE CurrentIsAssigned'
  BY <1>2, <1>4 DEF CurrentIsAssigned
<1>5. ASSUME NEW r, NEW a, NEW kind, NEW state, NEW n, Report(r, a, kind, state, n)
      PROVE  UNCHANGED <<task, runner>>
  BY <1>5 DEF Report, registryVars
<1>6. ASSUME NEW m, Resend(m) PROVE UNCHANGED <<task, runner>>
  BY <1>6 DEF Resend, registryVars
<1> QED BY <1>3, <1>4, <1>5, <1>6 DEF AgentStep

LEMMA MessageStepKeepsCurrent == TaskInv /\ MessageStep => CurrentIsAssigned'
<1> SUFFICES ASSUME TaskInv, MessageStep PROVE CurrentIsAssigned'
  OBVIOUS
<1>1. /\ task \in [Tasks -> TaskRow] /\ runner \in [Runners -> RunnerRow]
      /\ applying \subseteq Message
  BY DEF TaskInv, TypeOK, TasksTypeOK, RegistryTypeOK
<1>2. ASSUME NEW r \in Runners, runner[r].current # NoTask
      PROVE  runner[r].current \in Tasks /\ task[runner[r].current].owner = r
  BY <1>1, <1>2 DEF TaskInv, CurrentIsAssigned, RunnerRow
<1>3. ASSUME UNCHANGED <<task, runner>> PROVE CurrentIsAssigned'
  BY <1>2, <1>3 DEF CurrentIsAssigned
<1>4. ASSUME NEW m \in arrived, RecordMessage(m) PROVE CurrentIsAssigned'
  BY <1>3, <1>4 DEF RecordMessage, registryVars
<1>5. ASSUME NEW m \in applying, IsAssignment(m),
             \A u \in Tasks : task'[u].owner = task[u].owner,
             \A r \in Runners : \/ runner'[r].current = runner[r].current
                                \/ runner'[r].current = NoTask
                                \/ r = m.runner /\ runner'[r].current = m.task
      PROVE  CurrentIsAssigned'
  <2>1. m.task \in Tasks /\ task[m.task].owner = m.runner
    BY <1>1, <1>5, MessageShape DEF IsAssignment
  <2> QED BY <1>2, <1>5, <2>1 DEF CurrentIsAssigned
<1>6. ASSUME NEW m \in applying, ApplyStatus(m) PROVE CurrentIsAssigned'
  <2>1. CASE ~IsAssignment(m)
    BY <1>3, <1>6, <2>1 DEF ApplyStatus
  <2>2. CASE IsAssignment(m)
    <3>1. /\ task' = [task EXCEPT ![m.task].state = m.state,
                          ![m.task].ran = @ \/ m.state = "running",
                          ![m.task].sequence = m.sequence, ![m.task].lost = FALSE]
          /\ \/ runner' = runner
             \/ runner' = [runner EXCEPT ![m.runner].work = "recovery_required",
                                         ![m.runner].current = m.task]
      BY <1>6, <2>2 DEF ApplyStatus
    <3>2. \A u \in Tasks : task'[u].owner = task[u].owner
      BY <1>1, <3>1 DEF TaskRow
    <3>3. \A r \in Runners : \/ runner'[r].current = runner[r].current
                             \/ r = m.runner /\ runner'[r].current = m.task
      BY <1>1, <3>1 DEF RunnerRow
    <3> QED BY <1>5, <2>2, <3>2, <3>3
  <2> QED BY <2>1, <2>2
<1>7. ASSUME NEW m \in applying, ApplyResult(m) PROVE CurrentIsAssigned'
  <2>1. CASE ~IsAssignment(m)
    BY <1>3, <1>7, <2>1 DEF ApplyResult
  <2>2. CASE IsAssignment(m)
    <3>1. /\ task' = [task EXCEPT ![m.task].state = m.state,
                          ![m.task].sequence = m.sequence, ![m.task].lost = FALSE]
          /\ runner' = [runner EXCEPT ![m.runner] =
                            IF m.state = "recovery_required"
                            THEN [Undrained(@) EXCEPT !.work = "recovery_required",
                                                      !.current = m.task]
                            ELSE Undrained(Freed(@))]
      BY <1>7, <2>2 DEF ApplyResult
    <3>2. \A u \in Tasks : task'[u].owner = task[u].owner
      BY <1>1, <3>1 DEF TaskRow
    <3>3. ASSUME NEW row \in RunnerRow
          PROVE  /\ [Undrained(row) EXCEPT !.work = "recovery_required",
                                           !.current = m.task].current = m.task
                 /\ Undrained(Freed(row)).current = NoTask
      BY DEF RunnerRow, Undrained, Freed
    <3>4. \A r \in Runners : \/ runner'[r].current = runner[r].current
                             \/ runner'[r].current = NoTask
                             \/ r = m.runner /\ runner'[r].current = m.task
      BY <1>1, <3>1, <3>3
    <3> QED BY <1>5, <2>2, <3>2, <3>4
  <2> QED BY <2>1, <2>2
<1> QED BY <1>4, <1>6, <1>7 DEF MessageStep

LEMMA SweepKeepsCurrent == TaskInv /\ Sweep => CurrentIsAssigned'
<1> SUFFICES ASSUME TaskInv, Sweep PROVE CurrentIsAssigned'
  OBVIOUS
<1>1. /\ task \in [Tasks -> TaskRow] /\ runner \in [Runners -> RunnerRow]
  BY DEF TaskInv, TypeOK, TasksTypeOK, RegistryTypeOK
<1>2. ASSUME NEW r \in Runners, runner[r].current # NoTask
      PROVE  runner[r].current \in Tasks /\ task[runner[r].current].owner = r
  BY <1>1, <1>2 DEF TaskInv, CurrentIsAssigned, RunnerRow
<1>3. PICK last \in [Runners -> Tasks \cup {NoTask}] :
         /\ \A r \in Runners : IF OutOfReachOf(r) = {} THEN last[r] = NoTask
                               ELSE last[r] \in OutOfReachOf(r)
         /\ task' = [t \in Tasks |-> SweptTask(t)]
         /\ runner' = [r \in Runners |->
                         LET row == SweptRunner(r, last[r])
                         IN IF row.current = NoTask THEN Undrained(row) ELSE row]
  BY DEF Sweep
<1>4. ASSUME NEW t \in Tasks, task[t].ran \/ ~OutOfReach(t)
      PROVE  task'[t].owner = task[t].owner
  <2>1. task[t] \in TaskRow
    BY <1>1
  <2>2. \/ task'[t] = task[t]
        \/ task'[t] = [task[t] EXCEPT !.state = "expired"]
        \/ task'[t] = [task[t] EXCEPT !.state = "recovery_required", !.lost = TRUE]
    BY <1>3, <1>4 DEF SweptTask
  <2> QED BY <2>1, <2>2 DEF TaskRow
<1>5. ASSUME NEW r \in Runners PROVE runner'[r].current = SweptRunner(r, last[r]).current
  <2> DEFINE row == SweptRunner(r, last[r])
  <2>1. runner'[r] = IF row.current = NoTask THEN Undrained(row) ELSE row
    BY <1>3
  <2> HIDE DEF row
  <2>2. Undrained(row).current = row.current
    BY DEF Undrained
  <2>3. runner'[r].current = row.current
    BY <2>1, <2>2
  <2> QED BY <2>3 DEF row
<1>6. ASSUME NEW r \in Runners, runner'[r].current # NoTask
      PROVE  task'[runner'[r].current].owner = r
  <2>1. runner[r] \in RunnerRow
    BY <1>1
  <2>2. CASE last[r] = NoTask
    <3>1. OutOfReachOf(r) = {}
      BY <1>3, <2>2, NoTaskAssumption DEF OutOfReachOf
    <3>2. runner'[r].current = runner[r].current
      BY <1>5, <2>2 DEF SweptRunner
    <3>3. runner[r].current \in Tasks /\ task[runner[r].current].owner = r
      BY <1>2, <1>6, <3>2
    <3>4. ~OutOfReach(runner[r].current)
      BY <3>1, <3>3 DEF OutOfReachOf
    <3> QED BY <1>4, <3>2, <3>3, <3>4
  <2>3. CASE last[r] # NoTask
    <3>1. last[r] \in Tasks /\ last[r] \in OutOfReachOf(r)
      BY <1>3, <2>3
    <3>2. task[last[r]].ran /\ SweptRunner(r, last[r]).current = last[r]
      BY <1>5, <1>6, <2>1, <2>3 DEF SweptRunner, Freed, RunnerRow
    <3> QED BY <1>4, <1>5, <3>1, <3>2 DEF OutOfReachOf
  <2> QED BY <2>2, <2>3
<1> QED BY <1>6 DEF CurrentIsAssigned

LEMMA RecoveryStepKeepsCurrent == TaskInv /\ RecoveryStep => CurrentIsAssigned'
<1> SUFFICES ASSUME TaskInv, RecoveryStep PROVE CurrentIsAssigned'
  OBVIOUS
<1>1. /\ task \in [Tasks -> TaskRow] /\ runner \in [Runners -> RunnerRow]
  BY DEF TaskInv, TypeOK, TasksTypeOK, RegistryTypeOK
<1>2. ASSUME NEW r \in Runners, runner[r].current # NoTask
      PROVE  runner[r].current \in Tasks /\ task[runner[r].current].owner = r
  BY <1>1, <1>2 DEF TaskInv, CurrentIsAssigned, RunnerRow
<1>3. ASSUME \A u \in Tasks : task'[u].owner = task[u].owner,
             \A r \in Runners : runner'[r].current \in {runner[r].current, NoTask}
      PROVE  CurrentIsAssigned'
  BY <1>2, <1>3 DEF CurrentIsAssigned
<1>4. ASSUME NEW q \in Runners, EmergencyDisable(q) PROVE CurrentIsAssigned'
  <2> DEFINE t == runner[q].current
  <2>1. t = NoTask \/ t \in Tasks
    BY <1>1 DEF RunnerRow
  <2>2. CASE t = NoTask
    <3>1. task' = task /\ runner' = [runner EXCEPT ![q].admin = "disabled"]
      BY <1>4, <2>2 DEF EmergencyDisable
    <3>2. \A r \in Runners : runner'[r].current = runner[r].current
      BY <1>1, <3>1 DEF RunnerRow
    <3> QED BY <1>3, <3>1, <3>2
  <2>3. CASE t # NoTask /\ task[t].ran
    <3>1. /\ task' = [task EXCEPT ![t].state = "recovery_required", ![t].lost = FALSE]
          /\ runner' = [runner EXCEPT ![q].admin = "disabled",
                                      ![q].work = "recovery_required"]
      BY <1>4, <2>3 DEF EmergencyDisable
    <3> HIDE DEF t
    <3>2. \A r \in Runners : runner'[r].current = runner[r].current
      BY <1>1, <3>1 DEF RunnerRow
    <3>3. \A u \in Tasks : task'[u].owner = task[u].owner
      BY <1>1, <3>1 DEF TaskRow
    <3> QED BY <1>3, <3>2, <3>3
  <2>4. CASE t # NoTask /\ ~task[t].ran
    <3>1. /\ task' = [task EXCEPT ![t] = Unassigned(@, "cancelled")]
          /\ runner' = [runner EXCEPT ![q] = [Freed(@) EXCEPT !.admin = "disabled"]]
      BY <1>4, <2>4 DEF EmergencyDisable
    <3>2. task[t].owner = q
      BY <1>2, <2>4
    <3> HIDE DEF t
    <3>3. runner'[q].current = NoTask
      BY <1>1, <3>1 DEF Freed, RunnerRow
    <3>4. \A u \in Tasks \ {t} : task'[u].owner = task[u].owner
      BY <1>1, <3>1
    <3>5. \A r \in Runners \ {q} : runner'[r].current = runner[r].current
      BY <1>1, <3>1
    <3> QED BY <1>2, <3>2, <3>3, <3>4, <3>5 DEF CurrentIsAssigned
  <2> QED BY <2>1, <2>2, <2>3, <2>4
<1>5. ASSUME NEW q \in Runners, NEW t \in Tasks, ResolveTaskRecovery(q, t)
      PROVE  CurrentIsAssigned'
  <2>1. /\ task' = [task EXCEPT ![t].state = "failed", ![t].lost = FALSE]
        /\ runner' = [runner EXCEPT ![q] = Undrained(Freed(@))]
    BY <1>5 DEF ResolveTaskRecovery
  <2>2. \A u \in Tasks : task'[u].owner = task[u].owner
    BY <1>1, <2>1 DEF TaskRow
  <2>3. \A row \in RunnerRow : Undrained(Freed(row)).current = NoTask
    BY DEF Undrained, Freed, RunnerRow
  <2>4. \A r \in Runners : runner'[r].current \in {runner[r].current, NoTask}
    BY <1>1, <2>1, <2>3
  <2> QED BY <1>3, <2>2, <2>4
<1>6. ASSUME NEW t \in Tasks, LeaseLapses(t) \/ TaskOverdue(t) PROVE CurrentIsAssigned'
  <2>1. /\ runner' = runner
        /\ \/ task' = [task EXCEPT ![t].lapsed = TRUE]
           \/ task' = [task EXCEPT ![t].overdue = TRUE]
    BY <1>6 DEF LeaseLapses, TaskOverdue, registryVars
  <2>2. \A u \in Tasks : task'[u].owner = task[u].owner
    BY <1>1, <2>1 DEF TaskRow
  <2> QED BY <1>3, <2>1, <2>2
<1>7. CASE Crash
  BY <1>2, <1>7 DEF Crash, registryVars, CurrentIsAssigned
<1> QED BY <1>4, <1>5, <1>6, <1>7, SweepKeepsCurrent DEF RecoveryStep

(* Enrolling and administering leave what a Runner is busy with alone.        *)
LEMMA RegistryKeepsCurrent ==
  ASSUME TaskInv, RegistryStep \/ AdminStep, UNCHANGED taskVars
  PROVE  CurrentIsAssigned'
<1>1. runner \in [Runners -> RunnerRow] /\ task' = task
  BY DEF TaskInv, TypeOK, RegistryTypeOK, taskVars
<1>2. ASSUME NEW r \in Runners, CreateEnrollment(r)
      PROVE  \A q \in Runners : runner'[q].current \in {runner[q].current, NoTask}
  BY <1>1, <1>2 DEF CreateEnrollment, NewRow
<1>3. ASSUME NEW r \in Runners,
             \/ EnableRunner(r) \/ DisableRunner(r) \/ Drain(r) \/ LinkAges(r)
             \/ DeleteRunner(r)
             \/ \E i \in DOMAIN enrollment[r], ok \in BOOLEAN : RedeemEnrollment(r, i, ok)
      PROVE  \A q \in Runners : runner'[q].current \in {runner[q].current, NoTask}
  BY <1>1, <1>3 DEF EnableRunner, DisableRunner, Drain, LinkAges, DeleteRunner,
     RedeemEnrollment, RunnerRow
<1>4. ASSUME NEW r \in Runners,
             \/ EnrollmentExpires(r) \/ RevokeEnrollment(r) \/ RegenerateEnrollment(r)
             \/ RotateCredential(r)
      PROVE  runner' = runner
  BY <1>4 DEF EnrollmentExpires, RevokeEnrollment, RegenerateEnrollment, RotateCredential
<1>5. \A q \in Runners : runner'[q].current \in {runner[q].current, NoTask}
  BY <1>2, <1>3, <1>4 DEF RegistryStep, AdminStep
<1> QED BY <1>1, <1>5 DEF TaskInv, CurrentIsAssigned

LEMMA InitTaskInv == Init \/ EnrolledInit => TaskInv
<1> SUFFICES ASSUME Init \/ EnrolledInit PROVE TaskInv
  OBVIOUS
<1>1. TasksInit
  BY DEF Init, EnrolledInit
<1>2. RegistryTypeOK
  <2>1. CASE Init
    BY <2>1, RegistryInitType DEF Init
  <2>2. CASE EnrolledInit
    <3>1. [NewRow("enabled") EXCEPT !.checked = TRUE, !.link = "online"] \in RunnerRow
      BY DEF NewRow, RunnerRow, AdminStates, WorkStates, Links
    <3>2. <<"claimed">> \in Seq(EnrollmentStates) /\ <<"active">> \in Seq(CredentialStates)
      BY DEF EnrollmentStates, CredentialStates
    <3> QED BY <2>2, <3>1, <3>2 DEF EnrolledInit, RegistryTypeOK
  <2> QED BY <2>1, <2>2
<1>3. \A r \in Runners : runner[r].current = NoTask
  <2>1. CASE Init
    BY <2>1 DEF Init, RegistryInit, NewRow
  <2>2. CASE EnrolledInit
    BY <2>2 DEF EnrolledInit, NewRow
  <2> QED BY <2>1, <2>2
<1>4. TypeOK /\ AssignedHasEpoch
  BY <1>1, <1>2, TasksInitType DEF TypeOK, TasksInit, AssignedHasEpoch
<1>5. /\ UnstartedIsUnassigned /\ ActiveLeaseIsCurrent /\ OutcomeIsVouchedFor
      /\ applying \subseteq messages
  BY <1>1 DEF TasksInit, UnstartedIsUnassigned, ActiveLeaseIsCurrent, OutcomeIsVouchedFor
<1> QED BY <1>3, <1>4, <1>5 DEF TaskInv, CurrentIsAssigned

LEMMA NextMoves == TaskInv /\ Next => Moves
<1> SUFFICES ASSUME TaskInv, Next PROVE Moves
  OBVIOUS
<1>1. CASE UNCHANGED taskVars
  BY <1>1, UntouchedIsKept DEF taskVars, Moves
<1> QED BY <1>1, OwnerStepMoves, DispatchStepMoves, AgentStepMoves, MessageStepMoves,
        RecoveryStepMoves DEF Next, EnrolledNext, WorkStep

LEMMA StepTaskInv == TaskInv /\ [Next]_vars => TaskInv'
<1> SUFFICES ASSUME TaskInv, [Next]_vars PROVE TaskInv'
  OBVIOUS
<1>1. CASE UNCHANGED vars
  BY <1>1 DEF vars, registryVars, taskVars, TaskInv, TypeOK, RegistryTypeOK, TasksTypeOK,
     AssignedHasEpoch, UnstartedIsUnassigned, ActiveLeaseIsCurrent, CurrentIsAssigned,
     OutcomeIsVouchedFor, Vouched
<1>2. CASE Next
  <2>1. TypeOK'
    <3>1. CASE (RegistryStep \/ AdminStep) /\ UNCHANGED taskVars
      BY <3>1, RegistryStepType, AdminStepType DEF TaskInv, TypeOK, TasksTypeOK, taskVars
    <3> QED BY <1>2, <3>1, OwnerStepType, DispatchStepType, AgentStepType, MessageStepType,
            RecoveryStepType DEF Next, EnrolledNext, WorkStep, TaskInv
  <2>2. messages \subseteq messages' /\ applying' \subseteq messages'
    BY <1>2, MessagesGrow DEF TaskInv
  <2>3. /\ AssignedHasEpoch' /\ UnstartedIsUnassigned'
        /\ ActiveLeaseIsCurrent' /\ OutcomeIsVouchedFor'
    BY <1>2, <2>1, <2>2, NextMoves, MovesKeepLeases
  <2>4. CurrentIsAssigned'
    BY <1>2, RegistryKeepsCurrent, OwnerStepKeepsCurrent, DispatchStepKeepsCurrent,
       AgentStepKeepsCurrent, MessageStepKeepsCurrent, RecoveryStepKeepsCurrent
       DEF Next, EnrolledNext, WorkStep
  <2> QED BY <2>1, <2>2, <2>3, <2>4 DEF TaskInv
<1> QED BY <1>1, <1>2

(* EnrolledSpec only starts elsewhere and takes fewer kinds of step.          *)
LEMMA Invariance == Spec \/ EnrolledSpec => []TaskInv
<1>1. [EnrolledNext]_vars => [Next]_vars
  BY DEF Next
<1> QED BY <1>1, InitTaskInv, StepTaskInv, PTL DEF Spec, EnrolledSpec

(* Every table holds rows of its declared shape, whatever the Runners, tasks  *)
(* and bounds are: no handler writes a state the schema does not know.        *)
THEOREM TypeCorrect == Spec \/ EnrolledSpec => []TypeOK
<1>1. TaskInv => TypeOK
  BY DEF TaskInv
<1> QED BY <1>1, Invariance, PTL

(* No step of dispatching, continuing, sweeping, stopping or resolving leaves *)
(* an active lease that is not the one of the task's current assignment.      *)
THEOREM LeasesCorrect == Spec \/ EnrolledSpec => []ActiveLeaseIsCurrent
<1>1. TaskInv => ActiveLeaseIsCurrent
  BY DEF TaskInv
<1> QED BY <1>1, Invariance, PTL

(* Whatever is rescheduled, swept or stopped at the same time, a Runner is    *)
(* only ever recorded as busy with a task that is assigned to it.             *)
THEOREM RunnersBusyWithTheirOwn == Spec \/ EnrolledSpec => []CurrentIsAssigned
<1>1. TaskInv => CurrentIsAssigned
  BY DEF TaskInv
<1> QED BY <1>1, Invariance, PTL

(* A task is recorded as running or completed only if the agent of its        *)
(* current assignment said so, however recording and applying are interleaved *)
(* with continuations, sweeps and crashes.                                    *)
THEOREM OutcomesVouchedFor == Spec \/ EnrolledSpec => []OutcomeIsVouchedFor
<1>1. TaskInv => OutcomeIsVouchedFor
  BY DEF TaskInv
<1> QED BY <1>1, Invariance, PTL

(* A task that ran is never given to another Runner or another epoch, nor put *)
(* back in the queue (DOCS.md: no automatic transfer once it ran).            *)
THEOREM NeverTransferred == Spec \/ EnrolledSpec => RunningIsNeverTransferred
<1>1. TaskInv /\ [Next]_vars =>
        [\A t \in Tasks : task[t].ran =>
           /\ task'[t].owner = task[t].owner
           /\ task'[t].epoch = task[t].epoch
           /\ task'[t].state # "waiting_runner"]_vars
  <2> SUFFICES ASSUME TaskInv, Next, NEW t \in Tasks, task[t].ran
               PROVE  /\ task'[t].owner = task[t].owner
                      /\ task'[t].epoch = task[t].epoch
                      /\ task'[t].state # "waiting_runner"
    OBVIOUS
  <2>1. task[t].state \notin {"absent", "waiting_runner"}
    BY DEF TaskInv, UnstartedIsUnassigned
  <2>2. Keeps(t)
    BY <2>1, NextMoves DEF Moves, Drops, Leases
  <2> QED BY <2>1, <2>2 DEF Keeps
<1>2. [EnrolledNext]_vars => [Next]_vars
  BY DEF Next
<1> QED BY <1>1, <1>2, Invariance, PTL DEF Spec, EnrolledSpec, RunningIsNeverTransferred

----------------------------------------------------------------------------
(* Enrollment.  The invariant adds that a Runner that does not exist has      *)
(* neither token nor credential, and that a credential, a self check and the  *)
(* right to work come from a redemption.                                      *)

Registered(r) ==
    /\ Unique(enrollment[r], "pending")
    /\ Unique(credential[r], "active")
    /\ ~(Has(enrollment[r], "pending") /\ Has(credential[r], "active"))
    /\ runner[r].admin = "absent" => enrollment[r] = <<>> /\ credential[r] = <<>>
    /\ \/ runner[r].admin \in {"enabled", "draining"}
       \/ runner[r].checked
       \/ credential[r] # <<>>
       => Has(enrollment[r], "claimed")

LEMMA TurnKeeps ==
  ASSUME NEW S, NEW s \in Seq(S), NEW from, NEW to \in S
  PROVE  /\ \A v \in from \ {to} : ~Has(Turn(s, from, to), v)
         /\ \A v : v \notin from /\ Has(s, v) => Has(Turn(s, from, to), v)
  BY TurnType DEF Has

LEMMA AppendHas ==
  ASSUME NEW S, NEW s \in Seq(S), NEW v \in S
  PROVE  /\ ~Has(s, v) => Unique(Append(s, v), v)
         /\ \A u : Has(s, u) => Has(Append(s, v), u)
         /\ \A u : Has(Append(s, v), u) => Has(s, u) \/ u = v
         /\ Append(s, v) # <<>>
<1>1. /\ Len(Append(s, v)) = Len(s) + 1 /\ Len(s) \in Nat
      /\ DOMAIN Append(s, v) = 1 .. Len(s) + 1 /\ DOMAIN s = 1 .. Len(s)
      /\ \A i \in 1 .. Len(s) : Append(s, v)[i] = s[i]
      /\ Append(s, v)[Len(s) + 1] = v
  OBVIOUS
<1>2. \A i \in DOMAIN Append(s, v) : i \in DOMAIN s \/ i = Len(s) + 1
  BY <1>1
<1>3. ASSUME ~Has(s, v) PROVE Unique(Append(s, v), v)
  BY <1>1, <1>2, <1>3 DEF Has, Unique
<1>4. \A u : Has(s, u) => Has(Append(s, v), u)
  BY <1>1 DEF Has
<1>5. \A u : Has(Append(s, v), u) => Has(s, u) \/ u = v
  BY <1>1, <1>2 DEF Has
<1> QED BY <1>1, <1>3, <1>4, <1>5

LEMMA RegistryStepRegistered ==
  ASSUME RegistryTypeOK, NEW r \in Runners, Registered(r),
         RegistryStep \/ AdminStep
  PROVE  Registered(r)'
<1>1. /\ runner \in [Runners -> RunnerRow] /\ runner[r] \in RunnerRow
      /\ enrollment \in [Runners -> Seq(EnrollmentStates)]
      /\ enrollment[r] \in Seq(EnrollmentStates)
      /\ credential \in [Runners -> Seq(CredentialStates)]
      /\ credential[r] \in Seq(CredentialStates)
  BY DEF RegistryTypeOK
<1>2. ASSUME enrollment'[r] = enrollment[r], credential'[r] = credential[r],
             runner'[r].admin = runner[r].admin \/ runner'[r].admin \notin
                {"absent", "enabled", "draining"},
             runner'[r].checked = runner[r].checked
      PROVE  Registered(r)'
  BY <1>2 DEF Registered
<1>3. ASSUME NEW q \in Runners, q # r,
             \/ CreateEnrollment(q) \/ EnrollmentExpires(q)
             \/ \E i \in DOMAIN enrollment[q], ok \in BOOLEAN : RedeemEnrollment(q, i, ok)
             \/ RevokeEnrollment(q) \/ RegenerateEnrollment(q) \/ RotateCredential(q)
             \/ DeleteRunner(q)
      PROVE  Registered(r)'
  <2>1. enrollment'[r] = enrollment[r]
    BY <1>1, <1>3 DEF CreateEnrollment, EnrollmentExpires, RedeemEnrollment,
       RevokeEnrollment, RegenerateEnrollment, RotateCredential, DeleteRunner
  <2>2. credential'[r] = credential[r]
    BY <1>1, <1>3 DEF CreateEnrollment, EnrollmentExpires, RedeemEnrollment,
       RevokeEnrollment, RegenerateEnrollment, RotateCredential, DeleteRunner
  <2>3. runner'[r] = runner[r]
    BY <1>1, <1>3 DEF CreateEnrollment, EnrollmentExpires, RedeemEnrollment,
       RevokeEnrollment, RegenerateEnrollment, RotateCredential, DeleteRunner
  <2> QED BY <1>2, <2>1, <2>2, <2>3
<1>4. ASSUME NEW q \in Runners,
             EnableRunner(q) \/ DisableRunner(q) \/ Drain(q) \/ LinkAges(q)
      PROVE  Registered(r)'
  <2>1. enrollment' = enrollment /\ credential' = credential
    BY <1>4 DEF EnableRunner, DisableRunner, Drain, LinkAges
  <2>2. runner'[r].checked = runner[r].checked
    <3>1. CASE EnableRunner(q)
      BY <1>1, <3>1 DEF EnableRunner, RunnerRow
    <3>2. CASE DisableRunner(q)
      BY <1>1, <3>2 DEF DisableRunner, RunnerRow
    <3>3. CASE Drain(q)
      BY <1>1, <3>3 DEF Drain, RunnerRow
    <3>4. CASE LinkAges(q)
      BY <1>1, <3>4 DEF LinkAges, RunnerRow
    <3> QED BY <1>4, <3>1, <3>2, <3>3, <3>4
  <2>3. CASE EnableRunner(q) /\ q = r
    <3>1. Has(enrollment[r], "claimed") /\ runner'[r].admin = "enabled"
      BY <1>1, <2>3 DEF EnableRunner, Registered, RunnerRow
    <3> QED BY <2>1, <3>1 DEF Registered
  <2>4. CASE Drain(q) /\ q = r
    <3>1. Has(enrollment[r], "claimed") /\ runner'[r].admin \in {"draining", "disabled"}
      BY <1>1, <2>4 DEF Drain, Registered, RunnerRow
    <3> QED BY <2>1, <3>1 DEF Registered
  <2>5. CASE q # r
    <3>1. runner'[r] = runner[r]
      BY <1>1, <1>4, <2>5 DEF EnableRunner, DisableRunner, Drain, LinkAges
    <3> QED BY <1>2, <2>1, <3>1
  <2>6. CASE DisableRunner(q) /\ q = r
    <3>1. runner'[r].admin = "disabled"
      BY <1>1, <2>6 DEF DisableRunner, RunnerRow
    <3> QED BY <1>2, <2>1, <2>2, <3>1
  <2>7. CASE LinkAges(q)
    <3>1. runner'[r].admin = runner[r].admin
      BY <1>1, <2>7 DEF LinkAges, RunnerRow
    <3> QED BY <1>2, <2>1, <2>2, <3>1
  <2> QED BY <1>4, <2>3, <2>4, <2>5, <2>6, <2>7
<1>5. CASE CreateEnrollment(r)
  <2>1. /\ enrollment'[r] = <<"pending">> /\ credential'[r] = <<>>
        /\ runner'[r] = NewRow("pending")
    BY <1>1, <1>5 DEF CreateEnrollment, Registered
  <2> QED BY <2>1 DEF Registered, Unique, Has, NewRow
<1>6. CASE EnrollmentExpires(r) \/ RevokeEnrollment(r)
  <2>1. PICK i \in DOMAIN enrollment[r], to \in {"expired", "revoked"} :
          /\ enrollment[r][i] = "pending"
          /\ enrollment' = [enrollment EXCEPT ![r][i] = to]
          /\ UNCHANGED <<runner, credential>>
    <3>1. CASE EnrollmentExpires(r)
      BY <3>1 DEF EnrollmentExpires
    <3>2. CASE RevokeEnrollment(r)
      <4>1. Len(enrollment[r]) \in DOMAIN enrollment[r]
        BY <1>1, <3>2 DEF RevokeEnrollment
      <4> QED BY <3>2, <4>1 DEF RevokeEnrollment
    <3> QED BY <1>6, <3>1, <3>2
  <2>2. /\ DOMAIN enrollment'[r] = DOMAIN enrollment[r]
        /\ \A j \in DOMAIN enrollment[r] :
              enrollment'[r][j] = IF j = i THEN to ELSE enrollment[r][j]
    BY <1>1, <2>1
  <2>3. /\ Unique(enrollment'[r], "pending")
        /\ Has(enrollment'[r], "pending") => Has(enrollment[r], "pending")
        /\ Has(enrollment[r], "claimed") => Has(enrollment'[r], "claimed")
    BY <2>1, <2>2 DEF Registered, Unique, Has
  <2> QED BY <2>1, <2>3 DEF Registered
<1>7. ASSUME NEW i \in DOMAIN enrollment[r], NEW ok \in BOOLEAN, RedeemEnrollment(r, i, ok)
      PROVE  Registered(r)'
  <2>1. /\ enrollment[r][i] = "pending"
        /\ enrollment' = [enrollment EXCEPT ![r][i] = "claimed"]
        /\ credential'[r] = Append(credential[r], "active")
        /\ runner'[r].admin = runner[r].admin
    BY <1>1, <1>7 DEF RedeemEnrollment, Redeemable, RunnerRow
  <2>2. /\ DOMAIN enrollment'[r] = DOMAIN enrollment[r]
        /\ \A j \in DOMAIN enrollment[r] :
              enrollment'[r][j] = IF j = i THEN "claimed" ELSE enrollment[r][j]
    BY <1>1, <2>1
  <2>3. ~Has(enrollment'[r], "pending") /\ Has(enrollment'[r], "claimed")
    BY <2>1, <2>2 DEF Registered, Unique, Has
  <2>4. ~Has(credential[r], "active")
    BY <2>1 DEF Registered, Has
  <2>5. Unique(credential'[r], "active")
    BY <1>1, <2>1, <2>4, AppendHas DEF CredentialStates
  <2>6. Unique(enrollment'[r], "pending")
    BY <2>3 DEF Has, Unique
  <2>7. runner[r].admin # "absent"
    BY DEF Registered
  <2> QED BY <2>1, <2>3, <2>5, <2>6, <2>7 DEF Registered
<1>8. CASE RegenerateEnrollment(r)
  <2> DEFINE s == Turn(enrollment[r], {"pending", "expired"}, "revoked")
  <2>1. /\ enrollment'[r] = Append(s, "pending")
        /\ UNCHANGED <<runner, credential>>
        /\ ~Has(credential[r], "active")
    BY <1>1, <1>8 DEF RegenerateEnrollment, Reenrollable
  <2>2. s \in Seq(EnrollmentStates)
    BY <1>1, TurnType DEF EnrollmentStates
  <2>3. /\ ~Has(s, "pending")
        /\ Has(enrollment[r], "claimed") => Has(s, "claimed")
    <3> DEFINE from == {"pending", "expired"}
    <3>1. "revoked" \in EnrollmentStates
      BY DEF EnrollmentStates
    <3>2. "pending" \in from \ {"revoked"} /\ "claimed" \notin from
      OBVIOUS
    <3> HIDE DEF from
    <3>3. /\ \A v \in from \ {"revoked"} : ~Has(Turn(enrollment[r], from, "revoked"), v)
          /\ \A v : v \notin from /\ Has(enrollment[r], v)
                     => Has(Turn(enrollment[r], from, "revoked"), v)
      BY <1>1, <3>1, TurnKeeps
    <3> QED BY <3>2, <3>3 DEF s, from
  <2> HIDE DEF s
  <2>4. /\ Unique(enrollment'[r], "pending")
        /\ Has(enrollment[r], "claimed") => Has(enrollment'[r], "claimed")
    BY <2>1, <2>2, <2>3, AppendHas DEF EnrollmentStates
  <2>5. runner[r].admin # "absent"
    BY <1>8 DEF RegenerateEnrollment, Reenrollable
  <2> QED BY <2>1, <2>4, <2>5 DEF Registered
<1>9. CASE RotateCredential(r)
  <2> DEFINE s == Turn(credential[r], {"active"}, "revoked")
  <2>1. /\ credential'[r] = Append(s, "active")
        /\ UNCHANGED <<runner, enrollment>>
        /\ Has(credential[r], "active")
    BY <1>1, <1>9 DEF RotateCredential
  <2>2. s \in Seq(CredentialStates) /\ ~Has(s, "active")
    BY <1>1, TurnType, TurnKeeps DEF CredentialStates
  <2> HIDE DEF s
  <2>3. Unique(credential'[r], "active")
    BY <2>1, <2>2, AppendHas DEF CredentialStates
  <2>4. credential[r] # <<>>
    BY <2>1 DEF Has
  <2> QED BY <2>1, <2>3, <2>4 DEF Registered
<1>10. CASE DeleteRunner(r)
  <2> DEFINE s == Turn(credential[r], {"active"}, "revoked")
  <2>1. /\ credential'[r] = s /\ enrollment' = enrollment
        /\ runner'[r].admin = "revoked" /\ runner'[r].checked = runner[r].checked
    BY <1>1, <1>10 DEF DeleteRunner, RunnerRow
  <2>2. /\ s \in Seq(CredentialStates) /\ ~Has(s, "active")
        /\ DOMAIN s = DOMAIN credential[r]
    BY <1>1, TurnType, TurnKeeps DEF CredentialStates
  <2> HIDE DEF s
  <2>3. Unique(s, "active")
    BY <2>2 DEF Has, Unique
  <2>4. s # <<>> => credential[r] # <<>>
    BY <1>1, <2>2
  <2> QED BY <2>1, <2>2, <2>3, <2>4 DEF Registered
<1> QED BY <1>3, <1>4, <1>5, <1>6, <1>7, <1>8, <1>9, <1>10 DEF RegistryStep, AdminStep

(* Work neither enrolls nor enables: it can only disable a Runner, and what   *)
(* it knows of a self check it knows from an authenticated heartbeat.         *)
LEMMA WorkStepRegistered ==
  ASSUME TypeOK, NEW r \in Runners, Registered(r), WorkStep
  PROVE  Registered(r)'
<1>1. /\ runner \in [Runners -> RunnerRow] /\ runner[r] \in RunnerRow
  BY DEF TypeOK, RegistryTypeOK
<1>2. ASSUME UNCHANGED <<enrollment, credential>>,
             \/ runner'[r].admin = runner[r].admin
             \/ runner'[r].admin = "disabled",
             runner'[r].checked = runner[r].checked \/ Authenticated(r)
      PROVE  Registered(r)'
  <2>1. Authenticated(r) => credential[r] # <<>>
    BY DEF Authenticated, Has
  <2> QED BY <1>2, <2>1 DEF Registered
<1>3. ASSUME UNCHANGED registryVars PROVE Registered(r)'
  BY <1>2, <1>3 DEF registryVars
<1>4. ASSUME NEW row \in RunnerRow
      PROVE  /\ Freed(row) \in RunnerRow /\ Freed(row).admin = row.admin
             /\ Freed(row).checked = row.checked
             /\ Undrained(row).admin \in {row.admin, "disabled"}
             /\ Undrained(row).checked = row.checked
             /\ Undrained(row) \in RunnerRow
  BY FreedRow, UndrainedRow DEF Freed, Undrained, RunnerRow
<1>5. ASSUME OwnerStep PROVE Registered(r)'
  <2>1. PICK t \in Tasks :
           \/ CreateWorkTask(t) \/ CancelAtOnce(t) \/ RequestCancel(t) \/ Continue(t)
           \/ \E delivered \in BOOLEAN : PublishControl(t, delivered)
    BY <1>5 DEF OwnerStep
  <2>2. CASE Continue(t)
    <3> DEFINE q == task[t].owner
    <3>1. /\ runner' = [runner EXCEPT ![q].work = "busy", ![q].current = t]
          /\ UNCHANGED <<enrollment, credential>>
      BY <2>2 DEF Continue
    <3> HIDE DEF q
    <3>2. /\ runner'[r].admin = runner[r].admin
          /\ runner'[r].checked = runner[r].checked
      BY <1>1, <3>1 DEF RunnerRow
    <3> QED BY <1>2, <3>1, <3>2
  <2> QED BY <1>3, <2>1, <2>2 DEF CreateWorkTask, CancelAtOnce, RequestCancel,
          PublishControl
<1>6. ASSUME DispatchStep PROVE Registered(r)'
  <2>1. ASSUME NEW t, NEW q \in Runners, NEW passed, ClaimNext(t, q, passed)
        PROVE  Registered(r)'
    <3>1. /\ runner' = [runner EXCEPT ![q].work = "busy", ![q].current = t]
          /\ UNCHANGED <<enrollment, credential>>
      BY <2>1 DEF ClaimNext
    <3>2. /\ runner'[r].admin = runner[r].admin
          /\ runner'[r].checked = runner[r].checked
      BY <1>1, <3>1 DEF RunnerRow
    <3> QED BY <1>2, <3>1, <3>2
  <2>2. ASSUME NEW d, NEW delivered, MarkDispatched(d) \/ PublishRequest(d, delivered)
        PROVE  Registered(r)'
    BY <1>3, <2>2 DEF MarkDispatched, PublishRequest
  <2>3. ASSUME NEW d, RescheduleUndelivered(d) PROVE Registered(r)'
    <3>1. /\ \/ runner' = runner
             \/ runner' = [runner EXCEPT ![d.runner] = [Freed(@) EXCEPT !.link = "offline"]]
          /\ UNCHANGED <<enrollment, credential>>
      BY <2>3 DEF RescheduleUndelivered
    <3>2. LET row == [Freed(runner[r]) EXCEPT !.link = "offline"]
          IN row.admin = runner[r].admin /\ row.checked = runner[r].checked
      BY <1>1, <1>4 DEF RunnerRow
    <3>3. /\ runner'[r].admin = runner[r].admin
          /\ runner'[r].checked = runner[r].checked
      BY <1>1, <3>1, <3>2
    <3> QED BY <1>2, <3>1, <3>3
  <2> QED BY <1>6, <2>1, <2>2, <2>3 DEF DispatchStep
<1>7. ASSUME AgentStep PROVE Registered(r)'
  <2>1. ASSUME NEW q \in Runners, NEW a, NEW report, Heartbeat(q, a, report)
        PROVE  Registered(r)'
    <3>1. /\ runner' = [runner EXCEPT
               ![q].link = IF report.online THEN "online" ELSE "offline",
               ![q].checked = report.checked,
               ![q].work = IF runner[q].current # NoTask /\ report.work = "idle" THEN @
                           ELSE report.work]
          /\ UNCHANGED <<enrollment, credential>>
          /\ Authenticated(q)
      BY <2>1 DEF Heartbeat
    <3>2. /\ runner'[r].admin = runner[r].admin
          /\ q # r => runner'[r].checked = runner[r].checked
      BY <1>1, <3>1 DEF RunnerRow
    <3> QED BY <1>2, <3>1, <3>2
  <2>2. ASSUME NEW q, NEW a, NEW kind, NEW state, NEW n, Report(q, a, kind, state, n)
        PROVE  Registered(r)'
    BY <1>3, <2>2 DEF Report
  <2>3. ASSUME NEW m, Resend(m) PROVE Registered(r)'
    BY <1>3, <2>3 DEF Resend
  <2> QED BY <1>7, <2>1, <2>2, <2>3 DEF AgentStep
<1>8. ASSUME MessageStep PROVE Registered(r)'
  <2>1. ASSUME NEW m, RecordMessage(m) PROVE Registered(r)'
    BY <1>3, <2>1 DEF RecordMessage
  <2>2. ASSUME NEW m, ApplyStatus(m) PROVE Registered(r)'
    <3>1. /\ \/ runner' = runner
             \/ runner' = [runner EXCEPT ![m.runner].work = "recovery_required",
                                         ![m.runner].current = m.task]
          /\ UNCHANGED <<enrollment, credential>>
      BY <2>2 DEF ApplyStatus
    <3>2. /\ runner'[r].admin = runner[r].admin
          /\ runner'[r].checked = runner[r].checked
      BY <1>1, <3>1 DEF RunnerRow
    <3> QED BY <1>2, <3>1, <3>2
  <2>3. ASSUME NEW m, ApplyResult(m) PROVE Registered(r)'
    <3> DEFINE held == [Undrained(runner[r]) EXCEPT !.work = "recovery_required",
                                                    !.current = m.task]
               free == Undrained(Freed(runner[r]))
    <3>1. /\ runner'[r] \in {runner[r], held, free}
          /\ UNCHANGED <<enrollment, credential>>
      BY <1>1, <2>3 DEF ApplyResult
    <3>2. /\ held.admin \in {runner[r].admin, "disabled"} /\ held.checked = runner[r].checked
          /\ free.admin \in {runner[r].admin, "disabled"} /\ free.checked = runner[r].checked
      BY <1>1, <1>4 DEF RunnerRow
    <3> HIDE DEF held, free
    <3> QED BY <1>2, <3>1, <3>2
  <2> QED BY <1>8, <2>1, <2>2, <2>3 DEF MessageStep
<1>9. ASSUME RecoveryStep PROVE Registered(r)'
  <2>1. ASSUME NEW q \in Runners, EmergencyDisable(q) PROVE Registered(r)'
    <3> DEFINE stopped == [Freed(runner[r]) EXCEPT !.admin = "disabled"]
               held == [runner[r] EXCEPT !.admin = "disabled", !.work = "recovery_required"]
               quiet == [runner[r] EXCEPT !.admin = "disabled"]
    <3>1. /\ runner'[r] \in {runner[r], stopped, held, quiet}
          /\ UNCHANGED <<enrollment, credential>>
      BY <1>1, <2>1 DEF EmergencyDisable
    <3>2. /\ stopped.admin = "disabled" /\ stopped.checked = runner[r].checked
          /\ held.admin = "disabled" /\ held.checked = runner[r].checked
          /\ quiet.admin = "disabled" /\ quiet.checked = runner[r].checked
      BY <1>1, <1>4 DEF RunnerRow
    <3> HIDE DEF stopped, held, quiet
    <3> QED BY <1>2, <3>1, <3>2
  <2>2. ASSUME NEW q, NEW t, ResolveTaskRecovery(q, t) PROVE Registered(r)'
    <3>1. /\ runner'[r] \in {runner[r], Undrained(Freed(runner[r]))}
          /\ UNCHANGED <<enrollment, credential>>
      BY <1>1, <2>2 DEF ResolveTaskRecovery
    <3> QED BY <1>1, <1>2, <1>4, <3>1
  <2>3. ASSUME Sweep PROVE Registered(r)'
    <3>1. PICK last \in [Runners -> Tasks \cup {NoTask}] :
           /\ runner' = [q \in Runners |->
                         LET row == SweptRunner(q, last[q])
                         IN IF row.current = NoTask THEN Undrained(row) ELSE row]
           /\ UNCHANGED <<enrollment, credential>>
           /\ last[r] = NoTask \/ last[r] \in Tasks
      BY <2>3 DEF Sweep
    <3> DEFINE row == SweptRunner(r, last[r])
               held == [runner[r] EXCEPT !.work = "recovery_required", !.current = last[r]]
    <3>2. last[r] # NoTask => /\ held \in RunnerRow /\ held.admin = runner[r].admin
                              /\ held.checked = runner[r].checked
      BY <1>1, <3>1 DEF RunnerRow, WorkStates
    <3>3. row \in {runner[r], Freed(runner[r])} \/ (last[r] # NoTask /\ row = held)
      <4>1. CASE last[r] = NoTask
        BY <4>1 DEF SweptRunner
      <4>2. CASE last[r] # NoTask
        BY <4>2 DEF SweptRunner
      <4> QED BY <4>1, <4>2
    <3> HIDE DEF held
    <3>4. row \in RunnerRow /\ row.admin = runner[r].admin /\ row.checked = runner[r].checked
      BY <1>1, <1>4, <3>2, <3>3
    <3>5. runner'[r] \in {row, Undrained(row)}
      BY <3>1
    <3> HIDE DEF row
    <3> QED BY <1>2, <1>4, <3>1, <3>4, <3>5
  <2>4. ASSUME NEW t, LeaseLapses(t) \/ TaskOverdue(t) PROVE Registered(r)'
    BY <1>3, <2>4 DEF LeaseLapses, TaskOverdue
  <2>5. ASSUME Crash PROVE Registered(r)'
    BY <1>3, <2>5 DEF Crash
  <2> QED BY <1>9, <2>1, <2>2, <2>3, <2>4, <2>5 DEF RecoveryStep
<1> QED BY <1>5, <1>6, <1>7, <1>8, <1>9 DEF WorkStep

LEMMA AllRegistered == Spec \/ EnrolledSpec => [](\A r \in Runners : Registered(r))
<1> DEFINE Inv == \A r \in Runners : Registered(r)
<1>1. Init \/ EnrolledInit => Inv
  <2> SUFFICES ASSUME Init \/ EnrolledInit, NEW r \in Runners PROVE Registered(r)
    OBVIOUS
  <2>1. CASE Init
    <3>1. /\ enrollment[r] = <<>> /\ credential[r] = <<>>
          /\ runner[r].admin = "absent" /\ ~runner[r].checked
      BY <2>1 DEF Init, RegistryInit, NewRow
    <3> QED BY <3>1 DEF Registered, Unique, Has
  <2>2. CASE EnrolledInit
    <3>1. enrollment[r] = <<"claimed">> /\ credential[r] = <<"active">>
      BY <2>2 DEF EnrolledInit
    <3>2. runner[r].admin = "enabled"
      BY <2>2 DEF EnrolledInit, NewRow
    <3>3. Unique(credential[r], "active") /\ Unique(enrollment[r], "pending")
      BY <3>1 DEF Unique
    <3>4. Has(enrollment[r], "claimed") /\ ~Has(enrollment[r], "pending")
      BY <3>1 DEF Has
    <3> QED BY <3>2, <3>3, <3>4 DEF Registered
  <2> QED BY <2>1, <2>2
<1>2. TaskInv /\ Inv /\ [Next]_vars => Inv'
  <2> SUFFICES ASSUME TaskInv, Inv, [Next]_vars, NEW r \in Runners PROVE Registered(r)'
    OBVIOUS
  <2>1. CASE UNCHANGED vars
    BY <2>1 DEF vars, registryVars, Registered
  <2>2. CASE Next
    BY <2>2, RegistryStepRegistered, WorkStepRegistered
       DEF Next, EnrolledNext, TaskInv, TypeOK
  <2> QED BY <2>1, <2>2
<1>3. [EnrolledNext]_vars => [Next]_vars
  BY DEF Next
<1> QED BY <1>1, <1>2, <1>3, Invariance, PTL DEF Spec, EnrolledSpec

(* A Runner never has two credentials that work, two tokens that could still  *)
(* be redeemed, or one of each, however enrollments are expired, revoked,     *)
(* regenerated, redeemed and credentials rotated.                             *)
THEOREM OnlyOneWayIn == Spec \/ EnrolledSpec => []OneWayIn
<1>1. (\A r \in Runners : Registered(r)) => OneWayIn
  BY DEF Registered, OneWayIn
<1> QED BY <1>1, AllRegistered, PTL
==============================================================================
