---------------------------- MODULE RunnerTasks ----------------------------
(* The task half of codex_controller/runner_store.py with the threads of      *)
(* runner_service.py that drive it: waiting tasks are leased to Runners,      *)
(* published through the Relay, reported on by the agents, cancelled,         *)
(* continued, swept and recovered.                                            *)
(*                                                                            *)
(* A step is one transaction.  dispatch_waiting is three (claim_next,         *)
(* mark_dispatched, what becomes of the publication), a status or a result is *)
(* two (_record_message, then the update), a continuation is two (the command *)
(* and its control document); anything may happen in between, a crash too.    *)
(*                                                                            *)
(* A lease_id is identified by its task and assignment epoch.  The labels and *)
(* projects that make a Runner eligible and the order of the queue are a free *)
(* choice.  The agents are external: an agent reports on the assignments it   *)
(* was sent, with growing sequence numbers, falls silent after a result until *)
(* a continuation reaches it, and may resend any message.                     *)
EXTENDS RunnerRegistry, FiniteSets

CONSTANTS NoRunner,   \* assigned_runner_id IS NULL
          MaxEpoch, MaxSequence, MaxHandlers,   \* bounds
          StatusReports, ResultReports   \* the states agents may report

Terminal == {"completed", "failed", "cancelled", "expired"}
Active   == {"leased", "dispatched", "queued", "running", "awaiting_confirmation"}
TaskStates == Terminal \cup Active \cup {"absent", "waiting_runner", "recovery_required"}

ASSUME NoRunnerAssumption == NoRunner \notin Runners
ASSUME BoundsAssumption == MaxEpoch \in Nat /\ MaxSequence \in Nat \ {0}
ASSUME StatusAssumption == StatusReports \subseteq
    {"queued", "running", "awaiting_confirmation", "recovery_required"}
ASSUME ResultAssumption == ResultReports \subseteq
    Terminal \cup {"awaiting_confirmation", "recovery_required"}

Epochs == 1 .. MaxEpoch
Sequences == 2 .. MaxSequence

VARIABLES task,         \* runner_tasks, by task_id
          lease,        \* runner_leases: the state of each epoch's row
          messages,     \* runner_messages
          arrived,      \* messages verified and not yet recorded
          applying,     \* messages recorded whose update is still to come
          dispatching,  \* assignments dispatch_waiting has claimed
          controls,     \* tasks whose continuation is still to be published
          working,      \* external: assignments an agent is working on
          sent          \* external: every message the agents have produced

taskVars == <<task, lease, messages, arrived, applying, dispatching, controls,
              working, sent>>
threadVars == <<arrived, applying, dispatching, controls>>
agentVars == <<working, sent>>

(* "ran" is ever_running, "lapsed" and "overdue" compare lease_expires_at and *)
(* expires_at with the clock, "lost" is the note sweep leaves when a Runner   *)
(* that had started the task disappears.                                      *)
TaskRow == [state: TaskStates, owner: Runners \cup {NoRunner},
            epoch: 0 .. MaxEpoch, sequence: 0 .. MaxSequence,
            ran: BOOLEAN, lapsed: BOOLEAN, overdue: BOOLEAN, lost: BOOLEAN]
LeaseStates == {"none", "active", "released", "expired"}
Message ==
    [kind: {"status"}, runner: Runners, task: Tasks, epoch: Epochs,
     sequence: Sequences, state: StatusReports] \cup
    [kind: {"result"}, runner: Runners, task: Tasks, epoch: Epochs,
     sequence: Sequences, state: ResultReports]
Assignment == [task: Tasks, epoch: Epochs]
Dispatch == [task: Tasks, runner: Runners, epoch: Epochs, marked: BOOLEAN]

TasksTypeOK ==
    /\ task \in [Tasks -> TaskRow]
    /\ lease \in [Tasks -> [Epochs -> LeaseStates]]
    /\ messages \subseteq Message
    /\ arrived \subseteq Message
    /\ applying \subseteq Message
    /\ dispatching \subseteq Dispatch
    /\ controls \subseteq Tasks
    /\ working \in [Runners -> SUBSET Assignment]
    /\ sent \subseteq Message

TypeOK == RegistryTypeOK /\ TasksTypeOK

TasksInit ==
    /\ task = [t \in Tasks |-> [state |-> "absent", owner |-> NoRunner,
                                epoch |-> 0, sequence |-> 0, ran |-> FALSE,
                                lapsed |-> FALSE, overdue |-> FALSE, lost |-> FALSE]]
    /\ lease = [t \in Tasks |-> [e \in Epochs |-> "none"]]
    /\ messages = {} /\ arrived = {} /\ applying = {}
    /\ dispatching = {} /\ controls = {}
    /\ working = [r \in Runners |-> {}]
    /\ sent = {}

-----------------------------------------------------------------------------
(* Updates several operations share.                                         *)

(* UPDATE runner_leases SET state=how WHERE task_id=t AND state='active'     *)
Released(t, how) ==
    [lease EXCEPT ![t] = [e \in Epochs |-> IF lease[t][e] = "active" THEN how
                                           ELSE lease[t][e]]]

(* the task columns that go back to NULL together with the assignment        *)
Unassigned(row, state) == [row EXCEPT !.state = state, !.owner = NoRunner,
                                      !.lapsed = FALSE, !.lost = FALSE]

(* Mutant: a drained Runner is left draining.                                *)
StaysDraining(row) == row

(* a Runner row after its task is over                                       *)
Freed(row) == [row EXCEPT !.work = "idle", !.current = NoTask]
Undrained(row) == [row EXCEPT !.admin = IF @ = "draining" THEN "disabled" ELSE @]

(* an agent's next message of an assignment: one number after the last       *)
Numbered(r, a, n) ==
    LET said == {m \in sent : m.runner = r /\ m.task = a.task /\ m.epoch = a.epoch}
    IN /\ \A m \in said : m.sequence < n
       /\ n = 2 \/ \E m \in said : m.sequence = n - 1

(* Mutant: the assignment epoch of a message is not compared.                *)
IsAssignee(m) == task[m.task].owner = m.runner

IsAssignment(m) == /\ task[m.task].owner = m.runner
                   /\ task[m.task].epoch = m.epoch

-----------------------------------------------------------------------------
(* Commands of the owner.                                                    *)

CreateWorkTask(t) ==
    /\ task[t].state = "absent"
    /\ task' = [task EXCEPT ![t].state = "waiting_runner"]
    /\ UNCHANGED <<registryVars, lease, messages, threadVars, agentVars>>

(* command_task "cancel" of a task nobody holds, or that awaits confirmation: *)
(* in the second case the assignment and the Runner are left as they are.     *)
CancelAtOnce(t) ==
    /\ task[t].state \notin Terminal \cup {"absent"}
    /\ \/ /\ task[t].state = "awaiting_confirmation"
          /\ task' = [task EXCEPT ![t].state = "cancelled", ![t].lost = FALSE]
          /\ UNCHANGED lease
       \/ /\ task[t].state # "awaiting_confirmation"
          /\ task[t].owner = NoRunner
          /\ task' = [task EXCEPT ![t] = Unassigned(@, "cancelled")]
          /\ lease' = Released(t, "released")
    /\ UNCHANGED <<registryVars, messages, threadVars, agentVars>>

(* command_task "cancel" of a held task only notes that it waits for the     *)
(* Runner; the control document asks the agent to stop.                      *)
RequestCancel(t) ==
    /\ task[t].state \notin Terminal \cup {"absent", "awaiting_confirmation"}
    /\ task[t].owner # NoRunner
    /\ task' = [task EXCEPT ![t].lost = FALSE]
    /\ UNCHANGED <<registryVars, lease, messages, threadVars, agentVars>>

(* command_task "continue": reactivate a finished task where it ran.         *)
Continue(t) ==
    LET r == task[t].owner IN
    /\ task[t].state \in Terminal \cup {"awaiting_confirmation"}
    /\ r # NoRunner
    /\ runner[r].admin = "enabled"
    /\ runner[r].link = "online"
    /\ task' = [task EXCEPT ![t].state = "dispatched", ![t].lapsed = FALSE,
                            ![t].overdue = FALSE, ![t].lost = FALSE]
    /\ lease' = [lease EXCEPT ![t][task[t].epoch] = "active"]
    /\ runner' = [runner EXCEPT ![r].work = "busy", ![r].current = t]
    /\ controls' = controls \cup {t}
    /\ UNCHANGED <<enrollment, credential, messages, arrived, applying,
                   dispatching, agentVars>>

(* work_command publishes the continuation: control_document reads the        *)
(* assignment again, and the Relay delivers it or does not.                   *)
PublishControl(t, delivered) ==
    LET r == task[t].owner IN
    /\ t \in controls
    /\ controls' = controls \ {t}
    /\ working' = IF r # NoRunner /\ delivered
                  THEN [working EXCEPT ![r] =
                          @ \cup {[task |-> t, epoch |-> task[t].epoch]}]
                  ELSE working
    /\ UNCHANGED <<registryVars, task, lease, messages, arrived, applying,
                   dispatching, sent>>

-----------------------------------------------------------------------------
(* Dispatching: dispatch_waiting, on the manager thread and on the request    *)
(* threads at once.                                                           *)

Waiting == {t \in Tasks : task[t].state = "waiting_runner"}
Overdue == {t \in Waiting : task[t].overdue}

Claimable(r) == /\ runner[r].admin = "enabled"
                /\ ~runner[r].archived
                /\ runner[r].work = "idle"
                /\ runner[r].current = NoTask
                /\ runner[r].link = "online"

(* claim_next: the overdue tasks it passes on its way expire, the first that  *)
(* has an eligible Runner is leased to it under the next epoch.  A second     *)
(* active lease of one task would break the unique index and roll back.       *)
ClaimNext(t, r, passed) ==
    LET e == task[t].epoch + 1 IN
    /\ t \in Waiting \ Overdue
    /\ passed \subseteq Overdue
    /\ Claimable(r)
    /\ \A i \in Epochs : lease[t][i] # "active"
    /\ e \in Epochs
    /\ Cardinality(dispatching) < MaxHandlers
    /\ task' = [u \in Tasks |->
                  IF u = t THEN [task[t] EXCEPT !.state = "leased", !.owner = r,
                                   !.epoch = e, !.sequence = 1, !.lapsed = FALSE]
                  ELSE IF u \in passed THEN [task[u] EXCEPT !.state = "expired"]
                  ELSE task[u]]
    /\ lease' = [lease EXCEPT ![t][e] = "active"]
    /\ runner' = [runner EXCEPT ![r].work = "busy", ![r].current = t]
    /\ dispatching' = dispatching \cup
         {[task |-> t, runner |-> r, epoch |-> e, marked |-> FALSE]}
    /\ UNCHANGED <<enrollment, credential, messages, arrived, applying, controls,
                   agentVars>>

(* mark_dispatched; when it refuses, dispatch_waiting stops before publishing *)
MarkDispatched(d) ==
    LET go == task[d.task].state \in {"leased", "dispatched"} IN
    /\ d \in dispatching /\ ~d.marked
    /\ task' = IF go THEN [task EXCEPT ![d.task].state = "dispatched",
                                       ![d.task].lost = FALSE]
               ELSE task
    /\ dispatching' = (dispatching \ {d}) \cup
         (IF go THEN {[d EXCEPT !.marked = TRUE]} ELSE {})
    /\ UNCHANGED <<registryVars, lease, messages, arrived, applying, controls,
                   agentVars>>

(* publish_request succeeds, or fails without saying whether it arrived       *)
PublishRequest(d, delivered) ==
    /\ d \in dispatching /\ d.marked
    /\ dispatching' = dispatching \ {d}
    /\ working' = IF delivered
                  THEN [working EXCEPT ![d.runner] =
                          @ \cup {[task |-> d.task, epoch |-> d.epoch]}]
                  ELSE working
    /\ UNCHANGED <<registryVars, task, lease, messages, arrived, applying,
                   controls, sent>>

StillUndelivered(d) ==
    /\ task[d.task].state \in {"leased", "dispatched"}
    /\ ~task[d.task].ran
    /\ task[d.task].owner = d.runner
    /\ task[d.task].epoch = d.epoch
    /\ lease[d.task][d.epoch] = "active"
    /\ runner[d.runner].current = d.task
    /\ runner[d.runner].work = "busy"

(* The Relay answers runner_offline: reschedule_undelivered, which refuses    *)
(* when the assignment has moved on.                                          *)
RescheduleUndelivered(d) ==
    /\ d \in dispatching /\ d.marked
    /\ dispatching' = dispatching \ {d}
    /\ IF StillUndelivered(d)
       THEN /\ lease' = [lease EXCEPT ![d.task][d.epoch] = "released"]
            /\ task' = [task EXCEPT ![d.task] = Unassigned(@, "waiting_runner")]
            /\ runner' = [runner EXCEPT ![d.runner] = [Freed(@) EXCEPT !.link = "offline"]]
       ELSE UNCHANGED <<lease, task, runner>>
    /\ UNCHANGED <<enrollment, credential, messages, arrived, applying, controls,
                   agentVars>>

-----------------------------------------------------------------------------
(* What the agents report.                                                   *)

(* heartbeat about no task (NoTask) or about an assignment the agent works   *)
(* on; the lease of an active task is renewed, a report about anything else  *)
(* than the current assignment is refused as a whole.                        *)
Renews(a, report) == report.online /\ task[a.task].state \in Active

Heartbeat(r, a, report) ==
    /\ Authenticated(r)
    /\ a \in working[r] \cup {NoTask}
    /\ \/ a = NoTask /\ UNCHANGED task
       \/ /\ a # NoTask
          /\ a.task = runner[r].current
          /\ task[a.task].owner = r /\ task[a.task].epoch = a.epoch
          /\ Renews(a, report) => lease[a.task][a.epoch] = "active"
          /\ task' = IF Renews(a, report) THEN [task EXCEPT ![a.task].lapsed = FALSE]
                     ELSE task
    /\ runner' = [runner EXCEPT
         ![r].link = IF report.online THEN "online" ELSE "offline",
         ![r].checked = report.checked,
         ![r].work = IF runner[r].current # NoTask /\ report.work = "idle" THEN @
                     ELSE report.work]
    /\ UNCHANGED <<enrollment, credential, lease, messages, threadVars, agentVars>>

(* The agent's next status or result of an assignment reaches a handler and  *)
(* its credential is verified.  A result, or a status that asks for a human, *)
(* is the last until the task is continued.                                  *)
Report(r, a, kind, state, n) ==
    LET m == [kind |-> kind, runner |-> r, task |-> a.task, epoch |-> a.epoch,
              sequence |-> n, state |-> state] IN
    /\ a \in working[r]
    /\ state \in IF kind = "status" THEN StatusReports ELSE ResultReports
    /\ Numbered(r, a, n)
    /\ Authenticated(r)
    /\ Cardinality(arrived \cup applying) < MaxHandlers
    /\ sent' = sent \cup {m}
    /\ arrived' = arrived \cup {m}
    /\ working' = IF state \in {"queued", "running"} THEN working
                  ELSE [working EXCEPT ![r] = @ \ {a}]
    /\ UNCHANGED <<registryVars, task, lease, messages, applying, dispatching,
                   controls>>

(* what was sent and perhaps handled already is sent again                   *)
Resend(m) ==
    /\ m \in sent \ arrived
    /\ Authenticated(m.runner)
    /\ Cardinality(arrived \cup applying) < MaxHandlers
    /\ arrived' = arrived \cup {m}
    /\ UNCHANGED <<registryVars, task, lease, messages, applying, dispatching,
                   controls, agentVars>>

(* _record_message (and, for a result, _reject_immutable_late_result): new,  *)
(* of the current assignment, ahead of the task's sequence, and not late.    *)
Acceptable(m) ==
    /\ m \notin messages
    /\ IsAssignment(m)
    /\ m.sequence > task[m.task].sequence
    /\ task[m.task].state # "recovery_required"
    /\ m.kind = "result" =>
         task[m.task].state \notin Terminal \cup {"awaiting_confirmation"}

RecordMessage(m) ==
    /\ m \in arrived
    /\ arrived' = arrived \ {m}
    /\ IF Acceptable(m) THEN /\ messages' = messages \cup {m}
                             /\ applying' = applying \cup {m}
       ELSE UNCHANGED <<messages, applying>>
    /\ UNCHANGED <<registryVars, task, lease, dispatching, controls, agentVars>>

(* the update of record_status                                               *)
ApplyStatus(m) ==
    /\ m \in applying /\ m.kind = "status"
    /\ applying' = applying \ {m}
    /\ IF IsAssignment(m)
       THEN /\ task' = [task EXCEPT ![m.task].state = m.state,
                          ![m.task].ran = @ \/ m.state = "running",
                          ![m.task].sequence = m.sequence, ![m.task].lost = FALSE]
            /\ runner' = IF m.state # "recovery_required" THEN runner
                         ELSE [runner EXCEPT ![m.runner].work = "recovery_required",
                                             ![m.runner].current = m.task]
       ELSE UNCHANGED <<task, runner>>
    /\ UNCHANGED <<enrollment, credential, lease, messages, arrived, dispatching,
                   controls, agentVars>>

(* the update of record_result, which frees the Runner whatever it is busy   *)
(* with                                                                      *)
ApplyResult(m) ==
    /\ m \in applying /\ m.kind = "result"
    /\ applying' = applying \ {m}
    /\ IF IsAssignment(m)
       THEN /\ task' = [task EXCEPT ![m.task].state = m.state,
                          ![m.task].sequence = m.sequence, ![m.task].lost = FALSE]
            /\ lease' = [lease EXCEPT ![m.task][m.epoch] =
                           IF @ = "active" THEN "released" ELSE @]
            /\ runner' = [runner EXCEPT ![m.runner] =
                            IF m.state = "recovery_required"
                            THEN [Undrained(@) EXCEPT !.work = "recovery_required",
                                                      !.current = m.task]
                            ELSE Undrained(Freed(@))]
       ELSE UNCHANGED <<task, lease, runner>>
    /\ UNCHANGED <<enrollment, credential, messages, arrived, dispatching, controls,
                   agentVars>>

-----------------------------------------------------------------------------
(* Recovery.                                                                 *)

EmergencyDisable(r) ==
    LET t == runner[r].current IN
    /\ runner[r].admin \notin {"absent", "revoked"}
    /\ \/ /\ t = NoTask
          /\ runner' = [runner EXCEPT ![r].admin = "disabled"]
          /\ UNCHANGED <<task, lease>>
       \/ /\ t # NoTask /\ task[t].ran
          /\ task' = [task EXCEPT ![t].state = "recovery_required", ![t].lost = FALSE]
          /\ runner' = [runner EXCEPT ![r].admin = "disabled",
                                      ![r].work = "recovery_required"]
          /\ UNCHANGED lease
       \/ /\ t # NoTask /\ ~task[t].ran
          /\ task' = [task EXCEPT ![t] = Unassigned(@, "cancelled")]
          /\ lease' = Released(t, "released")
          /\ runner' = [runner EXCEPT ![r] = [Freed(@) EXCEPT !.admin = "disabled"]]
    /\ UNCHANGED <<enrollment, credential, messages, threadVars, agentVars>>

(* resolve_task_recovery: the operator has looked and confirms the failure.  *)
Linked(r, t) == runner[r].current = t /\ runner[r].work = "recovery_required"
Orphaned(r, t) ==
    /\ runner[r].current = NoTask /\ runner[r].work = "idle"
    /\ task[t].lost
    /\ ~ \E u \in Tasks \ {t} : /\ task[u].owner = r
                                /\ task[u].state \in Active \cup {"recovery_required"}

ResolveTaskRecovery(r, t) ==
    /\ task[t].owner = r
    /\ task[t].state = "recovery_required"
    /\ Linked(r, t) \/ Orphaned(r, t)
    /\ task' = [task EXCEPT ![t].state = "failed", ![t].lost = FALSE]
    /\ lease' = Released(t, "released")
    /\ runner' = [runner EXCEPT ![r] = Undrained(Freed(@))]
    /\ UNCHANGED <<enrollment, credential, messages, threadVars, agentVars>>

(* Mutant: sweep looks at running tasks only.                                *)
RunningOutOfReach(t) ==
    /\ task[t].state = "running"
    /\ task[t].owner # NoRunner
    /\ runner[task[t].owner].link = "offline"
    /\ task[t].lapsed

(* sweep, one transaction over every task.  A held task whose Runner is      *)
(* offline and whose lease is over goes to recovery if it ever ran and back  *)
(* to the queue if not.  Where a Runner had several, the last one handled    *)
(* decides what its row says.                                                *)
OutOfReach(t) ==
    /\ task[t].state \in {"leased", "dispatched", "queued", "running"}
    /\ task[t].owner # NoRunner
    /\ runner[task[t].owner].link = "offline"
    /\ task[t].lapsed

OutOfReachOf(r) == {t \in Tasks : OutOfReach(t) /\ task[t].owner = r}

(* Mutants: a task that ran is queued again; overdue tasks are passed over;  *)
(* the lease of a task that is queued again stays active; a Runner that lost *)
(* its task keeps it as its current one.                                     *)
RequeuedTask(t) ==
    IF t \in Overdue THEN [task[t] EXCEPT !.state = "expired"]
    ELSE IF OutOfReach(t) THEN Unassigned(task[t], "waiting_runner") ELSE task[t]

PatientTask(t) ==
    IF ~OutOfReach(t) THEN task[t]
    ELSE IF task[t].ran THEN [task[t] EXCEPT !.state = "recovery_required", !.lost = TRUE]
    ELSE Unassigned(task[t], "waiting_runner")

LingeringLease(t) == lease[t]

ClingingRunner(r, last) ==
    IF last = NoTask THEN runner[r]
    ELSE IF task[last].ran THEN [runner[r] EXCEPT !.work = "recovery_required",
                                                  !.current = last]
    ELSE [runner[r] EXCEPT !.work = "idle"]

SweptTask(t) ==
    IF t \in Overdue THEN [task[t] EXCEPT !.state = "expired"]
    ELSE IF ~OutOfReach(t) THEN task[t]
    ELSE IF task[t].ran THEN [task[t] EXCEPT !.state = "recovery_required", !.lost = TRUE]
    ELSE Unassigned(task[t], "waiting_runner")

SweptLease(t) ==
    IF OutOfReach(t) /\ ~task[t].ran THEN Released(t, "expired")[t] ELSE lease[t]

SweptRunner(r, last) ==
    IF last = NoTask THEN runner[r]
    ELSE IF task[last].ran THEN [runner[r] EXCEPT !.work = "recovery_required",
                                                  !.current = last]
    ELSE Freed(runner[r])

Sweep ==
    \E last \in [Runners -> Tasks \cup {NoTask}] :
        /\ \A r \in Runners : IF OutOfReachOf(r) = {} THEN last[r] = NoTask
                                ELSE last[r] \in OutOfReachOf(r)
        /\ task' = [t \in Tasks |-> SweptTask(t)]
        /\ lease' = [t \in Tasks |-> SweptLease(t)]
        /\ runner' = [r \in Runners |->
                        LET row == SweptRunner(r, last[r])
                        IN IF row.current = NoTask THEN Undrained(row) ELSE row]
        /\ UNCHANGED <<enrollment, credential, messages, threadVars, agentVars>>

(* lease_expires_at, and expires_at, pass                                    *)
LeaseLapses(t) ==
    /\ task[t].owner # NoRunner /\ ~task[t].lapsed
    /\ task' = [task EXCEPT ![t].lapsed = TRUE]
    /\ UNCHANGED <<registryVars, lease, messages, threadVars, agentVars>>

TaskOverdue(t) ==
    /\ task[t].state = "waiting_runner" /\ ~task[t].overdue
    /\ task' = [task EXCEPT ![t].overdue = TRUE]
    /\ UNCHANGED <<registryVars, lease, messages, threadVars, agentVars>>

(* the controller dies and restarts: its threads are gone, the database stays *)
Crash ==
    /\ threadVars # <<{}, {}, {}, {}>>
    /\ arrived' = {} /\ applying' = {} /\ dispatching' = {} /\ controls' = {}
    /\ UNCHANGED <<registryVars, task, lease, messages, agentVars>>

OwnerStep == \E t \in Tasks :
    \/ CreateWorkTask(t)
    \/ CancelAtOnce(t)
    \/ RequestCancel(t)
    \/ Continue(t)
    \/ \E delivered \in BOOLEAN : PublishControl(t, delivered)

DispatchStep ==
    \/ \E t \in Waiting, r \in Runners, passed \in SUBSET Overdue : ClaimNext(t, r, passed)
    \/ \E d \in dispatching :
          \/ MarkDispatched(d)
          \/ \E delivered \in BOOLEAN : PublishRequest(d, delivered)
          \/ RescheduleUndelivered(d)

AgentStep ==
    \/ \E r \in Runners, report \in HeartbeatReports :
          \E a \in working[r] \cup {NoTask} : Heartbeat(r, a, report)
    \/ \E r \in Runners, n \in Sequences :
          \E a \in working[r] :
             \/ \E state \in StatusReports : Report(r, a, "status", state, n)
             \/ \E state \in ResultReports : Report(r, a, "result", state, n)
    \/ \E m \in sent : Resend(m)

MessageStep ==
    \/ \E m \in arrived : RecordMessage(m)
    \/ \E m \in applying : ApplyStatus(m) \/ ApplyResult(m)

RecoveryStep ==
    \/ \E r \in Runners : EmergencyDisable(r)
    \/ \E r \in Runners, t \in Tasks : ResolveTaskRecovery(r, t)
    \/ Sweep
    \/ \E t \in Tasks : LeaseLapses(t) \/ TaskOverdue(t)
    \/ Crash
=============================================================================
