# Specifications of the Home Assistant add-ons

TLA+ models of the programs in this repository that keep state, talk to other
programs and can fail between two steps, with TLC configurations that check
them on small instances and TLAPS proofs of the properties that matter most for
every instance. Paths are relative to the repository root.

Modelled: the **HA Operations Broker**, the **Codex Controller** (its Runner
Center, job runner, two-step car preparation and remote control of Codex
Desktop), the **Codex Runner Relay**, the **Weixin Gateway** (accounts, inbox,
picture archive, delivery, remote work), the **notification adapters** of the
gateway and of Hermes Agent, Hermes' **ledger of approvals**, and the **Renovation Hub** (books, attachments,
media, quotes and the cutover of the writer). What is left out, and why, is in
section 7.

## 1. Inventory

| Component | State it keeps | Operations | What is hard | What makes it correct |
|---|---|---|---|---|
| Operations Broker, store (`ha_operations_broker/operations_broker/authorization.py`) | SQLite: proposals, backup evidence, requests, receipts, executions, leases, passkeys | ingest, evidence, request, authorize, claim, transitions, recovery | transactions of several methods on the same rows; two processes on one file; expiry | a receipt is issued once, in time, and spent once |
| Operations Broker, ceremony (`AuthorizationManager`, `passkeys.py`) | open challenges in memory | begin, complete, forget | concurrent handler threads, stale clock and counter reads | no receipt without an enrolled user's answer to that request |
| Operations Broker, executor (`execution.py`, `main.py`) | position of `execute()`, leases | preflight, claim, heartbeat, restart, verify, recover | crash between call and record, lost answers, lease run out, a second broker | at most one restart per receipt; the verdict never claims more than is known |
| Runner Center, registry (`codex_controller/codex_controller/runner_store.py`) | Runners, enrollments, credentials | enroll, redeem, rotate, enable, drain, delete, heartbeat | orders of administrative requests and expiry | one way in; only enrolled Runners work |
| Runner Center, tasks (`runner_store.py`, `runner_service.py`, `runner_relay.py`) | tasks, leases, messages | submit, claim, publish, record, apply, cancel, continue, sweep, resolve | messages lost, resent, reordered; check and update in two transactions; crash after a claim; sweep against late reports | leases match assignments; what ran is never transferred; lost tasks are taken up again |
| Controller, jobs (`store.py`) | one queue of jobs | create, claim, assign, observe, complete, retry, recover, resolve | uncertain `turn/start`, automatic retry | one job at a time; nothing uncertain is replayed |
| Controller, threads (`service.py`, `app_server.py`) | event buffer, tool context, app-server process | scheduler, reader, watchdog | reader ahead of the scheduler, bounded buffer, restart | reports count; a running job ends; the context ends with its turn |
| Controller, car (`prepare_car.py`, `store.py`, `tool_proxy.py`) | confirmations | request, cancel, claim, execute, finish | two-step confirmation over crashes, stray tool calls, unknown POST | commanded once, only on the confirmation that followed |
| Controller, Desktop control (`desktop_service.py`, `desktop_store.py`) | commands, created tasks, reads, receipts, the thread's control state | submit, publish, mark, sweep, ingest | receipt timeouts, restart within a publish, late and repeated receipts | one control command at a time; the journal says what happened at the Mac |
| Controller, Desktop picture (`desktop_store.py`, `desktop_protocol.py`) | hosts, threads, snapshots, events, watermarks | ingest snapshot, event and host; prune; resume a reader | resent, late and unnumbered documents; pruning per thread and host | the picture never goes back; no event is missed in silence |
| Controller, tools and catalog (`tool_proxy.py`, `hub_manifest.py`, `tool_catalog.py`) | policy revision, last good manifest | sync, update policy, call | manifest changes while a job runs | only authorised tools are called |
| Weixin Gateway, people (`weixin_gateway/weixin_gateway/store.py`, `service.py`) | users, bindings, accounts, onboarding sessions, invitations, identity files, runtimes | pair, invite, claim, suspend, resume, remove, transfer, restart | tables, files and runtimes change in separate steps; awaits under a lock | at most one owner, and the three agree |
| Weixin Gateway, inbox and delivery (`service.py`, `store.py`) | messages, jobs, chunks, files, sessions | store, submit, poll, send, mark | lost answers of two services, restarts in mid-reply, users who change meanwhile | each part once unless its outcome is unknown; only for the entitled; every message ends |
| Weixin Gateway, picture archive (`store.py`) | pictures, archive requests, spool | correlate, reserve, finish, expire, clean up | the text may come before, with or after its pictures, and fail | no picture is promised twice |
| Weixin Gateway, remote work (`remote_work.py`, `remote_work_v2.py`, `store.py`) | outbox, tasks, events, watches, ledger of replies | enqueue, publish, record, track, tell | events resent and in any order; two tellers of one task | the row is the latest event; each state is told once |
| Notification adapters (`weixin_gateway/notification.py`, `hermes_agent/notification_bridge.py`) | queue, ledger, worker | receive, book, send, publish, acknowledge | redelivery after restart, unknown sends, rate windows | told once; one final result |
| Hermes Agent, approvals (`hermes_agent/bundled_plugins/ha-operations-approval/ledger.py`) | proposals | create, get, approve, confirm, cancel, expire | clocks read before the lock is had, two owners, a lost challenge | approved in time, by one owner, with the challenge; few pending |
| Renovation Hub, cutover (`renovation_hub/renovation_hub/ledger.py`) | mode, generation, manifests, leases, database, attachments, rollback copies | prepare, freeze, seed, confirm, activate, suspend, restart | stops inside a seed of several renames; old confirmation strings | one writer, over the whole seeded data; own data is never replaced |
| Renovation Hub, books and quotes (`ledger.py`, `hub.py`, `quotes.py`) | payments, refunds, versions, offers, the export mark | pay, refund, correct, undo, change, select, expire | orders of corrections and refunds, stale pages, stop before the export | refunds never exceed payments; one offer selected |
| Renovation Hub, files (`ledger.py`, `media.py`, `web.py`) | uploads, media, attachments, files named by digest | upload, finalize, record, clean up, reconcile | files shared by content; clean-up against another request; stops | a row has its file; a file has a row or a marker |
| Codex Runner Relay (`codex_runner_relay/codex_runner_relay/app.py`) | WebSocket connections | reserve, activate, publish, release | awaits between reservation and activation | one connection per Runner, capacity respected |
| Journey Analyzer, Huaxin Water, ESLink Gas | point store, caches | poll, segment, publish | late and repeated points; upstream failures | segmentation and statistics as functions |
| HA Manager Executor, HA Artifact Observer | none | read-only queries | - | - |
| DDNS-GO, DrawIO, WizNote Server | third-party | packaging only | - | - |

How they meet: Weixin Gateway posts a message to the Controller as a job and
polls it; the Controller starts a turn of the Codex app-server, whose tools come
back through a socket (`tool_proxy.py`) and reach Home Assistant, the Renovation
Hub, the Weixin Gateway and the Operations Broker; the Runner Center dispatches
tasks over the Relay's WebSockets to Runners on other machines; the Broker
restarts add-ons through the Supervisor. Every service is its own process with
its own SQLite file, so each is a module family of its own and the others are
its environment.

`PROJECT.json` lists every component with its status, and under `hazards` each
place in the code where an order of steps, a crash, a resend or a bound can do
harm that a test would hardly reach.

## 2. Modules

| Module | Models | Composes or refines |
|---|---|---|
| `BrokerStore` | tables and transactions of `AuthorizationStore` before execution | |
| `RestartLedger` | abstract: a receipt is issued once, spent once, at most one write, a true verdict | |
| `BrokerExecution` | `execute()` step by step, leases, faults, crashes, recovery | extends `BrokerStore`; implements `RestartLedger` |
| `BrokerAuthorization` | passkey registration and authorization flows of handler threads | extends `BrokerStore` |
| `OperationsBroker` | the whole broker process | composes the two; implements `BrokerExecution` |
| `RunnerRegistry` | Runners, enrollments, credentials | |
| `RunnerTasks` | tasks, leases, messages, dispatcher, sweep | extends `RunnerRegistry` |
| `RunnerCenter` | both over one database, and their properties | extends `RunnerTasks` |
| `JobLifecycle` | abstract: messages are taken while the queue has room, worked on one by one in the order of arrival, a bounded number of times each; an outcome is final | |
| `ControllerJobs` | the job table, one operator per transaction | |
| `PrepareCar` | confirmations and the fixed execution sequence | extends `ControllerJobs` |
| `ControllerService` | scheduler, reader and app-server around them, and the properties | extends `PrepareCar`; implements `JobLifecycle` |
| `DesktopCommands` | control commands, created tasks and reads against a Mac with a durable outbox | |
| `DesktopReadModel` | host, threads, snapshots, events and resuming readers | |
| `RunnerRelay` | the Relay's handlers between its awaits | |
| `Notifications` | both notification adapters over the ledger and the broker's redelivery | |
| `HermesApprovals` | proposals of operations, callers with old clocks, the second confirmation | |
| `WeixinStanding` | abstract: one owner from the first pairing on, members who join, pause, leave or take over | |
| `WeixinAccounts` | people, bindings, accounts, sessions, files, runtimes | implements `WeixinStanding` |
| `WeixinArchive` | pictures and the messages that file them | |
| `WeixinDelivery` | the delivery loop, the directory's changes, the Controller and WeChat | its directory takes the steps of `WeixinStanding` |
| `WeixinRemoteWork`, `WeixinWatch` | `/work` version 1 and version 2 | |
| `RenovationCutover` | how the Hub becomes the writer, with stops within | |
| `RenovationLedger` | books and quotes, given whether the Hub is the writer | |
| `RenovationAttachments`, `RenovationMedia` | the files behind them, step by step | |
| `MC...` | instances for TLC: model values, small sets, symmetry. `MCAddons` and `MCLinks` each put parts side by side that share no table: a behaviour is a behaviour of one part (`component`, `link`); `MCRunnerTasks` is two instances of the Runner Center (`alone`) | |
| `BrokerProofs` | theorems about the executor, then about the whole broker | extends `OperationsBroker` |
| `RunnerCenterProofs`, `ControllerServiceProofs`, `PrepareCarProofs` | theorems about the Runner Center, the job runner, the car | the last extends the second |
| `RenovationProofs`, `WeixinProofs`, `HermesApprovalsProofs` | theorems about the Hub's files, cutover and books; the directory, archive, remote work and delivery; approvals | extend what they are about |
| `LinksProofs` | theorems about the Relay, the notices, the Desktop picture and remote control | |

A step is one SQLite transaction (`BEGIN IMMEDIATE`) or one call of another
program, whichever is smaller; everything the handler does inside it, validation
and early returns included, is in the action. A request the code refuses without
writing is no step. Abstractions common to all modules:

- Clocks: a deadline is a flag or a small number that time passes, chosen
  freely; reading the clock and the transaction that follows are one step,
  except in `complete_authorization` and in Hermes' ledger, where the gap
  matters and is modelled.
- Idempotency tables of administrative requests, revisions, digests, labels,
  names and wording are left out; a digest mismatch is a refusal.
- Identifiers are what determines them: a Runner's lease is (task, epoch), a
  turn is (job, attempt), a confirmation is the message that asked.

Particular ones, also stated at the head of each module:

- Broker: the two lease rows of an action change together and are one lease;
  WebAuthn cryptography is that a response is signed or not.
- Runner Center: `verify_credential` and the heartbeat's transaction are one
  step; which Runner is eligible and the queue's order are free; agents are
  external: they report with growing sequence numbers and may resend anything.
- Controller: the three observation flags of a job are set by the same events
  and tested together, so they are one flag; threads, artifacts and media are
  left out; the app-server answers `turn/start` before it reports on the turn; a
  late answer is a protocol error after which the process ends (`ServerExits`);
  tool jobs that keep no state here (memo, status) are one step. "Unavailable"
  is a command of the car while its tool is switched off, which is answered
  without cancelling the pending confirmation.

- Desktop: the Mac and the wire are external. The Mac checks the revision a
  command was built on, never repeats a request, and hands documents to a first
  in, first out outbox whose head stays until the Relay acknowledges it. The
  pruning of old commands and receipts (`MAX_COMMANDS`, `MAX_RECEIPTS`) is left
  out.
- Weixin: handlers share one event loop, so a handler is cut at its awaits, and
  `WeixinDelivery` and `WeixinAccounts` say which stretch holds which lock; the
  typing indicators, and with them the outbound lock they take, are left out.
  The directory of `WeixinDelivery` does what `WeixinStanding` promises, from a
  state in which everybody has joined; the jobs of its Controller end as
  `JobLifecycle` promises, once and perhaps after a person decided, with queue
  and retries left out. A job is answered as it was read.
  `WeixinArchive` keeps the pictures of a request as a set: the order in which
  they are filed is left out. The unique index on a binding's account and sender
  refuses a claim in `WeixinAccounts`; that it may also refuse a migration at a
  start is left out.
- Renovation: every write of the ledger is a transaction of its own under an
  idempotency key; `RenovationLedger` takes `RenovationCutover`'s `MayWrite` as
  a switch, and its `Attach` is the row whose file is in `RenovationAttachments`.
  The server dispatches a tool on its one event loop (`web.py:527`), so an
  attachment is one request at a time, which may fail at every step, after its
  commit too, and whose clean-up may fail itself; media run in threads of their
  own (`asyncio.to_thread`) and interleave. A file named by a digest holds those
  bytes: the size comparison of `media.py:332` is left out.

## 3. Runs

Bounds are chosen so that the hazards of the run can occur; the mutants in
`PROJECT.json`, one plausible bug for every property, are all found within them.

| Run | Instance | Shows |
|---|---|---|
| `broker_instances` | 2 brokers, 2 actions, leases and proposals of 1 tick, evidence of 2, 1 tick of time | `RestartAtMostOnce`, `OutcomeTruthful`, `LeaseMatchesExecution`, `ClaimInterlocked`, and that `BrokerExecution` implements `RestartLedger` (`KeepsLedger`). Two brokers and two actions are what lease hand-over, a resolved recovery and a delayed call need; a proposal may expire between any look at it and its claim. No property speaks of the add-on itself, which may change between the last look at it (`execution.py:209`) and the write |
| `broker_whole` | 1 broker, 2 handler threads, 3 challenges, 1 user | from enrolment to restart: `NoRestartWithoutCeremony`, `OneReceiptPerRequest`, and `ImplementsExecution`. Three challenges allow two for one request and a registration |
| `broker_lease_race` | 2 brokers | a lease does not block the second write once recovery was resolved (finding) |
| `runner_tasks` | 2 Runners, 1 task leased up to twice, 2 sequence numbers, 2 handlers, 2 dispatchers; or 1 Runner and 2 tasks leased once, 1 handler (`alone`) | `ActiveLeaseIsCurrent`, `CurrentIsAssigned`, `OutcomeIsVouchedFor`, `RunningIsNeverTransferred`. In the second instance a finished task is continued while its Runner has the other; that a Runner has one task at a time is not said, because it is not so (section 4) |
| `runner_whole` | 1 Runner from first enrollment (2 enrollments, 2 credentials), 1 task | `OneWayIn`; with fairness `DrainEnds`, `NoTaskIsForgotten` |
| `controller_jobs` | 1 message, 2 turns, a buffer of 2 for up to 4 events | `UncertainNeverReplayed`, `ReportsCount`; with fairness `RunningEnds` |
| `controller_car` | 3 messages of a conversation, 1 attempt, two callers of tools | `OutcomeOfItsTurn`, `CommandedOnConfirmation`, and that the job table implements `JobLifecycle` (`KeepsLifecycle`) |
| `controller_context` | 1 message | the tool context outlives its job (finding) |
| `links` | control: 2 control commands and a read, or 2 control commands and a created task, 2 revisions, 2 snapshots, 1 trouble; picture: 2 threads of which 1 changes, 3 documents, one stored snapshot and event, 1 broken connection; Relay: 3 sockets, 2 Runners, 2 places; notifications: 2 requests of one key, a queue of 1, a key remembered for 2 ticks and a rate for 1, 3 ticks, 1 loss, either adapter | `ControlInOrder`, `JournalTellsTheMac`, `PictureNeverGoesBack`, `EventsAreNotMissed`, `ConnectedIsReachable`, `NotifiedOnce` |
| `addons` | accounts: 2 people, 2 accounts, 1 session, 1 invitation; archive: 3 messages of up to 2 pictures; remote work: 2 commands, 2 runs of 2 events; watch: 2 commands, 1 failure; cutover: 2 packages, 3 generations, 2 stops; books: 3 entries of up to 2, 2 offers, 2 edits; media: 3 uploads, 2 of one content, 2 threads, 1 stop; attachments: 3 requests, 2 of one content, 2 stops; approvals: 2 proposals, 1 of which may be pending, 2 owners, 2 callers, 4 calls, a life of 2 ticks | `DirectoryAgrees`, `ReservedOnce`, `TaskIsLatestEvent`, `ToldOnce`, `WriterFollowsCutover`, `BooksAddUp`, `IngestedOnce`, `AttachmentsHaveFiles`, `ApprovalsHold`, and that `WeixinAccounts` implements `WeixinStanding` (`KeepsStanding`) |
| `weixin_owner` | as `addons` | a new owner loses the account to the old owner's removal (finding) |
| `weixin_delivery` | an owner and a member, answers of two chunks and a file; one message with 3 troubles, or two with one | `DeliveredOnce`, `OnlyForTheEntitled`; with fairness `EveryMessageEnds` |

Why these bounds. A race over shared content needs two requests of it and one
clean-up, and a third request shows that others are left alone (media; of
attachments, one request at a time, which the row or the marker of an earlier one
meets); a document can be overtaken or resent with one broken connection,
and pruned with one place in the log and two events; the Relay needs an old
socket, a new one of the same Runner and one of another; a seed is stopped once
and its repetition once more; a transfer of ownership and a removal need two
people, of whom one may share the other's account; an approval of level L3 takes
three calls, and a fourth overtakes one of them. A trouble of `weixin_delivery`
is a lost answer, an expired session, a change of the user or a crash.

Deadlock is not checked in the broker and Runner Center runs: with every
challenge, epoch and tick of the instance used up they may really stop; nor in
`addons`, `links` and `weixin_delivery`, where requests, documents and troubles
are used up. In the Controller the add-on may always restart, and it is checked.

The Controller's queue holds 2 jobs (reached in `controller_car`, where a third
message must wait), its buffer 2 events in place of 32 and its attempts are 2 in
place of 3 (both reached in `controller_jobs`): the code compares each with its
limit in one place and treats every value below the limit alike.
`controller_car` has one attempt and turns that report nothing but their end and
their calls, so retries and the buffer are the business of `controller_jobs`.

### Fairness

- Runner Center: the manager thread calls `sweep()` every half second
  (`runner_service.py`, `_loop`), so `Sweep` is weakly fair, and time passes
  (`LeaseLapses`, `TaskOverdue`). Nothing is assumed of agents, owners, the
  Relay or the dispatcher.
- Controller: scheduler and reader are loops in threads of their own; the
  Supervisor's watchdog polls `/healthz` and restarts the add-on; a turn that
  runs ends at last (the app-server's own limit). Nothing is assumed of
  administrators, retries or messages.
- Weixin delivery: `_delivery_loop` is one task that sleeps and comes again, so
  its step is weakly fair, and a job the Controller took does not run for ever
  (the property of `RunningEnds`): it ends, or is left to a person, whom nothing
  obliges to decide. Nothing is assumed of sessions, users or WeChat; that sessions
  stay in the end is a premise of the property, not of the specification.

### What the properties had to concede

Some statements one would write first are not true of the code; the property
states the exact exception instead, and the exception is what to look at:

- `RunningEnds`: a job can stay `running` until the next restart when the end of
  its turn is buffered just after the scheduler emptied the buffer, or dropped
  because 32 events were waiting (`service.py`, `_buffer_event`). Both happen, and
  the property exempts such a job (`Stranded`); it says that no other is left.
- `ReportsCount`: holds for turns none of whose events was dropped or overtaken.
- `BooksAddUp`: says that the sums stay right, not whose figure stands after a
  correction that names no version (section 4).
- `CommandedOnConfirmation`: "/new", and a command of the car while its tool is
  switched off, are answered without cancelling a pending confirmation, although
  the README (line 79) says any other message cancels it. A turn that a person
  reviewed while it still ran calls tools in the name of the job that is active
  then; if that job is executing a confirmation, a second `execute` finds the
  record `executing` and carries it out once more (`store.py`,
  `claim_prepare_car_execute` returns the record, `tool_proxy.py` takes its
  status for a fresh claim).
- `EveryMessageEnds`: not for a message stored under one profile, handed to the
  Controller with its answer lost, and handed in again after its user's profile
  changed: the Controller refuses it for ever, and the pass over the inbox ends
  at it every time (`service.py:1788`). Nor for a message of a removed member,
  which stays submitted.
- `DeliveredOnce`: a job that is left to a person is answered as a failed one,
  and its message is over (`service.py:1824`). If the person finds that the job
  was completed, its result is told only when the first answer broke off. A part
  may arrive twice once per send whose outcome was never
  learnt; the client id is the same, what WeChat makes of it is not known here.
- `NotifiedOnce`: the bridge of Hermes tries again after a timeout of its sender
  and may deliver twice; the gateway's adapter does not.
- `IngestedOnce`: a failed upload looks for rows of its content and unlinks the
  file afterwards, outside the transaction (`media.py:368`). An upload of the same
  bytes that commits in between, in another thread, is recorded and loses its file,
  until somebody stores these bytes again. The history variable `robbed` holds
  exactly these contents. The documents say that only files without a reference
  are cleared (`renovation_hub/DOCS.md:77`) and that a failed upload leaves no
  media that only seems to be one (`:144`). `AttachmentsHaveFiles` concedes nothing:
  attachments have the same gap (`ledger.py:1131`), but no second request to fall
  into it.
- `RestartAtMostOnce` counts calls of the Supervisor by one action; a second
  action may follow while the first one's call is late (`broker_lease_race`).

## 4. Findings

Three places where the code does other than the repository's documents say, each
with a run that exhibits it (`PROJECT.json`, `findings`): a lease does not block
a late write (`broker_lease_race`); the tool context may outlive its turn, and
then every later job fails until a restart (`controller_context`); a new owner
who shared the old owner's account loses it when the old owner is removed
(`weixin_owner`).

Others, seen in traces or met while modelling, whose runs are not kept:

- Broker: the limit of passkeys is checked when a registration begins and not when
  it completes, so concurrent registrations pass it (`authorization.py:1749`).
- Broker: a replay after the proposal's expiry is refused before the existing
  record is looked up (`execution.py:88`; `DOCS.md:108`).
- Runner Center: a finished task is continued on a Runner that is busy with
  another (`runner_store.py:1219`; `:356`); a PATCH sets a revoked Runner to
  disabled (`runner_store.py:611`; `:825`).
- Controller: a turn that acted is queued again when its buffered activity is
  overtaken by its failed end (`service.py:968`; `README.md:41`).
- Desktop: a command that stays `unknown` blocks its thread for ever; a reader of
  a slow event stream skips events pruned meanwhile; a result about a pruned
  revision is consumed and the read ends `unknown`.
- Weixin accounts: a replayed suspend or resume still stops or starts the
  runtime; a removed member can never be onboarded again (the private id is
  unique); `_accept_member_qr` writes the identity file before the attach may be
  refused; an onboarding that a reader finds expired keeps its runtime and file.
- Weixin remote work: results of version 1 overtaken by a later run are dropped;
  a refused MQTT event is never acknowledged; in version 2 a terminal status read
  before the owner says "continue" closes the watch that was just armed again
  (`mark_runner_manager_v2_notified` does not compare the source; `README.md:21`).
- Weixin locks: sending takes the outbound lock, then the authorization lock;
  `change_user_state` (`service.py:2999`) and `cancel_member_onboarding` hold the
  authorization lock and may stop typing indicators, which takes an outbound lock
  (`README.md:69` promises the one order).
- Weixin delivery: the suppression of an answer looks at the profile as well as
  the state (`service.py:2185`; `CHANGELOG.md:142`).
- Renovation books: a correction that names no version overwrites newer data and
  leaves the version as it is (`hub.py:364`, `business_tools.py:496`;
  `DOCS.md:29` promises 409 `version_conflict`); a stop between a commit and its
  export, or an attachment whose export fails, leaves the export marked current.
- Renovation cutover: a stop between the staging directory's rename and the
  transaction makes that package `migration_conflict` for ever; the option
  `read_only` suspends the writer again at every start.
- Renovation media: an upload interrupted by a stop cannot be resumed; a key whose
  upload failed stays `upload_in_progress`; there is no clean-up of orphans at
  start, as there is for attachments.

## 5. Theorems

TLC checks the instances above; TLAPS proves the following for every value of
the constants. The assumptions are the named ones of the modules, which TLC
evaluates on every run: limits are naturals, placeholders are distinct from what
they stand for, the statuses and reports a partner may send are among those the
code accepts, a conversation is given for every message. None of the invariants
below is inductive as the run states it; each paragraph says what had to be added.
Every proof has one lemma for the initial state and one for a step, with one
step per action.

**Broker, executor** (`BrokerProofs`; any number of brokers, actions,
targets, options and ticks).
- `TypeCorrect`, `AtMostOnce`, `OutcomesAreTrue`: nothing in `RestartAtMostOnce`
  stops a second broker from standing before the same call. `WriteInv` adds that
  an action without an execution row was never claimed and never called
  (`UnclaimedUntouched`), that at most one broker is past the claim of an action
  (`OneWriter`), and that a broker's position agrees with the number of calls
  (`PositionTruthful`).
- `LeasesFollowExecutions`: `LeaseInv` says what lease each execution row must
  have (`LeaseFits`) and that one action at a time holds a target (`OneHolder`).
- `ClaimsAreInterlocked` is an action property: a claim finds no other action in
  flight and nothing to recover. It needs `RowsInv` (request, receipt and execution
  follow from each other) and that a broker on its way to the claim runs with
  operations enabled (`EnabledEarly`).
- `ImplementsLedger`: every step is one of `RestartLedger`'s or a stutter. The
  mapping is the one the run `broker_instances` checks.

**Broker, whole** (`BrokerProofs`; any users, handler threads and
challenges).
- `BrokerImplementsExecution`: the composition only does what the executor's
  module allows, so that `BrokerKeepsPromise` (`RestartAtMostOnce` and
  `KeepsLedger` of the whole broker) follows from the executor's theorems.
- `OneReceipt`, `RestartsAreAuthorized`: `GrantInv` pairs receipts with the
  ceremonies that ended in them (`GrantsOfReceipts`), and says that a challenge is
  removed before its answer is looked at (`FlowsSpent`), is answered by one
  handler (`OneCeremonyPerFlow`) and was given to an enrolled user
  (`EnrolledAreAsked`). That the handler's clock reading is old is part of it.

**Runner Center** (`RunnerCenterProofs`; any Runners, tasks, epochs, sequences,
handlers and reports, from either initial state): `TypeCorrect`,
`LeasesCorrect`, `RunnersBusyWithTheirOwn`, `OutcomesVouchedFor`,
`NeverTransferred`, `OnlyOneWayIn`. Every action of the task half is first shown
to be one of a few shapes of change (`Moves`); the invariant `TaskInv` joins the
leases, assignments, recorded messages and the handlers' unapplied ones, and is
kept by each shape. The registry's part is `Registered(r)`: how a Runner's last
enrollment, its credentials and its administrative state go together.

**Controller, jobs** (`ControllerServiceProofs`; any messages, attempts, buffer
size, reports and restarts). `RunnerInvariant` is the invariant `RunnerInv`, and
`RunsOneAtATime`, `NeverReplayed`, `OutcomeIsTheTurns`, `ReportsAreCounted`,
`ImplementsLifecycle` follow:
- jobs and turns: one job is busy and it is bound or in the scheduler's hands
  (`OneIsBusy`, `InHand`), what a row says of itself (`RowsAgree`), what each place
  of the scheduler implies (`SchedulerAgrees`), and that a turn is asked for by the
  latest attempt only (`TurnsAgree`);
- events, wherever they are (wire, reader, buffer, replay): an end is that of a
  turn which is over (`EndsAreTrue`), and nothing follows it (`EndComesLast`,
  `ThreadsAgree`);
- `NoneIsLost`: a report of a turn that was not dropped or overtaken is applied to
  the row or still ahead. This is what makes a retry safe.

`ImplementsLifecycle` maps every step to one of `JobLifecycle`'s or to a stutter.
That a job starts only when everything older is over comes from the order of the
claim (the oldest queued job) and from `OneIsBusy`; that an ended job never moves
again, from `RowsAgree` with what each place of the scheduler implies; and a stop
of the process, which may touch several rows, moves one at most, because one is
busy.

**Controller, car** (`PrepareCarProofs`, on top of `RunnerInv`): `CarIsConfirmed`.
`CarInv` adds that messages run in order (`InOrder`), whose the tool context is
(`ContextAgrees`), that a confirmation is taken once and commanded only then
(`ConfirmationsAgree`), and, until a call is attributed to another job than its own
(`Misattributed`, see section 3; it persists), `Attributed`: who asked, who
executes, that nothing was answered between request and confirmation, and that a
message being answered has cancelled what was pending before it.

**Renovation Hub** (`RenovationProofs`).
- `FilesKept`: `AttachmentInv` says who answers for a stored file without a row:
  the request under way that created it and has not finished with it (`Owning`), or
  a marker that was left behind (`Accounted`); the request that unlinks has found
  no row (`Files`); whatever a request created or wrote its marker announces
  (`Marked`); and none is under way while the store is closed (`UnderWay`).
- `MediaIngestedOnce`: a row and its result go together (`ResultsAgree`); a
  content with a result is there, or its file was taken by a clean-up that looked
  too early and the bytes were not stored since (`MediaThere`).
- `CutoverIsFollowed`: the mode never becomes `read_only` again, so there is one
  manifest and it has the current generation (`OneManifest`); every suspension
  takes a new generation, so a confirmation of this generation has seen every
  suspension (`ConfirmationsInTime`); a seed is whole when the manifest says so
  (`SeededWhole`); and the Hub's own data is never what a seed replaces
  (`OwnDataStays`).
- `BooksBalance`: `Sound` says that live refunds belong to a live payment and do
  not exceed it. The sums are over sets of entries; that adding, changing or
  removing one entry changes the sum by its amount is proved by descent on the
  smallest set for which it fails.

**Weixin Gateway** (`WeixinProofs`).
- `StatesAreToldOnce`: what was told is booked in the ledger under its key
  (`ToldIsBooked`), and a teller holds a command that was given (`TellersKnow`).
- `TaskFollowsEvents`: what the Mac sent is ordered by run and sequence, and
  nothing follows a terminal event of its run (`EventsAreOrdered`), whatever the
  broker delivers when; the row is the greatest recorded event.
- `PicturesAreReservedOnce`: two live requests share no picture (`NothingIsShared`),
  one request is pending, a bound request is as large as its message asked
  (`BoundIsWhole`), and a row refers to messages that exist (`RowFits`). A message
  may do several things in a row (end requests, join, open, bind), and each is
  shown to keep `RowsHold` on its own.
- `TheDirectoryAgrees`, from `DirectoryStaysSound`. The tables, the identity files
  and the runtimes change one after the other, so `DirectoryInv` says first what
  the tables owe each other (`OneOwner`, `RowsAgree`, `BeforeTheOwner`, and
  `OwnerIsBound`, but while the ownership moves), then what a handler that is cut
  in two has already done (`DoingAgrees`), and then how the rest follows: one
  onboarding is open at most, and an account waiting for its pairing has one or is
  somebody's (`OneOpen`, `PendingKnown`); an administrator's request still finds
  the binding it read (`AdminAgrees`); and an account that is revoked polls only in
  the midst of its removal (`PollingAgrees`).
- `ImplementsStanding`: a step of any handler, the transfer that is taken back and
  a restart included, is one of `WeixinStanding`'s or changes nobody's standing.
- `AnsweredOnce` and `EntitledOnly`, from `DeliveryKeepsBooks`: a part was sent at
  most once more than its sends are unaccounted for and it is booked as sent, and a
  link is sent only when its file failed or may have failed (`PartsAgree`); of the
  answer in hand every part is booked or still to be sent (`AnswerIsWhole`), hence a
  completed message has all of them (`CompletedIsAnswered`); what was read of a job
  as completed is still so, an outcome being final; and while a message is
  submitted or answered its person is active (`LoopAgrees`), because nobody changes
  the directory under the lock. It assumes that the chunks of a text have other
  names than its file, the link and the notice (`DeliveryAssumption`).

**Approvals** (`HermesApprovalsProofs`; any number of proposals, owners, callers
and ticks): `ApprovalsAreSound`. The invariant `ApprovalInv` adds that
what a caller has read of the clock is past (`Read`), that a challenge that was
shown belongs to a begun approval, whose owner and time no longer change
(`Begun`), and that a call which knows the challenge read the clock after it was
shown (`Knows`). `FewPending` follows because a limit checked at an old time
counts more proposals, not fewer (`CreatedWithin`).

**Links** (`LinksProofs`).
- `ConnectedStaysReachable`, for any Runners, connections and requests: the table,
  the places where handlers wait and the names under which connections stand agree
  (`PlacesAgree`, `NamesAgree`, `TableAgrees`), so a Runner shown as connected is one
  whose commands find an open connection.
- `ToldTheOwnerOnce`: what a worker holds was published and not yet acknowledged
  (`WorkerAgrees`), what reached the owner is in the ledger or known to have been
  sent (`ReachedAgrees`), what was published is the controller's (`PublishedAgrees`),
  and two notices do not share a key (`KeysApart`).
- `PictureGoesOn`, an action property of the Desktop picture: a stored document is
  absorbed by the row or is newer than it (`RowsFollow`, `CopiesAreAbsorbed`,
  `StoredAgrees`), and the Mac's outbox is in the order of its writing
  (`OutboxInOrder`, `DocumentsAgree`). Without it a late copy could set the row back.
- `CursorsMissNothing`: what was pruned from the log lies below the watermarks
  (`LogAgrees`), and before an event the outbox holds a snapshot at least as new
  (`OutboxTells`), so a reader is either told to start over or has every event.
- `OneCommandAtATime` and `JournalsAreTrue`, from one invariant of remote control,
  `CommandInv`: every document the Mac ever wrote says what it did (`SaysRight`),
  a request has one acknowledgement, before its one outcome, and revisions leave
  in order (`LettersAgree`); what is stored came before what is still in the outbox
  (`StoredAfterAccepted`), so a resent document is known or the next one
  (`EchoesAreOld`); a request is open in its journal while it is on its way
  (`CallsAgree`, `JournalsAgree`), which is why refusing a second open one is
  enough (`OneActive`); and the task is ready only on a picture as new as the last
  outcome (`PictureIsFresh`). It assumes that the three kinds of request are
  different (`CommandAssumption`): each has its own journal.

Type correctness of the executor, the Runner Center, the job runner and the car
is proved and left to the proof, and so is that one job runs at a time; the runs check the properties that build on it.

Only model-checked: `DrainEnds`, `NoTaskIsForgotten`, `RunningEnds` and
`EveryMessageEnds`. They rest on fairness, hence on ENABLED, which the prover does
not handle. Every other property of a passing run is a theorem.

## 6. What could come next

1. **Composition**: `RunnerRelay` with `RunnerCenter` and `DesktopCommands`, and
   `RenovationCutover` with `RenovationLedger`, each now joined only by what one
   module assumes of the other. Delivery meets the directory in `WeixinStanding`
   and the Controller in `JobLifecycle`, of which it models the end of a job only.
2. **Parts left out**: typing indicators with their locks; pruning of Desktop
   commands and receipts; journey segmentation and water
   statistics as functions against reference definitions.

## 7. Not modelled, and why

- **No state of their own**: HTTP routing, HTML and scripts of the dashboards,
  parsing and canonical JSON, cryptography, the read-only tools, the Manager
  Executor and the Artifact Observer, the Broker's legacy preflight.
- **Values, not orders of steps**: journey segmentation, water and gas
  statistics, geometry, charts. They are sequential arithmetic which unit tests
  reach; the loops around them have one thread and no retry of a command.
- **Single transactions that touch one row**: names, pages, labels, settings,
  projects, rooms and views.
- **Beyond the repository**: upstream web protocols (iLink, ESLink, Huaxin, AMap),
  the app-server, the agents of the Runners, WebAuthn, the installers with their
  pinned manifests, container packaging and vendored code. What the code relies
  on is in the external rows of the map.
- **Files** are modelled where a row and a file must agree (attachments, media,
  the spool of pictures) and left out elsewhere (artifacts of a job, the error
  feed).

Liveness under fairness stays with TLC throughout, and so does what a recursive
definition computes for every input; of sums over finite sets only the step from
a set to one with an element more is needed, and proved.
