# A TLA+ verification of kokoro-bff

kokoro-bff is the public HTTP service of the Kokoro product: browsers talk to
it, and it talks to the Agent (which runs models and tools), the Scheduler, the
Storage service and other owners. What makes it more than a proxy is the state
it keeps in PostgreSQL between requests: outboxes that hand work to the other
services, a ledger copied back from the Agent, and receipts that make
mutations idempotent. This directory holds TLA+ models of that state and of
the workers that move it, TLC configurations that check small instances, and
TLAPS proofs for every value of the constants.

Paths below are relative to `src/src/`; `docs/` is `src/docs/`.

## 1. Inventory

### Components

| Component | State | Operations | What makes it correct |
| --- | --- | --- | --- |
| Chat dispatch outbox (`infrastructure/postgres/agent-dispatch-outbox-repository.ts`, `chat-turn-commit.ts`, `conversation-delete.ts`, `application/agent-dispatch-outbox-dispatcher.ts`) | `bff_agent_dispatch_outbox` (status, attempts, fence, lease, `admission_unknown_seen`), the assistant message | submit a turn; claim the conversation's head; POST it; mark admitted, unknown or not admitted; fail; delete the conversation | one run at a time and in order; a turn is failed only if the Agent can never have it; a late worker overwrites nothing; every turn ends |
| AG-UI projector and ledger (`application/agui/projector.ts`, `project-session-events.ts`, `infrastructure/postgres/agui-consumer-repository.ts`, `agui-consumer-registration.ts`, `agui-projection-repository.ts`) | `bff_agui_stream` (version, watermark, run columns, consumer lease), `bff_agui_source_event`, `bff_agui_event` | register a consumer; claim; read pages; ingest; commit under version and lease; settle; collect garbage; replay | the ledger is a prefix of the Agent's log; a turn is closed by its own end; a stale worker is harmless; everything is projected in the end |
| AG-UI replay and live stream (`http/routes/agent.ts`, `application/agui/session-runtime.ts`, `interfaces/http/agui/sse.ts`) | the connections' cursors, shared loads, cached pages, shared waits | replay after a cursor; wait for the next commit; resume | a reader sees every frame after its cursor once, or is told the cursor is gone; no reader is left behind |
| Agent cancellation outbox (`agent-cancellation-outbox-*.ts`, `clients/agent/cancellation-delivery.ts`) | `bff_agent_cancellation_outbox` | request, claim, deliver, settle, fail when exhausted | a cancellation succeeds only if the Agent recorded it; every one is closed |
| Scheduled task outbox (`scheduled-task-repository.ts`, `scheduled-task-outbox-dispatcher.ts`, `clients/scheduler/outbox-delivery.ts`) | `bff_scheduled_task`, `bff_scheduled_task_outbox` | create, update, delete, pause; claim, deliver (register, replace, delete), settle | the Scheduler's job converges to the last revision |
| Scheduled Agent dispatch (`scheduled-agent-dispatch-repository.ts`, `scheduled-agent-dispatcher.ts`, `scheduled-agent-terminal-consumer.ts`) | the dispatch row of an occurrence, the terminal consumer's cursor | accept an occurrence, claim, deliver, settle, consume the run's terminal page | one run at a time; the scope is free exactly when the run is over and read; every occurrence ends |
| Scheduler dispatch receipts (`scheduler-dispatch-receipt-repository.ts`, `http/routes/scheduler.ts`) | receipt with claim token and a lease of 60 s | claim, prepare, complete, release | a callback has one answer; an occurrence is queued once, from the task as it is |
| HTTP mutation receipts (`application/idempotency.ts`, `idempotency-repository.ts`) | `bff_idempotency_receipt` | claim or reclaim, commit, release | the same key answers the same response; a mutation is not made twice |
| Hand-over of a skill package (`application/skill-ai-handoff.ts`, `http/routes/skill-ai-import.ts`) | a checkpoint in `bff_idempotency_receipt` | create, begin, put, complete, validate; compare-and-set after each | a repeated request sends what the first one sent; one object, one result; no checkpoint is a dead end |
| Uploads to a project or a library (`application/project-resource-upload.ts`, `personal-file-upload.ts`) | a public receipt and a checkpoint in `bff_idempotency_receipt` | claim, create, admit, put, select, complete, abort, answer | one object version is completed, the selected one; an answer that is stored is final; nothing is aborted that may be completed |
| Project deletion and scope release (`project-delete.ts`, `project-scope-release-outbox-*.ts`) | project row, deletion receipt, release outbox | delete the aggregate, claim, release, settle, recover, report | nothing joins or leaves a deleted project; "released" is reported only when every scope is |
| Conversation move (`conversation-move.ts`) | the conversation's project reference | move, with the project rows as locks | a conversation never ends up in a deleted project; requests never deadlock; a move does not give old runs a new project |
| Process assembly (`main.ts`, `bootstrap/server.ts`, `bootstrap/runtime.ts`) | the listener, seven loops with a timer and a cycle, the store | start, signal, stop, drain, close, exit | the store is closed last; status 0 means drained; a signal ends the process |
| Reads, routes, clients, relays, archives, shares | rows written in one transaction each, or none | | see `PROJECT.json`, which lists each with the reason it is left out |

### How they interact

A chat turn is one transaction: user message, assistant message, dispatch row,
consumer registration and, if the turn is the head, its `queued` frame. A
dispatcher claims the head row of a conversation under a fenced lease and, in
the same transaction, registers its run as the one the stream expects. It POSTs
the run outside any transaction and settles by what it hears. The Agent logs
the run's events. A projector claims the stream row under another fenced lease,
reads pages of that log and commits each page in a transaction which compares
the stream's version; the page that brings the end of the expected run also
closes the dispatch row, settles the assistant message and announces the next
head. Deletion of the conversation stops the stream, closes what was never
sent, and writes a cancellation for everything that may have been sent, which
other dispatchers carry to the Agent. Browsers follow the ledger through
connections that share loads and sleeps within a process.

A scheduled task has its own outbox towards the Scheduler; the Scheduler calls
back for every occurrence, the callback's receipt gives it one answer, and an
accepted occurrence becomes a dispatch of the task's scope, which has its own
dispatchers and log readers. A project ties these together: deleting it deletes
its conversations, pauses its tasks and tells Storage to release each scope.

So one stream row has seven writers (turn, dispatch claim, dispatch failure,
consumer claim, projection, settlement, deletion) and one dispatch row five.
They agree by row locks taken in the order conversation, stream, outbox; by
fences; and by the stream's version.

### What is hard

* *Interleavings.* Every worker reads, calls out over HTTP without a lock, and
  writes. Anything can happen in between: lease expiry, takeover, a new turn,
  the deletion.
* *Unreliable calls.* A POST that timed out may still arrive; a COMMIT whose
  acknowledgement was lost is durable; a process dies between any two steps.
* *Budgets.* Attempts, pages per claim, commits per ingest and lease reserves
  cut work off in the middle.
* *Order.* Turns of a conversation, commands of a task, frames of a ledger.
* *Clocks.* Leases and retention compare database time, and the time of a row
  is the beginning of its transaction, not its commit.

`PROJECT.json` lists each hazard at its line, with the properties that answer it.

## 2. Plan

| # | Module | Abstract specification or composition | Status |
| --- | --- | --- | --- |
| 1 | `AgentDispatch`, `AgentDispatchProofs` | the outbox, the Agent and the run columns of the stream, composed | done |
| 2a | `AguiConsumer`, `AguiConsumerProofs` | implements `SourceLedger` | done |
| 2b | `AguiStream`, `AguiStreamProofs` | collection, replay, shared pages and sleeps of the connections | done |
| 3 | `AgentCancellation`, `CancellationPromise`, `RequestProofs` | the cancellation outbox, from the deletion that fills it on | done |
| 4 | `ScheduledTask`, `ScheduledTaskProofs` | task revisions, outbox and an external job table | done |
| 5a | `ScheduledDispatch`, `ScheduledDispatchProofs` | scope, dispatch rows, Agent and terminal consumer, composed | done |
| 5b | `SchedulerReceipt`, `SchedulerReceiptProofs` | the callback's receipt against a task that changes | done |
| 6 | `MutationReceipt`, `RequestProofs` | the HTTP receipt, reclaim after sixty seconds | done |
| 6b | `SkillHandoff`, `HandoffPromise`, `RequestProofs` | the hand-over of a skill package: checkpoints by compare-and-set, and its owner | done |
| 6c | `ResourceUpload`, `UploadPromise`, `RequestProofs` | uploads of project and personal files: the public receipt, the checkpoint and Storage, composed | done |
| 7 | `ProjectScope`, `ProjectScopeProofs` | project deletion, scope release, moves, archive, turns and tasks of a project, under their row locks | done |
| 7b | `Lifecycle`, `ClosePromise`, `RequestProofs` | the loops of all of these in their process, and its end | done |
| 8 | `FencedOutbox` | what the outboxes promise: one effective settlement per claim, FIFO heads; refined by modules 1, 3, 4, 5 | planned |

Pure algorithms (retry delay, page validation, the connection limiter) are left
to unit tests. Each module has one run, with safety and liveness together. Where the
code does less than a document or a comment says, the property that says it stands in
the module with a configuration of its own, and section 15 tells what TLC finds.

## 3. `AgentDispatch`: the chat dispatch outbox

### Correspondence

| Model | Code |
| --- | --- |
| `conversation`, `messageSeq` | `bff_conversation.status`, `MAX(message_seq)` |
| `outbox[d]` | the row of turn `d`; `unknown` is `admission_unknown_seen`; `elapsed` says that `available_at` or `lease_until` is in the past |
| `message[d]` | the assistant message's status |
| `stream[c]` | expected, latest and terminal run, consumer state, watermark |
| `ledger[c]` | the public frames queued, started, finished, errored |
| `cancelled` | runs with a row in the cancellation outbox |
| `worker[w]` | the claim in a dispatcher's memory |
| `requests`, `agent`, `agentLog` | the network and the Agent (external) |

`SubmitTurn` is `commitChatTurn`; `Claim` is `claimAgentDispatchOutbox`;
`Deliver`, `RefuseLocally` and `GiveUp` are the steps and outcomes of
`outbox-delivery.ts`; `MarkAdmitted`, `MarkUnknown`, `MarkNotAdmittedSticky`,
`MarkFailed` and `DropSettlement` are the settlements; `Project` is the commit of
one source event; `DeleteConversation` is `deleteConversation`. `Crash` is the
death of the process or a settling transaction that failed and was swallowed.

Choices a reader of the code may ask about:

* The head is the open row with the lowest sequence; the second sort key of the
  code (the row id) never decides, as sequences are unique.
* The dispatcher claims one row at a time, and a claim whose remaining lease
  budget is too short is rolled back or dropped: `Claim` then `Crash`.
* `failOneExhaustedHead` has no action. `Claim` is guarded by the absence of
  the row it would fail, and `SweepFindsNothing` proves that there never is one.
* Delays are data: a row falls due by `Elapse`.
* A page of several events is projected one event at a time here; pages are
  the subject of `AguiConsumer`.
* FIFO is protected twice, by the head test and by the expected run.

### Properties

* `ClaimInv` and `ChatInv`, the inductive invariants of the claims and of the
  conversation (section 16). With `FailedNeverAdmitted` a turn is failed only if the Agent neither has its run nor can still get it.
* `NoStateException`: the session snapshot never throws
  `CHAT_EXECUTION_HEAD_STATE_INVALID` (`ExecutionHeadValid`), and no projected
  event finds its dispatch closed or another run expected, whichever of claim,
  settlement and projection came first (`SourceProjectable`).
* `DeletedRunsCancelled`: a deletion leaves no run behind that nobody cancels.
* `TurnRecordsAgree`: three writers of frames tell the runs one after the other
  (`LedgerSerial`); the message agrees with the dispatch (`OutcomeAgreement`).
* `StaleSettlementHarmless`, `FifoAdmission` (actions): a worker that was
  overtaken changes nothing; the Agent takes runs in the order of the turns.
* `EveryTurnCloses` (liveness).

### Runs

| Run | Instance | Distinct states | Shows |
| --- | --- | --- | --- |
| `dispatch` | one conversation, 2 turns, 2 workers, 1 attempt, 3 faults, fair | 1,166,272 | the invariants, `StaleSettlementHarmless`, `FifoAdmission`, `EveryTurnCloses` |

`docs/RELIABILITY.md:42-43` says of the outboxes that a command beyond its
attempt budget becomes `failed`. Here the claim takes a row when attempts are
left *or* admission is in doubt *or* its lease lapsed, and the sweep that fails
rows wants no doubt, which after a first claim there always is. The code's
behaviour is the safer one: failing such a row would break `FailedNeverAdmitted`.

*Bounds.* Two turns are a head and one behind it, and, once the head is closed, a
predecessor whose late requests and settlements may disturb its successor. Two
workers are needed for a takeover. A fault is a timeout, crash, refusal or late
expiry; three of them give "an attempt in doubt, taken over, then refused" and
one more while that is settled. One attempt makes the second claim the one
beyond the budget. The stream of one conversation never reads another's rows, so
one conversation is enough (the proofs have any number).

*Fairness.* The dispatchers' and projectors' timers are rearmed in `finally`,
so a claimable row is claimed and an active stream projected; the clock
advances; a settlement that can commit does; the Agent answers a connection
that stays open and ends the runs it accepted. Nobody is obliged to submit,
delete, refuse or fail, and faults are bounded.

## 4. `AguiConsumer` and `SourceLedger`: the projector

### Correspondence

| Model | Code |
| --- | --- |
| `log` | the Agent's event log of the session (external) |
| `stream` | `bff_agui_stream`: version, watermark, run columns, `consumer_state`, lease owner and fence; `elapsed` and `due` compare lease end and next poll with the clock |
| `ledger` | source sequences of `bff_agui_source_event`, in order of insertion |
| `dispatch[r]` | what the dispatch outbox holds of turn `r` |
| `worker[w]` | locals of `processLease`: cursor, page, the snapshot an ingest read, pages read, commits tried |
| `refused` | history: fences under which the Agent refused a read for good |

| Actions | Code |
| --- | --- |
| `SubmitTurn`, `ClaimDispatch`, `FailDispatch`, `DeleteConversation` | the writers of the row on the chat side |
| `Claim`, `Settle` | `claimConsumers`, `settleConsumer` |
| `ReadPage`, `ReadFails`, `ReadRefused` | `AgentAgUiSourceReader.read`: a page, a retryable failure, a refusal |
| `ReadStream` | `AgUiProjectionService.ingest` up to its command |
| `Commit`, `CommitUnknown`, `VersionConflict`, `LeaseConflict`, `CommitFails` | the outcomes of `commitProjection` |
| `LoseLease` | a failed renewal, a spent local budget, a death |
| `LeaseExpires`, `FallsDue` | the database clock |

`SourceLedger` is the promise, without leases, pages or retries: the log
grows, one run at a time is expected, batches of events are appended in order,
the batch with the end of the expected run closes it. `ImplementsLedger` is the
refinement (`projected <- ledger`, `expected <- stream.expected`):
`ClaimDispatch` is `Expect`, `FailDispatch` is `Abandon`, `AgentEmit` is `Emit`,
`Commit` and `CommitUnknown` are `Project`, and everything else stutters.

Choices a reader of the code may ask about:

* A renewal that succeeds has no state of its own: the lease stays unexpired.
* A claim dropped for its remaining budget is `Claim` then `LoseLease`.
  `releaseConsumer` runs at shutdown on the leases still active, and there are
  none once the cycle has ended: it has no action.
* The Agent's pages are full unless its log ends, which is what the reader's
  contract checks accept.
* `latest_run_id` is dropped: the terminal run is computed from the snapshot's
  expected run. The code has further branches for events that arrive while no
  run or another one is expected; the model counts these as throws, which is
  stricter, and `CommitNeverThrows` shows that none comes.
* Digests, failure counts and error columns are data; they set delays, and a
  stored source with another digest would be an Agent that rewrites its log.
* `queued` frames are the BFF's own source events and not in `ledger`; the
  version they cost is kept (`QueuedFrame`).
* A consumer that is blocked while its run is still expected stays blocked, and
  its conversation waits for an operator (`docs/RUNBOOK.md`).

### Properties

* `VersionPinsStream`: the version of the row pins the columns a command was
  computed from, whichever of the seven writers ran in between.
* `StaleWorkerHarmless` (action): who lost the lease changes nothing.
* `ImplementsLedger` (refinement), as above.
* `CatchesUp` (liveness): every event reaches the ledger of an active stream.
* `ConsumerInv`, the inductive invariant, is proved; with it that the ledger is a
  prefix of the log, that the exceptions of the projection transaction, which
  would wedge the consumer, are unreachable, that a turn is closed exactly by
  the commit of its own end, that only a refusal of the Agent blocks a consumer
  (an overtaken page looks like a gap to its worker, but that worker has lost
  the lease), and that the stream of a deleted conversation stays stopped.

### Runs

| Run | Instance | Distinct states | Shows |
| --- | --- | --- | --- |
| `consumer` | 2 turns, 2 projectors, pages of 2, 2 pages a claim, 2 commits an ingest, 3 events, 1 fault, fair | 1,271,391 | all properties |

`docs/RELIABILITY.md:66-67` says that a blocked consumer is
reactivated only by a controlled recovery. Registration of a new expected run
sets `consumer_state = 'active'` whatever it was
(`agui-consumer-registration.ts:31`). A poll between two runs that the Agent
refuses blocks the consumer; the next chat turn activates it. `Registered`
follows the code.

*Bounds.* Two turns are the one that ends and the one that takes the stream
over. Three events in pages of two give a page another worker overtook by half,
and a second page of the same claim. One fault gives a lease that expires under
a busy worker, and with it two workers on one page; revocation and deletion cost
no fault. Idle polls would only raise the fence of an idle stream, so there are
none; the proofs have any number of everything.

*Fairness.* Claims, page reads, ingests, commits and settlements that can
happen do (timers are rearmed, calls have timeouts, transactions return), and
an abandoned lease expires. The chat side and faults are not obliged.

## 5. `MutationReceipt`: idempotent mutations

### Correspondence

| Model | Code |
| --- | --- |
| `row` | the row of `bff_idempotency_receipt` of one scope; `final` is any HTTP status, `body` names the execution that answered, `expired` says that `created_at` is over sixty seconds old |
| `claimant` | history: whose claim a pending row is; no column says it |
| `client[c]` | one request and its progress through `mutationTicket`, the handler and `reply` |
| `overrun` | history: a claim has expired whose handler was still running |

`Claim` is `claimReceipt`, `ReadReceipt` the separate `getReceipt` after a
refused claim; `Handle` and `HandleFails` are the owner's answer (below 500, or
not); `PutReceipt` and `ReleaseReceipt` are `commitReceipt`; `ClaimUnknown`,
`PutUnknown` and `ReleaseFails` are the same statements when they throw, applied
or not; `Abandon` is the death of the process or an exception past `reply`;
`ClaimExpires` is the database clock; `Retry` is the client.

Choices a reader of the code may ask about:

* The path, user and key are the scope, so one row is the whole model. The
  payloads are told apart by their fingerprint.
* An answer that could not be stored is not sent: `reply` sends 503, and the
  client may retry. An answer of 4xx is stored like any other.
* A statement that throws took effect before it threw, or never.
* A process without a business store uses a map in memory instead; it is read
  and written without an await in between, and dies with its process.

### Properties

* `OneAnswer`: for handlers of any length, every answer a client may keep is the
  one in the row, and of its own payload.
* `TimelyNoParallelExecution`: until a handler has outlived its sixty seconds,
  executions of a key never overlap and none runs once an answer is stored.
* `KeyRecovers` (liveness): no crash locks a key for good.
* Proved beside these: a stored answer never changes (`AnswerIsForever`), and
  `ClaimInv`: until an overrun, whoever may still write or release holds the
  claim, although the statements compare only the payload.

### Runs

| Run | Instance | Distinct states | Shows |
| --- | --- | --- | --- |
| `receipt` | 3 requests, 2 payloads, 2 faults, handlers of any length, fair | 95,565 | all properties |

*What an overrun does.* `docs/api/v1/README.md:125-127` says that a request whose
key is still being processed is refused and has no second side effect. The claim
takes any pending row of more than sixty seconds, and no limit keeps a handler
below that: the upstream timeouts are any positive number and the database pool
has no statement or connection timeout. So without the premise of
`TimelyNoParallelExecution` the second half of that promise is violated by three
steps: claim, expiry, second claim. The two executions answer alike all the same
(`OneAnswer`): only one of them can store its answer.

*Bounds.* Three requests are a holder, the one that takes its claim over and one
that comes after a release by the wrong request; two payloads give the conflict
and a takeover by another payload. Two faults are a lost answer followed by a
failed release.

*Fairness.* A request runs on while its process lives, the client retries, the
clock advances; failures are not obliged and bounded. `KeyRecovers` is stated for
handlers that are timely: two overrunning payloads of one key can take the claim
from one another for ever, as neither may store its answer in the other's row.

## 6. `ScheduledTask`: commands to the Scheduler

### Correspondence

| Model | Code |
| --- | --- |
| `task` | the row of `bff_scheduled_task` of one task; `deleted` is a row that is gone, `paused` also an active task that is disabled |
| `outbox[c]`, `last` | the rows of `bff_scheduled_task_outbox` of the task, numbered in the order of their commits |
| `outbox[c].created` | the place of the row in the order of `(created_at, outbox_id)`, by which claims are made |
| `outbox[c].due` | `available_at` or `lease_until` has passed |
| `clock`, `begun` | beginnings of transactions, and those that have not ended |
| `worker[w]` | one command of a dispatcher's cycle: its lease, the call under way, the result |
| `requests`, `job`, `answers` | the Scheduler (external): requests it has not handled, its job and whose command it obeyed, its command receipts |

`CreateTask`, `UpdateTask`, `DeleteTask` and `ChangeNothing` are the transactions
of the repository (an update is also a retry and the pause by a project's
deletion); `BeginChange` is their `BEGIN` and `Locks` the row lock. `Claim` is
`claimScheduledTaskOutbox`; `Call`, `Heard` and `CallFails` are
`SchedulerOutboxDelivery.deliver` with its fallbacks (a registration that meets a
job replaces it, a replacement that meets none creates it, a deletion that meets
none has succeeded); `MarkSucceeded`, `MarkRetryable` and `MarkFailed` are the
three settlements, the last with the task's own status.

Choices a reader of the code may ask about:

* Tasks share no row, so there is one, and its id, derived from the key of
  the creating request, is not used again.
* A transaction may lock the task after one that began later. Nothing in the
  code prevents it: an update waits for the project and the task, and two
  beginnings in the same millisecond are ordered by a hash. `Timely` says that
  it has not happened to the commands written so far.
* A call is sent whenever the worker gets to it: a batch is worked off
  one command after another, and no lease is compared before a call. A call that
  got no answer may be obeyed at any time later.
* The Scheduler answers a repeated command (the same key and operation) as it
  answered it first, refusals included.
* A success whose body cannot be read fails the command for good, though it was
  obeyed: `CallFails` has every outcome, with the request lost or not.

### Properties

* `TimelyInCommitOrder`: if locks came in the order of the beginnings, no command
  is claimed while one that committed before it is open.
* `LastWins`: when the last command has succeeded the job is what it says,
  whatever happened to earlier ones. It assumes `Orderly`: `Timely`, and no
  command that was failed while an attempt of it could still arrive. (Both
  premises are needed; TLC finds the behaviours without either.)
* `FailureVerdict`: the task says `failed` when the command of its current
  revision failed, and only then.
* `EveryCommandCloses` (liveness).
* Proved beside these: `TaskInv`, the inductive invariant, and that late workers
  do not change a settled command (`ClosedStaysClosed`).

### Runs

| Run | Instance | Distinct states | Shows |
| --- | --- | --- | --- |
| `task` | 2 dispatchers, 3 commands, 2 attempts, 1 fault, fair | 228,165 | all properties |

*What a late transaction does.* `docs/RELIABILITY.md:43-44` says that the commands
of a task are claimed in creation sequence so that no old snapshot overtakes an
earlier command. `created_at` is the time a transaction began, and a transaction
that began earlier can commit a later revision: a project's deletion begins, a
task is created in the project, the deletion pauses it; the pause is delivered
first, and the registration after it leaves an active job. `Timely` in
`TimelyInCommitOrder` and `LastWins` excludes this and nothing else.

*Bounds.* Three commands are a registration and two changes, so a command can
overtake its predecessor while a third still waits; two dispatchers are the
holder of a lapsed lease and the one that took over; a budget of two fails a
command on its first attempt (a refusal) and on a repeated one; the fault is a
lost answer, a lapsed lease or a failed settlement. The system stops when no
command is open and the bounds are spent, so deadlock is not checked.

*Fairness.* Dispatchers poll and work on while they live, the Scheduler handles
what reaches it, the clock advances. No owner is obliged to change a task and no
transaction to end: a transaction that waits has no row that others wait for.

## 7. `ScheduledDispatch`: the runs of a scheduled task

### Correspondence

| Model | Code |
| --- | --- |
| `scope` | the row of `bff_scheduled_agent_scope`: active occurrence and run, watermark, the consumer's lease |
| `dispatch[o]` | the row of an occurrence: status, attempts, `admission_unknown_seen`, lease |
| `worker[w]`, `reader[k]` | a dispatcher's claim, and a terminal consumer's claim with the page it read |
| `requests`, `agent`, `log` | the network, the Agent and its log of the session (external) |

| Actions | Code |
| --- | --- |
| `Accept` | `accept`: queues the occurrence, due at once, and leaves the scope's active occurrence alone |
| `Claim`, `ReleaseNeverSent` | `claim`, which makes the occurrence it takes the active one, and `releaseNeverSent` when the budget left is too short to send |
| `Deliver`, `RefuseLocally`, `GiveUp` | the POST, its local refusal, its timeout |
| `MarkAdmitted`, `MarkUnknown`, `MarkNotAdmitted`, `DropSettlement` | the settlements, and one that finds its claim gone |
| `ClaimConsumer`, `ReadPage`, `CommitPage`, `DropPage` | `claimConsumer`, the page after the watermark, `commitSourcePage`: it settles the active dispatch at the end of its run, and frees the scope when the log is drained |
| `ReadFails`, `CommitFails`, `ReleaseConsumer` | a failed read or transaction, `releaseConsumer` |
| `Crash`, `ReaderCrash` | death of a dispatcher or a consumer |

Choices a reader of the code may ask about:

* Every transaction locks the scope first, so each is one action. The claim's
  identity (owner, token, fence) is the name of who works on one claim at a time.
* Attempts saturate at the budget. A COMMIT whose acknowledgement is lost is a
  crash after the commit; a transaction rolled back for its budget is no step.
* `active` being NULL means that all open rows are pending and due; that is
  proved (`ActiveInv`), not assumed.
* Scheduled launches carry no skills, so no event follows the end of a run; the
  code throws on one (`SOURCE_AFTER_TERMINAL`), and `PageCommits` shows that none
  of its throws is reached.

### Properties

* `FailedNeverAdmitted`. `ScopeSerial`: runs of a task never overlap
  (`RunsOneAtATime`, `docs/TECHNICAL_DESIGN.md:2130`), and the scope is free only
  when every run the Agent had is over, settled, and read to its end
  (`FreeMeansDrained`).
* `PageCommits`: the page of a live claim commits. `ActiveUntilSettled` (action):
  no late answer, page or occurrence replaces an active dispatch.
* `EveryOccurrenceCloses` (liveness): every occurrence is closed, unless some
  occurrence is stranded as `sched_never_sent` shows.

### Runs

| Run | Instance | Distinct states | Shows |
| --- | --- | --- | --- |
| `sched_dispatch` | 2 occurrences, 2 workers, 2 readers, pages of 1, 1 attempt, 1 event of noise, 2 faults, fair | 957,866 | all properties |

*Bounds.* Two occurrences are an active one and a waiting one, and may be accepted
in either order; pages of one event make the end of a run and the end of the log
two commits. Two readers and two workers are a holder and the one that takes
over. *Fairness.* Dispatchers and consumers poll, the Agent answers and ends its
runs, clocks advance; faults and further occurrences are not obliged.

## 8. `SchedulerReceipt`: one answer to a callback

### Correspondence

| Model | Code |
| --- | --- |
| `receipt[k]` | the row of a callback's key: state, digest, token, lease, frozen snapshot, answer |
| `task` | present, active, expired, revision |
| `queued` | the payload under which the occurrence was accepted |
| `handler[h]` | one execution of `schedulerDispatch` |
| `told` | history: the final answers each callback was given |

`Claim` and `Replay` are `claim` of the receipt repository with its answers for a
settled, held or foreign receipt (409 and 425 change nothing and are no steps).
`Step` is the handler: `ReadTask`, `Prepare` (`prepareSnapshot`, which freezes the
launch), `Accept` (the occurrence is queued), `Settle` (`complete`) and `Release`
(`releaseRetryable`). `TaskChange` is what happens to the task meanwhile:
`UpdateTask`, `FailTask`, `DeleteTask`, `ExpireTask`.

Choices a reader of the code may ask about:

* One occurrence, announced under two keys. The digest is the task's revision in
  the body, the token the handler's name.
* A takeover keeps the frozen snapshot. The branch
  `snapshot.taskRevision !== taskRevision` cannot be reached and has no step.
* Exceptions, lost COMMITs and deaths are `Die`: the claim is left to its lease. So
  is an accept that finds the occurrence accepted from another payload
  (`SCHEDULED_AGENT_DISPATCH_CONFLICT`).
* A process without a dispatch service (`dispatch === undefined`) is not modelled.

### Properties

* `OneVerdict`: however many deliveries overlap, a callback's final answers agree
  with each other and with its receipt.
* `QueuedWhileActive` (action): an occurrence is queued once, and only from the
  current revision of an active task, although the launch was frozen in an earlier
  transaction and perhaps by an earlier handler (`docs/api/v1/scheduled.md:50`).
* `CallbackAnswered` (liveness): a callback that goes on being delivered is
  answered for good, unless the occurrence was accepted from another payload.
* Proved beside these: an occurrence is queued exactly when a receipt says it was
  accepted, and with that payload (`QueuedIffAccepted`).

### Runs

| Run | Instance | Distinct states | Shows |
| --- | --- | --- | --- |
| `callback` | 2 handlers, 2 keys, 2 revisions, 2 faults, fair | 255,428 | all properties |

*Fairness.* Handlers run on, leases end, and the Scheduler delivers an unanswered
callback again: strong fairness, as a delivery is possible only when no handler
holds the receipt (`docs/API_CONTRACT.md:2879-2880`). An overtaken lease of a
working handler is a fault.

## 9. `ProjectScope`: what ends a project

### Correspondence

| Model | Code |
| --- | --- |
| `project`, `conv`, `task`, `runs` | the rows of projects, conversations, tasks and chat dispatches; `retired` is the execution context a move takes away |
| `txn[r]` | the transaction of a request: what it wants, the locks it has and wants |
| `deletion`, `release` | `bff_project_deletion`, `bff_project_scope_release_outbox` |
| `tickets`, `accepted` | commands in the hands of dispatchers, and what Storage has released |
| `moves` | history: times a conversation left a project |

A request is a chat turn (which may create its conversation), a move, an archive,
a creation or update of a task, a deletion of a conversation or of a project. All
lock project rows in the order of their ids, then the conversation's, as
`docs/TECHNICAL_DESIGN.md:1120-1146` and `1195-1240` prescribe; the points where a
transaction waits for a lock are where others interleave. The last lock, the writes
and the COMMIT are one step. A request is `Begin` (or `Again`, after an abort), `LockProject`,
then for a conversation `LosesConversation` or its commit (`CommitTurn`,
`CommitMove`, `CommitArchive`), for a task `CommitCreateTask` or `CommitUpdateTask`,
`DeleteConversation`, and for a project `LockMember` and `CommitDeletion`; `Abort`
ends any of them. `Claim`, `Elapse` and `Carry` (`Accept`, `Refuse`, `GiveUp`, `Skip`,
`Settle`) are the release outbox: a claim of at most `BatchSize` due commands, at most one of
them the recovery of a command blocked by refused credentials; Storage's answer;
the settlement, which recomputes the deletion's state from all commands and
checks that they are the frozen set.

Choices a reader of the code may ask about:

* An aborted transaction (40P01, a lost connection) is free of consequence; a move
  is then retried. Receipts replay answers and change nothing.
* A task is active or not; runs are taken as open, since what ends them is
  `AgentDispatch`'s; slugs are immutable and resolve to ids.
* The stored state of a deletion stays `blocked` while a recovered command is tried
  again; the owner's read computes its answer from the commands (`Reported`).
* The integrity failure of a settlement is in the model, and proved unreachable.

### Properties

* `DeletedAtRest`: the commands of a deletion are and stay those of its members and
  one for the project, its members are deleted, and no task of it is active, not
  even one created or resumed meanwhile.
* `HonestReport`: "released" is reported only when Storage has accepted every
  scope, and the stored state agrees with the commands.
  The run checks the two as one, `DeletionSound`.
* `NoWaitCycle`: requests never wait for one another in a circle.
* `BindingLineage`: a run may use its project only if its conversation never left it.
* `EveryScopeEnds` (liveness): every command is released or blocked for good.
* Proved beside these: Storage is told to release only what is deleted.

### Run

| Run | Instance | Distinct states | Shows |
| --- | --- | --- | --- |
| `project_scope` | 2 projects, 2 conversations (one absent), 2 tasks (one absent), 3 requests (a project deletion, a move, anything else), 2 dispatchers, batches of 2, 1 fault, fair | 400,710 | all properties |

*Bounds.* Two projects are the least for which lock order matters; the absent
conversation and task are those a turn or a creation brings in; the third request
is any other kind, so that every kind meets a deletion and a move. One fault is a
refusal, a lost answer or a lapsed lease. *Fairness.* Dispatchers claim what is due,
calls return, clocks advance; requests are not obliged to be made.

## 10. `AguiStream`: the public stream and its readers

### Correspondence

| Model | Code |
| --- | --- |
| `log`, `kept` | every frame ever written by `public_sequence`, and those `bff_agui_event` still has; `tx` is the transaction that wrote a frame and `after` the last frame committed before it began, which is what `recorded_at` orders by |
| `submitted` | how many turns have a dispatch |
| `cache[c]` | the entry of `AgUiReplayCoordinator` for a cursor: none, in flight, or a page |
| `reader[r]` | a connection of `durableAgentEventStream`: where it is, and its cursor |

`Submit` and `Tell` are the transactions that write frames (a turn, the start and
later pages of a projection, a failure); `CollectGarbage` deletes one batch of old
frames under its pins; `Connect` is a request with any cursor; `TakeCached`,
`AwaitLoad`, `Load`, `LoadFails` and `Expire` are the shared replay; `Wake` ends the
sleep all connections of the conversation share.

Choices a reader of the code may ask about:

* A reconnection is a new connection, with any cursor. The limiter (429), the
  writer's budgets, a projection that is not configured or blocked and a client that
  leaves are one nondeterministic end of a connection.
* Tombstones only choose between two refusals (410 or 400) and are left out. So is
  the pin of an open interaction, which never precedes its run's `RUN_STARTED`.
* Nothing calls `invalidate` of the coordinator, although
  `test/agui-runtime.test.mjs:63` names it: a page may be a few milliseconds older
  than the request that gets it. Entries of cursors nobody asks for again are not
  removed from the map (`session-runtime.ts:190-209`).

### Properties

* `OrderedLossless`: if every transaction began after the commits its frames follow
  (`Timely`), no page omits a frame after its cursor. Without the premise it is
  false: the `queued` frame of a turn that waited for the lock carries an earlier
  time than the frames before it, is collected before them, and a replay from
  further back skips it.
* `OpenTurnKept`: no frame of an open turn is collected. The run checks the two as one,
  `LedgerServed`.
* `ReaderCatchesUp` (liveness): no connection stays behind the ledger, though it may
  join a sleep that began before a commit or take a page loaded before it.
* Proved beside these: a page that is not at the head has frames, so the loop
  that drains the ledger advances (`DrainAdvances`).

### Run

| Run | Instance | Distinct states | Shows |
| --- | --- | --- | --- |
| `stream` | 2 connections, 2 turns, 5 frames, pages and batches of 2, 1 cached page at a time, fair | 517,206 | all properties |

*Bounds.* Five frames are a whole turn of three and the start of the next, so a slice
can be collected while a reader is in it and a page ends within a turn. Two
connections share a load, or a sleep, that began before a commit. *Fairness.* The
code of a connection, loads, expiry and the shared timer; nobody is obliged to
write, to collect or to connect.

## 11. `AgentCancellation`: the runs of a deleted conversation

### Correspondence

| Model | Code |
| --- | --- |
| `cancellation[r]` | the row of `bff_agent_cancellation_outbox`; `lapsed` says that `lease_until` has passed |
| `worker[w]` | `process` of a dispatcher: claimed, waiting for the Agent, about to settle |
| `strays` | runs with a request on its way that nobody waits for (a timeout, a death) |
| `agent`, `launch` | what the Agent has of each run, and the launch still on its way (external) |

The module begins where `DeletedRunsCancelled` of `AgentDispatch` ends: the deletion
has committed, every attempted run has a row, and only the latest run may be running
or still to arrive. `Claim` is `claimAgentCancellationOutbox` with
`failOneExhaustedHead` in the same transaction; `Send`, `Answer` and `GiveUp` are
the delivery and its classification; `Settle` is one of the three settlements;
`Abandon` a death, or a settlement that failed and was swallowed.

Choices a reader of the code may ask about:

* Attempts of a row are numbered, and the number stands for token and fence.
* Delays are the time before a claim; a row in its delay still holds up later ones.
* The receipt of a command the Agent has recorded but not carried out (`pending`)
  counts as success, and nobody looks at it again: `spared` is a run such a command
  failed to stop. The property says "recorded", not "stopped", for this reason.

### Properties

* `SettlementsAreEarned` (action): a cancellation is closed by the outcome of its
  current attempt or by its spent budget, and succeeds only if the Agent has
  recorded it or the run is over: a launch that is still on its way does not slip
  past it. With it, always, `LeasesApart`: no two workers are on the same attempt.
* `EveryCancellationCloses` (liveness).

What the model does not promise, since the code does not: a cancellation whose
attempts are all answered 404 fails, and a launch arriving after that is not
cancelled; and as cancellations are sent in the order of the runs, the one of the
running run waits until those of earlier runs, over or never admitted, are closed.

### Run

| Run | Instance | Distinct states | Shows |
| --- | --- | --- | --- |
| `cancellation` | 2 runs, 2 workers, 3 attempts, fair | 177,829 | all properties |

*Bounds.* Two runs are one that holds up the other; three attempts give a first, a
taken over and a last one; the budget bounds everything else. *Fairness.* Dispatchers
poll, send or give up, and settle; leases lapse. The Agent need not answer.

## 12. `SkillHandoff`: a package and its owner

### Correspondence

| Model | Code |
| --- | --- |
| `receipt` | the receipt of the scope `[tenant, user, "skill-import-v1", key]`: `payload` is the fingerprint, `stage` the status and the stage of its body; `initial`, `begun`, `ended` the state versions a checkpoint keeps, `source` the selected object version |
| `stale` | `created_at` is more than sixty seconds old |
| `handler[h]` | a request in `handoffSkillPackage`: `known` is the code's `receipt`, `next` the `replacement` it wants to store |
| `draft`, `strays`, `puts` | Platform, commands on their way, Storage (external) |
| `told` | answers 201 |

`Start` to `ReadBack` are the function up to line 72; `Call` is `create`, `begin`,
`complete` or `validate`, whichever the checkpoint asks for, `Status` and `Put` the
other two calls; `Store`, `StoreUnknown` and `Verify` are `advance`, on
`compareAndSetReceipt`. `CallFails` is a call without an answer, which may yet
arrive, `Abandon` a cancelled request or a dead process.

Choices a reader of the code may ask about:

* `pending` is status 102 and `done` is 201; the five stages between are 200. Only
  a pending receipt can be claimed again, after sixty seconds.
* A command's id is the key with the kind of the call, so a scope has one of each.
  The owner executes it once. What a repetition answers is what
  `docs/API_CONTRACT.md:432` found to matter: the version of that time or the
  draft's present one, so both are tried.
* The shape of a checkpoint and the identity of the attempt are checked by the code
  at every stage; the model's receipts have the right shape. Receipts of the former
  format fail closed and are not in it.
* An owner that turns a package down (not clean, not valid) does so again at every
  repetition; the model's packages are good ones.
* The comment on line 24 says that losers of the compare-and-set perform no owner
  mutation. A loser whose checkpoint *equals* the stored one passes the readback
  and goes on, as a request whose acknowledgement was lost must. The two then send
  the same commands, which `CommandsNeverRefused` shows to be harmless.

### Properties

* `CommandsNeverRefused`: the owner never gets one command id with two bodies, or
  a command for a version the draft does not have.
* `OneOutcome`: the object that is completed is the one the receipt has selected,
  although each of two requests may have put one; all answers are the stored one.
  The run checks the two as one, `HandoffSound`.
* `HandoffEnds` (liveness): a claimed key is handed over in the end.

### Run

| Run | Instance | Distinct states | Shows |
| --- | --- | --- | --- |
| `handoff` | 2 requests, 2 payloads, 3 faults, fair | 241,218 | all properties |

*Bounds.* Two requests are one that overtakes and one that is overtaken, at any two
stages; a request that ended may start again as a third. Two payloads are a conflict.
Three faults are a lost call, a lost acknowledgement of its checkpoint after the
repetition, and one more in the readback. One edit of the draft after its validation
gives the owner a present version that is not the one of any command.

*Fairness.* A request under way goes on, its calls being bounded by a deadline, and
the client repeats a request that has not been answered. Nobody is obliged to use
the key first, and faults are bounded.

## 13. `ResourceUpload`: a file and its two receipts

### Correspondence

| Model | Code |
| --- | --- |
| `ticket` | the public receipt of the route (`mutationTicket`, `commitReceipt`), by the answer it stores |
| `checkpoint` | the checkpoint of the scope `project-resource-upload:v1` or `personal-file-upload:v1`: status 102 is `pending`, 200 is `admitted` or `selected` with its `source_version_id` |
| `old` | `created_at` of the pending ones is more than sixty seconds old |
| `handler[h]` | a request: `upload` is `uploadId !== null`, `attempted` is `completeAttempted`, `seen` is `status.sourceVersionId` |
| `owner`, `puts`, `strays` | Storage and commands on their way (external) |

`Begin` and `Reply` are the route, `Restore` to `GetAsset` the use case statement by
statement, `Release` its inner and `Catch` its outer catch block. `CallFails`,
`StatementFails` and `ReplyLost` are calls and statements without an answer, with or
without effect. `kind` chooses between the two use cases, which are one
function but for the abort; a personal file's `attempted` has no reader then.

Choices a reader of the code may ask about:

* The module has one file. Another one under the key has another fingerprint and is
  refused by the first receipt that is there. `MutationReceipt` has the payloads.
* Commands are executed once by id. Creation answers the same upload whatever
  became of it, and its object may be put again. Storage freezes the version a
  Complete names before it commits the asset, so a lost Complete may leave the upload
  pending with its version (`GetUploadStatusResponse.source_version_id`).
* Receipts age while no request is under way; a request that overruns the sixty
  seconds, which its 45 s budget forbids but no PostgreSQL call respects, costs a fault.
  The two receipts age apart: the public one is claimed first.
* Verdicts of the scan end the same way at every repetition, or later; they choose
  between answers that are failures here.

### Properties

* `OneSelection`: the owner gets one complete command, with one version, and an asset
  is that of the checkpoint's selection, so that every later request finds it.
* `AnswersTrue`: a stored answer is what became of the upload, whoever completes or
  aborts it; a personal file is never given up. The run checks the two as one,
  `UploadSound`.
* `KeyAnswered` (liveness): a claimed key ends with a verdict, which is the asset, or that
  the upload was aborted or refused. The exception is what `FinalAnswers` denies: a
  request comes to a checkpoint that another one has claimed less than sixty seconds ago
  or has already admitted its upload to (`Hurried`), and its “in progress” is
  stored. Both have to happen, so a key whose checkpoint could never be claimed again
  violates the property, whatever it answers meanwhile.
* `FinalAnswers` and `NeverAbortsUncertain` are what a document and a comment say,
  and are false (section 15).

### Run

| Run | Instance | Distinct states | Shows |
| --- | --- | --- | --- |
| `resource_upload` | a project's resource or a personal file, 2 requests, 4 faults, fair | 191,245 | all properties |

*Bounds.* Requests start again, so two stand for any number that never overlap more
than two at a time. Four faults are an overrun, a lost Complete, a lost selection and
one more. *Fairness.* As in section 12, and the clock goes on.

## 14. `Lifecycle`: the end of a process

### Correspondence

| Model | Code |
| --- | --- |
| `loop[w]` | a worker: `timer`, `activeCycle` with what it is at, the commands of the cycle it has `left`, and the promise of `stop()` |
| `stopper` | the loop `stopWorkers` awaits (`bootstrap/runtime.ts:382-397`) |
| `server`, `closer`, `store` | the listener, `composition.close()`, the pool and the Redis client |
| `main` | `main.ts`: terminating, its exit and why |
| `request[q]` | a request that is `served`, or goes on though its connection was `cut` |

Loop 0 is the AG-UI projector, the last one the release of project scopes, those
between are the other dispatchers; the loops differ only in the order of `stop()`
(`StopNext`), in how a failed cycle ends it (`Answered`), in how the timer is set
(`Rearms`), and in the releaser leaving its cycle once it is stopped (`Leaves`). What
a cycle does to the store is the subject of the other modules.

Choices a reader of the code may ask about:

* A dispatcher goes on claiming until its cycle's batch is done though it was
  stopped; nothing but the deadline bounds how long.
* A cycle fails where its claim does; deliveries and settlements swallow their errors.
* A signal before `listening` starts nothing, and is not modelled. Later signals are
  ignored by the code and by the model.
* After `exitCode = 0` the process leaves when nothing holds its event loop; timers
  of loops do not (`unref`).

### Properties

* `StoreClosesLast`: the store is not closed under a loop, or under a request that
  has a client, and no loop starts again behind it.
* `HonestExit`: status 0 means that all was drained and the store closed. The run checks
  the two as one, `CloseSound`.
* `SignalEnds` (liveness): a signal ends the process, whatever hangs.
* `DrainsThenCloses` is what `docs/RELIABILITY.md:110` says, and is false (section 15).

### Run

| Run | Instance | Distinct states | Shows |
| --- | --- | --- | --- |
| `lifecycle` | 4 loops, 2 requests, 2 commands to a cycle, 1 failure, fair | 264,078 | all properties |

*Bounds.* Two dispatchers are one before and one behind another in the order; two
commands are a cycle that goes on. *Fairness.* Timers fire, and a handler whose
client is gone ends, as each of its calls has a timeout. Cycles and clients may hang.

## 15. Where the code does less than is said of it

Each of these is a property of its module that TLC refutes under the configuration
named (`tlc -config ScheduledDispatchNeverSent.cfg MCScheduledDispatch`, and so on). They are
kept beside the runs of `PROJECT.json`, which are one for each module and all pass. The
checked properties state what remains true.

* `NeverSentRetried` (`ScheduledDispatchNeverSent.cfg`). `docs/TECHNICAL_DESIGN.md:2142`
  (item 10) says that a launch given back before it was sent keeps its row active and is
  retried with the same run. The claim counts an attempt and `releaseNeverSent` does not
  take it off; after `maxAttempts` of them the row is retryable, not in doubt and out
  of attempts, which no claim takes and nothing fails
  (`scheduled-agent-dispatch-repository.ts:289`), though line 2246 says that such a row
  may be failed. It stays the active occurrence of its scope and the first candidate of
  every claim. `EveryOccurrenceCloses` is therefore about the others.
* `QueuedBeforeExpiry` (`SchedulerReceiptExpiry.cfg`). `docs/api/v1/scheduled.md:51` says
  that an expired task never launches a run. The handler compares `expires_at` before it
  freezes the launch, and only if there is no frozen snapshot (`scheduler.ts:121,165`);
  the transaction that queues the occurrence looks at owner, status and revision of
  the task, not at its expiry (`scheduled-agent-dispatch-repository.ts:170-172`).
* `FinalAnswers` (`PersonalUploadInProgress.cfg`). `docs/DATA_MODEL.md:1807` says that the
  public receipt holds confirmed successes and deterministic errors only. A request
  that holds it but finds the checkpoint claimed answers 409 “in progress”
  (`personal-file-upload.ts:40`, `project-resource-upload.ts:35`), and `commitReceipt`
  stores every answer below 500: after a death, or a release of the checkpoint that
  failed, the key says “in progress” for ever. `KeyAnswered` is about every other key.
* `NeverAbortsUncertain` (`ResourceUploadAborts.cfg`). `project-resource-upload.ts:111` says
  that an upload whose Complete may have been lost is never aborted. The next request
  reads the status while that Complete is on its way, takes the upload for not
  attempted (59), and aborts it if its next statement fails (112).
* `DrainsThenCloses` (`LifecycleFailedCycle.cfg`). `docs/RELIABILITY.md:110` says that the
  close of the server first drains the loops, then closes the store. `stop()` of the
  projector rejects with its cycle (`projector.ts:184`), where the other loops absorb
  that: the loops behind it are not told to stop, the store is not closed, and the
  process exits with status 1 at once (`main.ts:30-34`).

## 16. Proofs

TLAPS checks the theorems for every value of the constants allowed by
the `ConstantsAssumption` of each module (a NULL outside the set it stands in for,
budgets and page sizes positive; runs, occurrences, turns and projects that the code
orders are natural numbers). `TypeOK` is the first theorem of each, named
`TypeCorrect`, and no run repeats it.

`RequestProofs` serves five components: it extends `MutationReceipt`, and takes
`ResourceUpload`, `SkillHandoff`, `Lifecycle` and `AgentCancellation` as the instances
`Upload`, `Handoff`, `Process` and `Cancellation`. What these four promise, with the
variables that show it, stands in modules of its own (`UploadPromise`,
`HandoffPromise`, `ClosePromise`, `CancellationPromise`), which the machine and the
proofs extend, so that theorems and runs are about the same formula. Each theorem is
about one machine and has the constants' assumption of its instance, which
TLC evaluates in the module's run, as its hypothesis. The instances compose nothing: names
that machines have in common are only declared once. Their types are part
of their invariants.

`AgentDispatchProofs`: `ClaimsSound` (`ClaimInv`); `FailureIsCertain`
(`FailedNeverAdmitted`); `DeletionCancels` (`DeletedRunsCancelled`);
`SweepFindsNothing` (`ExhaustionSweepIdle`); `ConversationsSound` (`ChatInv`), and
from both invariants `NothingThrows` (`NoStateException`), `RecordsAgree`
(`TurnRecordsAgree`), `AdmissionIsFifo` (`FifoAdmission`), `LateWorkerHarmless`
(`StaleSettlementHarmless`) and `ClosedStaysClosed` (`ClosedIsFinal`).

*The argument.* That a refused turn is unknown to the Agent is a claim about
messages in flight, so it cannot be inductive alone. `RowsInv` says what a row's
status tells of its fence, attempts and doubt, and above all that a lease which
was never in doubt is the row's first. `TicketsInv` says that claims in memory and requests in
flight carry fences the row has issued, no two claims of a row share one, and an
unsent claim has no request. `UndoubtedInv` joins them: for a first claim that
has not sent, or whose own request was answered by a refusal, nothing else of
the run exists. Deletion follows: an uncancelled row of a deleted conversation
is absent or failed.

`ChatInv` says the same of a conversation. `FifoInv`: a turn that was ever claimed
has no open one before it, since a claim takes the head and turns are only added at
the end; hence a turn in flight is the head, and the only one. `StreamSound`: the
stream of a live conversation expects it, is active, and has closed runs in its
terminal column. `LogSound`: a run has one start and one end in the Agent's log, and
of a terminal dispatch nothing is left to project. With `ClaimInv`, whose failed turns
the Agent does not have, an event not yet projected can only be of the turn in flight.
`LedgerSound` and `SerialLedger`: the last run of the ledger is the head or closed,
and all before it are closed. A frame of the turn in flight may thus be appended
(`TellMore`), and the announcement at the end of a transaction names a turn that is
not told of yet and comes after the last one (`Announced`). Steps that a conversation
does not notice keep all of it (`Undisturbed`), so each of the seven steps that
change one is shown for that one only.

`AguiConsumerProofs`: `ProjectorSound` (`ConsumerInv`) and, from
it, `LedgerFollowsLog`, `OptimisticLockSound`, `TurnsCloseByTheirEnd`,
`ProjectionNeverThrows`, `OnlyRefusalsBlock`, `DeletionIsFinal`; `Fencing`
(`StaleWorkerHarmless`); `Refinement` (`ImplementsLedger`).

*The argument.* `LeaseInv`: fences in memory were issued by the stream and the
holder's cursor is the watermark, so a page that does not fit the stream is not
the holder's. `PageInv`: cursors and pages lie in the log, and a command's
version was once the stream's; with it, any write that changes a run column or
the watermark raises the version past all commands, which is
`VersionPinsStream`. `TurnInv`: the claimed turn is the expected one, and
outside the ledger there are only its events and trailers of ended turns, so a
page holds at most one end and it is the expected run's. A commit then appends
exactly what is missing and closes exactly the turn that ended. The proof is
laid out in that order: what each operator does to the columns, which steps
move which columns, how a ticket moves, and one short lemma per part.

`RequestProofs`, of `MutationReceipt`: `AnswersStayForever`
(`AnswerIsForever`) and `AnswersAgree` (`OneAnswer`), for handlers of any
length; `TimelyClaims` (`ClaimInv`) and `TimelyExclusion`
(`TimelyNoParallelExecution`).

*The argument.* The two halves use different facts. That answers agree needs no
exclusion: the row becomes final once, by the statement whose request is then
answered, and no statement matches a final row. That executions exclude one
another is `ClaimInv`, which is inductive with the types: the row is pending
under its holder's payload until the holder answers, so it is not claimable
unless it expires, and in time it does not.

Of `Upload`: `UploadCorrect` (`UploadInv`) and `UploadsAreSound` (`UploadSound`).

*The argument.* `UploadSelection`: whoever is about to complete, is completing or has
completed the upload names the version of the checkpoint, late commands of requests
that are gone included. The version is written by a compare-and-set from a
checkpoint without one and is never changed, so one version is all that is ever named.
`UploadVerdict`: what a request has heard of the end of the upload is its end, which is
final; and only a project's request sends an abort. That an abort may
follow a completion still on its way is true of the code (section 15), and does no harm to
the answers: the owner takes the first of the two, and each is told what became of it.

Of `Handoff`: `HandoffCorrect` (`HandoffInv`) and `HandoffsAreSound` (`HandoffSound`).

*The argument.* The receipt passes through its stages in one order and keeps what it has,
so what it was at an earlier stage is a function of what it is (`HandoffAsOf`); what a request
has in memory is the receipt or such a former state (`HandoffRead`). The receipt thus determines
the one command of each kind (`HandoffCommand`), and every command sent or executed is it
(`HandoffOwner`): four commands, each of which raises the draft's version by one. A request may
want to store what is no longer true, but not over an unchanged receipt: if the row is
still what the request knows, what it stores was proven by the owner (`HandoffProven`).
That is the step the compare-and-set exists for, and it is inductive because a
receipt that has moved on never comes back to a stage it has left.

Of `Process`: `ProcessCorrect` (`ProcessInv`) and `ClosesAreSound` (`CloseSound`).

*The argument.* `ProcessLoops`: a loop that has answered its stop has neither a timer nor a
cycle, and starts none. `ProcessStops`: the loops before the one being stopped have
answered. `ProcessCloses`: the store is closed after the last of them and after the server,
which is closed only when no request is served, and status 0 is given after both.

Of `Cancellation`: `CancellationCorrect` (`CancellationInv`) and
`CancellationsAreEarned` (`SettlementsAreEarned`).

*The argument.* `CancellationLeases`: a number in memory is at most the attempts of
its row, and no two workers have the same one. A claim counts the attempts up first,
so its number is new, and a statement that names the current number is that of the
last claim. `CancellationRecords`: a launch on its way is of a run the Agent does not
know yet, of which it records nothing, and a worker about to record success has heard it
of an Agent that has recorded the cancellation or whose run is over. Hence no late launch
undoes what a worker has heard. The module assumes that a conversation has a last run,
the only one that may still be launched.

`ScheduledTaskProofs`: `TaskCorrect` (`TaskInv`); `TimelyClaimsInOrder`
(`TimelyInCommitOrder`); `ClosedStaysClosed` (`ClosedIsFinal`);
`FailuresAreShown`, `FailuresAreOwn` and, from both, `FailuresAreJudged`
(`FailureVerdict`); `DeliveryCorrect` (`DeliveryInv`), and from it `LastCommandWins`
(`LastWins`) and `JobOnlyMovesForward` (`JobMovesForward`).

*The argument.* Every step is a change of the task, which writes one row at
most, or *quiet*: it leaves what changes wrote, moves tickets forward only,
does not touch closed rows, and at most marks an active task failed. From that
split `TaskInv` is inductive: rows are numbered without a gap and are not
younger than the clock (`RowsInv`), not ahead of the task (`RevisionInv`), and
a claim in memory is one its row gave out (`TicketsInv`). A row becomes leased
only at the head of the open rows, which gives the order of claims; a row fails
only by its holder, in the transaction that looks at the task, which gives both
facts about failures.

`DeliveryInv` follows a command to the Scheduler. Calls and answers are those of the
command's operation, in its order (`PathInv`), and nothing is taken for a success that
the Scheduler has not obeyed (`ObeyedInv`). A command that failed without a doubt has no
call left (`FailedInv`: all its calls were answered), while a command
that succeeded may have some, which its receipt answers without touching the job.
Since a command is claimed after those before it are settled
(`SettledBefore`), only calls of the last claimed command can still change the job, and
once the Scheduler has obeyed that command the job is what it says (`JobInv`). The
proviso is `Orderly`: transactions lock the task in the order they began, and no
command failed while a call of it was in doubt.

`ScheduledDispatchProofs`: `DispatchCorrect` (`DispatchInv`), and from it
`FailedIsNeverAdmitted`, `OneRunAtATime` and `FreeScopesAreDrained` (together
`ScopesAreSerial`), `PagesCommit` and `ActiveStaysUntilSettled`, each of the property
of that name.

*The argument.* `DoubtInv`: of a row that nobody doubts nothing has been sent
except, if it is leased, by its holder, whose one request is all that exists of
the run (`ListenInv`: a request that has a sender is the one it waits for).
`ActiveInv`: only the active occurrence is ever past pending, so whatever the
Agent has belongs to it or to a terminal one. `LogInv`: a run has one end and
nothing after it. `ReadInv`: a row is terminal exactly if the end of its run lies
at or before the watermark, and pages lie in the log. Hence no page of a live
claim can throw, and the page that frees the scope is the last there is.

`SchedulerReceiptProofs`: `Invariance` (the inductive invariant `IInv`);
`OneVerdictAlways` (`OneVerdict`); `QueuedAsAccepted` (`QueuedIffAccepted`);
`QueuedOnceWhileActive` (`QueuedWhileActive`).

*The argument.* A receipt becomes terminal once, in the transaction that also
queues the occurrence if its answer is `accepted`, and an answer is told only
in that step or from a terminal receipt. `ClaimInv`: whoever works at a receipt has
its digest, takeovers included, so all of them speak of the same payload.

`ProjectScopeProofs`: `DeletedProjectsRest` (`TasksPaused`), `DeletionFreezes`
(`MembersFrozen`) and from them `DeletionIsFinal` (`DeletedAtRest`);
`MovesCutTheLineage` (`BindingLineage`); `OnlyTheDeletedReleased`;
`ReportsAreHonest` (`HonestReport`) and with it `DeletionsAreSound` (`DeletionSound`);
`WaitsEnd` (`NoWaitCycle`).

*The argument.* Whoever writes holds the locks: `NamedInv` and `LockInv` say that
a transaction past its project locks has all it named, that exclusive locks
exclude, and that what it read of a locked row is still so. A deletion holds its
project exclusively and then every member, so the set of commands it writes is
the members, and afterwards nothing can join (`ScopeInv`). Epochs of runs and
conversations agree (`EpochInv`). A settled command agrees with what Storage has
accepted, and the stored state with the commands (`ReportInv`). As for waiting,
project locks are taken in the order of their ids and conversations only after them
(`OrderInv`); among requests that wait, take one whose next lock is the greatest:
who holds that lock can go on, so they do not wait in a circle.

`AguiStreamProofs`: `Invariance` (`IInv`); `Lossless` (`OrderedLossless`);
`OpenTurnsKept` (`OpenTurnKept`) and from both `ReadersAreServed` (`LedgerServed`);
`DrainAdvances` (`ReplayProgress`).

*The argument.* `TurnInv`: no frame belongs to a turn behind the head, and the open
head is announced before its frames. `LedgerInv`: the newest frame and the frames
of open turns are kept; under `Timely` whatever is old is older by sequence too,
so what is collected is a prefix and what is kept a suffix of the ledger, and a
page of it has no gap.

Only model-checked: all liveness (`EveryTurnCloses`, `CatchesUp`, `KeyRecovers`,
`EveryCommandCloses`, `EveryOccurrenceCloses`, `CallbackAnswered`,
`EveryScopeEnds`, `ReaderCatchesUp`, `EveryCancellationCloses`, `HandoffEnds`,
`KeyAnswered`, `SignalEnds`), since fairness is
outside what the prover does. Every safety property that a passing run checks is
stated by a theorem.

## 17. Not modelled

`FencedOutbox` of the plan: one abstract outbox refined by the five modules that
have one. Beside it, what `PROJECT.json` lists as `not_modelled`. Most of the
repository's lines are of these kinds: generated clients and contracts, scripts that
verify contracts, stateless owner clients, routes and relays, read models written
inside the projection transaction (process, interaction, artifact), single-row
repositories, wiring. They keep no state between requests, or keep it in one
statement, so a model would only repeat them.

Of the modelled components, data is left out: request snapshots, digests, texts,
delays. PostgreSQL is taken to give each transaction atomicity under the locks it
takes; the models name the lock or version that justifies it.
