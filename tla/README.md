# A TLA+ model of xiaoyi

xiaoyi is a diagnosis and remediation platform for ESP32 devices: a FastAPI
backend runs a language-model agent, an MCP server gives it tools to read
telemetry and to act on devices over MQTT, and a React frontend follows the
runs. This directory holds TLA+ modules of its core protocols, the TLC
instances that model-check them and theorems that TLAPS proves.

## 1. Inventory

Paths are relative to `src/packages`.

| Component | State | Operations | Talks to | What must hold | Modules (section) |
|---|---|---|---|---|---|
| IoT control service (`mcp-services/iot_control`, control tools and worker of `iot_mcp/server.py`) | SQLite tables `device_command`, `command_outbox`, `command_verification`, `remediation_proposal`, `action_correlation`; threads inside `dispatch_command` | create command or proposal, decide, dispatch, ACK, status and log samples, timeout sweep, verdict sweep, recovery at start | devices over MQTT (QoS 1); the backend over MCP | a command is handed over at most once; unknown results are never retried; settled is settled; verdicts rest on fresh evidence; every command settles | `CommandControl` (3) |
| Device simulator (`iot_diagnosis/simulator`) | device flags, offline periods | handle a command, publish telemetry | MQTT | refuses expired commands | `CommandControl` (3) |
| Run lifecycle (`backend/app/services/run_dispatcher.py`, `run_state.py`, `run_recovery.py`, `runs/orchestrator.py`, `api/runs.py`) | tables `agent_runs`, `run_events`, messages; one executor task, the wake-up event, cancellation | create, retry, claim, complete, fail, stop, recover | agent runtime, event stream | one terminal state and one terminal event per run; no lost run; FIFO | `RunLifecycle` (4) |
| Run events (`run_event_buffer.py`, SSE in `api/runs.py`) | buffer of deltas, sequence numbers | append, flush, stream from a cursor | frontend | a completed run has every event | `RunLifecycle` (4) |
| Memory governance (`backend/app/memory/service.py`, `reconcile.py`, `retrieval.py`) | memories, revisions, evidence links, sources, tombstones | propose, confirm, edit, suspend, reject, archive, delete, forget a source | runs, conversations | forgotten stays forgotten; only reviewed memories with living evidence are recalled | `MemoryStore` (5) |
| Memory jobs (`memory/worker.py`, `capture.py`, `extraction.py`, `indexing.py`) | jobs with leases and attempts, the index state, the points of the vector store | claim, complete, fail, reclaim; capture, extract, reconcile, revalidate, index, purge | vector store, language model | the index tells the truth; a paused memory leaves it | `MemoryWorker` (5) |
| Knowledge and vectors (`iot_diagnosis/repositories/external_sync.py`, `knowledge_documents.py`, `external/`) | chunks in SQLite, `external_sync_outbox`, two Qdrant collections | upload, delete, rebuild, retry, purge | Qdrant | the collections converge to the documents | `KnowledgeIndex` (6) |
| MCP catalogue (`backend/app/services/mcp_catalog.py`, `api/mcp_servers.py`) | servers, tools, policies, schema hashes | register, move, test, refresh, enable, delete | MCP servers | an enabled tool was vetted with the schema it has | `ToolCatalogue` (7) |
| Repair ledger (`backend/app/memory/actions.py`, `boundary.py`, `services/tool_execution.py`, `api/remediation.py`) | reservations of repair actions, answers, diagnoses of the run, tracking jobs | reserve, call, save the answer, rediagnose, decide, track | control service by correlation key | at most the allowed attempts; no attempt without a failure that was diagnosed again; no action is forgotten | `RepairLedger` (7) |
| Schema migrations (`mcp-services/common/migrations.py` and the scripts; `backend/app/migrations.py`, `backend/migrations`) | `schema_migrations`, `alembic_version`, every table | migrate, verify, deploy, stamp, seed | three SQLite databases | an interrupted upgrade can be repeated; no row is lost | `SchemaScripts`, `SchemaMigrations` (8) |
| Context and files (`services/context_builder.py`, `context_compactor.py`, `artifacts.py`, `retention.py`, `api/attachments.py`, `api/messages.py`) | messages, snapshot, artifact rows and files, attachments | choose the input, snapshot, shorten, write artifacts, upload, send, delete, clean up | runs, file system | nothing is lost to the model; what is referred to stays | `ContextStore` (9) |
| Telemetry ingest, diagnosis and text-to-SQL, retrieval, chunking, model service, frontend, scripts | mostly stateless | | | | none (10) |

The hard behaviours: several threads and one lock per process in the control
service, with the lock released between the claim of a command and the record
of its result; a crash between any two transactions; QoS 1 messages that are
lost, repeated, late and out of order; timeouts that race with late answers;
cancellation of the run task at any await in the backend; retries of writes to
an external store whose order is not the order of the requests; reads that are
stale by the time their transaction writes; an answer that
arrives after the person has changed their mind; an upgrade that is killed
between two statements of a script. `PROJECT.json` lists them one by one under
"hazards".

## 2. Plan

Done, in this order: `CommandControl` and `RunLifecycle`, each with an abstract
promise, a refinement, an inductive invariant, instances and proofs;
`MemoryStore` and `MemoryWorker`; `KnowledgeIndex`; `ToolCatalogue` and
`RepairLedger`, which composes the catalogue, the run, the ledger and what the
control service answers; `SchemaScripts` and `SchemaMigrations`; `ContextStore`.
Then, for each of them, an inductive invariant and the proof that its safety and
action properties follow.

Left, in this order:

1. `RunStream`, which composes `RunLifecycle` with a reader of the event stream.
2. Pure operators checked against reference definitions: `evaluate`, fusion of
   rankings, chunking.
3. Sessions and the compaction of run events.

Every module takes its sizes and durations as constants with named
assumptions and uses no RECURSIVE operator, so that it can be proved about.
Proof order: type correctness, the inductive invariant, action properties,
refinement.

## 3. The control service

### Modules

- `CommandControl`: the service, the devices and the network. One action is
  one SQLite transaction, one MQTT hand-over or one reaction of a device.
- `CommandPromise`: what the service promises about a command, with no
  database, clock or crash.
- `CommandRefinement`: the mapping (`stage` is the status column, `verdict`
  the verification column, `sent` the hand-overs, `ran` the executions) and
  `KeepsPromise`.
- `CommandInvariant`: `ControlInv`, the inductive invariant.
- `MCCommandControl`: the instances for TLC.
- `CommandSafetyProofs`: the theorems.

### State and actions

`cmd`, `outbox`, `watch`, `prop` and `corr` are the five tables, keyed by
identifiers; a row that does not exist has status "absent" or "none". `sender`
is the thread inside `dispatch_command` after its claim; it is memory and a
crash loses it. `handed` and `executed` count what MQTT and the device were
given and did; `acks` holds what devices have published. `abandoned` is a
history variable: commands timed out before any hand-over.

| Code | Actions |
|---|---|
| `execute_device_action`, `create_command` | `CreateCommand` (the trigger's outbox row is part of it) |
| `create_remediation_proposal`, `create_proposal` | `CreateProposal` |
| `list_proposals`, `get_proposal` | `ReadProposals` (they expire what is stale) |
| `decide_proposal` | `Approve`, `Reject` |
| `dispatch_command`, `dispatch_pending` | `Claim`, `Send`, `RecordDelivery`: two transactions and the publish between them |
| `handle_command` | `Execute`, `RefuseCommand`, `RefuseExpired` |
| `mark_command_ack` | `MarkAck` |
| `record_status_sample`, `record_log_sample` | `RecordStatusSample`, `RecordErrorLog` |
| `mark_timed_out_commands`, `finalize_watches` | `MarkTimedOutCommands`, `FinalizeWatches` |
| process death, `recover_delivery` | `Crash`, `Restart` |

Messages are not a queue: an acknowledgement stays in `acks`, so it may be
processed late, repeatedly or never; a command handed over may reach the device
at any later time, any number of times; a status report is an input with any
earlier time stamp. A device other than the command's may acknowledge it
without having run anything. `send_command` returns "unknown" with or without
the message being queued, because paho keeps QoS 1 messages it refused.

### Abstractions

Time is a counter of ticks; a duration of the code is a constant number of
them. A handler that reads the clock before it takes the lock is given the time
of its transaction. Device and service read the same clock. Parameters,
reasons, payloads and baselines are left out; `evaluate` may return any of its
outcomes for a report. `lifespan` of the server runs once per process, as the
MCP library does for the HTTP transport. With MQTT disabled no command is
claimed, which is the behaviour without `Claim` steps.

### Runs

| Run | Instance | Shows |
|---|---|---|
| `command_delivery` | 1 command, 2 devices, clock to 5, 2 crashes, 2 executions | hand-over, acknowledgement, verification and history agree (`ControlInv`), the safety and action properties, and the refinement `KeepsPromise` |
| `command_requests` | 2 commands, 2 proposals, 2 devices, 2 keys, queue lifetime 0 | keys name one action; a proposal gets one command |
| `command_progress` | 1 command, 1 proposal, 1 key, clock to 5, 1 crash, fairness | every command settles, every applied repair is judged; task status and reported delivery follow the command |

The bounds are `MaxTime`, `LastRequest`, `MaxCrashes` and `MaxExecutions`.
Commands share no row but the proposal, so the delivery runs have one command;
requests and decisions do share keys and proposals, so that run has two of
each. `command_progress` runs under `FairSpec`, whose clock waits for the sweeps,
and has a crash; the two invariants it checks relate a proposal to its command.
Durations of one or two ticks let every deadline pass before, at and
after every other event: with the clock to 5, a command created as late as
`LastRequest` can expire (3), be acknowledged, open its window (1) and be
judged. A queue lifetime of 0 in `command_requests` keeps every command out of
the send queue: that run is about creation only. Two crashes allow one in each
phase of a delivery. Identifiers are symmetric in the safety runs; the liveness
run uses no symmetry.

### Fairness

`FairSpec` assumes weak fairness of the two sweeps, of the restart and of the
clock. The worker loop of `service_lifespan` catches every exception and
sleeps 2 s between rounds; the service is restarted by its supervisor. Nothing
is assumed of `Claim`, `Send`, `RecordDelivery`, the devices or the broker: a
command settles without them. `Swept` makes the clock wait for a sweep that is
due, because a sweep takes place every 2 s, well inside one tick; it keeps the
end of the bounded clock from hiding a missing sweep.

### Proofs

For any sets of commands, proposals, devices and keys, any durations, any
number of crashes and executions, from the assumptions `NoneIsNoId` and
`DurationsAreNaturals`:

- `TypeCorrect`: Spec => []TypeOK. It is inductive with `Undecided` as part of
  it: without knowing that an undecided proposal has version 1, the version
  could leave its range.
- `ControlCorrect`: Spec => []ControlInv. None of the safety properties is
  inductive. That a command is handed over once needs to know that whoever is
  between claim and hand-over finds it not yet handed over (`SenderInv`), that
  pending rows were never handed over (`OutboxInv`), and that a crash turns
  the sender's row into an unknown one. That an abandoned command never runs
  needs to know why it cannot: it has expired, or its only sender is gone
  (`AbandonedInv`). That "applied" is true needs to know that acknowledgements
  follow executions (`DeviceInv`). Each action touches one command or treats
  all alike; `UntouchedKeepsInv` deals with the others.
- `AtMostOnce`, `AbandonedStaysUnrun`, `AppliedIsTrue`, `WindowCorrect` follow
  from it, and so do the action properties `SettledStays`, `NoBlindRetry`,
  `CertificatesAreFresh`, `EvidenceIsMonotonic`.
- `ServiceKeepsPromise`: Spec => KeepsPromise, one lemma per group of actions.

Record updates in the modules are written `![c] = [@ EXCEPT !.f = ..., !.g = ...]`
or as whole functions, never as two clauses `![c].f = ..., ![c].g = ...`,
which this version of the prover mistranslates.

- `TablesAgree`: Spec => []AgreementInv, what the
  tables say of one another. That a key has one action is not inductive: it needs
  that the row of the key names every command and proposal made under it, and
  never one of each (`KeysInv`). That an approved proposal has its command needs
  that a command that is not there yet belongs to no proposal (`BondInv`), or
  the next command could be taken for one it already had. `DeliveredIsConfirmed`
  is about a flag that only the sweep and the hand-over set, while the outbox row
  moves on by itself; `FlagInv` says that it moves to confirmed states only.
- `KeysAreUnique`, `ApprovalBindsOneCommand`, `TaskTellsTheCommand` and
  `DeliveredIsTrue` follow from it.

`SettledForGood`, `EvidenceOnlyGetsNewer`, `NeverBackToQueue` and
`WindowUntilVerdict` are proved and not checked by a run: they follow from what
the runs check. Only model-checked are the two liveness properties, which are
out of the prover's reach.

## 4. Runs of the backend

### Modules

- `RunLifecycle`: `agent_runs`, `run_events`, the dispatcher's worker, the task
  that executes a run, its event buffer, the recovery scan. One action is one
  transaction, or the part of a coroutine between two awaits.
- `RunPromise`: what the backend promises about a run while its database
  accepts writes: started at most once, ended once, readers told how, and told
  the truth.
- `RunRefinement`: `stage` is the status column, `told` is read off the rows of
  `run_events`; `RunKeepsPromise` lets the promise lapse once a database call
  has failed.
- `RunInvariant`: `RunInv`, what the places of worker and task say about the
  row and the events of the current run.
- `MCRunLifecycle`: the instances for TLC.
- `RunSafetyProofs`: the theorems; its first part has those that hold whether or
  not database calls fail, and the facts about single actions that all use.

### State and actions

`run` and `rows` are the tables; a run that does not exist has status "absent"
or "deleted". `at` gives the place of the worker and of the task, `code` the
error code each of them is handling (the argument of the CancelledError), `held`
and `flight` the batch of the event buffer and the one being written. `todo`
and `half` belong to the recovery scan. `clock` orders the values of
`created_at`.

| Code | Actions |
|---|---|
| `submit_message`, `retry_run`, `delete_run` | `SubmitMessage`, `RetryRun`, `DeleteRun` |
| `RunDispatcher.cancel` | `StopQueued` (`stop_queued_run`), `StopCurrent` (cancellation of the task) |
| `_worker`, `_execute_next` | `Pick`, `Launch`, `Collect` |
| `_execute`, `execute_claimed_run` | `Claim`, `Begin`, `AnnounceTooLarge`, `FailTooLarge`, `Produce`, `StartFlush`, `FinishFlush`, `AgentFails`, `Complete`, `End` |
| the exception handlers | `Rescue`, `SettleCancel`, `SettleError`, `AnnounceFault`, `FailFault` |
| `_finalize_cancelled` | `FinalizeRead`, `FinalizeEvent`, `FinalizeMark`, by the task or by the worker |
| a database call that raises | `TaskFault`, `WorkerFault` |
| `RunDispatcher.stop` | `Shutdown`, `GraceTimeout`, `Exit` |
| `recover_interrupted_runs` | `Restart`, `RecoverEvent`, `RecoverMark`, `FinishRecovery` |

A cancellation moves the task to the handler that catches it where it is:
inside `execute_claimed_run`, inside one of its handlers, or outside its try
statement, in which case the task is cancelled and the worker looks after the
run.

### Abstractions

- A database call that is cancelled or fails has not taken effect; one that
  has taken effect is over. SQLite's driver may commit a transaction whose await
  was cancelled; the state is then that of a cancellation one await later.
- Output events are counted; `run.started` and hook rows are left out (no hook
  is registered in `src`), and so is the memory job that `run_finished`
  enqueues and whose failure it swallows.
- The notification of the dispatcher changes nothing but the time of the next
  scan. `WorkerFault` may leave the worker alive, for the one call of
  `_execute_next` that is inside a try statement.
- The value of `created_at` is drawn in the step that commits: the message row
  is written first in the same transaction and holds SQLite's write lock.
- Requests are served only while the process is up: the server closes its
  connections before it stops the dispatcher.
- `Init` has any mixture of no run and runs ended by an earlier release without
  an event, the "old data" that the recovery scan repairs.
- The process runs with a dispatcher (`run_dispatcher_mode`); the mode without
  one calls the same functions from a background task.

### Runs

| Run | Instance | Shows |
|---|---|---|
| `run_lifecycle` | 2 runs, 2 stops, 2 crashes or shutdowns, 1 failing call, 2 outputs, fairness | invariants, `RunInv` (which has `CompletedIsWhole` as a part), the action properties, the refinement, and that every accepted run ends |
| `run_picked_up` | 1 run, 1 failing call, fairness | violation: the worker dies of one database error |

The dispatcher executes one run at a time, so two runs show the current one and
one that waits, was retried, or is deleted meanwhile. Two stops reach the task
in its work and in its handlers; two restarts put a crash inside the recovery
scan of another; two outputs let a batch be held while another is in flight.
Properties that speak of a database that accepts writes have `faults = 0` as a
premise (`EveryRunEnds`: no failing call until the run ends) and are checked in an
instance where calls also fail. The liveness property rules out symmetry.

### Fairness

Weak fairness of the worker, the task, `_finalize_cancelled`, the recovery scan
and the end of the shutdown. The event loop runs every coroutine that is ready;
the agent's work is bounded by its number of turns and the timeouts of model and
tools; the supervisor restarts the process. Stops, failures, crashes, shutdowns
and the end of the grace period are never assumed to happen.

### Proofs

For any set of runs and any number of stops, restarts, failing calls and
outputs, from the assumptions `NoRunIsNoRun` and `BoundsAreNaturals`:

- `TypeCorrect`: Spec => []TypeOK, with `CodesInv`: an event may only be
  written under a legal error code, so a coroutine that handles a cancellation
  must know its code.
- `StartedOnce`: Spec => []NeverStartedAgain. `StepMovesRuns` sums up what a
  step may do to a run (create it, start it from the queue, end or delete it);
  a queued run has not been started, because nothing returns to the queue.

- `EndedStaysEnded`: Spec => EndedForGood, and `OldestFirst`: Spec =>
  StartedInOrder. Both rest on `DispatcherInv`: worker and task are at one place
  (`PlacesInv`); whoever is about to end the current run finds it neither ended
  nor queued (`HandsInv`); the run picked is the oldest as long as it is queued,
  since later ones are younger (`OrderInv`); the recovery scan has only running
  runs to do (`TodoInv`).
- `RunCorrect`: Spec => []RunInv. To `DispatcherInv` it adds two parts. One is
  about the buffer: what the agent produced is in `run_events`, in the batch, or
  in the flush under way (`FlushInv`), handlers have a batch only for a run
  that did not end (`BufferInv`), and what is queued has produced nothing
  (`QueueInv`). The other needs a database that accepts writes: the statuses
  the current run may have at each place (`StatusInv`), the event that was
  written last there (`EventsInv`), who knows of a running run (`RunningInv`)
  and what readers of an ended run were told (`ToldInv`). The second part is
  proved in two halves: every step changes the tables in one of a few ways
  (`StepChanges`), which settles what readers are told; where the dispatcher
  is settles which of these changes a step can make.
- `OutcomeTold`, `OneOutcome`, `NoneForgotten` and `CompletedWhole` follow from
  it.
- `BackendKeepsPromise`: Spec => RunKeepsPromise. The same few changes are the
  steps of `RunPromise`; the end of the recovery scan is its `MakeUp`.

`StartedInOrder` is proved and not checked by a run. Only model-checked: the
liveness property `EveryRunEnds` (out of the prover's reach) and the violation.

### Deviations

`run_picked_up` ends with a behaviour of the code against its own words (quoted in
`PROJECT.json`, "findings"). Also seen, without a run: the batch of a flush that is
cancelled is lost (`run_event_buffer.py:117`); the last resort of `_execute` writes
FAILED over a completed run (`run_dispatcher.py:176`, which is why `EndedForGood`
excepts it); two `run.failed` events of one run (stop between the two transactions
for a message that is too large, or a crash between event and status); an event of
a run that was deleted meanwhile; `cancel` answers true for a run that completed a
moment before; a run whose finalisation failed stays RUNNING until the next start;
`flush_due` always flushes, so deltas are never merged over time; the event stream
reads events and status in two statements, and never ends for a run that is deleted
while it is read (`api/runs.py:281`, `:310`).

## 5. The memory of the backend

### Modules

- `MemoryStore`: memories and their revisions, evidence links, sources, the
  tombstones of what the user had removed, and the jobs that requests leave.
- `MemoryWorker`: extends it by the worker, which claims a job, works in one or
  more transactions with calls between them, and completes or fails it; and by
  the vector store.
- `MemoryInvariant`: `MemoryInv`, the inductive invariant.
- `MCMemory`: the instances for TLC.
- `MemoryProofs`: the theorems.

### State and actions

`memory` holds a row and its revisions; a revision carries its text (a finding,
a lesson, `retained` or `bare` for what a withdrawal puts in its place, `blank`
after a withdrawal or a purge), its review state and its links. `from` is a
history variable: the sources whose content the text repeats. `jobs.queue` is a
sequence of batches in the order of creation, a batch being the jobs of one
transaction, which are claimed in any order; `jobs.late` are those that were
backed off and come back at any time, `jobs.failed` those that have used up their
attempts. `indexed` is `memory_index_state`, `vectors` the collection.

**Reads and writes.** The backend opens no transaction of its own (`db.py:13-24`):
with SQLite in WAL mode one begins at the first INSERT, UPDATE or DELETE, a
SELECT before it stands for itself, and a row the session has loaded is not
loaded again when somebody else changes it. A request that reads first is
therefore two steps: `Begins` checks what the handler checks of the rows it reads
and keeps a `Picture` of the store in `open`; the writes come later, against the
store as it is by then, and use the picture wherever the code uses a row or a
value it has loaded. The worker keeps its picture in `worker.seen`. What a write
asks for again is taken from the code: `edit` compares the current revision only,
`transition` the revision and the status (`Unmoved`), an insertion fails on a key
that exists, and the number of a revision that is taken makes a withdrawal fail
(`Clashes`). An attribute is written only if it is given another value than the
loaded one (`Stored`). Requests whose first statement writes, or that write
nothing a stale read matters to, stay one step (`AtOnce`): `Create`,
`KeepSources`, `RunFinished`, `CounterExample` (its savepoint comes after the
update of the ledger entry), `RetryJob` and `Adopt`, which only records what it
has read.

`torn` is a history variable: the memories, and the conversations whose working
memory, that a transaction has written although another one had changed what it
had read of them (the row, its source or the tombstones it had looked for), or
that a forget did not see.

| Code | Actions |
|---|---|
| `api/memories.py`, `memory/service.py` | `Create`, `RetryJob`; `Ask`, then `Edit`, `Confirm`, `Reject`, `SuspendOrArchive` or `Delete` |
| `forget_source`, deletion of a conversation | `AskForget`, `ForgetSource`; `KeepSources` |
| results of tools, end of a run | `AskRecord`, `RecordTool`; `RunFinished` |
| the agent's memory tools, feedback | `AskPropose`, `Propose`; `Adopt`, `CounterExample` |
| a call that is refused, fails or dies with its process | `GivesUp` |
| `capture.py` | `CaptureRead`, `CaptureSave` |
| `extraction.py` | `ExtractRead`, `ModelAnswers`, `ExtractCheck`, `ExtractSave` |
| `reconcile.py` | `ReconcileRead`, `ReconcileSave` |
| `indexing.py` | `SyncRead`, `SyncCall`, `SyncCheck`, `SyncRecord` |
| `worker.py` | `RevalidateRead`, `RevalidateSave`, `PurgeContent`, `Settle`, `Fault`, `FaultAtOnce`, `Crash` |

### Abstractions

There is one owner, as every query filters by owner. Which situations a memory
is for, the ranking of what is recalled and the text itself are left out; what
the language model returns and whether a scope matches are free choices. Two
jobs of the outbox that say the same are one if one transaction has made both, or
both are backed off. A process
has one worker, so the lease of a job matters only after a crash: `Crash` puts
the job back. `purge_expired` is part of `PurgeContent`; no request is open for
the thirty days before it. Expiry by date, the mode
without a vector store and a change of the embedding model are not modelled,
nor are episodes that a person creates.

The reads of one transaction before its first write are one moment, although
each of them stands for itself: in the code a request can in addition be
overtaken between two of its own reads. What `revalidate` looks up after its first
write is as it was then or as it is now, one of the two for all memories. A
counterexample rewrites a lesson once (`Rewritable`), where the code asks for
one rewrite per failed command.

### Runs

The instance has 1 episode, 1 lesson, 1 proposal of the agent and 1 conversation;
memories of 2 revisions, jobs of 2 attempts.

| Run | Bounds | Shows |
|---|---|---|
| `memory` | 2 requests, 2 open at once, 2 faults | what was forgotten is not recalled, nor said where no stale read was written on; what is recalled was confirmed; the index tells the truth and what is out of use leaves it; a paused or deleted memory stays so |
| `memory_deleted` | 4 requests, one at a time | violation: a deleted memory leaves a vector behind |
| `memory_paused` | 3 requests, 2 open | violation: a late result undoes a pause |

`Init` is a new user, one with a lesson in use, or one with an episode that is in
use, paused or archived and whose latest result is still to be captured, which saves
the requests that would lead there; two requests on top of it are enough to change a
memory twice around a job that is under way, or to forget what was just confirmed.
Two open calls and the worker are three transactions that overtake each other; the
stale reads under Deviations need two. Two revisions are the least for "an older
one"; two attempts the least for a retry that fails, and two faults for a job that
fails for good. A fault is a failing call, a lost answer or a crash.

Fairness is weak fairness of `WorkerStep`: the loop of the worker polls and
catches every exception. Requests, their writes and faults are never assumed.

The properties come in two kinds. `ForgottenIsNotRecalled` and `IndexTellsTruth`
hold of every memory: recall looks at the tombstones when it is made, so that what
a late write brings back of a forgotten conversation is never used, and an index
entry is accounted for whatever the rows say. The others say what the design
promises of all that was not written on the word of a stale read, and except
`torn`; `PauseSurvivesLateResult` states the promise of a pause without the
exception, as a test of the repository does, and is violated. Whether a
write was on the word of a stale read depends on the schedule only, never
on what was written, so that the exception does not hide a wrong write.

### Proofs

For any episodes, lessons, proposals and conversations, any number of open calls
and any bounds, from the
assumptions that these sets are disjoint (`KindsAreDisjoint`), that every source
has its conversation (`SourcesHaveConversations`) and that the bounds are natural
numbers. TLC agrees with `MemoryInv` on the instance of `memory`. None of the
properties is inductive:

- `MemoryHolds`: Spec => []MemoryInv, which has five parts. `MemoryTypes`.
  `StoreStands`: a revision cites whatever it repeats (`CitesWhatItSays`), what has
  kept its text rests on nothing the newest revision does not rest on, and evidence
  stays in the tables (`Rests`) - of every memory; a memory that is not `torn` is in
  use as reviewed and cites nothing forgotten (`Kept`). `PicturesStand`: what a
  picture is good for although the store has moved on: no revision goes and none
  gets more evidence (`Grown`), tombstones and sources stay, and a call still knows
  what it has checked in its picture (`CallKnows`). `WorkerKnows`: the same for the
  worker, and what its place says of its job. `IndexStands`: for every version
  that is in the vector store and not in the index state, or the other way round,
  there is a job about that version which is waiting, has failed, or is in the
  worker's hands and not done. A job that is settled as done may have been outrun by
  another about the same version; then that one accounts for the difference.
- `StoreHolds`: Spec => []StoreStands.
- `NothingForgottenIsRecalled`: what repeats a source cites it, or cites an episode
  that does, and what is eligible rests on no conversation that is gone; torn or not.
- `NothingForgottenIsSaid` and `OnlyReviewedIsRecalled` follow from `Kept`. That
  forgetting reaches everything is a fact about `Impact` in the picture, and about
  what may have been added to the store since.
- `PutAsideStays`: a step that gives a paused or deleted memory
  another status is a confirmation, or has a picture in which the memory was
  neither, and then the memory is `torn`.
- `IndexStateIsTrue` follows from `IndexStands`.

Only model-checked: the liveness property `PausedLeavesIndex`, and the two violations.

### Deviations

Two schedules have a run and are quoted in `PROJECT.json` ("findings"):

- `memory_paused`: `capture_source` reads `previous_status`, the user's pause
  commits, `edit` asks for the current revision only, and `capture.py:181` writes
  "active"; against the test `test_pause_survives_late_episode_result`, which runs
  the two one after the other.
- `memory_deleted`: a purge is about one version of a memory.

The first is one of four faces of one gap: a check on a row that was read before the
first write, and a compare-and-swap that covers the current revision, or that and
the status, but not what was checked. The model reaches the other three as well;
they are what `torn` stands for, and have no run of their own:

- What was forgotten is made again: the tombstones are looked for before the
  insertion (`service.py:289-301`, `extraction.py:50`, `capture.py:52` and `:123`,
  `memory_tools.py:103`); against docs/memory-replacement-spec.md:454. What is
  written so is not recalled, but stays in the tables and can be read.
- The version in use is marked rejected, and still recalled: `service.py:457` looks at
  `active_revision` as loaded, and a concurrent request confirms that revision;
  docs/memory-replacement-spec.md:477 rejects candidates and candidate revisions.
- What was deleted comes back: `forget_source` suspends a lesson it has loaded as
  active and the user has deleted since (`service.py:620`); `capture.py:181`,
  `reconcile.py:32` and `worker.py:55` do the same to what they have loaded; against
  docs/memory-replacement-spec.md:458. The tombstone of the memory keeps it from
  being recalled.

Also seen: a lesson one of whose episodes was merely suspended, or edited, is
blanked by a revalidation that comes later.

## 6. Knowledge documents and their vectors

`KnowledgeIndex` models the knowledge documents of the diagnosis service: chunks
in SQLite, the points of a primary and a fallback collection, and
`external_sync_outbox`. `KnowledgeInvariant` has its inductive invariant,
`MCKnowledge` its instance, `KnowledgeProofs` its theorems.

| Code | Actions |
|---|---|
| `replace_knowledge_document`, delete, `rebuild_vector_index` (`knowledge_documents.py`) | `Replace`, `Delete`, `Rebuild`: commit, then the calls the thread still has to make |
| `external/`, `external_sync.py` | `DeleteCall`, `UpsertCall` (a batch at a time; each may fail before, between or after its effect), `QueueDelete`, `QueueItem` |
| retry task | `Claim`, `RetryCall`, `RetryMark`, `TaskDies` |
| `retention.py` | `Purge` |
| process death | `Restart` |

The tools are synchronous functions and run in threads of the MCP server, so
that two requests overlap. An entry has the key of what it is about, and one
that exists is opened again where it is: `created_at` stays. Neither `RETURNING`
nor the SELECT of a rebuild promises an order, so the rows that were claimed are
delivered in any order, and which chunks make up a batch is left open. The tiers of the fallback are one
fallback, and the store is configured. The retry task claims all that is due, where
the code takes a hundred entries at a time, and a call that timed out has had its
effect at once or never, not after a later call. Purging takes completed entries one at a
time, which includes what a batch with a cutoff does. The keyword index and the
search do not change the state.

Run `knowledge`: one document, texts of one and of two chunks with a batch size of
one, hence of one and of two batches; two threads, 3 requests, 2 faults. Three requests let an upload and its deletion
wait in the outbox and a third overtake them; two faults fail a call and then
its retry, or the process that has claimed it. `CollectionsMirrorDocuments` holds
for the documents that are not `bypassed`: no request about the document began
while another one was under way or an entry of it was open, no call or entry
went past one that was open, and no process died between the commit of the
chunks and the calls. In the fallback it holds for those of which it missed no
call (`behind`). The exceptions are real: the outbox replays in an order that
is not that of the requests, against README.md:126 of the repository; requests
are not serialised; what a process that dies had still to call is not in the
outbox; and a call that succeeds in the primary may have failed in the
fallback. `OutboxDrains`
assumes weak fairness of the retry task, which runs every few seconds; it ends
for good at the first error of the database, since its loop has no handler,
which is why "dead" is an alternative.

### Proofs

For any documents, texts, threads, batch size and bounds. TLC agrees with
`KnowledgeInv` on run `knowledge`.

- `IndexFollowsDocuments`: Spec => []KnowledgeInv. `CollectionsMirrorDocuments` is
  about documents at rest; the invariant says what holds of one that is not
  bypassed while calls about it are under way. `InTurn`: at most one request is at
  it; while that one has its deletion still to make nothing about the document is
  in the outbox; what waits is what SQLite has; and an entry for the deletion is
  older than those for the chunks, since a position in the outbox is kept when
  the entry is opened again. `Mirrors`: each chunk is in the collection or on its
  way, and only on its way while a deletion is due; without one due the
  collection has no other chunk; and an entry the task has delivered and not yet
  marked has had its effect, so that marking it loses nothing. The same holds of the
  fallback for documents that are not `behind`.
- `QuietIsMirrored`: Spec => []CollectionsMirrorDocuments follows from it.

Only model-checked: the liveness property `OutboxDrains`.

## 7. The tool catalogue and the repairs of a run

### Modules

- `ToolCatalogue`: MCP servers and their tools, with policies and schemas.
- `RepairLedger`: extends it by the repairs of one run; the control service is
  the state of an action under its correlation key, as section 3 models it.
- `RepairInvariant`: the inductive invariants.
- `MCRepair`: the instance.
- `RepairLedgerProofs`: the theorems.

### State and actions

| Code | Actions |
|---|---|
| `api/mcp.py`, `mcp_catalog.py` | `CreateServer`, `UpdateServer`, `MoveServer`, `DeleteServer`, `TestServer`, `RefreshRead`, `RefreshWrite`, `RefreshFails`, `UpdateTool`; external: `RemoteChanges` |
| `boundary.py`, `actions.py`: diagnosis, reservation | `Diagnose`, `DiagnosisReturns`, `Reserve` |
| the request to the service and its answer | `Arrive`, `RequestLost`, `CallFails`, `AskResult`, `Finish` |
| `rediagnose` | `RedoRead`, `RedoDiagnose`, `RedoStore`, `RedoRefused` |
| `api/remediation.py` and the service | `Decide`, `Expire`, `Settle` |
| `track_action` jobs | `TrackAsk`, `TrackSave`, `TrackFails`, `TrackReleased`, `LinksAge` |
| the run | `Begin`, `RunCompletes`, `RunStops`, `DeadlinePasses`, `Crash` |

### Abstractions

`boundary_lock` serialises the calls of a run, so that the lease of a new
diagnosis and the comparison of `runtime_state` are never contended. `save_result`
is one step that takes the answer it was called with; what can go wrong is that
the answer is old. Answers are asked for by correlation key, by command or by
proposal, as the code does. Every action adopts an experience, whose feedback is
then modelled. Refusals of `reserve` leave no state. Servers and tools of a run
are loaded in one step. The kinds of servers and their defaults, the recall and
capture of memories and the parameters of actions are left out; so are answers
the service never gives, and `restore`, which has no caller.

### Run

Run `turn` starts from one of four mixes, which are its bounds: the administrator alone
(4 steps); one proposal whose server may be switched off or deleted; two repairs of one
device with a limit of two and a failing or lost request; and two devices with a
limit of one. Two links are the least that can break the limit or follow a
failure, and three reads the least in which the budget of a new diagnosis runs
out. There is no fairness: the properties are safety properties, and
`NoActionIsForgotten` says who still knows of an action, with its exceptions
spelled out in `GivenUp`.

Deviation: a failure that the tracking job saves while the run is running is
diagnosed again by nobody, although docs/memory-replacement-spec.md:303 asks for
it: `rediagnose` is called by the tool calls of the run alone, and a follow-up is
asked for only when the run is over.

### Proofs

For any servers, tools, devices, policies and schemas, any limit and any number
of links, from `NoServerIsNoServer` (the value "no server" is no server, which
`TestServer` and `RefreshRead` rely on). `RepairInvariant` has the invariants;
TLC agrees with all of them on run `turn`.

- `VettedBeforeUse`: Spec => []EnabledWasVetted. A refresh reads the rows, asks
  the server, and writes; a tool enabled in between is written over with the
  policy that was read unless its schema is new. `RacedInv` says what a refresh
  under way may find changed.
- `LedgerTypesHold`: Spec => []LedgerTypeOK, with the links that the call of the
  run and the tracking job are about.
- `RepairsFit`: Spec => []RepairInv. An answer under way may be old when it is
  saved: `Tells` says which answers an action has given cause for, and is kept
  by every later change of that action, since a final state is final. The rows
  (`RowsInv`) then need no more than that what was saved was told. That failures
  are followed by a new diagnosis needs the order of the traces (`FailuresInv`:
  a failure lies between the diagnosis the repair went by and the one made
  because of it). That no action is forgotten needs `Overtaken`: a final answer
  that an older one was written over is still in the hands of the call that is
  writing.
- `RepairsAreLimited`, `FailuresAreDiagnosed`, `ActionsAreTracked` and
  `CreditStands` follow from it.

## 8. Schema migrations

### Modules

- `SchemaScripts`: the scripts of the three databases as sequences of
  statements; a statement creates, drops, renames or alters the named object,
  or moves rows.
- `SchemaMigrations`: the runner of the MCP services, the deployment of the
  backend with Alembic, and what SQLite and Python's driver make of the
  statements: schema changes are committed at once unless a transaction is
  open, and writing a row opens one.
- `MCMigrations`: the instance.
- `SchemaInvariant`: the inductive invariants `SchemaInv`, about the rows, and
  `WholeInv`, about the schema.
- `SchemaProofs`: the theorems about the rows.
- `SchemaWholeProofs`: the theorems about the schema.

### State and actions

`db` is the committed database: the objects it has, the recorded versions and
the rows that scripts move. `proc` says where a process is: its command, its
script and statement, what it has read of the schema, and its open transaction.
`Start`, `Initialize`, `Verify`, `Deploy`, `Stamp`, `Connect` are the phases of a
start; `Look`, `Pass`, `Alter`, `Write`, `CommitRows`, `Fail`, `Record` one
statement or the end of a script; `Seed` is what the diagnosis server inserts;
`Insert` a command of a release that goes on running; `Crash` a kill at any point.
`Init` is an empty database or one of an earlier release, with or without FTS5.

### Abstractions

Checksums, databases that are ahead of the code, `status`, backup and downgrade are
not modelled. The lock timeout of 30 s is a wait. That Alembic does not make SQLite's
schema changes transactional, and what its batch mode does, is knowledge of the
library. The previous diagnosis release is stopped during an upgrade. The columns
that hold keys of the baseline are not told apart.

### Run

`migrations`: each database upgraded by one process that is killed up to three
times, and the control database by two at once, one of which may be killed. Three
kills reach the interrupted repetition of an interrupted repetition; with two
processes one kill is enough for the other to take over what was begun. Two
upgraders of the diagnosis and of the backend database are too large for the run
and left to the proofs. Fairness: a process that can go on does, and a container
that was killed is started again.

`oddly` names the two ways in which the schema may end out of order. An upgrader
is "late" when it commits a change of the schema although another one has recorded
its script meanwhile, or has removed what it has read of the schema: script 4 of
the control service then rebuilds the table once more, or makes
`device_command_new` again, which stays although version 4 is recorded. And a
deploy stamps the first revision of a database of which only the key tables of
that revision were looked at ("stamped").

Deviations: control script 4 that is killed between its CREATE TABLE and the move
of the rows leaves `device_command_new` behind and fails at every later start,
against common/migrations.py:7 ("迁移必须可安全重试（幂等 DDL）"), which is the exception
of `UpgradesEnd`; the deploy of the backend refuses other interrupted databases for
good; an empty database with a container that does not upgrade is verified and
refused.

### Proofs

For any number of processes and kills, several upgraders of every database among
them, which the run has for the control database only. TLC agrees with
`SchemaInv` and `WholeInv` on the instance of run `migrations`.

- `SchemaHolds`: Spec => []SchemaInv, for the two databases of the MCP services.
  `ServiceInv`: the versions are recorded in order, a process is in a script only
  after the ones before it, and only one process has a transaction open. What the
  properties say at a recorded version is the effect of several statements, some
  committed at once and some with the transaction, so the invariant says for
  each script at which statements its transaction is open and what it then holds.
  `ControlInv`: the copy of the commands is complete before the table is dropped
  and is not committed without the rename; no trigger but that of `device_command`
  queues anything; and the script that adds the outbox settles what is there before
  its trigger is seen, both in one transaction. `DiagnosisInv`: `device_status`
  either has all its rows or the newest of each device is in the new table
  (`StatusesStand`); a row that goes on in the open transaction is the committed
  one but for what its script changes; and a document is taken out of the index and
  put back in one transaction, so that no interruption indexes it twice.
- `CommandsStay` and `DiagnosisRowsStay` follow from it.

- `WholeHolds`: Spec => []WholeInv, for all three databases. While nothing is
  `oddly` and version m is the first that is not recorded, `Stands(m, has)` says
  which schemas the database may have, and `Held` what an upgrader at a statement
  of script m has there and in its transaction. Most scripts of the MCP services
  only add (`IsGrowing`): anything between the schema of the version before and
  that of their own, with all that the passed statements ask for
  (`GotThrough`). The three that also take away have an account of their own:
  control 4 stands at one of three schemas and is passed by one upgrader at a
  time once its CREATE TABLE is committed (`IsAlone`); diagnosis 2 adds first and
  moves the old table in one transaction; diagnosis 6 removes its tables in two
  steps. A revision of the backend cannot be repeated: either nothing of it is
  there, or its first statement is an error (`FirstFails`), so that whoever is
  past that statement is the only one and has what an uninterrupted run has made.
- `SchemaStaysWhole`: Spec => []SchemaIsWhole follows from it.

The proof has two halves. `Soundly(m)` asks of script m what its statements have to
do to a schema that stands, whatever the process has read, and `WholeSteps` shows
that every step of every process keeps `WholeInv` if the scripts are sound and the
first schemas are right (`Based`). The other half goes through the 21 scripts.
`Upgraded` and `Passed` are recursive functions over the statements; what they come
to is proved by `Inductive`, induction in the form "a set of numbers with 0 and all
successors has all numbers", from the well-foundedness of < . A script that grows
is known from the set of its statements (`Builds`), so that the loops over columns
and indexes need no count.

Only model-checked: the liveness property `UpgradesEnd`.

## 9. Context, artifacts and attachments

`ContextStore` models one conversation: which messages the model is given, the
snapshot that stands for the rest, the files a run writes, the attachments, and
everything that deletes them. `ContextInvariant` has its inductive invariant,
`MCContext` its instances, `ContextStoreProofs` its theorems.

| Code | Actions |
|---|---|
| `api/attachments.py`, `api/messages.py`, `api/runs.py` | `Upload`, `Submit`, `Retry`, `WantDelete`, `DropPicked`, `DeleteRun`, `RemoveFile` |
| `context_builder.py`, `context_compactor.py` | `Begin` (the choice), `Resume` (an earlier snapshot), `WriteTranscript`, `WriteRow`, `SaveSnapshot`, `Shorter`, `SaveInput`, `TooLong` |
| tool outputs (`artifacts.py`) | `StartTool`, `WriteOutput`, `FlushOutput` |
| `retention.py` | `Age`, `PickAttachments`, `Expire`, `PickArtifacts`, `Unlink`, `DeleteRows` |
| end of the run, process death | `Complete`, `Fail`, `Crash` |

Messages are known by their position, the order of their commits. Sizes are
small numbers of tokens; the choice goes from the newest turn to the oldest and
may skip one that is too big, as the code does; `max_turns` never binds. Artifacts
expire only while their run is not running. The working memory in the prompt is left
out, so that a second attempt is always allowed, as are redaction, the measuring and
summarising of text, and `compact_model_input`, which shortens within one call.

Run `context`: three requests with one attachment; with two artifacts and one kill; with
a window of one or two messages; and two requests with everything. Three turns of
one or two tokens against a budget of three make the choice skip, keep and omit;
two artifacts are a transcript and an output. There is no fairness.

Deviations, without a run: an attachment that a clean-up has picked as unbound is
deleted although it has been sent meanwhile (`retention.py:3` and `api/attachments.py`
say that only unbound ones are collected; `SentAttachmentsStay` excepts exactly
these); the files of a deleted run whose removal failed are left for ever, though
`api/runs.py:64` leaves them to the retention; so are files whose row was never
committed; `cleanup_run_artifacts` does not end if a full batch cannot be
unlinked; `compact_run_events` picks the first batch of ended runs without
excluding those it has compacted, so that later ones starve; a run whose message
has left its window answers the newest message; messages queued later are history
to an earlier run; a retry drops attachments; the text of an attachment that is
left out for its size is in no snapshot.

### Proofs

For any number of messages, attachments and artifacts, any sizes and any budget,
from `ContextAssumption` (sizes, budget and bounds are natural numbers).
`ContextInvariant` has the invariant, TLC agrees with it on run `context`, and
`ContextHolds` states Spec => []ContextInv. None of the three properties is
inductive:

- `ContextIsComplete`: Spec => []NothingIsLost. Before the model is asked the input
  stands on promises: a run told that nothing was left out has the whole
  conversation in view, which takes counting the window (`BeginIs`); the snapshot
  under way covers the last message left out; an input is shortened once, before
  anything was saved (`InputInv`). The choice of turns may be any: no step of the
  proof looks into it.
- `TranscriptsStay`: Spec => []ContextIsRecoverable. What is to be removed must have
  lost its row, or have expired and not be the source of the snapshot
  (`RemovalInv`); a file that waits for its row is nobody else's (`PendingInv`,
  `NumbersInv`); and an artifact has one row, or deleting one run could take the
  file of another (`RowsInv`).
- `AttachmentsStay`: Spec => SentAttachmentsStay, from `PickedInv`: what a deleter
  has picked was unbound, or was sent since.

Not proved: that the input holds messages only (`TypeOK`). It is a fact about
the fold that chooses the turns, which the proofs never unfold; it stays with TLC.

## 10. Not modelled

`PROJECT.json` gives the reason for every component.

- Control service: `set_correlation_delivery` has no caller in `src`; the status
  "acked" is only read, never written; `attempts` is only counted; the
  millisecond rounding of `expires_at`; the three transactions in which
  `get_action_by_correlation` reads one action.
- Run lifecycle: the merging of deltas, hooks and the event stream.
- Telemetry ingest overwrites rows with the last value and has no protocol.
- Diagnosis and text-to-SQL prompt a language model and check its answer;
  retrieval and ranking are numeric; chunking is text processing; the model
  service is the front of external models: none keeps state of its own. Fusion,
  `evaluate` and chunking are candidates for pure operators.
- The frontend and the scripts.
