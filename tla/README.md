# TLA+ models of the Cadence workflow-consistency core

This directory holds TLA+ specifications of the code under `src/`, together with the TLC configurations that check them. The checks cover:
- the decision-task lifecycle of the history service;
- its optimistic-concurrency update loop against the persisted mutable state;
- the shard distributor's namespace manager;
- the state rebuilder, checked as a refinement of an abstract rebuild;
- the Cassandra batches that write an execution row, its info maps, buffered events and tasks;
- the current-execution row of a workflow ID under concurrent, retried and reusing starts.

`PROJECT.json` lists every component, run, mutant, finding and hazard. Its `map` ties each definition to the source lines it models.

## 1. The system, as the source has it

| Part | Source | State it keeps | Operations |
|---|---|---|---|
| Decision handler | `service/history/decision/handler.go` | none of its own; works on a run's mutable state through the execution cache | `HandleDecisionTaskScheduled`, `HandleDecisionTaskStarted`, `HandleDecisionTaskFailed`, `HandleDecisionTaskCompleted` (its `Update_History_Loop`), `failDecisionHelper`, `handleBufferedQueries`, `createRecordDecisionTaskStartedResponse` |
| Mutable state and event applier | not under `src/` (spec.md 3, 4.1) | execution info (state, nextEventID, LastProcessedEvent), the pending decision (ScheduleID, StartedID, Attempt, RequestID, timestamps), buffered events, history | `AddDecisionTask*Event`, `AddFirstDecisionTaskScheduled`, `AddWorkflowExecutionTerminatedEvent`, `CloseTransactionAsMutation` |
| Decision interpreter | `decisionTaskHandler` (not under `src/`), called at handler.go 427-483 | none | turns a decision list into events, or fails the decision |
| Execution cache | `common/cache/cache.go` (interface only) | pinned contexts of runs, each holding a cached mutable state | `GetOrCreateWorkflowExecution`, `release(err)` (clears the context on error) |
| Cassandra execution batches | `common/persistence/cassandra/cassandraPersistenceUtil.go` | the execution row: nextEventID, six info maps, buffered events; task rows | `applyWorkflowMutationBatch`, `applyWorkflowSnapshotBatchAsReset`, `applyWorkflowSnapshotBatchAsNew`, `createExecution`, `updateExecution` (condition: the loaded nextEventID), `update*Infos`, `reset*Infos`, `updateBufferedEvents`, `deleteBufferedEvents`, `applyTasks` and the three task writers |
| Current-execution row | same file | per workflow ID: the current run, its state, its create request ID | `createOrUpdateCurrentExecution` (BrandNew, WorkflowIDReuse, ContinueAsNew) |
| State rebuilder | `service/history/execution/state_rebuilder.go` | `rebuiltHistorySize` (a field, accumulated per page) | `Rebuild`, `initializeBuilders`, `applyEvents`, `getPaginationFn` |
| Namespace manager | `service/sharddistributor/leader/namespace/manager.go` | `namespaces` map, manager context and cancel, per-namespace cancel and WaitGroup | `Start`, `Stop`, `handleNamespace`, `runElection` (a goroutine) |
| Not modelled | mocks, `cmd/server/main.go`, `metricsfx`, the generated timeout wrapper, the scheduler options | none that changes | none |

The parts interact as follows:
- A request to the decision handler pins the run's context in the execution cache. Loading the run reads the cached mutable state, or the database if the context was cleared.
- The request changes the state through the mutable-state mutators, then writes it with a conditional update.
- A conflict, or a stale state detected by the handler, clears the context and retries, at most `ConditionalRetryCount` times.
- Workers hold task tokens `(ScheduleID, attempt)` and may send them late, twice, or after another worker took over.
- Matching may deliver one scheduled decision to several pollers.

### What is hard here

- **Stale reads.** After a Clear, a load may return an older version of the run. The handler guards against this at handler.go 191 and 355, comparing the token's ScheduleID with nextEventID.
- **The write condition is nextEventID only.** Changes that write no event leave it where it was: a transient decision's start, an attempt increment, a buffered signal.
- **Transient decisions.** A decision retried after a failure (attempt > 0) writes no scheduled or started event until it completes, and it reuses nextEventID as its ScheduleID.
- **Persistence faults.**
  - A timeout may or may not have applied the write.
  - A size-limit error makes the handler reload, terminate the run and write again; if that write fails, its error is returned (handler.go 591-593) and the run stays open.
- **Heartbeats.**
  - A chain of heartbeats must end within the heartbeat timeout of the chain's *original* schedule time.
  - On a heartbeat timeout, the handler still schedules (and may synchronously start) a new decision, but answers EntityNotExists.
- **Unhandled events.** Buffered signals and failed decisions must lead to a new decision.
- **Goroutines of the namespace manager.** Cancellation, the WaitGroup, a `Start` that fails partway, and `Stop` before or after `Start`.
- **The rebuilder.** It pages a history prefix, must land exactly on the requested last event, and accumulates `rebuiltHistorySize` across calls.

## 2. Modules

| Module | Models | Composes |
|---|---|---|
| `MutableState` | the aggregate's decision and workflow mutators. These are spec-modelled: the builder is not under `src/`. A mutable state is a record; `hist` is the event sequence. | |
| `DecisionHandler` | the four decision RPCs, signals, consistent queries and `handleBufferedQueries`, the update loop, the execution cache's pin and release, and the conditional write with its faults | `MutableState` |
| `MCDecisionHandler` | model values for request IDs, symmetry of query IDs | `DecisionHandler` |
| `NamespaceManager` | `Start`, `Stop`, `handleNamespace`, `runElection` of the shard distributor's namespace manager | |
| `MCNamespaceManager` | two namespaces in configuration order | `NamespaceManager` |
| `RebuildSpec` | what `Rebuild` promises, one step per call: the fold of exactly the batches up to the requested event, a bad request, or an error | |
| `StateRebuilder` | `Rebuild` step by step: paging, the `rebuiltHistorySize +=`, the first batch, the applier, the last-item check and the finishing steps | `RebuildSpec` (refinement) |
| `MCStateRebuilder` | a base branch of three batches and four targets | `StateRebuilder` |
| `ExecutionStore` | the three batches of `cassandraPersistenceUtil.go` with every function they call, committed by writers that loaded the row at different times | |
| `CurrentExecution` | `createOrUpdateCurrentExecution` and `createExecution` under concurrent starts, lost answers and retries, ID reuse, closing runs and continue-as-new | |

### ExecutionStore: how state and actions map to the code

Variables: `row` is the execution row as stored (exists, `next_event_id`, the parent columns, the six info maps of keys to values, the number of buffered events); `tasks` is the set of task rows. Per writer: `pc`, `base` (the row it loaded), `agg` (its aggregate after a transaction), `pending` (the tasks it will write), `ret`; `writes` bounds the commits.

Each batch function is an operator returning `[err, applies, row, tasks]`:
- `ApplyWorkflowMutationBatch`: `UpdateExecution` (the `IF next_event_id =` condition), then `UpdateInfos` for each kind, where upserts and deletes share one timestamp so a delete wins (`UpsertDelete`), `UpdateBufferedEvents` (clear, else append) and `ApplyTasks`.
- `ApplyWorkflowSnapshotBatchAsReset`: the same condition, then `ResetInfos` (each map column replaced whole, `ReplaceMap`), `DeleteBufferedEvents`, `ApplyTasks`.
- `ApplyWorkflowSnapshotBatchAsNew`: `CreateExecution` (`IF NOT EXISTS`), the infos as upserts, `ApplyTasks`.
- Activity and child infos carry the encodings (constant `Encodings`) of their scheduled and started events. When they differ, `update*`/`reset*` return a serialization error (`EncodingMismatch`) and the batch is not executed. Otherwise the info is stored with one `event_data_encoding`, the scheduled event's (`ActivityInfoColumns`, `ChildExecutionInfoColumns`).
- A run without a parent is stored with the `emptyDomainID`/`emptyRunID` sentinels (`ParentColumns`, createExecution and updateExecution).
- Reading the row back is `ReadRow`: `CreateWorkflowExecutionInfo` maps the parent sentinels back to no parent, and `CreateActivityInfo`/`CreateChildExecutionInfo` give both event blobs the shared encoding. `Load` gives a writer `ReadRow(row)`, and `CommitWritesRun` compares what the committed row reads back as with the writer's aggregate, so the write and read conversions are checked as a round trip.
- `MCExecutionStore` declares writers and encodings symmetric: the model compares them only for equality.

The writer side is spec-modelled: `Load` reads the row (a writer may hold an old copy), `Transactions` and `CloseTransactionAsMutation`/`AsSnapshot` build the change, and `Commit` executes one of the batches the persistence manager would choose.

### CurrentExecution: how state and actions map to the code

Variables: `current` is the current row; `exec` the execution row of each run ID; `creator` is a history variable, the request whose write created a run; per request `st`, `prev` and `answer`; `runs` and `timeouts` are bounded counters.

`CreateOrUpdateCurrentExecution` gives each mode the condition its bound parameters express (BrandNew `IF NOT EXISTS`; WorkflowIDReuse `current_run_id = previousRunID AND state = Completed`; ContinueAsNew `current_run_id = previousRunID`). `CreateRun` is one conditional batch of the current row and `createExecution`. The engine's start logic around it (not under `src/`) is spec-modelled: BrandNew first; on a failed condition, a matching create request ID is the same start, a running run is AlreadyStarted, a completed one is retried as WorkflowIDReuse. Any write may time out, applied or not, and the client retries. `Close` and `ContinueAsNew` are a run's final mutations with the current row update.

### DecisionHandler: how state and actions map to the code

Variables:
- `db` is the persisted run.
- `persisted` holds every version ever written; a stale read returns one of them.
- `ctx` is the workflow context: the cached state and its condition.
- `op` is the request in progress, with its loop counter `iter`.
- `startLog` holds every started response handed to a worker.
- `schedLog` holds every ScheduleID dispatched to matching.
- `now` is the injected time source.
- `faults` and `staleReads` count the bounded persistence faults and stale reads.

Actions:
- **Requests.** Each RPC is split into `Request*`, which picks the token and arguments, and one action per loop iteration (`*Iteration`). The execution cache serialises requests on one run, so one request is served at a time. The interleaving that matters happens between a request and the database.
- **Loads.** `Loads` is the cached context, or, after a Clear, any readable version.
- **Iteration outcomes.** Each iteration applies the action and takes one of these outcomes:
  - error: the context is cleared by `release(err)`;
  - stale: Clear and `continue`;
  - Noop: no write;
  - update: a conditional write, which can end as Ok, Conflict (retry), Timeout (applied or not) or SizeLimit.
- **`CompleteIteration`** is one iteration of `Update_History_Loop` (handler.go 335-643):
  - the stale check and the token validation;
  - the heartbeat timeout and timed-out event, or the completed event;
  - the bad binary check and the decision interpreter;
  - `FailDecision` (handler.go 484-496), the call of `failDecisionHelper`, which clears, reloads, fails the decision, and terminates the run past `DecisionRetryMaxAttempts`; the write that follows always counts as having unhandled events;
  - `createNewDecisionTask`, which schedules as a heartbeat or as a new decision, and starts it synchronously when `ReturnNewDecisionTask` is set;
  - the write (`CompleteWrite`), the size-limit branch (`HandleSizeLimit`), and after a committed write `CommittedResponse` (handler.go 598-607): `handleBufferedQueries`, then EntityNotExists if the heartbeat timed out, else OK.
- **Signals** are spec-modelled: the history engine is not under `src/`. They are buffered while a decision is in flight.

Consistent queries:
- `registry` is the query registry of the cached mutable state: per query ID, Absent, Buffered, Completed, Failed, Unblocked, or Cleared (it was buffered in a state the context dropped).
- `RequestQuery` and `QueryIteration` model the history engine's `QueryWorkflow` (not under `src/`): the query is buffered in the loaded state while a decision is outstanding, and dispatched directly otherwise.
- `HandleBufferedQueries` is handler.go 712-857, applied to the registry when a completion's write succeeded. A completion request carries the worker's answers (none, an answer, or one over the blob size limit, per query) and what its version headers say (supported, unsupported, unsupported with a header missing).
- `FinishWith` and `Retry` clear the registry with the context, as `release(err)` and `Clear` do; `failDecisionHelper` clears it before its reload.

### NamespaceManager: how state and actions map to the code

Variables:
- `mctx` is `m.ctx`/`m.cancel`, named by the Start that created them; it is 0 while `m.cancel` is nil.
- `cancelled` holds the manager contexts that were cancelled.
- `namespaces` holds the keys of `m.namespaces`.
- `handler[ns]` records the handler's parent context and whether its own cancel was called.
- `wg[ns]` is `cleanupWg`.
- `g[ns]` is the election goroutine.
- `call`, `idx`, `toStop` and `waiting` are where the caller is inside Start (its loop index) or Stop (its range loop and the handler being waited on).

Actions:
- **`Start`** makes a new manager context. The old one is dropped without cancelling it.
- **`HandleNamespace`** is one `handleNamespace` call plus Start's loop. It takes one of three paths:
  - the namespace already exists, so Start returns an error;
  - `CreateElector` returns an error;
  - the handler is registered, `Add(1)` is called, and the goroutine starts.
- **`Stop`** has these steps:
  - it returns the nil-cancel error if `m.cancel` was never set;
  - otherwise it cancels the manager context;
  - `StopHandler` and `HandlerWait` form `handler.cancel`: cancel, then `Wait`, for any not-yet-visited handler (Go map order);
  - `StopReturn` is the return.
- **`RunElectionReturn`** is the goroutine's `ctx.Done` case together with its deferred `cleanupWg.Done`.

The leadership case of the goroutine's `select` only logs, so it is left out.

### StateRebuilder: how state and actions map to the code

The base branch `Batches` is a sequence of batches of events `[id, ver]`; a batch's size in bytes is abstracted to its number of events. The rebuilt mutable state is abstracted to what the rebuilder checks: nextEventID and the last item of the current version history (`NoState` is a nil state).

Variables, per caller: `pc` (where its `Rebuild` is), `target`, `token` and `more` (the paging iterator's position and whether its page token is non-empty), `buf` (the page not yet applied), `pageBytes`, `tmp` (the value its `+=` loaded), `ms`, `ret`. Shared: `size` is `r.rebuiltHistorySize`. `read` is a history variable, the bytes each call read.

Actions:
- **`Begin`** is the call and `NewPagingIterator(getPaginationFn(FirstEventID, baseLastEventID+1))`.
- **`Fetch`** is the pagination function: `PaginateHistory` returns at most `PageSize` batches whose first event is below the bound, or an error. When a page ends exactly at the last batch, the persistence layer may or may not return a page token.
- **`AddLoad`, `AddStore`** are the unsynchronised `rebuiltHistorySize += size` (line 272), as a load and a store.
- **`Apply`** applies the next batch; the first one goes to freshly initialised builders. The applier rejects a batch that is not contiguous with nextEventID.
- **`Advance`** is `iter.HasNext` once a page is used up: the next page, the "no history" error when nothing was read, or the last-item check.
- **`CheckLastItem`** returns BadRequest when the last version-history item is not the requested `(eventID, version)`.
- **`Finish`** is `targetBranchFn`, `SetCurrentBranchToken`, `CloseTransactionAsSnapshot` and `RefreshTasks`, any of which may fail, and the return with `rebuiltHistorySize`.

The refinement mapping: a caller is busy in `RebuildSpec` while its `pc` is not idle; its result is the status and state of `ret`. `RebuildSpec`'s `Return` and `Fail` are one step per call.

## 3. Runs

The runs are defined in `PROJECT.json`.

| Run | cfg | Checks | Result |
|---|---|---|---|
| lifecycle | `MCDecisionHandler.cfg` | TypeOK, HistoryMatchesState, StartIdempotent, NoStrandedEvents | pass: 1.7M distinct states, about 80 s |
| heartbeat_stale | `MCDecisionHandlerHeartbeat.cfg` | HeartbeatBounded | pass: 2.1M states, about 90 s |
| namespace_lifecycle | `MCNamespaceManager.cfg` | TypeOK, StopJoinsElections, StopReturns | pass: 266 states |
| namespace_start_failure | `MCNamespaceManagerStartFailure.cfg` | StartFailureLeavesNothing | violation (finding 2) |
| orphaned_start | `MCDecisionHandlerOrphan.cfg` | StartedDecisionDelivered | violation (finding 1) |
| queries | `MCDecisionHandlerQueries.cfg` | QueryNotStranded | pass: 1.3M states, about 70 s |
| rebuild_refinement | `MCStateRebuilder.cfg` | TypeOK, RebuildRefined | pass: 254k states, about 15 s |
| rebuild_size | `MCStateRebuilderSize.cfg` | ReturnedSizeIsThisRebuild | violation (finding 3) |
| fail_stale | `MCDecisionHandlerFailStale.cfg` | FailRefusedOnlyWhenGone | violation (finding 4) |
| execution_batches | `MCExecutionStore.cfg` | TypeOK, CommitWritesRun | pass: 1.13M states, about 80 s |
| lost_buffered_event | `MCExecutionStoreLostEvent.cfg` | BufferedEventsNotLost | violation (finding 5) |
| current_execution | `MCCurrentExecution.cfg` | TypeOK, SingleRunningRun, StartAnswerNamesOwnRun | pass: 13k states |

### Properties

- **HistoryMatchesState.** The persisted history and execution row agree:
  - nextEventID is one past the last event;
  - every started or closing event belongs to an earlier scheduled decision;
  - a decision is started and closed at most once;
  - the only open decision is the pending one.
- **StartIdempotent.** All started responses for one `(ScheduleID, attempt)` are equal.
- **NoStrandedEvents.** An open run with no pending decision has no buffered events, no retried attempt, and no signal or failure after its last completed decision.
- **HeartbeatBounded.** No decision is scheduled later than `HeartbeatTimeout` after its heartbeat chain began. The chain start is a history variable (`chain`), not a field of the code.
- **StartedDecisionDelivered.** A decision recorded as started was handed to a worker.
- **StopJoinsElections.** Once Stop has returned, no election goroutine runs.
- **StopReturns.** Every Stop eventually returns. This is a liveness property.
- **StartFailureLeavesNothing.** After Start returned an elector error, no namespace is handled and no election runs.
- **QueryNotStranded.** A query buffered in the cached state always has an outstanding decision to carry it to a worker.
- **QueryDroppedOnlyOnFailure.** An action property: a buffered query is dropped from the registry only by a request that wrote nothing. Checked only by the reproduction `MCDecisionHandlerQueryDrop.cfg` (section 4).
- **RebuildRefined.** `StateRebuilder` implements `RebuildSpec`: every call returns the fold of exactly the batches up to the requested event, a bad request when that event does not end a batch of that version, or an error after a fault. Paging, the first-batch initialisation and the applier never lose, repeat or add a batch.
- **ReturnedSizeIsThisRebuild.** A successful Rebuild returns the bytes that call read.
- **FailRefusedOnlyWhenGone.** An action property: RespondDecisionTaskFailed answers EntityNotExists only when the database no longer has that decision started at that attempt.
- **CommitWritesRun.** An action property: a batch that is acknowledged, written over the row its writer loaded, leaves a row that reads back as exactly the writer's aggregate (encodings and parent included) and adds exactly its tasks; a refused batch (condition failed or serialization error) changes nothing.
- **BufferedEventsNotLost.** An action property: a commit removes buffered events only by flushing them.
- **SingleRunningRun.** At most one run of the workflow ID is running, and the current row names it as running.
- **StartAnswerNamesOwnRun.** A start is answered OK only with a run its own write created.

Each property of a passing run has a mutant in `PROJECT.json`: a plausible bug in the mapped code that TLC catches.

### Bounds

The bounds are chosen so that each hard case happens at least once:
- **Two request IDs**, so duplicate and competing polls both occur.
- **`MaxHistory` 6.** This allows a full schedule, start and complete, followed by a second decision, or a retried (transient) attempt after a failure.
  - Requests stop once the history reaches this length.
  - The heartbeat_stale run uses 8, so a chain of heartbeats outlives a timeout of 1 tick.
- **`MaxTime` 3 or 4**, enough to cross the heartbeat timeout.
- **One persistence fault** of each kind.
- **One stale read** in the heartbeat_stale and fail_stale runs: a read after a context clear may return any earlier version.
- **One signal**, which buffers while a decision is in flight.
- **`ConditionalRetryCount` 2.** Conflicts and the stale check's retry need a stale read, so the retry is reached only in the heartbeat_stale and fail_stale runs. `ErrMaxAttemptsExceeded` needs two conflicting loads in one request, which one stale read does not give; it is not reached. In the lifecycle and queries runs every load is the database's current version and every write's condition holds.
- **`MaxAttempt` 2**, which bounds how many times a worker fails a decision.

`CHECK_DEADLOCK FALSE`: a request in progress always has an enabled iteration. The model stops only when the bounds on time, history length, attempts and signals are exhausted; the real system is never at a bound.

### Fairness

`NamespaceManager` assumes weak fairness for:
- the caller's steps inside a call: a goroutine executing `Start` or `Stop` keeps running;
- each election goroutine's return once its context is done. Go's `select` picks a ready case at random, so a ready `ctx.Done()` is eventually taken.

Nothing forces the caller to make a call.

`DecisionHandler` checks no liveness property yet, so it assumes no fairness.

The namespace run's bounds are:
- two namespaces, in configuration order;
- the second namespace's elector may fail;
- up to four calls, enough for Start, Stop, Start, Stop and for Stop before Start.

The queries run uses two query IDs under symmetry, all three header cases and all three kinds of answer, decision lists None and Complete (heartbeats, completions with and without a new decision, and closing the run), a time bound of 3 so that a heartbeat can time out, and one persistence fault.

The rebuild run's bounds are:
- three batches (two, one and two events; the last of a newer version), so that pages of two batches need two fetches for the whole branch and one page ends exactly at a bound;
- four targets: a batch end, the branch end, the middle of a batch and a batch end with the wrong version;
- two callers and three calls, so that calls overlap and a caller calls twice;
- one fault, in a page read or a finishing step.

`RebuildSpec` and `StateRebuilder` assume no fairness: only safety is checked.

The execution batch runs use two writers, one info key, one value, two encodings (so an activity or child info's two events can differ, and the round trip through one shared column is checked), new runs with and without a parent, one task queue, `MaxNext` 4 (creation plus three events), at most one buffered event from the aggregate and three commits: enough for a creation, a buffered event and a stale reset over it, and for an acknowledged write after a refused one. A second queue or key multiplies the state space without a new control path. The current-execution run uses three requests, six run IDs and two lost answers, so that a request can time out twice, a retry can meet a continued-as-new run, and a reuse can race another request. Neither module assumes fairness; both check safety only.

The heartbeat_stale run adds one stale read and continue-as-new to heartbeat chains of up to eight events and four ticks, the length at which a chain outlives a heartbeat timeout of one tick; HeartbeatBounded is the only property checked there: HistoryMatchesState is a per-state check that a write from a stale but internally consistent copy leaves true, so it says nothing new about stale reads, and StartIdempotent is not checked because stale reads with heartbeat-timeout reschedules break it in the way `MCDecisionHandlerABA.cfg` shows below. The fail_stale run uses a heartbeat timeout of 3 (never reached), decisions of kind None, one attempt and one stale read, the smallest setting where a Fail meets a stale read after a context clear.

1. **A heartbeat timeout orphans a synchronously started decision** (`orphaned_start`). handler.go 497-531 starts the new decision with the synthetic request ID. Lines 608-613 then return EntityNotExists, so the started decision waits for its start-to-close timeout.

2. **A failed Start leaves elections running** (`namespace_start_failure`). The trace:
   1. Start handles n1, so its goroutine runs.
   2. `CreateElector` fails for n2, and Start returns the error at manager.go 72.
   3. Nothing undoes n1. `TestStartManagerWithElectorError` asserts an empty namespaces map after an elector error, which holds only when the failing namespace is the first one.

   fx does not call the OnStop of a hook whose OnStart failed, so n1's election runs until the process ends. A retried Start fails with "already running".

3. **Rebuild returns the bytes of earlier calls** (`rebuild_size`). `rebuiltHistorySize` is a field that `NewStateRebuilder` sets to 0 and nothing resets; every page adds to it (state_rebuilder.go 272) and `Rebuild` returns it (line 202). One caller calling `Rebuild` twice gets, from the second call, the bytes of both. spec.md 4.6 says the result is "the total bytes of history read". Concurrent calls on one rebuilder would also lose updates in the unsynchronised `+=`; whether callers share a rebuilder is decided outside `src/`.

4. **A stale read makes RespondDecisionTaskFailed refuse a live decision** (`fail_stale`). A decision is scheduled and started; a second start with another request ID gets EventAlreadyStarted and clears the context; the Fail then loads a stale version and handler.go 281 answers EntityNotExists although the database has the decision started at the token's attempt. Start and Complete reload on a stale state (handler.go 191, 355); Fail does not, and spec.md describes the reload for those two only. The decision stays started until its start-to-close timeout.

5. **A stale reset deletes a buffered event** (`lost_buffered_event`). Two writers load the run. One buffers an event, which does not move `next_event_id`. The other commits a reset snapshot computed from its older copy: its `IF next_event_id =` condition (cassandraPersistenceUtil.go 593) still holds, and `deleteBufferedEvents` (line 236) removes the event. spec.md says the condition detects concurrent modification; it does not cover changes that write no event. In the running system the execution cache and shard ownership (not under `src/`) are what keep such a stale writer from existing.

### Reproductions outside the run list

Two more configurations show behaviour that rests on a part not under `src/` (the transient-decision semantics of the mutable state, the execution context). They are kept as reproductions, `tlc -config <cfg> MCDecisionHandler`, and listed as hazards rather than findings.

- **A stale read can start a transient decision twice** (`MCDecisionHandlerABA.cfg`, StartIdempotent). The trace:
   1. A decision is started and failed.
   2. The retried attempt, which is transient, is started by poller r1. This writes no event, so nextEventID stays 5.
   3. A duplicate task for an old ScheduleID errors out, which clears the context.
   4. Poller r2 polls the transient decision. Its load returns the version before r1's start; there the decision is pending and unstarted, so the stale check at handler.go 191 does not fire.
   5. r2's write is conditioned on nextEventID 5, still current, so it succeeds.

   Two workers now hold started responses for the same ScheduleID and attempt.

   It is finding 5's mechanism (a change that writes no event does not move the condition) applied to transient decisions, whose semantics are spec-modelled; the lifecycle run, without stale reads, shows StartIdempotent holding.
- **A heartbeat timeout drops the buffered queries** (`MCDecisionHandlerQueryDrop.cfg`, QueryDroppedOnlyOnFailure). The trace:
   1. A decision is scheduled and started; time passes the heartbeat timeout.
   2. Query q1 is buffered in the cached state.
   3. The worker heartbeats. The handler records the timeout, schedules a new decision and writes; the write succeeds.
   4. `handleBufferedQueries` returns early for a heartbeat, leaving q1 buffered for the new decision, as spec.md 4.5 says.
   5. Line 609 returns EntityNotExists; the deferred `release(retError)` clears the context, and the state with q1's registry entry is dropped.

   q1 is neither failed nor handed to the new decision. The model takes the registry to be part of the cached aggregate (spec.md section 3); the context itself is not under `src/`.

## 5. Plan

The order is: the most important behaviour first, then what composes with it.

1. **Done: `MutableState` and `DecisionHandler`.** They are checked by three passing runs and two violation runs above.
2. **Done: consistent queries**, as part of `DecisionHandler`.
3. **Done: `StateRebuilder` and `RebuildSpec`.**
4. **Done: `NamespaceManager`.**
5. **Done: persistence.** `ExecutionStore` and `CurrentExecution`.
6. **Liveness for `DecisionHandler`.** Every request finishes, under weak fairness of its iterations; the loop is bounded by `ConditionalRetryCount`.

## 6. Not modelled, and why

- **Activity, timer and child-workflow state, and version histories.** No checked property tells them apart from "some event was appended".
- **Sticky task lists, reset points, metrics and logging.** These are data with no control of their own.
- **Continue-as-new's new run in `DecisionHandler`.** The old run is closed there; the new run and the current row are modelled in `CurrentExecution`.
- **The rest of the Cassandra read path and shard rows** (`createShardInfo`, the task, timer, request-cancel and signal converters, the checksum and replication converters). They convert rows to structs and change no state; the converters that matter to the round trip (the parent sentinels, the shared activity and child encoding) are modelled in `ReadRow`.
- **The fields of task rows.** A task is its queue and the batch that wrote it. `createTransferTasks` declares `targetDomainID` once, before its loop (cassandraPersistenceUtil.go 650), so a close, record-started, reset or search-attribute task that follows a task with a target domain in the same batch is stored with that task's target domain. What that column means for those types is up to the queue processors, which are not under `src/`; it is listed as a hazard.
- **The child `StartedRunID` sentinel.** Written as `emptyRunID` when the child has not started, and read back without mapping it to `""` (cassandraPersistenceUtil.go 1878). Run IDs are abstracted, and the code that tests `StartedRunID` is outside `src/`, so this is listed as a hazard without a property.
- **Inputs the callers never produce:** an unknown create mode or task type, nil version histories. The validation of state and close status is not under `src/`.
- **Start after Stop in the namespace manager.** fx calls a hook's OnStart once, so a Start after Stop does not occur; the Start-after-Stop case is not listed as a hazard.
- **Generated mocks, bootstrap and configuration code.** They contain no behaviour to check.
