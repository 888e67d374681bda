# Verification of ops-pilot-agent

TLA+ models of the parts of ops-pilot-agent whose correctness depends on order:
calls that interleave at their awaits, processes that share files, crashes and
restarts, timers that race with answers, clocks that are set back, queues and
ledgers at their limit. TLC checks the models on small instances and TLAPS
proves the central properties for every value of the constants. Paths below are
relative to the repository; line numbers are those of the files in `src/`.

## 1. The system

The program is a Node.js runtime that plans, authorises, executes and verifies
tasks, and a finance workflow on top of it. One process is single-threaded:
other code runs only while something is awaited. Several processes may share
files: the state store and the ledger file of the command line.

| Component | State it keeps | Operations | Interacts with | What is hard | What makes it correct |
|---|---|---|---|---|---|
| Idempotency store (`idempotency-store.js`) | a map of calls in flight; records in the state store | `execute`, `purgeExpired` | state store, the operation, the clock | every await; two processes; crashes; take-over of stale markers; purges | at most one execution per key and window; replays are true; every call is answered |
| State store (`persistence/state-store.js`) | a map, or one file per key | `save`, `load`, `delete`, `keys`, `clear` | file system | atomicity of a save; failures | each operation takes effect at once or not at all |
| Queue worker (`queue-worker.js`) | per drain: the entry being processed | `run`, `processNext`, `processEntry` | task queue, retry policy, ledger, hook | concurrent drains; requeues; a full or closed queue; throwing hooks | nothing lost or doubled; bounded; the ledger is truthful |
| Task queue (`task-queue.js`) | sorted entries, `closed`, `sequence` | `enqueue`, `dequeue`, `removeById`, `clear`, `close`, `reopen`, `snapshot`, `restore`, `drainQueue` | workers, restarts | capacity; ids after a restore | priority order; an id names one task; nothing vanishes |
| Retry policy, timeouts (`retry-policy.js`, `execution-timeout.js`) | attempts of one call | `executeWithRetry`, `withTimeout` | services, timers | the operation goes on after its timeout | attempts do not disturb each other; the caller is answered |
| Circuit breaker (`circuit-breaker.js`) | state, failure count, opening time | `execute`, `reset` | the clock, the operations | operations that end late | trips at the threshold; a failed probe reopens |
| Execution ledger and recovery (`execution-ledger.js`, `runtime-recovery.js`) | capped list of events, sequence | `append`, `recordStart`, `recordCompletion`, `import`, `recoverRun` | pipeline, finance, command line, state store | entries dropped at the cap; crashes between start and completion; overlapping saves | recoverable iff interrupted; ids grow |
| Planner, screening, pipeline (`llm-planner.js`, `injection-guard.js`, `runtime-pipeline.js` and its stages) | one run | `runPlannedTaskPipeline`, `runTaskPipeline` | a model, the ledger, tools, metrics | a model that hangs, or proposes anything; exceptions between stages | policy decides, not the model; what is flagged is held; planning ends |
| Finance workflow (`finance-*.js`) | the ledger is its memory; approval requests | `runFinanceWorkflow` and its callers, `runFinanceWorkflowIdempotent`, approvals | ledger, idempotency store, pipeline | dedupe over a capped ledger; approvals that arrive later; crashes | a payment is prepared once per key, and only as allowed |
| MCP server (`mcp-finance-server.js`, `mcp-finance-http.js`) | calls under way | `handle`, `handleAsync`, the HTTP handler | tools, guard, ledger | calls at once; two dispatch paths | a held call runs nothing and leaves a record |
| Command line (`cli-runner.js`) | the ledger file | `runCli` | pipeline, ledger, file | concurrent invocations; killed processes | the file stays a ledger |
| Scheduler (`runtime-scheduler.js`) | jobs | `schedule`, `cancel`, `due`, `markRunning`, `markComplete`, `removeFinished` | drivers | lists gone stale | each job starts once, when due |
| Event bus (`event-bus.js`) | handler sets, history | `on`, `once`, `off`, `emit` | handlers | handlers awaited one by one | `once` runs once |
| Rate limiter (`rate-limiter.js`) | tokens, time of the last refill | `tryAcquire`, `acquire`, `available`, `reset` | the clock | a clock that is set back | rate bound; `retryAfterMs` is enough |
| Cache (`runtime-cache.js`) | entries in order of insertion | `set`, `get`, `delete`, `evictExpired`, `clear` | the clock | eviction at capacity | no live value goes without need |
| Connectors and providers (`http-connector.js`, `finance-external-provider.js`, `finance-provider.js`, `quickbooks-finance-provider.js`, `tools/http-tool.js`) | attempts of one request | `request`, `call`, `execute` | services, timers | timers that do not cover the body | as for timeouts |
| Task dependencies (`task-dependencies.js`) | none | `detectCycles`, `topologicalOrder`, `dependencyStatus` | - | the three must agree | cycles are found; the order respects parents |
| Telemetry (`runtime-telemetry.js`, `runtime-observability.js`) | counters, stage times | `observeRun`, `buildRunSpans` | pipeline, the wall clock | reasons told by text; times that go back | a stop counts once; spans nest |
| HTTP server, task state machine, evaluations, permissions | little or none | - | all of the above | - | see Not modelled |

### Hard behaviours

`PROJECT.json` lists them with their lines under `hazards`, each with the
properties that would catch it going wrong.

## 2. Modules

Every model follows one convention: an action is the code between two awaits.
State the code reads before an await and uses after it is kept in a variable of
its own, so that everything else may happen in between. A synchronous method is
one action. Each component has its own `Init`, `Next` and `Spec` under a name of
its own (`BreakerNext`, `LimiterNext`, ...), so that modules can be put on one
bench. History variables are marked "history" where they are declared; no guard
reads them.

### IdempotencyStore

The core. `execute()` of call `c` moves `pc[c]` along its awaits:

| `pc` | where the code is | next actions |
|---|---|---|
| `idle` | before the call | `Lead`, `Join`, `RejectJoin` (lines 92-101) |
| `waiting` | `await inflight.promise` (95) | `Wake` |
| `loading` | `store.load` (110) | `Load` |
| `deciding` | the record has been loaded (111-121) | `Conflict`, `Replay`, `Refuse`, `StartRun` |
| `marking` | `store.save` of the marker (128) | `SaveMarker` |
| `operating` | `await operation()` (131) | `Operate`, `OperateUnkept` (it throws, or `shouldStore()` rejects), `PredicateThrows` (137), `OperateUnserializable` (141-148) |
| `forgetting` | `store.delete` (134, 138, 146) | `Forget` |
| `recording` | `store.save` of the result (149) | `SaveResult` |
| `settling` | the promise has settled, `finally` has not run (105) | `Release` |

`StoreFault` rejects a store operation, `Crash` clears a process' memory and
leaves the store, `Purge...` is `purgeExpired()` with its load and its delete as
separate steps, `Tick` is the clock. `effect` is a history variable: whether the
operation of a call was "performed" and what became of that: "recorded", or
"withdrawn" once its marker was deleted because no snapshot could be taken of the
result. An operation that throws, or whose result `shouldStore()` rejects, counts as
none: for these the code says that the key may be used again. Keys stand for
`namespace:scope:key`, payloads for their fingerprints, a result for the call
that produced it. A store operation is one atomic step: the memory store runs to
completion, and the file store reads a file, renames a finished one into place
or removes it.

### AtMostOnceExecution

What the store promises its callers, without stores, markers or processes: a
performance protects its key, for `TTL` once any caller has been handed its
result and for `Grace` before that; results go only to calls of the same key and
payload. `Withdraw` is its one way out: a performance of whose result no record can
be made protects nothing, and nobody is ever handed its result. `IdempotencyStore!KeepsPromise` is the refinement, with `Grace` the
lesser of `ttlMs` and `staleAfterMs`: an execution nobody has heard of (its
process crashed, or its result could not be saved) protects its key only as long
as its marker is not stale.

### QueueWorker, QueueSnapshot

`QueueWorker` is `queue-worker.js` on `task-queue.js`. The queue is a set of
entries, because `items` is sorted by a total order after every push; `First` is
`items[0]`. `Start`, `Cancel` and `RunEnds` are what `processNext()` does up to
its first await, `Retry`, `ToolSucceeds` and the `Fail...` actions are how a tool
call settles, `Report` is what follows `await this._requeue(...)`. `Finish`
records the completion and then calls the hook. `Enqueue`, `RemoveById`,
`Clear`, `Close` and `Reopen` are called by other code at any await. `spilled`
is history: the entries whose requeue found the queue full.

`QueueSnapshot` is the same queue across restarts, with `snapshot()`,
`restore()`, `drainQueue()` and queues of another `maxDepth`; here `items` is the
sequence it is in the code. `idOf[t]` is the id whoever enqueued task `t` still
holds.

### CircuitBreaker, RateLimiter, RuntimeCache, RuntimeScheduler, EventBus

One class each, with the callers it may have.

- `CircuitBreaker`: `Admit` and `Reject` are `execute()` up to its await,
  `Succeed` and `Fail` what follows. `streak` (operations failed since the last
  success or reset) and `late` (those that succeeded behind the open circuit)
  are history.
- `RateLimiter`: a tick of the clock is the time of one token, so tokens are
  whole numbers. `TimeSetBack` sets the clock back, `lastRefill` follows it.
- `RuntimeCache`: the `Map` as a sequence in order of insertion; `RoomFor` is
  the two evictions of `set()`.
- `RuntimeScheduler`: drivers hold the list `due()` returned (`polled`) and start
  its jobs one by one, later.
- `EventBus`: `Emit` copies the handlers and calls the first, `Resume` calls the
  next when the awaited one has returned.

### ExecutionLedger, RunRecovery

`ExecutionLedger` is the class as operators: `Appended` is `append()` with the
drop at the cap, `Imported` is `import()` of what `export()` wrote. `RunRecovery`
keeps one ledger and the store's snapshot of it. `runTaskPipeline()` and
`recoverRun()` are synchronous, so each is one action, a run that ends
(`RunCompletes`) and one that an exception leaves without its completion
(`RunThrows`) being two. `Save` is `persistLedger()` up to its await and `Saved`
the file's rename, so overlapping saves may land in either order; `Restart` is a
crash followed by `restoreLedger()`. A crash in the middle of a run is a crash
before it, because what the run recorded was not exported. `Recover` is a
resumption that is recorded; `RecoverFails` one that calls `resume()` and gets an
exception, or something without a status such as a promise: nothing is recorded and
the run stays interrupted. `fate`, `resumed` and `unrecorded` are history.

### FinanceWorkflow, FinanceIdempotency, ApprovalStore

`FinanceWorkflow` is the workflow on the capped ledger: `Verdict` is its outcome
(the lookup of an earlier completion, the policy, the approval), `Trail` the
entries it appends. Its four callers differ in what they put around that trail
and in whether an exception leaves a completion: `RunFinanceWorkflow`,
`RunFinanceReferenceTask` (the tool of a pipeline run), `RunFinanceTaskPipeline`
(its execution adapter), `ExecuteFinanceStage`. Only the first hands its operation
to the lookup; the bridge and the adapter record it with their completion, and the
stage has none. `preparedAt` notes each preparation with its caller.

`FinanceIdempotency` EXTENDS it with `runFinanceWorkflowIdempotent()`: several
calls under one key in a process that may crash. `execute()` is cut only where
another call can tell (`IdempotencyStore` has every await); the operation is the
workflow itself, a decision that is pending or in error is not stored, and the
ledger is lost with the process while the records are not.

`ApprovalStore` has records of any status saved, resolved, exported, imported and
handed to the next process; a record knows, as history, whether `resolve()` made it.

### TaskScreening, PlannedPipeline, StageSpans

`TaskScreening` has the guard's decision and the pipeline's gate as operators; a
text is the set of its findings. `PlannedPipeline` follows one call of
`runPlannedTaskPipeline()`: `Ask`, `ResponseComes`, `ProposalComes` and the ways
planning fails, against the timer (`PlanTimerFires`, `PlanAborted`), then
`RunPipeline`, which is synchronous: gate, authorisation, execution. `StoppedAs`
is what `observeRun()` counts. `StageSpans` reads the wall clock before and
after each stage and lays the spans out as `buildRunSpans()` does.

### RetriedRequest

The attempts of one request, for the six ways the code makes one: the HTTP
connector, the HTTP finance provider, the wrapped (QuickBooks) provider, the JSON
provider, the HTTP tool, and `withTimeout()` under a retry. They differ in what
they retry (`Retryable`), whether a timer covers the body (`TimerCovers`) and
whether it ends the attempt (`Interrupts`). An attempt a caller has given up goes
on until its service ends it.

### FinanceMcp

HTTP calls, several at once: `Receive`, `BodyUnusable`, `Dispatch` up to the
await of the tool, `ToolEnds`. `Handled` is `handle()` and `HandledAsync` the
path of `tools/call` around it.

### CliLedger

`Branch` is which part of `runCli()` a command line reaches. `ReadAndRun`,
`Truncate` and `WriteBack` are the three moments at which another invocation can
get in between; `Kill` ends a process at any of them.

### TaskDependencies

The loops of `detectCycles()` and `topologicalOrder()`, one pass an action, and
then a caller that completes what `dependencyStatus()` calls ready. The recursion
of `visit()` is its stack: `path` holds the tasks whose visits are under way,
`tried[j]` how many parents of `path[j]` have been tried; `StartFrom`, `FindCycle`,
`SkipVisited`, `Descend` and `Leave` are what one pass can come to. `Knots` is what
the answers are compared with: a set in which each task has a parent has no
beginning, so a finite graph has a cycle exactly when it has a knot, and nobody can
ever complete a task of one.

### The benches

`MCComponents` EXTENDS the modules that share no state and adds a variable
`part`, chosen in `Init`: a behaviour exercises one component and leaves the
others as they start. The states of the run are therefore the sum of the
components' states and not their product, and each property is checked on its
component alone. `MCSettles` does the same for the liveness properties, with the
fairness of each part. The violated runs about a component use the same module
with one part.

## 3. Runs

| Run | Instance | Checks | Result |
|---|---|---|---|
| `idem_one_process` | 1 crashing process, 3 calls, 2 payloads, ttl 2, stale 1, clock 4, store faults | `TypeOK`, `RetentionWindow`, `KeepsPromise` | holds |
| `idem_shared` | 2 processes, one crashing and one purging, 3 calls, 2 payloads, ttl 1, stale 1, clock 1, store faults | `OneLeader`, `FaithfulReplay`, `RefusalJustified` | holds |
| `queue_drain` | 2 workers that take 2 records a run, 3 submissions, depth 2, 2 attempts, 1 requeue, throwing hook | `Accounted`, `StartsComplete`, `RunsBounded`, `RequeueTold`, `LostOnlyWhenFull` | holds |
| `settles` | parts: executions (1 crashing, purging process, 2 calls), drain (2 workers, depth 1), planner, requests (6 clients, 3 attempts); fairness | `QueueTypeOK`, `EveryCallSettles`, `RunTerminates`, `PlanningEnds`, `CallAnswered` | holds |
| `components` | 16 parts, bounds below | `TypesOK`, 19 invariants, 4 action properties | holds |
| `idem_race` | 2 processes, 2 calls, no fault | `RetentionWindow` | violated: both load nothing, both execute |
| `idem_purge_race` | 1 process that purges, 3 calls | `RetentionWindow` | violated: the purge deletes a fresh record |
| `queue_full` | 1 worker, depth 1 | `EveryStartCompletes` | violated: a requeue throws out of the drain |
| `breaker_late_success` | part breaker | `HalfOpenFailureReopens` | violated: a late success zeroes the count |
| `recovery_reuse_hidden` | part recovery, 2 executions | `InterruptedRecoverable` | violated: an old completion hides the interruption |
| `finance_join` | part submissions | `ApprovalNeverPending` | violated: an approved call joins a pending one |
| `cli_lost` | part cli | `AppendPreserving` | violated: the later write drops the other run |

The parts of `components`, their bounds and what they show:

| Part | Bounds | Properties |
|---|---|---|
| recovery | 3 executions of 2 run ids, one reused, cap 3, one save at a time, 1 failing resumption, 1 crash; resumed and ended runs are "failed" | `LedgerSound`, `CompletedNeverResumed`, `ResumedOncePerLife`, `StoredNeverGoesBack` |
| finance | 3 calls of 4 callers, one operation plain and padded, small, large and blocked payments, cap 3 | `DedupeWindow`, `ApprovalPrecedesRun` |
| submissions | 3 calls of one key, small and large payments, each approval, 1 crash | `KeysKeepTheirOutcome` |
| cli | 3 invocations, cap 3, 1 kill | `LedgerFileKept` |
| breaker | 6 operations, 3 in flight, threshold 2, timeout 1, clock 4 | `TripsOnConsecutiveFailures`, `ReopensUnlessLateSuccess` |
| limiter | capacity 2, counts 1 to 3, clock 0 to 2 that goes 4 forward, 1 reset | `NeverOverIssues` |
| cache | 3 keys, size 2, lifetimes 1 and 2, clock 3 | `LiveEvictedLast` |
| scheduler | 2 drivers, 2 jobs, clock 1 | `StartedOnceWhenDue` |
| bus | a listener, 2 once-listeners, 2 emitters, 3 emits | `OnceMeansOnce` |
| planner | every combination of keys, guards, findings of 2 severities, reviewer, tool; 22 proposals | `ModelDecidesNothing`, `FlaggedIsHeld`, `StopsCountedOnce` |
| requests | 6 clients, 3 attempts | `AttemptsApart` |
| mcp | 2 calls, one of any kind and one that calls a tool | `HeldCallsRunNothing` |
| snapshots | 3 tasks, 2 priorities, depths 1 and 2, 2 restarts or restores | `QueueRestored` |
| dependencies | every map of 3 tasks with every order of the parents | `DependenciesSound` |
| approvals | 2 requests, 2 reviewers, saved as pending or as approved without a reviewer, 5 changes | `DecidedOnce` |
| spans | clock 0 to 2, forward and back | `SpansNest` |

**Why the bounds are enough.** Three calls of one key are an execution, a repeat
and a third that meets what the two left behind; keys are independent in the code
(each has its own record and map entry), so one key is modelled. With ttl 2 and
stale limit 1 a clock of 4 lets a marker go stale before, at and after the expiry
of the record it competes with, and two windows pass. In `idem_shared` both
are 1, so an unexpired marker is never stale there: take-overs are the matter of
`idem_one_process` and, for refusals, of the proof. Two processes suffice for a
race over one record. Liveness needs a leader, a waiter and a purge, so `settles`
has two calls. In `queue_drain` three submissions and one requeue each give six
entries; with two in the queue and one in hand the third submission makes a
requeue find it full, which loses the entry: `Accounted` and `StartsComplete`
say that nothing else does, and `queue_full` refutes the promise without that
exception. The priority of entries does not enter those properties, so there is
one priority; `QueueSnapshot` has two. A threshold of 2 with three operations in flight is
the least that separates the opening, a late success and a failed probe. A
ledger cap of 3 with two or more entries to a run makes the second run already
drop entries of the first, one at a time, so a deduplication window closes within
three calls; three invocations of the command line let one read what the overlap
of two others left. Three keys in a cache of two, three emits for two once
handlers, two drivers with one list each are the least with a third party. A map
of three tasks has self-loops, cycles of two and three, and tasks outside a
cycle. The status of a completion decides only how a run is called, never whether it
is interrupted; "failed" is the one that could be mistaken for it. One resumption
that fails is enough to have a second that succeeds, fails again after a crash, or
meets a cap that has moved on. A record saved as approved without a reviewer is the
one that a decision of `resolve()` must not be confused with. Deadlock is not checked: calls, submissions and the clock are bounded, so
every model comes to rest.

**Fairness.** It is stated only in `settles`. Weak fairness of
`Continue(c)` (`IdempotencyStore`) and of `Work(w)` (`QueueWorker`): a promise that has
settled has its continuation run by the event loop, and store operations and
tools settle; nothing is assumed of callers, crashes, faults or the clock, and
submissions are bounded, as termination presupposes. Weak fairness of
`PlannerMoves` and of `RequestMoves`: timers fire and the client goes on.
Nothing is assumed of the model or of a service, which may never answer; that is
why `PlanningEnds` asks for a `fetch()` that honours its signal and
`CallAnswered` is stated for the clients whose timer covers the whole attempt.
The JSON provider, the HTTP tool (no timer) and a wrapped operation that ignores
its signal promise no answer.

**What the violated runs show.**

- `idem_race`: `attempt()` is load-then-save with no compare-and-swap, so the
  at-most-once promise of lines 5-6 is one of a single process.
- `idem_purge_race`: `purgeExpired()` deletes by key on the strength of an old
  load (lines 165-167).
- `queue_full`: a requeue onto a full queue loses the entry and its completion
  (`queue-worker.js` line 96).
- `breaker_late_success`: `recordSuccess()` zeroes the count also while the
  circuit is open (`circuit-breaker.js` line 30).
- `recovery_reuse_hidden`: any completion of a run id counts as that of its last
  start (`runtime-recovery.js` line 29).
- `finance_join`: the fingerprint leaves the approval out, so a call that brings
  it is answered with the pending outcome of the call it joined
  (`finance-idempotency.js` line 43).
- `cli_lost`: the ledger file is read, appended to in memory and written back
  whole, with no lock (`cli-runner.js` line 319).

What is left of the statements is proved, under the condition that each of these
runs shows to be needed: `OneProcessRetains` and `PromiseIsKept` (one process, no
purge, and no result that cannot be serialized), `DeepQueueLosesNothing`, `SequentialReopens`, `RecoverableRuns` (a run id
used once), `KeysAreKept` (a call that joined none) and `FileKept` (what no overlap
has overwritten).

**Observations** that the models state in comments or conditions and no violated
run is spent on:

- An operation that was performed and whose result `shouldStore()` accepted, but of
  which `serialize()` or `JSON.stringify()` can take no snapshot, is forgotten: the
  marker is deleted (`idempotency-store.js` line 146), the caller gets
  `PERSISTENCE_FAILED`, and a retry with the key performs the operation again at
  once. That is at odds with "executed at most once per key (and scope) within the
  retention window" (lines 5-6) and, when the operation prepares a payment, with "A
  retried request must never prepare a payment twice" (`src/README.md` line 272).
  `RetentionWindow` and `KeepsPromise` except exactly these executions (`Stands`,
  `Withdraw`), and `PreparedOncePerKey` in `KeysKeepTheirOutcome` the calls that were
  told so: the preparation tool is the caller's, and what it returns need not be JSON.
- `resume()` may have performed the task when it throws or returns something without
  a status, a promise among them: nothing is recorded (`runtime-recovery.js` lines
  63-66), the run is still interrupted, and the next `recoverRun()` performs it again,
  in the same process too. The test asserts that no completion is written
  (`tests/runtime-recovery.test.js` lines 84-92). `ResumedOncePerLife` therefore
  counts from the first resumption that is recorded.
- One operation can be prepared any number of times through
  `runFinanceReferenceTask()` and `runFinanceTaskPipeline()`: they record the
  `operationId` but do not hand it to `runFinanceWorkflow()`
  (`finance-runtime-bridge.js` line 11), so nothing is looked up, and
  `executeFinanceStage()` takes none. `DedupeWindow` speaks of a later preparation by
  `runFinanceWorkflow()`, after an earlier one by any of them.
- `FinanceApprovalStore` takes records of any status from `save()`, `import()` and its
  constructor: one may be "approved" with no reviewer and no decision
  (`tests/finance-approval-store.test.js` lines 23-25 save one), and one that was
  decided may become pending again. What `DecidedOnce` says of reviewers, it says of
  records that `resolve()` made.
- `dependencyStatus()` turns the parents of a task into strings but not the entries
  of `completed`; names are one kind of value in the model, so this is left out.
- `StoredNeverGoesBack` needs callers that await one save before the next
  (`MaxSaves = 1`), and the run has that bound, so overlapping saves are met by the
  proofs alone: the other theorems about recovery hold for any overlap. An
  execution that was resumed is resumed again after a crash when its completion
  had not been saved, so `ResumedOncePerLife` speaks of one life of a process.
- The workflow looks its operation up untrimmed and the pipeline records it
  trimmed, so `DedupeWindow` excludes padded ids. A completion that the tool
  bridge records for an operation makes a later call "already_prepared" even
  when the inner verdict was not a preparation. An exception of the execution
  adapter leaves a run without a completion. `recoverFinanceApproval()` may
  record two decisions on one frozen request.
- A timeout while the planner reads the body is recorded as `invalid_json`,
  where `src/README.md` line 185 has `timeout`.
- `handleAsync()` does not make `handle()`'s check of `jsonrpc` for `tools/call`.
- `detectCycles()` writes the task that closes a cycle twice. `drainQueue()` has
  taken the entry off the queue when its handler throws.
- The limiter gives a finite `retryAfterMs` for a count above the capacity,
  which is never granted. The command line exits with 0 when the tool failed.
- `FinanceApprovalStore.resolve()` does not ask whether the reviewer is the
  requester, as `resolveApproval()` does.

## 4. Proofs

All theorems hold for every value of the constants (numbers of processes,
workers, calls, keys, tasks, handlers; caps, limits, lifetimes, clocks; sets of
proposals, findings and payments), under the named assumptions of the modules.
Most of these are the constructors' checks and the shape of the inputs. The rest
say that a placeholder is none of the values it stands beside
(`NoneAssumption`, `NoEntryAssumption`, `Nobody`) or that a bound of the model is
a number; a conclusion that depends on more than that says so in the theorem
(`OneProcess`, `MaxInFlight = 1`, `MaxSaves <= 1`, `Runs \ ReusedRuns`). Every
property of the passing runs is proved except those named at the end of this
section. Hardly any of them is inductive; the invariants that carry them are
these.

### IdempotencyStoreProofs

`Inv` strengthens `OneLeader` and `FaithfulReplay`: a call past the in-flight
check is the one registered for its key and vice versa (`LeaderRegistered`,
`RegisteredLeads`), `CallShape` says which calls may have taken effect or wait,
every completed record (stored, or loaded and not yet judged) was written by a
recorded execution of its key and payload (`RecordsTruthful`), waiters await a
call of their own key and payload (`WaitersMatched`), and each kind of answer
rests on what it claims (`AnswersTrue`). `InvStep` goes through `Next` action by
action. From it follow `TypeCorrect`, `LeaderIsUnique` and `ReplayIsFaithful`,
with any number of processes, crashes, faults and purges.

`RefusalsAreJustified` traces markers to their calls (`MarkersTraced`): one in
the store belongs to a call that has yet to replace it or never will; one that
was loaded belongs to another call, which in the same process must have crashed
or failed to remove it, because a call that still runs is in the map and would
have been joined.

`OneProcessRetains` proves `RetentionWindow` for one process that runs no purge,
the two conditions that the violated runs show to be needed. `OneProcessInv`
says that what a deciding call has loaded is still in the store and the marker of
a running call is its own (`StoreOwned`), that every execution is protected by
its record or its protection is over, unless it is withdrawn (`Guarded`), and that a
running call was admitted after the protection of every earlier execution that
stands (`AdmittedLate`).

`PromiseIsKept` is the refinement of `AtMostOnceExecution` under the same
conditions: `PromiseInit` maps the initial states, and each action of the store
is a step of the promise or leaves its variables as they are. `Operate` is a
performance, and `AdmittedLate` is what lets it happen again; the steps at which
a call ends hand over its result or decline it, and only recorded executions are
handed over (`HandedOverRecorded`, with `EffectsInStep`). Deleting the marker of a
performed operation is a `Withdraw`.

### QueueWorkerProofs

`QueueInv`: the ids are those given out so far and no two entries share one
(`IdsGrow`); entries of one origin differ in how often they were put back, and
each goes back to a submission (`Lineage`); a worker holds an entry exactly while
it is busy with it (`HandsFull`); whatever rests anywhere has been issued
(`RestingIssued`) and is in one place (`OnePlace`, which is `Accounted` with its
four places spelled out); what is known of requeues is known by the ledger or by
the worker about to write it (`SuccessorsTold`, `ReportsTrue`). Each action moves
one id from one place to another, which is a lemma about `Placed` alone. Hence
`QueueTypesHold`, `EntriesAccounted`, `StartsAreCompleted` and `RequeuesTold`.
For `RunsAreBounded` the entries of an origin are mapped to their requeue counts,
one to one by `Lineage`, so there are at most `MaxRequeues + 1`.
For `HeldUntilCompleted` a worker that lets go of an entry either records its
completion, or goes through `MayRequeue`, which has looked at the queue's being
open after the tool, and finds the queue full. `DeepQueueLosesNothing` shows that the
exception `spilled` is exact: of the entries of a task all but one have been put
back (`OneLive`), so the queue and what a worker runs are entries of different
tasks, and a queue with room for as many as were submitted has room for a requeue
(`RoomToRequeue`).

### LedgerProofs

First the lemmas on `append()` that everything with a ledger needs, also
`FinanceProofs`: what the cap retains is a tail (`RetainedIsTail`), an appended
ledger is such a tail with the entry behind it (`AppendedIsTail`), and how long it
is (`AppendedLength`).

Recovery: `CompletedNeverResumed` is not inductive: the snapshots have to be as good as
the ledger. `Inv` says of the ledger, of every export on its way and of the
stored snapshot that its ids grow and that the start of each execution that was
not interrupted is followed by a completion of its run (`Kept`). Dropping the
oldest entries keeps that, because a completion comes after its start
(`RetainedKept`); during a run one execution is excused (`AppendedKept`,
`NoneExcused`). Hence `IdsGrow` and `CompletedStaysDone`. `LifeInv` adds that the
start of what was resumed in this life of the process is answered in its ledger;
a restart replaces the ledger but begins a life in which nothing was resumed, and a
resumption that fails records nothing. Hence `ResumedOnce`. `RecoverableRuns` proves what is left of
`InterruptedRecoverable`, which `recovery_reuse_hidden` refutes: for a run whose
id is used once (`UsedOnce`), a completion behind its start is its own.
`StoredForward` needs `MaxSaves <= 1`: then the save under way is not behind the
store nor ahead of the ledger (`SavedForward`).

Command line: `CliInv` says that the file and the ledger in the hands of every
invocation are `WholeLedger`s, that two invocations between their read and
their write know of each other's overlap, and that the run of an invocation
nobody met is in the file and in every ledger that will be written over it
(`KeptByAll`). Hence `FileKept`.

### FinanceProofs

`FinanceInv`: the entries are the last ones appended and their ids follow one
another up to the sequence (`Consecutive`), so an id says where an entry is or
that the cap has dropped it; and the completion of each preparation is there
unless it was dropped (`PreparationsKept`). A later call that looks then finds it,
which is `PreparedAgainAfterCap`. `ApprovedBeforeRun` looks at each trail once, and
at the seam between two trails.

`SubmissionInv` for the calls with a key: the call in flight is the one that
leads (`FlyingLeads`), it has the record of its key from its marker to its
settling (`MarkerHeld`), completed records say what was done (`RecordFaithful`),
a call that prepared is about to be recorded, recorded for good, or lost with the
process (`PerformedRecorded`), a call answers with its own run (`AnswerOwn`), and
one that joins, joins a call of its key and payment that joined none
(`JoinsLeader`). Hence `KeysAreKept`.

The wrapper writes to the same ledger as the calls without a key, and adds the
audit event of a replay, which is none of a trail; a crash empties it.
`LedgerKeptUnderKeys` shows that each of these keeps `FinanceInv` too
(`ReplayKeeps`, `SubmissionKeepsLedger`): `DedupeWindow` and `ApprovalPrecedesRun`
hold of the ledger whichever way it is written to.

### RecordProofs

- Approvals: `ApprovalAccounted` balances the decisions of `resolve()` against those
  that were undone and the one the record shows, and carries through exports that a
  record made by `resolve()` is decided and names its reviewer; such a record is not
  pending, so it is not resolved again. Records that others put in its place keep the
  balance whatever they are (`ReplacementsAccounted`). Hence `DecisionsStand`.
- Snapshots: `SnapshotInv` says of the queue and of the saved snapshot that they
  are in the order served, that the ids in them are those given for their tasks,
  and that the ids of the tasks a restore has not made stale are theirs alone and
  behind the sequence. Insertion by priority (`Place`) is proved to keep the order.
  Hence `RestoredQueue`.
- Dependencies: `SearchInv`, `SortInv` and `CompletedInv`. The path goes from task
  to parent (`PathWalks`), so a task found on it closes a walk (`CyclesClosed`). As
  long as no cycle was found, the parents a visit has tried are all done with
  (`TriedVisited`), so no task of a knot is ever left (`KnotsUntouched`): the first
  to leave would have a parent in the knot that left before it. When the search is
  over every key is left (`KeysSearched`), so there is no knot; and a closed walk is
  one (`WalkIsKnot`), so a cycle that was reported is real. The sort counts what
  each task waits for (`SortInv`); when nothing is ready, the rest would be a knot.
  Hence `DependenciesAreSound`. `LoopsEnd` needs that the tasks on the path are
  different ones and none of them is done with (`PathApart`).

### RuntimeProofs

- Circuit breaker: `FailuresCounted` ties the counter to the failed operations,
  `failures = Cardinality(streak)`, and closed means below the threshold; an open
  circuit has counted at least the threshold unless a success was counted behind
  it. Hence `TripsExactly` and `Reopens`. With `MaxInFlight = 1` an operation in
  flight behind an open circuit means that its timeout is over
  (`SequentialInv`), so the exception never arises (`SequentialReopens`).
- Rate limiter: time that has passed and is not yet in the bucket has to be
  counted. `Budget` is
  `granted + tokens + Accrued <= Capacity * (resets + 1) + forward`, where what
  has accrued is the clock's lead over `lastRefill`, nothing while the clock is
  behind it. A refill turns the lead into tokens (`RefilledBounds`). For
  `RetryAfterHolds`, `PromiseKept` says that the tokens and the time still missing
  until the promised moment make up the promised count.
- Scheduler: what a driver holds was due when it polled, and a job that still
  waits has not been started (`SchedulerInv`). Hence `StartsOnce`.
- Event bus: a once handler that was never subscribed is nowhere, one that was
  called is subscribed no more, and whatever a copy holds behind its first is
  noted (`BusInv`). Hence `OnceIsOnce`.
- Spans: until the clock is set back the times read do not decrease (`SpanInv`);
  laid out from durations, each span begins where the one before ends
  (`DurationsAdded`, `NestedWhenChained`). Hence `SpansAreNested`.
- Cache: its type (no key twice, never more than `maxEntries`) needs that a
  sequence at some of its places is shorter and keeps its order
  (`AtPlacesElements`); with it each operation is shown to take away only what
  `LiveEvictedLast` allows (`CacheMoves`, `RoomMade`). Hence `EvictedLast`.

### RequestProofs

- Planner: `PlannerInv` says that any plan that leaves the planner has an execute
  step that awaits its tool and passes `validatePlan()` (`Executable`): the
  deterministic plan does, and so does whatever `validateProposedPlan()` accepts.
  Nothing has been sent that the input screen rejects, and the run is as the gate
  and the tool allow (`RanAsAllowed`). Hence `PolicyDecides`, whatever `Proposals`
  are, `FlaggedStaysHeld` and `StopsCounted`.
- MCP: `McpInv` adds to the type that each tool run was for a call that may run
  one (`MayRun`) and that `screenings` is the number of calls answered "held"; a
  dispatch of one call raises both sides by one or leaves both. Hence
  `HeldRunNothing`.
- Requests: `AttemptOK` relates outcome, cause and timer of every attempt, given
  up or not, and `AnswerStands` the caller's answer to the last one. Hence
  `GivenUpIsGivenUp`.

### ComponentsProofs

The run `components` checks a bench, the theorems speak of its components.
`BenchRunsComponents` closes the gap: `Spec` of `MCComponents` implements the
specification of every component, because each action of `Next` is a step of the
component it names and leaves the variables of the others alone. The exception is
the finance ledger, to which two parts write; `FinanceKeptOnBench` proves its
invariant for both (`BenchFinance`), with the calls of a key left alone by those
without one (`CallsUntouched`). `TypesCorrect` is then `TypesOK` of the bench for
all values of all constants.

### What the liveness properties rest on

That something happens eventually, given fairness, is beyond this prover; what such
an argument rests on is not. Each of the four properties has a theorem that every
step brings the end nearer and none takes it back, and where that is not plain from
the guards, one that there is always a step that fairness speaks of.

| Property | Every step gets on | Never stuck |
|---|---|---|
| `EveryCallSettles` | `CallsGoOn`: a step of a call lowers `StepsLeft`, and nothing raises it | `CallsAreNeverStuck`: a waiter's leader is in its process, at work or done (`WaitersServed`), and waits for nobody; for every record there is a decision |
| `RunTerminates` | `RunsGoOn`: a step of a run ends it, starts or completes an entry for the first time, or uses up an attempt | each point of a run has its action |
| `PlanningEnds` | `PlanningGoesOn`: a step lowers `PlanningLeft` | `PlanningNeverStuck`: the timer is there while a response or its body is waited for |
| `CallAnswered` | `CallsGetOn`: a step answers, begins one of `TriesOf(client)` attempts, or lowers `AttemptLeft` of one | `CallsNeverHang`: an attempt nobody was told of has its timer (`Timed`), and after one that was told of comes another or the answer |

The guards named there (`MayContinue`, `PlannerMayMove`, `RequestMayMove`) stand for
ENABLED of the fair actions. `LoopsEnd` says the same of the three functions on
dependencies: no task is visited or sorted twice and no parent tried again.

### What the proofs asked of the models

`Verdict` (`FinanceWorkflow`) had a `CASE` whose conditions overlap, which leaves
its value open; it is now the order in which the code decides. `Place`
(`QueueSnapshot`) and `AtPlaces` (`RuntimeCache`) name the insertion into a sorted
sequence and the filtering of one, without recursion.
`RecoverableIfInterrupted(r)` is what `InterruptedRecoverable` says of one run.
The clients of `RetriedRequest` are assumed to be some of the six there are.
`TaskDependencies` had its algorithms as recursive operators, about which nothing
can be proved here; as the loops they are, with the stack as a variable, they have
invariants. Its reference was reachability, whose use in a proof needs induction;
knots need none and say as much of a finite graph.

### Only model-checked

The liveness properties `EveryCallSettles`, `RunTerminates`, `PlanningEnds` and
`CallAnswered`: liveness under fairness is out of the prover's reach, and so is
ENABLED. TLC checks them in `settles`; what they rest on is proved (above), so that
what is left to the instance is the step from "there is always a next step and
there are finitely many" to "it comes to its end".

## 5. Plan

What would come next: a composition of `FinanceMcp` with `FinanceIdempotency`; two
processes under `FinanceIdempotency`.
No module to be proved about uses `RECURSIVE`; constants carry named assumptions;
invariants are conjunctions of named parts.

## 6. Not modelled

- The HTTP server of the runtime: routes in front of `runTaskPipeline()` and
  `execute()`, which are modelled.
- The task state machine: a constant table, driven along a fixed path by its one
  user.
- Evaluations and dashboards: pure functions of recorded runs.
- The second pipeline (`runtime-pipeline-v2.js`): the steps of the first without
  ledger and gate.
- Wording, formatting, hashing, key validation, logging; the patterns of the
  injection guard and the request formats of the model providers (a task is the
  set of its findings, a proposal a sequence of steps); redaction and rendering
  of metrics; the filesystem and transform tools; the permission map; adapters
  and lookups in policy documents.
- `IdempotencyStore.lookup()` and the getters of all classes change nothing.
- A save of the file store that fails after its rename, `clear()` of the stores,
  clocks that differ between processes, job ids from ten on (the scheduler
  compares them as text), and the synchronous executor that is given an
  asynchronous tool (it records the promise as a success).
