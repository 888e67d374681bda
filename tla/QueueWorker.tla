----------------------------- MODULE QueueWorker -----------------------------
(***************************************************************************)
(* src/src/queue-worker.js and src/src/task-queue.js: workers whose run()  *)
(* drains one in-memory priority queue, retries a tool in place, puts a    *)
(* failed entry back on the queue a bounded number of times and reports    *)
(* every start and completion to a ledger, while other code enqueues,      *)
(* removes and clears entries and closes and reopens the queue.            *)
(*                                                                         *)
(* One process runs all of it: an action is the code between two awaits.   *)
(* The queue is the set of its entries, because `items` is sorted after    *)
(* every push by priority and then by id, and ids are unique; First is     *)
(* items[0].  The ledger is what it records: which entries were started,   *)
(* and how each one ended.                                                 *)
(***************************************************************************)
EXTENDS Naturals, FiniteSets

CONSTANTS
    Workers,          \* concurrent run() calls on one queue
    Tasks,            \* tasks that are enqueued
    Malformed,        \* those with no usable input
    Priorities,       \* priorities that are used
    NoEntry,             \* no entry
    MaxDepth,         \* maxDepth of the queue
    MaxAttempts,      \* retry.maxAttempts
    RequeueOnFailure, \* requeueOnFailure
    MaxRequeues,      \* maxRequeues
    RunLimits,        \* values of run()'s max that are used
    HookMayThrow,     \* whether the onProcessed hook may throw
    MaxSubmits        \* bound on calls of enqueue() from outside

ASSUME QueueAssumption ==
    /\ MaxDepth \in Nat \ {0} /\ MaxAttempts \in Nat \ {0} /\ MaxRequeues \in Nat
    /\ RunLimits \subseteq Nat /\ Priorities \subseteq Nat /\ Malformed \subseteq Tasks
    /\ RequeueOnFailure \in BOOLEAN /\ HookMayThrow \in BOOLEAN /\ MaxSubmits \in Nat

VARIABLES
    queue,       \* the entries of items
    closed,      \* the closed flag
    issued,      \* history: every entry ever pushed; its size is the sequence
    handedBack,  \* ids returned by removeById() and clear()
    workerAt,          \* workerAt[w]: where run() of w is
    held,        \* held[w]: the entry w is processing
    attempts,    \* attempts[w]: attempts made on it
    requeued,    \* requeued[w]: what _requeue() returned for it
    left,        \* left[w]: how many more records run() of w may collect
    started,     \* ids in recordStart() events
    ended,       \* recordCompletion() events
    spilled      \* history: ids of entries whose requeue found the queue full

queueVars == <<queue, closed, issued, handedBack>>
workerVars == <<workerAt, held, attempts, requeued, left>>
drainVars == <<queueVars, workerVars, started, ended, spilled>>
-----------------------------------------------------------------------------
(* Entries. "origin" is the id under which the task was first submitted. *)

Ids == 1..(MaxSubmits * (MaxRequeues + 1))

Entry == [id : Ids, task : Tasks, priority : Priorities, requeues : 0..MaxRequeues,
          origin : Ids]

\* No entry is none of the entries.
ASSUME NoEntryAssumption == NoEntry \notin Entry

Completion == [id : Ids, status : {"success", "failed", "skipped"}, requeued : BOOLEAN]

NextId == Cardinality(issued) + 1

\* items.sort((a, b) => b.priority - a.priority || a.id - b.id)
Before(e, f) == e.priority > f.priority \/ (e.priority = f.priority /\ e.id < f.id)

First == CHOOSE e \in queue : \A f \in queue \ {e} : Before(e, f)

Push(e) ==
    /\ queue' = queue \cup {e}
    /\ issued' = issued \cup {e}

\* Mutant of CanEnqueue: the capacity is not checked.
CanEnqueueOverfull == ~closed

\* Otherwise enqueue() throws.
CanEnqueue == ~closed /\ Cardinality(queue) < MaxDepth

Submits == Cardinality({e \in issued : e.requeues = 0})
-----------------------------------------------------------------------------
DrainInit ==
    /\ queue = {} /\ closed = FALSE /\ issued = {} /\ handedBack = {}
    /\ workerAt = [w \in Workers |-> "idle"]
    /\ held = [w \in Workers |-> NoEntry]
    /\ attempts = [w \in Workers |-> 0]
    /\ requeued = [w \in Workers |-> FALSE]
    /\ left = [w \in Workers |-> 0]
    /\ started = {} /\ ended = {} /\ spilled = {}
-----------------------------------------------------------------------------
(* TaskQueue, as the code around the workers uses it. *)

\* enqueue(): refused, with an exception to its caller, when closed or full.
Enqueue(task, priority) ==
    /\ Submits < MaxSubmits
    /\ CanEnqueue
    /\ Push([id |-> NextId, task |-> task, priority |-> priority, requeues |-> 0,
             origin |-> NextId])
    /\ UNCHANGED <<closed, handedBack, workerVars, started, ended, spilled>>

RemoveById(e) ==
    /\ e \in queue
    /\ queue' = queue \ {e}
    /\ handedBack' = handedBack \cup {e.id}
    /\ UNCHANGED <<closed, issued, workerVars, started, ended, spilled>>

Clear ==
    /\ queue # {}
    /\ queue' = {}
    /\ handedBack' = handedBack \cup {e.id : e \in queue}
    /\ UNCHANGED <<closed, issued, workerVars, started, ended, spilled>>

Close ==
    /\ ~closed /\ closed' = TRUE
    /\ UNCHANGED <<queue, issued, handedBack, workerVars, started, ended, spilled>>

Reopen ==
    /\ closed /\ closed' = FALSE
    /\ UNCHANGED <<queue, issued, handedBack, workerVars, started, ended, spilled>>
-----------------------------------------------------------------------------
(* run() and processNext(). *)

Run(w, max) ==
    /\ workerAt[w] \in {"idle", "rejected"}
    /\ workerAt' = [workerAt EXCEPT ![w] = "looping"]
    /\ left' = [left EXCEPT ![w] = max]
    /\ UNCHANGED <<queueVars, held, attempts, requeued, started, ended, spilled>>

\* Mutant of RunEnds: an empty queue does not end the run.
RunEndsAtMaxOnly(w) ==
    /\ workerAt[w] = "looping"
    /\ left[w] = 0
    /\ workerAt' = [workerAt EXCEPT ![w] = "idle"]
    /\ UNCHANGED <<queueVars, held, attempts, requeued, left, started, ended, spilled>>

\* records.length reached max, or dequeue() found the queue empty.
RunEnds(w) ==
    /\ workerAt[w] = "looping"
    /\ left[w] = 0 \/ queue = {}
    /\ workerAt' = [workerAt EXCEPT ![w] = "idle"]
    /\ left' = [left EXCEPT ![w] = 0]
    /\ UNCHANGED <<queueVars, held, attempts, requeued, started, ended, spilled>>

\* w is about to take the first entry off the queue.
Takes(w) == workerAt[w] = "looping" /\ left[w] > 0 /\ queue # {}

\* Mutant of Finish: the hook is called before the completion is recorded.
FinishHookFirst(w, id, status, flag) ==
    /\ held' = [held EXCEPT ![w] = NoEntry]
    /\ attempts' = [attempts EXCEPT ![w] = 0]
    /\ requeued' = [requeued EXCEPT ![w] = FALSE]
    /\ \/ /\ ended' = ended \cup {[id |-> id, status |-> status, requeued |-> flag]}
          /\ workerAt' = [workerAt EXCEPT ![w] = "looping"]
          /\ left' = [left EXCEPT ![w] = @ - 1]
       \/ /\ HookMayThrow
          /\ ended' = ended
          /\ workerAt' = [workerAt EXCEPT ![w] = "rejected"]
          /\ left' = [left EXCEPT ![w] = 0]

\* _finish(): report the completion, then call the hook; if it throws, the
\* exception leaves processEntry() and run().
Finish(w, id, status, flag) ==
    /\ ended' = ended \cup {[id |-> id, status |-> status, requeued |-> flag]}
    /\ held' = [held EXCEPT ![w] = NoEntry]
    /\ attempts' = [attempts EXCEPT ![w] = 0]
    /\ requeued' = [requeued EXCEPT ![w] = FALSE]
    /\ \/ /\ workerAt' = [workerAt EXCEPT ![w] = "looping"]
          /\ left' = [left EXCEPT ![w] = @ - 1]
       \/ /\ HookMayThrow
          /\ workerAt' = [workerAt EXCEPT ![w] = "rejected"]
          /\ left' = [left EXCEPT ![w] = 0]

\* An entry that never runs: its input is missing, or its tool cannot be
\* resolved or breaks the tool contract (failed), or there is none (skipped).
Cancel(w, status) ==
    /\ Takes(w)
    /\ First.task \in Malformed => status = "failed"
    /\ queue' = queue \ {First}
    /\ Finish(w, First.id, status, FALSE)
    /\ UNCHANGED <<closed, issued, handedBack, started, spilled>>

\* Mutant of Start: the entry is looked at and not taken off the queue.
StartPeeks(w) ==
    /\ Takes(w)
    /\ First.task \notin Malformed
    /\ held' = [held EXCEPT ![w] = First]
    /\ attempts' = [attempts EXCEPT ![w] = 1]
    /\ workerAt' = [workerAt EXCEPT ![w] = "running"]
    /\ started' = started \cup {First.id}
    /\ UNCHANGED <<queueVars, requeued, left, ended, spilled>>

\* The entry has an input and a tool: running, and its first attempt is made.
Start(w) ==
    /\ Takes(w)
    /\ First.task \notin Malformed
    /\ queue' = queue \ {First}
    /\ held' = [held EXCEPT ![w] = First]
    /\ attempts' = [attempts EXCEPT ![w] = 1]
    /\ workerAt' = [workerAt EXCEPT ![w] = "running"]
    /\ started' = started \cup {First.id}
    /\ UNCHANGED <<closed, issued, handedBack, requeued, left, ended, spilled>>

\* executeWithRetry(): a retryable error before the last attempt.
Retry(w) ==
    /\ workerAt[w] = "running" /\ attempts[w] < MaxAttempts
    /\ attempts' = [attempts EXCEPT ![w] = @ + 1]
    /\ UNCHANGED <<queueVars, workerAt, held, requeued, left, started, ended, spilled>>

ToolSucceeds(w) ==
    /\ workerAt[w] = "running"
    /\ Finish(w, held[w].id, "success", FALSE)
    /\ UNCHANGED <<queueVars, started, spilled>>
-----------------------------------------------------------------------------
(* The tool fails for good, and _requeue(entry, priority) decides. *)

\* Mutant of MayRequeue: one requeue too many.
MayRequeueOnceMore(e) == RequeueOnFailure /\ ~closed /\ e.requeues <= MaxRequeues

\* Mutant of MayRequeue: the worker does not look whether the queue was closed.
MayRequeueClosed(e) == RequeueOnFailure /\ e.requeues < MaxRequeues

MayRequeue(e) == RequeueOnFailure /\ e.requeues < MaxRequeues /\ ~closed

ToReport(w, flag) ==
    /\ workerAt' = [workerAt EXCEPT ![w] = "reporting"]
    /\ requeued' = [requeued EXCEPT ![w] = flag]
    /\ UNCHANGED <<closed, handedBack, held, attempts, left, started, ended, spilled>>

FailFinally(w) ==
    /\ workerAt[w] = "running" /\ ~MayRequeue(held[w])
    /\ ToReport(w, FALSE)
    /\ UNCHANGED <<queue, issued>>

\* The entry that stands for e once e is put back: a new id, one more requeue.
Again(e) == [e EXCEPT !.id = NextId, !.requeues = @ + 1]

FailRequeued(w) ==
    /\ workerAt[w] = "running" /\ MayRequeue(held[w]) /\ CanEnqueue
    /\ Push(Again(held[w]))
    /\ ToReport(w, TRUE)

\* enqueue() throws "queue capacity exceeded"; nothing in processEntry() or
\* run() catches it, so the run rejects before the completion is recorded.
FailRequeueThrows(w) ==
    /\ workerAt[w] = "running" /\ MayRequeue(held[w]) /\ ~CanEnqueue
    /\ workerAt' = [workerAt EXCEPT ![w] = "rejected"]
    /\ held' = [held EXCEPT ![w] = NoEntry]
    /\ attempts' = [attempts EXCEPT ![w] = 0]
    /\ left' = [left EXCEPT ![w] = 0]
    /\ spilled' = spilled \cup {held[w].id}
    /\ UNCHANGED <<queueVars, requeued, started, ended>>

\* Mutant of Report: the option is reported, not what _requeue() returned.
ReportOption(w) ==
    /\ workerAt[w] = "reporting"
    /\ Finish(w, held[w].id, "failed", RequeueOnFailure)
    /\ UNCHANGED <<queueVars, started, spilled>>

\* After `await this._requeue(...)`.
Report(w) ==
    /\ workerAt[w] = "reporting"
    /\ Finish(w, held[w].id, "failed", requeued[w])
    /\ UNCHANGED <<queueVars, started, spilled>>
-----------------------------------------------------------------------------
Work(w) ==
    \/ RunEnds(w) \/ Start(w) \/ Retry(w) \/ ToolSucceeds(w)
    \/ \E status \in {"failed", "skipped"} : Cancel(w, status)
    \/ FailFinally(w) \/ FailRequeued(w) \/ FailRequeueThrows(w) \/ Report(w)

DrainNext ==
    \/ \E task \in Tasks, priority \in Priorities : Enqueue(task, priority)
    \/ \E e \in queue : RemoveById(e)
    \/ Clear \/ Close \/ Reopen
    \/ \E w \in Workers : Work(w) \/ \E max \in RunLimits : Run(w, max)

DrainSpec == DrainInit /\ [][DrainNext]_drainVars

\* A tool call settles and the event loop runs its continuation.
DrainFairSpec == DrainSpec /\ \A w \in Workers : WF_drainVars(Work(w))
-----------------------------------------------------------------------------
(* Properties. *)

\* Every variable holds values the code can give it.
QueueTypeOK ==
    /\ issued \subseteq Entry /\ queue \subseteq issued /\ handedBack \subseteq Ids
    /\ closed \in BOOLEAN
    /\ Cardinality(queue) <= MaxDepth
    /\ workerAt \in [Workers -> {"idle", "looping", "running", "reporting", "rejected"}]
    /\ held \in [Workers -> Entry \cup {NoEntry}]
    /\ attempts \in [Workers -> 0..MaxAttempts]
    /\ requeued \in [Workers -> BOOLEAN]
    /\ left \in [Workers -> Nat]
    /\ started \subseteq Ids /\ ended \subseteq Completion /\ spilled \subseteq Ids

HeldBy(w) == IF held[w] = NoEntry THEN {} ELSE {held[w].id}
Queued == {e.id : e \in queue}
Completed == {r.id : r \in ended}

\* Where the queue and the ledger have an entry that no worker holds.
Resting == <<Queued, Completed, handedBack, spilled>>

\* No entry is lost and none is handled twice: each one ever enqueued is in
\* exactly one of the queue, the hands of one worker, the completions of the
\* ledger and the entries returned to whoever removed them, or it is one that
\* could not be put back because the queue was full (queue-worker.js lines
\* 91-99 and 184-204).
Accounted ==
    /\ \A e \in issued :
          \/ \E i \in 1..4 : e.id \in Resting[i]
          \/ \E w \in Workers : e.id \in HeldBy(w)
    /\ \A i, j \in 1..4 : i # j => Resting[i] \cap Resting[j] = {}
    /\ \A w \in Workers, i \in 1..4 : HeldBy(w) \cap Resting[i] = {}
    /\ \A v, w \in Workers : v # w => HeldBy(v) \cap HeldBy(w) = {}

InProgress == UNION {HeldBy(w) : w \in Workers}

\* A start is followed by a completion: an entry that has been started and not
\* completed is in the hands of a worker, whatever the hook throws and whoever
\* else drains the queue; only a requeue onto a full queue leaves one without
\* (lines 135-149).
StartsComplete == started \subseteq Completed \cup InProgress \cup spilled

\* The same without the exception: "Every start and completion is written to an
\* ExecutionLedger" (lines 11-12).
EveryStartCompletes == started \subseteq Completed \cup InProgress

\* However workers and removals interleave, a submitted task is run at most
\* 1 + maxRequeues times (lines 91-99).
RunsBounded ==
    \A o \in Ids : Cardinality({e \in issued : e.origin = o /\ e.id \in started})
                      <= MaxRequeues + 1

\* The ledger tells the truth about requeueing: a completion is marked requeued
\* exactly when the task went back on the queue as a later entry (lines 138-143).
RequeueTold ==
    \A r \in ended : \A e \in issued : e.id = r.id =>
        (r.requeued <=> \E f \in issued : f.origin = e.origin /\ f.requeues = e.requeues + 1)

\* What a worker has in its hands it keeps until its completion is recorded, whoever
\* closes, reopens or fills the queue while the tool runs: it lets go of it otherwise
\* only when it may be put back on an open queue and that is full, so that close()
\* never costs a started entry its completion (queue-worker.js lines 91-99).
LostOnlyWhenFull ==
    [][\A i \in InProgress : i \in InProgress' \cup Completed'
                             \/ (~closed /\ Cardinality(queue) >= MaxDepth)]_drainVars

\* "So the loop always terminates" (lines 190-192): a run ends, whatever fails
\* and is put back, as soon as no more entries are submitted.
RunTerminates == \A w \in Workers : workerAt[w] = "looping" ~> workerAt[w] \in {"idle", "rejected"}
=============================================================================
