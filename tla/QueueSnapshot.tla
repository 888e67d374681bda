---------------------------- MODULE QueueSnapshot ----------------------------
(***************************************************************************)
(* src/src/task-queue.js across restarts: snapshot() is kept somewhere,    *)
(* the process is restarted with a new queue, perhaps of another maxDepth, *)
(* and restore() puts the snapshot in it, or in a queue that is in use.    *)
(* The methods are synchronous, so each is one action.  Workers on a queue *)
(* are in QueueWorker; here the entries are drained by drainQueue().       *)
(*                                                                         *)
(* Tasks are numbered in the order in which they are enqueued.             *)
(***************************************************************************)
EXTENDS Integers, Sequences

CONSTANTS
    Depths,       \* values of maxDepth
    Levels,       \* priorities
    MaxEnqueued,  \* bound on the tasks
    MaxRestores   \* bound on restarts and restores

ASSUME SnapshotAssumption ==
    /\ Depths \subseteq Nat \ {0} /\ Levels \subseteq Int
    /\ MaxEnqueued \in Nat /\ MaxRestores \in Nat

VARIABLES
    items,     \* items: [id, task, priority]
    sequence,
    shut,      \* the closed flag
    depth,     \* maxDepth
    saved,     \* the snapshot: its items and flag, or none taken
    idOf,      \* idOf[t]: the id that whoever enqueued task t was given
    done,      \* history: tasks handled or handed back by removeById()
    dropped,   \* history: tasks that a restart or a restore has taken away
    stale,     \* history: tasks the last of them has not brought back
    renewals   \* restarts and restores so far

snapshotVars == <<items, sequence, shut, depth, saved, idOf, done, dropped, stale, renewals>>

NotSaved == [taken |-> FALSE, items |-> <<>>, shut |-> FALSE]

SnapshotInit ==
    /\ items = <<>> /\ sequence = 0 /\ shut = FALSE /\ depth \in Depths
    /\ saved = NotSaved
    /\ idOf = <<>> /\ done = {} /\ dropped = {} /\ stale = {} /\ renewals = 0

TasksIn(s) == {s[i].task : i \in 1..Len(s)}

\* The comparison of items.sort().
Ahead(e, f) == e.priority > f.priority \/ (e.priority = f.priority /\ e.id < f.id)

\* How many of the entries a new one comes after: items was sorted, so those that
\* are ahead of it are the first.
Place(e) ==
    CHOOSE k \in 0..Len(items) :
        /\ \A i \in 1..k : Ahead(items[i], e)
        /\ \A i \in (k + 1)..Len(items) : ~Ahead(items[i], e)

\* push() and sort().
Placed(e) == SubSeq(items, 1, Place(e)) \o <<e>> \o SubSeq(items, Place(e) + 1, Len(items))

\* Otherwise enqueue() throws and changes nothing.
EnqueueTask(priority) ==
    /\ ~shut /\ Len(items) < depth /\ Len(idOf) < MaxEnqueued
    /\ sequence' = sequence + 1
    /\ items' = Placed([id |-> sequence + 1, task |-> Len(idOf) + 1, priority |-> priority])
    /\ idOf' = Append(idOf, sequence + 1)
    /\ UNCHANGED <<shut, depth, saved, done, dropped, stale, renewals>>

\* drainQueue() hands n entries to its handler: all of them, as many as its
\* limit, or up to one for which the handler throws.
Drain(n) ==
    /\ n \in 1..Len(items)
    /\ done' = done \cup TasksIn(SubSeq(items, 1, n))
    /\ items' = SubSeq(items, n + 1, Len(items))
    /\ UNCHANGED <<sequence, shut, depth, saved, idOf, dropped, stale, renewals>>

\* removeById() with the id that was given for task t.
RemoveTask(t) ==
    /\ \E i \in 1..Len(items) :
          /\ items[i].id = idOf[t]
          /\ items' = SubSeq(items, 1, i - 1) \o SubSeq(items, i + 1, Len(items))
          /\ done' = done \cup {items[i].task}
    /\ UNCHANGED <<sequence, shut, depth, saved, idOf, dropped, stale, renewals>>

OpenOrClose ==
    /\ shut' = ~shut
    /\ UNCHANGED <<items, sequence, depth, saved, idOf, done, dropped, stale, renewals>>

TakeSnapshot ==
    /\ saved' = [taken |-> TRUE, items |-> items, shut |-> shut]
    /\ UNCHANGED <<items, sequence, shut, depth, idOf, done, dropped, stale, renewals>>

Becoming(newItems, newSequence, newShut) ==
    /\ renewals < MaxRestores /\ renewals' = renewals + 1
    /\ items' = newItems /\ sequence' = newSequence /\ shut' = newShut
    /\ dropped' = (dropped \cup TasksIn(items)) \ TasksIn(newItems)
    /\ stale' = (1..Len(idOf)) \ TasksIn(newItems)
    /\ UNCHANGED <<saved, idOf, done>>

\* A new process: new TaskQueue({ maxDepth: d }).
RestartQueue(d) == Becoming(<<>>, 0, FALSE) /\ depth' = d

Largest(s) == IF s = <<>> THEN 0
              ELSE CHOOSE n \in {s[i].id : i \in 1..Len(s)} : \A i \in 1..Len(s) : s[i].id <= n

\* Mutant of SequenceAfter: the sequence starts again.
SequenceAfterZero(s) == 0

\* The largest id of the snapshot's entries, not of those ever handed out.
SequenceAfter(s) == Largest(s)

\* restore(), which throws and changes nothing if the snapshot is too large.
Restore ==
    /\ saved.taken /\ Len(saved.items) <= depth
    /\ Becoming(saved.items, SequenceAfter(saved.items), saved.shut)
    /\ UNCHANGED depth

SnapshotNext ==
    \/ \E p \in Levels : EnqueueTask(p)
    \/ \E n \in 1..Len(items) : Drain(n)
    \/ \E t \in 1..Len(idOf) : RemoveTask(t)
    \/ OpenOrClose \/ TakeSnapshot \/ Restore
    \/ \E d \in Depths : RestartQueue(d)

SnapshotSpec == SnapshotInit /\ [][SnapshotNext]_snapshotVars
-----------------------------------------------------------------------------
(* Properties. *)

QueueEntries == [id : 1..MaxEnqueued, task : 1..MaxEnqueued, priority : Levels]

\* Every variable holds values the code can give it; the queue is within the
\* depth of the process it is in.
SnapshotTypeOK ==
    /\ items \in Seq(QueueEntries) /\ Len(items) <= depth
    /\ sequence \in 0..MaxEnqueued /\ shut \in BOOLEAN /\ depth \in Depths
    /\ saved \in [taken : BOOLEAN, items : Seq(QueueEntries), shut : BOOLEAN]
    /\ idOf \in Seq(1..MaxEnqueued)
    /\ done \cup dropped \cup stale \subseteq 1..Len(idOf)
    /\ renewals \in 0..MaxRestores

\* "Bounded priority queue (higher priority first, FIFO tie-break)"
\* (docs/ARCHITECTURE.md:106), also after any sequence of snapshots, restarts
\* and restores that hands ids out again: the order is by priority and, within
\* one, by when the task was enqueued.
ServedInOrder ==
    \A i, j \in 1..Len(items) : i < j =>
        \/ items[i].priority > items[j].priority
        \/ items[i].priority = items[j].priority /\ items[i].task < items[j].task

\* An id given for a task finds that task or nothing, however often the queue
\* was restored with it; only a restart or a restore without the task may leave
\* its id to another one (line 91).
IdNamesItsTask ==
    \A i \in 1..Len(items) : \A t \in 1..Len(idOf) :
        items[i].id = idOf[t] /\ items[i].task # t => t \in stale

\* A task that was accepted is in the queue, has come out of it, or was taken
\* away by a restart or by a restore of a snapshot without it.
NothingVanishes == 1..Len(idOf) \subseteq TasksIn(items) \cup done \cup dropped

\* A queue is the same queue after any snapshots, restarts and restores.
QueueRestored == ServedInOrder /\ IdNamesItsTask /\ NothingVanishes
=============================================================================
