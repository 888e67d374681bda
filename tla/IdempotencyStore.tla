-------------------------- MODULE IdempotencyStore --------------------------
(***************************************************************************)
(* src/src/idempotency-store.js: execute(key, payload, operation) runs an  *)
(* operation at most once per key and answers a repeat from the record of  *)
(* the first run.  Records live in a state store which several processes   *)
(* may share (the file backend of persistence/state-store.js); each        *)
(* process also keeps a map of the calls in flight.                        *)
(*                                                                         *)
(* Every `await` is a point where other calls, other processes, the clock  *)
(* and a crash may intervene, so one action covers the code between two    *)
(* awaits.  A store operation takes effect in one atomic step (a file is   *)
(* read or renamed or removed), and the continuation runs later.           *)
(*                                                                         *)
(* Abstractions: a key stands for namespace:scope:key; a payload is its    *)
(* fingerprint; the result of an operation is the call that produced it    *)
(* (field "by"); expiresAt is createdAt + TTL; a crashed process is        *)
(* replaced at once by a new one with the same name and an empty map.      *)
(***************************************************************************)
EXTENDS Naturals

CONSTANTS
    Procs,        \* processes that share the store
    Calls,        \* calls of execute(), one name for each
    Keys,         \* storage keys
    Payloads,     \* payload fingerprints
    None,         \* no call / no key
    TTL,          \* ttlMs
    StaleAfter,   \* staleAfterMs
    MaxClock,     \* bound on the clock
    Crashable,    \* processes that may crash
    Purgers,      \* processes that call purgeExpired()
    StoreMayFail  \* whether a store operation may reject

\* The constructor's checks on ttlMs and staleAfterMs (lines 52-53).
ASSUME TTLAssumption == TTL \in Nat \ {0}
ASSUME StaleAssumption == StaleAfter \in Nat \ {0}
ASSUME MaxClockAssumption == MaxClock \in Nat
ASSUME NoneAssumption == None \notin Calls /\ None \notin Keys /\ None \notin Nat
ASSUME ScopeAssumption ==
    Crashable \subseteq Procs /\ Purgers \subseteq Procs /\ StoreMayFail \in BOOLEAN

VARIABLES
    now,       \* the clock all processes read
    store,     \* the shared records
    inflight,  \* inflight[p][k]: the leading call of k in process p
    req,       \* req[c]: who calls, with which key and payload
    pc,        \* pc[c]: the await point at which c is
    loaded,    \* loaded[c]: the record c's load() returned
    created,   \* created[c]: createdAt of the record c writes
    leader,    \* leader[c]: the call of the same process whose promise c awaits
    outcome,   \* outcome[c]: what c's promise settles with
    effect,    \* history: whether c's operation was performed, and what became of it
    sweep      \* sweep[p]: progress of purgeExpired() in p

callVars == <<pc, loaded, created, leader, outcome, effect>>
vars == <<now, store, inflight, req, callVars, sweep>>
-----------------------------------------------------------------------------
(* Records and outcomes. *)

NoRecord == [status |-> "absent"]

Record == [status : {"in_progress", "completed"}, fp : Payloads,
           createdAt : Nat, by : Calls]

Requests == [proc : Procs, key : Keys, fp : Payloads]

PendingAt == {"loading", "deciding", "marking", "operating", "forgetting", "recording"}
Points == {"idle", "waiting", "settling", "done", "crashed"} \cup PendingAt

Kinds == {"none", "executed", "unstored", "replayed", "conflict", "in_progress", "failed",
          "unserializable"}
Effects == {"none", "performed", "recorded", "withdrawn"}
Outcome == [kind : Kinds, by : Calls \cup {None}]
Answer(kind, c) == [kind |-> kind, by |-> c]
NoAnswer == Answer("none", None)

Sweeps == [at : {"idle", "visiting", "checking", "deleting"}, todo : SUBSET Keys,
           key : Keys \cup {None}, seen : Record \cup {NoRecord}]
SweepAt(at, todo, k, seen) == [at |-> at, todo |-> todo, key |-> k, seen |-> seen]
NoSweep == SweepAt("idle", {}, None, NoRecord)

\* Mutant of Unexpired: the window closes one tick early.
UnexpiredOffByOne(r) == r.status # "absent" /\ now + 1 < r.createdAt + TTL

\* expiresAt > clock(): the record is still within its retention window.
Unexpired(r) == r.status # "absent" /\ now < r.createdAt + TTL

\* createdAt + staleAfterMs > clock() fails: the marker may be taken over.
Stale(r) == r.createdAt + StaleAfter <= now

\* A leading call: it owns the entry of inflight for its key.
Leading(c) == pc[c] \in PendingAt \cup {"settling"}
-----------------------------------------------------------------------------
Init ==
    /\ now = 0
    /\ store = [k \in Keys |-> NoRecord]
    /\ inflight = [p \in Procs |-> [k \in Keys |-> None]]
    /\ req \in [Calls -> Requests]
    /\ pc = [c \in Calls |-> "idle"]
    /\ loaded = [c \in Calls |-> NoRecord]
    /\ created = [c \in Calls |-> 0]
    /\ leader = [c \in Calls |-> None]
    /\ outcome = [c \in Calls |-> NoAnswer]
    /\ effect = [c \in Calls |-> "none"]
    /\ sweep = [p \in Procs |-> NoSweep]

Goto(c, at) == pc' = [pc EXCEPT ![c] = at]

\* The promise of attempt() settles; execute()'s finally has not run yet.
Settle(c, answer) ==
    /\ Goto(c, "settling")
    /\ outcome' = [outcome EXCEPT ![c] = answer]
-----------------------------------------------------------------------------
(* execute(): the part before the first await. *)

\* The entry of inflight for the request of c.
Inflight(c) == inflight[req[c].proc][req[c].key]

\* Mutant of Lead: the map holds the payload instead of the call.
LeadRegistersPayload(c) ==
    /\ pc[c] = "idle"
    /\ Inflight(c) = None
    /\ inflight' = [inflight EXCEPT ![req[c].proc][req[c].key] = req[c].fp]
    /\ Goto(c, "loading")
    /\ UNCHANGED <<now, store, req, loaded, created, leader, outcome, effect, sweep>>

\* Mutant of Lead: the promise is not registered before the first await.
LeadUnregistered(c) ==
    /\ pc[c] = "idle"
    /\ Inflight(c) = None
    /\ Goto(c, "loading")
    /\ UNCHANGED <<now, store, inflight, req, loaded, created, leader, outcome, effect, sweep>>

\* No call in flight: start attempt() and register its promise.
Lead(c) ==
    /\ pc[c] = "idle"
    /\ Inflight(c) = None
    /\ inflight' = [inflight EXCEPT ![req[c].proc][req[c].key] = c]
    /\ Goto(c, "loading")
    /\ UNCHANGED <<now, store, req, loaded, created, leader, outcome, effect, sweep>>

\* A call with the same payload is in flight: await its promise.
Join(c) ==
    /\ pc[c] = "idle"
    /\ Inflight(c) # None
    /\ req[Inflight(c)].fp = req[c].fp
    /\ leader' = [leader EXCEPT ![c] = Inflight(c)]
    /\ Goto(c, "waiting")
    /\ UNCHANGED <<now, store, inflight, req, loaded, created, outcome, effect, sweep>>

\* A call with another payload is in flight: conflict, at once.
RejectJoin(c) ==
    /\ pc[c] = "idle"
    /\ Inflight(c) # None
    /\ req[Inflight(c)].fp # req[c].fp
    /\ outcome' = [outcome EXCEPT ![c] = Answer("conflict", None)]
    /\ Goto(c, "done")
    /\ UNCHANGED <<now, store, inflight, req, loaded, created, leader, effect, sweep>>

\* What a waiter makes of the outcome of its leader: an error is rethrown, a
\* replay is returned as it is, a fresh result becomes a replay of that result.
Shared(answer) ==
    IF answer.kind \in {"executed", "unstored"}
    THEN Answer("replayed", answer.by)
    ELSE answer

\* Mutant of Wake: a waiter that looks only after the release is never woken.
WakeBeforeRelease(c) ==
    /\ pc[c] = "waiting"
    /\ pc[leader[c]] = "settling"
    /\ outcome' = [outcome EXCEPT ![c] = Shared(outcome[leader[c]])]
    /\ Goto(c, "done")
    /\ UNCHANGED <<now, store, inflight, req, loaded, created, leader, effect, sweep>>

Wake(c) ==
    /\ pc[c] = "waiting"
    /\ pc[leader[c]] \in {"settling", "done"}
    /\ outcome' = [outcome EXCEPT ![c] = Shared(outcome[leader[c]])]
    /\ Goto(c, "done")
    /\ UNCHANGED <<now, store, inflight, req, loaded, created, leader, effect, sweep>>

\* finally { this.inflight.delete(storageKey) }
Release(c) ==
    /\ pc[c] = "settling"
    /\ inflight' = [inflight EXCEPT ![req[c].proc][req[c].key] = None]
    /\ Goto(c, "done")
    /\ UNCHANGED <<now, store, req, loaded, created, leader, outcome, effect, sweep>>
-----------------------------------------------------------------------------
(* attempt() *)

Load(c) ==
    /\ pc[c] = "loading"
    /\ loaded' = [loaded EXCEPT ![c] = store[req[c].key]]
    /\ Goto(c, "deciding")
    /\ UNCHANGED <<now, store, inflight, req, created, leader, outcome, effect, sweep>>

\* The record a call loaded is not used beyond its decision.
Discard(c) == loaded' = [loaded EXCEPT ![c] = NoRecord]

\* Mutant of SameRequest: the stored fingerprint is not compared.
AnyRequest(c) == Unexpired(loaded[c])

\* The loaded record is live and of the same payload.
SameRequest(c) == Unexpired(loaded[c]) /\ loaded[c].fp = req[c].fp

Conflict(c) ==
    /\ pc[c] = "deciding"
    /\ Unexpired(loaded[c]) /\ loaded[c].fp # req[c].fp
    /\ Settle(c, Answer("conflict", None))
    /\ Discard(c)
    /\ UNCHANGED <<now, store, inflight, req, created, leader, effect, sweep>>

Replay(c) ==
    /\ pc[c] = "deciding"
    /\ SameRequest(c) /\ loaded[c].status = "completed"
    /\ Settle(c, Answer("replayed", loaded[c].by))
    /\ Discard(c)
    /\ UNCHANGED <<now, store, inflight, req, created, leader, effect, sweep>>

Refuse(c) ==
    /\ pc[c] = "deciding"
    /\ SameRequest(c) /\ loaded[c].status = "in_progress" /\ ~Stale(loaded[c])
    /\ Settle(c, Answer("in_progress", None))
    /\ Discard(c)
    /\ UNCHANGED <<now, store, inflight, req, created, leader, effect, sweep>>
-----------------------------------------------------------------------------
(* run() *)

\* Mutant of MayTakeOver: a marker is taken over at any age.
TakeOverAnyAge(c) == SameRequest(c) /\ loaded[c].status = "in_progress"

\* A marker of the same payload which has gone stale may be taken over.
MayTakeOver(c) ==
    SameRequest(c) /\ loaded[c].status = "in_progress" /\ Stale(loaded[c])

\* run() starts: nothing live under the key, or a stale marker of this payload.
StartRun(c) ==
    /\ pc[c] = "deciding"
    /\ ~Unexpired(loaded[c]) \/ MayTakeOver(c)
    /\ created' = [created EXCEPT ![c] = now]
    /\ Goto(c, "marking")
    /\ Discard(c)
    /\ UNCHANGED <<now, store, inflight, req, leader, outcome, effect, sweep>>

\* The record c writes under its key.
Written(c, status) ==
    [status |-> status, fp |-> req[c].fp, createdAt |-> created[c], by |-> c]

SaveMarker(c) ==
    /\ pc[c] = "marking"
    /\ store' = [store EXCEPT ![req[c].key] = Written(c, "in_progress")]
    /\ Goto(c, "operating")
    /\ UNCHANGED <<now, inflight, req, loaded, created, leader, outcome, effect, sweep>>

\* The operation returns a result that shouldStore() accepts and of which a
\* snapshot can be taken: an execution that must not happen twice.
Operate(c) ==
    /\ pc[c] = "operating"
    /\ effect' = [effect EXCEPT ![c] = "performed"]
    /\ Goto(c, "recording")
    /\ UNCHANGED <<now, store, inflight, req, loaded, created, leader, outcome, sweep>>

\* Mutant of OperateUnkept: the marker is not deleted.
OperateLeavesMarker(c) ==
    /\ pc[c] = "operating"
    /\ \E answer \in {Answer("unstored", c), Answer("failed", None)} :
          outcome' = [outcome EXCEPT ![c] = answer]
    /\ Goto(c, "settling")
    /\ UNCHANGED <<now, store, inflight, req, loaded, created, leader, effect, sweep>>

\* The operation throws, or shouldStore() rejects its result: by lines 71-73 and
\* 133 the key may be used again.  The marker is deleted, then the answer given.
OperateUnkept(c) ==
    /\ pc[c] = "operating"
    /\ \E answer \in {Answer("unstored", c), Answer("failed", None)} :
          outcome' = [outcome EXCEPT ![c] = answer]
    /\ Goto(c, "forgetting")
    /\ UNCHANGED <<now, store, inflight, req, loaded, created, leader, effect, sweep>>

\* The operation has been performed and its result accepted, but serialize() or
\* JSON.stringify() throws: PERSISTENCE_FAILED, once the marker is deleted.
OperateUnserializable(c) ==
    /\ pc[c] = "operating"
    /\ effect' = [effect EXCEPT ![c] = "performed"]
    /\ outcome' = [outcome EXCEPT ![c] = Answer("unserializable", None)]
    /\ Goto(c, "forgetting")
    /\ UNCHANGED <<now, store, inflight, req, loaded, created, leader, sweep>>

\* The operation has been performed and shouldStore() throws: it is called outside
\* the try blocks, so the error leaves the marker behind.
PredicateThrows(c) ==
    /\ pc[c] = "operating"
    /\ effect' = [effect EXCEPT ![c] = "performed"]
    /\ Settle(c, Answer("failed", None))
    /\ UNCHANGED <<now, store, inflight, req, loaded, created, leader, sweep>>

\* The marker is deleted; a performed operation is no longer known of.
Forget(c) ==
    /\ pc[c] = "forgetting"
    /\ store' = [store EXCEPT ![req[c].key] = NoRecord]
    /\ effect' = [effect EXCEPT ![c] = IF @ = "performed" THEN "withdrawn" ELSE @]
    /\ Goto(c, "settling")
    /\ UNCHANGED <<now, inflight, req, loaded, created, leader, outcome, sweep>>

SaveResult(c) ==
    /\ pc[c] = "recording"
    /\ store' = [store EXCEPT ![req[c].key] = Written(c, "completed")]
    /\ effect' = [effect EXCEPT ![c] = "recorded"]
    /\ Settle(c, Answer("executed", c))
    /\ UNCHANGED <<now, inflight, req, loaded, created, leader, sweep>>

\* load(), save() or delete() rejects without having changed the store; none of
\* these rejections is caught by run(), so the attempt settles with it.
StoreFault(c) ==
    /\ StoreMayFail
    /\ pc[c] \in {"loading", "marking", "forgetting", "recording"}
    /\ Settle(c, Answer("failed", None))
    /\ UNCHANGED <<now, store, inflight, req, loaded, created, leader, effect, sweep>>
-----------------------------------------------------------------------------
(* purgeExpired() *)

PurgeStart(p) ==
    /\ p \in Purgers /\ sweep[p].at = "idle"
    /\ LET keys == {k \in Keys : store[k] # NoRecord} IN
          /\ keys # {}
          /\ sweep' = [sweep EXCEPT ![p] = SweepAt("visiting", keys, None, NoRecord)]
    /\ UNCHANGED <<now, store, inflight, req, callVars>>

PurgeLoad(p, k) ==
    /\ sweep[p].at = "visiting" /\ k \in sweep[p].todo
    /\ sweep' = [sweep EXCEPT ![p] = SweepAt("checking", sweep[p].todo \ {k}, k, store[k])]
    /\ UNCHANGED <<now, store, inflight, req, callVars>>

\* The loaded record of the sweep has expired and is COMPLETED.
Purgeable(r) == r.status = "completed" /\ ~Unexpired(r)

PurgeSpare(p) ==
    /\ sweep[p].at = "checking" /\ ~Purgeable(sweep[p].seen)
    /\ sweep' = [sweep EXCEPT ![p] = SweepAt("visiting", sweep[p].todo, None, NoRecord)]
    /\ UNCHANGED <<now, store, inflight, req, callVars>>

PurgeCondemn(p) ==
    /\ sweep[p].at = "checking" /\ Purgeable(sweep[p].seen)
    /\ sweep' = [sweep EXCEPT ![p] = SweepAt("deleting", sweep[p].todo, sweep[p].key, NoRecord)]
    /\ UNCHANGED <<now, store, inflight, req, callVars>>

PurgeDelete(p) ==
    /\ sweep[p].at = "deleting"
    /\ store' = [store EXCEPT ![sweep[p].key] = NoRecord]
    /\ sweep' = [sweep EXCEPT ![p] = SweepAt("visiting", sweep[p].todo, None, NoRecord)]
    /\ UNCHANGED <<now, inflight, req, callVars>>

PurgeEnd(p) ==
    /\ sweep[p].at = "visiting" /\ sweep[p].todo = {}
    /\ sweep' = [sweep EXCEPT ![p] = NoSweep]
    /\ UNCHANGED <<now, store, inflight, req, callVars>>
-----------------------------------------------------------------------------
(* The environment: time and crashes. *)

Tick ==
    /\ now < MaxClock
    /\ now' = now + 1
    /\ UNCHANGED <<store, inflight, req, callVars, sweep>>

\* The calls of p whose caller has not been answered yet.
Active(p) == {c \in Calls : req[c].proc = p /\ pc[c] \notin {"idle", "done", "crashed"}}

\* The memory of p is lost, the store is not.
Crash(p) ==
    /\ p \in Crashable
    /\ Active(p) # {} \/ sweep[p] # NoSweep
    /\ pc' = [c \in Calls |-> IF c \in Active(p) THEN "crashed" ELSE pc[c]]
    /\ loaded' = [c \in Calls |-> IF c \in Active(p) THEN NoRecord ELSE loaded[c]]
    /\ inflight' = [inflight EXCEPT ![p] = [k \in Keys |-> None]]
    /\ sweep' = [sweep EXCEPT ![p] = NoSweep]
    /\ UNCHANGED <<now, store, req, created, leader, outcome, effect>>
-----------------------------------------------------------------------------
Begin(c) == Lead(c) \/ Join(c) \/ RejectJoin(c)

Decide(c) == Conflict(c) \/ Replay(c) \/ Refuse(c) \/ StartRun(c)

OperationEnds(c) ==
    Operate(c) \/ OperateUnkept(c) \/ OperateUnserializable(c) \/ PredicateThrows(c)

\* The steps of a call that has begun, each of which the event loop performs
\* once what it awaits has settled.
Continue(c) ==
    \/ Wake(c) \/ Release(c) \/ Load(c) \/ Decide(c)
    \/ SaveMarker(c) \/ OperationEnds(c) \/ Forget(c) \/ SaveResult(c)

Purge(p) ==
    \/ PurgeStart(p) \/ PurgeSpare(p) \/ PurgeCondemn(p) \/ PurgeDelete(p) \/ PurgeEnd(p)
    \/ \E k \in Keys : PurgeLoad(p, k)

Next ==
    \/ Tick
    \/ \E c \in Calls : Begin(c) \/ Continue(c) \/ StoreFault(c)
    \/ \E p \in Procs : Purge(p) \/ Crash(p)

Spec == Init /\ [][Next]_vars

\* Store operations settle and operations end, so a begun call keeps going.
FairSpec == Spec /\ \A c \in Calls : WF_vars(Continue(c))
-----------------------------------------------------------------------------
(* Properties. *)

\* Every variable holds values the code can give it.
TypeOK ==
    /\ now \in Nat
    /\ store \in [Keys -> Record \cup {NoRecord}]
    /\ inflight \in [Procs -> [Keys -> Calls \cup {None}]]
    /\ req \in [Calls -> Requests]
    /\ pc \in [Calls -> Points]
    /\ loaded \in [Calls -> Record \cup {NoRecord}]
    /\ created \in [Calls -> Nat]
    /\ leader \in [Calls -> Calls \cup {None}]
    /\ \A c \in Calls : pc[c] = "waiting" => leader[c] # None
    /\ outcome \in [Calls -> Outcome]
    /\ effect \in [Calls -> Effects]
    /\ sweep \in [Procs -> Sweeps]

SamePlace(c, d) == req[c].proc = req[d].proc /\ req[c].key = req[d].key

\* "A second caller with the same key always waits for the first instead of
\* racing it": in one process no two calls of a key are past the check of
\* inflight at once, whatever crashes, faults and purges do (lines 89-106).
OneLeader ==
    \A c, d \in Calls : Leading(c) /\ Leading(d) /\ SamePlace(c, d) => c = d

\* A replayed answer is the result of another call that really ran the
\* operation for the same key and the same payload, and either recorded it or,
\* when it was not to be stored, was in flight in the same process (lines 93-97,
\* 112-114).
FaithfulReplay ==
    \A c \in Calls : outcome[c].kind = "replayed" =>
        LET d == outcome[c].by IN
            /\ d \in Calls \ {c}
            /\ req[d].key = req[c].key /\ req[d].fp = req[c].fp
            /\ \/ effect[d] = "recorded"
               \/ outcome[d].kind = "unstored" /\ leader[c] = d

\* d left, or will leave, a marker that c cannot wait for: d runs in another
\* process, or its process crashed, or it failed without removing its marker.
Unwaitable(d, c) ==
    \/ req[d].proc # req[c].proc
    \/ pc[d] = "crashed"
    \/ outcome[d].kind = "failed"

\* A call is refused as "in progress" only because of a marker younger than
\* StaleAfter at that moment, written for the same key and payload by a call
\* that it could not have waited for in its own process (lines 116-120).
RefusalJustified ==
    [][\A c \in Calls : pc[c] = "deciding" /\ outcome'[c].kind = "in_progress" =>
          \E d \in Calls \ {c} :
             /\ req[d].key = req[c].key /\ req[d].fp = req[c].fp
             /\ created[d] + StaleAfter > now
             /\ Unwaitable(d, c)]_vars

Lesser(m, n) == IF m <= n THEN m ELSE n

\* How long the execution of c protects its key: the whole retention window
\* once its result is recorded, and the life of its marker before that.
Protection(c) == IF effect[c] = "recorded" THEN TTL ELSE Lesser(TTL, StaleAfter)

\* The operation of c was performed, and its marker has not been deleted because
\* no snapshot could be taken of the result.
Stands(c) == effect[c] \in {"performed", "recorded"}

\* "Executed at most once per key within the retention window" (lines 5-6): while
\* the operation of d is under way, and ever after, the protection of any other
\* execution of its key was over when d was admitted, or d's when it was.  True of
\* one process without purges, through crashes, failed saves and a shouldStore()
\* that throws, but for one exception: an execution whose result could not be
\* serialized protects nothing once its marker is deleted (lines 140-147).
RetentionWindow ==
    \A c, d \in Calls :
        /\ c # d /\ req[c].key = req[d].key /\ Stands(c)
        /\ pc[d] = "operating" \/ (Stands(d) /\ created[c] <= created[d])
        => created[c] + Protection(c) <= created[d]

\* Every call that begins is answered, unless its process crashes: waiters are
\* woken whatever their leader settles with, and no marker blocks a call.
EveryCallSettles ==
    \A c \in Calls : pc[c] # "idle" ~> pc[c] \in {"done", "crashed"}

\* How AtMostOnceExecution sees the reply to c: it counts once c's caller has
\* it, and only a result that is remembered is a result.
ReplyTo(c) ==
    LET a == outcome[c] IN
    CASE pc[c] # "done" -> [kind |-> "none", by |-> None]
      [] pc[c] = "done" /\ a.kind \in {"executed", "replayed"} /\ effect[a.by] # "none" ->
            [kind |-> "result", by |-> a.by]
      [] OTHER -> [kind |-> "declined", by |-> None]

Promise ==
    INSTANCE AtMostOnceExecution WITH
        Grace <- Lesser(TTL, StaleAfter),
        ranAt <- [c \in Calls |-> IF effect[c] = "none" THEN None ELSE created[c]],
        withdrawn <- {c \in Calls : effect[c] = "withdrawn"},
        reply <- [c \in Calls |-> ReplyTo(c)]

\* One process without purges, crashing and restarting as it may, keeps the
\* promise execute() makes: a performance whose result any caller has seen
\* protects its key for the whole retention window (lines 5-10), and only one whose
\* result nobody has seen and nobody will see is ever withdrawn.
KeepsPromise == Promise!Spec
=============================================================================
