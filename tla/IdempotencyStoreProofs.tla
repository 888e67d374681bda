----------------------- MODULE IdempotencyStoreProofs -----------------------
(***************************************************************************)
(* Theorems about IdempotencyStore for every number of processes, calls,   *)
(* keys and payloads and every TTL and StaleAfter.                         *)
(*                                                                         *)
(* Inv holds of any number of processes that share a store, with crashes,  *)
(* purges and store faults; it yields OneLeader and FaithfulReplay.        *)
(* OneProcessInv holds of one process that runs no purge, with crashes and *)
(* store faults; it yields RetentionWindow.                                *)
(***************************************************************************)
EXTENDS IdempotencyStore, TLAPS

AllAssumptions ==
    /\ TTL \in Nat \ {0} /\ StaleAfter \in Nat \ {0} /\ MaxClock \in Nat
    /\ None \notin Calls /\ None \notin Keys
    /\ Crashable \subseteq Procs /\ Purgers \subseteq Procs

LEMMA Assumptions == AllAssumptions
BY TTLAssumption, StaleAssumption, MaxClockAssumption, NoneAssumption, ScopeAssumption
   DEF AllAssumptions
-----------------------------------------------------------------------------
(* The inductive invariant of any number of processes. *)

\* A leading call is the one its process has registered for its key.
LeaderRegistered ==
    \A c \in Calls : Leading(c) => inflight[req[c].proc][req[c].key] = c

\* Which calls can have taken effect, and which wait for another.
CallShape ==
    \A c \in Calls :
        /\ effect[c] # "none" =>
              pc[c] \in {"recording", "forgetting", "settling", "done", "crashed"}
        /\ effect[c] \in {"recorded", "withdrawn"} => pc[c] \in {"settling", "done", "crashed"}
        /\ leader[c] # None => pc[c] \in {"waiting", "done", "crashed"}
        /\ pc[c] = "waiting" => leader[c] # None /\ effect[c] = "none"
        /\ pc[c] \in {"idle", "loading", "deciding", "marking", "operating", "recording",
                      "waiting"}
              => outcome[c] = NoAnswer

\* A registered call leads in that place, and awaits no other.
RegisteredLeads ==
    \A p \in Procs, k \in Keys :
        LET d == inflight[p][k] IN
            d # None => /\ Leading(d) /\ leader[d] = None
                        /\ req[d].proc = p /\ req[d].key = k

\* A completed record holds the result of a recorded run of its key and payload.
Truthful(r, k) ==
    r.status = "completed" =>
        effect[r.by] = "recorded" /\ req[r.by].key = k /\ req[r.by].fp = r.fp

RecordsTruthful ==
    /\ \A k \in Keys : Truthful(store[k], k)
    /\ \A c \in Calls : Truthful(loaded[c], req[c].key)

Settled(c) == pc[c] \in {"settling", "done", "crashed"}

\* A call awaits a call of its own key and payload that itself awaits none.
WaitersMatched ==
    \A c \in Calls : leader[c] # None =>
        /\ leader[c] # c /\ leader[leader[c]] = None /\ pc[leader[c]] # "idle"
        /\ req[leader[c]].key = req[c].key /\ req[leader[c]].fp = req[c].fp

\* What a settled call has answered, with what it rests on.
AnswersTrue ==
    \A c \in Calls :
        LET d == outcome[c].by IN
        /\ outcome[c].kind = "executed" => d = c /\ effect[c] = "recorded"
        /\ outcome[c].kind = "unstored" => d = c
        /\ outcome[c].kind = "replayed" =>
              /\ d \in Calls \ {c} /\ req[d].key = req[c].key /\ req[d].fp = req[c].fp
              /\ \/ effect[d] = "recorded"
                 \/ outcome[d].kind = "unstored" /\ leader[c] = d /\ Settled(d)

Inv ==
    /\ TypeOK /\ LeaderRegistered /\ RegisteredLeads /\ CallShape
    /\ RecordsTruthful /\ WaitersMatched /\ AnswersTrue
-----------------------------------------------------------------------------
(* The inductive invariant of one process that runs no purge. *)

OneProcess == (\A p, q \in Procs : p = q) /\ Purgers = {}

Running == {"marking", "operating", "forgetting", "recording"}
Writing == {"operating", "forgetting", "recording"}

NoSweeps == \A p \in Procs : sweep[p].at = "idle"

ClockBounds == \A c \in Calls : created[c] <= now

\* What a deciding call has loaded is still there, and so is the marker of a
\* call between its two saves.
StoreOwned ==
    \A c \in Calls :
        /\ pc[c] = "deciding" => loaded[c] = store[req[c].key]
        /\ pc[c] \in Writing => store[req[c].key] = Written(c, "in_progress")

\* The record that an execution leaves to protect its key.
Mark(c) == Written(c, IF effect[c] = "recorded" THEN "completed" ELSE "in_progress")

\* The protection of an execution is over or its record is in place.
Guarded ==
    \A c \in Calls : Stands(c) =>
        created[c] + Protection(c) <= now \/ store[req[c].key] = Mark(c)

\* A running call was admitted after the protection of every earlier execution.
AdmittedLate ==
    \A c, d \in Calls :
        /\ pc[c] \in Running /\ c # d /\ req[c].key = req[d].key /\ Stands(d)
        => created[d] + Protection(d) <= created[c]

OneProcessInv ==
    NoSweeps /\ ClockBounds /\ StoreOwned /\ Guarded /\ AdmittedLate /\ RetentionWindow
-----------------------------------------------------------------------------
(* Type correctness. *)

LEMMA RecordTypes ==
    /\ NoSweep \in Sweeps
    /\ NoRecord \in Record \cup {NoRecord}
    /\ \A r \in Record : r.status # "absent"
    /\ NoAnswer \in Outcome
    /\ \A kind \in Kinds, c \in Calls \cup {None} : Answer(kind, c) \in Outcome
BY DEF NoSweep, SweepAt, Sweeps, NoRecord, Record, NoAnswer, Answer, Outcome, Kinds

LEMMA WrittenType ==
    ASSUME TypeOK, NEW c \in Calls, NEW status \in {"in_progress", "completed"}
    PROVE  Written(c, status) \in Record
BY DEF TypeOK, Written, Record, Requests

LEMMA TypeStep == TypeOK /\ [Next]_vars => TypeOK'
<1> SUFFICES ASSUME TypeOK, [Next]_vars PROVE TypeOK'
  OBVIOUS
<1> USE Assumptions, RecordTypes DEF AllAssumptions
<1>1. CASE Tick
  BY <1>1 DEF Tick, TypeOK, callVars
<1>2. ASSUME NEW c \in Calls, Begin(c) PROVE TypeOK'
  <2>1. CASE Lead(c)
    BY <2>1 DEF Lead, TypeOK, Goto, Points, PendingAt, Requests, Inflight
  <2>2. CASE Join(c)
    BY <2>2 DEF Join, TypeOK, Goto, Points, Requests, Inflight
  <2>3. CASE RejectJoin(c)
    BY <2>3 DEF RejectJoin, TypeOK, Goto, Points, Kinds
  <2>4. QED
    BY <1>2, <2>1, <2>2, <2>3 DEF Begin
<1>3. ASSUME NEW c \in Calls, Continue(c) PROVE TypeOK'
  <2>1. CASE Wake(c)
    <3>1. leader[c] \in Calls
      BY <2>1 DEF Wake, TypeOK
    <3>2. Shared(outcome[leader[c]]) \in Outcome
      BY <3>1 DEF Shared, TypeOK, Outcome, Answer, Kinds
    <3>3. QED
      BY <2>1, <3>2 DEF Wake, TypeOK, Goto, Points
  <2>2. CASE Release(c)
    BY <2>2 DEF Release, TypeOK, Goto, Points, Requests
  <2>3. CASE Load(c)
    BY <2>3 DEF Load, TypeOK, Goto, Points, PendingAt, Requests
  <2>4. CASE Conflict(c)
    BY <2>4 DEF Conflict, Settle, Discard, TypeOK, Goto, Points, Kinds
  <2>5. CASE Replay(c)
    <3>1. loaded[c] \in Record
      BY <2>5 DEF Replay, SameRequest, Unexpired, TypeOK, NoRecord
    <3>2. QED
      BY <2>5, <3>1 DEF Replay, Settle, Discard, TypeOK, Goto, Points, Kinds, Record
  <2>6. CASE Refuse(c)
    BY <2>6 DEF Refuse, Settle, Discard, TypeOK, Goto, Points, Kinds
  <2>7. CASE StartRun(c)
    BY <2>7 DEF StartRun, Discard, TypeOK, Goto, Points, PendingAt
  <2>8. CASE SaveMarker(c)
    BY <2>8, WrittenType DEF SaveMarker, TypeOK, Goto, Points, PendingAt, Requests
  <2>9. CASE Operate(c)
    BY <2>9 DEF Operate, TypeOK, Goto, Points, PendingAt, Effects
  <2>10. CASE OperateUnkept(c)
    BY <2>10 DEF OperateUnkept, TypeOK, Goto, Points, PendingAt, Kinds
  <2>11. CASE OperateUnserializable(c) \/ PredicateThrows(c)
    <3>1. CASE OperateUnserializable(c)
      BY <3>1 DEF OperateUnserializable, TypeOK, Goto, Points, PendingAt, Kinds, Effects
    <3>2. CASE PredicateThrows(c)
      BY <3>2 DEF PredicateThrows, Settle, TypeOK, Goto, Points, Kinds, Effects
    <3> QED
      BY <2>11, <3>1, <3>2
  <2>12. CASE Forget(c)
    BY <2>12 DEF Forget, TypeOK, Goto, Points, Requests, Effects
  <2>13. CASE SaveResult(c)
    BY <2>13, WrittenType DEF SaveResult, Settle, TypeOK, Goto, Points, Requests, Kinds, Effects
  <2>14. QED
    BY <1>3, <2>1, <2>2, <2>3, <2>4, <2>5, <2>6, <2>7, <2>8, <2>9, <2>10, <2>11, <2>12, <2>13
    DEF Continue, Decide, OperationEnds
<1>4. ASSUME NEW c \in Calls, StoreFault(c) PROVE TypeOK'
  BY <1>4 DEF StoreFault, Settle, TypeOK, Goto, Points, Kinds
<1>5. ASSUME NEW p \in Procs, Purge(p) PROVE TypeOK'
  <2>1. CASE PurgeStart(p)
    BY <2>1 DEF PurgeStart, TypeOK, SweepAt, Sweeps, callVars
  <2>2. ASSUME NEW k \in Keys, PurgeLoad(p, k) PROVE TypeOK'
    BY <2>2 DEF PurgeLoad, TypeOK, SweepAt, Sweeps, callVars
  <2>3. CASE PurgeSpare(p)
    BY <2>3 DEF PurgeSpare, TypeOK, SweepAt, Sweeps, callVars
  <2>4. CASE PurgeCondemn(p)
    BY <2>4 DEF PurgeCondemn, TypeOK, SweepAt, Sweeps, callVars
  <2>5. CASE PurgeDelete(p)
    BY <2>5 DEF PurgeDelete, TypeOK, SweepAt, Sweeps, callVars
  <2>6. CASE PurgeEnd(p)
    BY <2>6 DEF PurgeEnd, TypeOK, callVars
  <2>7. QED
    BY <1>5, <2>1, <2>2, <2>3, <2>4, <2>5, <2>6 DEF Purge
<1>6. ASSUME NEW p \in Procs, Crash(p) PROVE TypeOK'
  BY <1>6 DEF Crash, TypeOK, NoSweep, Points
<1>7. CASE UNCHANGED vars
  BY <1>7 DEF vars, callVars, TypeOK
<1>8. QED
  BY <1>1, <1>2, <1>3, <1>4, <1>5, <1>6, <1>7 DEF Next

\* Every variable keeps to the values the code can give it, for all constants.
THEOREM TypeCorrect == Spec => []TypeOK
<1>1. Init => TypeOK
  BY Assumptions, RecordTypes DEF AllAssumptions, Init, TypeOK, Points, Effects
<1>2. QED
  BY <1>1, TypeStep, PTL DEF Spec
-----------------------------------------------------------------------------
(* Any number of processes. *)

LEMMA InvInit == Init => Inv
BY Assumptions, RecordTypes, SMTT(30)
DEF AllAssumptions, Init, Inv, TypeOK, Points, LeaderRegistered, Leading, PendingAt,
    RegisteredLeads, CallShape, RecordsTruthful, Truthful, NoRecord, WaitersMatched,
    AnswersTrue, NoAnswer, Answer, Effects

\* Inv is inductive: one step per action, split by conjunct where the action
\* disturbs several of them at once.
LEMMA InvStep == Inv /\ [Next]_vars => Inv'
<1> SUFFICES ASSUME Inv, TypeOK', [Next]_vars PROVE Inv'
  BY TypeStep DEF Inv
<1> USE Assumptions
    DEF AllAssumptions, Inv, TypeOK, Effects, LeaderRegistered, RegisteredLeads, CallShape,
        RecordsTruthful, WaitersMatched, AnswersTrue, Truthful, Leading, Settled,
        Points, PendingAt, Record, Outcome, Requests, Goto, Inflight, Answer, NoAnswer, NoRecord
<1>1. CASE Tick
  BY <1>1, SMTT(30) DEF Tick, callVars
<1>2. ASSUME NEW c \in Calls, Begin(c) PROVE Inv'
  <2>1. CASE Lead(c)
    <3> HIDE DEF TypeOK, LeaderRegistered, RegisteredLeads, CallShape, RecordsTruthful,
                 WaitersMatched, AnswersTrue
    <3>1. /\ req[c].proc \in Procs /\ req[c].key \in Keys
          /\ inflight \in [Procs -> [Keys -> Calls \cup {None}]] /\ pc \in [Calls -> Points]
      BY DEF TypeOK
    <3>2. /\ pc[c] = "idle" /\ inflight[req[c].proc][req[c].key] = None
          /\ inflight' = [inflight EXCEPT ![req[c].proc][req[c].key] = c]
          /\ pc' = [pc EXCEPT ![c] = "loading"]
          /\ UNCHANGED <<store, req, loaded, leader, outcome, effect>>
      BY <2>1 DEF Lead
    <3>3. LeaderRegistered'
      BY <3>1, <3>2 DEF LeaderRegistered
    <3>4. leader[c] = None
      BY <3>2 DEF CallShape
    <3>5. RegisteredLeads'
      BY <3>1, <3>2, <3>4 DEF RegisteredLeads
    <3>6. CallShape' /\ RecordsTruthful'
      BY <3>1, <3>2 DEF CallShape, RecordsTruthful
    <3>7. WaitersMatched' /\ AnswersTrue'
      BY <3>1, <3>2 DEF WaitersMatched, AnswersTrue
    <3> QED
      BY <3>3, <3>5, <3>6, <3>7
  <2>2. CASE Join(c)
    <3> HIDE DEF TypeOK, LeaderRegistered, RegisteredLeads, CallShape, RecordsTruthful,
                 WaitersMatched, AnswersTrue
    <3> DEFINE d == inflight[req[c].proc][req[c].key]
    <3>1. /\ req[c].proc \in Procs /\ req[c].key \in Keys /\ d \in Calls \cup {None}
          /\ pc \in [Calls -> Points] /\ leader \in [Calls -> Calls \cup {None}]
      BY DEF TypeOK
    <3>2. /\ pc[c] = "idle" /\ d # None /\ req[d].fp = req[c].fp
          /\ leader' = [leader EXCEPT ![c] = d] /\ pc' = [pc EXCEPT ![c] = "waiting"]
          /\ UNCHANGED <<store, inflight, req, loaded, outcome, effect>>
      BY <2>2, SMTT(30) DEF Join
    <3>3. /\ d \in Calls \ {c} /\ Leading(d) /\ leader[d] = None
          /\ req[d].proc = req[c].proc /\ req[d].key = req[c].key
      BY <3>1, <3>2, SMTT(30) DEF RegisteredLeads
    <3> HIDE DEF d
    <3>4. LeaderRegistered'
      BY <3>1, <3>2 DEF LeaderRegistered
    <3>5. RegisteredLeads'
      BY <3>1, <3>2 DEF RegisteredLeads
    <3>6. CallShape' /\ RecordsTruthful'
      BY <3>1, <3>2, <3>3 DEF CallShape, RecordsTruthful
    <3>7. WaitersMatched'
      <4>1. \A e \in Calls : leader[e] # None => leader[e] \in Calls /\ leader[e] # c
        BY <3>1, <3>2 DEF WaitersMatched
      <4> QED
        BY <3>1, <3>2, <3>3, <4>1 DEF WaitersMatched
    <3>8. AnswersTrue'
      <4>1. leader[c] = None
        BY <3>2 DEF CallShape
      <4>2. outcome[c] = NoAnswer
        BY <3>2 DEF CallShape
      <4> QED
        BY <3>1, <3>2, <4>1, <4>2 DEF AnswersTrue
    <3> QED
      BY <3>4, <3>5, <3>6, <3>7, <3>8
  <2>3. CASE RejectJoin(c)
    <3> HIDE DEF TypeOK, LeaderRegistered, RegisteredLeads, CallShape, RecordsTruthful,
                 WaitersMatched, AnswersTrue
    <3>1. pc \in [Calls -> Points] /\ outcome \in [Calls -> Outcome]
      BY DEF TypeOK
    <3>2. /\ pc[c] = "idle" /\ pc' = [pc EXCEPT ![c] = "done"]
          /\ outcome' = [outcome EXCEPT ![c] = Answer("conflict", None)]
          /\ UNCHANGED <<store, inflight, req, loaded, leader, effect>>
      BY <2>3 DEF RejectJoin
    <3>3. LeaderRegistered' /\ RegisteredLeads'
      BY <3>1, <3>2 DEF LeaderRegistered, RegisteredLeads
    <3>4. CallShape' /\ RecordsTruthful'
      BY <3>1, <3>2 DEF CallShape, RecordsTruthful
    <3>5. WaitersMatched'
      BY <3>1, <3>2 DEF WaitersMatched
    <3>6. AnswersTrue'
      <4>1. outcome[c] = NoAnswer
        BY <3>2, SMTT(30) DEF CallShape
      <4> QED
        BY <3>1, <3>2, <4>1 DEF AnswersTrue
    <3> QED
      BY <3>3, <3>4, <3>5, <3>6
  <2>4. QED
    BY <1>2, <2>1, <2>2, <2>3 DEF Begin
<1>3. ASSUME NEW c \in Calls, Continue(c) PROVE Inv'
  <2>1. CASE Wake(c)
    BY <2>1, SMTT(30) DEF Wake, Shared
  <2>2. CASE Release(c)
    <3>1. LeaderRegistered'
      BY <2>2, SMTT(30) DEF Release
    <3>2. RegisteredLeads'
      BY <2>2, SMTT(30) DEF Release
    <3>3. CallShape' /\ RecordsTruthful'
      BY <2>2 DEF Release
    <3>4. WaitersMatched' /\ AnswersTrue'
      BY <2>2 DEF Release
    <3> QED
      BY <3>1, <3>2, <3>3, <3>4, SMTT(30)
  <2>3. CASE Load(c)
    <3>1. LeaderRegistered'
      BY <2>3 DEF Load
    <3>2. RegisteredLeads'
      BY <2>3 DEF Load
    <3>3. CallShape'
      BY <2>3 DEF Load
    <3>4. RecordsTruthful'
      BY <2>3 DEF Load
    <3>5. WaitersMatched'
      BY <2>3 DEF Load
    <3>6. AnswersTrue'
      BY <2>3 DEF Load
    <3>7. QED
      BY <3>1, <3>2, <3>3, <3>4, <3>5, <3>6
  <2>4. CASE Conflict(c)
    BY <2>4, SMTT(30) DEF Conflict, Settle, Discard
  <2>5. CASE Replay(c)
    BY <2>5, SMTT(30) DEF Replay, Settle, Discard, SameRequest, Unexpired
  <2>6. CASE Refuse(c)
    BY <2>6, SMTT(30) DEF Refuse, Settle, Discard
  <2>7. CASE StartRun(c)
    <3>1. LeaderRegistered' /\ RegisteredLeads'
      BY <2>7 DEF StartRun, Discard
    <3>2. CallShape'
      BY <2>7 DEF StartRun, Discard
    <3>3. RecordsTruthful'
      BY <2>7 DEF StartRun, Discard
    <3>4. WaitersMatched' /\ AnswersTrue'
      BY <2>7 DEF StartRun, Discard
    <3> QED
      BY <3>1, <3>2, <3>3, <3>4
  <2>8. CASE SaveMarker(c)
    <3>1. LeaderRegistered'
      BY <2>8 DEF SaveMarker, Written
    <3>2. RegisteredLeads'
      BY <2>8 DEF SaveMarker, Written
    <3>3. CallShape'
      BY <2>8 DEF SaveMarker, Written
    <3>4. RecordsTruthful'
      BY <2>8 DEF SaveMarker, Written
    <3>5. WaitersMatched'
      BY <2>8 DEF SaveMarker, Written
    <3>6. AnswersTrue'
      BY <2>8 DEF SaveMarker, Written
    <3>7. QED
      BY <3>1, <3>2, <3>3, <3>4, <3>5, <3>6
  <2>9. CASE Operate(c)
    <3>a. effect[c] # "recorded"
      BY <2>9 DEF Operate
    <3>b. effect \in [Calls -> Effects]
      OBVIOUS
    <3>0. \A d \in Calls : effect[d] = "recorded" => effect'[d] = "recorded"
      BY <2>9, <3>a, <3>b DEF Operate
    <3>1. LeaderRegistered'
      BY <2>9, <3>0 DEF Operate
    <3>2. RegisteredLeads'
      BY <2>9, <3>0 DEF Operate
    <3>3. CallShape'
      BY <2>9, <3>0 DEF Operate
    <3>4. RecordsTruthful'
      BY <2>9, <3>0 DEF Operate
    <3>5. WaitersMatched'
      BY <2>9, <3>0 DEF Operate
    <3>6. AnswersTrue'
      BY <2>9, <3>0 DEF Operate
    <3>7. QED
      BY <3>1, <3>2, <3>3, <3>4, <3>5, <3>6
  <2>10. CASE OperateUnkept(c)
    <3>1. LeaderRegistered'
      BY <2>10 DEF OperateUnkept
    <3>2. RegisteredLeads'
      BY <2>10 DEF OperateUnkept
    <3>3. CallShape'
      BY <2>10 DEF OperateUnkept
    <3>4. RecordsTruthful'
      BY <2>10 DEF OperateUnkept
    <3>5. WaitersMatched'
      BY <2>10 DEF OperateUnkept
    <3>6. AnswersTrue'
      BY <2>10 DEF OperateUnkept
    <3>7. QED
      BY <3>1, <3>2, <3>3, <3>4, <3>5, <3>6
  <2>11. CASE OperateUnserializable(c) \/ PredicateThrows(c)
    <3>a. effect[c] # "recorded" /\ effect \in [Calls -> Effects] /\ pc[c] = "operating"
      BY <2>11 DEF OperateUnserializable, PredicateThrows
    <3>0. \A d \in Calls : effect[d] = "recorded" => effect'[d] = "recorded"
      BY <2>11, <3>a DEF OperateUnserializable, PredicateThrows
    <3>b. \E answer \in {Answer("unserializable", None), Answer("failed", None)} :
             outcome' = [outcome EXCEPT ![c] = answer]
      BY <2>11 DEF OperateUnserializable, PredicateThrows, Settle
    <3>c. /\ outcome[c] = NoAnswer /\ outcome'[c].kind \in {"unserializable", "failed"}
          /\ \A d \in Calls \ {c} : outcome'[d] = outcome[d]
      BY <3>a, <3>b
    <3>d. /\ pc'[c] \in {"forgetting", "settling"} /\ \A d \in Calls \ {c} : pc'[d] = pc[d]
          /\ UNCHANGED <<store, inflight, req, loaded, leader>>
          /\ effect' = [effect EXCEPT ![c] = "performed"]
      BY <2>11 DEF OperateUnserializable, PredicateThrows, Settle
    <3>e. /\ \A d \in Calls : Settled(d) => pc'[d] \in {"settling", "done", "crashed"}
          /\ \A d \in Calls : Leading(d)' <=> Leading(d)
          /\ \A d \in Calls : pc'[d] = "idle" <=> pc[d] = "idle"
      BY <3>a, <3>d
    <3> HIDE DEF TypeOK, LeaderRegistered, RegisteredLeads, CallShape, RecordsTruthful,
                 WaitersMatched, Points, PendingAt, Record, Outcome
    <3>1. LeaderRegistered'
      BY <3>d, <3>e DEF LeaderRegistered
    <3>2. RegisteredLeads'
      BY <3>d, <3>e DEF RegisteredLeads, TypeOK
    <3>3. CallShape'
      <4>1. \A d \in Calls \ {c} : outcome'[d] = outcome[d] /\ effect'[d] = effect[d]
        BY <3>c, <3>d
      <4>2. effect'[c] = "performed" /\ leader[c] = None
        BY <3>a, <3>d DEF CallShape
      <4> QED
        BY <3>d, <4>1, <4>2 DEF CallShape
    <3>4. RecordsTruthful'
      BY <3>0, <3>d DEF RecordsTruthful, TypeOK, Record
    <3>5. WaitersMatched'
      BY <3>d, <3>e DEF WaitersMatched, TypeOK
    <3>6. AnswersTrue'
      <4> SUFFICES ASSUME NEW e \in Calls, NEW d, d = outcome'[e].by
                   PROVE  /\ outcome'[e].kind = "executed" => d = e /\ effect'[e] = "recorded"
                          /\ outcome'[e].kind = "unstored" => d = e
                          /\ outcome'[e].kind = "replayed" =>
                                /\ d \in Calls \ {e} /\ req[d].key = req[e].key
                                /\ req[d].fp = req[e].fp
                                /\ \/ effect'[d] = "recorded"
                                   \/ /\ outcome'[d].kind = "unstored" /\ leader[e] = d
                                      /\ pc'[d] \in {"settling", "done", "crashed"}
        BY <3>d
      <4>1. CASE e = c
        BY <3>c, <4>1
      <4>2. CASE e # c
        <5>1. outcome'[e] = outcome[e]
          BY <3>c, <4>2
        <5>2. ASSUME d \in Calls, outcome[d].kind = "unstored" PROVE outcome'[d] = outcome[d]
          BY <3>c, <5>2
        <5> HIDE DEF Settled
        <5> QED
          BY <3>0, <3>e, <5>1, <5>2
      <4> QED
        BY <4>1, <4>2
    <3>7. QED
      BY <3>1, <3>2, <3>3, <3>4, <3>5, <3>6
  <2>12. CASE Forget(c)
    BY <2>12, SMTT(30) DEF Forget
  <2>13. CASE SaveResult(c)
    BY <2>13, SMTT(30) DEF SaveResult, Settle, Written
  <2>14. QED
    BY <1>3, <2>1, <2>2, <2>3, <2>4, <2>5, <2>6, <2>7, <2>8, <2>9, <2>10, <2>11, <2>12, <2>13
    DEF Continue, Decide, OperationEnds
<1>4. ASSUME NEW c \in Calls, StoreFault(c) PROVE Inv'
  BY <1>4, SMTT(30) DEF StoreFault, Settle
<1>5. ASSUME NEW p \in Procs, Purge(p) PROVE Inv'
  <2>1. CASE PurgeStart(p)
    BY <2>1, SMTT(30) DEF PurgeStart, callVars
  <2>2. CASE PurgeSpare(p)
    BY <2>2, SMTT(30) DEF PurgeSpare, callVars
  <2>3. CASE PurgeCondemn(p)
    BY <2>3, SMTT(30) DEF PurgeCondemn, callVars
  <2>4. CASE PurgeDelete(p)
    BY <2>4, SMTT(30) DEF PurgeDelete, callVars
  <2>5. CASE PurgeEnd(p)
    BY <2>5, SMTT(30) DEF PurgeEnd, callVars
  <2>6. ASSUME NEW k \in Keys, PurgeLoad(p, k) PROVE Inv'
    BY <2>6, SMTT(30) DEF PurgeLoad, callVars
  <2>7. QED
    BY <1>5, <2>1, <2>2, <2>3, <2>4, <2>5, <2>6 DEF Purge
<1>6. ASSUME NEW p \in Procs, Crash(p) PROVE Inv'
  BY <1>6, SMTT(30) DEF Crash, Active
<1>7. CASE UNCHANGED vars
  BY <1>7 DEF vars, callVars
<1>8. QED
  BY <1>1, <1>2, <1>3, <1>4, <1>5, <1>6, <1>7 DEF Next

LEMMA InvCorrect == Spec => []Inv
BY InvInit, InvStep, PTL DEF Spec

\* In one process no two calls of a key are past the check of the inflight map
\* at once, whatever crashes, store faults, purges and other processes do.
THEOREM LeaderIsUnique == Spec => []OneLeader
<1>1. Inv => OneLeader
  BY DEF Inv, LeaderRegistered, OneLeader, SamePlace
<1>2. QED
  BY <1>1, InvCorrect, PTL

\* A replayed answer is the result of another call that really ran for the same
\* key and payload, for any number of processes that share the store.
THEOREM ReplayIsFaithful == Spec => []FaithfulReplay
<1>1. Inv => FaithfulReplay
  BY DEF Inv, AnswersTrue, FaithfulReplay
<1>2. QED
  BY <1>1, InvCorrect, PTL
-----------------------------------------------------------------------------
(* One process without purges. *)

LEMMA OneProcessInit == Init => OneProcessInv
BY Assumptions
DEF AllAssumptions, Init, OneProcessInv, NoSweeps, ClockBounds, StoreOwned, Guarded,
    AdmittedLate, RetentionWindow, Stands, NoSweep, SweepAt, Running, Writing

\* OneProcessInv is inductive relative to Inv: since one call leads for a key
\* and nothing else writes to the store, what a call loaded stays true until it
\* decides, and its own marker stays until it replaces it.
LEMMA OneProcessStep == OneProcess /\ Inv /\ OneProcessInv /\ [Next]_vars => OneProcessInv'
<1> SUFFICES ASSUME OneProcess, Inv, TypeOK', OneProcessInv, [Next]_vars PROVE OneProcessInv'
  BY TypeStep DEF Inv
<1>a. \A c, d \in Calls : Leading(c) /\ Leading(d) /\ req[c].key = req[d].key => c = d
  BY DEF OneProcess, Inv, LeaderRegistered, TypeOK, Requests
<1>b. TypeOK /\ CallShape
  BY DEF Inv
<1>c. \A d \in Calls : created[d] \in Nat /\ Protection(d) \in Nat \ {0}
  BY <1>b, Assumptions DEF AllAssumptions, TypeOK, Protection, Lesser
<1>d. \A c \in Calls :
         /\ pc[c] = "operating" => effect[c] = "none"
         /\ pc[c] = "forgetting" => effect[c] \in {"none", "performed"}
  BY <1>b DEF CallShape, TypeOK, Effects
<1>e. effect \in [Calls -> Effects]
  BY <1>b DEF TypeOK
<1> HIDE DEF Inv
<1> USE <1>a, <1>b, Assumptions
    DEF AllAssumptions, TypeOK, CallShape, OneProcessInv, NoSweeps, ClockBounds, StoreOwned,
        Guarded, AdmittedLate, RetentionWindow, Stands, Effects, Written, Mark, Protection, Lesser,
        Running, Writing, Leading, Points, PendingAt, Record, Requests, Goto
<1>1. CASE Tick
  BY <1>1, SMTT(30) DEF Tick, callVars
<1>2. ASSUME NEW c \in Calls, Begin(c) PROVE OneProcessInv'
  <2>1. CASE Lead(c)
    BY <2>1, SMTT(30) DEF Lead
  <2>2. CASE Join(c)
    BY <2>2, SMTT(30) DEF Join
  <2>3. CASE RejectJoin(c)
    BY <2>3, SMTT(30) DEF RejectJoin
  <2>4. QED
    BY <1>2, <2>1, <2>2, <2>3 DEF Begin
<1>3. ASSUME NEW c \in Calls, Continue(c) PROVE OneProcessInv'
  <2>1. CASE Wake(c)
    BY <2>1, SMTT(30) DEF Wake, Shared
  <2>2. CASE Release(c)
    BY <2>2, SMTT(30) DEF Release
  <2>3. CASE Load(c)
    <3>1. NoSweeps'
      BY <2>3 DEF Load
    <3>2. ClockBounds'
      BY <2>3 DEF Load
    <3>3. StoreOwned'
      BY <2>3 DEF Load
    <3>4. Guarded'
      BY <2>3 DEF Load
    <3>5. AdmittedLate'
      BY <2>3 DEF Load
    <3>6. RetentionWindow'
      BY <2>3 DEF Load
    <3>7. QED
      BY <3>1, <3>2, <3>3, <3>4, <3>5, <3>6
  <2>4. CASE Conflict(c)
    <3>1. NoSweeps'
      BY <2>4 DEF Conflict, Settle, Discard
    <3>2. ClockBounds'
      BY <2>4 DEF Conflict, Settle, Discard
    <3>3. StoreOwned'
      BY <2>4 DEF Conflict, Settle, Discard
    <3>4. Guarded'
      BY <2>4 DEF Conflict, Settle, Discard
    <3>5. AdmittedLate'
      BY <2>4 DEF Conflict, Settle, Discard
    <3>6. RetentionWindow'
      BY <2>4 DEF Conflict, Settle, Discard
    <3>7. QED
      BY <3>1, <3>2, <3>3, <3>4, <3>5, <3>6
  <2>5. CASE Replay(c)
    <3>1. NoSweeps'
      BY <2>5 DEF Replay, Settle, Discard
    <3>2. ClockBounds'
      BY <2>5 DEF Replay, Settle, Discard
    <3>3. StoreOwned'
      BY <2>5 DEF Replay, Settle, Discard
    <3>4. Guarded'
      BY <2>5 DEF Replay, Settle, Discard
    <3>5. AdmittedLate'
      BY <2>5 DEF Replay, Settle, Discard
    <3>6. RetentionWindow'
      BY <2>5 DEF Replay, Settle, Discard
    <3>7. QED
      BY <3>1, <3>2, <3>3, <3>4, <3>5, <3>6
  <2>6. CASE Refuse(c)
    <3>1. NoSweeps'
      BY <2>6 DEF Refuse, Settle, Discard
    <3>2. ClockBounds'
      BY <2>6 DEF Refuse, Settle, Discard
    <3>3. StoreOwned'
      BY <2>6 DEF Refuse, Settle, Discard
    <3>4. Guarded'
      BY <2>6 DEF Refuse, Settle, Discard
    <3>5. AdmittedLate'
      BY <2>6 DEF Refuse, Settle, Discard
    <3>6. RetentionWindow'
      BY <2>6 DEF Refuse, Settle, Discard
    <3>7. QED
      BY <3>1, <3>2, <3>3, <3>4, <3>5, <3>6
  <2>7. CASE StartRun(c)
    <3>a. effect[c] = "none"
      BY <2>7 DEF StartRun
    <3>b. \A d \in Calls : Stands(d) => created'[d] = created[d]
      BY <2>7, <3>a DEF StartRun
    <3>c. ASSUME NEW d \in Calls, req[d].key = req[c].key, Stands(d)
          PROVE  created[d] + Protection(d) <= now
      <4> SUFFICES ASSUME store[req[c].key] = Mark(d) PROVE created[d] + Protection(d) <= now
        BY <3>c
      <4>a. loaded[c] = Mark(d)
        BY <2>7 DEF StartRun
      <4>b. ~Unexpired(Mark(d)) \/ MayTakeOver(c)
        BY ONLY <2>7, <4>a DEF StartRun
      <4>c. CASE ~Unexpired(Mark(d))
        BY <1>c, <4>c DEF Unexpired
      <4>d. CASE MayTakeOver(c)
        BY <1>c, <4>a, <4>d DEF MayTakeOver, Stale
      <4>e. QED
        BY <4>b, <4>c, <4>d
    <3>d. now' = now /\ store' = store /\ effect' = effect /\ req' = req /\ created'[c] = now
      BY <2>7 DEF StartRun
    <3>1. NoSweeps'
      BY <2>7 DEF StartRun, Discard, SameRequest, Unexpired, MayTakeOver, Stale
    <3>2. ClockBounds'
      BY <2>7 DEF StartRun, Discard, SameRequest, Unexpired, MayTakeOver, Stale
    <3>3. StoreOwned'
      BY <2>7 DEF StartRun, Discard, SameRequest, Unexpired, MayTakeOver, Stale
    <3>4. Guarded'
      <4>1. \A d \in Calls : (Stands(d)' <=> Stands(d)) /\ Protection(d)' = Protection(d)
        BY <3>d
      <4>2. \A d \in Calls : Stands(d) => Mark(d)' = Mark(d)
        BY <3>b, <3>d
      <4> QED
        BY <3>b, <3>d, <4>1, <4>2
    <3>5. AdmittedLate'
      <4> SUFFICES ASSUME NEW e \in Calls, NEW d \in Calls, e # d,
                          pc'[e] \in Running, req[e].key = req[d].key, Stands(d)
                   PROVE  created[d] + Protection(d) <= created'[e]
        BY <3>b, <3>d
      <4>1. CASE e = c
        BY <3>c, <3>d, <4>1
      <4>2. CASE e # c
        BY <2>7, <4>2 DEF StartRun
      <4>3. QED
        BY <4>1, <4>2
    <3>e. pc'[c] = "marking" /\ \A d \in Calls \ {c} : pc'[d] = pc[d]
      BY <2>7 DEF StartRun
    <3>6. RetentionWindow'
      <4>1. \A d \in Calls : (Stands(d)' <=> Stands(d)) /\ Protection(d)' = Protection(d)
        BY <3>d
      <4>2. \A d \in Calls \ {c} : created'[d] = created[d]
        BY <2>7 DEF StartRun
      <4>3. ~ Stands(c)
        BY <3>a
      <4> SUFFICES ASSUME NEW d \in Calls, NEW e \in Calls, d # e, req[d].key = req[e].key,
                          Stands(d)',
                          pc'[e] = "operating" \/ (Stands(e)' /\ created'[d] <= created'[e])
                   PROVE  created'[d] + Protection(d)' <= created'[e]
        BY <3>d
      <4>4. Stands(d) /\ d # c /\ e # c
        BY <3>e, <4>1, <4>3
      <4>5. pc[e] = "operating" \/ (Stands(e) /\ created[d] <= created[e])
        BY <3>e, <4>1, <4>2, <4>4
      <4>6. created[d] + Protection(d) <= created[e]
        BY <4>4, <4>5
      <4> QED
        BY <4>1, <4>2, <4>4, <4>6
    <3>7. QED
      BY <3>1, <3>2, <3>3, <3>4, <3>5, <3>6
  <2>8. CASE SaveMarker(c)
    <3>a. effect[c] = "none" /\ pc[c] \in Running /\ created[c] <= now
      BY <2>8 DEF SaveMarker
    <3>b. ASSUME NEW d \in Calls, Stands(d)
          PROVE  created[d] + Protection(d) <= now \/ store'[req[d].key] = store[req[d].key]
      <4>1. CASE req[d].key = req[c].key
        <5>1. created[d] + Protection(d) <= created[c]
          BY <3>a, <3>b, <4>1
        <5>2. QED
          BY <1>c, <3>a, <5>1
      <4>2. CASE req[d].key # req[c].key
        BY <2>8, <4>2 DEF SaveMarker
      <4>3. QED
        BY <4>1, <4>2
    <3>1. NoSweeps'
      BY <2>8 DEF SaveMarker
    <3>2. ClockBounds'
      BY <2>8 DEF SaveMarker
    <3>3. StoreOwned'
      BY <2>8 DEF SaveMarker
    <3>4. Guarded'
      BY <2>8, <3>b DEF SaveMarker
    <3>5. AdmittedLate'
      BY <2>8 DEF SaveMarker
    <3>6. RetentionWindow'
      BY <2>8 DEF SaveMarker
    <3>7. QED
      BY <3>1, <3>2, <3>3, <3>4, <3>5, <3>6
  <2>9. CASE Operate(c) \/ OperateUnserializable(c) \/ PredicateThrows(c)
    <3>a. /\ pc[c] = "operating" /\ pc'[c] \in {"recording", "forgetting", "settling"}
          /\ \A e \in Calls \ {c} : pc'[e] = pc[e]
          /\ effect' = [effect EXCEPT ![c] = "performed"]
          /\ UNCHANGED <<now, store, req, loaded, created, sweep>>
      BY <2>9 DEF Operate, OperateUnserializable, PredicateThrows, Settle
    <3>b. /\ effect[c] = "none" /\ Stands(c)'
          /\ store[req[c].key] = Written(c, "in_progress")
          /\ \A e \in Calls \ {c} : effect'[e] = effect[e]
      <4>1. effect[c] = "none" /\ effect'[c] = "performed"
        BY ONLY <1>d, <1>e, <3>a
      <4>2. store[req[c].key] = Written(c, "in_progress")
        BY <3>a
      <4> QED
        BY <3>a, <4>1, <4>2
    <3>1. NoSweeps' /\ ClockBounds'
      BY <3>a
    <3>3. StoreOwned'
      <4>1. \A e \in Calls : /\ pc'[e] = "deciding" => pc[e] = "deciding"
                            /\ pc'[e] \in Writing => pc[e] \in Writing
                            /\ Written(e, "in_progress")' = Written(e, "in_progress")
        BY <3>a
      <4> HIDE DEF Writing, Written
      <4> QED
        BY <3>a, <4>1
    <3>4. Guarded'
      BY <3>a, <3>b
    <3>5. AdmittedLate'
      <4> SUFFICES ASSUME NEW e \in Calls, NEW d \in Calls, e # d, pc'[e] \in Running,
                          req[e].key = req[d].key, Stands(d)'
                   PROVE  created[d] + Protection(d) <= created[e]
        BY <3>a, <3>b
      <4>1. pc[e] \in Running
        BY <3>a
      <4>2. d # c
        \* Two running calls of one key are one call.
        BY <1>a, <3>a, <4>1
      <4> QED
        BY <3>b, <4>1, <4>2
    <3>6. RetentionWindow'
      <4> SUFFICES ASSUME NEW d \in Calls, NEW e \in Calls, d # e, req[d].key = req[e].key,
                          Stands(d)',
                          pc'[e] = "operating" \/ (Stands(e)' /\ created[d] <= created[e])
                   PROVE  created[d] + Protection(d) <= created[e]
        BY <3>a, <3>b
      <4>1. CASE d = c
        <5>1. pc[e] # "operating"
          BY <1>a, <3>a, <4>1
        <5>2. Stands(e) /\ created[c] <= created[e]
          BY <3>a, <3>b, <4>1, <5>1
        <5>3. created[e] + Protection(e) <= created[c]
          BY <3>a, <4>1, <5>2
        <5> QED
          BY <1>c, <5>2, <5>3
      <4>2. CASE d # c
        <5>1. pc[e] = "operating" \/ (Stands(e) /\ created[d] <= created[e])
          BY <3>a, <3>b
        <5> QED
          BY <3>b, <4>2, <5>1
      <4> QED
        BY <4>1, <4>2
    <3> QED
      BY <3>1, <3>3, <3>4, <3>5, <3>6
  <2>10. CASE OperateUnkept(c)
    <3>1. NoSweeps'
      BY <2>10 DEF OperateUnkept
    <3>2. ClockBounds'
      BY <2>10 DEF OperateUnkept
    <3>3. StoreOwned'
      BY <2>10 DEF OperateUnkept
    <3>4. Guarded'
      BY <2>10 DEF OperateUnkept
    <3>5. AdmittedLate'
      BY <2>10 DEF OperateUnkept
    <3>6. RetentionWindow'
      BY <2>10 DEF OperateUnkept
    <3>7. QED
      BY <3>1, <3>2, <3>3, <3>4, <3>5, <3>6
  <2>12. CASE Forget(c)
    <3>a. /\ pc[c] = "forgetting" /\ created[c] <= now /\ effect[c] \in {"none", "performed"}
          /\ UNCHANGED <<now, req, created>>
          /\ effect'[c] \in {"none", "withdrawn"}
          /\ \A d \in Calls \ {c} : effect'[d] = effect[d]
      <4>1. pc[c] = "forgetting" /\ created[c] <= now /\ effect[c] \in {"none", "performed"}
        BY <2>12, <1>d DEF Forget
      <4>2. effect' = [effect EXCEPT ![c] = IF @ = "performed" THEN "withdrawn" ELSE @]
            /\ UNCHANGED <<now, req, created>>
        BY <2>12 DEF Forget
      <4> QED
        BY ONLY <1>e, <4>1, <4>2
    <3>b. ASSUME NEW d \in Calls \ {c}, Stands(d)
          PROVE  created[d] + Protection(d) <= now \/ store'[req[d].key] = store[req[d].key]
      <4>1. CASE req[d].key = req[c].key
        <5>1. created[d] + Protection(d) <= created[c]
          BY <3>a, <3>b, <4>1
        <5>2. QED
          BY <1>c, <3>a, <5>1
      <4>2. CASE req[d].key # req[c].key
        BY <2>12, <4>2 DEF Forget
      <4>3. QED
        BY <4>1, <4>2
    <3>c. \A d \in Calls : Stands(d)' => d # c /\ Stands(d) /\ effect'[d] = effect[d]
      BY <3>a
    <3>1. NoSweeps'
      BY <2>12 DEF Forget
    <3>2. ClockBounds'
      BY <3>a
    <3>3. StoreOwned'
      <4>1. /\ pc'[c] = "settling" /\ loaded' = loaded
            /\ \A e \in Calls \ {c} : pc'[e] = pc[e]
            /\ \A k \in Keys \ {req[c].key} : store'[k] = store[k]
            /\ \A e \in Calls : Written(e, "in_progress")' = Written(e, "in_progress")
        BY <2>12, <3>a DEF Forget
      <4>2. \A e \in Calls \ {c} : pc'[e] \in {"deciding"} \cup Writing =>
               req[e].key # req[c].key
        \* c leads for its key, so no other call deciding or writing has it.
        BY <1>a, <3>a, <4>1
      <4>3. \A e \in Calls \ {c} : pc'[e] \in {"deciding"} \cup Writing =>
               store'[req[e].key] = store[req[e].key]
        BY <4>1, <4>2
      <4> HIDE DEF Written, TypeOK, Record
      <4> QED
        BY <3>a, <4>1, <4>3
    <3>4. Guarded'
      BY <3>a, <3>b, <3>c
    <3>5. AdmittedLate'
      BY <2>12, <3>a, <3>c DEF Forget
    <3>6. RetentionWindow'
      BY <2>12, <3>a, <3>c DEF Forget
    <3>7. QED
      BY <3>1, <3>2, <3>3, <3>4, <3>5, <3>6
  <2>13. CASE SaveResult(c)
    <3>a. \A d \in Calls : d # c => effect'[d] = effect[d]
      BY <2>13 DEF SaveResult
    <3>b. ASSUME NEW d \in Calls, d # c, req[d].key = req[c].key, Stands(d)
          PROVE  created[d] + Protection(d) <= created[c]
      BY <2>13, <3>b DEF SaveResult
    <3>1. NoSweeps'
      BY <2>13 DEF SaveResult, Settle
    <3>2. ClockBounds'
      BY <2>13 DEF SaveResult, Settle
    <3>3. StoreOwned'
      BY <2>13 DEF SaveResult, Settle
    <3>4. Guarded'
      BY <2>13 DEF SaveResult, Settle
    <3>5. AdmittedLate'
      BY <2>13 DEF SaveResult, Settle
    <3>6. RetentionWindow'
      <4>0. /\ pc[c] = "recording" /\ pc'[c] = "settling"
            /\ \A e \in Calls \ {c} : pc'[e] = pc[e]
            /\ UNCHANGED <<req, created>> /\ Protection(c)' = TTL
            /\ \A e \in Calls \ {c} : (Stands(e)' <=> Stands(e)) /\ Protection(e)' = Protection(e)
        BY <2>13, <3>a DEF SaveResult, Settle
      <4> SUFFICES ASSUME NEW d \in Calls, NEW e \in Calls, d # e, req[d].key = req[e].key,
                          Stands(d)',
                          pc'[e] = "operating" \/ (Stands(e)' /\ created[d] <= created[e])
                   PROVE  created[d] + Protection(d)' <= created[e]
        BY <4>0
      <4>1. CASE d = c
        <5>1. pc[e] # "operating"
          BY <1>a, <4>0, <4>1
        <5>2. Stands(e) /\ created[c] <= created[e]
          BY <4>0, <4>1, <5>1
        <5>3. created[e] + Protection(e) <= created[c]
          BY <3>b, <4>1, <5>2
        <5>4. QED
          BY <1>c, <4>1, <5>2, <5>3
      <4>2. CASE e = c
        BY <3>b, <4>0, <4>2
      <4>3. CASE d # c /\ e # c
        BY <4>0, <4>3
      <4>4. QED
        BY <4>1, <4>2, <4>3
    <3>7. QED
      BY <3>1, <3>2, <3>3, <3>4, <3>5, <3>6
  <2>14. QED
    BY <1>3, <2>1, <2>2, <2>3, <2>4, <2>5, <2>6, <2>7, <2>8, <2>9, <2>10, <2>12, <2>13
    DEF Continue, Decide, OperationEnds
<1>4. ASSUME NEW c \in Calls, StoreFault(c) PROVE OneProcessInv'
  BY <1>4, SMTT(30) DEF StoreFault, Settle
<1>5. ASSUME NEW p \in Procs, Purge(p) PROVE OneProcessInv'
  \* No process purges, so no step of a sweep is enabled.
  <2>1. FALSE
    BY <1>5 DEF OneProcess, Purge, PurgeStart, PurgeSpare, PurgeCondemn, PurgeDelete,
                PurgeEnd, PurgeLoad
  <2>2. QED
    BY <2>1
<1>6. ASSUME NEW p \in Procs, Crash(p) PROVE OneProcessInv'
  BY <1>6, SMTT(30) DEF Crash, Active, NoSweep, SweepAt
<1>7. CASE UNCHANGED vars
  BY <1>7, SMTT(30) DEF vars, callVars
<1>8. QED
  BY <1>1, <1>2, <1>3, <1>4, <1>5, <1>6, <1>7 DEF Next

\* One process that runs no purge, crashing and restarting as it may, starts an
\* execution of a key only once the protection of every earlier one is over: TTL
\* after the admission of a recorded one, and the lesser of TTL and StaleAfter
\* after the admission of one whose record was lost.  The exception is an execution
\* whose result could not be serialized: once its marker is deleted (lines 140-147)
\* it protects nothing.
THEOREM OneProcessRetains ==
    ASSUME OneProcess
    PROVE  Spec => []RetentionWindow
<1>1. Init => OneProcessInv
  BY OneProcessInit
<1>2. Inv /\ OneProcessInv /\ [Next]_vars => OneProcessInv'
  BY OneProcessStep
<1>3. OneProcessInv => RetentionWindow
  BY DEF OneProcessInv
<1>4. QED
  BY <1>1, <1>2, <1>3, InvCorrect, PTL DEF Spec
-----------------------------------------------------------------------------
(* Refusals. *)

\* The marker r under key k is one that its call wrote.
TracedTo(r, k) ==
    /\ req[r.by].key = k /\ req[r.by].fp = r.fp /\ created[r.by] = r.createdAt

\* A marker in the store belongs to a call that has yet to replace it, or never
\* will; one that was loaded, to another call, which if it is of the same process
\* is over without having removed it.
MarkersTraced ==
    /\ \A k \in Keys : store[k].status = "in_progress" =>
          /\ TracedTo(store[k], k)
          /\ \/ pc[store[k].by] \in Writing \cup {"crashed"}
             \/ pc[store[k].by] \in {"settling", "done"} /\ outcome[store[k].by].kind = "failed"
    /\ \A c \in Calls : pc[c] = "deciding" /\ loaded[c].status = "in_progress" =>
          /\ loaded[c].by # c /\ TracedTo(loaded[c], req[c].key)
          /\ pc[loaded[c].by] \in Writing \cup {"settling", "done", "crashed"}
          /\ req[loaded[c].by].proc = req[c].proc =>
                \/ pc[loaded[c].by] = "crashed"
                \/ pc[loaded[c].by] = "done" /\ outcome[loaded[c].by].kind = "failed"

\* What is not to be stored has not taken effect, what is being recorded has.
EffectsInStep ==
    \A c \in Calls :
        /\ outcome[c].kind = "unstored" => effect[c] = "none"
        /\ pc[c] = "recording" => effect[c] = "performed"

LEMMA TracedInit == Init => MarkersTraced /\ EffectsInStep
BY DEF Init, MarkersTraced, EffectsInStep, NoRecord, NoAnswer, Answer

\* Two calls of one process do not lead for one key.
LEMMA LeadersApart ==
    ASSUME Inv, NEW c \in Calls, NEW d \in Calls, SamePlace(c, d), Leading(c), Leading(d)
    PROVE  c = d
BY SMTT(30) DEF Inv, LeaderRegistered, SamePlace

LEMMA TracedStep == Inv /\ MarkersTraced /\ EffectsInStep /\ [Next]_vars
                        => MarkersTraced' /\ EffectsInStep'
<1> SUFFICES ASSUME Inv, TypeOK', MarkersTraced, EffectsInStep, [Next]_vars
             PROVE  MarkersTraced' /\ EffectsInStep'
  BY TypeStep DEF Inv
<1>a. TypeOK /\ CallShape
  BY DEF Inv
<1>b. \A k \in Keys : store[k].status = "in_progress" => store[k] \in Record
  BY <1>a DEF TypeOK, NoRecord
<1>c. \A c \in Calls : loaded[c].status = "in_progress" => loaded[c] \in Record
  BY <1>a DEF TypeOK, NoRecord
<1> USE <1>a, <1>b, <1>c, Assumptions
    DEF AllAssumptions, TypeOK, CallShape, MarkersTraced, EffectsInStep, TracedTo,
        Writing, Leading, Points, PendingAt, Record, Requests, Outcome, Goto, Answer, NoAnswer,
        NoRecord, Effects
<1>1. CASE Tick
  BY <1>1, SMTT(30) DEF Tick, callVars
<1>2. ASSUME NEW c \in Calls, Begin(c) PROVE MarkersTraced' /\ EffectsInStep'
  <2>1. CASE Lead(c)
    BY <2>1, SMTT(30) DEF Lead
  <2>2. CASE Join(c)
    BY <2>2, SMTT(30) DEF Join
  <2>3. CASE RejectJoin(c)
    BY <2>3, SMTT(30) DEF RejectJoin
  <2>4. QED
    BY <1>2, <2>1, <2>2, <2>3 DEF Begin
<1>3. ASSUME NEW c \in Calls, Continue(c) PROVE MarkersTraced' /\ EffectsInStep'
  <2>1. CASE Wake(c)
    BY <2>1, SMTT(30) DEF Wake, Shared
  <2>2. CASE Release(c)
    BY <2>2, SMTT(30) DEF Release
  <2>3. CASE Load(c)
    <3> DEFINE d == store[req[c].key].by
    <3>1. ASSUME store[req[c].key].status = "in_progress"
          PROVE  /\ d \in Calls /\ d # c /\ TracedTo(store[req[c].key], req[c].key)
                 /\ pc[d] \in Writing \cup {"settling", "done", "crashed"}
                 /\ req[d].proc = req[c].proc =>
                       \/ pc[d] = "crashed"
                       \/ pc[d] = "done" /\ outcome[d].kind = "failed"
      <4>1. /\ d \in Calls /\ TracedTo(store[req[c].key], req[c].key)
            /\ \/ pc[d] \in Writing \cup {"crashed"}
               \/ pc[d] \in {"settling", "done"} /\ outcome[d].kind = "failed"
        BY <3>1
      <4>2. pc[c] = "loading"
        BY <2>3, SMTT(30) DEF Load
      <4>3. d # c
        BY <4>1, <4>2
      <4>4. ASSUME req[d].proc = req[c].proc PROVE ~Leading(d)
        <5>1. req[d].key = req[c].key
          BY <4>1
        <5> HIDE DEF AllAssumptions, TypeOK, CallShape, MarkersTraced, EffectsInStep, d
        <5> QED
          BY <4>1, <4>2, <4>3, <4>4, <5>1, LeadersApart, SMTT(30) DEF SamePlace
      <4> QED
        BY <4>1, <4>3, <4>4
    <3>2. MarkersTraced'
      <4>1. /\ pc \in [Calls -> Points] /\ loaded \in [Calls -> Record \cup {NoRecord}]
            /\ pc[c] = "loading" /\ pc' = [pc EXCEPT ![c] = "deciding"]
            /\ loaded' = [loaded EXCEPT ![c] = store[req[c].key]]
            /\ UNCHANGED <<store, req, created, outcome>>
        BY <2>3 DEF Load
      <4> HIDE DEF TypeOK, CallShape, EffectsInStep, Points, Record, NoRecord
      <4>2. pc'[c] = "deciding" /\ loaded'[c] = store[req[c].key]
        BY <4>1
      <4>3. \A e \in Calls \ {c} : pc'[e] = pc[e] /\ loaded'[e] = loaded[e]
        BY <4>1
      <4>4. \A k \in Keys : store[k].status = "in_progress" => store[k].by \in Calls \ {c}
        <5>1. \A k \in Keys : store[k].status = "in_progress" => store[k].by \in Calls
          BY DEF Record
        <5> QED
          BY <4>1, <5>1
      <4>5. \A e \in Calls \ {c} : pc[e] = "deciding" /\ loaded[e].status = "in_progress" =>
               loaded[e].by \in Calls \ {c}
        <5>1. \A e \in Calls : loaded[e].status = "in_progress" => loaded[e].by \in Calls
          BY DEF Record
        <5> QED
          BY <4>1, <5>1
      <4>6. ASSUME NEW k \in Keys, store'[k].status = "in_progress"
            PROVE  /\ TracedTo(store[k], k)'
                   /\ \/ pc'[store'[k].by] \in Writing \cup {"crashed"}
                      \/ /\ pc'[store'[k].by] \in {"settling", "done"}
                         /\ outcome'[store'[k].by].kind = "failed"
        BY <4>1, <4>3, <4>4, <4>6
      <4>7. ASSUME NEW e \in Calls, pc'[e] = "deciding", loaded'[e].status = "in_progress"
            PROVE  /\ loaded'[e].by # e /\ TracedTo(loaded[e], req[e].key)'
                   /\ pc'[loaded'[e].by] \in Writing \cup {"settling", "done", "crashed"}
                   /\ req'[loaded'[e].by].proc = req'[e].proc =>
                         \/ pc'[loaded'[e].by] = "crashed"
                         \/ pc'[loaded'[e].by] = "done" /\ outcome'[loaded'[e].by].kind = "failed"
        <5>1. CASE e = c
          BY <3>1, <4>1, <4>2, <4>3, <4>7, <5>1
        <5>2. CASE e # c
          BY <4>1, <4>3, <4>5, <4>7, <5>2
        <5> QED
          BY <5>1, <5>2, SMTT(30)
      <4> HIDE DEF TracedTo
      <4> QED
        BY <4>6, <4>7
    <3>3. EffectsInStep'
      BY <2>3 DEF Load
    <3> QED
      BY <3>2, <3>3, SMTT(30)
  <2>4. CASE Conflict(c)
    BY <2>4, SMTT(30) DEF Conflict, Settle, Discard
  <2>5. CASE Replay(c)
    BY <2>5, SMTT(30) DEF Replay, Settle, Discard
  <2>6. CASE Refuse(c)
    BY <2>6, SMTT(30) DEF Refuse, Settle, Discard
  <2>7. CASE StartRun(c)
    BY <2>7, SMTT(30) DEF StartRun, Discard
  <2>8. CASE SaveMarker(c)
    BY <2>8, SMTT(30) DEF SaveMarker, Written
  <2>9. CASE Operate(c)
    <3>1. EffectsInStep'
      BY <2>9 DEF Operate
    <3>2. MarkersTraced'
      BY <2>9, SMTT(30) DEF Operate
    <3> QED
      BY <3>1, <3>2
  <2>10. CASE OperateUnkept(c)
    <3>1. effect[c] = "none" /\ effect' = effect /\ pc[c] = "operating"
      BY <2>10 DEF OperateUnkept
    <3>2. EffectsInStep'
      BY <2>10, <3>1 DEF OperateUnkept
    <3>3. MarkersTraced'
      BY <2>10, <3>1, SMTT(30) DEF OperateUnkept
    <3> QED
      BY <3>2, <3>3
  <2>11. CASE OperateUnserializable(c) \/ PredicateThrows(c)
    <3>1. /\ pc[c] = "operating" /\ pc'[c] \in {"forgetting", "settling"}
          /\ pc'[c] = "settling" => outcome'[c].kind = "failed"
          /\ outcome'[c].kind # "unstored" /\ outcome[c] = NoAnswer
          /\ effect' = [effect EXCEPT ![c] = "performed"]
          /\ \A d \in Calls \ {c} : pc'[d] = pc[d] /\ outcome'[d] = outcome[d]
          /\ UNCHANGED <<store, req, loaded, created>>
      BY <2>11 DEF OperateUnserializable, PredicateThrows, Settle
    <3>2. EffectsInStep'
      BY <3>1
    <3>3. MarkersTraced'
      <4>1. ASSUME NEW k \in Keys, store'[k].status = "in_progress"
            PROVE  /\ TracedTo(store[k], k)'
                   /\ \/ pc'[store'[k].by] \in Writing \cup {"crashed"}
                      \/ /\ pc'[store'[k].by] \in {"settling", "done"}
                         /\ outcome'[store'[k].by].kind = "failed"
        <5>1. store[k].by \in Calls /\ TracedTo(store[k], k)
          BY <3>1, <4>1
        <5>2. CASE store[k].by = c
          BY <3>1, <4>1, <5>1, <5>2
        <5>3. CASE store[k].by # c
          BY <3>1, <4>1, <5>1, <5>3
        <5> QED
          BY <5>2, <5>3
      <4>2. ASSUME NEW e \in Calls, pc'[e] = "deciding", loaded'[e].status = "in_progress"
            PROVE  /\ loaded'[e].by # e /\ TracedTo(loaded[e], req[e].key)'
                   /\ pc'[loaded'[e].by] \in Writing \cup {"settling", "done", "crashed"}
                   /\ req'[loaded'[e].by].proc = req'[e].proc =>
                         \/ pc'[loaded'[e].by] = "crashed"
                         \/ pc'[loaded'[e].by] = "done" /\ outcome'[loaded'[e].by].kind = "failed"
        <5>1. e # c /\ pc[e] = "deciding" /\ loaded'[e] = loaded[e] /\ loaded[e].by \in Calls
          BY <3>1, <4>2
        <5>2. CASE loaded[e].by = c
          BY <3>1, <4>2, <5>1, <5>2
        <5>3. CASE loaded[e].by # c
          BY <3>1, <4>2, <5>1, <5>3
        <5> QED
          BY <5>2, <5>3
      <4> HIDE DEF TracedTo
      <4> QED
        BY <4>1, <4>2
    <3> QED
      BY <3>2, <3>3
  <2>12. CASE Forget(c)
    BY <2>12, SMTT(30) DEF Forget
  <2>13. CASE SaveResult(c)
    BY <2>13, SMTT(30) DEF SaveResult, Settle, Written
  <2>14. QED
    BY <1>3, <2>1, <2>2, <2>3, <2>4, <2>5, <2>6, <2>7, <2>8, <2>9, <2>10, <2>11, <2>12, <2>13
    DEF Continue, Decide, OperationEnds
<1>4. ASSUME NEW c \in Calls, StoreFault(c) PROVE MarkersTraced' /\ EffectsInStep'
  BY <1>4, SMTT(30) DEF StoreFault, Settle
<1>5. ASSUME NEW p \in Procs, Purge(p) PROVE MarkersTraced' /\ EffectsInStep'
  <2>1. CASE PurgeDelete(p)
    BY <2>1, SMTT(30) DEF PurgeDelete, callVars
  <2>2. UNCHANGED <<now, store, inflight, req, callVars>> \/ PurgeDelete(p)
    BY <1>5 DEF Purge, PurgeStart, PurgeSpare, PurgeCondemn, PurgeEnd, PurgeLoad
  <2>3. QED
    BY <2>1, <2>2 DEF callVars
<1>6. ASSUME NEW p \in Procs, Crash(p) PROVE MarkersTraced' /\ EffectsInStep'
  <2>1. MarkersTraced'
    <3>1. /\ pc' = [c \in Calls |-> IF c \in Active(p) THEN "crashed" ELSE pc[c]]
          /\ loaded' = [c \in Calls |-> IF c \in Active(p) THEN NoRecord ELSE loaded[c]]
          /\ UNCHANGED <<store, req, created, outcome>>
      BY <1>6 DEF Crash
    <3>2. \A c \in Calls :
             \/ pc'[c] = "crashed" /\ loaded'[c] = NoRecord
             \/ pc'[c] = pc[c] /\ loaded'[c] = loaded[c]
      BY <3>1
    <3>3. /\ \A k \in Keys : store[k].status = "in_progress" => store[k].by \in Calls
          /\ \A c \in Calls : loaded[c].status = "in_progress" => loaded[c].by \in Calls
      BY DEF Record
    <3> HIDE DEF TypeOK, CallShape, EffectsInStep, Points, Record
    <3> QED
      BY <3>1, <3>2, <3>3, SMTT(30)
  <2>2. EffectsInStep'
    BY <1>6 DEF Crash, Active
  <2> QED
    BY <2>1, <2>2
<1>7. CASE UNCHANGED vars
  BY <1>7 DEF vars, callVars
<1>8. QED
  BY <1>1, <1>2, <1>3, <1>4, <1>5, <1>6, <1>7 DEF Next

LEMMA TracedCorrect == Spec => [](Inv /\ MarkersTraced /\ EffectsInStep)
BY InvInit, InvStep, TracedInit, TracedStep, PTL DEF Spec

\* A call is refused only because of a young marker of its key and payload whose
\* call it could not have waited for (lines 116-120), for any number of processes.
THEOREM RefusalsAreJustified == Spec => RefusalJustified
<1> DEFINE Justified ==
      \A c \in Calls : pc[c] = "deciding" /\ outcome'[c].kind = "in_progress" =>
          \E d \in Calls \ {c} :
             /\ req[d].key = req[c].key /\ req[d].fp = req[c].fp
             /\ created[d] + StaleAfter > now
             /\ Unwaitable(d, c)
<1>1. ASSUME Inv, MarkersTraced, [Next]_vars PROVE [Justified]_vars
  <2> SUFFICES ASSUME NEW c \in Calls, pc[c] = "deciding", outcome'[c].kind = "in_progress"
               PROVE  \E d \in Calls \ {c} :
                         /\ req[d].key = req[c].key /\ req[d].fp = req[c].fp
                         /\ created[d] + StaleAfter > now
                         /\ Unwaitable(d, c)
    OBVIOUS
  <2>1. TypeOK /\ CallShape /\ outcome[c] = NoAnswer
    BY <1>1 DEF Inv, CallShape
  <2>2. Refuse(c)
    <3>1. outcome'[c] # NoAnswer /\ outcome'[c] # outcome[c]
      BY <2>1 DEF NoAnswer, Answer
    <3>2. PICK e \in Calls : Begin(e) \/ Continue(e) \/ StoreFault(e)
      BY <1>1, <3>1 DEF Next, vars, callVars, Tick, Purge, PurgeStart, PurgeLoad, PurgeSpare,
                        PurgeCondemn, PurgeDelete, PurgeEnd, Crash
    <3>3. CASE e # c
      \* No step of another call touches the outcome of c.
      <4>1. outcome'[c] = outcome[c]
        BY <2>1, <3>2, <3>3, SMTT(30)
           DEF TypeOK, Begin, Continue, Lead, Join, RejectJoin, Wake, Release, Load, Decide,
               Conflict, Replay, Refuse, StartRun, SaveMarker, OperationEnds, Operate,
               OperateUnkept, OperateUnserializable, PredicateThrows, Forget, SaveResult,
               StoreFault, Settle
      <4> QED
        BY <3>1, <4>1
    <3>4. CASE e = c
      <4>1. Decide(c)
        BY <3>2, <3>4
           DEF Begin, Continue, Lead, Join, RejectJoin, Wake, Release, Load, SaveMarker,
               OperationEnds, Operate, OperateUnkept, OperateUnserializable, PredicateThrows,
               Forget, SaveResult, StoreFault
      <4>2. outcome'[c] = outcome[c] \/ outcome'[c].kind \in {"conflict", "replayed"} \/ Refuse(c)
        BY <2>1, <4>1 DEF Decide, Conflict, Replay, StartRun, Settle, Answer, TypeOK
      <4> QED
        BY <3>1, <4>2
    <3> QED
      BY <3>3, <3>4
  <2> DEFINE d == loaded[c].by
  <2>3. /\ loaded[c] \in Record /\ loaded[c].status = "in_progress" /\ loaded[c].fp = req[c].fp
        /\ ~Stale(loaded[c])
    BY <2>1, <2>2 DEF Refuse, SameRequest, TypeOK, NoRecord
  <2>4. d \in Calls \ {c} /\ TracedTo(loaded[c], req[c].key) /\ Unwaitable(d, c)
    BY <1>1, <2>3 DEF MarkersTraced, Record, Unwaitable
  <2>5. created[d] + StaleAfter > now
    BY <2>1, <2>3, <2>4, Assumptions DEF TracedTo, Stale, TypeOK, AllAssumptions, Record
  <2> QED
    BY <2>3, <2>4, <2>5 DEF TracedTo
<1>2. RefusalJustified <=> [][Justified]_vars
  BY DEF RefusalJustified
<1> QED
  BY <1>1, <1>2, TracedCorrect, PTL DEF Spec
-----------------------------------------------------------------------------
(* One process without purges keeps the promise of AtMostOnceExecution. *)

Withdrawals == {c \in Calls : effect[c] = "withdrawn"}
RanAt == [c \in Calls |-> IF effect[c] = "none" THEN None ELSE created[c]]
Replies == [c \in Calls |-> ReplyTo(c)]

\* Only the result of a recorded execution is handed over.
HandedOverRecorded ==
    \A c \in Calls : \A d : ReplyTo(c) = Promise!Result(d) =>
        /\ pc[c] = "done" /\ d \in Calls /\ effect[d] = "recorded"
        /\ req[d].key = req[c].key /\ req[d].fp = req[c].fp

LEMMA HandedOverIsRecorded == Inv /\ EffectsInStep => HandedOverRecorded
<1> SUFFICES ASSUME Inv, EffectsInStep, NEW c \in Calls, NEW d, ReplyTo(c) = Promise!Result(d)
             PROVE  /\ pc[c] = "done" /\ d \in Calls /\ effect[d] = "recorded"
                    /\ req[d].key = req[c].key /\ req[d].fp = req[c].fp
  BY DEF HandedOverRecorded
<1>1. /\ pc[c] = "done" /\ outcome[c].kind \in {"executed", "replayed"}
      /\ effect[outcome[c].by] # "none" /\ outcome[c].by = d
  <2>1. ReplyTo(c).kind = "result" /\ ReplyTo(c).by = d
    BY DEF Promise!Result
  <2>2. pc[c] # "done" => ReplyTo(c).kind = "none"
    BY DEF ReplyTo
  <2>3. pc[c] = "done" /\ ~(outcome[c].kind \in {"executed", "replayed"}
                              /\ effect[outcome[c].by] # "none") => ReplyTo(c).kind = "declined"
    BY DEF ReplyTo
  <2>4. pc[c] = "done" /\ outcome[c].kind \in {"executed", "replayed"}
           /\ effect[outcome[c].by] # "none" => ReplyTo(c).by = outcome[c].by
    BY DEF ReplyTo
  <2> QED
    BY <2>1, <2>2, <2>3, <2>4
<1>2. CASE outcome[c].kind = "executed"
  BY <1>1, <1>2 DEF Inv, AnswersTrue
<1>3. CASE outcome[c].kind = "replayed"
  <2>1. /\ d \in Calls \ {c} /\ req[d].key = req[c].key /\ req[d].fp = req[c].fp
        /\ effect[d] = "recorded" \/ outcome[d].kind = "unstored"
    BY <1>1, <1>3 DEF Inv, AnswersTrue
  <2> QED
    BY <1>1, <2>1 DEF EffectsInStep
<1> QED
  BY <1>1, <1>2, <1>3

\* The reply to a call that has none yet.
LEMMA Unreplied ==
    ASSUME NEW c \in Calls
    PROVE  Replies[c] = Promise!NoReply <=> pc[c] # "done"
BY DEF Replies, ReplyTo, Promise!NoReply

LEMMA PromiseInit == Init => Promise!Init
<1> SUFFICES ASSUME Init PROVE Promise!Init
  OBVIOUS
<1>1. \A c \in Calls : ReplyTo(c) = Promise!NoReply
  BY DEF Init, ReplyTo, Promise!NoReply
<1> QED
  BY <1>1 DEF Init, Promise!Init

\* A step that answers c settles its reply and touches nothing else the promise
\* is about.
LEMMA AnswersCall ==
    ASSUME Inv', EffectsInStep', Inv, EffectsInStep, NEW c \in Calls,
           pc[c] # "done", pc'[c] = "done",
           \A e \in Calls \ {c} : pc'[e] = pc[e] /\ outcome'[e] = outcome[e],
           UNCHANGED <<now, req, created, effect>>
    PROVE  Promise!Next
<1>1. RanAt' = RanAt /\ Withdrawals' = Withdrawals
  BY DEF RanAt, Withdrawals
<1>2. \A e \in Calls \ {c} : ReplyTo(e)' = ReplyTo(e)
  BY DEF ReplyTo
<1>3. Replies' = [Replies EXCEPT ![c] = ReplyTo(c)']
  BY <1>2 DEF Replies
<1>4. Replies[c] = Promise!NoReply
  BY Unreplied
<1>5. CASE \E d : ReplyTo(c)' = Promise!Result(d)
  <2>1. PICK d : ReplyTo(c)' = Promise!Result(d)
    BY <1>5
  <2>2. /\ d \in Calls /\ effect'[d] = "recorded"
        /\ req'[d].key = req'[c].key /\ req'[d].fp = req'[c].fp
    <3>1. ReplyTo(c)' = Promise!Result(d)'
      BY <2>1 DEF Promise!Result
    <3>2. HandedOverRecorded'
      BY HandedOverIsRecorded, PTL
    <3> QED
      BY <3>1, <3>2 DEF HandedOverRecorded
  <2>3. RanAt[d] # None
    BY <2>2, NoneAssumption DEF RanAt, Inv, TypeOK
  <2>4. Promise!Deliver(c, d)
    BY <1>1, <1>3, <1>4, <2>1, <2>2, <2>3
       DEF Promise!Deliver, Promise!Performed, RanAt, Replies, Withdrawals
  <2> QED
    BY <2>2, <2>4 DEF Promise!Next
<1>6. CASE ~ \E d : ReplyTo(c)' = Promise!Result(d)
  <2>1. ReplyTo(c)' = Promise!Declined
    <3>1. ReplyTo(c)' = Promise!Declined
             \/ ReplyTo(c)' = [kind |-> "result", by |-> outcome'[c].by]
      BY DEF ReplyTo, Promise!Declined
    <3> QED
      BY <1>6, <3>1 DEF Promise!Result
  <2>2. Promise!Decline(c)
    BY <1>1, <1>3, <1>4, <2>1 DEF Promise!Decline, RanAt, Replies, Withdrawals
  <2> QED
    BY <2>2 DEF Promise!Next
<1> QED
  BY <1>5, <1>6

\* A step that answers nobody and admits or performs nothing is not seen.
LEMMA UnseenStep ==
    ASSUME UNCHANGED <<now, req>>,
           \A c \in Calls : effect[c] # "none" => created'[c] = created[c],
           \A c \in Calls : (effect'[c] = "none") <=> (effect[c] = "none"),
           \A c \in Calls : (effect'[c] = "withdrawn") <=> (effect[c] = "withdrawn"),
           Inv,
           \A c \in Calls : (pc'[c] = "done") <=> (pc[c] = "done"),
           \A c \in Calls : pc[c] = "done" => outcome'[c] = outcome[c]
    PROVE  UNCHANGED Promise!vars
<1>1. RanAt' = RanAt /\ Withdrawals' = Withdrawals
  BY DEF RanAt, Withdrawals
<1>2. ASSUME NEW c \in Calls PROVE ReplyTo(c)' = ReplyTo(c)
  <2>1. CASE pc[c] # "done"
    BY <2>1 DEF ReplyTo
  <2>2. CASE pc[c] = "done" /\ outcome[c].kind \in {"executed", "replayed"}
    <3>1. outcome[c].by \in Calls
      BY <2>2 DEF Inv, AnswersTrue
    <3> QED
      BY <2>2, <3>1 DEF ReplyTo
  <2>3. CASE pc[c] = "done" /\ outcome[c].kind \notin {"executed", "replayed"}
    BY <2>3 DEF ReplyTo
  <2> QED
    BY <2>1, <2>2, <2>3
<1>3. Replies' = Replies
  BY <1>2 DEF Replies
<1> QED
  BY <1>1, <1>3 DEF Promise!vars, RanAt, Replies, Withdrawals

\* The operation of c takes effect: the promise's Perform, at the time c was
\* admitted.
LEMMA OperatePerforms ==
    ASSUME OneProcessInv, Inv, EffectsInStep, NEW c \in Calls,
           Operate(c) \/ OperateUnserializable(c) \/ PredicateThrows(c)
    PROVE  Promise!Next
<1>1. /\ pc[c] = "operating" /\ effect[c] = "none" /\ outcome[c] = NoAnswer
      /\ UNCHANGED <<now, req, created>> /\ pc'[c] # "done"
      /\ \A e \in Calls \ {c} : pc'[e] = pc[e] /\ outcome'[e] = outcome[e]
      /\ effect' = [effect EXCEPT ![c] = "performed"]
      /\ effect \in [Calls -> Effects] /\ pc \in [Calls -> Points]
  BY DEF Operate, OperateUnserializable, PredicateThrows, Settle, Goto, Inv, CallShape, TypeOK
<1>2. PICK t \in 0..now : t = created[c]
  BY DEF Inv, TypeOK, OneProcessInv, ClockBounds
<1>3. RanAt' = [RanAt EXCEPT ![c] = t] /\ RanAt[c] = None
  BY <1>1, <1>2 DEF RanAt
<1>4. ASSUME NEW e \in Calls PROVE ReplyTo(e)' = ReplyTo(e)
  <2>1. CASE pc[e] # "done"
    BY <1>1, <2>1 DEF ReplyTo
  <2>2. CASE pc[e] = "done" /\ outcome[e].kind \in {"executed", "replayed"}
    <3>1. outcome[e].by \in Calls /\ outcome[e].by # c
      BY <1>1, <2>2 DEF Inv, AnswersTrue, NoAnswer, Answer
    <3> QED
      BY <1>1, <2>2, <3>1 DEF ReplyTo
  <2>3. CASE pc[e] = "done" /\ outcome[e].kind \notin {"executed", "replayed"}
    BY <1>1, <2>3 DEF ReplyTo
  <2> QED
    BY <2>1, <2>2, <2>3
<1>5. Replies' = Replies /\ Replies[c] = Promise!NoReply
  BY <1>1, <1>4, Unreplied DEF Replies
<1>w. Withdrawals' = Withdrawals
  BY <1>1 DEF Withdrawals
<1>6. ASSUME NEW d \in Calls \ Withdrawals, RanAt[d] # None, req[d].key = req[c].key
      PROVE  RanAt[d] + Promise!Protection(d) <= t
  <2>1. d # c /\ Stands(d) /\ RanAt[d] = created[d]
    BY <1>1, <1>3, <1>6 DEF RanAt, Withdrawals, Stands, Effects
  <2>2. created[d] + Protection(d) <= created[c]
    BY <1>1, <1>6, <2>1 DEF OneProcessInv, AdmittedLate, Running
  <2>3. Promise!HandedOver(d) => effect[d] = "recorded"
    BY HandedOverIsRecorded DEF Promise!HandedOver, HandedOverRecorded, Replies
  <2>4. Promise!Protection(d) <= Protection(d) /\ Promise!Protection(d) \in Nat
        /\ Protection(d) \in Nat
    BY <2>3, Assumptions DEF AllAssumptions, Promise!Protection, Protection, Lesser
  <2> QED
    BY <1>2, <2>1, <2>2, <2>4 DEF Inv, TypeOK
<1>7. Promise!Perform(c, t)
  BY <1>1, <1>3, <1>5, <1>6, <1>w
     DEF Promise!Perform, Promise!Performed, RanAt, Replies, Withdrawals
<1> QED
  BY <1>2, <1>7 DEF Promise!Next

\* When the marker of a performed operation is deleted, its performance is
\* withdrawn: its caller has no reply yet, and no other call had its result.
LEMMA ForgetWithdraws ==
    ASSUME Inv, EffectsInStep, NEW c \in Calls, Forget(c)
    PROVE  Promise!Withdraw(c) \/ UNCHANGED Promise!vars
<1>1. /\ pc[c] = "forgetting" /\ pc' = [pc EXCEPT ![c] = "settling"]
      /\ effect' = [effect EXCEPT ![c] = IF @ = "performed" THEN "withdrawn" ELSE @]
      /\ UNCHANGED <<now, req, created, outcome>>
      /\ effect \in [Calls -> Effects] /\ pc \in [Calls -> Points] /\ created \in [Calls -> Nat]
  BY DEF Forget, Goto, Inv, TypeOK
<1>2. \A e \in Calls : (pc'[e] = "done") <=> (pc[e] = "done")
  BY <1>1
<1>3. CASE effect[c] # "performed"
  <2>1. effect' = effect
    BY <1>1, <1>3
  <2> QED
    BY <1>1, <1>2, <2>1, UnseenStep
<1>4. CASE effect[c] = "performed"
  <2>1. RanAt' = RanAt /\ RanAt[c] # None
    BY <1>1, <1>4, NoneAssumption DEF RanAt
  <2>2. Withdrawals' = Withdrawals \cup {c}
    BY <1>1, <1>4 DEF Withdrawals
  <2>3. ASSUME NEW e \in Calls PROVE ReplyTo(e)' = ReplyTo(e)
    <3>1. CASE pc[e] # "done"
      BY <1>1, <3>1 DEF ReplyTo
    <3>2. CASE pc[e] = "done" /\ outcome[e].kind \in {"executed", "replayed"}
      <4>1. outcome[e].by \in Calls
        BY <3>2 DEF Inv, AnswersTrue
      <4> QED
        BY <1>1, <3>2, <4>1 DEF ReplyTo
    <3>3. CASE pc[e] = "done" /\ outcome[e].kind \notin {"executed", "replayed"}
      BY <1>1, <3>3 DEF ReplyTo
    <3> QED
      BY <3>1, <3>2, <3>3
  <2>4. Replies' = Replies /\ Replies[c] = Promise!NoReply
    BY <1>1, <2>3, Unreplied DEF Replies
  <2>5. ~ Promise!HandedOver(c)
    BY <1>4, HandedOverIsRecorded DEF Promise!HandedOver, HandedOverRecorded, Replies
  <2> QED
    BY <1>1, <2>1, <2>2, <2>4, <2>5
       DEF Promise!Withdraw, Promise!Performed, Promise!HandedOver, RanAt, Replies, Withdrawals
<1> QED
  BY <1>3, <1>4

\* Every step is a step of the promise, or is not seen.
LEMMA PromiseStep ==
    ASSUME OneProcessInv, Inv, EffectsInStep, Inv', EffectsInStep', [Next]_vars
    PROVE  [Promise!Next]_(Promise!vars)
<1> USE DEF Goto
<1>a. /\ TypeOK /\ pc \in [Calls -> Points] /\ created \in [Calls -> Nat]
      /\ outcome \in [Calls -> Outcome] /\ effect \in [Calls -> Effects]
  BY DEF Inv, TypeOK
<1>b. \A c \in Calls : effect[c] # "none" =>
          pc[c] \in {"recording", "forgetting", "settling", "done", "crashed"}
  BY DEF Inv, CallShape
<1>1. CASE Tick
  <2>1. Promise!Tick
    BY <1>1 DEF Tick, callVars, Promise!Tick, ReplyTo
  <2> QED
    BY <2>1 DEF Promise!Next
<1>2. ASSUME NEW c \in Calls, Operate(c) \/ OperateUnserializable(c) \/ PredicateThrows(c)
      PROVE  Promise!Next
  BY <1>2, OperatePerforms
<1>3. ASSUME NEW c \in Calls, Wake(c) \/ Release(c) \/ RejectJoin(c) PROVE Promise!Next
  <2>1. /\ pc[c] # "done" /\ pc'[c] = "done" /\ UNCHANGED <<now, req, created, effect>>
        /\ \A e \in Calls \ {c} : pc'[e] = pc[e] /\ outcome'[e] = outcome[e]
    BY <1>a, <1>3 DEF Wake, Release, RejectJoin
  <2> QED
    BY <2>1, AnswersCall
<1>4. ASSUME NEW c \in Calls, StartRun(c) PROVE UNCHANGED Promise!vars
  <2>1. /\ UNCHANGED <<now, req, effect, outcome>> /\ effect[c] = "none"
        /\ \A e \in Calls : e # c => created'[e] = created[e]
        /\ \A e \in Calls : (pc'[e] = "done") <=> (pc[e] = "done")
    BY <1>a, <1>b, <1>4 DEF StartRun
  <2> QED
    BY <2>1, UnseenStep
<1>5. ASSUME NEW c \in Calls, SaveResult(c) PROVE UNCHANGED Promise!vars
  <2>1. effect[c] = "performed"
    BY <1>5 DEF SaveResult, EffectsInStep
  <2>2. /\ UNCHANGED <<now, req, created>>
        /\ \A e \in Calls : (effect'[e] = "none") <=> (effect[e] = "none")
        /\ \A e \in Calls : (effect'[e] = "withdrawn") <=> (effect[e] = "withdrawn")
        /\ \A e \in Calls : (pc'[e] = "done") <=> (pc[e] = "done")
        /\ \A e \in Calls : pc[e] = "done" => outcome'[e] = outcome[e]
    BY <1>a, <1>5, <2>1 DEF SaveResult, Settle
  <2> QED
    BY <2>2, UnseenStep
<1>6. ASSUME NEW c \in Calls,
             \/ Lead(c) \/ Join(c) \/ Load(c) \/ Conflict(c) \/ Replay(c) \/ Refuse(c)
             \/ SaveMarker(c) \/ OperateUnkept(c) \/ StoreFault(c)
      PROVE  UNCHANGED Promise!vars
  <2>1. /\ UNCHANGED <<now, req, created, effect>>
        /\ \A e \in Calls : (pc'[e] = "done") <=> (pc[e] = "done")
        /\ \A e \in Calls : pc[e] = "done" => outcome'[e] = outcome[e]
    BY <1>a, <1>6
       DEF Lead, Join, Load, Conflict, Replay, Refuse, SaveMarker, OperateUnkept,
           StoreFault, Settle
  <2> QED
    BY <2>1, UnseenStep
<1>7. ASSUME NEW p \in Procs, Purge(p) PROVE UNCHANGED Promise!vars
  <2>1. UNCHANGED <<now, req, callVars>>
    BY <1>7 DEF Purge, PurgeStart, PurgeSpare, PurgeCondemn, PurgeDelete, PurgeEnd, PurgeLoad
  <2> QED
    BY <2>1, UnseenStep DEF callVars
<1>8. ASSUME NEW p \in Procs, Crash(p) PROVE UNCHANGED Promise!vars
  <2>1. UNCHANGED <<now, req, created, outcome, effect>>
        /\ \A e \in Calls : (pc'[e] = "done") <=> (pc[e] = "done")
    BY <1>8 DEF Crash, Active
  <2> QED
    BY <2>1, UnseenStep
<1>9. CASE UNCHANGED vars
  BY <1>9, UnseenStep DEF vars, callVars
<1>10. ASSUME NEW c \in Calls, Forget(c) PROVE [Promise!Next]_(Promise!vars)
  BY <1>10, ForgetWithdraws DEF Promise!Next
<1> QED
  BY <1>1, <1>2, <1>3, <1>4, <1>5, <1>6, <1>7, <1>8, <1>9, <1>10
     DEF Next, Begin, Continue, Decide, OperationEnds

\* execute() in one process that runs no purge implements its promise, through
\* every interleaving of calls, crash and store fault: a performance whose result
\* any caller has seen protects its key for TTL, any other for the lesser of TTL
\* and StaleAfter, and results go to calls of their key and payload (lines 5-10).
\* A performance is withdrawn only by the failed serialization of its result.
THEOREM PromiseIsKept ==
    ASSUME OneProcess
    PROVE  Spec => KeepsPromise
<1>1. OneProcess /\ Inv /\ OneProcessInv /\ [Next]_vars => OneProcessInv'
  BY OneProcessStep
<1>2. Inv /\ Inv' /\ OneProcessInv /\ EffectsInStep /\ EffectsInStep' /\ [Next]_vars
        => [Promise!Next]_(Promise!vars)
  BY PromiseStep
<1>3. Spec => []OneProcessInv
  BY <1>1, OneProcessInit, InvCorrect, PTL DEF Spec
<1> QED
  BY <1>2, <1>3, PromiseInit, TracedCorrect, InvCorrect, PTL DEF Spec, KeepsPromise, Promise!Spec
-----------------------------------------------------------------------------
(* What EveryCallSettles rests on: somebody can always move, and every move   *)
(* brings a call nearer to its end.                                           *)

\* How many steps a call is away from its end, at most.
StepsLeft(point) ==
    CASE point = "idle" -> 7
      [] point = "loading" -> 6
      [] point = "deciding" -> 5
      [] point = "marking" -> 4
      [] point = "operating" -> 3
      [] point \in {"recording", "forgetting"} -> 2
      [] point \in {"waiting", "settling"} -> 1
      [] point \in {"done", "crashed"} -> 0

\* From point to point a call goes on, and never back.
GoesOn(c) == StepsLeft(pc'[c]) < StepsLeft(pc[c])

\* A step of a call moves that call only, and it begins to wait only by joining.
LEMMA OneCallMoves ==
    ASSUME TypeOK, NEW c \in Calls, Begin(c) \/ Continue(c) \/ StoreFault(c)
    PROVE  /\ GoesOn(c) /\ \A d \in Calls \ {c} : pc'[d] = pc[d]
           /\ req' = req /\ (~Join(c) => leader' = leader)
           /\ Leading(c) => Leading(c)' \/ pc'[c] = "done"
           /\ pc'[c] = "waiting" => Join(c)
<1> USE DEF TypeOK, Goto, Settle, GoesOn, StepsLeft, Leading, PendingAt
<1>1. CASE Begin(c)
  BY <1>1 DEF Begin, Lead, Join, RejectJoin
<1>2. CASE Wake(c) \/ Release(c) \/ Load(c)
  BY <1>2 DEF Wake, Release, Load
<1>3. CASE Decide(c)
  BY <1>3 DEF Decide, Conflict, Replay, Refuse, StartRun
<1>4. CASE SaveMarker(c) \/ OperationEnds(c)
  BY <1>4 DEF SaveMarker, OperationEnds, Operate, OperateUnkept, OperateUnserializable,
               PredicateThrows
<1>5. CASE Forget(c) \/ SaveResult(c)
  BY <1>5 DEF Forget, SaveResult
<1>6. CASE StoreFault(c)
  BY <1>6 DEF StoreFault
<1> QED
  BY <1>1, <1>2, <1>3, <1>4, <1>5, <1>6 DEF Continue

LEMMA CrashMoves ==
    ASSUME TypeOK, NEW p \in Procs, Crash(p), NEW c \in Calls
    PROVE  /\ req' = req /\ leader' = leader
           /\ IF pc[c] \notin {"idle", "done", "crashed"} /\ req[c].proc = p
              THEN pc'[c] = "crashed" ELSE pc'[c] = pc[c]
  BY DEF Crash, Active, TypeOK

LEMMA OthersMoveNothing ==
    ASSUME Tick \/ (\E p \in Procs : Purge(p)) \/ UNCHANGED vars
    PROVE  UNCHANGED <<pc, req, leader>>
<1>1. ASSUME NEW p \in Procs, Purge(p) PROVE UNCHANGED <<pc, req, leader>>
  BY <1>1 DEF Purge, PurgeStart, PurgeLoad, PurgeSpare, PurgeCondemn, PurgeDelete, PurgeEnd, callVars
<1> QED
  BY <1>1 DEF Tick, vars, callVars

LEMMA StepGoesOn ==
    ASSUME TypeOK, [Next]_vars
    PROVE  \A c \in Calls : (pc'[c] = pc[c] \/ GoesOn(c)) /\ (Continue(c) => GoesOn(c))
<1>1. ASSUME NEW p \in Procs, Crash(p), NEW c \in Calls, pc'[c] # pc[c]
      PROVE  GoesOn(c)
  <2>1. pc'[c] = "crashed" /\ pc[c] \in Points \ {"idle", "done", "crashed"}
    BY <1>1, CrashMoves DEF TypeOK
  <2> QED
    BY <2>1 DEF Points, PendingAt, GoesOn, StepsLeft
<1>2. \A c \in Calls : pc'[c] = pc[c] \/ GoesOn(c)
  BY <1>1, OneCallMoves, OthersMoveNothing DEF Next
<1> QED
  BY <1>2, OneCallMoves

\* No step of any process, crash or fault takes a call back to an earlier point, and
\* each step of its own takes it on, so a call ends after at most seven of them.
THEOREM CallsGoOn ==
    Spec => [][\A c \in Calls : (pc'[c] = pc[c] \/ GoesOn(c)) /\ (Continue(c) => GoesOn(c))]_vars
<1>1. TypeOK /\ [Next]_vars
      => [\A c \in Calls : (pc'[c] = pc[c] \/ GoesOn(c)) /\ (Continue(c) => GoesOn(c))]_vars
  BY StepGoesOn
<1> QED
  BY <1>1, TypeCorrect, PTL DEF Spec

\* A call that leads, or has led to its answer.
Serving == PendingAt \cup {"settling", "done"}

\* A call waits for one of its own process that leads or has been answered.
WaitersServed ==
    \A c \in Calls : pc[c] = "waiting" =>
        /\ leader[c] \in Calls /\ req[leader[c]].proc = req[c].proc
        /\ pc[leader[c]] \in Serving

LEMMA WaitersStep ==
    ASSUME Inv, WaitersServed, [Next]_vars
    PROVE  WaitersServed'
<1> SUFFICES ASSUME NEW c \in Calls, pc'[c] = "waiting"
             PROVE  /\ leader'[c] \in Calls /\ req'[leader'[c]].proc = req'[c].proc
                    /\ pc'[leader'[c]] \in Serving
  BY DEF WaitersServed
<1>0. TypeOK
  BY DEF Inv
<1>1. CASE Join(c)
  <2> DEFINE d == Inflight(c)
  <2>1. d # None /\ leader' = [leader EXCEPT ![c] = d] /\ pc' = [pc EXCEPT ![c] = "waiting"]
        /\ pc[c] = "idle" /\ req' = req
    BY <1>1 DEF Join, Goto
  <2>2. d \in Calls /\ Leading(d) /\ req[d].proc = req[c].proc
    BY <1>0, <2>1 DEF Inv, RegisteredLeads, Inflight, TypeOK, Requests
  <2>3. d # c /\ leader'[c] = d
    BY <1>0, <2>1, <2>2 DEF Leading, PendingAt, TypeOK
  <2> QED
    BY <1>0, <2>1, <2>2, <2>3 DEF Leading, Serving, TypeOK
<1>2. ASSUME pc[c] = "waiting", req' = req, leader'[c] = leader[c],
             pc'[leader[c]] \in Serving
      PROVE  /\ leader'[c] \in Calls /\ req'[leader'[c]].proc = req'[c].proc
             /\ pc'[leader'[c]] \in Serving
  BY <1>2 DEF WaitersServed
<1>3. ASSUME NEW e \in Calls, Begin(e) \/ Continue(e) \/ StoreFault(e), ~Join(c)
      PROVE  pc[c] = "waiting" /\ req' = req /\ leader'[c] = leader[c]
             /\ pc'[leader[c]] \in Serving
  <2>1. e # c /\ pc[c] = "waiting" /\ req' = req
    BY <1>0, <1>3, OneCallMoves
  <2>2. leader'[c] = leader[c]
    <3>1. CASE Join(e)
      BY <1>0, <2>1, <3>1 DEF Join, TypeOK
    <3> QED
      BY <1>0, <1>3, <3>1, OneCallMoves
  <2>3. leader[c] \in Calls /\ pc[leader[c]] \in Serving
    BY <2>1 DEF WaitersServed
  <2>4. ASSUME leader[c] = e PROVE pc'[leader[c]] \in Serving
    <3>1. GoesOn(e) => pc[e] # "done"
      <4>1. pc'[e] \in Points
        BY <1>0, <1>3, TypeStep DEF Next, TypeOK
      <4> QED
        BY <4>1 DEF GoesOn, StepsLeft, Points, PendingAt
    <3>2. Leading(e)
      BY <1>0, <1>3, <2>3, <2>4, <3>1, OneCallMoves DEF Serving, Leading
    <3>3. Leading(e)' \/ pc'[e] = "done"
      BY <1>0, <1>3, <3>2, OneCallMoves
    <3> QED
      BY <2>4, <3>3 DEF Serving, Leading
  <2>5. ASSUME leader[c] # e PROVE pc'[leader[c]] \in Serving
    BY <1>0, <1>3, <2>3, <2>5, OneCallMoves
  <2> QED
    BY <2>1, <2>2, <2>4, <2>5
<1>4. ASSUME NEW p \in Procs, Crash(p)
      PROVE  pc[c] = "waiting" /\ req' = req /\ leader'[c] = leader[c]
             /\ pc'[leader[c]] \in Serving
  <2>1. pc[c] = "waiting" /\ req' = req /\ leader' = leader /\ req[c].proc # p
    BY <1>0, <1>4, CrashMoves
  <2>2. leader[c] \in Calls /\ req[leader[c]].proc # p
        /\ pc[leader[c]] \in Serving
    BY <2>1 DEF WaitersServed
  <2>3. pc'[leader[c]] = pc[leader[c]]
    BY <1>0, <1>4, <2>2, CrashMoves
  <2> QED
    BY <2>1, <2>2, <2>3
<1>5. ASSUME UNCHANGED <<pc, req, leader>>
      PROVE  pc[c] = "waiting" /\ req' = req /\ leader'[c] = leader[c]
             /\ pc'[leader[c]] \in Serving
  BY <1>5 DEF WaitersServed
<1> QED
  BY <1>1, <1>2, <1>3, <1>4, <1>5, OthersMoveNothing DEF Next

Begun(c) == pc[c] \notin {"idle", "done", "crashed"}

\* The conditions of Continue(c): what a call awaits ends by itself but for its
\* leader, and whatever record it has loaded there is a decision.
MayContinue(c) ==
    \/ pc[c] \in PendingAt \ {"deciding"} \/ pc[c] = "settling"
    \/ /\ pc[c] = "deciding"
       /\ \/ ~Unexpired(loaded[c]) \/ loaded[c].fp # req[c].fp
          \/ loaded[c].status \in {"completed", "in_progress"}
    \/ pc[c] = "waiting" /\ pc[leader[c]] \in {"settling", "done"}

NobodyStuck ==
    \A c \in Calls : Begun(c) =>
        \/ MayContinue(c)
        \/ pc[c] = "waiting" /\ Leading(leader[c]) /\ MayContinue(leader[c])

\* Of a call that has begun, either it can go on or the call it waits for can, which
\* itself waits for nobody: no marker, loaded record or lost leader blocks a call.
\* With CallsGoOn and the fairness of Continue(c) this is why EveryCallSettles.
THEOREM CallsAreNeverStuck == Spec => []NobodyStuck
<1>1. Init => WaitersServed
  BY DEF Init, WaitersServed
<1>2. ASSUME Inv, WaitersServed PROVE NobodyStuck
  <2>0. TypeOK
    BY <1>2 DEF Inv
  <2>1. ASSUME NEW c \in Calls, Leading(c) PROVE MayContinue(c)
    <3>1. loaded[c] \in Record \cup {NoRecord}
      BY <2>0 DEF TypeOK
    <3>2. ~Unexpired(loaded[c]) \/ loaded[c].status \in {"completed", "in_progress"}
      BY <3>1 DEF Record, NoRecord, Unexpired
    <3> QED
      BY <2>1, <3>2 DEF Leading, MayContinue
  <2>2. ASSUME NEW c \in Calls, pc[c] = "waiting"
        PROVE  MayContinue(c) \/ (Leading(leader[c]) /\ MayContinue(leader[c]))
    BY <1>2, <2>1, <2>2 DEF WaitersServed, MayContinue, Serving, Leading
  <2>3. \A c \in Calls : Begun(c) => Leading(c) \/ pc[c] = "waiting"
    BY <2>0 DEF TypeOK, Begun, Points, Leading
  <2> QED
    BY <2>1, <2>2, <2>3 DEF NobodyStuck
<1>3. Inv /\ WaitersServed /\ [Next]_vars => WaitersServed'
  BY WaitersStep
<1> QED
  BY <1>1, <1>2, <1>3, InvCorrect, PTL DEF Spec
=============================================================================
