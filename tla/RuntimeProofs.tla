--------------------------- MODULE RuntimeProofs ----------------------------
(***************************************************************************)
(* Proofs about the small parts of the runtime: the circuit breaker, the rate *)
(* limiter, the scheduler, the event bus, the spans of a run and the cache, *)
(* each on its own, for every set of operations, drivers, listeners and    *)
(* keys, every limit and every bound of a clock.                           *)
(***************************************************************************)
EXTENDS CircuitBreaker, RateLimiter, RuntimeScheduler, EventBus, StageSpans, RuntimeCache,
        FiniteSetTheorems, SequenceTheorems, TLAPS

-----------------------------------------------------------------------------
(* CircuitBreaker. BreakerInv ties the counter to the operations that failed since
   the last success; SequentialInv says what an open circuit looks like when the
   callers run one operation at a time. *)

\* The counter counts the operations in streak, all of which have failed, and a
\* closed circuit has counted fewer than FailureThreshold, an open one no fewer
\* unless a late success has zeroed the count.
FailuresCounted ==
    /\ failures = Cardinality(streak)
    /\ \A o \in streak : pc[o] = "failed"
    /\ state = "closed" => failures < FailureThreshold
    /\ state = "open" /\ late = {} => failures >= FailureThreshold

BreakerInv == BreakerTypeOK /\ FailuresCounted

\* An open circuit has counted FailureThreshold failures, and an operation is
\* in flight behind it only once its timeout is over.
SequentialInv ==
    /\ state = "open" => failures >= FailureThreshold
    /\ state = "open" /\ InFlight # {} => TimeoutOver

LEMMA BreakerConstants ==
    /\ IsFiniteSet(Ops) /\ FailureThreshold \in Nat /\ FailureThreshold > 0
    /\ ResetTimeout \in Nat /\ MaxInFlight \in Nat
    BY BreakerAssumption
-----------------------------------------------------------------------------
\* A failure of an operation in flight adds one to streak.
LEMMA StreakGrows ==
    ASSUME BreakerInv, NEW o \in Ops, pc[o] = "running"
    PROVE  Cardinality(streak \cup {o}) = failures + 1
<1>1. IsFiniteSet(streak)
    BY BreakerConstants, FS_Subset DEF BreakerInv, BreakerTypeOK
<1>2. o \notin streak
    BY DEF BreakerInv, FailuresCounted
<1> QED
    BY <1>1, <1>2, FS_AddElement DEF BreakerInv, FailuresCounted

LEMMA EmptyStreak == Cardinality({}) = 0
    BY FS_EmptySet

LEMMA BreakerInitially == BreakerInit => BreakerInv
    BY BreakerConstants, EmptyStreak DEF BreakerInit, BreakerInv, BreakerTypeOK, FailuresCounted

LEMMA BreakerStep == BreakerInv /\ [BreakerNext]_breakerVars => BreakerInv'
<1> SUFFICES ASSUME BreakerInv, [BreakerNext]_breakerVars PROVE BreakerInv'
    OBVIOUS
<1> USE DEF BreakerInv, BreakerTypeOK, FailuresCounted
<1>1. CASE Tick
    BY <1>1, BreakerConstants DEF Tick
<1>2. CASE Reset
    BY <1>2, BreakerConstants, EmptyStreak DEF Reset
<1>3. ASSUME NEW o \in Ops, Admit(o) PROVE BreakerInv'
    BY <1>3 DEF Admit
<1>4. ASSUME NEW o \in Ops, Reject(o) PROVE BreakerInv'
    BY <1>4 DEF Reject
<1>5. ASSUME NEW o \in Ops, Succeed(o) PROVE BreakerInv'
    BY <1>5, BreakerConstants, EmptyStreak DEF Succeed, CurrentState
<1>6. ASSUME NEW o \in Ops, Fail(o) PROVE BreakerInv'
    <2>1. Cardinality(streak') = failures'
        BY <1>6, StreakGrows DEF Fail
    <2> QED
        BY <1>6, <2>1, BreakerConstants DEF Fail
<1>7. CASE UNCHANGED breakerVars
    BY <1>7 DEF breakerVars
<1> QED
    BY <1>1, <1>2, <1>3, <1>4, <1>5, <1>6, <1>7 DEF BreakerNext

LEMMA BreakerInvariant == BreakerSpec => []BreakerInv
    BY BreakerInitially, BreakerStep, PTL DEF BreakerSpec

\* Every variable keeps holding values the code can give it, and a closed
\* circuit never remembers an opening time.
THEOREM BreakerTypeCorrect == BreakerSpec => []BreakerTypeOK
    BY BreakerInvariant, PTL DEF BreakerInv
-----------------------------------------------------------------------------
\* In whatever order the operations in flight end, a closed circuit opens
\* exactly when FailureThreshold operations have failed since the last success
\* or reset.
THEOREM TripsExactly == BreakerSpec => TripsOnConsecutiveFailures
<1>1. ASSUME BreakerInv, BreakerInv', [BreakerNext]_breakerVars, state = "closed"
      PROVE  state' = "open" <=> Cardinality(streak') >= FailureThreshold
    <2> USE <1>1 DEF BreakerInv, BreakerTypeOK, FailuresCounted
    <2>1. CASE Tick
        BY <2>1, BreakerConstants DEF Tick
    <2>2. CASE Reset
        BY <2>2, BreakerConstants DEF Reset
    <2>3. ASSUME NEW o \in Ops, Admit(o) \/ Reject(o)
          PROVE  state' = "open" <=> Cardinality(streak') >= FailureThreshold
        BY <2>3, BreakerConstants DEF Admit, Reject
    <2>4. ASSUME NEW o \in Ops, Succeed(o)
          PROVE  state' = "open" <=> Cardinality(streak') >= FailureThreshold
        BY <2>4, BreakerConstants, EmptyStreak DEF Succeed, CurrentState
    <2>5. ASSUME NEW o \in Ops, Fail(o)
          PROVE  state' = "open" <=> Cardinality(streak') >= FailureThreshold
        BY <2>5, StreakGrows, BreakerConstants DEF Fail
    <2>6. CASE UNCHANGED breakerVars
        BY <2>6, BreakerConstants DEF breakerVars
    <2> QED
        BY <2>1, <2>2, <2>3, <2>4, <2>5, <2>6 DEF BreakerNext
<1>2. BreakerInv /\ BreakerInv' /\ [BreakerNext]_breakerVars =>
        [state = "closed" =>
           (state' = "open" <=> Cardinality(streak') >= FailureThreshold)]_breakerVars
    BY <1>1
<1> QED
    BY <1>2, BreakerInvariant, PTL DEF BreakerSpec, TripsOnConsecutiveFailures
-----------------------------------------------------------------------------
\* A failure in the half-open state opens the circuit again, from that moment
\* on, unless a late success was counted since the circuit opened: for every
\* threshold and any number of operations in flight.
THEOREM Reopens == BreakerSpec => ReopensUnlessLateSuccess
<1>1. ASSUME BreakerInv, [BreakerNext]_breakerVars, late = {}, NEW o \in Ops PROVE ReopensAt(o)
    <2> SUFFICES ASSUME CurrentState = "half-open", pc[o] = "running", pc'[o] = "failed"
                 PROVE  state' = "open" /\ openedAt' = now
        BY DEF ReopensAt
    <2> USE <1>1 DEF BreakerInv, BreakerTypeOK, FailuresCounted
    <2>1. state = "open" /\ failures + 1 >= FailureThreshold
        BY BreakerConstants DEF CurrentState
    <2>2. Fail(o)
        BY DEF BreakerNext, breakerVars, Tick, Reset, Admit, Reject, Succeed, Fail
    <2> QED
        BY <2>1, <2>2 DEF Fail
<1>2. BreakerInv /\ [BreakerNext]_breakerVars => [late = {} => \A o \in Ops : ReopensAt(o)]_breakerVars
    BY <1>1
<1> QED
    BY <1>2, BreakerInvariant, PTL DEF BreakerSpec, ReopensUnlessLateSuccess
-----------------------------------------------------------------------------
(* Callers that run one operation at a time. *)

\* At most one operation is in flight.
LEMMA OneAtATime ==
    ASSUME MaxInFlight = 1, NEW o \in Ops, Admit(o)
    PROVE  InFlight = {}
<1>1. IsFiniteSet(InFlight)
    BY BreakerConstants, FS_Subset DEF InFlight
<1>2. Cardinality(InFlight) \in Nat /\ Cardinality(InFlight) < 1
    BY <1>1, FS_CardinalityType DEF Admit
<1> QED
    BY <1>1, <1>2, FS_EmptySet

\* The operations in flight are at most one.
AtMostOne == \A o, q \in Ops : pc[o] = "running" /\ pc[q] = "running" => o = q

LEMMA SequentialInit == BreakerInit => AtMostOne /\ SequentialInv
    BY DEF BreakerInit, AtMostOne, SequentialInv

LEMMA SequentialStep ==
    ASSUME MaxInFlight = 1, BreakerInv, AtMostOne, SequentialInv, [BreakerNext]_breakerVars
    PROVE  AtMostOne' /\ SequentialInv'
<1> USE DEF BreakerInv, BreakerTypeOK, FailuresCounted, AtMostOne, SequentialInv, InFlight, TimeoutOver
<1>1. CASE Tick
    BY <1>1, BreakerConstants DEF Tick
<1>2. CASE Reset
    BY <1>2, BreakerConstants DEF Reset
<1>3. ASSUME NEW o \in Ops, Admit(o) PROVE AtMostOne' /\ SequentialInv'
    BY <1>3, OneAtATime DEF Admit, CurrentState
<1>4. ASSUME NEW o \in Ops, Reject(o) PROVE AtMostOne' /\ SequentialInv'
    BY <1>4 DEF Reject
<1>5. ASSUME NEW o \in Ops, Succeed(o) PROVE AtMostOne' /\ SequentialInv'
    \* The operation in flight behind an open circuit finds it half-open.
    <2>1. state' = "closed"
        BY <1>5 DEF Succeed, CurrentState
    <2> QED
        BY <1>5, <2>1 DEF Succeed
<1>6. ASSUME NEW o \in Ops, Fail(o) PROVE AtMostOne' /\ SequentialInv'
    <2>1. InFlight' = {}
        BY <1>6 DEF Fail
    <2>2. state' = "open" => failures' >= FailureThreshold
        BY <1>6, BreakerConstants DEF Fail
    <2> QED
        BY <2>1, <2>2
<1>7. CASE UNCHANGED breakerVars
    BY <1>7 DEF breakerVars
<1> QED
    BY <1>1, <1>2, <1>3, <1>4, <1>5, <1>6, <1>7 DEF BreakerNext

\* With one operation at a time, a failure in the half-open state always opens
\* the circuit again, from that moment on, whatever the threshold.
THEOREM SequentialReopens ==
    ASSUME MaxInFlight = 1
    PROVE  BreakerSpec => HalfOpenFailureReopens
<1>1. ASSUME BreakerInv, SequentialInv, [BreakerNext]_breakerVars, NEW o \in Ops PROVE ReopensAt(o)
    <2> SUFFICES ASSUME CurrentState = "half-open", pc[o] = "running", pc'[o] = "failed"
                 PROVE  state' = "open" /\ openedAt' = now
        BY DEF ReopensAt
    <2> USE <1>1 DEF BreakerInv, BreakerTypeOK, FailuresCounted
    <2>1. state = "open" /\ failures + 1 >= FailureThreshold
        BY BreakerConstants DEF CurrentState, SequentialInv
    <2>2. Fail(o)
        BY DEF BreakerNext, breakerVars, Tick, Reset, Admit, Reject, Succeed, Fail
    <2> QED
        BY <2>1, <2>2 DEF Fail
<1>2. BreakerInv /\ SequentialInv /\ [BreakerNext]_breakerVars =>
        [\A o \in Ops : ReopensAt(o)]_breakerVars
    BY <1>1
<1>3. BreakerSpec => [](AtMostOne /\ SequentialInv)
    BY BreakerInvariant, SequentialInit, SequentialStep, PTL DEF BreakerSpec
<1> QED
    BY <1>2, <1>3, BreakerInvariant, PTL DEF BreakerSpec, HalfOpenFailureReopens
-----------------------------------------------------------------------------
(* RateLimiter. *)

\* What has accrued and is not in the bucket yet.
Accrued == IF wall > lastRefill THEN wall - lastRefill ELSE 0

\* Nothing is granted twice: neither what is in the bucket nor what the next
\* refill will add to it has been counted before.
Budget == granted + tokens + Accrued <= Capacity * (resets + 1) + forward

\* A promise for a count the bucket can hold is void after the clock was set
\* back; otherwise the tokens are there, or accrue until the promised time.
PromiseKept ==
    promise.count \in 1..Capacity =>
        /\ lastRefill <= wall
        /\ \/ tokens >= promise.count
           \/ tokens + promise.at - lastRefill >= promise.count

LimiterInv == LimiterTypeOK /\ Budget /\ PromiseKept

-----------------------------------------------------------------------------
\* What a refill leaves in the bucket: at least what was in it, at most what is
\* in it and has accrued, and all of that unless the bucket is full.
LEMMA RefilledBounds ==
    ASSUME LimiterTypeOK
    PROVE  /\ Refilled \in 0..Capacity
           /\ tokens <= Refilled
           /\ Refilled <= tokens + Accrued
           /\ Refilled = tokens + Accrued \/ Refilled = Capacity
  BY LimiterAssumption DEF LimiterTypeOK, Refilled, Least, Accrued

\* The invariant holds at the start.
LEMMA LimiterInitially == LimiterInit => LimiterInv
<1> SUFFICES ASSUME LimiterInit PROVE LimiterInv
  OBVIOUS
<1>1. LimiterTypeOK
  BY LimiterAssumption DEF LimiterInit, LimiterTypeOK, NoPromise
<1>2. Budget
  BY LimiterAssumption DEF LimiterInit, Budget, Accrued
<1>3. PromiseKept
  BY DEF LimiterInit, PromiseKept, NoPromise
<1> QED
  BY <1>1, <1>2, <1>3 DEF LimiterInv

\* A refill that grants count tokens, or none, keeps the budget.
LEMMA RefillKeepsBudget ==
    ASSUME LimiterInv, NEW count \in Nat, count <= Refilled,
           tokens' = Refilled - count, lastRefill' = wall, granted' = granted + count,
           UNCHANGED <<wall, forward, resets>>
    PROVE  Budget'
<1>1. Accrued' = 0
  BY DEF LimiterInv, LimiterTypeOK, Accrued
<1>2. granted' + tokens' + Accrued' <= granted + tokens + Accrued
  BY <1>1, RefilledBounds, LimiterAssumption DEF LimiterInv, LimiterTypeOK, Accrued
<1>3. /\ granted + tokens + Accrued \in Nat /\ granted' + tokens' + Accrued' \in Nat
      /\ Capacity * (resets + 1) + forward \in Nat
  BY <1>1, RefilledBounds, LimiterAssumption DEF LimiterInv, LimiterTypeOK, Accrued
<1>4. Capacity * (resets' + 1) + forward' = Capacity * (resets + 1) + forward
  OBVIOUS
<1> QED
  BY <1>2, <1>3, <1>4 DEF LimiterInv, Budget

\* Every step keeps the invariant.
LEMMA LimiterStep == LimiterInv /\ [LimiterNext]_limiterVars => LimiterInv'
<1> SUFFICES ASSUME LimiterInv, [LimiterNext]_limiterVars PROVE LimiterInv'
  OBVIOUS
<1>1. ASSUME NEW count \in Counts, Grant(count) PROVE LimiterInv'
  <2>1. count \in Nat \ {0}
    BY LimiterAssumption
  <2>2. LimiterTypeOK'
    BY <1>1, <2>1, RefilledBounds, LimiterAssumption
    DEF Grant, LimiterInv, LimiterTypeOK, NoPromise
  <2>3. Budget'
    BY <1>1, <2>1, RefillKeepsBudget DEF Grant
  <2>4. PromiseKept'
    BY <1>1 DEF Grant, PromiseKept, NoPromise
  <2> QED
    BY <2>2, <2>3, <2>4 DEF LimiterInv
<1>2. ASSUME NEW count \in Counts, Refuse(count) PROVE LimiterInv'
  <2>1. count \in Nat \ {0}
    BY LimiterAssumption
  <2>2. Refilled < count /\ Refilled \in 0..Capacity
    BY <1>2, RefilledBounds DEF Refuse, LimiterInv
  <2>3. wall + count - Refilled \in Nat
    BY <2>1, <2>2, LimiterAssumption DEF LimiterInv, LimiterTypeOK
  <2>4. LimiterTypeOK'
    BY <1>2, <2>2, <2>3 DEF Refuse, LimiterInv, LimiterTypeOK
  <2>5. Budget'
    <3>1. tokens' = Refilled - 0 /\ granted' = granted + 0
      BY <1>2, <2>2, LimiterAssumption DEF Refuse, LimiterInv, LimiterTypeOK
    <3> QED
      BY <1>2, <2>2, <3>1, RefillKeepsBudget, LimiterAssumption DEF Refuse
  <2>6. PromiseKept'
    BY <1>2, <2>1, <2>2, LimiterAssumption DEF Refuse, LimiterInv, LimiterTypeOK, PromiseKept
  <2> QED
    BY <2>4, <2>5, <2>6 DEF LimiterInv
<1>3. CASE LookAt
  <2>1. LimiterTypeOK'
    BY <1>3, RefilledBounds DEF LookAt, LimiterInv, LimiterTypeOK
  <2>2. Budget'
    <3>1. tokens' = Refilled - 0 /\ granted' = granted + 0 /\ 0 <= Refilled
      BY <1>3, RefilledBounds, LimiterAssumption DEF LookAt, LimiterInv, LimiterTypeOK
    <3> QED
      BY <1>3, <3>1, RefillKeepsBudget DEF LookAt
  <2>3. PromiseKept'
    BY <1>3, RefilledBounds, LimiterAssumption
    DEF LookAt, LimiterInv, LimiterTypeOK, PromiseKept, Accrued
  <2> QED
    BY <2>1, <2>2, <2>3 DEF LimiterInv
<1>4. CASE ResetLimiter
  <2>1. LimiterTypeOK'
    BY <1>4, LimiterAssumption DEF ResetLimiter, LimiterInv, LimiterTypeOK, NoPromise
  <2>2. Accrued' = 0
    BY <1>4 DEF ResetLimiter, LimiterInv, LimiterTypeOK, Accrued
  <2>3. granted <= Capacity * (resets + 1) + forward
    <3>1. tokens + Accrued \in Nat /\ Capacity * (resets + 1) \in Nat
      BY LimiterAssumption DEF LimiterInv, LimiterTypeOK, Accrued
    <3> QED
      BY <3>1 DEF LimiterInv, LimiterTypeOK, Budget, Accrued
  <2>4. Capacity * (resets' + 1) = Capacity * (resets + 1) + Capacity
    BY <1>4, LimiterAssumption DEF ResetLimiter, LimiterInv, LimiterTypeOK
  <2>5. Budget'
    <3>1. Capacity * (resets + 1) \in Nat
      BY LimiterAssumption DEF LimiterInv, LimiterTypeOK
    <3> QED
      BY <1>4, <2>2, <2>3, <2>4, <3>1, LimiterAssumption
      DEF ResetLimiter, LimiterInv, LimiterTypeOK, Budget
  <2>6. PromiseKept'
    BY <1>4 DEF ResetLimiter, PromiseKept, NoPromise
  <2> QED
    BY <2>1, <2>5, <2>6 DEF LimiterInv
<1>5. ASSUME NEW t \in 0..MaxTime, TimePasses(t) PROVE LimiterInv'
  <2>1. LimiterTypeOK'
    BY <1>5, LimiterAssumption DEF TimePasses, LimiterInv, LimiterTypeOK
  <2>2. Accrued' <= Accrued + (t - wall) /\ Accrued \in Nat /\ Accrued' \in Nat
    BY <1>5, LimiterAssumption DEF TimePasses, LimiterInv, LimiterTypeOK, Accrued
  <2>3. Budget'
    <3>1. Capacity * (resets + 1) \in Nat /\ granted \in Nat /\ tokens \in Nat /\ forward \in Nat
      BY LimiterAssumption DEF LimiterInv, LimiterTypeOK
    <3>2. granted + tokens + Accrued <= Capacity * (resets + 1) + forward
      BY DEF LimiterInv, Budget
    <3>3. /\ granted' = granted /\ tokens' = tokens
          /\ Capacity * (resets' + 1) = Capacity * (resets + 1)
      BY <1>5 DEF TimePasses
    <3>4. forward' = forward + (t - wall) /\ t - wall \in Nat
      BY <1>5, LimiterAssumption DEF TimePasses, LimiterInv, LimiterTypeOK
    <3>5. wall \in Nat
      BY LimiterAssumption DEF LimiterInv, LimiterTypeOK
    <3>6. granted + tokens + Accrued' <= Capacity * (resets + 1) + forward'
      BY <2>2, <3>1, <3>2, <3>4, <3>5
    <3> QED
      BY <3>3, <3>6 DEF Budget
  <2>4. PromiseKept'
    BY <1>5, LimiterAssumption DEF TimePasses, LimiterInv, LimiterTypeOK, PromiseKept
  <2> QED
    BY <2>1, <2>3, <2>4 DEF LimiterInv
<1>6. ASSUME NEW t \in 0..MaxTime, TimeSetBack(t) PROVE LimiterInv'
  <2>1. LimiterTypeOK'
    BY <1>6, LimiterAssumption DEF TimeSetBack, LimiterInv, LimiterTypeOK, NoPromise
  <2>2. Accrued' <= Accrued /\ Accrued \in Nat /\ Accrued' \in Nat
    BY <1>6, LimiterAssumption DEF TimeSetBack, LimiterInv, LimiterTypeOK, Accrued
  <2>3. Budget'
    <3>1. Capacity * (resets + 1) \in Nat /\ granted \in Nat /\ tokens \in Nat /\ forward \in Nat
      BY LimiterAssumption DEF LimiterInv, LimiterTypeOK
    <3>2. granted + tokens + Accrued <= Capacity * (resets + 1) + forward
      BY DEF LimiterInv, Budget
    <3>3. /\ granted' = granted /\ tokens' = tokens
          /\ Capacity * (resets' + 1) = Capacity * (resets + 1)
      BY <1>6 DEF TimeSetBack
    <3>4. forward' = forward
      BY <1>6, LimiterAssumption DEF TimeSetBack, LimiterInv, LimiterTypeOK
    <3>5. wall \in Nat
      BY LimiterAssumption DEF LimiterInv, LimiterTypeOK
    <3>6. granted + tokens + Accrued' <= Capacity * (resets + 1) + forward'
      BY <2>2, <3>1, <3>2, <3>4, <3>5
    <3> QED
      BY <3>3, <3>6 DEF Budget
  <2>4. PromiseKept'
    BY <1>6 DEF TimeSetBack, PromiseKept, NoPromise
  <2> QED
    BY <2>1, <2>3, <2>4 DEF LimiterInv
<1>7. CASE UNCHANGED limiterVars
  <2>1. LimiterTypeOK' /\ PromiseKept'
    BY <1>7 DEF limiterVars, LimiterInv, LimiterTypeOK, PromiseKept
  <2>2. Budget'
    BY <1>7 DEF limiterVars, LimiterInv, Budget, Accrued
  <2> QED
    BY <2>1, <2>2 DEF LimiterInv
<1> QED
  BY <1>1, <1>2, <1>3, <1>4, <1>5, <1>6, <1>7 DEF LimiterNext

\* The invariant holds in every behaviour.
LEMMA LimiterInvariant == LimiterSpec => []LimiterInv
  BY LimiterInitially, LimiterStep, PTL DEF LimiterSpec
-----------------------------------------------------------------------------
\* Every variable keeps its type, the bucket is never overfull nor overdrawn
\* (rate-limiter.js lines 11-17).
THEOREM LimiterTypeCorrect == LimiterSpec => []LimiterTypeOK
<1>1. LimiterInv => LimiterTypeOK
  BY DEF LimiterInv
<1> QED
  BY <1>1, LimiterInvariant, PTL

\* The limiter grants no more than the buckets it was given and the time that
\* has gone by, however the clock is set (lines 12-17).
THEOREM GrantsWithinBudget == LimiterSpec => []NeverOverIssues
<1>1. LimiterInv => NeverOverIssues
  BY LimiterAssumption DEF LimiterInv, LimiterTypeOK, Budget, Accrued, NeverOverIssues
<1> QED
  BY <1>1, LimiterInvariant, PTL

\* A caller who comes back after retryAfterMs finds its tokens (line 28).
THEOREM RetryAfterHolds == LimiterSpec => []RetryAfterSuffices
<1>1. LimiterInv => RetryAfterSuffices
  BY LimiterAssumption
  DEF LimiterInv, LimiterTypeOK, PromiseKept, RetryAfterSuffices, Refilled, Least
<1> QED
  BY <1>1, LimiterInvariant, PTL
-----------------------------------------------------------------------------
(* RuntimeScheduler. *)

\* What a driver holds was due when it polled, and a job that still waits has not
\* been started.
SchedulerInv ==
    /\ SchedulerTypeOK
    /\ \A d \in Drivers : \A i \in 1..Len(polled[d]) : jobs[polled[d][i]].runAt <= clock
    /\ \A n \in Ids :
          /\ jobs[n].status = "scheduled" => startedAt[n] = <<>>
          /\ Len(startedAt[n]) <= 1
          /\ startedAt[n] # <<>> => startedAt[n][1] >= jobs[n].runAt

\* A function on the first n numbers is a sequence of length n.
LEMMA SeqOfLength ==
    ASSUME NEW S, NEW n \in Nat, NEW s \in [1..n -> S]
    PROVE  s \in Seq(S) /\ Len(s) = n
<1>1. s \in Seq(S)
    BY SeqDef
<1>2. Len(s) \in Nat /\ 1..Len(s) = 1..n
    BY <1>1, LenProperties
<1>3. Len(s) = n
    BY <1>2, n \in 1..n \/ n = 0, Len(s) \in 1..Len(s) \/ Len(s) = 0
<1> QED
    BY <1>1, <1>3

\* The jobs that are due can be put in order: each at the place that the number
\* of sooner ones tells.
LEMMA DueIsInOrder ==
    ASSUME SchedulerTypeOK
    PROVE  /\ Due \in Seq(Ids) /\ Len(Due) \in Nat
           /\ \A i \in 1..Len(Due) : Due[i] \in Ids /\ IsDue(Due[i])
<1> DEFINE ids == {n \in Ids : IsDue(n)}
           Earlier(n) == {m \in ids : Sooner(m, n)}
           place == [n \in ids |-> Cardinality(Earlier(n)) + 1]
           N == Cardinality(ids)
           jobAt == [i \in 1..N |-> CHOOSE n \in ids : place[n] = i]
<1>1. Len(jobs) \in Nat /\ \A n \in Ids : n \in Nat /\ jobs[n].runAt \in Nat
    <2>1. \A n \in Ids : jobs[n] \in [status : JobStatus, runAt : 0..SchedulerTime]
        BY ElementOfSeq DEF SchedulerTypeOK, Ids
    <2> QED
        BY <2>1, SchedulerAssumption DEF SchedulerTypeOK, Ids
<1>2. IsFiniteSet(ids) /\ N \in Nat
    <2>1. IsFiniteSet(Ids)
        BY <1>1, FS_Interval DEF Ids
    <2>2. IsFiniteSet(ids)
        <3>1. ids \subseteq Ids
            OBVIOUS
        <3> HIDE DEF ids
        <3> QED
            BY <2>1, <3>1, FS_Subset
    <2> HIDE DEF ids
    <2> QED
        BY <2>2, FS_CardinalityType
<1>3. \A n \in ids : IsFiniteSet(Earlier(n)) /\ Cardinality(Earlier(n)) \in 0..(N - 1)
    <2> TAKE n \in ids
    <2>1. Earlier(n) \subseteq ids \ {n}
        BY <1>1 DEF Sooner
    <2>2. IsFiniteSet(ids \ {n}) /\ Cardinality(ids \ {n}) = N - 1
        <3> HIDE DEF ids
        <3> QED
            BY <1>2, FS_RemoveElement
    <2> HIDE DEF Earlier, ids
    <2>3. /\ IsFiniteSet(Earlier(n)) /\ Cardinality(Earlier(n)) <= N - 1
          /\ Cardinality(Earlier(n)) \in Nat
        BY <2>1, <2>2, FS_Subset, FS_CardinalityType
    <2> HIDE DEF N
    <2> QED
        BY <1>2, <2>3
<1>4. \A m, n \in ids : Sooner(m, n) => Cardinality(Earlier(m)) < Cardinality(Earlier(n))
    <2> SUFFICES ASSUME NEW m \in ids, NEW n \in ids, Sooner(m, n)
                 PROVE  Cardinality(Earlier(m)) < Cardinality(Earlier(n))
        OBVIOUS
    <2>1. Earlier(m) \subseteq Earlier(n)
        BY <1>1 DEF Sooner
    <2>2. m \in Earlier(n) /\ m \notin Earlier(m)
        BY <1>1 DEF Sooner
    <2>3. Cardinality(Earlier(m)) \in Nat /\ Cardinality(Earlier(n)) \in Nat
        <3> HIDE DEF Earlier, ids
        <3> QED
            BY <1>3, FS_CardinalityType
    <2>4. /\ IsFiniteSet(Earlier(n))
          /\ Cardinality(Earlier(m)) <= Cardinality(Earlier(n))
          /\ Cardinality(Earlier(m)) # Cardinality(Earlier(n))
        <3>1. Earlier(m) # Earlier(n)
            BY <2>2
        <3> HIDE DEF Earlier, ids
        <3> QED
            BY <1>3, <2>1, <3>1, FS_Subset
    <2> HIDE DEF Earlier, ids
    <2> QED
        BY <2>3, <2>4
<1>5. \A m, n \in ids : m # n => Sooner(m, n) \/ Sooner(n, m)
    BY <1>1 DEF Sooner
<1>6. place \in Injection(ids, 1..N)
    <2>1. \A n \in ids : place[n] \in 1..N
        <3> HIDE DEF Earlier, ids, N
        <3> QED
            BY <1>2, <1>3
    <2>2. \A m, n \in ids : place[m] = place[n] => m = n
        <3>1. \A n \in ids : Cardinality(Earlier(n)) \in Nat
            <4> HIDE DEF Earlier, ids
            <4> QED
                BY <1>3, FS_CardinalityType
        <3>2. \A m, n \in ids : place[m] = place[n] =>
                  Cardinality(Earlier(m)) = Cardinality(Earlier(n))
            <4> HIDE DEF Earlier, ids
            <4> QED
                BY <3>1
        <3> HIDE DEF Earlier, ids, place
        <3> QED
            BY <1>4, <1>5, <3>1, <3>2
    <2>3. place \in [ids -> 1..N]
        <3>1. place = [n \in ids |-> place[n]]
            OBVIOUS
        <3> HIDE DEF place, ids, N
        <3> QED
            BY <2>1, <3>1
    <2> HIDE DEF place, ids, N
    <2> QED
        BY <2>2, <2>3 DEF Injection, IsInjective
<1>7. place \in Surjection(ids, 1..N)
    <2>1. IsFiniteSet(1..N) /\ Cardinality(1..N) = N
        <3>1. 1 \in Int /\ N \in Int
            BY <1>2
        <3> HIDE DEF N
        <3>2. IsFiniteSet(1..N) /\ Cardinality(1..N) = IF 1 > N THEN 0 ELSE N - 1 + 1
            BY <3>1, FS_Interval
        <3> QED
            BY <1>2, <3>2
    <2> HIDE DEF place, ids
    <2> QED
        BY <1>6, <2>1, FS_Injection
<1>8. \A i \in 1..N : jobAt[i] \in ids /\ place[jobAt[i]] = i
    <2> HIDE DEF place, ids, N
    <2> QED
        BY <1>7 DEF Surjection
<1>9. jobAt \in [1..N -> ids] /\ \A i, j \in DOMAIN jobAt : i < j => Sooner(jobAt[i], jobAt[j])
    <2>1. jobAt \in [1..N -> ids]
        <3> HIDE DEF place, ids, N
        <3> QED
            BY <1>8
    <2>2. ASSUME NEW i \in 1..N, NEW j \in 1..N, i < j PROVE Sooner(jobAt[i], jobAt[j])
        <3> DEFINE m == jobAt[i]
                   n == jobAt[j]
        <3>1. /\ m \in ids /\ n \in ids /\ place[m] = i /\ place[n] = j
            BY <1>8
        <3>2. /\ Cardinality(Earlier(m)) + 1 = i /\ Cardinality(Earlier(n)) + 1 = j
            <4> HIDE DEF m, n, Earlier, ids, jobAt
            <4> QED
                BY <3>1
        <3>3. /\ Cardinality(Earlier(m)) \in Nat /\ Cardinality(Earlier(n)) \in Nat
            <4> HIDE DEF m, n, Earlier, ids
            <4> QED
                BY <1>3, <3>1, FS_CardinalityType
        <3>4. m # n /\ ~ Sooner(n, m)
            <4> HIDE DEF m, n, Earlier, ids, place
            <4> QED
                BY <1>2, <1>4, <2>2, <3>1, <3>2, <3>3
        <3> HIDE DEF m, n
        <3> QED
            BY <1>5, <3>1, <3>4 DEF m, n
    <2> HIDE DEF jobAt, N, ids
    <2> QED
        BY <2>1, <2>2
<1>10. Due \in [1..N -> ids]
    <2>1. Due = CHOOSE s \in [1..N -> ids] : \A i, j \in DOMAIN s : i < j => Sooner(s[i], s[j])
        BY DEF Due
    <2> HIDE DEF jobAt, N, ids
    <2> QED
        BY <1>9, <2>1
<1>11. \A n \in ids : n \in Ids /\ IsDue(n)
    OBVIOUS
<1> HIDE DEF ids, N
<1> QED
    BY <1>2, <1>10, <1>11

LEMMA SchedulerInitially == SchedulerInit => SchedulerInv
BY SchedulerAssumption DEF SchedulerInit, SchedulerInv, SchedulerTypeOK, Ids

\* A change of statuses that makes no job wait again, starts none and leaves the
\* times: cancel(), markComplete() and removeFinished().
LEMMA StatusChangeKeeps ==
    ASSUME SchedulerInv, UNCHANGED <<clock, polled, startedAt>>,
           jobs' \in Seq([status : JobStatus, runAt : 0..SchedulerTime]),
           Len(jobs') = Len(jobs),
           \A n \in Ids : /\ jobs'[n].runAt = jobs[n].runAt
                          /\ jobs'[n].status = "scheduled" => jobs[n].status = "scheduled"
    PROVE  SchedulerInv'
<1>1. Ids' = Ids
    BY DEF Ids
<1>2. SchedulerTypeOK'
    BY <1>1 DEF SchedulerInv, SchedulerTypeOK
<1>3. \A d \in Drivers : \A i \in 1..Len(polled[d]) : polled[d][i] \in Ids
    BY ElementOfSeq DEF SchedulerInv, SchedulerTypeOK
<1> QED
    BY <1>1, <1>2, <1>3 DEF SchedulerInv

LEMMA BecomesKeeps ==
    ASSUME SchedulerInv, UNCHANGED <<clock, polled, startedAt>>,
           NEW n \in Ids, NEW status \in JobStatus, status # "scheduled", Becomes(n, status)
    PROVE  SchedulerInv'
<1>1. /\ jobs \in Seq([status : JobStatus, runAt : 0..SchedulerTime])
      /\ n \in 1..Len(jobs)
      /\ jobs' = [jobs EXCEPT ![n].status = status]
    BY DEF SchedulerInv, SchedulerTypeOK, Becomes, Ids
<1>2. jobs[n] \in [status : JobStatus, runAt : 0..SchedulerTime]
    BY <1>1, ElementOfSeq
<1>3. [jobs[n] EXCEPT !.status = status] \in [status : JobStatus, runAt : 0..SchedulerTime]
    BY <1>2
<1>4. /\ jobs' \in Seq([status : JobStatus, runAt : 0..SchedulerTime])
      /\ Len(jobs') = Len(jobs)
      /\ jobs'[n] = [jobs[n] EXCEPT !.status = status]
      /\ \A m \in Ids : m # n => jobs'[m] = jobs[m]
    BY <1>1, <1>3, SMTT(30) DEF Ids
<1>5. \A m \in Ids : /\ jobs'[m].runAt = jobs[m].runAt
                     /\ jobs'[m].status = "scheduled" => jobs[m].status = "scheduled"
    <2> TAKE m \in Ids
    <2>1. CASE m = n
        BY <1>2, <1>4, <2>1
    <2>2. CASE m # n
        BY <1>4, <2>2
    <2> QED
        BY <2>1, <2>2
<1> QED
    BY <1>4, <1>5, StatusChangeKeeps

LEMMA MarkRunningKeeps ==
    ASSUME SchedulerInv, NEW d \in Drivers, MarkRunning(d)
    PROVE  SchedulerInv'
<1>1. PICK n : n = Head(polled[d])
    OBVIOUS
<1>2. /\ polled[d] \in Seq(Ids) /\ polled[d] # <<>>
      /\ polled' = [polled EXCEPT ![d] = Tail(polled[d])] /\ clock' = clock
    BY DEF SchedulerInv, SchedulerTypeOK, MarkRunning
<1>3. n \in Ids /\ n = polled[d][1] /\ 1 \in 1..Len(polled[d])
    BY <1>1, <1>2
<1>4. jobs[n].runAt <= clock
    BY <1>3 DEF SchedulerInv
<1>5. /\ polled' \in [Drivers -> Seq(Ids)]
      /\ \A c \in Drivers : \A i \in 1..Len(polled'[c]) :
            \E j \in 1..Len(polled[c]) : polled'[c][i] = polled[c][j]
    <2>1. polled \in [Drivers -> Seq(Ids)]
        BY DEF SchedulerInv, SchedulerTypeOK
    <2>2. Tail(polled[d]) \in Seq(Ids)
        BY <1>2
    <2>3. ASSUME NEW i \in 1..Len(Tail(polled[d]))
          PROVE  Tail(polled[d])[i] = polled[d][i + 1] /\ i + 1 \in 1..Len(polled[d])
        BY <1>2, <2>3
    <2> QED
        BY <1>2, <2>1, <2>2, <2>3
<1>6. /\ jobs \in Seq([status : JobStatus, runAt : 0..SchedulerTime])
      /\ jobs[n] \in [status : JobStatus, runAt : 0..SchedulerTime]
      /\ startedAt \in [Ids -> Seq(0..SchedulerTime)] /\ clock \in 0..SchedulerTime
      /\ Len(jobs) <= MaxJobs
    BY <1>3, ElementOfSeq DEF SchedulerInv, SchedulerTypeOK, Ids
<1>7. CASE jobs[n].status = "scheduled"
    <2>1. /\ jobs' = [jobs EXCEPT ![n].status = "running"]
          /\ startedAt' = [startedAt EXCEPT ![n] = Append(startedAt[n], clock)]
        BY <1>1, <1>7 DEF MarkRunning, Becomes
    <2>2. /\ startedAt[n] = <<>> /\ Append(startedAt[n], clock) = <<clock>>
          /\ <<clock>> \in Seq(0..SchedulerTime)
        <3>1. startedAt[n] = <<>>
            BY <1>3, <1>7 DEF SchedulerInv
        <3>2. Append(<<>>, clock) = <<clock>> /\ <<clock>> \in Seq(0..SchedulerTime)
            BY <1>6
        <3> QED
            BY <3>1, <3>2
    <2>3. /\ [jobs[n] EXCEPT !.status = "running"] \in [status : JobStatus, runAt : 0..SchedulerTime]
        BY <1>6 DEF JobStatus
    <2>4. /\ jobs' \in Seq([status : JobStatus, runAt : 0..SchedulerTime])
          /\ Len(jobs') = Len(jobs)
          /\ jobs'[n].runAt = jobs[n].runAt /\ jobs'[n].status = "running"
          /\ \A m \in Ids : m # n => jobs'[m] = jobs[m]
        BY <1>3, <1>6, <2>1, <2>3 DEF Ids
    <2>5. Ids' = Ids
        BY <2>4 DEF Ids
    <2>6. /\ startedAt' \in [Ids -> Seq(0..SchedulerTime)] /\ startedAt'[n] = <<clock>>
          /\ \A m \in Ids : m # n => startedAt'[m] = startedAt[m]
        BY <1>3, <1>6, <2>1, <2>2
    <2>7. SchedulerTypeOK'
        BY <1>2, <1>5, <1>6, <2>4, <2>5, <2>6 DEF SchedulerTypeOK
    <2>8. \A m \in Ids : jobs'[m].runAt = jobs[m].runAt
        BY <2>4
    <2>9. \A c \in Drivers : \A i \in 1..Len(polled'[c]) : jobs'[polled'[c][i]].runAt <= clock'
        <3> SUFFICES ASSUME NEW c \in Drivers, NEW i \in 1..Len(polled'[c])
                     PROVE  jobs'[polled'[c][i]].runAt <= clock'
            OBVIOUS
        <3>1. PICK j \in 1..Len(polled[c]) : polled'[c][i] = polled[c][j]
            BY <1>5
        <3>2. polled[c][j] \in Ids
            BY ElementOfSeq DEF SchedulerInv, SchedulerTypeOK
        <3> QED
            BY <1>2, <2>8, <3>1, <3>2 DEF SchedulerInv
    <2>10. ASSUME NEW m \in Ids
           PROVE  /\ jobs'[m].status = "scheduled" => startedAt'[m] = <<>>
                  /\ Len(startedAt'[m]) <= 1
                  /\ startedAt'[m] # <<>> => startedAt'[m][1] >= jobs'[m].runAt
        <3>1. CASE m = n
            <4>1. clock \in Nat /\ jobs[n].runAt \in Nat
                BY <1>6, SchedulerAssumption
            <4>2. Len(<<clock>>) = 1 /\ <<clock>>[1] = clock
                OBVIOUS
            <4>3. jobs'[m].status = "running" /\ jobs'[m].runAt = jobs[n].runAt
                BY <2>4, <3>1
            <4>4. Len(startedAt'[m]) = 1 /\ startedAt'[m][1] = clock
                BY <2>6, <3>1, <4>2
            <4> QED
                BY <1>4, <4>1, <4>3, <4>4
        <3>2. CASE m # n
            BY <2>4, <2>6, <3>2 DEF SchedulerInv
        <3> QED
            BY <3>1, <3>2
    <2> QED
        BY <2>5, <2>7, <2>9, <2>10 DEF SchedulerInv
<1>8. CASE jobs[n].status # "scheduled"
    <2>1. jobs' = jobs /\ startedAt' = startedAt
        BY <1>1, <1>8 DEF MarkRunning
    <2>2. Ids' = Ids
        BY <2>1 DEF Ids
    <2>3. SchedulerTypeOK'
        BY <1>2, <1>5, <1>6, <2>1, <2>2 DEF SchedulerTypeOK
    <2>4. \A c \in Drivers : \A i \in 1..Len(polled'[c]) : jobs'[polled'[c][i]].runAt <= clock'
        BY <1>2, <1>5, <2>1, SMTT(30) DEF SchedulerInv
    <2> QED
        BY <2>1, <2>2, <2>3, <2>4 DEF SchedulerInv
<1> QED
    BY <1>7, <1>8

LEMMA ScheduleKeeps ==
    ASSUME SchedulerInv, NEW runAt \in 0..SchedulerTime, Schedule(runAt)
    PROVE  SchedulerInv'
<1> DEFINE job == [status |-> "scheduled", runAt |-> runAt]
           n == Len(jobs) + 1
<1>1. /\ jobs \in Seq([status : JobStatus, runAt : 0..SchedulerTime])
      /\ startedAt \in [1..Len(jobs) -> Seq(0..SchedulerTime)]
      /\ job \in [status : JobStatus, runAt : 0..SchedulerTime]
      /\ jobs' = Append(jobs, job) /\ startedAt' = Append(startedAt, <<>>)
      /\ Len(jobs) < MaxJobs /\ MaxJobs \in Nat /\ Len(jobs) \in Nat
      /\ UNCHANGED <<clock, polled>>
    BY SchedulerAssumption DEF SchedulerInv, SchedulerTypeOK, Schedule, JobStatus, Ids
<1>2. /\ jobs' \in Seq([status : JobStatus, runAt : 0..SchedulerTime])
      /\ Len(jobs') = n /\ jobs'[n] = job /\ \A m \in 1..Len(jobs) : jobs'[m] = jobs[m]
    <2> HIDE DEF job
    <2> QED
        BY <1>1, AppendProperties
<1>3. /\ startedAt \in Seq(Seq(0..SchedulerTime)) /\ Len(startedAt) = Len(jobs)
    BY <1>1, SeqOfLength
<1>4. /\ startedAt' \in [1..n -> Seq(0..SchedulerTime)]
      /\ startedAt'[n] = <<>> /\ \A m \in 1..Len(jobs) : startedAt'[m] = startedAt[m]
    <2>1. <<>> \in Seq(0..SchedulerTime)
        OBVIOUS
    <2>2. /\ startedAt' \in Seq(Seq(0..SchedulerTime)) /\ Len(startedAt') = n
          /\ startedAt'[n] = <<>> /\ \A m \in 1..Len(jobs) : startedAt'[m] = startedAt[m]
        BY <1>1, <1>3, <2>1, AppendProperties
    <2> HIDE DEF n
    <2> QED
        BY <2>2
<1>5. Ids' = 1..n /\ Ids = 1..Len(jobs) /\ \A m \in 1..n : m \in 1..Len(jobs) \/ m = n
    BY <1>1, <1>2 DEF Ids
<1>6. polled' \in [Drivers -> Seq(Ids')]
    <2>1. \A s \in Seq(Ids) : s \in Seq(1..n)
        <3>1. 1..Len(jobs) \subseteq 1..n
            BY <1>1
        <3> QED
            BY <1>5, <3>1
    <2> QED
        BY <1>1, <1>5, <2>1 DEF SchedulerInv, SchedulerTypeOK
<1>7. SchedulerTypeOK'
    <2>1. Len(jobs') <= MaxJobs /\ clock' \in 0..SchedulerTime
        BY <1>1, <1>2 DEF SchedulerInv, SchedulerTypeOK
    <2> QED
        BY <1>2, <1>4, <1>5, <1>6, <2>1, SchedulerAssumption DEF SchedulerTypeOK
<1>8. \A d \in Drivers : \A i \in 1..Len(polled'[d]) : jobs'[polled'[d][i]].runAt <= clock'
    BY <1>1, <1>2, <1>5, ElementOfSeq DEF SchedulerInv, SchedulerTypeOK
<1>9. ASSUME NEW m \in 1..n
      PROVE  /\ jobs'[m].status = "scheduled" => startedAt'[m] = <<>>
             /\ Len(startedAt'[m]) <= 1
             /\ startedAt'[m] # <<>> => startedAt'[m][1] >= jobs'[m].runAt
    <2>1. CASE m = n
        BY <1>4, <2>1
    <2>2. CASE m \in 1..Len(jobs)
        BY <1>2, <1>4, <1>5, <2>2 DEF SchedulerInv
    <2> QED
        BY <1>5, <2>1, <2>2
<1> QED
    BY <1>5, <1>7, <1>8, <1>9 DEF SchedulerInv

LEMMA SchedulerStep == SchedulerInv /\ [SchedulerNext]_schedulerVars => SchedulerInv'
<1> SUFFICES ASSUME SchedulerInv, [SchedulerNext]_schedulerVars PROVE SchedulerInv'
    OBVIOUS
<1>1. ASSUME NEW t \in 0..SchedulerTime, Schedule(t) PROVE SchedulerInv'
    BY <1>1, ScheduleKeeps
<1>2. ASSUME NEW n \in Ids, Cancel(n) PROVE SchedulerInv'
    BY <1>2, BecomesKeeps DEF Cancel, JobStatus
<1>3. ASSUME NEW n \in Ids, NEW status \in {"succeeded", "failed"}, MarkComplete(n, status)
      PROVE  SchedulerInv'
    BY <1>3, BecomesKeeps DEF MarkComplete, JobStatus
<1>4. ASSUME NEW d \in Drivers, Poll(d) PROVE SchedulerInv'
    <2>1. /\ Due \in Seq(Ids) /\ \A i \in 1..Len(Due) : jobs[Due[i]].runAt <= clock
        BY DueIsInOrder DEF SchedulerInv, IsDue
    <2>2. PICK due : due = Due
        OBVIOUS
    <2>3. polled' = [polled EXCEPT ![d] = due] /\ UNCHANGED <<clock, jobs, startedAt>>
        BY <1>4, <2>2 DEF Poll
    <2>4. SchedulerTypeOK'
        BY <2>1, <2>2, <2>3 DEF SchedulerInv, SchedulerTypeOK, Ids
    <2> QED
        BY <2>1, <2>2, <2>3, <2>4 DEF SchedulerInv, SchedulerTypeOK, Ids
<1>5. ASSUME NEW d \in Drivers, MarkRunning(d) PROVE SchedulerInv'
    BY <1>5, MarkRunningKeeps, SMTT(30)
<1>6. CASE RemoveFinished
    <2>1. /\ UNCHANGED <<clock, polled, startedAt>>
          /\ jobs' = [n \in Ids |-> IF jobs[n].status \in Final
                                    THEN [jobs[n] EXCEPT !.status = "removed"] ELSE jobs[n]]
        BY <1>6 DEF RemoveFinished
    <2>2. \A n \in Ids : jobs[n] \in [status : JobStatus, runAt : 0..SchedulerTime]
        BY ElementOfSeq DEF SchedulerInv, SchedulerTypeOK, Ids
    <2>3. \A n \in Ids : /\ jobs'[n] \in [status : JobStatus, runAt : 0..SchedulerTime]
                         /\ jobs'[n].runAt = jobs[n].runAt
                         /\ jobs'[n].status = "scheduled" => jobs[n].status = "scheduled"
        BY <2>1, <2>2 DEF JobStatus, Final
    <2>4. Len(jobs) \in Nat /\ Ids = 1..Len(jobs)
        BY DEF SchedulerInv, SchedulerTypeOK, Ids
    <2>5. /\ jobs' \in Seq([status : JobStatus, runAt : 0..SchedulerTime])
          /\ Len(jobs') = Len(jobs)
        BY <2>1, <2>3, <2>4
    <2> QED
        BY <2>1, <2>3, <2>5, StatusChangeKeeps
<1>7. CASE SchedulerTick
    <2>1. Ids' = Ids
        BY <1>7 DEF SchedulerTick, Ids
    <2>2. SchedulerTypeOK'
        BY <1>7, <2>1, SchedulerAssumption DEF SchedulerTick, SchedulerInv, SchedulerTypeOK
    <2>3. \A d \in Drivers : \A i \in 1..Len(polled[d]) : jobs[polled[d][i]].runAt <= clock + 1
        <3> SUFFICES ASSUME NEW d \in Drivers, NEW i \in 1..Len(polled[d])
                     PROVE  jobs[polled[d][i]].runAt <= clock + 1
            OBVIOUS
        <3>1. polled[d][i] \in 1..Len(jobs)
            BY ElementOfSeq DEF SchedulerInv, SchedulerTypeOK, Ids
        <3>2. jobs[polled[d][i]] \in [status : JobStatus, runAt : 0..SchedulerTime]
            BY <3>1, ElementOfSeq DEF SchedulerInv, SchedulerTypeOK
        <3>3. jobs[polled[d][i]].runAt \in Nat /\ clock \in Nat
            BY <3>2, SchedulerAssumption DEF SchedulerInv, SchedulerTypeOK
        <3> QED
            BY <3>3 DEF SchedulerInv
    <2> QED
        BY <1>7, <2>1, <2>2, <2>3 DEF SchedulerTick, SchedulerInv
<1>8. CASE UNCHANGED schedulerVars
    BY <1>8 DEF schedulerVars, SchedulerInv, SchedulerTypeOK, Ids
<1> QED
    BY <1>1, <1>2, <1>3, <1>4, <1>5, <1>6, <1>7, <1>8 DEF SchedulerNext

\* Drivers that poll due() and call markRunning() later, on lists gone stale,
\* start a job once at most and never before its time.
THEOREM StartsOnce == SchedulerSpec => []StartedOnceWhenDue
<1>1. SchedulerInv => StartedOnceWhenDue
    BY DEF SchedulerInv, StartedOnceWhenDue
<1> QED
    BY <1>1, SchedulerInitially, SchedulerStep, PTL DEF SchedulerSpec

\* The scheduled tasks keep their types and their ids.
THEOREM SchedulerTypeCorrect == SchedulerSpec => []SchedulerTypeOK
<1>1. SchedulerInv => SchedulerTypeOK
    BY DEF SchedulerInv
<1> QED
    BY <1>1, SchedulerInitially, SchedulerStep, PTL DEF SchedulerSpec
-----------------------------------------------------------------------------
(* EventBus. *)

NoneTwice(s) == \A i, j \in 1..Len(s) : s[i] = s[j] => i = j

ElementsOf(s) == {s[i] : i \in 1..Len(s)}

\* A once() handler that has not been subscribed is nowhere; one that has been
\* called is not subscribed any more; what a copy holds behind its first is noted.
BusInv ==
    /\ BusTypeOK /\ history <= emits
    /\ ElementsOf(handlers) \cap OnceListeners \subseteq offered
    /\ \A e \in Emitters : ElementsOf(emitting[e]) \cap OnceListeners \subseteq offered
    /\ \A e \in Emitters : \A i \in 2..Len(emitting[e]) : emitting[e][i] \in behind
    /\ \A h \in OnceListeners :
          /\ calls[h] > 0 => h \in offered /\ h \notin ElementsOf(handlers)
          /\ calls[h] > 1 => h \in behind

\* What is left of a set without one of its elements.
LEMMA MinusRemoves ==
    ASSUME NEW S, NEW s \in Seq(S), NoneTwice(s), NEW h
    PROVE  /\ Minus(s, h) \in Seq(S) /\ NoneTwice(Minus(s, h))
           /\ ElementsOf(Minus(s, h)) = ElementsOf(s) \ {h}
<1>1. CASE ~ \E i \in 1..Len(s) : s[i] = h
    BY <1>1 DEF Minus, ElementsOf
<1>2. CASE \E i \in 1..Len(s) : s[i] = h
    <2>1. PICK i \in 1..Len(s) :
              s[i] = h /\ Minus(s, h) = SubSeq(s, 1, i - 1) \o SubSeq(s, i + 1, Len(s))
        BY <1>2 DEF Minus
    <2>2. PICK t : t = SubSeq(s, 1, i - 1) \o SubSeq(s, i + 1, Len(s))
        OBVIOUS
    <2>3. Len(s) \in Nat /\ i \in Nat /\ i >= 1 /\ i <= Len(s)
        OBVIOUS
    <2>4. /\ t \in Seq(S) /\ Len(t) = Len(s) - 1
          /\ \A j \in 1..Len(t) : t[j] = IF j < i THEN s[j] ELSE s[j + 1]
        <3> DEFINE front == SubSeq(s, 1, i - 1)
                   back == SubSeq(s, i + 1, Len(s))
        <3>1. front \in Seq(S) /\ Len(front) = i - 1 /\ \A j \in 1..(i - 1) : front[j] = s[j]
            BY <2>3
        <3>2. /\ back \in Seq(S) /\ Len(back) = Len(s) - i
              /\ \A j \in 1..(Len(s) - i) : back[j] = s[i + j]
            BY <2>3
        <3> HIDE DEF front, back
        <3>3. /\ front \o back \in Seq(S) /\ Len(front \o back) = Len(front) + Len(back)
              /\ \A j \in 1..(Len(front) + Len(back)) :
                    (front \o back)[j] = IF j <= Len(front) THEN front[j] ELSE back[j - Len(front)]
            BY <3>1, <3>2, ConcatProperties
        <3>4. t = front \o back
            BY <2>2 DEF front, back
        <3>5. t \in Seq(S) /\ Len(t) = Len(s) - 1
            <4>1. Len(front) + Len(back) = Len(s) - 1
                BY <2>3, <3>1, <3>2
            <4> QED
                BY <3>3, <3>4, <4>1
        <3>6. ASSUME NEW j \in 1..Len(t)
              PROVE  t[j] = IF j < i THEN s[j] ELSE s[j + 1]
            <4>1. t[j] = IF j <= i - 1 THEN front[j] ELSE back[j - (i - 1)]
                BY <2>3, <3>1, <3>2, <3>3, <3>4, <3>5
            <4>2. CASE j < i
                BY <2>3, <3>1, <4>1, <4>2
            <4>3. CASE ~(j < i)
                <5>1. /\ j - (i - 1) \in 1..(Len(s) - i) /\ ~(j <= i - 1)
                      /\ i + (j - (i - 1)) = j + 1
                    BY <2>3, <3>5, <4>3
                <5>2. back[j - (i - 1)] = s[i + (j - (i - 1))]
                    BY <3>2, <5>1
                <5> QED
                    BY <4>1, <4>3, <5>1, <5>2
            <4> QED
                BY <4>2, <4>3
        <3> QED
            BY <3>5, <3>6
    <2>5. NoneTwice(t)
        BY <2>3, <2>4, SMTT(30) DEF NoneTwice
    <2>6. ElementsOf(t) = ElementsOf(s) \ {h}
        <3>1. ASSUME NEW j \in 1..Len(t) PROVE t[j] \in ElementsOf(s) \ {h}
            BY <2>1, <2>3, <2>4 DEF NoneTwice, ElementsOf
        <3>2. ASSUME NEW j \in 1..Len(s), s[j] # h PROVE s[j] \in ElementsOf(t)
            <4>1. CASE j < i
                BY <2>3, <2>4, <4>1, j \in 1..Len(t) DEF ElementsOf
            <4>2. CASE j > i
                <5>1. j - 1 \in 1..Len(t) /\ ~(j - 1 < i) /\ (j - 1) + 1 = j
                    BY <2>3, <2>4, <4>2
                <5> QED
                    BY <2>4, <5>1 DEF ElementsOf
            <4>3. j # i
                BY <2>1, <3>2
            <4> QED
                BY <2>3, <4>1, <4>2, <4>3
        <3> QED
            BY <3>1, <3>2 DEF ElementsOf
    <2> QED
        BY <2>1, <2>2, <2>4, <2>5, <2>6
<1> QED
    BY <1>1, <1>2

LEMMA BusInitially == BusInit => BusInv
BY BusAssumption DEF BusInit, BusInv, BusTypeOK, ElementsOf, Handlers

\* A handler is added that is not there, by on() or for the first time by once().
LEMMA SubscribeKeeps ==
    ASSUME BusInv, NEW h \in Handlers, h \notin ElementsOf(handlers),
           handlers' = Append(handlers, h),
           UNCHANGED <<emitting, history, emits, calls, behind>>,
           offered' \subseteq OnceListeners, offered \subseteq offered',
           h \in OnceListeners => h \in offered' /\ h \notin offered
    PROVE  BusInv'
<1>1. /\ handlers' \in Seq(Handlers) /\ Len(handlers') = Len(handlers) + 1
      /\ handlers'[Len(handlers) + 1] = h /\ \A i \in 1..Len(handlers) : handlers'[i] = handlers[i]
      /\ Len(handlers) \in Nat
    BY AppendProperties DEF BusInv, BusTypeOK
<1>2. ElementsOf(handlers') = ElementsOf(handlers) \cup {h}
    <2>1. \A i \in 1..Len(handlers') : i \in 1..Len(handlers) \/ i = Len(handlers) + 1
        BY <1>1
    <2>2. Len(handlers) + 1 \in 1..Len(handlers') /\ 1..Len(handlers) \subseteq 1..Len(handlers')
        BY <1>1
    <2> QED
        BY <1>1, <2>1, <2>2 DEF ElementsOf
<1>3. BusTypeOK'
    <2>1. \A i, j \in 1..Len(handlers') : handlers'[i] = handlers'[j] => i = j
        BY <1>1 DEF BusInv, BusTypeOK, ElementsOf
    <2> QED
        BY <1>1, <2>1 DEF BusInv, BusTypeOK
<1>4. \A g \in OnceListeners : calls[g] > 0 => g # h
    BY DEF BusInv
<1> QED
    BY <1>2, <1>3, <1>4 DEF BusInv

LEMMA OffKeeps ==
    ASSUME BusInv, NEW h, handlers' = Minus(handlers, h),
           UNCHANGED <<emitting, history, emits, offered, calls, behind>>
    PROVE  BusInv'
<1>1. /\ handlers' \in Seq(Handlers) /\ NoneTwice(handlers')
      /\ ElementsOf(handlers') \subseteq ElementsOf(handlers)
    BY MinusRemoves DEF BusInv, BusTypeOK, NoneTwice
<1>2. BusTypeOK'
    BY <1>1 DEF BusInv, BusTypeOK, NoneTwice
<1> QED
    BY <1>1, <1>2 DEF BusInv

\* The handler that is called is subscribed, and first in line, or was behind
\* another one in the copy.
LEMMA CallKeepsOnce ==
    ASSUME BusInv, NEW h \in Handlers, Call(h), behind \subseteq behind',
           h \in OnceListeners => h \in offered,
           \/ h \in ElementsOf(handlers)
           \/ h \in behind'
    PROVE  /\ handlers' \in Seq(Handlers) /\ NoneTwice(handlers')
           /\ ElementsOf(handlers') \subseteq ElementsOf(handlers)
           /\ calls' \in [OnceListeners -> Nat]
           /\ \A g \in OnceListeners :
                 /\ calls'[g] > 0 => g \in offered /\ g \notin ElementsOf(handlers')
                 /\ calls'[g] > 1 => g \in behind'
<1>1. handlers \in Seq(Handlers) /\ NoneTwice(handlers) /\ calls \in [OnceListeners -> Nat]
    BY DEF BusInv, BusTypeOK, NoneTwice
<1>2. CASE h \notin OnceListeners
    BY <1>1, <1>2 DEF Call, BusInv
<1>3. CASE h \in OnceListeners
    <2>1. handlers' = Minus(handlers, h) /\ calls' = [calls EXCEPT ![h] = @ + 1]
        BY <1>3 DEF Call
    <2>2. /\ handlers' \in Seq(Handlers) /\ NoneTwice(handlers')
          /\ ElementsOf(handlers') = ElementsOf(handlers) \ {h}
        BY <1>1, <2>1, MinusRemoves
    <2>3. calls' \in [OnceListeners -> Nat]
        <3>1. calls[h] + 1 \in Nat
            BY <1>1, <1>3
        <3> QED
            BY <1>1, <2>1, <3>1
    <2>4. /\ calls'[h] = calls[h] + 1 /\ calls[h] \in Nat
          /\ \A g \in OnceListeners \ {h} : calls'[g] = calls[g]
        BY <1>1, <1>3, <2>1
    <2>5. calls'[h] > 1 => h \in behind'
        <3>1. CASE h \in behind'
            BY <3>1
        <3>2. CASE h \in ElementsOf(handlers)
            <4>1. ~(calls[h] > 0)
                BY <1>3, <3>2 DEF BusInv
            <4> QED
                BY <2>4, <4>1
        <3> QED
            BY <3>1, <3>2
    <2>6. ASSUME NEW g \in OnceListeners
          PROVE  /\ calls'[g] > 0 => g \in offered /\ g \notin ElementsOf(handlers')
                 /\ calls'[g] > 1 => g \in behind'
        <3>1. CASE g = h
            BY <1>3, <2>2, <2>5, <3>1
        <3>2. CASE g # h
            BY <2>2, <2>4, <3>2 DEF BusInv
        <3> QED
            BY <3>1, <3>2
    <2> QED
        BY <2>2, <2>3, <2>6
<1> QED
    BY <1>2, <1>3

LEMMA NoCallKeepsOnce ==
    ASSUME BusInv, NoCall, behind \subseteq behind'
    PROVE  /\ handlers' \in Seq(Handlers) /\ NoneTwice(handlers')
           /\ ElementsOf(handlers') \subseteq ElementsOf(handlers)
           /\ calls' \in [OnceListeners -> Nat]
           /\ \A g \in OnceListeners :
                 /\ calls'[g] > 0 => g \in offered /\ g \notin ElementsOf(handlers')
                 /\ calls'[g] > 1 => g \in behind'
BY DEF NoCall, BusInv, BusTypeOK, NoneTwice

LEMMA EmitKeeps ==
    ASSUME BusInv, NEW e \in Emitters, Emit(e)
    PROVE  BusInv'
<1>1. /\ handlers \in Seq(Handlers) /\ emitting \in [Emitters -> Seq(Handlers)]
      /\ emitting' = [emitting EXCEPT ![e] = handlers] /\ offered' = offered
      /\ behind' = behind \cup {handlers[i] : i \in 2..Len(handlers)}
      /\ emits' \in 0..MaxEmits /\ history' = history + 1 /\ emits < MaxEmits
      /\ emits' = emits + 1
    BY BusAssumption DEF Emit, BusInv, BusTypeOK
<1>2. /\ handlers' \in Seq(Handlers) /\ NoneTwice(handlers')
      /\ ElementsOf(handlers') \subseteq ElementsOf(handlers)
      /\ calls' \in [OnceListeners -> Nat]
      /\ \A g \in OnceListeners :
            /\ calls'[g] > 0 => g \in offered /\ g \notin ElementsOf(handlers')
            /\ calls'[g] > 1 => g \in behind'
    <2>1. CASE handlers = <<>>
        <3>1. NoCall /\ behind \subseteq behind'
            BY <1>1, <2>1 DEF Emit
        <3> QED
            BY <3>1, NoCallKeepsOnce
    <2>2. CASE handlers # <<>>
        <3>1. PICK h : h = Head(handlers)
            OBVIOUS
        <3>2. /\ h \in Handlers /\ h \in ElementsOf(handlers)
            BY <1>1, <2>2, <3>1, h = handlers[1], 1 \in 1..Len(handlers) DEF ElementsOf
        <3>3. Call(h) /\ behind \subseteq behind'
            BY <1>1, <2>2, <3>1 DEF Emit
        <3>4. h \in OnceListeners => h \in offered
            BY <3>2 DEF BusInv
        <3> QED
            BY <3>2, <3>3, <3>4, CallKeepsOnce
    <2> QED
        BY <2>1, <2>2
<1>3. behind' \subseteq Handlers
    <2>1. \A i \in 2..Len(handlers) : handlers[i] \in Handlers
        BY <1>1, ElementOfSeq
    <2> QED
        BY <1>1, <2>1 DEF BusInv, BusTypeOK
<1>4. emitting' \in [Emitters -> Seq(Handlers)] /\ emitting'[e] = handlers
      /\ \A d \in Emitters : d # e => emitting'[d] = emitting[d]
    BY <1>1
<1>5. history' \in 0..MaxEmits /\ history' <= emits'
    BY <1>1, BusAssumption DEF BusInv, BusTypeOK
<1>6. BusTypeOK'
    BY <1>1, <1>2, <1>3, <1>4, <1>5 DEF BusInv, BusTypeOK, NoneTwice
<1>7. \A d \in Emitters : ElementsOf(emitting'[d]) \cap OnceListeners \subseteq offered'
    BY <1>1, <1>4 DEF BusInv
<1>8. \A d \in Emitters : \A i \in 2..Len(emitting'[d]) : emitting'[d][i] \in behind'
    BY <1>1, <1>4 DEF BusInv
<1> QED
    BY <1>1, <1>2, <1>5, <1>6, <1>7, <1>8 DEF BusInv

LEMMA ResumeKeeps ==
    ASSUME BusInv, NEW e \in Emitters, Resume(e)
    PROVE  BusInv'
<1>1. /\ emitting \in [Emitters -> Seq(Handlers)] /\ emitting[e] \in Seq(Handlers)
      /\ emitting[e] # <<>>
      /\ UNCHANGED <<history, emits, offered, behind>>
    BY DEF Resume, BusInv, BusTypeOK
<1>2. PICK rest : rest = Tail(emitting[e])
    OBVIOUS
<1>3. /\ rest \in Seq(Handlers) /\ Len(rest) = Len(emitting[e]) - 1
      /\ \A i \in 1..Len(rest) : i + 1 \in 2..Len(emitting[e]) /\ rest[i] = emitting[e][i + 1]
    BY <1>1, <1>2
<1>4. emitting' \in [Emitters -> Seq(Handlers)] /\ emitting'[e] = rest
      /\ \A d \in Emitters : d # e => emitting'[d] = emitting[d]
    BY <1>1, <1>2, <1>3 DEF Resume
<1>5. \A i \in 1..Len(rest) : rest[i] \in behind
    BY <1>3 DEF BusInv
<1>6. ElementsOf(rest) \subseteq ElementsOf(emitting[e])
    <2>1. \A i \in 2..Len(emitting[e]) : i \in 1..Len(emitting[e])
        BY <1>1
    <2> QED
        BY <1>3, <2>1 DEF ElementsOf
<1>7. /\ handlers' \in Seq(Handlers) /\ NoneTwice(handlers')
      /\ ElementsOf(handlers') \subseteq ElementsOf(handlers)
      /\ calls' \in [OnceListeners -> Nat]
      /\ \A g \in OnceListeners :
            /\ calls'[g] > 0 => g \in offered /\ g \notin ElementsOf(handlers')
            /\ calls'[g] > 1 => g \in behind'
    <2>1. CASE rest = <<>>
        <3>1. NoCall /\ behind \subseteq behind'
            BY <1>1, <1>2, <2>1 DEF Resume
        <3> QED
            BY <3>1, NoCallKeepsOnce
    <2>2. CASE rest # <<>>
        <3>1. PICK h : h = rest[1]
            OBVIOUS
        <3>2. 1 \in 1..Len(rest)
            BY <1>3, <2>2
        <3>3. /\ h \in Handlers /\ h \in behind'
              /\ h \in ElementsOf(rest)
            BY <1>1, <1>3, <1>5, <3>1, <3>2, ElementOfSeq DEF ElementsOf
        <3>4. h \in OnceListeners => h \in offered
            BY <1>6, <3>3 DEF BusInv
        <3>5. Call(h) /\ behind \subseteq behind'
            BY <1>1, <1>2, <2>2, <3>1 DEF Resume
        <3> QED
            BY <3>3, <3>4, <3>5, CallKeepsOnce
    <2> QED
        BY <2>1, <2>2
<1>8. BusTypeOK'
    BY <1>1, <1>4, <1>7 DEF BusInv, BusTypeOK, NoneTwice
<1>9. \A d \in Emitters : ElementsOf(emitting'[d]) \cap OnceListeners \subseteq offered'
    BY <1>1, <1>4, <1>6 DEF BusInv
<1>10. \A d \in Emitters : \A i \in 2..Len(emitting'[d]) : emitting'[d][i] \in behind'
    <2>1. \A i \in 2..Len(rest) : rest[i] \in behind
        BY <1>3, <1>5
    <2> QED
        BY <1>1, <1>4, <2>1 DEF BusInv
<1> QED
    BY <1>1, <1>7, <1>8, <1>9, <1>10 DEF BusInv

LEMMA HandlerThrowsKeeps ==
    ASSUME BusInv, NEW e \in Emitters, HandlerThrows(e)
    PROVE  BusInv'
<1>1. emitting' = [emitting EXCEPT ![e] = <<>>]
      /\ UNCHANGED <<handlers, history, emits, offered, calls, behind>>
    BY DEF HandlerThrows
<1>2. emitting' \in [Emitters -> Seq(Handlers)] /\ emitting'[e] = <<>>
      /\ \A d \in Emitters : d # e => emitting'[d] = emitting[d]
    BY <1>1 DEF BusInv, BusTypeOK
<1>3. BusTypeOK'
    BY <1>1, <1>2 DEF BusInv, BusTypeOK
<1>4. \A d \in Emitters : ElementsOf(emitting'[d]) \cap OnceListeners \subseteq offered
    BY <1>2 DEF BusInv, ElementsOf
<1>5. \A d \in Emitters : \A i \in 2..Len(emitting'[d]) : emitting'[d][i] \in behind
    BY <1>2 DEF BusInv
<1> QED
    BY <1>1, <1>3, <1>4, <1>5 DEF BusInv

LEMMA BusStep == BusInv /\ [BusNext]_busVars => BusInv'
<1> SUFFICES ASSUME BusInv, [BusNext]_busVars PROVE BusInv'
    OBVIOUS
<1>1. ASSUME NEW h \in Handlers, On(h) PROVE BusInv'
    <2>1. h \notin OnceListeners /\ offered' \subseteq OnceListeners
        BY <1>1, BusAssumption DEF On, BusInv, BusTypeOK
    <2> QED
        BY <1>1, <2>1, SubscribeKeeps DEF On, Subscribed, ElementsOf
<1>2. ASSUME NEW h \in Handlers, Once(h) PROVE BusInv'
    <2>1. h \in OnceListeners /\ offered' \subseteq OnceListeners /\ h \notin ElementsOf(handlers)
        BY <1>2 DEF Once, BusInv, BusTypeOK
    <2> QED
        BY <1>2, <2>1, SubscribeKeeps DEF Once
<1>3. ASSUME NEW h \in Handlers, Off(h) PROVE BusInv'
    BY <1>3, OffKeeps DEF Off
<1>4. CASE ClearHistory
    <2>1. BusTypeOK' /\ history' <= emits'
        BY <1>4, BusAssumption DEF ClearHistory, BusInv, BusTypeOK
    <2> QED
        BY <1>4, <2>1 DEF ClearHistory, BusInv
<1>5. CASE UNCHANGED busVars
    BY <1>5 DEF busVars, BusInv, BusTypeOK
<1> QED
    BY <1>1, <1>2, <1>3, <1>4, <1>5, EmitKeeps, ResumeKeeps, HandlerThrowsKeeps DEF BusNext

\* A once() handler, whatever emits overlap: only one that a copy held behind
\* another handler is called twice, and none is subscribed after its call.
THEOREM OnceIsOnce == BusSpec => []OnceMeansOnce
<1>1. BusInv => OnceMeansOnce
    BY DEF BusInv, OnceMeansOnce, Subscribed, ElementsOf
<1> QED
    BY <1>1, BusInitially, BusStep, PTL DEF BusSpec

\* The listeners of the bus, and the lists emit() works through, keep their types.
THEOREM BusTypeCorrect == BusSpec => []BusTypeOK
<1>1. BusInv => BusTypeOK
    BY DEF BusInv
<1> QED
    BY <1>1, BusInitially, BusStep, PTL DEF BusSpec
-----------------------------------------------------------------------------
(* StageSpans. *)

\* Until the clock is set back the times that were read do not decrease.
SpanInv ==
    /\ SpanTypeOK
    /\ \/ setBack
       \/ /\ \A i, j \in 1..Len(stamps) : i <= j => stamps[i] <= stamps[j]
          /\ \A i \in 1..Len(stamps) : stamps[i] <= watch

LEMMA FourStages == Len(Stages) = 4 /\ 2 * Len(Stages) = 8
    BY DEF Stages

LEMMA SpanInvInit == SpanInit => SpanInv
<1> SUFFICES ASSUME SpanInit PROVE SpanInv
    OBVIOUS
<1>1. watch \in 0..SpanClock /\ stamps = <<>> /\ setBack = FALSE
    BY SpanAssumption DEF SpanInit
<1>2. stamps \in Seq(0..SpanClock) /\ Len(stamps) = 0
    BY <1>1
<1>3. SpanTypeOK
    <2>1. Len(stamps) <= 8
        BY <1>2
    <2> QED
        BY <1>1, <1>2, <2>1, FourStages DEF SpanTypeOK
<1> QED
    BY <1>2, <1>3 DEF SpanInv

LEMMA SpanStep == SpanInv /\ [SpanNext]_spanVars => SpanInv'
<1> SUFFICES ASSUME SpanInv, [SpanNext]_spanVars PROVE SpanInv'
    OBVIOUS
<1>1. /\ watch \in 0..SpanClock /\ setBack \in BOOLEAN /\ SpanClock \in Nat
      /\ stamps \in Seq(0..SpanClock) /\ Len(stamps) <= 8 /\ Len(stamps) \in Nat
    BY SpanAssumption, FourStages DEF SpanInv, SpanTypeOK
<1>2. CASE Stamp
    <2>1. Len(stamps) < 8 /\ stamps' = Append(stamps, watch) /\ UNCHANGED <<watch, setBack>>
        BY <1>2, FourStages DEF Stamp
    <2>2. /\ stamps' \in Seq(0..SpanClock) /\ Len(stamps') = Len(stamps) + 1
          /\ stamps'[Len(stamps) + 1] = watch
          /\ \A i \in 1..Len(stamps) : stamps'[i] = stamps[i]
        BY <1>1, <2>1
    <2>3. SpanTypeOK'
        BY <1>1, <2>1, <2>2, FourStages DEF SpanTypeOK
    <2>4. ASSUME ~setBack
          PROVE  /\ \A i, j \in 1..Len(stamps') : i <= j => stamps'[i] <= stamps'[j]
                 /\ \A i \in 1..Len(stamps') : stamps'[i] <= watch
        <3>1. /\ \A i, j \in 1..Len(stamps) : i <= j => stamps[i] <= stamps[j]
              /\ \A i \in 1..Len(stamps) : stamps[i] <= watch
            BY <2>4 DEF SpanInv
        <3>2. \A i \in 1..Len(stamps') : i \in 1..Len(stamps) \/ i = Len(stamps) + 1
            BY <1>1, <2>2
        <3>3. watch \in Nat
            BY <1>1
        <3>4. \A i \in 1..Len(stamps') : stamps'[i] <= watch
            BY <2>2, <3>1, <3>2, <3>3
        <3>5. ASSUME NEW i \in 1..Len(stamps'), NEW j \in 1..Len(stamps'), i <= j
              PROVE  stamps'[i] <= stamps'[j]
            <4>1. CASE j = Len(stamps) + 1
                BY <2>2, <3>4, <4>1
            <4>2. CASE j \in 1..Len(stamps)
                <5>1. i \in 1..Len(stamps)
                    BY <1>1, <3>5, <4>2
                <5> QED
                    BY <2>2, <3>1, <3>5, <4>2, <5>1
            <4> QED
                BY <3>2, <4>1, <4>2
        <3> QED
            BY <3>4, <3>5
    <2> QED
        BY <2>1, <2>3, <2>4 DEF SpanInv
<1>3. ASSUME NEW t \in 0..SpanClock, WatchMoves(t) PROVE SpanInv'
    <2>1. /\ watch' = t /\ stamps' = stamps
          /\ setBack' = (setBack \/ (t < watch /\ stamps # <<>>))
        BY <1>3 DEF WatchMoves
    <2>2. SpanTypeOK'
        BY <1>1, <2>1, FourStages DEF SpanTypeOK
    <2>3. ASSUME ~setBack'
          PROVE  /\ \A i, j \in 1..Len(stamps) : i <= j => stamps[i] <= stamps[j]
                 /\ \A i \in 1..Len(stamps) : stamps[i] <= t
        <3>1. ~setBack /\ (t < watch => stamps = <<>>)
            BY <2>1, <2>3
        <3>2. /\ \A i, j \in 1..Len(stamps) : i <= j => stamps[i] <= stamps[j]
              /\ \A i \in 1..Len(stamps) : stamps[i] <= watch
            BY <3>1 DEF SpanInv
        <3>3. ASSUME NEW i \in 1..Len(stamps) PROVE stamps[i] <= t
            <4>1. stamps # <<>>
                BY <1>1
            <4>2. watch <= t
                BY <1>1, <3>1, <4>1
            <4>3. stamps[i] \in 0..SpanClock
                BY <1>1, ElementOfSeq
            <4>4. stamps[i] <= watch
                BY <3>2
            <4> QED
                BY <1>1, <4>2, <4>3, <4>4
        <3> QED
            BY <3>2, <3>3
    <2> QED
        BY <2>1, <2>2, <2>3 DEF SpanInv
<1>4. CASE UNCHANGED spanVars
    BY <1>4 DEF spanVars, SpanInv, SpanTypeOK
<1> QED
    BY <1>2, <1>3, <1>4 DEF SpanNext

\* The sums of the durations, one after the other.
LEMMA DurationsAdded ==
    /\ DurationOf[0] = 0 /\ DurationOf[1] = DurationOf[0] + Duration(1)
    /\ DurationOf[2] = DurationOf[1] + Duration(2)
    /\ DurationOf[3] = DurationOf[2] + Duration(3)
    /\ DurationOf[4] = DurationOf[3] + Duration(4)
<1> DEFINE d1 == Duration(1)
           d2 == Duration(2)
           d3 == Duration(3)
           d4 == Duration(4)
           Next(f) == [n \in 0..4 |-> IF n = 0 THEN 0 ELSE f[n - 1] + Duration(n)]
           g == [n \in 0..4 |-> IF n = 0 THEN 0 ELSE IF n = 1 THEN 0 + d1
                                ELSE IF n = 2 THEN 0 + d1 + d2
                                ELSE IF n = 3 THEN 0 + d1 + d2 + d3 ELSE 0 + d1 + d2 + d3 + d4]
<1>1. DurationOf = CHOOSE f : f = Next(f)
    BY FourStages DEF DurationOf
<1>2. g = Next(g)
    <2>1. ASSUME NEW n \in 0..4 PROVE g[n] = Next(g)[n]
        <3>1. n \in {0, 1, 2, 3, 4}
            OBVIOUS
        <3>2. 0 \in 0..4 /\ 1 \in 0..4 /\ 2 \in 0..4 /\ 3 \in 0..4 /\ 4 \in 0..4
            OBVIOUS
        <3> HIDE DEF d1, d2, d3, d4
        <3> QED
            BY <3>1, <3>2 DEF d1, d2, d3, d4
    <2> QED
        BY <2>1
<1> HIDE DEF Next, g
<1>3. DurationOf = Next(DurationOf)
    BY <1>1, <1>2
<1> QED
    BY <1>3 DEF Next

\* Spans that follow one another within a root are well nested.
LEMMA NestedWhenChained ==
    ASSUME NEW timed \in BOOLEAN,
           \A i \in 1..4 : ChildSpan(timed, i).from \in Int /\ ChildSpan(timed, i).to \in Int,
           \A i \in 1..4 : ChildSpan(timed, i).from <= ChildSpan(timed, i).to,
           ChildSpan(timed, 1).to <= ChildSpan(timed, 2).from,
           ChildSpan(timed, 2).to <= ChildSpan(timed, 3).from,
           ChildSpan(timed, 3).to <= ChildSpan(timed, 4).from,
           DurationOf[4] \in Int,
           ChildSpan(timed, 4).to - ChildSpan(timed, 1).from >= DurationOf[4]
    PROVE  Nested(timed)
<1> DEFINE f1 == ChildSpan(timed, 1).from
           t1 == ChildSpan(timed, 1).to
           f2 == ChildSpan(timed, 2).from
           t2 == ChildSpan(timed, 2).to
           f3 == ChildSpan(timed, 3).from
           t3 == ChildSpan(timed, 3).to
           f4 == ChildSpan(timed, 4).from
           t4 == ChildSpan(timed, 4).to
<1>0. /\ f1 \in Int /\ t1 \in Int /\ f2 \in Int /\ t2 \in Int
      /\ f3 \in Int /\ t3 \in Int /\ f4 \in Int /\ t4 \in Int
      /\ f1 <= t1 /\ t1 <= f2 /\ f2 <= t2 /\ t2 <= f3 /\ f3 <= t3 /\ t3 <= f4 /\ f4 <= t4
    OBVIOUS
<1>1. f1 <= t4
    BY <1>0
<1>2. RootSpan(timed) = Span(f1, t4)
    BY <1>1, FourStages DEF RootSpan
<1>3. RootSpan(timed).from = f1 /\ RootSpan(timed).to = t4
    BY <1>2 DEF Span
<1>4. /\ ChildSpan(timed, 1).from = f1 /\ ChildSpan(timed, 1).to = t1
      /\ ChildSpan(timed, 2).from = f2 /\ ChildSpan(timed, 2).to = t2
      /\ ChildSpan(timed, 3).from = f3 /\ ChildSpan(timed, 3).to = t3
      /\ ChildSpan(timed, 4).from = f4 /\ ChildSpan(timed, 4).to = t4
    OBVIOUS
<1> HIDE DEF f1, t1, f2, t2, f3, t3, f4, t4
<1> DEFINE Within(i) ==
        /\ RootSpan(timed).from <= ChildSpan(timed, i).from
        /\ ChildSpan(timed, i).to <= RootSpan(timed).to
        /\ ChildSpan(timed, i).from <= ChildSpan(timed, i).to
        /\ i > 1 => ChildSpan(timed, i - 1).to <= ChildSpan(timed, i).from
<1>5. Within(1)
    <2>1. ~(1 > 1) /\ f1 <= f1 /\ t1 <= t4
        BY <1>0
    <2> QED
        BY <1>0, <1>3, <1>4, <2>1
<1>6. Within(2)
    <2>1. 2 - 1 = 1 /\ f1 <= f2 /\ t2 <= t4
        BY <1>0
    <2> QED
        BY <1>0, <1>3, <1>4, <2>1
<1>7. Within(3)
    <2>1. 3 - 1 = 2 /\ f1 <= f3 /\ t3 <= t4
        BY <1>0
    <2> QED
        BY <1>0, <1>3, <1>4, <2>1
<1>8. Within(4)
    <2>1. 4 - 1 = 3 /\ f1 <= f4 /\ t4 <= t4
        BY <1>0
    <2> QED
        BY <1>0, <1>3, <1>4, <2>1
<1>9. \A i \in 1..4 : Within(i)
    <2> HIDE DEF Within
    <2>1. \A i \in 1..4 : i = 1 \/ i = 2 \/ i = 3 \/ i = 4
        OBVIOUS
    <2> QED
        BY <1>5, <1>6, <1>7, <1>8, <2>1
<1>10. RootSpan(timed).to - RootSpan(timed).from >= DurationOf[4]
    BY <1>3, <1>4
<1> QED
    BY <1>9, <1>10, FourStages DEF Nested

\* What the clock showed, and the duration of a stage.
LEMMA StampsAndDurations ==
    ASSUME SpanInv, Len(stamps) = 8
    PROVE  /\ watch \in Nat /\ \A i \in 1..8 : stamps[i] \in Nat
           /\ \A i \in 1..4 : Duration(i) \in Nat
<1>1. watch \in Nat /\ \A i \in 1..8 : stamps[i] \in Nat
    <2>1. \A i \in 1..8 : stamps[i] \in 0..SpanClock
        BY ElementOfSeq DEF SpanInv, SpanTypeOK
    <2> QED
        BY <2>1, SpanAssumption DEF SpanInv, SpanTypeOK
<1>2. ASSUME NEW i \in 1..4 PROVE Duration(i) \in Nat
    <2>1. 2 * i \in 1..8 /\ 2 * i - 1 \in 1..8
        OBVIOUS
    <2>2. PICK a \in Nat : a = stamps[2 * i]
        BY <1>1, <2>1
    <2>3. PICK b \in Nat : b = stamps[2 * i - 1]
        BY <1>1, <2>1
    <2> QED
        BY <2>2, <2>3 DEF Duration
<1> QED
    BY <1>1, <1>2

LEMMA NestedFromDurations ==
    ASSUME SpanInv, Len(stamps) = 8
    PROVE  Nested(FALSE)
<1>1. PICK d1 \in Nat : d1 = Duration(1)
    BY StampsAndDurations
<1>2. PICK d2 \in Nat : d2 = Duration(2)
    BY StampsAndDurations
<1>3. PICK d3 \in Nat : d3 = Duration(3)
    BY StampsAndDurations
<1>4. PICK d4 \in Nat : d4 = Duration(4)
    BY StampsAndDurations
<1> DEFINE total == d1 + d2 + d3 + d4
<1>5. /\ DurationOf[0] = 0 /\ DurationOf[1] = d1 /\ DurationOf[2] = d1 + d2
      /\ DurationOf[3] = d1 + d2 + d3 /\ DurationOf[4] = total
    BY <1>1, <1>2, <1>3, <1>4, DurationsAdded
<1>6. PICK begin \in Int : begin = watch - total
    BY StampsAndDurations
<1>7. \A i : /\ ChildSpan(FALSE, i).from = begin + DurationOf[i - 1]
            /\ ChildSpan(FALSE, i).to = begin + DurationOf[i]
    BY <1>5, <1>6, FourStages DEF ChildSpan, Span
<1>8. 1 - 1 = 0 /\ 2 - 1 = 1 /\ 3 - 1 = 2 /\ 4 - 1 = 3
    OBVIOUS
<1> DEFINE e1 == begin + d1
           e2 == begin + (d1 + d2)
           e3 == begin + (d1 + d2 + d3)
           e4 == begin + total
<1>9. /\ ChildSpan(FALSE, 1).from = begin + 0 /\ ChildSpan(FALSE, 1).to = e1
      /\ ChildSpan(FALSE, 2).from = e1 /\ ChildSpan(FALSE, 2).to = e2
      /\ ChildSpan(FALSE, 3).from = e2 /\ ChildSpan(FALSE, 3).to = e3
      /\ ChildSpan(FALSE, 4).from = e3 /\ ChildSpan(FALSE, 4).to = e4
    <2> HIDE DEF total
    <2>1. /\ ChildSpan(FALSE, 1).from = begin + DurationOf[0]
          /\ ChildSpan(FALSE, 1).to = begin + DurationOf[1]
        BY <1>7, <1>8
    <2>2. /\ ChildSpan(FALSE, 2).from = begin + DurationOf[1]
          /\ ChildSpan(FALSE, 2).to = begin + DurationOf[2]
        BY <1>7, <1>8
    <2>3. /\ ChildSpan(FALSE, 3).from = begin + DurationOf[2]
          /\ ChildSpan(FALSE, 3).to = begin + DurationOf[3]
        BY <1>7, <1>8
    <2>4. /\ ChildSpan(FALSE, 4).from = begin + DurationOf[3]
          /\ ChildSpan(FALSE, 4).to = begin + DurationOf[4]
        BY <1>7, <1>8
    <2> QED
        BY <1>5, <2>1, <2>2, <2>3, <2>4
<1>10. /\ begin + 0 \in Int /\ e1 \in Int /\ e2 \in Int /\ e3 \in Int /\ e4 \in Int /\ total \in Int
       /\ begin + 0 <= e1 /\ e1 <= e1 /\ e1 <= e2 /\ e2 <= e2 /\ e2 <= e3 /\ e3 <= e3 /\ e3 <= e4
       /\ e4 - (begin + 0) >= total
    OBVIOUS
<1> HIDE DEF total, e1, e2, e3, e4
<1>11. \A i \in 1..4 : i = 1 \/ i = 2 \/ i = 3 \/ i = 4
    OBVIOUS
<1>12. \A i \in 1..4 : ChildSpan(FALSE, i).from \in Int /\ ChildSpan(FALSE, i).to \in Int
    BY <1>9, <1>10, <1>11
<1>13. \A i \in 1..4 : ChildSpan(FALSE, i).from <= ChildSpan(FALSE, i).to
    BY <1>9, <1>10, <1>11
<1> QED
    BY <1>5, <1>9, <1>10, <1>12, <1>13, NestedWhenChained

LEMMA NestedAsTimed ==
    ASSUME SpanInv, Len(stamps) = 8, ~setBack
    PROVE  Nested(TRUE)
<1>1. \A i, j \in 1..8 : i <= j => stamps[i] <= stamps[j]
    BY DEF SpanInv
<1> DEFINE s1 == stamps[1]
           s2 == stamps[2]
           s3 == stamps[3]
           s4 == stamps[4]
           s5 == stamps[5]
           s6 == stamps[6]
           s7 == stamps[7]
           s8 == stamps[8]
<1>2. /\ s1 \in Nat /\ s2 \in Nat /\ s3 \in Nat /\ s4 \in Nat
      /\ s5 \in Nat /\ s6 \in Nat /\ s7 \in Nat /\ s8 \in Nat
    BY StampsAndDurations
<1>3. /\ s1 <= s2 /\ s2 <= s3 /\ s3 <= s4 /\ s4 <= s5
      /\ s5 <= s6 /\ s6 <= s7 /\ s7 <= s8
    BY <1>1
<1>4. /\ 2 * 1 = 2 /\ 2 * 2 = 4 /\ 2 * 3 = 6 /\ 2 * 4 = 8
      /\ 2 * 1 - 1 = 1 /\ 2 * 2 - 1 = 3 /\ 2 * 3 - 1 = 5 /\ 2 * 4 - 1 = 7
    OBVIOUS
<1>5. \A i : /\ ChildSpan(TRUE, i).from = stamps[2 * i - 1]
            /\ ChildSpan(TRUE, i).to = stamps[2 * i]
    BY DEF ChildSpan, Span
<1>6. /\ ChildSpan(TRUE, 1).from = s1 /\ ChildSpan(TRUE, 1).to = s2
      /\ ChildSpan(TRUE, 2).from = s3 /\ ChildSpan(TRUE, 2).to = s4
      /\ ChildSpan(TRUE, 3).from = s5 /\ ChildSpan(TRUE, 3).to = s6
      /\ ChildSpan(TRUE, 4).from = s7 /\ ChildSpan(TRUE, 4).to = s8
    BY <1>4, <1>5
<1>7. /\ Duration(1) = s2 - s1 /\ Duration(2) = s4 - s3
      /\ Duration(3) = s6 - s5 /\ Duration(4) = s8 - s7
    BY <1>2, <1>3, <1>4 DEF Duration
<1> HIDE DEF s1, s2, s3, s4, s5, s6, s7, s8
<1> DEFINE total == (s2 - s1) + (s4 - s3) + (s6 - s5) + (s8 - s7)
<1>8. DurationOf[4] = total
    BY <1>2, <1>7, DurationsAdded
<1>9. total \in Int /\ s8 - s1 >= total
    BY <1>2, <1>3
<1>10. /\ s1 \in Int /\ s2 \in Int /\ s3 \in Int /\ s4 \in Int
       /\ s5 \in Int /\ s6 \in Int /\ s7 \in Int /\ s8 \in Int
    BY <1>2
<1> HIDE DEF total
<1>11. \A i \in 1..4 : i = 1 \/ i = 2 \/ i = 3 \/ i = 4
    OBVIOUS
<1>12. \A i \in 1..4 : ChildSpan(TRUE, i).from \in Int /\ ChildSpan(TRUE, i).to \in Int
    BY <1>6, <1>10, <1>11
<1>13. \A i \in 1..4 : ChildSpan(TRUE, i).from <= ChildSpan(TRUE, i).to
    BY <1>3, <1>6, <1>11
<1> QED
    BY <1>3, <1>6, <1>8, <1>9, <1>12, <1>13, NestedWhenChained

\* The spans of a run lie one after the other within its root, which is no shorter
\* than they are together; from the durations, whatever the clock did, and from
\* the times, unless the clock was set back during the run.
THEOREM SpansAreNested == SpanSpec => []SpansNest
<1>1. SpanInv => SpansNest
    BY FourStages, NestedFromDurations, NestedAsTimed DEF SpansNest
<1> QED
    BY <1>1, SpanInvInit, SpanStep, PTL DEF SpanSpec

\* The clock and the times read from it keep their types.
THEOREM SpanTypeCorrect == SpanSpec => []SpanTypeOK
<1>1. SpanInv => SpanTypeOK
    BY DEF SpanInv
<1> QED
    BY <1>1, SpanInvInit, SpanStep, PTL DEF SpanSpec
-----------------------------------------------------------------------------
(* RuntimeCache. What is left of a sequence at some of its places is there in the
   same order, each element once; a key has one entry throughout. *)

PlacesBelow(places, i) == {j \in places : j < i}

\* The places counted from below: each number up to their count is that of one.
LEMMA PlacesCounted ==
    ASSUME NEW n \in Nat, NEW places \in SUBSET (1..n)
    PROVE  /\ IsFiniteSet(places) /\ Cardinality(places) \in Nat /\ Cardinality(places) <= n
           /\ Cardinality(places) = n => places = 1..n
<1>1. IsFiniteSet(1..n) /\ Cardinality(1..n) = n
    BY FS_Interval
<1> QED
    BY <1>1, FS_Subset, FS_CardinalityType

LEMMA BelowGrows ==
    ASSUME NEW n \in Nat, NEW places \in SUBSET (1..n), NEW i \in places, NEW j \in places, i < j
    PROVE  /\ Cardinality(PlacesBelow(places, i)) \in Nat
           /\ Cardinality(PlacesBelow(places, j)) \in Nat
           /\ Cardinality(PlacesBelow(places, i)) < Cardinality(PlacesBelow(places, j))
           /\ Cardinality(PlacesBelow(places, j)) < Cardinality(places)
<1> DEFINE I == PlacesBelow(places, i)
           J == PlacesBelow(places, j)
<1>1. I \subseteq J /\ J \subseteq places /\ i \in J /\ i \notin I /\ j \in places /\ j \notin J
    <2>1. \A k \in places : k \in Nat
        OBVIOUS
    <2>2. ASSUME NEW k \in places, k < i PROVE k < j
        BY <2>1, <2>2
    <2>3. ~(i < i) /\ ~(j < j)
        BY <2>1
    <2> QED
        BY <2>2, <2>3 DEF PlacesBelow
<1> HIDE DEF I, J
<1>2. IsFiniteSet(places) /\ IsFiniteSet(J) /\ IsFiniteSet(I)
    BY <1>1, PlacesCounted, FS_Subset
<1>3. /\ Cardinality(I) \in Nat /\ Cardinality(J) \in Nat /\ Cardinality(places) \in Nat
      /\ Cardinality(I) <= Cardinality(J) /\ Cardinality(J) <= Cardinality(places)
    BY <1>1, <1>2, FS_Subset, FS_CardinalityType
<1>4. Cardinality(I) # Cardinality(J) /\ Cardinality(J) # Cardinality(places)
    BY <1>1, <1>2, FS_Subset
<1> QED
    BY <1>3, <1>4 DEF I, J

LEMMA BelowBounded ==
    ASSUME NEW n \in Nat, NEW places \in SUBSET (1..n), NEW i \in places
    PROVE  /\ Cardinality(PlacesBelow(places, i)) \in Nat
           /\ Cardinality(PlacesBelow(places, i)) < Cardinality(places)
<1> DEFINE I == PlacesBelow(places, i)
<1>1. I \subseteq places /\ i \in places /\ i \notin I
    BY DEF PlacesBelow
<1> HIDE DEF I
<1>2. IsFiniteSet(places) /\ IsFiniteSet(I)
    BY <1>1, PlacesCounted, FS_Subset
<1>3. Cardinality(I) \in Nat /\ Cardinality(places) \in Nat /\ Cardinality(I) <= Cardinality(places)
    BY <1>1, <1>2, FS_Subset, FS_CardinalityType
<1>4. Cardinality(I) # Cardinality(places)
    BY <1>1, <1>2, FS_Subset
<1> QED
    BY <1>3, <1>4 DEF I

LEMMA EachCountTaken ==
    ASSUME NEW n \in Nat, NEW places \in SUBSET (1..n)
    PROVE  \A m \in 1..Cardinality(places) :
              \E i \in places : Cardinality(PlacesBelow(places, i)) = m - 1
<1> DEFINE c == Cardinality(places)
           counts == 0..(c - 1)
           f == [i \in places |-> Cardinality(PlacesBelow(places, i))]
<1>1. c \in Nat /\ IsFiniteSet(places)
    BY PlacesCounted
<1>2. IsFiniteSet(counts) /\ Cardinality(counts) = c
    <2> HIDE DEF c
    <2>1. c - 1 \in Int /\ (0 > c - 1 <=> c = 0) /\ c - 1 - 0 + 1 = c
        BY <1>1
    <2> QED
        BY <2>1, FS_Interval
<1>3. f \in [places -> counts]
    <2>1. ASSUME NEW i \in places PROVE f[i] \in counts
        <3>1. f[i] \in Nat /\ f[i] < c
            BY BelowBounded
        <3> HIDE DEF f, c
        <3> QED
            BY <1>1, <3>1
    <2> QED
        BY <2>1
<1>4. f \in Injection(places, counts)
    <2>1. ASSUME NEW i \in places, NEW j \in places, i # j PROVE f[i] # f[j]
        <3>1. i \in Nat /\ j \in Nat
            OBVIOUS
        <3>2. i < j \/ j < i
            BY <2>1, <3>1
        <3>3. ASSUME i < j PROVE f[i] # f[j]
            <4>1. f[i] \in Nat /\ f[j] \in Nat /\ f[i] < f[j]
                BY <3>3, BelowGrows
            <4> HIDE DEF f
            <4> QED
                BY <4>1
        <3>4. ASSUME j < i PROVE f[i] # f[j]
            <4>1. f[i] \in Nat /\ f[j] \in Nat /\ f[j] < f[i]
                BY <3>4, BelowGrows
            <4> HIDE DEF f
            <4> QED
                BY <4>1
        <3> QED
            BY <3>2, <3>3, <3>4
    <2> HIDE DEF f, counts
    <2> QED
        BY <1>3, <2>1 DEF Injection, IsInjective
<1>5. f \in Surjection(places, counts)
    <2> HIDE DEF f, counts
    <2> QED
        BY <1>2, <1>4, FS_Injection
<1>6. ASSUME NEW m \in 1..c PROVE \E i \in places : f[i] = m - 1
    <2>1. m - 1 \in counts
        BY <1>1
    <2> HIDE DEF f, counts
    <2> QED
        BY <1>5, <2>1 DEF Surjection
<1> QED
    BY <1>6

LEMMA NthTaken ==
    ASSUME NEW n \in Nat, NEW places \in SUBSET (1..n), NEW m \in 1..Cardinality(places)
    PROVE  /\ NthOf(places, m) \in places
           /\ Cardinality(PlacesBelow(places, NthOf(places, m))) = m - 1
<1>1. \E i \in places : Cardinality(PlacesBelow(places, i)) = m - 1
    BY EachCountTaken
<1>2. NthOf(places, m) = CHOOSE i \in places : Cardinality(PlacesBelow(places, i)) = m - 1
    BY DEF NthOf, PlacesBelow
<1> QED
    BY <1>1, <1>2

LEMMA EachIsNth ==
    ASSUME NEW n \in Nat, NEW places \in SUBSET (1..n), NEW i \in places
    PROVE  \E m \in 1..Cardinality(places) : NthOf(places, m) = i
<1>1. PICK b \in Nat : b = Cardinality(PlacesBelow(places, i)) /\ b < Cardinality(places)
    BY BelowBounded
<1>2. PICK c \in Nat : c = Cardinality(places)
    BY PlacesCounted
<1>3. PICK m \in 1..Cardinality(places) : m = b + 1
    BY <1>1, <1>2
<1>4. PICK j \in places : j = NthOf(places, m) /\ Cardinality(PlacesBelow(places, j)) = b
    <2>1. /\ NthOf(places, m) \in places
          /\ Cardinality(PlacesBelow(places, NthOf(places, m))) = m - 1
        BY NthTaken
    <2>2. m - 1 = b
        BY <1>3
    <2>3. Cardinality(PlacesBelow(places, NthOf(places, m))) = b
        BY <2>1, <2>2, Zenon
    <2> QED
        BY <2>1, <2>3
<1>5. i \in Nat /\ j \in Nat
    OBVIOUS
<1>6. ~(i < j)
    <2> SUFFICES ASSUME i < j PROVE FALSE
        OBVIOUS
    <2>1. b < b
        BY <1>1, <1>4, BelowGrows
    <2> QED
        BY <2>1
<1>7. ~(j < i)
    <2> SUFFICES ASSUME j < i PROVE FALSE
        OBVIOUS
    <2>1. b < b
        BY <1>1, <1>4, BelowGrows
    <2> QED
        BY <2>1
<1>8. i = j
    BY <1>5, <1>6, <1>7
<1> QED
    BY <1>4, <1>8

\* What stays of a sequence at some of its places: each of their elements, once.
LEMMA AtPlacesElements ==
    ASSUME NEW T, NEW s \in Seq(T), NEW places \in SUBSET (1..Len(s))
    PROVE  /\ AtPlaces(s, places) \in Seq(T)
           /\ Len(AtPlaces(s, places)) = Cardinality(places)
           /\ \A m \in 1..Cardinality(places) :
                 /\ NthOf(places, m) \in places
                 /\ AtPlaces(s, places)[m] = s[NthOf(places, m)]
           /\ \A m, l \in 1..Cardinality(places) : NthOf(places, m) = NthOf(places, l) => m = l
           /\ \A i \in places : \E m \in 1..Cardinality(places) : NthOf(places, m) = i
<1> DEFINE c == Cardinality(places)
<1>1. c \in Nat /\ Len(s) \in Nat
    BY PlacesCounted
<1>2. \A m \in 1..c : NthOf(places, m) \in places
    BY <1>1, NthTaken
<1>3. ASSUME NEW m \in 1..c PROVE s[NthOf(places, m)] \in T
    BY <1>2, ElementOfSeq
<1>4. AtPlaces(s, places) = [m \in 1..c |-> s[NthOf(places, m)]]
    BY DEF AtPlaces
<1>5. ASSUME NEW m \in 1..c, NEW l \in 1..c, NthOf(places, m) = NthOf(places, l) PROVE m = l
    <2>1. /\ Cardinality(PlacesBelow(places, NthOf(places, m))) = m - 1
          /\ Cardinality(PlacesBelow(places, NthOf(places, l))) = l - 1
        BY <1>1, NthTaken
    <2>2. m - 1 = l - 1
        BY <1>5, <2>1
    <2> HIDE DEF c
    <2> QED
        BY <1>1, <2>2
<1>6. \A i \in places : \E m \in 1..c : NthOf(places, m) = i
    BY <1>1, EachIsNth
<1> HIDE DEF c
<1>7. AtPlaces(s, places) \in Seq(T) /\ Len(AtPlaces(s, places)) = c
    BY <1>1, <1>3, <1>4
<1>8. \A m \in 1..c : AtPlaces(s, places)[m] = s[NthOf(places, m)]
    BY <1>4
<1> QED
    BY <1>2, <1>5, <1>6, <1>7, <1>8 DEF c

LEMMA AllPlaces ==
    ASSUME NEW T, NEW s \in Seq(T)
    PROVE  AtPlaces(s, 1..Len(s)) = s
<1> DEFINE n == Len(s)
<1>1. n \in Nat /\ Cardinality(1..n) = n
    <2>1. n \in Nat
        OBVIOUS
    <2> HIDE DEF n
    <2>2. Cardinality(1..n) = IF 1 > n THEN 0 ELSE n - 1 + 1
        BY <2>1, FS_Interval
    <2> QED
        BY <2>1, <2>2
<1>2. ASSUME NEW m \in 1..n PROVE NthOf(1..n, m) = m
    <2>1. m \in 1..Cardinality(1..n)
        BY <1>1
    <2>2. PICK i \in 1..n : i = NthOf(1..n, m) /\ Cardinality(PlacesBelow(1..n, i)) = m - 1
        BY <1>1, <2>1, NthTaken
    <2>3. PlacesBelow(1..n, i) = 1..(i - 1)
        BY <1>1 DEF PlacesBelow
    <2>4. i - 1 \in Int /\ (1 > i - 1 <=> i = 1) /\ i - 1 - 1 + 1 = i - 1 /\ (i = 1 => i - 1 = 0)
        OBVIOUS
    <2>5. Cardinality(1..(i - 1)) = i - 1
        BY <2>4, FS_Interval
    <2>6. i - 1 = m - 1
        BY <2>2, <2>3, <2>5
    <2>7. i = m
        BY <2>6
    <2> QED
        BY <2>2, <2>7
<1>3. AtPlaces(s, 1..n) = [m \in 1..n |-> s[m]]
    BY <1>1, <1>2 DEF AtPlaces
<1> QED
    BY <1>3
-----------------------------------------------------------------------------
EntriesOfCache == [key : CacheKeys, expiresAt : Nat, defined : BOOLEAN]

KeysIn(s) == {s[i].key : i \in 1..Len(s)}

\* Entries of the cache's type, one for each key.
OneForEachKey(s) ==
    /\ s \in Seq(EntriesOfCache)
    /\ \A i, j \in 1..Len(s) : s[i].key = s[j].key => i = j

LEMMA AtPlacesKeyed ==
    ASSUME NEW s, OneForEachKey(s), NEW places \in SUBSET (1..Len(s))
    PROVE  /\ OneForEachKey(AtPlaces(s, places)) /\ Len(AtPlaces(s, places)) = Cardinality(places)
           /\ Len(AtPlaces(s, places)) \in Nat /\ Len(AtPlaces(s, places)) <= Len(s)
           /\ KeysIn(AtPlaces(s, places)) = {s[i].key : i \in places}
<1> DEFINE t == AtPlaces(s, places)
           c == Cardinality(places)
<1>1. s \in Seq(EntriesOfCache) /\ \A i, j \in 1..Len(s) : s[i].key = s[j].key => i = j
    BY DEF OneForEachKey
<1>2. /\ t \in Seq(EntriesOfCache) /\ Len(t) = c
      /\ \A m \in 1..c : NthOf(places, m) \in places /\ t[m] = s[NthOf(places, m)]
      /\ \A m, l \in 1..c : NthOf(places, m) = NthOf(places, l) => m = l
      /\ \A i \in places : \E m \in 1..c : NthOf(places, m) = i
    BY <1>1, AtPlacesElements
<1>3. c \in Nat /\ c <= Len(s)
    BY <1>1, PlacesCounted
<1> HIDE DEF t, c
<1>4. ASSUME NEW m \in 1..c, NEW l \in 1..c, t[m].key = t[l].key PROVE m = l
    <2>1. s[NthOf(places, m)].key = s[NthOf(places, l)].key
        BY <1>2, <1>4
    <2>2. NthOf(places, m) = NthOf(places, l)
        BY <1>1, <1>2, <2>1
    <2> QED
        BY <1>2, <2>2
<1>5. OneForEachKey(t)
    BY <1>2, <1>4 DEF OneForEachKey
<1>6. KeysIn(t) = {s[i].key : i \in places}
    <2>1. ASSUME NEW m \in 1..c PROVE t[m].key \in {s[i].key : i \in places}
        BY <1>2
    <2>2. ASSUME NEW i \in places PROVE \E m \in 1..c : t[m].key = s[i].key
        BY <1>2
    <2>3. KeysIn(t) = {t[m].key : m \in 1..c}
        BY <1>2 DEF KeysIn
    <2> QED
        BY <2>1, <2>2, <2>3
<1> QED
    BY <1>2, <1>3, <1>5, <1>6 DEF t, c

LEMMA CacheKeyed ==
    ASSUME CacheTypeOK
    PROVE  /\ OneForEachKey(cached) /\ Len(cached) \in Nat /\ Len(cached) <= CacheSize
           /\ Held = KeysIn(cached)
    BY DEF CacheTypeOK, OneForEachKey, EntriesOfCache, Held, KeysIn

LEMMA EntryAt ==
    ASSUME CacheTypeOK, NEW i \in 1..Len(cached)
    PROVE  EntryOf(cached[i].key) = cached[i]
    BY DEF CacheTypeOK, EntryOf

\* Eviction takes what has expired and nothing else.
LEMMA LiveOnlyKeeps ==
    ASSUME CacheTypeOK
    PROVE  /\ OneForEachKey(LiveOnly(cached))
           /\ Len(LiveOnly(cached)) \in Nat /\ Len(LiveOnly(cached)) <= Len(cached)
           /\ KeysIn(LiveOnly(cached)) = {k \in Held : Live(k)}
           /\ Len(LiveOnly(cached)) = Len(cached) =>
                 LiveOnly(cached) = cached /\ \A k \in Held : Live(k)
<1> DEFINE places == {i \in 1..Len(cached) : ~Expired(cached[i])}
<1>1. OneForEachKey(cached) /\ Len(cached) \in Nat /\ Held = KeysIn(cached)
    BY CacheKeyed
<1>2. LiveOnly(cached) = AtPlaces(cached, places) /\ places \in SUBSET (1..Len(cached))
    BY DEF LiveOnly
<1>3. \A i \in 1..Len(cached) : cached[i].key \in Held /\ (Live(cached[i].key) <=> i \in places)
    BY <1>1, EntryAt DEF Live, KeysIn
<1> HIDE DEF places
<1>4. /\ OneForEachKey(LiveOnly(cached)) /\ Len(LiveOnly(cached)) = Cardinality(places)
      /\ Len(LiveOnly(cached)) \in Nat /\ Len(LiveOnly(cached)) <= Len(cached)
      /\ KeysIn(LiveOnly(cached)) = {cached[i].key : i \in places}
    BY <1>1, <1>2, AtPlacesKeyed
<1>5. {cached[i].key : i \in places} = {k \in Held : Live(k)}
    BY <1>1, <1>2, <1>3 DEF KeysIn
<1>6. ASSUME Len(LiveOnly(cached)) = Len(cached)
      PROVE  LiveOnly(cached) = cached /\ \A k \in Held : Live(k)
    <2>1. places = 1..Len(cached)
        BY <1>1, <1>2, <1>4, <1>6, PlacesCounted
    <2>2. LiveOnly(cached) = cached
        BY <1>1, <1>2, <2>1, AllPlaces DEF OneForEachKey
    <2> QED
        BY <1>1, <1>3, <2>1, <2>2 DEF KeysIn
<1> QED
    BY <1>4, <1>5, <1>6

\* Removing the entry of a key leaves the others.
LEMMA WithoutRemoves ==
    ASSUME CacheTypeOK, NEW k
    PROVE  /\ OneForEachKey(Without(cached, k))
           /\ Len(Without(cached, k)) \in Nat /\ Len(Without(cached, k)) <= Len(cached)
           /\ KeysIn(Without(cached, k)) = Held \ {k}
<1> DEFINE places == {i \in 1..Len(cached) : cached[i].key # k}
<1>1. OneForEachKey(cached) /\ Len(cached) \in Nat /\ Held = KeysIn(cached)
    BY CacheKeyed
<1>2. Without(cached, k) = AtPlaces(cached, places) /\ places \in SUBSET (1..Len(cached))
    BY DEF Without
<1>3. {cached[i].key : i \in places} = Held \ {k}
    BY <1>1 DEF KeysIn
<1> HIDE DEF places
<1> QED
    BY <1>1, <1>2, <1>3, AtPlacesKeyed

LEMMA TailKeyed ==
    ASSUME NEW s, OneForEachKey(s), Len(s) > 0
    PROVE  /\ OneForEachKey(Tail(s)) /\ Len(Tail(s)) \in Nat /\ Len(Tail(s)) = Len(s) - 1
           /\ KeysIn(Tail(s)) = KeysIn(s) \ {s[1].key}
<1>1. /\ s \in Seq(EntriesOfCache) /\ s # <<>> /\ Len(s) \in Nat
      /\ \A i, j \in 1..Len(s) : s[i].key = s[j].key => i = j
    BY DEF OneForEachKey
<1> DEFINE t == Tail(s)
<1>2. /\ t \in Seq(EntriesOfCache) /\ Len(t) = Len(s) - 1 /\ Len(t) \in Nat
      /\ \A i \in 1..Len(t) : t[i] = s[i + 1]
    BY <1>1
<1> HIDE DEF t
<1>3. \A i \in 1..Len(t) : i + 1 \in 1..Len(s) /\ i + 1 # 1 /\ i \in Nat
    BY <1>1, <1>2
<1>4. ASSUME NEW i \in 1..Len(t), NEW j \in 1..Len(t), t[i].key = t[j].key PROVE i = j
    <2>1. i + 1 = j + 1
        BY <1>1, <1>2, <1>3, <1>4
    <2> QED
        BY <1>3, <2>1
<1>5. KeysIn(t) = KeysIn(s) \ {s[1].key}
    <2>1. ASSUME NEW i \in 1..Len(t) PROVE t[i].key \in KeysIn(s) \ {s[1].key}
        <3>1. t[i] = s[i + 1] /\ i + 1 \in 1..Len(s) /\ i + 1 # 1 /\ 1 \in 1..Len(s)
            BY <1>1, <1>2, <1>3
        <3>2. s[i + 1].key # s[1].key
            BY <1>1, <3>1
        <3> QED
            BY <3>1, <3>2 DEF KeysIn
    <2>2. ASSUME NEW i \in 1..Len(s), i # 1 PROVE s[i].key \in KeysIn(t)
        <3>1. PICK j \in 1..Len(t) : j + 1 = i
            <4>1. i - 1 \in 1..Len(t) /\ i - 1 + 1 = i
                BY <1>1, <1>2, <2>2
            <4> QED
                BY <4>1
        <3>2. t[j] = s[i]
            BY <1>2, <3>1
        <3> QED
            BY <3>2 DEF KeysIn
    <2> QED
        BY <2>1, <2>2 DEF KeysIn
<1>6. OneForEachKey(t)
    BY <1>2, <1>4 DEF OneForEachKey
<1> QED
    BY <1>2, <1>5, <1>6 DEF t

LEMMA AppendKeyed ==
    ASSUME NEW s, OneForEachKey(s), NEW e \in EntriesOfCache, e.key \notin KeysIn(s)
    PROVE  /\ OneForEachKey(Append(s, e)) /\ Len(Append(s, e)) = Len(s) + 1
           /\ KeysIn(Append(s, e)) = KeysIn(s) \cup {e.key}
<1>1. /\ s \in Seq(EntriesOfCache) /\ Len(s) \in Nat
      /\ \A i, j \in 1..Len(s) : s[i].key = s[j].key => i = j
    BY DEF OneForEachKey
<1> DEFINE t == Append(s, e)
<1>2. /\ t \in Seq(EntriesOfCache) /\ Len(t) = Len(s) + 1 /\ t[Len(s) + 1] = e
      /\ \A i \in 1..Len(s) : t[i] = s[i]
    BY <1>1
<1> HIDE DEF t
<1>3. 1..Len(t) = 1..Len(s) \cup {Len(s) + 1}
    BY <1>1, <1>2
<1>4. \A i \in 1..Len(s) : s[i].key # e.key
    BY DEF KeysIn
<1>5. \A i, j \in 1..Len(t) : t[i].key = t[j].key => i = j
    BY <1>1, <1>2, <1>3, <1>4
<1>6. KeysIn(t) = KeysIn(s) \cup {e.key}
    BY <1>2, <1>3 DEF KeysIn
<1> QED
    BY <1>2, <1>5, <1>6 DEF t, OneForEachKey
-----------------------------------------------------------------------------
\* Room for a new key: what goes has expired, or everything is alive and the entry
\* inserted first goes.
LEMMA RoomMade ==
    ASSUME CacheTypeOK, NEW k \in CacheKeys, k \notin Held
    PROVE  /\ OneForEachKey(RoomFor(k)) /\ Len(RoomFor(k)) \in Nat /\ Len(RoomFor(k)) < CacheSize
           /\ KeysIn(RoomFor(k)) \subseteq Held
           /\ \A h \in Held : Live(h) /\ h \notin KeysIn(RoomFor(k)) =>
                 /\ \A g \in Held : Live(g)
                 /\ Len(cached) = CacheSize /\ cached[1].key = h
                 /\ Held \ {h} \subseteq KeysIn(RoomFor(k))
<1> DEFINE r == RoomFor(k)
           live == LiveOnly(cached)
           HasMade(u) ==
               /\ OneForEachKey(u) /\ Len(u) \in Nat /\ Len(u) < CacheSize /\ KeysIn(u) \subseteq Held
               /\ \A h \in Held : Live(h) /\ h \notin KeysIn(u) =>
                     /\ \A g \in Held : Live(g)
                     /\ Len(cached) = CacheSize /\ cached[1].key = h
                     /\ Held \ {h} \subseteq KeysIn(u)
<1>1. CacheSize \in Nat /\ CacheSize > 0
    BY CacheAssumption
<1>2. /\ OneForEachKey(cached) /\ Len(cached) \in Nat /\ Len(cached) <= CacheSize
      /\ Held = KeysIn(cached)
    BY CacheKeyed
<1>3. /\ OneForEachKey(live) /\ Len(live) \in Nat /\ Len(live) <= Len(cached)
      /\ KeysIn(live) = {h \in Held : Live(h)}
      /\ Len(live) = Len(cached) => live = cached /\ \A h \in Held : Live(h)
    BY LiveOnlyKeeps
<1>4. r = IF Len(cached) >= CacheSize
          THEN IF Len(live) >= CacheSize THEN Tail(live) ELSE live
          ELSE cached
    BY DEF RoomFor
<1> HIDE DEF r, live
<1>5. CASE ~(Len(cached) >= CacheSize)
    <2>1. r = cached /\ Len(cached) < CacheSize
        BY <1>1, <1>2, <1>4, <1>5
    <2> QED
        BY <1>2, <2>1 DEF r
<1>6. CASE Len(cached) >= CacheSize /\ ~(Len(live) >= CacheSize)
    <2>1. r = live /\ Len(live) < CacheSize
        BY <1>1, <1>3, <1>4, <1>6
    <2> QED
        BY <1>3, <2>1 DEF r
<1>7. CASE Len(cached) >= CacheSize /\ Len(live) >= CacheSize
    <2>1. Len(cached) = CacheSize /\ Len(live) = Len(cached) /\ Len(live) > 0
        BY <1>1, <1>2, <1>3, <1>7
    <2>2. live = cached /\ \A h \in Held : Live(h)
        BY <1>3, <2>1
    <2>3. r = Tail(cached)
        BY <1>4, <1>7, <2>2
    <2>4. /\ OneForEachKey(r) /\ Len(r) \in Nat /\ Len(r) = CacheSize - 1
          /\ KeysIn(r) = Held \ {cached[1].key}
        BY <1>2, <2>1, <2>2, <2>3, TailKeyed
    <2>5. Len(r) < CacheSize
        BY <1>1, <2>4
    <2> QED
        BY <2>1, <2>2, <2>4, <2>5 DEF r
<1> QED
    BY <1>5, <1>6, <1>7

\* Every entry but the one for the key keeps its place and its value.
Replaced(s, k, e) == [i \in 1..Len(s) |-> IF s[i].key = k THEN e ELSE s[i]]

LEMMA ReplacedKeyed ==
    ASSUME NEW s, OneForEachKey(s), NEW k \in KeysIn(s), NEW e \in EntriesOfCache, e.key = k
    PROVE  OneForEachKey(Replaced(s, k, e)) /\ Len(Replaced(s, k, e)) = Len(s)
           /\ KeysIn(Replaced(s, k, e)) = KeysIn(s)
<1>1. /\ s \in Seq(EntriesOfCache) /\ Len(s) \in Nat
      /\ \A i, j \in 1..Len(s) : s[i].key = s[j].key => i = j
    BY DEF OneForEachKey
<1> DEFINE t == Replaced(s, k, e)
<1>2. \A i \in 1..Len(s) : s[i] \in EntriesOfCache
    BY <1>1
<1>3. t = [i \in 1..Len(s) |-> IF s[i].key = k THEN e ELSE s[i]]
    BY DEF Replaced
<1> HIDE DEF t
<1>4. t \in Seq(EntriesOfCache) /\ Len(t) = Len(s)
    BY <1>1, <1>2, <1>3
<1>5. \A i \in 1..Len(s) : t[i].key = s[i].key
    BY <1>3
<1>6. OneForEachKey(t)
    BY <1>1, <1>4, <1>5 DEF OneForEachKey
<1>7. KeysIn(t) = KeysIn(s)
    BY <1>4, <1>5 DEF KeysIn
<1> QED
    BY <1>4, <1>6, <1>7 DEF t
-----------------------------------------------------------------------------
LEMMA CacheTypeInit == CacheInit => CacheTypeOK
<1> SUFFICES ASSUME CacheInit PROVE CacheTypeOK
    OBVIOUS
<1>1. /\ time = 0 /\ cached = <<>> /\ hits = 0 /\ misses = 0 /\ gave = "nothing"
      /\ CacheSize \in Nat /\ CacheClock \in Nat /\ MaxLookups \in Nat
    BY CacheAssumption DEF CacheInit
<1>2. /\ cached \in Seq(EntriesOfCache) /\ Len(cached) = 0
      /\ \A i \in 1..Len(cached) : FALSE
    BY <1>1
<1> QED
    BY <1>1, <1>2 DEF CacheTypeOK, EntriesOfCache

\* What each operation keeps, and which entries that are alive it takes away.
CacheMoves ==
    /\ OneForEachKey(cached') /\ Len(cached') \in Nat /\ Len(cached') <= CacheSize
    /\ \A k \in CacheKeys : Live(k) /\ k \notin HeldNext =>
          \/ HeldNext \in {Held \ {k}, {}} /\ UNCHANGED <<hits, misses>>
          \/ /\ \A h \in Held : Live(h)
             /\ Len(cached) = CacheSize /\ cached[1].key = k
             /\ Held \ {k} \subseteq HeldNext

LEMMA HeldNextIs == HeldNext = KeysIn(cached')
    BY DEF HeldNext, KeysIn

LEMMA SetMoves ==
    ASSUME CacheTypeOK, NEW k \in CacheKeys, NEW ttl \in Lifetimes, NEW defined \in BOOLEAN,
           Set(k, ttl, defined)
    PROVE  CacheMoves
<1> DEFINE e == [key |-> k, expiresAt |-> time + ttl, defined |-> defined]
<1>1. e \in EntriesOfCache /\ e.key = k
    <2>1. time \in Nat /\ ttl \in Nat
        BY CacheAssumption DEF CacheTypeOK
    <2>2. time + ttl \in Nat
        BY <2>1
    <2> QED
        BY <2>2 DEF EntriesOfCache
<1>2. cached' = IF k \in Held THEN Replaced(cached, k, e) ELSE Append(RoomFor(k), e)
    BY DEF Set, Replaced
<1>3. /\ OneForEachKey(cached) /\ Len(cached) \in Nat /\ Len(cached) <= CacheSize
      /\ Held = KeysIn(cached) /\ CacheSize \in Nat
    BY CacheKeyed, CacheAssumption
<1> HIDE DEF e
<1>4. CASE k \in Held
    <2>1. OneForEachKey(cached') /\ Len(cached') = Len(cached) /\ HeldNext = Held
        BY <1>1, <1>2, <1>3, <1>4, ReplacedKeyed, HeldNextIs
    <2> QED
        BY <1>3, <2>1 DEF CacheMoves, Live
<1>5. CASE k \notin Held
    <2>1. /\ OneForEachKey(RoomFor(k)) /\ Len(RoomFor(k)) \in Nat /\ Len(RoomFor(k)) < CacheSize
          /\ KeysIn(RoomFor(k)) \subseteq Held
        BY <1>5, RoomMade
    <2>2. cached' = Append(RoomFor(k), e) /\ e.key \notin KeysIn(RoomFor(k))
        BY <1>1, <1>2, <1>5, <2>1
    <2>3. /\ OneForEachKey(cached') /\ Len(cached') = Len(RoomFor(k)) + 1
          /\ HeldNext = KeysIn(RoomFor(k)) \cup {k}
        BY <1>1, <2>1, <2>2, AppendKeyed, HeldNextIs
    <2>4. Len(cached') \in Nat /\ Len(cached') <= CacheSize
        BY <1>3, <2>1, <2>3
    <2>5. ASSUME NEW h \in CacheKeys, Live(h), h \notin HeldNext
          PROVE  /\ \A g \in Held : Live(g)
                 /\ Len(cached) = CacheSize /\ cached[1].key = h
                 /\ Held \ {h} \subseteq HeldNext
        <3>1. h \in Held /\ h \notin KeysIn(RoomFor(k))
            BY <2>3, <2>5 DEF Live
        <3> QED
            BY <1>5, <2>3, <2>5, <3>1, RoomMade
    <2> QED
        BY <2>3, <2>4, <2>5 DEF CacheMoves
<1> QED
    BY <1>4, <1>5

LEMMA WithoutMoves ==
    ASSUME CacheTypeOK, NEW k \in CacheKeys, cached' = Without(cached, k),
           ~Live(k) \/ UNCHANGED <<hits, misses>>
    PROVE  CacheMoves
<1>1. Len(cached) \in Nat /\ Len(cached) <= CacheSize /\ CacheSize \in Nat
    BY CacheKeyed, CacheAssumption
<1>2. /\ OneForEachKey(cached') /\ Len(cached') \in Nat /\ Len(cached') <= Len(cached)
      /\ HeldNext = Held \ {k}
    BY WithoutRemoves, HeldNextIs
<1>3. Len(cached') <= CacheSize
    BY <1>1, <1>2
<1>4. ASSUME NEW h \in CacheKeys, Live(h), h \notin HeldNext
      PROVE  HeldNext \in {Held \ {h}, {}} /\ UNCHANGED <<hits, misses>>
    BY <1>2, <1>4 DEF Live
<1> QED
    BY <1>2, <1>3, <1>4 DEF CacheMoves

LEMMA EvictionMoves ==
    ASSUME CacheTypeOK, cached' = LiveOnly(cached)
    PROVE  CacheMoves
<1>1. Len(cached) \in Nat /\ Len(cached) <= CacheSize /\ CacheSize \in Nat
    BY CacheKeyed, CacheAssumption
<1>2. /\ OneForEachKey(cached') /\ Len(cached') \in Nat /\ Len(cached') <= Len(cached)
      /\ HeldNext = {k \in Held : Live(k)}
    BY LiveOnlyKeeps, HeldNextIs
<1>3. Len(cached') <= CacheSize
    BY <1>1, <1>2
<1>4. \A k \in CacheKeys : Live(k) => k \in HeldNext
    BY <1>2 DEF Live
<1> QED
    BY <1>2, <1>3, <1>4 DEF CacheMoves

LEMMA NothingMoves ==
    ASSUME CacheTypeOK, cached' = cached
    PROVE  CacheMoves
<1>1. OneForEachKey(cached) /\ Len(cached) \in Nat /\ Len(cached) <= CacheSize /\ Held = KeysIn(cached)
    BY CacheKeyed
<1>2. HeldNext = Held
    BY <1>1, HeldNextIs
<1> QED
    BY <1>1, <1>2 DEF CacheMoves, Live

LEMMA ClearingMoves ==
    ASSUME CacheTypeOK, cached' = <<>>, UNCHANGED <<hits, misses>>
    PROVE  CacheMoves
<1>1. Len(cached') = 0 /\ CacheSize \in Nat /\ cached' \in Seq(EntriesOfCache)
    BY CacheAssumption
<1>2. \A i \in 1..Len(cached') : FALSE
    BY <1>1
<1>3. HeldNext = {} /\ OneForEachKey(cached')
    BY <1>1, <1>2 DEF HeldNext, OneForEachKey
<1>4. Len(cached') \in Nat /\ Len(cached') <= CacheSize
    BY <1>1
<1> QED
    BY <1>3, <1>4 DEF CacheMoves

\* The variables but the entries keep their type.
OthersOK ==
    /\ time \in 0..CacheClock
    /\ hits \in Nat /\ misses \in Nat /\ hits + misses <= MaxLookups
    /\ gave \in {"nothing", "value", "undefined"}

LEMMA CacheStep ==
    ASSUME CacheTypeOK, [CacheNext]_cacheVars
    PROVE  CacheMoves /\ CacheTypeOK'
<1>1. OthersOK /\ CacheClock \in Nat /\ MaxLookups \in Nat
    BY CacheAssumption DEF CacheTypeOK, OthersOK
<1>2. ASSUME NEW k \in CacheKeys, NEW ttl \in Lifetimes, NEW defined \in BOOLEAN,
             Set(k, ttl, defined)
      PROVE  CacheMoves /\ OthersOK'
    <2>1. OthersOK'
        BY <1>1, <1>2 DEF OthersOK, Set
    <2> QED
        BY <1>2, <2>1, SetMoves
<1>3. ASSUME NEW k \in CacheKeys, Get(k) PROVE CacheMoves /\ OthersOK'
    <2>1. /\ time' = time /\ hits + misses < MaxLookups
          /\ \/ hits' = hits + 1 /\ misses' = misses /\ cached' = cached
             \/ misses' = misses + 1 /\ hits' = hits /\ cached' = Without(cached, k) /\ ~Live(k)
          /\ gave' \in {"nothing", "value", "undefined"}
        BY <1>3 DEF Get
    <2>2. OthersOK'
        BY <1>1, <2>1 DEF OthersOK
    <2> QED
        BY <2>1, <2>2, NothingMoves, WithoutMoves
<1>4. ASSUME NEW k \in CacheKeys, Delete(k) PROVE CacheMoves /\ OthersOK'
    <2>1. OthersOK' /\ cached' = Without(cached, k) /\ UNCHANGED <<hits, misses>>
        BY <1>1, <1>4 DEF OthersOK, Delete
    <2> QED
        BY <2>1, WithoutMoves
<1>5. ASSUME EvictExpired PROVE CacheMoves /\ OthersOK'
    <2>1. OthersOK' /\ cached' = LiveOnly(cached)
        BY <1>1, <1>5 DEF OthersOK, EvictExpired
    <2> QED
        BY <2>1, EvictionMoves
<1>6. ASSUME Clear PROVE CacheMoves /\ OthersOK'
    <2>1. OthersOK' /\ cached' = <<>> /\ UNCHANGED <<hits, misses>>
        BY <1>1, <1>6 DEF OthersOK, Clear
    <2> QED
        BY <2>1, ClearingMoves
<1>7. ASSUME CacheTick PROVE CacheMoves /\ OthersOK'
    <2>1. OthersOK' /\ cached' = cached
        BY <1>1, <1>7 DEF OthersOK, CacheTick
    <2> QED
        BY <2>1, NothingMoves
<1>8. ASSUME UNCHANGED cacheVars PROVE CacheMoves /\ OthersOK'
    <2>1. OthersOK' /\ cached' = cached
        BY <1>1, <1>8 DEF OthersOK, cacheVars
    <2> QED
        BY <2>1, NothingMoves
<1>9. CacheMoves /\ OthersOK'
    BY <1>2, <1>3, <1>4, <1>5, <1>6, <1>7, <1>8 DEF CacheNext
<1> QED
    BY <1>9 DEF CacheMoves, OthersOK, CacheTypeOK, OneForEachKey, EntriesOfCache

\* The cache never holds more than maxEntries entries nor two for a key.
THEOREM CacheTypeCorrect == CacheSpec => []CacheTypeOK
<1>1. CacheTypeOK /\ [CacheNext]_cacheVars => CacheTypeOK'
    BY CacheStep
<1> QED
    BY CacheTypeInit, <1>1, PTL DEF CacheSpec

\* A value that is alive leaves the cache only by delete() or clear(), or as the
\* one inserted first when a new key finds the cache full of values that are alive;
\* for every capacity, every set of keys and every lifetime.
THEOREM EvictedLast == CacheSpec => LiveEvictedLast
<1> DEFINE Evicts ==
        \A k \in CacheKeys : Live(k) /\ k \notin HeldNext =>
          \/ HeldNext \in {Held \ {k}, {}} /\ UNCHANGED <<hits, misses>>
          \/ /\ \A h \in Held : Live(h)
             /\ Len(cached) = CacheSize /\ cached[1].key = k
             /\ Held \ {k} \subseteq HeldNext
<1>1. CacheTypeOK /\ [CacheNext]_cacheVars => [Evicts]_cacheVars
    BY CacheStep DEF CacheMoves
<1> QED
    BY CacheTypeCorrect, <1>1, PTL DEF CacheSpec, LiveEvictedLast
=============================================================================
