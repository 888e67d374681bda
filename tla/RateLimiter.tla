----------------------------- MODULE RateLimiter -----------------------------
(***************************************************************************)
(* src/src/rate-limiter.js: a token bucket refilled from a wall clock that *)
(* may be set back.  A tick of the clock is the time in which one token is *)
(* refilled, so tokens are whole numbers and retryAfterMs is the number of *)
(* tokens missing.                                                         *)
(***************************************************************************)
EXTENDS Integers

CONSTANTS
    Capacity,
    Counts,       \* what callers ask for at once
    MaxTime,      \* bound on the clock
    MaxForward,   \* bound on its way forward
    MaxResets     \* bound on the resets

ASSUME LimiterAssumption ==
    /\ Capacity \in Nat \ {0} /\ Counts \subseteq Nat \ {0}
    /\ MaxTime \in Nat /\ MaxForward \in Nat /\ MaxResets \in Nat

VARIABLES
    wall,       \* the clock
    tokens,
    lastRefill,
    promise,    \* the last refusal: how many tokens, and when they are promised
    forward,    \* history: how far the clock has gone forward
    granted,    \* history: tokens granted
    resets      \* resets so far

limiterVars == <<wall, tokens, lastRefill, promise, forward, granted, resets>>

NoPromise == [count |-> 0, at |-> 0]

LimiterInit ==
    /\ wall \in 0..MaxTime /\ lastRefill = wall
    /\ tokens = Capacity
    /\ promise = NoPromise /\ forward = 0 /\ granted = 0 /\ resets = 0

Least(m, n) == IF m <= n THEN m ELSE n

\* Mutant of Refilled: a clock that was set back counts as well.
RefilledBothWays ==
    Least(Capacity, tokens + (IF wall > lastRefill THEN wall - lastRefill ELSE lastRefill - wall))

\* refill(): what has accrued since lastRefill, nothing when the clock went back.
Refilled ==
    Least(Capacity, tokens + (IF wall > lastRefill THEN wall - lastRefill ELSE 0))

\* tryAcquire() and acquire(), granted. lastRefill follows the clock, also back.
Grant(count) ==
    /\ Refilled >= count
    /\ tokens' = Refilled - count
    /\ lastRefill' = wall
    /\ granted' = granted + count
    /\ promise' = NoPromise
    /\ UNCHANGED <<wall, forward, resets>>

\* Refused, with retryAfterMs.
Refuse(count) ==
    /\ Refilled < count
    /\ tokens' = Refilled
    /\ lastRefill' = wall
    /\ promise' = [count |-> count, at |-> wall + count - Refilled]
    /\ UNCHANGED <<wall, forward, granted, resets>>

\* available() and snapshot() refill.
LookAt ==
    /\ tokens' = Refilled /\ lastRefill' = wall
    /\ UNCHANGED <<wall, promise, forward, granted, resets>>

ResetLimiter ==
    /\ resets < MaxResets /\ resets' = resets + 1
    /\ tokens' = Capacity /\ lastRefill' = wall
    /\ promise' = NoPromise
    /\ UNCHANGED <<wall, forward, granted>>

TimePasses(t) ==
    /\ t > wall /\ forward + t - wall <= MaxForward
    /\ wall' = t /\ forward' = forward + t - wall
    /\ UNCHANGED <<tokens, lastRefill, promise, granted, resets>>

\* The clock is set back: what was promised for a time of the old clock is void.
TimeSetBack(t) ==
    /\ t < wall /\ wall' = t
    /\ promise' = NoPromise
    /\ UNCHANGED <<tokens, lastRefill, forward, granted, resets>>

LimiterNext ==
    \/ \E count \in Counts : Grant(count) \/ Refuse(count)
    \/ LookAt \/ ResetLimiter
    \/ \E t \in 0..MaxTime : TimePasses(t) \/ TimeSetBack(t)

LimiterSpec == LimiterInit /\ [][LimiterNext]_limiterVars
-----------------------------------------------------------------------------
(* Properties. *)

\* Every variable holds values the code can give it; the bucket is never
\* overfull nor overdrawn.
LimiterTypeOK ==
    /\ wall \in 0..MaxTime /\ lastRefill \in 0..MaxTime
    /\ tokens \in 0..Capacity
    /\ promise \in [count : Counts \cup {0}, at : Nat]
    /\ forward \in 0..MaxForward /\ granted \in Nat /\ resets \in 0..MaxResets

\* The limiter never grants more than the bucket it started with, one more for
\* each reset, and the time that has really gone by, however often the clock
\* was set back in between and whoever looked at it (lines 12-17).
NeverOverIssues == granted + tokens <= Capacity * (resets + 1) + forward

\* A caller that was refused a count the bucket can hold, and comes back after
\* retryAfterMs by a clock that was not set back, with nobody served in between,
\* has the tokens waiting (line 28).
RetryAfterSuffices ==
    promise.count \in 1..Capacity /\ wall >= promise.at => Refilled >= promise.count
=============================================================================
