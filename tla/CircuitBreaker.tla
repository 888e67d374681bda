--------------------------- MODULE CircuitBreaker ---------------------------
(***************************************************************************)
(* src/src/circuit-breaker.js: execute(operation) admits an operation      *)
(* unless the circuit is open, and counts how it ended.  Operations are    *)
(* asynchronous: one that was admitted may end long after, when other      *)
(* operations have opened the circuit, when it is half-open, or after      *)
(* reset().  "Half-open" is no stored state: it is what an open circuit is *)
(* called once its timeout is over.                                        *)
(***************************************************************************)
EXTENDS Naturals, FiniteSets

CONSTANTS
    Ops,              \* calls of execute()
    FailureThreshold, \* failureThreshold
    ResetTimeout,     \* resetTimeoutMs
    MaxInFlight,      \* how many operations the callers keep in flight
    MaxClock          \* bound on the clock

\* The constructor replaces other values by its defaults (lines 7-8).
ASSUME BreakerAssumption ==
    /\ IsFiniteSet(Ops)
    /\ FailureThreshold \in Nat \ {0} /\ ResetTimeout \in Nat
    /\ MaxInFlight \in Nat \ {0} /\ MaxClock \in Nat

VARIABLES
    now,      \* clock()
    state,    \* this.state: "closed" or "open"
    failures, \* this.failures
    openedAt, \* this.openedAt, 0 for null
    pc,       \* pc[o]: how far execute() of operation o is
    streak,   \* history: operations that failed since the last success or reset
    late      \* history: operations that succeeded behind the open circuit since
              \* it opened, before the timeout was over

breakerVars == <<now, state, failures, openedAt, pc, streak, late>>

BreakerInit ==
    /\ now = 0
    /\ state = "closed" /\ failures = 0 /\ openedAt = 0
    /\ pc = [o \in Ops |-> "idle"]
    /\ streak = {} /\ late = {}
-----------------------------------------------------------------------------
\* currentState()
TimeoutOver == now >= openedAt + ResetTimeout
CurrentState == IF state = "open" /\ TimeoutOver THEN "half-open" ELSE state

InFlight == {o \in Ops : pc[o] = "running"}

\* execute() up to its await: allowRequest(), then the operation is called.
Admit(o) ==
    /\ pc[o] = "idle" /\ Cardinality(InFlight) < MaxInFlight
    /\ CurrentState # "open"
    /\ pc' = [pc EXCEPT ![o] = "running"]
    /\ UNCHANGED <<now, state, failures, openedAt, streak, late>>

\* CIRCUIT_OPEN is thrown.
Reject(o) ==
    /\ pc[o] = "idle"
    /\ CurrentState = "open"
    /\ pc' = [pc EXCEPT ![o] = "rejected"]
    /\ UNCHANGED <<now, state, failures, openedAt, streak, late>>

\* Mutant of Succeed: a success leaves the count of failures.
SucceedKeepsCount(o) ==
    /\ pc[o] = "running"
    /\ pc' = [pc EXCEPT ![o] = "succeeded"]
    /\ streak' = {} /\ late' = IF CurrentState = "open" THEN late \cup {o} ELSE {}
    /\ IF CurrentState = "half-open"
       THEN state' = "closed" /\ openedAt' = 0
       ELSE UNCHANGED <<state, openedAt>>
    /\ UNCHANGED <<now, failures>>

\* recordSuccess()
Succeed(o) ==
    /\ pc[o] = "running"
    /\ pc' = [pc EXCEPT ![o] = "succeeded"]
    /\ streak' = {} /\ late' = IF CurrentState = "open" THEN late \cup {o} ELSE {}
    /\ failures' = 0
    /\ IF CurrentState = "half-open"
       THEN state' = "closed" /\ openedAt' = 0
       ELSE UNCHANGED <<state, openedAt>>
    /\ UNCHANGED now

\* Mutant of Fail: the opening time is kept when the circuit is open already.
FailKeepsOpening(o) ==
    /\ pc[o] = "running"
    /\ pc' = [pc EXCEPT ![o] = "failed"]
    /\ streak' = streak \cup {o}
    /\ failures' = failures + 1
    /\ IF failures + 1 >= FailureThreshold /\ state = "closed"
       THEN state' = "open" /\ openedAt' = now /\ late' = {}
       ELSE UNCHANGED <<state, openedAt, late>>
    /\ UNCHANGED now

\* recordFailure()
Fail(o) ==
    /\ pc[o] = "running"
    /\ pc' = [pc EXCEPT ![o] = "failed"]
    /\ streak' = streak \cup {o}
    /\ failures' = failures + 1
    /\ IF failures + 1 >= FailureThreshold
       THEN state' = "open" /\ openedAt' = now /\ late' = {}
       ELSE UNCHANGED <<state, openedAt, late>>
    /\ UNCHANGED now

\* reset()
Reset ==
    /\ state = "open" \/ failures > 0
    /\ state' = "closed" /\ failures' = 0 /\ openedAt' = 0
    /\ streak' = {} /\ late' = {}
    /\ UNCHANGED <<now, pc>>

Tick ==
    /\ now < MaxClock /\ now' = now + 1
    /\ UNCHANGED <<state, failures, openedAt, pc, streak, late>>

BreakerNext ==
    \/ Tick \/ Reset
    \/ \E o \in Ops : Admit(o) \/ Reject(o) \/ Succeed(o) \/ Fail(o)

BreakerSpec == BreakerInit /\ [][BreakerNext]_breakerVars
-----------------------------------------------------------------------------
(* Properties. *)

\* Every variable holds values the code can give it, and a closed circuit
\* remembers no opening time.
BreakerTypeOK ==
    /\ now \in Nat /\ failures \in Nat /\ openedAt \in 0..now
    /\ state \in {"closed", "open"}
    /\ state = "closed" => openedAt = 0
    /\ pc \in [Ops -> {"idle", "running", "succeeded", "failed", "rejected"}]
    /\ streak \subseteq Ops /\ late \subseteq Ops

\* "Stays closed until the failure threshold is reached"
\* (circuit-breaker.test.js line 7): whatever the order in which operations in
\* flight end, a closed circuit opens exactly when FailureThreshold different
\* operations have failed since the last success or reset() (lines 27-45).
TripsOnConsecutiveFailures ==
    [][state = "closed" =>
          (state' = "open" <=> Cardinality(streak') >= FailureThreshold)]_breakerVars

\* How the half-open state ends when an operation fails.
ReopensAt(o) ==
    CurrentState = "half-open" /\ pc[o] = "running" /\ pc'[o] = "failed" =>
    state' = "open" /\ openedAt' = now

\* Whatever operations are still in flight from before, a failure in half-open
\* opens the circuit again for a whole timeout, unless an operation succeeded
\* behind the open circuit since it opened (lines 27-45).
ReopensUnlessLateSuccess ==
    [][late = {} => \A o \in Ops : ReopensAt(o)]_breakerVars

\* "A failure in half-open opens the circuit again" (circuit-breaker.test.js
\* line 35), without the exception.  True of callers that run one operation at a
\* time: then nothing can succeed behind an open circuit.
HalfOpenFailureReopens ==
    [][\A o \in Ops : ReopensAt(o)]_breakerVars
=============================================================================
