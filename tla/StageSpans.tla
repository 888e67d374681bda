------------------------------ MODULE StageSpans ------------------------------
(***************************************************************************)
(* The times of a pipeline run: runTaskPipeline() reads the wall clock     *)
(* before and after each stage, recordStage() of                           *)
(* src/src/runtime-observability.js keeps durations, and buildRunSpans()   *)
(* of src/src/runtime-telemetry.js lays spans out from the times, or from  *)
(* the durations where the times are gone (they are not enumerable, so a   *)
(* copy of the run has none).  The wall clock may be set back.             *)
(***************************************************************************)
EXTENDS Integers, Sequences

CONSTANT SpanClock \* bound on the clock

ASSUME SpanAssumption == SpanClock \in Nat

Stages == <<"parse", "plan", "execute", "verify">>

VARIABLES
    watch,   \* the clock
    stamps,  \* the times read so far: start and finish of each stage in turn
    setBack  \* history: whether the clock was set back since the run began

spanVars == <<watch, stamps, setBack>>

SpanInit == watch = 0 /\ stamps = <<>> /\ setBack = FALSE

Stamp ==
    /\ Len(stamps) < 2 * Len(Stages)
    /\ stamps' = Append(stamps, watch)
    /\ UNCHANGED <<watch, setBack>>

WatchMoves(t) ==
    /\ t # watch /\ watch' = t
    /\ setBack' = (setBack \/ (t < watch /\ stamps # <<>>))
    /\ UNCHANGED stamps

SpanNext == Stamp \/ \E t \in 0..SpanClock : WatchMoves(t)

SpanSpec == SpanInit /\ [][SpanNext]_spanVars
-----------------------------------------------------------------------------
\* durationMs of a stage.
Duration(i) ==
    IF stamps[2 * i] >= stamps[2 * i - 1] THEN stamps[2 * i] - stamps[2 * i - 1] ELSE 0

\* summarizeStages() of the first n stages.
DurationOf[n \in 0..Len(Stages)] == IF n = 0 THEN 0 ELSE DurationOf[n - 1] + Duration(n)

Span(from, to) == [from |-> from, to |-> to]

\* The span of a stage: with "timed", as it was; otherwise one after the other,
\* so that they end now.
ChildSpan(timed, i) ==
    IF timed THEN Span(stamps[2 * i - 1], stamps[2 * i])
    ELSE LET begin == watch - DurationOf[Len(Stages)] IN
         Span(begin + DurationOf[i - 1], begin + DurationOf[i])

\* Mutant of RootSpan: the root lasts as long as the stages together.
RootSpanByDuration(timed) ==
    LET from == ChildSpan(timed, 1).from IN Span(from, from + DurationOf[Len(Stages)])

\* The root starts with the first stage and ends with the last.
RootSpan(timed) ==
    LET from == ChildSpan(timed, 1).from
        to == ChildSpan(timed, Len(Stages)).to
    IN  Span(from, IF to >= from THEN to ELSE from)
-----------------------------------------------------------------------------
(* Properties. *)

\* Every variable holds values the code can give it.
SpanTypeOK ==
    /\ watch \in 0..SpanClock /\ setBack \in BOOLEAN
    /\ stamps \in Seq(0..SpanClock) /\ Len(stamps) <= 2 * Len(Stages)

Nested(timed) ==
    /\ \A i \in 1..Len(Stages) :
          LET child == ChildSpan(timed, i) IN
          /\ RootSpan(timed).from <= child.from /\ child.to <= RootSpan(timed).to
          /\ child.from <= child.to
          /\ i > 1 => ChildSpan(timed, i - 1).to <= child.from
    /\ RootSpan(timed).to - RootSpan(timed).from >= DurationOf[Len(Stages)]

\* A trace is well formed: the spans of the stages lie one after the other
\* within the root span, which lasts at least the duration the ledger has for
\* the run; laid out from the durations that holds even when the clock was set
\* back during the run (runtime-telemetry.js lines 244-263).
SpansNest ==
    Len(stamps) = 2 * Len(Stages) => Nested(FALSE) /\ (setBack \/ Nested(TRUE))
=============================================================================
