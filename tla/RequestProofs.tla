--------------------------- MODULE RequestProofs ----------------------------
(***************************************************************************)
(* Proofs about what stands between a request and its execution: the planned *)
(* pipeline, for whatever a model may propose, the MCP server and the clients *)
(* of other services, for any requests, findings and guards, any number of *)
(* calls and of attempts.                                                  *)
(***************************************************************************)
EXTENDS PlannedPipeline, FinanceMcp, RetriedRequest, FiniteSetTheorems, SequenceTheorems, TLAPS

-----------------------------------------------------------------------------
(* PlannedPipeline. *)

\* What the pipeline needs of a plan: it is valid, and its only execute step
\* awaits a tool.
Executable(steps) ==
    /\ PlanValid(steps) /\ Len(steps) \in Nat
    /\ \E e \in 1..Len(steps) :
          Doing(steps, "execute") = {e} /\ steps[e].status = "requires-tool"

Allowed == GateAllows(Screened(call.guard), call.reviewer)

\* How a run ends, given the guard and the tool.
RanAsAllowed ==
    /\ ran.executed <=> Allowed /\ call.tool \in {"function", "adapter"}
    /\ ran.ended = "threw" => Allowed /\ call.tool \in {"adapter", "odd"}
    /\ ~ran.executed /\ ran.ended = "returned" =>
          ran.reason = IF Allowed THEN "tool is required" ELSE GateReason(Screened(call.guard))
    /\ ran.executed /\ call.tool = "function" => ran.status # "skipped"
    /\ ~ran.executed /\ ran.ended = "returned" => ran.status = "skipped"

PlannerInv ==
    /\ call \in PlanRequests
    /\ planning \in {"planned", "done"} => Executable(planned.steps)
    /\ sent => ~RejectsInput
    /\ ran = NotRun \/ RanAsAllowed
-----------------------------------------------------------------------------
(* Plans. *)

\* The deterministic plan is one the pipeline can execute.
LEMMA DeterministicExecutable == Executable(DeterministicSteps)
<1> DEFINE steps == DeterministicSteps
<1>1. Len(steps) = 5
  BY DEF DeterministicSteps
<1>2. /\ steps[1] = Step(1, "parse", "ready") /\ steps[2] = Step(2, "plan", "ready")
      /\ steps[3] = Step(3, "execute", "requires-tool")
      /\ steps[4] = Step(4, "verify", "pending") /\ steps[5] = Step(5, "report", "pending")
  BY DEF DeterministicSteps
<1>3. \A i \in 1..5 : i \in {1, 2, 3, 4, 5}
  OBVIOUS
<1>4. Doing(steps, "execute") = {3}
  <2> HIDE DEF steps
  <2> QED
    BY <1>1, <1>2, <1>3 DEF Doing, Step
<1>5. PlanValid(steps)
  <2>1. steps # <<>>
    BY <1>1
  <2> HIDE DEF steps
  <2>2. \A i \in 1..Len(steps) : steps[i].id >= 1 /\ steps[i].status \in AllowedStatuses
    BY <1>1, <1>2, <1>3 DEF Step, AllowedStatuses
  <2> QED
    BY <2>1, <2>2 DEF PlanValid
<1>6. 3 \in 1..Len(steps) /\ steps[3].status = "requires-tool"
  BY <1>1, <1>2 DEF Step
<1> QED
  BY <1>1, <1>4, <1>5, <1>6 DEF Executable

\* So is every proposal that passes validation.
LEMMA AcceptableExecutable ==
    ASSUME NEW steps, Acceptable(steps)
    PROVE  Executable(steps)
<1>1. Len(steps) \in Nat
  BY PlannerAssumption DEF Acceptable, WellFormed
<1>2. PICK e \in Doing(steps, "execute") :
         Doing(steps, "execute") = {e} /\ steps[e].status = "requires-tool"
  BY DEF Acceptable
<1>3. e \in 1..Len(steps)
  BY <1>2 DEF Doing
<1> QED
  BY <1>1, <1>2, <1>3 DEF Acceptable, Executable

\* Such a plan is objected to only for want of a tool.
LEMMA ObjectsToNoToolOnly ==
    ASSUME NEW steps, Executable(steps), NEW tool
    PROVE  Objection(steps, tool) = IF tool = "none" THEN "tool is required" ELSE "none"
<1>1. PICK e \in 1..Len(steps) :
         Doing(steps, "execute") = {e} /\ steps[e].status = "requires-tool"
  BY DEF Executable
<1>2. FirstOf({e}) = e
  <2>1. e \in Nat
    BY DEF Executable
  <2>2. \A i \in {e} : \A j \in {e} : i <= j
    BY <2>1
  <2> QED
    BY <2>2 DEF FirstOf
<1> QED
  BY <1>1, <1>2 DEF Objection
-----------------------------------------------------------------------------
(* The guard. *)

\* What is allowed without a reviewer has no finding that counts; with one, none
\* that the guard would block.
LEMMA AllowedFindings ==
    ASSUME NEW guard, guard.mode \in Modes, NEW findings,
           \A f \in findings : f.severity \in Severities,
           NEW kept, kept = Considered(findings, guard.ignored)
    PROVE  /\ GuardDecision(guard, findings) = "allow" => kept = {}
           /\ GuardDecision(guard, findings) = "require_approval" =>
                 /\ guard.mode # "block"
                 /\ guard.mode = "approve" => \A f \in kept : f.severity # "high"
<1>1. GuardDecision(guard, findings) = DecisionOn(guard.mode, kept)
  BY DEF GuardDecision
<1>2. DecisionOn(guard.mode, kept) = "allow" => kept = {}
  BY DEF DecisionOn, Modes
<1>3. DecisionOn(guard.mode, kept) = "require_approval" =>
         kept # {} /\ guard.mode # "block" /\ (guard.mode = "approve" => Highest(kept) # "high")
  BY DEF DecisionOn, Modes
<1>4. ASSUME NEW f \in kept, f.severity = "high" PROVE Highest(kept) = "high"
  <2>1. \A g \in kept : g.severity \in Severities
    BY DEF Considered
  <2>2. \A g \in kept : Rank(g.severity) \in 0..3 /\ Rank(g.severity) <= Rank(f.severity)
    BY <1>4, <2>1 DEF Rank, Severities
  <2> DEFINE top == CHOOSE h \in kept : \A g \in kept : Rank(g.severity) <= Rank(h.severity)
  <2>3. top \in kept /\ \A g \in kept : Rank(g.severity) <= Rank(top.severity)
    BY <1>4, <2>2
  <2>4. Rank(f.severity) <= Rank(top.severity) /\ top.severity \in Severities
    BY <2>1, <2>3
  <2> HIDE DEF top
  <2>5. top.severity = "high"
    BY <1>4, <2>4 DEF Rank, Severities
  <2>6. Highest(kept) = top.severity
    BY DEF Highest, top
  <2> QED
    BY <2>5, <2>6
<1> QED
  BY <1>1, <1>2, <1>3, <1>4
-----------------------------------------------------------------------------
LEMMA PlannerInitially == PlannerInit => PlannerInv
  BY DEF PlannerInit, PlannerInv

\* The planner leaves an executable plan, and asks a model only what may be sent.
LEMMA PlannerKeeps ==
    ASSUME PlannerInv, Planner
    PROVE  PlannerInv'
<1>1. call' = call /\ ran' = ran
  BY DEF Planner, NotConfigured, InputRejected, Ask, PlanTimerFires, PlanAborted, FetchFails,
         ResponseComes, NotJson, NoText, ProposalComes, Falls
<1>2. sent' => ~RejectsInput
  BY DEF PlannerInv, Planner, NotConfigured, InputRejected, Ask, PlanTimerFires, PlanAborted,
         FetchFails, ResponseComes, NotJson, NoText, ProposalComes
<1>3. planning' \in {"planned", "done"} => Executable(planned'.steps)
  <2>1. ASSUME NEW reason, Falls(reason) PROVE Executable(planned'.steps)
    BY <2>1, DeterministicExecutable DEF Falls
  <2>2. ASSUME NEW steps \in Proposals, ProposalComes(steps) PROVE Executable(planned'.steps)
    BY <2>1, <2>2, AcceptableExecutable DEF ProposalComes
  <2>3. ASSUME PlanTimerFires PROVE planning' = planning /\ planned' = planned
    BY <2>3 DEF PlanTimerFires
  <2>4. ASSUME Ask \/ ResponseComes PROVE planning' \notin {"planned", "done"}
    BY <2>4 DEF Ask, ResponseComes
  <2>5. CASE NotConfigured \/ InputRejected \/ PlanAborted \/ FetchFails \/ NotJson \/ NoText
    BY <2>1, <2>5 DEF NotConfigured, InputRejected, PlanAborted, FetchFails, NotJson, NoText
  <2> QED
    BY <2>2, <2>3, <2>4, <2>5 DEF Planner, PlannerInv
<1>4. RejectsInput' = RejectsInput
  BY <1>1 DEF RejectsInput, Screened
<1>5. RanAsAllowed' = RanAsAllowed
  BY <1>1 DEF RanAsAllowed, Allowed, Screened
<1> QED
  BY <1>1, <1>2, <1>3, <1>4, <1>5 DEF PlannerInv

\* The run that follows is the one the guard and the tool allow.
LEMMA RunKeeps ==
    ASSUME PlannerInv, RunPipeline
    PROVE  PlannerInv'
<1> DEFINE decision == Screened(call.guard)
           tool == call.tool
<1>1. UNCHANGED <<call, sent, planned>> /\ planning = "planned"
  BY DEF RunPipeline
<1>2. Executable(planned.steps) /\ PlanValid(planned.steps)
  BY <1>1 DEF PlannerInv, Executable
<1>3. tool \in {"none", "function", "adapter", "odd"}
  BY PlannerAssumption DEF PlannerInv
<1>4. Objection(planned.steps, tool) = IF tool = "none" THEN "tool is required" ELSE "none"
  BY <1>2, ObjectsToNoToolOnly
<1>5. ASSUME ~Allowed PROVE RanAsAllowed'
  <2>1. ran' = [ended |-> "returned", executed |-> FALSE, status |-> "skipped",
                reason |-> GateReason(decision)]
    BY <1>2, <1>5 DEF RunPipeline, Allowed, Returns
  <2>2. /\ ran'.executed = FALSE /\ ran'.ended = "returned" /\ ran'.reason = GateReason(decision)
        /\ ran'.status = "skipped"
    BY <2>1
  <2> QED
    BY <1>1, <1>5, <2>2 DEF RanAsAllowed, Allowed, Screened
<1>6. ASSUME Allowed, tool = "none" PROVE RanAsAllowed'
  <2>1. ran' = [ended |-> "returned", executed |-> FALSE, status |-> "skipped",
                reason |-> "tool is required"]
    BY <1>2, <1>4, <1>6 DEF RunPipeline, Allowed, Returns
  <2>2. /\ ran'.executed = FALSE /\ ran'.ended = "returned" /\ ran'.reason = "tool is required"
        /\ ran'.status = "skipped"
    BY <2>1
  <2> QED
    BY <1>1, <1>6, <2>2 DEF RanAsAllowed, Allowed, Screened
<1>7. ASSUME Allowed, tool # "none" PROVE RanAsAllowed'
  <2>1. Execute
    BY <1>2, <1>4, <1>7 DEF RunPipeline, Allowed
  <2>2. CASE tool = "function"
    <3>1. ran'.executed = TRUE /\ ran'.ended = "returned" /\ ran'.status # "skipped"
      BY <2>1, <2>2 DEF Execute, Returns
    <3> QED
      BY <1>1, <1>7, <2>2, <3>1 DEF RanAsAllowed, Allowed, Screened
  <2>3. CASE tool = "adapter"
    <3>1. ran'.executed = TRUE
      BY <2>1, <2>3 DEF Execute, Returns, Throws
    <3> QED
      BY <1>1, <1>7, <2>3, <3>1 DEF RanAsAllowed, Allowed, Screened
  <2>4. CASE tool = "odd"
    <3>1. ran'.executed = FALSE /\ ran'.ended = "threw"
      BY <2>1, <2>4 DEF Execute, Throws
    <3> QED
      BY <1>1, <1>7, <2>4, <3>1 DEF RanAsAllowed, Allowed, Screened
  <2> QED
    BY <1>3, <1>7, <2>2, <2>3, <2>4
<1>8. RanAsAllowed'
  BY <1>5, <1>6, <1>7
<1>9. RejectsInput' = RejectsInput
  BY <1>1 DEF RejectsInput, Screened
<1> QED
  BY <1>1, <1>2, <1>8, <1>9 DEF PlannerInv

LEMMA PlannerStep == PlannerInv /\ [PlannerNext]_plannerVars => PlannerInv'
<1>1. ASSUME PlannerInv, UNCHANGED plannerVars PROVE PlannerInv'
  <2>1. RejectsInput' = RejectsInput /\ RanAsAllowed' = RanAsAllowed
    BY <1>1 DEF plannerVars, RejectsInput, RanAsAllowed, Allowed, Screened
  <2> QED
    BY <1>1, <2>1 DEF plannerVars, PlannerInv
<1> QED
  BY <1>1, PlannerKeeps, RunKeeps DEF PlannerNext
-----------------------------------------------------------------------------
\* The types of planner and run.
LEMMA PlannerTypeStep ==
    ASSUME call \in PlanRequests, PlannerTypeOK, [PlannerNext]_plannerVars
    PROVE  call' \in PlanRequests /\ PlannerTypeOK'
<1>1. ASSUME NEW reason, Falls(reason), UNCHANGED sent PROVE call' \in PlanRequests /\ PlannerTypeOK'
  BY <1>1 DEF Falls, PlannerTypeOK
<1>2. CASE NotConfigured \/ InputRejected \/ PlanAborted \/ FetchFails \/ NotJson \/ NoText
  BY <1>1, <1>2 DEF NotConfigured, InputRejected, PlanAborted, FetchFails, NotJson, NoText
<1>3. CASE Ask \/ PlanTimerFires \/ ResponseComes
  BY <1>3 DEF Ask, PlanTimerFires, ResponseComes, PlannerTypeOK
<1>4. ASSUME NEW steps \in Proposals, ProposalComes(steps)
      PROVE  call' \in PlanRequests /\ PlannerTypeOK'
  <2>1. CASE Acceptable(steps)
    BY <1>4, <2>1 DEF ProposalComes, PlannerTypeOK
  <2>2. CASE ~Acceptable(steps)
    BY <1>1, <1>4, <2>2 DEF ProposalComes
  <2> QED
    BY <2>1, <2>2
<1>5. CASE RunPipeline
  <2>1. UNCHANGED <<call, timer, sent, planned>> /\ planning' = "done"
    BY <1>5 DEF RunPipeline
  <2>2. call.tool \in {"none", "function", "adapter", "odd"}
    BY PlannerAssumption
  <2> DEFINE RanOK(r) == /\ r.ended \in {"no", "returned", "threw"} /\ r.executed \in BOOLEAN
                         /\ r.status \in ResultStatuses \cup {"none"}
  <2>3. RanOK(ran')
    <3>1. ASSUME NEW executed \in BOOLEAN, NEW status \in ResultStatuses, NEW reason,
                 Returns(executed, status, reason)
          PROVE  RanOK(ran')
      BY <3>1 DEF Returns
    <3>2. ASSUME NEW executed \in BOOLEAN, Throws(executed) PROVE RanOK(ran')
      BY <3>2 DEF Throws
    <3>3. "success" \in ResultStatuses /\ "failed" \in ResultStatuses /\ "skipped" \in ResultStatuses
      BY DEF ResultStatuses
    <3> HIDE DEF RanOK
    <3>4. ASSUME Execute, call.tool # "none" PROVE RanOK(ran')
      <4>1. CASE call.tool = "function"
        BY <3>1, <3>3, <3>4, <4>1 DEF Execute
      <4>2. CASE call.tool = "adapter"
        BY <3>1, <3>2, <3>4, <4>2 DEF Execute
      <4>3. CASE call.tool = "odd"
        BY <3>2, <3>4, <4>3 DEF Execute
      <4> QED
        BY <2>2, <3>4, <4>1, <4>2, <4>3
    <3>5. call.tool = "none" => Objection(planned.steps, call.tool) # "none"
      BY DEF Objection
    <3> QED
      BY <1>5, <3>1, <3>2, <3>3, <3>4, <3>5 DEF RunPipeline
  <2> QED
    BY <2>1, <2>3 DEF PlannerTypeOK
<1>6. CASE UNCHANGED plannerVars
  BY <1>6 DEF plannerVars, PlannerTypeOK
<1> QED
  BY <1>2, <1>3, <1>4, <1>5, <1>6 DEF PlannerNext, Planner

\* Planner, timer, plan and result keep their types, whatever the model proposes.
THEOREM PlannerTypeCorrect == PlannerSpec => []PlannerTypeOK
<1>1. ASSUME PlannerInit PROVE call \in PlanRequests /\ PlannerTypeOK
  <2>1. /\ planned.source = "none" /\ planned.steps = <<>> /\ ran.ended = "no"
        /\ ran.executed = FALSE /\ ran.status = "none"
    BY <1>1 DEF PlannerInit, NoPlan, NotRun
  <2> QED
    BY <1>1, <2>1 DEF PlannerInit, PlannerTypeOK
<1>2. call \in PlanRequests /\ PlannerTypeOK /\ [PlannerNext]_plannerVars
          => (call \in PlanRequests /\ PlannerTypeOK)'
  BY PlannerTypeStep
<1> QED
  BY <1>1, <1>2, PTL DEF PlannerSpec

-----------------------------------------------------------------------------
(* What PlanningEnds rests on: planning that honours its signal can always go *)
(* on by itself, and every step brings it nearer its end.                  *)

\* The guards of PlannerMoves.
PlannerMayMove ==
    \/ planning \in {"called", "planned"} \/ timer = "armed"
    \/ timer = "fired" /\ call.honours /\ planning \in {"fetching", "reading"}

\* How many steps are left at most, the firing of an armed timer being one.
PlanningLeft ==
    (CASE planning = "called" -> 5 [] planning = "fetching" -> 3 [] planning = "reading" -> 2
       [] planning = "planned" -> 1 [] planning = "done" -> 0)
    + (IF timer = "armed" THEN 1 ELSE 0)

\* The timer is set before fetch() is called and cleared in the finally, after
\* the body is read: while a provider is waited for, it is there.
THEOREM PlanningNeverStuck ==
    PlannerSpec => [](call.honours /\ planning # "done" => PlannerMayMove)
<1> DEFINE Timed == planning \in {"fetching", "reading"} => timer \in {"armed", "fired"}
<1>1. PlannerInit => Timed
  BY DEF PlannerInit
<1>2. ASSUME Timed, [PlannerNext]_plannerVars PROVE Timed'
  <2>1. ASSUME NEW steps, ProposalComes(steps) PROVE planning' = "planned"
    BY <2>1 DEF ProposalComes, Falls
  <2>2. CASE NotConfigured \/ InputRejected \/ PlanAborted \/ FetchFails \/ NotJson \/ NoText
    BY <2>2 DEF NotConfigured, InputRejected, PlanAborted, FetchFails, NotJson, NoText, Falls
  <2>3. CASE Ask \/ PlanTimerFires \/ ResponseComes \/ RunPipeline \/ UNCHANGED plannerVars
    BY <1>2, <2>3 DEF Ask, PlanTimerFires, ResponseComes, RunPipeline, plannerVars
  <2> QED
    BY <1>2, <2>1, <2>2, <2>3 DEF PlannerNext, Planner
<1>3. PlannerTypeOK /\ Timed => (call.honours /\ planning # "done" => PlannerMayMove)
  BY DEF PlannerTypeOK, PlannerMayMove
<1> QED
  BY <1>1, <1>2, <1>3, PlannerTypeCorrect, PTL DEF PlannerSpec

\* No step of planner, provider or timer takes a call back: each lowers what is
\* left of it.
THEOREM PlanningGoesOn == PlannerSpec => [][PlanningLeft' < PlanningLeft]_plannerVars
<1>1. ASSUME PlannerTypeOK, PlannerNext PROVE PlanningLeft' < PlanningLeft
  <2>1. ASSUME planning' = "planned", timer' = "off",
               planning \in {"called", "fetching", "reading"}
        PROVE  PlanningLeft' < PlanningLeft
    BY <2>1 DEF PlanningLeft
  <2>2. ASSUME NEW steps, ProposalComes(steps) PROVE PlanningLeft' < PlanningLeft
    BY <2>1, <2>2 DEF ProposalComes, Falls
  <2>3. CASE NotConfigured \/ InputRejected \/ PlanAborted \/ FetchFails \/ NotJson \/ NoText
    BY <2>1, <2>3 DEF NotConfigured, InputRejected, PlanAborted, FetchFails, NotJson, NoText, Falls
  <2>4. CASE Ask
    BY <2>4 DEF Ask, PlanningLeft
  <2>5. CASE PlanTimerFires
    BY <1>1, <2>5 DEF PlanTimerFires, PlannerTypeOK, PlanningLeft
  <2>6. CASE ResponseComes
    BY <2>6 DEF ResponseComes, PlanningLeft
  <2>7. CASE RunPipeline
    BY <1>1, <2>7 DEF RunPipeline, PlannerTypeOK, PlanningLeft
  <2> QED
    BY <1>1, <2>2, <2>3, <2>4, <2>5, <2>6, <2>7 DEF PlannerNext, Planner
<1> QED
  BY <1>1, PlannerTypeCorrect, PTL DEF PlannerSpec

-----------------------------------------------------------------------------
\* Whatever plan the model proposes and however planning fails, the run executes
\* exactly when the guard and the tool allow it, and is stopped for their reason
\* (llm-planner.js lines 5-12).
THEOREM PolicyDecides == PlannerSpec => []ModelDecidesNothing
<1>1. PlannerInv => ModelDecidesNothing
  <2> SUFFICES ASSUME PlannerInv, ran.ended # "no" PROVE RanAsAllowed
    BY DEF ModelDecidesNothing, RanAsAllowed, Allowed
  <2> QED
    BY DEF PlannerInv, NotRun
<1> QED
  BY <1>1, PlannerInitially, PlannerStep, PTL DEF PlannerSpec

\* A task with a finding that its guard considers is neither sent to the model
\* nor executed, unless a reviewer is named and the guard leaves it to one
\* (injection-guard.js lines 156-182, runtime-pipeline.js lines 30-36).
THEOREM FlaggedStaysHeld == PlannerSpec => []FlaggedIsHeld
<1>1. PlannerInv => FlaggedIsHeld
  <2> SUFFICES ASSUME PlannerInv PROVE FlaggedIsHeld
    OBVIOUS
  <2>1. /\ call.screen = NoGuard \/ call.screen.mode \in Modes
        /\ call.guard = NoGuard \/ call.guard.mode \in Modes
        /\ \A f \in call.findings : f.severity \in Severities
    BY PlannerAssumption DEF PlannerInv
  <2>2. ASSUME sent, call.screen # NoGuard
        PROVE  Considered(call.findings, call.screen.ignored) = {}
    <3>1. GuardDecision(call.screen, call.findings) = "allow"
      BY <2>2 DEF PlannerInv, RejectsInput, Screened
    <3> QED
      BY <2>1, <2>2, <3>1, AllowedFindings
  <2>3. ASSUME ran.executed, call.guard # NoGuard
        PROVE  LET kept == Considered(call.findings, call.guard.ignored) IN
                  \/ kept = {}
                  \/ call.reviewer /\ call.guard.mode # "block"
                     /\ (call.guard.mode = "approve" => \A f \in kept : f.severity # "high")
    <3>1. Allowed
      BY <2>3 DEF PlannerInv, NotRun, RanAsAllowed
    <3>2. \/ GuardDecision(call.guard, call.findings) = "allow"
          \/ GuardDecision(call.guard, call.findings) = "require_approval" /\ call.reviewer
      BY <2>3, <3>1 DEF Allowed, GateAllows, Screened
    <3> QED
      BY <2>1, <2>3, <3>2, AllowedFindings
  <2> QED
    BY <2>2, <2>3 DEF FlaggedIsHeld
<1> QED
  BY <1>1, PlannerInitially, PlannerStep, PTL DEF PlannerSpec

\* The metrics count a run that was stopped under one reason, the gate's or the
\* authorization's, and one that a tool executed under none
\* (runtime-telemetry.js lines 162-170).
THEOREM StopsCounted == PlannerSpec => []StopsCountedOnce
<1>1. PlannerInv => StopsCountedOnce
  <2> SUFFICES ASSUME PlannerInv, ran.ended = "returned", call.tool # "adapter"
               PROVE  \/ ran.executed /\ StoppedAs = {}
                      \/ ~ran.executed /\ \E reason \in StoppedAs : StoppedAs = {reason}
    BY DEF StopsCountedOnce
  <2> DEFINE decision == Screened(call.guard)
  <2>1. RanAsAllowed
    BY DEF PlannerInv, NotRun
  <2>2. decision \in Decisions
    <3>1. call.guard = NoGuard \/ call.guard.mode \in Modes
      BY PlannerAssumption DEF PlannerInv
    <3> QED
      BY <3>1 DEF Screened, GuardDecision, DecisionOn, Modes, Decisions
  <2>3. Allowed => decision # "block"
    BY DEF Allowed, GateAllows
  <2> HIDE DEF decision
  <2>4. StoppedAs =
          (IF decision = "block" THEN {"injection_screening"} ELSE {})
          \cup (IF decision = "require_approval" /\ ran.status = "skipped"
                   /\ ran.reason = "approval required"
                THEN {"approval_required"} ELSE {})
          \cup (IF ran.status = "skipped" /\ ran.reason \notin NotAuthorization
                THEN {"authorization"} ELSE {})
    BY DEF StoppedAs, decision
  <2>5. CASE ran.executed
    <3>1. Allowed /\ call.tool = "function" /\ ran.status # "skipped"
      BY <2>1, <2>5 DEF RanAsAllowed
    <3> QED
      BY <2>3, <2>4, <2>5, <3>1
  <2>6. CASE ~ran.executed /\ Allowed
    <3>1. ran.status = "skipped" /\ ran.reason = "tool is required"
      BY <2>1, <2>6 DEF RanAsAllowed
    <3>2. StoppedAs = {"authorization"}
      BY <2>3, <2>4, <2>6, <3>1 DEF NotAuthorization, GateReasons
    <3> QED
      BY <2>6, <3>2
  <2>7. CASE ~ran.executed /\ ~Allowed
    <3>1. ran.status = "skipped" /\ ran.reason = GateReason(decision)
      BY <2>1, <2>7 DEF RanAsAllowed, decision
    <3>2. decision # "allow"
      BY <2>7 DEF Allowed, GateAllows, decision
    <3>3. CASE decision = "block"
      <4>1. StoppedAs = {"injection_screening"}
        BY <2>4, <3>1, <3>3 DEF GateReason, NotAuthorization, GateReasons
      <4> QED
        BY <2>7, <4>1
    <3>4. CASE decision = "require_approval"
      <4>1. StoppedAs = {"approval_required"}
        BY <2>4, <3>1, <3>4 DEF GateReason, NotAuthorization, GateReasons
      <4> QED
        BY <2>7, <4>1
    <3> QED
      BY <2>2, <3>2, <3>3, <3>4 DEF Decisions
  <2> QED
    BY <2>5, <2>6, <2>7
<1> QED
  BY <1>1, PlannerInitially, PlannerStep, PTL DEF PlannerSpec
-----------------------------------------------------------------------------
(* FinanceMcp. *)

\* What makes it right to run the tool of a call.
MayRun(q) ==
    /\ q.header /\ q.message.version = "modern" /\ q.message.tool = "known"
    /\ ToolGuard # Unguarded => Considered(q.message.findings, ToolGuard.ignored) = {}

HandledOutcomes ==
    {"invalid request", "discovered", "initialized", "unsupported", "nothing", "not modern",
     "tools", "method not found", "no tool name", "unknown tool", "runs", "held"}

HttpStatuses == {200, 202, 400, 405, 413, 415}

Kinds == HandledOutcomes \cup {"transport", "headerless", "tool result", "tool error"}

HeldOnes == {c \in HttpCalls : httpAnswer[c].kind = "held"}

AskedOnes == httpAsked \in [HttpCalls -> HttpAsks]

McpInv ==
    /\ AskedOnes /\ McpTypeOK
    /\ httpAt \in [HttpCalls -> {"new", "reading", "calling", "answered"}]
    /\ httpAnswer \in [HttpCalls -> [status : Nat, kind : Kinds \cup {"none"}]]
    /\ \A c \in toolRuns : MayRun(httpAsked[c])
    /\ screenings = Cardinality(HeldOnes)
-----------------------------------------------------------------------------
\* A guard admits only what it finds nothing in.
LEMMA AdmittedIsClean ==
    ASSUME NEW findings, Admitted(findings), ToolGuard # Unguarded
    PROVE  Considered(findings, ToolGuard.ignored) = {}
<1> DEFINE kept == Considered(findings, ToolGuard.ignored)
<1>1. DecisionOn(ToolGuard.mode, kept) = "allow"
  BY DEF Admitted, GuardDecision
<1>2. ToolGuard.mode \in Modes
  BY McpAssumption
<1> QED
  BY <1>1, <1>2 DEF DecisionOn, Modes

\* Only a call of a known tool, in the right version and admitted, is run.
LEMMA OnlyCallsRun ==
    ASSUME NEW q \in HttpAsks, HandledAsync(q.message) = "runs"
    PROVE  /\ NeedsHeader(q.message) /\ q.message.version = "modern"
           /\ q.message.tool = "known" /\ Admitted(q.message.findings)
<1>1. q.message.method = "tools/call"
  BY McpAssumption DEF HandledAsync, Handled, Methods
<1>2. q.message.version = "modern" /\ Called(q.message) = "runs"
  BY <1>1 DEF HandledAsync
<1>3. q.message.tool = "known" /\ Admitted(q.message.findings)
  BY <1>2, McpAssumption DEF Called
<1> QED
  BY <1>1, <1>2, <1>3 DEF NeedsHeader

\* An answer to a call that had none yet adds it to those held, or leaves them.
LEMMA AnswerCounts ==
    ASSUME McpInv, NEW c \in HttpCalls, httpAt[c] # "answered", NEW status, NEW kind,
           Answers(c, status, kind)
    PROVE  Cardinality(HeldOnes') =
              IF kind = "held" THEN Cardinality(HeldOnes) + 1 ELSE Cardinality(HeldOnes)
<1>1. c \notin HeldOnes
  BY DEF McpInv, McpTypeOK, HeldOnes, Unanswered
<1>2. HeldOnes' = IF kind = "held" THEN HeldOnes \cup {c} ELSE HeldOnes
  BY <1>1 DEF McpInv, Answers, HeldOnes
<1>3. IsFiniteSet(HeldOnes)
  BY FS_Subset, McpAssumption DEF HeldOnes
<1> QED
  BY <1>1, <1>2, <1>3, FS_AddElement

\* The kinds of answer the dispatch gives.
LEMMA HandledKinds ==
    ASSUME NEW q \in HttpAsks
    PROVE  HandledAsync(q.message) \in HandledOutcomes
<1>1. Called(q.message) \in {"no tool name", "unknown tool", "runs", "held"}
  BY McpAssumption DEF Called
<1>2. q.message.method # "tools/call" =>
         Handled(q.message) \in {"invalid request", "discovered", "initialized", "unsupported",
                                 "nothing", "not modern", "tools", "method not found"}
  BY McpAssumption DEF Handled, Methods
<1> QED
  BY <1>1, <1>2 DEF HandledAsync, HandledOutcomes
-----------------------------------------------------------------------------
LEMMA ToolStatus == 200 \in HttpStatuses
  BY DEF HttpStatuses

LEMMA McpInitially == McpInit => McpInv
<1> SUFFICES ASSUME McpInit PROVE McpInv
  OBVIOUS
<1>1. HeldOnes = {}
  BY DEF McpInit, HeldOnes, Unanswered
<1>2. Cardinality(HeldOnes) = 0 /\ Cardinality(HttpCalls) \in Nat
  BY <1>1, FS_EmptySet, FS_CardinalityType, McpAssumption
<1> QED
  BY <1>2 DEF McpInit, McpInv, McpTypeOK, AskedOnes, Unanswered, Kinds

\* An answer that is none of the ledger's business, or a held one, keeps the
\* invariant.
LEMMA AnswerStep ==
    ASSUME McpInv, NEW c \in HttpCalls, httpAt[c] # "answered",
           NEW status \in HttpStatuses, NEW kind \in Kinds,
           Answers(c, status, kind), UNCHANGED <<httpAsked, toolRuns>>,
           screenings' = IF kind = "held" THEN screenings + 1 ELSE screenings
    PROVE  McpInv'
<1>1. screenings' = Cardinality(HeldOnes')
  BY AnswerCounts DEF McpInv
<1>2. HeldOnes' \subseteq HttpCalls
  BY DEF HeldOnes
<1>3. screenings' \in 0..Cardinality(HttpCalls)
  BY <1>1, <1>2, FS_Subset, FS_CardinalityType, McpAssumption
<1>4. /\ httpAt' \in [HttpCalls -> {"new", "reading", "calling", "answered"}]
      /\ httpAnswer' \in [HttpCalls -> [status : Nat, kind : Kinds \cup {"none"}]]
  BY DEF McpInv, Answers, HttpStatuses
<1>5. ASSUME NEW d \in HttpCalls
      PROVE  /\ httpAnswer'[d].status \in {0, 200, 202, 400, 405, 413, 415}
             /\ httpAt'[d] = "answered" <=> httpAnswer'[d] # Unanswered
  BY DEF McpInv, McpTypeOK, Answers, Unanswered, HttpStatuses
<1>6. McpTypeOK'
  BY <1>3, <1>4, <1>5 DEF McpInv, McpTypeOK, Unanswered
<1>7. \A d \in toolRuns' : MayRun(httpAsked'[d])
  BY DEF McpInv
<1> QED
  BY <1>1, <1>4, <1>6, <1>7 DEF McpInv, AskedOnes, MayRun

LEMMA McpStep == McpInv /\ [McpNext]_mcpVars => McpInv'
<1> SUFFICES ASSUME McpInv, [McpNext]_mcpVars PROVE McpInv'
  OBVIOUS
<1>1. ASSUME NEW c \in HttpCalls, Receive(c) PROVE McpInv'
  <2>1. CASE \E status \in {405, 415} : Answers(c, status, "transport")
    <3>1. /\ UNCHANGED <<httpAsked, toolRuns, screenings>> /\ httpAt[c] # "answered"
          /\ "transport" \in Kinds
      BY <1>1 DEF Receive, Kinds
    <3> QED
      BY <2>1, <3>1, AnswerStep DEF HttpStatuses
  <2>2. CASE httpAt' = [httpAt EXCEPT ![c] = "reading"] /\ UNCHANGED httpAnswer
    <3>1. HeldOnes' = HeldOnes
      BY <2>2 DEF HeldOnes
    <3>2. McpTypeOK'
      BY <1>1, <2>2 DEF Receive, McpInv, McpTypeOK, Unanswered
    <3> QED
      BY <1>1, <2>2, <3>1, <3>2 DEF Receive, McpInv, AskedOnes, MayRun
  <2> QED
    <3>1. CASE ~httpAsked[c].post
      BY <1>1, <2>1, <3>1 DEF Receive
    <3>2. CASE httpAsked[c].post /\ ~httpAsked[c].json
      BY <1>1, <2>1, <3>2 DEF Receive
    <3>3. CASE httpAsked[c].post /\ httpAsked[c].json
      BY <1>1, <2>2, <3>3 DEF Receive
    <3> QED
      BY <3>1, <3>2, <3>3
<1>2. ASSUME NEW c \in HttpCalls, BodyUnusable(c) PROVE McpInv'
  <2>1. \E status \in {413, 400} : Answers(c, status, "transport")
    BY <1>2 DEF BodyUnusable
  <2> QED
    <3>1. /\ UNCHANGED <<httpAsked, toolRuns, screenings>> /\ httpAt[c] # "answered"
          /\ "transport" \in Kinds
      BY <1>2 DEF BodyUnusable, Kinds
    <3> QED
      BY <2>1, <3>1, AnswerStep DEF HttpStatuses
<1>3. ASSUME NEW c \in HttpCalls, Dispatch(c) PROVE McpInv'
  <2> DEFINE q == httpAsked[c]
             result == HandledAsync(q.message)
  <2>1. q \in HttpAsks /\ httpAt[c] = "reading"
    BY <1>3 DEF Dispatch, McpInv, AskedOnes
  <2>2. CASE NeedsHeader(q.message) /\ ~q.header
    <3>1. /\ UNCHANGED <<httpAsked, toolRuns, screenings>> /\ httpAt[c] # "answered"
          /\ \E status \in {400, 413} : Answers(c, status, "headerless")
      BY <1>3, <2>1, <2>2 DEF Dispatch
    <3>2. "headerless" \in Kinds
      BY DEF Kinds
    <3> QED
      BY <3>1, <3>2, AnswerStep DEF HttpStatuses
  <2>3. CASE ~(NeedsHeader(q.message) /\ ~q.header) /\ result = "runs"
    <3>1. /\ httpAt' = [httpAt EXCEPT ![c] = "calling"] /\ toolRuns' = toolRuns \cup {c}
          /\ UNCHANGED <<httpAsked, httpAnswer, screenings>>
      BY <1>3, <2>3 DEF Dispatch
    <3>2. MayRun(q)
      BY <2>1, <2>3, OnlyCallsRun, AdmittedIsClean DEF MayRun
    <3>3. HeldOnes' = HeldOnes
      BY <3>1 DEF HeldOnes
    <3>4. McpTypeOK'
      BY <2>1, <3>1 DEF McpInv, McpTypeOK, Unanswered
    <3>5. \A d \in toolRuns' : MayRun(httpAsked'[d])
      BY <3>1, <3>2 DEF McpInv
    <3> QED
      BY <3>1, <3>3, <3>4, <3>5 DEF McpInv, AskedOnes, MayRun
  <2>4. CASE ~(NeedsHeader(q.message) /\ ~q.header) /\ result # "runs"
    <3>1. /\ Answers(c, IF result = "nothing" THEN 202 ELSE 200, result)
          /\ screenings' = IF result = "held" THEN screenings + 1 ELSE screenings
          /\ UNCHANGED <<httpAsked, toolRuns>>
      BY <1>3, <2>4 DEF Dispatch
    <3>2. result \in Kinds
      BY <2>1, HandledKinds DEF Kinds
    <3> HIDE DEF result
    <3> QED
      BY <2>1, <3>1, <3>2, AnswerStep DEF HttpStatuses
  <2> QED
    BY <2>2, <2>3, <2>4
<1>4. ASSUME NEW c \in HttpCalls, ToolEnds(c) PROVE McpInv'
  <2>1. PICK kind \in {"tool result", "tool error"} : Answers(c, 200, kind)
    BY <1>4 DEF ToolEnds
  <2> QED
    <3>1. /\ UNCHANGED <<httpAsked, toolRuns, screenings>> /\ httpAt[c] # "answered"
          /\ kind \in Kinds /\ kind # "held"
      BY <1>4 DEF ToolEnds, Kinds
    <3>3. screenings' = IF kind = "held" THEN screenings + 1 ELSE screenings
      BY <3>1
    <3>4. UNCHANGED <<httpAsked, toolRuns>>
      BY <3>1
    <3>5. kind \in Kinds /\ httpAt[c] # "answered"
      BY <3>1
    <3> HIDE DEF Kinds, Answers
    <3> QED
      BY <2>1, <3>3, <3>4, <3>5, ToolStatus, AnswerStep, Zenon
<1>5. CASE UNCHANGED mcpVars
  <2>1. UNCHANGED <<httpAsked, httpAt, httpAnswer, toolRuns, screenings>>
    BY <1>5 DEF mcpVars
  <2>2. HeldOnes' = HeldOnes
    BY <2>1 DEF HeldOnes
  <2>3. AskedOnes' /\ McpTypeOK'
    BY <2>1 DEF McpInv, AskedOnes, McpTypeOK, Unanswered
  <2>4. \A c \in toolRuns' : MayRun(httpAsked'[c])
    BY <2>1 DEF McpInv
  <2> QED
    BY <2>1, <2>2, <2>3, <2>4 DEF McpInv
<1> QED
  BY <1>1, <1>2, <1>3, <1>4, <1>5 DEF McpNext
-----------------------------------------------------------------------------
\* A tool is run only for a call with the protocol's header and version in which
\* the guard finds nothing, and every call that was held has its entry in the
\* ledger (mcp-finance-server.js lines 59-73 and 140-156).
THEOREM HeldRunNothing == McpSpec => []HeldCallsRunNothing
<1>1. McpInv => HeldCallsRunNothing
  BY DEF McpInv, HeldCallsRunNothing, MayRun, HeldOnes
<1> QED
  BY <1>1, McpInitially, McpStep, PTL DEF McpSpec

\* Calls, answers and tool runs keep their types, for any number of calls.
THEOREM McpTypeCorrect == McpSpec => []McpTypeOK
<1>1. McpInv => McpTypeOK
  BY DEF McpInv
<1> QED
  BY <1>1, McpInitially, McpStep, PTL DEF McpSpec
-----------------------------------------------------------------------------
(* RetriedRequest. *)

Attempts ==
    [phase : {"fetching", "reading", "over"}, told : {"none", "value", "failed"},
     cause : Causes \cup {"none"}, timer : {"off", "armed", "fired"}]

\* What is always so of an attempt: only a failure has a cause, the timer is
\* cleared with the answer, and where the signal reaches the request a timeout
\* is the end of it.
AttemptOK(r) ==
    /\ r.told = "failed" <=> r.cause # "none"
    /\ r.timer = "armed" => r.told = "none"
    /\ r.cause = "late" => r.timer = "fired"
    /\ r.timer = "fired" /\ Interrupts => r.cause = "late"
    /\ r.cause = "late" /\ Interrupts => r.phase = "over"

\* The caller's answer stands on the last attempt.
AnswerStands ==
    reply # "none" =>
        /\ tries # <<>>
        /\ LastTry.told = IF reply = "value" THEN "value" ELSE "failed"
        /\ reply = "error" /\ Retryable(LastTry.cause) => Len(tries) = TriesOf(client)

RequestInv ==
    /\ tries \in Seq(Attempts) /\ reply \in {"none", "value", "error"}
    /\ \A n \in 1..Len(tries) :
          /\ AttemptOK(tries[n])
          /\ n < Len(tries) => tries[n].told = "failed" /\ Retryable(tries[n].cause)
    /\ AnswerStands

LEMMA RequestInitially == RequestInit => RequestInv
BY DEF RequestInit, RequestInv, AnswerStands

\* An attempt may change as long as what the caller was told of it stands.
LEMMA AttemptChanges ==
    ASSUME RequestInv, NEW n \in 1..Len(tries), NEW r \in Attempts,
           tries' = [tries EXCEPT ![n] = r], UNCHANGED <<client, reply>>, AttemptOK(r),
           tries[n].told # "none" => r.told = tries[n].told /\ r.cause = tries[n].cause
    PROVE  RequestInv'
<1>1. /\ tries' \in Seq(Attempts) /\ Len(tries') = Len(tries) /\ Len(tries) \in Nat
      /\ tries'[n] = r /\ \A m \in 1..Len(tries) : m # n => tries'[m] = tries[m]
    BY DEF RequestInv
<1>2. ASSUME NEW m \in 1..Len(tries)
      PROVE  tries[m].told # "none" =>
                tries'[m].told = tries[m].told /\ tries'[m].cause = tries[m].cause
    BY <1>1
<1>3. ASSUME NEW m \in 1..Len(tries)
      PROVE  /\ AttemptOK(tries[m])'
             /\ m < Len(tries) => tries'[m].told = "failed" /\ Retryable(tries[m].cause)'
    <2>1. AttemptOK(tries[m])'
        <3>1. CASE tries'[m] = r
            BY <3>1 DEF AttemptOK, Interrupts
        <3>2. CASE tries'[m] = tries[m]
            <4>1. AttemptOK(tries[m])
                BY DEF RequestInv
            <4> QED
                BY <3>2, <4>1 DEF AttemptOK, Interrupts
        <3> QED
            BY <1>1, <3>1, <3>2
    <2>2. m < Len(tries) => tries'[m].told = "failed" /\ tries'[m].cause = tries[m].cause
        BY <1>2 DEF RequestInv
    <2> QED
        BY <2>1, <2>2 DEF RequestInv, Retryable
<1>4. AnswerStands'
    <2> SUFFICES ASSUME reply # "none" PROVE AnswerStands'
        BY DEF AnswerStands
    <2>1. Len(tries) \in 1..Len(tries) /\ tries' # <<>>
        BY <1>1, SMTT(30) DEF RequestInv, AnswerStands
    <2>2. LastTry'.told = LastTry.told /\ LastTry'.cause = LastTry.cause
        BY <1>1, <1>2, <2>1 DEF RequestInv, AnswerStands, LastTry
    <2>3. Retryable(LastTry.cause)' = Retryable(LastTry.cause) /\ TriesOf(client)' = TriesOf(client)
        BY <2>2 DEF Retryable
    <2> QED
        BY <1>1, <2>1, <2>2, <2>3 DEF RequestInv, AnswerStands
<1> QED
    BY <1>1, <1>3, <1>4 DEF RequestInv

\* What telling the caller makes of an attempt.
LEMMA ToldAttempt ==
    ASSUME NEW n, tries[n] \in Attempts, AttemptOK(tries[n]), NEW how \in {"value", "failed"},
           NEW cause \in Causes \cup {"none"}, how = "failed" <=> cause # "none",
           NEW t, t = Told(n, how, cause)
    PROVE  /\ t \in Attempts /\ t.phase = tries[n].phase
           /\ tries[n].told # "none" => t = tries[n]
           /\ tries[n].told = "none" =>
                 /\ t.told = how /\ t.cause = cause
                 /\ t.timer = IF tries[n].timer = "armed" THEN "off" ELSE tries[n].timer
BY DEF Told, Attempts

LEMMA AgainKeeps ==
    ASSUME RequestInv, AttemptAgain
    PROVE  RequestInv'
<1>1. PICK r : r = [phase |-> "fetching", told |-> "none", cause |-> "none",
                    timer |-> IF HasTimer THEN "armed" ELSE "off"]
    OBVIOUS
<1>2. r \in Attempts /\ AttemptOK(r)
    BY <1>1 DEF Attempts, AttemptOK
<1>3. tries' = Append(tries, r) /\ UNCHANGED <<client, reply>> /\ reply = "none"
    BY <1>1 DEF AttemptAgain
<1>4. /\ tries' \in Seq(Attempts) /\ Len(tries') = Len(tries) + 1 /\ Len(tries) \in Nat
      /\ tries'[Len(tries) + 1] = r /\ \A m \in 1..Len(tries) : tries'[m] = tries[m]
    BY <1>2, <1>3, AppendProperties DEF RequestInv
<1>5. tries # <<>> => LastTry.told = "failed" /\ Retryable(LastTry.cause)
    BY DEF AttemptAgain
<1>6. ASSUME NEW m \in 1..Len(tries')
      PROVE  /\ AttemptOK(tries[m])'
             /\ m < Len(tries') => tries'[m].told = "failed" /\ Retryable(tries[m].cause)'
    <2>1. CASE m = Len(tries) + 1
        <3>1. AttemptOK(r)' = AttemptOK(r) /\ tries'[m] = r /\ ~(m < Len(tries'))
            BY <1>3, <1>4, <2>1 DEF AttemptOK, Interrupts
        <3>2. AttemptOK(tries[m])' = AttemptOK(r)'
            BY <3>1 DEF AttemptOK
        <3> QED
            BY <1>2, <3>1, <3>2
    <2>2. CASE m \in 1..Len(tries)
        <3>1. AttemptOK(tries[m])'
            BY <1>3, <1>4, <2>2 DEF RequestInv, AttemptOK, Interrupts
        <3>2. tries[m].told = "failed" /\ Retryable(tries[m].cause)
            <4>1. m < Len(tries) \/ (m = Len(tries) /\ tries # <<>>)
                BY <1>4, <2>2
            <4> QED
                BY <1>5, <2>2, <4>1 DEF RequestInv, LastTry
        <3> QED
            BY <1>3, <1>4, <2>2, <3>1, <3>2 DEF Retryable
    <2> QED
        BY <1>4, <2>1, <2>2
<1> QED
    BY <1>3, <1>4, <1>6 DEF RequestInv, AnswerStands

LEMMA RequestStep == RequestInv /\ [RequestNext]_requestVars => RequestInv'
<1> SUFFICES ASSUME RequestInv, [RequestNext]_requestVars PROVE RequestInv'
    OBVIOUS
<1>1. ASSUME NEW n \in 1..Len(tries)
      PROVE  tries[n] \in Attempts /\ AttemptOK(tries[n])
    BY ElementOfSeq DEF RequestInv
<1>2. ASSUME NEW n \in 1..Len(tries), Responds(n) PROVE RequestInv'
    <2>1. PICK r : r = [tries[n] EXCEPT !.phase = "reading",
                            !.timer = IF TimerCovers("reading") THEN @ ELSE "off"]
        OBVIOUS
    <2>2. /\ r \in Attempts /\ r.phase = "reading" /\ r.told = tries[n].told
          /\ r.cause = tries[n].cause
          /\ r.timer = IF TimerCovers("reading") THEN tries[n].timer ELSE "off"
        BY <1>1, <2>1 DEF Attempts
    <2>3. AttemptOK(r)
        BY <1>1, <1>2, <2>2 DEF Responds, AttemptOK, TimerCovers, Interrupts
    <2>4. tries' = [tries EXCEPT ![n] = r] /\ UNCHANGED <<client, reply>>
        BY <1>2, <2>1 DEF Responds
    <2> QED
        BY <2>2, <2>3, <2>4, AttemptChanges
<1>3. ASSUME NEW n \in 1..Len(tries), Succeeds(n) PROVE RequestInv'
    <2>0. PICK how \in {"value", "failed"}, c \in Causes \cup {"none"} : how = "value" /\ c = "none"
        OBVIOUS
    <2>1. PICK t : how = "value" /\ c = "none" /\ t = Told(n, how, c)
        BY <2>0
    <2>told. t = Told(n, how, c) /\ ((how = "failed") <=> (c # "none"))
        BY <2>1
    <2>2. /\ t \in Attempts /\ t.phase = tries[n].phase
          /\ tries[n].told # "none" => t = tries[n]
          /\ tries[n].told = "none" =>
                /\ t.told = how /\ t.cause = c
                /\ t.timer = IF tries[n].timer = "armed" THEN "off" ELSE tries[n].timer
        BY <1>1, <2>told, ToldAttempt
    <2>3. PICK r : r = [t EXCEPT !.phase = "over"]
        OBVIOUS
    <2>4. r \in Attempts /\ r.phase = "over" /\ r.told = t.told /\ r.cause = t.cause /\ r.timer = t.timer
        BY <2>2, <2>3 DEF Attempts
    <2>5. AttemptOK(r)
        BY <1>1, <2>1, <2>2, <2>4 DEF AttemptOK, Attempts
    <2>6. tries' = [tries EXCEPT ![n] = r] /\ UNCHANGED <<client, reply>>
        BY <1>3, <2>1, <2>3 DEF Succeeds
    <2> QED
        BY <2>2, <2>4, <2>5, <2>6, AttemptChanges
<1>4. ASSUME NEW n \in 1..Len(tries), NEW cause \in Causes \ {"late"}, Fails(n, cause)
      PROVE  RequestInv'
    <2>0. PICK how \in {"value", "failed"}, c \in Causes \cup {"none"} :
              /\ (how = "failed") <=> (c # "none")
              /\ c # "late"
              /\ IF IsFailure(cause) THEN how = "failed" /\ c = cause
                 ELSE how = "value" /\ c = "none"
        BY DEF Causes
    <2>1. PICK t :
              /\ t = Told(n, how, c)
              /\ (how = "failed") <=> (c # "none")
              /\ c # "late"
              /\ t = IF IsFailure(cause) THEN Told(n, "failed", cause) ELSE Told(n, "value", "none")
        BY <2>0
    <2>told. t = Told(n, how, c) /\ ((how = "failed") <=> (c # "none"))
        BY <2>1
    <2>2. /\ t \in Attempts /\ t.phase = tries[n].phase
          /\ tries[n].told # "none" => t = tries[n]
          /\ tries[n].told = "none" =>
                /\ t.told = how /\ t.cause = c
                /\ t.timer = IF tries[n].timer = "armed" THEN "off" ELSE tries[n].timer
        BY <1>1, <2>told, ToldAttempt
    <2>3. PICK r : r = [t EXCEPT !.phase = "over"]
        OBVIOUS
    <2>4. r \in Attempts /\ r.phase = "over" /\ r.told = t.told /\ r.cause = t.cause /\ r.timer = t.timer
        BY <2>2, <2>3 DEF Attempts
    <2>5. AttemptOK(r)
        BY <1>1, <2>1, <2>2, <2>4 DEF AttemptOK, Attempts
    <2>6. tries' = [tries EXCEPT ![n] = r] /\ UNCHANGED <<client, reply>>
        BY <1>4, <2>1, <2>3 DEF Fails
    <2> QED
        BY <2>2, <2>4, <2>5, <2>6, AttemptChanges
<1>5. ASSUME NEW n \in 1..Len(tries), AttemptTimerFires(n) PROVE RequestInv'
    <2>1. tries[n].timer = "armed" /\ tries[n].told = "none"
        BY <1>1, <1>5 DEF AttemptTimerFires, AttemptOK
    <2>2. PICK t : t = IF client = "race" \/ Interrupts THEN Told(n, "failed", "late") ELSE tries[n]
        OBVIOUS
    <2>3. /\ t \in Attempts /\ t.phase = tries[n].phase
          /\ client = "race" \/ Interrupts => t.told = "failed" /\ t.cause = "late"
          /\ ~(client = "race" \/ Interrupts) => t.told = "none" /\ t.cause = "none"
        <3>1. "late" \in Causes
            BY DEF Causes
        <3>2. CASE client = "race" \/ Interrupts
            BY <1>1, <2>1, <2>2, <3>1, <3>2, ToldAttempt
        <3>3. CASE ~(client = "race" \/ Interrupts)
            BY <1>1, <2>1, <2>2, <3>3 DEF AttemptOK
        <3> QED
            BY <3>2, <3>3
    <2>4. PICK r : r = [(IF client = "race" \/ Interrupts THEN Told(n, "failed", "late")
                         ELSE tries[n])
                            EXCEPT !.timer = "fired", !.phase = IF Interrupts THEN "over" ELSE @]
        OBVIOUS
    <2>5. /\ r \in Attempts /\ r.told = t.told /\ r.cause = t.cause /\ r.timer = "fired"
          /\ r.phase = IF Interrupts THEN "over" ELSE t.phase
        <3>1. r = [t EXCEPT !.timer = "fired", !.phase = IF Interrupts THEN "over" ELSE @]
            BY <2>2, <2>4
        <3> QED
            BY <2>3, <3>1 DEF Attempts
    <2>6. AttemptOK(r)
        BY <2>3, <2>5 DEF AttemptOK
    <2>7. tries' = [tries EXCEPT ![n] = r] /\ UNCHANGED <<client, reply>>
        BY <1>5, <2>4 DEF AttemptTimerFires
    <2> QED
        BY <2>1, <2>5, <2>6, <2>7, AttemptChanges
<1>6. CASE SettleRequest
    <2>1. tries # <<>> /\ UNCHANGED <<client, tries>>
        BY <1>6 DEF SettleRequest
    <2>2. AnswerStands' /\ reply' \in {"none", "value", "error"}
        BY <1>6, <2>1 DEF SettleRequest, AnswerStands, LastTry, Retryable
    <2> QED
        BY <2>1, <2>2 DEF RequestInv, AttemptOK, Interrupts, Retryable
<1>7. CASE UNCHANGED requestVars
    BY <1>7 DEF requestVars, RequestInv, AnswerStands, AttemptOK, Interrupts, Retryable, LastTry
<1> QED
    BY <1>2, <1>3, <1>4, <1>5, <1>6, <1>7, AgainKeeps DEF RequestNext

\* Whatever a service still does with an attempt the client has given up, the
\* attempts after it and the caller's answer are not touched by it.
THEOREM GivenUpIsGivenUp == RequestSpec => []AttemptsApart
<1>1. RequestInv => AttemptsApart
    <2> SUFFICES ASSUME RequestInv PROVE AttemptsApart
        OBVIOUS
    <2>1. ASSUME reply # "none"
          PROVE  Pending = {} /\ (reply = "value" <=> LastTry.told = "value")
        <3>1. LastTry.told # "none" /\ (reply = "value" <=> LastTry.told = "value")
            BY <2>1 DEF RequestInv, AnswerStands
        <3>2. ASSUME NEW n \in 1..Len(tries) PROVE tries[n].told # "none"
            <4>1. n < Len(tries) \/ n = Len(tries)
                BY DEF RequestInv
            <4> QED
                BY <3>1, <4>1 DEF RequestInv, LastTry
        <3> QED
            BY <3>1, <3>2 DEF Pending
    <2> QED
        BY <2>1 DEF RequestInv, AttemptsApart, AnswerStands, AttemptOK
<1> QED
    BY <1>1, RequestInitially, RequestStep, PTL DEF RequestSpec

LEMMA TriesPositive == \A c : TriesOf(c) \in Nat /\ TriesOf(c) >= 1
<1>1. MaxTries \in Nat /\ MaxTries >= 1 /\ 1 \in Nat /\ 1 >= 1
    BY RequestAssumption
<1> QED
    BY <1>1 DEF TriesOf

\* A request never has more attempts than its client makes.
THEOREM RequestTypeCorrect == RequestSpec => []RequestTypeOK
<1> DEFINE Counted == Len(tries) <= TriesOf(client) /\ client \in Clients
<1>1. ASSUME RequestInit PROVE Counted
    <2>1. Len(tries) = 0 /\ client \in Clients
        BY <1>1 DEF RequestInit
    <2>2. 0 <= TriesOf(client)
        BY TriesPositive
    <2> QED
        BY <2>1, <2>2
<1>2. ASSUME RequestInv, Counted, [RequestNext]_requestVars PROVE Counted'
    <2>1. client' = client
        BY <1>2 DEF RequestNext, AttemptAgain, SettleRequest, Responds, Succeeds, AttemptTimerFires,
                    Fails, requestVars
    <2>2. TriesOf(client) \in Nat /\ TriesOf(client) >= 1 /\ TriesOf(client)' = TriesOf(client)
        BY TriesPositive, <2>1 DEF TriesOf
    <2>3. tries \in Seq(Attempts) /\ Len(tries) \in Nat
        BY <1>2 DEF RequestInv
    <2>4. CASE AttemptAgain
        <3>1. Len(tries') = Len(tries) + 1
            BY <2>3, <2>4 DEF AttemptAgain
        <3>2. tries = <<>> => Len(tries) = 0
            BY <2>3
        <3>3. Len(tries) < TriesOf(client)
            BY <2>2, <2>4, <3>2 DEF AttemptAgain
        <3>4. Len(tries') <= TriesOf(client)
            BY <2>2, <2>3, <3>1, <3>3
        <3> QED
            BY <1>2, <2>1, <2>2, <3>4
    <2>5. ASSUME NEW n \in 1..Len(tries), NEW t, tries' = [tries EXCEPT ![n] = t]
          PROVE  Len(tries') = Len(tries)
        BY <2>3, <2>5
    <2>6. ASSUME NEW n \in 1..Len(tries), Responds(n) PROVE Len(tries') = Len(tries)
        BY <2>5, <2>6 DEF Responds
    <2>7. ASSUME NEW n \in 1..Len(tries), Succeeds(n) PROVE Len(tries') = Len(tries)
        BY <2>5, <2>7 DEF Succeeds
    <2>8. ASSUME NEW n \in 1..Len(tries), AttemptTimerFires(n) PROVE Len(tries') = Len(tries)
        BY <2>5, <2>8 DEF AttemptTimerFires
    <2>9. ASSUME NEW n \in 1..Len(tries), NEW cause, Fails(n, cause) PROVE Len(tries') = Len(tries)
        BY <2>5, <2>9 DEF Fails
    <2>10. CASE SettleRequest \/ UNCHANGED requestVars
        BY <1>2, <2>10 DEF SettleRequest, requestVars, TriesOf
    <2>11. Len(tries') = Len(tries) => Counted'
        BY <1>2, <2>1, <2>2
    <2> QED
        BY <1>2, <2>4, <2>6, <2>7, <2>8, <2>9, <2>10, <2>11, SMTT(30) DEF RequestNext
<1>3. RequestInv /\ Counted => RequestTypeOK
    BY DEF RequestInv, RequestTypeOK, Attempts
<1> QED
    BY <1>1, <1>2, <1>3, RequestInitially, RequestStep, PTL DEF RequestSpec
-----------------------------------------------------------------------------
(* What CallAnswered rests on: a client whose timer covers the whole attempt *)
(* can always go on by itself, and no step takes a call back.              *)

\* The guards of AttemptAgain, SettleRequest and AttemptTimerFires.
RequestMayMove ==
    \/ tries = <<>>
    \/ LastTry.told = "failed" /\ Len(tries) < TriesOf(client) /\ Retryable(LastTry.cause)
    \/ LastTry.told = "value"
    \/ LastTry.told = "failed" /\ (Len(tries) = TriesOf(client) \/ ~Retryable(LastTry.cause))
    \/ \E n \in 1..Len(tries) : tries[n].timer = "armed"

\* An attempt that has not been told of has its timer.
Timed == client \in {"connector", "http provider", "race"} =>
    \A n \in 1..Len(tries) : tries[n].told = "none" => tries[n].timer = "armed"

\* What is left of an attempt: its response, its body and its timer.
AttemptLeft(r) ==
    (CASE r.phase = "fetching" -> 2 [] r.phase = "reading" -> 1 [] r.phase = "over" -> 0)
    + (IF r.timer = "armed" THEN 1 ELSE 0)

\* What every step does: it answers the caller, or begins one attempt more of
\* those that are allowed, or moves one attempt on and leaves the others alone.
RequestGoesOn ==
    \/ reply = "none" /\ reply' # "none" /\ UNCHANGED <<client, tries>>
    \/ /\ Len(tries') = Len(tries) + 1 /\ Len(tries') <= TriesOf(client)
       /\ \A m \in 1..Len(tries) : tries'[m] = tries[m]
       /\ UNCHANGED <<client, reply>>
    \/ /\ Len(tries') = Len(tries)
       /\ \E n \in 1..Len(tries) :
             /\ AttemptLeft(tries'[n]) < AttemptLeft(tries[n])
             /\ \A m \in (1..Len(tries)) \ {n} : tries'[m] = tries[m]
       /\ UNCHANGED <<client, reply>>

\* What a step of an attempt makes of its record.
LEMMA OneAttemptMoves ==
    ASSUME RequestInv, NEW n \in 1..Len(tries),
           \/ Responds(n) \/ Succeeds(n) \/ AttemptTimerFires(n)
           \/ \E cause \in Causes \ {"late"} : Fails(n, cause)
    PROVE  /\ tries' \in Seq(Attempts) /\ Len(tries') = Len(tries)
           /\ AttemptLeft(tries'[n]) < AttemptLeft(tries[n])
           /\ tries'[n].told = "none" => tries[n].told = "none"
           /\ \/ ~(client \in {"connector", "http provider", "race"})
              \/ tries'[n].told # "none" \/ tries'[n].timer = tries[n].timer
           /\ \A m \in (1..Len(tries)) \ {n} : tries'[m] = tries[m]
           /\ UNCHANGED <<client, reply>>
<1> DEFINE old == tries[n]
           Moved(r) == /\ r \in Attempts /\ AttemptLeft(r) < AttemptLeft(old)
                       /\ r.told = "none" => old.told = "none"
                       /\ \/ ~(client \in {"connector", "http provider", "race"})
                          \/ r.told # "none" \/ r.timer = old.timer
<1>1. old \in Attempts /\ AttemptOK(old)
    BY ElementOfSeq DEF RequestInv
<1>2. ASSUME NEW r, tries' = [tries EXCEPT ![n] = r], Moved(r), UNCHANGED <<client, reply>>
      PROVE  /\ tries' \in Seq(Attempts) /\ Len(tries') = Len(tries)
             /\ Moved(tries'[n]) /\ \A m \in (1..Len(tries)) \ {n} : tries'[m] = tries[m]
             /\ UNCHANGED <<client, reply>>
    <2> HIDE DEF Moved
    <2>1. r \in Attempts
        BY <1>2 DEF Moved
    <2> QED
        BY <1>2, <2>1 DEF RequestInv
<1>3. ASSUME NEW how \in {"value", "failed"}, NEW cause \in Causes \cup {"none"},
             (how = "failed") <=> (cause # "none"), old.phase \in {"fetching", "reading"}
      PROVE  Moved([Told(n, how, cause) EXCEPT !.phase = "over"])
    <2>1. PICK t : t = Told(n, how, cause)
        OBVIOUS
    <2>2. /\ t \in Attempts /\ t.phase = old.phase
          /\ old.told # "none" => t = old
          /\ old.told = "none" => /\ t.told = how
                                  /\ t.timer = IF old.timer = "armed" THEN "off" ELSE old.timer
        BY <1>1, <1>3, <2>1, ToldAttempt
    <2>3. PICK r : r = [t EXCEPT !.phase = "over"]
        OBVIOUS
    <2>4. r \in Attempts /\ r.phase = "over" /\ r.told = t.told /\ r.timer = t.timer
        BY <2>2, <2>3 DEF Attempts
    <2>5. r.told # "none" /\ AttemptLeft(r) < AttemptLeft(old)
        BY <1>3, <2>2, <2>4 DEF AttemptLeft
    <2> QED
        BY <2>1, <2>2, <2>3, <2>4, <2>5
<1>4. CASE Responds(n)
    <2>1. PICK r : r = [old EXCEPT !.phase = "reading",
                            !.timer = IF TimerCovers("reading") THEN @ ELSE "off"]
        OBVIOUS
    <2>2. /\ r \in Attempts /\ r.phase = "reading" /\ r.told = old.told
          /\ r.timer = IF TimerCovers("reading") THEN old.timer ELSE "off"
        BY <1>1, <2>1 DEF Attempts
    <2>3. AttemptLeft(r) < AttemptLeft(old)
        BY <1>4, <2>2 DEF Responds, AttemptLeft
    <2>4. client = "json provider" \/ r.timer = old.timer
        BY <2>2 DEF TimerCovers
    <2>5. Moved(r)
        BY <2>2, <2>3, <2>4
    <2>6. tries' = [tries EXCEPT ![n] = r] /\ UNCHANGED <<client, reply>>
        BY <1>4, <2>1 DEF Responds
    <2> QED
        BY <1>2, <2>5, <2>6
<1>5. CASE Succeeds(n)
    <2>1. Moved([Told(n, "value", "none") EXCEPT !.phase = "over"])
        BY <1>3, <1>5 DEF Succeeds
    <2>2. /\ tries' = [tries EXCEPT ![n] = [Told(n, "value", "none") EXCEPT !.phase = "over"]]
          /\ UNCHANGED <<client, reply>>
        BY <1>5 DEF Succeeds
    <2> HIDE DEF Moved
    <2>3. Moved(tries'[n])
        BY <1>2, <2>1, <2>2
    <2> QED
        BY <1>2, <2>1, <2>2, <2>3 DEF Moved
<1>6. ASSUME NEW cause \in Causes \ {"late"}, Fails(n, cause)
      PROVE  /\ tries' \in Seq(Attempts) /\ Len(tries') = Len(tries)
             /\ Moved(tries'[n]) /\ \A m \in (1..Len(tries)) \ {n} : tries'[m] = tries[m]
             /\ UNCHANGED <<client, reply>>
    <2>1. old.phase \in {"fetching", "reading"} /\ cause # "none" /\ UNCHANGED <<client, reply>>
        BY <1>6 DEF Fails, Causes
    <2>2. CASE IsFailure(cause)
        <3>1. Moved([Told(n, "failed", cause) EXCEPT !.phase = "over"])
            BY <1>3, <2>1
        <3>2. tries' = [tries EXCEPT ![n] = [Told(n, "failed", cause) EXCEPT !.phase = "over"]]
            BY <1>6, <2>2 DEF Fails
        <3> HIDE DEF Moved
        <3> QED
            BY <1>2, <2>1, <3>1, <3>2
    <2>3. CASE ~IsFailure(cause)
        <3>1. Moved([Told(n, "value", "none") EXCEPT !.phase = "over"])
            BY <1>3, <2>1
        <3>2. tries' = [tries EXCEPT ![n] = [Told(n, "value", "none") EXCEPT !.phase = "over"]]
            BY <1>6, <2>3 DEF Fails
        <3> HIDE DEF Moved
        <3> QED
            BY <1>2, <2>1, <3>1, <3>2
    <2> QED
        BY <2>2, <2>3
<1>7. CASE AttemptTimerFires(n)
    <2>1. old.timer = "armed" /\ old.told = "none" /\ UNCHANGED <<client, reply>>
        BY <1>1, <1>7 DEF AttemptTimerFires, AttemptOK
    <2>2. PICK t : t = IF client = "race" \/ Interrupts THEN Told(n, "failed", "late") ELSE old
        OBVIOUS
    <2>3. /\ t \in Attempts /\ t.phase = old.phase
          /\ client = "race" \/ Interrupts => t.told = "failed"
        <3>1. "late" \in Causes
            BY DEF Causes
        <3>2. CASE client = "race" \/ Interrupts
            BY <1>1, <2>1, <2>2, <3>1, <3>2, ToldAttempt
        <3> QED
            BY <1>1, <2>2, <3>2
    <2>4. PICK r : r = [(IF client = "race" \/ Interrupts THEN Told(n, "failed", "late")
                         ELSE tries[n])
                            EXCEPT !.timer = "fired", !.phase = IF Interrupts THEN "over" ELSE @]
        OBVIOUS
    <2>5. /\ r \in Attempts /\ r.told = t.told /\ r.timer = "fired"
          /\ r.phase = IF Interrupts THEN "over" ELSE t.phase
        <3>1. r = [t EXCEPT !.timer = "fired", !.phase = IF Interrupts THEN "over" ELSE @]
            BY <2>2, <2>4
        <3> QED
            BY <2>3, <3>1 DEF Attempts
    <2>6. AttemptLeft(r) < AttemptLeft(old)
        BY <1>1, <2>1, <2>3, <2>5 DEF AttemptLeft, Attempts
    <2>7. client \in {"connector", "http provider", "race"} => r.told # "none"
        BY <2>3, <2>5 DEF Interrupts
    <2>8. Moved(r)
        BY <2>1, <2>5, <2>6, <2>7
    <2>9. tries' = [tries EXCEPT ![n] = r]
        BY <1>7, <2>4 DEF AttemptTimerFires
    <2> HIDE DEF Moved
    <2>10. Moved(tries'[n])
        BY <1>2, <2>1, <2>8, <2>9
    <2> QED
        BY <1>2, <2>1, <2>8, <2>9, <2>10 DEF Moved
<1> QED
    BY <1>4, <1>5, <1>6, <1>7

\* Whatever a service does or does not do, a call with such a client has a step
\* of its own to take: its timer, the next attempt or the answer.
THEOREM CallsNeverHang ==
    RequestSpec => [](reply = "none" /\ client \in {"connector", "http provider", "race"}
                          => RequestMayMove)
<1>1. ASSUME RequestInit PROVE Timed
    <2>1. \A n \in 1..Len(tries) : FALSE
        BY <1>1 DEF RequestInit
    <2> QED
        BY <2>1, Zenon DEF Timed
<1>2. ASSUME RequestInv, Timed, [RequestNext]_requestVars PROVE Timed'
    <2>1. ASSUME NEW n \in 1..Len(tries),
                 \/ Responds(n) \/ Succeeds(n) \/ AttemptTimerFires(n)
                 \/ \E cause \in Causes \ {"late"} : Fails(n, cause)
          PROVE  Timed'
        BY <1>2, <2>1, OneAttemptMoves DEF Timed
    <2>2. CASE AttemptAgain
        <3>1. PICK r : r = [phase |-> "fetching", told |-> "none", cause |-> "none",
                            timer |-> IF HasTimer THEN "armed" ELSE "off"]
            OBVIOUS
        <3>2. tries' = Append(tries, r) /\ UNCHANGED <<client, reply>>
            BY <2>2, <3>1 DEF AttemptAgain
        <3>3. client \in {"connector", "http provider", "race"} => r.timer = "armed"
            BY <3>1 DEF HasTimer
        <3>4. r \in Attempts
            BY <3>1 DEF Attempts
        <3>5. /\ Len(tries') = Len(tries) + 1 /\ Len(tries) \in Nat
              /\ tries'[Len(tries) + 1] = r /\ \A m \in 1..Len(tries) : tries'[m] = tries[m]
            BY <1>2, <3>2, <3>4, AppendProperties DEF RequestInv
        <3>6. ASSUME NEW m \in 1..Len(tries'), client \in {"connector", "http provider", "race"},
                     tries'[m].told = "none"
              PROVE  tries'[m].timer = "armed"
            <4>1. m = Len(tries) + 1 \/ m \in 1..Len(tries)
                BY <3>5
            <4> QED
                BY <1>2, <3>3, <3>5, <3>6, <4>1 DEF Timed
        <3> HIDE DEF Timed
        <3> QED
            BY <3>2, <3>6 DEF Timed
    <2>3. CASE SettleRequest \/ UNCHANGED requestVars
        BY <1>2, <2>3 DEF SettleRequest, requestVars, Timed
    <2> QED
        BY <1>2, <2>1, <2>2, <2>3 DEF RequestNext
<1>3. ASSUME RequestInv, RequestTypeOK, Timed, client \in {"connector", "http provider", "race"}
      PROVE  RequestMayMove
    <2> SUFFICES ASSUME tries # <<>> PROVE RequestMayMove
        BY DEF RequestMayMove
    <2>0. tries \in Seq(Attempts)
        BY <1>3 DEF RequestInv
    <2>1. Len(tries) \in 1..Len(tries)
        BY <2>0
    <2>2. LastTry \in Attempts
        BY <1>3, <2>1, ElementOfSeq DEF RequestInv, LastTry
    <2>3. CASE LastTry.told = "none"
        BY <1>3, <2>1, <2>3 DEF Timed, LastTry, RequestMayMove
    <2>4. CASE LastTry.told = "failed"
        <3>1. Len(tries) < TriesOf(client) \/ Len(tries) = TriesOf(client)
            <4>1. TriesOf(client) \in Nat
                BY TriesPositive
            <4>2. Len(tries) <= TriesOf(client)
                BY <1>3, Zenon DEF RequestTypeOK
            <4>3. Len(tries) \in Nat
                BY <2>0
            <4> QED
                BY <4>1, <4>2, <4>3
        <3> QED
            BY <2>4, <3>1 DEF RequestMayMove
    <2>5. CASE LastTry.told = "value"
        BY <2>5 DEF RequestMayMove
    <2> QED
        BY <2>2, <2>3, <2>4, <2>5 DEF Attempts
<1> QED
    BY <1>1, <1>2, <1>3, RequestInitially, RequestStep, RequestTypeCorrect, PTL DEF RequestSpec

\* Every step of client, timer or service brings a call nearer its answer: there
\* are TriesOf(client) attempts at most, and each moves on three times at most.
THEOREM CallsGetOn == RequestSpec => [][RequestGoesOn]_requestVars
<1>1. ASSUME RequestInv, RequestTypeOK, RequestTypeOK', RequestNext PROVE RequestGoesOn
    <2>1. ASSUME NEW n \in 1..Len(tries),
                 \/ Responds(n) \/ Succeeds(n) \/ AttemptTimerFires(n)
                 \/ \E cause \in Causes \ {"late"} : Fails(n, cause)
          PROVE  RequestGoesOn
        BY <1>1, <2>1, OneAttemptMoves DEF RequestGoesOn
    <2>2. CASE AttemptAgain
        <3>1. PICK r : r = [phase |-> "fetching", told |-> "none", cause |-> "none",
                            timer |-> IF HasTimer THEN "armed" ELSE "off"]
            OBVIOUS
        <3>2. tries' = Append(tries, r) /\ UNCHANGED <<client, reply>>
            BY <2>2, <3>1 DEF AttemptAgain
        <3>3. r \in Attempts
            BY <3>1 DEF Attempts
        <3>4. Len(tries') = Len(tries) + 1 /\ \A m \in 1..Len(tries) : tries'[m] = tries[m]
            BY <1>1, <3>2, <3>3, AppendProperties DEF RequestInv
        <3>5. Len(tries') <= TriesOf(client)
            BY <1>1, <3>2 DEF RequestTypeOK, TriesOf
        <3> QED
            BY <3>2, <3>4, <3>5 DEF RequestGoesOn
    <2>3. CASE SettleRequest
        BY <2>3 DEF SettleRequest, RequestGoesOn
    <2> QED
        BY <1>1, <2>1, <2>2, <2>3 DEF RequestNext
<1> QED
    BY <1>1, RequestInitially, RequestStep, RequestTypeCorrect, PTL DEF RequestSpec
=============================================================================
