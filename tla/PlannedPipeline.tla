--------------------------- MODULE PlannedPipeline ---------------------------
(***************************************************************************)
(* runPlannedTaskPipeline() of src/src/llm-planner.js: the planner asks a  *)
(* model for a plan, against a timer, or falls back to the deterministic   *)
(* one; then runTaskPipeline() of src/src/runtime-pipeline.js, which is    *)
(* synchronous, screens, authorises, executes and verifies, and            *)
(* src/src/runtime-telemetry.js counts the run.                            *)
(*                                                                         *)
(* Every variable is about one call; calls share nothing here (the ledger  *)
(* is in RunRecovery).  Prompts, texts and descriptions are data.          *)
(***************************************************************************)
EXTENDS TaskScreening, Sequences

CONSTANTS
    PlanRequests, \* how it is called, see Request below
    Proposals,    \* what a model may propose: sequences of steps
    MaxSteps      \* MAX_STEPS

VARIABLES
    call,      \* the request
    planning,  \* where the call is
    timer,     \* of requestProposal(): "off", "armed" or "fired" (the signal aborts)
    sent,      \* whether the task has been sent to the model
    planned,   \* the plan: its source, fallback reason and steps
    ran        \* what runTaskPipeline() did

plannerVars == <<call, planning, timer, sent, planned, ran>>

\* provider, key: configured or not; screen: the guard of the planner's
\* inputScreen; guard: the pipeline's inputGuard; reviewer: whether
\* injectionApproval names one; tool: "none", a "function", an
\* executionAdapter ("adapter") or something else ("odd"); honours: whether
\* fetch() honours its signal.
Request(provider, key, screen, findings, guard, reviewer, tool, honours) ==
    [provider |-> provider, key |-> key, screen |-> screen, findings |-> findings,
     guard |-> guard, reviewer |-> reviewer, tool |-> tool, honours |-> honours]

NoGuard == [mode |-> "none", ignored |-> {}]

ASSUME PlannerAssumption ==
    /\ MaxSteps \in Nat \ {0}
    /\ \A r \in PlanRequests :
          /\ \A guard \in {r.screen, r.guard} : guard = NoGuard \/ guard.mode \in Modes
          /\ \A f \in r.findings : f.severity \in Severities
          /\ r.reviewer \in BOOLEAN /\ r.tool \in {"none", "function", "adapter", "odd"}

\* Without a guard there is no screening, which the code treats as "allow".
Screened(guard) == IF guard = NoGuard THEN "allow" ELSE GuardDecision(guard, call.findings)

NoPlan == [source |-> "none", reason |-> "none", steps |-> <<>>]
NotRun == [ended |-> "no", executed |-> FALSE, status |-> "none", reason |-> "none"]

PlannerInit ==
    /\ call \in PlanRequests
    /\ planning = "called" /\ timer = "off" /\ sent = FALSE
    /\ planned = NoPlan /\ ran = NotRun
-----------------------------------------------------------------------------
(* Plans. *)

Step(id, action, status) == [id |-> id, action |-> action, status |-> status]

\* planTask()
DeterministicSteps ==
    <<Step(1, "parse", "ready"), Step(2, "plan", "ready"), Step(3, "execute", "requires-tool"),
      Step(4, "verify", "pending"), Step(5, "report", "pending")>>

AllowedActions == {"parse", "plan", "execute", "verify", "report"}
AllowedStatuses == {"ready", "requires-tool", "pending"}

Doing(steps, action) == {i \in 1..Len(steps) : steps[i].action = action}

\* validatePlan() of the execution policy.
PlanValid(steps) ==
    /\ steps # <<>>
    /\ \A i \in 1..Len(steps) : steps[i].id >= 1 /\ steps[i].status \in AllowedStatuses

WellFormed(steps) ==
    /\ Len(steps) \in 1..MaxSteps
    /\ \A i \in 1..Len(steps) :
          /\ steps[i].id = i
          /\ steps[i].action \in AllowedActions /\ steps[i].status \in AllowedStatuses

\* Mutant of Acceptable: the execute step may have any status.
AcceptableAnyStatus(steps) ==
    /\ WellFormed(steps)
    /\ \E e \in Doing(steps, "execute") :
          /\ Doing(steps, "execute") = {e}
          /\ Doing(steps, "verify") # {} /\ \A v \in Doing(steps, "verify") : v > e
    /\ steps[Len(steps)].action = "report"

\* validateProposedPlan(): one execute step, which awaits a tool, the first
\* verify after it, and a report at the end.
Acceptable(steps) ==
    /\ WellFormed(steps)
    /\ \E e \in Doing(steps, "execute") :
          /\ Doing(steps, "execute") = {e} /\ steps[e].status = "requires-tool"
          /\ Doing(steps, "verify") # {} /\ \A v \in Doing(steps, "verify") : v > e
    /\ steps[Len(steps)].action = "report"
    /\ PlanValid(steps)

\* The planner's plan(): it never rejects.
Falls(reason) ==
    /\ planned' = [source |-> "deterministic", reason |-> reason, steps |-> DeterministicSteps]
    /\ planning' = "planned" /\ timer' = "off"
    /\ UNCHANGED <<call, ran>>
-----------------------------------------------------------------------------
(* plan() and requestProposal(). *)

NotConfigured ==
    /\ planning = "called"
    /\ \/ ~call.provider /\ Falls("provider_disabled")
       \/ call.provider /\ ~call.key /\ Falls("missing_api_key")
    /\ UNCHANGED sent

\* Mutant of RejectsInput: only what is blocked is kept from the model.
RejectsInputBlocked == Screened(call.screen) = "block"

RejectsInput == Screened(call.screen) # "allow"

InputRejected ==
    /\ planning = "called" /\ call.provider /\ call.key
    /\ RejectsInput /\ Falls("input_rejected")
    /\ UNCHANGED sent

\* The timer is set and fetch() called.
Ask ==
    /\ planning = "called" /\ call.provider /\ call.key
    /\ ~RejectsInput
    /\ planning' = "fetching" /\ timer' = "armed" /\ sent' = TRUE
    /\ UNCHANGED <<call, planned, ran>>

PlanTimerFires ==
    /\ timer = "armed" /\ timer' = "fired"
    /\ UNCHANGED <<call, planning, sent, planned, ran>>

\* The signal ends the fetch, or the reading of the body: the latter is caught
\* as an envelope that is not JSON.
PlanAborted ==
    /\ timer = "fired" /\ call.honours
    /\ \/ planning = "fetching" /\ Falls("timeout")
       \/ planning = "reading" /\ Falls("invalid_json")
    /\ UNCHANGED sent

\* fetch() rejects, or its response is no response or not ok.
FetchFails ==
    /\ planning = "fetching"
    /\ Falls("network_error") \/ Falls("provider_error")
    /\ UNCHANGED sent

\* Mutant of ResponseComes: the timer is cleared before the body is read.
ResponseComesTimerOff ==
    /\ planning = "fetching"
    /\ planning' = "reading" /\ timer' = "off"
    /\ UNCHANGED <<call, sent, planned, ran>>

\* Also after the timer, when fetch() does not honour the signal or the answer
\* was there first.
ResponseComes ==
    /\ planning = "fetching"
    /\ planning' = "reading"
    /\ UNCHANGED <<call, timer, sent, planned, ran>>

\* The body is not JSON, or the text in it is blank or is not.
NotJson ==
    /\ planning = "reading" /\ Falls("invalid_json")
    /\ UNCHANGED sent

\* extractProviderText() finds no text where its provider has it, or a refusal.
NoText ==
    /\ planning = "reading" /\ Falls("provider_error")
    /\ UNCHANGED sent

ProposalComes(steps) ==
    /\ planning = "reading"
    /\ IF Acceptable(steps)
       THEN /\ planned' = [source |-> "llm", reason |-> "none", steps |-> steps]
            /\ planning' = "planned" /\ timer' = "off"
            /\ UNCHANGED <<call, ran>>
       ELSE Falls("schema_violation")
    /\ UNCHANGED sent

Planner ==
    \/ NotConfigured \/ InputRejected \/ Ask \/ PlanTimerFires \/ PlanAborted
    \/ FetchFails \/ ResponseComes \/ NotJson \/ NoText
    \/ \E steps \in Proposals : ProposalComes(steps)
-----------------------------------------------------------------------------
(* runTaskPipeline() with that plan. *)

FirstOf(indices) == CHOOSE i \in indices : \A j \in indices : i <= j

\* authorizeExecution(): why the plan does not allow the tool, or "none".
Objection(steps, tool) ==
    IF Doing(steps, "execute") = {} THEN "execution step missing"
    ELSE IF steps[FirstOf(Doing(steps, "execute"))].status # "requires-tool"
         THEN "execution step is not awaiting a tool"
    ELSE IF tool = "none" THEN "tool is required" ELSE "none"

ResultStatuses == {"success", "failed", "skipped"}

Returns(executed, status, reason) ==
    ran' = [ended |-> "returned", executed |-> executed, status |-> status, reason |-> reason]

Throws(executed) ==
    ran' = [ended |-> "threw", executed |-> executed, status |-> "none", reason |-> "none"]

\* executeTask() catches what a tool throws and throws itself at a tool that is
\* none; an adapter returns a result, which may be skipped for a reason of its
\* own, or throws.
Execute ==
    CASE call.tool = "function" -> \E s \in {"success", "failed"} : Returns(TRUE, s, "none")
      [] call.tool = "adapter" ->
            Throws(TRUE) \/ \E s \in ResultStatuses : Returns(TRUE, s, "none")
      [] call.tool = "odd" -> Throws(FALSE)

RunPipeline ==
    LET decision == Screened(call.guard)
        allowed == GateAllows(decision, call.reviewer)
        objection == Objection(planned.steps, call.tool)
    IN
    /\ planning = "planned" /\ planning' = "done"
    /\ CASE ~PlanValid(planned.steps) -> Throws(FALSE)
         [] PlanValid(planned.steps) /\ ~allowed -> Returns(FALSE, "skipped", GateReason(decision))
         [] PlanValid(planned.steps) /\ allowed /\ objection # "none" ->
               Returns(FALSE, "skipped", objection)
         [] PlanValid(planned.steps) /\ allowed /\ objection = "none" -> Execute
    /\ UNCHANGED <<call, timer, sent, planned>>

PlannerNext == Planner \/ RunPipeline

PlannerSpec == PlannerInit /\ [][PlannerNext]_plannerVars

\* The steps that are not up to the model or its provider: the timer fires, and
\* what honours the signal ends.
PlannerMoves ==
    NotConfigured \/ InputRejected \/ Ask \/ PlanTimerFires \/ PlanAborted \/ RunPipeline

PlannerFairness == WF_plannerVars(PlannerMoves)
-----------------------------------------------------------------------------
(* observeRun(): the reasons under which a run counts as stopped. *)

GateReasons == {"blocked", "approval required"}

\* Mutant of OtherReasons: a reason of the gate counts as authorization, too.
OtherReasons == {"none"}

\* Reasons that do not count as authorization, as patterns in the code.
NotAuthorization == {"none"} \cup GateReasons

StoppedAs ==
    LET decision == Screened(call.guard) IN
    (IF decision = "block" THEN {"injection_screening"} ELSE {})
    \cup (IF decision = "require_approval" /\ ran.status = "skipped"
             /\ ran.reason = "approval required"
          THEN {"approval_required"} ELSE {})
    \cup (IF ran.status = "skipped" /\ ran.reason \notin NotAuthorization
          THEN {"authorization"} ELSE {})
-----------------------------------------------------------------------------
(* Properties. *)

\* Every variable holds values the code can give it.
PlannerTypeOK ==
    /\ planning \in {"called", "fetching", "reading", "planned", "done"}
    /\ timer \in {"off", "armed", "fired"} /\ sent \in BOOLEAN
    /\ planned.source \in {"none", "deterministic", "llm"}
    /\ planned.steps \in Proposals \cup {<<>>, DeterministicSteps}
    /\ ran.ended \in {"no", "returned", "threw"} /\ ran.executed \in BOOLEAN
    /\ ran.status \in ResultStatuses \cup {"none"}

\* "Model proposes, policy decides" (llm-planner.js lines 5-12): whatever plan
\* the model proposes and however planning fails, the run executes exactly when
\* the run with the deterministic plan would, is stopped for the same reason,
\* and never throws for the plan's sake.
ModelDecidesNothing ==
    ran.ended # "no" =>
        LET decision == Screened(call.guard)
            allowed == GateAllows(decision, call.reviewer)
        IN
        /\ ran.executed <=> allowed /\ call.tool \in {"function", "adapter"}
        /\ ran.ended = "threw" => allowed /\ call.tool \in {"adapter", "odd"}
        /\ ~ran.executed /\ ran.ended = "returned" =>
              ran.reason = IF allowed THEN "tool is required" ELSE GateReason(decision)

\* A task with a finding that its guard considers is not sent to the model by a
\* planner that screens, and is not executed by a pipeline that does unless a
\* reviewer is named and the guard leaves it to one (injection-guard.js lines
\* 156-182 and 208-215, runtime-pipeline.js lines 25-36).
FlaggedIsHeld ==
    /\ sent /\ call.screen # NoGuard => Considered(call.findings, call.screen.ignored) = {}
    /\ ran.executed /\ call.guard # NoGuard =>
          LET kept == Considered(call.findings, call.guard.ignored) IN
          \/ kept = {}
          \/ call.reviewer /\ call.guard.mode # "block"
             /\ (call.guard.mode = "approve" => \A f \in kept : f.severity # "high")

\* The metrics agree with the pipeline: a run that was stopped counts under one
\* reason, and one that was executed by a tool counts under none
\* (runtime-telemetry.js lines 162-170).
StopsCountedOnce ==
    ran.ended = "returned" /\ call.tool # "adapter" =>
        \/ ran.executed /\ StoppedAs = {}
        \/ ~ran.executed /\ \E reason \in StoppedAs : StoppedAs = {reason}

\* A provider that honours the signal cannot hold up a task, whether it hangs
\* before its response or in the middle of it (lines 242-266).
PlanningEnds == planning = "called" /\ call.honours ~> planning = "done"
=============================================================================
