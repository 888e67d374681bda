----------------------------- MODULE MCComponents -----------------------------
(***************************************************************************)
(* A bench for the components that share no state.  Each behaviour          *)
(* exercises one of them, "part", and leaves the others as they start, so  *)
(* the states of the run are the sum of the components' and not their      *)
(* product; the properties are the components' own.                        *)
(***************************************************************************)
EXTENDS RunRecovery, FinanceIdempotency, CliLedger, CircuitBreaker, RateLimiter,
        RuntimeCache, RuntimeScheduler, EventBus, PlannedPipeline, RetriedRequest,
        QueueSnapshot, TaskDependencies, ApprovalStore, StageSpans, FinanceMcp

CONSTANT Parts \* the components to exercise

VARIABLE part

runtimeVars == <<breakerVars, limiterVars, cacheVars, schedulerVars, busVars>>
requestsVars == <<plannerVars, requestVars, mcpVars>>
recordVars == <<snapshotVars, dependencyVars, approvalVars, spanVars>>
benchVars ==
    <<part, recoveryVars, financeVars, submissionVars, cliVars, runtimeVars, requestsVars, recordVars>>
-----------------------------------------------------------------------------
(* What callers ask. *)

Asking(op, payment, approval) == [op |-> op, payment |-> payment, approval |-> approval]

Keyed(key, ask) == [key |-> key, op |-> ask.op, payment |-> ask.payment, approval |-> ask.approval]

MCRunAsks ==
    {Asking("op", "small", "none"), Asking(" op ", "small", "none"), Asking("none", "bad", "none")}
    \cup {Asking("op", "large", a) : a \in Approvals}

Idle == Keyed("key", Asking("none", "bad", "none"))

MCCallAsks ==
    {Keyed("key", Asking("none", p, a)) : p \in {"small", "large"}, a \in {"none", "approved"}}
    \cup {Keyed("key", Asking("none", "large", "rejected")), Idle}

Line(flags, task, dryRun, tool) ==
    [valid |-> TRUE, flags |-> flags, ledgerFile |-> TRUE, task |-> task, dryRun |-> dryRun,
     tool |-> tool]

RunLine == Line({}, "some", FALSE, "auto")
InspectLine == Line({"inspect"}, "none", FALSE, "auto")

EarlyLines ==
    {[RunLine EXCEPT !.valid = FALSE], [RunLine EXCEPT !.ledgerFile = FALSE],
     Line({}, "none", FALSE, "auto"), Line({}, "blank", FALSE, "auto"),
     Line({}, "some", FALSE, "unknown"), Line({"help", "inspect"}, "none", FALSE, "auto"),
     Line({"evaluate"}, "some", FALSE, "auto"), Line({"list-tools"}, "none", FALSE, "auto")}

MCCommandLines == EarlyLines \cup {RunLine, InspectLine}

MCGuard(mode, ignored) == [mode |-> mode, ignored |-> ignored]

MCToolGuard == MCGuard("approve", {})

MCPlanRequests ==
    LET findings == {[rule |-> "r1", severity |-> "medium"], [rule |-> "r2", severity |-> "high"]}
        keys == {<<FALSE, FALSE>>, <<TRUE, FALSE>>, <<TRUE, TRUE>>}
        screens == {NoGuard, MCGuard("review", {}), MCGuard("approve", {"r2"})}
        guards == {NoGuard, MCGuard("approve", {"r2"})} \cup {MCGuard(m, {}) : m \in Modes}
    IN  {Request(k[1], k[2], s, f, g, r, t, h) :
            k \in keys, s \in screens, f \in SUBSET findings, g \in guards, r \in BOOLEAN,
            t \in {"none", "function", "adapter", "odd"}, h \in BOOLEAN}

MCProposals ==
    {<<>>, DeterministicSteps,
     <<Step(1, "execute", "requires-tool"), Step(2, "report", "ready")>>,
     <<Step(1, "plan", "ready"), Step(2, "execute", "requires-tool"),
       Step(3, "verify", "ready"), Step(4, "report", "pending")>>}
    \cup {<<a, b, c>> :
            a \in {Step(1, "execute", "requires-tool"), Step(1, "execute", "ready"),
                   Step(1, "verify", "ready")},
            b \in {Step(2, "verify", "pending"), Step(2, "execute", "requires-tool")},
            c \in {Step(3, "report", "pending"), Step(3, "verify", "pending"),
                   Step(3, "report", "odd")}}

\* Every dependency map of three tasks, with every order of their parents.
MCParents ==
    {NoKey} \cup {s \in UNION {[1..n -> 1..3] : n \in 0..3} :
                      \A i, j \in DOMAIN s : s[i] = s[j] => i = j}

MCMaps == [1..3 -> MCParents]

MCHttpAsks ==
    LET finding == [rule |-> "r1", severity |-> "medium"]
        versions == {"modern", "legacy", "none"}
        toolCalls == {Message(rpc, "tools/call", v, t, f) : rpc \in BOOLEAN, v \in versions,
                     t \in {"known", "unknown", "none"}, f \in {{}, {finding}}}
        others == {Message(rpc, m, v, "none", {}) : rpc \in BOOLEAN, v \in versions,
                      m \in Methods \ {"tools/call"}}
        plain == Message(TRUE, "tools/list", "modern", "none", {})
    IN  {HttpAsk(TRUE, TRUE, h, "json", m) : h \in BOOLEAN, m \in toolCalls \cup others}
        \cup {HttpAsk(p, j, TRUE, b, plain) : p \in BOOLEAN, j \in BOOLEAN,
                  b \in {"null", "bad", "large"}}

\* One call may be anything, the other one calls a tool.
OrdinaryAsks ==
    {q \in HttpAsks : /\ q.post /\ q.json /\ q.header /\ q.body = "json"
                      /\ q.message.method = "tools/call" /\ q.message.tool = "known"
                      /\ q.message.version = "modern" /\ q.message.rpc}

AskedOfMcp ==
    UNION {{[c \in HttpCalls |-> IF c = d THEN q ELSE o] : q \in HttpAsks, o \in OrdinaryAsks} :
              d \in HttpCalls}
\* Requests as stageAction() asks for them, and records of decisions that no
\* reviewer took.
MCSavedRecords ==
    {[status |-> "pending", reviewer |-> "none"], [status |-> "approved", reviewer |-> "none"]}
-----------------------------------------------------------------------------
(* One part at a time. *)

OneOf(S) == CHOOSE x \in S : TRUE

\* Its parameters are chosen for the part that is exercised only.
Exercised(p, choices, otherwise) == IF part = p THEN choices ELSE {otherwise}

Init ==
    /\ part \in Parts
    /\ asked \in Exercised("submissions", [Submissions -> CallAsks], [c \in Submissions |-> Idle])
    /\ command \in Exercised("cli", [Invocations -> CommandLines],
                                    [i \in Invocations |-> InspectLine])
    /\ part = "cli" =>
          \A i, j \in Invocations : {command[i], command[j]} \subseteq EarlyLines => i = j
    /\ wall \in Exercised("limiter", 0..MaxTime, 0)
    /\ IF part = "planner" THEN TRUE ELSE call = OneOf(PlanRequests)
    /\ client \in Exercised("requests", Clients, OneOf(Clients))
    /\ depth \in Exercised("snapshots", Depths, OneOf(Depths))
    /\ IF part = "dependencies" THEN TRUE ELSE deps = [t \in TaskIds |-> NoKey]
    /\ httpAsked \in Exercised("mcp", AskedOfMcp, [c \in HttpCalls |-> OneOf(OrdinaryAsks)])
    /\ RecoveryInit /\ FinanceInit /\ SubmissionInit /\ CliInit
    /\ BreakerInit /\ LimiterInit /\ CacheInit /\ SchedulerInit /\ BusInit
    /\ PlannerInit /\ RequestInit /\ McpInit
    /\ SnapshotInit /\ DependencyInit /\ ApprovalInit /\ SpanInit

\* Which operation of the breaker is which does not matter: they start in order.
InOrder == \A o, p \in Ops : p < o /\ pc'[o] # "idle" => pc'[p] # "idle"

LedgerParts ==
    \/ /\ part = "recovery" /\ RecoveryNext
       /\ UNCHANGED <<financeVars, submissionVars, cliVars>>
    \/ /\ part = "finance" /\ FinanceNext
       /\ UNCHANGED <<recoveryVars, callState, flying, kept, losses, cliVars>>
    \/ /\ part = "submissions" /\ SubmissionNext
       /\ UNCHANGED <<recoveryVars, runs, cliVars>>
    \/ /\ part = "cli" /\ CliNext
       /\ UNCHANGED <<recoveryVars, financeVars, submissionVars>>

RuntimeParts ==
    \/ /\ part = "breaker" /\ BreakerNext /\ InOrder
       /\ UNCHANGED <<limiterVars, cacheVars, schedulerVars, busVars>>
    \/ /\ part = "limiter" /\ LimiterNext
       /\ UNCHANGED <<breakerVars, cacheVars, schedulerVars, busVars>>
    \/ /\ part = "cache" /\ CacheNext
       /\ UNCHANGED <<breakerVars, limiterVars, schedulerVars, busVars>>
    \/ /\ part = "scheduler" /\ SchedulerNext
       /\ UNCHANGED <<breakerVars, limiterVars, cacheVars, busVars>>
    \/ /\ part = "bus" /\ BusNext
       /\ UNCHANGED <<breakerVars, limiterVars, cacheVars, schedulerVars>>

RequestParts ==
    \/ part = "planner" /\ PlannerNext /\ UNCHANGED <<requestVars, mcpVars>>
    \/ part = "requests" /\ RequestNext /\ UNCHANGED <<plannerVars, mcpVars>>
    \/ part = "mcp" /\ McpNext /\ UNCHANGED <<plannerVars, requestVars>>

RecordParts ==
    \/ /\ part = "snapshots" /\ SnapshotNext
       /\ UNCHANGED <<dependencyVars, approvalVars, spanVars>>
    \/ /\ part = "dependencies" /\ DependencyNext
       /\ UNCHANGED <<snapshotVars, approvalVars, spanVars>>
    \/ /\ part = "approvals" /\ ApprovalNext
       /\ UNCHANGED <<snapshotVars, dependencyVars, spanVars>>
    \/ /\ part = "spans" /\ SpanNext
       /\ UNCHANGED <<snapshotVars, dependencyVars, approvalVars>>

ledgerVars == <<recoveryVars, financeVars, submissionVars, cliVars>>

Next ==
    /\ UNCHANGED part
    /\ \/ LedgerParts /\ UNCHANGED <<runtimeVars, requestsVars, recordVars>>
       \/ RuntimeParts /\ UNCHANGED <<ledgerVars, requestsVars, recordVars>>
       \/ RequestParts /\ UNCHANGED <<ledgerVars, runtimeVars, recordVars>>
       \/ RecordParts /\ UNCHANGED <<ledgerVars, runtimeVars, requestsVars>>

Spec == Init /\ [][Next]_benchVars
-----------------------------------------------------------------------------
\* The type invariants of the parts.
TypesOK ==
    /\ RecoveryTypeOK /\ BreakerTypeOK /\ LimiterTypeOK
    /\ FinanceTypeOK /\ CliTypeOK /\ CacheTypeOK /\ SchedulerTypeOK /\ BusTypeOK
    /\ PlannerTypeOK /\ RequestTypeOK /\ McpTypeOK
    /\ SnapshotTypeOK /\ DependencyTypeOK /\ ApprovalTypeOK /\ SpanTypeOK
=============================================================================
