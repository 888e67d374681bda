------------------------------ MODULE MCSettles ------------------------------
(***************************************************************************)
(* A bench for what must end: calls of an idempotency store, runs of queue  *)
(* workers, planning with a model, and requests to services.  Each         *)
(* behaviour exercises one of them, "part", and leaves the others as they  *)
(* start; the fairness is that of the part.                                *)
(***************************************************************************)
EXTENDS IdempotencyStore, QueueWorker, PlannedPipeline, RetriedRequest

VARIABLE part

benchVars == <<part, vars, drainVars, plannerVars, requestVars>>

Parts == {"executions", "drain", "planner", "requests"}
-----------------------------------------------------------------------------
MCPlanRequests ==
    {Request(p, TRUE, s, f, NoGuard, FALSE, "function", h) :
        p \in BOOLEAN, s \in {NoGuard, [mode |-> "review", ignored |-> {}]},
        f \in SUBSET {[rule |-> "r1", severity |-> "high"]}, h \in BOOLEAN}

MCProposals == {<<>>, DeterministicSteps}

OneOf(S) == CHOOSE x \in S : TRUE

\* Its parameters are chosen for the part that is exercised only; the others get
\* a request and a client of which nothing is promised.
BenchInit ==
    /\ part \in Parts
    /\ part # "executions" => req = [c \in Calls |-> OneOf(Requests)]
    /\ part # "planner" => call = OneOf({r \in PlanRequests : ~r.honours})
    /\ part # "requests" => client = "http tool"
    /\ Init /\ DrainInit /\ PlannerInit /\ RequestInit

BenchNext ==
    /\ UNCHANGED part
    /\ \/ /\ part = "executions" /\ Next
          /\ UNCHANGED <<drainVars, plannerVars, requestVars>>
       \/ /\ part = "drain" /\ DrainNext
          /\ UNCHANGED <<vars, plannerVars, requestVars>>
       \/ /\ part = "planner" /\ PlannerNext
          /\ UNCHANGED <<vars, drainVars, requestVars>>
       \/ /\ part = "requests" /\ RequestNext
          /\ UNCHANGED <<vars, drainVars, plannerVars>>

\* A part that is not exercised never begins, so that its fairness asks nothing;
\* the planner and the requests begin by themselves.
Fairness ==
    /\ \A c \in Calls : WF_vars(Continue(c))
    /\ \A w \in Workers : WF_drainVars(Work(w))
    /\ WF_plannerVars(part = "planner" /\ PlannerMoves)
    /\ WF_requestVars(part = "requests" /\ RequestMoves)

BenchSpec == BenchInit /\ [][BenchNext]_benchVars /\ Fairness
=============================================================================
