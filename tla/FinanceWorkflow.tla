--------------------------- MODULE FinanceWorkflow ---------------------------
(***************************************************************************)
(* src/src/finance-reference-workflow.js on the capped ledger, and the     *)
(* four ways of calling it: runFinanceWorkflow() itself, as the tool of a  *)
(* pipeline run (finance-runtime-bridge.js), as the execution adapter of   *)
(* one (finance-runtime-adapter.js) and as a stage (runtime-finance.js).   *)
(* All of it is synchronous, so each call is one action.                   *)
(*                                                                         *)
(* A payment stands for a payment with the policy it is judged by, an      *)
(* operation for an operationId with its tenantId.  The pipeline records   *)
(* the trimmed operation (runtime-pipeline.js:64), the workflow looks up   *)
(* the one it was given.                                                   *)
(***************************************************************************)
EXTENDS ExecutionLedger

CONSTANTS
    Payments, BlockedPayments, LargePayments, \* by what the policy says of them
    Operations, NoOperation,
    PaddedOperations, \* those with blanks around their id
    Trimmed,          \* what trimming makes of them, an unpadded operation
    RunAsks,          \* the calls considered: [op, payment, approval]
    MaxRuns           \* bound on the calls

Approvals == {"none", "approved", "rejected", "invalid"}

ASSUME FinanceAssumption ==
    /\ BlockedPayments \subseteq Payments /\ LargePayments \subseteq Payments
    /\ PaddedOperations \subseteq Operations /\ Trimmed \in Operations \ PaddedOperations
    /\ NoOperation \notin Operations
    /\ RunAsks \subseteq [op : Operations \cup {NoOperation}, payment : Payments,
                          approval : Approvals]
    /\ MaxRuns \in Nat

VARIABLES
    books,      \* the ledger
    runs,       \* calls so far
    preparedAt  \* history: the preparations under an operation, each with its caller

financeVars == <<books, runs, preparedAt>>

FinanceInit == books = EmptyLedger /\ runs = 0 /\ preparedAt = <<>>
-----------------------------------------------------------------------------
(* Entries. "result" is what the output of a completed run says happened. *)

Audit(event, payment) ==
    [type |-> event, op |-> NoOperation, payment |-> payment, status |-> "recorded", result |-> "none"]

Resolution(payment, decision) == [Audit("approval_resolved", payment) EXCEPT !.result = decision]

Trim(op) == IF op \in PaddedOperations THEN Trimmed ELSE op

PipelineStart(op, payment) ==
    [type |-> "start", op |-> Trim(op), payment |-> payment, status |-> "running", result |-> "none"]

PipelineEnd(op, payment, status, result) ==
    [type |-> "completion", op |-> Trim(op), payment |-> payment, status |-> status, result |-> result]

\* append() for each of the bodies in turn; dropping the oldest after each one
\* or after all of them leaves the same entries.
AppendedAll(l, bodies) ==
    [entries |-> Retained(l.entries \o [i \in 1..Len(bodies) |->
                                          [id |-> l.sequence + i, body |-> bodies[i]]]),
     sequence |-> l.sequence + Len(bodies)]
-----------------------------------------------------------------------------
(* evaluatePaymentPolicy(), resolveApproval() and the verdict they lead to. *)

Policy(payment) ==
    CASE payment \in BlockedPayments -> "blocked"
      [] payment \in LargePayments \ BlockedPayments -> "requires_approval"
      [] OTHER -> "allowed"

\* Mutant of Remembers: only the oldest entry is looked at.
RemembersOldest(l, op) ==
    /\ l.entries # <<>> /\ Head(l.entries).body.type = "completion"
    /\ Head(l.entries).body.status = "success" /\ Head(l.entries).body.op = op /\ op # NoOperation

\* A successful completion of the operation is still in the ledger.
Remembers(l, op) ==
    \E i \in 1..Len(l.entries) :
        /\ l.entries[i].body.type = "completion" /\ l.entries[i].body.status = "success"
        /\ l.entries[i].body.op = op /\ op # NoOperation

\* Mutant of Verdict: a rejection does not stop the workflow.
VerdictOverrules(l, ask, works) ==
    IF Remembers(l, ask.op) THEN "already_prepared"
    ELSE CASE Policy(ask.payment) = "blocked" -> "blocked"
           [] Policy(ask.payment) = "requires_approval" /\ ask.approval = "none" -> "pending"
           [] Policy(ask.payment) = "requires_approval" /\ ask.approval = "invalid" -> "error"
           [] OTHER -> IF works THEN "prepared" ELSE "failed"

\* "error" is the exception of resolveApproval(): a decision that is neither
\* approved nor rejected, no reviewer, or a reviewer who is the requester.
\* "works" tells whether the preparation tool returns.
Verdict(l, ask, works) ==
    LET needed == Policy(ask.payment) = "requires_approval" IN
    IF Remembers(l, ask.op) THEN "already_prepared"
    ELSE CASE Policy(ask.payment) = "blocked" -> "blocked"
           [] needed /\ ask.approval = "none" -> "pending"
           [] needed /\ ask.approval = "invalid" -> "error"
           [] needed /\ ask.approval = "rejected" -> "rejected"
           [] OTHER -> IF works THEN "prepared" ELSE "failed"

\* The entries one run of the workflow appends.
Trail(ask, verdict) ==
    LET p == ask.payment
        asked == IF Policy(p) = "requires_approval" THEN <<Audit("approval_requested", p)>> ELSE <<>>
        resolved == IF asked # <<>> /\ verdict \notin {"pending", "error"}
                    THEN <<Resolution(p, ask.approval)>> ELSE <<>>
        ran == IF verdict \in {"prepared", "failed"}
               THEN <<PipelineStart(ask.op, p),
                      PipelineEnd(ask.op, p,
                                  IF verdict = "prepared" THEN "success" ELSE "failed", verdict)>>
               ELSE <<>>
    IN  IF verdict = "already_prepared" THEN <<Audit("execution_replayed", p)>>
        ELSE <<Audit("policy_evaluated", p)>> \o asked \o resolved \o ran

\* The oldest id the ledger can still show.
Oldest(l) == IF l.entries = <<>> THEN l.sequence + 1 ELSE l.entries[1].id

\* One call leaves these entries.  A preparation by a caller that was given an
\* operation is noted, with the id of the completion that carries the operation and
\* with how far back the ledger went when the call looked into it.
Records(bodies, caller, op, verdict) ==
    /\ books' = AppendedAll(books, bodies)
    /\ preparedAt' =
          IF verdict = "prepared" /\ op # NoOperation
          THEN Append(preparedAt, [by |-> caller, op |-> op, id |-> books'.sequence,
                                   oldest |-> Oldest(books)])
          ELSE preparedAt
-----------------------------------------------------------------------------
Begun == runs < MaxRuns /\ runs' = runs + 1

\* runFinanceWorkflow(), also as runFinanceAgentTask() calls it.
RunFinanceWorkflow(ask, works) ==
    LET verdict == Verdict(books, ask, works) IN
    Begun /\ Records(Trail(ask, verdict), "workflow", ask.op, verdict)

Inner(ask) == [ask EXCEPT !.op = NoOperation]

\* runFinanceReferenceTask(): the workflow is the tool of a pipeline run that has
\* the operation, but is not given it itself, so that nothing is looked up; any
\* verdict is that tool's success, and an exception its failure.
RunFinanceReferenceTask(ask, works) ==
    LET verdict == Verdict(books, Inner(ask), works)
        status == IF verdict = "error" THEN "failed" ELSE "success"
    IN  Begun /\ Records(<<PipelineStart(ask.op, ask.payment)>> \o Trail(Inner(ask), verdict)
                             \o <<PipelineEnd(ask.op, ask.payment, status, verdict)>>,
                         "bridge", ask.op, verdict)

\* runFinanceTaskPipeline(): the workflow, again without the operation, is the
\* execution adapter, whose exceptions leave the pipeline before the completion is
\* recorded.
RunFinanceTaskPipeline(ask, works) ==
    LET verdict == Verdict(books, Inner(ask), works)
        status == CASE verdict = "prepared" -> "success" [] verdict = "pending" -> "skipped"
                    [] OTHER -> "failed"
        end == IF verdict = "error" THEN <<>>
               ELSE <<PipelineEnd(ask.op, ask.payment, status, verdict)>>
    IN  Begun /\ Records(<<PipelineStart(ask.op, ask.payment)>> \o Trail(Inner(ask), verdict) \o end,
                         "adapter", ask.op, verdict)

\* executeFinanceStage(): it takes no operation; a preparation gets one more audit
\* event.
ExecuteFinanceStage(ask, works) ==
    LET verdict == Verdict(books, Inner(ask), works)
        more == IF verdict = "prepared" THEN <<Audit("policy_evaluated", ask.payment)>> ELSE <<>>
    IN  Begun /\ Records(Trail(Inner(ask), verdict) \o more, "stage", NoOperation, verdict)

\* recoverFinanceApproval(): the decision on a request that was left pending
\* is recorded; nothing is prepared.
RecoverFinanceApproval(payment, decision) ==
    /\ Policy(payment) = "requires_approval"
    /\ \E i \in 1..Len(books.entries) :
          books.entries[i].body = Audit("approval_requested", payment)
    /\ Begun /\ Records(<<Resolution(payment, decision)>>, "recovery", NoOperation, "recovered")

FinanceNext ==
    \/ \E ask \in RunAsks, works \in BOOLEAN :
          \/ RunFinanceWorkflow(ask, works)
          \/ RunFinanceReferenceTask(ask, works)
          \/ RunFinanceTaskPipeline(ask, works)
          \/ ExecuteFinanceStage(ask, works)
    \/ \E payment \in Payments, decision \in {"approved", "rejected"} :
          RecoverFinanceApproval(payment, decision)

FinanceSpec == FinanceInit /\ [][FinanceNext]_financeVars
-----------------------------------------------------------------------------
(* Properties. *)

BookBodies ==
    [type : {"start", "completion", "policy_evaluated", "approval_requested",
             "approval_resolved", "execution_replayed"},
     op : Operations \cup {NoOperation}, payment : Payments,
     status : {"recorded", "running", "success", "failed", "skipped"},
     result : {"none", "prepared", "failed", "pending", "blocked", "rejected", "error", "approved"}]

\* Every variable holds values the code can give it.
FinanceTypeOK ==
    /\ books \in [entries : Seq([id : Nat \ {0}, body : BookBodies]), sequence : Nat]
    /\ runs \in 0..MaxRuns
    /\ preparedAt \in Seq([by : {"workflow", "bridge", "adapter"}, op : Operations,
                           id : Nat, oldest : Nat])

\* "Finance workflow is idempotent for a successful operation id"
\* (finance-reference-workflow.test.js:66), as far as the ledger reaches: when
\* runFinanceWorkflow() prepares under an operation given without blanks, every
\* earlier preparation under it, by the bridge and the adapter too, had been dropped
\* by the cap when the ledger was looked into.  Nothing of the kind holds of a later
\* preparation by the bridge or the adapter, which look nothing up.
DedupeWindow ==
    \A i, j \in 1..Len(preparedAt) :
        /\ i < j /\ Trim(preparedAt[i].op) = preparedAt[j].op
        /\ preparedAt[j].by = "workflow" /\ preparedAt[j].op \notin PaddedOperations
        => preparedAt[i].id < preparedAt[j].oldest

\* As far as the ledger goes back, no payment enters the pipeline without the
\* decisions before it: the run of a blocked payment is not there, and the one
\* of a large payment follows an approval of that payment.
ApprovalPrecedesRun ==
    \A i \in 2..Len(books.entries) :
        LET here == books.entries[i].body
            before == books.entries[i - 1].body
        IN  here.type = "completion" /\ here.result = "prepared" /\ before.type = "start" =>
               /\ here.payment \notin BlockedPayments
               /\ here.payment \in LargePayments /\ i > 2 =>
                     books.entries[i - 2].body = Resolution(here.payment, "approved")
=============================================================================
