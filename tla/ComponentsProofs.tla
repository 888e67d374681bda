--------------------------- MODULE ComponentsProofs ---------------------------
(***************************************************************************)
(* What the bench of MCComponents checks on small instances, for every      *)
(* value of the constants.  Each component sees of a step of the bench one  *)
(* of its own steps or none, so the bench implements the specification of   *)
(* every component, and inherits what is proved of it.  Only the ledger of  *)
(* the finance workflow is stepped by two parts, by the calls themselves    *)
(* and by those that come with a key, and its invariant is kept by both.    *)
(***************************************************************************)
EXTENDS MCComponents, LedgerProofs, FinanceProofs, RecordProofs, RuntimeProofs, RequestProofs
-----------------------------------------------------------------------------
(* A step of the bench is a step of one group of components. *)

LEMMA OneGroupSteps ==
    ASSUME [Next]_benchVars
    PROVE  /\ LedgerParts \/ UNCHANGED ledgerVars
           /\ RuntimeParts \/ UNCHANGED runtimeVars
           /\ RequestParts \/ UNCHANGED requestsVars
           /\ RecordParts \/ UNCHANGED recordVars
    BY DEF Next, benchVars, ledgerVars

LEMMA ComponentsStart ==
    Init =>
    /\ RecoveryInit /\ FinanceInit /\ SubmissionInit /\ CliInit
    /\ BreakerInit /\ LimiterInit /\ CacheInit /\ SchedulerInit /\ BusInit
    /\ PlannerInit /\ RequestInit /\ McpInit
    /\ SnapshotInit /\ DependencyInit /\ ApprovalInit /\ SpanInit
    BY DEF Init

LEMMA LedgersStep ==
    ASSUME [Next]_benchVars
    PROVE  [RecoveryNext]_recoveryVars /\ [CliNext]_cliVars
    BY OneGroupSteps DEF LedgerParts, ledgerVars

LEMMA RuntimeSteps ==
    ASSUME [Next]_benchVars
    PROVE  /\ [BreakerNext]_breakerVars /\ [LimiterNext]_limiterVars
           /\ [CacheNext]_cacheVars /\ [SchedulerNext]_schedulerVars /\ [BusNext]_busVars
    BY OneGroupSteps DEF RuntimeParts, runtimeVars

LEMMA RequestsStep ==
    ASSUME [Next]_benchVars
    PROVE  [PlannerNext]_plannerVars /\ [RequestNext]_requestVars /\ [McpNext]_mcpVars
    BY OneGroupSteps DEF RequestParts, requestsVars

LEMMA RecordsStep ==
    ASSUME [Next]_benchVars
    PROVE  /\ [SnapshotNext]_snapshotVars /\ [DependencyNext]_dependencyVars
           /\ [ApprovalNext]_approvalVars /\ [SpanNext]_spanVars
    BY OneGroupSteps DEF RecordParts, recordVars

\* Each component of the bench behaves as its specification says, whatever part is
\* exercised: what is proved of a component holds of the bench.
THEOREM BenchRunsComponents ==
    Spec =>
    /\ RecoverySpec /\ CliSpec
    /\ BreakerSpec /\ LimiterSpec /\ CacheSpec /\ SchedulerSpec /\ BusSpec
    /\ PlannerSpec /\ RequestSpec /\ McpSpec
    /\ SnapshotSpec /\ DependencySpec /\ ApprovalSpec /\ SpanSpec
<1>1. Spec => RecoverySpec
    <2>1. Init => RecoveryInit
        BY ComponentsStart
    <2>2. [Next]_benchVars => [RecoveryNext]_recoveryVars
        BY LedgersStep
    <2> QED
        BY <2>1, <2>2, PTL DEF Spec, RecoverySpec
<1>2. Spec => CliSpec
    <2>1. Init => CliInit
        BY ComponentsStart
    <2>2. [Next]_benchVars => [CliNext]_cliVars
        BY LedgersStep
    <2> QED
        BY <2>1, <2>2, PTL DEF Spec, CliSpec
<1>3. Spec => BreakerSpec
    <2>1. Init => BreakerInit
        BY ComponentsStart
    <2>2. [Next]_benchVars => [BreakerNext]_breakerVars
        BY RuntimeSteps
    <2> QED
        BY <2>1, <2>2, PTL DEF Spec, BreakerSpec
<1>4. Spec => LimiterSpec
    <2>1. Init => LimiterInit
        BY ComponentsStart
    <2>2. [Next]_benchVars => [LimiterNext]_limiterVars
        BY RuntimeSteps
    <2> QED
        BY <2>1, <2>2, PTL DEF Spec, LimiterSpec
<1>5. Spec => CacheSpec
    <2>1. Init => CacheInit
        BY ComponentsStart
    <2>2. [Next]_benchVars => [CacheNext]_cacheVars
        BY RuntimeSteps
    <2> QED
        BY <2>1, <2>2, PTL DEF Spec, CacheSpec
<1>6. Spec => SchedulerSpec
    <2>1. Init => SchedulerInit
        BY ComponentsStart
    <2>2. [Next]_benchVars => [SchedulerNext]_schedulerVars
        BY RuntimeSteps
    <2> QED
        BY <2>1, <2>2, PTL DEF Spec, SchedulerSpec
<1>7. Spec => BusSpec
    <2>1. Init => BusInit
        BY ComponentsStart
    <2>2. [Next]_benchVars => [BusNext]_busVars
        BY RuntimeSteps
    <2> QED
        BY <2>1, <2>2, PTL DEF Spec, BusSpec
<1>8. Spec => PlannerSpec
    <2>1. Init => PlannerInit
        BY ComponentsStart
    <2>2. [Next]_benchVars => [PlannerNext]_plannerVars
        BY RequestsStep
    <2> QED
        BY <2>1, <2>2, PTL DEF Spec, PlannerSpec
<1>9. Spec => RequestSpec
    <2>1. Init => RequestInit
        BY ComponentsStart
    <2>2. [Next]_benchVars => [RequestNext]_requestVars
        BY RequestsStep
    <2> QED
        BY <2>1, <2>2, PTL DEF Spec, RequestSpec
<1>10. Spec => McpSpec
    <2>1. Init => McpInit
        BY ComponentsStart
    <2>2. [Next]_benchVars => [McpNext]_mcpVars
        BY RequestsStep
    <2> QED
        BY <2>1, <2>2, PTL DEF Spec, McpSpec
<1>11. Spec => SnapshotSpec
    <2>1. Init => SnapshotInit
        BY ComponentsStart
    <2>2. [Next]_benchVars => [SnapshotNext]_snapshotVars
        BY RecordsStep
    <2> QED
        BY <2>1, <2>2, PTL DEF Spec, SnapshotSpec
<1>12. Spec => DependencySpec
    <2>1. Init => DependencyInit
        BY ComponentsStart
    <2>2. [Next]_benchVars => [DependencyNext]_dependencyVars
        BY RecordsStep
    <2> QED
        BY <2>1, <2>2, PTL DEF Spec, DependencySpec
<1>13. Spec => ApprovalSpec
    <2>1. Init => ApprovalInit
        BY ComponentsStart
    <2>2. [Next]_benchVars => [ApprovalNext]_approvalVars
        BY RecordsStep
    <2> QED
        BY <2>1, <2>2, PTL DEF Spec, ApprovalSpec
<1>14. Spec => SpanSpec
    <2>1. Init => SpanInit
        BY ComponentsStart
    <2>2. [Next]_benchVars => [SpanNext]_spanVars
        BY RecordsStep
    <2> QED
        BY <2>1, <2>2, PTL DEF Spec, SpanSpec
<1> QED
    BY <1>1, <1>2, <1>3, <1>4, <1>5, <1>6, <1>7, <1>8, <1>9, <1>10, <1>11, <1>12, <1>13, <1>14
-----------------------------------------------------------------------------
(* The ledger of the finance workflow, and the calls with a key. *)

LEMMA CallsUntouched ==
    ASSUME SubmissionInv, UNCHANGED <<callState, flying, kept>>
    PROVE  SubmissionInv'
    BY DEF callState, SubmissionInv, SubmissionTypes, FlyingLeads, Leading, MarkerHeld,
           RecordFaithful, PerformedRecorded, AnswerOwn, JoinsLeader, SamePayload, ToldPrepared

LEMMA BenchKeepsFinance ==
    FinanceInv /\ SubmissionInv /\ [Next]_benchVars => FinanceInv' /\ SubmissionInv'
<1> SUFFICES ASSUME FinanceInv, SubmissionInv, [Next]_benchVars
             PROVE  FinanceInv' /\ SubmissionInv'
    OBVIOUS
<1>1. \/ FinanceNext /\ UNCHANGED <<callState, flying, kept>>
      \/ SubmissionNext
      \/ UNCHANGED <<financeVars, submissionVars>>
    BY OneGroupSteps DEF LedgerParts, ledgerVars
<1>2. CASE FinanceNext /\ UNCHANGED <<callState, flying, kept>>
    BY <1>2, FinanceStep, CallsUntouched
<1>3. CASE SubmissionNext
    BY <1>3, SubmissionStep, SubmissionKeepsLedger DEF SubmissionInv
<1>4. CASE UNCHANGED <<financeVars, submissionVars>>
    BY <1>4, FinanceStep, SubmissionStep
<1> QED
    BY <1>1, <1>2, <1>3, <1>4

LEMMA BenchFinance == Spec => [](FinanceInv /\ SubmissionInv)
<1>1. Init => FinanceInv /\ SubmissionInv
    BY ComponentsStart, FinanceInvInit, SubmissionInvInit
<1> QED
    BY <1>1, BenchKeepsFinance, PTL DEF Spec
-----------------------------------------------------------------------------
(* What the run "components" checks. *)

\* Whatever component runs, all of them keep holding values the code can give them.
THEOREM TypesCorrect == Spec => []TypesOK
<1>1. FinanceInv => FinanceTypeOK
    BY DEF FinanceInv
<1> QED
    BY <1>1, BenchRunsComponents, BenchFinance, TypeCorrect, CliTypeCorrect, BreakerTypeCorrect,
       LimiterTypeCorrect, CacheTypeCorrect, SchedulerTypeCorrect, BusTypeCorrect,
       PlannerTypeCorrect, RequestTypeCorrect, McpTypeCorrect, SnapshotTypeCorrect,
       DependencyTypeCorrect, ApprovalTypeCorrect, SpanTypeCorrect, PTL
    DEF TypesOK

\* The finance ledger on the bench, which its own calls and the calls with a key
\* write to: an operation given without blanks is prepared again only after the cap
\* has dropped it, no run is there without its decisions, and the keys keep their
\* outcome.
THEOREM FinanceKeptOnBench ==
    Spec => [](DedupeWindow /\ ApprovalPrecedesRun /\ KeysKeepTheirOutcome)
<1>1. FinanceInv => DedupeWindow /\ ApprovalPrecedesRun
    BY DEF FinanceInv
<1> QED
    BY <1>1, BenchFinance, KeysHold, PTL
=============================================================================
