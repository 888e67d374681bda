----------------------------- MODULE RunRecovery -----------------------------
(***************************************************************************)
(* src/src/runtime-recovery.js on the ledger that                          *)
(* src/src/runtime-pipeline.js writes, with persistLedger() and            *)
(* restoreLedger() of src/src/persistence/state-store.js: a process runs   *)
(* tasks, some of which are interrupted between their start and their      *)
(* completion, recovers interrupted runs, saves its ledger, crashes and    *)
(* starts again from what was saved.                                       *)
(*                                                                         *)
(* runTaskPipeline() and recoverRun() are synchronous, so each is one      *)
(* action, exceptions included; a save is not: the ledger is exported when *)
(* it is asked for and reaches the store later.                            *)
(*                                                                         *)
(* A body is the type of an entry, its run id, its status and, as history,  *)
(* the execution that it belongs to: a caller may use a run id again.      *)
(***************************************************************************)
EXTENDS ExecutionLedger, FiniteSets

CONSTANTS
    Runs,          \* run ids
    ReusedRuns,    \* those that a caller may use for more than one run
    Statuses,      \* statuses of results
    Nothing,       \* no snapshot in the store
    MaxSaves,      \* how many saves may be under way at once
    MaxExecutions, \* bound on the executions of tasks
    MaxFailed,     \* bound on the executions whose resumption fails
    MaxCrashes     \* bound on the crashes

ASSUME RecoveryAssumption ==
    /\ ReusedRuns \subseteq Runs
    /\ Statuses # {} /\ Statuses \subseteq {"success", "failed", "skipped"}
    /\ MaxSaves \in Nat /\ MaxExecutions \in Nat /\ MaxFailed \in Nat /\ MaxCrashes \in Nat

VARIABLES
    ledger,   \* the ledger of the process
    saving,   \* exports on their way to the store
    stored,   \* the snapshot in the store
    fate,     \* history: fate[n]: run and outcome of the n-th execution
    resumed,  \* history: executions whose resumption is recorded, each with the
              \* number of crashes before it
    unrecorded, \* history: executions that resume() was called for to no record
    crashes   \* crashes so far

recoveryVars == <<ledger, saving, stored, fate, resumed, unrecorded, crashes>>

RecoveryInit ==
    /\ ledger = EmptyLedger
    /\ saving = {} /\ stored = Nothing
    /\ fate = <<>> /\ resumed = {} /\ unrecorded = {} /\ crashes = 0

Start(r, n) == [type |-> "start", run |-> r, status |-> "running", of |-> n]

Completion(r, status, n) == [type |-> "completion", run |-> r, status |-> status, of |-> n]

\* The decision of a screening, its status in the code, is left out.
Screening(r, n) == [type |-> "input_screening", run |-> r, status |-> "running", of |-> n]
-----------------------------------------------------------------------------
(* inspectRun() *)

EntriesOf(r, type) ==
    {i \in 1..Len(ledger.entries) :
        ledger.entries[i].body.run = r /\ ledger.entries[i].body.type = type}

Latest(indices) == CHOOSE i \in indices : \A j \in indices : j <= i

\* There is a start and no completion: the state "interrupted", recoverable.
Interrupted(r) == EntriesOf(r, "start") # {} /\ EntriesOf(r, "completion") = {}

\* The execution that recoverRun() resumes: that of the last start.
Resumable(r) == ledger.entries[Latest(EntriesOf(r, "start"))].body.of
-----------------------------------------------------------------------------
(* runTaskPipeline() *)

Fresh(r) == \A n \in 1..Len(fate) : fate[n].run # r

Begins(r) ==
    /\ Len(fate) < MaxExecutions
    /\ Fresh(r) \/ r \in ReusedRuns

\* The ledger once the start of the n-th execution is recorded and, when the
\* input guard objects, its screening.
Started(r, n, screened) ==
    IF screened THEN Appended(Appended(ledger, Start(r, n)), Screening(r, n))
    ELSE Appended(ledger, Start(r, n))

\* Every stage returns: a completion is recorded.
RunCompletes(r, screened, status) ==
    /\ Begins(r)
    /\ LET n == Len(fate) + 1 IN
          ledger' = Appended(Started(r, n, screened), Completion(r, status, n))
    /\ fate' = Append(fate, [run |-> r, outcome |-> status])
    /\ UNCHANGED <<saving, stored, resumed, unrecorded, crashes>>

\* The screening, the plan, the execution adapter or the verification throws
\* after recordStart(): the exception leaves runTaskPipeline().
RunThrows(r, screened) ==
    /\ Begins(r)
    /\ ledger' = Started(r, Len(fate) + 1, screened)
    /\ fate' = Append(fate, [run |-> r, outcome |-> "interrupted"])
    /\ UNCHANGED <<saving, stored, resumed, unrecorded, crashes>>
-----------------------------------------------------------------------------
(* recoverRun(), when the run is interrupted and authorize() allows it; all   *)
(* its other returns change nothing.                                          *)

\* Mutant of Recover: the completion is not recorded.
RecoverUnrecorded(r, status) ==
    /\ Interrupted(r)
    /\ resumed' = resumed \cup {<<Resumable(r), crashes>>}
    /\ UNCHANGED <<ledger, saving, stored, fate, unrecorded, crashes>>

\* resume() returns a result, which is recorded as the run's completion.
Recover(r, status) ==
    /\ Interrupted(r)
    /\ ledger' = Appended(ledger, Completion(r, status, Resumable(r)))
    /\ resumed' = resumed \cup {<<Resumable(r), crashes>>}
    /\ UNCHANGED <<saving, stored, fate, unrecorded, crashes>>

\* resume() was called and throws, or what it returns has no status, as a promise
\* has none: the exception leaves recoverRun() and nothing is recorded, whatever
\* resume() has done by then.
RecoverFails(r) ==
    /\ Interrupted(r) /\ Cardinality(unrecorded) < MaxFailed
    /\ unrecorded' = unrecorded \cup {<<Resumable(r), crashes>>}
    /\ UNCHANGED <<ledger, saving, stored, fate, resumed, crashes>>
-----------------------------------------------------------------------------
(* persistLedger(), restoreLedger() and crashes. *)

Save ==
    /\ Cardinality(saving) < MaxSaves
    /\ saving' = saving \cup {ledger.entries}
    /\ UNCHANGED <<ledger, stored, fate, resumed, unrecorded, crashes>>

Saved(snapshot) ==
    /\ snapshot \in saving
    /\ saving' = saving \ {snapshot}
    /\ stored' = snapshot
    /\ UNCHANGED <<ledger, fate, resumed, unrecorded, crashes>>

\* Mutant of Restart: the ledger is not restored.
RestartUnrestored ==
    /\ crashes < MaxCrashes
    /\ crashes' = crashes + 1
    /\ saving' = {}
    /\ ledger' = EmptyLedger
    /\ UNCHANGED <<stored, fate, resumed, unrecorded>>

\* The process dies, with the saves that have not reached the store, and the
\* next one restores what is there.
Restart ==
    /\ crashes < MaxCrashes
    /\ crashes' = crashes + 1
    /\ saving' = {}
    /\ ledger' = IF stored = Nothing THEN EmptyLedger ELSE Imported(stored)
    /\ UNCHANGED <<stored, fate, resumed, unrecorded>>
-----------------------------------------------------------------------------
RecoveryNext ==
    \/ \E r \in Runs, screened \in BOOLEAN :
          \/ RunThrows(r, screened)
          \/ \E status \in Statuses : RunCompletes(r, screened, status)
    \/ \E r \in Runs : RecoverFails(r) \/ \E status \in Statuses : Recover(r, status)
    \/ Save \/ Restart
    \/ \E snapshot \in saving : Saved(snapshot)

RecoverySpec == RecoveryInit /\ [][RecoveryNext]_recoveryVars
-----------------------------------------------------------------------------
(* Properties. *)

Body ==
    [type : {"start", "input_screening"}, run : Runs, status : {"running"},
     of : 1..MaxExecutions]
    \cup [type : {"completion"}, run : Runs, status : Statuses, of : 1..MaxExecutions]

Entries == Seq([id : Nat \ {0}, body : Body])

\* Every variable holds values the code can give it.
RecoveryTypeOK ==
    /\ ledger \in [entries : Entries, sequence : Nat]
    /\ saving \subseteq Entries /\ stored \in Entries \cup {Nothing}
    /\ fate \in Seq([run : Runs, outcome : Statuses \cup {"interrupted"}])
    /\ Len(fate) <= MaxExecutions
    /\ resumed \subseteq (1..MaxExecutions) \X (0..MaxCrashes)
    /\ unrecorded \subseteq (1..MaxExecutions) \X (0..MaxCrashes)
    /\ crashes \in 0..MaxCrashes

\* Through drops at the cap, exports, crashes and imports the ids of the ledger's
\* entries grow and the next one is larger than all of them, so no two entries
\* of a ledger, or of a snapshot of it, ever have the same id.
LedgerSound ==
    /\ Ordered(ledger.entries)
    /\ ledger.sequence = Newest(ledger.entries)
    /\ stored # Nothing => Ordered(stored)

\* A run whose execution came to its end is never resumed: whatever entries the
\* cap has dropped, whatever snapshot a restart has brought back and however
\* often a run id was used, each start of a run that recoverRun() takes as
\* interrupted belongs to an execution that was.
CompletedNeverResumed ==
    \A r \in Runs : Interrupted(r) =>
        \A i \in EntriesOf(r, "start") :
            fate[ledger.entries[i].body.of].outcome = "interrupted"

\* Between two crashes resume() is called for an execution again only as long as
\* every call so far threw or returned no result: once the completion of one is
\* recorded recoverRun() no longer finds the run interrupted by that execution,
\* whatever the cap drops after it.
ResumedOncePerLife ==
    \A r \in Runs : Interrupted(r) => <<Resumable(r), crashes>> \notin resumed

\* As long as its start is in the ledger, the latest execution of the run can be
\* recovered if it was interrupted and no resumption of it is recorded, so also
\* after resume() has failed.
RecoverableIfInterrupted(r) ==
    LET n == Resumable(r) IN
    /\ EntriesOf(r, "start") # {}
    /\ fate[n].outcome = "interrupted"
    /\ \A life \in 0..MaxCrashes : <<n, life>> \notin resumed
    => Interrupted(r)

\* So it is with every run (the test "interrupted runs are inspectable and
\* recoverable").
InterruptedRecoverable == \A r \in Runs : RecoverableIfInterrupted(r)

\* With one save at a time the snapshot in the store never goes back to an
\* earlier state of the ledger, restarts included.
StoredNeverGoesBack ==
    [][stored # Nothing => Newest(stored) <= Newest(stored')]_recoveryVars
=============================================================================
