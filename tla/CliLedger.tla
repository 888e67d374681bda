------------------------------ MODULE CliLedger ------------------------------
(***************************************************************************)
(* src/src/cli-runner.js: invocations of the command line, each a process  *)
(* of its own, that share one ledger file.  An invocation reads the file,  *)
(* runs its task and writes the whole ledger back; writeFileSync() first   *)
(* truncates the file, so between the two, and after a kill there, it does *)
(* not parse.  Steps of different processes interleave.                    *)
(*                                                                         *)
(* An entry's body is its type and the invocation whose run it belongs to  *)
(* (run ids are fresh); printing and the text of the task are left out.    *)
(***************************************************************************)
EXTENDS ExecutionLedger

CONSTANTS
    Invocations,
    CommandLines, \* what an invocation may be given: see Lines
    MaxKills      \* bound on the processes killed

Flags == {"help", "inspect", "evaluate", "list-tools"}

\* parseArgs(): the flags, whether there is --ledger-file, the task, --dry-run
\* and --tool; "valid" is false when parsing throws.
Lines == [valid : BOOLEAN, flags : SUBSET Flags, ledgerFile : BOOLEAN,
          task : {"none", "blank", "some"}, dryRun : BOOLEAN,
          tool : {"auto", "known", "unknown"}]

ASSUME CliAssumption == CommandLines \subseteq Lines /\ MaxKills \in Nat

VARIABLES
    file,     \* the ledger file
    command,  \* command[i]: the command line of i
    step,     \* step[i]: how far i is
    held,     \* held[i]: the ledger in the memory of i
    code,     \* code[i]: the exit code
    overlap,  \* history: overlap[i]: others whose time from read to write met i's
    touched,  \* touched[i]: whether another wrote since i truncated the file
    kills     \* processes killed so far

cliVars == <<file, command, step, held, code, overlap, touched, kills>>

Absent == [state |-> "absent", entries |-> <<>>]
Broken == [state |-> "broken", entries |-> <<>>]
Json(entries) == [state |-> "json", entries |-> entries]

CliInit ==
    /\ file = Absent
    /\ command \in [Invocations -> CommandLines]
    /\ step = [i \in Invocations |-> "idle"]
    /\ held = [i \in Invocations |-> EmptyLedger]
    /\ code = [i \in Invocations |-> "none"]
    /\ overlap = [i \in Invocations |-> {}]
    /\ touched = [i \in Invocations |-> FALSE]
    /\ kills = 0
-----------------------------------------------------------------------------
(* runCli(): which branch a command line takes. *)

Branch(line) ==
    CASE ~line.valid -> "usage"
      [] line.valid /\ "help" \in line.flags -> "help"
      [] line.valid /\ "help" \notin line.flags /\ "inspect" \in line.flags ->
            IF line.ledgerFile THEN "inspect" ELSE "usage"
      [] line.valid /\ {"help", "inspect"} \cap line.flags = {} /\ line.flags # {} -> "report"
      [] line.valid /\ line.flags = {} ->
            CASE line.task = "none" -> "usage"
              [] line.task = "blank" -> "throw"
              [] line.task = "some" ->
                    IF ~line.dryRun /\ line.tool = "unknown" THEN "usage" ELSE "run"

Exits(i, c) ==
    /\ step' = [step EXCEPT ![i] = "done"]
    /\ code' = [code EXCEPT ![i] = c]

\* The branches that neither read nor write the file: "2" for usage errors,
\* "0" for help, the list of tools and an evaluation that passes, "1" for one
\* that does not; a blank task throws in planTask().
ExitEarly(i) ==
    LET branch == Branch(command[i]) IN
    /\ step[i] = "idle"
    /\ \/ branch = "usage" /\ Exits(i, "2")
       \/ branch = "throw" /\ Exits(i, "thrown")
       \/ branch = "help" /\ Exits(i, "0")
       \/ branch = "report" /\ "evaluate" \in command[i].flags /\ \E c \in {"0", "1"} : Exits(i, c)
       \/ branch = "report" /\ "evaluate" \notin command[i].flags /\ Exits(i, "0")
       \/ branch = "run" /\ ~command[i].ledgerFile /\ Exits(i, "0")
    /\ UNCHANGED <<file, command, held, overlap, touched, kills>>

\* --inspect: a file that is missing or does not parse is reported, code 2; so
\* is, with code 1, a run id without entries.
Inspect(i) ==
    /\ step[i] = "idle" /\ Branch(command[i]) = "inspect"
    /\ IF file.state = "json" THEN \E c \in {"0", "1"} : Exits(i, c) ELSE Exits(i, "2")
    /\ UNCHANGED <<file, command, held, overlap, touched, kills>>
-----------------------------------------------------------------------------
(* A run with --ledger-file. *)

InSpan == {i \in Invocations : step[i] \in {"read", "writing"}}

Reading(i) ==
    /\ step[i] = "idle" /\ Branch(command[i]) = "run" /\ command[i].ledgerFile

\* Mutant of Reads: the file is not read.
ReadsNothing(i) == EmptyLedger

\* existsSync() and import().
Reads(i) == IF file.state = "absent" THEN EmptyLedger ELSE Imported(file.entries)

RunBody(i, type, status) == [type |-> type, by |-> i, status |-> status]

\* The file is read and the task run: start and completion are in the ledger of
\* the process.
ReadAndRun(i, status) ==
    /\ Reading(i) /\ file.state # "broken"
    /\ held' = [held EXCEPT ![i] =
                   Appended(Appended(Reads(i), RunBody(i, "start", "running")),
                            RunBody(i, "completion", status))]
    /\ step' = [step EXCEPT ![i] = "read"]
    /\ overlap' = [j \in Invocations |->
                      IF j = i THEN InSpan ELSE IF j \in InSpan THEN overlap[j] \cup {i} ELSE overlap[j]]
    /\ UNCHANGED <<file, command, code, touched, kills>>

\* JSON.parse() throws, outside any try.
ReadBroken(i) ==
    /\ Reading(i) /\ file.state = "broken"
    /\ Exits(i, "thrown")
    /\ UNCHANGED <<file, command, held, overlap, touched, kills>>

\* writeFileSync() opens the file, which empties it ...
Truncate(i) ==
    /\ step[i] = "read"
    /\ step' = [step EXCEPT ![i] = "writing"]
    /\ file' = Broken
    /\ touched' = [touched EXCEPT ![i] = FALSE]
    /\ UNCHANGED <<command, held, code, overlap, kills>>

\* ... and writes it from the start; over what another has written meanwhile
\* the end of a longer text may remain.  The exit code is 0 whatever the status
\* of the run: a failed run is a verified one.
WriteBack(i) ==
    /\ step[i] = "writing"
    /\ \/ file' = Json(held[i].entries)
       \/ touched[i] /\ file' = Broken
    /\ touched' = [j \in Invocations |-> IF step[j] = "writing" /\ j # i THEN TRUE ELSE touched[j]]
    /\ Exits(i, "0")
    /\ UNCHANGED <<command, held, overlap, kills>>

\* The process dies with the file as it is.
Kill(i) ==
    /\ kills < MaxKills /\ i \in InSpan
    /\ kills' = kills + 1
    /\ Exits(i, "killed")
    /\ UNCHANGED <<file, command, held, overlap, touched>>

CliNext ==
    \E i \in Invocations :
        \/ ExitEarly(i) \/ Inspect(i)
        \/ \E status \in {"success", "failed", "skipped"} : ReadAndRun(i, status)
        \/ ReadBroken(i) \/ Truncate(i) \/ WriteBack(i) \/ Kill(i)

CliSpec == CliInit /\ [][CliNext]_cliVars
-----------------------------------------------------------------------------
(* Properties. *)

LedgersOfRuns ==
    Seq([id : Nat \ {0},
         body : [type : {"start", "completion"}, by : Invocations,
                 status : {"running", "success", "failed", "skipped"}]])

\* Every variable holds values the code can give it.
CliTypeOK ==
    /\ file \in [state : {"absent", "broken", "json"}, entries : LedgersOfRuns]
    /\ command \in [Invocations -> CommandLines]
    /\ step \in [Invocations -> {"idle", "read", "writing", "done"}]
    /\ held \in [Invocations -> [entries : LedgersOfRuns, sequence : Nat]]
    /\ code \in [Invocations -> {"none", "0", "1", "2", "thrown", "killed"}]
    /\ overlap \in [Invocations -> SUBSET Invocations]
    /\ touched \in [Invocations -> BOOLEAN]
    /\ kills \in 0..MaxKills

\* A file that parses is the whole ledger of one invocation, whoever overwrote
\* whom: it can be imported by the next (ids unique and in order) and a run's
\* completion follows its own start.
FileIsALedger ==
    /\ Ordered(file.entries)
    /\ \A n \in 2..Len(file.entries) :
          file.entries[n].body.type = "completion" =>
             /\ file.entries[n - 1].body.type = "start"
             /\ file.entries[n - 1].body.by = file.entries[n].body.by

Recorded(i) ==
    \E n \in 1..Len(file.entries) :
        file.entries[n].body = [type |-> "completion", by |-> i, status |-> file.entries[n].body.status]

Ran(i) == command[i].flags = {} /\ command[i].task = "some" /\ command[i].ledgerFile /\ code[i] = "0"

\* "The ledger file is append-preserving" (README.md:135): while the file is
\* whole, it has the completion of every invocation that ended well, unless the
\* cap has dropped it.
AppendPreserving ==
    \A i \in Invocations :
        /\ Ran(i) /\ file.state = "json"
        => Recorded(i) \/ Newest(file.entries) - Newest(held[i].entries) >= MaxEntries

\* The same, as far as it is so: the records of an invocation are missing only
\* if another one was between its read and its write at the same time.
LostOnlyByOverlap ==
    \A i \in Invocations :
        Ran(i) /\ file.state = "json" /\ overlap[i] = {}
        => Recorded(i) \/ Newest(file.entries) - Newest(held[i].entries) >= MaxEntries

\* A file does not parse only while one is being written, or for good once a
\* process died writing it or two wrote at the same time.
BrokenExplained ==
    file.state = "broken" =>
        \E i \in Invocations :
           \/ step[i] = "writing"
           \/ code[i] = "killed"
           \/ overlap[i] # {} /\ code[i] = "0"

\* What the file of a ledger is after any number of invocations that overlap and
\* are killed: a ledger, or broken for a reason, with all but what an overlap
\* has overwritten (cli-runner.js lines 204-225 and 312-319).
LedgerFileKept == FileIsALedger /\ LostOnlyByOverlap /\ BrokenExplained
=============================================================================
