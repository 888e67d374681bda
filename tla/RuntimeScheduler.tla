--------------------------- MODULE RuntimeScheduler ---------------------------
(***************************************************************************)
(* src/src/runtime-scheduler.js with drivers that poll due() and start     *)
(* what it returned, one job after the other, later.  The scheduler has no *)
(* driver of its own, so cancel(), removeFinished() and markComplete() may *)
(* come from anyone at any time.  Job ids are compared as text in the      *)
(* code; with fewer than ten jobs that is their order.                     *)
(***************************************************************************)
EXTENDS Integers, Sequences, FiniteSets

CONSTANTS
    Drivers,
    MaxJobs,       \* bound on the jobs scheduled
    SchedulerTime  \* bound on the clock

ASSUME SchedulerAssumption == MaxJobs \in 0..9 /\ SchedulerTime \in Nat

VARIABLES
    clock,
    jobs,      \* the jobs in order of their ids: [status, runAt]
    polled,    \* polled[d]: ids that d got from due() and has not started yet
    startedAt  \* history: startedAt[n]: when job n was started, each time

schedulerVars == <<clock, jobs, polled, startedAt>>

JobStatus == {"scheduled", "running", "succeeded", "failed", "cancelled", "removed"}
Ids == 1..Len(jobs)
Final == {"succeeded", "failed", "cancelled"}

SchedulerInit ==
    /\ clock = 0 /\ jobs = <<>> /\ startedAt = <<>>
    /\ polled = [d \in Drivers |-> <<>>]

Schedule(runAt) ==
    /\ Len(jobs) < MaxJobs
    /\ jobs' = Append(jobs, [status |-> "scheduled", runAt |-> runAt])
    /\ startedAt' = Append(startedAt, <<>>)
    /\ UNCHANGED <<clock, polled>>

Becomes(n, status) == jobs' = [jobs EXCEPT ![n].status = status]

\* A job that has ended is "cancelled" afterwards, too.
Cancel(n) ==
    /\ jobs[n].status \notin {"running", "removed"}
    /\ Becomes(n, "cancelled")
    /\ UNCHANGED <<clock, polled, startedAt>>

IsDue(n) == jobs[n].status = "scheduled" /\ jobs[n].runAt <= clock

Sooner(m, n) ==
    \/ jobs[m].runAt < jobs[n].runAt
    \/ jobs[m].runAt = jobs[n].runAt /\ m < n

\* due(): the jobs whose time has come, by time and then id.
Due ==
    LET ids == {n \in Ids : IsDue(n)} IN
    CHOOSE s \in [1..Cardinality(ids) -> ids] :
        \A i, j \in DOMAIN s : i < j => Sooner(s[i], s[j])

Poll(d) ==
    /\ polled[d] = <<>> /\ Due # <<>>
    /\ polled' = [polled EXCEPT ![d] = Due]
    /\ UNCHANGED <<clock, jobs, startedAt>>

\* Mutant of MarkRunning: the status is not asked for.
MarkRunningAny(d) ==
    /\ polled[d] # <<>>
    /\ polled' = [polled EXCEPT ![d] = Tail(@)]
    /\ Becomes(Head(polled[d]), "running")
    /\ startedAt' = [startedAt EXCEPT ![Head(polled[d])] = Append(@, clock)]
    /\ UNCHANGED clock

\* markRunning() of the next job polled, or its exception: the job is not
\* scheduled any more, or not there.
MarkRunning(d) ==
    LET n == Head(polled[d]) IN
    /\ polled[d] # <<>>
    /\ polled' = [polled EXCEPT ![d] = Tail(@)]
    /\ IF jobs[n].status = "scheduled"
       THEN Becomes(n, "running") /\ startedAt' = [startedAt EXCEPT ![n] = Append(@, clock)]
       ELSE UNCHANGED <<jobs, startedAt>>
    /\ UNCHANGED clock

\* markComplete(): any job that is there, whatever its status.
MarkComplete(n, status) ==
    /\ jobs[n].status # "removed"
    /\ Becomes(n, status)
    /\ UNCHANGED <<clock, polled, startedAt>>

RemoveFinished ==
    /\ \E n \in Ids : jobs[n].status \in Final
    /\ jobs' = [n \in Ids |-> IF jobs[n].status \in Final
                              THEN [jobs[n] EXCEPT !.status = "removed"] ELSE jobs[n]]
    /\ UNCHANGED <<clock, polled, startedAt>>

SchedulerTick ==
    /\ clock < SchedulerTime /\ clock' = clock + 1
    /\ UNCHANGED <<jobs, polled, startedAt>>

SchedulerNext ==
    \/ \E t \in 0..SchedulerTime : Schedule(t)
    \/ \E n \in Ids :
          \/ Cancel(n)
          \/ \E status \in {"succeeded", "failed"} : MarkComplete(n, status)
    \/ \E d \in Drivers : Poll(d) \/ MarkRunning(d)
    \/ RemoveFinished \/ SchedulerTick

SchedulerSpec == SchedulerInit /\ [][SchedulerNext]_schedulerVars
-----------------------------------------------------------------------------
(* Properties. *)

\* Every variable holds values the code can give it; drivers hold ids of jobs
\* that exist or existed.
SchedulerTypeOK ==
    /\ clock \in 0..SchedulerTime
    /\ jobs \in Seq([status : JobStatus, runAt : 0..SchedulerTime])
    /\ Len(jobs) <= MaxJobs
    /\ polled \in [Drivers -> Seq(Ids)]
    /\ startedAt \in [Ids -> Seq(0..SchedulerTime)]

\* Drivers that act on lists gone stale start a job once at most, and never
\* before its time (lines 37-49).
StartedOnceWhenDue ==
    \A n \in Ids :
        /\ Len(startedAt[n]) <= 1
        /\ startedAt[n] # <<>> => startedAt[n][1] >= jobs[n].runAt
=============================================================================
