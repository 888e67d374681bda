-------------------------- MODULE FinanceIdempotency --------------------------
(***************************************************************************)
(* src/src/finance-idempotency.js: runFinanceWorkflow() behind the         *)
(* execute() of src/src/idempotency-store.js, in one process that may      *)
(* crash.  IdempotencyStore models execute() await by await; here, with    *)
(* one process and no expiry, what happens between the registration of a   *)
(* call and its answer is cut where another call can tell the difference.  *)
(* The ledger lives in the process and is lost with it, the records of     *)
(* execute() are in the store.                                             *)
(***************************************************************************)
EXTENDS FinanceWorkflow

CONSTANTS
    Submissions, \* calls of runFinanceWorkflowIdempotent()
    PaymentKeys, \* idempotency keys with their tenant's scope
    CallAsks,    \* what a call may ask: a RunAsk with a key
    Nobody,      \* no call
    MaxLosses    \* bound on the crashes

ASSUME SubmissionAssumption ==
    /\ Nobody \notin Submissions /\ MaxLosses \in Nat
    /\ CallAsks \subseteq [key : PaymentKeys, op : Operations \cup {NoOperation},
                           payment : Payments, approval : Approvals]

VARIABLES
    asked,    \* what each call asks
    at,       \* how far each call is
    flying,   \* flying[k]: the call in flight under the key
    kept,     \* kept[k]: the record under the key
    joined,   \* the call whose promise a call awaits
    answer,   \* what each call is answered with
    performed, \* history: the calls whose run prepared the payment
    losses    \* crashes so far

callState == <<asked, at, joined, answer, performed>>
submissionVars == <<books, preparedAt, runs, asked, at, flying, kept, joined, answer, performed, losses>>

NoneKept == [state |-> "absent", by |-> Nobody, status |-> "none"]
NoReply == [status |-> "none", replayed |-> FALSE, stored |-> FALSE]
Reply(status, replayed, stored) == [status |-> status, replayed |-> replayed, stored |-> stored]

SubmissionInit ==
    /\ asked \in [Submissions -> CallAsks]
    /\ at = [c \in Submissions |-> "idle"]
    /\ flying = [k \in PaymentKeys |-> Nobody]
    /\ kept = [k \in PaymentKeys |-> NoneKept]
    /\ joined = [c \in Submissions |-> Nobody]
    /\ answer = [c \in Submissions |-> NoReply]
    /\ performed = {} /\ losses = 0

\* The fingerprint is of the payment; neither approval nor operation is in it.
SamePayload(c, d) == asked[c].payment = asked[d].payment

Answered(c, reply) ==
    /\ at' = [at EXCEPT ![c] = "done"]
    /\ answer' = [answer EXCEPT ![c] = reply]

\* The answer is a replay: the caller's ledger gets an audit event.
Replays(c, status) ==
    /\ Answered(c, Reply(status, TRUE, TRUE))
    /\ books' = AppendedAll(books, <<Audit("execution_replayed", asked[c].payment)>>)
-----------------------------------------------------------------------------
(* Before the first await: lead, join or conflict. *)

SubmitLeads(c) ==
    /\ at[c] = "idle" /\ flying[asked[c].key] = Nobody
    /\ flying' = [flying EXCEPT ![asked[c].key] = c]
    /\ at' = [at EXCEPT ![c] = "deciding"]
    /\ UNCHANGED <<books, preparedAt, runs, asked, kept, joined, answer, performed, losses>>

SubmitJoins(c) ==
    LET d == flying[asked[c].key] IN
    /\ at[c] = "idle" /\ d # Nobody
    /\ IF SamePayload(c, d)
       THEN /\ joined' = [joined EXCEPT ![c] = d]
            /\ at' = [at EXCEPT ![c] = "waiting"] /\ UNCHANGED answer
       ELSE Answered(c, Reply("conflict", FALSE, FALSE)) /\ UNCHANGED joined
    /\ UNCHANGED <<books, preparedAt, runs, asked, flying, kept, performed, losses>>
-----------------------------------------------------------------------------
(* The leading call: load, decide, mark; run; record or forget. *)

Landed(c) == flying' = [flying EXCEPT ![asked[c].key] = Nobody]

AnswerFromRecord(c) ==
    LET r == kept[asked[c].key] IN
    /\ at[c] = "deciding" /\ r.state # "absent"
    /\ Landed(c)
    /\ CASE ~SamePayload(c, r.by) ->
              Answered(c, Reply("conflict", FALSE, FALSE)) /\ UNCHANGED books
         [] SamePayload(c, r.by) /\ r.state = "completed" -> Replays(c, r.status)
         [] OTHER -> Answered(c, Reply("in_progress", FALSE, FALSE)) /\ UNCHANGED books
    /\ UNCHANGED <<preparedAt, runs, asked, kept, joined, performed, losses>>

\* Nothing is recorded, or the marker of a call of this payment that a crash
\* has cut off, which is taken over once it is stale.
MarkSubmission(c) ==
    LET r == kept[asked[c].key] IN
    /\ at[c] = "deciding"
    /\ \/ r.state = "absent"
       \/ r.state = "in_progress" /\ SamePayload(c, r.by)
    /\ kept' = [kept EXCEPT ![asked[c].key] = [state |-> "in_progress", by |-> c, status |-> "none"]]
    /\ at' = [at EXCEPT ![c] = "running"]
    /\ UNCHANGED <<books, preparedAt, runs, asked, flying, joined, answer, performed, losses>>

\* Mutant of Terminal: an answer that awaits a decision is kept as well.
TerminalPending == {"prepared", "blocked", "rejected", "already_prepared", "pending"}

\* TERMINAL_STATUSES: the answers that are kept.
Terminal == {"prepared", "blocked", "rejected", "already_prepared"}

\* What execute() makes of the verdict.  "unserializable" is its exception when no
\* snapshot can be taken of what the preparation tool returned ("copies" is FALSE):
\* the payment is prepared, and the key is free again.
ToldOf(verdict, copies) ==
    IF verdict \in {"prepared", "already_prepared"} /\ ~copies THEN "unserializable" ELSE verdict

\* The operation runs; "recording" and "forgetting" are the store's save and
\* delete that come next.
RunSubmission(c, works, copies) ==
    LET verdict == Verdict(books, asked[c], works)
        told == ToldOf(verdict, copies)
    IN
    /\ at[c] = "running"
    /\ Records(Trail(asked[c], verdict), "workflow", asked[c].op, verdict)
    /\ performed' = IF verdict = "prepared" THEN performed \cup {c} ELSE performed
    /\ at' = [at EXCEPT ![c] = IF told \in Terminal THEN "recording" ELSE "forgetting"]
    /\ answer' = [answer EXCEPT ![c] = Reply(told, FALSE, told \in Terminal)]
    /\ UNCHANGED <<runs, asked, flying, kept, joined, losses>>

SettleSubmission(c) ==
    /\ at[c] \in {"recording", "forgetting"}
    /\ kept' = [kept EXCEPT ![asked[c].key] =
                   IF at[c] = "recording"
                   THEN [state |-> "completed", by |-> c, status |-> answer[c].status]
                   ELSE NoneKept]
    /\ at' = [at EXCEPT ![c] = "done"]
    /\ Landed(c)
    /\ UNCHANGED <<books, preparedAt, runs, asked, joined, answer, performed, losses>>

\* A joined call resumes with the leader's answer: an exception is rethrown,
\* everything else is a replay, and said to be stored.
ResumeJoined(c) ==
    /\ at[c] = "waiting" /\ at[joined[c]] = "done"
    /\ LET reply == answer[joined[c]] IN
          IF reply.status \in {"error", "conflict", "in_progress", "unserializable"}
          THEN Answered(c, reply) /\ UNCHANGED books
          ELSE Replays(c, reply.status)
    /\ UNCHANGED <<preparedAt, runs, asked, flying, kept, joined, performed, losses>>

\* Every call under way is lost, and so is the ledger; the records stay.
LoseProcess ==
    /\ losses < MaxLosses
    /\ losses' = losses + 1
    /\ at' = [c \in Submissions |-> IF at[c] \in {"idle", "done"} THEN at[c] ELSE "lost"]
    /\ flying' = [k \in PaymentKeys |-> Nobody]
    /\ books' = EmptyLedger /\ preparedAt' = <<>>
    /\ UNCHANGED <<runs, asked, kept, joined, answer, performed>>

SubmissionNext ==
    \/ \E c \in Submissions :
          \/ SubmitLeads(c) \/ SubmitJoins(c)
          \/ AnswerFromRecord(c) \/ MarkSubmission(c)
          \/ \E works, copies \in BOOLEAN : RunSubmission(c, works, copies)
          \/ SettleSubmission(c) \/ ResumeJoined(c)
    \/ LoseProcess

SubmissionSpec ==
    FinanceInit /\ SubmissionInit /\ [][SubmissionNext]_submissionVars
-----------------------------------------------------------------------------
(* Properties. *)

\* "A payment-preparation request that carries an idempotency key prepares at
\* most once" (lines 5-6): of two runs under one key that both prepared, the
\* process of one crashed before its answer was given, or its result could not be
\* serialized.
PreparedOncePerKey ==
    \A c, d \in performed :
        c # d /\ asked[c].key = asked[d].key =>
           "lost" \in {at[c], at[d]} \/ "unserializable" \in {answer[c].status, answer[d].status}

\* "a retry with the same key and payment returns the original outcome"
\* (lines 6-7): whatever crashes, the calls of one payment that are told it is
\* prepared under a key stand on one call whose run prepared it.
OneOutcomePerKey ==
    \A k \in PaymentKeys :
        /\ kept[k].state = "completed" /\ kept[k].status = "prepared" => kept[k].by \in performed
        /\ \A c \in Submissions :
              asked[c].key = k /\ at[c] = "done" /\ answer[c].status = "prepared" =>
                 \E d \in performed : asked[d].key = k /\ SamePayload(c, d)

\* "a request that is pending approval can be retried with the same key once
\* the approval is available" (lines 9-11): a call that brings the approval is
\* left pending only when it joined a call in flight that did not.
PendingRetried ==
    \A c \in Submissions :
        asked[c].approval # "none" /\ answer[c].status = "pending" =>
           joined[c] # Nobody /\ asked[joined[c]].approval = "none"

\* What a key promises: one execution, one outcome, and a pending request that can
\* be retried with its approval (lines 5-11), through any interleaving of calls
\* and losses of the process.
KeysKeepTheirOutcome == PreparedOncePerKey /\ OneOutcomePerKey /\ PendingRetried

\* The last of these as the comment states it, for a call that joins, too.
ApprovalNeverPending ==
    \A c \in Submissions :
        asked[c].approval # "none" => answer[c].status # "pending"
=============================================================================
