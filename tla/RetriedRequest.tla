---------------------------- MODULE RetriedRequest ----------------------------
(***************************************************************************)
(* Calls of other services and how they are limited and tried again:       *)
(* executeWithRetry() of src/src/retry-policy.js under the clients that    *)
(* use it, call() of src/src/finance-external-provider.js, which has its   *)
(* own loop, and withTimeout() of src/src/execution-timeout.js when its    *)
(* caller retries.  An attempt is a fetch, then the reading of its body;   *)
(* a service may go on with what the caller has given up.                  *)
(***************************************************************************)
EXTENDS Integers, Sequences

CONSTANTS
    Clients,     \* the clients to exercise, of those below
    MaxTries     \* maxAttempts

\* "connector": createHttpConnector().request(); "http provider":
\* createHttpFinanceProvider(); "wrapped provider": createFinanceProvider()
\* around an operation that takes no notice of its signal, as the QuickBooks
\* provider; "json provider": createJsonFinanceProvider(), one attempt; "http
\* tool": createHttpTool().execute(); "race": withTimeout() with retries.
AllClients ==
    {"connector", "http provider", "wrapped provider", "json provider", "http tool", "race"}

ASSUME RequestAssumption == MaxTries \in Nat \ {0} /\ Clients \subseteq AllClients

VARIABLES
    client,    \* which client the call is made with
    tries,     \* the attempts: [phase, told, cause, timer]
    reply      \* what the caller was told: "none" yet, "value" or "error"

requestVars == <<client, tries, reply>>

RequestInit == client \in Clients /\ tries = <<>> /\ reply = "none"

\* How an attempt may fail. "late" is a timeout.
Causes == {"network transient", "network other", "status 5xx", "status 408", "status 4xx", "late"}
-----------------------------------------------------------------------------
(* What the clients make of a failure. *)

\* isRetryableError(), of the error a client throws: the connector and the http
\* tool mark theirs, a network error has its code, a timeout is marked.
PolicyRetries(c, cause) ==
    \/ cause \in {"network transient", "status 5xx", "late"}
    \/ cause = "status 408" /\ c = "http tool"

\* call(): the http provider codes a 5xx as RATE_LIMITED, and an abort has its
\* name; QuickBooks marks a 408.
ProviderRetries(c, cause) ==
    \/ cause \in {"network transient", "status 5xx", "late"}
    \/ cause = "status 408" /\ c = "wrapped provider"

TriesOf(c) == IF c = "json provider" THEN 1 ELSE MaxTries

Retryable(cause) ==
    IF client \in {"http provider", "wrapped provider"}
    THEN ProviderRetries(client, cause) ELSE PolicyRetries(client, cause)

\* A status that is no retry is a value to the http tool.
IsFailure(cause) == ~(client = "http tool" /\ cause = "status 4xx")

\* An attempt has a timer, and the timer has a say, in this phase.
\* createJsonFinanceProvider() does not await the body it returns, so its
\* finally clears the timer when the response is there.
HasTimer == client # "http tool"

\* Mutant of TimerCovers: every client clears its timer at the response.
TimerCoversFetch(phase) == phase = "fetching"

TimerCovers(phase) == ~(client = "json provider" /\ phase = "reading")

\* The signal reaches the fetch; in withTimeout() the race is lost instead.
Interrupts == client \in {"connector", "http provider", "json provider"}
-----------------------------------------------------------------------------
LastTry == tries[Len(tries)]
Pending == {n \in 1..Len(tries) : tries[n].told = "none"}

\* Mutant of AttemptAgain: every failure is tried again.
AttemptAgainAlways ==
    /\ reply = "none"
    /\ tries # <<>> => LastTry.told = "failed" /\ Len(tries) < TriesOf(client)
    /\ tries' = Append(tries, [phase |-> "fetching", told |-> "none", cause |-> "none",
                               timer |-> IF HasTimer THEN "armed" ELSE "off"])
    /\ UNCHANGED <<client, reply>>

\* The first attempt, or the next one after its backoff.
AttemptAgain ==
    /\ reply = "none"
    /\ tries # <<>> =>
          LastTry.told = "failed" /\ Len(tries) < TriesOf(client) /\ Retryable(LastTry.cause)
    /\ tries' = Append(tries, [phase |-> "fetching", told |-> "none", cause |-> "none",
                               timer |-> IF HasTimer THEN "armed" ELSE "off"])
    /\ UNCHANGED <<client, reply>>

\* The n-th attempt is over for the client, if it was not already: its timer is
\* cleared in a finally.
Told(n, how, cause) ==
    IF tries[n].told # "none" THEN tries[n]
    ELSE [tries[n] EXCEPT !.told = how, !.cause = cause,
                          !.timer = IF @ = "armed" THEN "off" ELSE @]

Responds(n) ==
    /\ tries[n].phase = "fetching"
    /\ tries' = [tries EXCEPT ![n].phase = "reading",
                              ![n].timer = IF TimerCovers("reading") THEN @ ELSE "off"]
    /\ UNCHANGED <<client, reply>>

\* The work of an attempt ends, after its caller was told of a timeout or before.
Succeeds(n) ==
    /\ tries[n].phase = "reading"
    /\ tries' = [tries EXCEPT ![n] = [Told(n, "value", "none") EXCEPT !.phase = "over"]]
    /\ UNCHANGED <<client, reply>>

\* The http tool reads the body after its attempts: what fails there is final.
Fails(n, cause) ==
    /\ tries[n].phase \in {"fetching", "reading"}
    /\ client = "http tool" /\ tries[n].phase = "reading" => cause = "network other"
    /\ tries' = [tries EXCEPT ![n] =
          [(IF IsFailure(cause) THEN Told(n, "failed", cause) ELSE Told(n, "value", "none"))
              EXCEPT !.phase = "over"]]
    /\ UNCHANGED <<client, reply>>

\* The timer: the race is lost and the operation goes on, or the signal ends the
\* request, or nothing takes notice of it.
AttemptTimerFires(n) ==
    /\ tries[n].timer = "armed"
    /\ tries' = [tries EXCEPT ![n] =
          [(IF client = "race" \/ Interrupts THEN Told(n, "failed", "late") ELSE tries[n])
              EXCEPT !.timer = "fired", !.phase = IF Interrupts THEN "over" ELSE @]]
    /\ UNCHANGED <<client, reply>>

\* The caller is answered: with a value, or when no attempt is to follow.
SettleRequest ==
    /\ reply = "none" /\ tries # <<>>
    /\ \/ LastTry.told = "value" /\ reply' = "value"
       \/ /\ LastTry.told = "failed"
          /\ Len(tries) = TriesOf(client) \/ ~Retryable(LastTry.cause)
          /\ reply' = "error"
    /\ UNCHANGED <<client, tries>>

RequestNext ==
    \/ AttemptAgain \/ SettleRequest
    \/ \E n \in 1..Len(tries) :
          \/ Responds(n) \/ Succeeds(n) \/ AttemptTimerFires(n)
          \/ \E cause \in Causes \ {"late"} : Fails(n, cause)

RequestSpec == RequestInit /\ [][RequestNext]_requestVars

\* Timers fire and the client goes on; services owe nobody an answer.
RequestMoves == AttemptAgain \/ SettleRequest \/ \E n \in 1..Len(tries) : AttemptTimerFires(n)

RequestFairness == WF_requestVars(RequestMoves)
-----------------------------------------------------------------------------
(* Properties. *)

\* Every variable holds values the code can give it.
RequestTypeOK ==
    /\ client \in Clients
    /\ tries \in Seq([phase : {"fetching", "reading", "over"}, told : {"none", "value", "failed"},
                      cause : Causes \cup {"none"}, timer : {"off", "armed", "fired"}])
    /\ Len(tries) <= TriesOf(client)
    /\ reply \in {"none", "value", "error"}

\* What an attempt still does after its timeout was reported belongs to nobody:
\* a later attempt is not ended by it nor by its timer, each attempt but the last
\* has failed in a way worth another one, and the caller is told the outcome of
\* the last one, while no attempt is pending (retry-policy.js lines 58-83,
\* execution-timeout.js lines 16-26, finance-external-provider.js lines 11-26).
AttemptsApart ==
    /\ \A n \in 1..Len(tries) :
          /\ n < Len(tries) => tries[n].told = "failed" /\ Retryable(tries[n].cause)
          /\ tries[n].cause = "late" => tries[n].timer = "fired"
          /\ tries[n].timer = "fired" /\ Interrupts => tries[n].cause = "late"
    /\ reply # "none" => Pending = {} /\ (reply = "value" <=> LastTry.told = "value")
    /\ reply = "error" /\ Retryable(LastTry.cause) => Len(tries) = TriesOf(client)

\* The timeout is a promise to the caller: whatever the service does, a call is
\* answered, by the clients whose timer covers the whole attempt.
CallAnswered == reply = "none" /\ client \in {"connector", "http provider", "race"} ~> reply # "none"
=============================================================================
