------------------------ MODULE AtMostOnceExecution ------------------------
(***************************************************************************)
(* What execute() of src/src/idempotency-store.js promises its callers,    *)
(* with no word of stores, markers, processes or promises: an operation    *)
(* for a key is performed again only once the protection of the earlier    *)
(* performance is over, and a result is handed only to calls of the same   *)
(* key and payload.  A performance whose result has been handed to anyone  *)
(* protects its key for TTL, any other (its process crashed, or its record *)
(* could not be written) for Grace, unless it is withdrawn: a performance  *)
(* of whose result no record can be made protects nothing, and its result  *)
(* is handed to nobody.                                                    *)
(***************************************************************************)
EXTENDS Naturals

CONSTANTS Calls, None, TTL, Grace, MaxClock

VARIABLES
    now,    \* the clock
    req,    \* req[c]: key and payload of call c
    ranAt,  \* ranAt[c]: when c's operation was admitted, None if it never took effect
    withdrawn, \* the performances of whose result no record can be made
    reply   \* reply[c]: nothing yet, a result (of call "by"), or no result

vars == <<now, req, ranAt, withdrawn, reply>>

NoReply == [kind |-> "none", by |-> None]
Declined == [kind |-> "declined", by |-> None]
Result(d) == [kind |-> "result", by |-> d]

Init ==
    /\ now = 0
    /\ ranAt = [c \in Calls |-> None] /\ withdrawn = {}
    /\ reply = [c \in Calls |-> NoReply]

Performed(c) == ranAt[c] # None

HandedOver(d) == \E c \in Calls : reply[c] = Result(d)

Protection(d) == IF HandedOver(d) THEN TTL ELSE Grace

Tick ==
    /\ now < MaxClock
    /\ now' = now + 1
    /\ UNCHANGED <<req, ranAt, withdrawn, reply>>

\* The operation of c, admitted at time t, takes effect.
Perform(c, t) ==
    /\ ~Performed(c) /\ reply[c] = NoReply
    /\ \A d \in Calls \ withdrawn : Performed(d) /\ req[d].key = req[c].key
                           => ranAt[d] + Protection(d) <= t
    /\ ranAt' = [ranAt EXCEPT ![c] = t]
    /\ UNCHANGED <<now, req, withdrawn, reply>>

\* c is handed the result of d, which may be c itself.
Deliver(c, d) ==
    /\ reply[c] = NoReply
    /\ Performed(d) /\ d \notin withdrawn
    /\ req[d].key = req[c].key /\ req[d].fp = req[c].fp
    /\ reply' = [reply EXCEPT ![c] = Result(d)]
    /\ UNCHANGED <<now, req, ranAt, withdrawn>>

\* No record can be made of the result of c, which nobody has been handed.
Withdraw(c) ==
    /\ Performed(c) /\ ~HandedOver(c) /\ reply[c] = NoReply
    /\ withdrawn' = withdrawn \cup {c}
    /\ UNCHANGED <<now, req, ranAt, reply>>

\* c gets an error, or a result that is not to be remembered.
Decline(c) ==
    /\ reply[c] = NoReply
    /\ reply' = [reply EXCEPT ![c] = Declined]
    /\ UNCHANGED <<now, req, ranAt, withdrawn>>

Next ==
    \/ Tick
    \/ \E c \in Calls :
          \/ \E t \in 0..now : Perform(c, t)
          \/ \E d \in Calls : Deliver(c, d)
          \/ Withdraw(c) \/ Decline(c)

Spec == Init /\ [][Next]_vars
=============================================================================
