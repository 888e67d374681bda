------------------------------- MODULE EventBus -------------------------------
(***************************************************************************)
(* src/src/event-bus.js for one event name (names do not interact).        *)
(* emit() copies the set of handlers and calls the first one at once; it   *)
(* awaits each before it calls the next, and between two calls other emits *)
(* run and handlers come and go.  A once() handler is a wrapper that       *)
(* unsubscribes itself before it calls through.                            *)
(***************************************************************************)
EXTENDS Integers, Sequences

CONSTANTS
    Listeners,     \* handlers of on()
    OnceListeners, \* handlers of once(), each subscribed once
    Emitters,      \* callers of emit()
    MaxEmits       \* bound on the emits

ASSUME BusAssumption == Listeners \cap OnceListeners = {} /\ MaxEmits \in Nat

Handlers == Listeners \cup OnceListeners

VARIABLES
    handlers,  \* the set of handlers, in order of insertion
    emitting,  \* emitting[e]: the handlers e has still to await, the called one first
    history,   \* how many events the history has
    emits,     \* emits so far
    offered,   \* the once() handlers subscribed so far
    calls,     \* history: how often each once() handler was called
    behind     \* history: once() handlers that a copy held behind another handler

busVars == <<handlers, emitting, history, emits, offered, calls, behind>>

BusInit ==
    /\ handlers = <<>> /\ emitting = [e \in Emitters |-> <<>>]
    /\ history = 0 /\ emits = 0 /\ offered = {}
    /\ calls = [h \in OnceListeners |-> 0] /\ behind = {}

Subscribed == {handlers[i] : i \in 1..Len(handlers)}

\* delete() of a set, in which h is once at most.
Minus(s, h) ==
    IF \E i \in 1..Len(s) : s[i] = h
    THEN LET i == CHOOSE i \in 1..Len(s) : s[i] = h IN
         SubSeq(s, 1, i - 1) \o SubSeq(s, i + 1, Len(s))
    ELSE s

On(h) ==
    /\ h \in Listeners /\ h \notin Subscribed
    /\ handlers' = Append(handlers, h)
    /\ UNCHANGED <<emitting, history, emits, offered, calls, behind>>

Once(h) ==
    /\ h \in OnceListeners \ offered
    /\ offered' = offered \cup {h}
    /\ handlers' = Append(handlers, h)
    /\ UNCHANGED <<emitting, history, emits, calls, behind>>

\* off(), or the function on() and once() returned.
Off(h) ==
    /\ h \in Subscribed
    /\ handlers' = Minus(handlers, h)
    /\ UNCHANGED <<emitting, history, emits, offered, calls, behind>>

\* Mutant of Call: a once() handler unsubscribes after it has been awaited.
CallKeeps(h) ==
    /\ handlers' = handlers
    /\ calls' = IF h \in OnceListeners THEN [calls EXCEPT ![h] = @ + 1] ELSE calls

\* The handler is called, up to its first await.
Call(h) ==
    /\ handlers' = IF h \in OnceListeners THEN Minus(handlers, h) ELSE handlers
    /\ calls' = IF h \in OnceListeners THEN [calls EXCEPT ![h] = @ + 1] ELSE calls

NoCall == UNCHANGED <<handlers, calls>>

\* emit(): the event enters the history, the handlers are copied and the first
\* one is called.
Emit(e) ==
    /\ emitting[e] = <<>> /\ emits < MaxEmits
    /\ emits' = emits + 1 /\ history' = history + 1
    /\ emitting' = [emitting EXCEPT ![e] = handlers]
    /\ behind' = behind \cup {handlers[i] : i \in 2..Len(handlers)}
    /\ IF handlers = <<>> THEN NoCall ELSE Call(Head(handlers))
    /\ UNCHANGED offered

\* The awaited handler has returned: the next one of the copy is called, also
\* when it has been removed meanwhile.
Resume(e) ==
    /\ emitting[e] # <<>>
    /\ LET rest == Tail(emitting[e]) IN
          /\ emitting' = [emitting EXCEPT ![e] = rest]
          /\ IF rest = <<>> THEN NoCall ELSE Call(rest[1])
    /\ UNCHANGED <<history, emits, offered, behind>>

\* The awaited handler has thrown: emit() rejects, the rest is not called.
HandlerThrows(e) ==
    /\ emitting[e] # <<>>
    /\ emitting' = [emitting EXCEPT ![e] = <<>>]
    /\ UNCHANGED <<handlers, history, emits, offered, calls, behind>>

ClearHistory ==
    /\ history > 0 /\ history' = 0
    /\ UNCHANGED <<handlers, emitting, emits, offered, calls, behind>>

BusNext ==
    \/ \E h \in Handlers : On(h) \/ Once(h) \/ Off(h)
    \/ \E e \in Emitters : Emit(e) \/ Resume(e) \/ HandlerThrows(e)
    \/ ClearHistory

BusSpec == BusInit /\ [][BusNext]_busVars
-----------------------------------------------------------------------------
(* Properties. *)

\* Every variable holds values the code can give it; a handler is subscribed
\* once.
BusTypeOK ==
    /\ handlers \in Seq(Handlers) /\ emitting \in [Emitters -> Seq(Handlers)]
    /\ \A i, j \in 1..Len(handlers) : handlers[i] = handlers[j] => i = j
    /\ history \in 0..MaxEmits /\ emits \in 0..MaxEmits
    /\ offered \subseteq OnceListeners /\ behind \subseteq Handlers
    /\ calls \in [OnceListeners -> Nat]

\* A once() handler is called more than once only by emits that were under way
\* together, and never when it is the first in line: one that was never behind
\* another handler is called once, and an emit that begins after its call does
\* not have it (lines 17-23, 43-47).
OnceMeansOnce ==
    /\ \A h \in OnceListeners :
          /\ calls[h] > 1 => h \in behind
          /\ calls[h] > 0 => h \notin Subscribed
=============================================================================
