----------------------------- MODULE RuntimeCache -----------------------------
(***************************************************************************)
(* src/src/runtime-cache.js: a Map in order of insertion, with a lifetime  *)
(* per entry and a capacity.  A key stands for its normalised form; values *)
(* are told apart only in whether they are undefined, which get() cannot   *)
(* tell from a miss.                                                       *)
(***************************************************************************)
EXTENDS Integers, Sequences, FiniteSets

CONSTANTS
    CacheKeys,
    CacheSize,   \* maxEntries
    Lifetimes,   \* ttlMs of a set()
    CacheClock,  \* bound on the clock
    MaxLookups   \* bound on the lookups counted

ASSUME CacheAssumption ==
    /\ CacheSize \in Nat \ {0} /\ Lifetimes \subseteq Nat \ {0}
    /\ CacheClock \in Nat /\ MaxLookups \in Nat

VARIABLES
    time,     \* the clock
    cached,   \* the entries in order of insertion: [key, expiresAt, defined]
    hits, misses,
    gave      \* what the last get() returned

cacheVars == <<time, cached, hits, misses, gave>>

CacheInit == time = 0 /\ cached = <<>> /\ hits = 0 /\ misses = 0 /\ gave = "nothing"

Held == {cached[i].key : i \in 1..Len(cached)}
EntryOf(k) == cached[CHOOSE i \in 1..Len(cached) : cached[i].key = k]
Expired(e) == e.expiresAt <= time

\* What is left of a sequence at some of its places, in order.
NthOf(places, n) == CHOOSE i \in places : Cardinality({j \in places : j < i}) = n - 1
AtPlaces(s, places) == [n \in 1..Cardinality(places) |-> s[NthOf(places, n)]]

Without(s, k) == AtPlaces(s, {i \in 1..Len(s) : s[i].key # k})
LiveOnly(s) == AtPlaces(s, {i \in 1..Len(s) : ~Expired(s[i])})

\* Mutant of RoomFor: the oldest entry goes although an expired one could.
RoomForByAge(k) ==
    IF Len(cached) >= CacheSize /\ k \notin Held THEN Tail(cached) ELSE cached

\* Mutant of RoomFor: one entry more than maxEntries fits.
RoomForOneMore(k) ==
    IF Len(LiveOnly(cached)) > CacheSize /\ k \notin Held THEN Tail(LiveOnly(cached)) ELSE cached

\* A new key at capacity: the expired entries go, and if that is not enough the
\* one inserted first, whatever is left of its lifetime.
RoomFor(k) ==
    IF Len(cached) >= CacheSize /\ k \notin Held
    THEN IF Len(LiveOnly(cached)) >= CacheSize THEN Tail(LiveOnly(cached)) ELSE LiveOnly(cached)
    ELSE cached

\* set(): a key that is there keeps its place in the order.
Set(k, ttl, defined) ==
    LET e == [key |-> k, expiresAt |-> time + ttl, defined |-> defined] IN
    /\ cached' = IF k \in Held
                 THEN [i \in 1..Len(cached) |-> IF cached[i].key = k THEN e ELSE cached[i]]
                 ELSE Append(RoomFor(k), e)
    /\ gave' = "nothing"
    /\ UNCHANGED <<time, hits, misses>>

Live(k) == k \in Held /\ ~Expired(EntryOf(k))

\* get() and has(): a hit, also of an undefined value; or a miss, which removes
\* an expired entry.
Get(k) ==
    /\ hits + misses < MaxLookups
    /\ IF Live(k)
       THEN /\ hits' = hits + 1 /\ UNCHANGED <<cached, misses>>
            /\ gave' = IF EntryOf(k).defined THEN "value" ELSE "undefined"
       ELSE /\ misses' = misses + 1 /\ UNCHANGED hits
            /\ cached' = Without(cached, k)
            /\ gave' = "undefined"
    /\ UNCHANGED time

Delete(k) ==
    /\ k \in Held
    /\ cached' = Without(cached, k) /\ gave' = "nothing"
    /\ UNCHANGED <<time, hits, misses>>

EvictExpired ==
    /\ LiveOnly(cached) # cached
    /\ cached' = LiveOnly(cached) /\ gave' = "nothing"
    /\ UNCHANGED <<time, hits, misses>>

Clear ==
    /\ cached # <<>>
    /\ cached' = <<>> /\ gave' = "nothing"
    /\ UNCHANGED <<time, hits, misses>>

CacheTick ==
    /\ time < CacheClock /\ time' = time + 1 /\ gave' = "nothing"
    /\ UNCHANGED <<cached, hits, misses>>

CacheNext ==
    \/ \E k \in CacheKeys :
          \/ \E ttl \in Lifetimes, defined \in BOOLEAN : Set(k, ttl, defined)
          \/ Get(k) \/ Delete(k)
    \/ EvictExpired \/ Clear \/ CacheTick

CacheSpec == CacheInit /\ [][CacheNext]_cacheVars
-----------------------------------------------------------------------------
(* Properties. *)

\* Every variable holds values the code can give it; a key has one entry, and
\* there are never more than maxEntries.
CacheTypeOK ==
    /\ time \in 0..CacheClock
    /\ cached \in Seq([key : CacheKeys, expiresAt : Nat, defined : BOOLEAN])
    /\ Len(cached) <= CacheSize
    /\ \A i, j \in 1..Len(cached) : cached[i].key = cached[j].key => i = j
    /\ hits \in Nat /\ misses \in Nat /\ hits + misses <= MaxLookups
    /\ gave \in {"nothing", "value", "undefined"}

HeldNext == {cached'[i].key : i \in 1..Len(cached')}

\* A value whose lifetime is not over leaves the cache only by delete() or
\* clear(), never by a lookup, or for a new key when every entry is alive: then it is
\* the one that was inserted first, and no other goes with it (lines 22-25, 36-42).
LiveEvictedLast ==
    [][\A k \in CacheKeys : Live(k) /\ k \notin HeldNext =>
          \/ HeldNext \in {Held \ {k}, {}} /\ UNCHANGED <<hits, misses>>
          \/ /\ \A h \in Held : Live(h)
             /\ Len(cached) = CacheSize /\ cached[1].key = k
             /\ Held \ {k} \subseteq HeldNext]_cacheVars
=============================================================================
