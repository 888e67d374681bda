-------------------------- MODULE QueueWorkerProofs --------------------------
(***************************************************************************)
(* Proofs about QueueWorker for every number of workers and tasks, every   *)
(* depth of the queue and every limit.  The invariants lean on each other: *)
(* an entry is handled once because it has one place (Accounted), it has   *)
(* one place because ids are not given twice (IdsGrow), and a completion    *)
(* tells the truth about requeueing because an entry that rests anywhere    *)
(* but in the ledger has not been put back yet (SuccessorsTold).           *)
(***************************************************************************)
EXTENDS QueueWorker, FiniteSetTheorems, WellFoundedInduction, TLAPS

IssuedIds == {e.id : e \in issued}

\* f is what e was put back as.
Succeeds(f, e) == f.origin = e.origin /\ f.requeues = e.requeues + 1

PutBack(e) == \E f \in issued : Succeeds(f, e)

\* The set of entries pushed is finite and its ids are those given out so far.
IdsGrow ==
    /\ IsFiniteSet(issued)
    /\ \A e \in issued : e.id <= Cardinality(issued)
    /\ \A e, f \in issued : e.id = f.id => e = f

\* Entries of one origin differ by how often they were put back, the first of
\* them was submitted under the origin's id, and each other one was put back for
\* the one before.
Lineage ==
    /\ \A e, f \in issued : e.origin = f.origin /\ e.requeues = f.requeues => e = f
    /\ \A e \in issued : \E r \in issued : r.id = e.origin /\ r.origin = e.origin /\ r.requeues = 0
    /\ \A e \in issued : e.requeues # 0 => \E d \in issued : Succeeds(e, d)
    /\ Submits <= MaxSubmits

\* A worker holds an entry exactly while it is busy with it.
HandsFull ==
    \A w \in Workers :
        /\ held[w] # NoEntry <=> workerAt[w] \in {"running", "reporting"}
        /\ held[w] # NoEntry => held[w] \in issued /\ left[w] > 0

\* What rests anywhere has been issued.
RestingIssued == Completed \cup handedBack \cup spilled \subseteq IssuedIds

\* An entry that was put back is completed as requeued, or its worker is about
\* to say so.
SuccessorsTold ==
    \A e \in issued : PutBack(e) =>
        \/ e.id \in Completed
        \/ \E w \in Workers : workerAt[w] = "reporting" /\ held[w] = e /\ requeued[w]

\* A worker reports a requeue only of an entry that was put back.
ReportsTrue ==
    \A w \in Workers : workerAt[w] = "reporting" /\ requeued[w] => PutBack(held[w])

\* The ids in I are in Q, C, B, S or one of the hands H, and none in two of them.
Placed(I, Q, C, B, S, H) ==
    /\ \A i \in I : i \in Q \/ i \in C \/ i \in B \/ i \in S \/ \E w \in Workers : i \in H[w]
    /\ \A i \in Q : i \notin C /\ i \notin B /\ i \notin S
    /\ \A i \in C : i \notin B /\ i \notin S
    /\ \A i \in B : i \notin S
    /\ \A w \in Workers : \A i \in H[w] : i \notin Q /\ i \notin C /\ i \notin B /\ i \notin S
    /\ \A v, w \in Workers : v # w => \A i \in H[v] : i \notin H[w]

Hands == [w \in Workers |-> HeldBy(w)]

\* Accounted, with the four places spelled out.
OnePlace == Placed(IssuedIds, Queued, Completed, handedBack, spilled, Hands)

\* What is known of requeues.
Told == SuccessorsTold /\ ReportsTrue /\ RequeueTold

QueueInv ==
    /\ QueueTypeOK /\ IdsGrow /\ Lineage /\ HandsFull /\ RestingIssued
    /\ OnePlace /\ StartsComplete /\ Told
-----------------------------------------------------------------------------
(* The queue is served in an order. *)

LEMMA LeastOfNaturals ==
    ASSUME NEW T, T \subseteq Nat, T # {}
    PROVE  \E x \in T : \A y \in T : x <= y
<1> DEFINE R == OpToRel(<, Nat)
<1>1. PICK x \in T : \A y \in T : ~ (<<y, x>> \in R)
    <2> HIDE DEF R
    <2> QED
        BY NatLessThanWellFounded, WFMin DEF R
<1>2. \A y \in T : ~ (y < x)
    BY <1>1 DEF OpToRel
<1> HIDE DEF R
<1>3. x \in Nat /\ \A y \in T : y \in Nat
    OBVIOUS
<1> QED
    BY <1>2, <1>3

LEMMA IdsAreNaturals == Ids \subseteq Nat \ {0}
<1> DEFINE top == MaxSubmits * (MaxRequeues + 1)
<1>1. top \in Nat
    BY QueueAssumption
<1>2. Ids = 1..top
    BY DEF Ids
<1> HIDE DEF top
<1> QED
    BY <1>1, <1>2

\* A queue that is not empty has a first entry: one with the fewest entries
\* before it has none before it.
LEMMA FirstIsQueued ==
    ASSUME queue \subseteq issued, issued \subseteq Entry, IdsGrow, queue # {}
    PROVE  First \in queue
<1> DEFINE Earlier(e) == {g \in queue : Before(g, e)}
           Sizes == {Cardinality(Earlier(e)) : e \in queue}
<1>1. \A e \in queue : e \in issued /\ e.id \in Nat /\ e.priority \in Nat
    <2> TAKE e \in queue
    <2>1. e \in issued /\ e.id \in Ids /\ e.priority \in Priorities
        BY DEF Entry
    <2> QED
        BY <2>1, QueueAssumption, IdsAreNaturals
<1>2. IsFiniteSet(queue)
    BY FS_Subset DEF IdsGrow
<1>3. \A e \in queue : IsFiniteSet(Earlier(e)) /\ Cardinality(Earlier(e)) \in Nat
    <2> TAKE e \in queue
    <2>1. Earlier(e) \subseteq queue
        OBVIOUS
    <2> QED
        BY <1>2, <2>1, FS_Subset, FS_CardinalityType
<1>4. PICK n \in Sizes : \A m \in Sizes : n <= m
    <2>1. Sizes \subseteq Nat /\ Sizes # {}
        BY <1>3
    <2> HIDE DEF Sizes, Earlier
    <2> QED
        BY <2>1, LeastOfNaturals
<1>5. PICK e \in queue : n = Cardinality(Earlier(e))
    OBVIOUS
<1>6. \A f \in queue \ {e} : Before(e, f)
    <2> SUFFICES ASSUME NEW f \in queue \ {e}, ~Before(e, f) PROVE FALSE
        OBVIOUS
    <2>1. Before(f, e)
        BY <1>1 DEF Before, IdsGrow
    <2>2. f \in Earlier(e) /\ f \notin Earlier(f)
        BY <1>1, <2>1 DEF Before
    <2>3. Earlier(f) \subseteq Earlier(e)
        BY <1>1, <2>1 DEF Before
    <2>4. Cardinality(Earlier(f)) # Cardinality(Earlier(e))
        <3> HIDE DEF Earlier
        <3> QED
            BY <1>3, <2>2, <2>3, FS_Subset
    <2>5. Cardinality(Earlier(f)) <= Cardinality(Earlier(e))
        <3> HIDE DEF Earlier
        <3> QED
            BY <1>3, <2>3, FS_Subset
    <2>6. Cardinality(Earlier(f)) \in Sizes
        OBVIOUS
    <2>7. Cardinality(Earlier(e)) <= Cardinality(Earlier(f))
        BY <1>4, <1>5, <2>6
    <2> HIDE DEF Earlier
    <2> QED
        BY <1>3, <2>4, <2>5, <2>7
<1> QED
    BY <1>6 DEF First
-----------------------------------------------------------------------------
(* The ids suffice: entries are told apart by origin and requeues. *)

LEMMA ProductGrows ==
    ASSUME NEW a \in Nat, NEW b \in Nat, NEW c \in Nat, a <= b
    PROVE  a * c <= b * c
OBVIOUS

\* As long as an origin or a requeue is missing, there is an id to give.
LEMMA IdsSuffice ==
    ASSUME QueueTypeOK, IdsGrow, Lineage, NEW roots \in Nat, roots <= MaxSubmits,
           NEW origins, IsFiniteSet(origins), Cardinality(origins) <= roots,
           \A e \in issued : e.origin \in origins,
           NEW o \in origins, NEW n \in 0..MaxRequeues,
           \A e \in issued : ~(e.origin = o /\ e.requeues = n)
    PROVE  /\ NextId \in Ids
           /\ Cardinality(issued) \in Nat /\ NextId = Cardinality(issued) + 1
<1> DEFINE Places == origins \X (0..MaxRequeues)
           Free == Places \ {<<o, n>>}
           place == [e \in issued |-> <<e.origin, e.requeues>>]
<1>0. /\ MaxSubmits \in Nat /\ MaxRequeues \in Nat /\ issued \subseteq Entry
      /\ IsFiniteSet(issued) /\ Cardinality(issued) \in Nat
    BY QueueAssumption, FS_CardinalityType DEF QueueTypeOK, IdsGrow
<1>1. IsFiniteSet(0..MaxRequeues) /\ Cardinality(0..MaxRequeues) = MaxRequeues + 1
    <2>1. 0 \in Int /\ MaxRequeues \in Int /\ ~(0 > MaxRequeues) /\ MaxRequeues - 0 + 1 = MaxRequeues + 1
        BY <1>0
    <2> HIDE DEF Places, Free, place
    <2> QED
        BY <2>1, FS_Interval
<1>2. IsFiniteSet(Places) /\ Cardinality(Places) = Cardinality(origins) * (MaxRequeues + 1)
    BY <1>1, FS_Product
<1>3. Cardinality(origins) \in Nat
    BY FS_CardinalityType
<1>4. Cardinality(Places) <= MaxSubmits * (MaxRequeues + 1)
    <2>1. Cardinality(origins) <= MaxSubmits /\ MaxRequeues + 1 \in Nat
        BY <1>0, <1>3
    <2> QED
        BY <1>0, <1>2, <1>3, <2>1, ProductGrows
<1>5. /\ IsFiniteSet(Free) /\ Cardinality(Free) = Cardinality(Places) - 1
      /\ Cardinality(Places) \in Nat
    <2>1. <<o, n>> \in Places
        OBVIOUS
    <2> HIDE DEF Places
    <2> QED
        BY <1>2, <2>1, FS_RemoveElement, FS_CardinalityType
<1>6. place \in Injection(issued, Free)
    <2>1. ASSUME NEW e \in issued PROVE place[e] \in Free
        BY <1>0 DEF Entry
    <2>2. ASSUME NEW e \in issued, NEW f \in issued, place[e] = place[f] PROVE e = f
        BY <2>2 DEF Lineage
    <2> QED
        BY <2>1, <2>2 DEF Injection, IsInjective
<1>7. Cardinality(issued) <= Cardinality(Free)
    <2> HIDE DEF Free, place
    <2> QED
        BY <1>5, <1>6, FS_Injection
<1>8. MaxSubmits * (MaxRequeues + 1) \in Nat
    BY <1>0
<1> HIDE DEF Places, Free
<1>9. Cardinality(issued) + 1 <= MaxSubmits * (MaxRequeues + 1)
    BY <1>0, <1>4, <1>5, <1>7, <1>8
<1> QED
    BY <1>0, <1>8, <1>9 DEF NextId, Ids
-----------------------------------------------------------------------------
(* Entries are pushed. *)

Roots == {e \in issued : e.requeues = 0}
RootIds == {r.id : r \in Roots}

LEMMA OneMore ==
    ASSUME NEW S, IsFiniteSet(S), NEW x
    PROVE  /\ IsFiniteSet(S \cup {x}) /\ Cardinality(S) \in Nat
           /\ Cardinality(S \cup {x}) \in Nat
           /\ Cardinality(S \cup {x}) <= Cardinality(S) + 1
BY FS_AddElement, FS_CardinalityType

\* Every origin is the id of a submission, so there are as few of them.
LEMMA FewOrigins ==
    ASSUME QueueTypeOK, IdsGrow, Lineage
    PROVE  /\ IsFiniteSet(RootIds) /\ Cardinality(RootIds) \in Nat
           /\ Submits \in Nat /\ Cardinality(RootIds) <= Submits
           /\ \A e \in issued : e.origin \in RootIds
           /\ \A i \in RootIds : i \in IssuedIds
<1> DEFINE name == [r \in Roots |-> r.id]
<1>1. IsFiniteSet(Roots) /\ Submits = Cardinality(Roots)
    BY FS_Subset, Roots \subseteq issued DEF IdsGrow, Submits, Roots
<1>2. name \in Surjection(Roots, RootIds)
    BY DEF Surjection, RootIds
<1>3. /\ IsFiniteSet(RootIds) /\ Cardinality(RootIds) <= Cardinality(Roots)
    <2> HIDE DEF name
    <2> QED
        BY <1>1, <1>2, FS_Surjection
<1>4. \A e \in issued : e.origin \in RootIds
    BY DEF Lineage, RootIds, Roots
<1>5. \A i \in RootIds : i \in IssuedIds
    BY DEF RootIds, Roots, IssuedIds
<1> QED
    BY <1>1, <1>3, <1>4, <1>5, FS_CardinalityType

LEMMA CountIssued ==
    ASSUME IdsGrow
    PROVE  /\ Cardinality(issued) \in Nat /\ NextId = Cardinality(issued) + 1
           /\ \A e \in issued : e.id <= Cardinality(issued)
BY FS_CardinalityType DEF IdsGrow, NextId

\* No entry has the next id yet.
LEMMA NextIdIsNew ==
    ASSUME QueueTypeOK, IdsGrow
    PROVE  NextId \notin IssuedIds
<1>1. \A e \in issued : e.id \in Nat
    BY IdsAreNaturals DEF QueueTypeOK, Entry
<1> QED
    BY <1>1, CountIssued DEF IssuedIds

LEMMA PushGrows ==
    ASSUME QueueTypeOK, IdsGrow, NEW e \in Entry, e.id = NextId,
           issued' = issued \cup {e}
    PROVE  IdsGrow'
<1>1. e \notin issued
    BY NextIdIsNew DEF IssuedIds
<1>2. IsFiniteSet(issued') /\ Cardinality(issued') = Cardinality(issued) + 1
    BY <1>1, FS_AddElement DEF IdsGrow
<1>3. \A f \in issued : f.id \in Nat /\ f.id # e.id
    BY NextIdIsNew, IdsAreNaturals DEF QueueTypeOK, Entry, IssuedIds
<1>4. \A f \in issued' : f.id <= Cardinality(issued')
    BY <1>2, <1>3, CountIssued
<1>5. \A f, g \in issued' : f.id = g.id => f = g
    BY <1>3 DEF IdsGrow
<1> QED
    BY <1>2, <1>4, <1>5 DEF IdsGrow

LEMMA LineageGrows ==
    ASSUME Lineage, NEW e, issued' = issued \cup {e},
           \A f \in issued : ~(f.origin = e.origin /\ f.requeues = e.requeues),
           \E r \in issued' : r.id = e.origin /\ r.origin = e.origin /\ r.requeues = 0,
           e.requeues # 0 => \E d \in issued : Succeeds(e, d),
           Submits' <= MaxSubmits
    PROVE  Lineage'
<1>1. \A f, g \in issued' : f.origin = g.origin /\ f.requeues = g.requeues => f = g
    BY DEF Lineage
<1>2. \A f \in issued' : \E r \in issued' :
          r.id = f.origin /\ r.origin = f.origin /\ r.requeues = 0
    BY DEF Lineage
<1>3. \A f \in issued' : f.requeues # 0 => \E d \in issued' : Succeeds(f, d)
    BY DEF Lineage
<1> QED
    BY <1>1, <1>2, <1>3 DEF Lineage

LEMMA EnqueueGrows ==
    ASSUME QueueInv, NEW task \in Tasks, NEW priority \in Priorities, Enqueue(task, priority)
    PROVE  \E e \in Entry :
              /\ e.id = NextId /\ e.requeues = 0 /\ e.origin = NextId
              /\ queue' = queue \cup {e} /\ issued' = issued \cup {e}
              /\ IdsGrow' /\ Lineage'
<1> DEFINE e == [id |-> NextId, task |-> task, priority |-> priority, requeues |-> 0,
                 origin |-> NextId]
<1>1. QueueTypeOK /\ IdsGrow /\ Lineage
    BY DEF QueueInv
<1>2. issued' = issued \cup {e} /\ queue' = queue \cup {e} /\ Submits < MaxSubmits
    BY DEF Enqueue, Push
<1>3. \A f \in issued : f.origin # NextId
    BY <1>1, FewOrigins, NextIdIsNew
<1>4. NextId \in Ids
    <2> DEFINE origins == RootIds \cup {NextId}
    <2>1. IsFiniteSet(origins) /\ Cardinality(origins) <= Submits + 1
        <3>1. /\ IsFiniteSet(RootIds) /\ Cardinality(RootIds) \in Nat
              /\ Submits \in Nat /\ Cardinality(RootIds) <= Submits
            BY <1>1, FewOrigins
        <3>2. /\ IsFiniteSet(origins) /\ Cardinality(origins) \in Nat
              /\ Cardinality(origins) <= Cardinality(RootIds) + 1
            BY <3>1, OneMore
        <3> HIDE DEF origins
        <3> QED
            BY <3>1, <3>2
    <2>2. Submits + 1 \in Nat /\ Submits + 1 <= MaxSubmits
        BY <1>1, <1>2, FewOrigins, QueueAssumption
    <2>3. \A f \in issued : f.origin \in origins
        BY <1>1, FewOrigins
    <2>4. NextId \in origins /\ 0 \in 0..MaxRequeues
        BY QueueAssumption
    <2>5. \A f \in issued : ~(f.origin = NextId /\ f.requeues = 0)
        BY <1>3
    <2> HIDE DEF origins
    <2> QED
        BY <1>1, <2>1, <2>2, <2>3, <2>4, <2>5, IdsSuffice
<1>5. e \in Entry
    BY <1>4, QueueAssumption DEF Entry
<1>6. IdsGrow'
    BY <1>1, <1>2, <1>5, PushGrows
<1>7. Lineage'
    <2>1. Submits' <= MaxSubmits
        <3>1. {f \in issued' : f.requeues = 0} = Roots \cup {e}
            BY <1>2 DEF Roots
        <3>2. IsFiniteSet(Roots) /\ Cardinality(Roots) = Submits
            BY <1>1, FS_Subset, Roots \subseteq issued DEF IdsGrow, Submits, Roots
        <3>3. Submits' = Cardinality(Roots \cup {e})
            BY <3>1 DEF Submits
        <3>4. Cardinality(Roots \cup {e}) <= Submits + 1
            BY <1>1, <3>2, FewOrigins, OneMore
        <3>5. Cardinality(Roots \cup {e}) \in Nat
            BY <3>2, OneMore
        <3> HIDE DEF e
        <3> QED
            BY <1>1, <1>2, <3>3, <3>4, <3>5, FewOrigins, QueueAssumption
    <2>2. \A f \in issued : ~(f.origin = e.origin /\ f.requeues = e.requeues)
        BY <1>3
    <2>3. \E r \in issued' : r.id = e.origin /\ r.origin = e.origin /\ r.requeues = 0
        <3>1. e.id = e.origin /\ e.requeues = 0
            OBVIOUS
        <3> HIDE DEF e
        <3> QED
            BY <1>2, <3>1
    <2>4. e.requeues = 0
        OBVIOUS
    <2> HIDE DEF e
    <2> QED
        BY <1>1, <1>2, <2>1, <2>2, <2>3, <2>4, LineageGrows
<1> QED
    BY <1>2, <1>5, <1>6, <1>7

LEMMA RequeueGrows ==
    ASSUME QueueInv, NEW w \in Workers, FailRequeued(w)
    PROVE  \E e \in Entry :
              /\ e = Again(held[w]) /\ e.id = NextId /\ Succeeds(e, held[w])
              /\ \A f \in issued : ~Succeeds(f, held[w])
              /\ queue' = queue \cup {e} /\ issued' = issued \cup {e}
              /\ IdsGrow' /\ Lineage'
<1> DEFINE h == held[w]
           e == Again(h)
<1>1. /\ QueueTypeOK /\ IdsGrow /\ Lineage
      /\ h \in issued /\ h \in Entry /\ h.requeues \in 0..MaxRequeues
      /\ h.requeues < MaxRequeues /\ workerAt[w] = "running"
    BY DEF QueueInv, HandsFull, FailRequeued, MayRequeue, QueueTypeOK, Entry
<1>2. issued' = issued \cup {e} /\ queue' = queue \cup {e}
    BY DEF FailRequeued, Push
<1>3. e.origin = h.origin /\ e.requeues = h.requeues + 1 /\ e.id = NextId
    BY <1>1 DEF Again, Entry
<1>4. \A f \in issued : ~Succeeds(f, h)
    <2> SUFFICES ASSUME NEW f \in issued, Succeeds(f, h) PROVE FALSE
        OBVIOUS
    <2>1. h.id \notin Completed /\ \A v \in Workers : v # w => held[v] # h
        BY <1>1 DEF QueueInv, OnePlace, Placed, Hands, HeldBy, HandsFull
    <2> QED
        BY <1>1, <2>1 DEF QueueInv, Told, SuccessorsTold, PutBack
<1>5. h.requeues + 1 \in 0..MaxRequeues
    BY <1>1, QueueAssumption
<1>6. NextId \in Ids
    <2>1. \A f \in issued : ~(f.origin = h.origin /\ f.requeues = h.requeues + 1)
        BY <1>4 DEF Succeeds
    <2>2. Submits \in Nat /\ Submits <= MaxSubmits
        BY <1>1, FewOrigins DEF Lineage
    <2> QED
        BY <1>1, <1>5, <2>1, <2>2, FewOrigins, IdsSuffice
<1>7. e \in Entry
    BY <1>1, <1>5, <1>6 DEF Again, Entry
<1>8. IdsGrow'
    BY <1>1, <1>2, <1>3, <1>7, PushGrows
<1>9. Lineage'
    <2>1. Submits' = Submits
        <3>1. e.requeues # 0
            BY <1>1, <1>3, QueueAssumption
        <3>2. {f \in issued' : f.requeues = 0} = {f \in issued : f.requeues = 0}
            BY <1>2, <3>1
        <3> QED
            BY <3>2 DEF Submits
    <2>2. \A f \in issued : ~(f.origin = e.origin /\ f.requeues = e.requeues)
        BY <1>3, <1>4 DEF Succeeds
    <2>3. \E r \in issued' : r.id = e.origin /\ r.origin = e.origin /\ r.requeues = 0
        BY <1>1, <1>2, <1>3 DEF Lineage
    <2>4. Submits <= MaxSubmits
        BY <1>1 DEF Lineage
    <2>5. Succeeds(e, h)
        BY <1>3 DEF Succeeds
    <2> HIDE DEF e
    <2> QED
        BY <1>1, <1>2, <2>1, <2>2, <2>3, <2>4, <2>5, LineageGrows
<1> QED
    BY <1>2, <1>3, <1>4, <1>7, <1>8, <1>9 DEF Succeeds
-----------------------------------------------------------------------------
(* Ids move from place to place. *)

LEMMA PlacedPush ==
    ASSUME NEW I, NEW Q, NEW C, NEW B, NEW S, NEW H, Placed(I, Q, C, B, S, H),
           NEW i, i \notin I, Q \cup C \cup B \cup S \subseteq I,
           \A w \in Workers : H[w] \subseteq I
    PROVE  Placed(I \cup {i}, Q \cup {i}, C, B, S, H)
BY DEF Placed

LEMMA PlacedHandBack ==
    ASSUME NEW I, NEW Q, NEW C, NEW B, NEW S, NEW H, Placed(I, Q, C, B, S, H),
           NEW T \in SUBSET Q
    PROVE  Placed(I, Q \ T, C, B \cup T, S, H)
BY DEF Placed

LEMMA PlacedCancel ==
    ASSUME NEW I, NEW Q, NEW C, NEW B, NEW S, NEW H, Placed(I, Q, C, B, S, H),
           NEW i \in Q
    PROVE  Placed(I, Q \ {i}, C \cup {i}, B, S, H)
BY DEF Placed

LEMMA PlacedTake ==
    ASSUME NEW I, NEW Q, NEW C, NEW B, NEW S, NEW H, Placed(I, Q, C, B, S, H),
           NEW i \in Q, NEW w \in Workers, H[w] = {}, NEW G,
           G[w] = {i}, \A v \in Workers \ {w} : G[v] = H[v]
    PROVE  Placed(I, Q \ {i}, C, B, S, G)
BY DEF Placed

LEMMA PlacedComplete ==
    ASSUME NEW I, NEW Q, NEW C, NEW B, NEW S, NEW H, Placed(I, Q, C, B, S, H),
           NEW i, NEW w \in Workers, H[w] = {i}, NEW G,
           G[w] = {}, \A v \in Workers \ {w} : G[v] = H[v]
    PROVE  Placed(I, Q, C \cup {i}, B, S, G)
BY DEF Placed

LEMMA PlacedSpill ==
    ASSUME NEW I, NEW Q, NEW C, NEW B, NEW S, NEW H, Placed(I, Q, C, B, S, H),
           NEW i, NEW w \in Workers, H[w] = {i}, NEW G,
           G[w] = {}, \A v \in Workers \ {w} : G[v] = H[v]
    PROVE  Placed(I, Q, C, B, S \cup {i}, G)
BY DEF Placed

\* Taking entries off the queue takes their ids.
LEMMA QueuedWithout ==
    ASSUME IdsGrow, QueueTypeOK, NEW T \in SUBSET queue, queue' = queue \ T
    PROVE  Queued' = Queued \ {e.id : e \in T}
BY DEF IdsGrow, QueueTypeOK, Queued
-----------------------------------------------------------------------------
(* What is known of requeues is kept. *)

LEMMA SameIssued ==
    ASSUME IdsGrow, Lineage, issued' = issued
    PROVE  IdsGrow' /\ Lineage' /\ IssuedIds' = IssuedIds
BY DEF IdsGrow, Lineage, IssuedIds, Submits

\* No completion is recorded, and the workers about to report a requeue stay.
LEMMA QuietTold ==
    ASSUME Told, issued' = issued, ended' = ended,
           \A v \in Workers :
              /\ workerAt'[v] = "reporting" /\ requeued'[v]
                    <=> workerAt[v] = "reporting" /\ requeued[v]
              /\ workerAt[v] = "reporting" /\ requeued[v] => held'[v] = held[v]
    PROVE  Told'
<1>1. \A e : PutBack(e)' <=> PutBack(e)
    BY DEF PutBack
<1>2. Completed' = Completed
    BY DEF Completed
<1>3. SuccessorsTold'
    BY <1>1, <1>2 DEF Told, SuccessorsTold
<1>4. ReportsTrue'
    <2> SUFFICES ASSUME NEW v \in Workers, workerAt'[v] = "reporting", requeued'[v]
                 PROVE  PutBack(held[v])'
        BY DEF ReportsTrue
    <2> QED
        BY DEF Told, ReportsTrue, PutBack
<1>5. RequeueTold'
    BY DEF Told, RequeueTold
<1> QED
    BY <1>3, <1>4, <1>5 DEF Told

LEMMA CompletedMore ==
    ASSUME NEW i, NEW status, NEW flag,
           ended' = ended \cup {[id |-> i, status |-> status, requeued |-> flag]}
    PROVE  Completed' = Completed \cup {i}
<1> DEFINE r == [id |-> i, status |-> status, requeued |-> flag]
<1>1. r.id = i
    OBVIOUS
<1>2. ended' = ended \cup {r}
    OBVIOUS
<1> HIDE DEF r
<1> QED
    BY <1>1, <1>2 DEF Completed

\* w completes e and says truly whether e was put back.
LEMMA CompletionTold ==
    ASSUME Told, IdsGrow, issued' = issued,
           NEW w \in Workers, NEW e \in issued, NEW status, NEW flag \in BOOLEAN,
           ended' = ended \cup {[id |-> e.id, status |-> status, requeued |-> flag]},
           flag <=> PutBack(e),
           workerAt[w] = "reporting" => held[w] = e,
           workerAt'[w] # "reporting",
           \A v \in Workers \ {w} :
              workerAt'[v] = workerAt[v] /\ held'[v] = held[v] /\ requeued'[v] = requeued[v]
    PROVE  Told'
<1>1. \A f : PutBack(f)' <=> PutBack(f)
    BY DEF PutBack
<1>2. Completed' = Completed \cup {e.id}
    BY CompletedMore
<1>3. SuccessorsTold'
    <2> SUFFICES ASSUME NEW f \in issued, PutBack(f), f.id \notin Completed'
                 PROVE  \E v \in Workers :
                            workerAt'[v] = "reporting" /\ held'[v] = f /\ requeued'[v]
        BY <1>1 DEF SuccessorsTold
    <2>1. PICK v \in Workers : workerAt[v] = "reporting" /\ held[v] = f /\ requeued[v]
        BY <1>2 DEF Told, SuccessorsTold
    <2>2. v # w
        BY <1>2, <2>1
    <2> QED
        BY <2>1, <2>2
<1>4. ReportsTrue'
    <2> SUFFICES ASSUME NEW v \in Workers, workerAt'[v] = "reporting", requeued'[v]
                 PROVE  PutBack(held[v])'
        BY DEF ReportsTrue
    <2> QED
        BY DEF Told, ReportsTrue, PutBack
<1>5. RequeueTold'
    <2> SUFFICES ASSUME NEW r \in ended', NEW f \in issued, f.id = r.id
                 PROVE  r.requeued <=> PutBack(f)
        BY <1>1 DEF RequeueTold, PutBack, Succeeds
    <2>1. CASE r \in ended
        BY <2>1 DEF Told, RequeueTold, PutBack, Succeeds
    <2>2. CASE r = [id |-> e.id, status |-> status, requeued |-> flag]
        BY <2>2 DEF IdsGrow
    <2> QED
        BY <2>1, <2>2
<1> QED
    BY <1>3, <1>4, <1>5 DEF Told
-----------------------------------------------------------------------------
(* What the invariant says of one worker. *)

LEMMA HandOf ==
    ASSUME QueueInv, NEW w \in Workers
    PROVE  /\ held[w] = NoEntry => Hands[w] = {}
           /\ held[w] # NoEntry =>
                 /\ Hands[w] = {held[w].id} /\ held[w] \in issued /\ held[w] \in Entry
                 /\ left[w] \in Nat /\ left[w] > 0
                 /\ held[w].id \notin Completed /\ held[w].id \in Ids
           /\ held[w] # NoEntry <=> workerAt[w] \in {"running", "reporting"}
BY DEF QueueInv, Hands, HeldBy, HandsFull, QueueTypeOK, OnePlace, Placed, Entry

\* Of two workers at most one is about to report a given entry.
LEMMA PutBackIsTold ==
    ASSUME QueueInv, NEW w \in Workers, held[w] # NoEntry
    PROVE  PutBack(held[w]) <=> workerAt[w] = "reporting" /\ requeued[w]
<1>1. ASSUME PutBack(held[w]) PROVE workerAt[w] = "reporting" /\ requeued[w]
    <2>1. PICK v \in Workers : workerAt[v] = "reporting" /\ held[v] = held[w] /\ requeued[v]
        BY <1>1, HandOf DEF QueueInv, Told, SuccessorsTold
    <2>2. Hands[v] = {held[w].id} /\ Hands[w] = {held[w].id}
        BY <2>1, HandOf
    <2>3. v = w
        BY <2>2 DEF QueueInv, OnePlace, Placed
    <2> QED
        BY <2>1, <2>3
<1> QED
    BY <1>1 DEF QueueInv, Told, ReportsTrue

LEMMA QueuedIsFree ==
    ASSUME QueueInv, NEW e \in queue
    PROVE  /\ e \in issued /\ e \in Entry /\ e.id \in Ids /\ e.id \in Queued
           /\ e.id \notin Completed /\ ~PutBack(e)
           /\ \A w \in Workers : e.id \notin Hands[w] /\ held[w] # e
<1>1. e \in issued /\ e \in Entry /\ e.id \in Ids /\ e.id \in Queued
    BY DEF QueueInv, QueueTypeOK, Entry, Queued
<1>2. e.id \notin Completed /\ \A w \in Workers : e.id \notin Hands[w]
    BY <1>1 DEF QueueInv, OnePlace, Placed
<1>3. \A w \in Workers : held[w] # e
    BY <1>1, <1>2, NoEntryAssumption DEF Hands, HeldBy
<1> QED
    BY <1>1, <1>2, <1>3 DEF QueueInv, Told, SuccessorsTold

LEMMA QueueShrinks ==
    ASSUME QueueInv, queue' \subseteq queue
    PROVE  /\ IsFiniteSet(queue') /\ Cardinality(queue') \in Nat
           /\ Cardinality(queue') <= MaxDepth
<1>1. IsFiniteSet(queue) /\ Cardinality(queue) <= MaxDepth
    BY FS_Subset DEF QueueInv, QueueTypeOK, IdsGrow
<1>2. IsFiniteSet(queue') /\ Cardinality(queue') <= Cardinality(queue)
    BY <1>1, FS_Subset
<1> QED
    BY <1>1, <1>2, FS_CardinalityType, QueueAssumption
-----------------------------------------------------------------------------
(* Entries leave the queue for those who remove them. *)

LEMMA HandedBackKeeps ==
    ASSUME QueueInv, NEW T \in SUBSET queue, queue' = queue \ T,
           handedBack' = handedBack \cup {e.id : e \in T},
           UNCHANGED <<closed, issued, workerVars, started, ended, spilled>>
    PROVE  QueueInv'
<1> DEFINE ids == {e.id : e \in T}
<1>0. QueueTypeOK /\ IdsGrow /\ Lineage /\ HandsFull
    BY DEF QueueInv
<1>1. IdsGrow' /\ Lineage' /\ IssuedIds' = IssuedIds
    BY <1>0, SameIssued
<1>2. ids \subseteq Ids /\ ids \subseteq Queued /\ ids \subseteq IssuedIds
    BY <1>0 DEF QueueTypeOK, Entry, Queued, IssuedIds
<1>3. QueueTypeOK'
    BY <1>0, <1>2, QueueShrinks DEF QueueTypeOK, workerVars
<1>4. HandsFull' /\ Hands' = Hands
    BY <1>0 DEF HandsFull, Hands, HeldBy, workerVars
<1>5. Completed' = Completed /\ InProgress' = InProgress
    BY DEF Completed, InProgress, HeldBy, workerVars
<1>6. RestingIssued'
    BY <1>1, <1>2, <1>5 DEF QueueInv, RestingIssued
<1>7. OnePlace'
    <2>1. Queued' = Queued \ ids
        BY <1>0, QueuedWithout
    <2>2. Placed(IssuedIds, Queued \ ids, Completed, handedBack \cup ids, spilled, Hands)
        BY <1>2, PlacedHandBack DEF QueueInv, OnePlace
    <2> HIDE DEF ids
    <2> QED
        BY <1>1, <1>4, <1>5, <2>1, <2>2 DEF OnePlace, ids
<1>8. StartsComplete'
    BY <1>5 DEF QueueInv, StartsComplete
<1>9. Told'
    BY QuietTold DEF QueueInv, workerVars
<1> QED
    BY <1>1, <1>3, <1>4, <1>6, <1>7, <1>8, <1>9 DEF QueueInv

LEMMA RemoveByIdKeeps ==
    ASSUME QueueInv, NEW e \in queue, RemoveById(e)
    PROVE  QueueInv'
<1>1. {e} \in SUBSET queue /\ {f.id : f \in {e}} = {e.id}
    OBVIOUS
<1> QED
    BY <1>1, HandedBackKeeps DEF RemoveById

LEMMA ClearKeeps ==
    ASSUME QueueInv, Clear
    PROVE  QueueInv'
<1>1. queue \in SUBSET queue /\ queue \ queue = {}
    OBVIOUS
<1> QED
    BY <1>1, HandedBackKeeps DEF Clear
-----------------------------------------------------------------------------
(* Steps that move no entry. *)

LEMMA NothingMovesKeeps ==
    ASSUME QueueInv,
           UNCHANGED <<queue, issued, handedBack, held, started, ended, spilled>>,
           QueueTypeOK', HandsFull',
           \A v \in Workers :
              workerAt'[v] = "reporting" /\ requeued'[v]
                 <=> workerAt[v] = "reporting" /\ requeued[v]
    PROVE  QueueInv'
<1>1. IdsGrow' /\ Lineage' /\ IssuedIds' = IssuedIds
    BY SameIssued DEF QueueInv
<1>2. /\ Queued' = Queued /\ Completed' = Completed /\ Hands' = Hands
      /\ InProgress' = InProgress
    BY DEF Queued, Completed, Hands, InProgress, HeldBy
<1>3. RestingIssued' /\ OnePlace' /\ StartsComplete'
    BY <1>1, <1>2 DEF QueueInv, RestingIssued, OnePlace, StartsComplete
<1>4. Told'
    BY QuietTold DEF QueueInv
<1> QED
    BY <1>1, <1>3, <1>4 DEF QueueInv

LEMMA ClosingKeeps ==
    ASSUME QueueInv, Close \/ Reopen
    PROVE  QueueInv'
<1>1. /\ UNCHANGED <<queue, issued, handedBack, workerVars, started, ended, spilled>>
      /\ closed' \in BOOLEAN
    BY DEF Close, Reopen
<1>2. QueueTypeOK' /\ HandsFull'
    BY <1>1 DEF QueueInv, QueueTypeOK, HandsFull, workerVars
<1> QED
    BY <1>1, <1>2, NothingMovesKeeps DEF workerVars

LEMMA LoopKeeps ==
    ASSUME QueueInv, NEW w \in Workers, NEW to \in {"looping", "idle"}, NEW n \in Nat,
           workerAt[w] \in {"idle", "rejected", "looping"},
           workerAt' = [workerAt EXCEPT ![w] = to], left' = [left EXCEPT ![w] = n],
           UNCHANGED <<queueVars, held, attempts, requeued, started, ended, spilled>>
    PROVE  QueueInv'
<1>0. QueueTypeOK /\ HandsFull
    BY DEF QueueInv
<1>1. QueueTypeOK'
    BY <1>0 DEF QueueTypeOK, queueVars
<1>2. HandsFull'
    BY <1>0 DEF HandsFull, QueueTypeOK, queueVars
<1>3. \A v \in Workers :
          workerAt'[v] = "reporting" /\ requeued'[v]
             <=> workerAt[v] = "reporting" /\ requeued[v]
    BY <1>0 DEF QueueTypeOK
<1> QED
    BY <1>1, <1>2, <1>3, NothingMovesKeeps DEF queueVars

LEMMA RunKeeps ==
    ASSUME QueueInv, NEW w \in Workers, NEW max \in RunLimits, Run(w, max)
    PROVE  QueueInv'
BY LoopKeeps, QueueAssumption DEF Run

LEMMA RunEndsKeeps ==
    ASSUME QueueInv, NEW w \in Workers, RunEnds(w)
    PROVE  QueueInv'
BY LoopKeeps DEF RunEnds

LEMMA RetryKeeps ==
    ASSUME QueueInv, NEW w \in Workers, Retry(w)
    PROVE  QueueInv'
<1>0. QueueTypeOK /\ HandsFull
    BY DEF QueueInv
<1>1. QueueTypeOK' /\ HandsFull'
    BY <1>0, QueueAssumption DEF Retry, QueueTypeOK, HandsFull, queueVars
<1> QED
    BY <1>1, NothingMovesKeeps DEF Retry, queueVars

LEMMA FailFinallyKeeps ==
    ASSUME QueueInv, NEW w \in Workers, FailFinally(w)
    PROVE  QueueInv'
<1>0. QueueTypeOK /\ HandsFull
    BY DEF QueueInv
<1>1. /\ workerAt[w] = "running"
      /\ workerAt' = [workerAt EXCEPT ![w] = "reporting"]
      /\ requeued' = [requeued EXCEPT ![w] = FALSE]
      /\ UNCHANGED <<queueVars, held, attempts, left, started, ended, spilled>>
    BY DEF FailFinally, ToReport, queueVars
<1>2. QueueTypeOK'
    BY <1>0, <1>1 DEF QueueTypeOK, queueVars
<1>3. HandsFull'
    BY <1>0, <1>1 DEF HandsFull, QueueTypeOK, queueVars
<1>4. \A v \in Workers :
          workerAt'[v] = "reporting" /\ requeued'[v]
             <=> workerAt[v] = "reporting" /\ requeued[v]
    BY <1>0, <1>1 DEF QueueTypeOK
<1> QED
    BY <1>1, <1>2, <1>3, <1>4, NothingMovesKeeps DEF queueVars
-----------------------------------------------------------------------------
(* An entry is started, or its requeue does not find room. *)

LEMMA StartKeeps ==
    ASSUME QueueInv, NEW w \in Workers, Start(w)
    PROVE  QueueInv'
<1>0. QueueTypeOK /\ IdsGrow /\ Lineage /\ HandsFull
    BY DEF QueueInv
<1>1. First \in queue
    BY <1>0, FirstIsQueued DEF Start, Takes, QueueTypeOK
<1>2. PICK e : e = First
    OBVIOUS
<1>3. /\ e \in queue /\ e \in issued /\ e \in Entry /\ e # NoEntry /\ e.id \in Ids
      /\ workerAt[w] = "looping" /\ left[w] > 0
      /\ queue' = queue \ {e} /\ held' = [held EXCEPT ![w] = e]
      /\ attempts' = [attempts EXCEPT ![w] = 1]
      /\ workerAt' = [workerAt EXCEPT ![w] = "running"] /\ started' = started \cup {e.id}
      /\ UNCHANGED <<closed, issued, handedBack, requeued, left, ended, spilled>>
    BY <1>1, <1>2, QueuedIsFree, NoEntryAssumption DEF Start, Takes
<1>4. IdsGrow' /\ Lineage' /\ IssuedIds' = IssuedIds
    BY <1>0, <1>3, SameIssued
<1>5. QueueTypeOK'
    BY <1>0, <1>3, QueueShrinks, QueueAssumption DEF QueueTypeOK
<1>6. HandsFull'
    BY <1>0, <1>3 DEF HandsFull, QueueTypeOK
<1>7. Completed' = Completed /\ RestingIssued'
    BY <1>3, <1>4 DEF QueueInv, RestingIssued, Completed
<1>8. held[w] = NoEntry
    BY <1>0, <1>3 DEF HandsFull
<1>9. /\ Hands[w] = {} /\ Hands'[w] = {e.id}
      /\ \A v \in Workers \ {w} : Hands'[v] = Hands[v]
    BY <1>0, <1>3, <1>8 DEF Hands, HeldBy, QueueTypeOK
<1>10. OnePlace'
    <2>1. Queued' = Queued \ {e.id}
        <3>1. {f.id : f \in {e}} = {e.id} /\ {e} \in SUBSET queue
            BY <1>3
        <3> QED
            BY <1>0, <1>3, <3>1, QueuedWithout
    <2>2. e.id \in Queued
        BY <1>3 DEF Queued
    <2>3. Placed(IssuedIds, Queued \ {e.id}, Completed, handedBack, spilled, Hands')
        BY <1>9, <2>2, PlacedTake DEF QueueInv, OnePlace
    <2> QED
        BY <1>3, <1>4, <1>7, <2>1, <2>3 DEF OnePlace
<1>11. StartsComplete'
    <2>1. InProgress' = InProgress \cup {e.id}
        BY <1>9 DEF InProgress, Hands
    <2> QED
        BY <1>3, <1>7, <2>1 DEF QueueInv, StartsComplete
<1>12. Told'
    <2>1. \A v \in Workers :
              /\ workerAt'[v] = "reporting" /\ requeued'[v]
                    <=> workerAt[v] = "reporting" /\ requeued[v]
              /\ workerAt[v] = "reporting" /\ requeued[v] => held'[v] = held[v]
        BY <1>0, <1>3 DEF QueueTypeOK
    <2> QED
        BY <1>3, <2>1, QuietTold DEF QueueInv
<1> QED
    BY <1>4, <1>5, <1>6, <1>7, <1>10, <1>11, <1>12 DEF QueueInv

LEMMA FailRequeueThrowsKeeps ==
    ASSUME QueueInv, NEW w \in Workers, FailRequeueThrows(w)
    PROVE  QueueInv'
<1>0. QueueTypeOK /\ IdsGrow /\ Lineage /\ HandsFull
    BY DEF QueueInv
<1>1. held[w] # NoEntry
    BY <1>0 DEF HandsFull, FailRequeueThrows
<1>2. PICK e : e = held[w]
    OBVIOUS
<1>3. /\ e \in issued /\ e.id \in Ids /\ Hands[w] = {e.id} /\ workerAt[w] = "running"
      /\ workerAt' = [workerAt EXCEPT ![w] = "rejected"]
      /\ held' = [held EXCEPT ![w] = NoEntry] /\ attempts' = [attempts EXCEPT ![w] = 0]
      /\ left' = [left EXCEPT ![w] = 0] /\ spilled' = spilled \cup {e.id}
      /\ UNCHANGED <<queue, closed, issued, handedBack, requeued, started, ended>>
    BY <1>1, <1>2, HandOf DEF FailRequeueThrows, queueVars
<1>4. IdsGrow' /\ Lineage' /\ IssuedIds' = IssuedIds
    BY <1>0, <1>3, SameIssued
<1>5. QueueTypeOK'
    BY <1>0, <1>3, QueueAssumption DEF QueueTypeOK
<1>6. HandsFull'
    BY <1>0, <1>3 DEF HandsFull, QueueTypeOK
<1>7. Completed' = Completed /\ Queued' = Queued /\ RestingIssued'
    BY <1>3, <1>4 DEF QueueInv, RestingIssued, Completed, Queued, IssuedIds
<1>8. Hands'[w] = {} /\ \A v \in Workers \ {w} : Hands'[v] = Hands[v]
    BY <1>0, <1>3 DEF Hands, HeldBy, QueueTypeOK
<1>9. OnePlace'
    <2>1. Placed(IssuedIds, Queued, Completed, handedBack, spilled \cup {e.id}, Hands')
        BY <1>3, <1>8, PlacedSpill DEF QueueInv, OnePlace
    <2> QED
        BY <1>3, <1>4, <1>7, <2>1 DEF OnePlace
<1>10. StartsComplete'
    <2>1. InProgress \subseteq InProgress' \cup {e.id}
        BY <1>3, <1>8 DEF InProgress, Hands
    <2> QED
        BY <1>3, <1>7, <2>1 DEF QueueInv, StartsComplete
<1>11. Told'
    <2>1. \A v \in Workers :
              /\ workerAt'[v] = "reporting" /\ requeued'[v]
                    <=> workerAt[v] = "reporting" /\ requeued[v]
              /\ workerAt[v] = "reporting" /\ requeued[v] => held'[v] = held[v]
        BY <1>0, <1>3 DEF QueueTypeOK
    <2> QED
        BY <1>3, <2>1, QuietTold DEF QueueInv
<1> QED
    BY <1>4, <1>5, <1>6, <1>7, <1>9, <1>10, <1>11 DEF QueueInv
-----------------------------------------------------------------------------
(* A completion is recorded: of an entry just taken off the queue, or held. *)

LEMMA FinishKeeps ==
    ASSUME QueueInv, NEW w \in Workers, NEW e \in issued,
           NEW status \in {"success", "failed", "skipped"}, NEW flag \in BOOLEAN,
           Finish(w, e.id, status, flag),
           left[w] > 0, flag <=> PutBack(e),
           UNCHANGED <<closed, issued, handedBack, started, spilled>>,
           \/ e \in queue /\ held[w] = NoEntry /\ queue' = queue \ {e}
           \/ e \in Entry /\ held[w] = e /\ queue' = queue
    PROVE  QueueInv'
<1>0. QueueTypeOK /\ IdsGrow /\ Lineage /\ HandsFull
    BY DEF QueueInv
<1>1. /\ e \in Entry /\ e # NoEntry /\ e.id \in Ids
    BY <1>0, NoEntryAssumption DEF QueueTypeOK, Entry
<1>2. /\ ended' = ended \cup {[id |-> e.id, status |-> status, requeued |-> flag]}
      /\ held' = [held EXCEPT ![w] = NoEntry] /\ attempts' = [attempts EXCEPT ![w] = 0]
      /\ requeued' = [requeued EXCEPT ![w] = FALSE]
      /\ \E to \in {"looping", "rejected"} : workerAt' = [workerAt EXCEPT ![w] = to]
      /\ \E n \in Nat : left' = [left EXCEPT ![w] = n]
    <2>1. left[w] \in Nat /\ left[w] - 1 \in Nat
        BY <1>0 DEF QueueTypeOK
    <2> QED
        BY <2>1 DEF Finish
<1>3. IdsGrow' /\ Lineage' /\ IssuedIds' = IssuedIds
    BY <1>0, SameIssued
<1>4. QueueTypeOK'
    <2>1. [id |-> e.id, status |-> status, requeued |-> flag] \in Completion
        BY <1>1 DEF Completion
    <2>2. ended' \subseteq Completion
        BY <1>0, <1>2, <2>1 DEF QueueTypeOK
    <2>3. queue' \subseteq issued' /\ Cardinality(queue') <= MaxDepth
        BY <1>0, QueueShrinks DEF QueueTypeOK
    <2>4. /\ held' \in [Workers -> Entry \cup {NoEntry}]
          /\ attempts' \in [Workers -> 0..MaxAttempts]
          /\ requeued' \in [Workers -> BOOLEAN]
          /\ workerAt' \in [Workers -> {"idle", "looping", "running", "reporting", "rejected"}]
          /\ left' \in [Workers -> Nat]
        BY <1>0, <1>2, QueueAssumption DEF QueueTypeOK
    <2> QED
        BY <1>0, <2>2, <2>3, <2>4 DEF QueueTypeOK
<1>5. HandsFull'
    BY <1>0, <1>2 DEF HandsFull, QueueTypeOK
<1>6. Completed' = Completed \cup {e.id}
    BY <1>2, CompletedMore
<1>7. RestingIssued'
    BY <1>3, <1>6 DEF QueueInv, RestingIssued, IssuedIds
<1>8. Hands'[w] = {} /\ \A v \in Workers \ {w} : Hands'[v] = Hands[v]
    BY <1>0, <1>2 DEF Hands, HeldBy, QueueTypeOK
<1>9. OnePlace'
    <2>1. CASE e \in queue /\ held[w] = NoEntry /\ queue' = queue \ {e}
        <3>1. {f.id : f \in {e}} = {e.id} /\ {e} \in SUBSET queue /\ e.id \in Queued
            BY <2>1 DEF Queued
        <3>2. Queued' = Queued \ {e.id}
            BY <1>0, <2>1, <3>1, QueuedWithout
        <3>3. Hands[w] = {}
            BY <2>1, HandOf
        <3>4. Hands' = Hands
            BY <1>8, <3>3 DEF Hands
        <3>5. Placed(IssuedIds, Queued \ {e.id}, Completed \cup {e.id}, handedBack, spilled, Hands)
            BY <3>1, PlacedCancel DEF QueueInv, OnePlace
        <3> QED
            BY <1>3, <1>6, <3>2, <3>4, <3>5 DEF OnePlace
    <2>2. CASE held[w] = e /\ queue' = queue
        <3>1. Hands[w] = {e.id} /\ Queued' = Queued
            BY <1>1, <2>2, HandOf DEF Queued
        <3>2. Placed(IssuedIds, Queued, Completed \cup {e.id}, handedBack, spilled, Hands')
            BY <1>8, <3>1, PlacedComplete DEF QueueInv, OnePlace
        <3> QED
            BY <1>3, <1>6, <3>1, <3>2 DEF OnePlace
    <2> QED
        BY <2>1, <2>2
<1>10. StartsComplete'
    <2>1. Hands[w] \subseteq {e.id}
        BY <1>1, HandOf
    <2>2. InProgress \subseteq InProgress' \cup {e.id}
        BY <1>8, <2>1 DEF InProgress, Hands
    <2> QED
        BY <1>6, <2>2 DEF QueueInv, StartsComplete
<1>11. Told'
    <2>1. workerAt[w] = "reporting" => held[w] = e
        BY <1>0 DEF HandsFull
    <2>2. workerAt'[w] # "reporting"
        BY <1>0, <1>2 DEF QueueTypeOK
    <2>3. \A v \in Workers \ {w} :
              workerAt'[v] = workerAt[v] /\ held'[v] = held[v] /\ requeued'[v] = requeued[v]
        BY <1>0, <1>2 DEF QueueTypeOK
    <2> QED
        BY <1>0, <1>2, <2>1, <2>2, <2>3, CompletionTold DEF QueueInv
<1> QED
    BY <1>3, <1>4, <1>5, <1>7, <1>9, <1>10, <1>11 DEF QueueInv

LEMMA CancelKeeps ==
    ASSUME QueueInv, NEW w \in Workers, NEW status \in {"failed", "skipped"}, Cancel(w, status)
    PROVE  QueueInv'
<1>1. First \in queue
    BY FirstIsQueued DEF QueueInv, Cancel, Takes, QueueTypeOK
<1>2. /\ First \in issued /\ ~PutBack(First) /\ left[w] > 0 /\ held[w] = NoEntry
    BY <1>1, QueuedIsFree DEF QueueInv, HandsFull, Cancel, Takes
<1> QED
    BY <1>1, <1>2, FinishKeeps DEF Cancel

LEMMA HeldEndsKeeps ==
    ASSUME QueueInv, NEW w \in Workers, ToolSucceeds(w) \/ Report(w)
    PROVE  QueueInv'
<1>1. /\ held[w] # NoEntry /\ held[w] \in issued /\ held[w] \in Entry
      /\ left[w] > 0 /\ requeued[w] \in BOOLEAN
    BY HandOf DEF QueueInv, QueueTypeOK, ToolSucceeds, Report
<1>2. PutBack(held[w]) <=> workerAt[w] = "reporting" /\ requeued[w]
    BY <1>1, PutBackIsTold
<1>3. CASE ToolSucceeds(w)
    <2>1. ~PutBack(held[w])
        BY <1>2, <1>3 DEF ToolSucceeds
    <2> QED
        BY <1>1, <1>3, <2>1, FinishKeeps DEF ToolSucceeds, queueVars
<1>4. CASE Report(w)
    <2>1. requeued[w] <=> PutBack(held[w])
        BY <1>2, <1>4 DEF Report
    <2> QED
        BY <1>1, <1>4, <2>1, FinishKeeps DEF Report, queueVars
<1> QED
    BY <1>3, <1>4
-----------------------------------------------------------------------------
(* An entry is pushed, from outside or by a worker. *)

LEMMA PushPlaces ==
    ASSUME QueueInv, NEW e \in Entry, e.id = NextId, CanEnqueue,
           queue' = queue \cup {e}, issued' = issued \cup {e},
           UNCHANGED <<handedBack, ended, held, started, spilled>>
    PROVE  /\ RestingIssued' /\ OnePlace' /\ StartsComplete'
           /\ issued' \subseteq Entry /\ queue' \subseteq issued'
           /\ Cardinality(queue') <= MaxDepth
<1>0. QueueTypeOK /\ IdsGrow
    BY DEF QueueInv
<1>1. /\ Queued' = Queued \cup {e.id} /\ IssuedIds' = IssuedIds \cup {e.id}
      /\ Completed' = Completed /\ Hands' = Hands /\ InProgress' = InProgress
    BY DEF Queued, IssuedIds, Completed, Hands, HeldBy, InProgress
<1>2. e.id \notin IssuedIds
    BY <1>0, NextIdIsNew
<1>3. /\ Queued \cup Completed \cup handedBack \cup spilled \subseteq IssuedIds
      /\ \A w \in Workers : Hands[w] \subseteq IssuedIds
    <2>1. \A w \in Workers : Hands[w] \subseteq IssuedIds
        BY HandOf DEF IssuedIds
    <2>2. Queued \subseteq IssuedIds
        BY <1>0 DEF QueueTypeOK, Queued, IssuedIds
    <2> QED
        BY <2>1, <2>2 DEF QueueInv, RestingIssued
<1>4. OnePlace'
    <2>1. Placed(IssuedIds \cup {e.id}, Queued \cup {e.id}, Completed, handedBack, spilled, Hands)
        BY <1>2, <1>3, PlacedPush DEF QueueInv, OnePlace
    <2> QED
        BY <1>1, <2>1 DEF OnePlace
<1>5. RestingIssued' /\ StartsComplete'
    BY <1>1 DEF QueueInv, RestingIssued, StartsComplete
<1>6. Cardinality(queue') <= MaxDepth
    <2>1. IsFiniteSet(queue)
        BY <1>0, FS_Subset DEF QueueTypeOK, IdsGrow
    <2>2. /\ Cardinality(queue) \in Nat /\ Cardinality(queue') \in Nat
          /\ Cardinality(queue') <= Cardinality(queue) + 1
        BY <2>1, OneMore
    <2> QED
        BY <2>2, QueueAssumption DEF CanEnqueue
<1>7. issued' \subseteq Entry /\ queue' \subseteq issued'
    BY <1>0 DEF QueueTypeOK
<1> QED
    BY <1>4, <1>5, <1>6, <1>7

LEMMA EnqueueKeeps ==
    ASSUME QueueInv, NEW task \in Tasks, NEW priority \in Priorities, Enqueue(task, priority)
    PROVE  QueueInv'
<1>0. QueueTypeOK /\ IdsGrow /\ Lineage /\ HandsFull /\ Told
    BY DEF QueueInv
<1>1. PICK e \in Entry :
          /\ e.id = NextId /\ e.requeues = 0 /\ e.origin = NextId
          /\ queue' = queue \cup {e} /\ issued' = issued \cup {e}
          /\ IdsGrow' /\ Lineage'
    BY EnqueueGrows
<1>2. CanEnqueue /\ UNCHANGED <<closed, handedBack, workerVars, started, ended, spilled>>
    BY DEF Enqueue
<1>3. /\ RestingIssued' /\ OnePlace' /\ StartsComplete'
      /\ issued' \subseteq Entry /\ queue' \subseteq issued'
      /\ Cardinality(queue') <= MaxDepth
    BY <1>1, <1>2, PushPlaces DEF workerVars
<1>4. QueueTypeOK' /\ HandsFull'
    BY <1>0, <1>1, <1>2, <1>3 DEF QueueTypeOK, HandsFull, workerVars
\* The new entry is nobody's successor and has none.
<1>5. \A f \in issued : ~Succeeds(e, f)
    BY <1>0, <1>1, QueueAssumption DEF Succeeds, QueueTypeOK, Entry
<1>6. \A f \in issued : ~Succeeds(f, e)
    BY <1>0, <1>1, NextIdIsNew, FewOrigins DEF Succeeds
<1>7. ~Succeeds(e, e)
    BY <1>1 DEF Succeeds
<1>8. (\A f \in issued : PutBack(f)' <=> PutBack(f)) /\ ~PutBack(e)'
    BY <1>1, <1>5, <1>6, <1>7 DEF PutBack
<1>9. Told'
    <2>1. SuccessorsTold'
        BY <1>0, <1>1, <1>2, <1>8 DEF Told, SuccessorsTold, Completed, workerVars
    <2>2. ReportsTrue'
        <3> SUFFICES ASSUME NEW w \in Workers, workerAt'[w] = "reporting", requeued'[w]
                     PROVE  PutBack(held[w])'
            BY DEF ReportsTrue
        <3>1. PutBack(held[w]) /\ held'[w] = held[w] /\ held[w] \in issued
            BY <1>0, <1>2, HandOf DEF Told, ReportsTrue, workerVars
        <3> QED
            BY <1>8, <3>1 DEF PutBack
    <2>3. RequeueTold'
        <3> SUFFICES ASSUME NEW r \in ended, NEW f \in issued', f.id = r.id
                     PROVE  r.requeued <=> PutBack(f)'
            BY <1>2 DEF RequeueTold, PutBack, Succeeds
        <3>1. f \in issued
            BY <1>0, <1>1, NextIdIsNew DEF QueueInv, RestingIssued, Completed
        <3> QED
            BY <1>0, <1>8, <3>1 DEF Told, RequeueTold, PutBack, Succeeds
    <2> QED
        BY <2>1, <2>2, <2>3 DEF Told
<1> QED
    BY <1>1, <1>3, <1>4, <1>9 DEF QueueInv

LEMMA FailRequeuedKeeps ==
    ASSUME QueueInv, NEW w \in Workers, FailRequeued(w)
    PROVE  QueueInv'
<1>0. QueueTypeOK /\ IdsGrow /\ Lineage /\ HandsFull /\ Told
    BY DEF QueueInv
<1>1. PICK e \in Entry :
          /\ e = Again(held[w]) /\ e.id = NextId /\ Succeeds(e, held[w])
          /\ \A f \in issued : ~Succeeds(f, held[w])
          /\ queue' = queue \cup {e} /\ issued' = issued \cup {e}
          /\ IdsGrow' /\ Lineage'
    BY RequeueGrows
<1>2. /\ CanEnqueue /\ workerAt[w] = "running"
      /\ workerAt' = [workerAt EXCEPT ![w] = "reporting"]
      /\ requeued' = [requeued EXCEPT ![w] = TRUE]
      /\ UNCHANGED <<closed, handedBack, held, attempts, left, started, ended, spilled>>
    BY DEF FailRequeued, ToReport
<1>3. PICK h : h = held[w]
    OBVIOUS
<1>4. /\ h # NoEntry /\ h \in issued /\ h \in Entry /\ h.id \notin Completed
    BY <1>2, <1>3, HandOf
<1>5. /\ RestingIssued' /\ OnePlace' /\ StartsComplete'
      /\ issued' \subseteq Entry /\ queue' \subseteq issued'
      /\ Cardinality(queue') <= MaxDepth
    BY <1>1, <1>2, PushPlaces
<1>6. QueueTypeOK'
    BY <1>0, <1>2, <1>5 DEF QueueTypeOK
<1>7. HandsFull'
    BY <1>0, <1>1, <1>2 DEF HandsFull, QueueTypeOK
\* Of the earlier entries h alone is followed by the new one, which has no
\* successor: nobody has put it back.
<1>8. \A f \in issued : Succeeds(e, f) => f = h
    <2>1. h.requeues \in Nat /\ \A f \in issued : f.requeues \in Nat
        BY <1>0, <1>4, QueueAssumption DEF QueueTypeOK, Entry
    <2>2. ASSUME NEW f \in issued, Succeeds(e, f) PROVE f = h
        <3>1. f.origin = h.origin /\ f.requeues = h.requeues
            BY <1>1, <1>3, <2>1, <2>2 DEF Succeeds
        <3> QED
            BY <1>0, <1>4, <3>1 DEF Lineage
    <2> QED
        BY <2>2
<1>9. ~PutBack(e)'
    <2>1. ~Succeeds(e, e)
        BY <1>1 DEF Succeeds, Entry
    <2>2. ASSUME NEW f \in issued, Succeeds(f, e) PROVE FALSE
        <3>1. e.requeues \in Nat /\ h.requeues \in Nat /\ f.requeues \in Nat
            BY <1>0, <1>4, QueueAssumption DEF QueueTypeOK, Entry
        <3>2. f.origin = h.origin /\ f.requeues = h.requeues + 2
            BY <1>1, <1>3, <2>2, <3>1 DEF Succeeds
        <3>3. PICK d \in issued : Succeeds(f, d)
            BY <3>1, <3>2 DEF QueueInv, Lineage
        <3>4. d.requeues \in Nat
            BY <1>0, QueueAssumption DEF QueueTypeOK, Entry
        <3>5. Succeeds(d, h)
            BY <3>1, <3>2, <3>3, <3>4 DEF Succeeds
        <3> QED
            BY <1>1, <1>3, <3>5
    <2> QED
        BY <1>1, <2>1, <2>2 DEF PutBack
<1>10. \A f \in issued : PutBack(f)' <=> PutBack(f) \/ f = h
    BY <1>1, <1>3, <1>8 DEF PutBack
<1>11. \A v \in Workers : v # w =>
           workerAt'[v] = workerAt[v] /\ held'[v] = held[v] /\ requeued'[v] = requeued[v]
    BY <1>0, <1>2 DEF QueueTypeOK
<1>12. workerAt'[w] = "reporting" /\ held'[w] = h /\ requeued'[w]
    BY <1>0, <1>2, <1>3 DEF QueueTypeOK
<1>13. Told'
    <2>1. SuccessorsTold'
        <3> SUFFICES ASSUME NEW f \in issued', PutBack(f)', f.id \notin Completed'
                     PROVE  \E v \in Workers :
                                workerAt'[v] = "reporting" /\ held'[v] = f /\ requeued'[v]
            BY DEF SuccessorsTold
        <3>1. f \in issued /\ f.id \notin Completed
            BY <1>1, <1>2, <1>9 DEF Completed
        <3>2. CASE f = h
            BY <1>12, <3>2
        <3>3. CASE f # h
            <4>1. PICK v \in Workers : workerAt[v] = "reporting" /\ held[v] = f /\ requeued[v]
                BY <1>0, <1>10, <3>1, <3>3 DEF Told, SuccessorsTold
            <4> QED
                BY <1>2, <1>11, <4>1
        <3> QED
            BY <3>2, <3>3
    <2>2. ReportsTrue'
        <3> SUFFICES ASSUME NEW v \in Workers, workerAt'[v] = "reporting", requeued'[v]
                     PROVE  PutBack(held[v])'
            BY DEF ReportsTrue
        <3>1. CASE v = w
            BY <1>4, <1>10, <1>12, <3>1 DEF PutBack
        <3>2. CASE v # w
            <4>1. PutBack(held[v]) /\ held'[v] = held[v] /\ held[v] \in issued
                BY <1>0, <1>11, <3>2, HandOf DEF Told, ReportsTrue
            <4> QED
                BY <1>10, <4>1 DEF PutBack
        <3> QED
            BY <3>1, <3>2
    <2>3. RequeueTold'
        <3> SUFFICES ASSUME NEW r \in ended, NEW f \in issued', f.id = r.id
                     PROVE  r.requeued <=> PutBack(f)'
            BY <1>2 DEF RequeueTold, PutBack, Succeeds
        <3>1. f.id \in Completed
            BY DEF Completed
        <3>2. f \in issued /\ f # h
            BY <1>0, <1>1, <1>4, <3>1, NextIdIsNew DEF QueueInv, RestingIssued
        <3> QED
            BY <1>0, <1>10, <3>2 DEF Told, RequeueTold, PutBack, Succeeds
    <2> QED
        BY <2>1, <2>2, <2>3 DEF Told
<1> QED
    BY <1>1, <1>5, <1>6, <1>7, <1>13 DEF QueueInv
-----------------------------------------------------------------------------
(* The invariant, and what follows from it. *)

LEMMA QueueInitially == DrainInit => QueueInv
<1> SUFFICES ASSUME DrainInit PROVE QueueInv
    OBVIOUS
<1>1. /\ issued = {} /\ queue = {} /\ ended = {} /\ started = {}
      /\ handedBack = {} /\ spilled = {} /\ closed = FALSE
      /\ held = [w \in Workers |-> NoEntry] /\ workerAt = [w \in Workers |-> "idle"]
      /\ attempts = [w \in Workers |-> 0] /\ requeued = [w \in Workers |-> FALSE]
      /\ left = [w \in Workers |-> 0]
    BY DEF DrainInit
<1>2. IsFiniteSet({}) /\ Cardinality({}) = 0
    BY FS_EmptySet
<1>3. QueueTypeOK
    <2>1. 0 \in Nat /\ 0 <= MaxDepth /\ 0 \in 0..MaxAttempts
        BY QueueAssumption
    <2>2. /\ held \in [Workers -> Entry \cup {NoEntry}]
          /\ workerAt \in [Workers -> {"idle", "looping", "running", "reporting", "rejected"}]
          /\ requeued \in [Workers -> BOOLEAN]
        BY <1>1
    <2>3. attempts \in [Workers -> 0..MaxAttempts] /\ left \in [Workers -> Nat]
        BY <1>1, <2>1
    <2> QED
        BY <1>1, <1>2, <2>1, <2>2, <2>3 DEF QueueTypeOK
<1>4. IdsGrow /\ HandsFull
    BY <1>1, <1>2 DEF IdsGrow, HandsFull
<1>5. Lineage
    <2>1. {e \in issued : e.requeues = 0} = {}
        BY <1>1
    <2> QED
        BY <1>1, <1>2, <2>1, QueueAssumption DEF Lineage, Submits
<1>6. /\ Queued = {} /\ Completed = {} /\ IssuedIds = {}
      /\ Hands = [w \in Workers |-> {}]
    BY <1>1 DEF Queued, Completed, IssuedIds, Hands, HeldBy
<1>7. RestingIssued /\ OnePlace /\ StartsComplete
    BY <1>1, <1>6 DEF RestingIssued, OnePlace, Placed, StartsComplete
<1>8. Told
    BY <1>1 DEF Told, SuccessorsTold, ReportsTrue, RequeueTold
<1> QED
    BY <1>3, <1>4, <1>5, <1>7, <1>8 DEF QueueInv

LEMMA QueueStep == QueueInv /\ [DrainNext]_drainVars => QueueInv'
<1> SUFFICES ASSUME QueueInv, [DrainNext]_drainVars PROVE QueueInv'
    OBVIOUS
<1>1. ASSUME NEW task \in Tasks, NEW priority \in Priorities, Enqueue(task, priority)
      PROVE  QueueInv'
    BY <1>1, EnqueueKeeps
<1>2. ASSUME NEW e \in queue, RemoveById(e) PROVE QueueInv'
    BY <1>2, RemoveByIdKeeps
<1>3. CASE Clear
    BY <1>3, ClearKeeps
<1>4. CASE Close \/ Reopen
    BY <1>4, ClosingKeeps
<1>5. ASSUME NEW w \in Workers, NEW max \in RunLimits, Run(w, max) PROVE QueueInv'
    BY <1>5, RunKeeps
<1>6. ASSUME NEW w \in Workers, Work(w) PROVE QueueInv'
    <2>1. CASE RunEnds(w)
        BY <2>1, RunEndsKeeps
    <2>2. CASE Start(w)
        BY <2>2, StartKeeps
    <2>3. CASE Retry(w)
        BY <2>3, RetryKeeps
    <2>4. CASE ToolSucceeds(w) \/ Report(w)
        BY <2>4, HeldEndsKeeps
    <2>5. ASSUME NEW status \in {"failed", "skipped"}, Cancel(w, status) PROVE QueueInv'
        BY <2>5, CancelKeeps
    <2>6. CASE FailFinally(w)
        BY <2>6, FailFinallyKeeps
    <2>7. CASE FailRequeued(w)
        BY <2>7, FailRequeuedKeeps
    <2>8. CASE FailRequeueThrows(w)
        BY <2>8, FailRequeueThrowsKeeps
    <2> QED
        BY <1>6, <2>1, <2>2, <2>3, <2>4, <2>5, <2>6, <2>7, <2>8 DEF Work
<1>7. CASE UNCHANGED drainVars
    <2>1. QueueTypeOK' /\ HandsFull'
        BY <1>7 DEF QueueInv, QueueTypeOK, HandsFull, drainVars, queueVars, workerVars
    <2> QED
        BY <1>7, <2>1, NothingMovesKeeps DEF drainVars, queueVars, workerVars
<1> QED
    BY <1>1, <1>2, <1>3, <1>4, <1>5, <1>6, <1>7 DEF DrainNext

\* However workers, submitters and removals interleave, the invariant holds.
THEOREM QueueInvHolds == DrainSpec => []QueueInv
BY QueueInitially, QueueStep, PTL DEF DrainSpec

\* The queue, the workers of run() and the ledger only take values the code
\* can give them; the queue never holds more than maxDepth entries.
THEOREM QueueTypesHold == DrainSpec => []QueueTypeOK
<1>1. QueueInv => QueueTypeOK
    BY DEF QueueInv
<1> QED
    BY <1>1, QueueInvHolds, PTL

\* No entry is lost and none is handled twice: processEntry(), removeById(),
\* clear() and _requeue() leave each one in exactly one place.
THEOREM EntriesAccounted == DrainSpec => []Accounted
<1>1. ASSUME QueueInv PROVE Accounted
    <2>1. /\ Resting[1] = Queued /\ Resting[2] = Completed
          /\ Resting[3] = handedBack /\ Resting[4] = spilled
        BY DEF Resting
    <2>2. \A w \in Workers : Hands[w] = HeldBy(w)
        BY DEF Hands
    <2>3. Placed(IssuedIds, Queued, Completed, handedBack, spilled, Hands)
        BY <1>1 DEF QueueInv, OnePlace
    <2>4. \A e \in issued :
              \/ \E i \in 1..4 : e.id \in Resting[i]
              \/ \E w \in Workers : e.id \in HeldBy(w)
        <3> SUFFICES ASSUME NEW e \in issued, \A w \in Workers : e.id \notin HeldBy(w)
                     PROVE  \E i \in 1..4 : e.id \in Resting[i]
            OBVIOUS
        <3>1. \/ e.id \in Resting[1] \/ e.id \in Resting[2]
              \/ e.id \in Resting[3] \/ e.id \in Resting[4]
            BY <2>1, <2>2, <2>3 DEF Placed, IssuedIds
        <3>2. 1 \in 1..4 /\ 2 \in 1..4 /\ 3 \in 1..4 /\ 4 \in 1..4
            OBVIOUS
        <3> QED
            BY <3>1, <3>2
    <2>5. \A i \in 1..4 : i = 1 \/ i = 2 \/ i = 3 \/ i = 4
        OBVIOUS
    <2>6. \A i, j \in 1..4 : i # j => Resting[i] \cap Resting[j] = {}
        <3>1. /\ Resting[1] \cap Resting[2] = {} /\ Resting[1] \cap Resting[3] = {}
              /\ Resting[1] \cap Resting[4] = {} /\ Resting[2] \cap Resting[3] = {}
              /\ Resting[2] \cap Resting[4] = {} /\ Resting[3] \cap Resting[4] = {}
            BY <2>1, <2>3 DEF Placed
        <3> QED
            BY <2>5, <3>1
    <2>7. \A w \in Workers, i \in 1..4 : HeldBy(w) \cap Resting[i] = {}
        <3> SUFFICES ASSUME NEW w \in Workers
                     PROVE  \A i \in 1..4 : HeldBy(w) \cap Resting[i] = {}
            OBVIOUS
        <3>1. /\ HeldBy(w) \cap Resting[1] = {} /\ HeldBy(w) \cap Resting[2] = {}
              /\ HeldBy(w) \cap Resting[3] = {} /\ HeldBy(w) \cap Resting[4] = {}
            BY <2>1, <2>2, <2>3 DEF Placed
        <3> QED
            BY <2>5, <3>1
    <2>8. \A v, w \in Workers : v # w => HeldBy(v) \cap HeldBy(w) = {}
        BY <2>2, <2>3 DEF Placed
    <2> QED
        BY <2>4, <2>6, <2>7, <2>8 DEF Accounted
<1> QED
    BY <1>1, QueueInvHolds, PTL

\* A start recorded by processEntry() is followed by a completion, except for an
\* entry whose requeue found the queue full.
THEOREM StartsAreCompleted == DrainSpec => []StartsComplete
<1>1. QueueInv => StartsComplete
    BY DEF QueueInv
<1> QED
    BY <1>1, QueueInvHolds, PTL

\* A completion of the ledger is marked requeued exactly when _requeue() put the
\* task back.
THEOREM RequeuesTold == DrainSpec => []RequeueTold
<1>1. QueueInv => RequeueTold
    BY DEF QueueInv, Told
<1> QED
    BY <1>1, QueueInvHolds, PTL

\* A task that was submitted once is run at most 1 + maxRequeues times.
THEOREM RunsAreBounded == DrainSpec => []RunsBounded
<1>1. ASSUME QueueInv PROVE RunsBounded
    <2> SUFFICES ASSUME NEW o \in Ids
                 PROVE  Cardinality({e \in issued : e.origin = o /\ e.id \in started})
                            <= MaxRequeues + 1
        BY DEF RunsBounded
    <2> DEFINE runs == {e \in issued : e.origin = o /\ e.id \in started}
               times == 0..MaxRequeues
               count == [e \in runs |-> e.requeues]
    <2>1. IsFiniteSet(times) /\ Cardinality(times) = MaxRequeues + 1
        <3>1. /\ 0 \in Int /\ MaxRequeues \in Int
              /\ ~(0 > MaxRequeues) /\ MaxRequeues - 0 + 1 = MaxRequeues + 1
            BY QueueAssumption
        <3> HIDE DEF runs, count
        <3> QED
            BY <3>1, FS_Interval
    <2>2. count \in Injection(runs, times)
        <3>1. \A e \in runs : count[e] \in times
            BY <1>1 DEF QueueInv, QueueTypeOK, Entry
        <3>2. \A e, f \in runs : count[e] = count[f] => e = f
            BY <1>1 DEF QueueInv, Lineage
        <3>3. count = [e \in runs |-> count[e]]
            OBVIOUS
        <3> HIDE DEF runs, times, count
        <3> QED
            BY <3>1, <3>2, <3>3 DEF Injection, IsInjective
    <2>3. Cardinality(runs) <= Cardinality(times)
        <3> HIDE DEF runs, times, count
        <3> QED
            BY <2>1, <2>2, FS_Injection
    <2> HIDE DEF times
    <2> QED
        BY <2>1, <2>3
<1> QED
    BY <1>1, QueueInvHolds, PTL

\* A worker that lets go of its entry without a completion found the queue open and
\* full, in any interleaving with what closes, reopens and fills it.
THEOREM HeldUntilCompleted == DrainSpec => LostOnlyWhenFull
<1> DEFINE Kept == \A i \in InProgress : i \in InProgress' \cup Completed'
                                          \/ (~closed /\ Cardinality(queue) >= MaxDepth)
<1>1. ASSUME QueueInv, [DrainNext]_drainVars PROVE [Kept]_drainVars
    <2>0. QueueTypeOK /\ HandsFull
        BY <1>1 DEF QueueInv
    <2>1. ASSUME \A v \in Workers : held'[v] = held[v] \/ held[v] = NoEntry PROVE Kept
        BY <2>1 DEF InProgress, HeldBy
    <2>2. ASSUME NEW w \in Workers, \A v \in Workers \ {w} : held'[v] = held[v],
                 held[w] # NoEntry =>
                     held[w].id \in Completed' \/ (~closed /\ Cardinality(queue) >= MaxDepth)
          PROVE  Kept
        <3> SUFFICES ASSUME NEW i \in InProgress
                     PROVE  i \in InProgress' \cup Completed'
                            \/ (~closed /\ Cardinality(queue) >= MaxDepth)
            OBVIOUS
        <3>1. PICK v \in Workers : held[v] # NoEntry /\ i = held[v].id
            BY DEF InProgress, HeldBy
        <3>2. CASE v = w
            BY <2>2, <3>1, <3>2
        <3>3. CASE v # w
            BY <2>2, <3>1, <3>3 DEF InProgress, HeldBy
        <3> QED
            BY <3>2, <3>3
    <2>3. ASSUME NEW w \in Workers, NEW id, NEW status, NEW flag, Finish(w, id, status, flag)
          PROVE  id \in Completed' /\ \A v \in Workers \ {w} : held'[v] = held[v]
        <3>1. PICK r : r = [id |-> id, status |-> status, requeued |-> flag]
            OBVIOUS
        <3>2. r \in ended' /\ r.id = id
            BY <2>3, <3>1 DEF Finish
        <3> QED
            BY <2>0, <2>3, <3>2 DEF Finish, Completed, QueueTypeOK
    <2>4. ASSUME NEW w \in Workers, Takes(w) PROVE held[w] = NoEntry
        BY <2>0, <2>4 DEF Takes, HandsFull
    <2>5. ASSUME NEW w \in Workers, RunEnds(w) \/ Retry(w) \/ FailFinally(w) \/ FailRequeued(w)
          PROVE  Kept
        BY <2>1, <2>5 DEF RunEnds, Retry, FailFinally, FailRequeued, ToReport, workerVars
    <2>6. ASSUME NEW w \in Workers, Start(w) PROVE Kept
        <3>1. held[w] = NoEntry /\ held' = [held EXCEPT ![w] = First]
            BY <2>4, <2>6 DEF Start
        <3> QED
            BY <2>0, <2>1, <3>1 DEF QueueTypeOK
    <2>7. ASSUME NEW w \in Workers, ToolSucceeds(w) \/ Report(w) PROVE Kept
        BY <2>2, <2>3, <2>7 DEF ToolSucceeds, Report
    <2>8. ASSUME NEW w \in Workers, NEW status, Cancel(w, status) PROVE Kept
        BY <2>2, <2>3, <2>4, <2>8 DEF Cancel
    <2>9. ASSUME NEW w \in Workers, FailRequeueThrows(w) PROVE Kept
        <3>1. ~closed /\ ~(Cardinality(queue) < MaxDepth)
            BY <2>9 DEF FailRequeueThrows, MayRequeue, CanEnqueue
        <3>2. Cardinality(queue) \in Nat /\ MaxDepth \in Nat
            BY <1>1, FS_Subset, FS_CardinalityType, QueueAssumption
            DEF QueueInv, IdsGrow, QueueTypeOK
        <3>3. held' = [held EXCEPT ![w] = NoEntry]
            BY <2>9 DEF FailRequeueThrows
        <3> QED
            BY <2>0, <2>2, <3>1, <3>2, <3>3 DEF QueueTypeOK
    <2>10. ASSUME NEW w \in Workers, Work(w) PROVE Kept
        BY <2>5, <2>6, <2>7, <2>8, <2>9, <2>10 DEF Work
    <2>11. ASSUME held' = held PROVE Kept
        BY <2>1, <2>11
    <2> HIDE DEF Kept
    <2> QED
        BY <1>1, <2>10, <2>11
        DEF DrainNext, Enqueue, RemoveById, Clear, Close, Reopen, Run, workerVars
<1> QED
    BY <1>1, QueueInvHolds, PTL DEF DrainSpec, LostOnlyWhenFull
-----------------------------------------------------------------------------
(* The exception of StartsComplete is exact: without requeues, or in a queue *)
(* with room for every task submitted, no entry is lost.                     *)

\* Of the entries of a task all but one have been put back.
OneLive ==
    \A e, f \in issued : e.origin = f.origin /\ ~PutBack(e) /\ ~PutBack(f) => e = f

\* A requeue never finds the queue full.
DeepEnough == ~RequeueOnFailure \/ MaxSubmits <= MaxDepth

\* What a worker runs has not been put back.
LEMMA RunningIsLive ==
    ASSUME QueueInv, NEW w \in Workers, workerAt[w] = "running"
    PROVE  held[w] \in issued /\ held[w] \in Entry /\ ~PutBack(held[w])
<1>1. held[w] # NoEntry /\ held[w] \in issued /\ held[w] \in Entry
    BY DEF QueueInv, HandsFull, QueueTypeOK
<1>2. held[w].id \notin Completed /\ \A v \in Workers : v # w => held[v] # held[w]
    BY <1>1 DEF QueueInv, OnePlace, Placed, Hands, HeldBy
<1> QED
    BY <1>1, <1>2 DEF QueueInv, Told, SuccessorsTold

LEMMA OneLiveStep == QueueInv /\ OneLive /\ [DrainNext]_drainVars => OneLive'
<1> SUFFICES ASSUME QueueInv, OneLive, [DrainNext]_drainVars PROVE OneLive'
    OBVIOUS
<1>0. QueueTypeOK /\ IdsGrow /\ Lineage
    BY DEF QueueInv
<1>1. CASE issued' = issued
    BY <1>1 DEF OneLive, PutBack
<1>2. ASSUME NEW e, issued' = issued \cup {e},
             \A f \in issued : f.origin = e.origin => PutBack(f) \/ Succeeds(e, f)
      PROVE  OneLive'
    <2>1. \A f \in issued : PutBack(f) \/ Succeeds(e, f) => PutBack(f)'
        BY <1>2 DEF PutBack, Succeeds
    <2> QED
        BY <1>2, <2>1 DEF OneLive
<1>3. ASSUME NEW task \in Tasks, NEW priority \in Priorities, Enqueue(task, priority)
      PROVE  OneLive'
    <2>1. PICK e \in Entry : e.origin = NextId /\ issued' = issued \cup {e}
        BY <1>3, EnqueueGrows
    <2>2. \A f \in issued : f.origin # NextId
        BY <1>0, FewOrigins, NextIdIsNew
    <2> QED
        BY <1>2, <2>1, <2>2
<1>4. ASSUME NEW w \in Workers, FailRequeued(w) PROVE OneLive'
    <2>1. PICK e \in Entry : Succeeds(e, held[w]) /\ issued' = issued \cup {e}
        BY <1>4, RequeueGrows
    <2>2. held[w] \in issued /\ ~PutBack(held[w])
        BY <1>4, RunningIsLive DEF FailRequeued
    <2>3. \A f \in issued : f.origin = e.origin => PutBack(f) \/ f = held[w]
        BY <2>1, <2>2 DEF OneLive, Succeeds
    <2> QED
        BY <1>2, <2>1, <2>3
<1>5. ASSUME NEW w \in Workers, Work(w), ~FailRequeued(w) PROVE issued' = issued
    BY <1>5 DEF Work, RunEnds, Start, Retry, ToolSucceeds, Cancel, FailFinally,
                FailRequeueThrows, Report, queueVars
<1> QED
    BY <1>1, <1>3, <1>4, <1>5 DEF DrainNext, RemoveById, Clear, Close, Reopen, Run, queueVars,
                                  drainVars

\* The queue and what a worker runs are entries of different tasks.
LEMMA RoomToRequeue ==
    ASSUME QueueInv, OneLive, MaxSubmits <= MaxDepth, NEW w \in Workers, workerAt[w] = "running"
    PROVE  Cardinality(queue) < MaxDepth
<1> DEFINE h == held[w]
           live == queue \cup {h}
           origin == [e \in live |-> e.origin]
<1>1. QueueTypeOK /\ IdsGrow /\ Lineage /\ queue \subseteq issued /\ IsFiniteSet(queue)
    BY FS_Subset DEF QueueInv, QueueTypeOK, IdsGrow
<1>2. h \in issued /\ ~PutBack(h) /\ h \notin queue /\ \A e \in queue : ~PutBack(e)
    BY RunningIsLive, QueuedIsFree
<1>3. /\ IsFiniteSet(RootIds) /\ Cardinality(RootIds) \in Nat /\ Submits \in Nat
      /\ Cardinality(RootIds) <= Submits /\ Submits <= MaxSubmits
      /\ \A e \in issued : e.origin \in RootIds
    BY <1>1, FewOrigins DEF Lineage
<1>4. origin \in Injection(live, RootIds)
    <2>1. \A e \in live : e \in issued /\ ~PutBack(e) /\ origin[e] = e.origin
        BY <1>1, <1>2
    <2>2. ASSUME NEW e \in live PROVE origin[e] \in RootIds
        BY <1>3, <2>1
    <2>3. ASSUME NEW e \in live, NEW f \in live, origin[e] = origin[f] PROVE e = f
        BY <2>1, <2>3 DEF OneLive
    <2> QED
        BY <2>2, <2>3 DEF Injection, IsInjective
<1> HIDE DEF origin
<1>5. Cardinality(live) <= Cardinality(RootIds) /\ IsFiniteSet(live)
    BY <1>1, <1>3, <1>4, FS_Injection, FS_AddElement
<1>6. Cardinality(live) = Cardinality(queue) + 1 /\ Cardinality(queue) \in Nat
    BY <1>1, <1>2, FS_AddElement, FS_CardinalityType
<1> HIDE DEF live
<1> QED
    BY <1>3, <1>5, <1>6, QueueAssumption

\* Without requeues, or with a queue as deep as the number of tasks submitted, every
\* start has its completion or is under way (queue-worker.js lines 11-12, which
\* queue_full refutes of a queue that is less deep).
THEOREM DeepQueueLosesNothing ==
    ASSUME DeepEnough
    PROVE  DrainSpec => []EveryStartCompletes
<1>1. DrainInit => OneLive /\ spilled = {}
    BY DEF DrainInit, OneLive
<1>2. ASSUME QueueInv, OneLive, spilled = {}, [DrainNext]_drainVars
      PROVE  (spilled = {})'
    <2>1. ASSUME NEW w \in Workers, FailRequeueThrows(w) PROVE FALSE
        <3>1. RequeueOnFailure /\ ~closed /\ workerAt[w] = "running" /\ ~CanEnqueue
            BY <2>1 DEF FailRequeueThrows, MayRequeue
        <3>2. Cardinality(queue) < MaxDepth
            BY <1>2, <3>1, RoomToRequeue DEF DeepEnough
        <3> QED
            BY <3>1, <3>2 DEF CanEnqueue
    <2>2. ASSUME NEW w \in Workers, Work(w) PROVE spilled' = spilled
        BY <2>1, <2>2 DEF Work, RunEnds, Start, Retry, ToolSucceeds, Cancel, FailFinally,
                          FailRequeued, ToReport, Report
    <2> QED
        BY <1>2, <2>2 DEF DrainNext, Enqueue, RemoveById, Clear, Close, Reopen, Run, drainVars
<1>3. QueueInv /\ spilled = {} => EveryStartCompletes
    BY DEF QueueInv, StartsComplete, EveryStartCompletes
<1> QED
    BY <1>1, <1>2, <1>3, QueueInvHolds, OneLiveStep, PTL DEF DrainSpec
-----------------------------------------------------------------------------
(* What RunTerminates rests on. *)

\* What a step of a worker's run does: it ends the run, or it starts or
\* completes an entry for the first time, or it moves on the entry it holds, by
\* one of the attempts it may make or to its report.
RunGoesOn(w) ==
    \/ workerAt'[w] \in {"idle", "rejected"}
    \/ \E i \in Ids : i \notin started /\ i \in started'
    \/ \E i \in Ids : i \notin Completed /\ i \in Completed'
    \/ /\ workerAt[w] = "running" /\ held'[w] = held[w]
       /\ \/ workerAt'[w] = "reporting"
          \/ /\ workerAt'[w] = "running"
             /\ attempts'[w] = attempts[w] + 1 /\ attempts'[w] <= MaxAttempts

\* A completion is the first one of its entry.
LEMMA FinishCompletes ==
    ASSUME NEW w, NEW id \in Ids, id \notin Completed, NEW status, NEW flag,
           Finish(w, id, status, flag)
    PROVE  RunGoesOn(w)
<1>1. PICK r : r = [id |-> id, status |-> status, requeued |-> flag]
    OBVIOUS
<1>2. r \in ended' /\ r.id = id
    BY <1>1 DEF Finish
<1> QED
    BY <1>2 DEF RunGoesOn, Completed

\* No step of anyone takes back a start or a completion, and every step of a run
\* uses up one of the finitely many things it can do: an entry that failed comes
\* back under an id of its own, and there are as many ids as Ids has (lines
\* 184-204).
THEOREM RunsGoOn ==
    DrainSpec => [][/\ started \subseteq started' /\ Completed \subseteq Completed'
                    /\ \A w \in Workers : Work(w) => RunGoesOn(w)]_drainVars
<1>1. ASSUME QueueInv, NEW w \in Workers, Work(w) PROVE RunGoesOn(w)
    <2>0. QueueTypeOK /\ IdsGrow /\ HandsFull
        BY <1>1 DEF QueueInv
    <2>1. ASSUME Takes(w)
          PROVE  First.id \in Ids /\ First.id \notin Completed /\ First.id \notin started
        <3>1. First \in queue
            BY <2>0, <2>1, FirstIsQueued DEF Takes, QueueTypeOK
        <3>2. PICK e \in queue : e = First
            BY <3>1
        <3>3. /\ e.id \in Ids /\ e.id \in Queued /\ e.id \notin Completed
              /\ \A v \in Workers : e.id \notin Hands[v]
            BY <1>1, QueuedIsFree
        <3>4. e.id \notin spilled /\ e.id \notin InProgress
            BY <1>1, <3>3 DEF QueueInv, OnePlace, Placed, Hands, InProgress
        <3> QED
            BY <1>1, <3>2, <3>3, <3>4 DEF QueueInv, StartsComplete
    <2>2. ASSUME workerAt[w] \in {"running", "reporting"}
          PROVE  held[w].id \in Ids /\ held[w].id \notin Completed
        <3>1. held[w] # NoEntry /\ held[w] \in issued
            BY <2>0, <2>2 DEF HandsFull
        <3>2. held[w].id \in Ids /\ held[w].id \in Hands[w]
            BY <2>0, <3>1 DEF QueueTypeOK, Entry, Hands, HeldBy
        <3> QED
            BY <1>1, <3>2 DEF QueueInv, OnePlace, Placed
    <2>3. CASE RunEnds(w) \/ FailRequeueThrows(w)
        BY <2>0, <2>3 DEF RunEnds, FailRequeueThrows, RunGoesOn, QueueTypeOK
    <2>4. CASE Start(w)
        BY <2>1, <2>4 DEF Start, RunGoesOn
    <2>5. CASE Retry(w)
        BY <2>0, <2>5, QueueAssumption DEF Retry, RunGoesOn, QueueTypeOK
    <2>6. CASE ToolSucceeds(w) \/ Report(w)
        BY <2>2, <2>6, FinishCompletes DEF ToolSucceeds, Report
    <2>7. ASSUME NEW status \in {"failed", "skipped"}, Cancel(w, status) PROVE RunGoesOn(w)
        BY <2>1, <2>7, FinishCompletes DEF Cancel
    <2>8. CASE FailFinally(w) \/ FailRequeued(w)
        BY <2>0, <2>8 DEF FailFinally, FailRequeued, ToReport, RunGoesOn, QueueTypeOK
    <2> QED
        BY <1>1, <2>3, <2>4, <2>5, <2>6, <2>7, <2>8 DEF Work
<1>2. ASSUME [DrainNext]_drainVars PROVE started \subseteq started' /\ ended \subseteq ended'
    <2>1. ASSUME NEW w \in Workers, Work(w) PROVE started \subseteq started' /\ ended \subseteq ended'
        BY <2>1 DEF Work, RunEnds, Start, Retry, ToolSucceeds, Cancel, FailFinally, FailRequeued,
                    FailRequeueThrows, Report, ToReport, Finish
    <2> QED
        BY <1>2, <2>1 DEF DrainNext, Enqueue, RemoveById, Clear, Close, Reopen, Run, drainVars
<1>3. ended \subseteq ended' => Completed \subseteq Completed'
    BY DEF Completed
<1>4. ASSUME QueueInv, [DrainNext]_drainVars
      PROVE  [/\ started \subseteq started' /\ Completed \subseteq Completed'
              /\ \A w \in Workers : Work(w) => RunGoesOn(w)]_drainVars
    BY <1>1, <1>2, <1>3, <1>4
<1> QED
    BY <1>4, QueueInvHolds, PTL DEF DrainSpec
=============================================================================
