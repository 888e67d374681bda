---------------------------- MODULE RecordProofs ----------------------------
(***************************************************************************)
(* Proofs about the records that tasks leave: the approval store, for any  *)
(* number of requests, of reviewers and of changes; a queue that is        *)
(* restored from snapshots, for all depths, priorities and numbers of      *)
(* tasks and of restarts; the dependencies of tasks, for every finite map. *)
(***************************************************************************)
EXTENDS ApprovalStore, QueueSnapshot, TaskDependencies, FiniteSetTheorems, FunctionTheorems,
        SequenceTheorems, WellFoundedInduction, TLAPS

-----------------------------------------------------------------------------
(* ApprovalStore. *)

\* How a record stands with what was decided: a record made by resolve() shows one
\* of the decisions, and names its reviewer there and in an export.
ApprovalAccounted(r) ==
    /\ decisions[r] = undone[r] + Shown(records[r])
    /\ \A record \in {records[r], exported[r]} :
          record.resolved => Decided(record) /\ record.reviewer \in Reviewers

ApprovalInv == ApprovalTypeOK /\ \A r \in Requests : ApprovalAccounted(r)
-----------------------------------------------------------------------------
LEMMA ApprovalInitially == ApprovalInit => ApprovalInv
  BY ApprovalAssumption
  DEF ApprovalInit, ApprovalInv, ApprovalTypeOK, ApprovalAccounted, ApprovalRecords, Decided, Shown,
      NoRecords, NoRecord, NotOnce

\* Records that were there, that come out of the export or that resolve() did not
\* make keep the account, whatever they replace.
LEMMA ReplacementsAccounted ==
    ASSUME ApprovalInv, NEW newRecords \in [Requests -> ApprovalRecords], PutInPlace(newRecords),
           \A r \in Requests :
              newRecords[r] \in {records[r], exported[r]} \/ ~newRecords[r].resolved
    PROVE  ApprovalInv'
<1>1. ApprovalTypeOK'
  <2>1. \A r \in Requests : Shown(records[r]) \in Int /\ Shown(newRecords[r]) \in Int
    BY DEF Shown
  <2>2. undone' \in [Requests -> Int]
    BY <2>1 DEF ApprovalInv, ApprovalTypeOK, PutInPlace
  <2> QED
    BY <2>2, ApprovalAssumption DEF ApprovalInv, ApprovalTypeOK, PutInPlace, Changed
<1>2. ASSUME NEW r \in Requests PROVE ApprovalAccounted(r)'
  <2>1. /\ decisions[r] \in Nat /\ undone[r] \in Int /\ ApprovalAccounted(r)
        /\ decisions'[r] = decisions[r] /\ exported'[r] = exported[r]
        /\ records'[r] = newRecords[r]
    BY DEF ApprovalInv, ApprovalTypeOK, PutInPlace, Changed
  <2>2. undone'[r] = undone[r] + Shown(records[r]) - Shown(newRecords[r])
    BY DEF PutInPlace
  <2>3. decisions'[r] = undone'[r] + Shown(records'[r])
    BY <2>1, <2>2 DEF ApprovalAccounted, Shown
  <2>4. \A record \in {records'[r], exported'[r]} :
           record.resolved => Decided(record) /\ record.reviewer \in Reviewers
    BY <2>1 DEF ApprovalAccounted
  <2> QED
    BY <2>3, <2>4 DEF ApprovalAccounted
<1> QED
  BY <1>1, <1>2 DEF ApprovalInv

LEMMA ApprovalStep == ApprovalInv /\ [ApprovalNext]_approvalVars => ApprovalInv'
<1> SUFFICES ASSUME ApprovalInv, [ApprovalNext]_approvalVars PROVE ApprovalInv'
  OBVIOUS
<1>0. records \in [Requests -> ApprovalRecords] /\ exported \in [Requests -> ApprovalRecords]
  BY DEF ApprovalInv, ApprovalTypeOK
<1>1. ASSUME NEW r \in Requests, NEW record \in SavedRecords, SaveRequest(r, record)
      PROVE  ApprovalInv'
  <2> DEFINE asSaved == [status |-> record.status, reviewer |-> record.reviewer, resolved |-> FALSE]
             newRecords == [records EXCEPT ![r] = asSaved]
  <2>1. asSaved \in ApprovalRecords /\ ~asSaved.resolved
    BY ApprovalAssumption DEF ApprovalRecords
  <2>2. newRecords \in [Requests -> ApprovalRecords]
    BY <1>0, <2>1
  <2>3. \A q \in Requests : newRecords[q] = records[q] \/ ~newRecords[q].resolved
    BY <1>0, <2>1
  <2> QED
    BY <1>1, <2>2, <2>3, ReplacementsAccounted DEF SaveRequest
<1>2. ASSUME NEW r \in Requests, NEW d \in {"approved", "rejected"}, NEW v \in Reviewers,
             ResolveRequest(r, d, v)
      PROVE  ApprovalInv'
  <2> DEFINE decision == [status |-> d, reviewer |-> v, resolved |-> TRUE]
             newRecords == [records EXCEPT ![r] = decision]
  <2>1. /\ newRecords \in [Requests -> ApprovalRecords] /\ Changed(newRecords)
        /\ decisions' = [decisions EXCEPT ![r] = @ + 1]
        /\ exported' = exported /\ undone' = undone
        /\ records[r].status = "pending"
    BY <1>0, <1>2 DEF ApprovalRecords, SavedStatuses, ResolveRequest, MayResolve
  <2>2. ApprovalTypeOK'
    BY <2>1, ApprovalAssumption DEF ApprovalInv, ApprovalTypeOK, Changed
  <2>3. ASSUME NEW q \in Requests PROVE ApprovalAccounted(q)'
    <3>1. /\ decisions[q] \in Nat /\ undone[q] \in Int /\ ApprovalAccounted(q)
          /\ decisions'[q] = decisions[q] + (IF q = r THEN 1 ELSE 0)
          /\ exported'[q] = exported[q] /\ undone'[q] = undone[q]
          /\ records'[q] = IF q = r THEN decision ELSE records[q]
      BY <2>1, <1>0 DEF ApprovalInv, ApprovalTypeOK, Changed
    <3>2. CASE q = r
      <4>1. ~records[q].resolved
        BY <2>1, <3>1, <3>2 DEF ApprovalAccounted, Decided
      <4>2. decisions'[q] = undone'[q] + Shown(records'[q])
        BY <3>1, <3>2, <4>1 DEF ApprovalAccounted, Shown
      <4> QED
        BY <3>1, <3>2, <4>2 DEF ApprovalAccounted, Decided
    <3>3. CASE q # r
      BY <3>1, <3>3 DEF ApprovalAccounted
    <3> QED
      BY <3>2, <3>3
  <2> QED
    BY <2>2, <2>3 DEF ApprovalInv
<1>3. CASE ExportRecords
  <2>1. ApprovalTypeOK'
    BY <1>3 DEF ExportRecords, ApprovalInv, ApprovalTypeOK
  <2>2. \A r \in Requests : ApprovalAccounted(r)'
    BY <1>3 DEF ExportRecords, ApprovalInv, ApprovalAccounted
  <2> QED
    BY <2>1, <2>2 DEF ApprovalInv
<1>4. CASE ImportRecords
  <2>1. /\ Merged(exported) \in [Requests -> ApprovalRecords]
        /\ \A r \in Requests : Merged(exported)[r] \in {records[r], exported[r]}
    BY <1>0 DEF Merged
  <2> QED
    BY <1>4, <2>1, ReplacementsAccounted DEF ImportRecords
<1>5. CASE RestartStore
  BY <1>0, <1>5, ReplacementsAccounted DEF RestartStore
<1>6. CASE UNCHANGED approvalVars
  <2>1. ApprovalTypeOK'
    BY <1>6 DEF approvalVars, ApprovalInv, ApprovalTypeOK
  <2>2. \A r \in Requests : ApprovalAccounted(r)'
    BY <1>6 DEF approvalVars, ApprovalInv, ApprovalAccounted
  <2> QED
    BY <2>1, <2>2 DEF ApprovalInv
<1> QED
  BY <1>1, <1>2, <1>3, <1>4, <1>5, <1>6 DEF ApprovalNext
-----------------------------------------------------------------------------
\* However records are saved, decided ones among them, exported, imported and
\* started with, resolve() decides a request once more only after the record of its
\* decision was replaced by one it did not make, and its decision names its reviewer
\* (finance-approval-store.js lines 3-41).
THEOREM DecisionsStand == ApprovalSpec => []DecidedOnce
<1>1. ApprovalInv => DecidedOnce
  BY DEF ApprovalInv, ApprovalAccounted, DecidedOnce
<1> QED
  BY <1>1, ApprovalInitially, ApprovalStep, PTL DEF ApprovalSpec

\* Every record of the approval store keeps its type.
THEOREM ApprovalTypeCorrect == ApprovalSpec => []ApprovalTypeOK
<1>1. ApprovalInv => ApprovalTypeOK
    BY DEF ApprovalInv
<1> QED
    BY <1>1, ApprovalInitially, ApprovalStep, PTL DEF ApprovalSpec
-----------------------------------------------------------------------------
(* QueueSnapshot. *)

\* The queue, or a snapshot of it: sorted, and of two entries the one with the
\* lower id was enqueued first.
Arranged(s) ==
    \A i, j \in 1..Len(s) :
        /\ i < j => Ahead(s[i], s[j])
        /\ s[i].id < s[j].id <=> s[i].task < s[j].task

\* Its entries are tasks that were enqueued, with the ids given for them.
Known(s, ids) ==
    \A i \in 1..Len(s) : s[i].task \in 1..Len(ids) /\ s[i].id = ids[s[i].task]

\* The ids of the tasks that the last restart or restore has not taken away are
\* theirs alone, and behind the sequence.
SnapshotInv ==
    /\ SnapshotTypeOK
    /\ Arranged(items) /\ Arranged(saved.items)
    /\ Known(items, idOf) /\ Known(saved.items, idOf)
    /\ Len(idOf) <= MaxEnqueued /\ sequence <= Len(idOf)
    /\ \A t \in 1..Len(idOf) : idOf[t] <= Len(idOf)
    /\ \A i \in 1..Len(items) : items[i].task \notin stale
    /\ \A t \in (1..Len(idOf)) \ stale : idOf[t] <= sequence
    /\ \A t, u \in (1..Len(idOf)) \ stale : idOf[t] = idOf[u] => t = u
    /\ NothingVanishes
-----------------------------------------------------------------------------
LEMMA LeastExists ==
    ASSUME NEW S \in SUBSET Nat, S # {}
    PROVE  \E n \in S : \A m \in S : n <= m
<1> DEFINE R == OpToRel(<, Nat)
<1>1. PICK n \in S : \A m \in S : ~ (<<m, n>> \in R)
    <2> HIDE DEF R
    <2> QED
        BY NatLessThanWellFounded, WFMin DEF R
<1>2. \A m \in S : ~ (m < n)
    BY <1>1 DEF OpToRel
<1> QED
    BY <1>2

LEMMA LargestExists ==
    ASSUME NEW bound \in Nat, NEW S \in SUBSET (1..bound), S # {}
    PROVE  \E n \in S : \A m \in S : m <= n
<1> DEFINE T == {bound - n : n \in S}
<1>1. T \in SUBSET Nat /\ T # {}
    <2>1. ASSUME NEW n \in S PROVE bound - n \in Nat
        BY n \in 1..bound
    <2> QED
        BY <2>1
<1>2. PICK d \in T : \A e \in T : d <= e
    <2> HIDE DEF T
    <2> QED
        BY <1>1, LeastExists
<1>3. PICK n \in S : d = bound - n
    OBVIOUS
<1>4. ASSUME NEW m \in S PROVE m <= n
    <2>1. bound - n <= bound - m
        BY <1>2, <1>3
    <2> QED
        BY <2>1, n \in 1..bound, m \in 1..bound
<1> QED
    BY <1>4

\* t has entries of s in the order of s.
Thinned(t, s) ==
    \E h \in [1..Len(t) -> 1..Len(s)] :
        /\ \A i, j \in 1..Len(t) : i < j => h[i] < h[j]
        /\ \A i \in 1..Len(t) : t[i] = s[h[i]]

LEMMA ThinnedKeeps ==
    ASSUME NEW s, NEW t, Len(t) \in Nat, Len(s) \in Nat, Thinned(t, s), Arranged(s), NEW ids, Known(s, ids)
    PROVE  /\ Arranged(t) /\ Known(t, ids)
           /\ \A i \in 1..Len(t) : \E j \in 1..Len(s) : t[i] = s[j]
<1>1. PICK h \in [1..Len(t) -> 1..Len(s)] :
          /\ \A i, j \in 1..Len(t) : i < j => h[i] < h[j]
          /\ \A i \in 1..Len(t) : t[i] = s[h[i]]
    BY DEF Thinned
<1>2. \A i \in 1..Len(t) : h[i] \in 1..Len(s)
    BY <1>1
<1>3. Arranged(t)
    BY <1>1, <1>2 DEF Arranged
<1>4. Known(t, ids)
    BY <1>1, <1>2 DEF Known
<1> QED
    BY <1>1, <1>2, <1>3, <1>4

\* What is left without the first n entries.
LEMMA RestThinned ==
    ASSUME NEW S, NEW s \in Seq(S), NEW n \in 1..Len(s)
    PROVE  LET t == SubSeq(s, n + 1, Len(s)) IN
           /\ t \in Seq(S) /\ Len(t) = Len(s) - n /\ Thinned(t, s)
           /\ TasksIn(s) \subseteq TasksIn(SubSeq(s, 1, n)) \cup TasksIn(t)
           /\ TasksIn(SubSeq(s, 1, n)) \subseteq TasksIn(s)
<1> DEFINE t == SubSeq(s, n + 1, Len(s))
           p == SubSeq(s, 1, n)
           h == [i \in 1..Len(t) |-> i + n]
<1>1. /\ t \in Seq(S) /\ Len(t) = Len(s) - n /\ Len(s) \in Nat
      /\ \A i \in 1..Len(t) : t[i] = s[i + n]
    OBVIOUS
<1>2. Len(p) = n /\ \A i \in 1..n : p[i] = s[i]
    OBVIOUS
<1> HIDE DEF t, p
<1>3. \A i \in 1..Len(t) : i + n \in 1..Len(s)
    BY <1>1
<1>4. h \in [1..Len(t) -> 1..Len(s)] /\ \A i, j \in 1..Len(t) : i < j => h[i] < h[j]
    BY <1>1, <1>3
<1>5. Thinned(t, s)
    <2>1. \A i \in 1..Len(t) : t[i] = s[h[i]]
        BY <1>1
    <2> HIDE DEF h
    <2> QED
        BY <1>4, <2>1 DEF Thinned
<1>6. ASSUME NEW i \in 1..Len(s) PROVE s[i].task \in TasksIn(p) \cup TasksIn(t)
    <2>1. CASE i <= n
        <3>1. i \in 1..n
            BY <2>1
        <3> QED
            BY <1>2, <3>1 DEF TasksIn
    <2>2. CASE n < i
        <3>1. i - n \in 1..Len(t) /\ (i - n) + n = i
            BY <1>1, <2>2
        <3>2. t[i - n] = s[i]
            BY <1>1, <3>1
        <3> QED
            BY <3>1, <3>2 DEF TasksIn
    <2> QED
        BY <2>1, <2>2
<1>7. TasksIn(s) \subseteq TasksIn(p) \cup TasksIn(t)
    BY <1>6 DEF TasksIn
<1>8. TasksIn(p) \subseteq TasksIn(s)
    <2>1. \A i \in 1..n : i \in 1..Len(s)
        BY <1>1
    <2> QED
        BY <1>2, <2>1 DEF TasksIn
<1> QED
    BY <1>1, <1>5, <1>7, <1>8 DEF t, p

\* What is left without the n-th entry.
LEMMA RemovedThinned ==
    ASSUME NEW S, NEW s \in Seq(S), NEW n \in 1..Len(s)
    PROVE  LET t == SubSeq(s, 1, n - 1) \o SubSeq(s, n + 1, Len(s)) IN
           /\ t \in Seq(S) /\ Len(t) = Len(s) - 1 /\ Thinned(t, s)
           /\ TasksIn(s) \subseteq TasksIn(t) \cup {s[n].task}
<1> DEFINE p == SubSeq(s, 1, n - 1)
           q == SubSeq(s, n + 1, Len(s))
           t == p \o q
           h == [i \in 1..Len(t) |-> IF i < n THEN i ELSE i + 1]
<1>1. /\ p \in Seq(S) /\ Len(p) = n - 1 /\ Len(s) \in Nat
      /\ \A i \in 1..Len(p) : p[i] = s[i]
    OBVIOUS
<1>2. /\ q \in Seq(S) /\ Len(q) = Len(s) - n
      /\ \A i \in 1..Len(q) : q[i] = s[i + n]
    OBVIOUS
<1> HIDE DEF p, q
<1>0. /\ t \in Seq(S) /\ Len(t) = Len(p) + Len(q)
      /\ \A i \in 1..Len(p) + Len(q) : t[i] = IF i <= Len(p) THEN p[i] ELSE q[i - Len(p)]
    BY <1>1, <1>2, ConcatProperties
<1> HIDE DEF t
<1>3. /\ t \in Seq(S) /\ Len(t) = Len(p) + Len(q)
      /\ \A i \in 1..Len(t) : t[i] = IF i <= Len(p) THEN p[i] ELSE q[i - Len(p)]
    BY <1>0
<1>4. Len(t) = Len(s) - 1 /\ Len(t) \in Nat
    BY <1>1, <1>2, <1>3
<1>5. ASSUME NEW i \in 1..Len(t) PROVE h[i] \in 1..Len(s) /\ t[i] = s[h[i]]
    <2>1. CASE i < n
        <3>1. i \in 1..Len(p) /\ i \in 1..Len(s) /\ i <= Len(p)
            BY <1>1, <2>1
        <3> QED
            BY <1>1, <1>3, <2>1, <3>1
    <2>2. CASE ~(i < n)
        <3>1. i - Len(p) \in 1..Len(q) /\ (i - Len(p)) + n = i + 1 /\ ~(i <= Len(p))
            BY <1>1, <1>2, <1>4, <2>2
        <3>2. i + 1 \in 1..Len(s)
            BY <1>4
        <3> QED
            BY <1>2, <1>3, <2>2, <3>1, <3>2
    <2> QED
        BY <2>1, <2>2
<1>6. \A i, j \in 1..Len(t) : i < j => h[i] < h[j]
    BY <1>4
<1>7. Thinned(t, s)
    <2>1. h \in [1..Len(t) -> 1..Len(s)]
        BY <1>5
    <2> HIDE DEF h
    <2> QED
        BY <1>5, <1>6, <2>1 DEF Thinned
<1>8. ASSUME NEW i \in 1..Len(s), i # n PROVE s[i].task \in TasksIn(t)
    <2>1. CASE i < n
        <3>1. i \in 1..Len(p) /\ i \in 1..Len(t) /\ i <= Len(p)
            BY <1>1, <1>4, <2>1
        <3>2. t[i] = s[i]
            BY <1>1, <1>3, <3>1
        <3> QED
            BY <3>1, <3>2 DEF TasksIn
    <2>2. CASE n < i
        <3>1. i - 1 \in 1..Len(t) /\ h[i - 1] = i
            BY <1>4, <2>2
        <3>2. t[i - 1] = s[i]
            BY <1>5, <3>1
        <3> QED
            BY <3>1, <3>2 DEF TasksIn
    <2> QED
        BY <1>8, <2>1, <2>2
<1>9. TasksIn(s) \subseteq TasksIn(t) \cup {s[n].task}
    BY <1>8 DEF TasksIn
<1> QED
    BY <1>3, <1>4, <1>7, <1>9 DEF t, p, q

\* t is s with e put in after the k-th entry.
Put(t, s, e, k) ==
    /\ t \in Seq(QueueEntries) /\ Len(t) = Len(s) + 1
    /\ \A i \in 1..k : t[i] = s[i]
    /\ t[k + 1] = e
    /\ \A i \in (k + 1)..Len(s) : t[i + 1] = s[i]

LEMMA PutAfter ==
    ASSUME NEW s \in Seq(QueueEntries), NEW e \in QueueEntries, NEW k \in 0..Len(s)
    PROVE  Put(SubSeq(s, 1, k) \o <<e>> \o SubSeq(s, k + 1, Len(s)), s, e, k)
<1> DEFINE p == SubSeq(s, 1, k)
           q == SubSeq(s, k + 1, Len(s))
           m == p \o <<e>>
           t == m \o q
<1>1. /\ p \in Seq(QueueEntries) /\ Len(p) = k /\ Len(s) \in Nat
      /\ \A i \in 1..Len(p) : p[i] = s[i]
    OBVIOUS
<1>2. /\ q \in Seq(QueueEntries) /\ Len(q) = Len(s) - k
      /\ \A i \in 1..Len(q) : q[i] = s[i + k]
    OBVIOUS
<1>3. <<e>> \in Seq(QueueEntries) /\ Len(<<e>>) = 1 /\ <<e>>[1] = e
    OBVIOUS
<1> HIDE DEF p, q
<1>4. /\ m \in Seq(QueueEntries) /\ Len(m) = k + 1
      /\ \A i \in 1..Len(m) : m[i] = IF i <= Len(p) THEN p[i] ELSE <<e>>[i - Len(p)]
    BY <1>1, <1>3, ConcatProperties
<1>5. /\ \A i \in 1..k : m[i] = s[i]
      /\ m[k + 1] = e
    <2>1. k + 1 \in 1..Len(m) /\ ~(k + 1 <= Len(p)) /\ (k + 1) - Len(p) = 1
        BY <1>1, <1>4
    <2>2. \A i \in 1..k : i \in 1..Len(m) /\ i <= Len(p) /\ i \in 1..Len(p)
        BY <1>1, <1>4
    <2>3. m[k + 1] = <<e>>[1]
        BY <1>4, <2>1
    <2> QED
        BY <1>1, <1>3, <1>4, <2>2, <2>3
<1> HIDE DEF m
<1>6. /\ t \in Seq(QueueEntries) /\ Len(t) = Len(m) + Len(q)
      /\ \A i \in 1..Len(t) : t[i] = IF i <= Len(m) THEN m[i] ELSE q[i - Len(m)]
    <2>1. /\ t \in Seq(QueueEntries) /\ Len(t) = Len(m) + Len(q)
          /\ \A i \in 1..Len(m) + Len(q) : t[i] = IF i <= Len(m) THEN m[i] ELSE q[i - Len(m)]
        BY <1>2, <1>4, ConcatProperties, Zenon
    <2> QED
        BY <2>1, Zenon
<1> HIDE DEF t
<1>7. Len(t) = Len(s) + 1
    BY <1>1, <1>2, <1>4, <1>6
<1>8. \A i \in 1..(k + 1) : t[i] = m[i]
    <2>1. \A i \in 1..(k + 1) : i \in 1..Len(t) /\ i <= Len(m)
        BY <1>1, <1>4, <1>7
    <2> QED
        BY <1>6, <2>1
<1>9. ASSUME NEW i \in (k + 1)..Len(s) PROVE t[i + 1] = s[i]
    <2>1. /\ i + 1 \in 1..Len(t) /\ ~(i + 1 <= Len(m))
          /\ (i + 1) - Len(m) = i - k /\ i - k \in 1..Len(q) /\ (i - k) + k = i
        BY <1>1, <1>2, <1>4, <1>7
    <2> QED
        BY <1>2, <1>6, <2>1
<1>10. \A i \in 1..k : i \in 1..(k + 1)
    OBVIOUS
<1>11. k + 1 \in 1..(k + 1)
    OBVIOUS
<1> QED
    BY <1>5, <1>6, <1>7, <1>8, <1>9, <1>10, <1>11 DEF Put, t, m, p, q
-----------------------------------------------------------------------------
(* The entry that enqueue() adds. *)

NewEntry(priority) ==
    [id |-> sequence + 1, task |-> Len(idOf) + 1, priority |-> priority]

LEMMA SnapshotEntry ==
    ASSUME NEW s \in Seq(QueueEntries), NEW i \in 1..Len(s)
    PROVE  /\ s[i] \in QueueEntries /\ s[i].id \in Nat /\ s[i].task \in Nat
           /\ s[i].priority \in Int
<1>1. s[i] \in QueueEntries
    BY ElementOfSeq
<1>2. s[i].id \in 1..MaxEnqueued /\ s[i].task \in 1..MaxEnqueued /\ s[i].priority \in Levels
    BY <1>1 DEF QueueEntries
<1>3. MaxEnqueued \in Nat /\ Levels \subseteq Int
    BY SnapshotAssumption
<1>4. s[i].id \in Nat
    BY <1>2, <1>3
<1>5. s[i].task \in Nat
    BY <1>2, <1>3
<1>6. s[i].priority \in Int
    BY <1>2, <1>3, Zenon
<1> QED
    BY <1>1, <1>4, <1>5, <1>6

LEMMA AheadOrder ==
    ASSUME NEW a \in QueueEntries, NEW b \in QueueEntries, NEW c \in QueueEntries,
           Ahead(a, b)
    PROVE  /\ ~Ahead(b, a)
           /\ Ahead(b, c) => Ahead(a, c)
<1>1. MaxEnqueued \in Nat /\ Levels \subseteq Int
    BY SnapshotAssumption
<1>2. ASSUME NEW e \in QueueEntries PROVE e.id \in Nat /\ e.priority \in Int
    <2>1. e.id \in 1..MaxEnqueued /\ e.priority \in Levels
        BY DEF QueueEntries
    <2>2. e.id \in Nat
        BY <1>1, <2>1
    <2>3. e.priority \in Int
        BY <1>1, <2>1, Zenon
    <2> QED
        BY <2>2, <2>3
<1> QED
    BY <1>2 DEF Ahead

\* The queue is sorted, so there is a place for the new entry ...
LEMMA PlaceExists ==
    ASSUME SnapshotInv, NEW e \in QueueEntries
    PROVE  /\ Place(e) \in 0..Len(items)
           /\ \A i \in 1..Place(e) : Ahead(items[i], e)
           /\ \A i \in (Place(e) + 1)..Len(items) : ~Ahead(items[i], e)
<1> DEFINE Good(k) == /\ \A i \in 1..k : Ahead(items[i], e)
                      /\ \A i \in (k + 1)..Len(items) : ~Ahead(items[i], e)
           S == {i \in 1..Len(items) : ~Ahead(items[i], e)}
<1>1. items \in Seq(QueueEntries) /\ Len(items) \in Nat /\ Arranged(items)
    BY DEF SnapshotInv, SnapshotTypeOK
<1>2. \E k \in 0..Len(items) : Good(k)
    <2>1. CASE S = {}
        <3>1. Good(Len(items)) /\ Len(items) \in 0..Len(items)
            BY <1>1, <2>1
        <3> HIDE DEF Good
        <3> QED
            BY <3>1
    <2>2. CASE S # {}
        <3>1. S \in SUBSET Nat
            BY <1>1
        <3>2. PICK n \in S : \A m \in S : n <= m
            <4> HIDE DEF S
            <4> QED
                BY <2>2, <3>1, LeastExists
        <3>3. n \in 1..Len(items) /\ n - 1 \in 0..Len(items)
            BY <1>1
        <3>4. ASSUME NEW i \in 1..(n - 1) PROVE Ahead(items[i], e)
            <4>1. i \in 1..Len(items) /\ ~(n <= i)
                BY <1>1, <3>3
            <4> QED
                BY <3>2, <4>1
        <3>5. ASSUME NEW i \in ((n - 1) + 1)..Len(items) PROVE ~Ahead(items[i], e)
            <4>1. i \in 1..Len(items) /\ (i = n \/ n < i)
                BY <1>1, <3>3
            <4>2. i = n \/ Ahead(items[n], items[i])
                BY <1>1, <3>3, <4>1 DEF Arranged
            <4>3. items[n] \in QueueEntries /\ items[i] \in QueueEntries
                BY <1>1, <3>3, <4>1, SnapshotEntry
            <4>4. ~Ahead(items[n], e)
                OBVIOUS
            <4> QED
                BY <4>2, <4>3, <4>4, AheadOrder
        <3>6. Good(n - 1)
            BY <3>4, <3>5
        <3> HIDE DEF Good
        <3> QED
            BY <3>3, <3>6
    <2> QED
        BY <2>1, <2>2
<1>3. Place(e) = CHOOSE k \in 0..Len(items) : Good(k)
    BY DEF Place
<1>4. Place(e) \in 0..Len(items) /\ Good(Place(e))
    <2> HIDE DEF Good
    <2> QED
        BY <1>2, <1>3
<1> QED
    BY <1>4

\* ... and the queue with it is sorted again, with the new task behind all others
\* of its priority.
LEMMA PlacedInOrder ==
    ASSUME SnapshotInv, NEW priority \in Levels, Len(idOf) < MaxEnqueued
    PROVE  LET e == NewEntry(priority)
               ids == Append(idOf, sequence + 1)
           IN  /\ e \in QueueEntries
               /\ Placed(e) \in Seq(QueueEntries) /\ Len(Placed(e)) = Len(items) + 1
               /\ Arranged(Placed(e)) /\ Known(Placed(e), ids)
               /\ TasksIn(Placed(e)) = TasksIn(items) \cup {Len(idOf) + 1}
<1> DEFINE e == NewEntry(priority)
           ids == Append(idOf, sequence + 1)
           k == Place(e)
           t == Placed(e)
           n == Len(items)
<1>1. /\ items \in Seq(QueueEntries) /\ n \in Nat /\ Arranged(items) /\ Known(items, idOf)
      /\ idOf \in Seq(1..MaxEnqueued) /\ Len(idOf) \in Nat
      /\ sequence \in Nat /\ sequence <= Len(idOf) /\ MaxEnqueued \in Nat
    BY SnapshotAssumption DEF SnapshotInv, SnapshotTypeOK
<1>2. e.id = sequence + 1 /\ e.task = Len(idOf) + 1 /\ e.priority = priority
    BY DEF NewEntry
<1>3. e \in QueueEntries
    <2>1. sequence + 1 \in 1..MaxEnqueued /\ Len(idOf) + 1 \in 1..MaxEnqueued
        BY <1>1
    <2> QED
        BY <2>1 DEF NewEntry, QueueEntries
<1>4. /\ Len(ids) = Len(idOf) + 1 /\ ids[Len(idOf) + 1] = sequence + 1
      /\ \A u \in 1..Len(idOf) : ids[u] = idOf[u]
    BY <1>1
<1> HIDE DEF e, ids
<1>5. /\ k \in 0..n
      /\ \A i \in 1..k : Ahead(items[i], e)
      /\ \A i \in (k + 1)..n : ~Ahead(items[i], e)
    BY <1>3, PlaceExists
<1>6. t = SubSeq(items, 1, k) \o <<e>> \o SubSeq(items, k + 1, n)
    BY DEF Placed
<1> HIDE DEF k, t
<1>7. /\ t \in Seq(QueueEntries) /\ Len(t) = n + 1
      /\ \A i \in 1..k : t[i] = items[i]
      /\ t[k + 1] = e
      /\ \A i \in (k + 1)..n : t[i + 1] = items[i]
    <2>1. k \in 0..Len(items)
        BY <1>5
    <2>2. Put(t, items, e, k)
        BY <1>1, <1>3, <1>6, <2>1, PutAfter
    <2> QED
        BY <2>2 DEF Put
<1>8. ASSUME NEW i \in 1..n
      PROVE  /\ items[i] \in QueueEntries /\ items[i].id \in Nat /\ items[i].task \in Nat
             /\ items[i].priority \in Int
             /\ items[i].id <= sequence /\ items[i].task <= Len(idOf)
    <2>1. /\ items[i] \in QueueEntries /\ items[i].id \in Nat /\ items[i].task \in Nat
          /\ items[i].priority \in Int
        BY <1>1, SnapshotEntry
    <2>2. items[i].task \in (1..Len(idOf)) \ stale /\ items[i].id = idOf[items[i].task]
        BY DEF SnapshotInv, Known
    <2>3. items[i].id <= sequence
        BY <2>2 DEF SnapshotInv
    <2>4. items[i].task <= Len(idOf)
        BY <2>2
    <2> QED
        BY <2>1, <2>3, <2>4
<1>9. ASSUME NEW i \in (k + 1)..n PROVE Ahead(e, items[i])
    <2>1. i \in 1..n /\ ~Ahead(items[i], e)
        BY <1>1, <1>5
    <2>2. /\ items[i].id \in Nat /\ items[i].priority \in Int /\ items[i].id < sequence + 1
        BY <1>1, <1>8, <2>1
    <2>3. priority \in Int
        BY SnapshotAssumption
    <2> QED
        BY <1>2, <2>1, <2>2, <2>3 DEF Ahead
<1> DEFINE From(i) == IF i <= k THEN i ELSE i - 1
<1>10. ASSUME NEW i \in 1..(n + 1)
       PROVE  \/ i = k + 1 /\ t[i] = e
              \/ /\ i # k + 1 /\ From(i) \in 1..n /\ t[i] = items[From(i)]
                 /\ i < k + 1 => From(i) \in 1..k
                 /\ i > k + 1 => From(i) \in (k + 1)..n
    <2>1. CASE i \in 1..k
        BY <1>1, <1>5, <1>7, <2>1
    <2>2. CASE i = k + 1
        BY <1>7, <2>2
    <2>3. CASE i \in (k + 2)..(n + 1)
        <3>1. i - 1 \in (k + 1)..n /\ (i - 1) + 1 = i /\ ~(i <= k) /\ i # k + 1 /\ ~(i < k + 1)
            BY <1>1, <1>5, <2>3
        <3>2. i - 1 \in 1..n
            BY <1>1, <1>5, <3>1
        <3>3. t[i] = items[i - 1]
            BY <1>7, <3>1
        <3> QED
            BY <3>1, <3>2, <3>3
    <2>4. i \in 1..k \/ i = k + 1 \/ i \in (k + 2)..(n + 1)
        BY <1>1, <1>5
    <2> QED
        BY <2>1, <2>2, <2>3, <2>4
<1>11. ASSUME NEW i \in 1..(n + 1), NEW j \in 1..(n + 1), i < j PROVE Ahead(t[i], t[j])
    <2>1. CASE i = k + 1
        BY <1>5, <1>9, <1>10, <1>11, <2>1
    <2>2. CASE j = k + 1
        BY <1>5, <1>10, <1>11, <2>2
    <2>3. CASE i # k + 1 /\ j # k + 1
        <3>1. From(i) < From(j)
            BY <1>1, <1>5, <1>11, <2>3
        <3>2. t[i] = items[From(i)] /\ t[j] = items[From(j)] /\ From(i) \in 1..n /\ From(j) \in 1..n
            BY <1>10, <2>3
        <3> HIDE DEF From
        <3> QED
            BY <1>1, <3>1, <3>2 DEF Arranged
    <2> QED
        BY <2>1, <2>2, <2>3
<1>12. ASSUME NEW i \in 1..(n + 1), NEW j \in 1..(n + 1)
       PROVE  t[i].id < t[j].id <=> t[i].task < t[j].task
    <2> HIDE DEF From
    <2>1. CASE i = k + 1
        <3>1. t[i].id = sequence + 1 /\ t[i].task = Len(idOf) + 1
            BY <1>2, <1>10, <2>1
        <3>2. CASE j = k + 1
            BY <1>1, <2>1, <3>1, <3>2
        <3>3. CASE j # k + 1
            <4>1. /\ t[j].id \in Nat /\ t[j].id <= sequence
                  /\ t[j].task \in Nat /\ t[j].task <= Len(idOf)
                BY <1>8, <1>10, <3>3
            <4> QED
                BY <1>1, <3>1, <4>1
        <3> QED
            BY <3>2, <3>3
    <2>2. CASE i # k + 1 /\ j = k + 1
        <3>1. t[j].id = sequence + 1 /\ t[j].task = Len(idOf) + 1
            BY <1>2, <1>10, <2>2
        <3>2. /\ t[i].id \in Nat /\ t[i].id <= sequence
              /\ t[i].task \in Nat /\ t[i].task <= Len(idOf)
            BY <1>8, <1>10, <2>2
        <3> QED
            BY <1>1, <3>1, <3>2
    <2>3. CASE i # k + 1 /\ j # k + 1
        BY <1>1, <1>10, <2>3 DEF Arranged
    <2> QED
        BY <2>1, <2>2, <2>3
<1>13. Arranged(t)
    BY <1>7, <1>11, <1>12 DEF Arranged
<1>14. ASSUME NEW i \in 1..(n + 1) PROVE t[i].task \in 1..Len(ids) /\ t[i].id = ids[t[i].task]
    <2> HIDE DEF From
    <2>1. CASE i = k + 1
        <3>1. t[i].task = Len(idOf) + 1 /\ t[i].id = sequence + 1
            BY <1>2, <1>10, <2>1
        <3>2. Len(idOf) + 1 \in 1..Len(ids)
            BY <1>1, <1>4
        <3> QED
            BY <1>4, <3>1, <3>2
    <2>2. CASE i # k + 1
        <3>1. t[i].task \in 1..Len(idOf) /\ t[i].id = idOf[t[i].task]
            BY <1>1, <1>10, <2>2 DEF Known
        <3>2. \A u \in 1..Len(idOf) : u \in 1..Len(ids)
            BY <1>1, <1>4
        <3> QED
            BY <1>4, <3>1, <3>2
    <2> QED
        BY <2>1, <2>2
<1>15. Known(t, ids)
    BY <1>7, <1>14 DEF Known
<1>16. TasksIn(t) = TasksIn(items) \cup {Len(idOf) + 1}
    <2> HIDE DEF From
    <2>1. ASSUME NEW i \in 1..(n + 1) PROVE t[i].task \in TasksIn(items) \cup {Len(idOf) + 1}
        BY <1>2, <1>10 DEF TasksIn
    <2>2. ASSUME NEW i \in 1..n PROVE items[i].task \in TasksIn(t)
        <3>1. CASE i \in 1..k
            <4>1. i \in 1..Len(t)
                BY <1>1, <1>7
            <4> QED
                BY <1>7, <3>1, <4>1 DEF TasksIn
        <3>2. CASE i \in (k + 1)..n
            <4>1. i + 1 \in 1..Len(t)
                BY <1>1, <1>7
            <4> QED
                BY <1>7, <3>2, <4>1 DEF TasksIn
        <3> QED
            BY <1>1, <1>5, <3>1, <3>2
    <2>3. Len(idOf) + 1 \in TasksIn(t)
        <3>1. k + 1 \in 1..Len(t)
            BY <1>1, <1>5, <1>7
        <3> QED
            BY <1>2, <1>7, <3>1 DEF TasksIn
    <2> QED
        BY <1>7, <2>1, <2>2, <2>3 DEF TasksIn
<1> QED
    BY <1>3, <1>7, <1>13, <1>15, <1>16 DEF e, ids, t
-----------------------------------------------------------------------------
(* restore(). *)

LEMMA LargestId ==
    ASSUME NEW s \in Seq(QueueEntries)
    PROVE  /\ \A i \in 1..Len(s) : s[i].id <= Largest(s)
           /\ Largest(s) = 0 \/ \E i \in 1..Len(s) : Largest(s) = s[i].id
<1>1. CASE s = <<>>
    <2>1. Len(s) = 0
        BY <1>1
    <2> QED
        BY <1>1, <2>1 DEF Largest
<1>2. CASE s # <<>>
    <2> DEFINE S == {s[i].id : i \in 1..Len(s)}
               Top(n) == \A i \in 1..Len(s) : s[i].id <= n
    <2>1. S \in SUBSET (1..MaxEnqueued) /\ MaxEnqueued \in Nat
        <3>1. ASSUME NEW i \in 1..Len(s) PROVE s[i].id \in 1..MaxEnqueued
            <4>1. s[i] \in QueueEntries
                BY ElementOfSeq
            <4> QED
                BY <4>1 DEF QueueEntries
        <3> QED
            BY <3>1, SnapshotAssumption
    <2>2. S # {}
        <3>1. Len(s) \in Nat /\ Len(s) # 0
            BY <1>2, EmptySeq, LenProperties
        <3>2. 1 \in 1..Len(s)
            BY <3>1
        <3> QED
            BY <3>2
    <2>3. \E n \in S : \A m \in S : m <= n
        <3> HIDE DEF S
        <3> QED
            BY <2>1, <2>2, LargestExists
    <2>4. \E n \in S : Top(n)
        BY <2>3
    <2>5. Largest(s) = CHOOSE n \in S : Top(n)
        BY <1>2 DEF Largest
    <2>6. Largest(s) \in S /\ Top(Largest(s))
        <3> HIDE DEF S, Top
        <3> QED
            BY <2>4, <2>5
    <2> QED
        BY <2>6
<1> QED
    BY <1>1, <1>2

\* A restart or a restore: what the queue becomes is the snapshot, or nothing.
LEMMA RenewalKeeps ==
    ASSUME SnapshotInv, NEW newItems \in {<<>>, saved.items}, NEW newShut \in BOOLEAN,
           NEW newSequence, newSequence = Largest(newItems),
           Becoming(newItems, newSequence, newShut),
           depth' \in Depths, Len(newItems) <= depth'
    PROVE  SnapshotInv'
<1>1. /\ renewals < MaxRestores /\ renewals' = renewals + 1
      /\ items' = newItems /\ sequence' = newSequence /\ shut' = newShut
      /\ dropped' = (dropped \cup TasksIn(items)) \ TasksIn(newItems)
      /\ stale' = (1..Len(idOf)) \ TasksIn(newItems)
      /\ saved' = saved /\ idOf' = idOf /\ done' = done
    BY DEF Becoming
<1>2. /\ saved \in [taken : BOOLEAN, items : Seq(QueueEntries), shut : BOOLEAN]
      /\ Arranged(saved.items) /\ Known(saved.items, idOf)
      /\ Len(idOf) \in Nat /\ MaxEnqueued \in Nat /\ Len(idOf) <= MaxEnqueued
      /\ \A t \in 1..Len(idOf) : idOf[t] <= Len(idOf) /\ idOf[t] \in Nat
      /\ idOf \in Seq(1..MaxEnqueued)
    <2>1. /\ saved \in [taken : BOOLEAN, items : Seq(QueueEntries), shut : BOOLEAN]
          /\ Arranged(saved.items) /\ Known(saved.items, idOf)
          /\ MaxEnqueued \in Nat /\ idOf \in Seq(1..MaxEnqueued) /\ Len(idOf) <= MaxEnqueued
          /\ \A t \in 1..Len(idOf) : idOf[t] <= Len(idOf)
        BY SnapshotAssumption DEF SnapshotInv, SnapshotTypeOK
    <2>2. Len(idOf) \in Nat
        BY <2>1
    <2>3. \A t \in 1..Len(idOf) : idOf[t] \in 1..MaxEnqueued
        BY <2>1, ElementOfSeq
    <2>4. \A t \in 1..Len(idOf) : idOf[t] \in Nat
        BY <2>1, <2>3
    <2> QED
        BY <2>1, <2>2, <2>4
<1>3. newItems \in Seq(QueueEntries) /\ Arranged(newItems) /\ Known(newItems, idOf)
    <2>1. CASE newItems = <<>>
        <3>1. <<>> \in Seq(QueueEntries) /\ Len(<<>>) = 0
            OBVIOUS
        <3> QED
            BY <2>1, <3>1 DEF Arranged, Known
    <2>2. CASE newItems = saved.items
        BY <1>2, <2>2
    <2> QED
        BY <2>1, <2>2
<1>4. ASSUME NEW i \in 1..Len(newItems)
      PROVE  /\ newItems[i].id \in Nat /\ newItems[i].task \in Nat
             /\ newItems[i].id <= newSequence
             /\ newItems[i].task \in 1..Len(idOf) /\ newItems[i].id = idOf[newItems[i].task]
    BY <1>3, LargestId, SnapshotEntry DEF Known
<1>5. newSequence \in Nat /\ newSequence <= Len(idOf)
    <2>1. CASE newSequence = 0
        BY <1>2, <2>1
    <2>2. CASE \E i \in 1..Len(newItems) : newSequence = newItems[i].id
        BY <1>2, <1>4, <2>2
    <2> QED
        BY <1>3, <2>1, <2>2, LargestId
<1>6. newSequence \in 0..MaxEnqueued
    BY <1>2, <1>5
<1>7. TasksIn(newItems) \subseteq 1..Len(idOf) /\ TasksIn(items) \subseteq 1..Len(idOf)
    BY <1>4 DEF TasksIn, SnapshotInv, Known
<1>8. renewals' \in 0..MaxRestores
    BY <1>1, SnapshotAssumption DEF SnapshotInv, SnapshotTypeOK
<1>9. SnapshotTypeOK'
    BY <1>1, <1>3, <1>6, <1>7, <1>8 DEF SnapshotInv, SnapshotTypeOK
<1>10. \A i \in 1..Len(items') : items'[i].task \notin stale'
    BY <1>1 DEF TasksIn
<1>11. ASSUME NEW t \in (1..Len(idOf)) \ stale'
       PROVE  \E i \in 1..Len(newItems) : t = newItems[i].task
    BY <1>1 DEF TasksIn
<1>12. \A t \in (1..Len(idOf)) \ stale' : idOf[t] <= newSequence
    BY <1>4, <1>11
<1>13. ASSUME NEW t \in (1..Len(idOf)) \ stale', NEW u \in (1..Len(idOf)) \ stale',
              idOf[t] = idOf[u]
       PROVE  t = u
    <2>1. PICK i \in 1..Len(newItems) : t = newItems[i].task
        BY <1>11
    <2>2. PICK j \in 1..Len(newItems) : u = newItems[j].task
        BY <1>11
    <2>3. newItems[i].id = newItems[j].id
        BY <1>4, <1>13, <2>1, <2>2
    <2>4. ~(t < u) /\ ~(u < t)
        BY <1>3, <1>4, <2>1, <2>2, <2>3 DEF Arranged
    <2> QED
        BY <2>4
<1>14. NothingVanishes'
    BY <1>1 DEF SnapshotInv, NothingVanishes
<1> QED
    BY <1>1, <1>2, <1>3, <1>5, <1>9, <1>10, <1>12, <1>13, <1>14 DEF SnapshotInv
-----------------------------------------------------------------------------
LEMMA SnapshotInvInit == SnapshotInit => SnapshotInv
<1> SUFFICES ASSUME SnapshotInit PROVE SnapshotInv
    OBVIOUS
<1>1. /\ items = <<>> /\ saved.items = <<>> /\ idOf = <<>> /\ Len(<<>>) = 0
      /\ <<>> \in Seq(QueueEntries) /\ <<>> \in Seq(1..MaxEnqueued)
    BY DEF SnapshotInit, NotSaved
<1>2. depth \in Nat \ {0} /\ MaxEnqueued \in Nat /\ MaxRestores \in Nat
    BY SnapshotAssumption DEF SnapshotInit
<1>3. /\ sequence = 0 /\ done = {} /\ dropped = {} /\ stale = {} /\ renewals = 0
      /\ depth \in Depths /\ shut = FALSE
      /\ saved = [taken |-> FALSE, items |-> <<>>, shut |-> FALSE]
    BY DEF SnapshotInit, NotSaved
<1>4. SnapshotTypeOK
    <2>1. Len(items) <= depth /\ 0 \in 0..MaxEnqueued /\ 0 \in 0..MaxRestores
        BY <1>1, <1>2
    <2>2. saved \in [taken : BOOLEAN, items : Seq(QueueEntries), shut : BOOLEAN]
        BY <1>1, <1>3
    <2> QED
        BY <1>1, <1>3, <2>1, <2>2 DEF SnapshotTypeOK
<1> QED
    BY <1>1, <1>2, <1>3, <1>4 DEF SnapshotInv, Arranged, Known, NothingVanishes

\* Entries come out: what is left is in order, and what came out is done.
LEMMA LeavingKeeps ==
    ASSUME SnapshotInv, items' \in Seq(QueueEntries), Len(items') <= Len(items),
           Thinned(items', items), done \subseteq done', done' \subseteq 1..Len(idOf),
           TasksIn(items) \subseteq TasksIn(items') \cup done',
           UNCHANGED <<sequence, shut, depth, saved, idOf, dropped, stale, renewals>>
    PROVE  SnapshotInv'
<1>1. Len(items') \in Nat /\ Len(items) \in Nat /\ depth \in Nat
    BY SnapshotAssumption, LenProperties DEF SnapshotInv, SnapshotTypeOK
<1>2. /\ Arranged(items') /\ Known(items', idOf)
      /\ \A i \in 1..Len(items') : \E j \in 1..Len(items) : items'[i] = items[j]
    BY <1>1, ThinnedKeeps DEF SnapshotInv
<1>3. Len(items') <= depth
    BY <1>1 DEF SnapshotInv, SnapshotTypeOK
<1>4. SnapshotTypeOK'
    BY <1>3 DEF SnapshotInv, SnapshotTypeOK
<1>5. \A i \in 1..Len(items') : items'[i].task \notin stale
    BY <1>2 DEF SnapshotInv
<1>6. NothingVanishes'
    BY DEF SnapshotInv, NothingVanishes
<1> QED
    BY <1>2, <1>4, <1>5, <1>6 DEF SnapshotInv

LEMMA SnapshotStep == SnapshotInv /\ [SnapshotNext]_snapshotVars => SnapshotInv'
<1> SUFFICES ASSUME SnapshotInv, [SnapshotNext]_snapshotVars PROVE SnapshotInv'
    OBVIOUS
<1>0. /\ items \in Seq(QueueEntries) /\ Len(items) \in Nat /\ Len(idOf) \in Nat
      /\ depth \in Nat /\ depth \in Depths /\ idOf \in Seq(1..MaxEnqueued)
      /\ MaxEnqueued \in Nat /\ sequence \in Nat
    BY SnapshotAssumption, LenProperties DEF SnapshotInv, SnapshotTypeOK
<1>1. ASSUME NEW p \in Levels, EnqueueTask(p) PROVE SnapshotInv'
    <2> DEFINE e == NewEntry(p)
               n == Len(idOf)
    <2>1. /\ Len(items) < depth /\ n < MaxEnqueued /\ sequence' = sequence + 1
          /\ items' = Placed(e) /\ idOf' = Append(idOf, sequence + 1)
          /\ UNCHANGED <<shut, depth, saved, done, dropped, stale, renewals>>
        BY <1>1 DEF EnqueueTask, NewEntry
    <2>2. /\ items' \in Seq(QueueEntries) /\ Len(items') = Len(items) + 1
          /\ Arranged(items') /\ Known(items', idOf')
          /\ TasksIn(items') = TasksIn(items) \cup {n + 1}
        BY <2>1, PlacedInOrder
    <2>3. /\ Len(idOf') = n + 1 /\ idOf'[n + 1] = sequence + 1
          /\ \A t \in 1..n : idOf'[t] = idOf[t]
        BY <1>0, <2>1
    <2>4. sequence <= n /\ \A t \in 1..n : idOf[t] <= n /\ idOf[t] \in Nat
        BY <1>0, ElementOfSeq DEF SnapshotInv
    <2>5. sequence' <= n + 1 /\ n + 1 <= MaxEnqueued /\ sequence' \in 0..MaxEnqueued
        BY <1>0, <2>1, <2>4
    <2>6. done \cup dropped \cup stale \subseteq 1..n
        BY DEF SnapshotInv, SnapshotTypeOK
    <2>7. 1..(n + 1) = (1..n) \cup {n + 1} /\ n + 1 \notin 1..n
        BY <1>0
    <2> HIDE DEF n, e
    <2>8. \A t \in 1..(n + 1) : idOf'[t] <= n + 1
        BY <1>0, <2>3, <2>4, <2>7, SMTT(30) DEF n
    <2>9. Len(items') <= depth
        BY <1>0, <2>1, <2>2
    <2>10. idOf' \in Seq(1..MaxEnqueued)
        <3>1. sequence + 1 \in 1..MaxEnqueued
            BY <1>0, <2>1, <2>5
        <3> QED
            BY <1>0, <2>1, <3>1
    <2>11. SnapshotTypeOK'
        <3>1. done' \cup dropped' \cup stale' \subseteq 1..Len(idOf')
            BY <2>1, <2>3, <2>6, <2>7
        <3> QED
            BY <2>1, <2>2, <2>5, <2>9, <2>10, <3>1 DEF SnapshotInv, SnapshotTypeOK
    <2>12. \A i \in 1..Len(items') : items'[i].task \notin stale'
        <3>1. TasksIn(items) \cap stale = {}
            BY DEF SnapshotInv, TasksIn
        <3>2. n + 1 \notin stale
            BY <2>6, <2>7
        <3> QED
            BY <2>1, <2>2, <3>1, <3>2 DEF TasksIn
    <2>13. ASSUME NEW t \in (1..(n + 1)) \ stale
           PROVE  \/ t = n + 1 /\ idOf'[t] = sequence + 1
                  \/ /\ t \in (1..n) \ stale /\ idOf'[t] = idOf[t] /\ idOf[t] \in Nat
                     /\ idOf[t] <= sequence
        BY <2>3, <2>4, <2>7 DEF SnapshotInv, n
    <2>14. \A t \in (1..(n + 1)) \ stale : idOf'[t] <= sequence + 1
        BY <1>0, <2>13, SMTT(30)
    <2>15. ASSUME NEW t \in (1..(n + 1)) \ stale, NEW u \in (1..(n + 1)) \ stale,
                  idOf'[t] = idOf'[u]
           PROVE  t = u
        <3>1. CASE t = n + 1
            BY <1>0, <2>3, <2>13, <2>15, <3>1, SMTT(30)
        <3>2. CASE u = n + 1
            BY <1>0, <2>3, <2>13, <2>15, <3>2
        <3>3. CASE t # n + 1 /\ u # n + 1
            BY <2>13, <2>15, <3>3 DEF SnapshotInv, n
        <3> QED
            BY <3>1, <3>2, <3>3
    <2>16. NothingVanishes'
        <3>1. 1..n \subseteq TasksIn(items) \cup done \cup dropped
            BY DEF SnapshotInv, NothingVanishes, n
        <3> QED
            BY <2>1, <2>2, <2>3, <2>7, <3>1 DEF NothingVanishes
    <2>17. Arranged(saved'.items) /\ Known(saved'.items, idOf')
        <3>1. Arranged(saved.items) /\ Known(saved.items, idOf)
            BY DEF SnapshotInv
        <3>2. Known(saved.items, idOf')
            BY <2>3, <2>7, <3>1 DEF Known, n
        <3> QED
            BY <2>1, <3>1, <3>2
    <2> QED
        BY <2>1, <2>2, <2>3, <2>5, <2>8, <2>11, <2>12, <2>14, <2>15, <2>16, <2>17 DEF SnapshotInv
<1>2. ASSUME NEW n \in 1..Len(items), Drain(n) PROVE SnapshotInv'
    <2> DEFINE p == SubSeq(items, 1, n)
               q == SubSeq(items, n + 1, Len(items))
    <2>1. /\ done' = done \cup TasksIn(p) /\ items' = q
          /\ UNCHANGED <<sequence, shut, depth, saved, idOf, dropped, stale, renewals>>
        BY <1>2 DEF Drain
    <2>2. /\ q \in Seq(QueueEntries) /\ Len(q) = Len(items) - n /\ Thinned(q, items)
          /\ TasksIn(items) \subseteq TasksIn(p) \cup TasksIn(q)
          /\ TasksIn(p) \subseteq TasksIn(items)
        BY <1>0, RestThinned
    <2> HIDE DEF p, q
    <2>3. TasksIn(items) \subseteq 1..Len(idOf) /\ done \subseteq 1..Len(idOf)
        BY DEF SnapshotInv, SnapshotTypeOK, Known, TasksIn
    <2>4. Len(items') <= Len(items)
        BY <1>0, <2>1, <2>2
    <2>5. done \subseteq done' /\ done' \subseteq 1..Len(idOf)
        BY <2>1, <2>2, <2>3
    <2>6. TasksIn(items) \subseteq TasksIn(items') \cup done'
        BY <2>1, <2>2
    <2> QED
        BY <2>1, <2>2, <2>4, <2>5, <2>6, LeavingKeeps
<1>3. ASSUME NEW t, RemoveTask(t) PROVE SnapshotInv'
    <2>1. PICK i \in 1..Len(items) :
              /\ items' = SubSeq(items, 1, i - 1) \o SubSeq(items, i + 1, Len(items))
              /\ done' = done \cup {items[i].task}
        BY <1>3 DEF RemoveTask
    <2>2. UNCHANGED <<sequence, shut, depth, saved, idOf, dropped, stale, renewals>>
        BY <1>3 DEF RemoveTask
    <2> DEFINE q == SubSeq(items, 1, i - 1) \o SubSeq(items, i + 1, Len(items))
    <2>3. /\ q \in Seq(QueueEntries) /\ Len(q) = Len(items) - 1 /\ Thinned(q, items)
          /\ TasksIn(items) \subseteq TasksIn(q) \cup {items[i].task}
        BY <1>0, RemovedThinned
    <2> HIDE DEF q
    <2>4. items' = q
        BY <2>1 DEF q
    <2>5. items[i].task \in 1..Len(idOf) /\ done \subseteq 1..Len(idOf)
        BY DEF SnapshotInv, SnapshotTypeOK, Known
    <2>6. Len(items') <= Len(items)
        BY <1>0, <2>3, <2>4
    <2>7. done \subseteq done' /\ done' \subseteq 1..Len(idOf)
        BY <2>1, <2>5
    <2>8. TasksIn(items) \subseteq TasksIn(items') \cup done'
        BY <2>1, <2>3, <2>4
    <2> QED
        BY <2>2, <2>3, <2>4, <2>6, <2>7, <2>8, LeavingKeeps
<1>4. CASE OpenOrClose
    BY <1>4 DEF OpenOrClose, SnapshotInv, SnapshotTypeOK, NothingVanishes
<1>5. CASE TakeSnapshot
    <2>1. /\ saved' = [taken |-> TRUE, items |-> items, shut |-> shut]
          /\ UNCHANGED <<items, sequence, shut, depth, idOf, done, dropped, stale, renewals>>
        BY <1>5 DEF TakeSnapshot
    <2>2. saved'.items = items
        BY <2>1
    <2>3. SnapshotTypeOK'
        BY <2>1 DEF SnapshotInv, SnapshotTypeOK
    <2> QED
        BY <2>1, <2>2, <2>3 DEF SnapshotInv, NothingVanishes
<1>6. CASE Restore
    <2>1. /\ Len(saved.items) <= depth' /\ depth' \in Depths
          /\ Becoming(saved.items, Largest(saved.items), saved.shut)
        BY <1>0, <1>6 DEF Restore, SequenceAfter
    <2>2. saved.shut \in BOOLEAN
        BY DEF SnapshotInv, SnapshotTypeOK
    <2> QED
        BY <2>1, <2>2, RenewalKeeps
<1>7. ASSUME NEW d \in Depths, RestartQueue(d) PROVE SnapshotInv'
    <2>1. Becoming(<<>>, 0, FALSE) /\ depth' = d
        BY <1>7 DEF RestartQueue
    <2>2. Largest(<<>>) = 0
        BY DEF Largest
    <2>3. Len(<<>>) <= depth'
        BY <2>1, SnapshotAssumption
    <2> QED
        BY <2>1, <2>2, <2>3, RenewalKeeps
<1>8. CASE UNCHANGED snapshotVars
    BY <1>8 DEF snapshotVars, SnapshotInv, SnapshotTypeOK, NothingVanishes
<1> QED
    BY <1>1, <1>2, <1>3, <1>4, <1>5, <1>6, <1>7, <1>8 DEF SnapshotNext

\* A queue is the same queue after any snapshots, restarts with any maxDepth and
\* restores: its tasks are served by priority and, within one, in the order in
\* which they were enqueued; an id finds its own task or nothing, unless a
\* restart or restore has taken the task away; and no task vanishes.
THEOREM RestoredQueue == SnapshotSpec => []QueueRestored
<1>1. ASSUME SnapshotInv PROVE ServedInOrder
    <2> SUFFICES ASSUME NEW i \in 1..Len(items), NEW j \in 1..Len(items), i < j
                 PROVE  \/ items[i].priority > items[j].priority
                        \/ /\ items[i].priority = items[j].priority
                           /\ items[i].task < items[j].task
        BY DEF ServedInOrder
    <2> QED
        BY <1>1 DEF SnapshotInv, Arranged, Ahead
<1>2. ASSUME SnapshotInv PROVE IdNamesItsTask
    <2> SUFFICES ASSUME NEW i \in 1..Len(items), NEW t \in 1..Len(idOf),
                        items[i].id = idOf[t], items[i].task # t, t \notin stale
                 PROVE  FALSE
        BY DEF IdNamesItsTask
    <2>1. items[i].task \in (1..Len(idOf)) \ stale /\ items[i].id = idOf[items[i].task]
        BY <1>2 DEF SnapshotInv, Known
    <2> QED
        BY <1>2, <2>1 DEF SnapshotInv
<1>3. SnapshotInv => QueueRestored
    BY <1>1, <1>2 DEF QueueRestored, SnapshotInv
<1> QED
    BY <1>3, SnapshotInvInit, SnapshotStep, PTL DEF SnapshotSpec

\* Queue, snapshot and counters keep their types, through any restarts.
THEOREM SnapshotTypeCorrect == SnapshotSpec => []SnapshotTypeOK
<1>1. SnapshotInv => SnapshotTypeOK
    BY DEF SnapshotInv
<1> QED
    BY <1>1, SnapshotInvInit, SnapshotStep, PTL DEF SnapshotSpec
-----------------------------------------------------------------------------
(* TaskDependencies. *)

\* Each task on the path is the parent of the one before that is being tried.
PathWalks ==
    \A j \in 1..(Len(path) - 1) :
        /\ tried[j] \in 1..Len(ParentsOf(path[j]))
        /\ path[j + 1] = ParentsOf(path[j])[tried[j]]

\* As long as no cycle was found, the parents that were tried are visited, except
\* the one that is being tried.
TriedVisited ==
    /\ \A j \in 1..Len(path) : tried[j] <= Len(ParentsOf(path[j]))
    /\ cycles = <<>> =>
          \A j \in 1..Len(path) : \A i \in 1..tried[j] :
              \/ ParentsOf(path[j])[i] \in visited
              \/ j < Len(path) /\ i = tried[j]

\* No task of a knot is left before a cycle is found.
KnotsUntouched == cycles = <<>> => \A S \in Knots : S \cap visited = {}

OnPath == {path[j] : j \in 1..Len(path)}

AllSearched == path = <<>> /\ roots = {}

\* The search passes over no key.
KeysSearched ==
    /\ Keys \subseteq roots \cup visited \cup OnPath
    /\ stage # "search" => AllSearched

CyclesClosed == \A i \in 1..Len(cycles) : ClosedWalk(SubSeq(cycles[i], 1, Len(cycles[i]) - 1))

SearchInv == PathWalks /\ TriedVisited /\ KnotsUntouched /\ KeysSearched /\ CyclesClosed

Sorted == {order[i] : i \in 1..Len(order)}

\* The sort: what is in order, what may come next, and what every task waits for.
SortInv ==
    /\ \A i, j \in 1..Len(order) : order[i] = order[j] => i = j
    /\ \A i \in 1..Len(order) :
          order[i] = Lowest({t \in Nodes \ Before(i) : ParentSet(t) \subseteq Before(i)})
    /\ \A t \in Sorted : ParentSet(t) \subseteq Sorted
    /\ stage = "search" => order = <<>>
    /\ stage = "sort" =>
          /\ cycles = <<>>
          /\ ready = {t \in Nodes \ Sorted : ParentSet(t) \subseteq Sorted}
          /\ \A t \in TaskIds : indegree[t] = Cardinality(ParentSet(t) \ Sorted)
    /\ stage = "answered" /\ cycles = <<>> => Sorted = Nodes

\* What a caller of dependencyStatus() can complete has no task of a knot.
CompletedInv ==
    /\ \A t \in completed : ParentSet(t) \subseteq completed
    /\ \A S \in Knots : S \cap completed = {}

DependencyInv == DependencyTypeOK /\ SearchInv /\ SortInv /\ CompletedInv
-----------------------------------------------------------------------------
\* The lowest of some tasks is one of them.
LEMMA LowestIn ==
    ASSUME NEW S \in SUBSET Nat, S # {}
    PROVE  Lowest(S) \in S
<1>1. \E t \in S : \A u \in S : t <= u
    BY LeastExists
<1> QED
    BY <1>1 DEF Lowest

\* The lists of a map, and the graph they make.
LEMMA GraphFacts ==
    ASSUME deps \in Maps
    PROVE  /\ Keys \subseteq Nodes /\ Nodes \subseteq TaskIds /\ IsFiniteSet(Nodes)
           /\ \A t \in TaskIds :
                 /\ ParentsOf(t) \in Seq(Nodes)
                 /\ \A i, j \in 1..Len(ParentsOf(t)) : ParentsOf(t)[i] = ParentsOf(t)[j] => i = j
                 /\ ParentSet(t) \subseteq Nodes
                 /\ t \notin Keys => ParentSet(t) = {}
<1>1. \A t \in TaskIds :
         /\ ParentsOf(t) \in Seq(TaskIds)
         /\ \A i, j \in 1..Len(ParentsOf(t)) : ParentsOf(t)[i] = ParentsOf(t)[j] => i = j
    BY DependencyAssumption DEF ParentsOf
<1>2. \A t \in TaskIds : ParentSet(t) \subseteq TaskIds
    BY <1>1 DEF ParentSet
<1>3. Keys \subseteq Nodes /\ Nodes \subseteq TaskIds
    BY <1>2 DEF Keys, Nodes
<1>4. IsFiniteSet(Nodes)
    BY <1>3, DependencyAssumption, FS_Subset
<1>5. ASSUME NEW t \in TaskIds
      PROVE  t \notin Keys => ParentSet(t) = {}
    BY DEF Keys, ParentSet, ParentsOf
<1>6. ASSUME NEW t \in TaskIds
      PROVE  ParentSet(t) \subseteq Nodes
    BY <1>5 DEF Nodes
<1>7. ASSUME NEW t \in TaskIds
      PROVE  ParentsOf(t) \in Seq(Nodes)
    <2>1. \A i \in 1..Len(ParentsOf(t)) : ParentsOf(t)[i] \in Nodes
        BY <1>6 DEF ParentSet
    <2> QED
        BY <1>1, <2>1, SMTT(30)
<1> QED
    BY <1>1, <1>3, <1>4, <1>5, <1>6, <1>7

\* A task has as many parents as its list is long.
LEMMA ParentsCounted ==
    ASSUME deps \in Maps, NEW t \in TaskIds
    PROVE  /\ IsFiniteSet(ParentSet(t))
           /\ Cardinality(ParentSet(t)) = Len(ParentsOf(t))
<1>1. ParentsOf(t) \in Seq(Nodes) /\ Len(ParentsOf(t)) \in Nat
    BY GraphFacts
<1> DEFINE f == [i \in 1..Len(ParentsOf(t)) |-> ParentsOf(t)[i]]
<1>2. f \in Bijection(1..Len(ParentsOf(t)), ParentSet(t))
    <2>1. f \in [1..Len(ParentsOf(t)) -> ParentSet(t)]
        BY DEF ParentSet
    <2>2. \A i, j \in 1..Len(ParentsOf(t)) : f[i] = f[j] => i = j
        BY GraphFacts
    <2>3. \A p \in ParentSet(t) : \E i \in 1..Len(ParentsOf(t)) : f[i] = p
        BY DEF ParentSet
    <2> HIDE DEF f
    <2> QED
        BY <2>1, <2>2, <2>3, Fun_IsBij
<1>3. ExistsBijection(1..Len(ParentsOf(t)), ParentSet(t))
    BY <1>2, Zenon DEF ExistsBijection
<1> QED
    BY <1>1, <1>3, FS_NatBijection, FS_CountingElements

\* Nothing changes the map.
LEMMA GraphStays ==
    ASSUME deps' = deps
    PROVE  /\ \A t : ParentsOf(t)' = ParentsOf(t) /\ ParentSet(t)' = ParentSet(t)
           /\ Keys' = Keys /\ Nodes' = Nodes /\ Knots' = Knots
           /\ \A t : Children(t)' = Children(t)
           /\ \A c : ClosedWalk(c)' <=> ClosedWalk(c)
<1>1. \A t : ParentsOf(t)' = ParentsOf(t)
    BY DEF ParentsOf
<1>2. \A t : ParentSet(t)' = ParentSet(t)
    BY <1>1 DEF ParentSet
<1>3. Keys' = Keys
    BY DEF Keys
<1>4. Nodes' = Nodes
    BY <1>2, <1>3 DEF Nodes
<1>5. Knots' = Knots
    BY <1>2, <1>4 DEF Knots, IsKnot
<1>6. \A t : Children(t)' = Children(t)
    BY <1>2, <1>3 DEF Children
<1>7. \A c : ClosedWalk(c)' <=> ClosedWalk(c)
    BY <1>2 DEF ClosedWalk
<1> QED
    BY <1>1, <1>2, <1>3, <1>4, <1>5, <1>6, <1>7

\* The task whose visit is under way, and the parent it tries next.
LEMMA TopOfPath ==
    ASSUME DependencyTypeOK, path # <<>>
    PROVE  /\ Len(path) \in Nat \ {0} /\ path[Len(path)] \in Nodes
           /\ path[Len(path)] \in TaskIds
           /\ tried[Len(path)] \in Nat
           /\ Untried => /\ NextParent \in Nodes
                         /\ NextParent \in ParentSet(path[Len(path)])
                         /\ tried[Len(path)] + 1 \in 1..Len(ParentsOf(path[Len(path)]))
<1>1. /\ path \in Seq(Nodes) /\ tried \in Seq(Nat) /\ Len(tried) = Len(path)
      /\ Nodes \subseteq TaskIds
    BY GraphFacts DEF DependencyTypeOK
<1> DEFINE n == Len(path)
           ps == ParentsOf(path[n])
<1>2. n \in Nat \ {0} /\ path[n] \in Nodes /\ path[n] \in TaskIds /\ tried[n] \in Nat
    BY <1>1
<1>3. ps \in Seq(Nodes)
    BY <1>2, GraphFacts DEF DependencyTypeOK
<1>4. ASSUME Untried PROVE tried[n] + 1 \in 1..Len(ps)
    <2>1. tried[n] < Len(ps)
        BY <1>4 DEF Untried
    <2> HIDE DEF ps
    <2> QED
        BY <1>2, <1>3, <2>1
<1>5. ASSUME Untried PROVE NextParent \in Nodes /\ NextParent \in ParentSet(path[n])
    BY <1>3, <1>4, <1>5 DEF NextParent, ParentSet
<1> QED
    BY <1>2, <1>4, <1>5
-----------------------------------------------------------------------------
(* The search. *)

LEMMA DependencyInitially == DependencyInit => DependencyInv
<1> SUFFICES ASSUME DependencyInit PROVE DependencyInv
    OBVIOUS
<1> USE DEF DependencyInit
<1>1. DependencyTypeOK
    BY GraphFacts DEF DependencyTypeOK
<1>2. SearchInv
    BY DEF SearchInv, PathWalks, TriedVisited, KnotsUntouched, KeysSearched,
           AllSearched, OnPath, CyclesClosed
<1>3. SortInv
    BY DEF SortInv, Sorted
<1>4. CompletedInv
    BY DEF CompletedInv
<1> QED
    BY <1>1, <1>2, <1>3, <1>4 DEF DependencyInv

LEMMA StartKeepsSearch ==
    ASSUME DependencyTypeOK, SearchInv, StartFrom
    PROVE  DependencyTypeOK' /\ SearchInv'
<1> DEFINE root == Lowest(roots)
<1>1. /\ path = <<>> /\ roots' = roots \ {root} /\ deps' = deps /\ stage = "search"
      /\ visited' = visited /\ cycles' = cycles /\ order' = order /\ indegree' = indegree
      /\ ready' = ready /\ completed' = completed /\ stage' = stage
    BY DEF StartFrom, sortVars
<1>2. root \in roots /\ root \in Keys /\ root \in Nodes
    <2>1. roots \in SUBSET Nat /\ roots # {} /\ roots \subseteq Keys /\ Keys \subseteq Nodes
        BY GraphFacts, DependencyAssumption DEF DependencyTypeOK, StartFrom
    <2> QED
        BY <2>1, LowestIn
<1>3. \/ path' = path /\ tried' = tried /\ root \in visited
      \/ path' = <<root>> /\ tried' = <<0>>
    BY DEF StartFrom
<1>4. DependencyTypeOK'
    <2>1. path' \in Seq(Nodes) /\ tried' \in Seq(Nat) /\ Len(tried') = Len(path')
        <3>1. CASE path' = path /\ tried' = tried
            BY <3>1 DEF DependencyTypeOK
        <3>2. CASE path' = <<root>> /\ tried' = <<0>>
            BY <1>2, <3>2
        <3> QED
            BY <1>3, <3>1, <3>2
    <2> QED
        BY <1>1, <2>1, GraphStays DEF DependencyTypeOK
<1>5. PathWalks' /\ TriedVisited'
    <2>1. CASE path' = path
        BY <1>1, <1>3, <2>1 DEF PathWalks, TriedVisited
    <2>2. CASE path' = <<root>> /\ tried' = <<0>>
        <3>1. \A t : Len(ParentsOf(t)') >= 0 \/ t \notin TaskIds
            BY <1>1, GraphFacts, GraphStays DEF DependencyTypeOK
        <3>2. root \in TaskIds
            BY <1>2, GraphFacts DEF DependencyTypeOK
        <3> QED
            BY <2>2, <3>1, <3>2 DEF PathWalks, TriedVisited
    <2> QED
        BY <1>3, <2>1, <2>2
<1>6. KnotsUntouched' /\ CyclesClosed'
    BY <1>1, GraphStays DEF SearchInv, KnotsUntouched, CyclesClosed
<1>7. KeysSearched'
    <2>1. OnPath = {}
        BY <1>1 DEF OnPath
    <2>2. root \in visited' \cup OnPath'
        BY <1>1, <1>3 DEF OnPath
    <2> QED
        BY <1>1, <2>1, <2>2, GraphStays DEF SearchInv, KeysSearched, AllSearched
<1> QED
    BY <1>4, <1>5, <1>6, <1>7 DEF SearchInv

\* What the attempt at the next parent leaves as it is.
LEMMA TriedOne ==
    ASSUME DependencyTypeOK, path # <<>>, Untried
    PROVE  /\ Tried \in Seq(Nat) /\ Len(Tried) = Len(path)
           /\ Tried[Len(path)] = tried[Len(path)] + 1
           /\ \A j \in 1..(Len(path) - 1) : Tried[j] = tried[j]
    BY TopOfPath DEF DependencyTypeOK, Tried

\* Trying one parent more leaves the walk along the path as it is.
LEMMA WalkStays ==
    ASSUME DependencyTypeOK, PathWalks, path # <<>>, Untried,
           tried' = Tried, path' = path, deps' = deps
    PROVE  PathWalks'
<1> DEFINE Walks(j, ps, i) == i \in 1..Len(ps) /\ path[j + 1] = ps[i]
<1>1. \A j \in 1..(Len(path) - 1) : Tried[j] = tried[j]
    BY TriedOne
<1>2. \A j \in 1..(Len(path) - 1) : Walks(j, ParentsOf(path[j]), tried[j])
    BY DEF PathWalks
<1>3. \A j \in 1..(Len(path) - 1) : Walks(j, ParentsOf(path[j]), Tried[j])
    <2> HIDE DEF Walks
    <2> QED
        BY <1>1, <1>2
<1>4. \A j : ParentsOf(path[j])' = ParentsOf(path[j])
    BY DEF ParentsOf
<1>5. PathWalks' <=>
          \A j \in 1..(Len(path) - 1) : Walks(j, ParentsOf(path[j])', Tried[j])
    BY Zenon DEF PathWalks
<1> HIDE DEF Walks
<1> QED
    BY <1>3, <1>4, <1>5, Zenon

LEMMA TriedInBounds ==
    ASSUME DependencyTypeOK, TriedVisited, path # <<>>, Untried, NEW j \in 1..Len(path)
    PROVE  Tried[j] <= Len(ParentsOf(path[j]))
<1>1. Len(path) \in Nat
    BY DEF DependencyTypeOK
<1>2. CASE j = Len(path)
    BY <1>2, TriedOne, TopOfPath
<1>3. CASE j # Len(path)
    <2>1. Tried[j] = tried[j]
        BY <1>1, <1>3, TriedOne
    <2> QED
        BY <2>1 DEF TriedVisited
<1> QED
    BY <1>2, <1>3

\* A cycle closes at the task on the path that is its own ancestor.
LEMMA CycleCloses ==
    ASSUME DependencyTypeOK, PathWalks, path # <<>>, Untried, NEW i \in PlacesOf(NextParent)
    PROVE  LET c == SubSeq(path, i, Len(path)) \o <<NextParent, NextParent>>
           IN  c \in Seq(Nodes) /\ ClosedWalk(SubSeq(c, 1, Len(c) - 1))
<1> DEFINE p == NextParent
           n == Len(path)
           s == SubSeq(path, i, n)
           c == s \o <<p, p>>
           w == SubSeq(c, 1, Len(c) - 1)
<1>1. path \in Seq(Nodes) /\ n \in Nat \ {0} /\ p \in Nodes /\ p \in ParentSet(path[n])
    BY TopOfPath DEF DependencyTypeOK
<1>2. i \in 1..n /\ path[i] = p
    BY DEF PlacesOf
<1>3. /\ s \in Seq(Nodes) /\ Len(s) = n - i + 1
      /\ \A j \in 1..(n - i + 1) : s[j] = path[i + j - 1]
    BY <1>1, <1>2, SubSeqProperties
<1> HIDE DEF p, s
<1>4. /\ c \in Seq(Nodes) /\ Len(c) = n - i + 3 /\ c[n - i + 2] = p
      /\ \A j \in 1..(n - i + 1) : c[j] = s[j]
    <2>1. <<p, p>> \in Seq(Nodes) /\ Len(<<p, p>>) = 2 /\ <<p, p>>[1] = p
        BY <1>1
    <2>2. /\ c \in Seq(Nodes) /\ Len(c) = Len(s) + Len(<<p, p>>)
          /\ \A j \in 1..Len(s) + Len(<<p, p>>) :
                c[j] = IF j <= Len(s) THEN s[j] ELSE <<p, p>>[j - Len(s)]
        BY <1>3, <2>1, ConcatProperties, Zenon
    <2> HIDE DEF c
    <2>3. Len(c) = n - i + 3 /\ \A j \in 1..(n - i + 1) : c[j] = s[j]
        <3> DEFINE k == n - i + 1
        <3>1. k \in Nat /\ Len(s) = k /\ k + 2 = n - i + 3 /\ Len(s) + Len(<<p, p>>) = k + 2
            BY <1>1, <1>2, <1>3, <2>1
        <3> HIDE DEF k
        <3>2. Len(c) = k + 2 /\ \A j \in 1..k : j \in 1..(k + 2) /\ j <= Len(s)
            BY <2>2, <3>1
        <3>3. \A j \in 1..k : c[j] = s[j]
            BY <2>2, <3>1, <3>2
        <3> QED
            BY <3>1, <3>2, <3>3 DEF k
    <2>4. n - i + 2 \in 1..Len(s) + Len(<<p, p>>) /\ ~(n - i + 2 <= Len(s)) /\ n - i + 2 - Len(s) = 1
        BY <1>1, <1>2, <1>3, <2>1
    <2>5. c[n - i + 2] = p
        BY <2>1, <2>2, <2>4
    <2> QED
        BY <2>2, <2>3, <2>5
<1> HIDE DEF c
<1>5. Len(w) = n - i + 2 /\ \A j \in 1..(n - i + 2) : w[j] = c[j]
    <2>1. 1 \in 1..Len(c) /\ Len(c) - 1 \in 1..Len(c) /\ Len(c) - 1 = n - i + 2
        BY <1>1, <1>2, <1>4
    <2> QED
        BY <1>4, <2>1
<1> HIDE DEF w
<1>6. w[n - i + 2] = p
    BY <1>1, <1>2, <1>4, <1>5
<1>7. \A j \in 1..(n - i + 1) : w[j] = path[i + j - 1]
    BY <1>1, <1>2, <1>3, <1>4, <1>5
<1>8. ASSUME NEW j \in 1..(n - i + 1) PROVE w[j + 1] \in ParentSet(w[j])
    <2>1. CASE j = n - i + 1
        <3>1. j + 1 = n - i + 2 /\ i + j - 1 = n
            BY <1>1, <1>2, <2>1
        <3>2. w[j + 1] = p /\ w[j] = path[n]
            BY <1>6, <1>7, <3>1
        <3> QED
            BY <1>1, <3>2
    <2>2. CASE j # n - i + 1
        <3>1. i + j - 1 \in 1..(n - 1) /\ j + 1 \in 1..(n - i + 1)
            BY <1>1, <1>2, <2>2
        <3>2. path[i + j] \in ParentSet(path[i + j - 1])
            <4> DEFINE k == i + j - 1
            <4>1. k \in 1..(Len(path) - 1) /\ k + 1 = i + j
                BY <1>1, <1>2, <3>1
            <4> HIDE DEF k
            <4>2. path[k + 1] \in ParentSet(path[k])
                BY <4>1 DEF PathWalks, ParentSet
            <4> QED
                BY <4>1, <4>2 DEF k
        <3>3. w[j] = path[i + j - 1] /\ w[j + 1] = path[i + j]
            BY <1>1, <1>2, <1>7, <3>1
        <3> QED
            BY <3>2, <3>3
    <2> QED
        BY <2>1, <2>2
<1>9. ClosedWalk(w)
    <2>1. w[1] = p
        BY <1>1, <1>2, <1>7
    <2>2. Len(w) > 1 /\ Len(w) - 1 = n - i + 1
        BY <1>1, <1>2, <1>5
    <2> QED
        BY <1>5, <1>6, <1>8, <2>1, <2>2 DEF ClosedWalk
<1> QED
    BY <1>4, <1>9 DEF p, s, c, w

LEMMA FindKeepsSearch ==
    ASSUME DependencyTypeOK, SearchInv, FindCycle
    PROVE  DependencyTypeOK' /\ SearchInv'
<1> DEFINE first == Lowest(PlacesOf(NextParent))
           found == SubSeq(path, first, Len(path)) \o <<NextParent, NextParent>>
<1>1. /\ path # <<>> /\ Untried /\ stage = "search"
      /\ tried' = Tried /\ path' = path /\ roots' = roots /\ deps' = deps /\ stage' = stage
      /\ visited' = visited /\ order' = order /\ indegree' = indegree
      /\ ready' = ready /\ completed' = completed
      /\ cycles' = Append(cycles, found)
    BY DEF FindCycle, sortVars
<1>2. first \in PlacesOf(NextParent)
    <2>1. PlacesOf(NextParent) \in SUBSET Nat /\ PlacesOf(NextParent) # {}
        BY DEF PlacesOf, FindCycle, DependencyTypeOK
    <2> QED
        BY <2>1, LowestIn
<1>3. found \in Seq(Nodes) /\ ClosedWalk(SubSeq(found, 1, Len(found) - 1))
    BY <1>1, <1>2, CycleCloses DEF SearchInv
<1> HIDE DEF found
<1>4. /\ cycles' \in Seq(Seq(Nodes)) /\ cycles' # <<>> /\ Len(cycles') = Len(cycles) + 1
      /\ Len(cycles) \in Nat /\ cycles'[Len(cycles) + 1] = found
      /\ \A i \in 1..Len(cycles) : cycles'[i] = cycles[i]
    BY <1>1, <1>3, SMTT(30) DEF DependencyTypeOK
<1>5. DependencyTypeOK'
    BY <1>1, <1>4, TriedOne, GraphStays DEF DependencyTypeOK
<1>6. PathWalks'
    BY <1>1, WalkStays DEF SearchInv
<1>7. TriedVisited'
    <2>1. \A j \in 1..Len(path) : Tried[j] <= Len(ParentsOf(path[j]))
        BY <1>1, TriedInBounds DEF SearchInv
    <2> QED
        BY <1>1, <1>4, <2>1, GraphStays DEF TriedVisited
<1>8. KnotsUntouched' /\ KeysSearched'
    BY <1>1, <1>4, GraphStays DEF SearchInv, KnotsUntouched, KeysSearched, AllSearched, OnPath
<1>9. CyclesClosed'
    <2>1. ASSUME NEW i \in 1..(Len(cycles) + 1)
          PROVE  ClosedWalk(SubSeq(cycles'[i], 1, Len(cycles'[i]) - 1))
        <3>1. CASE i = Len(cycles) + 1
            BY <1>3, <1>4, <3>1
        <3>2. CASE i # Len(cycles) + 1
            BY <1>4, <3>2 DEF SearchInv, CyclesClosed
        <3> QED
            BY <3>1, <3>2
    <2> QED
        BY <1>1, <1>4, <2>1, GraphStays DEF CyclesClosed
<1> QED
    BY <1>5, <1>6, <1>7, <1>8, <1>9 DEF SearchInv

LEMMA SkipKeepsSearch ==
    ASSUME DependencyTypeOK, SearchInv, SkipVisited
    PROVE  DependencyTypeOK' /\ SearchInv'
<1>1. /\ path # <<>> /\ Untried /\ stage = "search" /\ NextParent \in visited
      /\ tried' = Tried /\ path' = path /\ roots' = roots /\ deps' = deps /\ stage' = stage
      /\ visited' = visited /\ order' = order /\ indegree' = indegree /\ cycles' = cycles
      /\ ready' = ready /\ completed' = completed
    BY DEF SkipVisited, sortVars
<1>2. DependencyTypeOK'
    BY <1>1, TriedOne, GraphStays DEF DependencyTypeOK
<1>3. PathWalks'
    BY <1>1, WalkStays DEF SearchInv
<1>4. TriedVisited'
    <2>1. ASSUME NEW j \in 1..Len(path)
          PROVE  /\ Tried[j] <= Len(ParentsOf(path[j]))
                 /\ cycles = <<>> =>
                       \A i \in 1..Tried[j] : \/ ParentsOf(path[j])[i] \in visited
                                              \/ j < Len(path) /\ i = Tried[j]
        <3>1. CASE j = Len(path)
            <4>1. /\ Tried[j] = tried[j] + 1 /\ tried[j] \in Nat
                  /\ Tried[j] <= Len(ParentsOf(path[j]))
                  /\ ParentsOf(path[j])[Tried[j]] \in visited
                BY <1>1, <3>1, TriedOne, TopOfPath DEF NextParent
            <4>2. cycles = <<>> => \A i \in 1..tried[j] : ParentsOf(path[j])[i] \in visited
                BY <3>1 DEF SearchInv, TriedVisited
            <4> QED
                BY <4>1, <4>2
        <3>2. CASE j # Len(path)
            <4>1. Len(path) \in Nat
                BY DEF DependencyTypeOK
            <4>2. Tried[j] = tried[j]
                BY <1>1, <3>2, <4>1, TriedOne
            <4> QED
                BY <4>2 DEF SearchInv, TriedVisited
        <3> QED
            BY <3>1, <3>2
    <2> QED
        BY <1>1, <2>1, GraphStays DEF TriedVisited
<1>5. KnotsUntouched' /\ KeysSearched' /\ CyclesClosed'
    BY <1>1, GraphStays DEF SearchInv, KnotsUntouched, KeysSearched, AllSearched, OnPath, CyclesClosed
<1> QED
    BY <1>2, <1>3, <1>4, <1>5 DEF SearchInv

LEMMA DescendKeepsSearch ==
    ASSUME DependencyTypeOK, SearchInv, Descend
    PROVE  DependencyTypeOK' /\ SearchInv'
<1> DEFINE n == Len(path)
<1>1. /\ path # <<>> /\ Untried /\ stage = "search"
      /\ tried' = Append(Tried, 0) /\ path' = Append(path, NextParent)
      /\ roots' = roots /\ deps' = deps /\ stage' = stage /\ visited' = visited
      /\ order' = order /\ indegree' = indegree /\ cycles' = cycles
      /\ ready' = ready /\ completed' = completed
    BY DEF Descend, sortVars
<1>2. /\ n \in Nat \ {0} /\ NextParent \in Nodes /\ NextParent \in TaskIds
      /\ tried[n] + 1 \in 1..Len(ParentsOf(path[n]))
    BY <1>1, TopOfPath, GraphFacts DEF DependencyTypeOK
<1>3. /\ path' \in Seq(Nodes) /\ Len(path') = n + 1 /\ path'[n + 1] = NextParent
      /\ \A j \in 1..n : path'[j] = path[j]
    BY <1>1, <1>2 DEF DependencyTypeOK
<1>4. /\ tried' \in Seq(Nat) /\ Len(tried') = n + 1 /\ tried'[n + 1] = 0
      /\ tried'[n] = tried[n] + 1 /\ \A j \in 1..n : tried'[j] = Tried[j]
      /\ \A j \in 1..(n - 1) : tried'[j] = tried[j]
    BY <1>1, <1>2, TriedOne
<1>5. DependencyTypeOK'
    BY <1>1, <1>3, <1>4, GraphStays DEF DependencyTypeOK
<1>6. PathWalks'
    <2>1. ASSUME NEW j \in 1..n
          PROVE  tried'[j] \in 1..Len(ParentsOf(path[j])) /\ path'[j + 1] = ParentsOf(path[j])[tried'[j]]
        <3>1. CASE j = n
            BY <1>2, <1>3, <1>4, <3>1 DEF NextParent
        <3>2. CASE j # n
            <4>1. j \in 1..(n - 1) /\ j + 1 \in 1..n
                BY <1>2, <3>2
            <4>2. tried'[j] = tried[j] /\ path'[j + 1] = path[j + 1]
                BY <1>3, <1>4, <4>1
            <4> QED
                BY <4>1, <4>2 DEF SearchInv, PathWalks
        <3> QED
            BY <3>1, <3>2
    <2>2. \A j \in 1..n :
             /\ tried'[j] \in 1..Len(ParentsOf(path'[j]))
             /\ path'[j + 1] = ParentsOf(path'[j])[tried'[j]]
        BY <1>3, <2>1
    <2>3. Len(path') - 1 = n
        BY <1>2, <1>3
    <2>4. \A j : ParentsOf(path[j])' = ParentsOf(path'[j])
        BY <1>1 DEF ParentsOf
    <2>5. \A j \in 1..n :
             /\ tried'[j] \in 1..Len(ParentsOf(path[j])')
             /\ path'[j + 1] = ParentsOf(path[j])'[tried'[j]]
        BY <2>2, <2>4, Zenon
    <2> QED
        BY <2>3, <2>5, Zenon DEF PathWalks
<1>7. TriedVisited'
    <2>1. ASSUME NEW j \in 1..n
          PROVE  /\ tried'[j] <= Len(ParentsOf(path[j]))
                 /\ cycles = <<>> =>
                       \A i \in 1..tried'[j] : \/ ParentsOf(path[j])[i] \in visited
                                               \/ j < n + 1 /\ i = tried'[j]
        <3>1. tried'[j] <= Len(ParentsOf(path[j]))
            BY <1>1, <1>4, TriedInBounds DEF SearchInv
        <3>2. CASE j = n
            <4>1. cycles = <<>> => \A i \in 1..tried[n] : ParentsOf(path[n])[i] \in visited
                BY <1>2 DEF SearchInv, TriedVisited
            <4>2. tried[n] \in Nat /\ j < n + 1
                BY <1>2, <3>2, <1>1, TopOfPath
            <4> QED
                BY <1>4, <3>1, <3>2, <4>1, <4>2
        <3>3. CASE j # n
            <4>1. j \in 1..(n - 1) /\ j < n /\ j < n + 1
                BY <1>2, <3>3
            <4> QED
                BY <1>4, <3>1, <4>1 DEF SearchInv, TriedVisited
        <3> QED
            BY <3>2, <3>3
    <2>2. /\ 0 <= Len(ParentsOf(NextParent))
          /\ \A i \in 1..0 : FALSE
        BY <1>2, GraphFacts DEF DependencyTypeOK
    <2>3. ASSUME NEW j \in 1..(n + 1)
          PROVE  /\ tried'[j] <= Len(ParentsOf(path'[j]))
                 /\ cycles = <<>> =>
                       \A i \in 1..tried'[j] : \/ ParentsOf(path'[j])[i] \in visited
                                               \/ j < n + 1 /\ i = tried'[j]
        <3>1. CASE j = n + 1
            BY <1>3, <1>4, <2>2, <3>1
        <3>2. CASE j \in 1..n
            BY <1>3, <2>1, <3>2
        <3> QED
            BY <1>2, <3>1, <3>2
    <2> QED
        BY <1>1, <1>3, <2>3, GraphStays DEF TriedVisited
<1>8. KnotsUntouched' /\ CyclesClosed'
    BY <1>1, GraphStays DEF SearchInv, KnotsUntouched, CyclesClosed
<1>9. KeysSearched'
    <2>1. OnPath \subseteq OnPath'
        BY <1>2, <1>3 DEF OnPath
    <2> QED
        BY <1>1, <2>1, GraphStays DEF SearchInv, KeysSearched, AllSearched
<1> QED
    BY <1>5, <1>6, <1>7, <1>8, <1>9 DEF SearchInv

LEMMA LeaveKeepsSearch ==
    ASSUME DependencyTypeOK, SearchInv, Leave
    PROVE  DependencyTypeOK' /\ SearchInv'
<1> DEFINE n == Len(path)
           node == path[n]
<1>1. /\ path # <<>> /\ ~Untried /\ stage = "search"
      /\ tried' = SubSeq(tried, 1, n - 1) /\ path' = SubSeq(path, 1, n - 1)
      /\ roots' = roots /\ deps' = deps /\ stage' = stage /\ visited' = visited \cup {node}
      /\ order' = order /\ indegree' = indegree /\ cycles' = cycles
      /\ ready' = ready /\ completed' = completed
    BY DEF Leave, sortVars
<1>2. n \in Nat \ {0} /\ node \in Nodes /\ node \in TaskIds
    BY <1>1, TopOfPath
<1>3. /\ path' \in Seq(Nodes) /\ Len(path') = n - 1 /\ \A j \in 1..(n - 1) : path'[j] = path[j]
      /\ tried' \in Seq(Nat) /\ Len(tried') = n - 1 /\ \A j \in 1..(n - 1) : tried'[j] = tried[j]
    BY <1>1, <1>2, SMTT(30) DEF DependencyTypeOK
<1>4. DependencyTypeOK'
    BY <1>1, <1>2, <1>3, GraphStays DEF DependencyTypeOK
<1>5. PathWalks'
    <2>1. \A j \in 1..((n - 1) - 1) : j \in 1..(n - 1) /\ j + 1 \in 1..(n - 1)
        BY <1>2
    <2> QED
        BY <1>1, <1>3, <2>1, GraphStays DEF SearchInv, PathWalks
<1>6. TriedVisited'
    <2>1. ASSUME NEW j \in 1..(n - 1)
          PROVE  /\ tried[j] <= Len(ParentsOf(path[j]))
                 /\ cycles = <<>> =>
                       \A i \in 1..tried[j] : \/ ParentsOf(path[j])[i] \in visited \cup {node}
                                              \/ j < n - 1 /\ i = tried[j]
        <3>1. tried[j] <= Len(ParentsOf(path[j]))
            BY <1>2 DEF SearchInv, TriedVisited
        <3>2. ASSUME cycles = <<>>, NEW i \in 1..tried[j], ~(j < n - 1 /\ i = tried[j])
              PROVE  ParentsOf(path[j])[i] \in visited \cup {node}
            <4>1. ParentsOf(path[j])[i] \in visited \/ i = tried[j]
                BY <1>2, <3>2 DEF SearchInv, TriedVisited
            <4>2. CASE i = tried[j]
                <5>1. j + 1 = n
                    BY <1>2, <3>2, <4>2
                <5> QED
                    BY <4>2, <5>1 DEF SearchInv, PathWalks
            <4> QED
                BY <4>1, <4>2
        <3> QED
            BY <3>1, <3>2
    <2> QED
        BY <1>1, <1>3, <2>1, GraphStays DEF TriedVisited
<1>7. KnotsUntouched'
    <2>1. SUFFICES ASSUME cycles = <<>>, NEW S \in Knots, node \in S
                   PROVE  FALSE
        BY <1>1, GraphStays DEF SearchInv, KnotsUntouched
    <2>2. PICK p \in ParentSet(node) : p \in S
        BY <2>1 DEF Knots, IsKnot
    <2>3. PICK i \in 1..Len(ParentsOf(node)) : p = ParentsOf(node)[i]
        BY <2>2 DEF ParentSet
    <2>4. i \in 1..tried[n]
        <3>1. tried[n] \in Nat /\ Len(ParentsOf(node)) \in Nat /\ ~(tried[n] < Len(ParentsOf(node)))
            BY <1>1, <1>2, TopOfPath, GraphFacts DEF DependencyTypeOK, Untried
        <3> QED
            BY <3>1
    <2>5. p \in visited
        BY <1>2, <2>1, <2>3, <2>4 DEF SearchInv, TriedVisited
    <2> QED
        BY <2>1, <2>2, <2>5 DEF SearchInv, KnotsUntouched
<1>8. CyclesClosed'
    BY <1>1, GraphStays DEF SearchInv, CyclesClosed
<1>9. KeysSearched'
    <2>1. OnPath \subseteq OnPath' \cup {node}
        <3>1. ASSUME NEW j \in 1..n PROVE path[j] \in OnPath' \cup {node}
            <4>1. CASE j = n
                BY <4>1
            <4>2. CASE j # n
                <5>1. j \in 1..(n - 1)
                    BY <1>2, <4>2
                <5> QED
                    BY <1>3, <5>1 DEF OnPath
            <4> QED
                BY <4>1, <4>2
        <3> QED
            BY <3>1 DEF OnPath
    <2> QED
        BY <1>1, <2>1, GraphStays DEF SearchInv, KeysSearched, AllSearched
<1> QED
    BY <1>4, <1>5, <1>6, <1>7, <1>8, <1>9 DEF SearchInv
-----------------------------------------------------------------------------
(* What the search has found at its end. *)

LEMMA NoKnotIsLeft ==
    ASSUME DependencyTypeOK, SearchInv, path = <<>>, roots = {}, cycles = <<>>
    PROVE  Knots = {}
<1> SUFFICES ASSUME NEW S \in Knots PROVE FALSE
    OBVIOUS
<1>1. PICK t \in S : ParentSet(t) \cap S # {}
    BY DEF Knots, IsKnot
<1>2. t \in Keys
    BY <1>1, GraphFacts DEF Knots, DependencyTypeOK
<1>3. t \in visited
    BY <1>2 DEF SearchInv, KeysSearched, AllSearched, OnPath
<1> QED
    BY <1>1, <1>3 DEF SearchInv, KnotsUntouched

\* The tasks of a closed walk are a knot.
LEMMA WalkIsKnot ==
    ASSUME DependencyTypeOK, NEW c \in Seq(Nodes), ClosedWalk(c)
    PROVE  Knots # {}
<1> DEFINE S == {c[i] : i \in 1..Len(c)}
<1>1. /\ Len(c) \in Nat /\ Len(c) > 1 /\ c[1] = c[Len(c)]
      /\ \A i \in 1..(Len(c) - 1) : c[i + 1] \in ParentSet(c[i])
    BY DEF ClosedWalk
<1>2. ASSUME NEW i \in 1..Len(c) PROVE ParentSet(c[i]) \cap S # {}
    <2>1. CASE i < Len(c)
        <3>1. i + 1 \in 1..Len(c) /\ i \in 1..(Len(c) - 1)
            BY <1>1, <2>1
        <3> QED
            BY <1>1, <3>1
    <2>2. CASE ~(i < Len(c))
        <3>1. i = Len(c) /\ 1 \in 1..(Len(c) - 1) /\ 1 + 1 \in 1..Len(c)
            BY <1>1, <2>2
        <3>2. c[1 + 1] \in ParentSet(c[i])
            BY <1>1, <3>1
        <3> QED
            BY <3>1, <3>2
    <2> QED
        BY <2>1, <2>2
<1>3. S \in SUBSET Nodes /\ S # {}
    BY <1>1
<1>4. \A t \in S : ParentSet(t) \cap S # {}
    BY <1>2
<1> HIDE DEF S
<1> QED
    BY <1>3, <1>4 DEF Knots, IsKnot

LEMMA CycleIsKnot ==
    ASSUME DependencyTypeOK, SearchInv, cycles # <<>>
    PROVE  Knots # {}
<1> DEFINE w == SubSeq(cycles[1], 1, Len(cycles[1]) - 1)
<1>1. cycles[1] \in Seq(Nodes) /\ 1 \in 1..Len(cycles)
    BY DEF DependencyTypeOK
<1>2. ClosedWalk(w)
    BY <1>1 DEF SearchInv, CyclesClosed
<1>3. w \in Seq(Nodes)
    <2>1. Len(w) > 1 
        BY <1>2 DEF ClosedWalk
    <2>2. Len(cycles[1]) \in Nat
        BY <1>1
    <2> QED
        BY <1>1, <2>2, SubSeqProperties
<1> HIDE DEF w
<1> QED
    BY <1>2, <1>3, WalkIsKnot

LEMMA CyclesFound ==
    ASSUME DependencyTypeOK, SearchInv
    PROVE  CyclesAreFound
<1>1. stage # "search" => (cycles = <<>> <=> Knots = {})
    BY NoKnotIsLeft, CycleIsKnot DEF SearchInv, KeysSearched, AllSearched
<1> QED
    BY <1>1 DEF CyclesAreFound, SearchInv, CyclesClosed
-----------------------------------------------------------------------------
(* The sort. *)

LEMMA OneMissing ==
    ASSUME NEW S, IsFiniteSet(S), NEW x \in S
    PROVE  /\ Cardinality(S) \in Nat \ {0} /\ Cardinality(S \ {x}) = Cardinality(S) - 1
           /\ Cardinality(S) = 1 <=> S = {x}
<1>1. /\ Cardinality(S) \in Nat /\ IsFiniteSet(S \ {x})
      /\ Cardinality(S \ {x}) = Cardinality(S) - 1 /\ Cardinality(S \ {x}) \in Nat
    BY FS_CardinalityType, FS_RemoveElement
<1>2. Cardinality(S \ {x}) = 0 <=> S \ {x} = {}
    BY <1>1, FS_EmptySet
<1> QED
    BY <1>1, <1>2

\* The steps of the search leave the sort alone.
LEMMA SearchKeepsSort ==
    ASSUME DependencyTypeOK, SortInv, stage = "search", UNCHANGED <<deps, stage, sortVars>>
    PROVE  SortInv'
<1>1. order' = <<>> /\ stage' = "search"
    BY DEF SortInv, sortVars
<1> QED
    BY <1>1 DEF SortInv, Sorted

LEMMA StartSortStarts ==
    ASSUME DependencyTypeOK, SearchInv, SortInv, StartSort
    PROVE  DependencyTypeOK' /\ SortInv'
<1>1. /\ stage = "search" /\ stage' = "sort" /\ cycles = <<>> /\ order' = order /\ deps' = deps
      /\ indegree' = [t \in TaskIds |-> Len(ParentsOf(t))]
      /\ ready' = {t \in Nodes : ParentsOf(t) = <<>>}
      /\ UNCHANGED <<searchVars, completed>>
    BY DEF StartSort
<1>2. order' = <<>> /\ Sorted' = {}
    BY <1>1 DEF SortInv, Sorted
<1>3. DependencyTypeOK'
    <2>1. indegree' \in [TaskIds -> Nat]
        <3>1. \A t \in TaskIds : Len(ParentsOf(t)) \in Nat
            BY GraphFacts DEF DependencyTypeOK
        <3> QED
            BY <1>1, <3>1
    <2> QED
        BY <1>1, <2>1, GraphStays DEF DependencyTypeOK, searchVars
<1>4. ready' = {t \in Nodes \ {} : ParentSet(t) \subseteq {}}
    <2>1. ASSUME NEW t \in Nodes PROVE ParentsOf(t) = <<>> <=> ParentSet(t) \subseteq {}
        <3>1. ParentsOf(t) \in Seq(Nodes)
            BY GraphFacts DEF DependencyTypeOK
        <3>2. ParentsOf(t) # <<>> => ParentsOf(t)[1] \in ParentSet(t)
            BY <3>1 DEF ParentSet
        <3>3. ParentsOf(t) = <<>> => ParentSet(t) = {}
            BY DEF ParentSet
        <3> QED
            BY <3>2, <3>3
    <2> QED
        BY <1>1, <2>1
<1>5. \A t \in TaskIds : indegree'[t] = Cardinality(ParentSet(t) \ {})
    <2>1. ASSUME NEW t \in TaskIds PROVE Len(ParentsOf(t)) = Cardinality(ParentSet(t) \ {})
        <3>1. ParentSet(t) \ {} = ParentSet(t)
            OBVIOUS
        <3> QED
            BY <3>1, ParentsCounted DEF DependencyTypeOK
    <2> QED
        BY <1>1, <2>1
<1>6. cycles' = <<>>
    BY <1>1 DEF searchVars
<1> QED
    BY <1>1, <1>2, <1>3, <1>4, <1>5, <1>6, GraphStays DEF SortInv

LEMMA TakeNextKeepsSort ==
    ASSUME DependencyTypeOK, SortInv, TakeNext
    PROVE  DependencyTypeOK' /\ SortInv'
<1> DEFINE node == Lowest(ready)
           n == Len(order)
<1>1. /\ stage = "sort" /\ stage' = "sort" /\ ready # {} /\ deps' = deps
      /\ order' = Append(order, node)
      /\ indegree' = [t \in TaskIds |-> indegree[t] - (IF t \in Children(node) THEN 1 ELSE 0)]
      /\ ready' = (ready \ {node}) \cup Released(node)
      /\ UNCHANGED <<searchVars, completed>>
    BY DEF TakeNext
<1>2. /\ cycles = <<>>
      /\ ready = {t \in Nodes \ Sorted : ParentSet(t) \subseteq Sorted}
      /\ \A t \in TaskIds : indegree[t] = Cardinality(ParentSet(t) \ Sorted)
    BY <1>1 DEF SortInv
<1>3. node \in ready /\ node \in Nodes /\ node \notin Sorted /\ ParentSet(node) \subseteq Sorted
    <2>1. ready \in SUBSET Nat
        BY GraphFacts, DependencyAssumption DEF DependencyTypeOK
    <2> QED
        BY <1>1, <1>2, <2>1, LowestIn
<1> HIDE DEF node
<1>4. /\ order' \in Seq(Nodes) /\ n \in Nat /\ Len(order') = n + 1 /\ order'[n + 1] = node
      /\ \A i \in 1..n : order'[i] = order[i]
    BY <1>1, <1>3 DEF DependencyTypeOK
<1>5. Sorted' = Sorted \cup {node}
    BY <1>4 DEF Sorted
<1>6. /\ Children(node) \subseteq Nodes /\ Nodes \subseteq TaskIds
      /\ \A t \in TaskIds : t \in Children(node) <=> node \in ParentSet(t)
      /\ \A t \in TaskIds : IsFiniteSet(ParentSet(t) \ Sorted) /\ ParentSet(t) \subseteq Nodes
    <2>1. \A t \in TaskIds : IsFiniteSet(ParentSet(t) \ Sorted)
        BY ParentsCounted, FS_Difference DEF DependencyTypeOK
    <2> QED
        BY <2>1, GraphFacts DEF DependencyTypeOK, Children
<1>7. ASSUME NEW t \in TaskIds
      PROVE  /\ indegree'[t] \in Nat
             /\ indegree'[t] = Cardinality(ParentSet(t) \ Sorted')
             /\ t \in Children(node) =>
                   (indegree[t] = 1 <=> ParentSet(t) \ Sorted = {node})
    <2> DEFINE S == ParentSet(t) \ Sorted
    <2>1. indegree[t] = Cardinality(S) /\ IsFiniteSet(S) /\ Cardinality(S) \in Nat
        BY <1>2, <1>6, FS_CardinalityType
    <2>2. CASE t \in Children(node)
        <3>0. ParentSet(t) \ Sorted = S
            OBVIOUS
        <3>1. node \in S /\ ParentSet(t) \ Sorted' = S \ {node}
            BY <1>3, <1>5, <1>6, <2>2
        <3> HIDE DEF S
        <3>2. /\ Cardinality(S) \in Nat \ {0} /\ Cardinality(S \ {node}) = Cardinality(S) - 1
              /\ Cardinality(S) = 1 <=> S = {node}
            BY <2>1, <3>1, OneMissing
        <3>3. indegree'[t] = Cardinality(S) - 1
            BY <1>1, <2>1, <2>2
        <3>4. indegree'[t] \in Nat
            BY <3>2, <3>3
        <3>5. indegree'[t] = Cardinality(ParentSet(t) \ Sorted')
            BY <3>1, <3>2, <3>3
        <3>6. indegree[t] = 1 <=> ParentSet(t) \ Sorted = {node}
            BY <2>1, <3>0, <3>2
        <3> QED
            BY <3>4, <3>5, <3>6
    <2>3. CASE t \notin Children(node)
        <3>1. ParentSet(t) \ Sorted' = S
            BY <1>5, <1>6, <2>3
        <3> HIDE DEF S
        <3>2. indegree'[t] = Cardinality(S)
            BY <1>1, <2>1, <2>3
        <3> QED
            BY <2>1, <2>3, <3>1, <3>2
    <2> QED
        BY <2>2, <2>3
<1>8. ready' = {t \in Nodes \ Sorted' : ParentSet(t) \subseteq Sorted'}
    <2>1. ASSUME NEW t \in Nodes
          PROVE  t \in ready' <=> t \notin Sorted' /\ ParentSet(t) \subseteq Sorted'
        <3>1. t \in TaskIds
            BY <1>6
        <3>2. t \in Released(node) <=> t \in Children(node) /\ ParentSet(t) \ Sorted = {node}
            BY <1>7, <3>1 DEF Released
        <3>3. t \in Children(node) <=> node \in ParentSet(t)
            BY <1>6, <3>1
        <3>4. t \in Sorted => ParentSet(t) \subseteq Sorted
            BY DEF SortInv
        <3>5. t \in ready' <=> (t \in ready /\ t # node) \/ t \in Released(node)
            BY <1>1
        <3> QED
            BY <1>2, <1>3, <1>5, <3>2, <3>3, <3>4, <3>5
    <2>2. ready' \subseteq Nodes
        BY <1>1, <1>2, <1>6 DEF Released
    <2> QED
        BY <2>1, <2>2
<1>9. DependencyTypeOK'
    <2>1. indegree' \in [TaskIds -> Nat]
        BY <1>1, <1>7
    <2>2. ready' \subseteq Nodes
        BY <1>8
    <2> QED
        BY <1>1, <1>4, <2>1, <2>2, GraphStays DEF DependencyTypeOK, searchVars
<1>10. \A i, j \in 1..(n + 1) : order'[i] = order'[j] => i = j
    <2>1. \A i \in 1..n : order'[i] \in Sorted
        BY <1>4 DEF Sorted
    <2>2. \A i, j \in 1..n : order'[i] = order'[j] => i = j
        BY <1>4 DEF SortInv
    <2>3. \A i \in 1..(n + 1) : i \in 1..n \/ i = n + 1
        BY <1>4
    <2> QED
        BY <1>3, <1>4, <2>1, <2>2, <2>3
<1>11. ASSUME NEW i \in 1..(n + 1)
       PROVE  order'[i] = Lowest({t \in Nodes \ Before(i)' : ParentSet(t) \subseteq Before(i)'})
    <2>1. \A j \in 1..(i - 1) : j \in 1..n
        BY <1>4
    <2>2. Before(i)' = Before(i)
        BY <1>4, <2>1 DEF Before
    <2>3. CASE i = n + 1
        <3>1. Before(i) = Sorted
            BY <1>4, <2>3 DEF Before, Sorted
        <3>2. ready = {t \in Nodes \ Before(i)' : ParentSet(t) \subseteq Before(i)'}
            BY <1>2, <2>2, <3>1
        <3> QED
            BY <1>4, <2>3, <3>2 DEF node
    <2>4. CASE i \in 1..n
        BY <1>4, <2>2, <2>4 DEF SortInv
    <2> QED
        BY <1>4, <2>3, <2>4
<1>12. \A t \in Sorted' : ParentSet(t) \subseteq Sorted'
    BY <1>3, <1>5 DEF SortInv
<1>13. /\ \A i, j \in 1..Len(order') : order'[i] = order'[j] => i = j
       /\ \A i \in 1..Len(order') :
             order'[i] = Lowest({t \in Nodes \ Before(i)' : ParentSet(t) \subseteq Before(i)'})
    BY <1>4, <1>10, <1>11
<1>14. cycles' = <<>> /\ \A t \in TaskIds : indegree'[t] = Cardinality(ParentSet(t) \ Sorted')
    BY <1>1, <1>2, <1>7 DEF searchVars
<1>15. SortInv'
    BY <1>1, <1>8, <1>12, <1>13, <1>14, GraphStays DEF SortInv
<1> QED
    BY <1>9, <1>15

LEMMA EndSortKeepsSort ==
    ASSUME DependencyTypeOK, SearchInv, SortInv, EndSort
    PROVE  SortInv'
<1>1. /\ stage = "sort" /\ stage' = "answered" /\ ready = {} /\ deps' = deps
      /\ UNCHANGED <<searchVars, sortVars>>
    BY DEF EndSort
<1>2. cycles = <<>> /\ {t \in Nodes \ Sorted : ParentSet(t) \subseteq Sorted} = {}
    BY <1>1 DEF SortInv
<1>3. Knots = {}
    BY <1>1, <1>2, NoKnotIsLeft DEF SearchInv, KeysSearched, AllSearched
<1>4. \A t \in Nodes \ Sorted : ParentSet(t) \cap (Nodes \ Sorted) # {}
    BY <1>2, GraphFacts DEF DependencyTypeOK
<1>5. Nodes \ Sorted = {}
    BY <1>3, <1>4 DEF Knots, IsKnot
<1>6. Sorted = Nodes
    BY <1>5 DEF Sorted, DependencyTypeOK
<1>7. Sorted' = Sorted /\ order' = order /\ \A i : Before(i)' = Before(i)
    BY <1>1 DEF sortVars, Sorted, Before
<1> QED
    BY <1>1, <1>6, <1>7, GraphStays DEF SortInv
-----------------------------------------------------------------------------
(* The caller, and the theorems. *)

LEMMA CompleteKeeps ==
    ASSUME DependencyTypeOK, CompletedInv, NEW u \in TaskIds, Complete(u)
    PROVE  completed' \subseteq Nodes /\ CompletedInv'
<1>1. /\ completed' = completed \cup {u} /\ u \in Nodes /\ ParentSet(u) \subseteq completed
      /\ deps' = deps
    BY DEF Complete, Ready
<1>2. ASSUME NEW S \in Knots PROVE S \cap completed' = {}
    <2>1. u \in S => ParentSet(u) \cap S # {}
        BY DEF Knots, IsKnot
    <2> QED
        BY <1>1, <2>1 DEF CompletedInv
<1>3. \A t \in completed' : ParentSet(t) \subseteq completed'
    BY <1>1 DEF CompletedInv
<1> QED
    BY <1>1, <1>2, <1>3, GraphStays DEF CompletedInv, DependencyTypeOK

LEMMA DependencyStep == DependencyInv /\ [DependencyNext]_dependencyVars => DependencyInv'
<1> SUFFICES ASSUME DependencyTypeOK, SearchInv, SortInv, CompletedInv,
                    [DependencyNext]_dependencyVars
             PROVE  DependencyTypeOK' /\ SearchInv' /\ SortInv' /\ CompletedInv'
    BY DEF DependencyInv
<1>1. ASSUME deps' = deps, completed' = completed
      PROVE  CompletedInv'
    BY <1>1, GraphStays DEF CompletedInv
<1>2. ASSUME UNCHANGED <<deps, searchVars>>, stage' = stage \/ stage = "sort" \/ AllSearched
      PROVE  SearchInv'
    <2>1. /\ path' = path /\ tried' = tried /\ roots' = roots /\ visited' = visited
          /\ cycles' = cycles /\ deps' = deps /\ OnPath' = OnPath
        BY <1>2 DEF searchVars, OnPath
    <2>2. PathWalks' /\ TriedVisited' /\ KnotsUntouched' /\ CyclesClosed'
        BY <2>1, GraphStays
        DEF SearchInv, PathWalks, TriedVisited, KnotsUntouched, CyclesClosed
    <2>3. KeysSearched'
        BY <1>2, <2>1, GraphStays DEF SearchInv, KeysSearched, AllSearched
    <2> QED
        BY <2>2, <2>3 DEF SearchInv
<1>3. ASSUME UNCHANGED <<deps, sortVars, cycles>>, stage' = stage
      PROVE  SortInv'
    <2>1. /\ order' = order /\ indegree' = indegree /\ ready' = ready /\ Sorted' = Sorted
          /\ \A i : Before(i)' = Before(i)
        BY <1>3 DEF sortVars, Sorted, Before
    <2> QED
        BY <1>3, <2>1, GraphStays DEF SortInv
<1>4. CASE StartFrom
    BY <1>1, <1>4, StartKeepsSearch, SearchKeepsSort DEF StartFrom
<1>5. CASE FindCycle
    BY <1>1, <1>5, FindKeepsSearch, SearchKeepsSort DEF FindCycle
<1>6. CASE SkipVisited
    BY <1>1, <1>6, SkipKeepsSearch, SearchKeepsSort DEF SkipVisited
<1>7. CASE Descend
    BY <1>1, <1>7, DescendKeepsSearch, SearchKeepsSort DEF Descend
<1>8. CASE Leave
    BY <1>1, <1>8, LeaveKeepsSearch, SearchKeepsSort DEF Leave
<1>9. CASE Throw
    <2>1. /\ stage = "search" /\ stage' = "answered" /\ cycles # <<>> /\ AllSearched
          /\ UNCHANGED <<deps, searchVars, sortVars, completed>>
        BY <1>9 DEF Throw, AllSearched
    <2>2. DependencyTypeOK'
        BY <2>1, GraphStays DEF DependencyTypeOK, searchVars, sortVars
    <2>3. SortInv'
        <3>1. order' = <<>> /\ Sorted' = {} /\ cycles' # <<>>
            BY <2>1 DEF SortInv, Sorted, sortVars, searchVars
        <3> QED
            BY <2>1, <3>1 DEF SortInv
    <2> QED
        BY <1>1, <1>2, <2>1, <2>2, <2>3
<1>10. CASE StartSort
    <2>1. AllSearched /\ UNCHANGED <<deps, searchVars>> /\ completed' = completed
        BY <1>10 DEF StartSort, AllSearched
    <2> QED
        BY <1>1, <1>2, <1>10, <2>1, StartSortStarts
<1>11. CASE TakeNext
    BY <1>1, <1>2, <1>11, TakeNextKeepsSort DEF TakeNext
<1>12. CASE EndSort
    <2>1. /\ stage = "sort" /\ stage' = "answered"
          /\ UNCHANGED <<deps, searchVars, sortVars, completed>>
        BY <1>12 DEF EndSort
    <2>2. DependencyTypeOK'
        BY <2>1, GraphStays DEF DependencyTypeOK, searchVars, sortVars
    <2> QED
        BY <1>1, <1>2, <1>12, <2>1, <2>2, EndSortKeepsSort
<1>13. ASSUME NEW t \in TaskIds, Complete(t)
       PROVE  DependencyTypeOK' /\ SearchInv' /\ SortInv' /\ CompletedInv'
    <2>1. stage' = stage /\ UNCHANGED <<deps, searchVars, sortVars>> /\ cycles' = cycles
        BY <1>13 DEF Complete, searchVars
    <2>2. completed' \subseteq Nodes /\ CompletedInv'
        BY <1>13, CompleteKeeps
    <2>3. DependencyTypeOK'
        BY <2>1, <2>2, GraphStays DEF DependencyTypeOK, searchVars, sortVars
    <2> QED
        BY <1>2, <1>3, <2>1, <2>2, <2>3
<1>14. CASE UNCHANGED dependencyVars
    <2>1. stage' = stage /\ UNCHANGED <<deps, searchVars, sortVars, completed>> /\ cycles' = cycles
        BY <1>14 DEF dependencyVars, searchVars
    <2>2. DependencyTypeOK'
        BY <2>1, GraphStays DEF DependencyTypeOK, searchVars, sortVars
    <2> QED
        BY <1>1, <1>2, <1>3, <2>1, <2>2
<1> QED
    BY <1>4, <1>5, <1>6, <1>7, <1>8, <1>9, <1>10, <1>11, <1>12, <1>13, <1>14 DEF DependencyNext

LEMMA DependencyInvCorrect == DependencySpec => []DependencyInv
  BY DependencyInitially, DependencyStep, PTL DEF DependencySpec

LEMMA OrderTopological ==
    ASSUME DependencyTypeOK, SearchInv, SortInv
    PROVE  OrderIsTopological
<1>1. ASSUME stage = "answered", Knots = {} PROVE Len(order) = Cardinality(Nodes)
    <2>1. Sorted = Nodes
        BY <1>1, CycleIsKnot DEF SortInv
    <2> DEFINE f == [i \in 1..Len(order) |-> order[i]]
    <2>2. f \in Bijection(1..Len(order), Nodes)
        <3>1. f \in [1..Len(order) -> Nodes]
            BY DEF DependencyTypeOK
        <3>2. \A i, j \in 1..Len(order) : f[i] = f[j] => i = j
            BY DEF SortInv
        <3>3. \A t \in Nodes : \E i \in 1..Len(order) : f[i] = t
            BY <2>1 DEF Sorted
        <3> HIDE DEF f
        <3> QED
            BY <3>1, <3>2, <3>3, Fun_IsBij
    <2>3. ExistsBijection(1..Len(order), Nodes)
        BY <2>2, Zenon DEF ExistsBijection
    <2>4. Len(order) \in Nat
        BY DEF DependencyTypeOK
    <2> QED
        BY <2>3, <2>4, FS_CountingElements
<1> QED
    BY <1>1 DEF OrderIsTopological, SortInv

LEMMA StuckByCycles ==
    ASSUME DependencyTypeOK, CompletedInv
    PROVE  StuckOnlyByCycles
<1>1. ASSUME \A t \in Nodes \ completed : ~Ready(t)
      PROVE  Nodes \ completed = UNION Knots
    <2> DEFINE left == Nodes \ completed
    <2>1. UNION Knots \subseteq left
        BY DEF Knots, CompletedInv
    <2>2. \A t \in left : ParentSet(t) \cap left # {}
        BY <1>1, GraphFacts DEF Ready, DependencyTypeOK
    <2>3. left # {} => left \in Knots
        BY <2>2 DEF Knots, IsKnot
    <2> QED
        BY <2>1, <2>3
<1> QED
    BY <1>1 DEF StuckOnlyByCycles, CompletedInv

\* The search, the sort and the caller keep their variables' types: no task
\* outside of the map's graph is ever visited, put in order or completed, and no
\* indegree goes below zero.
THEOREM DependencyTypeCorrect == DependencySpec => []DependencyTypeOK
  BY DependencyInvCorrect, PTL DEF DependencyInv

\* For every finite map: detectCycles() reports a cycle exactly when there is
\* one, and what it reports is one; topologicalOrder() puts every task once, after
\* its parents and as early as its name allows; dependencyStatus() leaves its
\* caller stuck only with the tasks on or behind a cycle.
THEOREM DependenciesAreSound == DependencySpec => []DependenciesSound
<1>1. DependencyInv => DependenciesSound
    BY CyclesFound, OrderTopological, StuckByCycles DEF DependencyInv, DependenciesSound
<1> QED
    BY <1>1, DependencyInvCorrect, PTL
-----------------------------------------------------------------------------
(* The loops end: a task is visited once, and every pass uses up one of      *)
(* finitely many things.                                                   *)

\* The tasks on the path are different ones, and the search is done with none.
PathApart ==
    /\ \A i, j \in 1..Len(path) : path[i] = path[j] => i = j
    /\ OnPath \cap visited = {}

\* The tasks whose visit has begun.
Entered == visited \cup OnPath

\* What every step does: the search takes one root, begins the visit of a task
\* whose visit has not begun, tries one parent more of the task it is at, or is
\* done with a task it was not done with; the sort puts a task in order that was
\* not; the caller completes one that was not; or the next stage begins.
DependencyGoesOn ==
    \/ \E t \in roots : roots' = roots \ {t}
    \/ \E t \in Nodes \ Entered : Entered' = Entered \cup {t} /\ visited' = visited
    \/ /\ path' = path /\ path # <<>>
       /\ tried'[Len(path)] = tried[Len(path)] + 1
       /\ tried'[Len(path)] <= Len(ParentsOf(path[Len(path)]))
    \/ \E t \in OnPath \ visited : Entered' = Entered /\ visited' = visited \cup {t}
    \/ \E t \in Nodes \ Sorted : Sorted' = Sorted \cup {t}
    \/ \E t \in Nodes \ completed : completed' = completed \cup {t}
    \/ stage = "search" /\ stage' \in {"sort", "answered"}
    \/ stage = "sort" /\ stage' = "answered"

\* Neither of them takes anything back.
NothingUndone ==
    /\ deps' = deps /\ roots' \subseteq roots
    /\ visited \subseteq visited' /\ Entered \subseteq Entered'
    /\ Sorted \subseteq Sorted' /\ completed \subseteq completed'

\* One task more on the path.
LEMMA PathGrows ==
    ASSUME path \in Seq(Nodes), PathApart, NEW t \in Nodes \ Entered, path' = Append(path, t),
           visited' = visited
    PROVE  PathApart' /\ OnPath' = OnPath \cup {t} /\ Entered' = Entered \cup {t}
<1> DEFINE n == Len(path)
<1>1. /\ n \in Nat /\ Len(path') = n + 1 /\ path'[n + 1] = t
      /\ \A j \in 1..n : path'[j] = path[j] /\ path[j] \in OnPath
    BY DEF OnPath
<1>2. \A j \in 1..(n + 1) : j = n + 1 \/ j \in 1..n
    BY <1>1
<1>3. OnPath' = OnPath \cup {t}
    BY <1>1, <1>2 DEF OnPath
<1>4. ASSUME NEW i \in 1..Len(path'), NEW j \in 1..Len(path'), path'[i] = path'[j] PROVE i = j
    <2>1. (i = n + 1 \/ i \in 1..n) /\ (j = n + 1 \/ j \in 1..n)
        BY <1>1, <1>2
    <2> QED
        BY <1>1, <1>4, <2>1 DEF PathApart, Entered
<1> QED
    BY <1>3, <1>4 DEF PathApart, Entered

\* The task at the end of the path is done with.
LEMMA PathShrinks ==
    ASSUME DependencyTypeOK, PathApart, Leave
    PROVE  /\ PathApart' /\ Entered' = Entered
           /\ path[Len(path)] \in OnPath \ visited /\ visited' = visited \cup {path[Len(path)]}
<1> DEFINE n == Len(path)
           node == path[n]
<1>1. path # <<>> /\ path' = SubSeq(path, 1, n - 1) /\ visited' = visited \cup {node}
    BY DEF Leave
<1>2. n \in Nat \ {0} /\ node \in OnPath
    BY <1>1, TopOfPath DEF OnPath
<1>3. Len(path') = n - 1 /\ \A j \in 1..(n - 1) : path'[j] = path[j] /\ j \in 1..n /\ j # n
    BY <1>1, <1>2 DEF DependencyTypeOK
<1>4. OnPath' = OnPath \ {node}
    <2>1. \A j \in 1..n : j = n \/ j \in 1..(n - 1)
        BY <1>2
    <2>2. \A j \in 1..(n - 1) : path[j] # node
        BY <1>2, <1>3 DEF PathApart
    <2> QED
        BY <1>3, <2>1, <2>2 DEF OnPath
<1>5. \A i, j \in 1..Len(path') : path'[i] = path'[j] => i = j
    BY <1>3 DEF PathApart
<1> QED
    BY <1>1, <1>2, <1>4, <1>5 DEF PathApart, Entered

LEMMA PathApartStep == DependencyInv /\ PathApart /\ [DependencyNext]_dependencyVars => PathApart'
<1> SUFFICES ASSUME DependencyInv, PathApart, [DependencyNext]_dependencyVars PROVE PathApart'
    OBVIOUS
<1>1. DependencyTypeOK /\ path \in Seq(Nodes)
    BY DEF DependencyInv, DependencyTypeOK
<1>2. ASSUME path' = path, visited' = visited PROVE PathApart'
    BY <1>2 DEF PathApart, OnPath
<1>3. CASE StartFrom
    <2>1. CASE Lowest(roots) \in visited
        BY <1>2, <1>3, <2>1 DEF StartFrom
    <2>2. CASE Lowest(roots) \notin visited
        <3>1. path' = <<Lowest(roots)>> /\ visited' = visited
            BY <1>3, <2>2 DEF StartFrom
        <3> HIDE DEF Lowest
        <3> QED
            BY <2>2, <3>1 DEF PathApart, OnPath
    <2> QED
        BY <2>1, <2>2
<1>4. CASE Descend
    <2>1. path' = Append(path, NextParent) /\ visited' = visited /\ path # <<>> /\ Untried
        BY <1>4 DEF Descend
    <2>2. NextParent \in Nodes \ Entered
        BY <1>1, <1>4, <2>1, TopOfPath DEF Descend, PlacesOf, Entered, OnPath
    <2> QED
        BY <1>1, <2>1, <2>2, PathGrows
<1>5. CASE Leave
    BY <1>1, <1>5, PathShrinks
<1>6. CASE FindCycle \/ SkipVisited \/ Throw \/ StartSort \/ TakeNext \/ EndSort
    BY <1>2, <1>6 DEF FindCycle, SkipVisited, Throw, StartSort, TakeNext, EndSort, searchVars
<1>7. ASSUME NEW t \in TaskIds, Complete(t) PROVE PathApart'
    BY <1>2, <1>7 DEF Complete, searchVars
<1>8. CASE UNCHANGED dependencyVars
    BY <1>2, <1>8 DEF dependencyVars, searchVars
<1> QED
    BY <1>3, <1>4, <1>5, <1>6, <1>7, <1>8 DEF DependencyNext

\* For every finite map, the three functions and their caller come to an end:
\* detectCycles() never begins the visit of a task twice, nor tries a parent
\* again, topologicalOrder() never puts a task twice, and there are finitely many
\* of each.
THEOREM LoopsEnd ==
    DependencySpec => [][DependencyGoesOn /\ NothingUndone]_dependencyVars
<1>1. DependencyInit => PathApart
    BY DEF DependencyInit, PathApart, OnPath
<1>2. ASSUME DependencyInv, PathApart, DependencyNext PROVE DependencyGoesOn /\ NothingUndone
    <2>0. /\ DependencyTypeOK /\ path \in Seq(Nodes) /\ order \in Seq(Nodes)
          /\ Keys \subseteq Nodes
        BY <1>2, GraphFacts DEF DependencyInv, DependencyTypeOK
    <2>1. ASSUME path' = path, visited' = visited PROVE Entered' = Entered
        BY <2>1 DEF Entered, OnPath
    <2>2. ASSUME order' = order PROVE Sorted' = Sorted
        BY <2>2 DEF Sorted
    <2>3. CASE StartFrom
        <3>1. Lowest(roots) \in roots
            <4>1. roots \in SUBSET Nat /\ roots # {}
                BY <2>0, <2>3, GraphFacts, DependencyAssumption DEF DependencyTypeOK, StartFrom
            <4> QED
                BY <4>1, LowestIn
        <3>2. /\ roots' = roots \ {Lowest(roots)} /\ visited' = visited /\ OnPath = {}
              /\ UNCHANGED <<deps, order, completed>>
            BY <2>3 DEF StartFrom, OnPath, sortVars
        <3> QED
            BY <2>2, <3>1, <3>2 DEF DependencyGoesOn, NothingUndone, Entered
    <2>4. CASE FindCycle \/ SkipVisited
        <3>1. /\ path # <<>> /\ Untried /\ tried' = Tried
              /\ UNCHANGED <<deps, roots, path, visited, order, completed>>
            BY <2>4 DEF FindCycle, SkipVisited, sortVars
        <3>2. tried'[Len(path)] = tried[Len(path)] + 1
            BY <2>0, <3>1, TriedOne
        <3>3. tried[Len(path)] + 1 <= Len(ParentsOf(path[Len(path)]))
            <4>1. /\ path[Len(path)] \in TaskIds
                  /\ tried[Len(path)] + 1 \in 1..Len(ParentsOf(path[Len(path)]))
                BY <2>0, <3>1, TopOfPath
            <4>2. ParentsOf(path[Len(path)]) \in Seq(Nodes)
                BY <2>0, <4>1, GraphFacts DEF DependencyTypeOK
            <4> QED
                BY <4>1, <4>2
        <3>4. Entered' = Entered /\ Sorted' = Sorted
            BY <2>1, <2>2, <3>1
        <3> QED
            BY <3>1, <3>2, <3>3, <3>4 DEF DependencyGoesOn, NothingUndone
    <2>5. CASE Descend
        <3>1. /\ path' = Append(path, NextParent) /\ path # <<>> /\ Untried
              /\ UNCHANGED <<deps, roots, visited, order, completed>>
            BY <2>5 DEF Descend, sortVars
        <3>2. NextParent \in Nodes \ Entered
            BY <2>0, <2>5, <3>1, TopOfPath DEF Descend, PlacesOf, Entered, OnPath
        <3>3. Entered' = Entered \cup {NextParent} /\ Sorted' = Sorted
            BY <1>2, <2>0, <2>2, <3>1, <3>2, PathGrows
        <3> QED
            BY <3>1, <3>2, <3>3 DEF DependencyGoesOn, NothingUndone
    <2>6. CASE Leave
        <3>1. UNCHANGED <<deps, roots, order, completed>>
            BY <2>6 DEF Leave, sortVars
        <3>2. /\ Entered' = Entered /\ Sorted' = Sorted
              /\ path[Len(path)] \in OnPath \ visited
              /\ visited' = visited \cup {path[Len(path)]}
            BY <1>2, <2>0, <2>2, <2>6, <3>1, PathShrinks
        <3> QED
            BY <3>1, <3>2 DEF DependencyGoesOn, NothingUndone
    <2>7. CASE Throw \/ StartSort \/ EndSort
        <3>1. /\ UNCHANGED <<deps, roots, path, visited, order, completed>>
              /\ \/ stage = "search" /\ stage' \in {"sort", "answered"}
                 \/ stage = "sort" /\ stage' = "answered"
            BY <2>7 DEF Throw, StartSort, EndSort, searchVars, sortVars
        <3> QED
            BY <2>1, <2>2, <3>1 DEF DependencyGoesOn, NothingUndone
    <2>8. CASE TakeNext
        <3>1. /\ order' = Append(order, Lowest(ready)) /\ ready # {}
              /\ UNCHANGED <<deps, roots, path, visited, completed>> /\ stage = "sort"
            BY <2>8 DEF TakeNext, searchVars
        <3>2. Lowest(ready) \in ready
            <4>1. ready \in SUBSET Nat
                BY <2>0, GraphFacts, DependencyAssumption DEF DependencyTypeOK
            <4> QED
                BY <3>1, <4>1, LowestIn
        <3>3. Lowest(ready) \in Nodes \ Sorted
            BY <1>2, <3>1, <3>2 DEF DependencyInv, SortInv
        <3>4. Sorted' = Sorted \cup {Lowest(ready)}
            <4> DEFINE node == Lowest(ready)
                       n == Len(order)
            <4>1. node \in Nodes
                BY <3>3
            <4> HIDE DEF node
            <4>2. /\ n \in Nat /\ Len(order') = n + 1 /\ order'[n + 1] = node
                  /\ \A i \in 1..n : order'[i] = order[i]
                BY <2>0, <3>1, <4>1 DEF node
            <4>3. Sorted' = Sorted \cup {node}
                BY <4>2 DEF Sorted
            <4> QED
                BY <4>3 DEF node
        <3> QED
            BY <2>1, <3>1, <3>3, <3>4 DEF DependencyGoesOn, NothingUndone
    <2>9. ASSUME NEW t \in TaskIds, Complete(t) PROVE DependencyGoesOn /\ NothingUndone
        <3>1. /\ t \in Nodes \ completed /\ completed' = completed \cup {t}
              /\ UNCHANGED <<deps, roots, path, visited, order>>
            BY <2>9 DEF Complete, searchVars, sortVars
        <3> QED
            BY <2>1, <2>2, <3>1 DEF DependencyGoesOn, NothingUndone
    <2> QED
        BY <1>2, <2>3, <2>4, <2>5, <2>6, <2>7, <2>8, <2>9 DEF DependencyNext
<1> QED
    BY <1>1, <1>2, PathApartStep, DependencyInvCorrect, PTL DEF DependencySpec
=============================================================================
