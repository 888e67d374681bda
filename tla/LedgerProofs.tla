----------------------------- MODULE LedgerProofs -----------------------------
(***************************************************************************)
(* Proofs about the execution ledger and those who keep one, for every cap *)
(* and for entries of any kind: what an append retains; recovery, for any  *)
(* number of runs, saves and crashes; the ledger file of command lines,    *)
(* for any number of them.                                                 *)
(***************************************************************************)
EXTENDS RunRecovery, CliLedger, FiniteSetTheorems, SequenceTheorems, WellFoundedInduction, TLAPS

-----------------------------------------------------------------------------
(* ExecutionLedger. *)

\* What is retained is a tail, and not an empty one.
LEMMA RetainedIsTail ==
    ASSUME NEW S, NEW s \in Seq(S)
    PROVE  /\ Retained(s) \in Seq(S)
           /\ Len(Retained(s)) <= MaxEntries
           /\ s # <<>> => Len(Retained(s)) >= 1
           /\ \E k \in 0..Len(s) :
                 /\ Len(Retained(s)) = Len(s) - k
                 /\ \A i \in 1..Len(Retained(s)) : Retained(s)[i] = s[i + k]
<1>1. MaxEntries \in Nat /\ MaxEntries > 0
    BY LedgerAssumption
<1>2. CASE Len(s) > MaxEntries
    <2> DEFINE k == Len(s) - MaxEntries
    <2>1. k \in 1..Len(s) /\ Retained(s) = SubSeq(s, k + 1, Len(s))
        BY <1>1, <1>2 DEF Retained
    <2>2. /\ Retained(s) \in Seq(S) /\ Len(Retained(s)) = Len(s) - k
          /\ \A i \in 1..Len(Retained(s)) : Retained(s)[i] = s[i + k]
        BY <2>1, SMTT(30)
    <2>3. Len(Retained(s)) = MaxEntries
        BY <1>1, <1>2, <2>2
    <2>4. k \in 0..Len(s) /\ Len(s) \in Nat
        BY <2>1
    <2> HIDE DEF k
    <2> QED
        BY <1>1, <2>2, <2>3, <2>4
<1>3. CASE ~(Len(s) > MaxEntries)
    <2>1. Retained(s) = s
        BY <1>3 DEF Retained
    <2>2. Len(s) = Len(s) - 0 /\ \A i \in 1..Len(s) : s[i] = s[i + 0]
        OBVIOUS
    <2>3. Len(s) \in Nat /\ Len(s) <= MaxEntries /\ (s # <<>> => Len(s) >= 1)
        BY <1>1, <1>3
    <2>4. 0 \in 0..Len(s)
        BY <2>3
    <2> QED
        BY <2>1, <2>2, <2>3, <2>4
<1> QED
    BY <1>2, <1>3

\* t is a tail of s followed by e.
TailThen(t, s, e) ==
    \E k \in Nat :
        /\ Len(t) + k = Len(s) + 1 /\ Len(t) >= 1
        /\ \A i \in 1..Len(t) : i + k <= Len(s) => t[i] = s[i + k]
        /\ t[Len(t)] = e

\* append() drops some of the oldest entries and puts the new one last.
LEMMA AppendedIsTail ==
    ASSUME NEW S, NEW l, l.entries \in Seq(S), NEW body, NEW e \in S,
           e = [id |-> l.sequence + 1, body |-> body]
    PROVE  /\ Appended(l, body).entries \in Seq(S)
           /\ Appended(l, body).sequence = l.sequence + 1
           /\ TailThen(Appended(l, body).entries, l.entries, e)
<1> DEFINE s == l.entries
           t == Append(s, e)
           m == Appended(l, body)
<1>1. m.entries = Retained(t) /\ m.sequence = l.sequence + 1
    BY DEF Appended
<1> HIDE DEF m
<1>2. t \in Seq(S) /\ Len(t) = Len(s) + 1 /\ t[Len(s) + 1] = e /\ Len(s) \in Nat
      /\ \A i \in 1..Len(s) : t[i] = s[i]
    BY AppendProperties, LenProperties
<1>3. t # <<>>
    BY <1>2, EmptySeq
<1> HIDE DEF t, s
<1>4. PICK k \in 0..Len(t) :
          /\ Len(Retained(t)) = Len(t) - k
          /\ \A i \in 1..Len(Retained(t)) : Retained(t)[i] = t[i + k]
    <2>1. t \in Seq(S)
        BY <1>2
    <2> QED
        BY <2>1, RetainedIsTail
<1>5. Retained(t) \in Seq(S) /\ Len(Retained(t)) >= 1 /\ Len(Retained(t)) \in Nat
    BY <1>2, <1>3, RetainedIsTail, LenProperties
<1>6. k \in Nat /\ Len(m.entries) + k = Len(s) + 1
    BY <1>1, <1>2, <1>4
<1>7. ASSUME NEW i \in 1..Len(m.entries), i + k <= Len(s) PROVE m.entries[i] = s[i + k]
    <2>1. i + k \in 1..Len(s)
        BY <1>1, <1>2, <1>5, <1>6, <1>7
    <2> QED
        BY <1>1, <1>2, <1>4, <2>1
<1>8. m.entries[Len(m.entries)] = e
    <2>1. Len(m.entries) \in 1..Len(m.entries) /\ Len(m.entries) + k = Len(s) + 1
        BY <1>1, <1>5, <1>6
    <2> QED
        BY <1>1, <1>2, <1>4, <2>1
<1>9. m.entries \in Seq(S) /\ Len(m.entries) >= 1
    BY <1>1, <1>5
<1> QED
    BY <1>1, <1>6, <1>7, <1>8, <1>9 DEF m, s, TailThen

\* Entries are dropped only at the cap.
LEMMA AppendedLength ==
    ASSUME NEW S, NEW l, l.entries \in Seq(S), Len(l.entries) <= MaxEntries, NEW body
    PROVE  Len(Appended(l, body).entries) =
              IF Len(l.entries) < MaxEntries THEN Len(l.entries) + 1 ELSE MaxEntries
<1> DEFINE s == l.entries
           t == Append(s, [id |-> l.sequence + 1, body |-> body])
<1>1. Appended(l, body).entries = Retained(t)
    BY DEF Appended
<1>2. Len(s) \in Nat /\ Len(t) = Len(s) + 1
    <2>1. s \in Seq(S \cup {[id |-> l.sequence + 1, body |-> body]})
        BY LenProperties, ElementOfSeq, SeqDef
    <2> QED
        BY <2>1, AppendProperties, LenProperties
<1>3. MaxEntries \in Nat \ {0}
    BY LedgerAssumption
<1>4. CASE Len(s) < MaxEntries
    <2>1. Retained(t) = t
        BY <1>2, <1>3, <1>4 DEF Retained
    <2> QED
        BY <1>1, <1>2, <1>4, <2>1
<1>5. CASE ~(Len(s) < MaxEntries)
    <2>1. Len(s) = MaxEntries /\ Len(t) > MaxEntries /\ Len(t) = MaxEntries + 1
        BY <1>2, <1>3, <1>5
    <2>2. Retained(t) = SubSeq(t, Len(t) - MaxEntries + 1, Len(t))
        BY <2>1 DEF Retained
    <2>3. Len(Retained(t)) = MaxEntries
        BY <1>2, <1>3, <2>1, <2>2, SubSeqProperties
    <2> QED
        BY <1>1, <1>5, <2>3
<1> QED
    BY <1>4, <1>5
-----------------------------------------------------------------------------
(* RunRecovery.  A run is two or three appends, so the lemmas speak of lists *)
(* in which one execution, the one under way, is excused from having its   *)
(* completion: Kept with n = 0 excuses none.                               *)

\* A completion of the same run follows the i-th entry.
Completes(s, i) ==
    \E j \in 1..Len(s) :
        /\ i < j /\ s[j].body.type = "completion"
        /\ s[j].body.run = s[i].body.run

Outcomes == [run : Runs, outcome : Statuses \cup {"interrupted"}]

\* With f as the fates, the start of every execution that was not interrupted
\* is answered, except those of execution n, which are starts of run r.
Kept(s, f, n, r) ==
    /\ s \in Entries /\ Ordered(s)
    /\ \A i \in 1..Len(s) : s[i].body.of \in 1..Len(f)
    /\ \A i \in 1..Len(s) :
          s[i].body.type = "start" =>
              \/ s[i].body.of = n /\ s[i].body.run = r
              \/ s[i].body.of # n /\ f[s[i].body.of].outcome = "interrupted"
              \/ s[i].body.of # n /\ Completes(s, i)

KeptLedger(l, f, n, r) ==
    /\ l \in [entries : Entries, sequence : Nat]
    /\ l.sequence = Newest(l.entries)
    /\ Kept(l.entries, f, n, r)

\* The ledger, the snapshots on their way and the one in the store are whole.
Inv ==
    /\ RecoveryTypeOK
    /\ KeptLedger(ledger, fate, 0, 0)
    /\ \A s \in saving : Kept(s, fate, 0, 0)
    /\ stored # Nothing => Kept(stored, fate, 0, 0)
-----------------------------------------------------------------------------
(* The ledger's operators. *)

LEMMA EntryType ==
    ASSUME NEW s \in Entries, NEW i \in 1..Len(s)
    PROVE  s[i].id \in Nat \ {0} /\ s[i].body \in Body
<1>1. ASSUME NEW S, NEW t \in Seq(S), NEW j \in 1..Len(t) PROVE t[j] \in S
    OBVIOUS
<1>2. s[i] \in [id : Nat \ {0}, body : Body]
    BY <1>1, Zenon DEF Entries
<1> QED
    BY <1>2

\* Dropping the oldest entries leaves a kept list kept.
LEMMA RetainedKept ==
    ASSUME NEW s \in Entries, NEW f, NEW n, NEW r,
           \A i, j \in 1..Len(s) : i < j => s[i].id < s[j].id,
           \A i \in 1..Len(s) : s[i].body.of \in 1..Len(f),
           \A i \in 1..Len(s) :
              s[i].body.type = "start" =>
                  \/ s[i].body.of = n /\ s[i].body.run = r
                  \/ s[i].body.of # n /\ f[s[i].body.of].outcome = "interrupted"
                  \/ s[i].body.of # n /\ Completes(s, i)
    PROVE  Kept(Retained(s), f, n, r)
<1> DEFINE t == Retained(s)
<1>1. PICK k \in 0..Len(s) :
          Len(t) = Len(s) - k /\ \A i \in 1..Len(t) : t[i] = s[i + k]
    BY RetainedIsTail DEF Entries
<1>2. t \in Entries /\ Len(t) <= MaxEntries /\ Len(t) \in Nat
    BY RetainedIsTail DEF Entries
<1>3. \A i \in 1..Len(t) : t[i] = s[i + k] /\ i + k \in 1..Len(s)
    BY <1>1, <1>2
<1> HIDE DEF t
<1>4. Ordered(t)
    <2> SUFFICES ASSUME NEW i \in 1..Len(t), NEW j \in 1..Len(t), i < j
                 PROVE  t[i].id < t[j].id
        BY <1>2 DEF Ordered
    <2> QED
        BY <1>3, i + k < j + k
<1>5. ASSUME NEW i \in 1..Len(t), Completes(s, i + k) PROVE Completes(t, i)
    <2>1. PICK j \in 1..Len(s) :
              /\ i + k < j /\ s[j].body.type = "completion"
              /\ s[j].body.run = s[i + k].body.run
        BY <1>5 DEF Completes
    <2>2. j - k \in 1..Len(t) /\ i < j - k /\ (j - k) + k = j
        BY <1>1, <1>2, <2>1
    <2>3. t[j - k] = s[j] /\ t[i] = s[i + k]
        BY <1>3, <2>2
    <2> QED
        BY <2>1, <2>2, <2>3 DEF Completes
<1>6. \A i \in 1..Len(t) : t[i].body.of \in 1..Len(f)
    BY <1>3
<1>7. \A i \in 1..Len(t) :
          t[i].body.type = "start" =>
              \/ t[i].body.of = n /\ t[i].body.run = r
              \/ t[i].body.of # n /\ f[t[i].body.of].outcome = "interrupted"
              \/ t[i].body.of # n /\ Completes(t, i)
    BY <1>3, <1>5
<1> QED
    BY <1>2, <1>4, <1>6, <1>7 DEF Kept, t

\* append(): a start must be one of the execution under way.
LEMMA AppendedKept ==
    ASSUME NEW l, NEW f, NEW n, NEW r, KeptLedger(l, f, n, r),
           NEW b \in Body, b.of \in 1..Len(f),
           b.type = "start" => b.of = n /\ b.run = r
    PROVE  LET m == Appended(l, b) IN
           /\ KeptLedger(m, f, n, r)
           /\ Len(m.entries) >= 1
           /\ m.entries[Len(m.entries)].body = b
<1> DEFINE s == l.entries
           e == [id |-> l.sequence + 1, body |-> b]
           t == Append(s, e)
           m == Appended(l, b)
<1>1. s \in Entries /\ l.sequence \in Nat /\ l.sequence = Newest(s)
    BY DEF KeptLedger
<1>2. e \in [id : Nat \ {0}, body : Body]
    BY <1>1
<1>3. /\ t \in Entries /\ Len(t) = Len(s) + 1 /\ t[Len(s) + 1] = e
      /\ \A i \in 1..Len(s) : t[i] = s[i]
      /\ Len(s) \in Nat /\ t # <<>>
    BY <1>1, <1>2 DEF Entries
<1>4. m.entries = Retained(t) /\ m.sequence = l.sequence + 1
    BY DEF Appended
<1>0. \A i, j \in 1..Len(s) : i < j => s[i].id < s[j].id
    BY DEF KeptLedger, Kept, Ordered
<1> HIDE DEF e, t, s, m
<1>5. \A i \in 1..Len(s) : s[i].id <= l.sequence
    <2>1. TAKE i \in 1..Len(s)
    <2>2. s[i].id <= s[Len(s)].id
        <3>1. Len(s) \in 1..Len(s) /\ (i = Len(s) \/ i < Len(s))
            BY <1>3
        <3>2. s[i].id \in Nat /\ s[Len(s)].id \in Nat
            BY <1>1, <3>1, EntryType
        <3> QED
            BY <3>1, <3>2, <1>0
    <2>3. Newest(s) = s[Len(s)].id
        BY <1>3 DEF Newest
    <2> QED
        BY <1>1, <2>2, <2>3
<1>6. e.id = l.sequence + 1 /\ e.body = b
    BY DEF e
<1>7. \A i, j \in 1..Len(t) : i < j => t[i].id < t[j].id
    <2> SUFFICES ASSUME NEW i \in 1..Len(t), NEW j \in 1..Len(t), i < j
                 PROVE  t[i].id < t[j].id
        OBVIOUS
    <2>1. i \in 1..Len(s)
        BY <1>3
    <2>2. CASE j \in 1..Len(s)
        BY <1>0, <1>3, <2>1, <2>2
    <2>3. CASE j = Len(s) + 1
        <3>1. t[j].id = l.sequence + 1 /\ t[i].id = s[i].id
            BY <1>3, <1>6, <2>1, <2>3
        <3>2. s[i].id \in Nat
            BY <1>1, <2>1, EntryType
        <3> QED
            BY <1>1, <1>5, <2>1, <3>1, <3>2
    <2> QED
        BY <1>3, <2>2, <2>3
<1>8. \A i \in 1..Len(t) : t[i].body.of \in 1..Len(f)
    <2> SUFFICES ASSUME NEW i \in 1..Len(t) PROVE t[i].body.of \in 1..Len(f)
        OBVIOUS
    <2>1. CASE i \in 1..Len(s)
        BY <1>3, <2>1 DEF KeptLedger, Kept, s
    <2>2. CASE i = Len(s) + 1
        BY <1>3, <1>6, <2>2
    <2> QED
        BY <1>3, <2>1, <2>2
<1>9. \A i \in 1..Len(t) :
          t[i].body.type = "start" =>
              \/ t[i].body.of = n /\ t[i].body.run = r
              \/ t[i].body.of # n /\ f[t[i].body.of].outcome = "interrupted"
              \/ t[i].body.of # n /\ Completes(t, i)
    <2> SUFFICES ASSUME NEW i \in 1..Len(t), t[i].body.type = "start"
                 PROVE  \/ t[i].body.of = n /\ t[i].body.run = r
                        \/ t[i].body.of # n /\ f[t[i].body.of].outcome = "interrupted"
                        \/ t[i].body.of # n /\ Completes(t, i)
        OBVIOUS
    <2>1. CASE i \in 1..Len(s)
        <3>1. ASSUME Completes(s, i) PROVE Completes(t, i)
            BY <1>3, <2>1, <3>1 DEF Completes
        <3>2. t[i] = s[i]
            BY <1>3, <2>1
        <3>3. \/ s[i].body.of = n /\ s[i].body.run = r
              \/ s[i].body.of # n /\ f[s[i].body.of].outcome = "interrupted"
              \/ s[i].body.of # n /\ Completes(s, i)
            BY <2>1, <3>2 DEF KeptLedger, Kept, s
        <3> QED
            BY <3>1, <3>2, <3>3
    <2>2. CASE i = Len(s) + 1
        BY <1>3, <1>6, <2>2
    <2> QED
        BY <1>3, <2>1, <2>2
<1>10. Kept(m.entries, f, n, r)
    BY <1>3, <1>4, <1>7, <1>8, <1>9, RetainedKept
<1>11. Len(m.entries) >= 1 /\ m.entries[Len(m.entries)] = e
    <2>1. PICK k \in 0..Len(t) :
              /\ Len(Retained(t)) = Len(t) - k
              /\ \A i \in 1..Len(Retained(t)) : Retained(t)[i] = t[i + k]
        <3>1. t \in Seq([id : Nat \ {0}, body : Body])
            BY <1>3 DEF Entries
        <3> QED
            BY <3>1, RetainedIsTail
    <2>2. Len(Retained(t)) >= 1
        BY <1>3, RetainedIsTail DEF Entries
    <2>3. Len(Retained(t)) + k = Len(s) + 1
        BY <1>3, <2>1
    <2> QED
        BY <1>3, <1>4, <2>1, <2>2, <2>3
<1>12. m \in [entries : Entries, sequence : Nat]
    <2>1. m.entries \in Entries
        BY <1>10 DEF Kept
    <2>2. m = [entries |-> Retained(t), sequence |-> l.sequence + 1]
        BY DEF m, t, s, e, Appended
    <2> QED
        BY <1>1, <1>4, <2>1, <2>2
<1>13. m.sequence = Newest(m.entries)
    <2>1. m.entries # <<>>
        BY <1>11, <1>12 DEF Entries
    <2> QED
        BY <1>4, <1>6, <1>11, <2>1 DEF Newest
<1> QED
    BY <1>6, <1>10, <1>11, <1>12, <1>13 DEF KeptLedger, m
-----------------------------------------------------------------------------
(* A run: its start, perhaps a screening, and its completion or an exception. *)

\* Another execution begins: its fate is new, those of the others stay.
LEMMA AnotherFate ==
    ASSUME NEW s, NEW f \in Seq(Outcomes), NEW x \in Outcomes, NEW r,
           Kept(s, f, 0, 0)
    PROVE  LET g == Append(f, x) IN
           /\ Kept(s, g, 0, 0)
           /\ Kept(s, g, Len(f) + 1, r)
           /\ \A i \in 1..Len(s) : s[i].body.of # Len(f) + 1
<1> DEFINE g == Append(f, x)
<1>1. /\ Len(f) \in Nat /\ Len(g) = Len(f) + 1
      /\ \A k \in 1..Len(f) : g[k] = f[k] /\ k \in 1..Len(g) /\ k # Len(f) + 1 /\ k # 0
    OBVIOUS
<1>2. \A i \in 1..Len(s) : s[i].body.of \in 1..Len(f)
    BY DEF Kept
<1> HIDE DEF g
<1> QED
    BY <1>1, <1>2 DEF Kept, g

\* Once the execution under way is answered by the last entry, or known to be
\* interrupted, nothing is excused any more.
LEMMA NoneExcused ==
    ASSUME NEW l, NEW f, NEW n, NEW r, KeptLedger(l, f, n, r),
           \/ f[n].outcome = "interrupted"
           \/ /\ Len(l.entries) >= 1
              /\ l.entries[Len(l.entries)].body.type = "completion"
              /\ l.entries[Len(l.entries)].body.run = r
    PROVE  KeptLedger(l, f, 0, 0)
<1> DEFINE s == l.entries
<1>1. s \in Entries /\ Ordered(s) /\ Len(s) \in Nat
    BY DEF KeptLedger, Kept, Entries
<1>2. \A i \in 1..Len(s) : s[i].body.of \in 1..Len(f) /\ s[i].body.of # 0
    BY DEF KeptLedger, Kept
<1>3. \A i \in 1..Len(s) :
          s[i].body.type = "start" =>
              \/ s[i].body.of = n /\ s[i].body.run = r
              \/ s[i].body.of # n /\ f[s[i].body.of].outcome = "interrupted"
              \/ s[i].body.of # n /\ Completes(s, i)
    BY DEF KeptLedger, Kept
<1> HIDE DEF s
<1>4. \A i \in 1..Len(s) :
          s[i].body.type = "start" =>
              f[s[i].body.of].outcome = "interrupted" \/ Completes(s, i)
    <2> SUFFICES ASSUME NEW i \in 1..Len(s), s[i].body.type = "start",
                        s[i].body.of = n, s[i].body.run = r,
                        f[n].outcome # "interrupted"
                 PROVE  Completes(s, i)
        BY <1>3
    <2>1. /\ Len(s) \in 1..Len(s)
          /\ s[Len(s)].body.type = "completion" /\ s[Len(s)].body.run = r
        BY <1>1 DEF s
    <2>2. i # Len(s)
        BY <2>1
    <2>3. i < Len(s)
        BY <1>1, <2>2
    <2> QED
        BY <2>1, <2>3 DEF Completes
<1>5. Kept(s, f, 0, 0)
    BY <1>1, <1>2, <1>4 DEF Kept
<1> QED
    BY <1>5 DEF KeptLedger, s

LEMMA RunBodiesTyped ==
    ASSUME NEW r \in Runs, NEW n \in 1..MaxExecutions, NEW status \in Statuses
    PROVE  /\ Start(r, n) \in Body /\ Screening(r, n) \in Body
           /\ Completion(r, status, n) \in Body
    BY DEF Start, Screening, Completion, Body

\* The start and the screening of a new execution.
LEMMA StartedKept ==
    ASSUME Inv, NEW r \in Runs, Begins(r), NEW screened \in BOOLEAN,
           NEW x \in Outcomes
    PROVE  LET n == Len(fate) + 1
               g == Append(fate, x)
           IN  /\ n \in 1..MaxExecutions /\ Len(g) = n /\ g[n] = x
               /\ g \in Seq(Outcomes)
               /\ KeptLedger(Started(r, n, screened), g, n, r)
               /\ \A s : Kept(s, fate, 0, 0) => Kept(s, g, 0, 0)
<1> DEFINE n == Len(fate) + 1
           g == Append(fate, x)
<1>1. fate \in Seq(Outcomes) /\ Len(fate) < MaxExecutions /\ MaxExecutions \in Nat
    BY RecoveryAssumption DEF Inv, RecoveryTypeOK, Begins, Outcomes
<1>2. n \in 1..MaxExecutions /\ Len(g) = n /\ g[n] = x /\ g \in Seq(Outcomes)
    BY <1>1
<1>3. \A s : Kept(s, fate, 0, 0) => Kept(s, g, 0, 0)
    BY <1>1, AnotherFate
<1>4. KeptLedger(ledger, g, n, r)
    BY <1>1, AnotherFate DEF Inv, KeptLedger
<1>5. n \in 1..Len(g)
    BY <1>2
<1> HIDE DEF n, g
<1>6. PICK status : status \in Statuses
    BY RecoveryAssumption
<1>7. Start(r, n) \in Body /\ Screening(r, n) \in Body
    BY <1>2, <1>6, RunBodiesTyped
<1>8. KeptLedger(Appended(ledger, Start(r, n)), g, n, r)
    <2>1. Start(r, n).of = n /\ Start(r, n).run = r
        BY DEF Start
    <2> QED
        BY <1>4, <1>5, <1>7, <2>1, AppendedKept
<1>9. KeptLedger(Appended(Appended(ledger, Start(r, n)), Screening(r, n)), g, n, r)
    <2>1. Screening(r, n).of = n /\ Screening(r, n).type # "start"
        BY DEF Screening
    <2> QED
        BY <1>5, <1>7, <1>8, <2>1, AppendedKept
<1> QED
    BY <1>2, <1>3, <1>8, <1>9 DEF Started, n, g
-----------------------------------------------------------------------------
(* recoverRun(). *)

\* Of some entries one is the latest.
LEMMA LatestExists ==
    ASSUME NEW m \in Nat, NEW S \in SUBSET (1..m), S # {}
    PROVE  Latest(S) \in S
<1> DEFINE R == OpToRel(<, Nat)
           T == {m - i : i \in S}
<1>1. T \subseteq Nat /\ T # {}
    <2>1. ASSUME NEW i \in S PROVE m - i \in Nat
        BY i \in 1..m
    <2> QED
        BY <2>1
<1>2. PICK x \in T : \A y \in T : ~ (<<y, x>> \in R)
    <2> HIDE DEF R, T
    <2> QED
        BY <1>1, NatLessThanWellFounded, WFMin DEF R
<1>3. \A y \in T : ~ (y < x)
    BY <1>1, <1>2 DEF OpToRel
<1>4. PICK i \in S : x = m - i
    OBVIOUS
<1>5. \A j \in S : j <= i
    <2> SUFFICES ASSUME NEW j \in S PROVE j <= i
        OBVIOUS
    <2>1. m - j \in T /\ ~ (m - j < m - i)
        BY <1>3, <1>4
    <2> QED
        BY <2>1
<1> QED
    BY <1>5 DEF Latest

LEMMA ResumableTyped ==
    ASSUME Inv, NEW r \in Runs, EntriesOf(r, "start") # {}
    PROVE  Resumable(r) \in 1..Len(fate) /\ Resumable(r) \in 1..MaxExecutions
<1>1. Len(ledger.entries) \in Nat /\ ledger.entries \in Entries
    BY DEF Inv, RecoveryTypeOK, Entries
<1>2. EntriesOf(r, "start") \in SUBSET (1..Len(ledger.entries))
    BY DEF EntriesOf
<1>3. Latest(EntriesOf(r, "start")) \in 1..Len(ledger.entries)
    BY <1>1, <1>2, LatestExists
<1>4. Resumable(r) \in 1..Len(fate)
    BY <1>3 DEF Resumable, Inv, KeptLedger, Kept
<1>5. Len(fate) \in Nat /\ Len(fate) <= MaxExecutions /\ MaxExecutions \in Nat
    BY RecoveryAssumption DEF Inv, RecoveryTypeOK
<1> QED
    BY <1>4, <1>5
-----------------------------------------------------------------------------
(* The invariant. *)

LEMMA InvInit == RecoveryInit => Inv
<1> SUFFICES ASSUME RecoveryInit PROVE Inv
    OBVIOUS
<1>1. <<>> \in Entries /\ Len(<<>>) = 0
    BY DEF Entries
<1>2. KeptLedger(ledger, fate, 0, 0)
    BY <1>1, LedgerAssumption DEF RecoveryInit, KeptLedger, Kept, EmptyLedger, Ordered, Newest
<1>3. RecoveryTypeOK
    BY <1>1, RecoveryAssumption DEF RecoveryInit, RecoveryTypeOK, EmptyLedger
<1> QED
    BY <1>2, <1>3 DEF Inv, RecoveryInit

\* What an execution that begins does to the ledger is enough for the invariant.
LEMMA ExecutionKeepsInv ==
    ASSUME Inv, NEW r \in Runs, Begins(r), NEW x \in Outcomes, fate' = Append(fate, x),
           KeptLedger(ledger', fate', 0, 0),
           UNCHANGED <<saving, stored, resumed, unrecorded, crashes>>
    PROVE  Inv'
<1>1. fate' \in Seq(Outcomes) /\ Len(fate') <= MaxExecutions
    BY StartedKept, RecoveryAssumption DEF Inv, RecoveryTypeOK, Begins, Outcomes
<1>2. \A s : Kept(s, fate, 0, 0) => Kept(s, fate', 0, 0)
    BY AnotherFate DEF Inv, RecoveryTypeOK, Outcomes
<1>3. RecoveryTypeOK'
    BY <1>1 DEF Inv, RecoveryTypeOK, KeptLedger, Outcomes
<1> QED
    BY <1>2, <1>3 DEF Inv

LEMMA InvStep == Inv /\ [RecoveryNext]_recoveryVars => Inv'
<1> SUFFICES ASSUME Inv, [RecoveryNext]_recoveryVars PROVE Inv'
    OBVIOUS
<1>1. ASSUME NEW r \in Runs, NEW screened \in BOOLEAN, NEW status \in Statuses,
             RunCompletes(r, screened, status)
      PROVE  Inv'
    <2> DEFINE n == Len(fate) + 1
               x == [run |-> r, outcome |-> status]
               b == Completion(r, status, n)
    <2>1. Begins(r) /\ x \in Outcomes /\ fate' = Append(fate, x)
        BY <1>1 DEF RunCompletes, Outcomes
    <2>2. /\ n \in 1..MaxExecutions /\ Len(fate') = n
          /\ KeptLedger(Started(r, n, screened), fate', n, r)
        BY <2>1, StartedKept
    <2>3. ledger' = Appended(Started(r, n, screened), b)
        BY <1>1 DEF RunCompletes
    <2>4. b \in Body /\ b.of = n /\ b.run = r /\ b.type = "completion"
        BY <2>2, RunBodiesTyped DEF Completion
    <2>5. n \in 1..Len(fate')
        BY <2>2
    <2> HIDE DEF n, b
    <2>6. /\ KeptLedger(ledger', fate', n, r)
          /\ Len(ledger'.entries) >= 1
          /\ ledger'.entries[Len(ledger'.entries)].body = b
        BY <2>2, <2>3, <2>4, <2>5, AppendedKept
    <2>7. KeptLedger(ledger', fate', 0, 0)
        BY <2>4, <2>6, NoneExcused
    <2> QED
        BY <1>1, <2>1, <2>7, ExecutionKeepsInv DEF RunCompletes
<1>2. ASSUME NEW r \in Runs, NEW screened \in BOOLEAN, RunThrows(r, screened)
      PROVE  Inv'
    <2> DEFINE n == Len(fate) + 1
               x == [run |-> r, outcome |-> "interrupted"]
    <2>1. Begins(r) /\ x \in Outcomes /\ fate' = Append(fate, x)
        BY <1>2 DEF RunThrows, Outcomes
    <2>2. KeptLedger(Started(r, n, screened), fate', n, r)
        BY <2>1, StartedKept
    <2>3. fate'[n].outcome = "interrupted"
        BY <2>1, StartedKept
    <2>4. ledger' = Started(r, n, screened)
        BY <1>2 DEF RunThrows
    <2> HIDE DEF n, x
    <2>5. KeptLedger(ledger', fate', 0, 0)
        BY <2>2, <2>3, <2>4, NoneExcused
    <2> QED
        BY <1>2, <2>1, <2>5, ExecutionKeepsInv DEF RunThrows
<1>3. ASSUME NEW r \in Runs, NEW status \in Statuses, Recover(r, status) PROVE Inv'
    <2> DEFINE n == Resumable(r)
               b == Completion(r, status, n)
    <2>1. n \in 1..Len(fate) /\ n \in 1..MaxExecutions
        BY <1>3, ResumableTyped DEF Recover, Interrupted
    <2>2. b \in Body /\ b.of = n /\ b.type = "completion"
        BY <2>1, RunBodiesTyped DEF Completion
    <2>3. ledger' = Appended(ledger, b) /\ resumed' = resumed \cup {<<n, crashes>>}
        BY <1>3 DEF Recover
    <2> HIDE DEF n, b
    <2>4. KeptLedger(ledger', fate, 0, 0)
        BY <2>1, <2>2, <2>3, AppendedKept DEF Inv
    <2>5. UNCHANGED <<saving, stored, fate, unrecorded, crashes>>
        BY <1>3 DEF Recover
    <2>6. RecoveryTypeOK'
        BY <2>1, <2>3, <2>4, <2>5 DEF Inv, RecoveryTypeOK, KeptLedger
    <2> QED
        BY <2>4, <2>5, <2>6 DEF Inv
<1>3a. ASSUME NEW r \in Runs, RecoverFails(r) PROVE Inv'
    <2>1. Resumable(r) \in 1..MaxExecutions
        BY <1>3a, ResumableTyped DEF RecoverFails, Interrupted
    <2>2. /\ unrecorded' = unrecorded \cup {<<Resumable(r), crashes>>}
          /\ UNCHANGED <<ledger, saving, stored, fate, resumed, crashes>>
        BY <1>3a DEF RecoverFails
    <2>3. RecoveryTypeOK'
        BY <2>1, <2>2 DEF Inv, RecoveryTypeOK
    <2> QED
        BY <2>2, <2>3 DEF Inv
<1>4. CASE Save
    <2>1. saving' = saving \cup {ledger.entries}
        BY <1>4 DEF Save
    <2>2. UNCHANGED <<ledger, stored, fate, resumed, unrecorded, crashes>>
        BY <1>4 DEF Save
    <2>3. RecoveryTypeOK'
        BY <2>1, <2>2 DEF Inv, RecoveryTypeOK
    <2> QED
        BY <2>1, <2>2, <2>3 DEF Inv, KeptLedger
<1>5. ASSUME NEW s \in saving, Saved(s) PROVE Inv'
    <2>1. saving' \subseteq saving /\ stored' = s
        BY <1>5 DEF Saved
    <2>2. UNCHANGED <<ledger, fate, resumed, unrecorded, crashes>>
        BY <1>5 DEF Saved
    <2>3. RecoveryTypeOK'
        BY <2>1, <2>2 DEF Inv, RecoveryTypeOK
    <2> QED
        BY <2>1, <2>2, <2>3 DEF Inv
<1>6. CASE Restart
    <2>1. /\ saving' = {} /\ UNCHANGED <<stored, fate, resumed, unrecorded>>
          /\ crashes < MaxCrashes /\ crashes' = crashes + 1
          /\ ledger' = IF stored = Nothing THEN EmptyLedger ELSE Imported(stored)
        BY <1>6 DEF Restart
    <2>2. KeptLedger(EmptyLedger, fate, 0, 0)
        BY LedgerAssumption DEF KeptLedger, Kept, EmptyLedger, Ordered, Newest, Entries
    <2>3. ASSUME stored # Nothing PROVE KeptLedger(Imported(stored), fate, 0, 0)
        <3> DEFINE t == Retained(stored)
        <3>1. Kept(stored, fate, 0, 0)
            BY <2>3 DEF Inv
        <3>2. Kept(t, fate, 0, 0)
            <4>1. /\ stored \in Entries
                  /\ \A i, j \in 1..Len(stored) : i < j => stored[i].id < stored[j].id
                  /\ \A i \in 1..Len(stored) : stored[i].body.of \in 1..Len(fate)
                  /\ \A i \in 1..Len(stored) :
                        stored[i].body.type = "start" =>
                            \/ stored[i].body.of = 0 /\ stored[i].body.run = 0
                            \/ /\ stored[i].body.of # 0
                               /\ fate[stored[i].body.of].outcome = "interrupted"
                            \/ stored[i].body.of # 0 /\ Completes(stored, i)
                BY <3>1, Zenon DEF Kept, Ordered
            <4> QED
                BY <4>1, RetainedKept, Zenon DEF t
        <3>3. Newest(t) \in Nat
            <4> HIDE DEF t
            <4>1. t \in Entries /\ Len(t) \in Nat /\ (t # <<>> => Len(t) \in 1..Len(t))
                BY <3>2 DEF Kept, Entries
            <4> QED
                BY <4>1, EntryType DEF Newest
        <3> QED
            BY <3>2, <3>3 DEF Imported, KeptLedger, Kept
    <2>4. KeptLedger(ledger', fate, 0, 0)
        BY <2>1, <2>2, <2>3
    <2>5. RecoveryTypeOK'
        BY <2>1, <2>4, RecoveryAssumption DEF Inv, RecoveryTypeOK, KeptLedger
    <2> QED
        BY <2>1, <2>4, <2>5 DEF Inv
<1>7. CASE UNCHANGED recoveryVars
    BY <1>7 DEF recoveryVars, Inv, RecoveryTypeOK
<1> QED
    BY <1>1, <1>2, <1>3, <1>3a, <1>4, <1>5, <1>6, <1>7 DEF RecoveryNext

LEMMA InvCorrect == RecoverySpec => []Inv
    BY InvInit, InvStep, PTL DEF RecoverySpec
-----------------------------------------------------------------------------
\* Every variable keeps holding values the code can give it.
THEOREM TypeCorrect == RecoverySpec => []RecoveryTypeOK
    BY InvCorrect, PTL DEF Inv

\* Whatever the cap drops and however often the process crashes and imports a
\* snapshot, the ids of the ledger's entries grow and none is given twice in a
\* ledger.
THEOREM IdsGrow == RecoverySpec => []LedgerSound
<1>1. Inv => LedgerSound
    BY DEF Inv, LedgerSound, KeptLedger, Kept
<1> QED
    BY <1>1, InvCorrect, PTL

\* recoverRun() never takes a run for interrupted because of an execution that
\* came to its end: not for entries that the cap has dropped, nor for snapshots
\* that saves have left in any order.
THEOREM CompletedStaysDone == RecoverySpec => []CompletedNeverResumed
<1>1. ASSUME Inv PROVE CompletedNeverResumed
    <2> SUFFICES ASSUME NEW r \in Runs, Interrupted(r), NEW i \in EntriesOf(r, "start"),
                        fate[ledger.entries[i].body.of].outcome # "interrupted"
                 PROVE  FALSE
        BY DEF CompletedNeverResumed
    <2> DEFINE s == ledger.entries
    <2>1. i \in 1..Len(s) /\ s[i].body.run = r /\ s[i].body.type = "start"
        BY DEF EntriesOf
    <2>2. s[i].body.of # 0
        BY <1>1, <2>1 DEF Inv, KeptLedger, Kept
    <2>3. Completes(s, i)
        BY <1>1, <2>1, <2>2 DEF Inv, KeptLedger, Kept
    <2>4. EntriesOf(r, "completion") # {}
        BY <2>1, <2>3 DEF Completes, EntriesOf
    <2> QED
        BY <2>4 DEF Interrupted
<1> QED
    BY <1>1, InvCorrect, PTL
-----------------------------------------------------------------------------
(* What the process has resumed to a record, and whose entries are whose. *)

\* An entry is of the run of its execution, and the completion of one that was
\* interrupted is there because it was resumed.
EntryTrue(b, f, R) ==
    /\ b.of \in 1..Len(f) /\ b.run = f[b.of].run
    /\ b.type = "completion" /\ f[b.of].outcome = "interrupted" => \E life : <<b.of, life>> \in R

AllTrue(s, f, R) == \A i \in 1..Len(s) : EntryTrue(s[i].body, f, R)

\* The starts of what was resumed in this life are answered.
AnsweredSince(s, R, life) ==
    \A i \in 1..Len(s) :
        s[i].body.type = "start" /\ <<s[i].body.of, life>> \in R => Completes(s, i)

LifeInv ==
    /\ AllTrue(ledger.entries, fate, resumed)
    /\ \A s \in saving : AllTrue(s, fate, resumed)
    /\ stored # Nothing => AllTrue(stored, fate, resumed)
    /\ \A n, life : <<n, life>> \in resumed => n \in 1..Len(fate) /\ life <= crashes
    /\ AnsweredSince(ledger.entries, resumed, crashes)

\* append()
LEMMA AppendedTrue ==
    ASSUME NEW l, l.entries \in Entries, l.sequence \in Nat, NEW b \in Body, NEW f,
           NEW R, NEW P, NEW life,
           AllTrue(l.entries, f, R), AnsweredSince(l.entries, P, life), EntryTrue(b, f, R),
           b.type = "start" => <<b.of, life>> \notin P
    PROVE  LET m == Appended(l, b) IN
           /\ m.entries \in Entries /\ m.sequence \in Nat
           /\ AllTrue(m.entries, f, R) /\ AnsweredSince(m.entries, P, life)
           /\ Len(m.entries) >= 1 /\ m.entries[Len(m.entries)].body = b
<1> DEFINE s == l.entries
           m == Appended(l, b)
           t == m.entries
           e == [id |-> l.sequence + 1, body |-> b]
<1>1. e \in [id : Nat \ {0}, body : Body] /\ e.body = b
    OBVIOUS
<1>2. t \in Entries /\ m.sequence = l.sequence + 1 /\ TailThen(t, s, e)
    <2> DEFINE E == [id : Nat \ {0}, body : Body]
    <2>1. l.entries \in Seq(E) /\ e \in E
        BY <1>1 DEF Entries
    <2>2. e = [id |-> l.sequence + 1, body |-> b]
        OBVIOUS
    <2> HIDE DEF E, e
    <2>3. t \in Seq(E) /\ m.sequence = l.sequence + 1 /\ TailThen(t, s, e)
        BY <2>1, <2>2, AppendedIsTail
    <2> QED
        BY <2>3 DEF Entries, E
<1> HIDE DEF e, m, t, s
<1>3. PICK k \in Nat :
          /\ Len(t) + k = Len(s) + 1 /\ Len(t) >= 1
          /\ \A i \in 1..Len(t) : i + k <= Len(s) => t[i] = s[i + k]
          /\ t[Len(t)] = e
    BY <1>2 DEF TailThen
<1>4. Len(t) \in Nat /\ Len(s) \in Nat
    BY <1>2 DEF Entries, s
<1>5. ASSUME NEW i \in 1..Len(t), i # Len(t)
      PROVE  i + k \in 1..Len(s) /\ t[i] = s[i + k]
    <2>1. i + k \in 1..Len(s)
        BY <1>3, <1>4, <1>5
    <2> QED
        BY <1>3, <2>1
<1>6. AllTrue(t, f, R)
    BY <1>1, <1>3, <1>5 DEF AllTrue, s
<1>7. ASSUME NEW i \in 1..Len(t), t[i].body.type = "start", <<t[i].body.of, life>> \in P
      PROVE  Completes(t, i)
    <2>1. i # Len(t)
        BY <1>1, <1>3, <1>7
    <2>2. i + k \in 1..Len(s) /\ t[i] = s[i + k]
        BY <1>5, <2>1
    <2>3. Completes(s, i + k)
        BY <1>7, <2>2 DEF AnsweredSince, s
    <2>4. PICK j \in 1..Len(s) :
              /\ i + k < j /\ s[j].body.type = "completion"
              /\ s[j].body.run = s[i + k].body.run
        BY <2>3 DEF Completes
    <2>5. j - k \in 1..Len(t) /\ i < j - k /\ (j - k) + k = j
        BY <1>3, <1>4, <2>4
    <2>6. t[j - k] = s[j]
        BY <1>3, <2>5
    <2> QED
        BY <2>2, <2>4, <2>5, <2>6 DEF Completes
<1>8. t \in Entries /\ m.sequence \in Nat
    BY <1>2
<1>9. Len(t) >= 1 /\ t[Len(t)].body = b
    BY <1>1, <1>3
<1>10. AnsweredSince(t, P, life)
    BY <1>7 DEF AnsweredSince
<1> QED
    BY <1>6, <1>8, <1>9, <1>10 DEF t, m

\* Executions and resumptions that are added take nothing from what is true.
LEMMA StaysTrue ==
    ASSUME NEW s, NEW f \in Seq(Outcomes), NEW x \in Outcomes, NEW R, NEW Q, R \subseteq Q,
           AllTrue(s, f, R)
    PROVE  AllTrue(s, Append(f, x), Q) /\ AllTrue(s, f, Q)
<1> DEFINE g == Append(f, x)
<1>1. Len(f) \in Nat /\ \A n \in 1..Len(f) : n \in 1..Len(g) /\ g[n] = f[n]
    OBVIOUS
<1> HIDE DEF g
<1> QED
    BY <1>1 DEF AllTrue, EntryTrue, g

LEMMA RetainedTrue ==
    ASSUME NEW s \in Entries, NEW f, NEW R, AllTrue(s, f, R)
    PROVE  AllTrue(Retained(s), f, R)
<1>1. PICK k \in 0..Len(s) :
          /\ Len(Retained(s)) = Len(s) - k
          /\ \A i \in 1..Len(Retained(s)) : Retained(s)[i] = s[i + k]
    BY RetainedIsTail DEF Entries
<1>2. Len(s) \in Nat
    BY DEF Entries
<1>3. \A i \in 1..Len(Retained(s)) : i + k \in 1..Len(s)
    BY <1>1, <1>2
<1> QED
    BY <1>1, <1>3 DEF AllTrue

\* The start and the screening of a new execution.
LEMMA StartedTrue ==
    ASSUME Inv, LifeInv, NEW r \in Runs, Begins(r), NEW screened \in BOOLEAN,
           NEW outcome \in Statuses \cup {"interrupted"}
    PROVE  LET n == Len(fate) + 1
               g == Append(fate, [run |-> r, outcome |-> outcome])
               l == Started(r, n, screened)
           IN  /\ n \in 1..MaxExecutions /\ n \in 1..Len(g)
               /\ g[n] = [run |-> r, outcome |-> outcome]
               /\ l.entries \in Entries /\ l.sequence \in Nat
               /\ AllTrue(l.entries, g, resumed) /\ AnsweredSince(l.entries, resumed, crashes)
               /\ \A s : AllTrue(s, fate, resumed) => AllTrue(s, g, resumed)
<1> DEFINE n == Len(fate) + 1
           x == [run |-> r, outcome |-> outcome]
           g == Append(fate, x)
<1>1. x \in Outcomes /\ fate \in Seq(Outcomes)
    BY DEF Inv, RecoveryTypeOK, Outcomes
<1>2. n \in 1..MaxExecutions /\ Len(g) = n /\ g[n] = x
    BY <1>1, StartedKept
<1>3. n \in 1..Len(g) /\ n \notin 1..Len(fate)
    BY <1>1, <1>2
<1>4. <<n, crashes>> \notin resumed
    BY <1>3 DEF LifeInv
<1>5. \A s : AllTrue(s, fate, resumed) => AllTrue(s, g, resumed)
    BY <1>1, StaysTrue
<1>6. /\ Start(r, n).type = "start" /\ Start(r, n).run = r /\ Start(r, n).of = n
      /\ Screening(r, n).type = "input_screening" /\ Screening(r, n).run = r /\ Screening(r, n).of = n
    BY DEF Start, Screening
<1>7. g[n].run = r
    BY <1>2
<1> HIDE DEF n, g, x
<1>8. PICK status : status \in Statuses
    BY RecoveryAssumption
<1>9. Start(r, n) \in Body /\ Screening(r, n) \in Body
    BY <1>2, <1>8, RunBodiesTyped
<1>10. EntryTrue(Start(r, n), g, resumed) /\ EntryTrue(Screening(r, n), g, resumed)
    BY <1>3, <1>6, <1>7 DEF EntryTrue
<1>11. ledger.entries \in Entries /\ ledger.sequence \in Nat
    BY DEF Inv, RecoveryTypeOK
<1> DEFINE m == Appended(ledger, Start(r, n))
<1>12. /\ m.entries \in Entries /\ m.sequence \in Nat
       /\ AllTrue(m.entries, g, resumed) /\ AnsweredSince(m.entries, resumed, crashes)
    BY <1>4, <1>5, <1>6, <1>9, <1>10, <1>11, AppendedTrue DEF LifeInv
<1> HIDE DEF m
<1> DEFINE p == Appended(m, Screening(r, n))
<1>13. /\ p.entries \in Entries /\ p.sequence \in Nat
       /\ AllTrue(p.entries, g, resumed) /\ AnsweredSince(p.entries, resumed, crashes)
    BY <1>6, <1>9, <1>10, <1>12, AppendedTrue
<1>14. Started(r, n, screened) = IF screened THEN p ELSE m
    BY DEF Started, m
<1> HIDE DEF p
<1> QED
    BY <1>2, <1>3, <1>5, <1>12, <1>13, <1>14 DEF n, g, x

LEMMA LifeInvInit == RecoveryInit => LifeInv
<1> SUFFICES ASSUME RecoveryInit PROVE LifeInv
    OBVIOUS
<1>1. ledger.entries = <<>> /\ Len(<<>>) = 0
    BY DEF RecoveryInit, EmptyLedger
<1> QED
    BY <1>1 DEF RecoveryInit, LifeInv, AllTrue, AnsweredSince

\* resume() answers what it resumed.
LEMMA RecoverTrue ==
    ASSUME Inv, LifeInv, NEW r \in Runs, NEW status \in Statuses, Recover(r, status)
    PROVE  LifeInv'
<1> DEFINE n == Resumable(r)
           i == Latest(EntriesOf(r, "start"))
           b == Completion(r, status, n)
           s == ledger.entries
           t == ledger'.entries
<1>1. /\ EntriesOf(r, "start") # {} /\ ledger' = Appended(ledger, b)
      /\ resumed' = resumed \cup {<<n, crashes>>}
      /\ UNCHANGED <<saving, stored, fate, crashes>>
    BY DEF Recover, Interrupted
<1>2. n \in 1..Len(fate) /\ n \in 1..MaxExecutions
    BY <1>1, ResumableTyped
<1>3. i \in EntriesOf(r, "start")
    <2>1. Len(s) \in Nat
        BY DEF Inv, RecoveryTypeOK, Entries
    <2>2. EntriesOf(r, "start") \in SUBSET (1..Len(s))
        BY DEF EntriesOf
    <2> QED
        BY <1>1, <2>1, <2>2, LatestExists
<1>4. i \in 1..Len(s) /\ s[i].body.run = r /\ s[i].body.of = n
    BY <1>3 DEF EntriesOf, Resumable
<1>5. fate[n].run = r
    BY <1>4 DEF LifeInv, AllTrue, EntryTrue
<1>6. b \in Body /\ b.type = "completion" /\ b.run = r /\ b.of = n
    BY <1>2, RunBodiesTyped DEF Completion
<1> HIDE DEF n, i, b
<1>7. s \in Entries /\ ledger.sequence \in Nat /\ fate \in Seq(Outcomes)
    BY DEF Inv, RecoveryTypeOK, Outcomes
<1>8. \A q : AllTrue(q, fate, resumed) => AllTrue(q, fate, resumed')
    <2>1. PICK x : x \in Outcomes
        BY <1>2, <1>7, ElementOfSeq
    <2> QED
        BY <1>1, <1>7, <2>1, StaysTrue
<1>9. EntryTrue(b, fate, resumed')
    BY <1>1, <1>2, <1>5, <1>6 DEF EntryTrue
<1>10. AllTrue(s, fate, resumed') /\ AnsweredSince(s, resumed, crashes)
    BY <1>8 DEF LifeInv
<1>11. /\ t \in Entries
       /\ AllTrue(t, fate, resumed') /\ AnsweredSince(t, resumed, crashes)
       /\ Len(t) >= 1 /\ t[Len(t)].body = b
    BY <1>1, <1>6, <1>7, <1>9, <1>10, AppendedTrue
<1> HIDE DEF t, s
<1>12. ASSUME NEW j \in 1..Len(t), t[j].body.type = "start",
              <<t[j].body.of, crashes>> \in resumed'
       PROVE  Completes(t, j)
    <2>1. CASE <<t[j].body.of, crashes>> \in resumed
        BY <1>11, <1>12, <2>1 DEF AnsweredSince
    <2>2. CASE t[j].body.of = n
        <3>1. t[j].body.run = r
            BY <1>5, <1>11, <2>2 DEF AllTrue, EntryTrue
        <3>2. Len(t) \in Nat /\ Len(t) \in 1..Len(t)
            BY <1>11 DEF Entries
        <3>3. j # Len(t)
            BY <1>6, <1>11, <1>12
        <3>4. j < Len(t)
            BY <3>2, <3>3
        <3> QED
            BY <1>6, <1>11, <3>1, <3>2, <3>4 DEF Completes
    <2> QED
        BY <1>1, <1>12, <2>1, <2>2
<1>13. AnsweredSince(t, resumed', crashes')
    BY <1>1, <1>12 DEF AnsweredSince
<1>14. AllTrue(t, fate', resumed')
    BY <1>1, <1>11
<1>15. \A q \in saving' : AllTrue(q, fate', resumed')
    BY <1>1, <1>8 DEF LifeInv
<1>16. stored' # Nothing => AllTrue(stored', fate', resumed')
    BY <1>1, <1>8 DEF LifeInv
<1>17. \A m, life : <<m, life>> \in resumed' => m \in 1..Len(fate') /\ life <= crashes'
    <2>1. crashes <= crashes
        BY DEF Inv, RecoveryTypeOK
    <2> QED
        BY <1>1, <1>2, <2>1 DEF LifeInv
<1> QED
    BY <1>13, <1>14, <1>15, <1>16, <1>17 DEF LifeInv, t

LEMMA LifeInvStep == Inv /\ LifeInv /\ [RecoveryNext]_recoveryVars => LifeInv'
<1> SUFFICES ASSUME Inv, LifeInv, [RecoveryNext]_recoveryVars PROVE LifeInv'
    OBVIOUS
<1>1. ASSUME NEW r \in Runs, NEW screened \in BOOLEAN,
             NEW outcome \in Statuses \cup {"interrupted"}, Begins(r),
             fate' = Append(fate, [run |-> r, outcome |-> outcome]),
             AllTrue(ledger'.entries, fate', resumed),
             AnsweredSince(ledger'.entries, resumed, crashes),
             UNCHANGED <<saving, stored, resumed, unrecorded, crashes>>
      PROVE  LifeInv'
    <2>1. \A s : AllTrue(s, fate, resumed) => AllTrue(s, fate', resumed)
        BY <1>1, StartedTrue
    <2>2. fate \in Seq(Outcomes) /\ [run |-> r, outcome |-> outcome] \in Outcomes
        BY DEF Inv, RecoveryTypeOK, Outcomes
    <2>3. \A n \in 1..Len(fate) : n \in 1..Len(fate')
        BY <1>1, <2>2
    <2>4. \A n, life : <<n, life>> \in resumed' => n \in 1..Len(fate') /\ life <= crashes'
        BY <1>1, <2>3 DEF LifeInv
    <2> QED
        BY <1>1, <2>1, <2>4 DEF LifeInv
<1>2. ASSUME NEW r \in Runs, NEW screened \in BOOLEAN, RunThrows(r, screened) PROVE LifeInv'
    <2>1. /\ Begins(r) /\ ledger' = Started(r, Len(fate) + 1, screened)
          /\ fate' = Append(fate, [run |-> r, outcome |-> "interrupted"])
          /\ UNCHANGED <<saving, stored, resumed, unrecorded, crashes>>
        BY <1>2 DEF RunThrows
    <2>2. /\ AllTrue(ledger'.entries, fate', resumed)
          /\ AnsweredSince(ledger'.entries, resumed, crashes)
        BY <2>1, StartedTrue
    <2> QED
        BY <1>1, <2>1, <2>2
<1>3. ASSUME NEW r \in Runs, NEW screened \in BOOLEAN, NEW status \in Statuses,
             RunCompletes(r, screened, status)
      PROVE  LifeInv'
    <2> DEFINE n == Len(fate) + 1
               l == Started(r, n, screened)
               b == Completion(r, status, n)
    <2>1. /\ Begins(r) /\ ledger' = Appended(l, b)
          /\ fate' = Append(fate, [run |-> r, outcome |-> status])
          /\ UNCHANGED <<saving, stored, resumed, unrecorded, crashes>>
        BY <1>3 DEF RunCompletes
    <2>2. /\ n \in 1..MaxExecutions /\ n \in 1..Len(fate')
          /\ fate'[n] = [run |-> r, outcome |-> status]
          /\ l.entries \in Entries /\ l.sequence \in Nat
          /\ AllTrue(l.entries, fate', resumed) /\ AnsweredSince(l.entries, resumed, crashes)
        BY <2>1, StartedTrue
    <2>3. b \in Body /\ b.type = "completion" /\ b.run = r /\ b.of = n
        BY <2>2, RunBodiesTyped DEF Completion
    <2>4. fate'[n].run = r /\ fate'[n].outcome # "interrupted"
        BY <2>2, RecoveryAssumption
    <2> HIDE DEF n, l, b
    <2>5. EntryTrue(b, fate', resumed)
        BY <2>2, <2>3, <2>4 DEF EntryTrue
    <2>6. /\ AllTrue(ledger'.entries, fate', resumed)
          /\ AnsweredSince(ledger'.entries, resumed, crashes)
        BY <2>1, <2>2, <2>3, <2>5, AppendedTrue
    <2> QED
        BY <1>1, <2>1, <2>6
<1>4. ASSUME NEW r \in Runs, NEW status \in Statuses, Recover(r, status) PROVE LifeInv'
    BY <1>4, RecoverTrue
<1>4a. ASSUME NEW r \in Runs, RecoverFails(r) PROVE LifeInv'
    BY <1>4a DEF RecoverFails, LifeInv
<1>5. CASE Save
    BY <1>5 DEF Save, LifeInv
<1>6. ASSUME NEW s \in saving, Saved(s) PROVE LifeInv'
    BY <1>6 DEF Saved, LifeInv
<1>7. CASE Restart
    <2>1. /\ saving' = {} /\ UNCHANGED <<stored, fate, resumed, unrecorded>> /\ crashes' = crashes + 1
          /\ ledger' = IF stored = Nothing THEN EmptyLedger ELSE Imported(stored)
        BY <1>7 DEF Restart
    <2>2. AllTrue(EmptyLedger.entries, fate, resumed)
        <3>1. EmptyLedger.entries = <<>> /\ Len(<<>>) = 0
            BY DEF EmptyLedger
        <3> QED
            BY <3>1 DEF AllTrue
    <2>3. ASSUME stored # Nothing PROVE AllTrue(Imported(stored).entries, fate, resumed)
        <3>1. stored \in Entries /\ AllTrue(stored, fate, resumed)
            BY <2>3 DEF LifeInv, Inv, RecoveryTypeOK
        <3>2. AllTrue(Retained(stored), fate, resumed)
            BY <3>1, RetainedTrue
        <3> QED
            BY <3>2 DEF Imported
    <2>4. AllTrue(ledger'.entries, fate', resumed')
        BY <2>1, <2>2, <2>3
    <2>5. \A n, life : <<n, life>> \in resumed' =>
              n \in 1..Len(fate') /\ life <= crashes' /\ life # crashes'
        <3> SUFFICES ASSUME NEW n, NEW life, <<n, life>> \in resumed
                     PROVE  n \in 1..Len(fate) /\ life <= crashes + 1 /\ life # crashes + 1
            BY <2>1
        <3>1. life \in Nat /\ crashes \in Nat
            BY RecoveryAssumption DEF Inv, RecoveryTypeOK
        <3>2. n \in 1..Len(fate) /\ life <= crashes
            BY DEF LifeInv
        <3> QED
            BY <3>1, <3>2
    <2>6. AnsweredSince(ledger'.entries, resumed', crashes')
        BY <2>5 DEF AnsweredSince
    <2> QED
        BY <2>1, <2>4, <2>5, <2>6 DEF LifeInv
<1>8. CASE UNCHANGED recoveryVars
    BY <1>8 DEF recoveryVars, LifeInv
<1> QED
    BY <1>2, <1>3, <1>4, <1>4a, <1>5, <1>6, <1>7, <1>8 DEF RecoveryNext

LEMMA LifeInvHolds == RecoverySpec => []LifeInv
    BY InvCorrect, LifeInvInit, LifeInvStep, PTL DEF RecoverySpec

\* Between two crashes recoverRun() calls resume() no more for an execution once a
\* completion of it is recorded, whatever was dropped from the ledger since: only
\* calls that threw or returned no result are repeated.
THEOREM ResumedOnce == RecoverySpec => []ResumedOncePerLife
<1>1. ASSUME Inv, LifeInv PROVE ResumedOncePerLife
    <2> SUFFICES ASSUME NEW r \in Runs, Interrupted(r), <<Resumable(r), crashes>> \in resumed
                 PROVE  FALSE
        BY DEF ResumedOncePerLife
    <2> DEFINE s == ledger.entries
               i == Latest(EntriesOf(r, "start"))
    <2>1. i \in EntriesOf(r, "start")
        <3>1. Len(s) \in Nat /\ EntriesOf(r, "start") \in SUBSET (1..Len(s))
            BY <1>1 DEF Inv, RecoveryTypeOK, Entries, EntriesOf
        <3> QED
            BY <3>1, LatestExists DEF Interrupted
    <2>2. /\ i \in 1..Len(s) /\ s[i].body.run = r /\ s[i].body.type = "start"
          /\ s[i].body.of = Resumable(r)
        BY <2>1 DEF EntriesOf, Resumable
    <2>3. Completes(s, i)
        BY <1>1, <2>2, SMTT(30) DEF LifeInv, AnsweredSince
    <2>4. EntriesOf(r, "completion") # {}
        BY <2>2, <2>3 DEF Completes, EntriesOf
    <2> QED
        BY <2>4 DEF Interrupted
<1> QED
    BY <1>1, InvCorrect, LifeInvHolds, PTL

\* A run id that its callers use once has one execution.
UsedOnce ==
    \A m, n \in 1..Len(fate) :
        fate[m].run = fate[n].run /\ fate[m].run \notin ReusedRuns => m = n

LEMMA UsedOnceHolds == RecoverySpec => []UsedOnce
<1>1. RecoveryInit => UsedOnce
    BY DEF RecoveryInit, UsedOnce
<1>2. ASSUME Inv, UsedOnce, [RecoveryNext]_recoveryVars PROVE UsedOnce'
    <2>1. ASSUME NEW r \in Runs, NEW x, Begins(r), fate' = Append(fate, x), x.run = r
          PROVE  UsedOnce'
        <3>1. fate \in Seq(Outcomes) /\ Len(fate) \in Nat
            BY <1>2 DEF Inv, RecoveryTypeOK, Outcomes
        <3>2. /\ Len(fate') = Len(fate) + 1 /\ fate'[Len(fate) + 1].run = r
              /\ \A m \in 1..Len(fate) : fate'[m] = fate[m]
            BY <2>1, <3>1
        <3>3. \A m \in 1..Len(fate') : m \in 1..Len(fate) \/ m = Len(fate) + 1
            BY <3>1, <3>2
        <3>4. r \notin ReusedRuns => \A m \in 1..Len(fate) : fate[m].run # r
            BY <2>1 DEF Begins, Fresh
        <3> QED
            BY <1>2, <3>2, <3>3, <3>4 DEF UsedOnce
    <2>2. ASSUME UNCHANGED fate PROVE UsedOnce'
        BY <1>2, <2>2 DEF UsedOnce
    <2>3. ASSUME NEW r \in Runs, NEW screened \in BOOLEAN, RunThrows(r, screened)
          PROVE  UsedOnce'
        BY <2>1, <2>3 DEF RunThrows
    <2>4. ASSUME NEW r \in Runs, NEW screened \in BOOLEAN, NEW status \in Statuses,
                 RunCompletes(r, screened, status)
          PROVE  UsedOnce'
        BY <2>1, <2>4 DEF RunCompletes
    <2>5. ASSUME NEW r \in Runs, NEW status \in Statuses, Recover(r, status) PROVE UsedOnce'
        BY <2>2, <2>5 DEF Recover
    <2>5a. ASSUME NEW r \in Runs, RecoverFails(r) PROVE UsedOnce'
        BY <2>2, <2>5a DEF RecoverFails
    <2>6. ASSUME NEW s, Saved(s) PROVE UsedOnce'
        BY <2>2, <2>6 DEF Saved
    <2>7. CASE Save \/ Restart \/ UNCHANGED recoveryVars
        BY <2>2, <2>7 DEF Save, Restart, recoveryVars
    <2> QED
        BY <1>2, <2>3, <2>4, <2>5, <2>5a, <2>6, <2>7 DEF RecoveryNext
<1> QED
    BY <1>1, <1>2, InvCorrect, PTL DEF RecoverySpec

\* A run whose id is used once can be recovered as long as its start is in the
\* ledger, once it was interrupted and no resumption of it is recorded: neither the
\* cap, nor what other runs do, nor a resume() that failed, nor a snapshot brought
\* back after a crash hides it.
THEOREM RecoverableRuns ==
    RecoverySpec => [](\A r \in Runs \ ReusedRuns : RecoverableIfInterrupted(r))
<1>1. ASSUME Inv, LifeInv, UsedOnce, NEW r \in Runs \ ReusedRuns
      PROVE  RecoverableIfInterrupted(r)
    <2> DEFINE s == ledger.entries
               i == Latest(EntriesOf(r, "start"))
               n == Resumable(r)
    <2> SUFFICES ASSUME EntriesOf(r, "start") # {}, fate[n].outcome = "interrupted",
                        \A life \in 0..MaxCrashes : <<n, life>> \notin resumed,
                        EntriesOf(r, "completion") # {}
                 PROVE  FALSE
        BY DEF RecoverableIfInterrupted, Interrupted
    <2>1. i \in EntriesOf(r, "start")
        <3>1. Len(s) \in Nat /\ EntriesOf(r, "start") \in SUBSET (1..Len(s))
            BY <1>1, SMTT(30) DEF Inv, RecoveryTypeOK, Entries, EntriesOf
        <3> QED
            BY <3>1, LatestExists
    <2>2. i \in 1..Len(s) /\ s[i].body.run = r /\ s[i].body.of = n
        BY <2>1 DEF EntriesOf, Resumable
    <2>3. n \in 1..Len(fate) /\ fate[n].run = r
        BY <1>1, <2>2 DEF LifeInv, AllTrue, EntryTrue
    <2>4. PICK j \in 1..Len(s) : s[j].body.run = r /\ s[j].body.type = "completion"
        BY DEF EntriesOf
    <2> DEFINE m == s[j].body.of
    <2>5. /\ m \in 1..Len(fate) /\ fate[m].run = r
          /\ fate[m].outcome = "interrupted" => \E life : <<m, life>> \in resumed
        BY <1>1, <2>4 DEF LifeInv, AllTrue, EntryTrue
    <2>6. m = n
        BY <1>1, <2>3, <2>5 DEF UsedOnce
    <2>7. PICK life : <<n, life>> \in resumed
        BY <2>5, <2>6
    <2>8. life \in 0..MaxCrashes
        BY <1>1, <2>7 DEF Inv, RecoveryTypeOK
    <2> QED
        BY <2>7, <2>8
<1>2. ASSUME Inv, LifeInv, UsedOnce
      PROVE  \A r \in Runs \ ReusedRuns : RecoverableIfInterrupted(r)
    BY <1>1, <1>2
<1> QED
    BY <1>2, InvCorrect, LifeInvHolds, UsedOnceHolds, PTL
-----------------------------------------------------------------------------
(* Saves, one at a time. *)

\* The save under way is not behind the store, nor ahead of the ledger.
SavedForward ==
    /\ IsFiniteSet(saving)
    /\ \A s, t \in saving : s = t
    /\ \A s \in saving :
          /\ Newest(s) <= ledger.sequence
          /\ stored # Nothing => Newest(stored) <= Newest(s)
    /\ stored # Nothing => Newest(stored) <= ledger.sequence

LEMMA NewestTyped == ASSUME NEW s \in Entries PROVE Newest(s) \in Nat
<1>1. Len(s) \in Nat /\ (s # <<>> => Len(s) \in 1..Len(s))
    BY DEF Entries
<1> QED
    BY <1>1, EntryType DEF Newest

LEMMA SavedForwardStep ==
    ASSUME MaxSaves <= 1, Inv, SavedForward, [RecoveryNext]_recoveryVars
    PROVE  /\ SavedForward'
           /\ stored # Nothing => Newest(stored) <= Newest(stored')
<1>1. /\ ledger.sequence \in Nat /\ ledger.entries \in Entries
      /\ ledger.sequence = Newest(ledger.entries)
      /\ \A s \in saving : Newest(s) \in Nat
      /\ stored # Nothing => stored \in Entries /\ Newest(stored) \in Nat
    BY NewestTyped DEF Inv, KeptLedger, RecoveryTypeOK
<1>2. ASSUME ledger'.sequence \in Nat, ledger.sequence <= ledger'.sequence,
             UNCHANGED <<saving, stored>>
      PROVE  SavedForward' /\ (stored # Nothing => Newest(stored) <= Newest(stored'))
    BY <1>1, <1>2 DEF SavedForward
<1>3. ASSUME NEW r \in Runs, NEW n, NEW screened \in BOOLEAN
      PROVE  Started(r, n, screened).sequence \in {ledger.sequence + 1, ledger.sequence + 1 + 1}
    BY DEF Started, Appended
<1>4. ASSUME NEW r \in Runs, NEW screened \in BOOLEAN, RunThrows(r, screened)
      PROVE  SavedForward' /\ (stored # Nothing => Newest(stored) <= Newest(stored'))
    <2>1. ledger'.sequence \in {ledger.sequence + 1, ledger.sequence + 1 + 1}
        BY <1>3, <1>4 DEF RunThrows
    <2>2. ledger'.sequence \in Nat /\ ledger.sequence <= ledger'.sequence
        BY <1>1, <2>1
    <2> QED
        BY <1>2, <1>4, <2>2 DEF RunThrows
<1>5. ASSUME NEW r \in Runs, NEW screened \in BOOLEAN, NEW status \in Statuses,
             RunCompletes(r, screened, status)
      PROVE  SavedForward' /\ (stored # Nothing => Newest(stored) <= Newest(stored'))
    <2> DEFINE l == Started(r, Len(fate) + 1, screened)
    <2>1. l.sequence \in {ledger.sequence + 1, ledger.sequence + 1 + 1}
        BY <1>3
    <2>2. ledger'.sequence = l.sequence + 1
        BY <1>5 DEF RunCompletes, Appended
    <2>3. ledger'.sequence \in Nat /\ ledger.sequence <= ledger'.sequence
        <3> HIDE DEF l
        <3> QED
            BY <1>1, <2>1, <2>2
    <2> QED
        BY <1>2, <1>5, <2>3 DEF RunCompletes
<1>6. ASSUME NEW r \in Runs, NEW status \in Statuses, Recover(r, status)
      PROVE  SavedForward' /\ (stored # Nothing => Newest(stored) <= Newest(stored'))
    <2>1. ledger'.sequence = ledger.sequence + 1
        BY <1>6 DEF Recover, Appended
    <2>2. ledger'.sequence \in Nat /\ ledger.sequence <= ledger'.sequence
        BY <1>1, <2>1
    <2> QED
        BY <1>2, <1>6, <2>2 DEF Recover
<1>6a. ASSUME NEW r \in Runs, RecoverFails(r)
      PROVE  SavedForward' /\ (stored # Nothing => Newest(stored) <= Newest(stored'))
    <2>1. UNCHANGED <<ledger, saving, stored>>
        BY <1>6a DEF RecoverFails
    <2>2. ledger'.sequence \in Nat /\ ledger.sequence <= ledger'.sequence
        BY <1>1, <2>1
    <2> QED
        BY <1>2, <2>1, <2>2
<1>7. CASE Save
    <2>1. saving = {}
        <3>1. Cardinality(saving) \in Nat /\ Cardinality(saving) < MaxSaves
            BY <1>7, FS_CardinalityType DEF Save, SavedForward
        <3>2. Cardinality(saving) = 0
            BY <3>1, RecoveryAssumption
        <3> QED
            BY <3>2, FS_EmptySet DEF SavedForward
    <2>2. saving' = {ledger.entries} /\ UNCHANGED <<ledger, stored>>
        BY <1>7, <2>1 DEF Save
    <2>3. IsFiniteSet({ledger.entries})
        BY FS_Singleton
    <2>4. IsFiniteSet(saving') /\ \A s, t \in saving' : s = t
        BY <2>2, <2>3
    <2>5. /\ Newest(ledger.entries) <= ledger.sequence
          /\ stored # Nothing =>
                /\ Newest(stored) <= Newest(ledger.entries)
                /\ Newest(stored) <= ledger.sequence /\ Newest(stored) <= Newest(stored)
        BY <1>1 DEF SavedForward
    <2> QED
        BY <2>2, <2>4, <2>5 DEF SavedForward
<1>8. ASSUME NEW s \in saving, Saved(s)
      PROVE  SavedForward' /\ (stored # Nothing => Newest(stored) <= Newest(stored'))
    <2>1. saving' = saving \ {s} /\ stored' = s /\ UNCHANGED ledger
        BY <1>8 DEF Saved
    <2>2. saving' = {}
        BY <2>1 DEF SavedForward
    <2>3. IsFiniteSet({})
        BY FS_EmptySet
    <2> QED
        BY <2>1, <2>2, <2>3 DEF SavedForward
<1>9. CASE Restart
    <2>1. /\ saving' = {} /\ UNCHANGED stored
          /\ ledger' = IF stored = Nothing THEN EmptyLedger ELSE Imported(stored)
        BY <1>9 DEF Restart
    <2>2. ASSUME stored # Nothing PROVE Newest(stored) <= ledger'.sequence
        <3>1. stored \in Entries /\ Len(stored) <= MaxEntries
            BY <2>2 DEF Inv, Kept, Ordered
        <3>2. Len(stored) \in Nat /\ MaxEntries \in Nat
            BY <3>1, LedgerAssumption DEF Entries
        <3>3. Retained(stored) = stored
            BY <3>1, <3>2 DEF Retained
        <3>4. ledger'.sequence = Newest(stored)
            BY <2>1, <2>2, <3>3 DEF Imported
        <3> QED
            BY <1>1, <2>2, <3>4
    <2>3. IsFiniteSet({})
        BY FS_EmptySet
    <2>4. stored # Nothing => Newest(stored) <= Newest(stored)
        BY <1>1
    <2> QED
        BY <2>1, <2>2, <2>3, <2>4 DEF SavedForward
<1>10. CASE UNCHANGED recoveryVars
    <2>1. UNCHANGED <<ledger, saving, stored>>
        BY <1>10 DEF recoveryVars
    <2>2. ledger'.sequence \in Nat /\ ledger.sequence <= ledger'.sequence
        BY <1>1, <2>1
    <2> QED
        BY <1>2, <2>1, <2>2
<1> QED
    BY <1>4, <1>5, <1>6, <1>6a, <1>7, <1>8, <1>9, <1>10 DEF RecoveryNext

\* When a caller waits for a save before it asks for the next one, the snapshot in
\* the store never goes back to an earlier state of the ledger, restarts included.
THEOREM StoredForward ==
    ASSUME MaxSaves <= 1
    PROVE  RecoverySpec => StoredNeverGoesBack
<1>1. RecoveryInit => SavedForward
    BY FS_EmptySet DEF RecoveryInit, SavedForward
<1>2. Inv /\ SavedForward /\ [RecoveryNext]_recoveryVars
        => SavedForward' /\ (stored # Nothing => Newest(stored) <= Newest(stored'))
    BY SavedForwardStep
<1>3. Inv /\ SavedForward /\ [RecoveryNext]_recoveryVars
        => [stored # Nothing => Newest(stored) <= Newest(stored')]_recoveryVars
    BY <1>2
<1> QED
    BY <1>1, <1>2, <1>3, InvCorrect, PTL DEF RecoverySpec, StoredNeverGoesBack
-----------------------------------------------------------------------------
(* CliLedger. *)

\* The ledger of a process, and what it writes: the last entries appended, with
\* ids that follow one another up to the sequence, and each completion right
\* behind the start of its run.
WholeLedger(l) ==
    /\ l \in [entries : LedgersOfRuns, sequence : Nat]
    /\ Len(l.entries) <= MaxEntries /\ l.sequence = Newest(l.entries)
    /\ \A n \in 1..Len(l.entries) : l.entries[n].id + Len(l.entries) = l.sequence + n
    /\ \A n \in 2..Len(l.entries) :
          l.entries[n].body.type = "completion" =>
             /\ l.entries[n - 1].body.type = "start"
             /\ l.entries[n - 1].body.by = l.entries[n].body.by

\* The file as a ledger.
FileLedger == [entries |-> file.entries, sequence |-> Newest(file.entries)]

\* A ledger has the completion of i, with id x, or has dropped it.
Keeps(l, i, x) ==
    \/ l.sequence >= x + MaxEntries
    \/ \E n \in 1..Len(l.entries) :
          /\ l.entries[n].id = x
          /\ l.entries[n].body = RunBody(i, "completion", l.entries[n].body.status)

\* Once i ended well and nobody met it between its read and its write, the file
\* and everyone who is to write it have its completion.
KeptByAll(i) ==
    /\ file.state # "absent"
    /\ file.state = "json" => Keeps(FileLedger, i, held[i].sequence)
    /\ \A j \in InSpan : Keeps(held[j], i, held[i].sequence)

CliInv ==
    /\ CliTypeOK
    /\ \A i \in Invocations : WholeLedger(held[i])
    /\ WholeLedger(FileLedger) /\ (file.state # "json" => file.entries = <<>>)
    /\ \A i \in InSpan :
          LET s == held[i].entries IN
          s # <<>> /\ s[Len(s)].body = RunBody(i, "completion", s[Len(s)].body.status)
    /\ \A i \in Invocations : code[i] # "none" <=> step[i] = "done"
    /\ \A i, j \in InSpan : i = j \/ j \in overlap[i]
    /\ \A i \in Invocations : step[i] = "writing" /\ touched[i] => overlap[i] # {}
    /\ BrokenExplained
    /\ \A i \in Invocations : Ran(i) /\ overlap[i] = {} => KeptByAll(i)
-----------------------------------------------------------------------------
CliBodies ==
    [type : {"start", "completion"}, by : Invocations,
     status : {"running", "success", "failed", "skipped"}]

CliEntries == [id : Nat \ {0}, body : CliBodies]

LEMMA WholeTyped ==
    ASSUME NEW l, WholeLedger(l)
    PROVE  /\ l.entries \in Seq(CliEntries) /\ Len(l.entries) \in Nat /\ l.sequence \in Nat
           /\ \A n \in 1..Len(l.entries) : l.entries[n].id \in Nat
<1>1. l.entries \in Seq(CliEntries) /\ l.sequence \in Nat
    BY DEF WholeLedger, LedgersOfRuns, CliEntries, CliBodies
<1>2. ASSUME NEW n \in 1..Len(l.entries) PROVE l.entries[n].id \in Nat
    <2>1. l.entries[n] \in CliEntries
        BY <1>1, ElementOfSeq
    <2> QED
        BY <2>1 DEF CliEntries
<1> QED
    BY <1>1, <1>2, LenProperties

\* append(): the ledger stays whole, ends with the new entry and keeps what it
\* kept; a completion must come right behind the start of its run.
LEMMA AppendedWhole ==
    ASSUME NEW l, WholeLedger(l), NEW b \in CliBodies,
           b.type = "completion" =>
              /\ l.entries # <<>>
              /\ l.entries[Len(l.entries)].body.type = "start"
              /\ l.entries[Len(l.entries)].body.by = b.by
    PROVE  LET m == Appended(l, b) IN
           /\ WholeLedger(m) /\ m.sequence = l.sequence + 1
           /\ m.entries # <<>> /\ m.entries[Len(m.entries)].body = b
           /\ m.entries[Len(m.entries)].id = m.sequence
           /\ \A i, x : x \in Nat /\ Keeps(l, i, x) => Keeps(m, i, x)
<1> DEFINE s == l.entries
           m == Appended(l, b)
           t == m.entries
           e == [id |-> l.sequence + 1, body |-> b]
<1>1. /\ s \in Seq(CliEntries) /\ Len(s) \in Nat /\ l.sequence \in Nat
      /\ \A n \in 1..Len(s) : s[n].id \in Nat
    BY WholeTyped
<1>2. e \in CliEntries /\ e.body = b /\ e.id = l.sequence + 1
    BY <1>1 DEF CliEntries
<1>3. t \in Seq(CliEntries) /\ m.sequence = l.sequence + 1 /\ TailThen(t, s, e)
    <2>1. e = [id |-> l.sequence + 1, body |-> b]
        OBVIOUS
    <2> HIDE DEF e
    <2> QED
        BY <1>1, <1>2, <2>1, AppendedIsTail
<1>4. Len(t) = IF Len(s) < MaxEntries THEN Len(s) + 1 ELSE MaxEntries
    BY <1>1, AppendedLength DEF WholeLedger
<1>5. m = [entries |-> t, sequence |-> l.sequence + 1]
    BY <1>3 DEF Appended
<1>6. /\ Len(s) <= MaxEntries
      /\ \A n \in 1..Len(s) : s[n].id + Len(s) = l.sequence + n
      /\ \A n \in 2..Len(s) :
            s[n].body.type = "completion" =>
               s[n - 1].body.type = "start" /\ s[n - 1].body.by = s[n].body.by
    BY DEF WholeLedger
<1>7. MaxEntries \in Nat \ {0}
    BY LedgerAssumption
<1>8. b.type = "completion" =>
          s # <<>> /\ s[Len(s)].body.type = "start" /\ s[Len(s)].body.by = b.by
    OBVIOUS
<1> HIDE DEF e, m, t, s
<1>9. PICK k \in Nat :
          /\ Len(t) + k = Len(s) + 1 /\ Len(t) >= 1
          /\ \A i \in 1..Len(t) : i + k <= Len(s) => t[i] = s[i + k]
          /\ t[Len(t)] = e
    BY <1>3 DEF TailThen
<1>10. Len(t) \in Nat /\ Len(t) \in 1..Len(t) /\ Len(t) <= MaxEntries /\ (k = 0 \/ Len(t) = MaxEntries)
    BY <1>1, <1>4, <1>6, <1>7, <1>9
<1>11. ASSUME NEW n \in 1..Len(t), n # Len(t)
       PROVE  n + k \in 1..Len(s) /\ t[n] = s[n + k]
    <2>1. n + k \in 1..Len(s)
        BY <1>1, <1>9, <1>10, <1>11
    <2> QED
        BY <1>9, <2>1
<1>12. t # <<>>
    BY <1>3, <1>10, EmptySeq
<1>13. t[Len(t)].body = b /\ t[Len(t)].id = m.sequence
    BY <1>2, <1>3, <1>9
<1>14. ASSUME NEW n \in 1..Len(t) PROVE t[n].id + Len(t) = m.sequence + n
    <2>1. CASE n = Len(t)
        BY <1>1, <1>3, <1>10, <1>13, <2>1
    <2>2. CASE n # Len(t)
        <3>1. n + k \in 1..Len(s) /\ t[n].id = s[n + k].id
            BY <1>11, <2>2
        <3>2. s[n + k].id + Len(s) = l.sequence + (n + k) /\ s[n + k].id \in Nat
            BY <1>1, <1>6, <3>1
        <3>3. PICK x \in Nat : x = s[n + k].id
            BY <3>2
        <3>4. x + Len(s) = l.sequence + n + k /\ n \in Nat
            BY <1>1, <1>10, <3>2, <3>3
        <3>5. /\ Len(t) \in Nat /\ Len(s) \in Nat /\ l.sequence \in Nat
              /\ Len(t) + k = Len(s) + 1 /\ m.sequence = l.sequence + 1
            BY <1>1, <1>3, <1>9, <1>10
        <3>6. x + Len(t) = m.sequence + n
            BY <3>4, <3>5, SMTT(30)
        <3> QED
            BY <3>1, <3>3, <3>6
    <2> QED
        BY <2>1, <2>2
<1>15. ASSUME NEW n \in 2..Len(t), t[n].body.type = "completion"
       PROVE  t[n - 1].body.type = "start" /\ t[n - 1].body.by = t[n].body.by
    <2>1. n - 1 \in 1..Len(t) /\ n - 1 # Len(t) /\ n \in 1..Len(t)
        BY <1>10
    <2>2. (n - 1) + k \in 1..Len(s) /\ t[n - 1] = s[(n - 1) + k]
        BY <1>11, <2>1
    <2>3. CASE n = Len(t)
        <3>1. (n - 1) + k = Len(s)
            BY <1>1, <1>9, <1>10, <2>3
        <3>2. t[n].body = b
            BY <1>13, <2>3
        <3> QED
            BY <1>8, <1>15, <2>2, <3>1, <3>2
    <2>4. CASE n # Len(t)
        <3>1. n + k \in 1..Len(s) /\ t[n] = s[n + k]
            BY <1>11, <2>1, <2>4
        <3>2. n + k \in 2..Len(s) /\ (n + k) - 1 = (n - 1) + k
            BY <1>1, <1>10, <3>1
        <3> QED
            BY <1>6, <1>15, <2>2, <3>1, <3>2
    <2> QED
        BY <2>3, <2>4
<1>16. Newest(t) = m.sequence
    BY <1>12, <1>13 DEF Newest
<1>17. m \in [entries : LedgersOfRuns, sequence : Nat]
    <2>1. t \in LedgersOfRuns /\ l.sequence + 1 \in Nat
        BY <1>1, <1>3 DEF LedgersOfRuns, CliEntries, CliBodies
    <2> QED
        BY <1>5, <2>1
<1>18. WholeLedger(m)
    BY <1>10, <1>14, <1>15, <1>16, <1>17 DEF WholeLedger, t
<1>19. ASSUME NEW i, NEW x \in Nat, Keeps(l, i, x) PROVE Keeps(m, i, x)
    <2>1. CASE l.sequence >= x + MaxEntries
        <3>1. m.sequence >= x + MaxEntries
            BY <1>1, <1>3, <1>7, <2>1
        <3> QED
            BY <3>1 DEF Keeps
    <2>2. CASE \E n \in 1..Len(s) :
                   s[n].id = x /\ s[n].body = RunBody(i, "completion", s[n].body.status)
        <3>1. PICK n \in 1..Len(s) :
                  s[n].id = x /\ s[n].body = RunBody(i, "completion", s[n].body.status)
            BY <2>2
        <3>2. CASE n > k
            <4>1. n - k \in 1..Len(t) /\ (n - k) + k = n /\ n <= Len(s)
                BY <1>1, <1>9, <1>10, <3>2
            <4>2. t[n - k] = s[n]
                BY <1>9, <4>1
            <4> QED
                BY <3>1, <4>1, <4>2 DEF Keeps, t
        <3>3. CASE ~(n > k)
            <4>1. Len(s) = MaxEntries
                BY <1>1, <1>4, <1>6, <1>7, <1>9, <1>10, <3>3
            <4>2. k = 1 /\ n = 1
                BY <1>1, <1>4, <1>7, <1>9, <3>3, <4>1
            <4>3. x + Len(s) = l.sequence + 1
                BY <1>6, <3>1, <4>2
            <4>4. m.sequence >= x + MaxEntries
                BY <1>1, <1>3, <4>1, <4>3
            <4> QED
                BY <4>4 DEF Keeps
        <3> QED
            BY <3>2, <3>3
    <2> QED
        BY <1>19, <2>1, <2>2 DEF Keeps, s
<1> QED
    BY <1>3, <1>12, <1>13, <1>18, <1>19 DEF m, t

\* Reading the file.
LEMMA ReadsWhole ==
    ASSUME CliInv, file.state # "broken", NEW i
    PROVE  /\ WholeLedger(Reads(i))
           /\ file.state = "json" => Reads(i) = FileLedger
<1>1. WholeLedger(EmptyLedger)
    <2>1. <<>> \in LedgersOfRuns /\ Len(<<>>) = 0
        BY DEF LedgersOfRuns
    <2> QED
        BY <2>1, LedgerAssumption DEF WholeLedger, EmptyLedger, Newest
<1>2. ASSUME file.state # "absent" PROVE Reads(i) = FileLedger
    <2>1. WholeLedger(FileLedger) /\ FileLedger.entries = file.entries
        BY DEF CliInv, FileLedger
    <2>2. Len(file.entries) <= MaxEntries /\ Len(file.entries) \in Nat /\ MaxEntries \in Nat
        BY <2>1, WholeTyped, LedgerAssumption DEF WholeLedger
    <2>3. Retained(file.entries) = file.entries
        BY <2>2 DEF Retained
    <2> QED
        BY <1>2, <2>3 DEF Reads, Imported, FileLedger
<1> QED
    BY <1>1, <1>2 DEF Reads, CliInv
-----------------------------------------------------------------------------
LEMMA CliInvInit == CliInit => CliInv
<1> SUFFICES ASSUME CliInit PROVE CliInv
    OBVIOUS
<1>1. <<>> \in LedgersOfRuns /\ Len(<<>>) = 0 /\ MaxEntries \in Nat /\ MaxKills \in Nat
    BY LedgerAssumption, CliAssumption DEF LedgersOfRuns
<1>2. /\ file = [state |-> "absent", entries |-> <<>>]
      /\ held = [i \in Invocations |-> [entries |-> <<>>, sequence |-> 0]]
      /\ step = [i \in Invocations |-> "idle"] /\ code = [i \in Invocations |-> "none"]
      /\ overlap = [i \in Invocations |-> {}] /\ touched = [i \in Invocations |-> FALSE]
      /\ kills = 0 /\ command \in [Invocations -> CommandLines]
    BY DEF CliInit, Absent, EmptyLedger
<1>3. WholeLedger([entries |-> <<>>, sequence |-> 0])
    BY <1>1 DEF WholeLedger, Newest
<1>4. CliTypeOK
    <2>1. held \in [Invocations -> [entries : LedgersOfRuns, sequence : Nat]]
        BY <1>1, <1>2
    <2>2. file \in [state : {"absent", "broken", "json"}, entries : LedgersOfRuns]
        BY <1>1, <1>2
    <2>3. kills \in 0..MaxKills
        BY <1>1, <1>2
    <2> QED
        BY <1>2, <2>1, <2>2, <2>3 DEF CliTypeOK
<1>5. WholeLedger(FileLedger) /\ \A i \in Invocations : WholeLedger(held[i])
    <2>1. FileLedger = [entries |-> <<>>, sequence |-> 0]
        BY <1>2 DEF FileLedger, Newest
    <2> QED
        BY <1>2, <1>3, <2>1
<1>6. InSpan = {} /\ BrokenExplained /\ \A i \in Invocations : ~Ran(i)
    BY <1>2 DEF InSpan, BrokenExplained, Ran
<1> QED
    BY <1>2, <1>4, <1>5, <1>6 DEF CliInv

\* An invocation that ends without having read the file.
LEMMA EndedEarly ==
    ASSUME CliInv, NEW i \in Invocations, step[i] = "idle",
           NEW c \in {"0", "1", "2", "thrown"}, Exits(i, c),
           c = "0" => ~(command[i].flags = {} /\ command[i].task = "some" /\ command[i].ledgerFile),
           UNCHANGED <<file, command, held, overlap, touched, kills>>
    PROVE  CliInv'
<1>1. /\ step' = [step EXCEPT ![i] = "done"] /\ code' = [code EXCEPT ![i] = c]
      /\ step \in [Invocations -> {"idle", "read", "writing", "done"}]
      /\ code \in [Invocations -> {"none", "0", "1", "2", "thrown", "killed"}]
    BY DEF Exits, CliInv, CliTypeOK
<1>2. InSpan' = InSpan /\ i \notin InSpan
    BY <1>1 DEF InSpan
<1>3. code[i] = "none"
    BY <1>1 DEF CliInv
<1>4. CliTypeOK'
    BY <1>1 DEF CliInv, CliTypeOK
<1>5. BrokenExplained'
    BY <1>1, <1>3 DEF CliInv, BrokenExplained
<1>6. ~Ran(i)'
    BY <1>1 DEF Ran
<1>7. \A j \in Invocations : j # i => (Ran(j)' <=> Ran(j))
    BY <1>1 DEF Ran
<1>8. \A j \in Invocations : Ran(j)' /\ overlap'[j] = {} => KeptByAll(j)'
    BY <1>2, <1>6, <1>7 DEF CliInv, KeptByAll, FileLedger
<1>9. \A j \in Invocations : code'[j] # "none" <=> step'[j] = "done"
    BY <1>1 DEF CliInv
<1>10. WholeLedger(FileLedger)' /\ (file'.state # "json" => file'.entries = <<>>)
    BY DEF CliInv, FileLedger
<1>11. \A j \in Invocations : step'[j] = "writing" /\ touched'[j] => overlap'[j] # {}
    BY <1>1 DEF CliInv
<1> QED
    BY <1>2, <1>4, <1>5, <1>8, <1>9, <1>10, <1>11 DEF CliInv

\* The file is read, the task run, and what is held is what the file had and
\* the run.
LEMMA ReadKeeps ==
    ASSUME CliInv, NEW i \in Invocations, NEW status \in {"success", "failed", "skipped"},
           ReadAndRun(i, status)
    PROVE  CliInv'
<1> DEFINE l == Reads(i)
           a == RunBody(i, "start", "running")
           b == RunBody(i, "completion", status)
           m == Appended(l, a)
           h == Appended(m, b)
<1>1. /\ step[i] = "idle" /\ file.state # "broken"
      /\ held' = [held EXCEPT ![i] = h] /\ step' = [step EXCEPT ![i] = "read"]
      /\ overlap' = [j \in Invocations |->
                       IF j = i THEN InSpan
                       ELSE IF j \in InSpan THEN overlap[j] \cup {i} ELSE overlap[j]]
      /\ UNCHANGED <<file, command, code, touched, kills>>
    BY DEF ReadAndRun, Reading
<1>2. /\ step \in [Invocations -> {"idle", "read", "writing", "done"}]
      /\ overlap \in [Invocations -> SUBSET Invocations] /\ InSpan \subseteq Invocations
      /\ held \in [Invocations -> [entries : LedgersOfRuns, sequence : Nat]]
    BY DEF CliInv, CliTypeOK, InSpan
<1>3. /\ a \in CliBodies /\ a.type = "start" /\ a.by = i
      /\ b \in CliBodies /\ b.type = "completion" /\ b.by = i /\ b.status = status
    BY DEF RunBody, CliBodies
<1>4. WholeLedger(l) /\ (file.state = "json" => l = FileLedger)
    BY <1>1, ReadsWhole
<1>5. b = RunBody(i, "completion", b.status)
    BY <1>3
<1> HIDE DEF l, a, b
<1>6. /\ WholeLedger(m) /\ m.entries # <<>> /\ m.entries[Len(m.entries)].body = a
      /\ \A j, x : x \in Nat /\ Keeps(l, j, x) => Keeps(m, j, x)
    BY <1>3, <1>4, AppendedWhole
<1> HIDE DEF m
<1>7. /\ WholeLedger(h) /\ h.entries # <<>> /\ h.entries[Len(h.entries)].body = b
      /\ \A j, x : x \in Nat /\ Keeps(m, j, x) => Keeps(h, j, x)
    BY <1>3, <1>6, AppendedWhole
<1> HIDE DEF h
<1>8. InSpan' = InSpan \cup {i} /\ i \notin InSpan
    BY <1>1, <1>2 DEF InSpan
<1>9. CliTypeOK'
    <2>1. h \in [entries : LedgersOfRuns, sequence : Nat]
        BY <1>7 DEF WholeLedger
    <2>2. held' \in [Invocations -> [entries : LedgersOfRuns, sequence : Nat]]
        BY <1>1, <1>2, <2>1
    <2>3. overlap' \in [Invocations -> SUBSET Invocations]
        BY <1>1, <1>2
    <2> QED
        BY <1>1, <1>2, <2>2, <2>3 DEF CliInv, CliTypeOK
<1>10. \A j \in Invocations : WholeLedger(held'[j])
    BY <1>1, <1>2, <1>7 DEF CliInv
<1>11. \A j \in InSpan' :
          LET s == held'[j].entries IN
          s # <<>> /\ s[Len(s)].body = RunBody(j, "completion", s[Len(s)].body.status)
    BY <1>1, <1>2, <1>5, <1>7, <1>8 DEF CliInv
<1>12. \A j \in Invocations : code'[j] # "none" <=> step'[j] = "done"
    BY <1>1, <1>2 DEF CliInv
<1>13. \A j, k \in InSpan' : j = k \/ k \in overlap'[j]
    BY <1>1, <1>2, <1>8 DEF CliInv
<1>14. \A j \in Invocations : step'[j] = "writing" /\ touched'[j] => overlap'[j] # {}
    BY <1>1, <1>2 DEF CliInv
<1>15. BrokenExplained'
    BY <1>1 DEF BrokenExplained
<1>16. WholeLedger(FileLedger)' /\ (file'.state # "json" => file'.entries = <<>>)
    BY <1>1 DEF CliInv, FileLedger
<1>17. ASSUME NEW j \in Invocations, Ran(j)', overlap'[j] = {} PROVE KeptByAll(j)'
    <2>1. Ran(j) /\ code[j] = "0"
        BY <1>1, <1>17 DEF Ran
    <2>2. step[j] = "done"
        BY <2>1 DEF CliInv
    <2>3. j # i /\ j \notin InSpan
        BY <1>1, <2>2 DEF InSpan
    <2>4. overlap[j] = {} /\ held'[j] = held[j]
        BY <1>1, <1>2, <1>17, <2>3
    <2>5. KeptByAll(j)
        BY <2>1, <2>4 DEF CliInv
    <2>6. held[j].sequence \in Nat
        BY <1>2
    <2>7. file.state = "json" /\ Keeps(l, j, held[j].sequence)
        <3>1. file.state \in {"absent", "broken", "json"}
            BY DEF CliInv, CliTypeOK
        <3> QED
            BY <1>1, <1>4, <2>5, <3>1 DEF KeptByAll
    <2>8. Keeps(h, j, held[j].sequence)
        BY <1>6, <1>7, <2>6, <2>7
    <2>9. \A k \in InSpan' : Keeps(held'[k], j, held'[j].sequence)
        BY <1>1, <1>2, <1>8, <2>4, <2>5, <2>8 DEF KeptByAll
    <2>10. file'.state # "absent" /\ (file'.state = "json" => Keeps(FileLedger', j, held'[j].sequence))
        BY <1>1, <2>4, <2>5 DEF KeptByAll, FileLedger
    <2> QED
        BY <2>9, <2>10 DEF KeptByAll
<1> QED
    BY <1>9, <1>10, <1>11, <1>12, <1>13, <1>14, <1>15, <1>16, <1>17 DEF CliInv

LEMMA TruncateKeeps ==
    ASSUME CliInv, NEW i \in Invocations, Truncate(i)
    PROVE  CliInv'
<1>1. /\ step[i] = "read" /\ step' = [step EXCEPT ![i] = "writing"]
      /\ file' = [state |-> "broken", entries |-> <<>>]
      /\ touched' = [touched EXCEPT ![i] = FALSE]
      /\ UNCHANGED <<command, held, code, overlap, kills>>
    BY DEF Truncate, Broken
<1>2. /\ step \in [Invocations -> {"idle", "read", "writing", "done"}]
      /\ touched \in [Invocations -> BOOLEAN]
    BY DEF CliInv, CliTypeOK
<1>3. InSpan' = InSpan
    BY <1>1, <1>2 DEF InSpan
<1>4. <<>> \in LedgersOfRuns /\ Len(<<>>) = 0 /\ MaxEntries \in Nat
    BY LedgerAssumption DEF LedgersOfRuns
<1>5. CliTypeOK'
    BY <1>1, <1>2, <1>4 DEF CliInv, CliTypeOK
<1>6. WholeLedger(FileLedger)' /\ (file'.state # "json" => file'.entries = <<>>)
    <2>1. FileLedger' = [entries |-> <<>>, sequence |-> 0]
        BY <1>1 DEF FileLedger, Newest
    <2>2. WholeLedger([entries |-> <<>>, sequence |-> 0])
        BY <1>4 DEF WholeLedger, Newest
    <2>3. WholeLedger(FileLedger')
        BY <2>1, <2>2
    <2> QED
        BY <1>1, <2>3 DEF WholeLedger
<1>7. BrokenExplained'
    BY <1>1, <1>2 DEF BrokenExplained
<1>8. \A j \in Invocations : step'[j] = "writing" /\ touched'[j] => overlap'[j] # {}
    BY <1>1, <1>2 DEF CliInv
<1>9. \A j \in Invocations : code'[j] # "none" <=> step'[j] = "done"
    BY <1>1, <1>2 DEF CliInv
<1>10. \A j \in Invocations : Ran(j)' /\ overlap'[j] = {} => KeptByAll(j)'
    BY <1>1, <1>3 DEF CliInv, KeptByAll, Ran
<1> QED
    BY <1>1, <1>3, <1>5, <1>6, <1>7, <1>8, <1>9, <1>10 DEF CliInv

\* An invocation leaves its span: it wrote, or it was killed.
LEMMA LeavesSpan ==
    ASSUME CliInv, NEW i \in InSpan, NEW c \in {"0", "killed"}, Exits(i, c),
           UNCHANGED <<command, held, overlap>>, touched' \in [Invocations -> BOOLEAN]
    PROVE  /\ InSpan' = InSpan \ {i}
           /\ step' \in [Invocations -> {"idle", "read", "writing", "done"}]
           /\ code' \in [Invocations -> {"none", "0", "1", "2", "thrown", "killed"}]
           /\ step'[i] = "done" /\ code'[i] = c
           /\ \A j \in Invocations \ {i} : step'[j] = step[j] /\ code'[j] = code[j]
           /\ \A j \in InSpan' :
                 LET s == held'[j].entries IN
                 s # <<>> /\ s[Len(s)].body = RunBody(j, "completion", s[Len(s)].body.status)
           /\ \A j \in Invocations : code'[j] # "none" <=> step'[j] = "done"
           /\ \A j, k \in InSpan' : j = k \/ k \in overlap'[j]
           /\ \A j \in Invocations \ {i} : Ran(j)' <=> Ran(j)
<1>1. /\ step' = [step EXCEPT ![i] = "done"] /\ code' = [code EXCEPT ![i] = c]
      /\ step \in [Invocations -> {"idle", "read", "writing", "done"}]
      /\ code \in [Invocations -> {"none", "0", "1", "2", "thrown", "killed"}]
      /\ i \in Invocations
    BY DEF Exits, CliInv, CliTypeOK, InSpan
<1>2. InSpan' = InSpan \ {i}
    BY <1>1 DEF InSpan
<1>3. /\ step'[i] = "done" /\ code'[i] = c
      /\ \A j \in Invocations \ {i} : step'[j] = step[j] /\ code'[j] = code[j]
    BY <1>1
<1>4. \A j \in Invocations : code'[j] # "none" <=> step'[j] = "done"
    BY <1>1, <1>3 DEF CliInv
<1>5. \A j \in Invocations \ {i} : Ran(j)' <=> Ran(j)
    BY <1>3 DEF Ran
<1>6. \A j \in InSpan' :
          LET s == held'[j].entries IN
          s # <<>> /\ s[Len(s)].body = RunBody(j, "completion", s[Len(s)].body.status)
    BY <1>2 DEF CliInv
<1>7. \A j, k \in InSpan' : j = k \/ k \in overlap'[j]
    BY <1>2 DEF CliInv
<1>8. /\ step' \in [Invocations -> {"idle", "read", "writing", "done"}]
      /\ code' \in [Invocations -> {"none", "0", "1", "2", "thrown", "killed"}]
    BY <1>1
<1> QED
    BY <1>2, <1>3, <1>4, <1>5, <1>6, <1>7, <1>8

LEMMA WriteKeeps ==
    ASSUME CliInv, NEW i \in Invocations, WriteBack(i)
    PROVE  CliInv'
<1>1. /\ step[i] = "writing" /\ i \in InSpan
      /\ \/ file' = [state |-> "json", entries |-> held[i].entries]
         \/ touched[i] /\ file' = [state |-> "broken", entries |-> <<>>]
      /\ touched' = [j \in Invocations |->
                        IF step[j] = "writing" /\ j # i THEN TRUE ELSE touched[j]]
      /\ Exits(i, "0") /\ UNCHANGED <<command, held, overlap, kills>>
    BY DEF WriteBack, InSpan, Json, Broken
<1>2. touched' \in [Invocations -> BOOLEAN]
    BY <1>1 DEF CliInv, CliTypeOK
<1>3. /\ InSpan' = InSpan \ {i}
      /\ step' \in [Invocations -> {"idle", "read", "writing", "done"}]
      /\ code' \in [Invocations -> {"none", "0", "1", "2", "thrown", "killed"}]
      /\ step'[i] = "done" /\ code'[i] = "0"
      /\ \A j \in Invocations \ {i} : step'[j] = step[j] /\ code'[j] = code[j]
      /\ \A j \in InSpan' :
            LET s == held'[j].entries IN
            s # <<>> /\ s[Len(s)].body = RunBody(j, "completion", s[Len(s)].body.status)
      /\ \A j \in Invocations : code'[j] # "none" <=> step'[j] = "done"
      /\ \A j, k \in InSpan' : j = k \/ k \in overlap'[j]
      /\ \A j \in Invocations \ {i} : Ran(j)' <=> Ran(j)
    BY <1>1, <1>2, LeavesSpan
<1>4. WholeLedger(held[i]) /\ held[i] \in [entries : LedgersOfRuns, sequence : Nat]
    BY DEF CliInv, WholeLedger
<1>5. <<>> \in LedgersOfRuns /\ Len(<<>>) = 0 /\ MaxEntries \in Nat
    BY LedgerAssumption DEF LedgersOfRuns
<1>6. CliTypeOK'
    <2>1. file' \in [state : {"absent", "broken", "json"}, entries : LedgersOfRuns]
        BY <1>1, <1>4, <1>5
    <2> QED
        BY <1>1, <1>2, <1>3, <2>1 DEF CliInv, CliTypeOK
<1>7. ASSUME file'.state = "json" PROVE FileLedger' = held[i]
    <2>1. file' = [state |-> "json", entries |-> held[i].entries]
        BY <1>1, <1>7
    <2>2. held[i].sequence = Newest(held[i].entries)
        BY <1>4 DEF WholeLedger
    <2>3. held[i] = [entries |-> held[i].entries, sequence |-> held[i].sequence]
        BY <1>4
    <2>4. FileLedger' = [entries |-> held[i].entries, sequence |-> Newest(held[i].entries)]
        BY <2>1 DEF FileLedger
    <2> QED
        BY <2>2, <2>3, <2>4
<1>8. WholeLedger(FileLedger') /\ (file'.state # "json" => file'.entries = <<>>)
    <2>1. CASE file'.state = "json"
        BY <1>4, <1>7, <2>1
    <2>2. CASE file' = [state |-> "broken", entries |-> <<>>]
        <3>1. FileLedger' = [entries |-> <<>>, sequence |-> 0]
            BY <2>2 DEF FileLedger, Newest
        <3>2. WholeLedger([entries |-> <<>>, sequence |-> 0])
            BY <1>5 DEF WholeLedger, Newest
        <3> QED
            BY <2>2, <3>1, <3>2
    <2> QED
        BY <1>1, <2>1, <2>2
<1>9. \A j \in Invocations : step'[j] = "writing" /\ touched'[j] => overlap'[j] # {}
    <2> SUFFICES ASSUME NEW j \in Invocations, step'[j] = "writing", touched'[j]
                 PROVE  overlap[j] # {}
        BY <1>1
    <2>1. j # i /\ step[j] = "writing"
        BY <1>3
    <2>2. j \in InSpan
        BY <2>1 DEF InSpan
    <2> QED
        BY <1>1, <2>1, <2>2 DEF CliInv
<1>10. BrokenExplained'
    <2> SUFFICES ASSUME file'.state = "broken" PROVE overlap'[i] # {} /\ code'[i] = "0"
        BY DEF BrokenExplained
    <2>1. touched[i]
        BY <1>1
    <2> QED
        BY <1>1, <1>3, <2>1 DEF CliInv
<1>11. ASSUME NEW j \in Invocations, Ran(j)', overlap'[j] = {} PROVE KeptByAll(j)'
    <2>1. CASE j = i
        <3>1. InSpan' = {}
            BY <1>1, <1>3, <1>11, <2>1 DEF CliInv
        <3>2. file' = [state |-> "json", entries |-> held[i].entries]
            BY <1>1, <1>11, <2>1 DEF CliInv
        <3>3. FileLedger' = held[i]
            BY <1>7, <3>2
        <3>4. Keeps(held[i], i, held[i].sequence)
            <4> DEFINE s == held[i].entries
                       n == Len(s)
            <4>1. s # <<>> /\ s[n].body = RunBody(i, "completion", s[n].body.status)
                BY <1>1 DEF CliInv
            <4>2. n \in Nat /\ s \in Seq(CliEntries)
                BY <1>4, WholeTyped
            <4>3. n \in 1..n
                BY <4>1, <4>2, EmptySeq
            <4>4. s[n].id = held[i].sequence
                BY <1>4, <4>1 DEF WholeLedger, Newest
            <4> HIDE DEF n
            <4> QED
                BY <4>1, <4>3, <4>4 DEF Keeps, n
        <3> QED
            BY <1>1, <2>1, <3>1, <3>2, <3>3, <3>4 DEF KeptByAll
    <2>2. CASE j # i
        <3>1. Ran(j) /\ overlap[j] = {}
            BY <1>1, <1>3, <1>11, <2>2
        <3>2. KeptByAll(j)
            BY <3>1 DEF CliInv
        <3>3. Keeps(held[i], j, held[j].sequence)
            BY <1>1, <3>2 DEF KeptByAll
        <3>4. file'.state = "json" => Keeps(FileLedger', j, held'[j].sequence)
            BY <1>1, <1>7, <3>3
        <3>5. \A k \in InSpan' : Keeps(held'[k], j, held'[j].sequence)
            BY <1>1, <1>3, <3>2 DEF KeptByAll
        <3> QED
            BY <1>1, <3>4, <3>5 DEF KeptByAll
    <2> QED
        BY <2>1, <2>2
<1>12. \A j \in Invocations : WholeLedger(held'[j])
    BY <1>1 DEF CliInv
<1> QED
    BY <1>3, <1>6, <1>8, <1>9, <1>10, <1>11, <1>12 DEF CliInv

LEMMA KillKeeps ==
    ASSUME CliInv, NEW i \in Invocations, Kill(i)
    PROVE  CliInv'
<1>1. /\ i \in InSpan /\ kills < MaxKills /\ kills' = kills + 1 /\ Exits(i, "killed")
      /\ UNCHANGED <<file, command, held, overlap, touched>>
    BY DEF Kill
<1>2. touched' \in [Invocations -> BOOLEAN]
    BY <1>1 DEF CliInv, CliTypeOK
<1>3. /\ InSpan' = InSpan \ {i}
      /\ step' \in [Invocations -> {"idle", "read", "writing", "done"}]
      /\ code' \in [Invocations -> {"none", "0", "1", "2", "thrown", "killed"}]
      /\ step'[i] = "done" /\ code'[i] = "killed"
      /\ \A j \in Invocations \ {i} : step'[j] = step[j] /\ code'[j] = code[j]
      /\ \A j \in InSpan' :
            LET s == held'[j].entries IN
            s # <<>> /\ s[Len(s)].body = RunBody(j, "completion", s[Len(s)].body.status)
      /\ \A j \in Invocations : code'[j] # "none" <=> step'[j] = "done"
      /\ \A j, k \in InSpan' : j = k \/ k \in overlap'[j]
      /\ \A j \in Invocations \ {i} : Ran(j)' <=> Ran(j)
    BY <1>1, <1>2, LeavesSpan
<1>4. CliTypeOK'
    <2>1. kills' \in 0..MaxKills
        BY <1>1, CliAssumption DEF CliInv, CliTypeOK
    <2> QED
        BY <1>1, <1>3, <2>1 DEF CliInv, CliTypeOK
<1>5. BrokenExplained'
    BY <1>1, <1>3 DEF CliInv, BrokenExplained
<1>6. \A j \in Invocations : step'[j] = "writing" /\ touched'[j] => overlap'[j] # {}
    BY <1>1, <1>3 DEF CliInv
<1>7. ASSUME NEW j \in Invocations, Ran(j)', overlap'[j] = {} PROVE KeptByAll(j)'
    <2>1. j # i
        BY <1>3, <1>7 DEF Ran
    <2>2. KeptByAll(j)
        BY <1>1, <1>3, <1>7, <2>1 DEF CliInv
    <2>3. \A k \in InSpan' : Keeps(held'[k], j, held'[j].sequence)
        BY <1>1, <1>3, <2>2 DEF KeptByAll
    <2>4. FileLedger' = FileLedger
        BY <1>1 DEF FileLedger
    <2> QED
        BY <1>1, <2>2, <2>3, <2>4 DEF KeptByAll
<1>8. WholeLedger(FileLedger') /\ (file'.state # "json" => file'.entries = <<>>)
    <2>1. FileLedger' = FileLedger
        BY <1>1 DEF FileLedger
    <2> QED
        BY <1>1, <2>1 DEF CliInv
<1>9. \A j \in Invocations : WholeLedger(held'[j])
    BY <1>1 DEF CliInv
<1> QED
    BY <1>3, <1>4, <1>5, <1>6, <1>7, <1>8, <1>9 DEF CliInv
-----------------------------------------------------------------------------
LEMMA CliStep == CliInv /\ [CliNext]_cliVars => CliInv'
<1> SUFFICES ASSUME CliInv, [CliNext]_cliVars PROVE CliInv'
    OBVIOUS
<1>1. ASSUME NEW i \in Invocations, ExitEarly(i) PROVE CliInv'
    <2>1. PICK c \in {"0", "1", "2", "thrown"} :
              Exits(i, c) /\ (c = "0" =>
                 ~(command[i].flags = {} /\ command[i].task = "some" /\ command[i].ledgerFile))
        <3>1. ASSUME Branch(command[i]) \in {"help", "report"}
              PROVE  command[i].flags # {}
            <4>1. command[i] \in Lines
                BY CliAssumption DEF CliInv, CliTypeOK
            <4> QED
                BY <3>1, <4>1 DEF Branch, Lines
        <3> QED
            BY <1>1, <3>1 DEF ExitEarly
    <2> QED
        BY <1>1, <2>1, EndedEarly DEF ExitEarly
<1>2. ASSUME NEW i \in Invocations, Inspect(i) PROVE CliInv'
    <2>1. command[i].flags # {}
        <3>1. command[i] \in Lines /\ Branch(command[i]) = "inspect"
            BY <1>2, CliAssumption DEF Inspect, CliInv, CliTypeOK
        <3> QED
            BY <3>1 DEF Branch, Lines
    <2>2. PICK c \in {"0", "1", "2"} : Exits(i, c)
        BY <1>2 DEF Inspect
    <2> QED
        BY <1>2, <2>1, <2>2, EndedEarly DEF Inspect
<1>3. ASSUME NEW i \in Invocations, NEW status \in {"success", "failed", "skipped"},
             ReadAndRun(i, status)
      PROVE  CliInv'
    BY <1>3, ReadKeeps
<1>4. ASSUME NEW i \in Invocations, ReadBroken(i) PROVE CliInv'
    BY <1>4, EndedEarly DEF ReadBroken, Reading
<1>5. ASSUME NEW i \in Invocations, Truncate(i) PROVE CliInv'
    BY <1>5, TruncateKeeps
<1>6. ASSUME NEW i \in Invocations, WriteBack(i) PROVE CliInv'
    BY <1>6, WriteKeeps
<1>7. ASSUME NEW i \in Invocations, Kill(i) PROVE CliInv'
    BY <1>7, KillKeeps
<1>8. CASE UNCHANGED cliVars
    <2>1. UNCHANGED <<file, command, step, held, code, overlap, touched, kills>>
        BY <1>8 DEF cliVars
    <2>2. CliTypeOK' /\ BrokenExplained' /\ InSpan' = InSpan
        BY <2>1 DEF CliInv, CliTypeOK, BrokenExplained, InSpan
    <2>3. FileLedger' = FileLedger /\ \A i \in Invocations : Ran(i)' <=> Ran(i)
        BY <2>1 DEF FileLedger, Ran
    <2>4. \A i \in Invocations : KeptByAll(i) => KeptByAll(i)'
        BY <2>1, <2>2, <2>3 DEF KeptByAll
    <2> QED
        BY <2>1, <2>2, <2>3, <2>4 DEF CliInv
<1> QED
    BY <1>1, <1>2, <1>3, <1>4, <1>5, <1>6, <1>7, <1>8 DEF CliNext

\* The ledger file after any number of invocations that overlap and are killed,
\* whatever their command lines and the cap: while it parses it is a whole ledger,
\* it lacks the completion of an invocation only because another one was between
\* its read and its write at the same time or the cap has dropped it, and it does
\* not parse only because of a write under way, a kill or an overlap.
THEOREM FileKept == CliSpec => []LedgerFileKept
<1>1. ASSUME CliInv PROVE FileIsALedger
    <2>1. WholeLedger(FileLedger) /\ FileLedger.entries = file.entries
        BY <1>1 DEF CliInv, FileLedger
    <2> DEFINE l == FileLedger
               s == file.entries
    <2>2. /\ Len(s) <= MaxEntries /\ l.sequence \in Nat /\ Len(s) \in Nat
          /\ \A n \in 1..Len(s) : s[n].id \in Nat /\ s[n].id + Len(s) = l.sequence + n
        BY <2>1, WholeTyped DEF WholeLedger
    <2> HIDE DEF l
    <2>3. ASSUME NEW i \in 1..Len(s), NEW j \in 1..Len(s), i < j PROVE s[i].id < s[j].id
        <3>1. PICK a \in Nat, b \in Nat : a = s[i].id /\ b = s[j].id
            BY <2>2
        <3>2. a + Len(s) = l.sequence + i /\ b + Len(s) = l.sequence + j
            BY <2>2, <3>1
        <3>3. a < b
            BY <2>2, <2>3, <3>2
        <3> QED
            BY <3>1, <3>3
    <2>4. Ordered(s)
        BY <2>2, <2>3 DEF Ordered
    <2> QED
        BY <2>1, <2>4 DEF FileIsALedger, WholeLedger
<1>2. ASSUME CliInv PROVE LostOnlyByOverlap
    <2> SUFFICES ASSUME NEW i \in Invocations, Ran(i), file.state = "json", overlap[i] = {},
                        ~Recorded(i)
                 PROVE  Newest(file.entries) - Newest(held[i].entries) >= MaxEntries
        BY DEF LostOnlyByOverlap
    <2>1. Keeps(FileLedger, i, held[i].sequence)
        BY <1>2 DEF CliInv, KeptByAll
    <2>2. FileLedger.entries = file.entries /\ FileLedger.sequence = Newest(file.entries)
        BY DEF FileLedger
    <2>3. Newest(file.entries) >= held[i].sequence + MaxEntries
        BY <2>1, <2>2 DEF Keeps, Recorded, RunBody
    <2>4. held[i].sequence = Newest(held[i].entries) /\ held[i].sequence \in Nat
        BY <1>2 DEF CliInv, WholeLedger
    <2>5. Newest(file.entries) \in Nat /\ MaxEntries \in Nat
        BY <1>2, <2>2, WholeTyped, LedgerAssumption DEF CliInv
    <2> QED
        BY <2>3, <2>4, <2>5
<1>3. CliInv => LedgerFileKept
    BY <1>1, <1>2 DEF LedgerFileKept, CliInv
<1> QED
    BY <1>3, CliInvInit, CliStep, PTL DEF CliSpec

\* Command lines, ledger file and exit codes keep their types.
THEOREM CliTypeCorrect == CliSpec => []CliTypeOK
<1>1. CliInv => CliTypeOK
    BY DEF CliInv
<1> QED
    BY <1>1, CliInvInit, CliStep, PTL DEF CliSpec
=============================================================================
