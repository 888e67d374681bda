----------------------------- MODULE FinanceProofs -----------------------------
(***************************************************************************)
(* Proofs about the finance workflow and about the calls that carry an     *)
(* idempotency key, for every set of payments, operations, keys and calls, *)
(* every cap of the ledger and any number of crashes.                      *)
(***************************************************************************)
EXTENDS FinanceIdempotency, LedgerProofs, TLAPS

FinanceEntries == Seq([id : Nat \ {0}, body : BookBodies])

\* The entries are the last ones that were appended: their ids follow one another
\* up to the sequence, and there are as many as the cap allows.
Consecutive(l) ==
    /\ l \in [entries : FinanceEntries, sequence : Nat]
    /\ Len(l.entries) = IF l.sequence <= MaxEntries THEN l.sequence ELSE MaxEntries
    /\ \A n \in 1..Len(l.entries) : l.entries[n].id = l.sequence - Len(l.entries) + n

\* How many entries the cap has dropped.
Dropped(l) == l.sequence - Len(l.entries)

\* A body says that the operation came to its end with success.
CompletesWell(body, op) ==
    body.type = "completion" /\ body.status = "success" /\ body.op = op

Preparations ==
    [by : {"workflow", "bridge", "adapter"}, op : Operations, id : Nat, oldest : Nat]

\* The completion of each preparation under an operation is where its id says,
\* unless the cap has dropped it.
PreparationsKept(l, prepared) ==
    \A n \in 1..Len(prepared) :
        /\ prepared[n].id \in 1..l.sequence
        /\ prepared[n].id > Dropped(l) =>
              CompletesWell(l.entries[prepared[n].id - Dropped(l)].body, Trim(prepared[n].op))

FinanceInv ==
    /\ FinanceTypeOK /\ Consecutive(books) /\ PreparationsKept(books, preparedAt)
    /\ DedupeWindow /\ ApprovalPrecedesRun
-----------------------------------------------------------------------------
(* append() for several bodies. *)

\* What a ledger holds once the bodies are appended: the tail of its entries
\* followed by theirs.
LEMMA AppendedAllKept ==
    ASSUME NEW l, Consecutive(l), NEW bodies \in Seq(BookBodies)
    PROVE  LET m == AppendedAll(l, bodies) IN
           /\ Consecutive(m) /\ m.sequence = l.sequence + Len(bodies)
           /\ \E k \in Nat :
                 /\ k = Dropped(m) - Dropped(l)
                 /\ Len(m.entries) + k = Len(l.entries) + Len(bodies)
                 /\ \A i \in 1..Len(m.entries) :
                       /\ i + k <= Len(l.entries) => m.entries[i] = l.entries[i + k]
                       /\ i + k > Len(l.entries) =>
                             m.entries[i].body = bodies[i + k - Len(l.entries)]
<1> DEFINE s == l.entries
           t == [i \in 1..Len(bodies) |-> [id |-> l.sequence + i, body |-> bodies[i]]]
           u == s \o t
           m == AppendedAll(l, bodies)
<1>1. s \in FinanceEntries /\ l.sequence \in Nat /\ Len(s) \in Nat /\ Len(bodies) \in Nat
    BY LenProperties DEF Consecutive, FinanceEntries
<1>2. t \in FinanceEntries /\ Len(t) = Len(bodies)
    <2>1. ASSUME NEW i \in 1..Len(bodies)
          PROVE  [id |-> l.sequence + i, body |-> bodies[i]] \in [id : Nat \ {0}, body : BookBodies]
        <3>1. bodies[i] \in BookBodies
            BY ElementOfSeq
        <3>2. l.sequence + i \in Nat \ {0}
            BY <1>1
        <3> QED
            BY <3>1, <3>2
    <2>2. t \in [1..Len(bodies) -> [id : Nat \ {0}, body : BookBodies]]
        BY <2>1
    <2>3. t \in FinanceEntries
        BY <1>1, <2>2, SeqDef DEF FinanceEntries
    <2>4. Len(t) = Len(bodies)
        BY <1>1
    <2> QED
        BY <2>3, <2>4
<1>3. \A i \in 1..Len(bodies) : t[i].id = l.sequence + i /\ t[i].body = bodies[i]
    OBVIOUS
<1>4. m.entries = Retained(u) /\ m.sequence = l.sequence + Len(bodies)
    BY DEF AppendedAll
<1>5. m = [entries |-> Retained(u), sequence |-> l.sequence + Len(bodies)]
    BY DEF AppendedAll
<1> HIDE DEF t, m
<1>6. /\ u \in FinanceEntries /\ Len(u) = Len(s) + Len(bodies)
      /\ \A i \in 1..Len(s) : u[i] = s[i]
      /\ \A i \in Len(s) + 1 .. Len(u) : u[i] = t[i - Len(s)]
    <2>1. /\ u \in FinanceEntries /\ Len(u) = Len(s) + Len(t)
          /\ \A i \in 1..Len(s) + Len(t) : u[i] = IF i <= Len(s) THEN s[i] ELSE t[i - Len(s)]
        BY <1>1, <1>2, ConcatProperties DEF FinanceEntries
    <2> QED
        BY <1>1, <1>2, <2>1
<1> HIDE DEF u
<1>7. PICK k \in 0..Len(u) :
          /\ Len(Retained(u)) = Len(u) - k
          /\ \A i \in 1..Len(Retained(u)) : Retained(u)[i] = u[i + k]
    BY <1>6, RetainedIsTail DEF FinanceEntries
<1>8. m.entries \in FinanceEntries
    BY <1>4, <1>6, RetainedIsTail DEF FinanceEntries
<1>9. MaxEntries \in Nat \ {0}
    BY LedgerAssumption
<1>10. Len(s) = IF l.sequence <= MaxEntries THEN l.sequence ELSE MaxEntries
    BY DEF Consecutive
<1>11. Len(m.entries) = IF m.sequence <= MaxEntries THEN m.sequence ELSE MaxEntries
    <2>1. CASE Len(u) > MaxEntries
        <3>1. Len(Retained(u)) = MaxEntries
            BY <1>6, <1>9, <1>1, <2>1 DEF Retained
        <3> QED
            BY <1>1, <1>4, <1>6, <1>9, <1>10, <2>1, <3>1
    <2>2. CASE ~(Len(u) > MaxEntries)
        <3>1. Len(Retained(u)) = Len(u)
            BY <2>2 DEF Retained
        <3> QED
            BY <1>1, <1>4, <1>6, <1>9, <1>10, <2>2, <3>1
    <2> QED
        BY <2>1, <2>2
<1>12. k = Dropped(m) - Dropped(l) /\ Len(m.entries) \in Nat
       /\ Len(m.entries) = Len(s) + Len(bodies) - k
    <2>1. /\ Len(m.entries) = Len(s) + Len(bodies) - k /\ k \in 0..Len(s) + Len(bodies)
          /\ m.sequence = l.sequence + Len(bodies)
        BY <1>4, <1>6, <1>7
    <2>2. Len(s) \in Nat /\ Len(bodies) \in Nat /\ l.sequence \in Nat
        BY <1>1
    <2>3. Dropped(m) = m.sequence - Len(m.entries) /\ Dropped(l) = l.sequence - Len(s)
        BY DEF Dropped
    <2> QED
        BY <2>1, <2>2, <2>3
<1>13. ASSUME NEW i \in 1..Len(m.entries)
       PROVE  /\ i + k \in 1..(Len(s) + Len(bodies)) /\ i + k >= i
              /\ i + k <= Len(s) => m.entries[i] = s[i + k]
              /\ i + k > Len(s) => /\ i + k - Len(s) \in 1..Len(bodies)
                                   /\ m.entries[i] = t[i + k - Len(s)]
    <2>1. i + k \in 1..(Len(s) + Len(bodies)) /\ i + k >= i
        BY <1>1, <1>12, <1>7, <1>6
    <2>2. m.entries[i] = u[i + k]
        BY <1>4, <1>7
    <2> DEFINE j == i + k
    <2>3. CASE i + k <= Len(s)
        <3>1. j \in 1..Len(s) /\ ~(i + k > Len(s))
            BY <1>1, <2>1, <2>3
        <3> HIDE DEF s, j
        <3>2. u[j] = s[j]
            BY <1>6, <3>1, Zenon
        <3> QED
            BY <2>1, <2>2, <3>1, <3>2 DEF j
    <2>4. CASE i + k > Len(s)
        <3>1. j \in Len(s) + 1 .. Len(u) /\ j - Len(s) \in 1..Len(bodies)
            BY <1>1, <1>6, <2>1, <2>4
        <3>2. ~(i + k <= Len(s))
            BY <1>1, <2>1, <2>4
        <3> HIDE DEF s, j
        <3>3. u[j] = t[j - Len(s)]
            BY <1>6, <3>1, Zenon
        <3> QED
            BY <2>1, <2>2, <3>1, <3>2, <3>3 DEF j
    <2> QED
        BY <1>1, <1>7, <1>12, <2>1, <2>3, <2>4
<1>14. /\ m.sequence = l.sequence + Len(bodies) /\ Len(m.entries) \in Nat
       /\ Len(m.entries) = Len(s) + Len(bodies) - k
    BY <1>4, <1>12
<1>15. ASSUME NEW i \in 1..Len(m.entries) PROVE m.entries[i].id = m.sequence - Len(m.entries) + i
    <2>1. CASE i + k <= Len(s)
        <3>1. s[i + k].id = l.sequence - Len(s) + (i + k)
            BY <1>1, <1>13, <2>1 DEF Consecutive
        <3>2. m.entries[i] = s[i + k]
            BY <1>13, <2>1
        <3>3. m.entries[i].id = l.sequence - Len(s) + (i + k)
            BY <3>1, <3>2, Zenon
        <3>4. i \in Nat /\ k \in Nat
            BY <1>1, <1>6, <1>7, <1>12
        <3> DEFINE x == m.entries[i].id
        <3> HIDE DEF s, x
        <3>5. x = l.sequence - Len(s) + (i + k)
            BY <3>3 DEF x
        <3>6. x = m.sequence - Len(m.entries) + i
            BY <1>1, <1>14, <3>4, <3>5, SMTT(30)
        <3> QED
            BY <3>6 DEF x
    <2>2. CASE i + k > Len(s)
        <3>1. t[i + k - Len(s)].id = l.sequence + (i + k - Len(s))
            BY <1>3, <1>13, <2>2
        <3>2. m.entries[i] = t[i + k - Len(s)]
            BY <1>13, <2>2
        <3>3. m.entries[i].id = l.sequence + (i + k - Len(s))
            BY <3>1, <3>2, Zenon
        <3>4. i \in Nat /\ k \in Nat
            BY <1>1, <1>6, <1>7, <1>12
        <3> DEFINE x == m.entries[i].id
        <3> HIDE DEF s, x
        <3>5. x = l.sequence + (i + k - Len(s))
            BY <3>3 DEF x
        <3>6. x = m.sequence - Len(m.entries) + i
            BY <1>1, <1>14, <3>4, <3>5
        <3> QED
            BY <3>6 DEF x
    <2> QED
        BY <1>1, <1>7, <2>1, <2>2
<1>16. Consecutive(m)
    <2>1. m \in [entries : FinanceEntries, sequence : Nat]
        BY <1>1, <1>4, <1>5, <1>8
    <2> QED
        BY <1>11, <1>15, <2>1 DEF Consecutive
<1>17. ASSUME NEW i \in 1..Len(m.entries)
       PROVE  /\ i + k <= Len(s) => m.entries[i] = s[i + k]
              /\ i + k > Len(s) => m.entries[i].body = bodies[i + k - Len(s)]
    <2>1. i + k > Len(s) => t[i + k - Len(s)].body = bodies[i + k - Len(s)]
        BY <1>3, <1>13
    <2> HIDE DEF s
    <2> QED
        BY <1>13, <2>1
<1>18. k \in Nat /\ Len(m.entries) + k = Len(s) + Len(bodies)
    BY <1>1, <1>6, <1>7, <1>12
<1> HIDE DEF s
<1>19. \E n \in Nat :
          /\ n = Dropped(m) - Dropped(l)
          /\ Len(m.entries) + n = Len(s) + Len(bodies)
          /\ \A i \in 1..Len(m.entries) :
                /\ i + n <= Len(s) => m.entries[i] = s[i + n]
                /\ i + n > Len(s) => m.entries[i].body = bodies[i + n - Len(s)]
    BY <1>12, <1>17, <1>18
<1> QED
    BY <1>4, <1>16, <1>19 DEF m, s
-----------------------------------------------------------------------------
(* The bodies that one call appends. *)

\* Every run that prepared follows, in the list itself, what had to come first.
Justified(bodies) ==
    \A i \in 1..Len(bodies) :
        bodies[i].type = "completion" /\ bodies[i].result = "prepared" =>
            /\ i > 1
            /\ bodies[i - 1].type = "start" =>
                  /\ bodies[i].payment \notin BlockedPayments
                  /\ bodies[i].payment \in LargePayments =>
                        i > 2 /\ bodies[i - 2] = Resolution(bodies[i].payment, "approved")

\* Lists of such bodies can follow one another.
LEMMA JustifiedConcat ==
    ASSUME NEW s \in Seq(BookBodies), Justified(s), NEW t \in Seq(BookBodies), Justified(t)
    PROVE  s \o t \in Seq(BookBodies) /\ Justified(s \o t)
<1> DEFINE u == s \o t
<1>1. Len(s) \in Nat /\ Len(t) \in Nat
    BY LenProperties
<1>2. /\ u \in Seq(BookBodies) /\ Len(u) = Len(s) + Len(t)
      /\ \A i \in 1..Len(s) + Len(t) : u[i] = IF i <= Len(s) THEN s[i] ELSE t[i - Len(s)]
    BY ConcatProperties
<1> HIDE DEF u
<1>3. \A i \in 1..Len(s) : i \in 1..Len(u) /\ u[i] = s[i]
    BY <1>1, <1>2
<1>4. \A i \in 1..Len(t) : i + Len(s) \in 1..Len(u) /\ u[i + Len(s)] = t[i]
    <2>1. TAKE i \in 1..Len(t)
    <2>2. /\ i + Len(s) \in 1..Len(s) + Len(t) /\ ~(i + Len(s) <= Len(s))
          /\ (i + Len(s)) - Len(s) = i
        BY <1>1
    <2> QED
        BY <1>2, <2>2
<1>5. ASSUME NEW i \in 1..Len(u), u[i].type = "completion", u[i].result = "prepared"
      PROVE  /\ i > 1
             /\ u[i - 1].type = "start" =>
                   /\ u[i].payment \notin BlockedPayments
                   /\ u[i].payment \in LargePayments =>
                         i > 2 /\ u[i - 2] = Resolution(u[i].payment, "approved")
    <2>1. CASE i <= Len(s)
        <3>1. i \in 1..Len(s) /\ u[i] = s[i]
            BY <1>1, <1>2, <1>3, <2>1
        <3>2. i > 1
            BY <1>5, <3>1 DEF Justified
        <3>3. i - 1 \in 1..Len(s) /\ u[i - 1] = s[i - 1]
            BY <1>1, <1>3, <3>1, <3>2
        <3>4. i > 2 => u[i - 2] = s[i - 2]
            BY <1>1, <1>3, <3>1
        <3> QED
            BY <1>5, <3>1, <3>2, <3>3, <3>4 DEF Justified
    <2>2. CASE ~(i <= Len(s))
        <3> DEFINE n == i - Len(s)
        <3>1. n \in 1..Len(t) /\ n + Len(s) = i
            BY <1>1, <1>2, <2>2
        <3> HIDE DEF n
        <3>2. u[i] = t[n]
            BY <1>4, <3>1
        <3>3. n > 1
            BY <1>5, <3>1, <3>2 DEF Justified
        <3>4. n - 1 \in 1..Len(t) /\ (n - 1) + Len(s) = i - 1 /\ i > 1
            BY <1>1, <3>1, <3>3
        <3>5. u[i - 1] = t[n - 1]
            BY <1>4, <3>4
        <3>6. n > 2 => i > 2 /\ n - 2 \in 1..Len(t) /\ (n - 2) + Len(s) = i - 2
            BY <1>1, <3>1
        <3>7. n > 2 => u[i - 2] = t[n - 2]
            BY <1>4, <3>6
        <3> QED
            BY <1>5, <3>1, <3>2, <3>4, <3>5, <3>6, <3>7 DEF Justified
    <2> QED
        BY <2>1, <2>2
<1> QED
    BY <1>2, <1>5, Zenon DEF Justified, u

\* One body more.
LEMMA JustifiedLast ==
    ASSUME NEW s \in Seq(BookBodies), Justified(s), NEW b \in BookBodies,
           b.type = "completion" /\ b.result = "prepared" =>
               s # <<>> /\ s[Len(s)].type # "start"
    PROVE  /\ s \o <<b>> \in Seq(BookBodies) /\ Justified(s \o <<b>>)
           /\ Len(s \o <<b>>) = Len(s) + 1 /\ (s \o <<b>>)[Len(s) + 1] = b
           /\ \A i \in 1..Len(s) : (s \o <<b>>)[i] = s[i]
<1> DEFINE u == s \o <<b>>
<1>1. Len(s) \in Nat /\ (s # <<>> => Len(s) > 0)
    BY LenProperties, EmptySeq
<1>2. <<b>> \in Seq(BookBodies) /\ Len(<<b>>) = 1 /\ <<b>>[1] = b
    OBVIOUS
<1>3. /\ u \in Seq(BookBodies) /\ Len(u) = Len(s) + 1
      /\ \A i \in 1..Len(s) + 1 : u[i] = IF i <= Len(s) THEN s[i] ELSE <<b>>[i - Len(s)]
    BY <1>2, ConcatProperties, Zenon
<1> HIDE DEF u
<1>4. \A i \in 1..Len(s) : i \in 1..Len(u) /\ u[i] = s[i]
    BY <1>1, <1>3
<1>5. u[Len(s) + 1] = b
    <2>1. (Len(s) + 1) - Len(s) = 1 /\ Len(s) + 1 \in 1..Len(s) + 1 /\ ~(Len(s) + 1 <= Len(s))
        BY <1>1
    <2>2. u[Len(s) + 1] = <<b>>[(Len(s) + 1) - Len(s)]
        BY <1>3, <2>1
    <2> QED
        BY <1>2, <2>1, <2>2
<1>6. ASSUME NEW i \in 1..Len(u), u[i].type = "completion", u[i].result = "prepared"
      PROVE  /\ i > 1
             /\ u[i - 1].type = "start" =>
                   /\ u[i].payment \notin BlockedPayments
                   /\ u[i].payment \in LargePayments =>
                         i > 2 /\ u[i - 2] = Resolution(u[i].payment, "approved")
    <2>1. CASE i = Len(s) + 1
        <3>1. Len(s) > 0 /\ s[Len(s)].type # "start"
            BY <1>1, <1>5, <1>6, <2>1
        <3>2. i - 1 = Len(s) /\ Len(s) \in 1..Len(s) /\ i > 1
            BY <1>1, <2>1, <3>1
        <3> QED
            BY <1>4, <3>1, <3>2
    <2>2. CASE i # Len(s) + 1
        <3>1. i \in 1..Len(s) /\ u[i] = s[i]
            BY <1>1, <1>3, <1>4, <2>2
        <3>2. i > 1
            BY <1>6, <3>1 DEF Justified
        <3>3. i - 1 \in 1..Len(s) /\ u[i - 1] = s[i - 1]
            BY <1>1, <1>4, <3>1, <3>2
        <3>4. i > 2 => u[i - 2] = s[i - 2]
            BY <1>1, <1>4, <3>1
        <3> QED
            BY <1>6, <3>1, <3>2, <3>3, <3>4 DEF Justified
    <2> QED
        BY <2>1, <2>2
<1> QED
    BY <1>3, <1>4, <1>5, <1>6, Zenon DEF Justified, u
-----------------------------------------------------------------------------
(* The trail of the workflow. *)

\* What the workflow may be asked, with a key or without.
Asks ==
    [op : Operations \cup {NoOperation}, payment : Payments, approval : Approvals]
    \cup [key : PaymentKeys, op : Operations \cup {NoOperation}, payment : Payments,
          approval : Approvals]

Verdicts ==
    {"already_prepared", "blocked", "pending", "error", "rejected", "prepared", "failed"}

\* What led to a verdict.
LEMMA VerdictMeans ==
    ASSUME NEW l, NEW ask \in Asks, NEW works \in BOOLEAN
    PROVE  LET v == Verdict(l, ask, works) IN
           /\ v \in Verdicts
           /\ v = "already_prepared" => ask.op # NoOperation
           /\ v \in {"prepared", "failed"} =>
                 /\ ~Remembers(l, ask.op) /\ ask.payment \notin BlockedPayments
                 /\ ask.payment \in LargePayments =>
                       Policy(ask.payment) = "requires_approval" /\ ask.approval = "approved"
           /\ Policy(ask.payment) = "requires_approval"
              /\ v \notin {"pending", "error", "already_prepared"} =>
                 ask.approval \in {"approved", "rejected"}
<1> DEFINE v == Verdict(l, ask, works)
           needed == Policy(ask.payment) = "requires_approval"
<1>1. CASE Remembers(l, ask.op)
    <2>1. v = "already_prepared"
        BY <1>1 DEF Verdict
    <2>2. ask.op # NoOperation
        BY <1>1 DEF Remembers
    <2> QED
        BY <2>1, <2>2 DEF Verdicts
<1>2. CASE ~Remembers(l, ask.op)
    <2>1. ask.payment \in BlockedPayments => Policy(ask.payment) = "blocked"
        BY DEF Policy
    <2>2. ask.payment \notin BlockedPayments /\ ask.payment \in LargePayments => needed
        BY DEF Policy
    <2>3. v = CASE Policy(ask.payment) = "blocked" -> "blocked"
                [] needed /\ ask.approval = "none" -> "pending"
                [] needed /\ ask.approval = "invalid" -> "error"
                [] needed /\ ask.approval = "rejected" -> "rejected"
                [] OTHER -> IF works THEN "prepared" ELSE "failed"
        BY <1>2 DEF Verdict
    <2>4. ask.approval \in {"none", "approved", "rejected", "invalid"}
        BY DEF Asks, Approvals
    <2>5. v \in {"prepared", "failed"} =>
              Policy(ask.payment) # "blocked" /\ (needed => ask.approval = "approved")
        BY <2>3, <2>4
    <2>6. v \in Verdicts /\ v # "already_prepared"
        BY <2>3 DEF Verdicts
    <2>7. needed /\ v \notin {"pending", "error"} => ask.approval \in {"approved", "rejected"}
        BY <2>3, <2>4
    <2>8. v \in {"prepared", "failed"} =>
              /\ ask.payment \notin BlockedPayments
              /\ ask.payment \in LargePayments => needed /\ ask.approval = "approved"
        BY <2>1, <2>2, <2>5
    <2> QED
        BY <1>2, <2>6, <2>7, <2>8
<1> QED
    BY <1>1, <1>2

LEMMA BodiesTyped ==
    /\ \A op \in Operations \cup {NoOperation} : Trim(op) \in Operations \cup {NoOperation}
    /\ \A p \in Payments :
          /\ \A event \in {"policy_evaluated", "approval_requested", "execution_replayed"} :
                Audit(event, p) \in BookBodies /\ Audit(event, p).type = event
          /\ \A d \in {"approved", "rejected"} :
                Resolution(p, d) \in BookBodies /\ Resolution(p, d).type = "approval_resolved"
          /\ \A op \in Operations \cup {NoOperation} :
                /\ PipelineStart(op, p) \in BookBodies /\ PipelineStart(op, p).type = "start"
                /\ \A v \in Verdicts \ {"already_prepared"},
                      status \in {"success", "failed", "skipped"} :
                      PipelineEnd(op, p, status, v) \in BookBodies
<1>1. \A op \in Operations \cup {NoOperation} : Trim(op) \in Operations \cup {NoOperation}
    BY FinanceAssumption DEF Trim
<1>2. ASSUME NEW p \in Payments,
             NEW event \in {"policy_evaluated", "approval_requested", "execution_replayed"}
      PROVE  Audit(event, p) \in BookBodies /\ Audit(event, p).type = event
    BY DEF Audit, BookBodies
<1>3. ASSUME NEW p \in Payments, NEW d \in {"approved", "rejected"}
      PROVE  Resolution(p, d) \in BookBodies /\ Resolution(p, d).type = "approval_resolved"
    <2>1. Resolution(p, d) = [type |-> "approval_resolved", op |-> NoOperation, payment |-> p,
                              status |-> "recorded", result |-> d]
        BY DEF Resolution, Audit
    <2> QED
        BY <2>1 DEF BookBodies
<1>4. ASSUME NEW p \in Payments, NEW op \in Operations \cup {NoOperation}
      PROVE  PipelineStart(op, p) \in BookBodies /\ PipelineStart(op, p).type = "start"
    BY <1>1 DEF PipelineStart, BookBodies
<1>5. ASSUME NEW p \in Payments, NEW op \in Operations \cup {NoOperation},
             NEW v \in Verdicts \ {"already_prepared"},
             NEW status \in {"success", "failed", "skipped"}
      PROVE  PipelineEnd(op, p, status, v) \in BookBodies
    BY <1>1 DEF PipelineEnd, BookBodies, Verdicts
<1> QED
    BY <1>1, <1>2, <1>3, <1>4, <1>5, Zenon

\* One body that is no run's completion is justified.
LEMMA JustifiedOne ==
    ASSUME NEW b \in BookBodies, b.type # "completion"
    PROVE  <<b>> \in Seq(BookBodies) /\ Justified(<<b>>) /\ Len(<<b>>) = 1 /\ <<b>>[1] = b
    BY DEF Justified

\* A run that may come next, with its start and its completion.
LEMMA JustifiedRun ==
    ASSUME NEW s \in Seq(BookBodies), Justified(s), NEW p, p \notin BlockedPayments,
           p \in LargePayments => Len(s) >= 2 /\ s[Len(s)] = Resolution(p, "approved"),
           NEW st \in BookBodies, st.type = "start",
           NEW end \in BookBodies, end.type = "completion", end.payment = p
    PROVE  LET u == s \o <<st, end>> IN
           /\ u \in Seq(BookBodies) /\ Justified(u)
           /\ Len(u) = Len(s) + 2 /\ u[Len(s) + 2] = end
<1> DEFINE t == <<st, end>>
           u == s \o t
           n == Len(s)
<1>1. n \in Nat
    BY LenProperties
<1>2. t \in Seq(BookBodies) /\ Len(t) = 2 /\ t[1] = st /\ t[2] = end
    OBVIOUS
<1> HIDE DEF t, n
<1>3. /\ u \in Seq(BookBodies) /\ Len(u) = n + 2
      /\ \A i \in 1..n + 2 : u[i] = IF i <= n THEN s[i] ELSE t[i - n]
    <2>1. /\ u \in Seq(BookBodies) /\ Len(u) = n + Len(t)
          /\ \A i \in 1..n + Len(t) : u[i] = IF i <= n THEN s[i] ELSE t[i - n]
        BY <1>2, ConcatProperties, Zenon DEF n
    <2> QED
        BY <1>2, <2>1
<1> HIDE DEF u
<1>4. \A i \in 1..n : i \in 1..n + 2 /\ u[i] = s[i]
    BY <1>1, <1>3
<1>5. u[n + 1] = st /\ u[n + 2] = end
    <2>1. n + 1 - n = 1 /\ n + 2 - n = 2 /\ ~(n + 1 <= n) /\ ~(n + 2 <= n)
          /\ n + 1 \in 1..n + 2 /\ n + 2 \in 1..n + 2
        BY <1>1
    <2>2. u[n + 1] = IF n + 1 <= n THEN s[n + 1] ELSE t[n + 1 - n]
        BY <1>1, <1>3, <2>1
    <2>3. u[n + 2] = IF n + 2 <= n THEN s[n + 2] ELSE t[n + 2 - n]
        BY <1>1, <1>3, <2>1
    <2> QED
        BY <1>2, <2>1, <2>2, <2>3
<1>6. ASSUME NEW i \in 1..Len(u), u[i].type = "completion", u[i].result = "prepared"
      PROVE  /\ i > 1
             /\ u[i - 1].type = "start" =>
                   /\ u[i].payment \notin BlockedPayments
                   /\ u[i].payment \in LargePayments =>
                         i > 2 /\ u[i - 2] = Resolution(u[i].payment, "approved")
    <2>1. CASE i = n + 2
        <3>1. i > 1 /\ i - 2 = n /\ (n >= 2 => i > 2 /\ n \in 1..n)
            BY <1>1, <2>1
        <3>2. n >= 2 => u[i - 2] = s[n]
            BY <1>4, <3>1
        <3> QED
            BY <1>5, <2>1, <3>1, <3>2 DEF n
    <2>2. CASE i # n + 2
        <3>1. i \in 1..n /\ u[i] = s[i]
            <4>1. i # n + 1
                BY <1>5, <1>6
            <4> QED
                BY <1>1, <1>3, <1>4, <2>2, <4>1
        <3>2. i > 1
            BY <1>6, <3>1 DEF Justified, n
        <3>3. i - 1 \in 1..n /\ u[i - 1] = s[i - 1]
            BY <1>1, <1>4, <3>1, <3>2
        <3>4. i > 2 => u[i - 2] = s[i - 2]
            BY <1>1, <1>4, <3>1
        <3> QED
            BY <1>6, <3>1, <3>2, <3>3, <3>4 DEF Justified, n
    <2> QED
        BY <2>1, <2>2
<1> QED
    BY <1>3, <1>5, <1>6, Zenon DEF Justified, u, t, n

NoStart(bodies) == \A i \in 1..Len(bodies) : bodies[i].type # "start"

LEMMA NoStartConcat ==
    ASSUME NEW s \in Seq(BookBodies), NoStart(s), NEW t \in Seq(BookBodies), NoStart(t)
    PROVE  NoStart(s \o t)
<1> DEFINE u == s \o t
<1>1. Len(s) \in Nat /\ Len(t) \in Nat
    BY LenProperties
<1>2. /\ Len(u) = Len(s) + Len(t)
      /\ \A i \in 1..Len(s) + Len(t) : u[i] = IF i <= Len(s) THEN s[i] ELSE t[i - Len(s)]
    BY ConcatProperties
<1> HIDE DEF u
<1>3. ASSUME NEW i \in 1..Len(u) PROVE u[i].type # "start"
    <2>1. CASE i <= Len(s)
        <3>1. i \in 1..Len(s) /\ u[i] = s[i]
            BY <1>1, <1>2, <2>1
        <3> QED
            BY <3>1 DEF NoStart
    <2>2. CASE ~(i <= Len(s))
        <3>1. i - Len(s) \in 1..Len(t)
            BY <1>1, <1>2, <2>2
        <3>2. u[i] = t[i - Len(s)]
            BY <1>2, <2>2
        <3> QED
            BY <3>1, <3>2 DEF NoStart
    <2> QED
        BY <2>1, <2>2
<1> QED
    BY <1>3 DEF NoStart, u

\* The trail of a call is justified and does not end with a start; that of a
\* preparation ends with the completion of its run.
LEMMA TrailJustified ==
    ASSUME NEW l, NEW ask \in Asks, NEW works \in BOOLEAN
    PROVE  LET v == Verdict(l, ask, works)
               s == Trail(ask, v)
           IN  /\ s \in Seq(BookBodies) /\ Justified(s) /\ s # <<>>
               /\ s[Len(s)].type # "start"
               /\ v = "prepared" =>
                     /\ Len(s) >= 3
                     /\ s[Len(s)] = PipelineEnd(ask.op, ask.payment, "success", "prepared")
<1> DEFINE v == Verdict(l, ask, works)
           p == ask.payment
           needed == Policy(p) = "requires_approval"
           requested == IF needed THEN <<Audit("approval_requested", p)>> ELSE <<>>
           resolved == IF requested # <<>> /\ v \notin {"pending", "error"}
                       THEN <<Resolution(p, ask.approval)>> ELSE <<>>
           end == PipelineEnd(ask.op, p, IF v = "prepared" THEN "success" ELSE "failed", v)
           ran == IF v \in {"prepared", "failed"} THEN <<PipelineStart(ask.op, p), end>> ELSE <<>>
           opened == <<Audit("policy_evaluated", p)>>
<1>1. p \in Payments /\ ask.op \in Operations \cup {NoOperation}
    BY DEF Asks
<1>2. <<>> \in Seq(BookBodies) /\ Justified(<<>>) /\ Len(<<>>) = 0
    BY DEF Justified
<1>3. CASE v = "already_prepared"
    <2> DEFINE b == Audit("execution_replayed", p)
    <2>1. Trail(ask, v) = <<b>>
        BY <1>3 DEF Trail
    <2>2. b \in BookBodies /\ b.type = "execution_replayed"
        BY <1>1, BodiesTyped
    <2> HIDE DEF b, v
    <2>3. LET s == <<b>> IN
          s \in Seq(BookBodies) /\ Justified(s) /\ s # <<>> /\ s[Len(s)].type # "start"
        BY <2>2, JustifiedOne, EmptySeq
    <2>4. v # "prepared"
        BY <1>3
    <2> QED
        BY <2>1, <2>3, <2>4 DEF v
<1>4. CASE v # "already_prepared"
    <2>1. Trail(ask, v) = ((opened \o requested) \o resolved) \o ran
        BY <1>4 DEF Trail
    <2>2. opened \in Seq(BookBodies) /\ Justified(opened) /\ Len(opened) = 1
          /\ NoStart(opened)
        <3>1. Audit("policy_evaluated", p) \in BookBodies
              /\ Audit("policy_evaluated", p).type = "policy_evaluated"
            BY <1>1, BodiesTyped
        <3> QED
            BY <3>1, JustifiedOne DEF NoStart
    <2>3. requested \in Seq(BookBodies) /\ Justified(requested)
          /\ (needed => requested # <<>>) /\ (~needed => requested = <<>>)
          /\ NoStart(requested)
        <3>1. Audit("approval_requested", p) \in BookBodies
              /\ Audit("approval_requested", p).type = "approval_requested"
            BY <1>1, BodiesTyped
        <3>2. CASE needed
            BY <3>1, <3>2, JustifiedOne DEF NoStart
        <3>3. CASE ~needed
            BY <3>3, <1>2 DEF NoStart
        <3> QED
            BY <3>2, <3>3
    <2>4. v \in Verdicts \ {"already_prepared"}
        BY <1>4, VerdictMeans
    <2>5. resolved \in Seq(BookBodies) /\ Justified(resolved) /\ NoStart(resolved)
          /\ (needed /\ v \notin {"pending", "error"} =>
                 resolved = <<Resolution(p, ask.approval)>>
                 /\ Resolution(p, ask.approval) \in BookBodies)
        <3>1. CASE needed /\ v \notin {"pending", "error"}
            <4>1. ask.approval \in {"approved", "rejected"}
                BY <1>4, <3>1, VerdictMeans
            <4>2. Resolution(p, ask.approval) \in BookBodies
                  /\ Resolution(p, ask.approval).type = "approval_resolved"
                BY <1>1, <4>1, BodiesTyped
            <4>3. resolved = <<Resolution(p, ask.approval)>>
                BY <2>3, <3>1
            <4> QED
                BY <4>2, <4>3, JustifiedOne DEF NoStart
        <3>2. CASE ~(needed /\ v \notin {"pending", "error"})
            <4>1. resolved = <<>>
                BY <2>3, <3>2
            <4> QED
                BY <1>2, <3>2, <4>1 DEF NoStart
        <3> QED
            BY <3>1, <3>2
    <2> DEFINE s == (opened \o requested) \o resolved
    <2> HIDE DEF opened, requested, resolved
    <2>6. s \in Seq(BookBodies) /\ Justified(s) /\ NoStart(s)
        BY <2>2, <2>3, <2>5, JustifiedConcat, NoStartConcat
    <2>7. Len(s) \in Nat /\ Len(s) >= 1 /\ s # <<>>
        <3>1. opened \o requested \in Seq(BookBodies)
              /\ Len(opened \o requested) = Len(opened) + Len(requested)
            BY <2>2, <2>3, ConcatProperties
        <3>2. Len(s) = Len(opened \o requested) + Len(resolved)
            BY <2>5, <3>1, ConcatProperties
        <3>3. Len(requested) \in Nat /\ Len(resolved) \in Nat
            BY <2>3, <2>5, LenProperties
        <3>4. Len(s) >= 1 /\ Len(s) \in Nat
            BY <2>2, <3>1, <3>2, <3>3
        <3> QED
            BY <3>4, EmptySeq
    <2>8. needed /\ v \notin {"pending", "error"} =>
              Len(s) >= 2 /\ s[Len(s)] = Resolution(p, ask.approval)
        <3> SUFFICES ASSUME needed, v \notin {"pending", "error"}
                     PROVE  Len(s) >= 2 /\ s[Len(s)] = Resolution(p, ask.approval)
            OBVIOUS
        <3> DEFINE r == opened \o requested
                   e == Resolution(p, ask.approval)
        <3>1. r \in Seq(BookBodies) /\ Justified(r) /\ Len(r) = 1 + Len(requested)
            <4>1. Len(r) = Len(opened) + Len(requested)
                BY <2>2, <2>3, ConcatProperties
            <4>2. r \in Seq(BookBodies) /\ Justified(r)
                BY <2>2, <2>3, JustifiedConcat
            <4> QED
                BY <2>2, <4>1, <4>2
        <3>2. resolved = <<e>> /\ e \in BookBodies
            BY <2>5
        <3>3. Len(<<e>>) = 1 /\ <<e>>[1] = e
            OBVIOUS
        <3>4. Len(requested) \in Nat
            BY <2>3, LenProperties
        <3> HIDE DEF r, e
        <3>5. Len(s) = Len(r) + 1 /\ s[Len(r) + 1] = <<e>>[Len(r) + 1 - Len(r)]
            <4>1. Len(r) + 1 \in 1..Len(r) + Len(<<e>>) /\ ~(Len(r) + 1 <= Len(r))
                BY <3>1, <3>3, <3>4
            <4>2. s = r \o <<e>>
                BY <3>2 DEF r
            <4>3. <<e>> \in Seq(BookBodies)
                BY <3>2
            <4> QED
                BY <3>1, <3>3, <4>1, <4>2, <4>3, ConcatProperties
        <3>6. Len(r) + 1 - Len(r) = 1 /\ Len(r) + 1 >= 2
            BY <3>1, <3>4
        <3> QED
            BY <3>3, <3>5, <3>6 DEF e
    <2>9. CASE v \in {"prepared", "failed"}
        <3> DEFINE st == PipelineStart(ask.op, p)
        <3>1. st \in BookBodies /\ st.type = "start" /\ end \in BookBodies
            BY <1>1, <2>4, BodiesTyped
        <3>2. ran = <<st, end>>
            BY <2>9
        <3>3. end.type = "completion" /\ end.payment = p /\ end.result = v
            BY DEF PipelineEnd
        <3>4. p \notin BlockedPayments
              /\ (p \in LargePayments => Len(s) >= 2 /\ s[Len(s)] = Resolution(p, "approved"))
            BY <2>8, <2>9, VerdictMeans
        <3>5. v = "prepared" => end = PipelineEnd(ask.op, p, "success", "prepared")
            OBVIOUS
        <3> HIDE DEF v, st, end, s, ran
        <3>6. LET u == s \o <<st, end>> IN
              u \in Seq(BookBodies) /\ Justified(u) /\ Len(u) = Len(s) + 2 /\ u[Len(s) + 2] = end
            BY <2>6, <2>7, <3>1, <3>3, <3>4, JustifiedRun
        <3>7. Trail(ask, v) = s \o <<st, end>>
            BY <2>1, <3>2 DEF s
        <3> HIDE DEF v
        <3>8. Trail(ask, v) # <<>> /\ Len(Trail(ask, v)) >= 3
            BY <2>7, <3>6, <3>7, EmptySeq
        <3>9. Trail(ask, v)[Len(Trail(ask, v))].type # "start"
            BY <3>3, <3>6, <3>7
        <3> QED
            BY <3>5, <3>6, <3>7, <3>8, <3>9 DEF v
    <2>10. CASE v \notin {"prepared", "failed"}
        <3>1. Trail(ask, v) = s
            BY <2>1, <2>6, <2>10, ConcatEmptySeq
        <3>2. s[Len(s)].type # "start"
            BY <2>6, <2>7 DEF NoStart
        <3> QED
            BY <2>6, <2>7, <2>10, <3>1, <3>2
    <2> QED
        BY <2>9, <2>10
<1> QED
    BY <1>3, <1>4
-----------------------------------------------------------------------------
(* A call of the workflow keeps the invariant. *)

\* What a call appends keeps the ledger, if what it notes as prepared ends what it
\* appends and, unless the caller looks nothing up, was not remembered.
LEMMA RecordsKept ==
    ASSUME FinanceInv, NEW bodies \in Seq(BookBodies), Justified(bodies),
           NEW caller, NEW op \in Operations \cup {NoOperation}, NEW verdict,
           Records(bodies, caller, op, verdict), runs' \in 0..MaxRuns,
           verdict = "prepared" /\ op # NoOperation =>
               /\ caller \in {"workflow", "bridge", "adapter"}
               /\ caller = "workflow" => ~Remembers(books, op)
               /\ Len(bodies) >= 1
               /\ bodies[Len(bodies)].type = "completion"
               /\ bodies[Len(bodies)].status = "success"
               /\ bodies[Len(bodies)].op = Trim(op)
    PROVE  FinanceInv'
<1> DEFINE l == books
           m == AppendedAll(l, bodies)
           s == l.entries
           t == m.entries
<1>1. books' = m
    BY DEF Records
<1>2. Consecutive(l) /\ l.sequence \in Nat /\ Len(s) \in Nat /\ Len(bodies) \in Nat
      /\ s \in FinanceEntries
    BY LenProperties DEF FinanceInv, Consecutive, FinanceEntries
<1> DEFINE dl == Dropped(l)
           dm == Dropped(m)
<1>3. /\ Consecutive(m) /\ m.sequence = l.sequence + Len(bodies)
      /\ \E k \in Nat :
            /\ k = dm - dl
            /\ Len(t) + k = Len(s) + Len(bodies)
            /\ \A i \in 1..Len(t) :
                  /\ i + k <= Len(s) => t[i] = s[i + k]
                  /\ i + k > Len(s) => t[i].body = bodies[i + k - Len(s)]
    BY <1>2, AppendedAllKept
<1>4. m.sequence \in Nat /\ Len(t) \in Nat /\ t \in FinanceEntries
    BY <1>2, <1>3, LenProperties DEF Consecutive, FinanceEntries
<1>5. dl = l.sequence - Len(s) /\ dm = m.sequence - Len(t)
    BY DEF Dropped
<1>6. MaxEntries \in Nat \ {0}
    BY LedgerAssumption
<1>7. Len(s) = IF l.sequence <= MaxEntries THEN l.sequence ELSE MaxEntries
    BY <1>2 DEF Consecutive
<1>8. Len(t) = IF m.sequence <= MaxEntries THEN m.sequence ELSE MaxEntries
    BY <1>3 DEF Consecutive
<1> HIDE DEF m, l, dl, dm, s, t
<1>9. PICK k \in Nat :
          /\ k = dm - dl
          /\ Len(t) + k = Len(s) + Len(bodies)
          /\ \A i \in 1..Len(t) :
                /\ i + k <= Len(s) => t[i] = s[i + k]
                /\ i + k > Len(s) => t[i].body = bodies[i + k - Len(s)]
    BY <1>3
<1>0. m.sequence = l.sequence + Len(bodies)
    BY <1>3
<1>10. /\ dl \in Nat /\ dm \in Nat /\ dm = dl + k
       /\ dl > 0 => Len(s) = MaxEntries
    <2>1. dl \in Nat
        BY <1>2, <1>5, <1>6, <1>7
    <2>2. dm \in Nat
        BY <1>4, <1>5, <1>6, <1>8
    <2>3. dl > 0 => Len(s) = MaxEntries
        BY <1>2, <1>5, <1>6, <1>7
    <2> QED
        BY <1>9, <2>1, <2>2, <2>3
<1>11. preparedAt \in Seq(Preparations) /\ PreparationsKept(l, preparedAt)
       /\ DedupeWindow /\ ApprovalPrecedesRun
    BY DEF FinanceInv, FinanceTypeOK, Preparations, l
<1> DEFINE noted == verdict = "prepared" /\ op # NoOperation
           a == [by |-> caller, op |-> op, id |-> m.sequence, oldest |-> Oldest(l)]
           N == Len(preparedAt)
<1>12. preparedAt' = IF noted THEN Append(preparedAt, a) ELSE preparedAt
    BY <1>1 DEF Records, l
<1>o. Oldest(l) = dl + 1
    <2>1. CASE s = <<>>
        <3>1. Len(s) = 0
            BY <2>1
        <3>2. l.sequence = 0
            BY <1>2, <1>6, <1>7, <3>1
        <3>3. dl = 0
            BY <1>5, <3>1, <3>2
        <3>4. Oldest(l) = l.sequence + 1
            BY <2>1 DEF Oldest, s
        <3> QED
            BY <3>2, <3>3, <3>4
    <2>2. CASE s # <<>>
        <3>1. Len(s) >= 1
            BY <1>2, <2>2, EmptySeq DEF FinanceEntries
        <3>2. s[1].id = l.sequence - Len(s) + 1
            BY <1>2, <3>1 DEF Consecutive, s
        <3>3. Oldest(l) = s[1].id
            BY <2>2 DEF Oldest, s
        <3> QED
            BY <1>2, <1>5, <3>2, <3>3
    <2> QED
        BY <2>1, <2>2
<1>13. N \in Nat /\ (noted => a \in Preparations)
    <2>1. N \in Nat
        BY <1>11, LenProperties
    <2>2. Oldest(l) \in Nat
        BY <1>10, <1>o
    <2> QED
        BY <1>4, <2>1, <2>2 DEF Preparations
<1>14. /\ preparedAt' \in Seq(Preparations)
       /\ \A n \in 1..N : n \in 1..Len(preparedAt') /\ preparedAt'[n] = preparedAt[n]
       /\ ~noted => Len(preparedAt') = N
       /\ noted => Len(preparedAt') = N + 1 /\ preparedAt'[N + 1] = a
    <2>1. CASE noted
        BY <1>11, <1>12, <1>13, <2>1, AppendProperties
    <2>2. CASE ~noted
        BY <1>11, <1>12, <1>13, <2>2
    <2> QED
        BY <2>1, <2>2
<1> HIDE DEF N, a
<1>15. FinanceTypeOK'
    <2>1. m \in [entries : Seq([id : Nat \ {0}, body : BookBodies]), sequence : Nat]
        BY <1>3 DEF Consecutive, FinanceEntries
    <2>2. books' \in [entries : Seq([id : Nat \ {0}, body : BookBodies]), sequence : Nat]
        BY <1>1, <2>1
    <2> QED
        BY <1>14, <2>2 DEF FinanceTypeOK, Preparations
<1>16. ASSUME NEW n \in 1..N
       PROVE  /\ preparedAt[n].id \in 1..m.sequence
              /\ preparedAt[n].id > dm =>
                    CompletesWell(t[preparedAt[n].id - dm].body, Trim(preparedAt[n].op))
    <2> DEFINE id == preparedAt[n].id
               o == Trim(preparedAt[n].op)
    <2>1. /\ id \in 1..l.sequence
          /\ id > dl => CompletesWell(s[id - dl].body, o)
        BY <1>11 DEF PreparationsKept, N, dl, s
    <2> HIDE DEF id, o
    <2>2. id \in 1..m.sequence
        BY <1>0, <1>2, <2>1
    <2>3. ASSUME id > dm PROVE t[id - dm].body = s[id - dl].body /\ id > dl
        <3>1. id - dm \in 1..Len(t)
            <4>1. dm \in Nat /\ Len(t) \in Nat /\ dm = m.sequence - Len(t)
                BY <1>4, <1>5, <1>10
            <4>2. id \in 1..m.sequence /\ m.sequence \in Nat
                BY <1>4, <2>2
            <4> QED
                BY <2>3, <4>1, <4>2
        <3>2. (id - dm) + k = id - dl
            BY <1>10, <2>1
        <3>3. id - dl <= Len(s)
            <4>1. dl \in Nat /\ Len(s) \in Nat /\ l.sequence \in Nat /\ dl = l.sequence - Len(s)
                BY <1>2, <1>5, <1>10
            <4>2. id \in 1..l.sequence
                BY <2>1
            <4> QED
                BY <4>1, <4>2
        <3>4. id > dl
            BY <1>10, <2>1, <2>3
        <3>5. t[id - dm] = s[id - dl]
            BY <1>9, <3>1, <3>2, <3>3
        <3> QED
            BY <3>4, <3>5
    <2> QED
        BY <2>1, <2>2, <2>3 DEF id, o
<1>17. ASSUME noted
       PROVE  /\ m.sequence \in 1..m.sequence /\ m.sequence > dm
              /\ t[m.sequence - dm].body = bodies[Len(bodies)]
    <2>1. Len(bodies) >= 1 /\ m.sequence >= 1
        BY <1>0, <1>2, <1>17
    <2>2. Len(t) \in 1..Len(t) /\ m.sequence - dm = Len(t)
        BY <1>4, <1>5, <1>6, <1>8, <2>1
    <2>3. m.sequence > dm
        BY <1>4, <1>5, <2>2
    <2>4. Len(t) + k > Len(s) /\ Len(t) + k - Len(s) = Len(bodies)
        BY <1>2, <1>9, <2>1
    <2>5. t[Len(t)].body = bodies[Len(bodies)]
        BY <1>9, <2>2, <2>4
    <2> QED
        BY <1>4, <2>1, <2>2, <2>3, <2>5
<1>18. PreparationsKept(m, preparedAt')
    <2> SUFFICES ASSUME NEW n \in 1..Len(preparedAt')
                 PROVE  /\ preparedAt'[n].id \in 1..m.sequence
                        /\ preparedAt'[n].id > dm =>
                              CompletesWell(t[preparedAt'[n].id - dm].body, Trim(preparedAt'[n].op))
        BY DEF PreparationsKept, dm, t
    <2>1. CASE n \in 1..N
        BY <1>14, <1>16, <2>1
    <2>2. CASE n \notin 1..N
        <3>1. noted /\ n = N + 1 /\ preparedAt'[n] = a
            BY <1>13, <1>14, <2>2
        <3>2. a.id = m.sequence /\ a.op = op
            BY DEF a
        <3>4. /\ bodies[Len(bodies)].type = "completion"
              /\ bodies[Len(bodies)].status = "success"
              /\ bodies[Len(bodies)].op = Trim(op)
            BY <3>1
        <3> QED
            BY <1>17, <3>1, <3>2, <3>4 DEF CompletesWell
    <2> QED
        BY <2>1, <2>2
<1>19. DedupeWindow'
    <2> SUFFICES ASSUME NEW i \in 1..Len(preparedAt'), NEW j \in 1..Len(preparedAt'), i < j,
                        Trim(preparedAt'[i].op) = preparedAt'[j].op,
                        preparedAt'[j].by = "workflow",
                        preparedAt'[j].op \notin PaddedOperations
                 PROVE  preparedAt'[i].id < preparedAt'[j].oldest
        BY DEF DedupeWindow
    <2>1. CASE j \in 1..N
        <3>1. i \in 1..N
            BY <1>13, <1>14, <2>1
        <3> QED
            BY <1>11, <1>14, <2>1, <3>1 DEF DedupeWindow, N
    <2>2. CASE j \notin 1..N
        <3>1. noted /\ j = N + 1 /\ preparedAt'[j] = a /\ i \in 1..N /\ preparedAt'[i] = preparedAt[i]
            BY <1>13, <1>14, <2>2, SMTT(30)
        <3> DEFINE id == preparedAt[i].id
        <3>2. a.oldest = dl + 1 /\ caller = "workflow" /\ Trim(preparedAt[i].op) = op
            BY <1>o, <3>1 DEF a
        <3>3. id \in 1..l.sequence /\ (id > dl => CompletesWell(s[id - dl].body, op))
            BY <1>11, <3>1, <3>2 DEF PreparationsKept, N, dl, s
        <3> HIDE DEF id
        <3>4. ~(id > dl)
            <4> SUFFICES ASSUME id > dl PROVE FALSE
                OBVIOUS
            <4>1. id - dl \in 1..Len(s)
                <5>1. dl \in Nat /\ Len(s) \in Nat /\ l.sequence \in Nat /\ dl = l.sequence - Len(s)
                    BY <1>2, <1>5, <1>10
                <5>2. id \in 1..l.sequence
                    BY <3>3
                <5> QED
                    BY <5>1, <5>2, SMTT(30)
            <4>2. Remembers(books, op)
                BY <3>1, <3>3, <4>1 DEF Remembers, CompletesWell, l, s
            <4> QED
                BY <3>1, <3>2, <4>2
        <3>5. id < dl + 1
            BY <1>10, <3>3, <3>4
        <3> QED
            BY <3>1, <3>2, <3>5 DEF id
    <2> QED
        BY <2>1, <2>2
<1>20. ApprovalPrecedesRun'
    <2> SUFFICES ASSUME NEW i \in 2..Len(t), t[i].body.type = "completion",
                        t[i].body.result = "prepared", t[i - 1].body.type = "start"
                 PROVE  /\ t[i].body.payment \notin BlockedPayments
                        /\ t[i].body.payment \in LargePayments /\ i > 2 =>
                              t[i - 2].body = Resolution(t[i].body.payment, "approved")
        BY <1>1 DEF ApprovalPrecedesRun, t, Resolution, Audit
    <2>1. i \in 1..Len(t) /\ i - 1 \in 1..Len(t) /\ (i > 2 => i - 2 \in 1..Len(t))
        BY <1>4
    <2> DEFINE j == i + k
    <2>2. /\ j \in Nat /\ j >= i /\ (i - 1) + k = j - 1 /\ (i - 2) + k = j - 2
          /\ j >= 2 /\ (i > 2 => j > 2)
        OBVIOUS
    <2>3. j <= Len(s) + Len(bodies)
        BY <1>4, <1>9
    <2> HIDE DEF j
    <2>4. CASE j <= Len(s)
        <3>1. j \in 2..Len(s) /\ j - 1 <= Len(s) /\ j - 2 <= Len(s) /\ (i > 2 => j > 2)
            BY <1>2, <2>2, <2>4, SMTT(30)
        <3>2. t[i] = s[j]
            BY <1>9, <2>1, <2>4 DEF j
        <3>3. t[i - 1] = s[j - 1]
            BY <1>9, <2>1, <2>2, <3>1
        <3>4. i > 2 => t[i - 2] = s[j - 2]
            BY <1>9, <2>1, <2>2, <3>1
        <3> QED
            BY <1>11, <3>1, <3>2, <3>3, <3>4 DEF ApprovalPrecedesRun, l, s
    <2>5. CASE ~(j <= Len(s))
        <3> DEFINE n == j - Len(s)
        <3>1. j > Len(s) /\ n \in 1..Len(bodies)
            <4>1. j \in Nat /\ Len(s) \in Nat /\ Len(bodies) \in Nat
                BY <1>2, <2>2
            <4>2. j > Len(s)
                BY <2>5, <4>1
            <4>3. n \in Nat /\ n >= 1 /\ n <= Len(bodies)
                BY <2>3, <4>1, <4>2
            <4> QED
                BY <4>1, <4>2, <4>3
        <3>2. t[i].body = bodies[n]
            <4>1. i + k > Len(s)
                BY <3>1 DEF j
            <4>2. t[i].body = bodies[i + k - Len(s)]
                BY <1>9, <2>1, <4>1
            <4> QED
                BY <4>2 DEF j
        <3> HIDE DEF n
        <3>3. n > 1
            BY <3>1, <3>2 DEF Justified
        <3>4. j - 1 > Len(s) /\ (j - 1) - Len(s) = n - 1
            BY <1>2, <2>2, <3>3 DEF n
        <3>5. t[i - 1].body = bodies[n - 1]
            <4>1. (i - 1) + k > Len(s) /\ (i - 1) + k - Len(s) = n - 1
                BY <2>2, <3>4
            <4>2. t[i - 1].body = bodies[(i - 1) + k - Len(s)]
                BY <1>9, <2>1, <4>1
            <4> QED
                BY <4>1, <4>2
        <3>6. n > 2 => j - 2 > Len(s) /\ (j - 2) - Len(s) = n - 2
            BY <1>2, <2>2 DEF n
        <3>7. i > 2 /\ n > 2 => t[i - 2].body = bodies[n - 2]
            <4> SUFFICES ASSUME i > 2, n > 2 PROVE t[i - 2].body = bodies[n - 2]
                OBVIOUS
            <4>1. (i - 2) + k > Len(s) /\ (i - 2) + k - Len(s) = n - 2
                BY <2>2, <3>6
            <4>2. t[i - 2].body = bodies[(i - 2) + k - Len(s)]
                BY <1>9, <2>1, <4>1
            <4> QED
                BY <4>1, <4>2
        <3> QED
            BY <3>1, <3>2, <3>3, <3>5, <3>7 DEF Justified
    <2> QED
        BY <2>4, <2>5
<1>21. Consecutive(books') /\ PreparationsKept(books', preparedAt')
    BY <1>1, <1>3, <1>18
<1> QED
    BY <1>15, <1>19, <1>20, <1>21 DEF FinanceInv
-----------------------------------------------------------------------------
(* The ways of calling the workflow. *)

LEMMA BegunTyped == FinanceInv /\ Begun => runs' \in 0..MaxRuns
    BY FinanceAssumption DEF FinanceInv, FinanceTypeOK, Begun

\* The tool of a pipeline run, the adapter and the stage run it without operation.
LEMMA InnerVerdict ==
    ASSUME NEW ask \in Asks, NEW works \in BOOLEAN
    PROVE  LET v == Verdict(books, Inner(ask), works) IN
           /\ Inner(ask) \in Asks /\ Inner(ask).payment = ask.payment
           /\ v \in Verdicts \ {"already_prepared"}
<1>1. Inner(ask) \in Asks /\ Inner(ask).payment = ask.payment /\ Inner(ask).op = NoOperation
    BY DEF Inner, Asks
<1> QED
    BY <1>1, VerdictMeans

\* A trail within a run of the pipeline: its start before and its completion after.
LEMMA TrailEnclosed ==
    ASSUME NEW ask \in Asks, NEW s \in Seq(BookBodies), Justified(s), s # <<>>,
           s[Len(s)].type # "start",
           NEW v \in Verdicts \ {"already_prepared"},
           NEW status \in {"success", "failed", "skipped"}
    PROVE  LET u == <<PipelineStart(ask.op, ask.payment)>> \o s
               w == u \o <<PipelineEnd(ask.op, ask.payment, status, v)>>
           IN  /\ u \in Seq(BookBodies) /\ Justified(u)
               /\ w \in Seq(BookBodies) /\ Justified(w)
<1> DEFINE st == PipelineStart(ask.op, ask.payment)
           u == <<st>> \o s
           end == PipelineEnd(ask.op, ask.payment, status, v)
<1>1. st \in BookBodies /\ st.type = "start" /\ end \in BookBodies
    BY BodiesTyped DEF Asks
<1> HIDE DEF st, end
<1>2. <<st>> \in Seq(BookBodies) /\ Justified(<<st>>) /\ Len(<<st>>) = 1
    BY <1>1, JustifiedOne
<1>3. u \in Seq(BookBodies) /\ Justified(u)
    BY <1>2, JustifiedConcat
<1>4. Len(s) \in Nat /\ Len(s) >= 1
    BY EmptySeq
<1>5. Len(u) = Len(s) + 1 /\ u[Len(s) + 1] = s[Len(s)]
    <2>1. Len(u) = Len(<<st>>) + Len(s)
          /\ \A i \in 1..Len(<<st>>) + Len(s) :
                u[i] = IF i <= Len(<<st>>) THEN <<st>>[i] ELSE s[i - Len(<<st>>)]
        BY <1>2, ConcatProperties
    <2>2. Len(s) + 1 \in 1..1 + Len(s) /\ ~(Len(s) + 1 <= 1) /\ Len(s) + 1 - 1 = Len(s)
        BY <1>4
    <2>3. u[Len(s) + 1] = s[Len(s) + 1 - 1]
        BY <1>2, <2>1, <2>2
    <2>4. Len(u) = Len(s) + 1
        BY <1>2, <1>4, <2>1
    <2> QED
        BY <2>2, <2>3, <2>4
<1> HIDE DEF u
<1>6. u # <<>> /\ u[Len(u)].type # "start"
    <2>1. Len(u) # 0
        BY <1>4, <1>5
    <2> QED
        BY <1>5, <2>1, EmptySeq
<1>7. u \o <<end>> \in Seq(BookBodies) /\ Justified(u \o <<end>>)
    BY <1>1, <1>3, <1>6, JustifiedLast
<1> QED
    BY <1>3, <1>7 DEF u, st, end

\* What such a run appends ends with its completion.
LEMMA EnclosedEnd ==
    ASSUME NEW start, NEW end \in BookBodies, NEW s \in Seq(BookBodies), start \in BookBodies
    PROVE  LET w == <<start>> \o s \o <<end>> IN Len(w) >= 1 /\ w[Len(w)] = end
<1>1. <<start>> \in Seq(BookBodies) /\ <<end>> \in Seq(BookBodies)
    OBVIOUS
<1>2. <<start>> \o s \in Seq(BookBodies)
    BY <1>1, ConcatProperties
<1> DEFINE u == <<start>> \o s
<1>3. Len(u) \in Nat
    BY <1>2, LenProperties
<1> HIDE DEF u
<1>4. Len(u \o <<end>>) = Len(u) + 1 /\ (u \o <<end>>)[Len(u) + 1] = end
    BY <1>1, <1>2, <1>3, ConcatProperties DEF u
<1> QED
    BY <1>3, <1>4 DEF u

LEMMA FinanceInvInit == FinanceInit => FinanceInv
<1> SUFFICES ASSUME FinanceInit PROVE FinanceInv
    OBVIOUS
<1>1. books = [entries |-> <<>>, sequence |-> 0] /\ runs = 0 /\ preparedAt = <<>>
    BY DEF FinanceInit, EmptyLedger
<1>2. MaxEntries \in Nat \ {0} /\ MaxRuns \in Nat
    BY LedgerAssumption, FinanceAssumption
<1>3. FinanceTypeOK
    BY <1>1, <1>2 DEF FinanceTypeOK
<1>4. Consecutive(books)
    BY <1>1, <1>2 DEF Consecutive, FinanceEntries
<1> QED
    BY <1>1, <1>3, <1>4
    DEF FinanceInv, PreparationsKept, DedupeWindow, ApprovalPrecedesRun
-----------------------------------------------------------------------------
LEMMA FinanceStep == FinanceInv /\ [FinanceNext]_financeVars => FinanceInv'
<1> SUFFICES ASSUME FinanceInv, [FinanceNext]_financeVars PROVE FinanceInv'
    OBVIOUS
<1>1. ASSUME NEW ask \in RunAsks PROVE ask \in Asks
    BY FinanceAssumption DEF Asks
<1>2. ASSUME NEW ask \in RunAsks, NEW works \in BOOLEAN, RunFinanceWorkflow(ask, works)
      PROVE  FinanceInv'
    <2>1. PICK v : v = Verdict(books, ask, works)
        OBVIOUS
    <2>2. PICK bodies : bodies = Trail(ask, v)
        OBVIOUS
    <2>3. ask \in Asks /\ ask.op \in Operations \cup {NoOperation}
        BY <1>1 DEF Asks
    <2>4. Records(bodies, "workflow", ask.op, v) /\ runs' \in 0..MaxRuns
        BY <1>2, <2>1, <2>2, BegunTyped DEF RunFinanceWorkflow
    <2>5. /\ bodies \in Seq(BookBodies) /\ Justified(bodies)
          /\ v = "prepared" =>
                /\ Len(bodies) >= 3
                /\ bodies[Len(bodies)] = PipelineEnd(ask.op, ask.payment, "success", "prepared")
        BY <2>1, <2>2, <2>3, TrailJustified
    <2>6. v = "prepared" => ~Remembers(books, ask.op)
        BY <2>1, <2>3, VerdictMeans
    <2>7. v = "prepared" =>
              /\ Len(bodies) >= 1 /\ bodies[Len(bodies)].type = "completion"
              /\ bodies[Len(bodies)].status = "success"
              /\ bodies[Len(bodies)].op = Trim(ask.op)
        <3>1. Len(bodies) \in Nat
            BY <2>5, LenProperties
        <3> QED
            BY <2>5, <3>1 DEF PipelineEnd
    <2> QED
        BY <2>3, <2>4, <2>5, <2>6, <2>7, RecordsKept
<1>3. ASSUME NEW ask \in RunAsks, NEW works \in BOOLEAN, RunFinanceReferenceTask(ask, works)
      PROVE  FinanceInv'
    <2>1. PICK v : v = Verdict(books, Inner(ask), works)
        OBVIOUS
    <2>2. PICK trail : trail = Trail(Inner(ask), v)
        OBVIOUS
    <2>3. PICK status : status = IF v = "error" THEN "failed" ELSE "success"
        OBVIOUS
    <2>4. PICK bodies : bodies = <<PipelineStart(ask.op, ask.payment)>> \o trail
                                   \o <<PipelineEnd(ask.op, ask.payment, status, v)>>
        OBVIOUS
    <2>5. Records(bodies, "bridge", ask.op, v) /\ runs' \in 0..MaxRuns
        BY <1>3, <2>1, <2>2, <2>3, <2>4, BegunTyped DEF RunFinanceReferenceTask
    <2>6. /\ v \in Verdicts \ {"already_prepared"}
          /\ trail \in Seq(BookBodies) /\ Justified(trail)
          /\ trail # <<>> /\ trail[Len(trail)].type # "start"
        BY <1>1, <2>1, <2>2, InnerVerdict, TrailJustified
    <2>7. status \in {"success", "failed", "skipped"}
        BY <2>3
    <2>8. bodies \in Seq(BookBodies) /\ Justified(bodies)
        BY <1>1, <2>4, <2>6, <2>7, TrailEnclosed
    <2>9. v = "prepared" =>
              /\ Len(bodies) >= 1 /\ bodies[Len(bodies)].type = "completion"
              /\ bodies[Len(bodies)].status = "success"
              /\ bodies[Len(bodies)].op = Trim(ask.op)
        BY <1>1, <2>3, <2>4, <2>6, <2>7, EnclosedEnd DEF PipelineEnd
    <2>10. ask.op \in Operations \cup {NoOperation}
        BY <1>1 DEF Asks
    <2> QED
        BY <2>5, <2>8, <2>9, <2>10, RecordsKept
<1>4. ASSUME NEW ask \in RunAsks, NEW works \in BOOLEAN, RunFinanceTaskPipeline(ask, works)
      PROVE  FinanceInv'
    <2>1. PICK v : v = Verdict(books, Inner(ask), works)
        OBVIOUS
    <2>2. PICK trail : trail = Trail(Inner(ask), v)
        OBVIOUS
    <2>3. PICK status : status = CASE v = "prepared" -> "success" [] v = "pending" -> "skipped"
                                   [] OTHER -> "failed"
        OBVIOUS
    <2>4. PICK bodies : bodies = <<PipelineStart(ask.op, ask.payment)>> \o trail
                                   \o (IF v = "error" THEN <<>>
                                       ELSE <<PipelineEnd(ask.op, ask.payment, status, v)>>)
        OBVIOUS
    <2>5. Records(bodies, "adapter", ask.op, v) /\ runs' \in 0..MaxRuns
        BY <1>4, <2>1, <2>2, <2>3, <2>4, BegunTyped DEF RunFinanceTaskPipeline
    <2>6. /\ v \in Verdicts \ {"already_prepared"}
          /\ trail \in Seq(BookBodies) /\ Justified(trail)
          /\ trail # <<>> /\ trail[Len(trail)].type # "start"
        BY <1>1, <2>1, <2>2, InnerVerdict, TrailJustified
    <2>7. status \in {"success", "failed", "skipped"}
        BY <2>3
    <2>8. bodies \in Seq(BookBodies) /\ Justified(bodies)
        <3>1. CASE v = "error"
            <4>1. LET u == <<PipelineStart(ask.op, ask.payment)>> \o trail IN
                  u \in Seq(BookBodies) /\ Justified(u) /\ u \o <<>> = u
                BY <1>1, <2>6, <2>7, TrailEnclosed, ConcatEmptySeq
            <4> QED
                BY <2>4, <3>1, <4>1
        <3>2. CASE v # "error"
            BY <1>1, <2>4, <2>6, <2>7, <3>2, TrailEnclosed
        <3> QED
            BY <3>1, <3>2
    <2>9. v = "prepared" =>
              /\ Len(bodies) >= 1 /\ bodies[Len(bodies)].type = "completion"
              /\ bodies[Len(bodies)].status = "success"
              /\ bodies[Len(bodies)].op = Trim(ask.op)
        BY <1>1, <2>3, <2>4, <2>6, <2>7, EnclosedEnd DEF PipelineEnd
    <2>10. ask.op \in Operations \cup {NoOperation}
        BY <1>1 DEF Asks
    <2> QED
        BY <2>5, <2>8, <2>9, <2>10, RecordsKept
<1>5. ASSUME NEW ask \in RunAsks, NEW works \in BOOLEAN, ExecuteFinanceStage(ask, works)
      PROVE  FinanceInv'
    <2>1. PICK v : v = Verdict(books, Inner(ask), works)
        OBVIOUS
    <2>2. PICK trail : trail = Trail(Inner(ask), v)
        OBVIOUS
    <2>3. PICK more : more = IF v = "prepared" THEN <<Audit("policy_evaluated", ask.payment)>>
                             ELSE <<>>
        OBVIOUS
    <2>4. Records(trail \o more, "stage", NoOperation, v) /\ runs' \in 0..MaxRuns
        BY <1>5, <2>1, <2>2, <2>3, BegunTyped DEF ExecuteFinanceStage
    <2>5. trail \in Seq(BookBodies) /\ Justified(trail)
        BY <1>1, <2>1, <2>2, InnerVerdict, TrailJustified
    <2>6. more \in Seq(BookBodies) /\ Justified(more)
        <3>1. <<>> \in Seq(BookBodies) /\ Justified(<<>>)
            BY DEF Justified
        <3>2. Audit("policy_evaluated", ask.payment) \in BookBodies
              /\ Audit("policy_evaluated", ask.payment).type = "policy_evaluated"
            BY <1>1, BodiesTyped DEF Asks
        <3>3. /\ <<Audit("policy_evaluated", ask.payment)>> \in Seq(BookBodies)
              /\ Justified(<<Audit("policy_evaluated", ask.payment)>>)
            BY <3>2, JustifiedOne
        <3> QED
            BY <2>3, <3>1, <3>3
    <2>7. trail \o more \in Seq(BookBodies) /\ Justified(trail \o more)
        BY <2>5, <2>6, JustifiedConcat
    <2> QED
        BY <2>4, <2>7, RecordsKept
<1>6. ASSUME NEW payment \in Payments, NEW decision \in {"approved", "rejected"},
             RecoverFinanceApproval(payment, decision)
      PROVE  FinanceInv'
    <2> DEFINE bodies == <<Resolution(payment, decision)>>
    <2>1. Records(bodies, "recovery", NoOperation, "recovered") /\ runs' \in 0..MaxRuns
        BY <1>6, BegunTyped DEF RecoverFinanceApproval
    <2>2. bodies \in Seq(BookBodies) /\ Justified(bodies)
        BY BodiesTyped, JustifiedOne
    <2> QED
        BY <2>1, <2>2, RecordsKept
<1>7. CASE UNCHANGED financeVars
    BY <1>7 DEF financeVars, FinanceInv, FinanceTypeOK, DedupeWindow, ApprovalPrecedesRun
<1> QED
    BY <1>2, <1>3, <1>4, <1>5, <1>6, <1>7 DEF FinanceNext

LEMMA FinanceInvHolds == FinanceSpec => []FinanceInv
    BY FinanceInvInit, FinanceStep, PTL DEF FinanceSpec

\* Every variable of the workflow keeps holding values the code can give it.
THEOREM FinanceTypeCorrect == FinanceSpec => []FinanceTypeOK
    BY FinanceInvHolds, PTL DEF FinanceInv

\* However the calls of the workflow, the bridge, the adapter and the stage follow
\* one another, runFinanceWorkflow() prepares under an operation given without
\* blanks only once the cap has dropped the completion of every earlier preparation
\* under it.  Of the bridge and the adapter, which drop the operation, this is not
\* said.
THEOREM PreparedAgainAfterCap == FinanceSpec => []DedupeWindow
    BY FinanceInvHolds, PTL DEF FinanceInv

\* Whatever the cap has dropped, a run that prepared is of a payment that is not
\* blocked, and one of a large payment follows the approval of that payment.
THEOREM ApprovedBeforeRun == FinanceSpec => []ApprovalPrecedesRun
    BY FinanceInvHolds, PTL DEF FinanceInv
-----------------------------------------------------------------------------
(* Calls with a key. *)

SubmissionPoints ==
    {"idle", "deciding", "waiting", "running", "recording", "forgetting", "done", "lost"}

ReplyStatuses == {"none", "conflict", "in_progress", "unserializable"} \cup Verdicts

SubmissionTypes ==
    /\ asked \in [Submissions -> CallAsks]
    /\ at \in [Submissions -> SubmissionPoints]
    /\ flying \in [PaymentKeys -> Submissions \cup {Nobody}]
    /\ kept \in [PaymentKeys -> [state : {"absent", "in_progress", "completed"},
                                 by : Submissions \cup {Nobody}, status : ReplyStatuses]]
    /\ joined \in [Submissions -> Submissions \cup {Nobody}]
    /\ answer \in [Submissions -> [status : ReplyStatuses, replayed : BOOLEAN, stored : BOOLEAN]]
    /\ performed \subseteq Submissions

Leading(c) == at[c] \in {"deciding", "running", "recording", "forgetting"}

\* The call in flight under a key is the one that leads.
FlyingLeads ==
    /\ \A c \in Submissions : Leading(c) => flying[asked[c].key] = c
    /\ \A k \in PaymentKeys :
          flying[k] # Nobody => Leading(flying[k]) /\ asked[flying[k]].key = k

\* From its marker to its settling a call has the record of its key.
MarkerHeld ==
    \A c \in Submissions :
        at[c] \in {"running", "recording", "forgetting"} =>
            kept[asked[c].key].state = "in_progress" /\ kept[asked[c].key].by = c

\* A completed record is of a call of its key, and what it says was done.
RecordFaithful ==
    \A k \in PaymentKeys :
        kept[k].state = "completed" =>
            /\ kept[k].by \in Submissions /\ asked[kept[k].by].key = k
            /\ kept[k].status \in Terminal
            /\ kept[k].status = "prepared" => kept[k].by \in performed

\* A call that prepared is about to be recorded, recorded for good, or lost, unless
\* its result cannot be serialized.
PerformedRecorded ==
    \A c \in performed :
        /\ at[c] \in {"recording", "forgetting", "done", "lost"}
        /\ at[c] \in {"forgetting", "done"} /\ answer[c].status # "unserializable" =>
              /\ at[c] = "done"
              /\ kept[asked[c].key].state = "completed" /\ kept[asked[c].key].by = c

\* What a call that leads has to answer is of its own run.
AnswerOwn ==
    \A c \in Submissions :
        /\ at[c] \in {"idle", "deciding", "running", "waiting"} => answer[c] = NoReply
        /\ at[c] = "recording" =>
              answer[c].status \in Terminal /\ (answer[c].status = "prepared" => c \in performed)
        /\ at[c] = "forgetting" => answer[c].status # "prepared"
        /\ joined[c] = Nobody /\ answer[c].status = "pending" => asked[c].approval = "none"

\* A call joins one of its key and payment that joined none.
JoinsLeader ==
    \A c \in Submissions :
        /\ at[c] \in {"idle", "deciding", "running", "recording", "forgetting"} => joined[c] = Nobody
        /\ at[c] = "waiting" => joined[c] # Nobody
        /\ joined[c] # Nobody =>
              /\ joined[joined[c]] = Nobody /\ at[joined[c]] # "idle"
              /\ asked[joined[c]].key = asked[c].key /\ SamePayload(c, joined[c])
              /\ answer[c].status = "pending" => asked[joined[c]].approval = "none"

ToldPrepared ==
    \A c \in Submissions :
        at[c] = "done" /\ answer[c].status = "prepared" =>
            \E d \in performed : asked[d].key = asked[c].key /\ SamePayload(c, d)

SubmissionInv ==
    /\ SubmissionTypes /\ FlyingLeads /\ MarkerHeld /\ RecordFaithful /\ PerformedRecorded
    /\ AnswerOwn /\ JoinsLeader /\ ToldPrepared

LEMMA PendingUnapproved ==
    ASSUME NEW l, NEW ask, NEW works \in BOOLEAN
    PROVE  LET v == Verdict(l, ask, works) IN
           v \in Verdicts /\ (v = "pending" => ask.approval = "none")
<1> DEFINE v == Verdict(l, ask, works)
<1>1. CASE Remembers(l, ask.op)
    BY <1>1 DEF Verdict, Verdicts
<1>2. CASE ~Remembers(l, ask.op)
    <2>1. v = CASE Policy(ask.payment) = "blocked" -> "blocked"
                [] Policy(ask.payment) = "requires_approval" /\ ask.approval = "none" -> "pending"
                [] Policy(ask.payment) = "requires_approval" /\ ask.approval = "invalid" -> "error"
                [] Policy(ask.payment) = "requires_approval" /\ ask.approval = "rejected" -> "rejected"
                [] OTHER -> IF works THEN "prepared" ELSE "failed"
        BY <1>2 DEF Verdict
    <2> HIDE DEF v
    <2>2. v \in Verdicts /\ (v = "pending" => ask.approval = "none")
        BY <2>1 DEF Verdicts
    <2> QED
        BY <2>2 DEF v
<1> QED
    BY <1>1, <1>2

LEMMA SubmissionInvInit == SubmissionInit => SubmissionInv
<1> SUFFICES ASSUME SubmissionInit PROVE SubmissionInv
    OBVIOUS
<1> USE DEF SubmissionInit, NoneKept, NoReply
<1>1. SubmissionTypes
    BY DEF SubmissionTypes, SubmissionPoints, ReplyStatuses
<1>2. FlyingLeads /\ MarkerHeld /\ RecordFaithful /\ PerformedRecorded
    <2>1. \A c \in Submissions : asked[c].key \in PaymentKeys
        BY SubmissionAssumption
    <2> QED
        BY <2>1 DEF FlyingLeads, Leading, MarkerHeld, RecordFaithful, PerformedRecorded
<1>3. AnswerOwn /\ JoinsLeader /\ ToldPrepared
    BY SubmissionAssumption DEF AnswerOwn, JoinsLeader, ToldPrepared
<1> QED
    BY <1>1, <1>2, <1>3 DEF SubmissionInv

LEMMA KeysHold == SubmissionInv => KeysKeepTheirOutcome
<1> SUFFICES ASSUME SubmissionInv PROVE KeysKeepTheirOutcome
    OBVIOUS
<1> USE DEF SubmissionInv
<1>0. \A c \in Submissions : asked[c].key \in PaymentKeys
    BY SubmissionAssumption DEF SubmissionTypes
<1>1. PreparedOncePerKey
    <2> SUFFICES ASSUME NEW c \in performed, NEW d \in performed, c # d,
                        asked[c].key = asked[d].key,
                        at[c] # "lost", at[d] # "lost",
                        answer[c].status # "unserializable", answer[d].status # "unserializable"
                 PROVE  FALSE
        BY DEF PreparedOncePerKey
    <2>1. c \in Submissions /\ d \in Submissions
        BY DEF SubmissionTypes
    <2>2. at[c] \in {"recording", "done"} /\ at[d] \in {"recording", "done"}
        BY DEF PerformedRecorded
    <2>3. kept[asked[c].key].by = c
        BY <2>1, <2>2 DEF PerformedRecorded, MarkerHeld
    <2>4. kept[asked[d].key].by = d
        BY <2>1, <2>2 DEF PerformedRecorded, MarkerHeld
    <2> QED
        BY <2>3, <2>4
<1>2. OneOutcomePerKey
    BY DEF OneOutcomePerKey, RecordFaithful, ToldPrepared
<1>3. PendingRetried
    BY DEF PendingRetried, AnswerOwn, JoinsLeader
<1> QED
    BY <1>1, <1>2, <1>3 DEF KeysKeepTheirOutcome
-----------------------------------------------------------------------------
LEMMA SubmissionStep == SubmissionInv /\ [SubmissionNext]_submissionVars => SubmissionInv'
<1> SUFFICES ASSUME SubmissionInv, [SubmissionNext]_submissionVars PROVE SubmissionInv'
    OBVIOUS
<1> DEFINE K(c) == asked[c].key
<1>0. SubmissionTypes /\ \A c \in Submissions : K(c) \in PaymentKeys /\ K(c) = asked[c].key
    BY SubmissionAssumption DEF SubmissionInv, SubmissionTypes
<1> HIDE DEF K
<1>n. Nobody \notin Submissions
    BY SubmissionAssumption
<1> USE DEF SamePayload, Leading
<1>1. ASSUME NEW c \in Submissions, SubmitLeads(c) PROVE SubmissionInv'
    <2>1. /\ at[c] = "idle" /\ flying[K(c)] = Nobody
          /\ flying' = [flying EXCEPT ![K(c)] = c] /\ at' = [at EXCEPT ![c] = "deciding"]
          /\ UNCHANGED <<asked, kept, joined, answer, performed>>
        BY <1>0, <1>1 DEF SubmitLeads
    <2>2. SubmissionTypes'
        BY <1>0, <2>1 DEF SubmissionTypes, SubmissionPoints
    <2>3. \A d \in Submissions : d # c => at'[d] = at[d]
        BY <1>0, <2>1 DEF SubmissionTypes
    <2>4. at'[c] = "deciding" /\ flying'[K(c)] = c
          /\ \A k \in PaymentKeys : k # K(c) => flying'[k] = flying[k]
        BY <1>0, <2>1 DEF SubmissionTypes
    <2>5. FlyingLeads'
        BY <1>0, <1>n, <2>1, <2>3, <2>4 DEF SubmissionInv, FlyingLeads, SubmissionTypes
    <2>6. MarkerHeld' /\ RecordFaithful'
        BY <2>1, <2>3, <2>4 DEF SubmissionInv, MarkerHeld, RecordFaithful
    <2>7. PerformedRecorded'
        BY <1>0, <2>1, <2>3, <2>4 DEF SubmissionInv, PerformedRecorded, SubmissionTypes
    <2>8. AnswerOwn' /\ ToldPrepared'
        BY <2>1, <2>3, <2>4 DEF SubmissionInv, AnswerOwn, ToldPrepared
    <2>9. JoinsLeader'
        BY <1>0, <2>1, <2>3, <2>4 DEF SubmissionInv, JoinsLeader, SubmissionTypes
    <2> QED
        BY <2>2, <2>5, <2>6, <2>7, <2>8, <2>9 DEF SubmissionInv
<1>2. ASSUME NEW c \in Submissions, SubmitJoins(c) PROVE SubmissionInv'
    <2> DEFINE d == flying[K(c)]
    <2>1. /\ at[c] = "idle" /\ d # Nobody
          /\ UNCHANGED <<asked, flying, kept, performed>>
        BY <1>0, <1>2 DEF SubmitJoins
    <2>2. d \in Submissions /\ Leading(d) /\ asked[d].key = K(c) /\ joined[d] = Nobody
          /\ at[d] # "idle" /\ d # c
        BY <1>0, <2>1 DEF SubmissionInv, SubmissionTypes, FlyingLeads, JoinsLeader
    <2>3. answer[c] = NoReply /\ joined[c] = Nobody /\ c \notin performed
        BY <2>1 DEF SubmissionInv, AnswerOwn, JoinsLeader, PerformedRecorded
    <2>4. CASE SamePayload(c, d)
        <3>1. /\ joined' = [joined EXCEPT ![c] = d] /\ at' = [at EXCEPT ![c] = "waiting"]
              /\ answer' = answer
            BY <1>0, <1>2, <2>4 DEF SubmitJoins
        <3> HIDE DEF d
        <3>2. SubmissionTypes'
            BY <1>0, <2>1, <2>2, <3>1 DEF SubmissionTypes, SubmissionPoints
        <3>3. /\ at'[c] = "waiting" /\ joined'[c] = d
              /\ \A e \in Submissions : e # c => at'[e] = at[e] /\ joined'[e] = joined[e]
            BY <1>0, <3>1 DEF SubmissionTypes
        <3>4. FlyingLeads' /\ MarkerHeld' /\ RecordFaithful'
            BY <1>0, <1>n, <2>1, <3>3, SMTT(30)
               DEF SubmissionInv, FlyingLeads, MarkerHeld, RecordFaithful, SubmissionTypes
        <3>5. PerformedRecorded'
            BY <1>0, <2>1, <2>3, <3>1, <3>3 DEF SubmissionInv, PerformedRecorded, SubmissionTypes
        <3>6. AnswerOwn'
            BY <2>1, <2>3, <3>1, <3>3 DEF SubmissionInv, AnswerOwn, NoReply
        <3>7. ToldPrepared'
            BY <2>1, <3>1, <3>3 DEF SubmissionInv, ToldPrepared
        <3>8. JoinsLeader'
            <4>1. ASSUME NEW e \in Submissions, e # c, joined[e] # Nobody
                  PROVE  joined[e] \in Submissions /\ joined[e] # c
                BY <1>0, <2>1, <4>1 DEF SubmissionInv, JoinsLeader, SubmissionTypes
            <4>2. answer[c].status # "pending"
                BY <2>3 DEF NoReply
            <4> QED
                BY <1>0, <1>n, <2>1, <2>2, <2>4, <3>1, <3>3, <4>1, <4>2
                DEF SubmissionInv, JoinsLeader
        <3> QED
            BY <3>2, <3>4, <3>5, <3>6, <3>7, <3>8 DEF SubmissionInv
    <2>5. CASE ~SamePayload(c, d)
        <3>1. /\ at' = [at EXCEPT ![c] = "done"]
              /\ answer' = [answer EXCEPT ![c] = Reply("conflict", FALSE, FALSE)]
              /\ joined' = joined
            BY <1>0, <1>2, <2>5 DEF SubmitJoins, Answered
        <3> HIDE DEF d
        <3>2. SubmissionTypes'
            BY <1>0, <2>1, <3>1 DEF SubmissionTypes, SubmissionPoints, Reply, ReplyStatuses
        <3>3. /\ at'[c] = "done" /\ answer'[c].status = "conflict"
              /\ \A e \in Submissions : e # c => at'[e] = at[e] /\ answer'[e] = answer[e]
            BY <1>0, <3>1 DEF SubmissionTypes, Reply
        <3>4. FlyingLeads' /\ MarkerHeld' /\ RecordFaithful'
            <4>1. FlyingLeads'
                BY <1>0, <1>n, <2>1, <3>3, SMTT(30) DEF SubmissionInv, FlyingLeads, SubmissionTypes
            <4>2. MarkerHeld' /\ RecordFaithful'
                BY <2>1, <3>3 DEF SubmissionInv, MarkerHeld, RecordFaithful
            <4> QED
                BY <4>1, <4>2
        <3>5. PerformedRecorded'
            BY <1>0, <2>1, <2>3, <3>3 DEF SubmissionInv, PerformedRecorded, SubmissionTypes
        <3>6. AnswerOwn'
            BY <2>1, <3>1, <3>3 DEF SubmissionInv, AnswerOwn
        <3>7. ToldPrepared'
            BY <2>1, <3>3 DEF SubmissionInv, ToldPrepared
        <3>8. JoinsLeader'
            <4>1. \A e \in Submissions :
                     /\ at'[e] = at[e] \/ at'[e] = "done"
                     /\ answer'[e].status = "pending" => answer[e].status = "pending"
                BY <3>3
            <4>2. ASSUME NEW e \in Submissions
                  PROVE  /\ at'[e] \in {"idle", "deciding", "running", "recording", "forgetting"}
                               => joined[e] = Nobody
                         /\ at'[e] = "waiting" => joined[e] # Nobody
                BY <4>1 DEF SubmissionInv, JoinsLeader
            <4>3. ASSUME NEW e \in Submissions, joined[e] # Nobody
                  PROVE  /\ joined[joined[e]] = Nobody /\ at'[joined[e]] # "idle"
                         /\ asked[joined[e]].key = asked[e].key /\ SamePayload(e, joined[e])
                         /\ answer'[e].status = "pending" => asked[joined[e]].approval = "none"
                <5>1. joined[e] \in Submissions
                    BY <1>0, <4>3 DEF SubmissionTypes
                <5>2. /\ joined[joined[e]] = Nobody /\ at[joined[e]] # "idle"
                      /\ asked[joined[e]].key = asked[e].key /\ SamePayload(e, joined[e])
                      /\ answer[e].status = "pending" => asked[joined[e]].approval = "none"
                    BY <4>3 DEF SubmissionInv, JoinsLeader
                <5> QED
                    BY <4>1, <5>1, <5>2
            <4> QED
                BY <2>1, <3>1, <4>2, <4>3 DEF JoinsLeader, SamePayload
        <3> QED
            BY <3>2, <3>4, <3>5, <3>6, <3>7, <3>8 DEF SubmissionInv
    <2> QED
        BY <2>4, <2>5
<1>3. ASSUME NEW c \in Submissions, AnswerFromRecord(c) PROVE SubmissionInv'
    <2> DEFINE r == kept[K(c)]
    <2>1. /\ at[c] = "deciding" /\ r.state # "absent"
          /\ flying' = [flying EXCEPT ![K(c)] = Nobody]
          /\ UNCHANGED <<asked, kept, joined, performed>>
        <3>1. at[c] = "deciding" /\ kept[asked[c].key].state # "absent" /\ Landed(c)
            BY <1>3, Zenon DEF AnswerFromRecord
        <3>2. UNCHANGED <<asked, kept, joined, performed>>
            BY <1>3 DEF AnswerFromRecord
        <3>3. K(c) = asked[c].key
            BY <1>0
        <3>4. flying' = [flying EXCEPT ![K(c)] = Nobody] /\ kept[K(c)].state # "absent"
            BY <3>1, <3>3 DEF Landed
        <3> QED
            BY <3>1, <3>2, <3>4
    <2>2. PICK reply :
              /\ Answered(c, reply)
              /\ \/ reply.status \in {"conflict", "in_progress"}
                 \/ /\ SamePayload(c, r.by) /\ r.state = "completed"
                    /\ reply.status = r.status
              /\ reply \in [status : ReplyStatuses, replayed : BOOLEAN, stored : BOOLEAN]
        <3>1. Reply("conflict", FALSE, FALSE).status = "conflict"
              /\ Reply("in_progress", FALSE, FALSE).status = "in_progress"
              /\ Reply(r.status, TRUE, TRUE).status = r.status
            BY DEF Reply
        <3>2. r.status \in ReplyStatuses
            BY <1>0 DEF SubmissionTypes
        <3>3. \A s \in ReplyStatuses, x, y \in BOOLEAN :
                  Reply(s, x, y) \in [status : ReplyStatuses, replayed : BOOLEAN, stored : BOOLEAN]
            BY DEF Reply
        <3>4. "conflict" \in ReplyStatuses /\ "in_progress" \in ReplyStatuses
            BY DEF ReplyStatuses
        <3>5. CASE ~SamePayload(c, r.by)
            <4>1. Answered(c, Reply("conflict", FALSE, FALSE))
                BY <1>0, <1>3, <3>5 DEF AnswerFromRecord
            <4> QED
                BY <3>1, <3>3, <3>4, <4>1
        <3>6. CASE SamePayload(c, r.by) /\ r.state = "completed"
            <4>1. Answered(c, Reply(r.status, TRUE, TRUE))
                BY <1>0, <1>3, <3>6 DEF AnswerFromRecord, Replays
            <4> HIDE DEF r
            <4> QED
                BY <3>1, <3>2, <3>3, <3>6, <4>1
        <3>7. CASE SamePayload(c, r.by) /\ r.state # "completed"
            <4>1. Answered(c, Reply("in_progress", FALSE, FALSE))
                BY <1>0, <1>3, <3>7 DEF AnswerFromRecord
            <4> QED
                BY <3>1, <3>3, <3>4, <4>1
        <3> QED
            BY <3>5, <3>6, <3>7
    <2>3. at' = [at EXCEPT ![c] = "done"] /\ answer' = [answer EXCEPT ![c] = reply]
        BY <2>2 DEF Answered
    <2> HIDE DEF r
    <2>4. SubmissionTypes'
        BY <1>0, <2>1, <2>2, <2>3 DEF SubmissionTypes, SubmissionPoints
    <2>5. /\ at'[c] = "done" /\ answer'[c] = reply /\ flying'[K(c)] = Nobody
          /\ \A k \in PaymentKeys : k # K(c) => flying'[k] = flying[k]
          /\ \A e \in Submissions : e # c => at'[e] = at[e] /\ answer'[e] = answer[e]
        BY <1>0, <2>1, <2>3 DEF SubmissionTypes
    <2>6. flying[K(c)] = c /\ joined[c] = Nobody /\ c \notin performed
        BY <1>0, <2>1 DEF SubmissionInv, FlyingLeads, JoinsLeader, PerformedRecorded
    <2>7. FlyingLeads'
        <3>1. ASSUME NEW d \in Submissions, d # c, Leading(d) PROVE K(d) # K(c)
            BY <1>0, <2>6, <3>1 DEF SubmissionInv, FlyingLeads
        <3>2. \A d \in Submissions : Leading(d)' => flying'[asked'[d].key] = d
            BY <1>0, <2>1, <2>5, <3>1 DEF SubmissionInv, FlyingLeads
        <3>3. ASSUME NEW k \in PaymentKeys, flying'[k] # Nobody
              PROVE  Leading(flying[k])' /\ asked'[flying'[k]].key = k
            BY <1>0, <1>n, <2>1, <2>5, <2>6, <3>3 DEF SubmissionInv, FlyingLeads, SubmissionTypes
        <3> QED
            BY <3>2, <3>3 DEF FlyingLeads
    <2>8. MarkerHeld' /\ RecordFaithful'
        BY <2>1, <2>5 DEF SubmissionInv, MarkerHeld, RecordFaithful
    <2>9. PerformedRecorded'
        BY <1>0, <2>1, <2>5, <2>6 DEF SubmissionInv, PerformedRecorded, SubmissionTypes
    <2>10. reply.status = "prepared" =>
              \E d \in performed : asked[d].key = asked[c].key /\ SamePayload(c, d)
        <3> SUFFICES ASSUME reply.status = "prepared"
                     PROVE  \E d \in performed : asked[d].key = asked[c].key /\ SamePayload(c, d)
            OBVIOUS
        <3>1. SamePayload(c, r.by) /\ r.state = "completed" /\ r.status = "prepared"
            BY <2>2
        <3>2. r.by \in performed /\ asked[r.by].key = K(c)
            BY <1>0, <3>1 DEF SubmissionInv, RecordFaithful, r
        <3> QED
            BY <1>0, <3>1, <3>2
    <2>11. reply.status # "pending"
        BY <1>0, <2>2 DEF SubmissionInv, RecordFaithful, Terminal, r
    <2>12. AnswerOwn'
        BY <2>1, <2>5, <2>11 DEF SubmissionInv, AnswerOwn
    <2>13. JoinsLeader'
        BY <1>0, <2>1, <2>5, <2>6 DEF SubmissionInv, JoinsLeader, SubmissionTypes
    <2>14. ToldPrepared'
        BY <2>1, <2>5, <2>10 DEF SubmissionInv, ToldPrepared
    <2> QED
        BY <2>4, <2>7, <2>8, <2>9, <2>12, <2>13, <2>14 DEF SubmissionInv
<1>4. ASSUME NEW c \in Submissions, MarkSubmission(c) PROVE SubmissionInv'
    <2> DEFINE r == kept[K(c)]
               marker == [state |-> "in_progress", by |-> c, status |-> "none"]
    <2>1. /\ at[c] = "deciding" /\ r.state # "completed"
          /\ kept' = [kept EXCEPT ![K(c)] = marker] /\ at' = [at EXCEPT ![c] = "running"]
          /\ UNCHANGED <<asked, flying, joined, answer, performed>>
        BY <1>0, <1>4 DEF MarkSubmission
    <2>2. SubmissionTypes'
        BY <1>0, <2>1 DEF SubmissionTypes, SubmissionPoints, ReplyStatuses
    <2>3. /\ at'[c] = "running" /\ kept'[K(c)].state = "in_progress" /\ kept'[K(c)].by = c
          /\ \A k \in PaymentKeys : k # K(c) => kept'[k] = kept[k]
          /\ \A e \in Submissions : e # c => at'[e] = at[e]
        BY <1>0, <2>1 DEF SubmissionTypes
    <2> HIDE DEF r, marker
    <2>4. flying[K(c)] = c
        BY <1>0, <2>1 DEF SubmissionInv, FlyingLeads
    <2>5. FlyingLeads'
        BY <1>0, <2>1, <2>3 DEF SubmissionInv, FlyingLeads, SubmissionTypes
    <2>6. MarkerHeld'
        BY <1>0, <2>1, <2>3, <2>4 DEF SubmissionInv, MarkerHeld, FlyingLeads
    <2>7. RecordFaithful'
        BY <2>1, <2>3 DEF SubmissionInv, RecordFaithful
    <2>8. PerformedRecorded'
        BY <1>0, <2>1, <2>3 DEF SubmissionInv, PerformedRecorded, SubmissionTypes, r
    <2>9. AnswerOwn' /\ ToldPrepared'
        BY <2>1, <2>3 DEF SubmissionInv, AnswerOwn, ToldPrepared
    <2>10. JoinsLeader'
        BY <1>0, <2>1, <2>3 DEF SubmissionInv, JoinsLeader, SubmissionTypes
    <2> QED
        BY <2>2, <2>5, <2>6, <2>7, <2>8, <2>9, <2>10 DEF SubmissionInv
<1>5. ASSUME NEW c \in Submissions, NEW works \in BOOLEAN, NEW copies \in BOOLEAN,
             RunSubmission(c, works, copies)
      PROVE  SubmissionInv'
    <2>1. PICK v : v = Verdict(books, asked[c], works)
        OBVIOUS
    <2>2. v \in Verdicts /\ (v = "pending" => asked[c].approval = "none")
        BY <2>1, PendingUnapproved
    <2>a. PICK told : told = ToldOf(v, copies)
        OBVIOUS
    <2>b. /\ told = v \/ told = "unserializable"
          /\ v = "prepared" => told \in {"prepared", "unserializable"}
        BY <2>a DEF ToldOf
    <2> DEFINE next == IF told \in Terminal THEN "recording" ELSE "forgetting"
               reply == Reply(told, FALSE, told \in Terminal)
    <2>3. /\ at[c] = "running"
          /\ performed' = IF v = "prepared" THEN performed \cup {c} ELSE performed
          /\ at' = [at EXCEPT ![c] = next] /\ answer' = [answer EXCEPT ![c] = reply]
          /\ UNCHANGED <<asked, flying, kept, joined>>
        BY <1>5, <2>1, <2>a DEF RunSubmission
    <2>4. reply.status = told
          /\ reply \in [status : ReplyStatuses, replayed : BOOLEAN, stored : BOOLEAN]
        BY <2>2, <2>b DEF Reply, ReplyStatuses
    <2>5. next \in {"recording", "forgetting"} /\ (next = "recording" <=> told \in Terminal)
        OBVIOUS
    <2>6. "prepared" \in Terminal /\ "unserializable" \notin Terminal
        BY DEF Terminal
    <2> HIDE DEF next, reply
    <2>7. SubmissionTypes'
        BY <1>0, <2>3, <2>4, <2>5 DEF SubmissionTypes, SubmissionPoints
    <2>8. /\ at'[c] = next /\ answer'[c] = reply
          /\ \A e \in Submissions : e # c => at'[e] = at[e] /\ answer'[e] = answer[e]
        BY <1>0, <2>3 DEF SubmissionTypes
    <2>9. FlyingLeads'
        BY <1>0, <2>3, <2>5, <2>8 DEF SubmissionInv, FlyingLeads, SubmissionTypes
    <2>10. MarkerHeld'
        BY <2>3, <2>5, <2>8 DEF SubmissionInv, MarkerHeld
    <2>11. RecordFaithful'
        BY <2>3 DEF SubmissionInv, RecordFaithful
    <2>12. PerformedRecorded'
        <3> SUFFICES ASSUME NEW d \in performed'
                     PROVE  /\ at'[d] \in {"recording", "forgetting", "done", "lost"}
                            /\ at'[d] \in {"forgetting", "done"}
                               /\ answer'[d].status # "unserializable" =>
                                  /\ at'[d] = "done"
                                  /\ kept'[asked'[d].key].state = "completed"
                                  /\ kept'[asked'[d].key].by = d
            BY DEF PerformedRecorded
        <3>1. CASE d = c
            <4>1. v = "prepared"
                BY <2>3, <3>1 DEF SubmissionInv, PerformedRecorded
            <4> QED
                BY <2>b, <2>4, <2>5, <2>6, <2>8, <3>1, <4>1
        <3>2. CASE d # c
            <4>1. d \in performed /\ d \in Submissions
                BY <1>0, <2>3, <3>2 DEF SubmissionTypes
            <4> QED
                BY <2>3, <2>8, <3>2, <4>1 DEF SubmissionInv, PerformedRecorded
        <3> QED
            BY <3>1, <3>2
    <2>13. AnswerOwn'
        <3> SUFFICES ASSUME NEW e \in Submissions
                     PROVE  /\ at'[e] \in {"idle", "deciding", "running", "waiting"} =>
                                  answer'[e] = NoReply
                            /\ at'[e] = "recording" =>
                                  /\ answer'[e].status \in Terminal
                                  /\ answer'[e].status = "prepared" => e \in performed'
                            /\ at'[e] = "forgetting" => answer'[e].status # "prepared"
                            /\ joined'[e] = Nobody /\ answer'[e].status = "pending" =>
                                  asked'[e].approval = "none"
            BY DEF AnswerOwn
        <3>1. CASE e = c
            BY <2>2, <2>b, <2>3, <2>4, <2>5, <2>6, <2>8, <3>1
        <3>2. CASE e # c
            BY <2>3, <2>8, <3>2 DEF SubmissionInv, AnswerOwn
        <3> QED
            BY <3>1, <3>2
    <2>14. JoinsLeader'
        BY <1>0, <1>n, <2>3, <2>5, <2>8 DEF SubmissionInv, JoinsLeader, SubmissionTypes
    <2>15. ToldPrepared'
        BY <2>3, <2>5, <2>8 DEF SubmissionInv, ToldPrepared
    <2> QED
        BY <2>7, <2>9, <2>10, <2>11, <2>12, <2>13, <2>14, <2>15 DEF SubmissionInv
<1>6. ASSUME NEW c \in Submissions, SettleSubmission(c) PROVE SubmissionInv'
    <2> DEFINE next == IF at[c] = "recording"
                       THEN [state |-> "completed", by |-> c, status |-> answer[c].status]
                       ELSE NoneKept
    <2>1. /\ at[c] \in {"recording", "forgetting"}
          /\ kept' = [kept EXCEPT ![K(c)] = next] /\ at' = [at EXCEPT ![c] = "done"]
          /\ flying' = [flying EXCEPT ![K(c)] = Nobody]
          /\ UNCHANGED <<asked, joined, answer, performed>>
        <3>1. K(c) = asked[c].key
            BY <1>0
        <3> QED
            BY <1>6, <3>1 DEF SettleSubmission, Landed
    <2>2. next \in [state : {"absent", "in_progress", "completed"},
                    by : Submissions \cup {Nobody}, status : ReplyStatuses]
        BY <1>0 DEF SubmissionTypes, NoneKept, ReplyStatuses
    <2>3. /\ at[c] = "recording" =>
                next.state = "completed" /\ next.by = c /\ next.status = answer[c].status
          /\ at[c] = "forgetting" => next.state = "absent"
        BY DEF NoneKept
    <2> HIDE DEF next
    <2>4. SubmissionTypes'
        BY <1>0, <2>1, <2>2 DEF SubmissionTypes, SubmissionPoints
    <2>5. /\ at'[c] = "done" /\ kept'[K(c)] = next /\ flying'[K(c)] = Nobody
          /\ \A k \in PaymentKeys : k # K(c) => kept'[k] = kept[k] /\ flying'[k] = flying[k]
          /\ \A e \in Submissions : e # c => at'[e] = at[e]
        BY <1>0, <2>1 DEF SubmissionTypes
    <2>6. flying[K(c)] = c /\ kept[K(c)].state = "in_progress"
        BY <1>0, <2>1 DEF SubmissionInv, FlyingLeads, MarkerHeld
    <2>7. ASSUME NEW d \in Submissions, d # c, Leading(d) PROVE K(d) # K(c)
        BY <1>0, <2>6, <2>7 DEF SubmissionInv, FlyingLeads
    <2>8. FlyingLeads'
        <3>1. \A d \in Submissions : Leading(d)' => flying'[asked'[d].key] = d
            BY <1>0, <2>1, <2>5, <2>7 DEF SubmissionInv, FlyingLeads
        <3>2. ASSUME NEW k \in PaymentKeys, flying'[k] # Nobody
              PROVE  Leading(flying[k])' /\ asked'[flying'[k]].key = k
            BY <1>0, <1>n, <2>1, <2>5, <2>6, <3>2 DEF SubmissionInv, FlyingLeads, SubmissionTypes
        <3> QED
            BY <3>1, <3>2 DEF FlyingLeads
    <2>9. MarkerHeld'
        <3> SUFFICES ASSUME NEW d \in Submissions, at'[d] \in {"running", "recording", "forgetting"}
                     PROVE  kept'[asked'[d].key].state = "in_progress" /\ kept'[asked'[d].key].by = d
            BY DEF MarkerHeld
        <3>1. d # c /\ at[d] = at'[d]
            BY <2>5
        <3>2. K(d) # K(c) /\ K(d) \in PaymentKeys /\ asked'[d].key = K(d)
            BY <1>0, <2>1, <2>7, <3>1
        <3>3. kept[K(d)].state = "in_progress" /\ kept[K(d)].by = d
            BY <1>0, <3>1 DEF SubmissionInv, MarkerHeld
        <3> QED
            BY <2>5, <3>2, <3>3
    <2>10. RecordFaithful'
        <3> SUFFICES ASSUME NEW k \in PaymentKeys, kept'[k].state = "completed"
                     PROVE  /\ kept'[k].by \in Submissions /\ asked'[kept'[k].by].key = k
                            /\ kept'[k].status \in Terminal
                            /\ kept'[k].status = "prepared" => kept'[k].by \in performed'
            BY DEF RecordFaithful
        <3>1. CASE k = K(c)
            <4>1. at[c] = "recording"
                BY <2>1, <2>3, <2>5, <3>1
            <4>2. answer[c].status \in Terminal /\ (answer[c].status = "prepared" => c \in performed)
                BY <4>1 DEF SubmissionInv, AnswerOwn
            <4> QED
                BY <1>0, <2>1, <2>3, <2>5, <3>1, <4>1, <4>2
        <3>2. CASE k # K(c)
            BY <2>1, <2>5, <3>2 DEF SubmissionInv, RecordFaithful
        <3> QED
            BY <3>1, <3>2
    <2>11. PerformedRecorded'
        <3> SUFFICES ASSUME NEW d \in performed
                     PROVE  /\ at'[d] \in {"recording", "forgetting", "done", "lost"}
                            /\ at'[d] \in {"forgetting", "done"}
                               /\ answer[d].status # "unserializable" =>
                                  /\ at'[d] = "done"
                                  /\ kept'[asked[d].key].state = "completed"
                                  /\ kept'[asked[d].key].by = d
            BY <2>1 DEF PerformedRecorded
        <3>1. CASE d = c
            <4>1. at[c] = "recording" \/ answer[c].status = "unserializable"
                BY <2>1, <3>1 DEF SubmissionInv, PerformedRecorded
            <4> QED
                BY <1>0, <2>3, <2>5, <3>1, <4>1
        <3>2. CASE d # c
            <4>1. d \in Submissions /\ at'[d] = at[d]
                BY <1>0, <2>5, <3>2 DEF SubmissionTypes
            <4>2. /\ at[d] \in {"recording", "forgetting", "done", "lost"}
                  /\ at[d] \in {"forgetting", "done"} /\ answer[d].status # "unserializable" =>
                        /\ at[d] = "done"
                        /\ kept[K(d)].state = "completed" /\ kept[K(d)].by = d
                BY <1>0, <4>1 DEF SubmissionInv, PerformedRecorded
            <4>3. at[d] = "done" /\ answer[d].status # "unserializable" => K(d) # K(c)
                BY <2>6, <4>2
            <4> QED
                BY <1>0, <2>5, <4>1, <4>2, <4>3
        <3> QED
            BY <3>1, <3>2
    <2>12. AnswerOwn'
        BY <2>1, <2>5 DEF SubmissionInv, AnswerOwn
    <2>13. JoinsLeader'
        BY <1>0, <2>1, <2>5 DEF SubmissionInv, JoinsLeader, SubmissionTypes
    <2>14. ToldPrepared'
        <3>1. answer[c].status = "prepared" => c \in performed
            BY <2>1 DEF SubmissionInv, AnswerOwn
        <3> QED
            BY <2>1, <2>5, <3>1 DEF SubmissionInv, ToldPrepared
    <2> QED
        BY <2>4, <2>8, <2>9, <2>10, <2>11, <2>12, <2>13, <2>14 DEF SubmissionInv
<1>7. ASSUME NEW c \in Submissions, ResumeJoined(c) PROVE SubmissionInv'
    <2> DEFINE d == joined[c]
    <2>1. /\ at[c] = "waiting" /\ at[d] = "done"
          /\ UNCHANGED <<asked, flying, kept, joined, performed>>
        BY <1>7 DEF ResumeJoined
    <2>2. /\ d \in Submissions /\ d # c /\ asked[d].key = asked[c].key /\ SamePayload(c, d)
          /\ joined[d] = Nobody /\ c \notin performed
        BY <1>0, <2>1
        DEF SubmissionInv, SubmissionTypes, JoinsLeader, PerformedRecorded
    <2>3. PICK reply :
              /\ Answered(c, reply) /\ reply.status = answer[d].status
              /\ reply \in [status : ReplyStatuses, replayed : BOOLEAN, stored : BOOLEAN]
        <3>1. answer[d] \in [status : ReplyStatuses, replayed : BOOLEAN, stored : BOOLEAN]
            BY <1>0, <2>2 DEF SubmissionTypes
        <3>2. CASE answer[d].status \in {"error", "conflict", "in_progress", "unserializable"}
            <4>1. Answered(c, answer[d])
                BY <1>7, <3>2 DEF ResumeJoined
            <4> QED
                BY <3>1, <4>1
        <3>3. CASE answer[d].status \notin {"error", "conflict", "in_progress", "unserializable"}
            <4>1. Answered(c, Reply(answer[d].status, TRUE, TRUE))
                BY <1>7, <3>3 DEF ResumeJoined, Replays
            <4>2. /\ Reply(answer[d].status, TRUE, TRUE).status = answer[d].status
                  /\ Reply(answer[d].status, TRUE, TRUE)
                        \in [status : ReplyStatuses, replayed : BOOLEAN, stored : BOOLEAN]
                BY <3>1 DEF Reply
            <4> QED
                BY <4>1, <4>2
        <3> QED
            BY <3>2, <3>3
    <2>4. at' = [at EXCEPT ![c] = "done"] /\ answer' = [answer EXCEPT ![c] = reply]
        BY <2>3 DEF Answered
    <2> HIDE DEF d
    <2>5. SubmissionTypes'
        BY <1>0, <2>1, <2>3, <2>4 DEF SubmissionTypes, SubmissionPoints
    <2>6. /\ at'[c] = "done" /\ answer'[c] = reply
          /\ \A e \in Submissions : e # c => at'[e] = at[e] /\ answer'[e] = answer[e]
        BY <1>0, <2>4 DEF SubmissionTypes
    <2>7. FlyingLeads'
        BY <1>0, <1>n, <2>1, <2>6 DEF SubmissionInv, FlyingLeads, SubmissionTypes
    <2>8. MarkerHeld' /\ RecordFaithful'
        BY <2>1, <2>6 DEF SubmissionInv, MarkerHeld, RecordFaithful
    <2>9. PerformedRecorded'
        BY <1>0, <2>1, <2>2, <2>6 DEF SubmissionInv, PerformedRecorded, SubmissionTypes
    <2>10. d = joined[c] /\ d # Nobody
        BY <1>n, <2>2 DEF d
    <2>11. AnswerOwn'
        BY <2>1, <2>6, <2>10 DEF SubmissionInv, AnswerOwn
    <2>12. answer[d].status = "pending" => asked[d].approval = "none"
        BY <2>2 DEF SubmissionInv, AnswerOwn
    <2>13. JoinsLeader'
        <3> SUFFICES ASSUME NEW e \in Submissions
                     PROVE  /\ at'[e] \in {"idle", "deciding", "running", "recording", "forgetting"} =>
                                  joined[e] = Nobody
                            /\ at'[e] = "waiting" => joined[e] # Nobody
                            /\ joined[e] # Nobody =>
                                  /\ joined[joined[e]] = Nobody /\ at'[joined[e]] # "idle"
                                  /\ asked[joined[e]].key = asked[e].key /\ SamePayload(e, joined[e])
                                  /\ answer'[e].status = "pending" =>
                                        asked[joined[e]].approval = "none"
            BY <2>1 DEF JoinsLeader
        <3>1. /\ at[e] \in {"idle", "deciding", "running", "recording", "forgetting"} =>
                    joined[e] = Nobody
              /\ at[e] = "waiting" => joined[e] # Nobody
              /\ joined[e] # Nobody =>
                    /\ joined[joined[e]] = Nobody /\ at[joined[e]] # "idle"
                    /\ asked[joined[e]].key = asked[e].key /\ SamePayload(e, joined[e])
                    /\ answer[e].status = "pending" => asked[joined[e]].approval = "none"
            BY DEF SubmissionInv, JoinsLeader
        <3>2. joined[e] # Nobody => joined[e] \in Submissions /\ at'[joined[e]] # "idle"
            BY <1>0, <2>6, <3>1 DEF SubmissionTypes
        <3>3. CASE e = c
            BY <2>3, <2>6, <2>10, <2>12, <3>1, <3>2, <3>3
        <3>4. CASE e # c
            BY <2>6, <3>1, <3>2, <3>4
        <3> QED
            BY <3>3, <3>4
    <2>14. ToldPrepared'
        <3>1. answer[d].status = "prepared" =>
                  \E e \in performed : asked[e].key = asked[c].key /\ SamePayload(c, e)
            BY <2>1, <2>2 DEF SubmissionInv, ToldPrepared, d
        <3> QED
            BY <2>1, <2>3, <2>6, <3>1 DEF SubmissionInv, ToldPrepared
    <2> QED
        BY <2>5, <2>7, <2>8, <2>9, <2>11, <2>13, <2>14 DEF SubmissionInv
<1>8. CASE LoseProcess
    <2>1. /\ at' = [c \in Submissions |-> IF at[c] \in {"idle", "done"} THEN at[c] ELSE "lost"]
          /\ flying' = [k \in PaymentKeys |-> Nobody]
          /\ UNCHANGED <<asked, kept, joined, answer, performed>>
        BY <1>8 DEF LoseProcess
    <2>2. SubmissionTypes'
        BY <1>0, <2>1 DEF SubmissionTypes, SubmissionPoints
    <2>3. /\ \A k \in PaymentKeys : flying'[k] = Nobody
          /\ \A c \in Submissions :
                \/ at[c] \in {"idle", "done"} /\ at'[c] = at[c]
                \/ at[c] \notin {"idle", "done"} /\ at'[c] = "lost"
        BY <2>1
    <2>4. FlyingLeads' /\ MarkerHeld'
        BY <2>3 DEF FlyingLeads, MarkerHeld
    <2>5. RecordFaithful'
        BY <2>1 DEF SubmissionInv, RecordFaithful
    <2>6. PerformedRecorded'
        BY <1>0, <2>1, <2>3 DEF SubmissionInv, PerformedRecorded, SubmissionTypes
    <2>7. AnswerOwn'
        BY <2>1, <2>3 DEF SubmissionInv, AnswerOwn
    <2>8. JoinsLeader'
        BY <1>0, <2>1, <2>3 DEF SubmissionInv, JoinsLeader, SubmissionTypes
    <2>9. ToldPrepared'
        BY <2>1, <2>3 DEF SubmissionInv, ToldPrepared
    <2> QED
        BY <2>2, <2>4, <2>5, <2>6, <2>7, <2>8, <2>9 DEF SubmissionInv
<1>9. CASE UNCHANGED submissionVars
    BY <1>9 DEF submissionVars, SubmissionInv, SubmissionTypes, FlyingLeads, MarkerHeld,
                RecordFaithful, PerformedRecorded, AnswerOwn, JoinsLeader, ToldPrepared
<1> QED
    BY <1>1, <1>2, <1>3, <1>4, <1>5, <1>6, <1>7, <1>8, <1>9 DEF SubmissionNext

\* Through any interleaving of calls and any crashes, of two calls that prepared
\* under one key one was lost with its process or was told that its result could
\* not be serialized, whoever is told that its payment is prepared stands on such a
\* call, and a call that brings an approval is left pending only by a call in
\* flight that did not.
THEOREM KeysAreKept == SubmissionSpec => []KeysKeepTheirOutcome
<1>1. FinanceInit /\ SubmissionInit => SubmissionInv
    BY SubmissionInvInit
<1> QED
    BY <1>1, SubmissionStep, KeysHold, PTL DEF SubmissionSpec
-----------------------------------------------------------------------------
(* The ledger behind the keys: runs, replays and crashes keep its invariant. *)

\* The audit event of a replay is one more entry, and no preparation.
LEMMA ReplayKeeps ==
    ASSUME FinanceInv, NEW p \in Payments, UNCHANGED <<runs, preparedAt>>,
           books' = AppendedAll(books, <<Audit("execution_replayed", p)>>)
    PROVE  FinanceInv'
<1> DEFINE bodies == <<Audit("execution_replayed", p)>>
<1>1. Audit("execution_replayed", p) \in BookBodies
      /\ Audit("execution_replayed", p).type = "execution_replayed"
    BY BodiesTyped
<1>2. bodies \in Seq(BookBodies) /\ Justified(bodies)
    BY <1>1, JustifiedOne
<1>3. Records(bodies, "replay", NoOperation, "replayed")
    BY DEF Records
<1>4. runs' \in 0..MaxRuns
    BY DEF FinanceInv, FinanceTypeOK
<1> QED
    BY <1>2, <1>3, <1>4, RecordsKept

LEMMA SubmissionKeepsLedger ==
    FinanceInv /\ SubmissionTypes /\ [SubmissionNext]_submissionVars => FinanceInv'
<1> SUFFICES ASSUME FinanceInv, SubmissionTypes, [SubmissionNext]_submissionVars
             PROVE  FinanceInv'
    OBVIOUS
<1>1. ASSUME NEW c \in Submissions
      PROVE  asked[c] \in Asks /\ asked[c].payment \in Payments
             /\ asked[c].op \in Operations \cup {NoOperation}
    <2>1. asked[c] \in [key : PaymentKeys, op : Operations \cup {NoOperation},
                        payment : Payments, approval : Approvals]
        BY SubmissionAssumption DEF SubmissionTypes
    <2> QED
        BY <2>1 DEF Asks
<1>2. UNCHANGED financeVars => FinanceInv'
    BY DEF financeVars, FinanceInv, FinanceTypeOK, DedupeWindow, ApprovalPrecedesRun
<1>3. ASSUME NEW c \in Submissions, NEW works \in BOOLEAN, NEW copies \in BOOLEAN,
             RunSubmission(c, works, copies)
      PROVE  FinanceInv'
    <2>1. PICK v : v = Verdict(books, asked[c], works)
        OBVIOUS
    <2>2. PICK bodies : bodies = Trail(asked[c], v)
        OBVIOUS
    <2>3. Records(bodies, "workflow", asked[c].op, v)
        BY <1>3, <2>1, <2>2 DEF RunSubmission
    <2>4. runs' \in 0..MaxRuns
        BY <1>3 DEF RunSubmission, FinanceInv, FinanceTypeOK
    <2>5. /\ bodies \in Seq(BookBodies) /\ Justified(bodies)
          /\ v = "prepared" =>
                /\ Len(bodies) >= 3
                /\ bodies[Len(bodies)]
                      = PipelineEnd(asked[c].op, asked[c].payment, "success", "prepared")
        BY <1>1, <2>1, <2>2, TrailJustified
    <2>6. v = "prepared" => ~Remembers(books, asked[c].op)
        BY <1>1, <2>1, VerdictMeans
    <2>7. v = "prepared" =>
              /\ Len(bodies) >= 1 /\ bodies[Len(bodies)].type = "completion"
              /\ bodies[Len(bodies)].status = "success"
              /\ bodies[Len(bodies)].op = Trim(asked[c].op)
        <3>1. Len(bodies) \in Nat
            BY <2>5, LenProperties
        <3> QED
            BY <2>5, <3>1 DEF PipelineEnd
    <2> QED
        BY <1>1, <2>3, <2>4, <2>5, <2>6, <2>7, RecordsKept
<1>4. ASSUME NEW c \in Submissions, AnswerFromRecord(c)
      PROVE  FinanceInv'
    <2>1. UNCHANGED <<runs, preparedAt>>
        BY <1>4 DEF AnswerFromRecord
    <2>2. \/ UNCHANGED books
          \/ books' = AppendedAll(books, <<Audit("execution_replayed", asked[c].payment)>>)
        <3> DEFINE r == kept[asked[c].key]
        <3>1. CASE SamePayload(c, r.by) /\ r.state = "completed"
            BY <1>4, <3>1 DEF AnswerFromRecord, Replays
        <3>2. CASE ~(SamePayload(c, r.by) /\ r.state = "completed")
            BY <1>4, <3>2 DEF AnswerFromRecord
        <3> QED
            BY <3>1, <3>2
    <2> QED
        BY <1>1, <1>2, <2>1, <2>2, ReplayKeeps DEF financeVars
<1>5. ASSUME NEW c \in Submissions, ResumeJoined(c)
      PROVE  FinanceInv'
    <2>1. UNCHANGED <<runs, preparedAt>>
        BY <1>5 DEF ResumeJoined
    <2>2. \/ UNCHANGED books
          \/ books' = AppendedAll(books, <<Audit("execution_replayed", asked[c].payment)>>)
        BY <1>5 DEF ResumeJoined, Replays
    <2> QED
        BY <1>1, <1>2, <2>1, <2>2, ReplayKeeps DEF financeVars
<1>6. ASSUME NEW c \in Submissions,
             SubmitLeads(c) \/ SubmitJoins(c) \/ MarkSubmission(c) \/ SettleSubmission(c)
      PROVE  FinanceInv'
    BY <1>2, <1>6
    DEF SubmitLeads, SubmitJoins, MarkSubmission, SettleSubmission, financeVars
<1>7. CASE LoseProcess
    <2>1. books' = [entries |-> <<>>, sequence |-> 0] /\ preparedAt' = <<>> /\ runs' = runs
        BY <1>7 DEF LoseProcess, EmptyLedger
    <2>2. MaxEntries \in Nat \ {0}
        BY LedgerAssumption
    <2>3. FinanceTypeOK'
        BY <2>1 DEF FinanceInv, FinanceTypeOK
    <2>4. Consecutive(books')
        BY <2>1, <2>2 DEF Consecutive, FinanceEntries
    <2> QED
        BY <2>1, <2>3, <2>4
        DEF FinanceInv, PreparationsKept, DedupeWindow, ApprovalPrecedesRun
<1>8. CASE UNCHANGED submissionVars
    BY <1>2, <1>8 DEF submissionVars, financeVars
<1> QED
    BY <1>3, <1>4, <1>5, <1>6, <1>7, <1>8 DEF SubmissionNext

\* Behind the keys, too, with replays added to the ledger and crashes that empty
\* it: within the life of a process a call with a key prepares under an operation
\* given without blanks only once the cap has dropped the completion of every
\* earlier preparation under it, and no run is there without the decisions it
\* follows from.
THEOREM LedgerKeptUnderKeys ==
    SubmissionSpec => [](FinanceTypeOK /\ DedupeWindow /\ ApprovalPrecedesRun)
<1>1. FinanceInit /\ SubmissionInit => FinanceInv /\ SubmissionInv
    BY FinanceInvInit, SubmissionInvInit
<1>2. FinanceInv /\ SubmissionInv /\ [SubmissionNext]_submissionVars
      => FinanceInv' /\ SubmissionInv'
    BY SubmissionStep, SubmissionKeepsLedger DEF SubmissionInv
<1>3. FinanceInv => FinanceTypeOK /\ DedupeWindow /\ ApprovalPrecedesRun
    BY DEF FinanceInv
<1> QED
    BY <1>1, <1>2, <1>3, PTL DEF SubmissionSpec
=============================================================================
