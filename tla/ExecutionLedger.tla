--------------------------- MODULE ExecutionLedger ---------------------------
(***************************************************************************)
(* src/src/execution-ledger.js as operators: a list of entries with ids    *)
(* from a sequence, capped at MaxEntries by dropping the oldest, which can *)
(* be exported and imported.  An entry is its id and its body; timestamps  *)
(* are left out.  The modules that keep a ledger have it as a variable.    *)
(***************************************************************************)
EXTENDS Integers, Sequences

CONSTANT MaxEntries \* maxEntries

\* The constructor replaces other values by 1000 (line 5).
ASSUME LedgerAssumption == MaxEntries \in Nat \ {0}

EmptyLedger == [entries |-> <<>>, sequence |-> 0]

\* Mutant of Retained: the newest entries are dropped.
RetainedOldest(s) ==
    IF Len(s) > MaxEntries THEN SubSeq(s, 1, MaxEntries) ELSE s

\* At most the last MaxEntries of s.
Retained(s) ==
    IF Len(s) > MaxEntries THEN SubSeq(s, Len(s) - MaxEntries + 1, Len(s)) ELSE s

\* append(): the entry gets the next id; beyond the cap the oldest entry goes.
Appended(l, body) ==
    [entries |-> Retained(Append(l.entries, [id |-> l.sequence + 1, body |-> body])),
     sequence |-> l.sequence + 1]

\* The id of the last entry, which is the largest; 0 when there is none.
Newest(entries) == IF entries = <<>> THEN 0 ELSE entries[Len(entries)].id

\* Mutant of Imported: the sequence is not taken from the records.
ImportedFromZero(records) == [entries |-> Retained(records), sequence |-> 0]

\* import() of the records export() wrote: the sequence starts over from the
\* largest id among the entries kept.
Imported(records) ==
    [entries |-> Retained(records), sequence |-> Newest(Retained(records))]

\* The ids grow along the list, so no two entries have the same, and the list is
\* within its cap.
Ordered(entries) ==
    /\ Len(entries) <= MaxEntries
    /\ \A i, j \in 1..Len(entries) : i < j => entries[i].id < entries[j].id
=============================================================================
