----------------------------- MODULE ApprovalStore -----------------------------
(***************************************************************************)
(* src/src/finance-approval-store.js: approval requests by their id, saved *)
(* with whatever status, resolved by reviewers, exported, imported and     *)
(* given to the constructor of the store of the next process.  All methods *)
(* are synchronous.  An id is a trimmed one: save() trims it, resolve()    *)
(* does not and finds nothing under a padded one.                          *)
(*                                                                         *)
(* A record has, as history, whether resolve() made it.                    *)
(***************************************************************************)
EXTENDS Integers, FiniteSets

CONSTANTS
    Requests,     \* ids of requests
    Reviewers,
    SavedRecords, \* what callers save and import: [status, reviewer]
    MaxChanges    \* bound on the records saved, imported and resolved

SavedStatuses == {"pending", "approved", "rejected", "other"}

ASSUME ApprovalAssumption ==
    /\ "none" \notin Reviewers
    /\ SavedRecords \subseteq [status : SavedStatuses, reviewer : Reviewers \cup {"none"}]
    /\ MaxChanges \in Nat

VARIABLES
    records,    \* records[r]: the record of a request
    exported,   \* what export() last returned
    decisions,  \* history: decisions[r]: how often r was resolved
    undone,     \* history: undone[r]: how often a record that resolve() made was
                \* replaced by one that it did not, less how often one came back
    changes

approvalVars == <<records, exported, decisions, undone, changes>>

NoRecord == [status |-> "none", reviewer |-> "none", resolved |-> FALSE]
Decided(record) == record.status \in {"approved", "rejected"}
NotOnce == [r \in Requests |-> 0]
NoRecords == [r \in Requests |-> NoRecord]

ApprovalInit ==
    /\ records = NoRecords /\ exported = NoRecords
    /\ decisions = NotOnce /\ undone = NotOnce /\ changes = 0

Shown(record) == IF record.resolved THEN 1 ELSE 0

Changed(newRecords) ==
    /\ changes < MaxChanges /\ changes' = changes + 1
    /\ records' = newRecords

\* Records put in the place of others, by other methods than resolve().
PutInPlace(newRecords) ==
    /\ Changed(newRecords)
    /\ undone' = [r \in Requests |-> undone[r] + Shown(records[r]) - Shown(newRecords[r])]
    /\ UNCHANGED <<exported, decisions>>

\* save(), import() and the constructor, given a record with any status, decided
\* ones without a reviewer among them; what is there under its id does not matter.
SaveRequest(r, record) ==
    PutInPlace([records EXCEPT ![r] = [status |-> record.status, reviewer |-> record.reviewer,
                                     resolved |-> FALSE]])

\* Mutant of MayResolve: a decision can be revised.
MayResolveAny(r) == records[r] # NoRecord

MayResolve(r) == records[r].status = "pending"

ResolveRequest(r, decision, reviewer) ==
    /\ MayResolve(r)
    /\ Changed([records EXCEPT ![r] = [status |-> decision, reviewer |-> reviewer,
                                       resolved |-> TRUE]])
    /\ decisions' = [decisions EXCEPT ![r] = @ + 1]
    /\ UNCHANGED <<exported, undone>>

ExportRecords ==
    /\ exported # records /\ exported' = records
    /\ UNCHANGED <<records, decisions, undone, changes>>

Merged(old) == [r \in Requests |-> IF old[r] = NoRecord THEN records[r] ELSE old[r]]

\* import() of an export, which may be older than the store.
ImportRecords == PutInPlace(Merged(exported))

\* The next process starts with the export.
RestartStore == PutInPlace(exported)

ApprovalNext ==
    \/ \E r \in Requests :
          \/ \E record \in SavedRecords : SaveRequest(r, record)
          \/ \E d \in {"approved", "rejected"}, v \in Reviewers : ResolveRequest(r, d, v)
    \/ ExportRecords \/ ImportRecords \/ RestartStore

ApprovalSpec == ApprovalInit /\ [][ApprovalNext]_approvalVars
-----------------------------------------------------------------------------
(* Properties. *)

ApprovalRecords ==
    [status : {"none"} \cup SavedStatuses, reviewer : Reviewers \cup {"none"}, resolved : BOOLEAN]

\* Every variable holds values the code can give it.
ApprovalTypeOK ==
    /\ records \in [Requests -> ApprovalRecords] /\ exported \in [Requests -> ApprovalRecords]
    /\ decisions \in [Requests -> Nat] /\ undone \in [Requests -> Int]
    /\ changes \in 0..MaxChanges

\* "Approval store rejects duplicate resolution" (finance-approval-store.test.js
\* line 23), across saves, imports and restarts: of the decisions taken by
\* resolve() the record shows at most one, and each of the others was undone by a
\* record that was saved, imported or started with in its place.  A decision of
\* resolve() names its reviewer wherever its record goes, although a record may be
\* saved as decided without one.
DecidedOnce ==
    \A r \in Requests :
        /\ decisions[r] = undone[r] + Shown(records[r])
        /\ \A record \in {records[r], exported[r]} :
              record.resolved => Decided(record) /\ record.reviewer \in Reviewers
=============================================================================
