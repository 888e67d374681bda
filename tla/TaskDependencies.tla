--------------------------- MODULE TaskDependencies ---------------------------
(***************************************************************************)
(* src/src/task-dependencies.js: detectCycles() and topologicalOrder() on  *)
(* a map from tasks to their parents, one pass of their loops at a time,   *)
(* and then a caller that completes tasks as dependencyStatus() says they  *)
(* are ready.  Tasks are numbers, in the order of their names and of the   *)
(* map's keys.                                                             *)
(***************************************************************************)
EXTENDS Integers, Sequences, FiniteSets

CONSTANTS
    TaskIds,   \* a finite set of numbers
    Maps       \* the dependency maps considered

\* A task that is no key of the map has no list of parents.
NoKey == <<-1>>

\* A list holds a parent once, as normalizeDependencyMap() leaves it.
ASSUME DependencyAssumption ==
    /\ IsFiniteSet(TaskIds) /\ TaskIds \subseteq Nat
    /\ \A m \in Maps :
          /\ DOMAIN m = TaskIds
          /\ \A t \in TaskIds :
                m[t] # NoKey =>
                    /\ m[t] \in Seq(TaskIds)
                    /\ \A i, j \in 1..Len(m[t]) : m[t][i] = m[t][j] => i = j

VARIABLES
    deps,       \* the map
    stage,      \* "search", "sort", or "answered"
    roots,      \* the keys the search has yet to start from
    path,       \* the tasks whose visits are under way, each a parent of the one before
    tried,      \* how many parents of each of them have been tried
    visited,    \* the tasks the search is done with
    cycles,     \* the cycles it has found
    order,      \* the tasks put in order so far
    indegree,   \* how many parents of a task are not in order yet
    ready,      \* the tasks that may come next
    completed   \* the tasks the caller has completed

searchVars == <<roots, path, tried, visited, cycles>>
sortVars == <<order, indegree, ready>>
dependencyVars == <<deps, stage, searchVars, sortVars, completed>>

ParentsOf(t) == IF deps[t] = NoKey THEN <<>> ELSE deps[t]
ParentSet(t) == {ParentsOf(t)[i] : i \in 1..Len(ParentsOf(t))}
Keys == {t \in TaskIds : deps[t] # NoKey}
Nodes == Keys \cup UNION {ParentSet(t) : t \in Keys}
Children(t) == {c \in Keys : t \in ParentSet(c)}

Lowest(S) == CHOOSE t \in S : \A u \in S : t <= u

DependencyInit ==
    /\ deps \in Maps /\ stage = "search"
    /\ roots = Keys /\ path = <<>> /\ tried = <<>> /\ visited = {} /\ cycles = <<>>
    /\ order = <<>> /\ indegree = [t \in TaskIds |-> 0] /\ ready = {}
    /\ completed = {}
-----------------------------------------------------------------------------
(* detectCycles(), depth first. *)

StartFrom ==
    /\ stage = "search" /\ path = <<>> /\ roots # {}
    /\ roots' = roots \ {Lowest(roots)}
    /\ IF Lowest(roots) \in visited THEN UNCHANGED <<path, tried>>
       ELSE path' = <<Lowest(roots)>> /\ tried' = <<0>>
    /\ UNCHANGED <<deps, stage, visited, cycles, sortVars, completed>>

\* The parent that the visit under way tries next, and where it is on the path.
Untried == tried[Len(path)] < Len(ParentsOf(path[Len(path)]))
NextParent == ParentsOf(path[Len(path)])[tried[Len(path)] + 1]
Tried == [tried EXCEPT ![Len(path)] = @ + 1]
PlacesOf(t) == {i \in 1..Len(path) : path[i] = t}

\* visit() of a task that is being visited.
FindCycle ==
    /\ stage = "search" /\ path # <<>> /\ Untried /\ PlacesOf(NextParent) # {}
    /\ cycles' = Append(cycles,
                        SubSeq(path, Lowest(PlacesOf(NextParent)), Len(path))
                            \o <<NextParent, NextParent>>)
    /\ tried' = Tried
    /\ UNCHANGED <<deps, stage, roots, path, visited, sortVars, completed>>

SkipVisited ==
    /\ stage = "search" /\ path # <<>> /\ Untried
    /\ PlacesOf(NextParent) = {} /\ NextParent \in visited
    /\ tried' = Tried
    /\ UNCHANGED <<deps, stage, roots, path, visited, cycles, sortVars, completed>>

Descend ==
    /\ stage = "search" /\ path # <<>> /\ Untried
    /\ PlacesOf(NextParent) = {} /\ NextParent \notin visited
    /\ path' = Append(path, NextParent) /\ tried' = Append(Tried, 0)
    /\ UNCHANGED <<deps, stage, roots, visited, cycles, sortVars, completed>>

Leave ==
    /\ stage = "search" /\ path # <<>> /\ ~Untried
    /\ visited' = visited \cup {path[Len(path)]}
    /\ path' = SubSeq(path, 1, Len(path) - 1) /\ tried' = SubSeq(tried, 1, Len(path) - 1)
    /\ UNCHANGED <<deps, stage, roots, cycles, sortVars, completed>>
-----------------------------------------------------------------------------
(* topologicalOrder(), which throws when there is a cycle. *)

Throw ==
    /\ stage = "search" /\ path = <<>> /\ roots = {} /\ cycles # <<>>
    /\ stage' = "answered"
    /\ UNCHANGED <<deps, searchVars, sortVars, completed>>

StartSort ==
    /\ stage = "search" /\ path = <<>> /\ roots = {} /\ cycles = <<>>
    /\ stage' = "sort"
    /\ indegree' = [t \in TaskIds |-> Len(ParentsOf(t))]
    /\ ready' = {t \in Nodes : ParentsOf(t) = <<>>}
    /\ UNCHANGED <<deps, searchVars, order, completed>>

\* Mutant of Released: without the check that no other parent is missing.
ReleasedEarly(t) == Children(t)

\* The children of a task whose last parent it was.
Released(t) == {c \in Children(t) : indegree[c] = 1}

TakeNext ==
    /\ stage = "sort" /\ ready # {}
    /\ LET node == Lowest(ready) IN
       /\ order' = Append(order, node)
       /\ indegree' = [t \in TaskIds |-> indegree[t] - (IF t \in Children(node) THEN 1 ELSE 0)]
       /\ ready' = (ready \ {node}) \cup Released(node)
    /\ UNCHANGED <<deps, stage, searchVars, completed>>

EndSort ==
    /\ stage = "sort" /\ ready = {}
    /\ stage' = "answered"
    /\ UNCHANGED <<deps, searchVars, sortVars, completed>>
-----------------------------------------------------------------------------
(* dependencyStatus() and its caller. *)

Ready(t) == ParentSet(t) \subseteq completed

Complete(t) ==
    /\ stage = "answered" /\ t \in Nodes \ completed /\ Ready(t)
    /\ completed' = completed \cup {t}
    /\ UNCHANGED <<deps, stage, searchVars, sortVars>>

DependencyNext ==
    \/ StartFrom \/ FindCycle \/ SkipVisited \/ Descend \/ Leave
    \/ Throw \/ StartSort \/ TakeNext \/ EndSort
    \/ \E t \in TaskIds : Complete(t)

DependencySpec == DependencyInit /\ [][DependencyNext]_dependencyVars
-----------------------------------------------------------------------------
(* Properties. *)

DependencyTypeOK ==
    /\ deps \in Maps /\ stage \in {"search", "sort", "answered"}
    /\ roots \subseteq Keys /\ visited \subseteq Nodes
    /\ path \in Seq(Nodes) /\ tried \in Seq(Nat) /\ Len(tried) = Len(path)
    /\ cycles \in Seq(Seq(Nodes))
    /\ order \in Seq(Nodes) /\ indegree \in [TaskIds -> Nat] /\ ready \subseteq Nodes
    /\ completed \subseteq Nodes

\* The tasks of a knot all wait for one another: going from parent to parent one
\* can stay in it for ever, so a finite graph has a cycle exactly when it has one.
IsKnot(S) == S # {} /\ \A t \in S : ParentSet(t) \cap S # {}
Knots == {S \in SUBSET Nodes : IsKnot(S)}

\* A sequence that goes from task to parent and back to where it began.
ClosedWalk(c) ==
    /\ Len(c) > 1 /\ c[1] = c[Len(c)]
    /\ \A i \in 1..(Len(c) - 1) : c[i + 1] \in ParentSet(c[i])

\* detectCycles() reports a cycle exactly when there is one, and each one it
\* reports, without its last task, goes from task to parent and back to where it
\* began (lines 17-36; the last task is written down twice).
CyclesAreFound ==
    /\ stage # "search" => (cycles = <<>> <=> Knots = {})
    /\ \A i \in 1..Len(cycles) : ClosedWalk(SubSeq(cycles[i], 1, Len(cycles[i]) - 1))

Before(i) == {order[j] : j \in 1..(i - 1)}

\* Without a cycle topologicalOrder() has every task once and each after its
\* parents, and of the tasks that could come next always the first by name
\* (lines 38-65).
OrderIsTopological ==
    /\ stage = "answered" /\ Knots = {} => Len(order) = Cardinality(Nodes)
    /\ \A i \in 1..Len(order) :
          order[i] = Lowest({t \in Nodes \ Before(i) : ParentSet(t) \subseteq Before(i)})

\* The two agree with the third: what the caller of dependencyStatus() completed
\* was completed after its parents, and it is stuck only with the tasks that are
\* on a cycle or behind one (lines 68-77).
StuckOnlyByCycles ==
    /\ \A t \in completed : ParentSet(t) \subseteq completed
    /\ (\A t \in Nodes \ completed : ~Ready(t)) => Nodes \ completed = UNION Knots

\* The three functions answer for the same graph.
DependenciesSound == CyclesAreFound /\ OrderIsTopological /\ StuckOnlyByCycles
=============================================================================
