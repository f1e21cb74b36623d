---- MODULE DAG ----
(***************************************************************************)
(* The directed acyclic graph of kro/graph/dag/dag.go: a map of vertices   *)
(* that a client grows with AddVertex and AddDependencies and finally      *)
(* linearises with TopologicalSort.                                        *)
(*                                                                         *)
(* The client is any user of the exported API and may go on after an       *)
(* error.  The graph builder (kro/graph/builder.go) does not: it works     *)
(* only in states where clean is TRUE.                                     *)
(*                                                                         *)
(* TopologicalSort is Kahn's algorithm over a binary heap.  The heap is    *)
(* the set ready, whose minimum is what heap.Pop returns; the Go maps it   *)
(* ranges over in random order are sets.                                   *)
(***************************************************************************)
EXTENDS Digraphs

CONSTANTS Ids,          \* identifiers a client may use (cmp.Ordered: integers)
          OrderChoices, \* OrderChoices[id]: the Order values id may be given
          Requests      \* the dependency lists passed to AddDependencies

ASSUME DAGAssumption ==
    /\ Ids \subseteq Int
    /\ IsFiniteSet(Ids)
    /\ OrderChoices \in [Ids -> SUBSET Int]
    /\ Requests \subseteq Seq(Ids)

VARIABLES nodes,      \* the keys of d.Vertices
          order,      \* Vertex.Order
          dependsOn,  \* Vertex.DependsOn
          pc,         \* what the client is doing
          err,        \* the error of the last mutating call
          clean,      \* no mutating call has returned an error yet
          remaining,  \* remainingDeps of TopologicalSort
          ready,      \* its heap
          sorted      \* the order it has produced so far

vars == <<nodes, order, dependsOn, pc, err, clean, remaining, ready, sorted>>

sortVars == <<remaining, ready, sorted>>

Errors == {"exists", "unknown", "self", "cycle"}

Init ==
    /\ nodes = {}
    /\ order = [n \in Ids |-> 0]
    /\ dependsOn = [n \in Ids |-> {}]
    /\ pc = "build"
    /\ err = "none"
    /\ clean = TRUE
    /\ remaining = [n \in Ids |-> 0]
    /\ ready = {}
    /\ sorted = <<>>

----
(* hasCycle is a depth-first search, modelled step by step in CycleSearch; *)
(* here is what that module shows it to decide.                            *)

\* Mutant: only looks for two vertices that depend on each other.
hasCycleOfTwo(dep) ==
    \E a, b \in nodes : a \in dep[b] /\ b \in dep[a]

hasCycle(dep) == Cyclic(nodes, dep)

----

Fail(e) ==
    /\ err' = e
    /\ clean' = FALSE

Succeed ==
    /\ err' = "none"
    /\ UNCHANGED clean

AddVertex(id, o) ==
    /\ pc = "build"
    /\ IF id \in nodes
       THEN Fail("exists") /\ UNCHANGED <<nodes, order, dependsOn>>
       ELSE /\ Succeed
            /\ nodes' = nodes \cup {id}
            /\ order' = [order EXCEPT ![id] = o]
            /\ dependsOn' = [dependsOn EXCEPT ![id] = {}]
    /\ UNCHANGED <<pc, sortVars>>

(* The dependencies before the first one that is refused: the loop has     *)
(* already inserted their edges when it returns the error.                 *)
Accepted(from, deps) ==
    {deps[i] : i \in {j \in 1..Len(deps) :
                         \A k \in 1..j : deps[k] \in nodes /\ deps[k] # from}}

Refused(from, deps) ==
    \E i \in 1..Len(deps) :
        /\ deps[i] \notin nodes \/ deps[i] = from
        /\ \A k \in 1..(i - 1) : deps[k] \in nodes /\ deps[k] # from

RefusalReason(from, deps) ==
    LET i == CHOOSE j \in 1..Len(deps) :
                 /\ deps[j] \notin nodes \/ deps[j] = from
                 /\ \A k \in 1..(j - 1) : deps[k] \in nodes /\ deps[k] # from
    IN  IF deps[i] \notin nodes THEN "unknown" ELSE "self"

(* An edge refused half way leaves the edges before it behind, unchecked;  *)
(* a cycle removes every edge of the list, the ones that were there before *)
(* the call included.                                                      *)
AddDependencies(from, deps) ==
    LET added == [dependsOn EXCEPT ![from] = @ \cup Accepted(from, deps)] IN
    /\ pc = "build"
    /\ \/ /\ from \notin nodes
          /\ Fail("unknown")
          /\ UNCHANGED dependsOn
       \/ /\ from \in nodes
          /\ Refused(from, deps)
          /\ Fail(RefusalReason(from, deps))
          /\ dependsOn' = added
       \/ /\ from \in nodes
          /\ ~Refused(from, deps)
          /\ hasCycle(added)
          /\ Fail("cycle")
          /\ dependsOn' = [dependsOn EXCEPT ![from] = @ \ Elems(deps)]
       \/ /\ from \in nodes
          /\ ~Refused(from, deps)
          /\ ~hasCycle(added)
          /\ Succeed
          /\ dependsOn' = added
    /\ UNCHANGED <<nodes, order, pc, sortVars>>

----
(* TopologicalSort                                                         *)

\* Mutant: counts no dependencies.
StartSortUncounted ==
    /\ pc = "build"
    /\ pc' = "sort"
    /\ remaining' = [n \in Ids |-> 0]
    /\ ready' = {n \in nodes : Cardinality(dependsOn[n]) = 0}
    /\ sorted' = <<>>
    /\ UNCHANGED <<nodes, order, dependsOn, err, clean>>

StartSort ==
    /\ pc = "build"
    /\ pc' = "sort"
    /\ remaining' = [n \in Ids |-> Cardinality(dependsOn[n])]
    /\ ready' = {n \in nodes : Cardinality(dependsOn[n]) = 0}
    /\ sorted' = <<>>
    /\ UNCHANGED <<nodes, order, dependsOn, err, clean>>

\* Mutant: the heap ignores the order of the resource list.
LessById(a, b) == a < b

(* topoHeap.Less *)
Less(a, b) ==
    IF order[a] # order[b] THEN order[a] < order[b] ELSE a < b

\* Mutant: releases a dependent with one dependency still to come.
PopReadyTooEarly ==
    /\ pc = "sort"
    /\ \E current \in ready :
        /\ \A other \in ready \ {current} : Less(current, other)
        /\ sorted' = Append(sorted, current)
        /\ remaining' = [n \in Ids |-> IF current \in dependsOn[n]
                                       THEN remaining[n] - 1
                                       ELSE remaining[n]]
        /\ ready' = (ready \ {current})
                      \cup {n \in nodes : /\ current \in dependsOn[n]
                                          /\ remaining[n] - 1 <= 1}
    /\ UNCHANGED <<nodes, order, dependsOn, pc, err, clean>>

PopReady ==
    /\ pc = "sort"
    /\ \E current \in ready :
        /\ \A other \in ready \ {current} : Less(current, other)
        /\ sorted' = Append(sorted, current)
        /\ remaining' = [n \in Ids |-> IF current \in dependsOn[n]
                                       THEN remaining[n] - 1
                                       ELSE remaining[n]]
        /\ ready' = (ready \ {current})
                      \cup {n \in nodes : /\ current \in dependsOn[n]
                                          /\ remaining[n] - 1 = 0}
    /\ UNCHANGED <<nodes, order, dependsOn, pc, err, clean>>

\* Mutant: returns what it has instead of checking that it has everything.
FinishSortUnchecked ==
    /\ pc = "sort"
    /\ ready = {}
    /\ pc' = "sorted"
    /\ UNCHANGED <<nodes, order, dependsOn, err, clean, sortVars>>

FinishSort ==
    /\ pc = "sort"
    /\ ready = {}
    /\ pc' = IF Len(sorted) = Cardinality(nodes) THEN "sorted" ELSE "cycle"
    /\ UNCHANGED <<nodes, order, dependsOn, err, clean, sortVars>>

Next ==
    \/ \E id \in Ids : \E o \in OrderChoices[id] : AddVertex(id, o)
    \/ \E from \in Ids, deps \in Requests : AddDependencies(from, deps)
    \/ StartSort
    \/ PopReady
    \/ FinishSort

Spec == Init /\ [][Next]_vars

----
(* Properties                                                              *)

(* Type invariant of the graph and of the local state of TopologicalSort;  *)
(* a count of remaining dependencies never becomes negative.               *)
TypeOK ==
    /\ nodes \in SUBSET Ids
    /\ order \in [Ids -> Int]
    /\ dependsOn \in [Ids -> SUBSET Ids]
    /\ pc \in {"build", "sort", "sorted", "cycle"}
    /\ err \in Errors \cup {"none"}
    /\ clean \in BOOLEAN
    /\ remaining \in [Ids -> Nat]
    /\ ready \in SUBSET Ids
    /\ sorted \in Seq(Ids)

(* A client that has seen no error, as the builder, which gives up at the  *)
(* first one, holds an acyclic graph: AddDependencies checks every list it *)
(* accepts whole.  (A list refused half way leaves edges it did not check; *)
(* they are what the error of the call warns of.)                          *)
StaysAcyclic == clean => ~Cyclic(nodes, dependsOn)

(* TopologicalSort never places a vertex before one it depends on, at any  *)
(* point of its loop.                                                      *)
RespectsDependencies ==
    \A i \in 1..Len(sorted) :
        \A d \in dependsOn[sorted[i]] : \E j \in 1..(i - 1) : sorted[j] = d

(* TopologicalSort returns every vertex, once, when the graph has no cycle *)
(* and reports a cycle when it has one: the count of remaining             *)
(* dependencies never strands a vertex nor releases one twice.             *)
SortsExactlyTheAcyclic ==
    /\ pc = "sorted" => /\ ~Cyclic(nodes, dependsOn)
                        /\ Elems(sorted) = nodes
                        /\ \A i, j \in 1..Len(sorted) :
                               sorted[i] = sorted[j] => i = j
    /\ pc = "cycle" => Cyclic(nodes, dependsOn)

(* The inductive invariant behind the two properties above.  Edges join    *)
(* existing vertices; while sorting, the counters count exactly the        *)
(* dependencies that are not placed yet, the heap holds exactly the        *)
(* unplaced vertices with none left, and what is placed has no cycle.      *)
Sorting == pc \in {"sort", "sorted", "cycle"}

EdgesJoinVertices == \A n \in Ids : dependsOn[n] \subseteq nodes

CountsAreExact ==
    \A n \in Ids : remaining[n] = Cardinality(dependsOn[n] \ Elems(sorted))

HeapIsExact ==
    ready = {n \in nodes \ Elems(sorted) : dependsOn[n] \subseteq Elems(sorted)}

PlacedOnce ==
    /\ Elems(sorted) \subseteq nodes
    /\ Cardinality(Elems(sorted)) = Len(sorted)
    /\ \A i, j \in 1..Len(sorted) : sorted[i] = sorted[j] => i = j

SortInv ==
    /\ EdgesJoinVertices
    /\ ~Sorting => sorted = <<>>
    /\ Sorting => CountsAreExact /\ HeapIsExact
    /\ PlacedOnce
    /\ RespectsDependencies
    /\ ~Cyclic(Elems(sorted), dependsOn)
    /\ SortsExactlyTheAcyclic

(* The order is a function of the graph: although Go ranges over maps in   *)
(* random order, TopologicalSort returns the least of all the orders that  *)
(* respect the dependencies, comparing vertices by (Order, ID).            *)
Linearisations ==
    {p \in [1..Cardinality(nodes) -> nodes] :
        \A i, j \in DOMAIN p : (p[j] \in dependsOn[p[i]] => j < i)
                               /\ (p[i] = p[j] => i = j)}

Earlier(a, b) ==
    order[a] < order[b] \/ (order[a] = order[b] /\ a < b)

ReturnsLeastOrder ==
    pc = "sorted" =>
        \A p \in Linearisations :
            \/ \A i \in DOMAIN p : p[i] = sorted[i]
            \/ \E i \in DOMAIN p : /\ Earlier(sorted[i], p[i])
                                   /\ \A j \in 1..(i - 1) : p[j] = sorted[j]

====
