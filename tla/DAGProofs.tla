---- MODULE DAGProofs ----
(***************************************************************************)
(* Proofs about DAG: the type invariant, that TopologicalSort respects the *)
(* dependencies, succeeds exactly on acyclic graphs and returns the least  *)
(* order there is, and that a client that has seen no error never holds a  *)
(* cyclic graph.                                                           *)
(***************************************************************************)
EXTENDS DAG, FiniteSetTheorems, TLAPS

(* Appending to a sequence adds one element to its set of elements.        *)
LEMMA ElemsAppend ==
    ASSUME NEW S, NEW s \in Seq(S), NEW x \in S
    PROVE  /\ Elems(Append(s, x)) = Elems(s) \cup {x}
           /\ Append(s, x) \in Seq(S)
           /\ Len(Append(s, x)) = Len(s) + 1
           /\ \A i \in 1..Len(s) : Append(s, x)[i] = s[i]
           /\ Append(s, x)[Len(s) + 1] = x
<1>1. /\ Append(s, x) \in Seq(S)
      /\ Len(Append(s, x)) = Len(s) + 1
      /\ \A i \in 1..Len(s) : Append(s, x)[i] = s[i]
      /\ Append(s, x)[Len(s) + 1] = x
      /\ Len(s) \in Nat
  OBVIOUS
<1>2. Elems(Append(s, x)) = Elems(s) \cup {x}
  BY <1>1 DEF Elems
<1> QED
  BY <1>1, <1>2

(* The empty sequence has no elements.                                     *)
LEMMA ElemsEmpty == Elems(<<>>) = {}
  BY DEF Elems

(* Every set of identifiers is finite.                                     *)
LEMMA FiniteIds ==
    ASSUME NEW T \in SUBSET Ids
    PROVE  IsFiniteSet(T) /\ Cardinality(T) \in Nat
  BY DAGAssumption, FS_Subset, FS_CardinalityType

(* What has been placed is closed under dependencies.                      *)
LEMMA PlacedClosed ==
    ASSUME RespectsDependencies, sorted \in Seq(Ids), NEW n \in Elems(sorted)
    PROVE  dependsOn[n] \subseteq Elems(sorted)
<1> SUFFICES ASSUME NEW d \in dependsOn[n]
             PROVE  d \in Elems(sorted)
  OBVIOUS
<1>1. PICK i \in 1..Len(sorted) : sorted[i] = n
  BY DEF Elems
<1>2. PICK j \in 1..(i - 1) : sorted[j] = d
  BY <1>1 DEF RespectsDependencies
<1>3. j \in 1..Len(sorted)
  BY <1>1, <1>2
<1> QED
  BY <1>2, <1>3 DEF Elems

(* Adding a vertex whose dependencies are all placed to an acyclic set of  *)
(* vertices closed under dependencies leaves it acyclic.                   *)
LEMMA AcyclicExtension ==
    ASSUME NEW P, NEW dep, NEW x,
           ~Cyclic(P, dep), x \notin P, dep[x] \subseteq P,
           \A n \in P : dep[n] \subseteq P
    PROVE  ~Cyclic(P \cup {x}, dep)
<1> SUFFICES ASSUME NEW S \in SUBSET (P \cup {x}), S # {},
                    \A n \in S : dep[n] \cap S # {}
             PROVE  FALSE
  BY DEF Cyclic
<1>1. S \ {x} # {}
  OBVIOUS
<1>2. \A n \in S \ {x} : dep[n] \cap (S \ {x}) # {}
  OBVIOUS
<1>3. S \ {x} \in SUBSET P
  OBVIOUS
<1> QED
  BY <1>1, <1>2, <1>3 DEF Cyclic

----

(* TypeOK and SortInv hold initially.                                      *)
LEMMA InitInv == Init => TypeOK /\ SortInv
<1> SUFFICES ASSUME Init PROVE TypeOK /\ SortInv
  OBVIOUS
<1>1. /\ nodes = {} /\ order = [n \in Ids |-> 0] /\ dependsOn = [n \in Ids |-> {}]
      /\ pc = "build" /\ err = "none" /\ sorted = <<>> /\ ready = {}
      /\ remaining = [n \in Ids |-> 0]
  BY DEF Init
<1>2. TypeOK
  <2>1. clean \in BOOLEAN
    BY DEF Init
  <2> QED
    BY <1>1, <2>1 DEF TypeOK, Errors
<1>3. SortInv
  <2>1. EdgesJoinVertices /\ ~Sorting /\ SortsExactlyTheAcyclic
    BY <1>1 DEF EdgesJoinVertices, Sorting, SortsExactlyTheAcyclic
  <2>2. PlacedOnce /\ RespectsDependencies
    BY <1>1, ElemsEmpty, FS_EmptySet DEF PlacedOnce, RespectsDependencies
  <2>3. ~Cyclic(Elems(sorted), dependsOn)
    BY <1>1, ElemsEmpty DEF Cyclic
  <2> QED
    BY <1>1, <2>1, <2>2, <2>3 DEF SortInv
<1> QED
  BY <1>2, <1>3

(* Growing the graph leaves the sort untouched.                            *)
LEMMA BuildInv ==
    ASSUME TypeOK, SortInv, pc = "build",
           nodes' \in SUBSET Ids, order' \in [Ids -> Int],
           dependsOn' \in [Ids -> SUBSET Ids],
           pc' = pc, err' \in Errors \cup {"none"}, clean' \in BOOLEAN,
           EdgesJoinVertices', UNCHANGED sortVars
    PROVE  TypeOK' /\ SortInv'
<1>1. TypeOK'
  BY DEF TypeOK, sortVars
<1>2. sorted = <<>> /\ sorted' = <<>>
  BY DEF SortInv, Sorting, sortVars
<1>3. SortInv'
  BY <1>2, ElemsEmpty, FS_EmptySet
     DEF SortInv, Sorting, PlacedOnce, RespectsDependencies, Cyclic,
         SortsExactlyTheAcyclic
<1> QED
  BY <1>1, <1>3

(* AddVertex preserves the invariant.                                      *)
LEMMA AddVertexInv ==
    ASSUME TypeOK, SortInv, NEW id \in Ids, NEW o \in OrderChoices[id],
           AddVertex(id, o)
    PROVE  TypeOK' /\ SortInv'
<1>1. pc = "build" /\ UNCHANGED <<pc, sortVars>>
  BY DEF AddVertex
<1>2. o \in Int
  BY DAGAssumption
<1>3. /\ nodes' \in SUBSET Ids /\ order' \in [Ids -> Int]
      /\ dependsOn' \in [Ids -> SUBSET Ids]
      /\ err' \in Errors \cup {"none"} /\ clean' \in BOOLEAN
  BY <1>1, <1>2 DEF AddVertex, Fail, Succeed, TypeOK, Errors
<1>4. EdgesJoinVertices'
  BY <1>1 DEF AddVertex, EdgesJoinVertices, SortInv, TypeOK
<1> QED
  BY <1>1, <1>3, <1>4, BuildInv

(* AddDependencies preserves the invariant, whichever way it ends.         *)
LEMMA AddDependenciesInv ==
    ASSUME TypeOK, SortInv, NEW from \in Ids, NEW deps \in Requests,
           AddDependencies(from, deps)
    PROVE  TypeOK' /\ SortInv'
<1>1. /\ pc = "build" /\ UNCHANGED <<pc, sortVars>>
      /\ nodes' = nodes /\ order' = order
  BY DEF AddDependencies
<1>2. Accepted(from, deps) \subseteq nodes
<2> SUFFICES ASSUME NEW j \in 1..Len(deps),
                    \A k \in 1..j : deps[k] \in nodes /\ deps[k] # from
             PROVE  deps[j] \in nodes
  BY DEF Accepted
<2> j \in 1..j
  OBVIOUS
<2> QED
  OBVIOUS
<1>3. /\ err' \in Errors \cup {"none"} /\ clean' \in BOOLEAN
      /\ \/ dependsOn' = dependsOn
         \/ dependsOn' = [dependsOn EXCEPT ![from] = @ \cup Accepted(from, deps)]
         \/ dependsOn' = [dependsOn EXCEPT ![from] = @ \ Elems(deps)]
  BY <1>1 DEF AddDependencies, Fail, Succeed, RefusalReason, Errors, TypeOK
<1>4. dependsOn' \in [Ids -> SUBSET Ids]
  BY <1>2, <1>3 DEF TypeOK
<1>5. EdgesJoinVertices'
  BY <1>1, <1>2, <1>3 DEF EdgesJoinVertices, SortInv, TypeOK
<1> QED
  BY <1>1, <1>3, <1>4, <1>5, BuildInv DEF TypeOK

(* The initialisation of TopologicalSort establishes exact counters and an *)
(* exact heap.                                                             *)
LEMMA StartSortInv ==
    ASSUME TypeOK, SortInv, StartSort
    PROVE  TypeOK' /\ SortInv'
<1>1. sorted' = <<>> /\ UNCHANGED <<nodes, order, dependsOn, err, clean>> /\ pc' = "sort"
  BY DEF StartSort
<1>2. \A n \in Ids : IsFiniteSet(dependsOn[n]) /\ Cardinality(dependsOn[n]) \in Nat
  BY FiniteIds DEF TypeOK
<1>3. TypeOK'
  BY <1>1, <1>2 DEF StartSort, TypeOK
<1>4. CountsAreExact'
  BY <1>1, ElemsEmpty DEF StartSort, CountsAreExact
<1>5. \A n \in Ids : Cardinality(dependsOn[n]) = 0 <=> dependsOn[n] = {}
  BY <1>2, FS_EmptySet
<1>6. HeapIsExact'
  BY <1>1, <1>5, ElemsEmpty DEF StartSort, HeapIsExact, TypeOK
<1>7. PlacedOnce' /\ RespectsDependencies' /\ ~Cyclic(Elems(sorted), dependsOn)'
  BY <1>1, ElemsEmpty, FS_EmptySet DEF PlacedOnce, RespectsDependencies, Cyclic
<1>8. EdgesJoinVertices' /\ SortsExactlyTheAcyclic' /\ (~Sorting => sorted = <<>>)'
  BY <1>1 DEF SortInv, EdgesJoinVertices, SortsExactlyTheAcyclic
<1> QED
  BY <1>3, <1>4, <1>6, <1>7, <1>8 DEF SortInv

(* One iteration of the loop of TopologicalSort.                           *)
LEMMA PopReadyInv ==
    ASSUME TypeOK, SortInv, PopReady
    PROVE  TypeOK' /\ SortInv'
<1> PICK current \in ready :
        /\ sorted' = Append(sorted, current)
        /\ remaining' = [n \in Ids |-> IF current \in dependsOn[n]
                                       THEN remaining[n] - 1
                                       ELSE remaining[n]]
        /\ ready' = (ready \ {current})
                      \cup {n \in nodes : /\ current \in dependsOn[n]
                                          /\ remaining[n] - 1 = 0}
  BY DEF PopReady
<1> DEFINE P == Elems(sorted)
<1>1. UNCHANGED <<nodes, order, dependsOn, pc, err, clean>> /\ pc = "sort"
  BY DEF PopReady
<1>2. CountsAreExact /\ HeapIsExact /\ EdgesJoinVertices /\ PlacedOnce
  BY <1>1 DEF SortInv, Sorting
<1>3. /\ current \in nodes /\ current \in Ids /\ current \notin P
      /\ dependsOn[current] \subseteq P
  BY <1>2 DEF HeapIsExact, TypeOK
<1>4. /\ P' = P \cup {current} /\ sorted' \in Seq(Ids)
      /\ Len(sorted') = Len(sorted) + 1 /\ Len(sorted) \in Nat
      /\ \A i \in 1..Len(sorted) : sorted'[i] = sorted[i]
      /\ sorted'[Len(sorted) + 1] = current
  BY <1>3, ElemsAppend DEF TypeOK
<1>5. ASSUME NEW n \in Ids
      PROVE  remaining'[n] = Cardinality(dependsOn[n] \ P') /\ remaining'[n] \in Nat
  <2>1. /\ IsFiniteSet(dependsOn[n] \ P) /\ Cardinality(dependsOn[n] \ P) \in Nat
        /\ IsFiniteSet(dependsOn[n] \ P') /\ Cardinality(dependsOn[n] \ P') \in Nat
    BY FiniteIds DEF TypeOK
  <2>2. dependsOn[n] \ P' = (dependsOn[n] \ P) \ {current}
    BY <1>4
  <2>3. Cardinality(dependsOn[n] \ P') =
            IF current \in dependsOn[n] \ P
            THEN Cardinality(dependsOn[n] \ P) - 1
            ELSE Cardinality(dependsOn[n] \ P)
    <3> DEFINE S == dependsOn[n] \ P
    <3>1. Cardinality(S \ {current}) =
              IF current \in S THEN Cardinality(S) - 1 ELSE Cardinality(S)
      <4>1. IsFiniteSet(S)
        BY <2>1
      <4> HIDE DEF S
      <4> QED
        BY <4>1, FS_RemoveElement
    <3> QED
      BY <2>2, <3>1
  <2>4. remaining[n] = Cardinality(dependsOn[n] \ P)
    BY <1>2 DEF CountsAreExact
  <2> QED
    BY <1>3, <2>1, <2>3, <2>4
<1>6. TypeOK'
  BY <1>1, <1>4, <1>5 DEF TypeOK
<1>7. CountsAreExact'
  BY <1>1, <1>5 DEF CountsAreExact
<1>8. \A n \in Ids : remaining'[n] = 0 <=> dependsOn[n] \subseteq P'
  <2> SUFFICES ASSUME NEW n \in Ids
               PROVE  remaining'[n] = 0 <=> dependsOn[n] \subseteq P'
    OBVIOUS
  <2>1. IsFiniteSet(dependsOn[n] \ P')
    BY FiniteIds DEF TypeOK
  <2>2. Cardinality(dependsOn[n] \ P') = 0 <=> dependsOn[n] \ P' = {}
    BY <2>1, FS_EmptySet
  <2> QED
    BY <1>5, <2>2
<1>9. HeapIsExact'
  <2>1. ready' = {n \in nodes \ P' : dependsOn[n] \subseteq P'}
    <3>1. ASSUME NEW n \in ready'
          PROVE  n \in nodes \ P' /\ dependsOn[n] \subseteq P'
      <4>1. CASE n \in ready \ {current}
        BY <4>1, <1>2, <1>4 DEF HeapIsExact
      <4>2. CASE n \in nodes /\ current \in dependsOn[n] /\ remaining[n] - 1 = 0
        <5>1. n \in Ids /\ remaining'[n] = 0
          BY <4>2 DEF TypeOK
        <5>2. dependsOn[n] \subseteq P'
          BY <5>1, <1>8
        <5>3. n \notin P
          <6> SUFFICES ASSUME n \in P PROVE FALSE
            OBVIOUS
          <6>1. dependsOn[n] \subseteq P
            BY PlacedClosed DEF SortInv, TypeOK
          <6> QED
            BY <4>2, <6>1, <1>3
        <5>4. n # current
          BY <4>2, <1>3
        <5> QED
          BY <4>2, <5>2, <5>3, <5>4, <1>4
      <4> QED
        BY <4>1, <4>2
    <3>2. ASSUME NEW n \in nodes \ P', dependsOn[n] \subseteq P'
          PROVE  n \in ready'
      <4>1. n \in Ids /\ n \notin P /\ n # current
        BY <1>4 DEF TypeOK
      <4>2. CASE current \in dependsOn[n]
        <5>1. remaining'[n] = 0 /\ remaining'[n] = remaining[n] - 1
          BY <4>1, <4>2, <3>2, <1>8
        <5> QED
          BY <4>2, <5>1
      <4>3. CASE current \notin dependsOn[n]
        BY <4>1, <4>3, <3>2, <1>2, <1>4 DEF HeapIsExact
      <4> QED
        BY <4>2, <4>3
    <3> QED
      BY <3>1, <3>2
  <2> QED
    BY <1>1, <2>1 DEF HeapIsExact
<1>10. PlacedOnce'
  <2>1. P' \subseteq nodes'
    BY <1>1, <1>2, <1>3, <1>4 DEF PlacedOnce
  <2>2. IsFiniteSet(P)
    BY <1>2, FiniteIds DEF PlacedOnce, TypeOK
  <2>3. Cardinality(P') = Len(sorted')
    <3>1. Cardinality(P \cup {current}) = Cardinality(P) + 1
      <4>1. IsFiniteSet(P) /\ current \notin P
        BY <1>3, <2>2
      <4> HIDE DEF P
      <4> QED
        BY <4>1, FS_AddElement
    <3> QED
      BY <1>2, <1>4, <3>1 DEF PlacedOnce
  <2>4. \A i \in 1..Len(sorted) : sorted[i] # current
    BY <1>3 DEF Elems
  <2>5. \A i, j \in 1..Len(sorted') : sorted'[i] = sorted'[j] => i = j
    BY <1>2, <1>4, <2>4 DEF PlacedOnce
  <2> QED
    BY <2>1, <2>3, <2>5 DEF PlacedOnce
<1>11. RespectsDependencies'
  <2> SUFFICES ASSUME NEW i \in 1..Len(sorted'), NEW d \in dependsOn[sorted'[i]]
               PROVE  \E j \in 1..(i - 1) : sorted'[j] = d
    BY <1>1 DEF RespectsDependencies
  <2>1. CASE i \in 1..Len(sorted)
    <3>1. PICK j \in 1..(i - 1) : sorted[j] = d
      BY <2>1, <1>4 DEF SortInv, RespectsDependencies
    <3> QED
      BY <2>1, <3>1, <1>4
  <2>2. CASE i = Len(sorted) + 1
    <3>1. d \in P
      BY <2>2, <1>3, <1>4
    <3>2. PICK j \in 1..Len(sorted) : sorted[j] = d
      BY <3>1 DEF Elems
    <3> QED
      BY <2>2, <3>2, <1>4
  <2> QED
    BY <2>1, <2>2, <1>4
<1>12. ~Cyclic(P, dependsOn)'
  <2>1. \A n \in P : dependsOn[n] \subseteq P
    BY PlacedClosed DEF SortInv, TypeOK
  <2>2. ~Cyclic(P, dependsOn)
    BY DEF SortInv
  <2>3. ~Cyclic(P \cup {current}, dependsOn)
    BY <1>3, <2>1, <2>2, AcyclicExtension
  <2> QED
    BY <1>1, <1>4, <2>3
<1>13. EdgesJoinVertices' /\ SortsExactlyTheAcyclic'
  BY <1>1, <1>2 DEF EdgesJoinVertices, SortsExactlyTheAcyclic
<1> QED
  BY <1>1, <1>6, <1>7, <1>9, <1>10, <1>11, <1>12, <1>13 DEF SortInv, Sorting

(* When the heap is empty, either everything is placed or what is left     *)
(* contains a cycle.                                                       *)
LEMMA FinishSortInv ==
    ASSUME TypeOK, SortInv, FinishSort
    PROVE  TypeOK' /\ SortInv'
<1> DEFINE P == Elems(sorted)
<1>1. /\ UNCHANGED <<nodes, order, dependsOn, err, clean, remaining, ready, sorted>>
      /\ pc = "sort" /\ pc' \in {"sorted", "cycle"} /\ ready = {}
      /\ pc' = "sorted" <=> Len(sorted) = Cardinality(nodes)
  BY DEF FinishSort, sortVars
<1>2. CountsAreExact /\ HeapIsExact /\ EdgesJoinVertices /\ PlacedOnce
  BY <1>1 DEF SortInv, Sorting
<1>3. IsFiniteSet(nodes) /\ P \in SUBSET nodes
  BY <1>2, FiniteIds DEF TypeOK, PlacedOnce
<1>4. Len(sorted) = Cardinality(nodes) => P = nodes
  BY <1>2, <1>3, FS_Subset DEF PlacedOnce
<1>5. P = nodes => Len(sorted) = Cardinality(nodes)
  BY <1>2 DEF PlacedOnce
<1>6. P # nodes => Cyclic(nodes, dependsOn)
  <2> SUFFICES ASSUME P # nodes PROVE Cyclic(nodes, dependsOn)
    OBVIOUS
  <2> DEFINE S == nodes \ P
  <2>1. S \in SUBSET nodes /\ S # {}
    BY <1>3
  <2>2. \A n \in S : dependsOn[n] \cap S # {}
    BY <1>1, <1>2 DEF HeapIsExact, EdgesJoinVertices, TypeOK
  <2> QED
    BY <2>1, <2>2 DEF Cyclic
<1>7. SortsExactlyTheAcyclic'
  <2>1. pc' = "sorted" => ~Cyclic(nodes, dependsOn) /\ P = nodes
    BY <1>1, <1>4 DEF SortInv
  <2>2. pc' = "cycle" => Cyclic(nodes, dependsOn)
    BY <1>1, <1>5, <1>6
  <2> QED
    BY <1>1, <1>2, <2>1, <2>2 DEF SortsExactlyTheAcyclic, PlacedOnce
<1>8. TypeOK'
  BY <1>1 DEF TypeOK
<1>9. /\ EdgesJoinVertices' /\ CountsAreExact' /\ HeapIsExact' /\ PlacedOnce'
      /\ RespectsDependencies' /\ ~Cyclic(Elems(sorted), dependsOn)'
  BY <1>1, <1>2 DEF SortInv, EdgesJoinVertices, CountsAreExact, HeapIsExact,
                    PlacedOnce, RespectsDependencies
<1> QED
  BY <1>1, <1>7, <1>8, <1>9 DEF SortInv, Sorting

(* The invariant is inductive.                                             *)
LEMMA NextInv ==
    ASSUME TypeOK, SortInv, [Next]_vars
    PROVE  TypeOK' /\ SortInv'
<1>1. CASE UNCHANGED vars
  BY <1>1 DEF vars, TypeOK, SortInv, Sorting, EdgesJoinVertices, CountsAreExact,
              HeapIsExact, PlacedOnce, RespectsDependencies,
              SortsExactlyTheAcyclic
<1> QED
  BY <1>1, AddVertexInv, AddDependenciesInv, StartSortInv, PopReadyInv,
     FinishSortInv DEF Next

(* Every state of the graph and of the sort is type correct; in particular *)
(* no counter of remaining dependencies becomes negative.                  *)
THEOREM TypeCorrect == Spec => []TypeOK
<1>1. TypeOK /\ SortInv /\ [Next]_vars => (TypeOK /\ SortInv)'
  BY NextInv
<1> QED
  BY <1>1, InitInv, PTL DEF Spec

(* A step without an error keeps the graph acyclic.                        *)
LEMMA AcyclicStep ==
    ASSUME TypeOK, SortInv, StaysAcyclic, [Next]_vars
    PROVE  StaysAcyclic'
<1>1. ASSUME NEW id \in Ids, NEW o \in OrderChoices[id], AddVertex(id, o)
      PROVE  StaysAcyclic'
  <2>1. CASE id \in nodes
    BY <1>1, <2>1 DEF AddVertex, Fail, StaysAcyclic
  <2>2. CASE id \notin nodes /\ ~clean
    BY <1>1, <2>2 DEF AddVertex, Succeed, StaysAcyclic
  <2>3. CASE id \notin nodes /\ clean
    <3>1. /\ nodes' = nodes \cup {id} /\ clean' = clean
          /\ dependsOn' = [dependsOn EXCEPT ![id] = {}]
      BY <1>1, <2>3 DEF AddVertex, Succeed
    <3>2. /\ dependsOn'[id] = {}
          /\ \A n \in nodes : dependsOn'[n] = dependsOn[n]
      BY <2>3, <3>1 DEF TypeOK
    <3>3. ~Cyclic(nodes, dependsOn')
      BY <2>3, <3>1, <3>2 DEF StaysAcyclic, Cyclic
    <3>4. \A n \in nodes : dependsOn'[n] \subseteq nodes
      BY <3>2 DEF SortInv, EdgesJoinVertices, TypeOK
    <3>5. ~Cyclic(nodes \cup {id}, dependsOn')
      BY <2>3, <3>2, <3>3, <3>4, AcyclicExtension
    <3> QED
      BY <3>1, <3>5 DEF StaysAcyclic
  <2> QED
    BY <2>1, <2>2, <2>3
<1>2. ASSUME NEW from \in Ids, NEW deps \in Requests, AddDependencies(from, deps)
      PROVE  StaysAcyclic'
  <2>1. nodes' = nodes
    BY <1>2 DEF AddDependencies
  <2>2. CASE ~clean'
    BY <2>2 DEF StaysAcyclic
  <2>3. CASE clean'
    BY <1>2, <2>1, <2>3 DEF AddDependencies, Fail, StaysAcyclic, hasCycle
  <2> QED
    BY <2>2, <2>3
<1>3. CASE UNCHANGED <<nodes, dependsOn, clean>>
  BY <1>3 DEF StaysAcyclic
<1>4. CASE UNCHANGED vars
  BY <1>4 DEF vars, StaysAcyclic
<1> QED
  BY <1>1, <1>2, <1>3, <1>4 DEF Next, StartSort, PopReady, FinishSort

(* The graph of a client that gives up at the first error, as the graph    *)
(* builder does, is acyclic at every moment before that error.             *)
THEOREM BuilderGraphAcyclic == Spec => []StaysAcyclic
<1>1. Init => TypeOK /\ SortInv /\ StaysAcyclic
  BY InitInv DEF Init, StaysAcyclic, Cyclic
<1>2. TypeOK /\ SortInv /\ StaysAcyclic /\ [Next]_vars
          => (TypeOK /\ SortInv /\ StaysAcyclic)'
  BY NextInv, AcyclicStep
<1> QED
  BY <1>1, <1>2, PTL DEF Spec

(* TopologicalSort never places a vertex before one of its dependencies.   *)
THEOREM SortRespectsDependencies == Spec => []RespectsDependencies
<1>1. TypeOK /\ SortInv /\ [Next]_vars => (TypeOK /\ SortInv)'
  BY NextInv
<1>2. SortInv => RespectsDependencies
  BY DEF SortInv
<1> QED
  BY <1>1, <1>2, InitInv, PTL DEF Spec

(* TopologicalSort returns an order of all the vertices exactly when the   *)
(* graph is acyclic, and reports a cycle exactly when it is not.           *)
THEOREM SortIsComplete == Spec => []SortsExactlyTheAcyclic
<1>1. TypeOK /\ SortInv /\ [Next]_vars => (TypeOK /\ SortInv)'
  BY NextInv
<1>2. SortInv => SortsExactlyTheAcyclic
  BY DEF SortInv
<1> QED
  BY <1>1, <1>2, InitInv, PTL DEF Spec

----
(* The order is least                                                      *)

(* The invariant behind ReturnsLeastOrder, true of every prefix: an order  *)
(* that respects the dependencies either starts with what is placed or     *)
(* came later at the first place where the two differ.                     *)
LeastSoFar ==
    \A p \in Linearisations :
        \/ \A i \in 1..Len(sorted) : p[i] = sorted[i]
        \/ \E i \in 1..Len(sorted) : /\ Earlier(sorted[i], p[i])
                                     /\ \A j \in 1..(i - 1) : p[j] = sorted[j]

(* A linearisation lists every vertex.                                     *)
LEMMA LinearisationIsOnto ==
    ASSUME TypeOK, NEW p \in Linearisations, NEW n \in nodes
    PROVE  \E i \in 1..Cardinality(nodes) : p[i] = n
<1> DEFINE c == Cardinality(nodes)
<1>1. IsFiniteSet(nodes) /\ c \in Nat
  BY FiniteIds DEF TypeOK
<1>2. /\ p \in [1..c -> nodes]
      /\ \A i, j \in 1..c : p[i] = p[j] => i = j
  BY DEF Linearisations
<1>3. p \in Injection(1..c, nodes)
  BY <1>2 DEF Injection, IsInjective
<1>4. Cardinality(1..c) = c
  BY <1>1, FS_Interval
<1>5. p \in Surjection(1..c, nodes)
  <2> HIDE DEF c
  <2> Cardinality(1..c) = Cardinality(nodes)
    BY <1>4 DEF c
  <2> QED
    BY <1>1, <1>3, FS_Injection
<1> QED
  BY <1>5 DEF Surjection

(* What the heap holds is just what a linearisation that starts with the   *)
(* placed vertices may continue with.                                      *)
LEMMA NextIsReady ==
    ASSUME TypeOK, SortInv, HeapIsExact, NEW p \in Linearisations,
           Len(sorted) + 1 \in 1..Cardinality(nodes),
           \A i \in 1..Len(sorted) : p[i] = sorted[i]
    PROVE  p[Len(sorted) + 1] \in ready
<1> DEFINE k == Len(sorted) + 1
           x == p[k]
<1>1. Len(sorted) \in Nat /\ Cardinality(nodes) \in Nat
  BY FiniteIds DEF TypeOK
<1>2. /\ p \in [1..Cardinality(nodes) -> nodes]
      /\ \A i, j \in 1..Cardinality(nodes) :
             (p[j] \in dependsOn[p[i]] => j < i) /\ (p[i] = p[j] => i = j)
  BY DEF Linearisations
<1>3. x \in nodes
  BY <1>2
<1>4. x \notin Elems(sorted)
  <2> SUFFICES ASSUME NEW i \in 1..Len(sorted), sorted[i] = x PROVE FALSE
    BY DEF Elems
  <2>1. p[i] = p[k] /\ i \in 1..Cardinality(nodes) /\ i # k
    BY <1>1
  <2> QED
    BY <1>2, <2>1
<1>5. dependsOn[x] \subseteq Elems(sorted)
  <2> SUFFICES ASSUME NEW d \in dependsOn[x] PROVE d \in Elems(sorted)
    OBVIOUS
  <2>1. d \in nodes
    BY <1>3 DEF SortInv, EdgesJoinVertices, TypeOK
  <2>2. PICK j \in 1..Cardinality(nodes) : p[j] = d
    BY <2>1, LinearisationIsOnto
  <2>3. j < k
    BY <1>2, <2>2
  <2>4. j \in 1..Len(sorted)
    BY <1>1, <2>3
  <2>5. sorted[j] = d
    BY <2>2, <2>4
  <2> QED
    BY <2>4, <2>5 DEF Elems
<1> QED
  BY <1>3, <1>4, <1>5 DEF HeapIsExact

(* heap.Pop returns the least vertex of the heap.                          *)
LEMMA PopKeepsLeast ==
    ASSUME TypeOK, SortInv, LeastSoFar, PopReady
    PROVE  LeastSoFar'
<1> PICK current \in ready :
        /\ \A other \in ready \ {current} : Less(current, other)
        /\ sorted' = Append(sorted, current)
  BY DEF PopReady
<1>1. UNCHANGED <<nodes, order, dependsOn>> /\ pc = "sort"
  BY DEF PopReady
<1>2. HeapIsExact /\ PlacedOnce
  BY <1>1 DEF SortInv, Sorting
<1>3. current \in nodes /\ current \in Ids /\ current \notin Elems(sorted)
  BY <1>2 DEF HeapIsExact, TypeOK
<1>4. /\ Len(sorted') = Len(sorted) + 1 /\ Len(sorted) \in Nat
      /\ \A i \in 1..Len(sorted) : sorted'[i] = sorted[i]
      /\ sorted'[Len(sorted) + 1] = current
  BY <1>3, ElemsAppend DEF TypeOK
<1>5. Len(sorted) + 1 \in 1..Cardinality(nodes)
  <2> DEFINE P == Elems(sorted)
  <2>1. IsFiniteSet(nodes) /\ Cardinality(nodes) \in Nat /\ P \subseteq nodes
        /\ IsFiniteSet(P) /\ Cardinality(P) = Len(sorted)
    BY <1>2, FiniteIds DEF PlacedOnce, TypeOK
  <2> HIDE DEF P
  <2>2. P \cup {current} \subseteq nodes /\ current \notin P
    BY <1>3, <2>1 DEF P
  <2>3. Cardinality(P \cup {current}) = Cardinality(P) + 1
    BY <2>1, <2>2, FS_AddElement
  <2>4. Cardinality(P \cup {current}) <= Cardinality(nodes)
    BY <2>1, <2>2, FS_Subset
  <2> QED
    BY <1>4, <2>1, <2>3, <2>4
<1>6. Linearisations' = Linearisations
  BY <1>1 DEF Linearisations
<1> SUFFICES ASSUME NEW p \in Linearisations
             PROVE  \/ \A i \in 1..Len(sorted') : p[i] = sorted'[i]
                    \/ \E i \in 1..Len(sorted') :
                           /\ Earlier(sorted'[i], p[i])
                           /\ \A j \in 1..(i - 1) : p[j] = sorted'[j]
  BY <1>1, <1>6 DEF LeastSoFar, Earlier
<1>8. CASE \A i \in 1..Len(sorted) : p[i] = sorted[i]
  <2>1. p[Len(sorted) + 1] \in ready
    BY <1>2, <1>5, <1>8, NextIsReady
  <2>2. CASE p[Len(sorted) + 1] = current
    BY <1>4, <1>8, <2>2
  <2>3. CASE p[Len(sorted) + 1] # current
    <3>1. Less(current, p[Len(sorted) + 1])
      BY <2>1, <2>3
    <3>2. Earlier(current, p[Len(sorted) + 1])
      BY <3>1 DEF Less, Earlier
    <3>3. Len(sorted) + 1 \in 1..Len(sorted')
      BY <1>4
    <3>4. \A j \in 1..((Len(sorted) + 1) - 1) : p[j] = sorted'[j]
      BY <1>4, <1>8
    <3> QED
      BY <1>4, <3>2, <3>3, <3>4
  <2> QED
    BY <2>2, <2>3
<1>9. CASE \E i \in 1..Len(sorted) : /\ Earlier(sorted[i], p[i])
                                     /\ \A j \in 1..(i - 1) : p[j] = sorted[j]
  <2>1. PICK i \in 1..Len(sorted) : /\ Earlier(sorted[i], p[i])
                                    /\ \A j \in 1..(i - 1) : p[j] = sorted[j]
    BY <1>9
  <2>2. i \in 1..Len(sorted') /\ sorted'[i] = sorted[i]
        /\ \A j \in 1..(i - 1) : j \in 1..Len(sorted)
    BY <1>4
  <2> QED
    BY <1>4, <2>1, <2>2
<1> QED
  BY <1>8, <1>9 DEF LeastSoFar

(* Every step keeps the placed prefix least.                               *)
LEMMA LeastStep ==
    ASSUME TypeOK, SortInv, LeastSoFar, [Next]_vars
    PROVE  LeastSoFar'
<1>1. CASE PopReady
  BY <1>1, PopKeepsLeast
<1>2. CASE sorted' = <<>>
  BY <1>2 DEF LeastSoFar
<1>3. CASE UNCHANGED <<nodes, order, dependsOn, sorted>>
  <2>1. Linearisations' = Linearisations
    BY <1>3 DEF Linearisations
  <2>2. sorted' = sorted /\ order' = order
    BY <1>3
  <2> QED
    BY <2>1, <2>2 DEF LeastSoFar, Earlier
<1>4. ASSUME pc = "build", UNCHANGED sorted PROVE LeastSoFar'
  BY <1>2, <1>4 DEF SortInv, Sorting
<1> QED
  BY <1>1, <1>2, <1>3, <1>4
     DEF Next, vars, sortVars, AddVertex, AddDependencies, StartSort, FinishSort

(* A finished sort is least among all the orders.                          *)
LEMMA LeastWhenSorted ==
    ASSUME TypeOK, SortInv, LeastSoFar
    PROVE  ReturnsLeastOrder
<1> SUFFICES ASSUME pc = "sorted", NEW p \in Linearisations
             PROVE  \/ \A i \in DOMAIN p : p[i] = sorted[i]
                    \/ \E i \in DOMAIN p : /\ Earlier(sorted[i], p[i])
                                           /\ \A j \in 1..(i - 1) : p[j] = sorted[j]
  BY DEF ReturnsLeastOrder
<1>1. Elems(sorted) = nodes /\ Cardinality(Elems(sorted)) = Len(sorted)
  BY DEF SortInv, SortsExactlyTheAcyclic, PlacedOnce
<1>2. DOMAIN p = 1..Len(sorted)
  BY <1>1 DEF Linearisations
<1> QED
  BY <1>2 DEF LeastSoFar

(* The order TopologicalSort returns is a function of the graph: the least *)
(* of all the orders that respect the dependencies, comparing by position  *)
(* in the resource list and then by identifier.                            *)
THEOREM SortIsLeast == Spec => []ReturnsLeastOrder
<1>1. Init => TypeOK /\ SortInv /\ LeastSoFar
  BY InitInv DEF Init, LeastSoFar
<1>2. TypeOK /\ SortInv /\ LeastSoFar /\ [Next]_vars
          => (TypeOK /\ SortInv /\ LeastSoFar)'
  BY NextInv, LeastStep
<1>3. TypeOK /\ SortInv /\ LeastSoFar => ReturnsLeastOrder
  BY LeastWhenSorted
<1> QED
  BY <1>1, <1>2, <1>3, PTL DEF Spec

====
