---- MODULE CycleSearchProofs ----
(***************************************************************************)
(* Proofs about CycleSearch: in whichever order the maps of hasCycle are   *)
(* ranged over, it answers "cycle" exactly for the cyclic graphs, and what *)
(* it reports is a cycle.                                                  *)
(***************************************************************************)
EXTENDS CycleSearch, TLAPS

(* The inductive invariant.  The active calls of dfs are a path without    *)
(* repetition, and recStack is the set of its vertices; the finished       *)
(* vertices are closed under dependencies and hold no cycle; what an       *)
(* active call has ranged over is finished, or is the next active call.    *)
SearchTypeOK ==
    /\ dependsOn \in [Ids -> SUBSET Ids]
    /\ \A n \in Ids : n \notin dependsOn[n]
    /\ roots \in SUBSET Ids
    /\ visited \in SUBSET Ids
    /\ recStack \in SUBSET Ids
    /\ cyclePath \in Seq(Ids)
    /\ todo \in Seq(SUBSET Ids)
    /\ result \in {"running", "cycle", "none"}
    /\ cycle \in Seq(Ids)

Finished == visited \ recStack

StackIsPath ==
    /\ Len(todo) = Len(cyclePath)
    /\ recStack = Elems(cyclePath)
    /\ recStack \subseteq visited
    /\ \A i, j \in 1..Len(cyclePath) : cyclePath[i] = cyclePath[j] => i = j
    /\ \A i \in 1..(Len(cyclePath) - 1) :
           cyclePath[i + 1] \in dependsOn[cyclePath[i]]

FinishedIsAcyclic ==
    /\ \A n \in Finished : dependsOn[n] \subseteq Finished
    /\ ~Cyclic(Finished, dependsOn)

RangedOver ==
    \A i \in 1..Len(cyclePath) :
        /\ todo[i] \subseteq dependsOn[cyclePath[i]]
        /\ \A d \in dependsOn[cyclePath[i]] \ todo[i] :
               \/ d \in Finished
               \/ i < Len(cyclePath) /\ d = cyclePath[i + 1]

SearchInv ==
    /\ SearchTypeOK
    /\ result = "running" => /\ StackIsPath
                             /\ FinishedIsAcyclic
                             /\ RangedOver
                             /\ Ids \ roots \subseteq visited
    /\ DecidesCyclic
    /\ ReportsACycle

----

(* What appending to a sequence changes.                                   *)
LEMMA AppendFacts ==
    ASSUME NEW S, NEW s \in Seq(S), NEW x \in S
    PROVE  /\ Append(s, x) \in Seq(S) /\ Len(Append(s, x)) = Len(s) + 1
           /\ \A i \in 1..Len(s) : Append(s, x)[i] = s[i]
           /\ Append(s, x)[Len(s) + 1] = x
  OBVIOUS

(* What replacing an entry of a sequence changes.                          *)
LEMMA ExceptFacts ==
    ASSUME NEW S, NEW s \in Seq(S), NEW k \in 1..Len(s), NEW x \in S
    PROVE  /\ [s EXCEPT ![k] = x] \in Seq(S) /\ Len([s EXCEPT ![k] = x]) = Len(s)
           /\ \A i \in 1..Len(s) :
                  [s EXCEPT ![k] = x][i] = IF i = k THEN x ELSE s[i]
  OBVIOUS

(* What dropping the last entry of a sequence changes.                     *)
LEMMA FrontFacts ==
    ASSUME NEW S, NEW s \in Seq(S), Len(s) - 1 \in Nat
    PROVE  /\ Front(s) \in Seq(S) /\ Len(Front(s)) = Len(s) - 1
           /\ \A i \in 1..(Len(s) - 1) : Front(s)[i] = s[i]
<1> DEFINE m == Len(s) - 1
<1>1. m \in Nat /\ m <= Len(s) /\ Len(s) \in Nat
  OBVIOUS
<1> HIDE DEF m
<1>2. /\ SubSeq(s, 1, m) \in Seq(S) /\ Len(SubSeq(s, 1, m)) = m
      /\ \A i \in 1..m : SubSeq(s, 1, m)[i] = s[i]
  BY <1>1
<1> QED
  BY <1>2 DEF Front, m

(* The search starts with nothing visited.                                 *)
LEMMA InitSearch == Init => SearchInv
<1> SUFFICES ASSUME Init PROVE SearchInv
  OBVIOUS
<1>1. SearchTypeOK
  BY DEF Init, SearchTypeOK
<1>2. StackIsPath
  BY DEF Init, StackIsPath, Elems
<1>3. FinishedIsAcyclic /\ RangedOver /\ Ids \ roots \subseteq visited
  BY DEF Init, FinishedIsAcyclic, Finished, Cyclic, RangedOver
<1>4. DecidesCyclic /\ ReportsACycle
  BY DEF Init, DecidesCyclic, ReportsACycle
<1> QED
  BY <1>1, <1>2, <1>3, <1>4 DEF SearchInv

(* What a running search has to keep.                                      *)
LEMMA StillRunning ==
    ASSUME SearchTypeOK', StackIsPath', FinishedIsAcyclic', RangedOver',
           Ids \ roots' \subseteq visited', result' = "running"
    PROVE  SearchInv'
  BY DEF SearchInv, DecidesCyclic, ReportsACycle

(* Entering dfs(n) for a vertex n not visited before finishes nothing.     *)
LEMMA EnterFinishesNothing ==
    ASSUME NEW n \in Ids, n \notin visited, Enter(n)
    PROVE  Finished' = Finished
  BY DEF Enter, Finished

(* The outer loop reaches a vertex, and skips it or calls dfs on it.       *)
LEMMA RootStep ==
    ASSUME SearchInv, NEW n \in Ids, Root(n)
    PROVE  SearchInv'
<1>1. /\ SearchTypeOK /\ StackIsPath /\ FinishedIsAcyclic /\ RangedOver
      /\ Ids \ roots \subseteq visited
      /\ cyclePath = <<>> /\ result' = "running"
      /\ roots' = roots \ {n} /\ dependsOn' = dependsOn /\ cycle' = cycle
      /\ result' = result
  BY DEF SearchInv, Root
<1>2. CASE n \in visited
  <2>1. UNCHANGED <<visited, recStack, cyclePath, todo>>
    BY <1>2 DEF Root
  <2>2. SearchTypeOK' /\ StackIsPath' /\ FinishedIsAcyclic' /\ RangedOver'
    BY <1>1, <2>1
       DEF SearchTypeOK, StackIsPath, FinishedIsAcyclic, Finished, RangedOver,
           Elems
  <2> QED
    BY <1>1, <1>2, <2>1, <2>2, StillRunning
<1>3. CASE n \notin visited
  <2>1. /\ visited' = visited \cup {n} /\ recStack' = recStack \cup {n}
        /\ cyclePath' = <<n>> /\ todo' = <<dependsOn[n]>>
    BY <1>1, <1>3 DEF Root, Enter
  <2>2. recStack' = {n}
    BY <1>1, <2>1 DEF StackIsPath, Elems
  <2>3. dependsOn[n] \in SUBSET Ids
    BY <1>1 DEF SearchTypeOK
  <2>4. SearchTypeOK'
    BY <1>1, <2>1, <2>3 DEF SearchTypeOK
  <2>5. StackIsPath'
    BY <2>1, <2>2 DEF StackIsPath, Elems
  <2>6. Finished' = Finished
    BY <1>3, EnterFinishesNothing DEF Root
  <2>7. FinishedIsAcyclic'
    BY <1>1, <2>6 DEF FinishedIsAcyclic
  <2>8. RangedOver'
    BY <1>1, <2>1 DEF RangedOver
  <2> QED
    BY <1>1, <2>1, <2>4, <2>5, <2>7, <2>8, StillRunning
<1> QED
  BY <1>2, <1>3

(* What the inner loop reads while it ranges over d.                       *)
LEMMA WhileRanging ==
    ASSUME SearchInv, NEW d \in Ids, Ranging(d)
    PROVE  /\ SearchTypeOK /\ StackIsPath /\ FinishedIsAcyclic /\ RangedOver
           /\ Ids \ roots \subseteq visited
           /\ result = "running"
           /\ Top \in Nat /\ Top > 0 /\ Top = Len(cyclePath) /\ Top = Len(todo)
           /\ d \in todo[Top] /\ cyclePath[Top] \in Ids
           /\ d \in dependsOn[cyclePath[Top]]
<1>1. /\ SearchTypeOK /\ StackIsPath /\ FinishedIsAcyclic /\ RangedOver
      /\ Ids \ roots \subseteq visited /\ result = "running"
      /\ Top > 0 /\ d \in todo[Top]
  BY DEF SearchInv, Ranging
<1>2. Top \in Nat /\ Top = Len(cyclePath) /\ Top = Len(todo)
  BY <1>1 DEF SearchTypeOK, StackIsPath, Top
<1>3. cyclePath[Top] \in Ids /\ Top \in 1..Len(cyclePath)
  <2>1. cyclePath \in Seq(Ids) /\ Top > 0
    BY <1>1 DEF SearchTypeOK
  <2>2. Top \in 1..Len(cyclePath)
    BY <1>2, <2>1
  <2> QED
    BY <2>1, <2>2
<1>4. d \in dependsOn[cyclePath[Top]]
  BY <1>1, <1>3 DEF RangedOver
<1> QED
  BY <1>1, <1>2, <1>3, <1>4

(* Taking d off the todo of the innermost call.                            *)
LEMMA ShortenTodo ==
    ASSUME SearchInv, NEW d \in Ids, Ranging(d)
    PROVE  /\ [todo EXCEPT ![Top] = @ \ {d}] \in Seq(SUBSET Ids)
           /\ Len([todo EXCEPT ![Top] = @ \ {d}]) = Top
           /\ \A i \in 1..Top : [todo EXCEPT ![Top] = @ \ {d}][i]
                                  = IF i = Top THEN todo[i] \ {d} ELSE todo[i]
<1>1. todo \in Seq(SUBSET Ids) /\ Top \in 1..Len(todo) /\ Len(todo) = Top
  <2>1. SearchTypeOK /\ Top \in Nat /\ Top > 0 /\ Top = Len(todo)
    BY WhileRanging
  <2> QED
    BY <2>1 DEF SearchTypeOK
<1>2. todo[Top] \ {d} \in SUBSET Ids
  BY <1>1
<1> DEFINE x == todo[Top] \ {d}
<1>3. /\ [todo EXCEPT ![Top] = x] \in Seq(SUBSET Ids)
      /\ Len([todo EXCEPT ![Top] = x]) = Len(todo)
      /\ \A i \in 1..Len(todo) :
             [todo EXCEPT ![Top] = x][i] = IF i = Top THEN x ELSE todo[i]
  <2> HIDE DEF x
  <2> x \in SUBSET Ids
    BY <1>2 DEF x
  <2> QED
    BY <1>1, ExceptFacts
<1> QED
  BY <1>1, <1>3

(* dfs calls itself on a dependency not visited before.                    *)
LEMMA DescendStep ==
    ASSUME SearchInv, NEW d \in Ids, Descend(d)
    PROVE  SearchInv'
<1>1. Ranging(d) /\ d \notin visited /\ Enter(d)
  BY DEF Descend
<1>2. /\ SearchTypeOK /\ StackIsPath /\ FinishedIsAcyclic /\ RangedOver
      /\ Ids \ roots \subseteq visited
      /\ result = "running"
      /\ Top \in Nat /\ Top > 0 /\ Top = Len(cyclePath) /\ Top = Len(todo)
      /\ d \in todo[Top] /\ cyclePath[Top] \in Ids
      /\ d \in dependsOn[cyclePath[Top]]
  BY <1>1, WhileRanging
<1>3. /\ visited' = visited \cup {d} /\ recStack' = recStack \cup {d}
      /\ cyclePath' = Append(cyclePath, d)
      /\ todo' = Append([todo EXCEPT ![Top] = @ \ {d}], dependsOn[d])
      /\ UNCHANGED <<dependsOn, roots, result, cycle>>
  BY DEF Descend, Enter
<1>4. cyclePath \in Seq(Ids) /\ todo \in Seq(SUBSET Ids) /\ dependsOn[d] \in SUBSET Ids
  BY <1>2 DEF SearchTypeOK
<1>5. /\ cyclePath' \in Seq(Ids) /\ Len(cyclePath') = Top + 1
      /\ \A i \in 1..Top : cyclePath'[i] = cyclePath[i]
      /\ cyclePath'[Top + 1] = d
  <2>1. /\ Append(cyclePath, d) \in Seq(Ids) /\ Len(Append(cyclePath, d)) = Len(cyclePath) + 1
        /\ \A i \in 1..Len(cyclePath) : Append(cyclePath, d)[i] = cyclePath[i]
        /\ Append(cyclePath, d)[Len(cyclePath) + 1] = d
    BY <1>4, AppendFacts
  <2>2. Len(cyclePath) = Top
    BY <1>2
  <2>3. cyclePath' = Append(cyclePath, d)
    BY <1>3
  <2> QED
    BY <2>1, <2>2, <2>3
<1>6. /\ [todo EXCEPT ![Top] = @ \ {d}] \in Seq(SUBSET Ids)
      /\ Len([todo EXCEPT ![Top] = @ \ {d}]) = Top
      /\ \A i \in 1..Top : [todo EXCEPT ![Top] = @ \ {d}][i]
                             = IF i = Top THEN todo[i] \ {d} ELSE todo[i]
  BY <1>1, ShortenTodo
<1>7. /\ todo' \in Seq(SUBSET Ids) /\ Len(todo') = Top + 1
      /\ \A i \in 1..Top : todo'[i] = IF i = Top THEN todo[i] \ {d} ELSE todo[i]
      /\ todo'[Top + 1] = dependsOn[d]
  <2> DEFINE t == [todo EXCEPT ![Top] = @ \ {d}]
  <2>1. /\ Append(t, dependsOn[d]) \in Seq(SUBSET Ids)
        /\ Len(Append(t, dependsOn[d])) = Len(t) + 1
        /\ \A i \in 1..Len(t) : Append(t, dependsOn[d])[i] = t[i]
        /\ Append(t, dependsOn[d])[Len(t) + 1] = dependsOn[d]
    <3> HIDE DEF t
    <3> t \in Seq(SUBSET Ids)
      BY <1>6 DEF t
    <3> QED
      BY <1>4, AppendFacts
  <2>2. todo' = Append(t, dependsOn[d])
    BY <1>3
  <2>3. Len(t) = Top /\ \A i \in 1..Top : t[i] = IF i = Top THEN todo[i] \ {d} ELSE todo[i]
    BY <1>6
  <2> HIDE DEF t
  <2> QED
    BY <2>1, <2>2, <2>3
<1>8. SearchTypeOK'
  BY <1>2, <1>3, <1>5, <1>7 DEF SearchTypeOK
<1>9. StackIsPath'
  <2>1. recStack' = Elems(cyclePath') /\ recStack' \subseteq visited'
    BY <1>2, <1>3, <1>5 DEF StackIsPath, Elems
  <2>2. \A i \in 1..Top : cyclePath[i] # d
    BY <1>1, <1>2 DEF StackIsPath, Elems
  <2>3. \A i, j \in 1..Len(cyclePath') : cyclePath'[i] = cyclePath'[j] => i = j
    BY <1>2, <1>5, <2>2 DEF StackIsPath
  <2>4. \A i \in 1..(Len(cyclePath') - 1) :
            cyclePath'[i + 1] \in dependsOn'[cyclePath'[i]]
    <3> SUFFICES ASSUME NEW i \in 1..Top
                 PROVE  cyclePath'[i + 1] \in dependsOn[cyclePath[i]]
      BY <1>2, <1>3, <1>5
    <3>1. CASE i = Top
      BY <1>2, <1>5, <3>1
    <3>2. CASE i < Top
      <4>1. i \in 1..(Len(cyclePath) - 1) /\ i + 1 \in 1..Top
        BY <1>2, <3>2
      <4> QED
        BY <1>2, <1>5, <4>1 DEF StackIsPath
    <3> QED
      BY <1>2, <3>1, <3>2
  <2> QED
    BY <1>5, <1>7, <2>1, <2>3, <2>4 DEF StackIsPath
<1>10. Finished' = Finished
  BY <1>1, EnterFinishesNothing
<1>11. FinishedIsAcyclic'
  BY <1>2, <1>3, <1>10 DEF FinishedIsAcyclic
<1>12. RangedOver'
  <2> SUFFICES ASSUME NEW i \in 1..(Top + 1)
               PROVE  /\ todo'[i] \subseteq dependsOn[cyclePath'[i]]
                      /\ \A e \in dependsOn[cyclePath'[i]] \ todo'[i] :
                            \/ e \in Finished
                            \/ i < Top + 1 /\ e = cyclePath'[i + 1]
    <3>1. Len(cyclePath') = Top + 1 /\ dependsOn' = dependsOn /\ Finished' = Finished
      BY <1>3, <1>5, <1>10
    <3> QED
      BY <3>1 DEF RangedOver
  <2>1. CASE i = Top + 1
    BY <1>5, <1>7, <2>1
  <2>2. CASE i = Top
    <3>1. Top \in 1..Top /\ Top \in 1..Len(cyclePath)
      BY <1>2
    <3>2. /\ todo[Top] \subseteq dependsOn[cyclePath[Top]]
          /\ \A e \in dependsOn[cyclePath[Top]] \ todo[Top] :
                \/ e \in Finished
                \/ Top < Top /\ e = cyclePath[Top + 1]
      BY <1>2, <3>1 DEF RangedOver
    <3>3. todo'[Top] = todo[Top] \ {d} /\ cyclePath'[Top] = cyclePath[Top]
          /\ cyclePath'[Top + 1] = d
      BY <1>5, <1>7, <3>1
    <3>4. \A e \in dependsOn[cyclePath[Top]] \ todo[Top] : e \in Finished
      BY <1>2, <3>2
    <3> QED
      BY <1>2, <2>2, <3>2, <3>3, <3>4
  <2>3. CASE i < Top
    <3>1. i \in 1..Top /\ i + 1 \in 1..Top /\ i # Top /\ i < Len(cyclePath) /\ i < Top + 1
      BY <1>2, <2>3
    <3>2. todo'[i] = todo[i] /\ cyclePath'[i] = cyclePath[i]
          /\ cyclePath'[i + 1] = cyclePath[i + 1]
      BY <1>5, <1>7, <3>1
    <3> QED
      BY <1>2, <3>1, <3>2 DEF RangedOver
  <2> QED
    BY <1>2, <2>1, <2>2, <2>3
<1> QED
  BY <1>2, <1>3, <1>8, <1>9, <1>11, <1>12, StillRunning

(* dfs ranges over a dependency that an earlier call has finished.         *)
LEMMA SkipStep ==
    ASSUME SearchInv, NEW d \in Ids, Skip(d)
    PROVE  SearchInv'
<1>1. Ranging(d) /\ d \in Finished
  BY DEF Skip, Finished
<1>2. /\ SearchTypeOK /\ StackIsPath /\ FinishedIsAcyclic /\ RangedOver
      /\ Ids \ roots \subseteq visited
      /\ result = "running"
      /\ Top \in Nat /\ Top > 0 /\ Top = Len(cyclePath) /\ Top = Len(todo)
  BY <1>1, WhileRanging
<1>3. /\ todo' = [todo EXCEPT ![Top] = @ \ {d}]
      /\ UNCHANGED <<dependsOn, roots, visited, recStack, cyclePath, result, cycle>>
  BY DEF Skip
<1>4. /\ todo' \in Seq(SUBSET Ids) /\ Len(todo') = Top
      /\ \A i \in 1..Top : todo'[i] = IF i = Top THEN todo[i] \ {d} ELSE todo[i]
  BY <1>1, <1>3, ShortenTodo
<1>5. SearchTypeOK' /\ StackIsPath' /\ FinishedIsAcyclic'
  BY <1>2, <1>3, <1>4
     DEF SearchTypeOK, StackIsPath, FinishedIsAcyclic, Finished, Elems
<1>6. RangedOver'
  <2> SUFFICES ASSUME NEW i \in 1..Top
               PROVE  /\ todo'[i] \subseteq dependsOn[cyclePath[i]]
                      /\ \A e \in dependsOn[cyclePath[i]] \ todo'[i] :
                            \/ e \in Finished
                            \/ i < Top /\ e = cyclePath[i + 1]
    <3>1. Len(cyclePath) = Top /\ cyclePath' = cyclePath /\ dependsOn' = dependsOn
          /\ Finished' = Finished
      BY <1>2, <1>3 DEF Finished
    <3> QED
      BY <3>1 DEF RangedOver
  <2>1. /\ todo[i] \subseteq dependsOn[cyclePath[i]]
        /\ \A e \in dependsOn[cyclePath[i]] \ todo[i] :
               \/ e \in Finished
               \/ i < Top /\ e = cyclePath[i + 1]
    BY <1>2 DEF RangedOver
  <2>2. todo'[i] = todo[i] \ {d} \/ todo'[i] = todo[i]
    BY <1>4
  <2> QED
    BY <1>1, <2>1, <2>2
<1> QED
  BY <1>2, <1>3, <1>5, <1>6, StillRunning

(* The cycle that is cut out of the path when it meets a vertex of itself. *)
LEMMA TrimFacts ==
    ASSUME NEW path \in Seq(Ids), NEW k \in 1..(Len(path) - 1),
           path[k] = path[Len(path)],
           \A i, j \in 1..(Len(path) - 1) : path[i] = path[j] => i = j
    PROVE  /\ Trim(path) \in Seq(Ids)
           /\ Len(Trim(path)) = Len(path) - k + 1
           /\ \A i \in 1..Len(Trim(path)) : Trim(path)[i] = path[i + k - 1]
<1> DEFINE places == {i \in 1..(Len(path) - 1) : path[i] = path[Len(path)]}
<1>1. places = {k}
  OBVIOUS
<1>2. (CHOOSE i \in places : \A j \in places : i <= j) = k
  BY <1>1
<1>3. Trim(path) = SubSeq(path, k, Len(path))
  BY <1>1, <1>2 DEF Trim
<1> HIDE DEF places
<1>4. /\ SubSeq(path, k, Len(path)) \in Seq(Ids)
      /\ Len(SubSeq(path, k, Len(path))) = Len(path) - k + 1
      /\ \A i \in 1..(Len(path) - k + 1) : SubSeq(path, k, Len(path))[i] = path[i + k - 1]
  OBVIOUS
<1> QED
  BY <1>3, <1>4

(* dfs meets a vertex on its recursion stack.                              *)
LEMMA CloseStep ==
    ASSUME SearchInv, NEW d \in Ids, Close(d)
    PROVE  SearchInv'
<1>1. Ranging(d) /\ d \in recStack
  BY DEF Close
<1>2. /\ SearchTypeOK /\ StackIsPath
      /\ Top \in Nat /\ Top > 0 /\ Top = Len(cyclePath)
      /\ d \in todo[Top] /\ cyclePath[Top] \in Ids
      /\ d \in dependsOn[cyclePath[Top]]
  BY <1>1, WhileRanging
<1>3. /\ cyclePath' = Append(cyclePath, d) /\ result' = "cycle"
      /\ cycle' = Trim(Append(cyclePath, d))
      /\ UNCHANGED <<dependsOn, roots, visited, recStack, todo>>
  BY DEF Close
<1>4. cyclePath \in Seq(Ids)
  BY <1>2 DEF SearchTypeOK
<1> DEFINE path == Append(cyclePath, d)
<1>5. /\ path \in Seq(Ids) /\ Len(path) = Top + 1
      /\ \A i \in 1..Top : path[i] = cyclePath[i]
      /\ path[Top + 1] = d
  <2>1. /\ path \in Seq(Ids) /\ Len(path) = Len(cyclePath) + 1
        /\ \A i \in 1..Len(cyclePath) : path[i] = cyclePath[i]
        /\ path[Len(cyclePath) + 1] = d
    BY <1>4, AppendFacts
  <2>2. Len(cyclePath) = Top
    BY <1>2
  <2> QED
    BY <2>1, <2>2
<1> HIDE DEF path
<1>6. PICK k \in 1..Top : cyclePath[k] = d
  BY <1>1, <1>2 DEF StackIsPath, Elems
<1>7. k # Top
  BY <1>2, <1>6 DEF SearchTypeOK
<1>8. \A i \in 1..Top : path[i + 1] \in dependsOn[path[i]]
  <2> SUFFICES ASSUME NEW i \in 1..Top
               PROVE  path[i + 1] \in dependsOn[cyclePath[i]]
    BY <1>5
  <2>1. CASE i = Top
    BY <1>2, <1>5, <2>1
  <2>2. CASE i # Top
    <3>1. i \in 1..(Len(cyclePath) - 1) /\ i + 1 \in 1..Top
      BY <1>2, <2>2
    <3> QED
      BY <1>2, <1>5, <3>1 DEF StackIsPath
  <2> QED
    BY <2>1, <2>2
<1>9. /\ Trim(path) \in Seq(Ids)
      /\ Len(Trim(path)) = Top - k + 2
      /\ \A i \in 1..Len(Trim(path)) : Trim(path)[i] = path[i + k - 1]
  <2>1. Len(path) - 1 = Top
    BY <1>2, <1>5
  <2>2. k \in 1..(Len(path) - 1) /\ path[k] = path[Len(path)]
    BY <1>5, <1>6, <2>1
  <2>3. \A i, j \in 1..(Len(path) - 1) : path[i] = path[j] => i = j
    BY <1>2, <1>5, <2>1 DEF StackIsPath
  <2>4. Len(path) - k + 1 = Top - k + 2
    BY <1>2, <1>5
  <2> QED
    BY <1>5, <2>2, <2>3, <2>4, TrimFacts
<1> DEFINE c == Trim(path)
<1>10. cycle' = c
  BY <1>3 DEF path
<1> HIDE DEF c
<1>11. /\ c \in Seq(Ids) /\ Len(c) = Top - k + 2
       /\ \A i \in 1..(Top - k + 2) : c[i] = path[i + k - 1]
  BY <1>9 DEF c
<1>12. Len(c) > 2 /\ Len(c) - 1 = Top - k + 1
  BY <1>2, <1>6, <1>7, <1>11
<1>13. c[1] = c[Len(c)]
  <2>1. 1 \in 1..(Top - k + 2) /\ Top - k + 2 \in 1..(Top - k + 2)
        /\ 1 + k - 1 = k /\ (Top - k + 2) + k - 1 = Top + 1
    BY <1>2, <1>6
  <2> QED
    BY <1>5, <1>6, <1>11, <2>1
<1>14. \A i \in 1..(Len(c) - 1) : c[i + 1] \in dependsOn[c[i]]
  <2> SUFFICES ASSUME NEW i \in 1..(Top - k + 1)
               PROVE  c[i + 1] \in dependsOn[c[i]]
    BY <1>12
  <2>1. /\ i \in 1..(Top - k + 2) /\ i + 1 \in 1..(Top - k + 2)
        /\ i + k - 1 \in 1..Top /\ (i + 1) + k - 1 = (i + k - 1) + 1
    BY <1>2, <1>6
  <2> QED
    BY <1>8, <1>11, <2>1
<1>15. \A i, j \in 1..(Len(c) - 1) : c[i] = c[j] => i = j
  <2> SUFFICES ASSUME NEW i \in 1..(Top - k + 1), NEW j \in 1..(Top - k + 1),
                      c[i] = c[j]
               PROVE  i = j
    BY <1>12
  <2>1. /\ i \in 1..(Top - k + 2) /\ i + k - 1 \in 1..Top
        /\ j \in 1..(Top - k + 2) /\ j + k - 1 \in 1..Top
    BY <1>2, <1>6
  <2>2. cyclePath[i + k - 1] = cyclePath[j + k - 1]
    BY <1>5, <1>11, <2>1
  <2>3. i + k - 1 = j + k - 1
    BY <1>2, <2>1, <2>2 DEF StackIsPath
  <2> QED
    BY <1>2, <1>6, <2>3
<1>16. Cyclic(Ids, dependsOn)
  <2> DEFINE S == {c[i] : i \in 1..(Len(c) - 1)}
  <2>1. Len(c) \in Nat /\ 1 \in 1..(Len(c) - 1) /\ \A i \in 1..(Len(c) - 1) : c[i] \in Ids
    BY <1>11, <1>12
  <2>2. S \in SUBSET Ids /\ S # {}
    BY <2>1
  <2>3. ASSUME NEW n \in S
        PROVE  dependsOn[n] \cap S # {}
    <3>1. PICK i \in 1..(Len(c) - 1) : n = c[i]
      OBVIOUS
    <3>2. c[i + 1] \in dependsOn[n]
      BY <1>14, <3>1
    <3>3. CASE i = Len(c) - 1
      <4>1. c[i + 1] = c[1]
        BY <1>13, <2>1, <3>3
      <4> QED
        BY <2>1, <3>2, <4>1
    <3>4. CASE i # Len(c) - 1
      <4>1. i + 1 \in 1..(Len(c) - 1)
        BY <2>1, <3>4
      <4> QED
        BY <3>2, <4>1
    <3> QED
      BY <3>3, <3>4
  <2> HIDE DEF S
  <2> QED
    BY <2>2, <2>3 DEF Cyclic
<1>17. SearchTypeOK'
  BY <1>2, <1>3, <1>5, <1>10, <1>11 DEF SearchTypeOK, path
<1>18. DecidesCyclic' /\ ReportsACycle'
  <2>1. DecidesCyclic'
    BY <1>3, <1>16 DEF DecidesCyclic
  <2>2. ReportsACycle'
    BY <1>3, <1>10, <1>12, <1>13, <1>14, <1>15 DEF ReportsACycle
  <2> QED
    BY <2>1, <2>2
<1> QED
  BY <1>3, <1>17, <1>18 DEF SearchInv

(* A call of dfs that has ranged over everything finishes its vertex: all  *)
(* the dependencies of that vertex are finished, so no cycle goes through  *)
(* it.                                                                     *)
LEMMA ReturnStep ==
    ASSUME SearchInv, Return
    PROVE  SearchInv'
<1>1. /\ SearchTypeOK /\ StackIsPath /\ FinishedIsAcyclic /\ RangedOver
      /\ Ids \ roots \subseteq visited /\ result = "running"
      /\ Top > 0 /\ todo[Top] = {}
  BY DEF SearchInv, Return
<1>2. /\ recStack' = recStack \ {cyclePath[Top]}
      /\ cyclePath' = Front(cyclePath) /\ todo' = Front(todo)
      /\ UNCHANGED <<dependsOn, roots, visited, result, cycle>>
  BY DEF Return
<1>3. /\ cyclePath \in Seq(Ids) /\ todo \in Seq(SUBSET Ids)
      /\ Top \in Nat /\ Top = Len(cyclePath) /\ Top = Len(todo)
  BY <1>1 DEF SearchTypeOK, StackIsPath, Top
<1> DEFINE x == cyclePath[Top]
<1>4. Top \in 1..Top /\ Top \in 1..Len(cyclePath) /\ Top - 1 \in Nat
  BY <1>1, <1>3
<1>5. x \in Ids /\ x \in recStack /\ x \in visited /\ x \notin Finished
  BY <1>1, <1>3, <1>4 DEF StackIsPath, Elems, Finished
<1>6. /\ cyclePath' \in Seq(Ids) /\ Len(cyclePath') = Top - 1
      /\ \A i \in 1..(Top - 1) : cyclePath'[i] = cyclePath[i]
  <2>1. /\ Front(cyclePath) \in Seq(Ids) /\ Len(Front(cyclePath)) = Len(cyclePath) - 1
        /\ \A i \in 1..(Len(cyclePath) - 1) : Front(cyclePath)[i] = cyclePath[i]
    BY <1>3, <1>4, FrontFacts
  <2>2. Len(cyclePath) = Top /\ cyclePath' = Front(cyclePath)
    BY <1>2, <1>3
  <2> QED
    BY <2>1, <2>2
<1>7. /\ todo' \in Seq(SUBSET Ids) /\ Len(todo') = Top - 1
      /\ \A i \in 1..(Top - 1) : todo'[i] = todo[i]
  <2>1. /\ Front(todo) \in Seq(SUBSET Ids) /\ Len(Front(todo)) = Len(todo) - 1
        /\ \A i \in 1..(Len(todo) - 1) : Front(todo)[i] = todo[i]
    BY <1>3, <1>4, FrontFacts
  <2>2. Len(todo) = Top /\ todo' = Front(todo)
    BY <1>2, <1>3
  <2> QED
    BY <2>1, <2>2
<1>8. SearchTypeOK'
  BY <1>1, <1>2, <1>6, <1>7 DEF SearchTypeOK
<1>9. StackIsPath'
  <2>1. \A i \in 1..(Top - 1) : i \in 1..Top /\ i # Top
    BY <1>3
  <2>2. \A i \in 1..Top : i = Top \/ i \in 1..(Top - 1)
    BY <1>3
  <2>3. recStack' = Elems(cyclePath')
    <3>1. recStack = {cyclePath[i] : i \in 1..Top}
      BY <1>1, <1>3 DEF StackIsPath, Elems
    <3>2. Elems(cyclePath') = {cyclePath[i] : i \in 1..(Top - 1)}
      BY <1>6 DEF Elems
    <3>3. \A i \in 1..(Top - 1) : cyclePath[i] # cyclePath[Top]
      BY <1>1, <1>3, <1>4, <2>1 DEF StackIsPath
    <3> QED
      BY <1>2, <2>1, <2>2, <3>1, <3>2, <3>3
  <2>4. recStack' \subseteq visited'
    BY <1>1, <1>2 DEF StackIsPath
  <2>5. \A i, j \in 1..Len(cyclePath') : cyclePath'[i] = cyclePath'[j] => i = j
    BY <1>1, <1>3, <1>6, <2>1 DEF StackIsPath
  <2>6. \A i \in 1..(Len(cyclePath') - 1) :
            cyclePath'[i + 1] \in dependsOn'[cyclePath'[i]]
    <3> SUFFICES ASSUME NEW i \in 1..((Top - 1) - 1)
                 PROVE  cyclePath'[i + 1] \in dependsOn[cyclePath'[i]]
      BY <1>2, <1>6
    <3>1. i \in 1..(Top - 1) /\ i + 1 \in 1..(Top - 1) /\ i \in 1..(Len(cyclePath) - 1)
      BY <1>3, <1>4
    <3> QED
      BY <1>1, <1>6, <3>1 DEF StackIsPath
  <2> QED
    BY <1>6, <1>7, <2>3, <2>4, <2>5, <2>6 DEF StackIsPath
<1>10. Finished' = Finished \cup {x}
  BY <1>2, <1>5 DEF Finished
<1>11. dependsOn[x] \subseteq Finished
  <2>1. \A d \in dependsOn[x] \ todo[Top] : d \in Finished \/ Top < Top
    BY <1>1, <1>3, <1>4 DEF RangedOver
  <2>2. ~(Top < Top)
    BY <1>3
  <2> QED
    BY <1>1, <2>1, <2>2
<1>12. FinishedIsAcyclic'
  <2>1. \A n \in Finished' : dependsOn'[n] \subseteq Finished'
    BY <1>1, <1>2, <1>10, <1>11 DEF FinishedIsAcyclic
  <2>2. ~Cyclic(Finished \cup {x}, dependsOn)
    <3> HIDE DEF x
    <3> SUFFICES ASSUME NEW S \in SUBSET (Finished \cup {x}), S # {},
                        \A n \in S : dependsOn[n] \cap S # {}
                 PROVE  FALSE
      BY DEF Cyclic
    <3>1. /\ \A n \in Finished : dependsOn[n] \subseteq Finished
          /\ ~Cyclic(Finished, dependsOn)
      BY <1>1 DEF FinishedIsAcyclic
    <3>2. S \ {x} # {} /\ S \ {x} \in SUBSET Finished
      BY <1>5, <1>11
    <3>3. \A n \in S \ {x} : dependsOn[n] \cap (S \ {x}) # {}
      BY <1>5, <3>1, <3>2
    <3> QED
      BY <3>1, <3>2, <3>3 DEF Cyclic
  <2>3. dependsOn' = dependsOn
    BY <1>2
  <2> QED
    BY <1>10, <2>1, <2>2, <2>3 DEF FinishedIsAcyclic
<1>13. RangedOver'
  <2> SUFFICES ASSUME NEW i \in 1..(Top - 1)
               PROVE  /\ todo'[i] \subseteq dependsOn[cyclePath'[i]]
                      /\ \A e \in dependsOn[cyclePath'[i]] \ todo'[i] :
                            \/ e \in Finished'
                            \/ i < Top - 1 /\ e = cyclePath'[i + 1]
    <3>1. Len(cyclePath') = Top - 1 /\ dependsOn' = dependsOn
      BY <1>2, <1>6
    <3> QED
      BY <3>1 DEF RangedOver
  <2>1. i \in 1..Len(cyclePath) /\ i < Len(cyclePath)
    BY <1>3, <1>4
  <2>2. /\ todo[i] \subseteq dependsOn[cyclePath[i]]
        /\ \A e \in dependsOn[cyclePath[i]] \ todo[i] :
              e \in Finished \/ e = cyclePath[i + 1]
    BY <1>1, <2>1 DEF RangedOver
  <2>3. todo'[i] = todo[i] /\ cyclePath'[i] = cyclePath[i]
    BY <1>6, <1>7
  <2>4. CASE i = Top - 1
    <3>1. cyclePath[i + 1] = x
      BY <1>3, <2>4
    <3> QED
      BY <1>10, <2>2, <2>3, <3>1
  <2>5. CASE i # Top - 1
    <3>1. i < Top - 1 /\ i + 1 \in 1..(Top - 1)
      BY <1>3, <2>5
    <3>2. cyclePath'[i + 1] = cyclePath[i + 1]
      BY <1>6, <3>1
    <3> QED
      BY <1>10, <2>2, <2>3, <3>1, <3>2
  <2> QED
    BY <2>4, <2>5
<1> QED
  BY <1>1, <1>2, <1>8, <1>9, <1>12, <1>13, StillRunning

(* When no root is left every vertex is finished.                          *)
LEMMA NoCycleStep ==
    ASSUME SearchInv, NoCycle
    PROVE  SearchInv'
<1>1. /\ SearchTypeOK /\ StackIsPath /\ FinishedIsAcyclic
      /\ Ids \ roots \subseteq visited /\ cyclePath = <<>> /\ roots = {}
  BY DEF SearchInv, NoCycle
<1>2. /\ result' = "none"
      /\ UNCHANGED <<dependsOn, roots, visited, recStack, cyclePath, todo, cycle>>
  BY DEF NoCycle
<1>3. recStack = {} /\ visited = Ids
  BY <1>1 DEF StackIsPath, Elems, SearchTypeOK
<1>4. Finished = Ids
  BY <1>3 DEF Finished
<1>5. ~Cyclic(Ids, dependsOn)
  BY <1>1, <1>4 DEF FinishedIsAcyclic
<1>6. SearchTypeOK'
  BY <1>1, <1>2 DEF SearchTypeOK
<1>7. DecidesCyclic' /\ ReportsACycle'
  BY <1>2, <1>5 DEF DecidesCyclic, ReportsACycle
<1> QED
  BY <1>2, <1>6, <1>7 DEF SearchInv

(* Every step of the search preserves the invariant.                       *)
LEMMA NextSearch == SearchInv /\ [Next]_vars => SearchInv'
<1> SUFFICES ASSUME SearchInv, [Next]_vars PROVE SearchInv'
  OBVIOUS
<1>1. ASSUME NEW n \in Ids, Root(n) \/ Descend(n) \/ Skip(n) \/ Close(n)
      PROVE  SearchInv'
  BY <1>1, RootStep, DescendStep, SkipStep, CloseStep
<1>2. CASE Return
  BY <1>2, ReturnStep
<1>3. CASE NoCycle
  BY <1>3, NoCycleStep
<1>4. CASE UNCHANGED vars
  <2>1. UNCHANGED <<dependsOn, roots, visited, recStack, cyclePath, todo, result, cycle>>
    BY <1>4 DEF vars
  <2> QED
    BY <2>1 DEF SearchInv, SearchTypeOK, StackIsPath, FinishedIsAcyclic,
                RangedOver, Finished, DecidesCyclic, ReportsACycle
<1> QED
  BY <1>1, <1>2, <1>3, <1>4 DEF Next

(* hasCycle of dag.go decides whether a graph is cyclic, for any number of *)
(* vertices and any order of its two range loops, and the cycle it returns *)
(* is one.                                                                 *)
THEOREM SearchInvariant == Spec => []SearchInv
  BY InitSearch, NextSearch, PTL DEF Spec

(* hasCycle answers "cycle" exactly for the cyclic graphs.                 *)
THEOREM SearchDecides == Spec => []DecidesCyclic
<1>1. SearchInv => DecidesCyclic
  BY DEF SearchInv
<1> QED
  BY <1>1, SearchInvariant, PTL

(* The path in the error of hasCycle is a simple cycle of the graph.       *)
THEOREM SearchReports == Spec => []ReportsACycle
<1>1. SearchInv => ReportsACycle
  BY DEF SearchInv
<1> QED
  BY <1>1, SearchInvariant, PTL

====
