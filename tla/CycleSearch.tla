---- MODULE CycleSearch ----
(***************************************************************************)
(* The depth-first search of hasCycle in kro/graph/dag/dag.go, one step of *)
(* a loop at a time.  The two "range" loops over Go maps pick their next   *)
(* element in any order; the call stack of dfs is cyclePath together with  *)
(* todo, the dependencies each active call has not ranged over yet.        *)
(***************************************************************************)
EXTENDS Digraphs

CONSTANT Ids

ASSUME IdsFinite == IsFiniteSet(Ids)

VARIABLES dependsOn,  \* the graph, which the search only reads
          roots,      \* vertices the outer loop has not ranged over yet
          visited,
          recStack,
          cyclePath,
          todo,
          result,     \* "running", or what hasCycle returns
          cycle       \* the cycle it returns

vars == <<dependsOn, roots, visited, recStack, cyclePath, todo, result, cycle>>

(* AddDependencies refuses self references, so no graph has one.           *)
Init ==
    /\ dependsOn \in {g \in [Ids -> SUBSET Ids] : \A n \in Ids : n \notin g[n]}
    /\ roots = Ids
    /\ visited = {}
    /\ recStack = {}
    /\ cyclePath = <<>>
    /\ todo = <<>>
    /\ result = "running"
    /\ cycle = <<>>

Top == Len(cyclePath)

Front(s) == SubSeq(s, 1, Len(s) - 1)

(* The first lines of dfs(n).                                              *)
Enter(n) ==
    /\ visited' = visited \cup {n}
    /\ recStack' = recStack \cup {n}
    /\ cyclePath' = Append(cyclePath, n)

(* The outer loop reaches vertex n; cyclePath is empty then, so resetting  *)
(* it changes nothing.                                                     *)
Root(n) ==
    /\ result = "running" /\ cyclePath = <<>>
    /\ n \in roots
    /\ roots' = roots \ {n}
    /\ IF n \in visited
       THEN UNCHANGED <<visited, recStack, cyclePath, todo>>
       ELSE Enter(n) /\ todo' = <<dependsOn[n]>>
    /\ UNCHANGED <<dependsOn, result, cycle>>

Ranging(d) ==
    /\ result = "running" /\ Top > 0
    /\ d \in todo[Top]

Descend(d) ==
    /\ Ranging(d)
    /\ d \notin visited
    /\ Enter(d)
    /\ todo' = Append([todo EXCEPT ![Top] = @ \ {d}], dependsOn[d])
    /\ UNCHANGED <<dependsOn, roots, result, cycle>>

\* Mutant: an edge to a vertex searched before is looked at again.
SkipForever(d) ==
    /\ Ranging(d)
    /\ d \in visited /\ d \notin recStack
    /\ UNCHANGED vars

Skip(d) ==
    /\ Ranging(d)
    /\ d \in visited /\ d \notin recStack
    /\ todo' = [todo EXCEPT ![Top] = @ \ {d}]
    /\ UNCHANGED <<dependsOn, roots, visited, recStack, cyclePath, result, cycle>>

\* Mutant: returns the path that led to the cycle as part of it.
TrimNothing(path) == path

(* The path from the first occurrence of its last vertex; all of it if it  *)
(* occurs nowhere before.                                                  *)
Trim(path) ==
    LET last   == path[Len(path)]
        places == {i \in 1..(Len(path) - 1) : path[i] = last}
        start  == IF places = {} THEN 1
                  ELSE CHOOSE i \in places : \A j \in places : i <= j
    IN  SubSeq(path, start, Len(path))

Close(d) ==
    /\ Ranging(d)
    /\ d \in visited /\ d \in recStack
    /\ cyclePath' = Append(cyclePath, d)
    /\ result' = "cycle"
    /\ cycle' = Trim(Append(cyclePath, d))
    /\ UNCHANGED <<dependsOn, roots, visited, recStack, todo>>

\* Mutant: a finished vertex stays on the recursion stack.
ReturnStillOnStack ==
    /\ result = "running" /\ Top > 0
    /\ todo[Top] = {}
    /\ cyclePath' = Front(cyclePath)
    /\ todo' = Front(todo)
    /\ UNCHANGED <<dependsOn, roots, visited, recStack, result, cycle>>

Return ==
    /\ result = "running" /\ Top > 0
    /\ todo[Top] = {}
    /\ recStack' = recStack \ {cyclePath[Top]}
    /\ cyclePath' = Front(cyclePath)
    /\ todo' = Front(todo)
    /\ UNCHANGED <<dependsOn, roots, visited, result, cycle>>

NoCycle ==
    /\ result = "running" /\ cyclePath = <<>>
    /\ roots = {}
    /\ result' = "none"
    /\ UNCHANGED <<dependsOn, roots, visited, recStack, cyclePath, todo, cycle>>

Next ==
    \/ \E n \in Ids : Root(n) \/ Descend(n) \/ Skip(n) \/ Close(n)
    \/ Return
    \/ NoCycle

(* A function that is running runs on.                                     *)
Spec == Init /\ [][Next]_vars /\ WF_vars(Next)

----

(* hasCycle answers "cycle" exactly for the graphs that have one, in       *)
(* whichever order the maps are ranged over: a vertex reached twice along  *)
(* different paths is not mistaken for a cycle, and no cycle is missed     *)
(* because an earlier search had visited a part of it.                     *)
DecidesCyclic ==
    /\ result = "cycle" => Cyclic(Ids, dependsOn)
    /\ result = "none" => ~Cyclic(Ids, dependsOn)

(* The cycle in the error message is one: each vertex depends on the next, *)
(* it ends where it starts, and visits no other vertex twice.              *)
ReportsACycle ==
    result = "cycle" =>
        /\ Len(cycle) > 2
        /\ cycle[1] = cycle[Len(cycle)]
        /\ \A i \in 1..(Len(cycle) - 1) : cycle[i + 1] \in dependsOn[cycle[i]]
        /\ \A i, j \in 1..(Len(cycle) - 1) : cycle[i] = cycle[j] => i = j

(* The search comes to an end on every graph.                              *)
Terminates == <>(result # "running")

====
