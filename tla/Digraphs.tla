---- MODULE Digraphs ----
(***************************************************************************)
(* Vocabulary shared by the modules about the dependency graph.            *)
(***************************************************************************)
EXTENDS Integers, Sequences, FiniteSets

Elems(s) == {s[i] : i \in 1..Len(s)}

(* The graph dep restricted to the vertices V has a cycle: some nonempty   *)
(* set of vertices has no vertex free of dependencies inside the set.      *)
Cyclic(V, dep) ==
    \E S \in SUBSET V : S # {} /\ \A n \in S : dep[n] \cap S # {}
====
