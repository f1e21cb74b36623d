---- MODULE FunctionProofs ----
(***************************************************************************)
(* Proofs about Function, for every graph, every meaning of its            *)
(* expressions and every request.                                          *)
(***************************************************************************)
EXTENDS Function, WellFoundedInduction, TLAPS

(* A nonempty set of numbers has a least one.                              *)
LEMMA LeastNumber ==
    ASSUME NEW T \in SUBSET Nat, T # {}
    PROVE  \E x \in T : \A y \in T : x <= y
<1> DEFINE R == OpToRel(<, Nat)
<1>1. IsWellFoundedOn(R, Nat)
  BY NatLessThanWellFounded
<1>2. \A u, v \in Nat : u < v => <<u, v>> \in R
  BY DEF OpToRel
<1> HIDE DEF R
<1>3. PICK x \in T : \A y \in T : ~(<<y, x>> \in R)
  BY <1>1, WFMin
<1>4. \A y \in T : x \in Nat /\ y \in Nat /\ ~(y < x)
  BY <1>2, <1>3
<1> QED
  BY <1>4

----
(* What the operators of Runtime return                                    *)

(* FirstNotTrue finds the first value that is not true.                    *)
LEMMA FirstNotTrueIsFirst ==
    ASSUME NEW vals, Len(vals) \in Nat, DOMAIN vals = 1..Len(vals),
           \E i \in DOMAIN vals : vals[i] # "true"
    PROVE  /\ FirstNotTrue(vals) \in 1..Len(vals)
           /\ vals[FirstNotTrue(vals)] # "true"
           /\ \A j \in 1..(FirstNotTrue(vals) - 1) : vals[j] = "true"
<1> DEFINE T == {i \in DOMAIN vals : vals[i] # "true"}
<1>1. T \in SUBSET Nat /\ T # {}
  OBVIOUS
<1>2. PICK i \in T : \A j \in T : i <= j
  <2> HIDE DEF T
  <2> QED
    BY <1>1, LeastNumber
<1>3. /\ i \in DOMAIN vals /\ vals[i] # "true"
      /\ \A j \in 1..(i - 1) : vals[j] = "true"
  BY <1>2
<1>4. FirstNotTrue(vals) = CHOOSE k \in DOMAIN vals :
                              /\ vals[k] # "true"
                              /\ \A j \in 1..(k - 1) : vals[j] = "true"
  BY <1>3 DEF FirstNotTrue
<1> QED
  BY <1>3, <1>4

(* Only expressions that are all true make an object ready.                *)
LEMMA ReadyMeansTrue ==
    ASSUME NEW vals, Len(vals) \in Nat, DOMAIN vals = 1..Len(vals),
           Readiness(vals) = "ready"
    PROVE  \A i \in 1..Len(vals) : vals[i] = "true"
<1> SUFFICES ASSUME \E i \in DOMAIN vals : vals[i] # "true"
             PROVE  FALSE
  OBVIOUS
<1>1. FirstNotTrue(vals) \in 1..Len(vals)
  BY FirstNotTrueIsFirst
<1>2. FirstNotTrue(vals) # Len(vals) + 1
  BY <1>1
<1> QED
  BY <1>2 DEF Readiness

(* A readiness check returns an answer, and if it can return "ready" it    *)
(* can return nothing else.                                                *)
LEMMA ReadinessValues ==
    ASSUME NEW d \in Nodes
    PROVE  /\ checkObservedReadiness(d) \subseteq {"ready", "waiting", "error"}
           /\ "ready" \in checkObservedReadiness(d)
                => checkObservedReadiness(d) = {"ready"}
<1>1. /\ checkSingleResourceReadiness(d) \subseteq {"ready", "waiting", "error"}
      /\ "ready" \in checkSingleResourceReadiness(d)
           => checkSingleResourceReadiness(d) = {"ready"}
  BY DEF checkSingleResourceReadiness, Readiness
<1>2. /\ EachReadiness(d) \subseteq {"ready", "waiting", "error"}
      /\ "ready" \in EachReadiness(d) => EachReadiness(d) = {"ready"}
  BY DEF EachReadiness, Readiness
<1>3. /\ checkCollectionReadiness(d) \subseteq {"ready", "waiting", "error"}
      /\ "ready" \in checkCollectionReadiness(d)
           => checkCollectionReadiness(d) = {"ready"}
  BY <1>2 DEF checkCollectionReadiness
<1> QED
  BY <1>1, <1>3 DEF checkObservedReadiness

(* The readiness gate of includeWhen never lets a node through as included *)
(* by itself.                                                              *)
LEMMA GateValues ==
    ASSUME NEW n \in Nodes
    PROVE  IncludeGate(n) \subseteq {"pending", "error"}
<1>1. \A d \in Deps[n] : checkObservedReadiness(d) \subseteq {"ready", "waiting", "error"}
  BY ReadinessValues, RuntimeAssumption
<1> QED
  BY <1>1 DEF IncludeGate

(* A node's own includeWhen has one of four verdicts, and "included"       *)
(* excludes the others.                                                    *)
LEMMA OwnInclusionValues ==
    ASSUME NEW n \in Nodes
    PROVE  /\ OwnInclusion(n) \subseteq {"included", "ignored", "pending", "error"}
           /\ "included" \in OwnInclusion(n) => OwnInclusion(n) = {"included"}
<1>1. EvalIncludeWhen(n) \in {"included", "ignored", "pending", "error"}
  BY DEF EvalIncludeWhen, IncludeVerdict
<1> QED
  BY <1>1, GateValues DEF OwnInclusion

(* A node that can be found included is included.                          *)
LEMMA IncludedIsCertain ==
    ASSUME NEW n \in Nodes
    PROVE  /\ IsIgnored(n) \subseteq {"included", "ignored", "pending", "error"}
           /\ "included" \in IsIgnored(n) <=> Included(n)
<1>1. Upstream[n] \subseteq Nodes
  BY DEF Upstream
<1>2. \A a \in Upstream[n] :
        /\ OwnInclusion(a) \subseteq {"included", "ignored", "pending", "error"}
        /\ "included" \in OwnInclusion(a) => OwnInclusion(a) = {"included"}
  BY <1>1, OwnInclusionValues
<1> QED
  BY <1>2 DEF IsIgnored

----
(* Upstream                                                                *)

(* Upstream contains the node and what is upstream of its dependencies.    *)
LEMMA UpstreamFacts ==
    ASSUME NEW n \in Nodes
    PROVE  /\ Upstream[n] \subseteq Nodes
           /\ n \in Upstream[n]
           /\ \A d \in Deps[n] : Upstream[d] \subseteq Upstream[n]
<1>1. Upstream[n] \subseteq Nodes /\ n \in Upstream[n]
  BY DEF Upstream
<1>2. ASSUME NEW d \in Deps[n], NEW a \in Upstream[d]
      PROVE  a \in Upstream[n]
  <2>1. d \in Nodes /\ a \in Nodes
    BY RuntimeAssumption DEF Upstream
  <2>2. ASSUME NEW S \in SUBSET Nodes, n \in S, \A m \in S : Deps[m] \subseteq S
        PROVE  a \in S
    BY <2>1, <2>2 DEF Upstream
  <2> QED
    BY <2>1, <2>2 DEF Upstream
<1> QED
  BY <1>1, <1>2

(* A set that is closed under dependencies holds what is upstream of its   *)
(* members.                                                                *)
LEMMA UpstreamInClosed ==
    ASSUME NEW S \in SUBSET Nodes, \A m \in S : Deps[m] \subseteq S, NEW n \in S
    PROVE  Upstream[n] \subseteq S
BY DEF Upstream

(* So a node is included only if its dependencies are.                     *)
LEMMA IncludedDeps ==
    ASSUME NEW n \in Nodes, Included(n), NEW d \in Deps[n]
    PROVE  d \in Nodes /\ Included(d) /\ IsIgnored(d) = {"included"}
<1>1. d \in Nodes /\ Upstream[d] \subseteq Upstream[n]
  BY UpstreamFacts, RuntimeAssumption
<1>2. Included(d)
  BY <1>1 DEF Included
<1> QED
  BY <1>1, <1>2 DEF IsIgnored

(* Upstream of a node are the node and what is upstream of its             *)
(* dependencies; no node is upstream of what it depends on.                *)
LEMMA UpstreamUnfolds ==
    ASSUME NEW n \in Nodes
    PROVE  /\ Upstream[n] = {n} \cup UNION {Upstream[d] : d \in Deps[n]}
           /\ \A d \in Deps[n] : n \notin Upstream[d]
<1>0. Deps[n] \subseteq Nodes
  BY RuntimeAssumption
<1>1. {n} \cup UNION {Upstream[d] : d \in Deps[n]} \subseteq Upstream[n]
  BY UpstreamFacts
<1>2. Upstream[n] \subseteq {n} \cup UNION {Upstream[d] : d \in Deps[n]}
  <2> DEFINE S == {n} \cup UNION {Upstream[d] : d \in Deps[n]}
  <2>1. S \in SUBSET Nodes /\ n \in S
    BY <1>1, UpstreamFacts
  <2>2. ASSUME NEW m \in S PROVE Deps[m] \subseteq S
    <3>1. CASE m = n
      BY <1>0, <3>1, UpstreamFacts
    <3>2. ASSUME NEW d \in Deps[n], m \in Upstream[d]
          PROVE  Deps[m] \subseteq Upstream[d]
      <4>1. d \in Nodes /\ m \in Nodes /\ Deps[m] \subseteq Nodes
        BY <1>0, <3>2, UpstreamFacts, RuntimeAssumption
      <4> QED
        BY <3>2, <4>1 DEF Upstream
    <3> QED
      BY <3>1, <3>2
  <2> HIDE DEF S
  <2>3. Upstream[n] \subseteq S
    BY <2>1, <2>2, UpstreamInClosed
  <2> QED
    BY <2>3 DEF S
<1>3. ASSUME NEW d \in Deps[n] PROVE n \notin Upstream[d]
  <2>1. PICK p \in 1..Len(Order) : Order[p] = n
    BY FunctionAssumption
  <2> DEFINE S == {Order[j] : j \in 1..(p - 1)}
  <2>2. Len(Order) \in Nat /\ p \in Nat
    BY FunctionAssumption
  <2>3. S \in SUBSET Nodes /\ n \notin S
    BY <2>1, <2>2, FunctionAssumption
  <2>4. ASSUME NEW j \in 1..p, NEW e \in Deps[Order[j]] PROVE e \in S
    <3>1. j \in 1..Len(Order) /\ Order[j] \in Nodes
      BY <2>2, FunctionAssumption
    <3>2. e \in Nodes
      BY <3>1, RuntimeAssumption
    <3>3. PICK k \in 1..Len(Order) : Order[k] = e
      BY <3>2, FunctionAssumption
    <3>4. k < j
      BY <3>1, <3>3, FunctionAssumption
    <3> QED
      BY <2>2, <3>3, <3>4
  <2>5. d \in S
    BY <2>1, <2>2, <2>4
  <2>6. ASSUME NEW m \in S PROVE Deps[m] \subseteq S
    <3>1. PICK j \in 1..(p - 1) : m = Order[j]
      OBVIOUS
    <3>2. j \in 1..p
      BY <2>2
    <3> HIDE DEF S
    <3> QED
      BY <2>4, <3>1, <3>2
  <2> HIDE DEF S
  <2> QED
    BY <2>3, <2>5, <2>6, UpstreamInClosed
<1> QED
  BY <1>1, <1>2, <1>3

----
(* IsIgnored as the code writes it                                         *)

(* The body of the recursion, over the answers f of the dependencies.      *)
Inclusion(f, n) ==
    (IF \A d \in Deps[n] : "included" \in f[d] THEN OwnInclusion(n) ELSE {})
      \cup ((UNION {f[d] : d \in Deps[n]}) \ {"included"})

(* Everything upstream of the node that is not included and has everything *)
(* upstream of itself included.                                            *)
Deciding(n) ==
    {b \in Upstream[n] : /\ OwnInclusion(b) # {"included"}
                         /\ \A c \in Upstream[b] \ {b} : OwnInclusion(c) = {"included"}}

(* The closed form solves the recursion.                                   *)
LEMMA ClosedFormSolves ==
    ASSUME NEW n \in Nodes
    PROVE  IsIgnored(n) = Inclusion([m \in Nodes |-> IsIgnored(m)], n)
<1> DEFINE f == [m \in Nodes |-> IsIgnored(m)]
<1>0. \A d \in Deps[n] : d \in Nodes /\ f[d] = IsIgnored(d)
  BY RuntimeAssumption
<1>1. \A d \in Deps[n] : "included" \in f[d] <=> Included(d)
  BY <1>0, IncludedIsCertain
<1>2. \A m \in Nodes : IsIgnored(m) = IF Included(m) THEN {"included"}
                                      ELSE UNION {OwnInclusion(a) : a \in Deciding(m)}
  BY DEF IsIgnored, Deciding
<1>3. \A a \in Upstream[n] :
        "included" \in OwnInclusion(a) => OwnInclusion(a) = {"included"}
  BY UpstreamFacts, OwnInclusionValues
<1>4. Included(n) <=> /\ OwnInclusion(n) = {"included"}
                      /\ \A d \in Deps[n] : Included(d)
  BY UpstreamUnfolds DEF Included
<1>5. CASE \A d \in Deps[n] : Included(d)
  <2>1. Inclusion(f, n) = OwnInclusion(n)
    <3>1. \A d \in Deps[n] : f[d] = {"included"}
      BY <1>0, <1>2, <1>5
    <3> HIDE DEF f
    <3> QED
      BY <3>1 DEF Inclusion
  <2>2. CASE OwnInclusion(n) = {"included"}
    BY <1>2, <1>4, <1>5, <2>1, <2>2
  <2>3. CASE OwnInclusion(n) # {"included"}
    <3>1. \A a \in Upstream[n] \ {n} : OwnInclusion(a) = {"included"}
      BY <1>5, UpstreamUnfolds DEF Included
    <3>2. Deciding(n) = {n}
      BY <2>3, <3>1, UpstreamFacts DEF Deciding
    <3>3. ~Included(n)
      BY <1>4, <2>3
    <3>4. IsIgnored(n) = UNION {OwnInclusion(a) : a \in Deciding(n)}
      BY <1>2, <3>3
    <3> QED
      BY <2>1, <3>2, <3>4
  <2> QED
    BY <2>2, <2>3
<1>6. CASE ~ \A d \in Deps[n] : Included(d)
  <2>1. ~Included(n)
    BY <1>4, <1>6
  <2>2. n \notin Deciding(n)
    <3>1. PICK d \in Deps[n] : ~Included(d)
      BY <1>6
    <3>2. PICK c \in Upstream[d] : OwnInclusion(c) # {"included"}
      BY <3>1 DEF Included
    <3>3. c \in Upstream[n] \ {n}
      BY <3>2, UpstreamUnfolds
    <3> QED
      BY <3>2, <3>3 DEF Deciding
  <2>3. Deciding(n) = UNION {Deciding(d) : d \in Deps[n]}
    BY <2>2, UpstreamUnfolds DEF Deciding
  <2>4. \A d \in Deps[n] : Included(d) => Deciding(d) = {}
    BY DEF Deciding, Included
  <2>5. \A d \in Deps[n] :
           f[d] \ {"included"} = UNION {OwnInclusion(a) : a \in Deciding(d)}
    <3> SUFFICES ASSUME NEW d \in Deps[n]
                 PROVE  f[d] \ {"included"} = UNION {OwnInclusion(a) : a \in Deciding(d)}
      OBVIOUS
    <3>1. CASE Included(d)
      BY <1>0, <1>2, <2>4, <3>1
    <3>2. CASE ~Included(d)
      <4>1. f[d] = UNION {OwnInclusion(a) : a \in Deciding(d)}
        BY <1>0, <1>2, <3>2
      <4>2. \A a \in Deciding(d) : "included" \notin OwnInclusion(a)
        BY <1>3, UpstreamUnfolds DEF Deciding
      <4> HIDE DEF f
      <4> QED
        BY <4>1, <4>2
    <3> QED
      BY <3>1, <3>2
  <2>6. Inclusion(f, n) = (UNION {f[d] : d \in Deps[n]}) \ {"included"}
    <3> HIDE DEF f
    <3> QED
      BY <1>1, <1>6 DEF Inclusion
  <2>7. (UNION {f[d] : d \in Deps[n]}) \ {"included"}
          = UNION {f[d] \ {"included"} : d \in Deps[n]}
    <3> HIDE DEF f
    <3> DEFINE A == UNION {f[d] : d \in Deps[n]}
               B == UNION {f[d] \ {"included"} : d \in Deps[n]}
    <3>1. \A x : x \in A <=> \E d \in Deps[n] : x \in f[d]
      OBVIOUS
    <3>2. \A x : x \in B <=> \E d \in Deps[n] : x \in f[d] /\ x # "included"
      OBVIOUS
    <3> HIDE DEF A, B
    <3>3. A \ {"included"} = B
      BY <3>1, <3>2
    <3> QED
      BY <3>3 DEF A, B
  <2>8. IsIgnored(n) = UNION {OwnInclusion(a) : a \in Deciding(n)}
    BY <1>2, <2>1
  <2>9. UNION {OwnInclusion(a) : a \in Deciding(n)}
          = UNION {f[d] \ {"included"} : d \in Deps[n]}
    <3> HIDE DEF f
    <3> QED
      BY <2>3, <2>5
  <2> QED
    BY <2>6, <2>7, <2>8, <2>9
<1> QED
  BY <1>5, <1>6

(* The recursion has no other solution: the first node, in topological     *)
(* order, where another one differed would have dependencies that agree.   *)
LEMMA SolutionIsUnique ==
    ASSUME NEW f, f = [n \in Nodes |-> Inclusion(f, n)], NEW n \in Nodes
    PROVE  f[n] = IsIgnored(n)
<1> DEFINE g == [m \in Nodes |-> IsIgnored(m)]
           T == {i \in 1..Len(Order) : f[Order[i]] # g[Order[i]]}
<1>1. T = {}
  <2> SUFFICES ASSUME T # {} PROVE FALSE
    OBVIOUS
  <2>1. T \in SUBSET Nat
    OBVIOUS
  <2>2. PICK i \in T : \A j \in T : i <= j
    <3> HIDE DEF T
    <3> QED
      BY <2>1, LeastNumber
  <2>3. i \in 1..Len(Order) /\ Order[i] \in Nodes /\ Len(Order) \in Nat
    BY FunctionAssumption
  <2>4. ASSUME NEW d \in Deps[Order[i]] PROVE f[d] = g[d]
    <3>1. d \in Nodes
      BY <2>3, RuntimeAssumption
    <3>2. PICK j \in 1..Len(Order) : Order[j] = d
      BY <3>1, FunctionAssumption
    <3>3. j < i
      BY <2>3, <3>2, FunctionAssumption
    <3>4. j \notin T
      BY <2>2, <2>3, <3>2, <3>3
    <3> QED
      BY <3>2, <3>4
  <2>5. Inclusion(f, Order[i]) = Inclusion(g, Order[i])
    <3> HIDE DEF g
    <3> DEFINE D == Deps[Order[i]]
    <3>0. \A d \in D : f[d] = g[d]
      BY <2>4
    <3>1. {f[d] : d \in D} = {g[d] : d \in D}
      <4> HIDE DEF D
      <4>1. \A x \in {f[d] : d \in D} : x \in {g[d] : d \in D}
        BY <3>0
      <4>2. \A x \in {g[d] : d \in D} : x \in {f[d] : d \in D}
        BY <3>0
      <4> QED
        BY <4>1, <4>2
    <3>2. (\A d \in D : "included" \in f[d]) <=> (\A d \in D : "included" \in g[d])
      BY <2>4
    <3> QED
      BY <3>1, <3>2, Zenon DEF Inclusion
  <2>6. f[Order[i]] = Inclusion(f, Order[i])
    <3> DEFINE h == [m \in Nodes |-> Inclusion(f, m)]
    <3>1. h[Order[i]] = Inclusion(f, Order[i])
      BY <2>3
    <3> QED
      BY <3>1
  <2>7. g[Order[i]] = Inclusion(g, Order[i])
    BY <2>3, ClosedFormSolves
  <2> QED
    BY <2>5, <2>6, <2>7
<1>2. PICK i \in 1..Len(Order) : Order[i] = n
  BY FunctionAssumption
<1> QED
  BY <1>1, <1>2

(* So the recursive function of the code is the closed form.               *)
LEMMA AsWritten == InclusionIsContagious
<1> DEFINE g == [m \in Nodes |-> IsIgnored(m)]
           Solves(f) == f = [n \in Nodes |-> Inclusion(f, n)]
<1>1. Solves(g)
  BY ClosedFormSolves
<1>2. IsIgnoredAsWritten = CHOOSE f : Solves(f)
  BY DEF IsIgnoredAsWritten, Inclusion
<1>3. Solves(IsIgnoredAsWritten)
  <2> HIDE DEF g, Solves
  <2> QED
    BY <1>1, <1>2
<1> QED
  BY <1>3, SolutionIsUnique DEF InclusionIsContagious

(* On every graph, IsIgnored as the code writes it, recursively and in any *)
(* order of the dependencies, is contagious: a node is included exactly if *)
(* everything upstream of it is.                                           *)
THEOREM Contagion == Spec => []InclusionIsContagious
  BY AsWritten, PTL

----
(* What a step that keeps the observed state changes                       *)

(* The readiness of a node depends on the observed state and on its own    *)
(* desired items alone.                                                    *)
LEMMA ReadinessFrame ==
    ASSUME observed' = observed, NEW d \in Nodes,
           d \in computed' <=> d \in computed, desired'[d] = desired[d]
    PROVE  checkObservedReadiness(d)' = checkObservedReadiness(d)
<1>1. checkSingleResourceReadiness(d)' = checkSingleResourceReadiness(d)
  BY DEF checkSingleResourceReadiness, Readiness, FirstNotTrue, evalBoolExpr, filterContext
<1>2. EachReadiness(d)' = EachReadiness(d)
  BY DEF EachReadiness, Readiness, FirstNotTrue
<1>3. checkCollectionReadiness(d)' = checkCollectionReadiness(d)
  BY <1>2 DEF checkCollectionReadiness
<1> QED
  BY <1>1, <1>3 DEF checkObservedReadiness, ManyObjects

(* A node's own inclusion depends on the observed state and on the         *)
(* readiness of its dependencies.                                          *)
LEMMA OwnInclusionFrame ==
    ASSUME observed' = observed, xr' = xr, NEW n \in Nodes,
           \A d \in Deps[n] : checkObservedReadiness(d)' = checkObservedReadiness(d)
    PROVE  OwnInclusion(n)' = OwnInclusion(n)
<1>1. IncludeGate(n)' = IncludeGate(n)
  BY DEF IncludeGate, IncludeRefs
<1>2. buildContext(n, IncludeRefs(n))' = buildContext(n, IncludeRefs(n))
  BY DEF buildContext, IncludeRefs
<1>3. EvalIncludeWhen(n)' = EvalIncludeWhen(n)
  BY <1>2 DEF EvalIncludeWhen
<1> QED
  BY <1>1, <1>3 DEF OwnInclusion

(* If no inclusion changes in a set closed under dependencies, IsIgnored   *)
(* does not change there.                                                  *)
LEMMA InclusionFrame ==
    ASSUME NEW S \in SUBSET Nodes, \A m \in S : Deps[m] \subseteq S,
           \A a \in S : OwnInclusion(a)' = OwnInclusion(a),
           NEW n \in S
    PROVE  /\ Included(n)' <=> Included(n)
           /\ IsIgnored(n)' = IsIgnored(n)
<1>1. \A b \in S : Upstream[b] \subseteq S
  BY UpstreamInClosed
<1>2. Included(n)' <=> Included(n)
  BY <1>1 DEF Included
<1>3. \A b \in Upstream[n] : \A c \in Upstream[b] \ {b} :
         OwnInclusion(c)' = OwnInclusion(c)
  BY <1>1
<1> QED
  BY <1>1, <1>2, <1>3 DEF IsIgnored

(* The resolution of a template depends on the observed state alone.       *)
LEMMA ResolutionFrame ==
    ASSUME observed' = observed, xr' = xr, NEW n \in Nodes
    PROVE  Resolution(n)' = Resolution(n)
<1>1. buildContext(n, {})' = buildContext(n, {})
  BY DEF buildContext
<1>2. hardResolveCollection(n)' = hardResolveCollection(n)
  BY <1>1 DEF hardResolveCollection, Outcome, Distinct
<1> QED
  BY <1>1, <1>2 DEF Resolution, Outcome

(* A step that keeps the observed state and what is computed of the first  *)
(* p - 1 nodes changes no answer about the first p nodes: everything they  *)
(* are asked goes to nodes before them.                                    *)
LEMMA RenderableFrame ==
    ASSUME observed' = observed, xr' = xr,
           NEW p \in 0..Len(Order),
           \A j \in 1..(p - 1) : /\ Order[j] \in computed' <=> Order[j] \in computed
                                 /\ desired'[Order[j]] = desired[Order[j]],
           NEW i \in 1..p
    PROVE  Renderable(Order[i])' <=> Renderable(Order[i])
<1> DEFINE S == {Order[j] : j \in 1..p}
           B == {Order[j] : j \in 1..(p - 1)}
<1>0. Len(Order) \in Nat /\ p \in Nat /\ i \in Nat /\ 1 <= i /\ i <= p /\ p <= Len(Order)
  BY FunctionAssumption
<1>1. S \subseteq Nodes /\ B \subseteq S /\ Order[i] \in S
  BY <1>0, FunctionAssumption
<1>2. \A m \in S : Deps[m] \subseteq B
  <2> SUFFICES ASSUME NEW j \in 1..p, NEW d \in Deps[Order[j]]
               PROVE  d \in B
    OBVIOUS
  <2>1. j \in 1..Len(Order) /\ Order[j] \in Nodes
    BY <1>0, FunctionAssumption
  <2>2. d \in Nodes
    BY <2>1, RuntimeAssumption
  <2>3. PICK k \in 1..Len(Order) : Order[k] = d
    BY <2>2, FunctionAssumption
  <2>4. k < j
    BY <2>1, <2>3, FunctionAssumption
  <2> QED
    BY <2>3, <2>4, <1>0
<1>3. \A d \in B : checkObservedReadiness(d)' = checkObservedReadiness(d)
  <2> SUFFICES ASSUME NEW j \in 1..(p - 1)
               PROVE  checkObservedReadiness(Order[j])' = checkObservedReadiness(Order[j])
    OBVIOUS
  <2>1. Order[j] \in Nodes
    BY <1>1
  <2> QED
    BY <2>1, ReadinessFrame
<1>4. \A a \in S : OwnInclusion(a)' = OwnInclusion(a)
  BY <1>1, <1>2, <1>3, OwnInclusionFrame
<1>5. \A m \in S : Deps[m] \subseteq S
  BY <1>1, <1>2
<1>6. \A n \in S : (Included(n)' <=> Included(n)) /\ IsIgnored(n)' = IsIgnored(n)
  <2> HIDE DEF S, B
  <2> QED
    BY <1>1, <1>4, <1>5, InclusionFrame
<1>7. \A d \in B : CheckReadiness(d)' = CheckReadiness(d)
  <2> SUFFICES ASSUME NEW d \in B
               PROVE  CheckReadiness(d)' = CheckReadiness(d)
    OBVIOUS
  <2>1. IsIgnored(d)' = IsIgnored(d) /\ checkObservedReadiness(d)' = checkObservedReadiness(d)
    BY <1>1, <1>3, <1>6
  <2> QED
    BY <2>1 DEF CheckReadiness
<1>8. ResolveGate(Order[i])' = ResolveGate(Order[i])
  <2> HIDE DEF S, B
  <2>1. \A d \in Deps[Order[i]] : CheckReadiness(d)' = CheckReadiness(d)
    BY <1>1, <1>2, <1>7
  <2> QED
    BY <2>1 DEF ResolveGate
<1>9. Resolution(Order[i])' = Resolution(Order[i])
  BY <1>1, ResolutionFrame
<1> QED
  BY <1>1, <1>6, <1>8, <1>9 DEF Renderable, Managed

----
(* What rendering a node presupposes                                       *)

(* The gate of an included node passes only if every dependency is ready.  *)
LEMMA GateOfIncluded ==
    ASSUME NEW n \in Nodes, Included(n)
    PROVE  /\ ResolveGate(n) \subseteq {"ready", "pending", "error"}
           /\ "ready" \in ResolveGate(n) =>
                 /\ ResolveGate(n) = {"ready"}
                 /\ \A d \in Deps[n] : checkObservedReadiness(d) = {"ready"}
<1>1. ASSUME NEW d \in Deps[n]
      PROVE  /\ CheckReadiness(d) = checkObservedReadiness(d)
             /\ CheckReadiness(d) \subseteq {"ready", "waiting", "error"}
             /\ "ready" \in CheckReadiness(d) => CheckReadiness(d) = {"ready"}
  <2>1. d \in Nodes /\ IsIgnored(d) = {"included"}
    BY IncludedDeps
  <2>2. CheckReadiness(d) = checkObservedReadiness(d)
    BY <2>1 DEF CheckReadiness
  <2> QED
    BY <2>1, <2>2, ReadinessValues
<1> DEFINE answers(d) == {IF r = "waiting" THEN "pending" ELSE r : r \in CheckReadiness(d)}
<1>2. ASSUME NEW d \in Deps[n]
      PROVE  /\ answers(d) \subseteq {"ready", "pending", "error"}
             /\ "ready" \in answers(d) => /\ answers(d) = {"ready"}
                                          /\ checkObservedReadiness(d) = {"ready"}
  BY <1>1
<1>3. ResolveGate(n) = (IF \A d \in Deps[n] : "ready" \in answers(d) THEN {"ready"} ELSE {})
                         \cup ((UNION {answers(d) : d \in Deps[n]}) \ {"ready"})
  BY DEF ResolveGate
<1> HIDE DEF answers
<1> QED
  BY <1>2, <1>3

----
(* Type correctness                                                        *)

(* Type of the desired state that the response starts with.                *)
LEMMA PriorType == PriorDesired \in [ComposedKeys -> {Absent, "prior"}]
BY DEF PriorDesired

(* A call starts in a type-correct state.                                  *)
LEMMA InitTypeOK == Init => TypeOK
<1> SUFFICES ASSUME Init PROVE TypeOK
  OBVIOUS
<1>1. req \in Requests /\ xr \in Specs
  BY FunctionAssumption DEF Init, Start, Requests
<1>2. 1 \in 1..(Len(Order) + 1)
  BY FunctionAssumption
<1>3. PriorDesired \in [ComposedKeys -> Entries]
  BY PriorType DEF Entries
<1> QED
  BY <1>1, <1>2, <1>3 DEF Init, Start, TypeOK, NewResponse

(* The items a template expands to are items.                              *)
LEMMA ResolutionItems ==
    ASSUME NEW n \in Nodes, NEW r \in GetDesired(n)
    PROVE  r.items \in SUBSET Items
<1>1. hardResolveCollection(n).items \in SUBSET Items
  BY DEF hardResolveCollection
<1>2. Resolution(n).items \in SUBSET Items
  BY <1>1 DEF Resolution
<1> QED
  BY <1>2 DEF GetDesired

(* What is set on a node as observed consists of objects.                  *)
LEMMA ObservedObjects ==
    ASSUME TypeOK, NEW n \in Nodes
    PROVE  /\ GroupObserved(n) \in SUBSET Objects
           /\ SetObserved(n, GroupObserved(n)) \in SUBSET Objects
<1>1. ASSUME NEW k \in ManagedKeys, req.composed[k] # Absent
      PROVE  [key |-> k, state |-> req.composed[k]] \in Objects
  <2>1. k \in Keys /\ req.composed[k] \in States
    BY <1>1 DEF TypeOK, Requests, ManagedKeys
  <2> QED
    BY <2>1 DEF Objects
<1>2. GroupObserved(n) \in SUBSET Objects
  BY <1>1 DEF GroupObserved
<1> QED
  BY <1>2 DEF SetObserved, orderedIntersection

(* Every phase of a call preserves the type invariant.                     *)
LEMMA StepTypeOK == TypeOK /\ [RunFunction]_vars => TypeOK'
<1> SUFFICES ASSUME TypeOK, [RunFunction]_vars
             PROVE  TypeOK'
  OBVIOUS
<1> USE FunctionAssumption
<1>0. Len(Order) \in Nat /\ idx \in 1..(Len(Order) + 1)
  BY DEF TypeOK
<1>1. CASE ResolveSchemas
  BY <1>1 DEF ResolveSchemas, TypeOK, runtimeVars
<1>2. CASE ObserveExternals
  <2>1. \A n \in Nodes : req.required[n] \in SUBSET Objects
    BY DEF TypeOK, Requests
  <2> QED
    BY <1>2, <2>1 DEF ObserveExternals, TypeOK
<1>3. ASSUME NEW n \in Nodes, SelectExternal(n)
      PROVE  TypeOK'
  <2>1. idx + 1 \in 1..(Len(Order) + 1)
    BY <1>0, <1>3 DEF SelectExternal
  <2>2. /\ selectors' \in SUBSET Nodes
        /\ computed' \in SUBSET Nodes
        /\ idx' \in 1..(Len(Order) + 1)
        /\ phase' \in {"selectors", "done"}
        /\ rsp' = rsp \/ rsp' = [rsp EXCEPT !.result = "fatal"]
    <3>1. phase = "selectors" /\ selectors \in SUBSET Nodes /\ computed \in SUBSET Nodes
      BY <1>3 DEF SelectExternal, TypeOK
    <3> QED
      BY <1>0, <1>3, <2>1, <3>1 DEF SelectExternal, externalCollectionSelector, Fatal
  <2>3. rsp' \in [result : {"running", "wait", "fatal", "ok"},
                  requirements : SUBSET (Nodes \cup {SchemaReq}),
                  composed : [ComposedKeys -> Entries],
                  status : SUBSET StatusVars]
    BY <2>2 DEF TypeOK
  <2> QED
    BY <1>3, <2>2, <2>3 DEF SelectExternal, TypeOK
<1>4. CASE ObserveComposed
  <2>1. observed' \in [Nodes -> SUBSET Objects]
    BY <1>4, ObservedObjects DEF ObserveComposed, TypeOK
  <2>2. rsp.requirements \cup selectors \in SUBSET (Nodes \cup {SchemaReq})
    BY DEF TypeOK
  <2>3. rsp' \in [result : {"running", "wait", "fatal", "ok"},
                  requirements : SUBSET (Nodes \cup {SchemaReq}),
                  composed : [ComposedKeys -> Entries],
                  status : SUBSET StatusVars]
    BY <1>4, <2>2 DEF ObserveComposed, TypeOK
  <2>4. idx' \in 1..(Len(Order) + 1)
    BY <1>0, <1>4 DEF ObserveComposed
  <2> QED
    BY <1>4, <2>1, <2>3, <2>4 DEF ObserveComposed, TypeOK
<1>5. ASSUME NEW n \in Nodes, BuildNode(n)
      PROVE  TypeOK'
  <2>1. idx + 1 \in 1..(Len(Order) + 1)
    BY <1>0, <1>5 DEF BuildNode
  <2>2. CASE SkipNode
    BY <1>5, <2>1, <2>2 DEF BuildNode, SkipNode, TypeOK
  <2>3. CASE Fatal /\ UNCHANGED <<computed, desired, dcds, idx>>
    BY <1>5, <2>3 DEF BuildNode, Fatal, TypeOK
  <2>4. ASSUME NEW r \in GetDesired(n), AddDesired(n, r.items)
        PROVE  TypeOK'
    <3>1. r.items \in SUBSET Items
      BY ResolutionItems
    <3>2. ReadyState(n)' \in ReadyStates
      BY DEF ReadyState, ReadyStates
    <3>3. dcds' \in [ComposedKeys -> Entries]
      BY <2>4, <3>2 DEF AddDesired, TypeOK, Entries
    <3> QED
      BY <1>5, <2>1, <2>4, <3>1, <3>3 DEF BuildNode, AddDesired, TypeOK
  <2> QED
    BY <1>5, <2>2, <2>3, <2>4 DEF BuildNode
<1>6. CASE SetDesiredComposed
  BY <1>6 DEF SetDesiredComposed, TypeOK, runtimeVars
<1>7. CASE SetDesiredStatus
  BY <1>7 DEF SetDesiredStatus, TypeOK, runtimeVars, ResolvedStatus
<1>8. CASE UNCHANGED vars
  BY <1>8 DEF vars, runtimeVars, TypeOK
<1> QED
  BY <1>1, <1>2, <1>3, <1>4, <1>5, <1>6, <1>7, <1>8 DEF RunFunction

(* Every state of every call is of its type.                               *)
THEOREM TypeCorrect == Spec => []TypeOK
<1> QED
  BY InitTypeOK, StepTypeOK, PTL DEF Spec

----
(* What is rendered                                                        *)

(* A node's composed resource names are its own.                           *)
LEMMA NamesOfNode ==
    ASSUME NEW n \in Nodes, Managed(n), NEW items \in SUBSET Items,
           NEW k \in ComposedNames(n, items)
    PROVE  k \in ManagedKeys /\ k \in ComposedKeys /\ k[1] = n
<1>1. CASE Kind[n] = "collection"
  <2>1. PICK i \in items : k = <<n, ItemName[i]>>
    BY <1>1 DEF ComposedNames, Key
  <2>2. ItemName[i] \in Names /\ ItemName[i] # NoName
    BY RuntimeAssumption
  <2> QED
    BY <1>1, <2>1, <2>2 DEF ManagedKeys, ComposedKeys, Keys, ManyObjects
<1>2. CASE Kind[n] = "resource"
  BY <1>2 DEF ComposedNames, ManagedKeys, ComposedKeys, Keys, ManyObjects
<1> QED
  BY <1>1, <1>2 DEF Managed

(* GetDesired succeeds on an included node only if the node is renderable, *)
(* and then it cannot do anything else.                                    *)
LEMMA RenderableMeansOk ==
    ASSUME NEW n \in Nodes, Managed(n), NEW r \in GetDesired(n)
    PROVE  /\ Included(n) /\ r.out = "ok" => Renderable(n)
           /\ Renderable(n) => r.out = "ok"
<1>1. PICK g \in ResolveGate(n) :
         r = IF g = "ready" THEN Resolution(n) ELSE [out |-> g, items |-> {}]
  BY DEF GetDesired
<1>2. ASSUME Included(n), r.out = "ok" PROVE Renderable(n)
  <2>1. g = "ready"
    BY <1>1, <1>2, GateOfIncluded
  <2>2. ResolveGate(n) = {"ready"}
    BY <1>2, <2>1, GateOfIncluded
  <2> QED
    BY <1>1, <1>2, <2>1, <2>2 DEF Renderable
<1>3. ASSUME Renderable(n) PROVE r.out = "ok"
  BY <1>1, <1>3 DEF Renderable
<1> QED
  BY <1>2, <1>3

(* A step that leaves the runtime alone changes nothing about what is      *)
(* renderable.                                                             *)
LEMMA NothingMoves ==
    ASSUME observed' = observed, xr' = xr, computed' = computed, desired' = desired,
           NEW n \in Nodes
    PROVE  Renderable(n)' <=> Renderable(n)
<1>1. PICK i \in 1..Len(Order) : Order[i] = n
  BY FunctionAssumption
<1>2. Len(Order) \in 0..Len(Order)
  BY FunctionAssumption
<1>3. Renderable(Order[i])' <=> Renderable(Order[i])
  BY <1>2, RenderableFrame
<1> QED
  BY <1>1, <1>3

(* A call starts with nothing rendered.                                    *)
LEMMA InitRenderInv == Init => RenderInv
BY DEF Init, Start, RenderInv, RenderedAreRenderable, DesiredAreAccountedFor, NewResponse

(* Skipping a node that is not renderable.                                 *)
LEMMA SkipKeepsInv ==
    ASSUME TypeOK, RenderInv, NEW n \in Nodes, phase = "build", idx <= Len(Order),
           n = Order[idx], ~Renderable(n), SkipNode, UNCHANGED <<xr, observed, req, selectors>>
    PROVE  RenderInv'
<1>0. /\ \A m \in Nodes : Renderable(m)' <=> Renderable(m)
      /\ idx \in Nat /\ 1 <= idx /\ idx' = idx + 1 /\ Len(Order) \in Nat
  BY NothingMoves, FunctionAssumption DEF SkipNode, TypeOK
<1>1. RenderedAreRenderable'
  <2> SUFFICES ASSUME NEW m \in computed, Managed(m)
               PROVE  /\ Renderable(m)'
                      /\ \E i \in 1..idx : Order[i] = m
                      /\ \A k \in ComposedNames(m, desired[m]) : Ours(k, dcds)
    BY <1>0 DEF RenderedAreRenderable, SkipNode, ComposedNames, Key, Ours
  <2>1. m \in Nodes
    BY DEF TypeOK
  <2> QED
    BY <1>0, <2>1 DEF RenderInv, RenderedAreRenderable
<1>2. DesiredAreAccountedFor'
  BY DEF RenderInv, DesiredAreAccountedFor, SkipNode, PriorDesired, Ours
<1>3. PassedAreRendered'
  <2> SUFFICES ASSUME NEW i \in 1..idx, Renderable(Order[i])'
               PROVE  Order[i] \in computed
    BY <1>0 DEF PassedAreRendered, SkipNode
  <2>1. Order[i] \in Nodes
    BY <1>0, FunctionAssumption
  <2>2. i # idx
    BY <1>0, <2>1
  <2> QED
    BY <1>0, <2>1, <2>2 DEF RenderInv, PassedAreRendered
<1> QED
  BY <1>1, <1>2, <1>3 DEF RenderInv, SkipNode

(* Rendering one that is.                                                  *)
LEMMA AddKeepsInv ==
    ASSUME TypeOK, RenderInv, NEW n \in Nodes, phase = "build", idx <= Len(Order),
           n = Order[idx], Renderable(n), NEW items \in SUBSET Items,
           AddDesired(n, items)
    PROVE  RenderInv'
<1>0. /\ idx \in Nat /\ 1 <= idx /\ idx' = idx + 1 /\ Len(Order) \in Nat
      /\ Managed(n)
      /\ idx \in 0..Len(Order)
  BY FunctionAssumption DEF AddDesired, TypeOK, Renderable
<1>1. n \notin computed
  BY <1>0, FunctionAssumption DEF RenderInv, RenderedAreRenderable
<1>2. \A j \in 1..(idx - 1) : Order[j] # n /\ Order[j] \in Nodes
  BY <1>0, FunctionAssumption
<1>3. \A j \in 1..(idx - 1) : /\ Order[j] \in computed' <=> Order[j] \in computed
                              /\ desired'[Order[j]] = desired[Order[j]]
  BY <1>2 DEF AddDesired, TypeOK
<1>4. \A i \in 1..idx : Renderable(Order[i])' <=> Renderable(Order[i])
  BY <1>0, <1>3, RenderableFrame DEF AddDesired
<1>5. ReadyState(n)' \in ReadyStates
  BY DEF ReadyState, ReadyStates
<1>6. \A k \in ComposedKeys :
         /\ k \in ComposedNames(n, items) => dcds'[k] \in ReadyStates
         /\ k \notin ComposedNames(n, items) => dcds'[k] = dcds[k]
  BY <1>5 DEF AddDesired
<1>7. RenderedAreRenderable'
  <2> SUFFICES ASSUME NEW m \in computed', Managed(m)
               PROVE  /\ Renderable(m)'
                      /\ \E i \in 1..idx : Order[i] = m
                      /\ \A k \in ComposedNames(m, desired'[m]) : dcds'[k] \in ReadyStates
    BY <1>0 DEF RenderedAreRenderable, ComposedNames, Key, Ours
  <2>1. CASE m = n
    <3>1. desired'[n] = items
      BY DEF AddDesired, TypeOK
    <3>2. \A k \in ComposedNames(n, items) : k \in ComposedKeys
      BY <1>0, NamesOfNode
    <3> QED
      BY <1>0, <1>4, <1>6, <2>1, <3>1, <3>2
  <2>2. CASE m # n
    <3>1. m \in computed /\ m \in Nodes /\ desired'[m] = desired[m]
      BY <2>2 DEF AddDesired, TypeOK
    <3>2. PICK i \in 1..(idx - 1) : Order[i] = m
      BY <3>1 DEF RenderInv, RenderedAreRenderable
    <3>3. Renderable(m)'
      BY <1>0, <1>4, <3>1, <3>2 DEF RenderInv, RenderedAreRenderable
    <3>4. \A k \in ComposedNames(m, desired[m]) : k \in ComposedKeys /\ dcds[k] \in ReadyStates
      BY <3>1, NamesOfNode DEF RenderInv, RenderedAreRenderable, Ours, TypeOK
    <3> QED
      BY <1>0, <1>6, <3>1, <3>2, <3>3, <3>4
  <2> QED
    BY <2>1, <2>2
<1>8. DesiredAreAccountedFor'
  <2> SUFFICES ASSUME NEW k \in ComposedKeys
               PROVE  \/ dcds'[k] = PriorDesired[k]
                      \/ dcds'[k] \in ReadyStates /\ k \in ManagedKeys /\ k[1] \in computed'
    BY DEF DesiredAreAccountedFor, Ours, PriorDesired
  <2>1. CASE k \in ComposedNames(n, items)
    BY <1>0, <1>6, <2>1, NamesOfNode DEF AddDesired
  <2>2. CASE k \notin ComposedNames(n, items)
    BY <1>6, <2>2 DEF AddDesired, RenderInv, DesiredAreAccountedFor, Ours
  <2> QED
    BY <2>1, <2>2
<1>9. PassedAreRendered'
  <2> SUFFICES ASSUME NEW i \in 1..idx, Renderable(Order[i])'
               PROVE  Order[i] \in computed'
    BY <1>0 DEF PassedAreRendered
  <2>1. CASE i = idx
    BY <2>1 DEF AddDesired
  <2>2. CASE i # idx
    BY <1>0, <1>4, <2>2 DEF RenderInv, PassedAreRendered, AddDesired
  <2> QED
    BY <2>1, <2>2
<1> QED
  BY <1>7, <1>8, <1>9 DEF RenderInv, AddDesired

(* Steps that leave what has been rendered alone.                          *)
LEMMA QuietStep ==
    ASSUME TypeOK, RenderInv, UNCHANGED <<runtimeVars, idx, dcds>>
    PROVE  /\ RenderedAreRenderable'
           /\ DesiredAreAccountedFor'
           /\ PassedAreRendered' <=> PassedAreRendered
<1>0. \A m \in Nodes : Renderable(m)' <=> Renderable(m)
  BY NothingMoves DEF runtimeVars
<1>1. RenderedAreRenderable'
  <2> SUFFICES ASSUME NEW m \in computed, Managed(m)
               PROVE  /\ Renderable(m)'
                      /\ \E i \in 1..(idx - 1) : Order[i] = m
                      /\ \A k \in ComposedNames(m, desired[m]) : Ours(k, dcds)
    BY DEF RenderedAreRenderable, runtimeVars, ComposedNames, Key, Ours
  <2>1. m \in Nodes
    BY DEF TypeOK
  <2> QED
    BY <1>0, <2>1 DEF RenderInv, RenderedAreRenderable
<1>2. DesiredAreAccountedFor'
  BY DEF RenderInv, DesiredAreAccountedFor, runtimeVars, PriorDesired, Ours
<1>3. \A i \in 1..(idx - 1) : Order[i] \in Nodes
  BY FunctionAssumption DEF TypeOK
<1>4. PassedAreRendered' <=> PassedAreRendered
  BY <1>0, <1>3 DEF PassedAreRendered, runtimeVars
<1> QED
  BY <1>1, <1>2, <1>4

(* Every phase of a call preserves RenderInv.                              *)
LEMMA StepRenderInv == TypeOK /\ TypeOK' /\ RenderInv /\ [RunFunction]_vars => RenderInv'
<1> SUFFICES ASSUME TypeOK, TypeOK', RenderInv, [RunFunction]_vars
             PROVE  RenderInv'
  OBVIOUS
<1>0. \* Before anything is rendered there is nothing to show about it.
      ASSUME \A n \in computed' : ~Managed(n), dcds' = PriorDesired
      PROVE  RenderedAreRenderable' /\ DesiredAreAccountedFor'
  BY <1>0 DEF RenderedAreRenderable, DesiredAreAccountedFor, PriorDesired
<1>1. CASE ResolveSchemas
  <2>1. /\ \A n \in computed' : ~Managed(n)
        /\ dcds' = PriorDesired
        /\ rsp'.composed = PriorDesired
        /\ phase' \in {"done", "externals"}
        /\ phase' = "done" => rsp'.result # "ok"
        /\ phase' # "done" => rsp'.result = "running"
    BY <1>1 DEF ResolveSchemas, RenderInv, runtimeVars, TypeOK
  <2> QED
    BY <1>0, <2>1 DEF RenderInv, PriorDesired
<1>2. CASE ObserveExternals
  <2>1. /\ \A n \in computed' : ~Managed(n)
        /\ dcds' = PriorDesired
        /\ rsp'.composed = PriorDesired /\ rsp'.result = "running"
        /\ phase' = "selectors"
    BY <1>2 DEF ObserveExternals, RenderInv
  <2> QED
    BY <1>0, <2>1 DEF RenderInv, PriorDesired
<1>3. ASSUME NEW n \in Nodes, SelectExternal(n)
      PROVE  RenderInv'
  <2>1. computed' \subseteq computed \cup {n} /\ (Managed(n) => computed' = computed)
    BY <1>3 DEF SelectExternal, externalCollectionSelector, Managed
  <2>2. \A m \in computed' : ~Managed(m)
    BY <1>3, <2>1 DEF RenderInv, SelectExternal, externalCollectionSelector
  <2>3. /\ phase = "selectors" /\ dcds' = dcds
        /\ \/ phase' = "selectors" /\ rsp' = rsp
           \/ phase' = "done" /\ rsp' = [rsp EXCEPT !.result = "fatal"]
    BY <1>3 DEF SelectExternal, externalCollectionSelector, Fatal
  <2>4. /\ dcds' = PriorDesired
        /\ rsp'.composed = PriorDesired
        /\ \/ phase' = "selectors" /\ rsp'.result = "running"
           \/ phase' = "done" /\ rsp'.result = "fatal"
    BY <2>3 DEF RenderInv, TypeOK
  <2> QED
    BY <1>0, <2>2, <2>4 DEF RenderInv, PriorDesired
<1>4. CASE ObserveComposed
  <2>1. /\ \A n \in computed' : ~Managed(n)
        /\ dcds' = PriorDesired
        /\ rsp'.composed = PriorDesired /\ rsp'.result = "running"
        /\ phase' = "build" /\ idx' = 1
    BY <1>4 DEF ObserveComposed, RenderInv, TypeOK
  <2>2. PassedAreRendered'
    BY <2>1 DEF PassedAreRendered
  <2> QED
    BY <1>0, <2>1, <2>2 DEF RenderInv, PriorDesired
<1>5. ASSUME NEW n \in Nodes, BuildNode(n)
      PROVE  RenderInv'
  <2>0. phase = "build" /\ idx <= Len(Order) /\ n = Order[idx]
        /\ UNCHANGED <<xr, observed, req, selectors>>
    BY <1>5 DEF BuildNode
  <2>1. CASE External(n) /\ SkipNode
    <3>1. ~Renderable(n)
      BY <2>1 DEF External, Renderable, Managed
    <3> QED
      BY <2>0, <2>1, <3>1, SkipKeepsInv
  <2>2. ASSUME NEW r \in IsIgnored(n) \ {"included"}, SkipNode
        PROVE  RenderInv'
    <3>1. ~Included(n)
      BY <2>2 DEF IsIgnored
    <3> QED
      BY <2>0, <2>2, <3>1, SkipKeepsInv DEF Renderable
  <2>3. ASSUME Managed(n), NEW r \in GetDesired(n), r.out = "pending", SkipNode
        PROVE  RenderInv'
    <3>1. ~Renderable(n)
      BY <2>3, RenderableMeansOk
    <3> QED
      BY <2>0, <2>3, <3>1, SkipKeepsInv
  <2>4. CASE Fatal /\ UNCHANGED <<computed, desired, dcds, idx>>
    <3>1. RenderedAreRenderable' /\ DesiredAreAccountedFor'
      BY <2>0, <2>4, QuietStep DEF runtimeVars
    <3>2. rsp'.composed = PriorDesired /\ rsp'.result = "fatal" /\ phase' = "done"
      BY <2>0, <2>4 DEF Fatal, RenderInv, TypeOK
    <3> QED
      BY <3>1, <3>2 DEF RenderInv, PriorDesired
  <2>5. ASSUME Managed(n), "included" \in IsIgnored(n), NEW r \in GetDesired(n),
               r.out = "ok", AddDesired(n, r.items)
        PROVE  RenderInv'
    <3>1. Renderable(n)
      BY <2>5, IncludedIsCertain, RenderableMeansOk
    <3> QED
      BY <2>0, <2>5, <3>1, ResolutionItems, AddKeepsInv
  <2> QED
    BY <1>5, <2>1, <2>2, <2>3, <2>4, <2>5 DEF BuildNode
<1>6. CASE SetDesiredComposed
  <2>1. RenderedAreRenderable' /\ DesiredAreAccountedFor' /\ PassedAreRendered'
    BY <1>6, QuietStep DEF SetDesiredComposed, RenderInv
  <2>2. /\ phase' = "status" /\ rsp'.composed = dcds' /\ rsp'.result = "running"
        /\ idx' = Len(Order) + 1
    BY <1>6, FunctionAssumption DEF SetDesiredComposed, RenderInv, TypeOK
  <2> QED
    BY <2>1, <2>2 DEF RenderInv
<1>7. CASE SetDesiredStatus
  <2>1. RenderedAreRenderable' /\ DesiredAreAccountedFor' /\ PassedAreRendered'
    BY <1>7, QuietStep DEF SetDesiredStatus, RenderInv
  <2>2. /\ phase' = "done" /\ rsp'.composed = dcds' /\ rsp'.result \in {"ok", "fatal"}
        /\ idx' = Len(Order) + 1
    BY <1>7 DEF SetDesiredStatus, RenderInv, TypeOK
  <2> QED
    BY <2>1, <2>2 DEF RenderInv
<1>8. CASE UNCHANGED vars
  <2>1. UNCHANGED <<runtimeVars, idx, dcds, phase, rsp>>
    BY <1>8 DEF vars
  <2>2. RenderedAreRenderable' /\ DesiredAreAccountedFor'
        /\ (PassedAreRendered' <=> PassedAreRendered)
    BY <2>1, QuietStep
  <2> QED
    BY <2>1, <2>2 DEF RenderInv, runtimeVars, PriorDesired
<1> QED
  BY <1>1, <1>2, <1>3, <1>4, <1>5, <1>6, <1>7, <1>8 DEF RunFunction

(* The invariant holds throughout every call.                              *)
THEOREM CallInvariant == Spec => []RenderInv
<1>1. Init => TypeOK /\ RenderInv
  BY InitTypeOK, InitRenderInv
<1>2. TypeOK /\ RenderInv /\ [RunFunction]_vars => (TypeOK /\ RenderInv)'
  BY StepTypeOK, StepRenderInv
<1> QED
  BY <1>1, <1>2, PTL DEF Spec

(* What this function desires belongs to a node that is computed and       *)
(* renderable.                                                             *)
LEMMA OursIsRendered ==
    ASSUME RenderInv, TypeOK, NEW k \in ComposedKeys, Ours(k, dcds)
    PROVE  k \in ManagedKeys /\ k[1] \in Nodes /\ Managed(k[1]) /\ Renderable(k[1])
<1>1. k \in ManagedKeys /\ k[1] \in computed
  BY PriorType DEF RenderInv, DesiredAreAccountedFor, Ours, ReadyStates, Absent
<1>2. k[1] \in Nodes /\ Managed(k[1])
  BY <1>1 DEF TypeOK, ManagedKeys
<1> QED
  BY <1>1, <1>2 DEF RenderInv, RenderedAreRenderable

(* When the loop has passed every node, what is renderable is computed.    *)
LEMMA AllPassed ==
    ASSUME TypeOK, RenderInv, idx = Len(Order) + 1, PassedAreRendered,
           NEW n \in Nodes, Renderable(n)
    PROVE  n \in computed
<1>1. PICK i \in 1..Len(Order) : Order[i] = n
  BY FunctionAssumption
<1>2. i \in 1..(idx - 1)
  BY FunctionAssumption
<1> QED
  BY <1>1, <1>2 DEF PassedAreRendered

(* So it is included and its dependencies are ready.                       *)
LEMMA DesiredBehindReady ==
    ASSUME TypeOK, RenderInv
    PROVE  DesiredOnlyBehindReady
<1> SUFFICES ASSUME NEW k \in ComposedKeys, Ours(k, dcds)
             PROVE  /\ k \in ManagedKeys
                    /\ Included(k[1])
                    /\ \A d \in Deps[k[1]] : checkObservedReadiness(d) = {"ready"}
  BY DEF DesiredOnlyBehindReady
<1>1. k \in ManagedKeys /\ k[1] \in Nodes /\ Renderable(k[1])
  BY OursIsRendered
<1>2. Included(k[1]) /\ "ready" \in ResolveGate(k[1])
  BY <1>1 DEF Renderable
<1> QED
  BY <1>1, <1>2, GateOfIncluded

(* In every state of every call, on every graph: what the function desires *)
(* is included and has all of its dependencies ready.                      *)
THEOREM OnlyBehindReady == Spec => []DesiredOnlyBehindReady
<1>1. TypeOK /\ RenderInv => DesiredOnlyBehindReady
  BY DesiredBehindReady
<1> QED
  BY <1>1, TypeCorrect, CallInvariant, PTL

(* A call that succeeds renders the renderable nodes and no others, in     *)
(* whatever order Go ranges over its maps.                                 *)
THEOREM RendersExactly == Spec => []RendersExactlyTheRenderable
<1>1. TypeOK /\ RenderInv => RendersExactlyTheRenderable
  <2> SUFFICES ASSUME TypeOK, RenderInv, phase = "done", rsp.result = "ok",
                      NEW n \in Nodes, Managed(n)
               PROVE  n \in computed <=> Renderable(n)
    BY DEF RendersExactlyTheRenderable
  <2>1. idx = Len(Order) + 1 /\ PassedAreRendered
    BY DEF RenderInv
  <2> QED
    BY <2>1, AllPassed DEF RenderInv, RenderedAreRenderable
<1> QED
  BY <1>1, TypeCorrect, CallInvariant, PTL

(* A call that does not succeed returns what it was given or all of what   *)
(* it rendered.                                                            *)
THEOREM AllOrNothing == Spec => []FailsWhole
<1>1. TypeOK /\ RenderInv => FailsWhole
  <2> SUFFICES ASSUME TypeOK, RenderInv, phase = "done", rsp.result # "ok",
                      rsp.composed # PriorDesired
               PROVE  /\ rsp.result = "fatal"
                      /\ idx = Len(Order) + 1
                      /\ \A n \in Nodes : Renderable(n) =>
                             \A k \in ComposedNames(n, desired[n]) : Ours(k, rsp.composed)
    BY DEF FailsWhole
  <2>1. rsp.result = "fatal" /\ idx = Len(Order) + 1 /\ PassedAreRendered
        /\ rsp.composed = dcds
    BY DEF RenderInv
  <2>2. ASSUME NEW n \in Nodes, Renderable(n), NEW k \in ComposedNames(n, desired[n])
        PROVE  Ours(k, rsp.composed)
    <3>1. n \in computed /\ Managed(n)
      BY <2>1, <2>2, AllPassed DEF Renderable
    <3> QED
      BY <2>1, <2>2, <3>1 DEF RenderInv, RenderedAreRenderable
  <2> QED
    BY <2>1, <2>2
<1> QED
  BY <1>1, TypeCorrect, CallInvariant, PTL

(* Whatever the exit, what earlier functions desire is passed on.          *)
THEOREM PriorIsKept == Spec => []KeepsPrior
<1>1. TypeOK /\ RenderInv => KeepsPrior
  <2> SUFFICES ASSUME TypeOK, RenderInv, NEW k \in Prior, rsp.composed[k] # "prior"
               PROVE  Ours(k, rsp.composed) /\ k \in ManagedKeys /\ Renderable(k[1])
    BY DEF KeepsPrior
  <2>1. k \in ComposedKeys /\ PriorDesired[k] = "prior"
    BY FunctionAssumption DEF PriorDesired
  <2>2. rsp.composed = dcds
    BY <2>1 DEF RenderInv
  <2>3. Ours(k, dcds)
    BY <2>1, <2>2 DEF RenderInv, DesiredAreAccountedFor
  <2> QED
    BY <2>1, <2>2, <2>3, OursIsRendered
<1> QED
  BY <1>1, TypeCorrect, CallInvariant, PTL

====
