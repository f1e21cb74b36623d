---- MODULE BuilderProofs ----
(***************************************************************************)
(* What is true of every graph that is built, for every set of             *)
(* definitions: the nodes are sorted behind what they refer to, and the    *)
(* runtime binds every name an expression uses, whatever the order in      *)
(* which Go walks the nodes.                                               *)
(***************************************************************************)
EXTENDS Builder, TLAPS

Named == {"resources", "extract", "identity", "compile", "wire", "done"}
Built == {"extract", "identity", "compile", "wire", "done"}
Sorted == {"identity", "compile", "wire", "done"}
Wired == {"wire", "done"}

(* The parts of the inductive invariant, in the order in which the builder *)
(* establishes them                                                        *)
NamesFree == phase \in Named => Nodes \cap ReservedWords = {}

ResourcesBuilt ==
    /\ phase = "resources" => \A i \in 1..Len(def.resources) :
                                  i < at => buildRGResource(def.resources[i])
    /\ phase \in Built => \A r \in Resources(def) : buildRGResource(r)

NodeExtracted(n) ==
    /\ Extractable(Res(def, n))
    /\ deps[n] = Dependencies(Res(def, n))
    /\ deps[n] \subseteq Nodes

NodesExtracted ==
    /\ phase = "extract" => \A n \in Nodes \ todo : NodeExtracted(n)
    /\ phase \in Sorted => \A n \in Nodes : NodeExtracted(n)

OrderSorted ==
    /\ \A i \in 1..Len(order) : deps[order[i]] \subseteq {order[j] : j \in 1..(i - 1)}
    /\ phase \notin Built \cup {"fatal"} => order = <<>>
    /\ phase = "extract" /\ todo # {} => order = <<>>
    /\ phase \in Sorted => Elems(order) = Nodes

ReadyRestricted(n) ==
    LET r == Res(def, n)
    IN  \A e \in ReadyExprs(r) :
            Restricted(e, {IF NodeType(r) = "collection" THEN Each ELSE n})

NodesCompiled ==
    /\ phase = "compile" => \A n \in Nodes \ todo : ReadyRestricted(n)
    /\ phase \in Wired => \A n \in Nodes : ReadyRestricted(n)

StatusRestricted == phase \in Wired => \A e \in StatusExprs : e # Plain /\ Restricted(e, Nodes)

(* The expressions of a node that share states with equal ones             *)
SharedExprs(n) ==
    LET r == Res(def, n) IN IncludeExprs(r) \cup ReadyExprs(r) \cup BaseExprs(r)

ReadyOfNode(e) == \E n \in Nodes : e \in ReadyExprs(Res(def, n))

CacheFilled ==
    /\ \A e \in DOMAIN cache :
           cache[e] = Inspected(e).refs \/ (cache[e] = {} /\ ReadyOfNode(e))
    /\ phase = "wire" => \A i \in 1..Len(order) :
                             i < at => SharedExprs(order[i]) \subseteq DOMAIN cache
    /\ phase = "done" => /\ \A n \in Nodes : SharedExprs(n) \subseteq DOMAIN cache
                         /\ StatusExprs \subseteq DOMAIN cache

BuilderInv ==
    /\ def \in Definitions
    /\ TypeOK
    /\ NamesFree
    /\ ResourcesBuilt
    /\ NodesExtracted
    /\ OrderSorted
    /\ NodesCompiled
    /\ StatusRestricted
    /\ CacheFilled

----
(* The definition does not change, and with it much else.                  *)

LEMMA SameDefinition == [Next]_vars => def' = def
BY DEF Next, vars, CollectGVKs, BuildResolverFromSchemas, BuildResolverFromCRDs, CallAgain,
       ValidateResourceIDs, BuildResource, StartDependencyGraph, ExtractNode, PlaceNode,
       StartIdentityFields, ValidateIdentityFields, StartCompile, CompileNode, BuildInstance,
       WireNode, WireInstance

LEMMA ResOf == ASSUME NEW d, NEW n \in IDs(d) PROVE Res(d, n) \in Resources(d) /\ Res(d, n).id = n
BY DEF IDs, Res

LEMMA Rigid ==
    ASSUME def' = def
    PROVE  /\ Nodes' = Nodes
           /\ Resources(def') = Resources(def)
           /\ Known(def') = Known(def)
           /\ StatusExprs' = StatusExprs
           /\ \A e : Inspected(e)' = Inspected(e)
           /\ \A r : buildRGResource(r)' = buildRGResource(r)
           /\ \A r : Extractable(r)' = Extractable(r)
           /\ \A r : Dependencies(r)' = Dependencies(r)
           /\ \A r : BaseExprs(r)' = BaseExprs(r)
           /\ \A n : Res(def', n) = Res(def, n)
           /\ \A e, a : Restricted(e, a)' = Restricted(e, a)
<1>1. \A r : buildRGResource(r)' = buildRGResource(r)
  BY DEF buildRGResource, FieldsParse, validateCombinableResourceFields
<1>2. \A e : Inspected(e)' = Inspected(e)
  BY DEF Inspected
<1>3. \A r : Extractable(r)' = Extractable(r)
  BY <1>2 DEF Extractable, Extracts, UsedInIdentity
<1>4. \A r : Dependencies(r)' = Dependencies(r)
  BY <1>2 DEF Dependencies
<1>5. \A r : BaseExprs(r)' = BaseExprs(r)
  BY <1>2 DEF BaseExprs, IsIteration
<1>6. \A e, a : Restricted(e, a)' = Restricted(e, a)
  BY <1>2 DEF Restricted
<1>7. Nodes' = Nodes /\ StatusExprs' = StatusExprs
  BY DEF Nodes, StatusExprs
<1>8. QED
  BY <1>1, <1>2, <1>3, <1>4, <1>5, <1>6, <1>7

(* An expression of a resource that was built                              *)
LEMMA BuiltExprs ==
    ASSUME def \in Definitions, ResourcesBuilt, phase \in Built,
           NEW r \in Resources(def), NEW e \in DependencyExprs(r) \cup ReadyExprs(r)
    PROVE  e \notin {Plain, NotStandalone} /\ Inspected(e).refs \subseteq Known(def)
<1>1. e # NotStandalone
  <2>1. buildRGResource(r)
    BY DEF ResourcesBuilt
  <2>2. NotStandalone \notin ReadyExprs(r) \cup IncludeExprs(r) \cup ForEachExprs(r)
    BY <2>1 DEF buildRGResource
  <2>3. NotStandalone \notin TemplateExprs(r)
    BY BuilderAssumption
  <2>4. QED
    BY <2>2, <2>3 DEF DependencyExprs
<1>2. QED
  BY <1>1, BuilderAssumption DEF Inspected

LEMMA DependenciesKnown ==
    ASSUME def \in Definitions, ResourcesBuilt, phase \in Built, NEW n \in Nodes
    PROVE  Dependencies(Res(def, n)) \subseteq Known(def)
<1>1. Res(def, n) \in Resources(def)
  BY ResOf DEF Nodes
<1>2. QED
  BY <1>1, BuiltExprs DEF Dependencies

----
(* Each part of the invariant is preserved.                                *)

LEMMA TypeInit == ASSUME Init PROVE TypeOK
<1>1. deps \in [Nodes -> SUBSET Known(def)]
  BY DEF Init, NoDeps, Nodes
<1>2. phase = "collect" /\ answered \in BOOLEAN /\ at = 1 /\ todo = {} /\ order = <<>>
  BY DEF Init
<1>3. DOMAIN eachEnv = {"t"} /\ DOMAIN cache = {}
  BY DEF Init, NoEnv, NoCache
<1>4. QED
  BY <1>1, <1>2, <1>3 DEF TypeOK, Phases

LEMMA TypeNext == ASSUME BuilderInv, [Next]_vars PROVE TypeOK'
<1> USE DEF BuilderInv
<1>0. def' = def
  BY SameDefinition
<1>1. Nodes' = Nodes /\ Known(def') = Known(def) /\ StatusExprs' = StatusExprs
      /\ \A e : Inspected(e)' = Inspected(e)
  BY <1>0, Rigid
<1>2. phase' \in Phases /\ answered' \in BOOLEAN
  <2>1. phase' \in Phases
    BY DEF TypeOK, Phases, Proceed,
       Next, vars, CollectGVKs, BuildResolverFromSchemas, BuildResolverFromCRDs, CallAgain,
       ValidateResourceIDs, BuildResource, StartDependencyGraph, ExtractNode, PlaceNode,
       StartIdentityFields, ValidateIdentityFields, StartCompile, CompileNode, BuildInstance,
       WireNode, WireInstance
  <2>2. answered' = answered \/ answered' = TRUE
    BY DEF
       Next, vars, CollectGVKs, BuildResolverFromSchemas, BuildResolverFromCRDs, CallAgain,
       ValidateResourceIDs, BuildResource, StartDependencyGraph, ExtractNode, PlaceNode,
       StartIdentityFields, ValidateIdentityFields, StartCompile, CompileNode, BuildInstance,
       WireNode, WireInstance
  <2>3. answered \in BOOLEAN
    BY DEF TypeOK
  <2>4. QED
    BY <2>1, <2>2, <2>3
<1>3. at' \in Nat \ {0}
  <2>1. at' \in {at, at + 1, 1}
    BY DEF
       Next, vars, CollectGVKs, BuildResolverFromSchemas, BuildResolverFromCRDs, CallAgain,
       ValidateResourceIDs, BuildResource, StartDependencyGraph, ExtractNode, PlaceNode,
       StartIdentityFields, ValidateIdentityFields, StartCompile, CompileNode, BuildInstance,
       WireNode, WireInstance
  <2>2. at \in Nat \ {0}
    BY DEF TypeOK
  <2>3. QED
    BY <2>1, <2>2
<1>4. todo' \subseteq Nodes
  BY DEF TypeOK,
       Next, vars, CollectGVKs, BuildResolverFromSchemas, BuildResolverFromCRDs, CallAgain,
       ValidateResourceIDs, BuildResource, StartDependencyGraph, ExtractNode, PlaceNode,
       StartIdentityFields, ValidateIdentityFields, StartCompile, CompileNode, BuildInstance,
       WireNode, WireInstance
<1>5. deps' \in [Nodes -> SUBSET Known(def)]
  <2>1. CASE \E n \in Nodes : ExtractNode(n)
    <3>1. PICK n \in Nodes : ExtractNode(n)
      BY <2>1
    <3>2. Dependencies(Res(def, n)) \subseteq Known(def)
      BY <3>1, DependenciesKnown DEF ExtractNode, Built
    <3>3. deps' = [deps EXCEPT ![n] = Dependencies(Res(def, n))]
      BY <3>1 DEF ExtractNode
    <3>4. QED
      BY <3>2, <3>3 DEF TypeOK
  <2>2. CASE deps' = deps
    BY <2>2 DEF TypeOK
  <2>3. QED
    BY <2>1, <2>2
       DEF Next, vars, CollectGVKs, BuildResolverFromSchemas, BuildResolverFromCRDs, CallAgain,
       ValidateResourceIDs, BuildResource, StartDependencyGraph, PlaceNode,
       StartIdentityFields, ValidateIdentityFields, StartCompile, CompileNode, BuildInstance,
       WireNode, WireInstance
<1>6. order' \in Seq(Nodes)
  <2>1. CASE PlaceNode
    BY <2>1 DEF PlaceNode, Placeable, TypeOK
  <2>2. CASE order' = order
    BY <2>2 DEF TypeOK
  <2>3. QED
    BY <2>1, <2>2 DEF
       Next, vars, CollectGVKs, BuildResolverFromSchemas, BuildResolverFromCRDs, CallAgain,
       ValidateResourceIDs, BuildResource, StartDependencyGraph, ExtractNode,
       StartIdentityFields, ValidateIdentityFields, StartCompile, CompileNode, BuildInstance,
       WireNode, WireInstance
<1>7. DOMAIN eachEnv' \in {{"t"}, {"t", "of"}}
  <2>1. CASE \E n \in Nodes : CompileNode(n)
    <3>1. PICK n \in Nodes : CompileNode(n)
      BY <2>1
    <3>2. eachEnv' = eachEnv \/ eachEnv' = ObjectType(Res(def, n).kind)
      BY <3>1 DEF CompileNode, extendWithTypedVar
    <3>3. QED
      BY <3>2 DEF TypeOK, ObjectType
  <2>2. CASE eachEnv' = eachEnv
    BY <2>2 DEF TypeOK
  <2>3. QED
    BY <2>1, <2>2
       DEF Next, vars, CollectGVKs, BuildResolverFromSchemas, BuildResolverFromCRDs, CallAgain,
       ValidateResourceIDs, BuildResource, StartDependencyGraph, ExtractNode, PlaceNode,
       StartIdentityFields, ValidateIdentityFields, StartCompile, BuildInstance,
       WireNode, WireInstance
<1>8. \A e \in DOMAIN cache' : cache'[e] \subseteq Known(def)
  <2>1. CASE WireNode
    <3> DEFINE r == Res(def, order[at])
    <3>1. order[at] \in Nodes
      BY <2>1 DEF WireNode, TypeOK
    <3>2. r \in Resources(def)
      BY <3>1, ResOf DEF Nodes
    <3>3. \A e \in IncludeExprs(r) \cup ReadyExprs(r) \cup BaseExprs(r) :
              Inspected(e).refs \subseteq Known(def)
      BY <2>1, <3>2, BuiltExprs DEF WireNode, Built, DependencyExprs, BaseExprs
    <3>4. QED
      BY <2>1, <3>3 DEF WireNode, TypeOK
  <2>2. CASE WireInstance
    <3>1. \A e \in StatusExprs : Inspected(e).refs \subseteq Known(def)
      BY <2>2 DEF WireInstance, StatusRestricted, Wired, Restricted, Known, Nodes
    <3>2. QED
      BY <2>2, <3>1 DEF WireInstance, TypeOK
  <2>3. CASE cache' = cache
    BY <2>3 DEF TypeOK
  <2>4. QED
    BY <2>1, <2>2, <2>3
       DEF Next, vars, CollectGVKs, BuildResolverFromSchemas, BuildResolverFromCRDs, CallAgain,
       ValidateResourceIDs, BuildResource, StartDependencyGraph, ExtractNode, PlaceNode,
       StartIdentityFields, ValidateIdentityFields, StartCompile, CompileNode, BuildInstance
<1>9. QED
  BY <1>0, <1>1, <1>2, <1>3, <1>4, <1>5, <1>6, <1>7, <1>8 DEF TypeOK

LEMMA NamesNext == ASSUME BuilderInv, [Next]_vars PROVE NamesFree'
<1> USE DEF BuilderInv
<1>0. Nodes' = Nodes
  BY SameDefinition, Rigid
<1>1. CASE ValidateResourceIDs
  <2>1. SUFFICES ASSUME phase' = "resources", NEW n \in Nodes PROVE n \notin ReservedWords
    BY <1>0, <1>1 DEF NamesFree, Named, ValidateResourceIDs, Proceed
  <2>2. PICK r \in Resources(def) : r.id = n
    BY DEF Nodes, IDs
  <2>3. PICK i \in DOMAIN def.resources : def.resources[i] = r
    BY BuilderAssumption DEF Resources, Elems
  <2>4. QED
    BY <1>1, <2>1, <2>2, <2>3 DEF ValidateResourceIDs, Proceed, ValidName
<1>2. CASE phase' \notin Named \/ phase \in Named
  BY <1>0, <1>2 DEF NamesFree
<1>3. QED
  BY <1>1, <1>2 DEF Named, Proceed,
       Next, vars, CollectGVKs, BuildResolverFromSchemas, BuildResolverFromCRDs, CallAgain,
       BuildResource, StartDependencyGraph, ExtractNode, PlaceNode, StartIdentityFields,
       ValidateIdentityFields, StartCompile, CompileNode, BuildInstance, WireNode,
       WireInstance

LEMMA ResourcesNext == ASSUME BuilderInv, [Next]_vars PROVE ResourcesBuilt'
<1> USE DEF BuilderInv
<1>0. /\ def' = def /\ Resources(def') = Resources(def)
      /\ \A r : buildRGResource(r)' = buildRGResource(r)
  BY SameDefinition, Rigid
<1>1. CASE ValidateResourceIDs
  <2>1. at' = 1 /\ phase' \in {"resources", "fatal"}
    BY <1>1 DEF ValidateResourceIDs, Proceed
  <2>2. QED
    BY <2>1 DEF ResourcesBuilt, Built
<1>2. CASE BuildResource
  <2>1. SUFFICES ASSUME phase' = "resources", NEW i \in 1..Len(def.resources), i < at'
                 PROVE  buildRGResource(def.resources[i])
    BY <1>0, <1>2 DEF ResourcesBuilt, Built, BuildResource, Proceed
  <2>2. at' = at + 1 /\ at \in Nat /\ i \in Nat /\ phase = "resources"
    BY <1>2 DEF BuildResource, TypeOK
  <2>3. i < at \/ i = at
    BY <2>1, <2>2
  <2>4. buildRGResource(def.resources[at])
    BY <1>2, <2>1 DEF BuildResource, Proceed
  <2>5. QED
    BY <2>1, <2>2, <2>3, <2>4 DEF ResourcesBuilt
<1>3. CASE StartDependencyGraph
  <2>1. Len(def.resources) \in Nat
    BY BuilderAssumption
  <2>2. \A i \in 1..Len(def.resources) : buildRGResource(def.resources[i])
    BY <1>3, <2>1 DEF StartDependencyGraph, ResourcesBuilt, TypeOK
  <2>3. \A r \in Resources(def) : buildRGResource(r)
    BY <2>2 DEF Resources, Elems
  <2>4. QED
    BY <1>0, <1>3, <2>3 DEF StartDependencyGraph, ResourcesBuilt
<1>4. CASE phase' \notin Built \cup {"resources"}
  BY <1>4 DEF ResourcesBuilt
<1>5. CASE phase \in Built /\ phase' \in Built
  BY <1>0, <1>5 DEF ResourcesBuilt, Built
<1>6. CASE UNCHANGED vars
  BY <1>0, <1>6 DEF ResourcesBuilt, vars
<1>7. QED
  BY <1>1, <1>2, <1>3, <1>4, <1>5, <1>6 DEF Built, Proceed,
       Next, CollectGVKs, BuildResolverFromSchemas, BuildResolverFromCRDs, CallAgain,
       ExtractNode, PlaceNode, StartIdentityFields, ValidateIdentityFields, StartCompile,
       CompileNode, BuildInstance, WireNode, WireInstance

LEMMA ExtractedNext == ASSUME BuilderInv, [Next]_vars PROVE NodesExtracted'
<1> USE DEF BuilderInv
<1>0. /\ def' = def /\ Nodes' = Nodes
      /\ \A r : Extractable(r)' = Extractable(r)
      /\ \A r : Dependencies(r)' = Dependencies(r)
      /\ \A n : Res(def', n) = Res(def, n)
  BY SameDefinition, Rigid
<1>1. ASSUME NEW n \in Nodes, deps'[n] = deps[n], NodeExtracted(n) PROVE NodeExtracted(n)'
  BY <1>0, <1>1 DEF NodeExtracted
<1>2. CASE \E n \in Nodes : ExtractNode(n)
  <2>1. PICK n \in Nodes : ExtractNode(n)
    BY <1>2
  <2>2. SUFFICES ASSUME phase' = "extract", NEW m \in Nodes \ todo' PROVE NodeExtracted(m)'
    BY <1>0, <2>1 DEF NodesExtracted, ExtractNode, Proceed, Sorted
  <2>3. deps' = [deps EXCEPT ![n] = Dependencies(Res(def, n))] /\ DOMAIN deps = Nodes
    BY <2>1 DEF ExtractNode, TypeOK
  <2>4. CASE m = n
    <3>1. Extractable(Res(def, n)) /\ Dependencies(Res(def, n)) \subseteq Nodes
      BY <2>1, <2>2 DEF ExtractNode, Proceed, Linkable
    <3>2. QED
      BY <1>0, <2>3, <2>4, <3>1 DEF NodeExtracted
  <2>5. CASE m # n
    <3>1. m \in Nodes \ todo /\ phase = "extract"
      BY <2>1, <2>2, <2>5 DEF ExtractNode
    <3>2. QED
      BY <1>1, <2>3, <2>5, <3>1 DEF NodesExtracted
  <2>6. QED
    BY <2>4, <2>5
<1>3. CASE StartDependencyGraph
  BY <1>0, <1>3 DEF StartDependencyGraph, NodesExtracted, Sorted
<1>4. CASE deps' = deps /\ todo' = todo /\ phase' = phase
  BY <1>0, <1>1, <1>4 DEF NodesExtracted
<1>5. CASE StartIdentityFields
  BY <1>0, <1>1, <1>5 DEF StartIdentityFields, NodesExtracted, Sorted
<1>6. CASE deps' = deps /\ phase \in Sorted /\ phase' \in Sorted
  BY <1>0, <1>1, <1>6 DEF NodesExtracted, Sorted
<1>7. CASE phase' \notin Built
  BY <1>7 DEF NodesExtracted, Sorted, Built
<1>8. QED
  BY <1>2, <1>3, <1>4, <1>5, <1>6, <1>7 DEF Built, Sorted, Proceed,
       Next, vars, CollectGVKs, BuildResolverFromSchemas, BuildResolverFromCRDs, CallAgain,
       ValidateResourceIDs, BuildResource, PlaceNode, ValidateIdentityFields, StartCompile,
       CompileNode, BuildInstance, WireNode, WireInstance

LEMMA OrderNext == ASSUME BuilderInv, [Next]_vars PROVE OrderSorted'
<1> USE DEF BuilderInv
<1>0. Nodes' = Nodes /\ order \in Seq(Nodes)
  BY SameDefinition, Rigid DEF TypeOK
<1>1. CASE \E n \in Nodes : ExtractNode(n)
  <2>1. order = <<>> /\ order' = <<>> /\ phase' \in {"extract", "fatal"}
    BY <1>1 DEF ExtractNode, OrderSorted, Proceed
  <2>2. Len(order') = 0
    BY <2>1
  <2>3. QED
    BY <2>1, <2>2 DEF OrderSorted, Sorted
<1>2. CASE PlaceNode
  <2>1. PICK n \in Placeable : order' = Append(order, n)
    BY <1>2 DEF PlaceNode
  <2>2. /\ n \in Nodes /\ deps[n] \subseteq Elems(order) /\ deps' = deps
        /\ phase = "extract" /\ phase' = "extract" /\ todo' = {}
    BY <1>2, <2>1 DEF PlaceNode, Placeable
  <2>3. /\ Len(order') = Len(order) + 1 /\ Len(order) \in Nat
        /\ order'[Len(order) + 1] = n
        /\ \A i \in 1..Len(order) : order'[i] = order[i]
    BY <1>0, <2>1, <2>2
  <2>4. ASSUME NEW i \in 1..Len(order') PROVE deps'[order'[i]] \subseteq {order'[j] : j \in 1..(i - 1)}
    <3>1. CASE i = Len(order) + 1
      <4>1. {order'[j] : j \in 1..(i - 1)} = Elems(order)
        BY <2>3, <3>1 DEF Elems
      <4>2. QED
        BY <2>2, <2>3, <3>1, <4>1
    <3>2. CASE i \in 1..Len(order)
      <4>1. {order'[j] : j \in 1..(i - 1)} = {order[j] : j \in 1..(i - 1)}
        BY <2>3, <3>2
      <4>2. QED
        BY <2>2, <2>3, <3>2, <4>1 DEF OrderSorted
    <3>3. QED
      BY <2>3, <2>4, <3>1, <3>2
  <2>5. QED
    BY <2>2, <2>4 DEF OrderSorted, Sorted, Built
<1>3. CASE StartIdentityFields
  BY <1>0, <1>3 DEF StartIdentityFields, OrderSorted, Sorted, Built
<1>4. CASE order' = order /\ deps' = deps /\ phase' = phase /\ (phase = "extract" => todo' = todo)
  <2>1. \A i \in 1..Len(order') : deps'[order'[i]] \subseteq {order'[j] : j \in 1..(i - 1)}
    BY <1>4 DEF OrderSorted
  <2>2. phase' \notin Built \cup {"fatal"} => order' = <<>>
    BY <1>4 DEF OrderSorted
  <2>3. phase' = "extract" /\ todo' # {} => order' = <<>>
    BY <1>4 DEF OrderSorted
  <2>4. phase' \in Sorted => Elems(order') = Nodes'
    BY <1>0, <1>4 DEF OrderSorted
  <2>5. QED
    BY <2>1, <2>2, <2>3, <2>4 DEF OrderSorted
<1>5. CASE StartDependencyGraph
  BY <1>0, <1>5 DEF StartDependencyGraph, OrderSorted, Sorted, Built
<1>6. CASE /\ order' = order /\ deps' = deps /\ phase' # "extract"
           /\ phase' \in Sorted => phase \in Sorted
           /\ phase \in Built => phase' \in Built \cup {"fatal"}
           /\ phase # "fatal"
  BY <1>0, <1>6 DEF OrderSorted, Sorted, Built
<1>7. QED
  BY <1>1, <1>2, <1>3, <1>4, <1>5, <1>6 DEF Built, Sorted, Proceed,
       Next, vars, CollectGVKs, BuildResolverFromSchemas, BuildResolverFromCRDs, CallAgain,
       ValidateResourceIDs, BuildResource, ValidateIdentityFields, StartCompile, CompileNode,
       BuildInstance, WireNode, WireInstance

LEMMA CompiledNext == ASSUME BuilderInv, [Next]_vars PROVE NodesCompiled'
<1> USE DEF BuilderInv
<1>0. /\ Nodes' = Nodes
      /\ \A n : ReadyRestricted(n)' = ReadyRestricted(n)
  BY SameDefinition, Rigid DEF ReadyRestricted
<1>1. CASE \E n \in Nodes : CompileNode(n)
  <2>1. PICK n \in Nodes : CompileNode(n)
    BY <1>1
  <2>2. phase' \in {"compile", "fatal"} /\ phase = "compile" /\ todo' = todo \ {n}
    BY <2>1 DEF CompileNode, Proceed
  <2>3. phase' = "compile" => ReadyRestricted(n)
    BY <2>1 DEF CompileNode, Proceed, validateAndCompileReadyWhen, ReadyRestricted
  <2>4. QED
    BY <1>0, <2>2, <2>3 DEF NodesCompiled, Wired
<1>2. CASE StartCompile
  BY <1>0, <1>2 DEF StartCompile, NodesCompiled, Wired
<1>3. CASE BuildInstance
  BY <1>0, <1>3 DEF BuildInstance, Proceed, NodesCompiled, Wired
<1>4. CASE phase' \notin {"compile", "wire", "done"}
  BY <1>4 DEF NodesCompiled, Wired
<1>5. CASE phase \in Wired /\ phase' \in Wired
  BY <1>0, <1>5 DEF NodesCompiled, Wired
<1>6. CASE phase' = phase /\ todo' = todo
  BY <1>0, <1>6 DEF NodesCompiled
<1>7. QED
  BY <1>1, <1>2, <1>3, <1>4, <1>5, <1>6 DEF Wired, Proceed,
       Next, vars, CollectGVKs, BuildResolverFromSchemas, BuildResolverFromCRDs, CallAgain,
       ValidateResourceIDs, BuildResource, StartDependencyGraph, ExtractNode, PlaceNode,
       StartIdentityFields, ValidateIdentityFields, WireNode, WireInstance

LEMMA StatusNext == ASSUME BuilderInv, [Next]_vars PROVE StatusRestricted'
<1> USE DEF BuilderInv
<1>0. /\ Nodes' = Nodes /\ StatusExprs' = StatusExprs
      /\ \A e, a : Restricted(e, a)' = Restricted(e, a)
  BY SameDefinition, Rigid
<1>1. CASE BuildInstance
  <2>1. phase' = "wire" => \A e \in StatusExprs : e # Plain /\ Restricted(e, Nodes)
    BY <1>1 DEF BuildInstance, Proceed
  <2>2. phase' # "done"
    BY <1>1 DEF BuildInstance, Proceed
  <2>3. QED
    BY <1>0, <2>1, <2>2 DEF StatusRestricted, Wired
<1>2. CASE phase \in Wired \/ phase' \notin Wired
  BY <1>0, <1>2 DEF StatusRestricted
<1>3. QED
  BY <1>1, <1>2 DEF Wired, Proceed,
       Next, vars, CollectGVKs, BuildResolverFromSchemas, BuildResolverFromCRDs, CallAgain,
       ValidateResourceIDs, BuildResource, StartDependencyGraph, ExtractNode, PlaceNode,
       StartIdentityFields, ValidateIdentityFields, StartCompile, CompileNode, WireNode,
       WireInstance

LEMMA CacheNext == ASSUME BuilderInv, [Next]_vars PROVE CacheFilled'
<1> USE DEF BuilderInv
<1>0. /\ def' = def /\ Nodes' = Nodes /\ StatusExprs' = StatusExprs
      /\ \A e : ReadyOfNode(e)' = ReadyOfNode(e)
      /\ \A e : Inspected(e)' = Inspected(e)
      /\ \A n : SharedExprs(n)' = SharedExprs(n)
  BY SameDefinition, Rigid DEF SharedExprs, ReadyOfNode
<1>1. CASE WireNode
  <2> DEFINE r == Res(def, order[at])
             new == DOMAIN cache \cup IncludeExprs(r) \cup ReadyExprs(r) \cup BaseExprs(r)
  <2>1. /\ cache' = [e \in new |-> IF e \in DOMAIN cache THEN cache[e]
                                    ELSE IF e \in ReadyExprs(r) \ IncludeExprs(r) THEN {}
                                    ELSE Inspected(e).refs]
        /\ phase = "wire" /\ phase' = "wire" /\ order' = order /\ at' = at + 1
        /\ at <= Len(order)
    BY <1>1 DEF WireNode
  <2>2. order[at] \in Nodes /\ at \in Nat \ {0}
    BY <2>1 DEF TypeOK
  <2>3. r \in Resources(def)
    BY <2>2, ResOf DEF Nodes
  <2>4. \A e \in DOMAIN cache' :
            cache'[e] = Inspected(e).refs \/ (cache'[e] = {} /\ ReadyOfNode(e))
    BY <2>1, <2>2 DEF CacheFilled, ReadyOfNode
  <2>5. ASSUME NEW i \in 1..Len(order), i < at + 1 PROVE SharedExprs(order[i]) \subseteq new
    <3>1. CASE i = at
      BY <3>1 DEF SharedExprs
    <3>2. CASE i < at
      BY <2>1, <3>2 DEF CacheFilled
    <3>3. QED
      BY <2>2, <2>5, <3>1, <3>2
  <2>6. QED
    BY <1>0, <2>1, <2>4, <2>5 DEF CacheFilled
<1>2. CASE WireInstance
  <2>1. /\ cache' = [e \in DOMAIN cache \cup StatusExprs |->
                         IF e \in DOMAIN cache THEN cache[e] ELSE Inspected(e).refs]
        /\ phase = "wire" /\ phase' = "done" /\ at > Len(order)
    BY <1>2 DEF WireInstance
  <2>2. \A e \in DOMAIN cache' :
            cache'[e] = Inspected(e).refs \/ (cache'[e] = {} /\ ReadyOfNode(e))
    BY <2>1 DEF CacheFilled
  <2>3. ASSUME NEW n \in Nodes PROVE SharedExprs(n) \subseteq DOMAIN cache
    <3>1. PICK i \in 1..Len(order) : order[i] = n
      BY <2>1 DEF OrderSorted, Sorted, Elems
    <3>2. i < at
      BY <2>1, <3>1 DEF TypeOK
    <3>3. QED
      BY <2>1, <3>1, <3>2 DEF CacheFilled
  <2>4. QED
    BY <1>0, <2>1, <2>2, <2>3 DEF CacheFilled
<1>3. CASE BuildInstance
  <2>1. cache' = cache /\ at' = 1 /\ order' = order /\ phase' \in {"wire", "fatal"}
    BY <1>3 DEF BuildInstance, Proceed
  <2>2. QED
    BY <1>0, <2>1 DEF CacheFilled
<1>4. CASE cache' = cache /\ phase' \notin Wired
  BY <1>0, <1>4 DEF CacheFilled, Wired
<1>5. CASE UNCHANGED vars
  BY <1>0, <1>5 DEF CacheFilled, vars
<1>6. QED
  BY <1>1, <1>2, <1>3, <1>4, <1>5 DEF Wired, Proceed,
       Next, CollectGVKs, BuildResolverFromSchemas, BuildResolverFromCRDs, CallAgain,
       ValidateResourceIDs, BuildResource, StartDependencyGraph, ExtractNode, PlaceNode,
       StartIdentityFields, ValidateIdentityFields, StartCompile, CompileNode

----
LEMMA InitInv == Init => BuilderInv
<1> SUFFICES ASSUME Init PROVE BuilderInv
  OBVIOUS
<1>1. phase = "collect" /\ order = <<>> /\ cache = NoCache /\ def \in Definitions
  BY DEF Init
<1>2. TypeOK
  BY TypeInit
<1>3. Len(order) = 0 /\ DOMAIN cache = {}
  BY <1>1 DEF NoCache
<1>4. NamesFree /\ ResourcesBuilt /\ NodesExtracted /\ NodesCompiled /\ StatusRestricted
  BY <1>1 DEF NamesFree, ResourcesBuilt, NodesExtracted, NodesCompiled, StatusRestricted,
              Named, Built, Sorted, Wired
<1>5. OrderSorted /\ CacheFilled
  BY <1>1, <1>3 DEF OrderSorted, CacheFilled, Sorted
<1>6. QED
  BY <1>1, <1>2, <1>4, <1>5 DEF BuilderInv

LEMMA NextInv == BuilderInv /\ [Next]_vars => BuilderInv'
<1> SUFFICES ASSUME BuilderInv, [Next]_vars PROVE BuilderInv'
  OBVIOUS
<1>1. def' \in Definitions
  BY SameDefinition DEF BuilderInv
<1>2. QED
  BY <1>1, TypeNext, NamesNext, ResourcesNext, ExtractedNext, OrderNext, CompiledNext,
     StatusNext, CacheNext DEF BuilderInv

LEMMA Invariance == Spec => []BuilderInv
BY InitInv, NextInv, PTL DEF Spec

(* The variables of the builder are of their types, for every set of       *)
(* definitions: in particular a dependency is a name the inspector knows,  *)
(* though the dependencies are taken from expressions users write.         *)
THEOREM BuilderTypes == Spec => []TypeOK
<1>1. BuilderInv => TypeOK
  BY DEF BuilderInv
<1>2. QED
  BY <1>1, Invariance, PTL

----
(* The names in an expression of a node, by the inspector's report         *)
LEMMA NamesOf ==
    ASSUME BuilderInv, InspectsTheFreeNames, phase \in Sorted,
           NEW n \in Nodes, NEW e \in DependencyExprs(Res(def, n)) \cup ReadyExprs(Res(def, n))
    PROVE  /\ Names(e) = Inspected(e).refs \cup Inspected(e).unknown
           /\ Inspected(e).refs = Names(e) \cap Known(def)
<1> DEFINE r == Res(def, n)
<1>1. r \in Resources(def)
  BY ResOf DEF Nodes
<1>2. e \notin {Plain, NotStandalone}
  BY <1>1, BuiltExprs DEF BuilderInv, Sorted, Built
<1>3. e \in Exprs(def)
  BY <1>1 DEF Exprs
<1>4. Exact(def, e)
  BY <1>2, <1>3 DEF InspectsTheFreeNames
<1>5. QED
  BY <1>4 DEF Exact, Inspected

LEMMA SchemaIsNoNode == ASSUME BuilderInv, phase \in Sorted PROVE Schema \notin Nodes /\ Each \notin Nodes
BY ResourceGraphsAssumption DEF BuilderInv, NamesFree, Named, Sorted

(* Every node of a sorted graph comes behind the nodes its templates,      *)
(* forEach and includeWhen expressions name, provided the inspector finds  *)
(* the names: no reference is lost between extraction and sorting,         *)
(* whatever the order in which the nodes are visited.                      *)
THEOREM BuilderOrder == Spec /\ []InspectsTheFreeNames => []OrderedBehindReferences
<1>1. ASSUME BuilderInv, InspectsTheFreeNames PROVE OrderedBehindReferences
  <2>1. SUFFICES ASSUME phase \in Sorted, NEW i \in 1..Len(order),
                        NEW e \in DependencyExprs(Res(def, order[i]))
                 PROVE  Names(e) \cap Nodes \subseteq {order[j] : j \in 1..(i - 1)}
    <3>1. DOMAIN order = 1..Len(order)
      BY <1>1 DEF BuilderInv, TypeOK
    <3>2. QED
      BY <3>1 DEF OrderedBehindReferences, Sorted
  <2>2. order[i] \in Nodes
    BY <1>1 DEF BuilderInv, TypeOK
  <2>3. Names(e) \cap Nodes \subseteq Inspected(e).refs \ {Schema}
    BY <1>1, <2>1, <2>2, NamesOf, SchemaIsNoNode DEF Known, Nodes
  <2>4. Inspected(e).refs \ {Schema} \subseteq deps[order[i]]
    BY <1>1, <2>1, <2>2 DEF BuilderInv, NodesExtracted, NodeExtracted, Dependencies
  <2>5. QED
    BY <1>1, <2>3, <2>4 DEF BuilderInv, OrderSorted
<1>2. QED
  BY <1>1, Invariance, PTL

----

(* What the invariant and the inspector say of a node of a wired graph     *)
LEMMA NodeNames ==
    ASSUME BuilderInv, InspectsTheFreeNames, phase = "done", NEW n \in Nodes,
           NEW e \in DependencyExprs(Res(def, n))
    PROVE  /\ Inspected(e).refs \subseteq Available(n)
           /\ Each \notin Inspected(e).refs
           /\ Names(e) = Inspected(e).refs \cup Inspected(e).unknown
<1>1. NodeExtracted(n)
  BY DEF BuilderInv, NodesExtracted, Sorted
<1>2. Inspected(e).refs \ {Schema} \subseteq deps[n] /\ deps[n] \subseteq Nodes
  BY <1>1 DEF NodeExtracted, Dependencies
<1>3. Each \notin Nodes /\ Schema # Each
  BY SchemaIsNoNode, ResourceGraphsAssumption DEF Sorted
<1>4. Names(e) = Inspected(e).refs \cup Inspected(e).unknown
  BY NamesOf DEF Sorted
<1>5. QED
  BY <1>2, <1>3, <1>4 DEF Available

LEMMA CachedStates ==
    ASSUME BuilderInv, phase = "done", NEW e, e \notin ReadyTexts,
           e \in StatusExprs \/ \E n \in Nodes : e \in SharedExprs(n)
    PROVE  cache[e] = Inspected(e).refs
<1>1. e \in DOMAIN cache
  BY DEF BuilderInv, CacheFilled
<1>2. ~ReadyOfNode(e)
  BY ResOf DEF ReadyOfNode, ReadyTexts, Nodes
<1>3. QED
  BY <1>1, <1>2 DEF BuilderInv, CacheFilled

LEMMA IncludeScope ==
    ASSUME BuilderInv, InspectsTheFreeNames, phase = "done", NEW n \in Nodes
    PROVE  IncludesInScope(n)
<1>1. SUFFICES ASSUME NEW e \in IncludeExprs(Res(def, n)), e \notin ReadyTexts
               PROVE  Names(e) \subseteq IncludeContext(n, e)
  BY DEF IncludesInScope
<1>2. Extractable(Res(def, n))
  BY DEF BuilderInv, NodesExtracted, NodeExtracted, Sorted
<1>3. Inspected(e).unknown = {}
  BY <1>1, <1>2 DEF Extractable, Extracts
<1>4. Names(e) = Inspected(e).refs /\ Names(e) \subseteq Available(n)
  BY <1>1, <1>3, NodeNames DEF DependencyExprs
<1>5. cache[e] = Names(e)
  BY <1>1, <1>4, CachedStates DEF SharedExprs
<1>6. Names(e) \subseteq UNION {cache[f] : f \in IncludeExprs(Res(def, n))}
  BY <1>1, <1>5
<1>7. QED
  BY <1>4, <1>5, <1>6 DEF Narrow, IncludeContext

LEMMA TemplateScope ==
    ASSUME BuilderInv, InspectsTheFreeNames, phase = "done", NEW n \in Nodes
    PROVE  TemplatesInScope(n)
<1> DEFINE r == Res(def, n)
<1>1. Extractable(r)
  BY DEF BuilderInv, NodesExtracted, NodeExtracted, Sorted
<1>2. ASSUME NEW e \in ForEachExprs(r) PROVE Names(e) \subseteq ForEachContext(n, e)
  <2>1. Inspected(e).unknown = {}
    BY <1>1, <1>2 DEF Extractable, Extracts
  <2>2. Names(e) = Inspected(e).refs /\ Names(e) \subseteq Available(n)
    BY <1>2, <2>1, NodeNames DEF DependencyExprs
  <2>3. Names(e) \subseteq UNION {Inspected(f).refs : f \in ForEachExprs(r)}
    BY <1>2, <2>2
  <2>4. QED
    BY <2>2, <2>3 DEF Narrow, ForEachContext
<1>3. ASSUME NEW e \in IterationExprs(r) PROVE Names(e) \subseteq IterationContext(n)
  <2>1. e \in TemplateExprs(r)
    BY <1>3 DEF IterationExprs
  <2>2. Inspected(e).unknown \subseteq Iterators(r)
    BY <1>1, <2>1 DEF Extractable, Extracts
  <2>3. /\ Names(e) = Inspected(e).refs \cup Inspected(e).unknown
        /\ Inspected(e).refs \subseteq Available(n)
    BY <2>1, NodeNames DEF DependencyExprs
  <2>4. Inspected(e).refs \subseteq UNION {Inspected(f).refs \cup Inspected(f).unknown :
                                               f \in IterationExprs(r)}
    BY <1>3
  <2>5. QED
    BY <2>2, <2>3, <2>4 DEF Narrow, IterationContext
<1>4. ASSUME NEW e \in BaseExprs(r)
      PROVE  \/ Names(e) \subseteq BaseContext(n, e)
             \/ \E m \in deps[n] : e \in ReadyExprs(Res(def, m))
  <2>1. e \in TemplateExprs(r) /\ ~IsIteration(r, e)
    BY <1>4 DEF BaseExprs
  <2>2. Inspected(e).unknown = {}
    BY <1>1, <2>1 DEF Extractable, Extracts, IsIteration
  <2>3. /\ Names(e) = Inspected(e).refs /\ Names(e) \subseteq Available(n)
        /\ Each \notin Names(e)
    BY <2>1, <2>2, NodeNames DEF DependencyExprs
  <2>4. e \in DOMAIN cache
    BY <1>4 DEF BuilderInv, CacheFilled, SharedExprs
  <2>5. CASE cache[e] = Inspected(e).refs
    <3>1. Names(e) \subseteq UNION {cache[f] : f \in BaseExprs(r)}
      BY <1>4, <2>3, <2>5
    <3>2. QED
      BY <2>3, <2>5, <3>1 DEF Narrow, BaseContext
  <2>6. CASE ReadyOfNode(e)
    <3>1. PICK m \in Nodes : e \in ReadyExprs(Res(def, m))
      BY <2>6 DEF ReadyOfNode
    <3>2. ReadyRestricted(m)
      BY DEF BuilderInv, NodesCompiled, Wired
    <3>3. Names(e) \subseteq {Each} \/ Names(e) \subseteq {m}
      BY <2>3, <3>1, <3>2 DEF ReadyRestricted, Restricted
    <3>4. CASE Names(e) = {}
      BY <3>4
    <3>5. CASE m \in Names(e)
      BY <2>3, <3>1, <3>5, SchemaIsNoNode DEF Available, Sorted
    <3>6. QED
      BY <2>3, <3>3, <3>4, <3>5
  <2>7. QED
    BY <2>4, <2>5, <2>6 DEF BuilderInv, CacheFilled
<1>5. QED
  BY <1>2, <1>3, <1>4 DEF TemplatesInScope

LEMMA ReadyScope ==
    ASSUME BuilderInv, InspectsTheFreeNames, phase = "done", NEW n \in Nodes
    PROVE  ReadyInScope(n)
<1> DEFINE r == Res(def, n)
<1>1. SUFFICES ASSUME NodeType(r) # "externalCollection", NEW e \in ReadyExprs(r)
               PROVE  Names(e) \subseteq ReadyContext(n, e)
  BY DEF ReadyInScope
<1>2. ReadyRestricted(n)
  BY DEF BuilderInv, NodesCompiled, Wired
<1>3. /\ Inspected(e).unknown = {}
      /\ Inspected(e).refs \subseteq {IF NodeType(r) = "collection" THEN Each ELSE n}
  BY <1>1, <1>2 DEF ReadyRestricted, Restricted
<1>4. Names(e) = Inspected(e).refs
  BY <1>1, <1>3, NamesOf DEF Sorted
<1>5. CASE NodeType(r) = "collection"
  BY <1>3, <1>4, <1>5 DEF ReadyContext
<1>6. CASE NodeType(r) # "collection"
  <2>1. e \in DOMAIN cache
    BY <1>1 DEF BuilderInv, CacheFilled, SharedExprs
  <2>2. cache[e] = Inspected(e).refs \/ cache[e] = {}
    BY <2>1 DEF BuilderInv, CacheFilled
  <2>3. Names(e) \subseteq Narrow({n}, cache[e])
    BY <1>3, <1>4, <1>6, <2>2 DEF Narrow
  <2>4. QED
    BY <1>1, <1>6, <2>3 DEF ReadyContext
<1>7. QED
  BY <1>5, <1>6

LEMMA StatusScope ==
    ASSUME BuilderInv, InspectsTheFreeNames, phase = "done",
           NEW e \in StatusExprs, e \notin ReadyTexts
    PROVE  Names(e) \subseteq StatusContext(e)
<1>1. e # Plain /\ Inspected(e).unknown = {}
  BY DEF BuilderInv, StatusRestricted, Wired, Restricted
<1>2. e # NotStandalone
  BY BuilderAssumption DEF BuilderInv, StatusExprs
<1>3. Exact(def, e)
  BY <1>1, <1>2 DEF InspectsTheFreeNames, Exprs, StatusExprs
<1>4. Names(e) = Inspected(e).refs
  BY <1>1, <1>3 DEF Exact, Inspected
<1>5. cache[e] = Names(e)
  BY <1>4, CachedStates
<1>6. Names(e) \subseteq StatusDeps /\ Names(e) \subseteq UNION {cache[f] : f \in StatusExprs}
  BY <1>4, <1>5 DEF StatusDeps
<1>7. QED
  BY <1>5, <1>6 DEF Narrow, StatusContext

(* Every name an expression of a built graph needs is bound when the       *)
(* runtime evaluates it, although getOrCreateExpr gives expressions of     *)
(* equal text one state with the references of whichever was wired first:  *)
(* a template whose references were lost to a readyWhen has the text of a  *)
(* readyWhen of one of its dependencies.                                   *)
THEOREM BuilderScope == Spec /\ []InspectsTheFreeNames => []InScope
<1>1. ASSUME BuilderInv, InspectsTheFreeNames PROVE InScope
  BY <1>1, IncludeScope, TemplateScope, ReadyScope, StatusScope DEF InScope
<1>2. QED
  BY <1>1, Invariance, PTL

====
