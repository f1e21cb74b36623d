---- MODULE Builder ----
(***************************************************************************)
(* From the input of a call to a runtime: fn.go obtains the schemas of the *)
(* kinds in the graph from Crossplane, kro/graph builds and checks the     *)
(* graph, and kro/runtime wires the expressions of its nodes.              *)
(*                                                                         *)
(* The steps are sequential; what is left to chance is the order in which  *)
(* Go walks the map of nodes, here the choice of n in todo.                *)
(***************************************************************************)
EXTENDS ResourceGraphs

(* A definition lists its resources, and the inspector sorts the names in   *)
(* an expression into known and unknown ones.  The kind of a composite     *)
(* resource comes from a CRD, so it is not compiled in.                    *)
ASSUME BuilderAssumption ==
    \A d \in Definitions :
        /\ d.xr \notin CoreKinds
        /\ d.resources \in Seq(Resources(d))
        /\ NotStandalone \notin Elems(d.status)
        /\ \A r \in Resources(d) :
               /\ r.object \in {"ok", "offSchema", "notAnObject", "unreadable"}
               /\ r.forEach \in Seq(Elems(r.forEach))
               /\ NotStandalone \notin TemplateExprs(r)
               /\ Plain \notin DependencyExprs(r) \cup ReadyExprs(r)
               /\ \A e \in (DependencyExprs(r) \cup ReadyExprs(r)) \ {NotStandalone} :
                      /\ Inspect(e, Known(d)).refs \subseteq Known(d)
                      /\ Inspect(e, Known(d)).unknown \cap Known(d) = {}

VARIABLES
    def,       \* the definition
    phase,     \* where the call is, or how it ended
    answered,  \* Crossplane has answered the requirements of the last call
    at,        \* position in the list being walked
    todo,      \* nodes not yet visited by the map walk under way
    deps,      \* Meta.Dependencies of the nodes extracted so far
    order,     \* TopologicalOrder, as far as it is sorted
    eachEnv,   \* the cached environment of "each": its type, or NoEnv
    cache      \* FromGraph's expressionsCache: References by expression text

vars == <<def, phase, answered, at, todo, deps, order, eachEnv, cache>>

NoEnv == [t |-> "none"]

Nodes == IDs(def)
NoDeps(d) == [n \in IDs(d) |-> {}]
NoCache == [e \in {} |-> {}]

Init ==
    /\ def \in Definitions
    /\ phase = "collect"
    /\ answered = FALSE
    /\ at = 1
    /\ todo = {}
    /\ deps = NoDeps(def)
    /\ order = <<>>
    /\ eachEnv = NoEnv
    /\ cache = NoCache

(* A check that ends the call when it fails.                               *)
Proceed(ok, next) == phase' = IF ok THEN next ELSE "fatal"

Index(n) == CHOOSE i \in DOMAIN def.resources : def.resources[i].id = n

----
(* Schema negotiation (fn.go)                                              *)

(* collectGVKs and requireSchemas: an externalRef is looked at before the  *)
(* template; a template must be an object with a kind.                     *)
CollectGVKs ==
    /\ phase = "collect"
    /\ Proceed(\A r \in Resources(def) :
                   HasExternalRef(r) \/ (HasTemplate(r) /\ r.object # "unreadable"),
               "schemas")
    /\ UNCHANGED <<def, answered, at, todo, deps, order, eachEnv, cache>>

(* buildResolverFromSchemas: kinds without an answer, or with an empty one *)
(* are passed over, but some schema must be usable.                        *)
SchemasUsable ==
    /\ answered
    /\ \A k \in GVKs(def) : def.answers[k] # "bad"
    /\ \E k \in GVKs(def) : def.answers[k] = "good"

BuildResolverFromSchemas ==
    /\ phase = "schemas"
    /\ def.capability
    /\ IF ~answered /\ ~def.seeded
       THEN phase' = "waiting"
       ELSE Proceed(SchemasUsable /\ def.xr \in Resolvable(def), "names")
    /\ UNCHANGED <<def, answered, at, todo, deps, order, eachEnv, cache>>

(* buildResolverFromCRDs: a kind without an answer means waiting.          *)
CRDsUsable ==
    /\ \A k \in GVKs(def) : def.answers[k] # "bad"
    /\ \E k \in GVKs(def) : def.answers[k] # "none"

BuildResolverFromCRDs ==
    /\ phase = "schemas"
    /\ ~def.capability
    /\ IF ~answered
       THEN phase' = "waiting"
       ELSE Proceed(CRDsUsable /\ def.xr \in Resolvable(def), "names")
    /\ UNCHANGED <<def, answered, at, todo, deps, order, eachEnv, cache>>

(* Crossplane looks up every requirement of the response and calls again.  *)
CallAgain ==
    /\ phase = "waiting"
    /\ phase' = "collect"
    /\ answered' = TRUE
    /\ UNCHANGED <<def, at, todo, deps, order, eachEnv, cache>>

----
(* Names and resources (validation.go, buildRGResource)                    *)

ValidName(v) == v \in LowerCamelCase /\ v \notin ReservedWords

validateForEachDimensions(r) ==
    /\ Len(r.forEach) <= MaxCollectionDimensionSize
    /\ \A i \in DOMAIN r.forEach :
          /\ ValidName(r.forEach[i].name)
          /\ r.forEach[i].name \notin Nodes
          /\ \A j \in 1..(i - 1) : r.forEach[j].name # r.forEach[i].name

ValidateResourceIDs ==
    /\ phase = "names"
    /\ Proceed(/\ \A i \in DOMAIN def.resources :
                     /\ ValidName(def.resources[i].id)
                     /\ \A j \in 1..(i - 1) : def.resources[j].id # def.resources[i].id
               /\ \A r \in Resources(def) : validateForEachDimensions(r),
               "resources")
    /\ at' = 1
    /\ UNCHANGED <<def, answered, todo, deps, order, eachEnv, cache>>

validateCombinableResourceFields(r) ==
    /\ HasTemplate(r) \/ HasExternalRef(r)
    /\ ~(HasTemplate(r) /\ HasExternalRef(r))
    /\ ~(HasExternalRef(r) /\ r.forEach # <<>>)

(* Extraction of the expressions: a template must follow the schema of its *)
(* kind, except that of a CRD, whose expressions must be in its metadata.  *)
FieldsParse(r) ==
    \/ HasExternalRef(r)
    \/ r.kind = CRDKind /\ \A f \in Elems(r.fields) : f.path \in MetadataPaths
    \/ r.kind # CRDKind /\ r.object # "offSchema"

buildRGResource(r) ==
    /\ validateCombinableResourceFields(r)
    /\ HasExternalRef(r) \/ r.object \in {"ok", "offSchema"}
    /\ r.kind \in Resolvable(def)
    /\ FieldsParse(r)
    /\ NotStandalone \notin ReadyExprs(r) \cup IncludeExprs(r) \cup ForEachExprs(r)

BuildResource ==
    /\ phase = "resources"
    /\ at <= Len(def.resources)
    /\ Proceed(buildRGResource(def.resources[at]), "resources")
    /\ at' = at + 1
    /\ UNCHANGED <<def, answered, todo, deps, order, eachEnv, cache>>

(* All vertices are added before any dependency.                           *)
StartDependencyGraph ==
    /\ phase = "resources"
    /\ at > Len(def.resources)
    /\ phase' = "extract"
    /\ todo' = Nodes
    /\ UNCHANGED <<def, answered, at, deps, order, eachEnv, cache>>

----
(* The dependency graph (buildDependencyGraph)                             *)

Inspected(e) == Inspect(e, Known(def))

(* extractDependencies: every unknown identifier must be an iterator.      *)
Extracts(e, iterators) ==
    /\ Inspected(e).parses
    /\ Inspected(e).omit => def.omitGate
    /\ Inspected(e).unknown \subseteq iterators
    /\ ~Inspected(e).unknownFunctions

UsedInIdentity(r) ==
    UNION {Inspected(f.expr).unknown : f \in {g \in Elems(r.fields) : g.path \in IdentityPaths}}

Extractable(r) ==
    /\ \A e \in TemplateExprs(r) : Extracts(e, Iterators(r))
    /\ Iterators(r) \subseteq UsedInIdentity(r)
    /\ \A e \in ForEachExprs(r) : Extracts(e, {})
    /\ \A e \in IncludeExprs(r) : Extracts(e, {})

\* Mutant: iterators count as dependencies.
DependenciesWithIterators(r) ==
    (UNION {Inspected(e).refs \cup Inspected(e).unknown : e \in DependencyExprs(r)}) \ {Schema}

Dependencies(r) == (UNION {Inspected(e).refs : e \in DependencyExprs(r)}) \ {Schema}

(* AddDependencies.                                                        *)
Linkable(n, ds) ==
    /\ ds \subseteq Nodes
    /\ n \notin ds
    /\ ~Cyclic(Nodes, [deps EXCEPT ![n] = ds])

ExtractNode(n) ==
    /\ phase = "extract"
    /\ n \in todo
    /\ LET r == Res(def, n)
       IN  /\ Proceed(Extractable(r) /\ Linkable(n, Dependencies(r)), "extract")
           /\ deps' = [deps EXCEPT ![n] = Dependencies(r)]
    /\ todo' = todo \ {n}
    /\ UNCHANGED <<def, answered, at, order, eachEnv, cache>>

\* Mutant: places the nodes in the order of the definition.
PlaceableByIndex == Nodes \ Elems(order)

(* TopologicalSort: of the nodes whose dependencies are placed, the first  *)
(* in the definition.  (Its cycle error cannot occur: AddDependencies has  *)
(* refused every cycle.)                                                   *)
Placeable == {m \in Nodes \ Elems(order) : deps[m] \subseteq Elems(order)}

PlaceNode ==
    /\ phase = "extract"
    /\ todo = {}
    /\ \E n \in Placeable :
          /\ \A m \in Placeable : Index(n) <= Index(m)
          /\ order' = Append(order, n)
    /\ UNCHANGED <<def, phase, answered, at, todo, deps, eachEnv, cache>>

----
(* Type checking (validateIdentityFields, validateAndCompileNode)          *)

StartIdentityFields ==
    /\ phase = "extract"
    /\ todo = {}
    /\ Elems(order) = Nodes
    /\ phase' = "identity"
    /\ todo' = IF def.omitGate THEN Nodes ELSE {}
    /\ UNCHANGED <<def, answered, at, deps, order, eachEnv, cache>>

(* isRequiredIdentityField: the composite counts as namespaced, so only    *)
(* metadata.name is required.                                              *)
ValidateIdentityFields(n) ==
    /\ phase = "identity"
    /\ n \in todo
    /\ Proceed(\A f \in Elems(Res(def, n).fields) :
                   f.path = MetadataNamePath => ~Inspected(f.expr).omit,
               "identity")
    /\ todo' = todo \ {n}
    /\ UNCHANGED <<def, answered, at, deps, order, eachEnv, cache>>

StartCompile ==
    /\ phase = "identity"
    /\ todo = {}
    /\ phase' = "compile"
    /\ todo' = Nodes
    /\ UNCHANGED <<def, answered, at, deps, order, eachEnv, cache>>

(* inspectExpressionRestricted.                                            *)
Restricted(e, allowed) ==
    /\ Inspected(e).parses
    /\ Inspected(e).refs \subseteq allowed
    /\ Inspected(e).unknown = {}
    /\ ~Inspected(e).unknownFunctions
    /\ ~Inspected(e).omit

validateAndCompileForEach(r) ==
    \A e \in ForEachExprs(r) :
        /\ ~Inspected(e).omit
        /\ Check(e, NodeSchemas(def)).t = "list"

validateAndCompileTemplates(r) ==
    \A f \in Elems(r.fields) :
        LET type == Check(f.expr, TemplateEnv(def, r))
        IN  type # IllTyped /\ Fits(type, FieldType(r.kind, f.path))

validateAndCompileIncludeWhen(n, r) ==
    \A e \in IncludeExprs(r) :
        /\ Inspected(e).refs \subseteq deps[n] \cup {Schema}
        /\ IsBoolOrOptionalBool(Check(e, NodeSchemas(def)))

UsesEach(r) == NodeType(r) = "collection" /\ r.readyWhen # <<>>

(* extendWithTypedVar: the environment of "each" is cached under the names *)
(* of the parent environment and the variable, whatever the schema.        *)
extendWithTypedVar(r) == IF eachEnv = NoEnv THEN ObjectType(r.kind) ELSE eachEnv

readyEnv(r) ==
    IF UsesEach(r)
    THEN [v \in Nodes \cup {Schema, Each} |->
             IF v = Each THEN extendWithTypedVar(r) ELSE NodeSchemas(def)[v]]
    ELSE NodeSchemas(def)

\* Mutant: a readyWhen may refer to any node.
validateAndCompileReadyWhenAnywhere(n, r) ==
    \A e \in ReadyExprs(r) :
        /\ Restricted(e, Nodes \cup {Each})
        /\ IsBoolOrOptionalBool(Check(e, readyEnv(r)))

validateAndCompileReadyWhen(n, r) ==
    \A e \in ReadyExprs(r) :
        /\ Restricted(e, {IF NodeType(r) = "collection" THEN Each ELSE n})
        /\ IsBoolOrOptionalBool(Check(e, readyEnv(r)))

CompileNode(n) ==
    /\ phase = "compile"
    /\ n \in todo
    /\ LET r == Res(def, n)
       IN  /\ Proceed(/\ validateAndCompileForEach(r)
                      /\ validateAndCompileTemplates(r)
                      /\ validateAndCompileIncludeWhen(n, r)
                      /\ validateAndCompileReadyWhen(n, r),
                      "compile")
           /\ eachEnv' = IF UsesEach(r) THEN extendWithTypedVar(r) ELSE eachEnv
    /\ todo' = todo \ {n}
    /\ UNCHANGED <<def, answered, at, deps, order, cache>>

----
(* The instance (buildInstanceNodeFromSchema)                              *)

StatusExprs == Elems(def.status)
StatusDeps == UNION {Inspected(e).refs : e \in StatusExprs}

BuildInstance ==
    /\ phase = "compile"
    /\ todo = {}
    /\ Proceed(\A e \in StatusExprs :
                   /\ e # Plain
                   /\ Restricted(e, Nodes)
                   /\ Check(e, NodeSchemas(def)) # IllTyped
                   /\ Inspected(e).refs # {},
               "wire")
    /\ at' = 1
    /\ UNCHANGED <<def, answered, todo, deps, order, eachEnv, cache>>

----
(* The runtime (FromGraph)                                                 *)

IsIteration(r, e) == Inspected(e).unknown \cap Iterators(r) # {}
BaseExprs(r) == {e \in TemplateExprs(r) : ~IsIteration(r, e)}
IterationExprs(r) == {e \in TemplateExprs(r) : IsIteration(r, e)}

(* getOrCreateExpr: expressions of the same text share the state of the    *)
(* one wired first, and the builder has set no References on a readyWhen.  *)
(* forEach and iteration expressions have states of their own.             *)
WireNode ==
    /\ phase = "wire"
    /\ at <= Len(order)
    /\ LET r == Res(def, order[at])
       IN  cache' = [e \in DOMAIN cache \cup IncludeExprs(r) \cup ReadyExprs(r) \cup BaseExprs(r) |->
                        IF e \in DOMAIN cache THEN cache[e]
                        ELSE IF e \in ReadyExprs(r) \ IncludeExprs(r) THEN {}
                        ELSE Inspected(e).refs]
    /\ at' = at + 1
    /\ UNCHANGED <<def, phase, answered, todo, deps, order, eachEnv>>

WireInstance ==
    /\ phase = "wire"
    /\ at > Len(order)
    /\ cache' = [e \in DOMAIN cache \cup StatusExprs |->
                    IF e \in DOMAIN cache THEN cache[e] ELSE Inspected(e).refs]
    /\ phase' = "done"
    /\ UNCHANGED <<def, answered, at, todo, deps, order, eachEnv>>

----
Next ==
    \/ CollectGVKs
    \/ BuildResolverFromSchemas
    \/ BuildResolverFromCRDs
    \/ CallAgain
    \/ ValidateResourceIDs
    \/ BuildResource
    \/ StartDependencyGraph
    \/ \E n \in Nodes : ExtractNode(n)
    \/ PlaceNode
    \/ StartIdentityFields
    \/ \E n \in Nodes : ValidateIdentityFields(n)
    \/ StartCompile
    \/ \E n \in Nodes : CompileNode(n)
    \/ BuildInstance
    \/ WireNode
    \/ WireInstance

Spec == Init /\ [][Next]_vars

(* The call runs on one goroutine to its end, and Crossplane calls a       *)
(* function that has requirements again.                                   *)
FairSpec == Spec /\ WF_vars(Next)

----
(* Properties                                                              *)

Phases == {"collect", "schemas", "waiting", "names", "resources", "extract", "identity",
           "compile", "wire", "done", "fatal"}

(* Type correctness: a node's dependencies are identifiers the inspector   *)
(* knows, and the sorted and pending nodes are nodes of the definition.    *)
TypeOK ==
    /\ phase \in Phases
    /\ answered \in BOOLEAN
    /\ at \in Nat \ {0}
    /\ todo \subseteq Nodes
    /\ deps \in [Nodes -> SUBSET Known(def)]
    /\ order \in Seq(Nodes)
    /\ DOMAIN eachEnv \in {{"t"}, {"t", "of"}}
    /\ \A e \in DOMAIN cache : cache[e] \subseteq Known(def)

(* What the inspector reports of an expression is what CEL needs bound to  *)
(* evaluate it: the names that are free in it, known or not.               *)
Exprs(d) == (UNION {DependencyExprs(r) \cup ReadyExprs(r) : r \in Resources(d)})
               \cup Elems(d.status)

Exact(d, e) ==
    /\ Inspect(e, Known(d)).refs = Names(e) \cap Known(d)
    /\ Inspect(e, Known(d)).unknown = Names(e) \ Known(d)

InspectsTheFreeNames == \A e \in Exprs(def) \ {Plain, NotStandalone} : Exact(def, e)

----
(* The names a wired runtime binds for an expression (kro/runtime).        *)

(* buildContext and filterContext: an empty list narrows nothing.          *)
Narrow(names, only) == IF only = {} THEN names ELSE names \cap only

Available(n) == deps[n] \cup {Schema}

(* IsIgnored.                                                              *)
IncludeContext(n, e) ==
    Narrow(Narrow(Available(n), UNION {cache[f] : f \in IncludeExprs(Res(def, n))}), cache[e])

(* evaluateForEach.                                                        *)
ForEachContext(n, e) ==
    Narrow(Narrow(Available(n), UNION {Inspected(f).refs : f \in ForEachExprs(Res(def, n))}),
           Inspected(e).refs)

\* Mutant: neededDeps skips the wrong expressions.
BaseContextOfIterations(n, e) ==
    Narrow(Available(n), UNION {Inspected(f).refs : f \in IterationExprs(Res(def, n))})

(* evaluateExprsFiltered with neededDeps.                                  *)
BaseContext(n, e) ==
    Narrow(Narrow(Available(n), UNION {cache[f] : f \in BaseExprs(Res(def, n))}), cache[e])

(* hardResolveCollection.                                                  *)
IterationContext(n) ==
    LET r == Res(def, n)
    IN  Narrow(Available(n), UNION {Inspected(f).refs \cup Inspected(f).unknown :
                                       f \in IterationExprs(r)}) \cup Iterators(r)

(* checkSingleResourceReadiness and checkCollectionReadiness.              *)
ReadyContext(n, e) ==
    IF NodeType(Res(def, n)) \in {"collection", "externalCollection"} THEN {Each}
    ELSE Narrow({n}, cache[e])

(* softResolve; the instance is not among its own dependencies.            *)
StatusContext(e) ==
    Narrow(Narrow(StatusDeps, UNION {cache[f] : f \in StatusExprs}), cache[e])

ReadyTexts == UNION {ReadyExprs(r) : r \in Resources(def)}

(* Every expression of a graph that was built finds its names bound when   *)
(* the runtime evaluates it, whichever expression of the same text was     *)
(* wired first.  A template that shares its text with a readyWhen of a     *)
(* dependency need not be evaluated: the readiness gate has done it.  Not  *)
(* covered are includeWhen and status expressions with the text of a       *)
(* readyWhen (see IncludeWhenWaits) and readyWhen of external collections. *)
IncludesInScope(n) ==
    \A e \in IncludeExprs(Res(def, n)) \ ReadyTexts : Names(e) \subseteq IncludeContext(n, e)

TemplatesInScope(n) ==
    /\ \A e \in ForEachExprs(Res(def, n)) : Names(e) \subseteq ForEachContext(n, e)
    /\ \A e \in IterationExprs(Res(def, n)) : Names(e) \subseteq IterationContext(n)
    /\ \A e \in BaseExprs(Res(def, n)) :
          \/ Names(e) \subseteq BaseContext(n, e)
          \/ \E m \in deps[n] : e \in ReadyExprs(Res(def, m))

ReadyInScope(n) ==
    NodeType(Res(def, n)) # "externalCollection" =>
        \A e \in ReadyExprs(Res(def, n)) : Names(e) \subseteq ReadyContext(n, e)

InScope ==
    phase = "done" =>
        /\ \A n \in Nodes : IncludesInScope(n) /\ TemplatesInScope(n) /\ ReadyInScope(n)
        /\ \A e \in StatusExprs \ ReadyTexts : Names(e) \subseteq StatusContext(e)

(* A node of a sorted graph comes behind every node named by one of its    *)
(* templates, forEach or includeWhen expressions.                          *)
OrderedBehindReferences ==
    phase \in {"identity", "compile", "wire", "done"} =>
        \A i \in DOMAIN order : \A e \in DependencyExprs(Res(def, order[i])) :
            Names(e) \cap Nodes \subseteq {order[j] : j \in 1..(i - 1)}

(* IsIgnored: "Resource-backed includeWhen conditions evaluate against     *)
(* observed upstream state, so they must wait until those dependencies are *)
(* ready."  The references of the wired state decide what is waited for.   *)
IncludeWhenWaits ==
    phase = "done" =>
        \A n \in Nodes : \A e \in IncludeExprs(Res(def, n)) :
            Names(e) \cap Nodes \subseteq cache[e]

----
(* The abstract specification                                              *)

Decision ==
    INSTANCE Admission WITH
        verdict <- CASE phase = "fatal" -> "rejected"
                     [] phase \in {"wire", "done"} -> "accepted"
                     [] OTHER -> "open",
        graph <- IF phase \in {"wire", "done"}
                 THEN [deps |-> deps, statusDeps |-> StatusDeps, order |-> order]
                 ELSE [deps |-> [n \in {} |-> {}], statusDeps |-> {}, order |-> <<>>]

(* Building a graph decides as the abstract specification of admission     *)
(* says, with the graph it says, and it always decides.                    *)
ImplementsAdmission == Decision!Spec
====
