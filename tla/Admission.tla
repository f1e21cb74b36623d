---- MODULE Admission ----
(***************************************************************************)
(* What building a resource graph promises, apart from how it is done: a   *)
(* definition is accepted if and only if it is acceptable, with the graph  *)
(* its expressions declare, and a decision is reached.  In particular the  *)
(* decision does not depend on the order in which anything is walked.      *)
(***************************************************************************)
EXTENDS ResourceGraphs

VARIABLES def, verdict, graph

admissionVars == <<def, verdict, graph>>

NoGraph == [deps |-> [n \in {} |-> {}], statusDeps |-> {}, order |-> <<>>]

----
(* Acceptable definitions                                                  *)

(* Crossplane can answer for the kinds of d.                               *)
Negotiable(d) ==
    /\ \A r \in Resources(d) : HasExternalRef(r) \/ (HasTemplate(r) /\ r.object # "unreadable")
    /\ \A k \in GVKs(d) : d.answers[k] # "bad"
    /\ \E k \in GVKs(d) : d.answers[k] \in {"good", "other"}
    /\ d.xr \in Resolvable(d)

UsableNames == LowerCamelCase \ ReservedWords

WellNamed(d) ==
    /\ IDs(d) \subseteq UsableNames
    /\ \A i, j \in DOMAIN d.resources : d.resources[i].id = d.resources[j].id => i = j
    /\ \A r \in Resources(d) :
          /\ Len(r.forEach) <= MaxCollectionDimensionSize
          /\ Iterators(r) \subseteq UsableNames \ IDs(d)
          /\ \A i, j \in DOMAIN r.forEach : r.forEach[i].name = r.forEach[j].name => i = j

WellFormed(d, r) ==
    /\ r.form \in {"template", "externalRef", "selector"}
    /\ HasExternalRef(r) => r.forEach = <<>>
    /\ HasTemplate(r) => r.object # "notAnObject"
    /\ r.object = "offSchema" => HasExternalRef(r) \/ r.kind = CRDKind
    /\ r.kind \in Resolvable(d)
    /\ HasTemplate(r) /\ r.kind = CRDKind => \A f \in Elems(r.fields) : f.path \in MetadataPaths
    /\ NotStandalone \notin IncludeExprs(r) \cup ReadyExprs(r) \cup ForEachExprs(r)

(* Every name is bound where the expression is evaluated.                  *)
ReadyNames(r) == IF NodeType(r) = "collection" THEN {Each} ELSE {r.id}

WellScoped(d, r) ==
    /\ \A e \in TemplateExprs(r) : Names(e) \subseteq IDs(d) \cup {Schema} \cup Iterators(r)
    /\ \A e \in ForEachExprs(r) \cup IncludeExprs(r) : Names(e) \subseteq IDs(d) \cup {Schema}
    /\ \A e \in ReadyExprs(r) : Names(e) \subseteq ReadyNames(r)
    /\ Iterators(r) \subseteq UNION {Names(f.expr) : f \in {g \in Elems(r.fields) :
                                                               g.path \in IdentityPaths}}

(* Expressions parse and call known functions; omit() stays in templates.  *)
Legible(d, e) == Inspect(e, Known(d)).parses /\ ~Inspect(e, Known(d)).unknownFunctions
Omits(d, e) == Inspect(e, Known(d)).omit

WellWritten(d, r) ==
    /\ \A e \in DependencyExprs(r) \cup ReadyExprs(r) : Legible(d, e)
    /\ \A e \in TemplateExprs(r) \cup IncludeExprs(r) : Omits(d, e) => d.omitGate
    /\ \A e \in ForEachExprs(r) \cup ReadyExprs(r) : ~Omits(d, e)
    /\ \A f \in Elems(r.fields) : f.path = MetadataNamePath => ~Omits(d, f.expr)

(* The types fit, a collection's readyWhen being about its own items.      *)
ReadyEnv(d, r) ==
    IF NodeType(r) = "collection"
    THEN [v \in IDs(d) \cup {Schema, Each} |->
             IF v = Each THEN ObjectType(r.kind) ELSE NodeSchemas(d)[v]]
    ELSE NodeSchemas(d)

WellTyped(d, r) ==
    /\ \A e \in ForEachExprs(r) : Check(e, NodeSchemas(d)).t = "list"
    /\ \A f \in Elems(r.fields) :
          /\ Check(f.expr, TemplateEnv(d, r)) # IllTyped
          /\ Fits(Check(f.expr, TemplateEnv(d, r)), FieldType(r.kind, f.path))
    /\ \A e \in IncludeExprs(r) : IsBoolOrOptionalBool(Check(e, NodeSchemas(d)))
    /\ \A e \in ReadyExprs(r) : IsBoolOrOptionalBool(Check(e, ReadyEnv(d, r)))

StatusAcceptable(d) ==
    \A e \in Elems(d.status) :
        /\ e # Plain
        /\ Legible(d, e)
        /\ ~Omits(d, e)
        /\ Names(e) # {}
        /\ Names(e) \subseteq IDs(d)
        /\ Check(e, NodeSchemas(d)) # IllTyped

(* The graph that the expressions declare.                                 *)
DeclaredDeps(d) ==
    [n \in IDs(d) |-> (UNION {Names(e) : e \in DependencyExprs(Res(d, n))})
                          \ ({Schema} \cup Iterators(Res(d, n)))]

Acceptable(d) ==
    /\ Negotiable(d)
    /\ WellNamed(d)
    /\ \A r \in Resources(d) :
          WellFormed(d, r) /\ WellScoped(d, r) /\ WellWritten(d, r) /\ WellTyped(d, r)
    /\ ~Cyclic(IDs(d), DeclaredDeps(d))
    /\ StatusAcceptable(d)

(* The orders in which every node comes behind what it refers to.          *)
Behind(d, order) ==
    /\ Elems(order) = IDs(d)
    /\ Len(order) = Len(d.resources)
    /\ \A i \in 1..Len(order) :
          DeclaredDeps(d)[order[i]] \subseteq {order[j] : j \in 1..(i - 1)}

Declared(d, g) ==
    /\ g.deps = DeclaredDeps(d)
    /\ g.statusDeps = UNION {Names(e) : e \in Elems(d.status)}
    /\ Behind(d, g.order)

----
(* Decisions                                                               *)

Init == verdict = "open" /\ graph = NoGraph

Accept == /\ verdict = "open"
          /\ verdict' = "accepted"
          /\ Acceptable(def)
          /\ Declared(def, graph')
          /\ UNCHANGED def

Reject == /\ verdict = "open"
          /\ verdict' = "rejected"
          /\ ~Acceptable(def)
          /\ UNCHANGED <<def, graph>>

Safe == Init /\ [][Accept \/ Reject]_admissionVars

Decided == <>(verdict # "open")

Spec == Safe /\ Decided
====
