---- MODULE ResourceGraphs ----
(***************************************************************************)
(* Vocabulary of the modules about building a graph: what a resource graph *)
(* is (input/v1alpha1 ResourceGraph, with the control plane it meets) and  *)
(* what the builder asks of the CEL library.                               *)
(*                                                                         *)
(* A definition d is a record                                              *)
(*   xr          the kind (GVK) of the composite resource                  *)
(*   capability  Crossplane supports required_schemas                      *)
(*   omitGate    the feature gate CELOmitFunction is on                    *)
(*   seeded      a request carries an unrelated schema or resource from    *)
(*               the first call on                                         *)
(*   answers     what Crossplane knows of each kind: "good", "none", "bad" *)
(*               (cannot be converted) or "other" (a CRD without the       *)
(*               version asked for)                                        *)
(*   resources   a sequence of resources                                   *)
(*   status      the status fields: expressions, or Plain                  *)
(* and a resource r is a record                                            *)
(*   id, kind, form  "template", "externalRef", "selector", "both" (an     *)
(*               externalRef and a template) or "neither"                  *)
(*   object      "ok", "offSchema", "notAnObject" (no apiVersion or        *)
(*               metadata), "unreadable" (no kind, or not JSON)            *)
(*   fields      the expressions the parser finds: [path, expr]            *)
(*   includeWhen, readyWhen  sequences of expressions or NotStandalone     *)
(*   forEach     a sequence of [name, expr]                                *)
(* Two expressions are equal when their texts are.                         *)
(***************************************************************************)
EXTENDS Digraphs

CONSTANTS
    Definitions,
    Schema, Each,             \* SchemaVarName, EachVarName
    CRDKind,                  \* apiextensions.k8s.io/v1 CustomResourceDefinition
    CoreKinds,                \* kinds with a compiled-in schema
    ReservedWords,            \* kroReservedKeyWords and celReservedSymbols
    LowerCamelCase,           \* the names lowerCamelCaseRegex matches
    MaxCollectionDimensionSize,
    Plain, NotStandalone,
    Inspect(_, _),     \* what the inspector finds in an expression, given the
                       \* known identifiers: [parses, refs, unknown,
                       \* unknownFunctions, omit]
    Names(_),          \* the names an expression needs bound to be evaluated
    Check(_, _),       \* its type in an environment (a function from names to
                       \* types); IllTyped if it does not check
    FieldType(_, _),   \* the type the schema of a kind expects at a path
    Fits(_, _)         \* validateExpressionType: output type, expected type

ASSUME ResourceGraphsAssumption ==
    /\ Schema # Each
    /\ {Schema, Each} \subseteq ReservedWords
    /\ CRDKind \in CoreKinds
    /\ MaxCollectionDimensionSize \in Nat

(* CEL types, as far as the builder looks into them.                       *)
ObjectType(k) == [t |-> "object", of |-> k]
ListType(t) == [t |-> "list", of |-> t]
IllTyped == [t |-> "illTyped"]
IsBoolOrOptionalBool(t) == t.t \in {"bool", "optionalBool"}

----
(* A resource                                                              *)

HasTemplate(r) == r.form \in {"template", "both"}
HasExternalRef(r) == r.form \in {"externalRef", "selector", "both"}

NodeType(r) ==
    IF r.form = "selector" THEN "externalCollection"
    ELSE IF HasExternalRef(r) THEN "external"
    ELSE IF r.forEach # <<>> THEN "collection" ELSE "resource"

Iterators(r) == {d.name : d \in Elems(r.forEach)}
TemplateExprs(r) == {f.expr : f \in Elems(r.fields)}
ForEachExprs(r) == {d.expr : d \in Elems(r.forEach)}
IncludeExprs(r) == Elems(r.includeWhen)
ReadyExprs(r) == Elems(r.readyWhen)

(* The expressions whose references become dependencies; readyWhen is not  *)
(* among them.                                                             *)
DependencyExprs(r) == TemplateExprs(r) \cup ForEachExprs(r) \cup IncludeExprs(r)

MetadataNamePath == "metadata.name"
MetadataNamespacePath == "metadata.namespace"
IdentityPaths == {MetadataNamePath, MetadataNamespacePath}
MetadataPaths == IdentityPaths \cup {"metadata.labels"}

----
(* A definition                                                            *)

Resources(d) == Elems(d.resources)
IDs(d) == {r.id : r \in Resources(d)}
Res(d, n) == CHOOSE r \in Resources(d) : r.id = n
Known(d) == IDs(d) \cup {Schema, Each}

(* collectGVKs.                                                            *)
GVKs(d) == {d.xr} \cup {r.kind : r \in Resources(d)}

(* combinedResolver: what Crossplane sent, then the compiled-in kinds.     *)
Resolvable(d) == CoreKinds \cup {k \in GVKs(d) : d.answers[k] = "good"}

(* collectNodeSchemas and getSchemaWithoutStatus: the typed environment.   *)
NodeSchemas(d) ==
    [v \in IDs(d) \cup {Schema} |->
        IF v = Schema THEN ObjectType(d.xr)
        ELSE IF NodeType(Res(d, v)) \in {"collection", "externalCollection"}
             THEN ListType(ObjectType(Res(d, v).kind))
             ELSE ObjectType(Res(d, v).kind)]

(* The environment of a collection's templates: every iterator has the     *)
(* element type of its forEach list.                                       *)
TemplateEnv(d, r) ==
    [v \in IDs(d) \cup {Schema} \cup Iterators(r) |->
        IF v \in Iterators(r)
        THEN Check((CHOOSE i \in Elems(r.forEach) : i.name = v).expr, NodeSchemas(d)).of
        ELSE NodeSchemas(d)[v]]
====
