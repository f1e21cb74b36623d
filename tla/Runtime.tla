---- MODULE Runtime ----
(***************************************************************************)
(* What the nodes of a kro runtime (kro/runtime) answer when asked whether *)
(* they are ignored, ready and resolvable, given the observed state that   *)
(* was set on them.                                                        *)
(*                                                                         *)
(* CEL programs are abstract: Eval...(x, ctx) is what evaluating x in the  *)
(* activation ctx yields.  A program whose data is missing yields          *)
(* "pending" (the errors isCELDataPending recognises); a result that is    *)
(* none of those listed is an error, as in evalBoolExpr and evalListExpr.  *)
(*                                                                         *)
(* Go ranges over the maps n.deps and resourceRefs in random order and     *)
(* returns the first failure it meets, so an answer is a SET: everything   *)
(* that some order can return.                                             *)
(***************************************************************************)
EXTENDS Integers, Sequences, FiniteSets

CONSTANTS
    Nodes,        \* node IDs, the instance excluded
    Schema,       \* the ID under which every node sees the instance
    Kind,         \* graph.NodeType of each node
    Deps,         \* Meta.Dependencies of each node
    IncludeWhen,  \* the includeWhen expressions of each node, in order
    ReadyWhen,    \* its readyWhen expressions, in order
    Refs,         \* References of each expression's evaluation state
    Names,        \* metadata.name of collection items
    NoName,       \* stands in a key for "not a collection item"
    Items,        \* identities of collection items
    ItemName,     \* the metadata.name of each identity
    States,       \* what can be observed of an object
    Specs,        \* what can be observed of the composite resource
    StatusVars,   \* the status fields of the instance
    StatusDeps,   \* the nodes they refer to
    MaxCollectionSize,
    EvalBool(_, _),      \* an includeWhen or readyWhen expression
    EvalTemplate(_, _),  \* all the template expressions of a node
    EvalIdentity(_, _),  \* those of metadata.name and metadata.namespace
    EvalForEach(_, _),   \* the expansion of a collection: [out, items], the
                         \* identities of the product of its forEach lists
                         \* (<<>> if a list fails) and whether the lists and
                         \* the per-item expressions evaluate
    EvalStatus(_, _)     \* a status field

Kinds == {"resource", "collection", "external", "externalCollection"}

Exprs == UNION {{IncludeWhen[n][i] : i \in DOMAIN IncludeWhen[n]}
                  \cup {ReadyWhen[n][i] : i \in DOMAIN ReadyWhen[n]} : n \in Nodes}

ASSUME RuntimeAssumption ==
    /\ IsFiniteSet(Nodes)
    /\ Schema \notin Nodes
    /\ Kind \in [Nodes -> Kinds]
    /\ Deps \in [Nodes -> SUBSET Nodes]
    /\ \A n \in Nodes : n \notin Deps[n]
    /\ \A n \in Nodes : /\ IncludeWhen[n] = [i \in 1..Len(IncludeWhen[n]) |-> IncludeWhen[n][i]]
                        /\ Len(IncludeWhen[n]) \in Nat
                        /\ ReadyWhen[n] = [i \in 1..Len(ReadyWhen[n]) |-> ReadyWhen[n][i]]
                        /\ Len(ReadyWhen[n]) \in Nat
    /\ Refs \in [Exprs -> SUBSET (Nodes \cup {Schema})]
    /\ ItemName \in [Items -> Names]
    /\ NoName \notin Names
    /\ StatusDeps \subseteq Nodes
    /\ MaxCollectionSize \in Nat

VARIABLES
    xr,        \* the observed composite resource
    observed,  \* n.observed: a set of objects, {} for nil
    computed,  \* the nodes whose n.desired is not nil
    desired    \* n.desired: the items of a computed collection

runtimeVars == <<xr, observed, computed, desired>>

(* fn.go calls SetObserved only with nonempty slices, so nil and empty are *)
(* the same.  An object is known by the composed resource name (key) it    *)
(* carries; the order of the items of a collection, which follows Go's     *)
(* random map order, is not represented.                                   *)
Managed(n) == Kind[n] \in {"resource", "collection"}
External(n) == Kind[n] \in {"external", "externalCollection"}
ManyObjects(n) == Kind[n] \in {"collection", "externalCollection"}

(* Composed resource names: the node ID alone, or followed by the item's   *)
(* metadata.name; IDs contain no "-", so the pair is recoverable.          *)
Keys == {k \in Nodes \X (Names \cup {NoName}) : ManyObjects(k[1]) <=> k[2] # NoName}

Objects == [key : Keys, state : States]

----
(* Contexts and expressions                                                *)

(* buildContext: the dependencies that have been observed, the instance    *)
(* among them, narrowed to only when that is nonempty.                     *)
buildContext(n, only) ==
    [d \in {c \in Deps[n] \cup {Schema} :
               /\ c # Schema => observed[c] # {}
               /\ only = {} \/ c \in only}
       |-> IF d = Schema THEN xr ELSE observed[d]]

filterContext(ctx, refs) ==
    IF refs = {} THEN ctx ELSE [d \in (DOMAIN ctx) \cap refs |-> ctx[d]]

(* evalBoolExpr: null counts as false, any other value is an error.  The   *)
(* result of the first successful evaluation is cached; the data it was    *)
(* computed from does not change during a call, so the cache is not shown. *)
evalBoolExpr(e, ctx) ==
    LET v == EvalBool(e, filterContext(ctx, Refs[e]))
    IN  IF v = "null" THEN "false"
        ELSE IF v \in {"true", "false", "pending"} THEN v ELSE "error"

(* The position of the first value that is not true; Len + 1 if none.      *)
FirstNotTrue(vals) ==
    IF \A i \in DOMAIN vals : vals[i] = "true"
    THEN Len(vals) + 1
    ELSE CHOOSE i \in DOMAIN vals :
             /\ vals[i] # "true"
             /\ \A j \in 1..(i - 1) : vals[j] = "true"

----
(* Readiness (node_readiness.go)                                           *)

\* Mutant: missing data is taken for readiness.
ReadinessOfPending(vals) ==
    LET i == FirstNotTrue(vals)
    IN  IF i = Len(vals) + 1 THEN "ready"
        ELSE IF vals[i] = "pending" THEN "ready"
        ELSE IF vals[i] = "error" THEN "error" ELSE "waiting"

(* What the values of the readyWhen expressions, in order, say: the first  *)
(* one that is not true decides.                                           *)
Readiness(vals) ==
    LET i == FirstNotTrue(vals)
    IN  IF i = Len(vals) + 1 THEN "ready"
        ELSE IF vals[i] = "error" THEN "error" ELSE "waiting"

checkSingleResourceReadiness(n) ==
    IF observed[n] = {} THEN {"waiting"}
    ELSE {Readiness([i \in 1..Len(ReadyWhen[n]) |->
                        evalBoolExpr(ReadyWhen[n][i], [d \in {n} |-> observed[n]])])}

(* Each observed item is asked on its own, bound to "each"; the first item *)
(* that is not ready decides, and the order of the items is random.  Here  *)
(* null is an error.                                                       *)
EachReadiness(n) ==
    LET value(e, o) == LET v == EvalBool(e, [d \in {"each"} |-> {o}])
                       IN  IF v \in {"true", "false", "pending"} THEN v ELSE "error"
        verdict(o) == Readiness([i \in 1..Len(ReadyWhen[n]) |->
                                    value(ReadyWhen[n][i], o)])
    IN  IF \A o \in observed[n] : verdict(o) = "ready"
        THEN {"ready"}
        ELSE {verdict(o) : o \in observed[n]} \ {"ready"}

\* Mutant: waits for more objects than are desired.
checkCollectionReadinessOffByOne(n) ==
    IF Kind[n] = "externalCollection" THEN {"ready"}
    ELSE IF n \notin computed THEN {"waiting"}
    ELSE IF desired[n] = {} THEN {"ready"}
    ELSE IF Cardinality(observed[n]) <= Cardinality(desired[n]) THEN {"waiting"}
    ELSE EachReadiness(n)

checkCollectionReadiness(n) ==
    IF Kind[n] = "externalCollection"
    THEN IF Len(ReadyWhen[n]) = 0 \/ observed[n] = {}
         THEN {"ready"}
         ELSE EachReadiness(n)
    ELSE IF n \notin computed THEN {"waiting"}
    ELSE IF desired[n] = {} THEN {"ready"}
    ELSE IF Cardinality(observed[n]) < Cardinality(desired[n]) THEN {"waiting"}
    ELSE IF Len(ReadyWhen[n]) = 0 THEN {"ready"}
    ELSE EachReadiness(n)

checkObservedReadiness(n) ==
    IF ManyObjects(n) THEN checkCollectionReadiness(n)
    ELSE checkSingleResourceReadiness(n)

----
(* Inclusion (IsIgnored)                                                   *)

IncludeRefs(n) ==
    UNION {Refs[IncludeWhen[n][i]] : i \in DOMAIN IncludeWhen[n]}

(* What the readiness gate of the includeWhen expressions may return.      *)
IncludeGate(n) ==
    (UNION {IF d \notin Deps[n] THEN {"error"}
            ELSE {IF r = "waiting" THEN "pending" ELSE r :
                     r \in checkObservedReadiness(d)} :
               d \in IncludeRefs(n) \ {Schema}})
        \ {"ready"}

(* The includeWhen expressions in order: the first false one excludes the  *)
(* node, the first failing one is pending only if it refers to a resource. *)
IncludeVerdict(n, ctx) ==
    LET vals == [i \in 1..Len(IncludeWhen[n]) |-> evalBoolExpr(IncludeWhen[n][i], ctx)]
        i    == FirstNotTrue(vals)
    IN  IF i = Len(IncludeWhen[n]) + 1 THEN "included"
        ELSE IF vals[i] = "false" THEN "ignored"
        ELSE IF vals[i] = "pending" /\ Refs[IncludeWhen[n][i]] \ {Schema} # {}
             THEN "pending"
        ELSE "error"

EvalIncludeWhen(n) == IncludeVerdict(n, buildContext(n, IncludeRefs(n)))

(* IsIgnored past the loop over the dependencies.                          *)
OwnInclusion(n) ==
    IF Len(IncludeWhen[n]) = 0 THEN {"included"}
    ELSE IF IncludeGate(n) # {} THEN IncludeGate(n)
    ELSE {EvalIncludeWhen(n)}

(* n and everything it depends on, directly or not.                        *)
Upstream ==
    [n \in Nodes |->
        {a \in Nodes :
            \A S \in SUBSET Nodes :
                n \in S /\ (\A m \in S : Deps[m] \subseteq S) => a \in S}]

\* Mutant: inclusion is not contagious.
IncludedAlone(n) == OwnInclusion(n) = {"included"}

Included(n) == \A a \in Upstream[n] : OwnInclusion(a) = {"included"}

(* IsIgnored asks the dependencies first, recursively, and returns the     *)
(* first answer other than "included"; so the answer is that of some node  *)
(* upstream all of whose own upstream is included.                         *)
IsIgnored(n) ==
    IF Included(n) THEN {"included"}
    ELSE UNION {OwnInclusion(a) :
                    a \in {b \in Upstream[n] :
                              /\ OwnInclusion(b) # {"included"}
                              /\ \A c \in Upstream[b] \ {b} :
                                     OwnInclusion(c) = {"included"}}}

(* The same as the code writes it, recursively: what each order of the     *)
(* loop over the dependencies can return.                                  *)
IsIgnoredAsWritten[n \in Nodes] ==
    (IF \A d \in Deps[n] : "included" \in IsIgnoredAsWritten[d]
     THEN OwnInclusion(n) ELSE {})
      \cup ((UNION {IsIgnoredAsWritten[d] : d \in Deps[n]}) \ {"included"})

CheckReadiness(n) ==
    UNION {CASE r = "ignored"  -> {"ready"}
             [] r = "included" -> checkObservedReadiness(n)
             [] OTHER          -> {r} : r \in IsIgnored(n)}

----
(* Resolution (resolve, hardResolve..., softResolve)                       *)

\* Mutant: a node does not wait for its dependencies.
ResolveGateOpen(n) == {"ready"}

(* The readiness gate of resolve: a dependency that is not ready makes the *)
(* node pending, one that fails makes it fail.                             *)
ResolveGate(n) ==
    LET answers(d) == {IF r = "waiting" THEN "pending" ELSE r : r \in CheckReadiness(d)}
    IN  (IF \A d \in Deps[n] : "ready" \in answers(d) THEN {"ready"} ELSE {})
        \cup ((UNION {answers(d) : d \in Deps[n]}) \ {"ready"})

Outcome(v) == IF v \in {"ok", "pending"} THEN v ELSE "error"

Distinct(s) == \A i, j \in DOMAIN s : s[i] = s[j] => i = j

\* Mutant: refuses a collection that has just the maximum size.
hardResolveCollectionOffByOne(n) ==
    LET each == EvalForEach(n, buildContext(n, {}))
    IN  IF Len(each.items) >= MaxCollectionSize
        THEN [out |-> "error", items |-> {}]
        ELSE [out |-> Outcome(EvalTemplate(n, buildContext(n, {}))),
              items |-> {each.items[i] : i \in DOMAIN each.items} \cap Items]

(* hardResolveCollection: the expressions outside the iteration, then the  *)
(* forEach lists and the size limit of their product, the expressions of   *)
(* each item, and the uniqueness of the identities.                        *)
hardResolveCollection(n) ==
    LET base == Outcome(EvalTemplate(n, buildContext(n, {})))
        each == EvalForEach(n, buildContext(n, {}))
        out  == IF base # "ok" THEN base
                ELSE IF Len(each.items) > MaxCollectionSize THEN "error"
                ELSE IF Outcome(each.out) # "ok" THEN Outcome(each.out)
                ELSE IF ~Distinct(each.items) THEN "error"
                ELSE "ok"
    IN  [out |-> out,
         items |-> IF out = "ok"
                   THEN {each.items[i] : i \in DOMAIN each.items} \cap Items
                   ELSE {}]

(* The template, once the gate is passed: an outcome and, for a            *)
(* collection, the items it expands to.                                    *)
Resolution(n) ==
    IF Kind[n] = "collection" THEN hardResolveCollection(n)
    ELSE [out |-> Outcome(EvalTemplate(n, buildContext(n, {}))), items |-> {}]

(* What GetDesired may return for a node that has not been computed.       *)
GetDesired(n) ==
    {IF g = "ready" THEN Resolution(n) ELSE [out |-> g, items |-> {}] :
        g \in ResolveGate(n)}

GetDesiredIdentity(n) == Outcome(EvalIdentity(n, buildContext(n, {})))

(* softResolve: the status fields whose data is there; any other failure   *)
(* fails the whole status.                                                 *)
instanceContext ==
    [d \in {c \in StatusDeps : observed[c] # {}} |-> observed[d]]

StatusFails == \E v \in StatusVars : Outcome(EvalStatus(v, instanceContext)) = "error"

ResolvedStatus == {v \in StatusVars : Outcome(EvalStatus(v, instanceContext)) = "ok"}

====
