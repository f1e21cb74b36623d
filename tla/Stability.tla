---- MODULE Stability ----
(***************************************************************************)
(* What a graph and its expressions have to be like for the control plane  *)
(* to move forward only: conditions on the constants of Crossplane under   *)
(* which requirements grow, reconciles are not abandoned and nothing is    *)
(* deleted.                                                                *)
(***************************************************************************)
EXTENDS Crossplane

(* How the providers move an object, as long as nothing fails.             *)
Later(s, t) ==
    \/ t = s
    \/ s = "bare" /\ t \in {"notReady", "ready"}
    \/ s = "notReady" /\ t = "ready"

(* What can be observed of a node: of an external one what is there or     *)
(* nothing, of a managed one any of its objects, each in one state.        *)
Views(d) ==
    IF External(d) THEN {{}, ExternalPool[d]}
    ELSE {V \in SUBSET {o \in Objects : o.key[1] = d} :
             \A o, p \in V : o.key = p.key => o = p}

(* What can be observed of the nodes in S.                                 *)
Observations(S) ==
    {v \in [S -> UNION {Views(d) : d \in S}] : \A d \in S : v[d] \in Views(d)}

(* A node that had been observed has the same objects, further on.         *)
Advances(old, new) ==
    \/ old = {}
    \/ /\ \A o \in old : \E p \in new : p.key = o.key /\ Later(o.state, p.state)
       /\ \A p \in new : \E o \in old : p.key = o.key /\ Later(o.state, p.state)

(* buildContext, for observations other than the current ones.             *)
ContextOf(n, only, obs, x) ==
    [d \in {c \in Deps[n] \cup {Schema} :
               /\ c # Schema => obs[c] # {}
               /\ only = {} \/ c \in only}
       |-> IF d = Schema THEN x ELSE obs[d]]

IncludeContext(n, obs, x) == ContextOf(n, IncludeRefs(n), obs, x)

----

(* The answers of a node's expressions on the observations v are still its *)
(* answers on w.                                                           *)
KeepsIncluded(n, v, w, x) ==
    \A i \in 1..Len(IncludeWhen[n]) :
        evalBoolExpr(IncludeWhen[n][i], IncludeContext(n, v, x)) = "true" =>
            evalBoolExpr(IncludeWhen[n][i], IncludeContext(n, w, x)) = "true"

KeepsResolved(n, v, w, x) ==
    LET before == ContextOf(n, {}, v, x)
        after  == ContextOf(n, {}, w, x)
    IN  /\ EvalIdentity(n, before) = "ok" => EvalIdentity(n, after) = "ok"
        /\ EvalTemplate(n, before) = "ok" =>
              /\ EvalTemplate(n, after) = "ok"
              /\ Kind[n] = "collection" /\ EvalForEach(n, before).out = "ok" =>
                    EvalForEach(n, after) = EvalForEach(n, before)

Keeps(n, v, w, x) == KeepsIncluded(n, v, w, x) /\ KeepsResolved(n, v, w, x)

(* An expression that has a value does not lose it when more variables are *)
(* bound.  CEL guarantees it: an expression fails when it reads a variable *)
(* that is not bound, except under || and &&, whose value then does not    *)
(* depend on it.                                                           *)
MonotoneExpressions ==
    \A n \in Nodes : \A v, w \in Observations(Deps[n]) : \A x \in Specs :
        (\A d \in Deps[n] : v[d] = {} \/ w[d] = v[d]) => Keeps(n, v, w, x)

(* Nor when the objects it reads make progress; an includeWhen without     *)
(* references reads nothing, and an object that is ready remains so.       *)
PersistentExpressions ==
    /\ \A n \in Nodes : \A v, w \in Observations(Deps[n]) : \A x \in Specs :
           /\ (\A d \in Deps[n] : Advances(v[d], w[d])) => Keeps(n, v, w, x)
           /\ IncludeRefs(n) = {} => KeepsIncluded(n, v, w, x)
    /\ \A o, p \in Objects : LET n == o.key[1] IN
           Managed(n) /\ p.key = o.key /\ Later(o.state, p.state) =>
               \A i \in 1..Len(ReadyWhen[n]) :
                   EvalBool(ReadyWhen[n][i], ReadyContext(n, ReadyWhen[n][i], o)) = "true" =>
                       EvalBool(ReadyWhen[n][i], ReadyContext(n, ReadyWhen[n][i], p)) = "true"

(* No includeWhen stands before an external collection, where the answer   *)
(* could depend on the order in which Go ranges over the dependencies, and *)
(* what a collection selects is ready: one that has selected nothing yet   *)
(* counts as ready, and would not any more.                                *)
PlainSelection ==
    \A n \in Nodes : Kind[n] = "externalCollection" =>
        /\ \A a \in Upstream[n] \ {n} : Len(IncludeWhen[a]) = 0
        /\ \A o \in ExternalPool[n] : \A i \in 1..Len(ReadyWhen[n]) :
               EvalBool(ReadyWhen[n][i], [d \in {"each"} |-> {o}]) = "true"

(* A reconcile may take a round for the schemas, one for each external     *)
(* node and one to see that nothing more is required.                      *)
ExternalNodes == {n \in Nodes : External(n)}

EnoughRounds == MaxRounds > Cardinality(ExternalNodes) + 1

(* No expression fails for another reason than missing data: what type     *)
(* checking is to achieve.                                                 *)
Answered == {"ok", "pending"}
Decided == {"true", "false", "pending"}

ErrorFree ==
    /\ \A n \in Nodes : \A v \in Observations(Deps[n]) : \A x \in Specs :
           LET ctx == ContextOf(n, {}, v, x)
           IN  /\ EvalIdentity(n, ctx) \in Answered
               /\ EvalTemplate(n, ctx) \in Answered
               /\ Kind[n] = "collection" =>
                     /\ EvalForEach(n, ctx).out \in Answered
                     /\ \/ Len(EvalForEach(n, ctx).items) > MaxCollectionSize
                        \/ Distinct(EvalForEach(n, ctx).items)
               /\ \A i \in 1..Len(IncludeWhen[n]) :
                     LET e == IncludeWhen[n][i]
                         r == evalBoolExpr(e, IncludeContext(n, v, x))
                     IN  /\ r \in Decided
                         /\ r = "pending" => Refs[e] \ {Schema} # {}
    /\ \A n \in Nodes : IncludeRefs(n) \subseteq Deps[n] \cup {Schema}
    /\ \A n \in Nodes : \A V \in Views(n) : \A i \in 1..Len(ReadyWhen[n]) :
           IF ManyObjects(n)
           THEN \A o \in V : EvalBool(ReadyWhen[n][i], [d \in {"each"} |-> {o}]) \in Decided
           ELSE V # {} => evalBoolExpr(ReadyWhen[n][i], [d \in {n} |-> V]) \in Decided
    /\ \A s \in StatusVars : \A v \in Observations(StatusDeps) :
           EvalStatus(s, [d \in {c \in StatusDeps : v[c] # {}} |-> v[d]]) \in Answered

(* No other function of the pipeline desires a resource of this one.       *)
OwnNames == Prior \cap ManagedKeys = {}

====
