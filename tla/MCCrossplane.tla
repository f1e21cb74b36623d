---- MODULE MCCrossplane ----
(***************************************************************************)
(* Two graphs for the runs of Crossplane.  In the first,                   *)
(*                                                                         *)
(*   cfg      external reference whose name comes from the instance        *)
(*   peers    external collection selected with data of cfg                *)
(*   vpc      resource with a readyWhen                                    *)
(*   subnets  collection behind vpc, one item per zone                     *)
(*   app      resource behind subnets and peers, included if cfg allows it *)
(*                                                                         *)
(* In the second, an external reference takes its name from a resource:    *)
(* vpc, then ref (external), then app.                                     *)
(***************************************************************************)
EXTENDS Stability

MCSchema == "schema"
MCNodes == {"cfg", "peers", "vpc", "subnets", "app"}
MCLateNodes == {"vpc", "ref", "app"}

MCKind == [cfg |-> "external", peers |-> "externalCollection", vpc |-> "resource",
           subnets |-> "collection", app |-> "resource"]
MCLateKind == [vpc |-> "resource", ref |-> "external", app |-> "resource"]

MCDeps == [cfg |-> {}, peers |-> {"cfg"}, vpc |-> {}, subnets |-> {"vpc"},
           app |-> {"subnets", "cfg", "peers"}]
MCLateDeps == [vpc |-> {}, ref |-> {"vpc"}, app |-> {"ref"}]

MCIncludeWhen == [n \in MCNodes |-> IF n = "app" THEN <<"allowed">> ELSE <<>>]
MCLateIncludeWhen == [n \in MCLateNodes |-> <<>>]

MCReadyWhen == [n \in MCNodes |-> CASE n = "vpc" -> <<"vpcReady">>
                                    [] n = "subnets" -> <<"eachReady">>
                                    [] OTHER -> <<>>]
MCLateReadyWhen == [n \in MCLateNodes |-> IF n = "vpc" THEN <<"vpcReady">> ELSE <<>>]

MCRefs == [allowed |-> {"cfg"}, vpcReady |-> {}, eachReady |-> {}]
MCLateRefs == [vpcReady |-> {}]

MCOrder == <<"cfg", "peers", "vpc", "subnets", "app">>
MCLateOrder == <<"vpc", "ref", "app">>

MCNames == {"a", "b"}
MCItems == {"a1", "b1"}
MCItemName == [a1 |-> "a", b1 |-> "b"]
MCStates == {"bare", "notReady", "ready"}
MCStatusVars == {"vpcId"}
MCStatusDeps == {"vpc"}

MCSpecs == {[zones |-> <<"a1">>], [zones |-> <<"a1", "b1">>]}

\* With a spec whose collection is over the maximum size.
MCFaultySpecs == MCSpecs \cup {[zones |-> <<"a1", "b1", "a1">>]}

----

Condition(d, ctx) ==
    IF d \notin DOMAIN ctx THEN "pending"
    ELSE IF \E o \in ctx[d] : o.state = "bare" THEN "pending"
    ELSE IF \E o \in ctx[d] : o.state = "notReady" THEN "false"
    ELSE "true"

MCEvalBool(e, ctx) ==
    CASE e = "allowed"   -> Condition("cfg", ctx)
      [] e = "vpcReady"  -> Condition("vpc", ctx)
      [] e = "eachReady" -> Condition("each", ctx)

Reads(d, ctx) ==
    IF d \in DOMAIN ctx /\ \A o \in ctx[d] : o.state # "bare" THEN "ok" ELSE "pending"

MCEvalTemplate(n, ctx) ==
    CASE n = "peers"   -> Reads("cfg", ctx)
      [] n = "subnets" -> Reads("vpc", ctx)
      [] n = "app"     -> IF "ref" \in Nodes THEN Reads("ref", ctx)
                          ELSE IF "subnets" \in DOMAIN ctx THEN "ok" ELSE "pending"
      [] OTHER         -> "ok"

MCEvalIdentity(n, ctx) == IF n = "ref" THEN Reads("vpc", ctx) ELSE "ok"

MCEvalForEach(n, ctx) == [out |-> "ok", items |-> ctx["schema"].zones]

MCEvalStatus(v, ctx) == Reads("vpc", ctx)

MCExternalPool ==
    [n \in Nodes |-> IF External(n)
                     THEN {[key |-> <<n, IF n = "peers" THEN "a" ELSE "none">>,
                            state |-> "ready"]}
                     ELSE {}]

ASSUME MCStability ==
    /\ MonotoneExpressions
    /\ PersistentExpressions
    /\ PlainSelection
    /\ EnoughRounds
    /\ ErrorFree
    /\ OwnNames
====
