---- MODULE MCFunction ----
(***************************************************************************)
(* A resource graph with every kind of node, for the runs of Function:     *)
(*                                                                         *)
(*   cfg      external reference whose name comes from the instance        *)
(*   vpc      resource with an includeWhen on the instance and a readyWhen *)
(*   subnets  collection behind vpc, one item per zone of the instance     *)
(*   peers    external collection selected and included with data of cfg   *)
(*   app      resource behind subnets and cfg, included if cfg allows it   *)
(*   dash     resource behind app and peers, with no conditions of its own *)
(***************************************************************************)
EXTENDS Function

MCSchema == "schema"
MCNodes == {"cfg", "vpc", "subnets", "peers", "app", "dash"}

MCKind == [cfg |-> "external", vpc |-> "resource", subnets |-> "collection",
           peers |-> "externalCollection", app |-> "resource", dash |-> "resource"]

MCDeps == [cfg |-> {}, vpc |-> {}, subnets |-> {"vpc"}, peers |-> {"cfg"},
           app |-> {"subnets", "cfg"}, dash |-> {"app", "peers"}]

MCIncludeWhen == [cfg |-> <<>>, vpc |-> <<"enabled">>, subnets |-> <<>>,
                  peers |-> <<"allowed">>, app |-> <<"allowed">>, dash |-> <<>>]

MCReadyWhen == [cfg |-> <<>>, vpc |-> <<"vpcReady">>, subnets |-> <<"eachReady">>,
                peers |-> <<>>, app |-> <<>>, dash |-> <<"dashReady">>]

\* The builder records no references for readyWhen expressions.
MCRefs == [enabled |-> {"schema"}, allowed |-> {"cfg"}, vpcReady |-> {},
           eachReady |-> {}, dashReady |-> {}]

MCOrder == <<"cfg", "vpc", "subnets", "peers", "app", "dash">>

MCNames == {"a", "b"}
MCNoName == "none"

\* a1 and a2 have the same name in two namespaces.
MCItems == {"a1", "a2", "b1"}
MCItemName == [a1 |-> "a", a2 |-> "a", b1 |-> "b"]
MCMaxCollectionSize == 2

\* bare: no status yet; odd: a field that is not of the expected type.
MCStates == {"bare", "notReady", "ready", "odd"}

MCStatusVars == {"vpcId", "subnetCount"}
MCStatusDeps == {"vpc", "subnets"}

----
(* What the expressions of this graph evaluate to                          *)

TheState(objects) == (CHOOSE o \in objects : TRUE).state

Condition(d, ctx) ==
    IF d \notin DOMAIN ctx THEN "pending"
    ELSE CASE TheState(ctx[d]) = "bare"     -> "pending"
           [] TheState(ctx[d]) = "notReady" -> "false"
           [] TheState(ctx[d]) = "ready"    -> "true"
           [] TheState(ctx[d]) = "odd"      -> "string"

MCEvalBool(e, ctx) ==
    CASE e = "enabled"   -> ctx["schema"].enabled
      [] e = "allowed"   -> Condition("cfg", ctx)
      [] e = "vpcReady"  -> Condition("vpc", ctx)
      [] e = "eachReady" -> Condition("each", ctx)
      [] e = "dashReady" -> Condition("dash", ctx)

\* A template reads a field that every state but bare has.
Reads(d, ctx) ==
    IF d \notin DOMAIN ctx THEN "pending"
    ELSE IF \E o \in ctx[d] : o.state = "bare" THEN "pending"
    ELSE "ok"

MCEvalTemplate(n, ctx) ==
    CASE n = "subnets" -> Reads("vpc", ctx)
      [] n = "app"     -> Reads("subnets", ctx)
      [] n = "peers"   -> IF Condition("cfg", ctx) = "string" THEN "error"
                          ELSE Reads("cfg", ctx)
      [] n = "dash"    -> IF Condition("app", ctx) = "string" THEN "error" ELSE "ok"
      [] OTHER         -> "ok"

MCEvalIdentity(n, ctx) == ctx["schema"].cfgName

MCEvalForEach(n, ctx) ==
    IF ctx["schema"].zones = <<"?">> THEN [out |-> "pending", items |-> <<>>]
    ELSE [out |-> "ok", items |-> ctx["schema"].zones]

MCEvalStatus(v, ctx) ==
    IF v = "vpcId" THEN Reads("vpc", ctx)
    ELSE IF "subnets" \notin DOMAIN ctx THEN "pending"
    ELSE IF \A o \in ctx["subnets"] : o.state = "odd" THEN "error" ELSE "ok"

----
(* The requests                                                            *)

MCZones == {<<>>, <<"?">>, <<"a1">>, <<"a1", "b1">>, <<"a1", "a2">>,
            <<"b1", "b1">>, <<"a1", "a2", "b1">>}

\* One field at a time is off the ordinary.
MCSpecs ==
    {[enabled |-> "true", cfgName |-> "ok", zones |-> z] : z \in MCZones}
      \cup {[enabled |-> e, cfgName |-> "ok", zones |-> <<"a1", "b1">>] :
                e \in {"false", "pending"}}
      \cup {[enabled |-> "true", cfgName |-> c, zones |-> <<"a1", "b1">>] :
                c \in {"pending", "error"}}

MCForeign == {<<"other", "none">>}
MCPrior == {<<"other", "none">>, <<"vpc", "none">>}

\* Names of observed composed resources, and what is observed of them.
MCComposed ==
    {[k \in ManagedKeys |->
        CASE k[1] = "vpc"                      -> v
          [] k[1] = "subnets" /\ k[2] = "a"    -> sa
          [] k[1] = "subnets" /\ k[2] = "b"    -> sb
          [] k[1] = "app"                      -> ap
          [] k[1] = "dash"                     -> IF ap = "ready" THEN "ready" ELSE Absent] :
        v  \in {Absent} \cup MCStates,
        sa \in {Absent} \cup MCStates,
        sb \in {Absent, "ready"},
        ap \in {Absent, "ready", "odd"}}

MCFetched(n, states) == {{}} \cup {{[key |-> <<n, IF n = "peers" THEN "a" ELSE "none">>, state |-> s]} : s \in states}

MCRequired ==
    {[n \in MCNodes |-> IF n = "cfg" THEN c ELSE IF n = "peers" THEN p ELSE {}] :
        c \in MCFetched("cfg", MCStates), p \in MCFetched("peers", {"ready"})}

MCInitRequests ==
    {[xr |-> x, composed |-> c, required |-> r, schemas |-> "usable"] :
        x \in MCSpecs, c \in MCComposed, r \in MCRequired}
      \cup {[xr |-> x, composed |-> [k \in ManagedKeys |-> Absent],
             required |-> [n \in MCNodes |-> {}], schemas |-> s] :
                x \in MCSpecs, s \in {"none", "unusable"}}
====
