---- MODULE Function ----
(***************************************************************************)
(* One call of RunFunction (fn.go): a request in, a response out.  A call  *)
(* is sequential and shares nothing with other calls, so each action is    *)
(* one of its phases, and in the loops over the nodes one iteration.       *)
(***************************************************************************)
EXTENDS Runtime

CONSTANTS
    Order,        \* the nodes in the order TopologicalSort returned
    SchemaReq,    \* the requirement for the schemas of all the GVKs
    Foreign,      \* composed resource names that belong to no node
    Prior,        \* those that earlier functions of the pipeline desire
    InitRequests  \* the requests a call may start with

(* A desired composed resource: absent, left from an earlier function, or  *)
(* put there by this one with its Ready state.                             *)
Absent == "absent"
ReadyStates == {"unspecified", "true", "false"}
Entries == {Absent, "prior"} \cup ReadyStates

Ours(k, d) == d[k] \in ReadyStates

ManagedKeys == {k \in Keys : Managed(k[1])}
ComposedKeys == ManagedKeys \cup Foreign

(* A request: the composite resource, the observed composed resources, the *)
(* resources fetched for each external node and the schemas.               *)
Requests ==
    [xr       : Specs,
     composed : [ManagedKeys -> States \cup {Absent}],
     required : [Nodes -> SUBSET Objects],
     schemas  : {"none", "unusable", "usable"}]

ASSUME FunctionAssumption ==
    /\ Order = [i \in 1..Len(Order) |-> Order[i]]
    /\ Len(Order) \in Nat
    /\ \A i \in 1..Len(Order) : Order[i] \in Nodes
    /\ \A i, j \in 1..Len(Order) : Order[i] = Order[j] => i = j
    /\ \A n \in Nodes : \E i \in 1..Len(Order) : Order[i] = n
    /\ \A i, j \in 1..Len(Order) : Order[j] \in Deps[Order[i]] => j < i
    /\ SchemaReq \notin Nodes
    /\ \A k \in Foreign : k[1] \notin Nodes
    /\ Prior \subseteq ComposedKeys
    /\ InitRequests \subseteq Requests

VARIABLES
    req,       \* the request
    phase,     \* where the call is
    idx,       \* the position of a loop over the nodes
    selectors, \* the external nodes a selector was built for
    dcds,      \* the desired composed resources under construction
    rsp        \* the response

vars == <<runtimeVars, req, phase, idx, selectors, dcds, rsp>>

PriorDesired == [k \in ComposedKeys |-> IF k \in Prior THEN "prior" ELSE Absent]

(* response.To copies the desired state of the request.                    *)
NewResponse ==
    [result |-> "running", requirements |-> {}, composed |-> PriorDesired,
     status |-> {}]

(* A call starts with a fresh runtime.                                     *)
Start(r) ==
    [xr |-> r.xr, observed |-> [n \in Nodes |-> {}], computed |-> {},
     desired |-> [n \in Nodes |-> {}]]

Key(n, item) == <<n, IF Kind[n] = "collection" THEN ItemName[item] ELSE NoName>>

Init ==
    /\ req \in InitRequests
    /\ xr = Start(req).xr
    /\ observed = Start(req).observed
    /\ computed = Start(req).computed
    /\ desired = Start(req).desired
    /\ phase = "schemas"
    /\ idx = 1
    /\ selectors = {}
    /\ dcds = PriorDesired
    /\ rsp = NewResponse

----

Fatal ==
    /\ rsp' = [rsp EXCEPT !.result = "fatal"]
    /\ phase' = "done"

\* Mutant: requires the schemas only once it has them.
ResolveSchemasSilently ==
    /\ phase = "schemas"
    /\ \/ /\ req.schemas = "none"
          /\ rsp' = [rsp EXCEPT !.result = "wait"]
          /\ phase' = "done"
       \/ /\ req.schemas = "usable"
          /\ rsp' = [rsp EXCEPT !.requirements = {SchemaReq}]
          /\ phase' = "externals"
    /\ UNCHANGED <<runtimeVars, req, idx, selectors, dcds>>

(* Require the schemas, build a resolver from those in the request and     *)
(* with it the graph and its runtime: while some schema is missing the     *)
(* call ends here, and if any of the three cannot be built it fails.       *)
ResolveSchemas ==
    /\ phase = "schemas"
    /\ \/ /\ req.schemas = "none"
          /\ rsp' = [rsp EXCEPT !.result = "wait", !.requirements = {SchemaReq}]
          /\ phase' = "done"
       \/ /\ req.schemas = "unusable"
          /\ rsp' = [rsp EXCEPT !.result = "fatal", !.requirements = {SchemaReq}]
          /\ phase' = "done"
       \/ /\ req.schemas = "usable"
          /\ rsp' = [rsp EXCEPT !.requirements = {SchemaReq}]
          /\ phase' = "externals"
    /\ UNCHANGED <<runtimeVars, req, idx, selectors, dcds>>

(* SetObserved on the external nodes that were fetched.                    *)
ObserveExternals ==
    /\ phase = "externals"
    /\ phase' = "selectors"
    /\ observed' = [n \in Nodes |-> IF External(n) THEN req.required[n] ELSE {}]
    /\ UNCHANGED <<xr, computed, desired, req, idx, selectors, dcds, rsp>>

(* The template of an external collection is resolved in full, behind its  *)
(* readiness gate; pending, it is left for a later call.                   *)
externalCollectionSelector(n) ==
    /\ Kind[n] = "externalCollection"
    /\ \E r \in GetDesired(n) :
          \/ /\ r.out = "error"
             /\ Fatal
             /\ UNCHANGED <<selectors, computed, idx>>
          \/ /\ r.out = "pending"
             /\ idx' = idx + 1
             /\ UNCHANGED <<selectors, computed, phase, rsp>>
          \/ /\ r.out = "ok"
             /\ selectors' = selectors \cup {n}
             /\ computed' = computed \cup {n}
             /\ idx' = idx + 1
             /\ UNCHANGED <<phase, rsp>>

\* Mutant: does not ask again for an external reference it has been given.
SelectExternalOnce(n) ==
    /\ phase = "selectors"
    /\ idx <= Len(Order)
    /\ n = Order[idx]
    /\ selectors' = IF /\ Kind[n] = "external"
                       /\ observed[n] = {}
                       /\ GetDesiredIdentity(n) = "ok"
                    THEN selectors \cup {n} ELSE selectors
    /\ idx' = idx + 1
    /\ UNCHANGED <<xr, observed, computed, desired, req, dcds, phase, rsp>>

(* externalRefSelectorsFromRuntime, one node at a time.  The identity of   *)
(* an external reference is resolved from what has been observed so far,   *)
(* which is the other external resources.                                  *)
SelectExternal(n) ==
    /\ phase = "selectors"
    /\ idx <= Len(Order)
    /\ n = Order[idx]
    /\ \/ /\ Managed(n)
          /\ idx' = idx + 1
          /\ UNCHANGED <<selectors, computed, phase, rsp>>
       \/ /\ Kind[n] = "external"
          /\ GetDesiredIdentity(n) = "error"
          /\ Fatal
          /\ UNCHANGED <<selectors, computed, idx>>
       \/ /\ Kind[n] = "external"
          /\ GetDesiredIdentity(n) # "error"
          /\ selectors' = IF GetDesiredIdentity(n) = "ok"
                          THEN selectors \cup {n} ELSE selectors
          /\ idx' = idx + 1
          /\ UNCHANGED <<computed, phase, rsp>>
       \/ externalCollectionSelector(n)
    /\ UNCHANGED <<xr, observed, desired, req, dcds>>

(* groupObservedByNodeID: the objects whose composed resource name is the  *)
(* node's ID, or begins with it if the node is a collection.               *)
GroupObserved(n) ==
    {[key |-> k, state |-> req.composed[k]] :
        k \in {c \in ManagedKeys : c[1] = n /\ req.composed[c] # Absent}}

(* orderedIntersection: without a desired set, everything observed.  (Go   *)
(* compares GVK, namespace and name; of these an observed object here has  *)
(* the name.)                                                              *)
orderedIntersection(obs, n) ==
    IF obs = {} \/ desired[n] = {} THEN obs
    ELSE {o \in obs : \E i \in desired[n] : o.key = Key(n, i)}

SetObserved(n, obs) ==
    IF Kind[n] = "collection" THEN orderedIntersection(obs, n) ELSE obs

(* The selectors become requirements, and the observed composed resources  *)
(* are set on the nodes they belong to.                                    *)
ObserveComposed ==
    /\ phase = "selectors"
    /\ idx > Len(Order)
    /\ phase' = "build"
    /\ idx' = 1
    /\ rsp' = [rsp EXCEPT !.requirements = @ \cup selectors]
    /\ observed' = [n \in Nodes |-> IF GroupObserved(n) = {} THEN observed[n]
                                    ELSE SetObserved(n, GroupObserved(n))]
    /\ UNCHANGED <<xr, computed, desired, req, selectors, dcds>>

----
(* buildDesiredComposed                                                    *)

\* Mutant: break instead of continue.
StopAtNode ==
    /\ idx' = Len(Order) + 1
    /\ UNCHANGED <<computed, desired, dcds, phase, rsp>>

SkipNode ==
    /\ idx' = idx + 1
    /\ UNCHANGED <<computed, desired, dcds, phase, rsp>>

(* The names of the composed resources of a computed node.                 *)
ComposedNames(n, items) ==
    IF Kind[n] = "collection" THEN {Key(n, i) : i \in items} ELSE {<<n, NoName>>}

\* Mutant: hands on the runtime's verdict as it is.
ReadyStateRaw(n) ==
    IF Len(ReadyWhen[n]) = 0 THEN "unspecified"
    ELSE CHOOSE r \in CheckReadiness(n) : TRUE

(* The Ready state, taken after n.desired has been set.                    *)
ReadyState(n) ==
    IF Len(ReadyWhen[n]) = 0 THEN "unspecified"
    ELSE IF CheckReadiness(n) = {"ready"} THEN "true" ELSE "false"

\* Mutant: writes to the response at once.
AddDesiredInPlace(n, items) ==
    /\ UNCHANGED <<xr, observed>>
    /\ computed' = computed \cup {n}
    /\ desired' = [desired EXCEPT ![n] = items]
    /\ dcds' = [k \in ComposedKeys |-> IF k \in ComposedNames(n, items)
                                       THEN "false" ELSE dcds[k]]
    /\ rsp' = [rsp EXCEPT !.composed = dcds']
    /\ idx' = idx + 1
    /\ UNCHANGED phase

AddDesired(n, items) ==
    /\ UNCHANGED <<xr, observed>>
    /\ computed' = computed \cup {n}
    /\ desired' = [desired EXCEPT ![n] = items]
    /\ LET ready == ReadyState(n)'
       IN  dcds' = [k \in ComposedKeys |-> IF k \in ComposedNames(n, items)
                                   THEN ready ELSE dcds[k]]
    /\ idx' = idx + 1
    /\ UNCHANGED <<phase, rsp>>

(* A node that is external, ignored, undecided or pending is left out; an  *)
(* error while deciding whether it is ignored leaves it out as well, an    *)
(* error while resolving it fails the call.                                *)
BuildNode(n) ==
    /\ phase = "build"
    /\ idx <= Len(Order)
    /\ n = Order[idx]
    /\ \/ External(n) /\ SkipNode
       \/ /\ Managed(n)
          /\ \E r \in IsIgnored(n) \ {"included"} : SkipNode
       \/ /\ Managed(n)
          /\ "included" \in IsIgnored(n)
          /\ \E r \in GetDesired(n) :
                \/ r.out = "pending" /\ SkipNode
                \/ r.out = "error" /\ Fatal /\ UNCHANGED <<computed, desired, dcds, idx>>
                \/ r.out = "ok" /\ AddDesired(n, r.items)
    /\ UNCHANGED <<xr, observed, req, selectors>>

\* Mutant: returns only what this function built.
SetOwnDesiredComposed ==
    /\ phase = "build"
    /\ idx > Len(Order)
    /\ phase' = "status"
    /\ rsp' = [rsp EXCEPT !.composed =
                  [k \in ComposedKeys |-> IF Ours(k, dcds) THEN dcds[k] ELSE Absent]]
    /\ UNCHANGED <<runtimeVars, req, idx, selectors, dcds>>

SetDesiredComposed ==
    /\ phase = "build"
    /\ idx > Len(Order)
    /\ phase' = "status"
    /\ rsp' = [rsp EXCEPT !.composed = dcds]
    /\ UNCHANGED <<runtimeVars, req, idx, selectors, dcds>>

(* buildDesiredXRStatus: the desired composed resources are in the         *)
(* response already if this fails.                                         *)
SetDesiredStatus ==
    /\ phase = "status"
    /\ phase' = "done"
    /\ rsp' = IF StatusFails THEN [rsp EXCEPT !.result = "fatal"]
              ELSE [rsp EXCEPT !.result = "ok", !.status = ResolvedStatus]
    /\ UNCHANGED <<runtimeVars, req, idx, selectors, dcds>>

RunFunction ==
    \/ ResolveSchemas
    \/ ObserveExternals
    \/ \E n \in Nodes : SelectExternal(n)
    \/ ObserveComposed
    \/ \E n \in Nodes : BuildNode(n)
    \/ SetDesiredComposed
    \/ SetDesiredStatus

Spec == Init /\ [][RunFunction]_vars

----
(* Properties                                                              *)

(* Type invariant of a call.                                               *)
TypeOK ==
    /\ req \in Requests
    /\ xr \in Specs
    /\ observed \in [Nodes -> SUBSET Objects]
    /\ computed \in SUBSET Nodes
    /\ desired \in [Nodes -> SUBSET Items]
    /\ phase \in {"schemas", "externals", "selectors", "build", "status", "done"}
    /\ idx \in 1..(Len(Order) + 1)
    /\ selectors \in SUBSET Nodes
    /\ dcds \in [ComposedKeys -> Entries]
    /\ rsp \in [result : {"running", "wait", "fatal", "ok"},
                requirements : SUBSET (Nodes \cup {SchemaReq}),
                composed : [ComposedKeys -> Entries],
                status : SUBSET StatusVars]

(* A resource is desired by this function only while everything upstream   *)
(* of it is included and each of its dependencies is ready, judged by the  *)
(* observed state of the whole call and not only by what was known when    *)
(* its turn came.                                                          *)
DesiredOnlyBehindReady ==
    \A k \in ComposedKeys :
        Ours(k, dcds) =>
            /\ k \in ManagedKeys
            /\ Included(k[1])
            /\ \A d \in Deps[k[1]] : checkObservedReadiness(d) = {"ready"}

(* The response is a function of the request: when the call succeeds, the  *)
(* computed nodes are exactly the managed nodes that are included, whose   *)
(* dependencies are ready and whose template resolves, all judged by the   *)
(* final state.  A node that was looked at before one it depends on, or an *)
(* answer that depends on the order of a Go map, would break it.           *)
Renderable(n) ==
    /\ Managed(n)
    /\ Included(n)
    /\ ResolveGate(n) = {"ready"}
    /\ Resolution(n).out = "ok"

RendersExactlyTheRenderable ==
    phase = "done" /\ rsp.result = "ok" =>
        \A n \in Nodes : Managed(n) => (n \in computed <=> Renderable(n))

(* A failed call never hands over a partial set of composed resources:     *)
(* what it returns is either what earlier functions desired or the         *)
(* complete set.  A call that waits for schemas changes nothing.           *)
FailsWhole ==
    phase = "done" /\ rsp.result # "ok" =>
        \/ rsp.composed = PriorDesired
        \/ /\ rsp.result = "fatal"
           /\ idx = Len(Order) + 1
           /\ \A n \in Nodes : Renderable(n) =>
                  \A k \in ComposedNames(n, desired[n]) : Ours(k, rsp.composed)

(* What an earlier function desires is passed on untouched, in every       *)
(* response and at every exit, unless it has the name of a resource that   *)
(* this call renders.                                                      *)
KeepsPrior ==
    \A k \in Prior :
        \/ rsp.composed[k] = "prior"
        \/ /\ Ours(k, rsp.composed)
           /\ k \in ManagedKeys
           /\ Renderable(k[1])

(* Whichever way Go ranges over the dependencies, the recursive IsIgnored  *)
(* can return exactly the answers of the closed form that the other        *)
(* definitions use: a node is included only if everything upstream is, and *)
(* otherwise the first nodes that are not decide.                          *)
InclusionIsContagious == \A n \in Nodes : IsIgnored(n) = IsIgnoredAsWritten[n]

(* The inductive invariant behind these properties.  What has been         *)
(* rendered is renderable and is in the desired resources; while the nodes *)
(* are looked at, what is renderable among those passed has been rendered; *)
(* the response gets all of it or nothing.                                 *)
PassedAreRendered ==
    \A i \in 1..(idx - 1) : Renderable(Order[i]) => Order[i] \in computed

RenderedAreRenderable ==
    \A n \in computed : Managed(n) =>
        /\ Renderable(n)
        /\ \E i \in 1..(idx - 1) : Order[i] = n
        /\ \A k \in ComposedNames(n, desired[n]) : Ours(k, dcds)

DesiredAreAccountedFor ==
    \A k \in ComposedKeys :
        \/ dcds[k] = PriorDesired[k]
        \/ Ours(k, dcds) /\ k \in ManagedKeys /\ k[1] \in computed

RenderInv ==
    /\ phase \in {"schemas", "externals", "selectors"} =>
           /\ \A n \in computed : ~Managed(n)
           /\ dcds = PriorDesired
    /\ RenderedAreRenderable
    /\ DesiredAreAccountedFor
    /\ phase \in {"build", "status"} => PassedAreRendered
    /\ phase \notin {"status", "done"} => rsp.composed = PriorDesired
    /\ phase = "status" => idx = Len(Order) + 1 /\ rsp.composed = dcds
    /\ phase # "done" => rsp.result = "running"
    /\ phase = "done" =>
           \/ rsp.composed = PriorDesired /\ rsp.result # "ok"
           \/ /\ rsp.composed = dcds
              /\ rsp.result \in {"ok", "fatal"}
              /\ idx = Len(Order) + 1
              /\ PassedAreRendered

----
(* What comments of the code say and the code does not do                  *)

(* RunFunction: "generating the entire set of desired composed resources". *)
(* Different items of a collection become different composed resources.    *)
GeneratesTheEntireSet ==
    \A n \in computed : \A i, j \in desired[n] :
        Managed(n) /\ Key(n, i) = Key(n, j) => i = j

(* orderedIntersection: "returns the observed items that also exist in     *)
(* desired", so that items left from an earlier expansion do not count     *)
(* towards readiness.  A composed resource that is reported Ready by its   *)
(* readyWhen has been observed.                                            *)
ReadyOnlyIfObserved ==
    \A k \in ManagedKeys : dcds[k] = "true" => req.composed[k] # Absent

====
