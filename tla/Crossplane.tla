---- MODULE Crossplane ----
(***************************************************************************)
(* The function inside the control plane that calls it.  Crossplane, the   *)
(* providers and the owner of the external resources are not part of this  *)
(* repository; they are modelled as far as the function relies on them:    *)
(*                                                                         *)
(*  - Crossplane takes one snapshot of the composite resource and its      *)
(*    composed resources per reconcile, calls the function with it, and    *)
(*    calls it again with what the response required until two responses   *)
(*    in a row require the same, at most MaxRounds times;                  *)
(*  - it then creates what is desired and does not exist, and deletes what *)
(*    exists and is not desired; a fatal result changes nothing;           *)
(*  - providers bring the composed resources from bare to ready.           *)
(*                                                                         *)
(* The cluster moves on while a call is running: what the function sees is *)
(* the snapshot.                                                           *)
(***************************************************************************)
EXTENDS Function

CONSTANTS
    MaxRounds,     \* calls per reconcile before Crossplane gives up
    MaxChanges,    \* how often the spec may change (a bound of the model)
    ExternalPool,  \* the external objects that may come to exist, per node
    MaxFaults,     \* how often a ready resource may become unready again
    Feasible       \* the specs whose graph can be rendered whole

ASSUME CrossplaneAssumption ==
    /\ MaxRounds \in Nat \ {0}
    /\ MaxChanges \in Nat
    /\ ExternalPool \in [Nodes -> SUBSET Objects]
    /\ MaxFaults \in Nat
    /\ Feasible \subseteq Specs
    /\ {"bare", "notReady", "ready"} \subseteq States
    /\ Absent \notin States
    /\ IsFiniteSet(Items)

(* The activation in which readiness evaluates the readyWhen expression e  *)
(* on one object of a managed node.                                        *)
ReadyContext(n, e, o) ==
    IF Kind[n] = "collection" THEN [d \in {"each"} |-> {o}]
    ELSE filterContext([d \in {n} |-> {o}], Refs[e])

(* What the state "ready" of a composed resource means: the one in which   *)
(* all the readyWhen expressions of its node are true.                     *)
ASSUME ReadyStateAssumption ==
    \A o \in Objects : LET n == o.key[1] IN
        /\ Managed(n)
        /\ Len(ReadyWhen[n]) > 0
        /\ \A i \in 1..Len(ReadyWhen[n]) :
               EvalBool(ReadyWhen[n][i], ReadyContext(n, ReadyWhen[n][i], o)) = "true"
        => o.state = "ready"

VARIABLES
    spec,     \* the composite resource
    changes,  \* how often its spec has changed
    faults,   \* how often a composed resource has become unready
    cluster,  \* the composed resources
    outside,  \* the external resources each external node selects
    busy,     \* is a reconcile under way?
    asked,    \* the requirements that the current call's request answers
    round     \* the number of the current call

envVars == <<spec, changes, faults, cluster, outside>>
reconcileVars == <<busy, asked, round>>
callVars == <<runtimeVars, req, phase, idx, selectors, dcds, rsp>>
allVars == <<callVars, envVars, reconcileVars>>

NoRequired == [n \in Nodes |-> {}]

Idle == [xr |-> spec, composed |-> [k \in ManagedKeys |-> Absent],
         required |-> NoRequired, schemas |-> "none"]

XInit ==
    /\ spec \in Specs
    /\ changes = 0
    /\ faults = 0
    /\ cluster = [k \in ManagedKeys |-> Absent]
    /\ outside = NoRequired
    /\ busy = FALSE
    /\ asked = {}
    /\ round = 0
    /\ req = Idle
    /\ xr = spec
    /\ observed = [n \in Nodes |-> {}]
    /\ computed = {}
    /\ desired = [n \in Nodes |-> {}]
    /\ phase = "done"
    /\ idx = 1
    /\ selectors = {}
    /\ dcds = PriorDesired
    /\ rsp = NewResponse

(* A call begins with a fresh runtime and a fresh response.                *)
Call(r) ==
    /\ req' = r
    /\ xr' = r.xr
    /\ observed' = [n \in Nodes |-> {}]
    /\ computed' = {}
    /\ desired' = [n \in Nodes |-> {}]
    /\ phase' = "schemas"
    /\ idx' = 1
    /\ selectors' = {}
    /\ dcds' = PriorDesired
    /\ rsp' = NewResponse

----

StartReconcile ==
    /\ ~busy
    /\ busy' = TRUE
    /\ asked' = {}
    /\ round' = 1
    /\ Call([xr |-> spec, composed |-> cluster, required |-> NoRequired,
             schemas |-> "none"])
    /\ UNCHANGED envVars

FunctionStep ==
    /\ busy
    /\ RunFunction
    /\ UNCHANGED <<envVars, reconcileVars>>

Responded == busy /\ phase = "done"

Stable == rsp.requirements = asked

(* Fetch what the response requires and call again.                        *)
CallAgain ==
    /\ Responded
    /\ rsp.result # "fatal"
    /\ ~Stable
    /\ round < MaxRounds
    /\ asked' = rsp.requirements
    /\ round' = round + 1
    /\ Call([req EXCEPT !.required = [n \in Nodes |-> IF n \in rsp.requirements
                                                      THEN outside[n] ELSE {}],
                        !.schemas = IF SchemaReq \in rsp.requirements
                                    THEN "usable" ELSE "none"])
    /\ UNCHANGED <<envVars, busy>>

(* A fatal result, or requirements that do not settle: nothing is applied. *)
Abandon ==
    /\ Responded
    /\ rsp.result = "fatal" \/ (~Stable /\ round = MaxRounds)
    /\ busy' = FALSE
    /\ UNCHANGED <<callVars, envVars, asked, round>>

\* Mutant: stores the Ready state in place of the object.
ApplyReadyState ==
    /\ Responded
    /\ rsp.result # "fatal"
    /\ Stable
    /\ busy' = FALSE
    /\ cluster' = [k \in ManagedKeys |-> rsp.composed[k]]
    /\ UNCHANGED <<callVars, spec, changes, faults, outside, asked, round>>

Apply ==
    /\ Responded
    /\ rsp.result # "fatal"
    /\ Stable
    /\ busy' = FALSE
    /\ cluster' = [k \in ManagedKeys |->
                      IF rsp.composed[k] = Absent THEN Absent
                      ELSE IF cluster[k] = Absent THEN "bare"
                      ELSE cluster[k]]
    /\ UNCHANGED <<callVars, spec, changes, faults, outside, asked, round>>

----
(* The environment                                                         *)

Progress(k) ==
    /\ \/ cluster[k] = "bare" /\ cluster' = [cluster EXCEPT ![k] = "notReady"]
       \/ cluster[k] = "notReady" /\ cluster' = [cluster EXCEPT ![k] = "ready"]
    /\ UNCHANGED <<callVars, spec, changes, faults, outside, reconcileVars>>

Regress(k) ==
    /\ faults < MaxFaults
    /\ cluster[k] = "ready"
    /\ cluster' = [cluster EXCEPT ![k] = "notReady"]
    /\ faults' = faults + 1
    /\ UNCHANGED <<callVars, spec, changes, outside, reconcileVars>>

ExternalAppears(n) ==
    /\ outside[n] # ExternalPool[n]
    /\ outside' = [outside EXCEPT ![n] = ExternalPool[n]]
    /\ UNCHANGED <<callVars, spec, changes, faults, cluster, reconcileVars>>

ChangeSpec(s) ==
    /\ changes < MaxChanges
    /\ s # spec
    /\ spec' = s
    /\ changes' = changes + 1
    /\ UNCHANGED <<callVars, faults, cluster, outside, reconcileVars>>

Reconcile == StartReconcile \/ FunctionStep \/ CallAgain \/ Abandon \/ Apply

XNext ==
    \/ Reconcile
    \/ \E k \in ManagedKeys : Progress(k) \/ Regress(k)
    \/ \E n \in Nodes : ExternalAppears(n)
    \/ \E s \in Specs : ChangeSpec(s)

(* Crossplane reconciles for ever and a call that runs ends; providers and *)
(* the owner of the external resources do their part in the end.           *)
XFairness ==
    /\ WF_allVars(Reconcile)
    /\ \A k \in ManagedKeys : WF_allVars(Progress(k))
    /\ \A n \in Nodes : WF_allVars(ExternalAppears(n))

XSpec == XInit /\ [][XNext]_allVars /\ XFairness

----
(* Properties                                                              *)

(* Type invariant of the control plane around the call.                    *)
XTypeOK ==
    /\ spec \in Specs
    /\ changes \in 0..MaxChanges
    /\ faults \in 0..MaxFaults
    /\ cluster \in [ManagedKeys -> States \cup {Absent}]
    /\ outside \in [Nodes -> SUBSET Objects]
    /\ busy \in BOOLEAN
    /\ asked \in SUBSET (Nodes \cup {SchemaReq})
    /\ round \in 0..MaxRounds

(* The composed resources that a node owns.                                *)
Owned(n) == {k \in ManagedKeys : k[1] = n /\ cluster[k] # Absent}

(* Nothing has disturbed the cluster: the spec is the first one and what   *)
(* became ready is ready.                                                  *)
Undisturbed == changes = 0 /\ faults = 0

(* This function's response brings the object k into being.                *)
Creates(k) ==
    cluster[k] = Absent /\ cluster'[k] # Absent /\ Ours(k, rsp.composed)

(* A collection that the call expanded to nothing; it counts as ready.     *)
ExpandedToNothing(d) ==
    Kind[d] = "collection" /\ d \in computed /\ desired[d] = {}

(* Undisturbed, nothing is created ahead of what it depends on: when an    *)
(* object of a node appears, every managed node it refers to is an empty   *)
(* collection or has its objects in the cluster, and they are still ready, *)
(* although the decision was taken on a snapshot and several calls         *)
(* earlier.                                                                *)
CreatesInOrder(k) ==
    Undisturbed /\ Creates(k) =>
        \A d \in Deps[k[1]] : Managed(d) =>
            \/ ExpandedToNothing(d)
            \/ /\ Owned(d) # {}
               /\ Len(ReadyWhen[d]) > 0 =>
                      \A c \in Owned(d) : cluster[c] = "ready"

CreatedInOrder == [][\A k \in ManagedKeys : CreatesInOrder(k)]_allVars

(* Whatever happens in the cluster meanwhile, what is created was decided  *)
(* on a snapshot that had every dependency: each is a collection that is   *)
(* now empty, or was observed with all that was observed of it ready.      *)
(* (A node without a readyWhen only has to be there.)                      *)
CreatesOnReadySnapshot(k) ==
    Creates(k) =>
        \A d \in Deps[k[1]] : Managed(d) =>
            \/ ExpandedToNothing(d)
            \/ /\ GroupObserved(d) # {}
               /\ Len(ReadyWhen[d]) > 0 =>
                      \A o \in GroupObserved(d) : o.state = "ready"

CreatedOnReadySnapshot ==
    [][\A k \in ManagedKeys : CreatesOnReadySnapshot(k)]_allVars

(* A response that only waits for schemas desires nothing of this          *)
(* function's; applied, it would delete every composed resource.  It is    *)
(* never final: the requirement it adds makes Crossplane call again.       *)
WaitingIsNeverApplied == Responded /\ Stable => rsp.result # "wait"

(* Undisturbed, nothing that was created is deleted: the calls that know   *)
(* less (the first of each reconcile, which has neither schemas nor        *)
(* external resources) are never applied.                                  *)
NothingIsDeleted ==
    [][Undisturbed =>
          \A k \in ManagedKeys : cluster[k] # Absent => cluster'[k] # Absent]_allVars

(* README: "If a resource references another resource's status, it will    *)
(* wait until that dependency is ready before proceeding."  Waiting, it    *)
(* stays as it is: while the spec is the same, nothing is deleted.         *)
WaitingKeepsResources ==
    [][changes = 0 =>
          \A k \in ManagedKeys : cluster[k] # Absent => cluster'[k] # Absent]_allVars

(* "Do this on every function run so our requirements are stable": within  *)
(* a reconcile each response requires at least what the one before it did, *)
(* so the rounds come to an end.                                           *)
RequirementsGrow ==
    [][round' = round + 1 => asked \subseteq asked']_allVars

(* The requirements always settle within the rounds that Crossplane        *)
(* grants, and only a collection that is over the maximum size, which      *)
(* forEach may compute from anything, makes a call fail.                   *)
TooLarge(n) ==
    /\ Kind[n] = "collection"
    /\ Len(EvalForEach(n, buildContext(n, {})).items) > MaxCollectionSize

NeverAbandoned ==
    Responded => /\ rsp.result = "fatal" => \E n \in Nodes : TooLarge(n)
                 /\ rsp.result # "fatal" => Stable \/ round < MaxRounds

(* The graph converges.  If the last spec can be rendered whole then,      *)
(* whatever became unready or was refused on the way, in the end every     *)
(* managed node has its objects, they are ready, and the response that     *)
(* Crossplane applies asks for these and no others, for that spec.         *)
Converges ==
    <>[](spec \in Feasible =>
           /\ \A n \in Nodes : Managed(n) => Owned(n) # {}
           /\ \A k \in ManagedKeys : cluster[k] \in {Absent, "ready"}
           /\ Responded /\ Stable =>
                /\ req.xr = spec
                /\ \A k \in ManagedKeys :
                       rsp.composed[k] = Absent <=> cluster[k] = Absent)

(* externalRefSelectorsFromRuntime: an external reference whose identity   *)
(* depends on a resource that is not observed "is skipped and will be      *)
(* resolved on a subsequent invocation".                                   *)
EveryReferenceIsResolved ==
    \A n \in Nodes : Kind[n] = "external" => <>(n \in rsp.requirements)

====
