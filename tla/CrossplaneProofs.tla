---- MODULE CrossplaneProofs ----
(***************************************************************************)
(* Proofs about Crossplane: what a call promises, carried through the      *)
(* rounds of a reconcile to what is created in the cluster, for every      *)
(* graph, every meaning of its expressions and any number of rounds, spec  *)
(* changes and faults; and, for graphs and expressions with the properties *)
(* of Stability, that requirements only grow, that reconciles are not      *)
(* abandoned and that nothing is deleted.                                  *)
(***************************************************************************)
EXTENDS Stability, FunctionProofs, FiniteSetTheorems

(* The inductive invariant, beside TypeOK, XTypeOK and RenderInv.  What    *)
(* the nodes are given as observed is the snapshot in the request.         *)
ObservedIsSnapshot ==
    /\ phase \in {"schemas", "externals", "selectors"} =>
           \A n \in Nodes : desired[n] = {}
    /\ phase = "selectors" => \A n \in Nodes : Managed(n) => observed[n] = {}
    /\ phase \in {"build", "status"} \/ rsp.result = "ok" =>
           \A n \in Nodes : Managed(n) => observed[n] = GroupObserved(n)

(* During a reconcile nothing is created or deleted, and without a fault   *)
(* what was ready in the snapshot is ready.                                *)
SnapshotIsRecent ==
    busy => \A k \in ManagedKeys :
                /\ req.composed[k] = Absent <=> cluster[k] = Absent
                /\ faults = 0 /\ req.composed[k] = "ready" => cluster[k] = "ready"

(* A call that waits for schemas requires them and was not given any; a    *)
(* request without schemas answers a response that did not require them.   *)
WaitsUnanswered ==
    /\ rsp.result = "wait" => /\ req.schemas = "none"
                              /\ rsp.requirements = {SchemaReq}
    /\ busy /\ req.schemas = "none" => SchemaReq \notin asked

CallInv == TypeOK /\ RenderInv /\ ObservedIsSnapshot

XInv == CallInv /\ XTypeOK /\ SnapshotIsRecent /\ WaitsUnanswered

----
(* A call within a reconcile                                               *)

(* What a response looks like.                                             *)
Responses ==
    [result : {"running", "wait", "fatal", "ok"},
     requirements : SUBSET (Nodes \cup {SchemaReq}),
     composed : [ComposedKeys -> Entries],
     status : SUBSET StatusVars]

(* A call starts in the invariant, whatever its request.                   *)
LEMMA CallStarts ==
    ASSUME NEW r \in Requests, Call(r)
    PROVE  CallInv'
<1>1. /\ req' = r /\ xr' = r.xr /\ phase' = "schemas" /\ idx' = 1
      /\ observed' = [n \in Nodes |-> {}] /\ computed' = {}
      /\ desired' = [n \in Nodes |-> {}] /\ selectors' = {}
      /\ dcds' = PriorDesired /\ rsp' = NewResponse
  BY DEF Call
<1>2. NewResponse \in Responses /\ NewResponse.result = "running"
      /\ NewResponse.composed = PriorDesired
  BY PriorType DEF NewResponse, Responses, Entries
<1>3. TypeOK'
  <2>1. 1 \in 1..(Len(Order) + 1)
    BY FunctionAssumption
  <2>2. PriorDesired \in [ComposedKeys -> Entries]
    BY PriorType DEF Entries
  <2>3. r.xr \in Specs
    BY DEF Requests
  <2> QED
    BY <1>1, <1>2, <2>1, <2>2, <2>3 DEF TypeOK, Responses
<1>4. RenderInv'
  <2>1. RenderedAreRenderable' /\ DesiredAreAccountedFor'
    BY <1>1 DEF RenderedAreRenderable, DesiredAreAccountedFor, PriorDesired
  <2> QED
    BY <1>1, <1>2, <2>1 DEF RenderInv, PriorDesired
<1>5. ObservedIsSnapshot'
  BY <1>1, <1>2 DEF ObservedIsSnapshot
<1> QED
  BY <1>3, <1>4, <1>5 DEF CallInv

(* A call never changes its request.                                       *)
LEMMA RequestIsKept ==
    ASSUME [RunFunction]_vars
    PROVE  req' = req
  BY DEF RunFunction, vars, ResolveSchemas, ObserveExternals, SelectExternal,
         ObserveComposed, BuildNode, SetDesiredComposed, SetDesiredStatus

(* What is observed of a managed node is what the request holds of it.     *)
LEMMA SnapshotStep ==
    ASSUME TypeOK, RenderInv, ObservedIsSnapshot, [RunFunction]_vars
    PROVE  ObservedIsSnapshot'
<1>0. \A n : GroupObserved(n)' = GroupObserved(n)
  BY RequestIsKept DEF GroupObserved
<1>1. CASE ResolveSchemas
  <2>1. /\ phase = "schemas" /\ desired' = desired
        /\ phase' \in {"done", "externals"} /\ rsp'.result # "ok"
    BY <1>1 DEF ResolveSchemas, runtimeVars, RenderInv, TypeOK
  <2> QED
    BY <2>1 DEF ObservedIsSnapshot
<1>2. CASE ObserveExternals
  <2>1. /\ phase = "externals" /\ phase' = "selectors" /\ desired' = desired
        /\ observed' = [n \in Nodes |-> IF External(n) THEN req.required[n] ELSE {}]
        /\ rsp'.result # "ok"
    BY <1>2 DEF ObserveExternals, RenderInv
  <2>2. \A n \in Nodes : Managed(n) => observed'[n] = {}
    BY <2>1 DEF Managed, External
  <2> QED
    BY <2>1, <2>2 DEF ObservedIsSnapshot
<1>3. ASSUME NEW n \in Nodes, SelectExternal(n)
      PROVE  ObservedIsSnapshot'
  <2>1. /\ phase = "selectors" /\ UNCHANGED <<observed, desired>>
        /\ \/ phase' = "selectors" /\ rsp' = rsp
           \/ phase' = "done" /\ rsp' = [rsp EXCEPT !.result = "fatal"]
    BY <1>3 DEF SelectExternal, externalCollectionSelector, Fatal
  <2>2. phase' \in {"selectors", "done"} /\ rsp'.result # "ok"
    BY <2>1 DEF RenderInv, TypeOK
  <2> QED
    BY <2>1, <2>2 DEF ObservedIsSnapshot
<1>4. CASE ObserveComposed
  <2>1. /\ phase = "selectors" /\ phase' = "build" /\ desired' = desired
        /\ observed' = [n \in Nodes |-> IF GroupObserved(n) = {} THEN observed[n]
                                        ELSE SetObserved(n, GroupObserved(n))]
    BY <1>4 DEF ObserveComposed
  <2>2. ASSUME NEW n \in Nodes, Managed(n)
        PROVE  observed'[n] = GroupObserved(n)
    <3>1. observed[n] = {} /\ desired[n] = {}
      BY <2>1, <2>2 DEF ObservedIsSnapshot
    <3>2. SetObserved(n, GroupObserved(n)) = GroupObserved(n)
      BY <3>1 DEF SetObserved, orderedIntersection
    <3> QED
      BY <2>1, <3>1, <3>2
  <2> QED
    BY <1>0, <2>1, <2>2 DEF ObservedIsSnapshot
<1>5. ASSUME NEW n \in Nodes, BuildNode(n)
      PROVE  ObservedIsSnapshot'
  <2>1. /\ phase = "build" /\ observed' = observed
        /\ \/ phase' = "build" /\ rsp' = rsp
           \/ phase' = "done" /\ rsp' = [rsp EXCEPT !.result = "fatal"]
    BY <1>5 DEF BuildNode, SkipNode, Fatal, AddDesired
  <2>2. phase' \in {"build", "done"} /\ rsp'.result # "ok"
    BY <2>1 DEF RenderInv, TypeOK
  <2> QED
    BY <1>0, <2>1, <2>2 DEF ObservedIsSnapshot
<1>6. CASE SetDesiredComposed
  <2>1. phase = "build" /\ phase' = "status" /\ observed' = observed
    BY <1>6 DEF SetDesiredComposed, runtimeVars
  <2> QED
    BY <1>0, <2>1 DEF ObservedIsSnapshot
<1>7. CASE SetDesiredStatus
  <2>1. phase = "status" /\ phase' = "done" /\ observed' = observed
    BY <1>7 DEF SetDesiredStatus, runtimeVars
  <2> QED
    BY <1>0, <2>1 DEF ObservedIsSnapshot
<1>8. CASE UNCHANGED vars
  BY <1>0, <1>8 DEF vars, runtimeVars, ObservedIsSnapshot
<1> QED
  BY <1>1, <1>2, <1>3, <1>4, <1>5, <1>6, <1>7, <1>8 DEF RunFunction

(* Every phase of a call, and every step beside it, keeps the invariant of *)
(* the call.                                                               *)
LEMMA CallSteps ==
    ASSUME CallInv, [RunFunction]_vars
    PROVE  CallInv'
  BY StepTypeOK, StepRenderInv, SnapshotStep DEF CallInv

(* Waiting is a matter of the request alone.                               *)
LEMMA WaitStep ==
    ASSUME CallInv, WaitsUnanswered, [RunFunction]_vars, UNCHANGED reconcileVars
    PROVE  WaitsUnanswered'
<1>1. req' = req /\ busy' = busy /\ asked' = asked
  BY RequestIsKept DEF reconcileVars
<1>2. CASE ResolveSchemas
  <2>1. \/ /\ req.schemas = "none"
           /\ rsp' = [rsp EXCEPT !.result = "wait", !.requirements = {SchemaReq}]
        \/ rsp' = [rsp EXCEPT !.result = "fatal", !.requirements = {SchemaReq}]
        \/ /\ phase = "schemas"
           /\ rsp' = [rsp EXCEPT !.requirements = {SchemaReq}]
    BY <1>2 DEF ResolveSchemas
  <2>2. rsp \in Responses /\ (phase = "schemas" => rsp.result = "running")
    BY DEF CallInv, TypeOK, Responses, RenderInv
  <2>3. rsp'.result = "wait" => /\ req.schemas = "none"
                                /\ rsp'.requirements = {SchemaReq}
    BY <2>1, <2>2 DEF Responses
  <2> QED
    BY <1>1, <2>3 DEF WaitsUnanswered
<1>3. CASE UNCHANGED vars
  BY <1>1, <1>3 DEF vars, WaitsUnanswered
<1>4. ASSUME ~ResolveSchemas, ~UNCHANGED vars
      PROVE  rsp'.result # "wait"
  <2>1. rsp \in Responses /\ (phase # "done" => rsp.result = "running")
    BY DEF CallInv, TypeOK, Responses, RenderInv
  <2>2. ASSUME NEW n \in Nodes, SelectExternal(n) \/ BuildNode(n)
        PROVE  phase # "done" /\ (rsp' = rsp \/ rsp' = [rsp EXCEPT !.result = "fatal"])
    BY <2>2 DEF SelectExternal, externalCollectionSelector, BuildNode, SkipNode,
                AddDesired, Fatal
  <2>3. CASE ObserveExternals \/ ObserveComposed \/ SetDesiredComposed
    <3>1. phase # "done" /\ rsp'.result = rsp.result
      BY <2>1, <2>3
         DEF ObserveExternals, ObserveComposed, SetDesiredComposed, Responses
    <3> QED
      BY <2>1, <3>1
  <2>4. CASE SetDesiredStatus
    BY <2>1, <2>4 DEF SetDesiredStatus, Responses
  <2>5. ASSUME NEW n \in Nodes, SelectExternal(n) \/ BuildNode(n)
        PROVE  rsp'.result # "wait"
    BY <2>1, <2>2, <2>5 DEF Responses
  <2> QED
    BY <1>4, <2>3, <2>4, <2>5 DEF RunFunction
<1> QED
  BY <1>1, <1>2, <1>3, <1>4 DEF WaitsUnanswered

----
(* The control plane around it                                             *)

(* What a step beside the call leaves alone.                               *)
LEMMA BesideTheCall ==
    ASSUME XInv, UNCHANGED callVars
    PROVE  CallInv' /\ req' = req /\ rsp' = rsp
<1>1. UNCHANGED vars
  BY DEF callVars, vars
<1> QED
  BY <1>1, CallSteps DEF XInv, vars

(* The control plane starts with nothing created and no call under way.    *)
LEMMA XInitInv == XInit => XInv
<1> SUFFICES ASSUME XInit PROVE XInv
  OBVIOUS
<1>1. NewResponse \in Responses /\ NewResponse.result = "running"
      /\ NewResponse.composed = PriorDesired
  BY PriorType DEF NewResponse, Responses, Entries
<1>2. /\ spec \in Specs /\ req = Idle /\ xr = spec /\ phase = "done" /\ idx = 1
      /\ observed = [n \in Nodes |-> {}] /\ computed = {}
      /\ desired = [n \in Nodes |-> {}] /\ selectors = {}
      /\ dcds = PriorDesired /\ rsp = NewResponse /\ busy = FALSE /\ asked = {}
      /\ round = 0 /\ changes = 0 /\ faults = 0
      /\ cluster = [k \in ManagedKeys |-> Absent] /\ outside = NoRequired
  BY DEF XInit
<1>3. Idle \in Requests
  BY <1>2 DEF Idle, Requests, NoRequired
<1>4. TypeOK
  <2>1. 1 \in 1..(Len(Order) + 1)
    BY FunctionAssumption
  <2>2. PriorDesired \in [ComposedKeys -> Entries]
    BY PriorType DEF Entries
  <2> QED
    BY <1>1, <1>2, <1>3, <2>1, <2>2 DEF TypeOK, Responses
<1>5. RenderInv
  <2>1. RenderedAreRenderable /\ DesiredAreAccountedFor
    BY <1>2 DEF RenderedAreRenderable, DesiredAreAccountedFor
  <2> QED
    BY <1>1, <1>2, <2>1 DEF RenderInv
<1>6. ObservedIsSnapshot
  BY <1>1, <1>2 DEF ObservedIsSnapshot
<1>7. SnapshotIsRecent /\ WaitsUnanswered
  <2>1. ~busy
    BY <1>2
  <2>2. rsp.result # "wait"
    BY <1>1, <1>2
  <2> QED
    BY <2>1, <2>2 DEF SnapshotIsRecent, WaitsUnanswered
<1>8. XTypeOK
  <2>1. 0 \in 0..MaxChanges /\ 0 \in 0..MaxFaults /\ 0 \in 0..MaxRounds
    BY CrossplaneAssumption
  <2>2. busy \in BOOLEAN
    BY <1>2, Zenon
  <2>3. cluster \in [ManagedKeys -> States \cup {Absent}]
    BY <1>2
  <2>4. outside \in [Nodes -> SUBSET Objects]
    BY <1>2 DEF NoRequired
  <2> QED
    BY <1>2, <2>1, <2>2, <2>3, <2>4, Zenon DEF XTypeOK
<1> QED
  BY <1>4, <1>5, <1>6, <1>7, <1>8 DEF XInv, CallInv

(* A reconcile starts with a snapshot of the cluster.                      *)
LEMMA StartStep ==
    ASSUME XInv, StartReconcile
    PROVE  XInv'
<1> DEFINE r == [xr |-> spec, composed |-> cluster, required |-> NoRequired,
                 schemas |-> "none"]
<1>1. /\ busy' = TRUE /\ asked' = {} /\ round' = 1 /\ Call(r)
      /\ UNCHANGED <<spec, changes, faults, cluster, outside>>
  BY DEF StartReconcile, envVars
<1>2. r \in Requests
  BY DEF XInv, XTypeOK, Requests, NoRequired
<1>3. CallInv' /\ req' = r /\ rsp'.result = "running"
  <2> HIDE DEF r
  <2> QED
    BY <1>1, <1>2, CallStarts DEF Call, NewResponse
<1>4. XTypeOK'
  BY <1>1, CrossplaneAssumption DEF XInv, XTypeOK
<1>5. SnapshotIsRecent' /\ WaitsUnanswered'
  BY <1>1, <1>3 DEF SnapshotIsRecent, WaitsUnanswered
<1> QED
  BY <1>3, <1>4, <1>5 DEF XInv

(* A phase of the call.                                                    *)
LEMMA FunctionStepInv ==
    ASSUME XInv, FunctionStep
    PROVE  XInv'
<1>1. /\ [RunFunction]_vars /\ UNCHANGED reconcileVars
      /\ UNCHANGED <<spec, changes, faults, cluster, outside, busy, asked, round>>
  BY DEF FunctionStep, envVars, reconcileVars
<1>2. CallInv' /\ WaitsUnanswered' /\ req' = req
  BY <1>1, CallSteps, WaitStep, RequestIsKept DEF XInv
<1>3. XTypeOK' /\ SnapshotIsRecent'
  BY <1>1, <1>2 DEF XInv, XTypeOK, SnapshotIsRecent
<1> QED
  BY <1>2, <1>3 DEF XInv

(* The next round: the snapshot stays, the requirements are answered.      *)
LEMMA CallAgainStep ==
    ASSUME XInv, CallAgain
    PROVE  XInv'
<1> DEFINE r == [req EXCEPT !.required = [n \in Nodes |-> IF n \in rsp.requirements
                                                          THEN outside[n] ELSE {}],
                            !.schemas = IF SchemaReq \in rsp.requirements
                                        THEN "usable" ELSE "none"]
<1>1. /\ asked' = rsp.requirements /\ round' = round + 1 /\ Call(r)
      /\ round < MaxRounds
      /\ UNCHANGED <<spec, changes, faults, cluster, outside, busy>>
  BY DEF CallAgain, envVars
<1>2. /\ req \in Requests /\ rsp \in Responses /\ outside \in [Nodes -> SUBSET Objects]
  BY DEF XInv, CallInv, TypeOK, XTypeOK, Responses
<1>3. /\ r \in Requests
      /\ r.composed = req.composed
      /\ r.schemas = "none" => SchemaReq \notin rsp.requirements
  BY <1>2 DEF Requests
<1>4. CallInv' /\ req' = r /\ rsp'.result = "running"
  <2> HIDE DEF r
  <2> QED
    BY <1>1, <1>3, CallStarts DEF Call, NewResponse
<1>5. XTypeOK'
  BY <1>1, <1>2, CrossplaneAssumption DEF XInv, XTypeOK, Responses
<1>6. SnapshotIsRecent'
  BY <1>1, <1>3, <1>4 DEF XInv, SnapshotIsRecent
<1>7. WaitsUnanswered'
  BY <1>1, <1>3, <1>4 DEF WaitsUnanswered
<1> QED
  BY <1>4, <1>5, <1>6, <1>7 DEF XInv

(* The reconcile ends without or with changes to the cluster.              *)
LEMMA EndStep ==
    ASSUME XInv, Abandon \/ Apply
    PROVE  XInv'
<1>1. /\ UNCHANGED callVars /\ busy' = FALSE
      /\ UNCHANGED <<spec, changes, faults, outside, asked, round>>
      /\ \/ cluster' = cluster
         \/ cluster' = [k \in ManagedKeys |->
                          IF rsp.composed[k] = Absent THEN Absent
                          ELSE IF cluster[k] = Absent THEN "bare"
                          ELSE cluster[k]]
  BY DEF Abandon, Apply, envVars
<1>2. CallInv' /\ req' = req /\ rsp' = rsp
  BY <1>1, BesideTheCall
<1>3. cluster' \in [ManagedKeys -> States \cup {Absent}]
  BY <1>1, CrossplaneAssumption DEF XInv, XTypeOK
<1>4. XTypeOK'
  BY <1>1, <1>3 DEF XInv, XTypeOK
<1>5. SnapshotIsRecent' /\ WaitsUnanswered'
  BY <1>1, <1>2 DEF XInv, SnapshotIsRecent, WaitsUnanswered
<1> QED
  BY <1>2, <1>4, <1>5 DEF XInv

(* The environment moves, beside a reconcile or between two.               *)
LEMMA EnvironmentStep ==
    ASSUME XInv,
           \/ \E k \in ManagedKeys : Progress(k) \/ Regress(k)
           \/ \E n \in Nodes : ExternalAppears(n)
           \/ \E s \in Specs : ChangeSpec(s)
    PROVE  XInv'
<1>1. UNCHANGED callVars /\ UNCHANGED <<busy, asked, round>>
  BY DEF Progress, Regress, ExternalAppears, ChangeSpec, reconcileVars
<1>2. CallInv' /\ req' = req /\ rsp' = rsp
  BY <1>1, BesideTheCall
<1>3. WaitsUnanswered'
  BY <1>1, <1>2 DEF XInv, WaitsUnanswered
<1>4. ASSUME NEW k \in ManagedKeys, Progress(k) \/ Regress(k)
      PROVE  XTypeOK' /\ SnapshotIsRecent'
  <2>1. /\ UNCHANGED <<spec, changes, outside>>
        /\ \/ /\ cluster[k] = "bare" /\ faults' = faults
              /\ cluster' = [cluster EXCEPT ![k] = "notReady"]
           \/ /\ cluster[k] = "notReady" /\ faults' = faults
              /\ cluster' = [cluster EXCEPT ![k] = "ready"]
           \/ /\ cluster[k] = "ready" /\ faults' = faults + 1 /\ faults < MaxFaults
              /\ cluster' = [cluster EXCEPT ![k] = "notReady"]
    BY <1>4 DEF Progress, Regress
  <2>2. XTypeOK
    BY DEF XInv
  <2>3. XTypeOK'
    <3>1. cluster' \in [ManagedKeys -> States \cup {Absent}]
      BY <2>1, <2>2, CrossplaneAssumption DEF XTypeOK
    <3>2. faults' \in 0..MaxFaults
      BY <2>1, <2>2, CrossplaneAssumption DEF XTypeOK
    <3> QED
      BY <1>1, <2>1, <2>2, <3>1, <3>2 DEF XTypeOK
  <2>4. ASSUME NEW c \in ManagedKeys, busy
        PROVE  /\ req.composed[c] = Absent <=> cluster'[c] = Absent
               /\ faults' = 0 /\ req.composed[c] = "ready" => cluster'[c] = "ready"
    <3>1. /\ req.composed[c] = Absent <=> cluster[c] = Absent
          /\ faults = 0 /\ req.composed[c] = "ready" => cluster[c] = "ready"
      BY <2>4 DEF XInv, SnapshotIsRecent
    <3>2. faults \in Nat
      BY <2>2, CrossplaneAssumption DEF XTypeOK
    <3>3. CASE c # k
      BY <2>1, <2>2, <3>1, <3>2, <3>3 DEF XTypeOK
    <3>4. CASE c = k
      <4>1. cluster'[k] \in {"notReady", "ready"} /\ cluster[k] # Absent /\ cluster'[k] # Absent
        BY <2>1, <2>2 DEF XTypeOK, Absent
      <4>2. faults' = 0 /\ cluster[k] = "ready" => cluster'[k] = "ready"
        BY <2>1, <3>2
      <4>3. faults' = 0 => faults = 0
        BY <2>1, <3>2
      <4> QED
        BY <3>1, <3>4, <4>1, <4>2, <4>3
    <3> QED
      BY <3>3, <3>4
  <2>5. SnapshotIsRecent'
    BY <1>1, <1>2, <2>4 DEF SnapshotIsRecent
  <2> QED
    BY <2>3, <2>5
<1>5. ASSUME NEW n \in Nodes, ExternalAppears(n)
      PROVE  XTypeOK' /\ SnapshotIsRecent'
  <2>1. /\ UNCHANGED <<spec, changes, faults, cluster>>
        /\ outside' = [outside EXCEPT ![n] = ExternalPool[n]]
    BY <1>5 DEF ExternalAppears
  <2> QED
    BY <1>1, <1>2, <2>1, CrossplaneAssumption DEF XInv, XTypeOK, SnapshotIsRecent
<1>6. ASSUME NEW s \in Specs, ChangeSpec(s)
      PROVE  XTypeOK' /\ SnapshotIsRecent'
  <2>1. /\ UNCHANGED <<faults, cluster, outside>> /\ spec' = s
        /\ changes < MaxChanges /\ changes' = changes + 1
    BY <1>6 DEF ChangeSpec
  <2> QED
    BY <1>1, <1>2, <2>1, CrossplaneAssumption DEF XInv, XTypeOK, SnapshotIsRecent
<1> QED
  BY <1>2, <1>3, <1>4, <1>5, <1>6 DEF XInv

(* Every step of the control plane keeps the invariant.                    *)
LEMMA XStepInv == XInv /\ [XNext]_allVars => XInv'
<1> SUFFICES ASSUME XInv, [XNext]_allVars PROVE XInv'
  OBVIOUS
<1>1. CASE Reconcile
  BY <1>1, StartStep, FunctionStepInv, CallAgainStep, EndStep DEF Reconcile
<1>2. CASE \/ \E k \in ManagedKeys : Progress(k) \/ Regress(k)
           \/ \E n \in Nodes : ExternalAppears(n)
           \/ \E s \in Specs : ChangeSpec(s)
  BY <1>2, EnvironmentStep
<1>3. CASE UNCHANGED allVars
  <2>1. /\ UNCHANGED callVars
        /\ UNCHANGED <<spec, changes, faults, cluster, outside, busy, asked, round>>
    BY <1>3 DEF allVars, envVars, reconcileVars
  <2>2. CallInv' /\ req' = req /\ rsp' = rsp
    BY <2>1, BesideTheCall
  <2> QED
    BY <2>1, <2>2 DEF XInv, XTypeOK, SnapshotIsRecent, WaitsUnanswered
<1> QED
  BY <1>1, <1>2, <1>3 DEF XNext

(* The invariant of the control plane and of every call it makes.          *)
THEOREM XInvariant == XSpec => []XInv
  BY XInitInv, XStepInv, PTL DEF XSpec

----
(* What the invariant implies                                              *)

(* The control plane around the calls keeps its type: in particular the    *)
(* cluster holds objects in known states only, and no reconcile exceeds    *)
(* its rounds.                                                             *)
THEOREM ControlPlaneTypes == XSpec => []XTypeOK
<1>1. XInv => XTypeOK
  BY DEF XInv
<1> QED
  BY <1>1, XInvariant, PTL

(* In every round of every reconcile, what the function desires is         *)
(* included and has all of its dependencies ready.                         *)
THEOREM CallsOnlyBehindReady == XSpec => []DesiredOnlyBehindReady
<1>1. XInv => DesiredOnlyBehindReady
  <2> SUFFICES ASSUME XInv PROVE DesiredOnlyBehindReady
    OBVIOUS
  <2>1. TypeOK /\ RenderInv
    BY DEF XInv, CallInv
  <2> QED
    BY <2>1, DesiredBehindReady
<1> QED
  BY <1>1, XInvariant, PTL

(* The response that waits for schemas is never applied, however many      *)
(* rounds Crossplane grants.                                               *)
THEOREM WaitingIsAnswered == XSpec => []WaitingIsNeverApplied
<1>1. XInv => WaitingIsNeverApplied
  <2> SUFFICES ASSUME XInv, Responded, Stable, rsp.result = "wait"
               PROVE  FALSE
    BY DEF WaitingIsNeverApplied
  <2>1. busy /\ asked = {SchemaReq} /\ req.schemas = "none"
    BY DEF XInv, WaitsUnanswered, Responded, Stable
  <2> QED
    BY <2>1 DEF XInv, WaitsUnanswered
<1> QED
  BY <1>1, XInvariant, PTL

----
(* What is created in the cluster                                          *)

(* An observed object belongs to its node; the node of a single resource   *)
(* has one at most.                                                        *)
LEMMA ObservedOfNode ==
    ASSUME TypeOK, NEW n \in Nodes, NEW o \in GroupObserved(n)
    PROVE  /\ o \in Objects /\ o.key \in ManagedKeys /\ o.key[1] = n
           /\ o.state = req.composed[o.key] /\ req.composed[o.key] # Absent
           /\ Kind[n] = "resource" => GroupObserved(n) = {o}
<1>1. PICK k \in ManagedKeys : /\ k[1] = n /\ req.composed[k] # Absent
                               /\ o = [key |-> k, state |-> req.composed[k]]
  BY DEF GroupObserved
<1>2. o \in Objects
  BY ObservedObjects
<1>3. ASSUME Kind[n] = "resource", NEW c \in ManagedKeys, c[1] = n
      PROVE  c = <<n, NoName>>
  <2>1. c \in Nodes \X (Names \cup {NoName}) /\ (ManyObjects(n) <=> c[2] # NoName)
    BY <1>3 DEF ManagedKeys, Keys
  <2>2. ~ManyObjects(n)
    BY <1>3 DEF ManyObjects
  <2> QED
    BY <1>3, <2>1, <2>2
<1>4. Kind[n] = "resource" => GroupObserved(n) = {o}
  <2> SUFFICES ASSUME Kind[n] = "resource", NEW p \in GroupObserved(n)
               PROVE  p = o
    OBVIOUS
  <2>1. PICK c \in ManagedKeys : /\ c[1] = n
                                 /\ p = [key |-> c, state |-> req.composed[c]]
    BY DEF GroupObserved
  <2> QED
    BY <1>1, <1>3, <2>1
<1> QED
  BY <1>1, <1>2, <1>4

(* A value that counts as true in a readyWhen is true.                     *)
LEMMA TrueMeansTrue ==
    ASSUME NEW e, NEW ctx, evalBoolExpr(e, ctx) = "true"
    PROVE  EvalBool(e, filterContext(ctx, Refs[e])) = "true"
  BY DEF evalBoolExpr

(* A single resource that readiness lets pass has been observed, and is    *)
(* ready if it has a readyWhen.                                            *)
LEMMA ReadyResource ==
    ASSUME TypeOK, NEW d \in Nodes, Kind[d] = "resource",
           observed[d] = GroupObserved(d), checkObservedReadiness(d) = {"ready"}
    PROVE  /\ GroupObserved(d) # {}
           /\ Len(ReadyWhen[d]) > 0 => \A o \in GroupObserved(d) : o.state = "ready"
<1> DEFINE vals == [i \in 1..Len(ReadyWhen[d]) |->
                       evalBoolExpr(ReadyWhen[d][i], [c \in {d} |-> observed[d]])]
<1>1. checkSingleResourceReadiness(d) = {"ready"}
  BY DEF checkObservedReadiness, ManyObjects
<1>2. observed[d] # {} /\ Readiness(vals) = "ready"
  BY <1>1 DEF checkSingleResourceReadiness
<1>3. Len(ReadyWhen[d]) \in Nat
  BY RuntimeAssumption
<1>4. Len(vals) = Len(ReadyWhen[d]) /\ DOMAIN vals = 1..Len(ReadyWhen[d])
  BY <1>3
<1>5. \A i \in 1..Len(ReadyWhen[d]) : vals[i] = "true"
  <2> HIDE DEF vals
  <2> QED
    BY <1>2, <1>3, <1>4, ReadyMeansTrue
<1>6. ASSUME NEW o \in GroupObserved(d), Len(ReadyWhen[d]) > 0
      PROVE  o.state = "ready"
  <2>1. o \in Objects /\ o.key[1] = d /\ observed[d] = {o}
    BY ObservedOfNode
  <2>2. ASSUME NEW i \in 1..Len(ReadyWhen[d])
        PROVE  EvalBool(ReadyWhen[d][i], ReadyContext(d, ReadyWhen[d][i], o)) = "true"
    <3>1. evalBoolExpr(ReadyWhen[d][i], [c \in {d} |-> observed[d]]) = "true"
      BY <1>5
    <3>2. EvalBool(ReadyWhen[d][i], filterContext([c \in {d} |-> observed[d]],
                                                  Refs[ReadyWhen[d][i]])) = "true"
      BY <3>1, TrueMeansTrue
    <3> QED
      BY <2>1, <3>2 DEF ReadyContext
  <2> QED
    BY <1>6, <2>1, <2>2, ReadyStateAssumption DEF Managed
<1> QED
  BY <1>2, <1>6

(* A collection that readiness lets pass is expanded to nothing, or has    *)
(* been observed, and each of its objects is ready if it has a readyWhen.  *)
LEMMA ReadyCollection ==
    ASSUME TypeOK, NEW d \in Nodes, Kind[d] = "collection",
           observed[d] = GroupObserved(d), checkObservedReadiness(d) = {"ready"},
           ~ExpandedToNothing(d)
    PROVE  /\ GroupObserved(d) # {}
           /\ Len(ReadyWhen[d]) > 0 => \A o \in GroupObserved(d) : o.state = "ready"
<1>1. checkCollectionReadiness(d) = {"ready"}
  BY DEF checkObservedReadiness, ManyObjects
<1>2. /\ desired[d] # {}
      /\ ~(Cardinality(observed[d]) < Cardinality(desired[d]))
      /\ Len(ReadyWhen[d]) > 0 => EachReadiness(d) = {"ready"}
  <2>1. d \in computed
    BY <1>1 DEF checkCollectionReadiness
  <2>2. desired[d] # {}
    BY <2>1 DEF ExpandedToNothing
  <2>3. ~(Cardinality(observed[d]) < Cardinality(desired[d]))
    BY <1>1, <2>1, <2>2 DEF checkCollectionReadiness
  <2>4. ASSUME Len(ReadyWhen[d]) > 0 PROVE EachReadiness(d) = {"ready"}
    BY <1>1, <2>1, <2>2, <2>3, <2>4, RuntimeAssumption DEF checkCollectionReadiness
  <2> QED
    BY <2>2, <2>3, <2>4
<1>3. observed[d] # {}
  <2>1. IsFiniteSet(desired[d])
    BY FS_Subset, CrossplaneAssumption DEF TypeOK
  <2>2. Cardinality(desired[d]) \in Nat /\ Cardinality(desired[d]) # 0
    BY <1>2, <2>1, FS_EmptySet, FS_CardinalityType
  <2>3. observed[d] = {} => Cardinality(observed[d]) = 0
    BY FS_EmptySet
  <2>4. ~(Cardinality(observed[d]) < Cardinality(desired[d]))
    BY <1>2
  <2> QED
    BY <2>2, <2>3, <2>4
<1>4. ASSUME NEW o \in GroupObserved(d), Len(ReadyWhen[d]) > 0
      PROVE  o.state = "ready"
  <2> DEFINE value(e, p) == LET v == EvalBool(e, [c \in {"each"} |-> {p}])
                            IN  IF v \in {"true", "false", "pending"} THEN v ELSE "error"
             vals == [i \in 1..Len(ReadyWhen[d]) |-> value(ReadyWhen[d][i], o)]
  <2>1. Readiness(vals) = "ready"
    <3>1. EachReadiness(d) = {"ready"}
      BY <1>2, <1>4
    <3> QED
      BY <3>1 DEF EachReadiness
  <2>2. Len(ReadyWhen[d]) \in Nat
    BY RuntimeAssumption
  <2>3. Len(vals) = Len(ReadyWhen[d]) /\ DOMAIN vals = 1..Len(ReadyWhen[d])
    BY <2>2
  <2>4. \A i \in 1..Len(ReadyWhen[d]) : vals[i] = "true"
    <3> HIDE DEF vals
    <3> QED
      BY <2>1, <2>2, <2>3, ReadyMeansTrue
  <2>5. ASSUME NEW i \in 1..Len(ReadyWhen[d])
        PROVE  EvalBool(ReadyWhen[d][i], ReadyContext(d, ReadyWhen[d][i], o)) = "true"
    <3>1. value(ReadyWhen[d][i], o) = "true"
      BY <2>4
    <3>2. EvalBool(ReadyWhen[d][i], [c \in {"each"} |-> {o}]) = "true"
      BY <3>1
    <3> QED
      BY <3>2 DEF ReadyContext
  <2>6. o \in Objects /\ o.key[1] = d
    BY ObservedOfNode
  <2> QED
    BY <1>4, <2>5, <2>6, ReadyStateAssumption DEF Managed
<1> QED
  BY <1>3, <1>4

(* Only applying a response creates, and the response is a successful one: *)
(* what it creates is what the call rendered, on the snapshot.             *)
LEMMA CreatingIsApplying ==
    ASSUME XInv, [XNext]_allVars, NEW k \in ManagedKeys, Creates(k)
    PROVE  /\ busy /\ k[1] \in Nodes
           /\ \A d \in Deps[k[1]] : /\ d \in Nodes
                                    /\ checkObservedReadiness(d) = {"ready"}
                                    /\ Managed(d) => observed[d] = GroupObserved(d)
<1>0. cluster[k] = Absent /\ cluster'[k] # Absent /\ Ours(k, rsp.composed)
  BY DEF Creates
<1>1. Apply
  <2>1. CASE StartReconcile \/ FunctionStep \/ CallAgain \/ Abandon
    BY <1>0, <2>1 DEF StartReconcile, FunctionStep, CallAgain, Abandon, envVars
  <2>2. ASSUME NEW c \in ManagedKeys, Progress(c) \/ Regress(c) PROVE FALSE
    <3>1. /\ cluster[c] \in {"bare", "notReady", "ready"}
          /\ \E v : cluster' = [cluster EXCEPT ![c] = v]
      BY <2>2 DEF Progress, Regress
    <3>2. cluster[c] # Absent
      BY <3>1 DEF Absent
    <3> QED
      BY <1>0, <3>1, <3>2 DEF XInv, XTypeOK
  <2>3. CASE \/ \E n \in Nodes : ExternalAppears(n)
             \/ \E s \in Specs : ChangeSpec(s)
    BY <1>0, <2>3 DEF ExternalAppears, ChangeSpec
  <2>4. CASE UNCHANGED allVars
    BY <1>0, <2>4 DEF allVars, envVars
  <2> QED
    BY <2>1, <2>2, <2>3, <2>4 DEF XNext, Reconcile
<1>2. busy /\ phase = "done" /\ rsp.result # "fatal"
  BY <1>1 DEF Apply, Responded
<1>3. rsp.composed = dcds /\ rsp.result = "ok"
  <2>1. rsp.composed # PriorDesired
    BY <1>0, PriorType DEF Ours, ReadyStates, Absent, ComposedKeys
  <2> QED
    BY <1>2, <2>1 DEF XInv, CallInv, RenderInv
<1>4. Ours(k, dcds) /\ k \in ComposedKeys
  BY <1>0, <1>3 DEF ComposedKeys
<1>5. TypeOK /\ RenderInv /\ ObservedIsSnapshot
  BY DEF XInv, CallInv
<1>6. k[1] \in Nodes
  BY <1>4, <1>5, OursIsRendered
<1>7. \A d \in Deps[k[1]] : checkObservedReadiness(d) = {"ready"}
  BY <1>4, <1>5, DesiredBehindReady DEF DesiredOnlyBehindReady
<1>8. \A n \in Nodes : Managed(n) => observed[n] = GroupObserved(n)
  BY <1>3, <1>5 DEF ObservedIsSnapshot
<1> QED
  BY <1>2, <1>6, <1>7, <1>8, RuntimeAssumption

(* What is created was decided on a snapshot that had every dependency.    *)
LEMMA CreationStep ==
    ASSUME XInv, [XNext]_allVars, NEW k \in ManagedKeys
    PROVE  CreatesOnReadySnapshot(k)
<1> SUFFICES ASSUME Creates(k), NEW d \in Deps[k[1]], Managed(d), ~ExpandedToNothing(d)
             PROVE  /\ GroupObserved(d) # {}
                    /\ Len(ReadyWhen[d]) > 0 =>
                           \A o \in GroupObserved(d) : o.state = "ready"
  BY DEF CreatesOnReadySnapshot
<1>1. d \in Nodes /\ checkObservedReadiness(d) = {"ready"} /\ observed[d] = GroupObserved(d)
  BY CreatingIsApplying
<1>2. TypeOK
  BY DEF XInv, CallInv
<1> QED
  BY <1>1, <1>2, ReadyResource, ReadyCollection DEF Managed

(* Whatever the graph and the order of events, nothing is created unless   *)
(* the snapshot it was decided on had all its dependencies, ready.         *)
THEOREM CreationOnReadySnapshot == XSpec => CreatedOnReadySnapshot
<1>1. XInv /\ [XNext]_allVars => [\A k \in ManagedKeys : CreatesOnReadySnapshot(k)]_allVars
  BY CreationStep
<1> QED
  BY <1>1, XInvariant, PTL DEF XSpec, CreatedOnReadySnapshot

(* And unless a resource has become unready meanwhile, they are ready in   *)
(* the cluster at the moment of creation.                                  *)
THEOREM CreationInOrder == XSpec => CreatedInOrder
<1>1. ASSUME XInv, [XNext]_allVars, NEW k \in ManagedKeys
      PROVE  CreatesInOrder(k)
  <2> SUFFICES ASSUME faults = 0, Creates(k), NEW d \in Deps[k[1]], Managed(d),
                      ~ExpandedToNothing(d)
               PROVE  /\ Owned(d) # {}
                      /\ Len(ReadyWhen[d]) > 0 =>
                             \A c \in Owned(d) : cluster[c] = "ready"
    BY DEF CreatesInOrder, Undisturbed
  <2>1. busy /\ d \in Nodes /\ TypeOK
    BY <1>1, CreatingIsApplying DEF XInv, CallInv
  <2>2. /\ GroupObserved(d) # {}
        /\ Len(ReadyWhen[d]) > 0 => \A o \in GroupObserved(d) : o.state = "ready"
    BY <1>1, CreationStep DEF CreatesOnReadySnapshot
  <2>3. \A c \in ManagedKeys :
            /\ req.composed[c] = Absent <=> cluster[c] = Absent
            /\ req.composed[c] = "ready" => cluster[c] = "ready"
    BY <1>1, <2>1 DEF XInv, SnapshotIsRecent
  <2>4. Owned(d) # {}
    <3>1. PICK o \in GroupObserved(d) : TRUE
      BY <2>2
    <3>2. o.key \in ManagedKeys /\ o.key[1] = d /\ req.composed[o.key] # Absent
      BY <2>1, ObservedOfNode
    <3> QED
      BY <2>3, <3>2 DEF Owned
  <2>5. ASSUME Len(ReadyWhen[d]) > 0, NEW c \in Owned(d)
        PROVE  cluster[c] = "ready"
    <3>1. c \in ManagedKeys /\ c[1] = d /\ req.composed[c] # Absent
      BY <2>3 DEF Owned
    <3>2. [key |-> c, state |-> req.composed[c]] \in GroupObserved(d)
      BY <3>1 DEF GroupObserved
    <3>3. req.composed[c] = "ready"
      BY <2>2, <2>5, <3>2
    <3> QED
      BY <2>3, <3>1, <3>3
  <2> QED
    BY <2>4, <2>5
<1>2. XInv /\ [XNext]_allVars => [\A k \in ManagedKeys : CreatesInOrder(k)]_allVars
  BY <1>1
<1> QED
  BY <1>2, XInvariant, PTL DEF XSpec, CreatedInOrder

----
(* What the function requires                                              *)

(* What a call sees of the nodes while it builds its requirements: the     *)
(* external resources in its request, and of managed nodes nothing.        *)
Fetched == [n \in Nodes |-> IF External(n) THEN req.required[n] ELSE {}]

Fetchings == {[n \in Nodes |-> IF n \in S THEN ExternalPool[n] ELSE {}] :
                 S \in SUBSET ExternalNodes}

(* Later rounds fetch more.                                                *)
Extends(old, new) == \A n \in Nodes : old[n] = {} \/ new[n] = old[n]

(* The readiness of a dependency at that time.                             *)
SelectionReady(d, obs) ==
    \/ Kind[d] = "externalCollection"
    \/ /\ Kind[d] = "external"
       /\ obs[d] # {}
       /\ \A i \in 1..Len(ReadyWhen[d]) :
              evalBoolExpr(ReadyWhen[d][i], [c \in {d} |-> obs[d]]) = "true"

(* The external nodes for which a selector is built: a closed form of      *)
(* externalRefSelectorsFromRuntime.                                        *)
Selects(n, obs, x) ==
    \/ /\ Kind[n] = "external"
       /\ EvalIdentity(n, ContextOf(n, {}, obs, x)) = "ok"
    \/ /\ Kind[n] = "externalCollection"
       /\ \A d \in Deps[n] : SelectionReady(d, obs)
       /\ EvalTemplate(n, ContextOf(n, {}, obs, x)) = "ok"

Selection(obs, x) == {SchemaReq} \cup {n \in Nodes : Selects(n, obs, x)}

(* What a call requires is the selection.                                  *)
SelectInv ==
    /\ xr = req.xr
    /\ phase \in {"schemas", "externals"} => selectors = {} /\ idx = 1
    /\ phase \in {"externals", "selectors"} => rsp.requirements = {SchemaReq}
    /\ phase = "selectors" =>
           /\ observed = Fetched
           /\ \A i \in 1..(idx - 1) :
                 Order[i] \in selectors <=> Selects(Order[i], Fetched, xr)
           /\ \A n \in selectors : \E i \in 1..(idx - 1) : Order[i] = n
    /\ phase \in {"build", "status"} \/ rsp.result = "ok" =>
           /\ rsp.requirements = Selection(Fetched, xr)
           /\ \A n \in Nodes : External(n) => observed[n] = req.required[n]

(* Requests hold what there is outside.                                    *)
RequestsAreTrue ==
    /\ \A n \in Nodes : /\ outside[n] \in {{}, ExternalPool[n]}
                        /\ req.required[n] \in {{}, ExternalPool[n]}
    /\ busy => \A n \in Nodes : req.required[n] # {} =>
                   n \in asked /\ outside[n] = req.required[n]

(* What a request answers was selected with less than it holds.            *)
AskedIsSelected ==
    /\ round = 0 => asked = {}
    /\ busy /\ phase = "done" => rsp.result # "running"
    /\ busy /\ asked # {} =>
          /\ SchemaReq \in asked
          /\ \E old \in Fetchings : Extends(old, Fetched) /\ asked \subseteq Selection(old, req.xr)

(* Each round adds a requirement.                                          *)
RoundsAreCounted ==
    /\ asked \subseteq {SchemaReq} \cup ExternalNodes
    /\ busy => round <= Cardinality(asked) + 1

RoundInv == SelectInv /\ RequestsAreTrue /\ AskedIsSelected /\ RoundsAreCounted

(* No call fails but for a collection that is too large.                   *)
FailsForSize ==
    /\ req.schemas # "unusable"
    /\ rsp.result = "fatal" => \E n \in Nodes : TooLarge(n)

----
(* The lemmas on what is selected                                          *)

(* A node is either managed or external.                                   *)
LEMMA TwoKinds ==
    ASSUME NEW n \in Nodes
    PROVE  /\ Managed(n) <=> ~External(n)
           /\ Kind[n] \in Kinds
  BY RuntimeAssumption DEF Managed, External, Kinds

(* The context of a node is built from its dependencies alone.             *)
LEMMA ContextOfDeps ==
    ASSUME NEW n \in Nodes, NEW only, NEW obs, NEW x
    PROVE  /\ ContextOf(n, only, obs, x) = ContextOf(n, only, [d \in Deps[n] |-> obs[d]], x)
           /\ buildContext(n, only) = ContextOf(n, only, observed, xr)
<1> DEFINE near == [d \in Deps[n] |-> obs[d]]
           D(o) == {c \in Deps[n] \cup {Schema} : (c # Schema => o[c] # {}) /\ (only = {} \/ c \in only)}
<1>1. \A c \in Deps[n] \cup {Schema} : c # Schema => near[c] = obs[c]
  OBVIOUS
<1>2. D(near) = D(obs)
  BY <1>1
<1>3. [d \in D(near) |-> IF d = Schema THEN x ELSE near[d]]
        = [d \in D(obs) |-> IF d = Schema THEN x ELSE obs[d]]
  BY <1>1, <1>2
<1>4. ContextOf(n, only, obs, x) = ContextOf(n, only, near, x)
  BY <1>3 DEF ContextOf
<1>5. buildContext(n, only) = ContextOf(n, only, observed, xr)
  BY DEF buildContext, ContextOf
<1> QED
  BY <1>4, <1>5

(* What can be fetched for each node.                                      *)
LEMMA FetchingIs ==
    ASSUME NEW f
    PROVE  f \in Fetchings <=>
               /\ f = [n \in Nodes |-> f[n]]
               /\ \A n \in Nodes : f[n] = {} \/ (External(n) /\ f[n] = ExternalPool[n])
<1>1. ASSUME f \in Fetchings
      PROVE  /\ f = [n \in Nodes |-> f[n]]
             /\ \A n \in Nodes : f[n] = {} \/ (External(n) /\ f[n] = ExternalPool[n])
  <2>1. PICK S \in SUBSET ExternalNodes :
               f = [n \in Nodes |-> IF n \in S THEN ExternalPool[n] ELSE {}]
    BY <1>1 DEF Fetchings
  <2> QED
    BY <2>1 DEF ExternalNodes
<1>2. ASSUME f = [n \in Nodes |-> f[n]],
             \A n \in Nodes : f[n] = {} \/ (External(n) /\ f[n] = ExternalPool[n])
      PROVE  f \in Fetchings
  <2> DEFINE S == {n \in ExternalNodes : f[n] # {}}
             g == [n \in Nodes |-> IF n \in S THEN ExternalPool[n] ELSE {}]
  <2>1. \A n \in Nodes : f[n] = g[n]
    BY <1>2 DEF ExternalNodes
  <2>2. f = g
    BY <1>2, <2>1
  <2> QED
    BY <2>2 DEF Fetchings
<1> QED
  BY <1>1, <1>2

(* What was fetched is something that can be observed.                     *)
LEMMA FetchingIsObservable ==
    ASSUME NEW f \in Fetchings, NEW S \in SUBSET Nodes
    PROVE  [d \in S |-> f[d]] \in Observations(S)
<1>1. ASSUME NEW d \in S PROVE f[d] \in Views(d)
  <2>1. f[d] = {} \/ (External(d) /\ f[d] = ExternalPool[d])
    BY FetchingIs
  <2>2. f[d] = {} => f[d] \in Views(d)
    BY DEF Views
  <2> QED
    BY <2>1, <2>2 DEF Views
<1> QED
  BY <1>1 DEF Observations

(* What is selected stays selected when more has been fetched.             *)
LEMMA SelectionGrows ==
    ASSUME MonotoneExpressions, NEW n \in Nodes, NEW x \in Specs,
           NEW old \in Fetchings, NEW new \in Fetchings,
           \A d \in Deps[n] : old[d] = {} \/ new[d] = old[d],
           Selects(n, old, x)
    PROVE  Selects(n, new, x)
<1> DEFINE v == [d \in Deps[n] |-> old[d]]
           w == [d \in Deps[n] |-> new[d]]
<1>1. Deps[n] \in SUBSET Nodes
  BY RuntimeAssumption
<1>2. v \in Observations(Deps[n]) /\ w \in Observations(Deps[n])
  BY <1>1, FetchingIsObservable
<1>3. \A d \in Deps[n] : v[d] = {} \/ w[d] = v[d]
  OBVIOUS
<1>4. KeepsResolved(n, v, w, x)
  <2> HIDE DEF v, w
  <2> QED
    BY <1>2, <1>3 DEF MonotoneExpressions, Keeps
<1>5. /\ ContextOf(n, {}, old, x) = ContextOf(n, {}, v, x)
      /\ ContextOf(n, {}, new, x) = ContextOf(n, {}, w, x)
  BY ContextOfDeps
<1>6. /\ EvalIdentity(n, ContextOf(n, {}, old, x)) = "ok" =>
            EvalIdentity(n, ContextOf(n, {}, new, x)) = "ok"
      /\ EvalTemplate(n, ContextOf(n, {}, old, x)) = "ok" =>
            EvalTemplate(n, ContextOf(n, {}, new, x)) = "ok"
  <2> HIDE DEF v, w
  <2> QED
    BY <1>4, <1>5 DEF KeepsResolved
<1>7. \A d \in Deps[n] : SelectionReady(d, old) => SelectionReady(d, new)
  BY DEF SelectionReady
<1> QED
  BY <1>6, <1>7 DEF Selects

(* Values that are all true make a node ready.                             *)
LEMMA TrueMeansReady ==
    ASSUME NEW vals, \A i \in DOMAIN vals : vals[i] = "true"
    PROVE  Readiness(vals) = "ready"
  BY DEF Readiness, FirstNotTrue

(* The dependencies of an external collection are asked for their          *)
(* readiness alone.                                                        *)
LEMMA PlainDependencies ==
    ASSUME PlainSelection, NEW n \in Nodes, Kind[n] = "externalCollection", NEW d \in Deps[n]
    PROVE  d \in Nodes /\ CheckReadiness(d) = checkObservedReadiness(d)
<1>1. d \in Nodes /\ Upstream[d] \subseteq Upstream[n] \ {n}
  BY UpstreamFacts, UpstreamUnfolds, RuntimeAssumption
<1>2. \A a \in Upstream[d] : OwnInclusion(a) = {"included"}
  BY <1>1 DEF PlainSelection, OwnInclusion
<1>3. IsIgnored(d) = {"included"}
  BY <1>2 DEF IsIgnored, Included
<1> QED
  BY <1>1, <1>3 DEF CheckReadiness

(* While nothing managed is known, readiness is that of the closed form.   *)
LEMMA ReadyWhileSelecting ==
    ASSUME PlainSelection, observed \in Fetchings, \A m \in computed : ~Managed(m),
           NEW d \in Nodes
    PROVE  "ready" \in checkObservedReadiness(d) <=> SelectionReady(d, observed)
<1>0. /\ observed[d] = {} \/ (External(d) /\ observed[d] = ExternalPool[d])
      /\ Len(ReadyWhen[d]) \in Nat /\ Kind[d] \in Kinds
  BY FetchingIs, RuntimeAssumption
<1>1. CASE Kind[d] = "resource"
  <2>1. observed[d] = {}
    BY <1>0, <1>1 DEF External
  <2> QED
    BY <1>1, <2>1 DEF checkObservedReadiness, ManyObjects, checkSingleResourceReadiness,
                      SelectionReady
<1>2. CASE Kind[d] = "collection"
  <2>1. d \notin computed
    BY <1>2 DEF Managed
  <2> QED
    BY <1>2, <2>1 DEF checkObservedReadiness, ManyObjects, checkCollectionReadiness,
                      SelectionReady
<1>3. CASE Kind[d] = "external"
  <2> DEFINE vals == [i \in 1..Len(ReadyWhen[d]) |->
                         evalBoolExpr(ReadyWhen[d][i], [c \in {d} |-> observed[d]])]
  <2>1. checkObservedReadiness(d) = IF observed[d] = {} THEN {"waiting"} ELSE {Readiness(vals)}
    BY <1>3 DEF checkObservedReadiness, ManyObjects, checkSingleResourceReadiness
  <2>2. Len(vals) = Len(ReadyWhen[d]) /\ DOMAIN vals = 1..Len(ReadyWhen[d])
    BY <1>0
  <2>3. Readiness(vals) = "ready" <=> \A i \in 1..Len(ReadyWhen[d]) : vals[i] = "true"
    <3> HIDE DEF vals
    <3> QED
      BY <1>0, <2>2, ReadyMeansTrue, TrueMeansReady
  <2>4. SelectionReady(d, observed) <=> observed[d] # {} /\ \A i \in 1..Len(ReadyWhen[d]) : vals[i] = "true"
    BY <1>3 DEF SelectionReady
  <2> HIDE DEF vals
  <2> QED
    BY <2>1, <2>3, <2>4
<1>4. CASE Kind[d] = "externalCollection"
  <2>1. SelectionReady(d, observed)
    BY <1>4 DEF SelectionReady
  <2>2. checkObservedReadiness(d) = checkCollectionReadiness(d)
    BY <1>4 DEF checkObservedReadiness, ManyObjects
  <2>3. ASSUME observed[d] = ExternalPool[d]
        PROVE  EachReadiness(d) = {"ready"}
    <3> DEFINE value(e, o) == LET v == EvalBool(e, [c \in {"each"} |-> {o}])
                              IN  IF v \in {"true", "false", "pending"} THEN v ELSE "error"
               vals(o) == [i \in 1..Len(ReadyWhen[d]) |-> value(ReadyWhen[d][i], o)]
    <3>1. ASSUME NEW o \in observed[d] PROVE Readiness(vals(o)) = "ready"
      <4>1. \A i \in 1..Len(ReadyWhen[d]) : EvalBool(ReadyWhen[d][i], [c \in {"each"} |-> {o}]) = "true"
        BY <1>4, <2>3, <3>1 DEF PlainSelection
      <4>2. \A i \in DOMAIN vals(o) : vals(o)[i] = "true"
        BY <4>1
      <4> HIDE DEF vals
      <4> QED
        BY <4>2, TrueMeansReady
    <3> QED
      BY <3>1 DEF EachReadiness
  <2> QED
    BY <1>0, <1>4, <2>1, <2>2, <2>3 DEF checkCollectionReadiness
<1> QED
  BY <1>0, <1>1, <1>2, <1>3, <1>4 DEF Kinds

(* The answers of an external collection say whether it is selected.       *)
LEMMA SelectorAnswers ==
    ASSUME PlainSelection, observed \in Fetchings, \A m \in computed : ~Managed(m),
           NEW n \in Nodes, Kind[n] = "externalCollection", NEW r \in GetDesired(n)
    PROVE  r.out = "ok" <=> Selects(n, observed, xr)
<1>1. PICK g \in ResolveGate(n) :
             r = IF g = "ready" THEN Resolution(n) ELSE [out |-> g, items |-> {}]
  BY DEF GetDesired
<1>2. \A d \in Deps[n] : /\ CheckReadiness(d) \subseteq {"ready", "waiting", "error"}
                         /\ "ready" \in CheckReadiness(d) => CheckReadiness(d) = {"ready"}
                         /\ "ready" \in CheckReadiness(d) <=> SelectionReady(d, observed)
  BY PlainDependencies, ReadinessValues, ReadyWhileSelecting
<1>3. /\ "ready" \in ResolveGate(n) <=> \A d \in Deps[n] : SelectionReady(d, observed)
      /\ (\A d \in Deps[n] : SelectionReady(d, observed)) => ResolveGate(n) = {"ready"}
      /\ ResolveGate(n) \subseteq {"ready", "pending", "error"}
  BY <1>2 DEF ResolveGate
<1>4. Resolution(n).out = "ok" <=> EvalTemplate(n, ContextOf(n, {}, observed, xr)) = "ok"
  <2>1. Resolution(n).out = Outcome(EvalTemplate(n, ContextOf(n, {}, observed, xr)))
    BY ContextOfDeps DEF Resolution
  <2> QED
    BY <2>1 DEF Outcome
<1>5. Selects(n, observed, xr) <=> /\ \A d \in Deps[n] : SelectionReady(d, observed)
                                   /\ EvalTemplate(n, ContextOf(n, {}, observed, xr)) = "ok"
  BY DEF Selects
<1>6. CASE g = "ready"
  BY <1>1, <1>3, <1>4, <1>5, <1>6
<1>7. CASE g # "ready"
  BY <1>1, <1>3, <1>5, <1>7
<1> QED
  BY <1>6, <1>7

(* The request determines what can be fetched.                             *)
LEMMA FetchedIsFetching ==
    ASSUME TypeOK, \A n \in Nodes : req.required[n] \in {{}, ExternalPool[n]}
    PROVE  Fetched \in Fetchings
<1>1. Fetched = [n \in Nodes |-> Fetched[n]]
  BY DEF Fetched
<1>2. \A n \in Nodes : Fetched[n] = {} \/ (External(n) /\ Fetched[n] = ExternalPool[n])
  BY DEF Fetched
<1> QED
  BY <1>1, <1>2, FetchingIs

(* The loop over the external nodes, one node.                             *)
LEMMA SelectExternalStep ==
    ASSUME PlainSelection, CallInv, SelectInv, Fetched \in Fetchings,
           NEW n \in Nodes, SelectExternal(n)
    PROVE  SelectInv'
<1>1. /\ phase = "selectors" /\ idx <= Len(Order) /\ n = Order[idx]
      /\ xr' = xr /\ req' = req /\ observed' = observed
  BY DEF SelectExternal
<1>2. /\ idx \in Nat /\ idx >= 1 /\ Len(Order) \in Nat /\ rsp \in Responses
      /\ selectors \subseteq Nodes
      /\ \A i, j \in 1..Len(Order) : Order[i] = Order[j] => i = j
  BY FunctionAssumption DEF CallInv, TypeOK, Responses
<1>3. /\ xr = req.xr /\ rsp.requirements = {SchemaReq} /\ observed = Fetched
      /\ \A i \in 1..(idx - 1) : Order[i] \in selectors <=> Selects(Order[i], Fetched, xr)
      /\ \A m \in selectors : \E i \in 1..(idx - 1) : Order[i] = m
      /\ \A m \in computed : ~Managed(m)
      /\ rsp.result = "running"
  BY <1>1 DEF SelectInv, CallInv, RenderInv
<1>4. Fetched' = Fetched
  BY <1>1 DEF Fetched
<1>5. n \notin selectors
  <2> SUFFICES ASSUME n \in selectors PROVE FALSE
    OBVIOUS
  <2>1. PICK i \in 1..(idx - 1) : Order[i] = n
    BY <1>3
  <2> QED
    BY <1>1, <1>2, <2>1
<1>6. CASE phase' = "done" /\ rsp' = [rsp EXCEPT !.result = "fatal"]
  <2>1. rsp'.result = "fatal"
    BY <1>2, <1>6 DEF Responses
  <2> QED
    BY <1>1, <1>3, <1>6, <2>1 DEF SelectInv
<1>7. ASSUME phase' = phase, rsp' = rsp, idx' = idx + 1,
             selectors' = IF Selects(n, Fetched, xr) THEN selectors \cup {n} ELSE selectors
      PROVE  SelectInv'
  <2>1. ASSUME NEW i \in 1..idx
        PROVE  Order[i] \in selectors' <=> Selects(Order[i], Fetched, xr)
    <3>1. CASE i = idx
      BY <1>1, <1>5, <1>7, <3>1
    <3>2. CASE i # idx
      <4>1. i \in 1..(idx - 1) /\ i \in 1..Len(Order) /\ idx \in 1..Len(Order)
        BY <1>1, <1>2, <3>2
      <4>2. Order[i] # n
        BY <1>1, <1>2, <3>2, <4>1
      <4> QED
        BY <1>3, <1>7, <4>1, <4>2
    <3> QED
      BY <3>1, <3>2
  <2>2. ASSUME NEW m \in selectors'
        PROVE  \E i \in 1..idx : Order[i] = m
    <3>1. CASE m \in selectors
      <4>1. PICK i \in 1..(idx - 1) : Order[i] = m
        BY <1>3, <3>1
      <4> QED
        BY <1>2, <4>1
    <3>2. CASE m = n
      BY <1>1, <1>2, <3>2
    <3> QED
      BY <1>7, <3>1, <3>2
  <2>3. idx' - 1 = idx
    BY <1>2, <1>7
  <2> QED
    BY <1>1, <1>3, <1>4, <1>7, <2>1, <2>2, <2>3 DEF SelectInv
<1>8. CASE Managed(n) /\ idx' = idx + 1 /\ UNCHANGED <<selectors, computed, phase, rsp>>
  <2>1. ~Selects(n, Fetched, xr)
    BY <1>8 DEF Managed, Selects
  <2> QED
    BY <1>7, <1>8, <2>1
<1>9. CASE Kind[n] = "external" /\ GetDesiredIdentity(n) # "error"
  <2>1. GetDesiredIdentity(n) = "ok" <=> Selects(n, Fetched, xr)
    <3>1. GetDesiredIdentity(n) = Outcome(EvalIdentity(n, ContextOf(n, {}, Fetched, xr)))
      BY <1>3, ContextOfDeps DEF GetDesiredIdentity
    <3> QED
      BY <1>9, <3>1 DEF Outcome, Selects
  <2>2. /\ selectors' = IF GetDesiredIdentity(n) = "ok"
                        THEN selectors \cup {n} ELSE selectors
        /\ idx' = idx + 1
        /\ UNCHANGED <<computed, phase, rsp>>
    BY <1>9 DEF SelectExternal, Managed, externalCollectionSelector
  <2> QED
    BY <1>7, <2>1, <2>2
<1>10. CASE externalCollectionSelector(n)
  <2>1. PICK r \in GetDesired(n) :
          \/ phase' = "done" /\ rsp' = [rsp EXCEPT !.result = "fatal"]
          \/ /\ r.out = "pending" /\ idx' = idx + 1
             /\ UNCHANGED <<selectors, phase, rsp>>
          \/ /\ r.out = "ok" /\ selectors' = selectors \cup {n}
             /\ idx' = idx + 1 /\ UNCHANGED <<phase, rsp>>
    BY <1>10 DEF externalCollectionSelector, Fatal
  <2>2. r.out = "ok" <=> Selects(n, Fetched, xr)
    BY <1>3, <1>10, SelectorAnswers DEF externalCollectionSelector
  <2> QED
    BY <1>6, <1>7, <2>1, <2>2
<1> QED
  BY <1>6, <1>8, <1>9, <1>10 DEF SelectExternal, Fatal

(* A call requires the schemas and what is selected by its request.        *)
LEMMA SelectStep ==
    ASSUME PlainSelection, CallInv, SelectInv, Fetched \in Fetchings, [RunFunction]_vars
    PROVE  SelectInv'
<1>0. /\ rsp \in Responses /\ idx \in Nat /\ Len(Order) \in Nat
      /\ phase # "done" => rsp.result = "running"
  BY FunctionAssumption DEF CallInv, TypeOK, Responses, RenderInv
<1>1. CASE ResolveSchemas
  <2>1. /\ phase = "schemas" /\ UNCHANGED <<xr, req, idx, selectors, observed>>
        /\ \/ phase' = "done" /\ rsp'.result # "ok"
           \/ phase' = "externals" /\ rsp'.result # "ok" /\ rsp'.requirements = {SchemaReq}
    BY <1>0, <1>1 DEF ResolveSchemas, runtimeVars, Responses
  <2> QED
    BY <2>1 DEF SelectInv
<1>2. CASE ObserveExternals
  <2>1. /\ phase = "externals" /\ phase' = "selectors" /\ UNCHANGED <<xr, req, idx, selectors, rsp>>
        /\ observed' = Fetched /\ Fetched' = Fetched
    BY <1>2 DEF ObserveExternals, Fetched
  <2>2. idx' = 1 /\ selectors' = {} /\ rsp'.result # "ok"
    BY <1>0, <2>1 DEF SelectInv
  <2>3. \A i \in 1..(idx' - 1) : FALSE
    BY <2>2
  <2> QED
    BY <2>1, <2>2, <2>3 DEF SelectInv
<1>3. CASE \E n \in Nodes : SelectExternal(n)
  BY <1>3, SelectExternalStep
<1>4. CASE ObserveComposed
  <2>1. /\ phase = "selectors" /\ idx > Len(Order) /\ phase' = "build"
        /\ rsp' = [rsp EXCEPT !.requirements = rsp.requirements \cup selectors]
        /\ observed' = [n \in Nodes |-> IF GroupObserved(n) = {} THEN observed[n]
                                        ELSE SetObserved(n, GroupObserved(n))]
        /\ UNCHANGED <<xr, req, selectors>>
    BY <1>4 DEF ObserveComposed
  <2>2. rsp'.requirements = {SchemaReq} \cup selectors
    BY <1>0, <2>1 DEF SelectInv, Responses
  <2>3. selectors = {n \in Nodes : Selects(n, Fetched, xr)}
    <3>1. selectors \subseteq Nodes
      BY DEF CallInv, TypeOK
    <3>2. ASSUME NEW n \in Nodes PROVE n \in selectors <=> Selects(n, Fetched, xr)
      <4>1. PICK i \in 1..Len(Order) : Order[i] = n
        BY FunctionAssumption
      <4>2. i \in 1..(idx - 1)
        BY <1>0, <2>1, <4>1
      <4> QED
        BY <2>1, <4>1, <4>2 DEF SelectInv
    <3> QED
      BY <3>1, <3>2
  <2>4. ASSUME NEW n \in Nodes, External(n) PROVE observed'[n] = req.required[n]
    <3>1. GroupObserved(n) = {}
      BY <2>4, TwoKinds DEF GroupObserved, ManagedKeys
    <3> QED
      BY <2>1, <2>4, <3>1 DEF SelectInv, Fetched
  <2>5. Fetched' = Fetched
    BY <2>1 DEF Fetched
  <2> QED
    BY <2>1, <2>2, <2>3, <2>4, <2>5 DEF SelectInv, Selection
<1>5. CASE \E n \in Nodes : BuildNode(n)
  <2>1. /\ phase = "build" /\ UNCHANGED <<xr, req, observed>>
        /\ \/ phase' = "build" /\ rsp' = rsp
           \/ phase' = "done" /\ rsp' = [rsp EXCEPT !.result = "fatal"]
    BY <1>5 DEF BuildNode, SkipNode, Fatal, AddDesired
  <2>2. rsp'.result # "ok" /\ rsp'.requirements = rsp.requirements /\ Fetched' = Fetched
    BY <1>0, <2>1 DEF Responses, Fetched
  <2> QED
    BY <2>1, <2>2 DEF SelectInv
<1>6. CASE SetDesiredComposed \/ SetDesiredStatus
  <2>1. /\ phase \in {"build", "status"} /\ phase' \in {"status", "done"} /\ UNCHANGED <<xr, req, observed>>
        /\ rsp'.requirements = rsp.requirements /\ Fetched' = Fetched
    BY <1>0, <1>6 DEF SetDesiredComposed, SetDesiredStatus, runtimeVars, Responses, Fetched
  <2> QED
    BY <2>1 DEF SelectInv
<1>7. CASE UNCHANGED vars
  BY <1>7 DEF vars, runtimeVars, SelectInv, Fetched
<1> QED
  BY <1>1, <1>2, <1>3, <1>4, <1>5, <1>6, <1>7 DEF RunFunction

----
(* The rounds of a reconcile                                               *)

(* A call that starts has selected nothing yet.                            *)
LEMMA SelectStarts ==
    ASSUME NEW r \in Requests, Call(r)
    PROVE  SelectInv' /\ rsp'.result = "running" /\ phase' = "schemas" /\ req' = r
<1>1. /\ req' = r /\ xr' = r.xr /\ phase' = "schemas" /\ idx' = 1
      /\ selectors' = {} /\ rsp' = NewResponse
  BY DEF Call
<1>2. rsp'.result = "running"
  BY <1>1 DEF NewResponse
<1> QED
  BY <1>1, <1>2 DEF SelectInv

(* A response says how the call ended.                                     *)
LEMMA DoneHasResult ==
    ASSUME CallInv, RunFunction
    PROVE  phase' = "done" => rsp'.result # "running"
<1>0. rsp \in Responses
  BY DEF CallInv, TypeOK, Responses
<1>1. CASE ResolveSchemas
  BY <1>0, <1>1 DEF ResolveSchemas, Responses
<1>2. CASE \/ ObserveExternals \/ ObserveComposed \/ SetDesiredComposed
  BY <1>2 DEF ObserveExternals, ObserveComposed, SetDesiredComposed
<1>3. ASSUME NEW n \in Nodes, SelectExternal(n) \/ BuildNode(n)
      PROVE  phase' = "done" => rsp'.result # "running"
  <2>1. \/ phase' # "done"
        \/ rsp' = [rsp EXCEPT !.result = "fatal"]
    BY <1>3 DEF SelectExternal, externalCollectionSelector, BuildNode, SkipNode, AddDesired, Fatal
  <2> QED
    BY <1>0, <2>1 DEF Responses
<1>4. CASE SetDesiredStatus
  BY <1>0, <1>4 DEF SetDesiredStatus, Responses
<1> QED
  BY <1>1, <1>2, <1>3, <1>4 DEF RunFunction

(* Requirements are for schemas and external resources only.               *)
LEMMA SelectionIsExternal ==
    ASSUME NEW obs, NEW x
    PROVE  Selection(obs, x) \subseteq {SchemaReq} \cup ExternalNodes
  BY DEF Selection, Selects, ExternalNodes, External

(* Of a call that has responded, and not failed, what it requires includes *)
(* what was required before.                                               *)
LEMMA ResponseRequiresMore ==
    ASSUME MonotoneExpressions, XInv, RoundInv, Responded, rsp.result # "fatal"
    PROVE  /\ asked \subseteq rsp.requirements
           /\ SchemaReq \in rsp.requirements
           /\ rsp.requirements \subseteq {SchemaReq} \cup ExternalNodes
           /\ \/ rsp.requirements = {SchemaReq} /\ \A n \in Nodes : req.required[n] = {}
              \/ rsp.requirements = Selection(Fetched, req.xr)
<1>0. /\ busy /\ phase = "done" /\ rsp \in Responses /\ req \in Requests /\ TypeOK
      /\ rsp.result \in {"wait", "ok"}
  BY DEF Responded, XInv, CallInv, TypeOK, Responses, RoundInv, AskedIsSelected
<1>1. CASE rsp.result = "wait"
  <2>1. rsp.requirements = {SchemaReq} /\ SchemaReq \notin asked
    BY <1>0, <1>1 DEF XInv, WaitsUnanswered
  <2>2. asked = {}
    BY <1>0, <2>1 DEF RoundInv, AskedIsSelected
  <2> QED
    BY <1>0, <2>1, <2>2 DEF RoundInv, RequestsAreTrue
<1>2. CASE rsp.result = "ok"
  <2>1. rsp.requirements = Selection(Fetched, req.xr)
    BY <1>2 DEF RoundInv, SelectInv
  <2>2. Fetched \in Fetchings /\ req.xr \in Specs
    BY <1>0, FetchedIsFetching DEF RoundInv, RequestsAreTrue, Requests
  <2>3. ASSUME asked # {} PROVE asked \subseteq Selection(Fetched, req.xr)
    <3>1. PICK old \in Fetchings : Extends(old, Fetched) /\ asked \subseteq Selection(old, req.xr)
      BY <1>0, <2>3 DEF RoundInv, AskedIsSelected
    <3>2. Selection(old, req.xr) \subseteq Selection(Fetched, req.xr)
      <4>1. ASSUME NEW n \in Nodes, Selects(n, old, req.xr)
            PROVE  Selects(n, Fetched, req.xr)
        <5>1. \A d \in Deps[n] : old[d] = {} \/ Fetched[d] = old[d]
          BY <3>1, RuntimeAssumption DEF Extends
        <5> QED
          BY <2>2, <4>1, <5>1, SelectionGrows
      <4> QED
        BY <4>1 DEF Selection
    <3> QED
      BY <3>1, <3>2
  <2>4. Selection(Fetched, req.xr) \subseteq {SchemaReq} \cup ExternalNodes
    BY SelectionIsExternal
  <2>5. SchemaReq \in Selection(Fetched, req.xr)
    BY DEF Selection
  <2> QED
    BY <2>1, <2>3, <2>4, <2>5
<1> QED
  BY <1>0, <1>1, <1>2

(* There are finitely many requirements.                                   *)
LEMMA FiniteRequirements ==
    /\ IsFiniteSet(ExternalNodes)
    /\ IsFiniteSet({SchemaReq} \cup ExternalNodes)
    /\ Cardinality({SchemaReq} \cup ExternalNodes) = Cardinality(ExternalNodes) + 1
    /\ Cardinality(ExternalNodes) \in Nat
<1>1. IsFiniteSet(ExternalNodes)
  BY FS_Subset, RuntimeAssumption DEF ExternalNodes
<1>2. SchemaReq \notin ExternalNodes
  BY FunctionAssumption DEF ExternalNodes
<1>3. {SchemaReq} \cup ExternalNodes = ExternalNodes \cup {SchemaReq}
  OBVIOUS
<1> QED
  BY <1>1, <1>2, <1>3, FS_AddElement, FS_CardinalityType

(* A strictly larger finite set has at least one element more.             *)
LEMMA StrictlyMore ==
    ASSUME NEW T, IsFiniteSet(T), NEW S, S \subseteq T, S # T
    PROVE  /\ Cardinality(S) \in Nat /\ Cardinality(T) \in Nat
           /\ Cardinality(S) + 1 <= Cardinality(T)
<1>1. PICK x \in T : x \notin S
  OBVIOUS
<1>2. IsFiniteSet(S) /\ Cardinality(S) \in Nat /\ Cardinality(T) \in Nat
  BY FS_Subset, FS_CardinalityType
<1>3. IsFiniteSet(S \cup {x}) /\ Cardinality(S \cup {x}) = Cardinality(S) + 1
  BY <1>1, <1>2, FS_AddElement
<1>4. S \cup {x} \subseteq T
  BY <1>1
<1>5. Cardinality(S \cup {x}) <= Cardinality(T)
  BY <1>4, FS_Subset
<1> QED
  BY <1>2, <1>3, <1>5

(* The next round: the snapshot of the instance stays, and what was        *)
(* fetched before is fetched again.                                        *)
LEMMA CallAgainRound ==
    ASSUME MonotoneExpressions, XInv, RoundInv, CallAgain
    PROVE  RoundInv' /\ asked \subseteq asked'
<1> DEFINE r == [req EXCEPT !.required = [n \in Nodes |-> IF n \in rsp.requirements
                                                          THEN outside[n] ELSE {}],
                            !.schemas = IF SchemaReq \in rsp.requirements
                                        THEN "usable" ELSE "none"]
<1>1. /\ asked' = rsp.requirements /\ round' = round + 1 /\ Call(r)
      /\ Responded /\ rsp.result # "fatal" /\ rsp.requirements # asked
      /\ UNCHANGED <<outside, busy>> /\ busy
  BY DEF CallAgain, envVars, Responded, Stable
<1>2. /\ req \in Requests /\ rsp \in Responses /\ outside \in [Nodes -> SUBSET Objects]
      /\ round \in Nat /\ TypeOK
  BY DEF XInv, CallInv, TypeOK, XTypeOK, Responses
<1>3. /\ r \in Requests /\ r.xr = req.xr
      /\ \A n \in Nodes : r.required[n] = IF n \in rsp.requirements THEN outside[n] ELSE {}
  BY <1>2 DEF Requests
<1>4. /\ asked \subseteq rsp.requirements
      /\ SchemaReq \in rsp.requirements
      /\ rsp.requirements \subseteq {SchemaReq} \cup ExternalNodes
      /\ \/ rsp.requirements = {SchemaReq} /\ \A n \in Nodes : req.required[n] = {}
         \/ rsp.requirements = Selection(Fetched, req.xr)
  BY <1>1, ResponseRequiresMore
<1>5. /\ SelectInv' /\ rsp'.result = "running" /\ phase' = "schemas"
      /\ req'.xr = req.xr
      /\ \A n \in Nodes : req'.required[n] = IF n \in rsp.requirements THEN outside[n] ELSE {}
  <2> HIDE DEF r
  <2> QED
    BY <1>1, <1>3, SelectStarts
<1>6. RequestsAreTrue'
  BY <1>1, <1>5 DEF RoundInv, RequestsAreTrue
<1>7. Fetched \in Fetchings
  BY <1>2, FetchedIsFetching DEF RoundInv, RequestsAreTrue
<1>8. Extends(Fetched, Fetched')
  <2> SUFFICES ASSUME NEW n \in Nodes, Fetched[n] # {} PROVE Fetched'[n] = Fetched[n]
    BY DEF Extends
  <2>1. External(n) /\ Fetched[n] = req.required[n] /\ req.required[n] # {}
    BY DEF Fetched
  <2>2. n \in asked /\ outside[n] = req.required[n]
    BY <1>1, <2>1 DEF RoundInv, RequestsAreTrue
  <2>3. req'.required[n] = req.required[n]
    BY <1>4, <1>5, <2>2
  <2>4. Fetched'[n] = req'.required[n]
    BY <2>1 DEF Fetched
  <2> QED
    BY <2>1, <2>3, <2>4
<1>9. \E old \in Fetchings : Extends(old, Fetched') /\ rsp.requirements \subseteq Selection(old, req.xr)
  <2>1. rsp.requirements \subseteq Selection(Fetched, req.xr)
    BY <1>4 DEF Selection
  <2> QED
    BY <1>7, <1>8, <2>1
<1>10. AskedIsSelected'
  BY <1>1, <1>2, <1>4, <1>5, <1>9 DEF AskedIsSelected
<1>11. RoundsAreCounted'
  <2>1. IsFiniteSet(rsp.requirements)
    BY <1>4, FiniteRequirements, FS_Subset
  <2>2. Cardinality(asked) \in Nat /\ Cardinality(rsp.requirements) \in Nat
        /\ Cardinality(asked) + 1 <= Cardinality(rsp.requirements)
    BY <1>1, <1>4, <2>1, StrictlyMore
  <2>3. round <= Cardinality(asked) + 1
    BY <1>1 DEF RoundInv, RoundsAreCounted
  <2>4. round' <= Cardinality(asked') + 1
    BY <1>1, <1>2, <2>2, <2>3
  <2> QED
    BY <1>1, <1>4, <2>4 DEF RoundsAreCounted
<1> QED
  BY <1>1, <1>4, <1>5, <1>6, <1>10, <1>11 DEF RoundInv

(* At the start nothing has been required or selected.                     *)
LEMMA RoundInit == XInit => RoundInv
<1> SUFFICES ASSUME XInit PROVE RoundInv
  OBVIOUS
<1>1. /\ req = Idle /\ xr = spec /\ phase = "done" /\ rsp = NewResponse
      /\ busy = FALSE /\ asked = {} /\ outside = NoRequired
  BY DEF XInit
<1>2. rsp.result = "running" /\ req.xr = xr /\ req.required = NoRequired
  BY <1>1 DEF NewResponse, Idle
<1>3. SelectInv
  BY <1>1, <1>2 DEF SelectInv
<1>4. ~busy
  BY <1>1
<1>5. RequestsAreTrue
  BY <1>1, <1>2, <1>4 DEF RequestsAreTrue, NoRequired
<1>6. AskedIsSelected /\ RoundsAreCounted
  BY <1>1, <1>4 DEF AskedIsSelected, RoundsAreCounted
<1> QED
  BY <1>3, <1>5, <1>6 DEF RoundInv

(* A reconcile starts with an empty request: nothing required, the first   *)
(* round.                                                                  *)
LEMMA StartRound ==
    ASSUME XInv, RoundInv, StartReconcile
    PROVE  RoundInv'
<1> DEFINE r == [xr |-> spec, composed |-> cluster, required |-> NoRequired,
                 schemas |-> "none"]
<1>1. asked' = {} /\ round' = 1 /\ Call(r) /\ outside' = outside
  BY DEF StartReconcile, envVars
<1>2. r \in Requests /\ r.required = NoRequired
  BY DEF XInv, XTypeOK, Requests, NoRequired
<1>3. SelectInv' /\ phase' = "schemas" /\ req'.required = NoRequired
  <2> HIDE DEF r
  <2> QED
    BY <1>1, <1>2, SelectStarts
<1>4. RequestsAreTrue'
  BY <1>1, <1>3 DEF RoundInv, RequestsAreTrue, NoRequired
<1>5. AskedIsSelected' /\ RoundsAreCounted'
  <2>1. Cardinality({}) = 0
    BY FS_EmptySet
  <2>2. round' <= Cardinality(asked') + 1
    BY <1>1, <2>1
  <2> QED
    BY <1>1, <1>3, <2>2 DEF AskedIsSelected, RoundsAreCounted
<1> QED
  BY <1>3, <1>4, <1>5 DEF RoundInv

(* A phase of the call changes neither the request nor what was required   *)
(* before it.                                                              *)
LEMMA FunctionRound ==
    ASSUME PlainSelection, XInv, RoundInv, FunctionStep
    PROVE  RoundInv'
<1>1. RunFunction /\ UNCHANGED <<outside, busy, asked, round>>
  BY DEF FunctionStep, envVars, reconcileVars
<1>2. CallInv /\ TypeOK /\ req' = req
  BY <1>1, RequestIsKept DEF XInv, CallInv
<1>3. Fetched \in Fetchings /\ Fetched' = Fetched
  BY <1>2, FetchedIsFetching DEF RoundInv, RequestsAreTrue, Fetched
<1>4. SelectInv'
  BY <1>1, <1>2, <1>3, SelectStep DEF RoundInv
<1>5. phase' = "done" => rsp'.result # "running"
  BY <1>1, <1>2, DoneHasResult
<1>6. RequestsAreTrue' /\ AskedIsSelected' /\ RoundsAreCounted'
  BY <1>1, <1>2, <1>3, <1>5
     DEF RoundInv, RequestsAreTrue, AskedIsSelected, RoundsAreCounted
<1> QED
  BY <1>4, <1>6 DEF RoundInv

(* What happens beside the rounds, to the cluster, the spec or outside,    *)
(* leaves what the running reconcile was given as it is.                   *)
LEMMA BesideTheRound ==
    ASSUME XInv, RoundInv, UNCHANGED callVars, UNCHANGED <<asked, round>>,
           busy' => busy,
           \/ outside' = outside
           \/ \E n \in Nodes : outside' = [outside EXCEPT ![n] = ExternalPool[n]]
    PROVE  RoundInv'
<1>1. UNCHANGED <<xr, observed, req, phase, idx, selectors, rsp>>
  BY DEF callVars, runtimeVars
<1>2. Fetched' = Fetched
  BY <1>1 DEF Fetched
<1>3. SelectInv'
  BY <1>1, <1>2 DEF RoundInv, SelectInv
<1>4. RequestsAreTrue'
  <2>1. \A n \in Nodes : outside'[n] = outside[n] \/ outside'[n] = ExternalPool[n]
    BY DEF XInv, XTypeOK
  <2> QED
    BY <1>1, <2>1 DEF RoundInv, RequestsAreTrue
<1>5. AskedIsSelected' /\ RoundsAreCounted'
  BY <1>1, <1>2 DEF RoundInv, AskedIsSelected, RoundsAreCounted
<1> QED
  BY <1>3, <1>4, <1>5 DEF RoundInv

(* Every step keeps the invariant of the rounds, and the next call of a    *)
(* reconcile is asked for more.                                            *)
LEMMA RoundStep ==
    ASSUME MonotoneExpressions, PlainSelection, XInv, RoundInv, [XNext]_allVars
    PROVE  RoundInv' /\ (round' = round + 1 => asked \subseteq asked')
<1>0. round \in Nat
  BY DEF XInv, XTypeOK
<1>1. CASE StartReconcile
  <2>1. round' = 1 /\ asked' = {}
    BY <1>1 DEF StartReconcile
  <2>2. round = 0 => asked = {}
    BY DEF RoundInv, AskedIsSelected
  <2> QED
    BY <1>0, <1>1, <2>1, <2>2, StartRound
<1>2. CASE FunctionStep
  <2>1. asked' = asked
    BY <1>2 DEF FunctionStep, reconcileVars
  <2> QED
    BY <1>2, <2>1, FunctionRound
<1>3. CASE CallAgain
  BY <1>3, CallAgainRound
<1>4. CASE \/ Abandon \/ Apply
           \/ \E k \in ManagedKeys : Progress(k) \/ Regress(k)
           \/ \E n \in Nodes : ExternalAppears(n)
           \/ \E s \in Specs : ChangeSpec(s)
           \/ UNCHANGED allVars
  <2>1. /\ UNCHANGED callVars /\ UNCHANGED <<asked, round>> /\ (busy' => busy)
        /\ \/ outside' = outside
           \/ \E n \in Nodes : outside' = [outside EXCEPT ![n] = ExternalPool[n]]
    <3>1. CASE Abandon \/ Apply
      BY <3>1 DEF Abandon, Apply, envVars
    <3>2. CASE \E k \in ManagedKeys : Progress(k) \/ Regress(k)
      BY <3>2 DEF Progress, Regress, reconcileVars
    <3>3. ASSUME NEW n \in Nodes, ExternalAppears(n)
          PROVE  /\ UNCHANGED callVars /\ UNCHANGED <<busy, asked, round>>
                 /\ outside' = [outside EXCEPT ![n] = ExternalPool[n]]
      BY <3>3 DEF ExternalAppears, reconcileVars
    <3>4. CASE \E s \in Specs : ChangeSpec(s)
      BY <3>4 DEF ChangeSpec, reconcileVars
    <3>5. CASE UNCHANGED allVars
      BY <3>5 DEF allVars, envVars, reconcileVars
    <3> QED
      BY <1>4, <3>1, <3>2, <3>3, <3>4, <3>5
  <2>2. RoundInv'
    BY <2>1, BesideTheRound
  <2> QED
    BY <2>1, <2>2
<1> QED
  BY <1>1, <1>2, <1>3, <1>4 DEF XNext, Reconcile

(* The invariant of the rounds, for expressions that keep their values     *)
(* when more is known.                                                     *)
THEOREM RoundInvariant ==
    ASSUME MonotoneExpressions, PlainSelection
    PROVE  XSpec => [](XInv /\ RoundInv)
<1>1. XInit => XInv /\ RoundInv
  BY XInitInv, RoundInit
<1>2. XInv /\ RoundInv /\ [XNext]_allVars => XInv' /\ RoundInv'
  BY XStepInv, RoundStep
<1> QED
  BY <1>1, <1>2, PTL DEF XSpec

(* "so our requirements are stable": each response requires at least what  *)
(* the one before it did, whatever appears outside between the calls.      *)
THEOREM RequirementsOnlyGrow ==
    ASSUME MonotoneExpressions, PlainSelection
    PROVE  XSpec => RequirementsGrow
<1>1. XInv /\ RoundInv /\ [XNext]_allVars =>
          [round' = round + 1 => asked \subseteq asked']_allVars
  BY RoundStep
<1> QED
  BY <1>1, RoundInvariant, PTL DEF XSpec, RequirementsGrow

----
(* Calls that do not fail                                                  *)

(* Values that are decided or pending are no error.                        *)
LEMMA DecidedIsNoError ==
    ASSUME NEW vals, Len(vals) \in Nat, DOMAIN vals = 1..Len(vals),
           \A i \in DOMAIN vals : vals[i] \in Decided
    PROVE  Readiness(vals) # "error"
<1>1. CASE \A i \in DOMAIN vals : vals[i] = "true"
  BY <1>1, TrueMeansReady
<1>2. CASE \E i \in DOMAIN vals : vals[i] # "true"
  <2>1. FirstNotTrue(vals) \in DOMAIN vals
    BY <1>2, FirstNotTrueIsFirst
  <2>2. vals[FirstNotTrue(vals)] # "error"
    BY <2>1 DEF Decided
  <2> QED
    BY <2>2 DEF Readiness
<1> QED
  BY <1>1, <1>2

(* What is observed can be observed.                                       *)
LEMMA ObservedIsObservable ==
    ASSUME \A n \in Nodes : observed[n] \in Views(n), NEW S \in SUBSET Nodes
    PROVE  [d \in S |-> observed[d]] \in Observations(S)
  BY DEF Observations

(* Readiness is never an error.                                            *)
LEMMA ReadinessNoError ==
    ASSUME ErrorFree, \A m \in Nodes : observed[m] \in Views(m), NEW n \in Nodes
    PROVE  "error" \notin checkObservedReadiness(n)
<1>0. Len(ReadyWhen[n]) \in Nat /\ observed[n] \in Views(n)
  BY RuntimeAssumption
<1>1. CASE ~ManyObjects(n)
  <2> DEFINE vals == [i \in 1..Len(ReadyWhen[n]) |->
                         evalBoolExpr(ReadyWhen[n][i], [d \in {n} |-> observed[n]])]
  <2>1. checkObservedReadiness(n) = IF observed[n] = {} THEN {"waiting"} ELSE {Readiness(vals)}
    BY <1>1 DEF checkObservedReadiness, checkSingleResourceReadiness
  <2>2. ASSUME observed[n] # {} PROVE Readiness(vals) # "error"
    <3>1. \A i \in 1..Len(ReadyWhen[n]) : vals[i] \in Decided
      BY <1>0, <1>1, <2>2 DEF ErrorFree
    <3>2. Len(vals) = Len(ReadyWhen[n]) /\ DOMAIN vals = 1..Len(ReadyWhen[n])
      BY <1>0
    <3> HIDE DEF vals
    <3> QED
      BY <1>0, <3>1, <3>2, DecidedIsNoError
  <2> HIDE DEF vals
  <2> QED
    BY <2>1, <2>2
<1>2. CASE ManyObjects(n)
  <2>1. "error" \notin EachReadiness(n)
    <3> DEFINE value(e, o) == LET v == EvalBool(e, [d \in {"each"} |-> {o}])
                              IN  IF v \in {"true", "false", "pending"} THEN v ELSE "error"
               vals(o) == [i \in 1..Len(ReadyWhen[n]) |-> value(ReadyWhen[n][i], o)]
    <3>1. ASSUME NEW o \in observed[n] PROVE Readiness(vals(o)) # "error"
      <4>1. \A i \in 1..Len(ReadyWhen[n]) : EvalBool(ReadyWhen[n][i], [d \in {"each"} |-> {o}]) \in Decided
        BY <1>0, <1>2 DEF ErrorFree
      <4>2. \A i \in 1..Len(ReadyWhen[n]) : vals(o)[i] \in Decided
        BY <4>1 DEF Decided
      <4>3. Len(vals(o)) = Len(ReadyWhen[n]) /\ DOMAIN vals(o) = 1..Len(ReadyWhen[n])
        BY <1>0
      <4> HIDE DEF vals
      <4> QED
        BY <1>0, <4>2, <4>3, DecidedIsNoError
    <3> QED
      BY <3>1 DEF EachReadiness
  <2> QED
    BY <1>2, <2>1 DEF checkObservedReadiness, checkCollectionReadiness
<1> QED
  BY <1>1, <1>2

(* Inclusion is never an error either.                                     *)
LEMMA InclusionNoError ==
    ASSUME ErrorFree, xr \in Specs, \A m \in Nodes : observed[m] \in Views(m), NEW n \in Nodes
    PROVE  "error" \notin OwnInclusion(n)
<1> DEFINE v == [d \in Deps[n] |-> observed[d]]
           ctx == buildContext(n, IncludeRefs(n))
           vals == [i \in 1..Len(IncludeWhen[n]) |-> evalBoolExpr(IncludeWhen[n][i], ctx)]
<1>1. Deps[n] \in SUBSET Nodes /\ Len(IncludeWhen[n]) \in Nat
  BY RuntimeAssumption
<1>2. v \in Observations(Deps[n])
  BY <1>1, ObservedIsObservable
<1>3. ctx = IncludeContext(n, v, xr)
  BY ContextOfDeps DEF IncludeContext
<1>4. \A i \in 1..Len(IncludeWhen[n]) :
          LET e == IncludeWhen[n][i] r == evalBoolExpr(e, IncludeContext(n, v, xr))
          IN  r \in Decided /\ (r = "pending" => Refs[e] \ {Schema} # {})
  <2> HIDE DEF v
  <2> QED
    BY <1>2 DEF ErrorFree
<1>5. \A i \in 1..Len(IncludeWhen[n]) :
          /\ vals[i] \in Decided
          /\ vals[i] = "pending" => Refs[IncludeWhen[n][i]] \ {Schema} # {}
  BY <1>3, <1>4
<1>6. Len(vals) = Len(IncludeWhen[n]) /\ DOMAIN vals = 1..Len(IncludeWhen[n])
  BY <1>1
<1>7. "error" # EvalIncludeWhen(n)
  <2> DEFINE i == FirstNotTrue(vals)
  <2>1. EvalIncludeWhen(n) =
            IF i = Len(IncludeWhen[n]) + 1 THEN "included"
            ELSE IF vals[i] = "false" THEN "ignored"
            ELSE IF vals[i] = "pending" /\ Refs[IncludeWhen[n][i]] \ {Schema} # {}
                 THEN "pending"
            ELSE "error"
    BY DEF EvalIncludeWhen, IncludeVerdict
  <2> HIDE DEF vals
  <2>2. CASE \A j \in DOMAIN vals : vals[j] = "true"
    <3>1. i = Len(IncludeWhen[n]) + 1
      BY <1>6, <2>2 DEF FirstNotTrue
    <3> QED
      BY <2>1, <3>1
  <2>3. CASE \E j \in DOMAIN vals : vals[j] # "true"
    <3>1. i \in 1..Len(IncludeWhen[n]) /\ vals[i] # "true"
      BY <1>1, <1>6, <2>3, FirstNotTrueIsFirst
    <3>2. vals[i] \in Decided /\ (vals[i] = "pending" => Refs[IncludeWhen[n][i]] \ {Schema} # {})
      BY <1>5, <3>1
    <3> HIDE DEF i
    <3> QED
      BY <2>1, <3>1, <3>2 DEF Decided
  <2> QED
    BY <2>2, <2>3
<1>8. "error" \notin IncludeGate(n)
  <2>1. IncludeRefs(n) \ {Schema} \subseteq Deps[n]
    BY DEF ErrorFree
  <2>2. \A d \in Deps[n] : "error" \notin checkObservedReadiness(d)
    BY <1>1, ReadinessNoError
  <2> QED
    BY <2>1, <2>2 DEF IncludeGate
<1> HIDE DEF v, ctx, vals
<1> QED
  BY <1>7, <1>8 DEF OwnInclusion

(* So the gate before a template never fails, and a template only because  *)
(* the collection is too large.                                            *)
LEMMA ResolutionNoError ==
    ASSUME ErrorFree, xr \in Specs, \A m \in Nodes : observed[m] \in Views(m),
           NEW n \in Nodes, NEW r \in GetDesired(n), r.out = "error"
    PROVE  TooLarge(n)
<1> DEFINE v == [d \in Deps[n] |-> observed[d]]
<1>1. Deps[n] \in SUBSET Nodes
  BY RuntimeAssumption
<1>2. v \in Observations(Deps[n]) /\ buildContext(n, {}) = ContextOf(n, {}, v, xr)
  BY <1>1, ObservedIsObservable, ContextOfDeps
<1>3. \A d \in Nodes : "error" \notin IsIgnored(d)
  <2> SUFFICES ASSUME NEW d \in Nodes PROVE "error" \notin IsIgnored(d)
    OBVIOUS
  <2>1. \A a \in Upstream[d] : "error" \notin OwnInclusion(a)
    BY UpstreamFacts, InclusionNoError
  <2> QED
    BY <2>1 DEF IsIgnored
<1>4. \A d \in Deps[n] : "error" \notin CheckReadiness(d)
  BY <1>1, <1>3, ReadinessNoError DEF CheckReadiness
<1>5. "error" \notin ResolveGate(n)
  BY <1>4 DEF ResolveGate
<1>6. r = Resolution(n)
  <2>1. PICK g \in ResolveGate(n) : r = IF g = "ready" THEN Resolution(n) ELSE [out |-> g, items |-> {}]
    BY DEF GetDesired
  <2> QED
    BY <1>5, <2>1
<1>7. /\ EvalTemplate(n, buildContext(n, {})) \in Answered
      /\ Kind[n] = "collection" =>
            /\ EvalForEach(n, buildContext(n, {})).out \in Answered
            /\ \/ Len(EvalForEach(n, buildContext(n, {})).items) > MaxCollectionSize
               \/ Distinct(EvalForEach(n, buildContext(n, {})).items)
  <2> HIDE DEF v
  <2> QED
    BY <1>2 DEF ErrorFree
<1>8. Kind[n] = "collection"
  BY <1>6, <1>7 DEF Resolution, Outcome, Answered
<1>9. hardResolveCollection(n).out = "error"
  BY <1>6, <1>8 DEF Resolution
<1> QED
  BY <1>7, <1>8, <1>9 DEF hardResolveCollection, Outcome, Answered, TooLarge

(* While a call asks its nodes, what it has observed can be observed.      *)
LEMMA ObservedInViews ==
    ASSUME XInv, RoundInv, phase \in {"selectors", "build", "status"} \/ rsp.result = "ok"
    PROVE  \A n \in Nodes : observed[n] \in Views(n)
<1>0. TypeOK /\ ObservedIsSnapshot /\ SelectInv
  BY DEF XInv, CallInv, RoundInv
<1> SUFFICES ASSUME NEW n \in Nodes PROVE observed[n] \in Views(n)
  OBVIOUS
<1>1. CASE External(n)
  <2>1. observed[n] = req.required[n]
    BY <1>0, <1>1 DEF SelectInv, Fetched
  <2> QED
    BY <1>1, <2>1 DEF RoundInv, RequestsAreTrue, Views
<1>2. CASE ~External(n)
  <2>1. observed[n] = {} \/ observed[n] = GroupObserved(n)
    BY <1>0, <1>2, TwoKinds DEF ObservedIsSnapshot
  <2>2. ASSUME NEW o \in GroupObserved(n) PROVE o \in Objects /\ o.key[1] = n
    BY <1>0, ObservedOfNode
  <2>3. ASSUME NEW o \in GroupObserved(n), NEW p \in GroupObserved(n), o.key = p.key
        PROVE  o = p
    BY <2>3 DEF GroupObserved
  <2> QED
    BY <1>2, <2>1, <2>2, <2>3 DEF Views
<1> QED
  BY <1>1, <1>2

(* A phase of a call fails for nothing but the size of a collection.       *)
LEMMA FunctionFails ==
    ASSUME ErrorFree, XInv, RoundInv, FailsForSize, [RunFunction]_vars
    PROVE  FailsForSize'
<1>0. /\ rsp \in Responses /\ req' = req /\ xr \in Specs
      /\ phase # "done" => rsp.result = "running"
  BY RequestIsKept DEF XInv, CallInv, TypeOK, Responses, RenderInv
<1> SUFFICES ASSUME rsp'.result = "fatal" PROVE \E n \in Nodes : TooLarge(n)'
  BY <1>0 DEF FailsForSize
<1>1. CASE ResolveSchemas
  BY <1>0, <1>1 DEF ResolveSchemas, Responses, FailsForSize
<1>2. CASE ObserveExternals \/ ObserveComposed \/ SetDesiredComposed
  <2>1. phase # "done" /\ rsp'.result = rsp.result
    BY <1>0, <1>2 DEF ObserveExternals, ObserveComposed, SetDesiredComposed, Responses
  <2> QED
    BY <1>0, <2>1
<1>3. ASSUME NEW n \in Nodes, SelectExternal(n) \/ BuildNode(n)
      PROVE  TooLarge(n)'
  <2>1. /\ phase \in {"selectors", "build"} /\ xr' = xr /\ observed' = observed
        /\ \/ rsp' = rsp
           \/ Kind[n] = "external" /\ GetDesiredIdentity(n) = "error"
           \/ \E r \in GetDesired(n) : r.out = "error"
    BY <1>3 DEF SelectExternal, externalCollectionSelector, BuildNode, SkipNode, AddDesired
  <2>2. \A m \in Nodes : observed[m] \in Views(m)
    BY <2>1, ObservedInViews
  <2>3. rsp' # rsp
    BY <1>0, <2>1
  <2>4. GetDesiredIdentity(n) # "error"
    <3> DEFINE v == [d \in Deps[n] |-> observed[d]]
    <3>0. Deps[n] \in SUBSET Nodes
      BY RuntimeAssumption
    <3>1. v \in Observations(Deps[n]) /\ buildContext(n, {}) = ContextOf(n, {}, v, xr)
      BY <2>2, <3>0, ObservedIsObservable, ContextOfDeps
    <3>2. EvalIdentity(n, buildContext(n, {})) \in Answered
      <4> HIDE DEF v
      <4> QED
        BY <1>0, <3>1 DEF ErrorFree
    <3> QED
      BY <3>2 DEF GetDesiredIdentity, Outcome, Answered
  <2>5. TooLarge(n)
    BY <1>0, <2>1, <2>2, <2>3, <2>4, ResolutionNoError
  <2>6. buildContext(n, {})' = buildContext(n, {})
    BY <2>1 DEF buildContext
  <2> QED
    BY <2>5, <2>6 DEF TooLarge
<1>4. CASE SetDesiredStatus
  <2>1. phase = "status" /\ StatusFails
    BY <1>0, <1>4 DEF SetDesiredStatus, Responses
  <2>2. \A m \in Nodes : observed[m] \in Views(m)
    BY <2>1, ObservedInViews
  <2> DEFINE v == [d \in StatusDeps |-> observed[d]]
  <2>3. v \in Observations(StatusDeps)
    BY <2>2, ObservedIsObservable, RuntimeAssumption
  <2>4. instanceContext = [d \in {c \in StatusDeps : v[c] # {}} |-> v[d]]
    BY DEF instanceContext
  <2>5. \A s \in StatusVars : EvalStatus(s, instanceContext) \in Answered
    <3> HIDE DEF v
    <3> QED
      BY <2>3, <2>4 DEF ErrorFree
  <2> QED
    BY <2>1, <2>5 DEF StatusFails, Outcome, Answered
<1>5. CASE UNCHANGED vars
  BY <1>5 DEF vars, runtimeVars, FailsForSize, TooLarge, buildContext
<1> QED
  BY <1>1, <1>2, <1>3, <1>4, <1>5 DEF RunFunction

(* Nor does a step of the control plane make one fail.                     *)
LEMMA FailsStep ==
    ASSUME ErrorFree, XInv, RoundInv, FailsForSize, [XNext]_allVars
    PROVE  FailsForSize'
<1>1. CASE StartReconcile
  <2>1. rsp' = NewResponse /\ req'.schemas = "none"
    BY <1>1 DEF StartReconcile, Call
  <2> QED
    BY <2>1 DEF FailsForSize, NewResponse
<1>2. CASE CallAgain
  <2>1. /\ rsp' = NewResponse
        /\ req' = [req EXCEPT !.required = [n \in Nodes |-> IF n \in rsp.requirements
                                                            THEN outside[n] ELSE {}],
                              !.schemas = IF SchemaReq \in rsp.requirements
                                          THEN "usable" ELSE "none"]
    BY <1>2 DEF CallAgain, Call
  <2>2. req'.schemas # "unusable"
    BY <2>1 DEF XInv, CallInv, TypeOK, Requests
  <2> QED
    BY <2>1, <2>2 DEF FailsForSize, NewResponse
<1>3. CASE FunctionStep
  BY <1>3, FunctionFails DEF FunctionStep
<1>4. CASE \/ Abandon \/ Apply
           \/ \E k \in ManagedKeys : Progress(k) \/ Regress(k)
           \/ \E n \in Nodes : ExternalAppears(n)
           \/ \E s \in Specs : ChangeSpec(s)
           \/ UNCHANGED allVars
  <2>1. UNCHANGED callVars
    BY <1>4 DEF Abandon, Apply, Progress, Regress, ExternalAppears, ChangeSpec, allVars
  <2>2. UNCHANGED vars
    BY <2>1 DEF callVars, vars
  <2> QED
    BY <2>2, FunctionFails
<1> QED
  BY <1>1, <1>2, <1>3, <1>4 DEF XNext, Reconcile

(* If the expressions fail for missing data only and there are enough      *)
(* rounds (two more than there are external nodes), no reconcile is        *)
(* abandoned but for a collection that is too large.                       *)
THEOREM AbandonedForSizeOnly ==
    ASSUME MonotoneExpressions, PlainSelection, ErrorFree, EnoughRounds
    PROVE  XSpec => []NeverAbandoned
<1>1. XInit => FailsForSize
  BY DEF XInit, Idle, NewResponse, FailsForSize
<1>2. XInv /\ RoundInv /\ FailsForSize /\ [XNext]_allVars => FailsForSize'
  BY FailsStep
<1>3. XInv /\ RoundInv /\ FailsForSize => NeverAbandoned
  <2> SUFFICES ASSUME XInv, RoundInv, FailsForSize, Responded PROVE NeverAbandoned
    BY DEF NeverAbandoned
  <2>1. rsp.result = "fatal" => \E n \in Nodes : TooLarge(n)
    BY DEF FailsForSize
  <2>2. ASSUME rsp.result # "fatal", ~Stable PROVE round < MaxRounds
    <3>1. /\ asked \subseteq rsp.requirements /\ asked # rsp.requirements
          /\ rsp.requirements \subseteq {SchemaReq} \cup ExternalNodes
      BY <2>2, ResponseRequiresMore DEF Stable
    <3>2. asked \subseteq {SchemaReq} \cup ExternalNodes /\ asked # {SchemaReq} \cup ExternalNodes
      BY <3>1
    <3>3. /\ Cardinality(asked) \in Nat
          /\ Cardinality(asked) + 1 <= Cardinality({SchemaReq} \cup ExternalNodes)
      BY <3>2, FiniteRequirements, StrictlyMore
    <3>4. round <= Cardinality(asked) + 1 /\ round \in Nat
      BY DEF RoundInv, RoundsAreCounted, Responded, XInv, XTypeOK
    <3> QED
      BY <3>3, <3>4, FiniteRequirements, CrossplaneAssumption DEF EnoughRounds
  <2> QED
    BY <2>1, <2>2 DEF NeverAbandoned
<1> QED
  BY <1>1, <1>2, <1>3, RoundInvariant, PTL DEF XSpec

----
(* What stays                                                              *)

(* What a call knew and decided, kept apart from the state: the last one   *)
(* that was applied is compared with the one that is to be applied.        *)
Calls == [observed : [Nodes -> SUBSET Objects], computed : SUBSET Nodes,
          desired : [Nodes -> SUBSET Items]]

ThisCall == [observed |-> observed, computed |-> {n \in computed : Managed(n)},
             desired |-> desired]

FetchedIn(c) == [n \in Nodes |-> IF External(n) THEN c.observed[n] ELSE {}]

(* The answers that let a node pass, as functions of the call.             *)
ReadyIn(d, c) ==
    \/ Kind[d] = "externalCollection"
    \/ /\ Kind[d] = "collection"
       /\ d \in c.computed
       /\ \/ c.desired[d] = {}
          \/ /\ ~(Cardinality(c.observed[d]) < Cardinality(c.desired[d]))
             /\ \A o \in c.observed[d] : \A i \in 1..Len(ReadyWhen[d]) :
                    EvalBool(ReadyWhen[d][i], [m \in {"each"} |-> {o}]) = "true"
    \/ /\ ~ManyObjects(d)
       /\ c.observed[d] # {}
       /\ \A i \in 1..Len(ReadyWhen[d]) :
              evalBoolExpr(ReadyWhen[d][i], [m \in {d} |-> c.observed[d]]) = "true"

IncludedIn(n, c, x) ==
    /\ \A d \in IncludeRefs(n) \ {Schema} : d \in Deps[n] /\ ReadyIn(d, c)
    /\ \A i \in 1..Len(IncludeWhen[n]) :
           evalBoolExpr(IncludeWhen[n][i], IncludeContext(n, c.observed, x)) = "true"

ResolvesIn(n, c, x) ==
    LET ctx == ContextOf(n, {}, c.observed, x)
    IN  /\ EvalTemplate(n, ctx) = "ok"
        /\ Kind[n] = "collection" =>
              /\ EvalForEach(n, ctx).out = "ok"
              /\ ~(Len(EvalForEach(n, ctx).items) > MaxCollectionSize)
              /\ Distinct(EvalForEach(n, ctx).items)

ItemsIn(n, c, x) ==
    LET each == EvalForEach(n, ContextOf(n, {}, c.observed, x))
    IN  IF Kind[n] = "collection"
        THEN {each.items[i] : i \in DOMAIN each.items} \cap Items
        ELSE {}

RenderableIn(n, c, x) ==
    /\ Managed(n)
    /\ \A a \in Upstream[n] : IncludedIn(a, c, x)
    /\ \A d \in Deps[n] : ReadyIn(d, c)
    /\ ResolvesIn(n, c, x)

(* What a call renders is what its templates expand to, and nothing else   *)
(* becomes desired.                                                        *)
ItemsInv ==
    /\ \A n \in computed : Managed(n) => desired[n] = Resolution(n).items
    /\ \A k \in ComposedKeys :
           \/ dcds[k] = PriorDesired[k]
           \/ k[1] \in computed /\ k \in ComposedNames(k[1], desired[k[1]])

(* The snapshot is as old as the reconcile, and objects make progress.     *)
ProgressInv ==
    busy => /\ changes = 0 => req.xr = spec
            /\ faults = 0 => \A k \in ManagedKeys :
                                 req.composed[k] # Absent => Later(req.composed[k], cluster[k])

(* The last call w that was applied: the cluster holds what it desired and *)
(* what it had observed, further on.                                       *)
Stays(w, objects) ==
    \A n \in Nodes : Managed(n) =>
        \A o \in w.observed[n] :
            /\ objects[o.key] # Absent
            /\ Later(o.state, objects[o.key])

LastApplied(w) ==
    /\ \A n \in Nodes : w.observed[n] \in Views(n)
    /\ \A n \in w.computed : RenderableIn(n, w, spec) /\ w.desired[n] = ItemsIn(n, w, spec)
    /\ \A n \in Nodes : External(n) /\ w.observed[n] # {} =>
           Selects(n, FetchedIn(w), spec) /\ outside[n] = w.observed[n]
    /\ \A k \in ManagedKeys : cluster[k] # Absent =>
           k[1] \in w.computed /\ k \in ComposedNames(k[1], w.desired[k[1]])
    /\ Stays(w, cluster)
    /\ busy => /\ Stays(w, req.composed)
               /\ \A n \in Nodes : External(n) /\ w.observed[n] # {} /\ n \in asked =>
                      req.required[n] = w.observed[n]

KeptInv == Undisturbed => \E w \in Calls : LastApplied(w)

(* From the call v to the call c external objects stay, managed ones make  *)
(* progress, and none appears that v did not desire.                       *)
Follows(v, c) ==
    /\ \A n \in Nodes : v.observed[n] \in Views(n) /\ c.observed[n] \in Views(n)
    /\ \A n \in Nodes : External(n) => v.observed[n] = {} \/ c.observed[n] = v.observed[n]
    /\ \A n \in Nodes : Managed(n) =>
          /\ \A o \in v.observed[n] : \E p \in c.observed[n] :
                 p.key = o.key /\ Later(o.state, p.state)
          /\ \A p \in c.observed[n] :
                 n \in v.computed /\ p.key \in ComposedNames(n, v.desired[n])

(* Progress is transitive.                                                 *)
LEMMA LaterAndLater ==
    ASSUME NEW s, NEW t, NEW u, Later(s, t), Later(t, u)
    PROVE  Later(s, u)
  BY DEF Later

(* What keeps its answers when objects make progress keeps them when more  *)
(* objects are known.                                                      *)
LEMMA PersistentIsMonotone == PersistentExpressions => MonotoneExpressions
<1>1. \A S : Advances(S, S)
  BY DEF Advances, Later
<1>2. \A S, T : S = {} \/ T = S => Advances(S, T)
  BY <1>1 DEF Advances
<1> QED
  BY <1>2 DEF PersistentExpressions, MonotoneExpressions

(* The objects of a node.                                                  *)
LEMMA ViewOfManaged ==
    ASSUME NEW n \in Nodes, Managed(n), NEW V \in Views(n)
    PROVE  /\ \A o \in V : o \in Objects /\ o.key[1] = n
           /\ \A o, p \in V : o.key = p.key => o = p
           /\ Kind[n] = "resource" => \A o \in V : V = {o}
<1>1. /\ \A o \in V : o \in Objects /\ o.key[1] = n
      /\ \A o, p \in V : o.key = p.key => o = p
  BY TwoKinds DEF Views
<1>2. ASSUME Kind[n] = "resource", NEW o \in V
      PROVE  o.key = <<n, NoName>>
  <2>1. o.key \in Nodes \X (Names \cup {NoName}) /\ (ManyObjects(n) <=> o.key[2] # NoName)
    BY <1>1 DEF Objects, Keys
  <2>2. o.key[1] = n /\ o.key[2] = NoName
    BY <1>1, <1>2, <2>1 DEF ManyObjects
  <2> QED
    BY <2>1, <2>2
<1> QED
  BY <1>1, <1>2

(* A collection has at most one object for each of its items; if it has as *)
(* many as items, it has them all.                                         *)
LEMMA ItemsAreCovered ==
    ASSUME NEW n \in Nodes, Kind[n] = "collection", NEW D \in SUBSET Items,
           NEW V \in Views(n), \A o \in V : o.key \in ComposedNames(n, D)
    PROVE  /\ IsFiniteSet(V)
           /\ ~(Cardinality(V) < Cardinality(D)) =>
                 \A k \in ComposedNames(n, D) : \E o \in V : o.key = k
<1> DEFINE f == [o \in V |-> CHOOSE i \in D : Key(n, i) = o.key]
<1>1. ComposedNames(n, D) = {Key(n, i) : i \in D}
  BY DEF ComposedNames
<1>2. \A o \in V : f[o] \in D /\ Key(n, f[o]) = o.key
  BY <1>1
<1>3. \A o, p \in V : o.key = p.key => o = p
  BY ViewOfManaged DEF Managed
<1>4. f \in Injection(V, D)
  <2>1. f \in [V -> D]
    BY <1>2
  <2>2. \A o, p \in V : f[o] = f[p] => o = p
    <3> HIDE DEF f
    <3> QED
      BY <1>2, <1>3
  <2> HIDE DEF f
  <2> QED
    BY <2>1, <2>2 DEF Injection, IsInjective
<1>5. IsFiniteSet(D)
  BY FS_Subset, CrossplaneAssumption
<1> HIDE DEF f
<1>6. /\ IsFiniteSet(V) /\ Cardinality(V) <= Cardinality(D)
      /\ Cardinality(V) = Cardinality(D) => f \in Surjection(V, D)
  BY <1>4, <1>5, FS_Injection
<1>7. Cardinality(V) \in Nat /\ Cardinality(D) \in Nat
  BY <1>5, <1>6, FS_CardinalityType
<1>8. ASSUME ~(Cardinality(V) < Cardinality(D)), NEW k \in ComposedNames(n, D)
      PROVE  \E o \in V : o.key = k
  <2>1. PICK i \in D : k = Key(n, i)
    BY <1>1
  <2>2. f \in Surjection(V, D)
    BY <1>6, <1>7, <1>8
  <2>3. PICK o \in V : f[o] = i
    BY <2>2 DEF Surjection
  <2> QED
    BY <1>2, <2>1, <2>3
<1> QED
  BY <1>6, <1>8

(* A node whose objects are all still there has no fewer.                  *)
LEMMA NoFewerObjects ==
    ASSUME NEW n \in Nodes, Managed(n), NEW V \in Views(n), NEW W \in Views(n),
           IsFiniteSet(W), \A o \in V : \E p \in W : p.key = o.key
    PROVE  Cardinality(V) <= Cardinality(W)
<1> DEFINE g == [o \in V |-> CHOOSE p \in W : p.key = o.key]
<1>1. \A o \in V : g[o] \in W /\ g[o].key = o.key
  OBVIOUS
<1>2. \A o, p \in V : o.key = p.key => o = p
  BY ViewOfManaged
<1>3. g \in [V -> W]
  BY <1>1
<1> HIDE DEF g
<1>4. g \in Injection(V, W)
  BY <1>1, <1>2, <1>3 DEF Injection, IsInjective
<1> QED
  BY <1>4, FS_Injection

(* The objects of a node that was ready have made progress, and are the    *)
(* same ones.                                                              *)
LEMMA ObjectsAdvance ==
    ASSUME NEW v \in Calls, NEW c \in Calls, Follows(v, c), NEW d \in Nodes, ReadyIn(d, v)
    PROVE  Advances(v.observed[d], c.observed[d])
<1>0. v.observed[d] \in Views(d) /\ c.observed[d] \in Views(d) /\ v.desired[d] \in SUBSET Items
  BY DEF Follows, Calls
<1>1. CASE External(d)
  BY <1>1 DEF Follows, Advances, Later
<1>2. CASE Managed(d)
  <2>1. /\ \A o \in v.observed[d] : \E p \in c.observed[d] :
               p.key = o.key /\ Later(o.state, p.state)
        /\ \A p \in c.observed[d] : p.key \in ComposedNames(d, v.desired[d])
    BY <1>2 DEF Follows
  <2>2. \A p, q \in c.observed[d] : p.key = q.key => p = q
    BY <1>0, <1>2, ViewOfManaged
  <2>3. ASSUME v.observed[d] # {}, NEW p \in c.observed[d]
        PROVE  \E o \in v.observed[d] : o.key = p.key
    <3>1. CASE Kind[d] = "resource"
      <4>1. PICK o \in v.observed[d] : TRUE
        BY <2>3
      <4>2. PICK q \in c.observed[d] : q.key = o.key
        BY <2>1
      <4>3. q = p
        BY <1>0, <1>2, <3>1, ViewOfManaged
      <4> QED
        BY <4>2, <4>3
    <3>2. CASE Kind[d] = "collection"
      <4>1. \A o \in v.observed[d] : o.key \in ComposedNames(d, v.desired[d])
        BY <2>1
      <4>2. v.desired[d] # {}
        BY <2>1, <3>2 DEF ComposedNames
      <4>3. ~(Cardinality(v.observed[d]) < Cardinality(v.desired[d]))
        BY <3>2, <4>2 DEF ReadyIn, ManyObjects
      <4> QED
        BY <1>0, <2>1, <3>2, <4>1, <4>3, ItemsAreCovered
    <3> QED
      BY <1>2, <3>1, <3>2 DEF Managed
  <2>4. ASSUME v.observed[d] # {}, NEW p \in c.observed[d]
        PROVE  \E o \in v.observed[d] : p.key = o.key /\ Later(o.state, p.state)
    <3>1. PICK o \in v.observed[d] : o.key = p.key
      BY <2>3, <2>4
    <3>2. PICK q \in c.observed[d] : q.key = o.key /\ Later(o.state, q.state)
      BY <2>1
    <3> QED
      BY <2>2, <3>1, <3>2
  <2> QED
    BY <2>1, <2>4 DEF Advances
<1> QED
  BY <1>1, <1>2, TwoKinds

(* An object of a managed node on which the readyWhen were true stays      *)
(* ready.                                                                  *)
LEMMA ObjectStaysReady ==
    ASSUME PersistentExpressions, NEW d \in Nodes, Managed(d), NEW o \in Objects,
           NEW p \in Objects, o.key[1] = d, p.key = o.key, Later(o.state, p.state),
           NEW i \in 1..Len(ReadyWhen[d]),
           EvalBool(ReadyWhen[d][i], ReadyContext(d, ReadyWhen[d][i], o)) = "true"
    PROVE  EvalBool(ReadyWhen[d][i], ReadyContext(d, ReadyWhen[d][i], p)) = "true"
  BY DEF PersistentExpressions

(* So a node that was ready is ready.                                      *)
LEMMA ReadyCarries ==
    ASSUME PersistentExpressions, NEW v \in Calls, NEW c \in Calls, Follows(v, c),
           NEW d \in Nodes, ReadyIn(d, v),
           d \in v.computed => d \in c.computed /\ c.desired[d] = v.desired[d]
    PROVE  ReadyIn(d, c)
<1>0. /\ v.observed[d] \in Views(d) /\ c.observed[d] \in Views(d)
      /\ v.desired[d] \in SUBSET Items /\ Kind[d] \in Kinds
      /\ Advances(v.observed[d], c.observed[d])
  BY ObjectsAdvance, RuntimeAssumption DEF Follows, Calls
<1>1. CASE Kind[d] = "externalCollection"
  BY <1>1 DEF ReadyIn
<1>2. CASE Kind[d] = "external"
  <2>1. v.observed[d] # {} /\ c.observed[d] = v.observed[d]
    BY <1>2 DEF ReadyIn, Follows, External, ManyObjects
  <2> QED
    BY <1>2, <2>1 DEF ReadyIn
<1>3. CASE Kind[d] = "collection"
  <2>1. d \in c.computed /\ c.desired[d] = v.desired[d] /\ Managed(d)
    BY <1>3 DEF ReadyIn, ManyObjects, Managed
  <2>2. CASE v.desired[d] = {}
    BY <1>3, <2>1, <2>2 DEF ReadyIn
  <2>3. CASE v.desired[d] # {}
    <3>1. /\ ~(Cardinality(v.observed[d]) < Cardinality(v.desired[d]))
          /\ \A o \in v.observed[d] : \A i \in 1..Len(ReadyWhen[d]) :
                 EvalBool(ReadyWhen[d][i], [m \in {"each"} |-> {o}]) = "true"
      BY <1>3, <2>3 DEF ReadyIn, ManyObjects
    <3>2. /\ \A o \in v.observed[d] : \E p \in c.observed[d] : p.key = o.key
          /\ \A p \in c.observed[d] : p.key \in ComposedNames(d, v.desired[d])
          /\ \A o \in v.observed[d] : o.key \in ComposedNames(d, v.desired[d])
      BY <2>1 DEF Follows
    <3>3. IsFiniteSet(c.observed[d]) /\ IsFiniteSet(v.observed[d])
      BY <1>0, <1>3, <3>2, ItemsAreCovered
    <3>4. Cardinality(v.observed[d]) <= Cardinality(c.observed[d])
      BY <1>0, <2>1, <3>2, <3>3, NoFewerObjects
    <3>5. IsFiniteSet(v.desired[d])
      BY <1>0, FS_Subset, CrossplaneAssumption
    <3>6. ~(Cardinality(c.observed[d]) < Cardinality(c.desired[d]))
      BY <2>1, <3>1, <3>3, <3>4, <3>5, FS_CardinalityType
    <3>7. ASSUME NEW p \in c.observed[d], NEW i \in 1..Len(ReadyWhen[d])
          PROVE  EvalBool(ReadyWhen[d][i], [m \in {"each"} |-> {p}]) = "true"
      <4>1. v.observed[d] # {}
        <5>1. Cardinality(v.desired[d]) \in Nat /\ Cardinality(v.desired[d]) # 0
          BY <2>3, <3>5, FS_EmptySet, FS_CardinalityType
        <5>2. v.observed[d] = {} => Cardinality(v.observed[d]) = 0
          BY FS_EmptySet
        <5>3. ~(Cardinality(v.observed[d]) < Cardinality(v.desired[d]))
          BY <3>1
        <5> QED
          BY <5>1, <5>2, <5>3
      <4>2. PICK o \in v.observed[d] : p.key = o.key /\ Later(o.state, p.state)
        BY <1>0, <3>7, <4>1 DEF Advances
      <4>3. o \in Objects /\ p \in Objects /\ o.key[1] = d
        BY <1>0, <2>1, ViewOfManaged
      <4>4. \A q : ReadyContext(d, ReadyWhen[d][i], q) = [m \in {"each"} |-> {q}]
        BY <1>3 DEF ReadyContext
      <4>5. EvalBool(ReadyWhen[d][i], ReadyContext(d, ReadyWhen[d][i], o)) = "true"
        BY <3>1, <4>4
      <4>6. EvalBool(ReadyWhen[d][i], ReadyContext(d, ReadyWhen[d][i], p)) = "true"
        BY <2>1, <4>2, <4>3, <4>5, ObjectStaysReady
      <4> QED
        BY <4>4, <4>6
    <3> QED
      BY <1>3, <2>1, <3>6, <3>7 DEF ReadyIn
  <2> QED
    BY <2>2, <2>3
<1>4. CASE Kind[d] = "resource"
  <2>1. /\ v.observed[d] # {} /\ Managed(d)
        /\ \A i \in 1..Len(ReadyWhen[d]) :
               evalBoolExpr(ReadyWhen[d][i], [m \in {d} |-> v.observed[d]]) = "true"
    BY <1>4 DEF ReadyIn, ManyObjects, Managed
  <2>2. PICK o \in v.observed[d] : TRUE
    BY <2>1
  <2>3. PICK p \in c.observed[d] : p.key = o.key /\ Later(o.state, p.state)
    BY <2>1, <2>2 DEF Follows
  <2>4. /\ v.observed[d] = {o} /\ c.observed[d] = {p}
        /\ o \in Objects /\ p \in Objects /\ o.key[1] = d
    BY <1>0, <1>4, <2>1, <2>2, <2>3, ViewOfManaged
  <2>5. ASSUME NEW i \in 1..Len(ReadyWhen[d])
        PROVE  evalBoolExpr(ReadyWhen[d][i], [m \in {d} |-> c.observed[d]]) = "true"
    <3>1. EvalBool(ReadyWhen[d][i], filterContext([m \in {d} |-> {o}], Refs[ReadyWhen[d][i]])) = "true"
      BY <2>1, <2>4, TrueMeansTrue
    <3>2. \A q : ReadyContext(d, ReadyWhen[d][i], q)
                   = filterContext([m \in {d} |-> {q}], Refs[ReadyWhen[d][i]])
      BY <1>4 DEF ReadyContext
    <3>5. EvalBool(ReadyWhen[d][i], ReadyContext(d, ReadyWhen[d][i], o)) = "true"
      BY <3>1, <3>2
    <3>3. EvalBool(ReadyWhen[d][i], ReadyContext(d, ReadyWhen[d][i], p)) = "true"
      BY <2>1, <2>3, <2>4, <3>5, ObjectStaysReady
    <3>4. EvalBool(ReadyWhen[d][i], filterContext([m \in {d} |-> {p}], Refs[ReadyWhen[d][i]])) = "true"
      BY <3>2, <3>3
    <3> QED
      BY <2>4, <3>4 DEF evalBoolExpr
  <2> QED
    BY <1>4, <2>4, <2>5 DEF ReadyIn, ManyObjects
<1> QED
  BY <1>0, <1>1, <1>2, <1>3, <1>4 DEF Kinds

(* A node that was included is included, if what was ready is ready.       *)
LEMMA InclusionCarries ==
    ASSUME PersistentExpressions, NEW v \in Calls, NEW c \in Calls, Follows(v, c),
           NEW x \in Specs, NEW n \in Nodes, IncludedIn(n, v, x),
           \A d \in Deps[n] : ReadyIn(d, v) => ReadyIn(d, c)
    PROVE  IncludedIn(n, c, x)
<1> DEFINE R == IncludeRefs(n)
           a == [d \in Deps[n] |-> IF R = {} \/ d \in R THEN v.observed[d] ELSE {}]
           b == [d \in Deps[n] |-> IF R = {} \/ d \in R THEN c.observed[d] ELSE {}]
<1>1. Deps[n] \in SUBSET Nodes /\ Schema \notin Nodes
  BY RuntimeAssumption
<1>2. \A d \in R \ {Schema} : d \in Deps[n] /\ ReadyIn(d, v) /\ ReadyIn(d, c)
  BY DEF IncludedIn
<1>3. /\ IncludeContext(n, v.observed, x) = IncludeContext(n, a, x)
      /\ IncludeContext(n, c.observed, x) = IncludeContext(n, b, x)
  <2> DEFINE D(o) == {m \in Deps[n] \cup {Schema} : (m # Schema => o[m] # {}) /\ (R = {} \/ m \in R)}
  <2>1. ASSUME NEW obs, NEW near,
               \A d \in Deps[n] : R = {} \/ d \in R => near[d] = obs[d]
        PROVE  IncludeContext(n, obs, x) = IncludeContext(n, near, x)
    <3>1. D(near) = D(obs)
      BY <2>1
    <3>2. \A m \in D(obs) : m # Schema => near[m] = obs[m]
      BY <2>1
    <3>3. [d \in D(near) |-> IF d = Schema THEN x ELSE near[d]]
            = [d \in D(obs) |-> IF d = Schema THEN x ELSE obs[d]]
      BY <3>1, <3>2
    <3> QED
      BY <3>3 DEF IncludeContext, ContextOf
  <2> HIDE DEF D
  <2>2. \A d \in Deps[n] : R = {} \/ d \in R => a[d] = v.observed[d] /\ b[d] = c.observed[d]
    BY DEF R
  <2> HIDE DEF R, a, b
  <2> QED
    BY <2>1, <2>2
<1>4. a \in Observations(Deps[n]) /\ b \in Observations(Deps[n])
  <2>1. \A d \in Deps[n] : /\ v.observed[d] \in Views(d) /\ c.observed[d] \in Views(d)
                           /\ {} \in Views(d)
    BY <1>1 DEF Follows, Views
  <2>2. \A d \in Deps[n] : a[d] \in Views(d) /\ b[d] \in Views(d)
    BY <2>1
  <2> QED
    BY <2>2 DEF Observations
<1>5. KeepsIncluded(n, a, b, x)
  <2>1. CASE R = {}
    <3> HIDE DEF a, b
    <3> QED
      BY <1>4, <2>1 DEF PersistentExpressions
  <2>2. CASE R # {}
    <3>1. \A d \in Deps[n] : Advances(a[d], b[d])
      <4> SUFFICES ASSUME NEW d \in Deps[n] PROVE Advances(a[d], b[d])
        OBVIOUS
      <4>1. CASE d \in R
        <5>1. Advances(v.observed[d], c.observed[d])
          BY <1>1, <1>2, <4>1, ObjectsAdvance
        <5>2. a[d] = v.observed[d] /\ b[d] = c.observed[d]
          BY <4>1
        <5> QED
          BY <5>1, <5>2
      <4>2. CASE d \notin R
        <5>1. a[d] = {}
          BY <2>2, <4>2
        <5> QED
          BY <5>1 DEF Advances
      <4> QED
        BY <4>1, <4>2
    <3> HIDE DEF a, b, R
    <3> QED
      BY <1>4, <3>1 DEF PersistentExpressions, Keeps
  <2> QED
    BY <2>1, <2>2
<1> HIDE DEF a, b
<1>6. \A i \in 1..Len(IncludeWhen[n]) :
          evalBoolExpr(IncludeWhen[n][i], IncludeContext(n, c.observed, x)) = "true"
  BY <1>3, <1>5 DEF KeepsIncluded, IncludedIn
<1> QED
  BY <1>2, <1>6 DEF IncludedIn

(* A template that resolved resolves, to the same items, if all its        *)
(* dependencies were ready.                                                *)
LEMMA ResolutionCarries ==
    ASSUME PersistentExpressions, NEW v \in Calls, NEW c \in Calls, Follows(v, c),
           NEW x \in Specs, NEW n \in Nodes, ResolvesIn(n, v, x),
           \A d \in Deps[n] : ReadyIn(d, v)
    PROVE  ResolvesIn(n, c, x) /\ ItemsIn(n, c, x) = ItemsIn(n, v, x)
<1> DEFINE a == [d \in Deps[n] |-> v.observed[d]]
           b == [d \in Deps[n] |-> c.observed[d]]
<1>1. Deps[n] \in SUBSET Nodes
  BY RuntimeAssumption
<1>2. a \in Observations(Deps[n]) /\ b \in Observations(Deps[n])
  BY <1>1 DEF Follows, Observations
<1>3. \A d \in Deps[n] : Advances(a[d], b[d])
  BY <1>1, ObjectsAdvance
<1>4. /\ ContextOf(n, {}, v.observed, x) = ContextOf(n, {}, a, x)
      /\ ContextOf(n, {}, c.observed, x) = ContextOf(n, {}, b, x)
  BY ContextOfDeps
<1> HIDE DEF a, b
<1>5. KeepsResolved(n, a, b, x)
  BY <1>2, <1>3 DEF PersistentExpressions, Keeps
<1>6. /\ EvalTemplate(n, ContextOf(n, {}, c.observed, x)) = "ok"
      /\ Kind[n] = "collection" =>
            EvalForEach(n, ContextOf(n, {}, c.observed, x))
              = EvalForEach(n, ContextOf(n, {}, v.observed, x))
  BY <1>4, <1>5 DEF KeepsResolved, ResolvesIn
<1> QED
  BY <1>6 DEF ResolvesIn, ItemsIn

(* What was rendered is rendered again, with the same items: along the     *)
(* order of the nodes, what each of them depends on has stayed.            *)
LEMMA RenderedStays ==
    ASSUME PersistentExpressions, NEW v \in Calls, NEW c \in Calls, Follows(v, c),
           NEW x \in Specs,
           \A n \in v.computed : RenderableIn(n, v, x) /\ v.desired[n] = ItemsIn(n, v, x),
           \A n \in Nodes : RenderableIn(n, c, x) =>
               n \in c.computed /\ c.desired[n] = ItemsIn(n, c, x)
    PROVE  \A n \in v.computed : n \in c.computed /\ c.desired[n] = v.desired[n]
<1> DEFINE Renders(n) == n \in v.computed => n \in c.computed /\ c.desired[n] = v.desired[n]
           Includes(n) == IncludedIn(n, v, x) => IncludedIn(n, c, x)
           T == {i \in 1..Len(Order) : ~(Renders(Order[i]) /\ Includes(Order[i]))}
<1>0. v.computed \subseteq Nodes
  BY DEF Calls
<1>1. ASSUME T # {} PROVE FALSE
  <2>1. T \in SUBSET Nat
    OBVIOUS
  <2>2. PICK i \in T : \A j \in T : i <= j
    <3> HIDE DEF T
    <3> QED
      BY <1>1, <2>1, LeastNumber
  <2>3. /\ i \in 1..Len(Order) /\ Len(Order) \in Nat
        /\ \A j \in 1..(i - 1) : Renders(Order[j]) /\ Includes(Order[j])
    <3>1. i \in 1..Len(Order) /\ Len(Order) \in Nat
      BY FunctionAssumption
    <3>2. ASSUME NEW j \in 1..(i - 1) PROVE j \in 1..Len(Order) /\ j \notin T
      <4> HIDE DEF T
      <4> QED
        BY <2>2, <3>1
    <3> QED
      BY <3>1, <3>2
  <2> DEFINE n == Order[i]
  <2>4. n \in Nodes
    BY <2>3, FunctionAssumption
  <2>5. \A d \in Deps[n] : d \in Nodes /\ \E j \in 1..(i - 1) : Order[j] = d
    <3> SUFFICES ASSUME NEW d \in Deps[n] PROVE d \in Nodes /\ \E j \in 1..(i - 1) : Order[j] = d
      OBVIOUS
    <3>1. d \in Nodes
      BY <2>4, RuntimeAssumption
    <3>2. PICK j \in 1..Len(Order) : Order[j] = d
      BY <3>1, FunctionAssumption
    <3>3. j < i
      BY <2>3, <3>2, FunctionAssumption
    <3> QED
      BY <2>3, <3>1, <3>2, <3>3
  <2>6. \A d \in Deps[n] : ReadyIn(d, v) => ReadyIn(d, c)
    <3> SUFFICES ASSUME NEW d \in Deps[n], ReadyIn(d, v) PROVE ReadyIn(d, c)
      OBVIOUS
    <3>1. d \in Nodes /\ Renders(d)
      BY <2>3, <2>5
    <3> QED
      BY <3>1, ReadyCarries
  <2>7. Includes(n)
    <3> HIDE DEF n
    <3> QED
      BY <2>4, <2>6, InclusionCarries
  <2>8. Renders(n)
    <3> SUFFICES ASSUME n \in v.computed
                 PROVE  n \in c.computed /\ c.desired[n] = v.desired[n]
      OBVIOUS
    <3>1. RenderableIn(n, v, x) /\ v.desired[n] = ItemsIn(n, v, x)
      OBVIOUS
    <3>2. \A a \in Upstream[n] : IncludedIn(a, c, x)
      <4> DEFINE S == {Order[j] : j \in 1..i}
      <4>1. S \in SUBSET Nodes /\ n \in S
        BY <2>3, FunctionAssumption
      <4>2. ASSUME NEW m \in S PROVE Deps[m] \subseteq S
        <5> SUFFICES ASSUME NEW d \in Deps[m] PROVE d \in S
          OBVIOUS
        <5>1. PICK j \in 1..i : m = Order[j]
          OBVIOUS
        <5>2. d \in Nodes
          BY <4>1, RuntimeAssumption
        <5>3. PICK l \in 1..Len(Order) : Order[l] = d
          BY <5>2, FunctionAssumption
        <5>4. l < j
          BY <2>3, <5>1, <5>3, FunctionAssumption
        <5>5. l \in 1..i
          BY <2>3, <5>1, <5>3, <5>4
        <5> QED
          BY <5>3, <5>5
      <4>3. Upstream[n] \subseteq S
        <5> HIDE DEF S, n
        <5> QED
          BY <4>1, <4>2, UpstreamInClosed
      <4>4. \A a \in S : Includes(a)
        <5> SUFFICES ASSUME NEW j \in 1..i PROVE Includes(Order[j])
          OBVIOUS
        <5>1. j = i \/ j \in 1..(i - 1)
          BY <2>3
        <5> QED
          BY <2>3, <2>7, <5>1
      <4>5. \A a \in Upstream[n] : IncludedIn(a, v, x)
        BY <3>1 DEF RenderableIn
      <4> QED
        BY <4>3, <4>4, <4>5
    <3>3. \A d \in Deps[n] : ReadyIn(d, v) /\ ReadyIn(d, c)
      BY <2>6, <3>1 DEF RenderableIn
    <3>4. ResolvesIn(n, c, x) /\ ItemsIn(n, c, x) = ItemsIn(n, v, x)
      BY <2>4, <3>1, <3>3, ResolutionCarries DEF RenderableIn
    <3>5. RenderableIn(n, c, x)
      BY <3>1, <3>2, <3>3, <3>4 DEF RenderableIn
    <3> QED
      BY <2>4, <3>1, <3>4, <3>5
  <2> QED
    BY <2>2, <2>7, <2>8
<1>2. ASSUME NEW n \in v.computed PROVE Renders(n)
  <2>1. PICK i \in 1..Len(Order) : Order[i] = n
    BY <1>0, FunctionAssumption
  <2> QED
    BY <1>1, <2>1
<1> QED
  BY <1>2

(* External resources that were fetched are fetched again: each selector   *)
(* depends on the external nodes before it.                                *)
LEMMA FetchedStays ==
    ASSUME MonotoneExpressions, NEW x \in Specs, NEW old \in Fetchings, NEW new \in Fetchings,
           \A n \in Nodes : old[n] # {} => Selects(n, old, x),
           \A n \in Nodes : old[n] # {} /\ Selects(n, new, x) => new[n] = old[n]
    PROVE  Extends(old, new)
<1> DEFINE T == {i \in 1..Len(Order) : ~(old[Order[i]] = {} \/ new[Order[i]] = old[Order[i]])}
<1>1. ASSUME T # {} PROVE FALSE
  <2>1. T \in SUBSET Nat
    OBVIOUS
  <2>2. PICK i \in T : \A j \in T : i <= j
    <3> HIDE DEF T
    <3> QED
      BY <1>1, <2>1, LeastNumber
  <2>3. i \in 1..Len(Order) /\ Len(Order) \in Nat /\ Order[i] \in Nodes
    BY FunctionAssumption
  <2>4. ASSUME NEW d \in Deps[Order[i]] PROVE old[d] = {} \/ new[d] = old[d]
    <3>1. d \in Nodes
      BY <2>3, RuntimeAssumption
    <3>2. PICK j \in 1..Len(Order) : Order[j] = d
      BY <3>1, FunctionAssumption
    <3>3. j < i
      BY <2>3, <3>2, FunctionAssumption
    <3>4. j \notin T
      <4> HIDE DEF T
      <4> QED
        BY <2>2, <2>3, <3>3
    <3> QED
      BY <3>2, <3>4
  <2>5. old[Order[i]] # {} /\ new[Order[i]] # old[Order[i]]
    BY <2>2
  <2>6. Selects(Order[i], new, x)
    BY <2>3, <2>4, <2>5, SelectionGrows
  <2> QED
    BY <2>3, <2>5, <2>6
<1>2. ASSUME NEW n \in Nodes PROVE old[n] = {} \/ new[n] = old[n]
  <2>1. PICK i \in 1..Len(Order) : Order[i] = n
    BY FunctionAssumption
  <2> QED
    BY <1>1, <2>1
<1> QED
  BY <1>2 DEF Extends

----
(* The current call as a record                                            *)

(* Some answer is given.                                                   *)
LEMMA ReadinessIsGiven ==
    ASSUME NEW d \in Nodes
    PROVE  checkObservedReadiness(d) # {}
<1>1. EachReadiness(d) # {}
  BY DEF EachReadiness
<1> QED
  BY <1>1 DEF checkObservedReadiness, checkCollectionReadiness, checkSingleResourceReadiness

(* Each object of a collection is asked for the truth of its readyWhen.    *)
LEMMA EachIsReady ==
    ASSUME NEW d \in Nodes
    PROVE  EachReadiness(d) = {"ready"} <=>
               \A o \in observed[d] : \A i \in 1..Len(ReadyWhen[d]) :
                   EvalBool(ReadyWhen[d][i], [m \in {"each"} |-> {o}]) = "true"
<1> DEFINE value(e, o) == LET v == EvalBool(e, [m \in {"each"} |-> {o}])
                          IN  IF v \in {"true", "false", "pending"} THEN v ELSE "error"
           vals(o) == [i \in 1..Len(ReadyWhen[d]) |-> value(ReadyWhen[d][i], o)]
<1>1. Len(ReadyWhen[d]) \in Nat
  BY RuntimeAssumption
<1>2. \A o : Len(vals(o)) = Len(ReadyWhen[d]) /\ DOMAIN vals(o) = 1..Len(ReadyWhen[d])
  BY <1>1
<1>3. \A o : \A i \in 1..Len(ReadyWhen[d]) :
          vals(o)[i] = "true" <=> EvalBool(ReadyWhen[d][i], [m \in {"each"} |-> {o}]) = "true"
  OBVIOUS
<1>4. EachReadiness(d) = {"ready"} <=> \A o \in observed[d] : Readiness(vals(o)) = "ready"
  BY DEF EachReadiness
<1> HIDE DEF vals
<1>5. \A o : Readiness(vals(o)) = "ready" <=> \A i \in 1..Len(ReadyWhen[d]) : vals(o)[i] = "true"
  BY <1>1, <1>2, ReadyMeansTrue, TrueMeansReady
<1> QED
  BY <1>3, <1>4, <1>5

(* The readiness the current call computes for a node is the one of its    *)
(* record.                                                                 *)
LEMMA ThisReady ==
    ASSUME PlainSelection, TypeOK, NEW d \in Nodes, observed[d] \in Views(d)
    PROVE  ReadyIn(d, ThisCall) <=> checkObservedReadiness(d) = {"ready"}
<1>0. /\ Len(ReadyWhen[d]) \in Nat /\ Kind[d] \in Kinds
      /\ ThisCall.observed = observed /\ ThisCall.desired = desired
      /\ Managed(d) => (d \in ThisCall.computed <=> d \in computed)
  BY RuntimeAssumption DEF ThisCall
<1>1. CASE Kind[d] = "externalCollection"
  <2>1. ReadyIn(d, ThisCall)
    BY <1>1 DEF ReadyIn
  <2>2. observed[d] = {} \/ observed[d] = ExternalPool[d]
    BY <1>1 DEF Views, External
  <2>3. observed[d] = ExternalPool[d] => EachReadiness(d) = {"ready"}
    BY <1>1, EachIsReady DEF PlainSelection
  <2> QED
    BY <1>1, <2>1, <2>2, <2>3 DEF checkObservedReadiness, ManyObjects, checkCollectionReadiness
<1>2. CASE Kind[d] = "collection"
  <2>1. ReadyIn(d, ThisCall) <=>
            /\ d \in computed
            /\ \/ desired[d] = {}
               \/ /\ ~(Cardinality(observed[d]) < Cardinality(desired[d]))
                  /\ EachReadiness(d) = {"ready"}
    BY <1>0, <1>2, EachIsReady DEF ReadyIn, ManyObjects, Managed
  <2>2. checkObservedReadiness(d) =
            IF d \notin computed THEN {"waiting"}
            ELSE IF desired[d] = {} THEN {"ready"}
            ELSE IF Cardinality(observed[d]) < Cardinality(desired[d]) THEN {"waiting"}
            ELSE IF Len(ReadyWhen[d]) = 0 THEN {"ready"}
            ELSE EachReadiness(d)
    BY <1>2 DEF checkObservedReadiness, ManyObjects, checkCollectionReadiness
  <2>3. ASSUME Len(ReadyWhen[d]) = 0 PROVE EachReadiness(d) = {"ready"}
    <3>1. \A i \in 1..Len(ReadyWhen[d]) : FALSE
      BY <2>3
    <3> QED
      BY <3>1, EachIsReady
  <2> QED
    BY <2>1, <2>2, <2>3
<1>3. CASE ~ManyObjects(d)
  <2> DEFINE vals == [i \in 1..Len(ReadyWhen[d]) |->
                         evalBoolExpr(ReadyWhen[d][i], [c \in {d} |-> observed[d]])]
  <2>1. checkObservedReadiness(d) = IF observed[d] = {} THEN {"waiting"} ELSE {Readiness(vals)}
    BY <1>3 DEF checkObservedReadiness, checkSingleResourceReadiness
  <2>2. Len(vals) = Len(ReadyWhen[d]) /\ DOMAIN vals = 1..Len(ReadyWhen[d])
    BY <1>0
  <2>3. Readiness(vals) = "ready" <=> \A i \in 1..Len(ReadyWhen[d]) : vals[i] = "true"
    <3> HIDE DEF vals
    <3> QED
      BY <1>0, <2>2, ReadyMeansTrue, TrueMeansReady
  <2>4. ReadyIn(d, ThisCall) <=> observed[d] # {} /\ \A i \in 1..Len(ReadyWhen[d]) : vals[i] = "true"
    BY <1>0, <1>3 DEF ReadyIn, ManyObjects
  <2> HIDE DEF vals
  <2> QED
    BY <2>1, <2>3, <2>4
<1> QED
  BY <1>0, <1>1, <1>2, <1>3 DEF Kinds, ManyObjects

(* So is the inclusion of a node.                                          *)
LEMMA ThisIncluded ==
    ASSUME PlainSelection, TypeOK, \A d \in Nodes : observed[d] \in Views(d), NEW n \in Nodes
    PROVE  IncludedIn(n, ThisCall, xr) <=> OwnInclusion(n) = {"included"}
<1> DEFINE ctx == buildContext(n, IncludeRefs(n))
           vals == [i \in 1..Len(IncludeWhen[n]) |-> evalBoolExpr(IncludeWhen[n][i], ctx)]
           True == \A i \in 1..Len(IncludeWhen[n]) : vals[i] = "true"
           Open == \A d \in IncludeRefs(n) \ {Schema} :
                       d \in Deps[n] /\ checkObservedReadiness(d) = {"ready"}
<1>0. /\ Deps[n] \subseteq Nodes /\ Len(IncludeWhen[n]) \in Nat
      /\ DOMAIN IncludeWhen[n] = 1..Len(IncludeWhen[n])
      /\ ThisCall.observed = observed
  BY RuntimeAssumption DEF ThisCall
<1>1. ctx = IncludeContext(n, ThisCall.observed, xr)
  BY <1>0, ContextOfDeps DEF IncludeContext
<1>2. IncludedIn(n, ThisCall, xr) <=> Open /\ True
  <2>1. True <=> \A i \in 1..Len(IncludeWhen[n]) :
                    evalBoolExpr(IncludeWhen[n][i], IncludeContext(n, ThisCall.observed, xr)) = "true"
    BY <1>1
  <2>2. Open <=> \A d \in IncludeRefs(n) \ {Schema} : d \in Deps[n] /\ ReadyIn(d, ThisCall)
    BY <1>0, ThisReady
  <2> HIDE DEF True, Open
  <2> QED
    BY <2>1, <2>2 DEF IncludedIn
<1>3. IncludeGate(n) = {} <=> Open
  <2>1. \A d \in Deps[n] : /\ checkObservedReadiness(d) # {}
                           /\ checkObservedReadiness(d) \subseteq {"ready", "waiting", "error"}
    BY <1>0, ReadinessValues, ReadinessIsGiven
  <2>2. ASSUME NEW d \in Deps[n]
        PROVE  {IF r = "waiting" THEN "pending" ELSE r : r \in checkObservedReadiness(d)} \subseteq {"ready"}
                 <=> checkObservedReadiness(d) = {"ready"}
    BY <2>1
  <2> DEFINE answers(d) == IF d \notin Deps[n] THEN {"error"}
                           ELSE {IF r = "waiting" THEN "pending" ELSE r :
                                     r \in checkObservedReadiness(d)}
  <2>3. \A d : answers(d) \subseteq {"ready"} <=> d \in Deps[n] /\ checkObservedReadiness(d) = {"ready"}
    BY <2>2
  <2>4. IncludeGate(n) = (UNION {answers(d) : d \in IncludeRefs(n) \ {Schema}}) \ {"ready"}
    BY DEF IncludeGate
  <2> HIDE DEF answers
  <2>5. IncludeGate(n) = {} <=> \A d \in IncludeRefs(n) \ {Schema} : answers(d) \subseteq {"ready"}
    BY <2>4
  <2> QED
    BY <2>3, <2>5
<1>4. EvalIncludeWhen(n) = "included" <=> True
  <2>1. Len(vals) = Len(IncludeWhen[n]) /\ DOMAIN vals = 1..Len(IncludeWhen[n])
    BY <1>0
  <2>2. EvalIncludeWhen(n) = "included" <=> FirstNotTrue(vals) = Len(IncludeWhen[n]) + 1
    BY DEF EvalIncludeWhen, IncludeVerdict
  <2> HIDE DEF vals
  <2>3. CASE True
    BY <2>1, <2>2, <2>3 DEF FirstNotTrue
  <2>4. CASE ~True
    <3>1. FirstNotTrue(vals) \in 1..Len(IncludeWhen[n])
      BY <1>0, <2>1, <2>4, FirstNotTrueIsFirst
    <3> QED
      BY <1>0, <2>2, <2>4, <3>1
  <2> QED
    BY <2>3, <2>4
<1> HIDE DEF True, Open
<1>5. CASE Len(IncludeWhen[n]) = 0
  <2>1. IncludeRefs(n) = {}
    BY <1>0, <1>5 DEF IncludeRefs
  <2>2. Open /\ True
    BY <1>5, <2>1 DEF Open, True
  <2> QED
    BY <1>2, <1>5, <2>2 DEF OwnInclusion
<1>6. CASE Len(IncludeWhen[n]) # 0
  <2>1. OwnInclusion(n) = IF IncludeGate(n) # {} THEN IncludeGate(n) ELSE {EvalIncludeWhen(n)}
    BY <1>6 DEF OwnInclusion
  <2>2. "included" \notin IncludeGate(n)
    BY GateValues
  <2> QED
    BY <1>2, <1>3, <1>4, <2>1, <2>2
<1> QED
  BY <1>5, <1>6

(* And so is what its template resolves to.                                *)
LEMMA ThisResolves ==
    ASSUME NEW n \in Nodes
    PROVE  /\ ResolvesIn(n, ThisCall, xr) <=> Resolution(n).out = "ok"
           /\ Resolution(n).out = "ok" => Resolution(n).items = ItemsIn(n, ThisCall, xr)
<1>1. buildContext(n, {}) = ContextOf(n, {}, ThisCall.observed, xr)
  BY ContextOfDeps DEF ThisCall
<1>2. CASE Kind[n] = "collection"
  <2>1. Resolution(n) = hardResolveCollection(n)
    BY <1>2 DEF Resolution
  <2>2. Resolution(n).out = "ok" <=> ResolvesIn(n, ThisCall, xr)
    BY <1>1, <1>2, <2>1 DEF hardResolveCollection, ResolvesIn, Outcome
  <2>3. Resolution(n).out = "ok" => Resolution(n).items = ItemsIn(n, ThisCall, xr)
    BY <1>1, <1>2, <2>1 DEF hardResolveCollection, ItemsIn
  <2> QED
    BY <2>2, <2>3
<1>3. CASE Kind[n] # "collection"
  BY <1>1, <1>3 DEF Resolution, ResolvesIn, ItemsIn, Outcome
<1> QED
  BY <1>2, <1>3

(* So the nodes the current call may render are those its record renders.  *)
LEMMA ThisRenderable ==
    ASSUME PlainSelection, TypeOK, \A d \in Nodes : observed[d] \in Views(d), NEW n \in Nodes
    PROVE  RenderableIn(n, ThisCall, xr) <=> Renderable(n)
<1>0. Upstream[n] \subseteq Nodes /\ Deps[n] \subseteq Nodes
  BY UpstreamFacts, RuntimeAssumption
<1>1. (\A a \in Upstream[n] : IncludedIn(a, ThisCall, xr)) <=> Included(n)
  BY <1>0, ThisIncluded DEF Included
<1>2. (\A d \in Deps[n] : ReadyIn(d, ThisCall))
        <=> \A d \in Deps[n] : checkObservedReadiness(d) = {"ready"}
  BY <1>0, ThisReady
<1>3. ASSUME Included(n)
      PROVE  ResolveGate(n) = {"ready"} <=> \A d \in Deps[n] : checkObservedReadiness(d) = {"ready"}
  <2>1. ResolveGate(n) = {"ready"} => \A d \in Deps[n] : checkObservedReadiness(d) = {"ready"}
    BY <1>3, GateOfIncluded
  <2>2. ASSUME \A d \in Deps[n] : checkObservedReadiness(d) = {"ready"}
        PROVE  ResolveGate(n) = {"ready"}
    <3>1. \A d \in Deps[n] : CheckReadiness(d) = {"ready"}
      BY <1>3, <2>2, IncludedDeps DEF CheckReadiness
    <3> QED
      BY <3>1 DEF ResolveGate
  <2> QED
    BY <2>1, <2>2
<1> QED
  BY <1>1, <1>2, <1>3, ThisResolves DEF RenderableIn, Renderable

----
(* The invariants                                                          *)

(* The names of composed resources do not depend on the state; a node's    *)
(* items are what its template expands to.                                 *)
LEMMA ItemsStep ==
    ASSUME CallInv, ItemsInv, [RunFunction]_vars
    PROVE  ItemsInv'
<1>0. TypeOK /\ RenderInv
  BY DEF CallInv
<1>1. CASE \/ ObserveExternals \/ ObserveComposed
  <2>1. /\ phase \in {"externals", "selectors"}
        /\ UNCHANGED <<computed, desired, dcds>>
    BY <1>1 DEF ObserveExternals, ObserveComposed
  <2>2. (\A n \in computed : ~Managed(n)) /\ dcds = PriorDesired
    BY <1>0, <2>1 DEF RenderInv
  <2> QED
    BY <2>1, <2>2 DEF ItemsInv
<1>2. ASSUME NEW n \in Nodes, SelectExternal(n)
      PROVE  ItemsInv'
  <2>1. /\ phase = "selectors" /\ dcds' = dcds
        /\ \/ computed' = computed
           \/ Kind[n] = "externalCollection" /\ computed' = computed \cup {n}
    BY <1>2 DEF SelectExternal, externalCollectionSelector
  <2>2. (\A m \in computed : ~Managed(m)) /\ dcds = PriorDesired
    BY <1>0, <2>1 DEF RenderInv
  <2>3. \A m \in computed' : ~Managed(m)
    BY <2>1, <2>2 DEF Managed
  <2> QED
    BY <2>1, <2>2, <2>3 DEF ItemsInv
<1>3. CASE \/ ResolveSchemas \/ SetDesiredComposed \/ SetDesiredStatus \/ UNCHANGED vars
  <2>1. UNCHANGED <<xr, observed, computed, desired, dcds>>
    BY <1>3 DEF ResolveSchemas, SetDesiredComposed, SetDesiredStatus, vars, runtimeVars
  <2>2. \A n \in computed : Resolution(n)' = Resolution(n)
    BY <1>0, <2>1, ResolutionFrame DEF TypeOK
  <2> QED
    BY <2>1, <2>2 DEF ItemsInv
<1>4. ASSUME NEW n \in Nodes, BuildNode(n)
      PROVE  ItemsInv'
  <2>1. UNCHANGED <<xr, observed>>
    BY <1>4 DEF BuildNode
  <2>2. \A m \in Nodes : Resolution(m)' = Resolution(m)
    BY <2>1, ResolutionFrame
  <2>3. CASE UNCHANGED <<computed, desired, dcds>>
    BY <1>0, <2>2, <2>3 DEF ItemsInv, TypeOK
  <2>4. ASSUME Managed(n), "included" \in IsIgnored(n), NEW r \in GetDesired(n), r.out = "ok",
               AddDesired(n, r.items)
        PROVE  ItemsInv'
    <3>1. r = Resolution(n)
      <4>1. PICK g \in ResolveGate(n) :
                   r = IF g = "ready" THEN Resolution(n) ELSE [out |-> g, items |-> {}]
        BY <2>4 DEF GetDesired
      <4>2. ResolveGate(n) \subseteq {"ready", "pending", "error"}
        BY <2>4, IncludedIsCertain, GateOfIncluded
      <4> QED
        BY <2>4, <4>1, <4>2
    <3>2. /\ computed' = computed \cup {n} /\ desired' = [desired EXCEPT ![n] = r.items]
          /\ \A k \in ComposedKeys : k \notin ComposedNames(n, r.items) => dcds'[k] = dcds[k]
      BY <2>4 DEF AddDesired
    <3>3. desired'[n] = r.items /\ \A m \in Nodes : m # n => desired'[m] = desired[m]
      BY <1>0, <3>2 DEF TypeOK
    <3>4. ASSUME NEW m \in computed', Managed(m)
          PROVE  desired'[m] = Resolution(m)'.items
      <4>1. m \in Nodes
        BY <1>0, <3>2 DEF TypeOK
      <4> QED
        BY <2>2, <3>1, <3>2, <3>3, <3>4, <4>1 DEF ItemsInv
    <3>5. ASSUME NEW k \in ComposedKeys, dcds'[k] # PriorDesired[k]
          PROVE  k[1] \in computed' /\ k \in ComposedNames(k[1], desired'[k[1]])
      <4>0. r.items \in SUBSET Items
        BY <2>4, ResolutionItems
      <4>1. CASE k \in ComposedNames(n, r.items)
        <5>1. k[1] = n
          BY <2>4, <4>0, <4>1, NamesOfNode
        <5> QED
          BY <3>2, <3>3, <4>1, <5>1
      <4>2. CASE k \notin ComposedNames(n, r.items)
        <5>1. dcds[k] # PriorDesired[k]
          BY <3>2, <3>5, <4>2
        <5>2. k[1] \in computed /\ k \in ComposedNames(k[1], desired[k[1]]) /\ k[1] \in Nodes
          BY <1>0, <5>1 DEF ItemsInv, TypeOK
        <5>3. k[1] # n
          <6> SUFFICES ASSUME k[1] = n PROVE FALSE
            OBVIOUS
          <6>1. desired[n] = r.items
            BY <2>4, <3>1, <5>2 DEF ItemsInv
          <6> QED
            BY <4>2, <5>2, <6>1
        <5> QED
          BY <3>2, <3>3, <5>2, <5>3
      <4> QED
        BY <4>1, <4>2
    <3> QED
      BY <3>4, <3>5 DEF ItemsInv
  <2>5. \/ UNCHANGED <<computed, desired, dcds>>
        \/ /\ Managed(n) /\ "included" \in IsIgnored(n)
           /\ \E r \in GetDesired(n) : r.out = "ok" /\ AddDesired(n, r.items)
    BY <1>4 DEF BuildNode, SkipNode
  <2> QED
    BY <2>3, <2>4, <2>5
<1> QED
  BY <1>1, <1>2, <1>3, <1>4 DEF RunFunction

(* What was fetched by a call that can be observed.                        *)
LEMMA FetchedInIsFetching ==
    ASSUME NEW c \in Calls, \A n \in Nodes : c.observed[n] \in Views(n)
    PROVE  FetchedIn(c) \in Fetchings
<1>1. FetchedIn(c) = [n \in Nodes |-> FetchedIn(c)[n]]
  BY DEF FetchedIn
<1>2. \A n \in Nodes : FetchedIn(c)[n] = {} \/ (External(n) /\ FetchedIn(c)[n] = ExternalPool[n])
  BY DEF FetchedIn, Views
<1> QED
  BY <1>1, <1>2, FetchingIs

(* What a successful call knew and decided.                                *)
LEMMA ThisCallIs ==
    ASSUME PlainSelection, XInv, RoundInv, ItemsInv, phase = "done", rsp.result = "ok"
    PROVE  /\ ThisCall \in Calls /\ xr = req.xr /\ xr \in Specs
           /\ \A n \in Nodes : observed[n] \in Views(n)
           /\ \A n \in Nodes : Managed(n) => observed[n] = GroupObserved(n)
           /\ FetchedIn(ThisCall) = Fetched
           /\ rsp.requirements = Selection(Fetched, xr)
           /\ rsp.composed = dcds
           /\ \A n \in ThisCall.computed :
                 /\ n \in Nodes /\ n \in computed
                 /\ RenderableIn(n, ThisCall, xr) /\ desired[n] = ItemsIn(n, ThisCall, xr)
           /\ \A n \in Nodes : RenderableIn(n, ThisCall, xr) =>
                 n \in ThisCall.computed /\ desired[n] = ItemsIn(n, ThisCall, xr)
<1>1. TypeOK /\ RenderInv /\ ObservedIsSnapshot /\ SelectInv
  BY DEF XInv, CallInv, RoundInv
<1>2. ThisCall \in Calls
  BY <1>1 DEF ThisCall, Calls, TypeOK
<1>3. /\ xr = req.xr /\ xr \in Specs /\ rsp.requirements = Selection(Fetched, xr)
      /\ \A n \in Nodes : Managed(n) => observed[n] = GroupObserved(n)
      /\ \A n \in Nodes : External(n) => observed[n] = req.required[n]
  BY <1>1 DEF SelectInv, ObservedIsSnapshot, TypeOK
<1>4. \A n \in Nodes : observed[n] \in Views(n)
  BY ObservedInViews
<1>5. FetchedIn(ThisCall) = Fetched
  BY <1>3 DEF FetchedIn, Fetched, ThisCall
<1>6. rsp.composed = dcds /\ idx = Len(Order) + 1 /\ PassedAreRendered
  BY <1>1 DEF RenderInv
<1>7. \A n \in Nodes : RenderableIn(n, ThisCall, xr) <=> Renderable(n)
  BY <1>1, <1>4, ThisRenderable
<1>8. ASSUME NEW n \in Nodes, n \in computed, Renderable(n)
      PROVE  desired[n] = ItemsIn(n, ThisCall, xr)
  <2>1. Managed(n) /\ Resolution(n).out = "ok"
    BY <1>8 DEF Renderable
  <2> QED
    BY <1>8, <2>1, ThisResolves DEF ItemsInv
<1>9. ASSUME NEW n \in ThisCall.computed
      PROVE  n \in Nodes /\ n \in computed /\ Renderable(n)
  <2>1. n \in computed /\ Managed(n)
    BY DEF ThisCall
  <2> QED
    BY <1>1, <2>1 DEF RenderInv, RenderedAreRenderable, TypeOK
<1>10. ASSUME NEW n \in Nodes, Renderable(n)
       PROVE  n \in ThisCall.computed /\ n \in computed
  <2>1. n \in computed /\ Managed(n)
    BY <1>1, <1>6, <1>10, AllPassed DEF Renderable
  <2> QED
    BY <2>1 DEF ThisCall
<1> QED
  BY <1>2, <1>3, <1>4, <1>5, <1>6, <1>7, <1>8, <1>9, <1>10

(* What there is, the next response that is applied desires: it is decided *)
(* on more than the last one was.                                          *)
LEMMA NothingLost ==
    ASSUME PersistentExpressions, PlainSelection, XInv, RoundInv, ItemsInv, ProgressInv,
           Undisturbed, NEW w \in Calls, LastApplied(w),
           Responded, rsp.result = "ok", Stable
    PROVE  \A k \in ManagedKeys : cluster[k] # Absent => rsp.composed[k] # Absent
<1>1. busy /\ phase = "done" /\ rsp.requirements = asked /\ changes = 0 /\ faults = 0
  BY DEF Responded, Stable, Undisturbed
<1>2. PICK c : c = ThisCall
  OBVIOUS
<1>3. /\ c \in Calls /\ xr = spec /\ spec \in Specs
      /\ c.observed = observed /\ c.desired = desired
      /\ \A n \in Nodes : observed[n] \in Views(n)
      /\ \A n \in Nodes : Managed(n) => observed[n] = GroupObserved(n)
      /\ FetchedIn(c) = Fetched
      /\ rsp.requirements = Selection(Fetched, spec)
      /\ rsp.composed = dcds
      /\ \A n \in c.computed : n \in computed
      /\ \A n \in Nodes : RenderableIn(n, c, spec) =>
             n \in c.computed /\ c.desired[n] = ItemsIn(n, c, spec)
  BY <1>1, <1>2, ThisCallIs DEF ThisCall, ProgressInv
<1>4. TypeOK /\ RenderInv
  BY DEF XInv, CallInv
<1>5. Extends(FetchedIn(w), Fetched)
  <2>1. FetchedIn(w) \in Fetchings /\ Fetched \in Fetchings
    <3>1. FetchedIn(w) \in Fetchings
      BY FetchedInIsFetching DEF LastApplied
    <3> QED
      BY <1>4, <3>1, FetchedIsFetching DEF RoundInv, RequestsAreTrue
  <2>2. ASSUME NEW n \in Nodes, FetchedIn(w)[n] # {}
        PROVE  External(n) /\ FetchedIn(w)[n] = w.observed[n] /\ w.observed[n] # {}
    BY <2>2 DEF FetchedIn
  <2>3. \A n \in Nodes : FetchedIn(w)[n] # {} => Selects(n, FetchedIn(w), spec)
    BY <2>2 DEF LastApplied
  <2>4. ASSUME NEW n \in Nodes, FetchedIn(w)[n] # {}, Selects(n, Fetched, spec)
        PROVE  Fetched[n] = FetchedIn(w)[n]
    <3>1. n \in asked
      BY <1>1, <1>3, <2>4 DEF Selection
    <3>2. req.required[n] = w.observed[n]
      BY <1>1, <2>2, <2>4, <3>1 DEF LastApplied
    <3> QED
      BY <2>2, <2>4, <3>2 DEF Fetched
  <2> QED
    BY <1>3, <2>1, <2>3, <2>4, FetchedStays, PersistentIsMonotone
<1>6. Follows(w, c)
  <2>1. ASSUME NEW n \in Nodes, External(n)
        PROVE  w.observed[n] = {} \/ c.observed[n] = w.observed[n]
    <3>1. FetchedIn(w)[n] = w.observed[n] /\ FetchedIn(c)[n] = c.observed[n]
      BY <2>1 DEF FetchedIn
    <3> QED
      BY <1>3, <1>5, <3>1 DEF Extends
  <2>2. ASSUME NEW n \in Nodes, Managed(n), NEW o \in w.observed[n]
        PROVE  \E p \in c.observed[n] : p.key = o.key /\ Later(o.state, p.state)
    <3>1. w.observed[n] \in Views(n)
      BY DEF LastApplied
    <3>2. o \in Objects /\ o.key[1] = n
      BY <2>2, <3>1, ViewOfManaged
    <3>3. o.key \in ManagedKeys
      BY <2>2, <3>2 DEF ManagedKeys, Objects
    <3>4. req.composed[o.key] # Absent /\ Later(o.state, req.composed[o.key])
      BY <1>1, <2>2 DEF LastApplied, Stays
    <3>5. [key |-> o.key, state |-> req.composed[o.key]] \in GroupObserved(n)
      BY <3>2, <3>3, <3>4 DEF GroupObserved
    <3> QED
      BY <1>3, <2>2, <3>4, <3>5
  <2>3. ASSUME NEW n \in Nodes, Managed(n), NEW p \in c.observed[n]
        PROVE  n \in w.computed /\ p.key \in ComposedNames(n, w.desired[n])
    <3>1. p \in GroupObserved(n)
      BY <1>3, <2>3
    <3>2. p.key \in ManagedKeys /\ p.key[1] = n /\ req.composed[p.key] # Absent
      BY <1>4, <3>1, ObservedOfNode
    <3>3. cluster[p.key] # Absent
      BY <1>1, <3>2 DEF XInv, SnapshotIsRecent
    <3> QED
      BY <3>2, <3>3 DEF LastApplied
  <2>4. \A n \in Nodes : w.observed[n] \in Views(n) /\ c.observed[n] \in Views(n)
    BY <1>3 DEF LastApplied
  <2> QED
    BY <2>1, <2>2, <2>3, <2>4 DEF Follows
<1>7. \A n \in w.computed : n \in c.computed /\ c.desired[n] = w.desired[n]
  <2>1. \A n \in w.computed : RenderableIn(n, w, spec) /\ w.desired[n] = ItemsIn(n, w, spec)
    BY DEF LastApplied
  <2> QED
    BY <1>3, <1>6, <2>1, RenderedStays
<1> SUFFICES ASSUME NEW k \in ManagedKeys, cluster[k] # Absent PROVE rsp.composed[k] # Absent
  OBVIOUS
<1>8. k[1] \in w.computed /\ k \in ComposedNames(k[1], w.desired[k[1]])
  BY DEF LastApplied
<1>9. k[1] \in computed /\ k \in ComposedNames(k[1], desired[k[1]]) /\ Managed(k[1])
  BY <1>3, <1>7, <1>8 DEF ManagedKeys
<1>10. Ours(k, dcds)
  BY <1>4, <1>9 DEF RenderInv, RenderedAreRenderable
<1> QED
  BY <1>3, <1>10 DEF Ours, ReadyStates, Absent

(* Without a fault an object in the cluster only makes progress.           *)
LEMMA ObjectsProgress ==
    ASSUME XInv, NEW k \in ManagedKeys, Progress(k), NEW c \in ManagedKeys, cluster[c] # Absent
    PROVE  cluster'[c] # Absent /\ Later(cluster[c], cluster'[c])
<1>1. cluster \in [ManagedKeys -> States \cup {Absent}]
  BY DEF XInv, XTypeOK
<1>2. CASE c = k
  BY <1>1, <1>2 DEF Progress, Later, Absent
<1>3. CASE c # k
  BY <1>1, <1>3 DEF Progress, Later
<1> QED
  BY <1>2, <1>3

(* The environment keeps what the last applied response relied on.         *)
LEMMA EnvironmentKeeps ==
    ASSUME XInv, RoundInv, NEW w \in Calls, LastApplied(w),
           UNCHANGED <<callVars, spec, asked>>, busy' => busy,
           \/ outside' = outside
           \/ \E n \in Nodes : outside' = [outside EXCEPT ![n] = ExternalPool[n]],
           \/ cluster' = cluster
           \/ \E k \in ManagedKeys : Progress(k)
    PROVE  LastApplied(w)'
<1>1. spec' = spec /\ asked' = asked /\ req' = req
  BY DEF callVars
<1>2. \A n \in Nodes : w.observed[n] \in Views(n)
  BY DEF LastApplied
<1>3. ASSUME NEW n \in Nodes, External(n), w.observed[n] # {}
      PROVE  outside'[n] = w.observed[n]
  <2>1. outside[n] = w.observed[n] /\ w.observed[n] = ExternalPool[n]
    BY <1>2, <1>3 DEF LastApplied, Views
  <2>2. outside'[n] \in {outside[n], ExternalPool[n]}
    BY DEF XInv, XTypeOK
  <2> QED
    BY <2>1, <2>2
<1>4. ASSUME NEW k \in ManagedKeys
      PROVE  /\ cluster'[k] # Absent => cluster[k] # Absent
             /\ cluster[k] # Absent => cluster'[k] # Absent /\ Later(cluster[k], cluster'[k])
  <2>1. CASE cluster' = cluster
    BY <2>1 DEF Later
  <2>2. ASSUME NEW c \in ManagedKeys, Progress(c)
        PROVE  /\ cluster'[k] # Absent => cluster[k] # Absent
               /\ cluster[k] # Absent => cluster'[k] # Absent /\ Later(cluster[k], cluster'[k])
    <3>1. cluster'[k] # Absent => cluster[k] # Absent
      BY <2>2 DEF Progress, Absent, XInv, XTypeOK
    <3> QED
      BY <2>2, <3>1, ObjectsProgress
  <2> QED
    BY <2>1, <2>2
<1>5. Stays(w, cluster')
  <2> SUFFICES ASSUME NEW n \in Nodes, Managed(n), NEW o \in w.observed[n]
               PROVE  cluster'[o.key] # Absent /\ Later(o.state, cluster'[o.key])
    BY DEF Stays
  <2>1. o \in Objects /\ o.key[1] = n
    BY <1>2, ViewOfManaged
  <2>2. o.key \in ManagedKeys
    BY <2>1 DEF ManagedKeys, Objects
  <2>3. cluster[o.key] # Absent /\ Later(o.state, cluster[o.key])
    BY DEF LastApplied, Stays
  <2> QED
    BY <1>4, <2>2, <2>3, LaterAndLater
<1>6. \A k \in ManagedKeys : cluster'[k] # Absent =>
          k[1] \in w.computed /\ k \in ComposedNames(k[1], w.desired[k[1]])
  BY <1>4 DEF LastApplied
<1>7. \A n \in w.computed : RenderableIn(n, w, spec') /\ w.desired[n] = ItemsIn(n, w, spec')
  BY <1>1 DEF LastApplied
<1>8. \A n \in Nodes : External(n) /\ w.observed[n] # {} => Selects(n, FetchedIn(w), spec')
  BY <1>1 DEF LastApplied
<1>9. busy' => /\ Stays(w, req'.composed)
               /\ \A n \in Nodes : External(n) /\ w.observed[n] # {} /\ n \in asked' =>
                      req'.required[n] = w.observed[n]
  BY <1>1 DEF LastApplied
<1> QED
  BY <1>2, <1>3, <1>5, <1>6, <1>7, <1>8, <1>9 DEF LastApplied

(* A response that is applied becomes the last one.                        *)
LEMMA ApplyKeeps ==
    ASSUME PersistentExpressions, PlainSelection, OwnNames, XInv, RoundInv, ItemsInv,
           ProgressInv, Undisturbed, NEW w \in Calls, LastApplied(w), Apply
    PROVE  /\ \E c \in Calls : LastApplied(c)'
           /\ \A k \in ManagedKeys : cluster[k] # Absent => cluster'[k] # Absent
<1>1. /\ Responded /\ rsp.result # "fatal" /\ Stable /\ busy' = FALSE
      /\ cluster' = [k \in ManagedKeys |->
                        IF rsp.composed[k] = Absent THEN Absent
                        ELSE IF cluster[k] = Absent THEN "bare"
                        ELSE cluster[k]]
      /\ UNCHANGED <<callVars, spec, outside>>
  BY DEF Apply
<1>2. busy /\ phase = "done" /\ rsp.result = "ok" /\ rsp.requirements = asked
      /\ changes = 0 /\ faults = 0
  <2>1. rsp.result # "wait"
    <3>1. busy
      BY <1>1 DEF Responded
    <3> QED
      BY <1>1, <3>1 DEF XInv, WaitsUnanswered, Stable
  <2> QED
    BY <1>1, <2>1 DEF Responded, Stable, Undisturbed, RoundInv, AskedIsSelected, XInv,
                      CallInv, TypeOK
<1>3. \A k \in ManagedKeys : cluster[k] # Absent => rsp.composed[k] # Absent
  BY <1>1, <1>2, NothingLost
<1>4. \A k \in ManagedKeys : cluster[k] # Absent => cluster'[k] = cluster[k]
  BY <1>1, <1>3
<1>5. PICK c : c = ThisCall
  OBVIOUS
<1>6. /\ c \in Calls /\ xr = spec
      /\ c.observed = observed /\ c.desired = desired
      /\ c.computed = {n \in computed : Managed(n)}
      /\ \A n \in Nodes : observed[n] \in Views(n)
      /\ \A n \in Nodes : Managed(n) => observed[n] = GroupObserved(n)
      /\ FetchedIn(c) = Fetched
      /\ rsp.requirements = Selection(Fetched, spec)
      /\ rsp.composed = dcds
      /\ \A n \in c.computed : RenderableIn(n, c, spec) /\ c.desired[n] = ItemsIn(n, c, spec)
  BY <1>2, <1>5, ThisCallIs DEF ThisCall, ProgressInv
<1>7. ASSUME NEW n \in Nodes, External(n), c.observed[n] # {}
      PROVE  Selects(n, FetchedIn(c), spec) /\ outside[n] = c.observed[n]
  <2>1. observed[n] = req.required[n]
    BY <1>2, <1>7 DEF RoundInv, SelectInv
  <2>2. n \in asked /\ outside[n] = req.required[n]
    BY <1>2, <1>6, <1>7, <2>1 DEF RoundInv, RequestsAreTrue
  <2>3. n # SchemaReq
    BY FunctionAssumption
  <2> QED
    BY <1>2, <1>6, <2>1, <2>2, <2>3 DEF Selection
<1>8. ASSUME NEW k \in ManagedKeys, cluster'[k] # Absent
      PROVE  k[1] \in c.computed /\ k \in ComposedNames(k[1], c.desired[k[1]])
  <2>1. dcds[k] # Absent /\ k \in ComposedKeys /\ Managed(k[1])
    BY <1>1, <1>6, <1>8 DEF ComposedKeys, ManagedKeys
  <2>2. PriorDesired[k] = Absent
    BY <2>1 DEF OwnNames, PriorDesired
  <2> QED
    BY <1>6, <2>1, <2>2 DEF ItemsInv
<1>9. Stays(c, cluster')
  <2> SUFFICES ASSUME NEW n \in Nodes, Managed(n), NEW o \in c.observed[n]
               PROVE  cluster'[o.key] # Absent /\ Later(o.state, cluster'[o.key])
    BY DEF Stays
  <2>1. o \in GroupObserved(n) /\ TypeOK
    BY <1>6 DEF XInv, CallInv
  <2>2. /\ o.key \in ManagedKeys /\ o.state = req.composed[o.key]
        /\ req.composed[o.key] # Absent
    BY <2>1, ObservedOfNode
  <2>3. cluster[o.key] # Absent /\ Later(o.state, cluster[o.key])
    BY <1>2, <2>2 DEF XInv, SnapshotIsRecent, ProgressInv
  <2> QED
    BY <1>4, <2>2, <2>3
<1>10. \A n \in Nodes : c.observed[n] \in Views(n)
  BY <1>6
<1>11. spec' = spec /\ outside' = outside /\ ~busy'
  BY <1>1
<1>12. LastApplied(c)'
  BY <1>6, <1>7, <1>8, <1>9, <1>10, <1>11 DEF LastApplied
<1> QED
  BY <1>4, <1>6, <1>12

(* The invariant of all that stays.                                        *)
StayInv == ItemsInv /\ ProgressInv /\ KeptInv

(* At the start nothing has been applied and there is nothing to keep.     *)
LEMMA StayInit == XInit => StayInv
<1> SUFFICES ASSUME XInit PROVE StayInv
  OBVIOUS
<1>1. /\ computed = {} /\ dcds = PriorDesired /\ busy = FALSE
      /\ cluster = [k \in ManagedKeys |-> Absent]
  BY DEF XInit
<1>2. ItemsInv
  BY <1>1 DEF ItemsInv
<1>3. ~busy
  BY <1>1
<1>4. ProgressInv
  BY <1>3 DEF ProgressInv
<1>5. KeptInv
  <2> DEFINE w == [observed |-> [n \in Nodes |-> {}], computed |-> {},
                   desired |-> [n \in Nodes |-> {}]]
  <2>1. w \in Calls /\ w.computed = {} /\ \A n \in Nodes : w.observed[n] = {}
    BY DEF Calls
  <2>2. \A n \in Nodes : {} \in Views(n)
    BY DEF Views
  <2> HIDE DEF w
  <2>3. LastApplied(w)
    BY <1>1, <1>3, <2>1, <2>2 DEF LastApplied, Stays
  <2> QED
    BY <2>1, <2>3 DEF KeptInv
<1> QED
  BY <1>2, <1>4, <1>5 DEF StayInv

(* A reconcile begins, or goes on with the next round.                     *)
LEMMA CallKeeps ==
    ASSUME XInv, RoundInv, StayInv, StartReconcile \/ CallAgain
    PROVE  StayInv'
<1>1. /\ computed' = {} /\ dcds' = PriorDesired
      /\ UNCHANGED <<spec, changes, faults, cluster, outside>>
  BY DEF StartReconcile, CallAgain, Call, envVars
<1>2. ItemsInv'
  BY <1>1 DEF ItemsInv
<1>3. CASE StartReconcile
  <2>1. /\ req' = [xr |-> spec, composed |-> cluster, required |-> NoRequired, schemas |-> "none"]
        /\ asked' = {}
    BY <1>3 DEF StartReconcile, Call
  <2>2. req'.xr = spec /\ req'.composed = cluster
    BY <2>1
  <2>3. ProgressInv'
    BY <1>1, <2>2 DEF ProgressInv, Later
  <2>4. ASSUME NEW w \in Calls, LastApplied(w) PROVE LastApplied(w)'
    BY <1>1, <2>1, <2>2, <2>4 DEF LastApplied
  <2>5. KeptInv'
    BY <1>1, <2>4 DEF StayInv, KeptInv, Undisturbed
  <2> QED
    BY <1>2, <2>3, <2>5 DEF StayInv
<1>4. CASE CallAgain
  <2>1. /\ busy /\ busy' = busy /\ asked' = rsp.requirements
        /\ req' = [req EXCEPT !.required = [n \in Nodes |-> IF n \in rsp.requirements
                                                            THEN outside[n] ELSE {}],
                              !.schemas = IF SchemaReq \in rsp.requirements
                                          THEN "usable" ELSE "none"]
    BY <1>4 DEF CallAgain, Call, Responded
  <2>2. req'.xr = req.xr /\ req'.composed = req.composed
        /\ \A n \in Nodes : n \in asked' => req'.required[n] = outside[n]
    BY <2>1 DEF XInv, CallInv, TypeOK, Requests
  <2>3. ProgressInv'
    BY <1>1, <2>1, <2>2 DEF StayInv, ProgressInv
  <2>4. ASSUME NEW w \in Calls, LastApplied(w) PROVE LastApplied(w)'
    BY <1>1, <2>1, <2>2, <2>4 DEF LastApplied
  <2>5. KeptInv'
    BY <1>1, <2>4 DEF StayInv, KeptInv, Undisturbed
  <2> QED
    BY <1>2, <2>3, <2>5 DEF StayInv
<1> QED
  BY <1>3, <1>4

(* Every step keeps the invariant, and undisturbed, no step deletes.       *)
LEMMA StayStep ==
    ASSUME PersistentExpressions, PlainSelection, OwnNames, XInv, RoundInv, StayInv,
           [XNext]_allVars
    PROVE  /\ StayInv'
           /\ Undisturbed =>
                 \A k \in ManagedKeys : cluster[k] # Absent => cluster'[k] # Absent
<1>0. /\ ItemsInv /\ ProgressInv /\ KeptInv /\ CallInv
      /\ cluster \in [ManagedKeys -> States \cup {Absent}]
      /\ changes \in Nat /\ faults \in Nat
  BY CrossplaneAssumption DEF StayInv, XInv, XTypeOK
<1>1. CASE StartReconcile \/ CallAgain
  <2>1. cluster' = cluster
    BY <1>1 DEF StartReconcile, CallAgain, envVars
  <2> QED
    BY <1>1, <2>1, CallKeeps
<1>2. CASE FunctionStep
  <2>1. RunFunction /\ UNCHANGED <<spec, changes, faults, cluster, outside, busy, asked, round>>
    BY <1>2 DEF FunctionStep, envVars, reconcileVars
  <2>2. req' = req /\ ItemsInv'
    BY <1>0, <2>1, RequestIsKept, ItemsStep
  <2>3. ProgressInv'
    BY <1>0, <2>1, <2>2 DEF ProgressInv
  <2>4. ASSUME NEW w \in Calls, LastApplied(w) PROVE LastApplied(w)'
    BY <2>1, <2>2, <2>4 DEF LastApplied
  <2>5. KeptInv'
    BY <1>0, <2>1, <2>4 DEF KeptInv, Undisturbed
  <2> QED
    BY <2>1, <2>2, <2>3, <2>5 DEF StayInv
<1>3. ASSUME UNCHANGED callVars PROVE ItemsInv'
  <2>1. UNCHANGED vars
    BY <1>3 DEF callVars, vars
  <2> QED
    BY <1>0, <2>1, ItemsStep
<1>4. CASE Apply
  <2>1. /\ UNCHANGED callVars /\ ~busy' /\ UNCHANGED <<changes, faults>>
    BY <1>4 DEF Apply
  <2>2. ItemsInv' /\ ProgressInv'
    BY <1>3, <2>1 DEF ProgressInv
  <2>3. ASSUME Undisturbed
        PROVE  /\ \E c \in Calls : LastApplied(c)'
               /\ \A k \in ManagedKeys : cluster[k] # Absent => cluster'[k] # Absent
    <3>1. PICK w \in Calls : LastApplied(w)
      BY <1>0, <2>3 DEF KeptInv
    <3> QED
      BY <1>0, <1>4, <2>3, <3>1, ApplyKeeps
  <2>4. KeptInv'
    BY <2>1, <2>3 DEF KeptInv, Undisturbed
  <2> QED
    BY <2>2, <2>3, <2>4 DEF StayInv
<1>5. ASSUME UNCHANGED <<callVars, spec, changes, faults, asked>>, busy' => busy,
             \/ outside' = outside
             \/ \E n \in Nodes : outside' = [outside EXCEPT ![n] = ExternalPool[n]],
             \/ cluster' = cluster
             \/ \E k \in ManagedKeys : Progress(k)
      PROVE  /\ StayInv'
             /\ \A k \in ManagedKeys : cluster[k] # Absent => cluster'[k] # Absent
  <2>1. req' = req
    BY <1>5 DEF callVars
  <2>2. ASSUME NEW k \in ManagedKeys, cluster[k] # Absent
        PROVE  cluster'[k] # Absent /\ Later(cluster[k], cluster'[k])
    BY <1>5, <2>2, ObjectsProgress DEF Later
  <2>3. ProgressInv'
    <3> SUFFICES ASSUME busy'
                 PROVE  /\ changes = 0 => req.xr = spec
                        /\ faults = 0 => \A k \in ManagedKeys :
                               req.composed[k] # Absent => Later(req.composed[k], cluster'[k])
      BY <1>5, <2>1 DEF ProgressInv
    <3>1. \A k \in ManagedKeys : req.composed[k] # Absent => cluster[k] # Absent
      BY <1>5 DEF XInv, SnapshotIsRecent
    <3> QED
      BY <1>0, <1>5, <2>2, <3>1, LaterAndLater DEF ProgressInv
  <2>4. KeptInv'
    <3>1. ASSUME NEW w \in Calls, LastApplied(w) PROVE LastApplied(w)'
      BY <1>5, <3>1, EnvironmentKeeps
    <3> QED
      BY <1>0, <1>5, <3>1 DEF KeptInv, Undisturbed
  <2> QED
    BY <1>3, <1>5, <2>2, <2>3, <2>4 DEF StayInv
<1>6. CASE Abandon
  BY <1>5, <1>6 DEF Abandon, envVars
<1>7. ASSUME NEW k \in ManagedKeys, Progress(k)
      PROVE  /\ StayInv'
             /\ \A c \in ManagedKeys : cluster[c] # Absent => cluster'[c] # Absent
  <2>1. UNCHANGED <<callVars, spec, changes, faults, asked, busy, outside>>
    BY <1>7 DEF Progress, reconcileVars
  <2> QED
    BY <1>5, <1>7, <2>1
<1>8. ASSUME NEW k \in ManagedKeys, Regress(k)
      PROVE  /\ StayInv'
             /\ \A c \in ManagedKeys : cluster[c] # Absent => cluster'[c] # Absent
  <2>1. /\ UNCHANGED <<callVars, spec, changes, busy>> /\ faults' = faults + 1
        /\ cluster' = [cluster EXCEPT ![k] = "notReady"]
    BY <1>8 DEF Regress, reconcileVars
  <2>2. faults' # 0 /\ req' = req
    BY <1>0, <2>1 DEF callVars
  <2>3. ProgressInv' /\ KeptInv'
    BY <1>0, <2>1, <2>2 DEF ProgressInv, KeptInv, Undisturbed
  <2>4. \A c \in ManagedKeys : cluster[c] # Absent => cluster'[c] # Absent
    BY <1>0, <2>1 DEF Absent
  <2> QED
    BY <1>3, <2>1, <2>3, <2>4 DEF StayInv
<1>9. ASSUME NEW n \in Nodes, ExternalAppears(n)
      PROVE  /\ StayInv'
             /\ \A c \in ManagedKeys : cluster[c] # Absent => cluster'[c] # Absent
  <2>1. /\ UNCHANGED <<callVars, spec, changes, faults, asked, busy, cluster>>
        /\ outside' = [outside EXCEPT ![n] = ExternalPool[n]]
    BY <1>9 DEF ExternalAppears, reconcileVars
  <2> QED
    BY <1>5, <2>1
<1>10. ASSUME NEW s \in Specs, ChangeSpec(s)
       PROVE  /\ StayInv'
              /\ \A c \in ManagedKeys : cluster[c] # Absent => cluster'[c] # Absent
  <2>1. UNCHANGED <<callVars, faults, busy, cluster>> /\ changes' = changes + 1
    BY <1>10 DEF ChangeSpec, reconcileVars
  <2>2. changes' # 0 /\ req' = req
    BY <1>0, <2>1 DEF callVars
  <2>3. ProgressInv' /\ KeptInv'
    BY <1>0, <2>1, <2>2 DEF ProgressInv, KeptInv, Undisturbed
  <2> QED
    BY <1>3, <2>1, <2>3 DEF StayInv
<1>11. CASE UNCHANGED allVars
  <2>1. UNCHANGED <<callVars, spec, changes, faults, asked, busy, cluster, outside>>
    BY <1>11 DEF allVars, envVars, reconcileVars
  <2> QED
    BY <1>5, <2>1
<1> QED
  BY <1>1, <1>2, <1>4, <1>6, <1>7, <1>8, <1>9, <1>10, <1>11 DEF XNext, Reconcile

(* As long as the spec is the same and nothing that was ready becomes      *)
(* unready, no composed resource is deleted, although every reconcile      *)
(* starts with a call that knows less and desires less: such a response    *)
(* is never final.  The graph's expressions have to keep their answers as  *)
(* objects make progress; the run with a fault shows what happens if one   *)
(* does not.                                                               *)
THEOREM NothingIsEverDeleted ==
    ASSUME PersistentExpressions, PlainSelection, OwnNames
    PROVE  XSpec => NothingIsDeleted
<1>1. MonotoneExpressions
  BY PersistentIsMonotone
<1>2. XSpec => [](XInv /\ RoundInv)
  BY <1>1, RoundInvariant
<1>3. XInv /\ RoundInv /\ StayInv /\ [XNext]_allVars => StayInv'
  BY StayStep
<1>4. XInv /\ RoundInv /\ StayInv /\ [XNext]_allVars =>
        [Undisturbed => \A k \in ManagedKeys : cluster[k] # Absent => cluster'[k] # Absent]_allVars
  BY StayStep
<1> QED
  BY <1>2, <1>3, <1>4, StayInit, PTL DEF XSpec, NothingIsDeleted

====
