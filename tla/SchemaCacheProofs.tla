---- MODULE SchemaCacheProofs ----
(***************************************************************************)
(* Safety of the schema cache for any number of callers, schemas and       *)
(* revisions, any size of the cache and any time to live.                  *)
(***************************************************************************)
EXTENDS SchemaCache, TLAPS

(* What Add does to the cache: the entry is there with its revision, and   *)
(* any other entry either stays as it is or is gone.                       *)
LEMMA AddEffect ==
    ASSUME TypeOK, NEW g \in GVKs, NEW r \in Nat, Add(g, r)
    PROVE  /\ cache' \in [GVKs -> Nat \cup {None}]
           /\ age' \in [GVKs -> 0..TTL]
           /\ cache'[g] = r
           /\ \A h \in GVKs \ {g} :
                 \/ cache'[h] = None
                 \/ cache'[h] = cache[h] /\ age'[h] = age[h]
  <1>1. PICK evicted \in SUBSET (Entries \ {g}) :
            /\ cache' = [h \in GVKs |-> IF h = g THEN r
                                        ELSE IF h \in evicted THEN None ELSE cache[h]]
            /\ age' = [h \in GVKs |-> IF h = g \/ h \in evicted THEN 0 ELSE age[h]]
    BY DEF Add
  <1>2. cache' \in [GVKs -> Nat \cup {None}]
    BY <1>1 DEF TypeOK
  <1>3. age' \in [GVKs -> 0..TTL]
    BY <1>1, CacheAssumption DEF TypeOK
  <1> QED BY <1>1, <1>2, <1>3 DEF TypeOK

(* The initial state has the right types.                                  *)
LEMMA TypeInit == Init => TypeOK
  BY CacheAssumption DEF Init, TypeOK, None, Error

(* Every step keeps the types: what is stored is a revision, never an      *)
(* error.                                                                  *)
LEMMA TypeStep ==
    ASSUME TypeOK, ErrorInv, [Next]_vars
    PROVE  TypeOK'
  <1> USE CacheAssumption
  <1>1. ASSUME NEW p \in Callers, NEW g \in Asks[p], Call(p, g) PROVE TypeOK'
    <2>1. g \in GVKs OBVIOUS
    <2> QED BY <1>1, <2>1 DEF Call, Goto, TypeOK
  <1>2. ASSUME NEW p \in Callers, Get(p) PROVE TypeOK'
    BY <1>2 DEF Get, Goto, TypeOK
  <1>3. ASSUME NEW p \in Callers, Do(p) PROVE TypeOK'
    BY <1>3 DEF Do, Goto, TypeOK
  <1>4. ASSUME NEW p \in Callers, Check(p) PROVE TypeOK'
    BY <1>4 DEF Check, Goto, TypeOK
  <1>5. ASSUME NEW p \in Callers, Store(p) PROVE TypeOK'
    <2>1. gvk[p] \in GVKs /\ result[p] \in Nat \cup {None, Error}
      BY DEF TypeOK
    <2>2. result[p] \in Nat
      BY <1>5 DEF Store, ErrorInv
    <2>3. cache' \in [GVKs -> Nat \cup {None}] /\ age' \in [GVKs -> 0..TTL]
      BY <1>5, <2>1, <2>2, AddEffect DEF Store
    <2> QED BY <1>5, <2>1, <2>2, <2>3 DEF Store, Goto, TypeOK
  <1>6. ASSUME NEW p \in Callers, Finish(p) PROVE TypeOK'
    BY <1>6 DEF Finish, TypeOK
  <1>7. ASSUME NEW p \in Callers, Return(p) PROVE TypeOK'
    BY <1>7 DEF Return, Goto, TypeOK
  <1>8. ASSUME NEW p \in Callers, Answer(p) PROVE TypeOK'
    BY <1>8 DEF Answer, Goto, TypeOK
  <1>9. ASSUME NEW p \in Callers, Fail(p) PROVE TypeOK'
    BY <1>9 DEF Fail, Goto, TypeOK
  <1>10. ASSUME NEW g \in GVKs, Upgrade(g) PROVE TypeOK'
    BY <1>10 DEF Upgrade, callerVars, TypeOK
  <1>11. ASSUME NEW g \in GVKs, Purge(g) PROVE TypeOK'
    BY <1>11 DEF Purge, callerVars, TypeOK
  <1>12. CASE Tick
    BY <1>12 DEF Tick, callerVars, TypeOK
  <1>13. CASE UNCHANGED vars
    BY <1>13 DEF vars, callerVars, TypeOK
  <1> QED BY <1>1, <1>2, <1>3, <1>4, <1>5, <1>6, <1>7, <1>8, <1>9, <1>10, <1>11,
             <1>12, <1>13 DEF Next, Step

(* There is no flight at first.                                            *)
LEMMA FlightInit == Init => FlightInv
  BY DEF Init, FlightInv, Leads

(* Only the leader of a flight adds an entry for its GVK, so that what a   *)
(* leader did not find is not there until it stores it itself.             *)
LEMMA FlightStep ==
    ASSUME TypeOK, ErrorInv, FlightInv, [Next]_vars
    PROVE  FlightInv'
  <1> USE CacheAssumption
  <1>1. ASSUME NEW p \in Callers, NEW g \in Asks[p], Call(p, g) PROVE FlightInv'
    <2>1. g \in GVKs OBVIOUS
    <2> QED BY <1>1, <2>1 DEF Call, Goto, TypeOK, FlightInv, Leads, Live
  <1>2. ASSUME NEW p \in Callers, Get(p) PROVE FlightInv'
    BY <1>2 DEF Get, Goto, TypeOK, FlightInv, Leads, Live
  <1>3. ASSUME NEW p \in Callers, Do(p) PROVE FlightInv'
    BY <1>3 DEF Do, Goto, TypeOK, FlightInv, Leads, Live
  <1>4. ASSUME NEW p \in Callers, Check(p) PROVE FlightInv'
    BY <1>4 DEF Check, Goto, TypeOK, FlightInv, Leads, Live
  <1>5. ASSUME NEW p \in Callers, Store(p) PROVE FlightInv'
    <2>1. gvk[p] \in GVKs /\ result[p] \in Nat
      BY <1>5 DEF Store, TypeOK, ErrorInv
    <2>2. \A h \in GVKs \ {gvk[p]} : \/ cache'[h] = None
                                     \/ cache'[h] = cache[h] /\ age'[h] = age[h]
      BY <1>5, <2>1, AddEffect DEF Store
    <2>3. \A q \in Callers : /\ Leads(q)' <=> Leads(q)
                             /\ pc'[q] \in {"fetch", "store"} =>
                                   q # p /\ pc[q] \in {"fetch", "store"}
      BY <1>5 DEF Store, Goto, TypeOK, Leads
    <2>4. ASSUME NEW q \in Callers, pc'[q] \in {"fetch", "store"} PROVE ~Live(gvk[q])'
      <3>1. gvk[q] \in GVKs \ {gvk[p]}
        BY <1>5, <2>3, <2>4 DEF Store, TypeOK, FlightInv, Leads
      <3> QED BY <1>5, <2>2, <2>3, <2>4, <3>1 DEF Store, FlightInv, Live
    <2> QED BY <1>5, <2>3, <2>4 DEF Store, FlightInv
  <1>6. ASSUME NEW p \in Callers, Finish(p) PROVE FlightInv'
    BY <1>6 DEF Finish, TypeOK, FlightInv, Leads, Live
  <1>7. ASSUME NEW p \in Callers, Return(p) PROVE FlightInv'
    BY <1>7 DEF Return, Goto, TypeOK, FlightInv, Leads, Live
  <1>8. ASSUME NEW p \in Callers, Answer(p) PROVE FlightInv'
    BY <1>8 DEF Answer, Goto, TypeOK, FlightInv, Leads, Live
  <1>9. ASSUME NEW p \in Callers, Fail(p) PROVE FlightInv'
    BY <1>9 DEF Fail, Goto, TypeOK, FlightInv, Leads, Live
  <1>10. ASSUME NEW g \in GVKs, Upgrade(g) PROVE FlightInv'
    BY <1>10 DEF Upgrade, callerVars, FlightInv, Leads, Live
  <1>11. ASSUME NEW g \in GVKs, Purge(g) PROVE FlightInv'
    BY <1>11 DEF Purge, callerVars, TypeOK, FlightInv, Leads, Live
  <1>12. CASE Tick
    <2>1. \A h \in GVKs : Live(h)' => Live(h)
      BY <1>12 DEF Tick, TypeOK, Live
    <2> QED BY <1>12, <2>1 DEF Tick, callerVars, TypeOK, FlightInv, Leads
  <1>13. CASE UNCHANGED vars
    BY <1>13 DEF vars, callerVars, FlightInv, Leads, Live
  <1> QED BY <1>1, <1>2, <1>3, <1>4, <1>5, <1>6, <1>7, <1>8, <1>9, <1>10, <1>11,
             <1>12, <1>13 DEF Next, Step

(* Nothing is stored and nobody has a result at first.                     *)
LEMMA RevisionInit == Init => RevisionInv
  BY DEF Init, RevisionInv, NeverOlderThanStored, None

(* The revisions stored for a GVK only grow: its flights do not overlap,   *)
(* and each reads the server after the one before it has stored.           *)
LEMMA RevisionStep ==
    ASSUME TypeOK, ErrorInv, FlightInv, RevisionInv, [Next]_vars
    PROVE  RevisionInv'
  <1> USE CacheAssumption DEF RevisionInv, NeverOlderThanStored, None, Error
  <1>1. ASSUME NEW p \in Callers, NEW g \in Asks[p], Call(p, g) PROVE RevisionInv'
    <2>1. g \in GVKs OBVIOUS
    <2> QED BY <1>1, <2>1 DEF Call, Goto, TypeOK
  <1>2. ASSUME NEW p \in Callers, Get(p) PROVE RevisionInv'
    BY <1>2 DEF Get, Goto, TypeOK, Live
  <1>3. ASSUME NEW p \in Callers, Do(p) PROVE RevisionInv'
    BY <1>3 DEF Do, Goto, TypeOK
  <1>4. ASSUME NEW p \in Callers, Check(p) PROVE RevisionInv'
    BY <1>4 DEF Check, Goto, TypeOK, Live
  <1>5. ASSUME NEW p \in Callers, Store(p) PROVE RevisionInv'
    <2>1. gvk[p] \in GVKs /\ result[p] \in Nat
      BY <1>5 DEF Store, TypeOK, ErrorInv
    <2>2. /\ cache'[gvk[p]] = result[p]
          /\ \A h \in GVKs \ {gvk[p]} : cache'[h] \in {None, cache[h]}
      BY <1>5, <2>1, AddEffect DEF Store
    <2>3. /\ stored'[gvk[p]] = result[p]
          /\ \A h \in GVKs \ {gvk[p]} : stored'[h] = stored[h]
          /\ \A h \in GVKs : stored[h] <= stored'[h] /\ stored'[h] \in Nat \cup {None}
      BY <1>5, <2>1 DEF Store, TypeOK
    <2>4. \A q \in Callers \ {p} : Leads(q) => gvk[q] # gvk[p]
      BY <1>5 DEF Store, FlightInv, Leads
    <2>5. /\ pc'[p] = "finish" /\ \A q \in Callers \ {p} : pc'[q] = pc[q]
          /\ UNCHANGED <<current, gvk, result, floor>>
      BY <1>5 DEF Store, Goto, TypeOK
    <2>6. \A g \in GVKs : stored'[g] <= current'[g]
      BY <1>5, <2>1, <2>3, <2>5 DEF Store, TypeOK
    <2>7. \A g \in GVKs : cache'[g] # None => cache'[g] = stored'[g]
      BY <2>1, <2>2, <2>3
    <2>8. \A q \in Callers : floor'[q] <= stored'[gvk'[q]]
      BY <2>3, <2>5 DEF TypeOK
    <2>9. \A q \in Callers :
             pc'[q] = "store" => stored'[gvk'[q]] <= result'[q] /\ result'[q] <= current'[gvk'[q]]
      BY <2>3, <2>4, <2>5 DEF Leads, TypeOK
    <2>10. \A q \in Callers :
             pc'[q] = "finish" /\ result'[q] # Error => result'[q] = stored'[gvk'[q]]
      BY <2>1, <2>3, <2>4, <2>5 DEF Leads, TypeOK
    <2>11. NeverOlderThanStored'
      BY <2>5
    <2> QED BY <2>6, <2>7, <2>8, <2>9, <2>10, <2>11
  <1>6. ASSUME NEW p \in Callers, Finish(p) PROVE RevisionInv'
    BY <1>6 DEF Finish, TypeOK
  <1>7. ASSUME NEW p \in Callers, Return(p) PROVE RevisionInv'
    BY <1>7 DEF Return, Goto, TypeOK
  <1>8. ASSUME NEW p \in Callers, Answer(p) PROVE RevisionInv'
    BY <1>8 DEF Answer, Goto, TypeOK
  <1>9. ASSUME NEW p \in Callers, Fail(p) PROVE RevisionInv'
    BY <1>9 DEF Fail, Goto, TypeOK
  <1>10. ASSUME NEW g \in GVKs, Upgrade(g) PROVE RevisionInv'
    BY <1>10 DEF Upgrade, callerVars, TypeOK
  <1>11. ASSUME NEW g \in GVKs, Purge(g) PROVE RevisionInv'
    BY <1>11 DEF Purge, callerVars, TypeOK
  <1>12. CASE Tick
    BY <1>12 DEF Tick, callerVars
  <1>13. CASE UNCHANGED vars
    BY <1>13 DEF vars, callerVars
  <1> QED BY <1>1, <1>2, <1>3, <1>4, <1>5, <1>6, <1>7, <1>8, <1>9, <1>10, <1>11,
             <1>12, <1>13 DEF Next, Step

(* Nothing has failed at first.                                            *)
LEMMA ErrorInit == Init => ErrorInv
  BY DEF Init, ErrorInv, Failing, FailsOnlyIfFetchFailed

(* A flight that fails has met everybody it will be handed to.             *)
LEMMA ErrorStep ==
    ASSUME TypeOK, ErrorInv, [Next]_vars
    PROVE  ErrorInv'
  <1> USE CacheAssumption DEF ErrorInv, Failing, FailsOnlyIfFetchFailed
  <1>1. ASSUME NEW p \in Callers, NEW g \in Asks[p], Call(p, g) PROVE ErrorInv'
    <2>1. g \in GVKs OBVIOUS
    <2> QED BY <1>1, <2>1 DEF Call, Goto, TypeOK
  <1>2. ASSUME NEW p \in Callers, Get(p) PROVE ErrorInv'
    BY <1>2 DEF Get, Goto, TypeOK, Live, None, Error
  <1>3. ASSUME NEW p \in Callers, Do(p) PROVE ErrorInv'
    BY <1>3 DEF Do, Goto, TypeOK
  <1>4. ASSUME NEW p \in Callers, Check(p) PROVE ErrorInv'
    BY <1>4 DEF Check, Goto, TypeOK, Live, None, Error
  <1>5. ASSUME NEW p \in Callers, Store(p) PROVE ErrorInv'
    BY <1>5 DEF Store, Goto, TypeOK, None, Error
  <1>6. ASSUME NEW p \in Callers, Finish(p) PROVE ErrorInv'
    BY <1>6 DEF Finish, TypeOK
  <1>7. ASSUME NEW p \in Callers, Return(p) PROVE ErrorInv'
    BY <1>7 DEF Return, Goto, TypeOK
  <1>8. ASSUME NEW p \in Callers, Answer(p) PROVE ErrorInv'
    BY <1>8 DEF Answer, Goto, TypeOK
  <1>9. ASSUME NEW p \in Callers, Fail(p) PROVE ErrorInv'
    BY <1>9 DEF Fail, Goto, TypeOK
  <1>10. ASSUME NEW g \in GVKs, Upgrade(g) PROVE ErrorInv'
    BY <1>10 DEF Upgrade, callerVars
  <1>11. ASSUME NEW g \in GVKs, Purge(g) PROVE ErrorInv'
    BY <1>11 DEF Purge, callerVars
  <1>12. CASE Tick
    BY <1>12 DEF Tick, callerVars
  <1>13. CASE UNCHANGED vars
    BY <1>13 DEF vars, callerVars
  <1> QED BY <1>1, <1>2, <1>3, <1>4, <1>5, <1>6, <1>7, <1>8, <1>9, <1>10, <1>11,
             <1>12, <1>13 DEF Next, Step

(* The inductive invariant holds in every reachable state.                 *)
THEOREM CacheInvariant == Spec => [](TypeOK /\ FlightInv /\ RevisionInv /\ ErrorInv)
  <1>1. Init => TypeOK /\ FlightInv /\ RevisionInv /\ ErrorInv
    BY TypeInit, FlightInit, RevisionInit, ErrorInit
  <1>2. TypeOK /\ FlightInv /\ RevisionInv /\ ErrorInv /\ [Next]_vars
          => (TypeOK /\ FlightInv /\ RevisionInv /\ ErrorInv)'
    BY TypeStep, FlightStep, RevisionStep, ErrorStep
  <1> QED BY <1>1, <1>2, PTL DEF Spec

(* The state of every entry of the cache, of every caller and of every     *)
(* flight keeps its type.                                                  *)
THEOREM CacheTypes == Spec => []TypeOK
  BY CacheInvariant, PTL

(* Only one caller fetches a schema at a time, and only if the cache does  *)
(* not have it.                                                            *)
THEOREM FetchesAreNotRedundant == Spec => []NoRedundantFetch
  <1>1. FlightInv => NoRedundantFetch
    BY DEF FlightInv, NoRedundantFetch, Leads
  <1> QED BY <1>1, CacheInvariant, PTL

(* A call returns a schema no older than the newest one stored before it   *)
(* began.                                                                  *)
THEOREM CacheNeverGoesBack == Spec => []NeverOlderThanStored
  <1>1. RevisionInv => NeverOlderThanStored
    BY DEF RevisionInv
  <1> QED BY <1>1, CacheInvariant, PTL

(* A call fails only if a flight failed that was under way during it.      *)
THEOREM ErrorsAreNotCached == Spec => []FailsOnlyIfFetchFailed
  <1>1. ErrorInv => FailsOnlyIfFetchFailed
    BY DEF ErrorInv
  <1> QED BY <1>1, CacheInvariant, PTL
====
