---- MODULE SchemaCache ----
(***************************************************************************)
(* TTLCachedSchemaResolver (kro/graph/schema/resolver/ttl_cached.go):      *)
(* callers in several goroutines resolve schemas through a cache of        *)
(* limited size whose entries expire, and a singleflight group that makes  *)
(* one of the callers that miss fetch the schema for the others.           *)
(*                                                                         *)
(* The schema of a GVK is the number of its revision.  The LRU list, the   *)
(* singleflight group and the API server are not in the repository.  Of    *)
(* the LRU list the model keeps its size: at the limit it evicts any other *)
(* entry, of which the least recently used one is a case.                  *)
(***************************************************************************)
EXTENDS Integers, FiniteSets

CONSTANTS
    Callers,     \* goroutines that call ResolveSchema
    GVKs,        \* the group, version and kinds there are
    Asks,        \* those that each caller asks for
    MaxSize,     \* maxSize: how many entries the cache holds
    TTL,         \* ttl, in ticks
    MaxRevision  \* bound on the revisions of each schema

ASSUME CacheAssumption ==
    /\ IsFiniteSet(GVKs)
    /\ Asks \in [Callers -> SUBSET GVKs \ {{}}]
    /\ MaxSize \in Nat \ {0}
    /\ TTL \in Nat \ {0}
    /\ MaxRevision \in [GVKs -> Nat]

None == -1   \* no entry, no answer
Error == -2  \* what a caller gets if the fetch failed

VARIABLES
    current,  \* the revision the API server has of each schema
    cache,    \* the revision the cache has of it, or None
    age,      \* the ticks since that entry was added
    flights,  \* the GVKs that a singleflight call is under way for
    pc,       \* where each caller is
    gvk,      \* the GVK it resolves
    result,   \* what it has been given so far
    stored,   \* history: the revision of each schema stored last
    floor,    \* history: the one stored last when the caller began
    failed    \* history: whether it has met a failed flight of its GVK

callerVars == <<pc, gvk, result, floor, failed>>
vars == <<current, cache, age, flights, stored, callerVars>>

Init ==
    /\ current = [g \in GVKs |-> 0]
    /\ cache = [g \in GVKs |-> None]
    /\ age = [g \in GVKs |-> 0]
    /\ flights = {}
    /\ stored = [g \in GVKs |-> None]
    /\ pc = [p \in Callers |-> "idle"]
    /\ gvk \in {f \in [Callers -> GVKs] : \A p \in Callers : f[p] \in Asks[p]}
    /\ result = [p \in Callers |-> None]
    /\ floor = [p \in Callers |-> None]
    /\ failed = [p \in Callers |-> FALSE]

----
(* The LRU list with its expiry                                            *)

\* Mutant: an expired entry is as good as any.
LiveForever(g) == cache[g] # None

(* cache.Get finds an entry that has not expired; one that has may still   *)
(* be in the list.                                                         *)
Live(g) == cache[g] # None /\ age[g] < TTL

Entries == {g \in GVKs : cache[g] # None}

(* cache.Add: an entry for the same key is replaced and its time starts    *)
(* again; if the list has grown beyond its size, another entry is dropped. *)
Add(g, revision) ==
    \E evicted \in SUBSET (Entries \ {g}) :
        /\ Cardinality(evicted) =
               IF g \notin Entries /\ Cardinality(Entries) >= MaxSize THEN 1 ELSE 0
        /\ cache' = [h \in GVKs |-> IF h = g THEN revision
                                    ELSE IF h \in evicted THEN None ELSE cache[h]]
        /\ age' = [h \in GVKs |-> IF h = g \/ h \in evicted THEN 0 ELSE age[h]]

----
(* ResolveSchema                                                           *)

Goto(p, label) == pc' = [pc EXCEPT ![p] = label]

(* The leader of a flight that has failed and has not ended.               *)
Failing(q) == pc[q] = "finish" /\ result[q] = Error

Call(p, g) ==
    /\ pc[p] = "idle"
    /\ Goto(p, "get")
    /\ gvk' = [gvk EXCEPT ![p] = g]
    /\ floor' = [floor EXCEPT ![p] = stored[g]]
    /\ failed' = [failed EXCEPT ![p] = \E q \in Callers : Failing(q) /\ gvk[q] = g]
    /\ UNCHANGED <<current, cache, age, flights, stored, result>>

(* The first look into the cache: a hit is the result.                     *)
Get(p) ==
    /\ pc[p] = "get"
    /\ \/ /\ Live(gvk[p])
          /\ result' = [result EXCEPT ![p] = cache[gvk[p]]]
          /\ Goto(p, "done")
       \/ /\ ~Live(gvk[p])
          /\ Goto(p, "do")
          /\ UNCHANGED result
    /\ UNCHANGED <<current, cache, age, flights, stored, gvk, floor, failed>>

\* Mutant: everyone who misses fetches for itself.
DoAlone(p) ==
    /\ pc[p] = "do"
    /\ flights' = flights \cup {gvk[p]}
    /\ Goto(p, "check")
    /\ UNCHANGED <<current, cache, age, stored, gvk, result, floor, failed>>

(* sf.Do: the first caller leads a flight, and those that come while it is *)
(* under way wait for its result.                                          *)
Do(p) ==
    /\ pc[p] = "do"
    /\ flights' = flights \cup {gvk[p]}
    /\ Goto(p, IF gvk[p] \in flights THEN "wait" ELSE "check")
    /\ UNCHANGED <<current, cache, age, stored, gvk, result, floor, failed>>

\* Mutant: the leader does not look again.
NoCheck(p) ==
    /\ pc[p] = "check"
    /\ Goto(p, "fetch")
    /\ UNCHANGED <<current, cache, age, flights, stored, gvk, result, floor, failed>>

(* The leader looks into the cache again, as an earlier flight may have    *)
(* ended between its first look and sf.Do.                                 *)
Check(p) ==
    /\ pc[p] = "check"
    /\ \/ /\ Live(gvk[p])
          /\ result' = [result EXCEPT ![p] = cache[gvk[p]]]
          /\ Goto(p, "finish")
       \/ /\ ~Live(gvk[p])
          /\ Goto(p, "fetch")
          /\ UNCHANGED result
    /\ UNCHANGED <<current, cache, age, flights, stored, gvk, floor, failed>>

(* delegate.ResolveSchema: the server reads its schema at some moment      *)
(* between the request and the answer.                                     *)
Answer(p) ==
    /\ pc[p] = "fetch"
    /\ result' = [result EXCEPT ![p] = current[gvk[p]]]
    /\ Goto(p, "store")
    /\ UNCHANGED <<current, cache, age, flights, stored, gvk, floor, failed>>

\* Mutant: the outcome is stored whatever it is.
FailAndStore(p) ==
    /\ pc[p] = "fetch"
    /\ result' = [result EXCEPT ![p] = Error]
    /\ failed' = [q \in Callers |->
                    failed[q] \/ (pc[q] # "idle" /\ gvk[q] = gvk[p])]
    /\ Add(gvk[p], Error)
    /\ Goto(p, "finish")
    /\ UNCHANGED <<current, flights, stored, gvk, floor>>

(* An error of the delegate ends the flight and is not stored.             *)
Fail(p) ==
    /\ pc[p] = "fetch"
    /\ result' = [result EXCEPT ![p] = Error]
    /\ failed' = [q \in Callers |->
                    failed[q] \/ (pc[q] # "idle" /\ gvk[q] = gvk[p])]
    /\ Goto(p, "finish")
    /\ UNCHANGED <<current, cache, age, flights, stored, gvk, floor>>

Store(p) ==
    /\ pc[p] = "store"
    /\ Add(gvk[p], result[p])
    /\ stored' = [stored EXCEPT ![gvk[p]] = result[p]]
    /\ Goto(p, "finish")
    /\ UNCHANGED <<current, flights, gvk, result, floor, failed>>

\* Mutant: the waiting callers are woken only if there is a schema.
FinishSuccess(p) ==
    LET served == {q \in Callers : \/ q = p
                                   \/ /\ pc[q] = "wait"
                                      /\ gvk[q] = gvk[p]
                                      /\ result[p] # Error}
    IN  /\ pc[p] = "finish"
        /\ flights' = flights \ {gvk[p]}
        /\ result' = [q \in Callers |-> IF q \in served THEN result[p] ELSE result[q]]
        /\ pc' = [q \in Callers |-> IF q \in served THEN "done" ELSE pc[q]]
        /\ UNCHANGED <<current, cache, age, stored, gvk, floor, failed>>

(* The function passed to sf.Do has returned: its flight leaves the group  *)
(* and everyone who waits for it gets the same result.                     *)
Finish(p) ==
    LET served == {q \in Callers : q = p \/ (pc[q] = "wait" /\ gvk[q] = gvk[p])}
    IN  /\ pc[p] = "finish"
        /\ flights' = flights \ {gvk[p]}
        /\ result' = [q \in Callers |-> IF q \in served THEN result[p] ELSE result[q]]
        /\ pc' = [q \in Callers |-> IF q \in served THEN "done" ELSE pc[q]]
        /\ UNCHANGED <<current, cache, age, stored, gvk, floor, failed>>

Return(p) ==
    /\ pc[p] = "done"
    /\ Goto(p, "idle")
    /\ result' = [result EXCEPT ![p] = None]
    /\ floor' = [floor EXCEPT ![p] = None]
    /\ failed' = [failed EXCEPT ![p] = FALSE]
    /\ UNCHANGED <<current, cache, age, flights, stored, gvk>>

----
(* The world around it                                                     *)

(* The schema of a GVK changes in the API server.                          *)
Upgrade(g) ==
    /\ current[g] < MaxRevision[g]
    /\ current' = [current EXCEPT ![g] = @ + 1]
    /\ UNCHANGED <<cache, age, flights, stored, callerVars>>

(* Time passes.  An entry that has expired does not age any more.          *)
Tick ==
    /\ \E g \in GVKs : Live(g)
    /\ age' = [g \in GVKs |-> IF cache[g] # None /\ age[g] < TTL
                              THEN age[g] + 1 ELSE age[g]]
    /\ UNCHANGED <<current, cache, flights, stored, callerVars>>

(* The library removes expired entries in the background.                  *)
Purge(g) ==
    /\ cache[g] # None
    /\ age[g] >= TTL
    /\ cache' = [cache EXCEPT ![g] = None]
    /\ age' = [age EXCEPT ![g] = 0]
    /\ UNCHANGED <<current, flights, stored, callerVars>>

Step(p) == Get(p) \/ Do(p) \/ Check(p) \/ Store(p) \/ Finish(p) \/ Return(p)

Next ==
    \/ \E p \in Callers : \E g \in Asks[p] : Call(p, g)
    \/ \E p \in Callers : Step(p) \/ Answer(p) \/ Fail(p)
    \/ \E g \in GVKs : Upgrade(g) \/ Purge(g)
    \/ Tick

Spec == Init /\ [][Next]_vars

(* Goroutines are scheduled, time passes, and the API server answers or    *)
(* the request to it fails.  Nobody has to call.                           *)
CallersProceed ==
    /\ \A p \in Callers : WF_vars(Step(p)) /\ WF_vars(Answer(p) \/ Fail(p))
    /\ WF_vars(Tick)

CachedSpec == Spec /\ CallersProceed

----
(* Properties                                                              *)

(* Type invariant of the cache and its callers.                            *)
TypeOK ==
    /\ current \in [GVKs -> Nat]
    /\ cache \in [GVKs -> Nat \cup {None}]
    /\ age \in [GVKs -> 0..TTL]
    /\ flights \in SUBSET GVKs
    /\ stored \in [GVKs -> Nat \cup {None}]
    /\ pc \in [Callers -> {"idle", "get", "do", "check", "fetch", "store",
                           "finish", "wait", "done"}]
    /\ gvk \in [Callers -> GVKs]
    /\ result \in [Callers -> Nat \cup {None, Error}]
    /\ floor \in [Callers -> Nat \cup {None}]
    /\ failed \in [Callers -> BOOLEAN]

(* "Use singleflight to ensure only one API call per GVK": while a caller  *)
(* fetches a schema no other caller fetches it, and there is no entry that *)
(* would have saved the request.                                           *)
NoRedundantFetch ==
    \A p \in Callers : pc[p] \in {"fetch", "store"} =>
        /\ ~Live(gvk[p])
        /\ \A q \in Callers :
              pc[q] \in {"fetch", "store"} /\ gvk[q] = gvk[p] => q = p

(* The cache never goes back in time: a call of ResolveSchema returns a    *)
(* schema no older than the newest one that had been stored when the call  *)
(* began, whatever has been evicted, has expired or has been fetched since *)
(* and whoever fetched it.                                                 *)
NeverOlderThanStored ==
    \A p \in Callers : pc[p] = "done" /\ result[p] # Error => result[p] >= floor[p]

(* Errors are not cached: a call of ResolveSchema fails only if a flight   *)
(* for its GVK that failed was under way at some time during the call.     *)
FailsOnlyIfFetchFailed ==
    \A p \in Callers : pc[p] = "done" /\ result[p] = Error => failed[p]

(* The inductive invariant behind these properties.                        *)
Leads(p) == pc[p] \in {"check", "fetch", "store", "finish"}

(* The flights in the group are those that callers lead, one each, and the *)
(* schema that a leader fetches is not in the cache.                       *)
FlightInv ==
    /\ \A p \in Callers : Leads(p) => gvk[p] \in flights
    /\ \A p, q \in Callers : Leads(p) /\ Leads(q) /\ gvk[p] = gvk[q] => p = q
    /\ \A p \in Callers : pc[p] \in {"fetch", "store"} => ~Live(gvk[p])

(* An entry is what was stored last; what a leader is about to store is no *)
(* older, and what it hands to the others is the same.                     *)
RevisionInv ==
    /\ \A g \in GVKs : stored[g] <= current[g]
    /\ \A g \in GVKs : cache[g] # None => cache[g] = stored[g]
    /\ \A p \in Callers :
          pc[p] = "store" => stored[gvk[p]] <= result[p] /\ result[p] <= current[gvk[p]]
    /\ \A p \in Callers :
          pc[p] = "finish" /\ result[p] # Error => result[p] = stored[gvk[p]]
    /\ \A p \in Callers : floor[p] <= stored[gvk[p]]
    /\ NeverOlderThanStored

(* What is stored is a schema, and whoever may still be handed the error   *)
(* of a flight has met its failure.                                        *)
ErrorInv ==
    /\ \A p \in Callers : pc[p] = "store" => result[p] \in Nat
    /\ \A p, q \in Callers :
          Failing(p) /\ gvk[q] = gvk[p] /\ pc[q] # "idle" => failed[q]
    /\ FailsOnlyIfFetchFailed

(* Everybody who calls ResolveSchema is answered, those who wait for a     *)
(* flight that fails as well.                                              *)
EveryCallReturns == \A p \in Callers : pc[p] = "get" ~> pc[p] = "done"

(* An old schema does not stay: as schemas stop changing (MaxRevision),    *)
(* a time comes from which every schema returned is the current one.       *)
EventuallyCurrent ==
    <>[](\A p \in Callers : pc[p] = "done" /\ result[p] # Error =>
            result[p] = current[gvk[p]])

====
