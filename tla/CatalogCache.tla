---------------------------- MODULE CatalogCache ----------------------------
(***************************************************************************)
(* The copy of the course catalogue that a user-service replica reads      *)
(* through: answers of course-service, "there is no such slug" among them, *)
(* are kept for a while in one cache for each kind of key.  A request      *)
(* looks up a set of keys; what is missing is fetched in one call, shared  *)
(* by the requests that miss the same keys at the same time.               *)
(***************************************************************************)
EXTENDS Naturals, FiniteSets

CONSTANTS
  Caches,       \* the sets of keys that share a cache
  Values, None, \* what course-service knows of a key
  Requests,
  TTL,          \* ticks an entry is good for
  MaxEntries,   \* of one cache
  Lag,          \* bound on the ticks between an answer and its storing
  MaxClock      \* bound on time

Keys == UNION Caches

ASSUME CacheAssumption ==
  /\ \A K, L \in Caches : K # L => K \cap L = {}
  /\ \A K \in Caches : IsFiniteSet(K)
  /\ None \notin Values
  /\ TTL \in Nat /\ MaxEntries \in Nat /\ Lag \in Nat /\ MaxClock \in Nat

VARIABLES
  upstream,     \* the catalogue of course-service
  was,          \* history: what each key has been, tick by tick
  cache,        \* entries, or None
  flights,      \* fetches under way, by the keys they ask for
  lookup,       \* the lookup of each request
  clock

cacheVars == <<upstream, was, cache, flights, lookup, clock>>

Entry == [value : Values \cup {None}, expires : 0..MaxClock + TTL]

\* A key that is not found is None in out, like one whose fetch failed.
Lookup == [pc : {"idle", "read", "miss", "wait", "store", "done"}, keys : SUBSET Keys,
           missing : SUBSET Keys, out : [Keys -> Values \cup {None}], failed : BOOLEAN,
           answered : 0..MaxClock]

NoLookup == [pc |-> "idle", keys |-> {}, missing |-> {}, out |-> [k \in Keys |-> None],
             failed |-> FALSE, answered |-> 0]

Live(K) == {k \in K : cache[k] # None}

CacheTypeOK ==
  /\ upstream \in [Keys -> Values \cup {None}]
  /\ was \in [Keys -> [0..MaxClock -> SUBSET (Values \cup {None})]]
  /\ cache \in [Keys -> Entry \cup {None}]
  /\ \A K \in Caches : Cardinality(Live(K)) <= MaxEntries
  /\ flights \subseteq SUBSET Keys
  /\ \A r \in Requests : lookup[r] \in Lookup
  /\ clock \in 0..MaxClock

CacheInit ==
  /\ upstream \in [Keys -> Values \cup {None}]
  /\ was = [k \in Keys |-> [t \in 0..MaxClock |-> IF t = 0 THEN {upstream[k]} ELSE {}]]
  /\ cache = [k \in Keys |-> None]
  /\ flights = {}
  /\ lookup = [r \in Requests |-> NoLookup]
  /\ clock = 0

-----------------------------------------------------------------------------

Looking(r, pc) == lookup[r].pc = pc

Resolve(r, keys) ==
  /\ lookup' = [lookup EXCEPT ![r] = [NoLookup EXCEPT !.pc = "read", !.keys = keys]]
  /\ UNCHANGED <<upstream, was, cache, flights, clock>>

Expired(entry) == clock > entry.expires

\* Mutant: an entry that is there is good.
ReadAnyCached(r) ==
  LET missing == {k \in lookup[r].keys : cache[k] = None} IN
  /\ Looking(r, "read")
  /\ lookup' = [lookup EXCEPT ![r].pc = IF missing = {} THEN "done" ELSE "miss",
       ![r].missing = missing,
       ![r].out = [k \in Keys |-> IF k \in lookup[r].keys \ missing THEN cache[k].value ELSE None]]
  /\ UNCHANGED <<upstream, was, cache, flights, clock>>

ReadCached(r) ==
  LET missing == {k \in lookup[r].keys : cache[k] = None \/ Expired(cache[k])} IN
  /\ Looking(r, "read")
  /\ lookup' = [lookup EXCEPT ![r].pc = IF missing = {} THEN "done" ELSE "miss",
       ![r].missing = missing,
       ![r].out = [k \in Keys |-> IF k \in lookup[r].keys \ missing THEN cache[k].value ELSE None]]
  /\ UNCHANGED <<upstream, was, cache, flights, clock>>

\* A fetch of the same keys that is under way is joined.
Join(r) ==
  /\ Looking(r, "miss")
  /\ flights' = flights \cup {lookup[r].missing}
  /\ lookup' = [lookup EXCEPT ![r].pc = "wait"]
  /\ UNCHANGED <<upstream, was, cache, clock>>

Riders(keys) == {r \in Requests : Looking(r, "wait") /\ lookup[r].missing = keys}

\* All that wait are handed the answer, which each of them stores.
FetchDone(keys) ==
  /\ keys \in flights
  /\ flights' = flights \ {keys}
  /\ lookup' = [r \in Requests |->
       IF r \in Riders(keys)
       THEN [lookup[r] EXCEPT !.pc = "store", !.answered = clock,
               !.out = [k \in Keys |-> IF k \in keys THEN upstream[k] ELSE @[k]]]
       ELSE lookup[r]]
  /\ UNCHANGED <<upstream, was, cache, clock>>

FetchFails(keys) ==
  /\ keys \in flights
  /\ flights' = flights \ {keys}
  /\ lookup' = [r \in Requests |->
       IF r \in Riders(keys) THEN [lookup[r] EXCEPT !.pc = "done", !.failed = TRUE]
       ELSE lookup[r]]
  /\ UNCHANGED <<upstream, was, cache, clock>>

\* What is kept of a cache's live entries: expired ones go first, and then any.
Kept(live, entries) ==
  LET fresh == {k \in live : ~Expired(entries[k])} IN
  IF Cardinality(live) <= MaxEntries THEN {live}
  ELSE IF Cardinality(fresh) <= MaxEntries THEN {fresh}
  ELSE {S \in SUBSET fresh : Cardinality(S) = MaxEntries}

StoreFetched(r) ==
  LET q == lookup[r]
      entries == [k \in Keys |->
        IF k \in q.missing THEN [value |-> q.out[k], expires |-> clock + TTL] ELSE cache[k]]
  IN
  /\ Looking(r, "store")
  /\ \E K \in Caches :
       /\ q.missing \subseteq K
       /\ \E kept \in Kept({k \in K : entries[k] # None}, entries) :
            cache' = [k \in Keys |-> IF k \in K \ kept THEN None ELSE entries[k]]
  /\ lookup' = [lookup EXCEPT ![r].pc = "done"]
  /\ UNCHANGED <<upstream, was, flights, clock>>

\* An author changes, removes or adds a definition.
Edit(k, value) ==
  /\ value # upstream[k]
  /\ upstream' = [upstream EXCEPT ![k] = value]
  /\ was' = [was EXCEPT ![k][clock] = @ \cup {value}]
  /\ UNCHANGED <<cache, flights, lookup, clock>>

\* An answer is stored within Lag ticks, and a lookup that has ended is used at
\* once.  Time is counted from the first answer on: before it, nothing ages.
Tick ==
  /\ clock < MaxClock
  /\ \/ \E k \in Keys : cache[k] # None
     \/ \E r \in Requests : Looking(r, "store")
  /\ \A r \in Requests : Looking(r, "store") => clock < lookup[r].answered + Lag
  /\ \A r \in Requests : ~Looking(r, "done")
  /\ clock' = clock + 1
  /\ was' = [k \in Keys |-> [was[k] EXCEPT ![clock + 1] = {upstream[k]}]]
  /\ UNCHANGED <<upstream, cache, flights, lookup>>

CacheStep(r) == ReadCached(r) \/ Join(r) \/ StoreFetched(r)

\* What a key was in the last TTL + Lag ticks.
Recently(k) ==
  UNION {was[k][t] : t \in {u \in 0..clock : u + TTL + Lag >= clock}}
=============================================================================
