--------------------------- MODULE EnrolmentsProofs ----------------------------
(***************************************************************************)
(* Proofs about Enrolments, also while Exports runs: types and the bound   *)
(* of the cache, how far a session is overbooked, how old the answers are  *)
(* that gates and paths are decided on, and that the tables implement      *)
(* EnrolmentStore.                                                         *)
(***************************************************************************)
EXTENDS Exports, FiniteSetTheorems, TLAPS

-----------------------------------------------------------------------------
(* The invariant                                                           *)

RequestSet ==
  [pc : {"idle", "enroll", "path", "list", "capacity", "count", "book", "insert"},
   user : Users \cup {None}, key : Keys \cup {None}, seat : Seats \cup {None},
   capacity : Nat]

\* What course-service may say of a key.
Offer(k, v) == v = None \/ v \in IF k \in Courses THEN CourseOffer ELSE PathOffer

\* The cache: types, and the age of what it holds.  What was answered at t is
\* stored until t + Lag and good until TTL after that.
CacheOK ==
  /\ CacheTypeOK
  /\ \A k \in Keys :
       /\ Offer(k, upstream[k])
       /\ upstream[k] \in was[k][clock]
       /\ cache[k] # None =>
            /\ Offer(k, cache[k].value)
            /\ \E t \in 0..clock : /\ cache[k].value \in was[k][t]
                                   /\ t + Lag + TTL >= cache[k].expires

\* A request and its lookup.
RequestOK(r) ==
  LET q == request[r]
      l == lookup[r]
  IN
  /\ q.pc # "idle" => q.user \in Users
  /\ q.pc = "enroll" => q.key \in Courses
  /\ q.pc = "path" => q.key \in Paths
  /\ q.pc \in {"capacity", "count", "book", "insert"} => q.seat \in Seats
  /\ \A k \in Keys : Offer(k, l.out[k])
  /\ l.pc = "store" => /\ l.answered <= clock /\ clock <= l.answered + Lag
                       /\ \A k \in l.missing : l.out[k] \in was[k][l.answered]
  /\ q.pc \in {"enroll", "path"} =>
       /\ l.pc # "idle" /\ l.keys = {q.key}
       /\ l.pc \in {"miss", "wait", "store"} => l.missing = {q.key}
       /\ l.pc = "done" => l.failed \/ l.out[q.key] \in Recently(q.key)

\* Those who are about to book under a capacity of at most k.
AboutToBook(x, k) ==
  {r \in Requests : /\ request[r].pc \in {"book", "insert"} /\ request[r].seat = x
                    /\ request[r].capacity \in 1..k}

\* Whoever goes from counting to booking saw fewer than k seats taken.
RoomFor(x, k) ==
  Cardinality(LetIn(x, k)) + Cardinality(AboutToBook(x, k)) < k + Cardinality(Requests)

TablesOK ==
  /\ xp \in [Users -> 0..MaxXP]
  /\ enrolled \subseteq Users \X Courses /\ pathEnrolled \subseteq Users \X Paths
  /\ bookings \in [Seats -> [Users -> BOOLEAN \cup {None}]]
  /\ admitted \in [Seats -> [Users -> Nat]]
  /\ asked \in 0..MaxRequests

SlotsOK == request \in [Requests -> RequestSet] /\ lookup \in [Requests -> Lookup]

SeatsOK == \A x \in Seats, k \in Nat \ {0} : RoomFor(x, k)

Inv ==
  /\ CacheOK /\ TablesOK /\ SlotsOK
  /\ \A r \in Requests : RequestOK(r)
  /\ SeatsOK

LEMMA Constants ==
  /\ Keys = Courses \cup Paths /\ Courses \cap Paths = {}
  /\ None \notin Values /\ None \notin BOOLEAN
  /\ TTL \in Nat /\ MaxEntries \in Nat /\ Lag \in Nat /\ MaxClock \in Nat
  /\ MaxXP \in Nat /\ MaxRequests \in Nat
  /\ IsFiniteSet(Users) /\ IsFiniteSet(Requests)
BY CacheAssumption, EnrolmentAssumption DEF Keys

LEMMA IdleType == Idle \in RequestSet /\ NoLookup \in Lookup
BY Constants DEF Idle, RequestSet, NoLookup, Lookup

LEMMA ClockType ==
  ASSUME CacheOK
  PROVE  clock \in Nat /\ clock \in 0..MaxClock
<1>1. clock \in 0..MaxClock
  BY DEF CacheOK, CacheTypeOK
<1>2. QED
  BY <1>1, Constants

-----------------------------------------------------------------------------
(* Seats                                                                   *)

LEMMA SeatSets ==
  ASSUME NEW x, NEW k
  PROVE  /\ IsFiniteSet(LetIn(x, k)) /\ Cardinality(LetIn(x, k)) \in Nat
         /\ IsFiniteSet(AboutToBook(x, k)) /\ Cardinality(AboutToBook(x, k)) \in Nat
         /\ Cardinality(AboutToBook(x, k)) <= Cardinality(Requests)
         /\ Cardinality(Requests) \in Nat
<1>1. LetIn(x, k) \subseteq Users /\ AboutToBook(x, k) \subseteq Requests
  BY DEF LetIn, AboutToBook
<1>2. QED
  BY <1>1, Constants, FS_Subset, FS_CardinalityType

LEMMA SeatSetsNext ==
  ASSUME NEW x, NEW k
  PROVE  /\ IsFiniteSet(LetIn(x, k)') /\ Cardinality(LetIn(x, k)') \in Nat
         /\ IsFiniteSet(AboutToBook(x, k)') /\ Cardinality(AboutToBook(x, k)') \in Nat
         /\ Cardinality(AboutToBook(x, k)') <= Cardinality(Requests)
<1>1. LetIn(x, k)' \subseteq Users /\ AboutToBook(x, k)' \subseteq Requests
  BY DEF LetIn, AboutToBook
<1>2. QED
  BY <1>1, Constants, FS_Subset, FS_CardinalityType

\* Nobody new is let in, and nobody new is about to be.
LEMMA FewerKeepRoom ==
  ASSUME NEW x, NEW k \in Nat, RoomFor(x, k),
         LetIn(x, k)' \subseteq LetIn(x, k), AboutToBook(x, k)' \subseteq AboutToBook(x, k)
  PROVE  RoomFor(x, k)'
<1>1. /\ Cardinality(LetIn(x, k)') <= Cardinality(LetIn(x, k))
      /\ Cardinality(AboutToBook(x, k)') <= Cardinality(AboutToBook(x, k))
  BY SeatSets, FS_Subset
<1>2. QED
  BY <1>1, SeatSets, SeatSetsNext DEF RoomFor

\* Whoever has just counted fewer than k is one of few.
LEMMA CountedKeepsRoom ==
  ASSUME NEW x \in Seats, NEW k \in Nat \ {0}, UNCHANGED <<bookings, admitted>>,
         Cardinality(Booked(x)) < k
  PROVE  RoomFor(x, k)'
<1> DEFINE n == Cardinality(LetIn(x, k)')
           b == Cardinality(Booked(x))
           a == Cardinality(AboutToBook(x, k)')
           m == Cardinality(Requests)
<1>1. LetIn(x, k)' \subseteq Booked(x) /\ IsFiniteSet(Booked(x))
  <2>1. LetIn(x, k)' \subseteq Booked(x) /\ Booked(x) \subseteq Users
    BY DEF LetIn, Booked
  <2>2. QED
    BY <2>1, Constants, FS_Subset
<1>2. n <= b /\ b \in Nat
  BY <1>1, FS_Subset, FS_CardinalityType
<1>3. n \in Nat /\ a \in Nat /\ a <= m /\ m \in Nat
  BY SeatSets, SeatSetsNext
<1>4. b < k /\ k \in Nat
  OBVIOUS
<1>5. n + a < k + m
  <2> HIDE DEF n, b, a, m
  <2> QED
    BY <1>2, <1>3, <1>4
<1>6. QED
  BY <1>5 DEF RoomFor

\* Whoever books stops being about to.
LEMMA BookedKeepsRoom ==
  ASSUME NEW x, NEW k \in Nat, RoomFor(x, k), NEW u, NEW r,
         LetIn(x, k)' \subseteq LetIn(x, k) \cup {u},
         r \in AboutToBook(x, k), AboutToBook(x, k)' \subseteq AboutToBook(x, k) \ {r}
  PROVE  RoomFor(x, k)'
<1>1. Cardinality(LetIn(x, k)') <= Cardinality(LetIn(x, k)) + 1
  <2> DEFINE L == LetIn(x, k)
             M == L \cup {u}
  <2>1. IsFiniteSet(L) /\ Cardinality(L) \in Nat
    BY SeatSets
  <2>2. IsFiniteSet(M) /\ (Cardinality(M) = Cardinality(L) \/ Cardinality(M) = Cardinality(L) + 1)
    <3> HIDE DEF L
    <3> QED
      BY <2>1, FS_AddElement
  <2>3. LetIn(x, k)' \subseteq M
    OBVIOUS
  <2>4. Cardinality(LetIn(x, k)') <= Cardinality(M) /\ Cardinality(M) \in Nat
    <3> HIDE DEF M
    <3> QED
      BY <2>2, <2>3, FS_Subset, FS_CardinalityType
  <2>5. Cardinality(LetIn(x, k)') \in Nat
    BY SeatSetsNext
  <2> HIDE DEF L, M
  <2>6. Cardinality(LetIn(x, k)') <= Cardinality(L) + 1
    BY <2>1, <2>2, <2>4, <2>5
  <2>7. QED
    BY <2>6 DEF L
<1>2. Cardinality(AboutToBook(x, k)') <= Cardinality(AboutToBook(x, k)) - 1
  <2>1. /\ IsFiniteSet(AboutToBook(x, k) \ {r})
        /\ Cardinality(AboutToBook(x, k) \ {r}) = Cardinality(AboutToBook(x, k)) - 1
    BY SeatSets, FS_RemoveElement
  <2>2. QED
    BY <2>1, SeatSets, SeatSetsNext, FS_Subset
<1>3. QED
  BY <1>1, <1>2, SeatSets, SeatSetsNext DEF RoomFor

-----------------------------------------------------------------------------
(* What a step leaves alone                                                *)

\* Nothing that was, is forgotten.
Remembered == \A k \in Keys, t \in 0..clock : was[k][t] \subseteq was'[k][t]

Still(r) == request'[r] = request[r] /\ lookup'[r] = lookup[r]

LEMMA StillOK ==
  ASSUME NEW r \in Requests, RequestOK(r), Still(r), clock' = clock, clock \in Nat, Remembered,
         lookup[r] \in Lookup, request[r] \in RequestSet
  PROVE  RequestOK(r)'
<1> DEFINE q == request[r]
           l == lookup[r]
<1>1. \A k \in Keys : Recently(k) \subseteq Recently(k)'
  BY DEF Recently, Remembered
<1>2. l.pc = "store" => \A k \in l.missing : l.out[k] \in was'[k][l.answered]
  BY DEF Remembered, RequestOK, Lookup
<1>3. q.pc \in {"enroll", "path"} => q.key \in Keys
  BY Constants DEF RequestOK
<1>4. QED
  BY <1>1, <1>2, <1>3 DEF RequestOK, Still, Offer

LEMMA EndOK ==
  ASSUME NEW r \in Requests, SlotsOK, End(r)
  PROVE  /\ SlotsOK' /\ RequestOK(r)'
         /\ request'[r] = Idle
         /\ \A s \in Requests \ {r} : Still(s)
<1>1. /\ SlotsOK' /\ request'[r] = Idle /\ lookup'[r] = NoLookup
      /\ \A s \in Requests \ {r} : Still(s)
  BY IdleType DEF End, SlotsOK, Still
<1>2. RequestOK(r)'
  BY <1>1, Constants DEF RequestOK, Idle, NoLookup, Offer
<1>3. QED
  BY <1>1, <1>2

\* A request for a lookup of its keys.
LEMMA ResolveOK ==
  ASSUME NEW r \in Requests, SlotsOK, NEW q \in RequestSet, NEW keys \in SUBSET Keys,
         request' = [request EXCEPT ![r] = q], Resolve(r, keys),
         q.pc \in {"enroll", "path", "list"}, q.user \in Users,
         q.pc = "enroll" => q.key \in Courses,
         q.pc = "path" => q.key \in Paths,
         q.pc \in {"enroll", "path"} => keys = {q.key}
  PROVE  /\ SlotsOK' /\ RequestOK(r)'
         /\ request'[r] = q
         /\ \A s \in Requests \ {r} : Still(s)
<1> DEFINE l == [NoLookup EXCEPT !.pc = "read", !.keys = keys]
<1>1. /\ l \in Lookup /\ l.pc = "read" /\ l.keys = keys
      /\ \A k \in Keys : l.out[k] = None
  <2>1. NoLookup \in Lookup /\ \A k \in Keys : NoLookup.out[k] = None
    BY IdleType DEF NoLookup
  <2>2. QED
    BY <2>1 DEF Lookup
<1>2. /\ SlotsOK' /\ request'[r] = q /\ lookup'[r] = l
      /\ \A s \in Requests \ {r} : Still(s)
  BY <1>1 DEF Resolve, SlotsOK, Still
<1> HIDE DEF l
<1>3. RequestOK(r)'
  BY <1>1, <1>2 DEF RequestOK, Offer
<1>4. QED
  BY <1>2, <1>3

\* Requests that stay as they are, while the catalogue and the clock may not.
LEMMA EndSlots ==
  ASSUME NEW r \in Requests, SlotsOK, \A s \in Requests : RequestOK(s), clock \in Nat,
         Remembered, clock' = clock, SlotsOK', RequestOK(r)',
         \A s \in Requests \ {r} : Still(s)
  PROVE  \A s \in Requests : RequestOK(s)'
<1>1. ASSUME NEW s \in Requests \ {r}
      PROVE  RequestOK(s)'
  <2>1. Still(s) /\ RequestOK(s) /\ lookup[s] \in Lookup /\ request[s] \in RequestSet
    BY DEF SlotsOK
  <2>2. QED
    BY <2>1, StillOK
<1>2. QED
  BY <1>1

\* All requests stay as they are.
LEMMA AllStill ==
  ASSUME SlotsOK, \A s \in Requests : RequestOK(s), clock \in Nat, Remembered,
         clock' = clock, UNCHANGED <<request, lookup>>
  PROVE  SlotsOK' /\ \A s \in Requests : RequestOK(s)'
<1>1. SlotsOK' /\ \A s \in Requests : Still(s)
  BY DEF SlotsOK, Still
<1>2. ASSUME NEW s \in Requests
      PROVE  RequestOK(s)'
  <2>1. Still(s) /\ RequestOK(s) /\ lookup[s] \in Lookup /\ request[s] \in RequestSet
    BY <1>1 DEF SlotsOK
  <2>2. QED
    BY <2>1, StillOK
<1>3. QED
  BY <1>1, <1>2

-----------------------------------------------------------------------------
(* The slots, action by action                                             *)

SlotInv == SlotsOK /\ \A r \in Requests : RequestOK(r)

LEMMA SlotsBegin ==
  ASSUME SlotInv, CacheOK, NEW r \in Requests, Begin(r)
  PROVE  SlotInv'
<1>1. clock \in Nat /\ clock' = clock /\ Remembered
  <2>1. clock \in Nat
    BY ClockType
  <2>2. clock' = clock /\ was' = was
    BY DEF Begin, Enroll, AdminEnrollUserInPath, MyPaths, BookSession, Resolve, cacheVars
  <2>3. QED
    BY <2>1, <2>2 DEF Remembered
<1>2. SlotsOK' /\ RequestOK(r)' /\ \A s \in Requests \ {r} : Still(s)
  <2>1. PICK u \in Users :
          \/ \E c \in Courses : Enroll(r, u, c)
          \/ \E p \in Paths : AdminEnrollUserInPath(r, u, p)
          \/ MyPaths(r, u)
          \/ \E x \in Seats : BookSession(r, u, x)
    BY DEF Begin
  <2>2. ASSUME NEW c \in Courses, Enroll(r, u, c)
        PROVE  SlotsOK' /\ RequestOK(r)' /\ \A s \in Requests \ {r} : Still(s)
    <3> DEFINE q == [Idle EXCEPT !.pc = "enroll", !.user = u, !.key = c]
    <3>1. q \in RequestSet /\ q.pc = "enroll" /\ q.user = u /\ q.key = c
      BY Constants DEF Idle, RequestSet
    <3>2. request' = [request EXCEPT ![r] = q] /\ Resolve(r, {c})
      BY <2>2 DEF Enroll, Start
    <3>3. SlotsOK /\ {c} \in SUBSET Keys
      BY Constants DEF SlotInv
    <3> HIDE DEF q
    <3>4. QED
      BY <3>1, <3>2, <3>3, ResolveOK
  <2>3. ASSUME NEW p \in Paths, AdminEnrollUserInPath(r, u, p)
        PROVE  SlotsOK' /\ RequestOK(r)' /\ \A s \in Requests \ {r} : Still(s)
    <3> DEFINE q == [Idle EXCEPT !.pc = "path", !.user = u, !.key = p]
    <3>1. q \in RequestSet /\ q.pc = "path" /\ q.user = u /\ q.key = p
      BY Constants DEF Idle, RequestSet
    <3>2. request' = [request EXCEPT ![r] = q] /\ Resolve(r, {p})
      BY <2>3 DEF AdminEnrollUserInPath, Start
    <3>3. SlotsOK /\ {p} \in SUBSET Keys
      BY Constants DEF SlotInv
    <3> HIDE DEF q
    <3>4. QED
      BY <3>1, <3>2, <3>3, ResolveOK
  <2>4. ASSUME MyPaths(r, u)
        PROVE  SlotsOK' /\ RequestOK(r)' /\ \A s \in Requests \ {r} : Still(s)
    <3> DEFINE q == [Idle EXCEPT !.pc = "list", !.user = u]
               ps == {p \in Paths : <<u, p>> \in pathEnrolled}
    <3>1. q \in RequestSet /\ q.pc = "list" /\ q.user = u
      BY Constants DEF Idle, RequestSet
    <3>2. request' = [request EXCEPT ![r] = q] /\ Resolve(r, ps)
      BY <2>4 DEF MyPaths, Start
    <3>3. SlotsOK /\ ps \in SUBSET Keys
      BY Constants DEF SlotInv
    <3> HIDE DEF q, ps
    <3>4. QED
      BY <3>1, <3>2, <3>3, ResolveOK
  <2>5. ASSUME NEW x \in Seats, BookSession(r, u, x)
        PROVE  SlotsOK' /\ RequestOK(r)' /\ \A s \in Requests \ {r} : Still(s)
    <3> DEFINE q == [Idle EXCEPT !.pc = "capacity", !.user = u, !.seat = x]
    <3>1. q \in RequestSet /\ q.pc = "capacity" /\ q.user = u /\ q.seat = x
      BY Constants DEF Idle, RequestSet
    <3>2. request' = [request EXCEPT ![r] = q] /\ lookup' = lookup /\ was' = was /\ clock' = clock
      BY <2>5 DEF BookSession, Start, cacheVars
    <3>3. SlotsOK /\ RequestOK(r)
      BY DEF SlotInv
    <3> HIDE DEF q
    <3>4. SlotsOK' /\ request'[r] = q /\ \A s \in Requests \ {r} : Still(s)
      BY <3>1, <3>2, <3>3 DEF SlotsOK, Still
    <3>5. RequestOK(r)'
      BY <3>1, <3>2, <3>3, <3>4 DEF RequestOK, Offer
    <3>6. QED
      BY <3>4, <3>5
  <2>6. QED
    BY <2>1, <2>2, <2>3, <2>4, <2>5
<1>3. QED
  BY <1>1, <1>2, EndSlots DEF SlotInv

LEMMA SlotsStep ==
  ASSUME SlotInv, CacheOK, NEW r \in Requests, Step(r)
  PROVE  SlotInv'
<1>1. clock \in Nat /\ clock' = clock /\ Remembered
  BY ClockType DEF Step, Create, EnrollWithCourses, Listed, SessionCapacity,
     CountBySession, Book, Insert, Fails, End, cacheVars, Remembered
<1>2. SlotsOK' /\ RequestOK(r)' /\ \A s \in Requests \ {r} : Still(s)
  <2>1. SlotsOK /\ RequestOK(r)
    BY DEF SlotInv
  <2>2. ASSUME End(r)
        PROVE  SlotsOK' /\ RequestOK(r)' /\ \A s \in Requests \ {r} : Still(s)
    BY <2>1, <2>2, EndOK
  <2>3. ASSUME SessionCapacity(r)
        PROVE  SlotsOK' /\ RequestOK(r)' /\ \A s \in Requests \ {r} : Still(s)
    <3> DEFINE x == request[r].seat
               limit == IF Visible(x[1]) THEN upstream[x[1]].capacity[x[2]] ELSE 0
    <3>1. request[r] \in RequestSet /\ request[r].pc = "capacity" /\ x \in Seats
          /\ request[r].user \in Users
      BY <2>1, <2>3 DEF SessionCapacity, At, SlotsOK, RequestOK
    <3>2. limit \in Nat
      <4>1. x[1] \in Courses /\ x[2] \in Sessions
        BY <3>1 DEF Seats
      <4>2. Offer(x[1], upstream[x[1]])
        BY <4>1, Constants DEF CacheOK
      <4>3. QED
        BY <4>1, <4>2 DEF Offer, Visible, CourseOffer
    <3>3. PICK capacity \in {0, limit} :
            request' = [request EXCEPT ![r].pc = IF capacity > 0 THEN "count" ELSE "book",
                                       ![r].capacity = capacity]
      BY <2>3 DEF SessionCapacity
    <3>4. PICK pc \in {"count", "book"} : pc = IF capacity > 0 THEN "count" ELSE "book"
      OBVIOUS
    <3> DEFINE q == [request[r] EXCEPT !.pc = pc, !.capacity = capacity]
    <3>5. capacity \in Nat /\ lookup' = lookup /\ was' = was
      BY <2>3, <3>2 DEF SessionCapacity, cacheVars
    <3> HIDE DEF limit
    <3>6. request' = [request EXCEPT ![r] = q]
      BY <2>1, <3>3, <3>4 DEF SlotsOK
    <3>7. q \in RequestSet /\ q.pc \in {"count", "book"} /\ q.seat = request[r].seat
          /\ q.user = request[r].user
      BY <3>1, <3>5 DEF RequestSet
    <3> HIDE DEF q
    <3>8. SlotsOK' /\ request'[r] = q /\ \A s \in Requests \ {r} : Still(s)
      BY <2>1, <3>5, <3>6, <3>7 DEF SlotsOK, Still
    <3>9. RequestOK(r)'
      BY <1>1, <2>1, <3>1, <3>5, <3>7, <3>8 DEF RequestOK, Offer
    <3>10. QED
      BY <3>8, <3>9
  <2>4. ASSUME CountBySession(r) \/ Book(r), ~End(r)
        PROVE  SlotsOK' /\ RequestOK(r)' /\ \A s \in Requests \ {r} : Still(s)
    <3>0. PICK pc \in {"book", "insert"} :
            request' = [request EXCEPT ![r].pc = pc] /\ UNCHANGED cacheVars
      BY <2>4 DEF CountBySession, Book
    <3> DEFINE q == [request[r] EXCEPT !.pc = pc]
    <3>1. request[r] \in RequestSet /\ request[r].pc \in {"count", "book"} /\ request[r].seat \in Seats
          /\ request[r].user \in Users
      BY <2>1, <2>4 DEF CountBySession, Book, At, SlotsOK, RequestOK
    <3>2. request' = [request EXCEPT ![r] = q] /\ lookup' = lookup /\ was' = was
      BY <2>1, <3>0 DEF cacheVars, SlotsOK
    <3>3. q \in RequestSet /\ q.pc \in {"book", "insert"} /\ q.seat = request[r].seat /\ q.user = request[r].user
      BY <3>1 DEF RequestSet
    <3> HIDE DEF q
    <3>4. SlotsOK' /\ request'[r] = q /\ \A s \in Requests \ {r} : Still(s)
      BY <2>1, <3>2, <3>3 DEF SlotsOK, Still
    <3>5. RequestOK(r)'
      BY <1>1, <2>1, <3>1, <3>2, <3>3, <3>4 DEF RequestOK, Offer
    <3>6. QED
      BY <3>4, <3>5
  <2>5. QED
    BY <2>2, <2>3, <2>4 DEF Step, Create, EnrollWithCourses, Listed, CountBySession, Insert, Fails
<1>3. QED
  BY <1>1, <1>2, EndSlots DEF SlotInv

\* A lookup moves on.
LEMMA LookupMoves ==
  ASSUME NEW r \in Requests, SlotsOK, NEW l \in Lookup, lookup' = [lookup EXCEPT ![r] = l],
         request' = request
  PROVE  /\ SlotsOK' /\ request'[r] = request[r] /\ lookup'[r] = l
         /\ \A s \in Requests \ {r} : Still(s)
BY DEF SlotsOK, Still

LEMMA SlotsRead ==
  ASSUME SlotInv, CacheOK, NEW r \in Requests, ReadCached(r), request' = request
  PROVE  SlotInv'
<1> DEFINE q == request[r]
           l == lookup[r]
           missing == {k \in l.keys : cache[k] = None \/ Expired(cache[k])}
           out == [k \in Keys |-> IF k \in l.keys \ missing THEN cache[k].value ELSE None]
<1>1. clock \in Nat /\ clock' = clock /\ Remembered /\ was' = was
  BY ClockType DEF Remembered, ReadCached
<1>2. SlotsOK /\ RequestOK(r) /\ l \in Lookup /\ l.pc = "read" /\ l.keys \subseteq Keys
  BY DEF SlotInv, SlotsOK, ReadCached, Looking, Lookup
<1>3. PICK pc \in {"done", "miss"} : pc = IF missing = {} THEN "done" ELSE "miss"
  OBVIOUS
<1> DEFINE m == [l EXCEPT !.pc = pc, !.missing = missing, !.out = out]
<1>4. lookup' = [lookup EXCEPT ![r] = m]
  BY <1>2, <1>3 DEF ReadCached, SlotsOK
<1>5. missing \in SUBSET Keys /\ missing \subseteq l.keys
  BY <1>2
<1>6. \A k \in Keys :
        /\ Offer(k, out[k]) /\ out[k] \in Values \cup {None}
        /\ k \in l.keys \ missing => out[k] \in Recently(k)
  <2> SUFFICES ASSUME NEW k \in Keys
               PROVE  /\ Offer(k, out[k]) /\ out[k] \in Values \cup {None}
                      /\ k \in l.keys \ missing => out[k] \in Recently(k)
    OBVIOUS
  <2>1. CASE k \notin l.keys \ missing
    BY <2>1, Constants DEF Offer
  <2>2. ASSUME k \in l.keys \ missing
        PROVE  /\ Offer(k, cache[k].value) /\ cache[k].value \in Values \cup {None}
               /\ cache[k].value \in Recently(k)
    <3>1. cache[k] # None /\ cache[k] \in Entry /\ ~Expired(cache[k])
      BY <2>2 DEF CacheOK, CacheTypeOK
    <3>2. cache[k].expires \in Nat /\ clock <= cache[k].expires
      BY <1>1, <3>1, Constants DEF Entry, Expired
    <3>3. PICK t \in 0..clock : cache[k].value \in was[k][t] /\ t + Lag + TTL >= cache[k].expires
      BY <3>1 DEF CacheOK
    <3>4. t + TTL + Lag >= clock
      BY <1>1, <3>2, <3>3, Constants
    <3>5. QED
      BY <3>1, <3>3, <3>4 DEF Recently, Entry, CacheOK
  <2>3. QED
    BY <2>1, <2>2
<1>7. out \in [Keys -> Values \cup {None}]
  BY <1>6
<1> HIDE DEF out
<1>8. missing # {} => pc = "miss"
  BY <1>3
<1>9. missing = {} => pc = "done"
  BY <1>3
<1> HIDE DEF missing
<1>10. m \in Lookup /\ m.pc = pc /\ m.missing = missing /\ m.out = out /\ m.keys = l.keys
  BY <1>2, <1>3, <1>5, <1>7 DEF Lookup
<1> HIDE DEF m
<1>11. /\ SlotsOK' /\ request'[r] = request[r] /\ lookup'[r] = m
       /\ \A s \in Requests \ {r} : Still(s)
  BY <1>2, <1>4, <1>10, LookupMoves
<1>12. \A k \in Keys : Recently(k)' = Recently(k)
  BY <1>1 DEF Recently
<1>13. ASSUME q.pc \in {"enroll", "path"}
       PROVE  /\ m.pc # "idle" /\ m.keys = {q.key} /\ q.key \in Keys
              /\ m.pc = "miss" => m.missing = {q.key}
              /\ m.pc = "done" => m.out[q.key] \in Recently(q.key)
  <2>1. l.keys = {q.key} /\ q.key \in Keys
    BY <1>2, <1>13, Constants DEF RequestOK
  <2>2. QED
    BY <1>3, <1>5, <1>6, <1>8, <1>9, <1>10, <2>1
<1>14. RequestOK(r)'
  BY <1>2, <1>3, <1>6, <1>10, <1>11, <1>12, <1>13 DEF RequestOK, Offer
<1>15. QED
  BY <1>1, <1>11, <1>14, EndSlots DEF SlotInv

LEMMA SlotsJoin ==
  ASSUME SlotInv, CacheOK, NEW r \in Requests, Join(r), request' = request
  PROVE  SlotInv'
<1> DEFINE m == [lookup[r] EXCEPT !.pc = "wait"]
<1>1. clock \in Nat /\ clock' = clock /\ Remembered /\ was' = was
  BY ClockType DEF Remembered, Join
<1>2. SlotsOK /\ RequestOK(r) /\ lookup[r] \in Lookup /\ lookup[r].pc = "miss"
      /\ lookup' = [lookup EXCEPT ![r] = m]
  BY DEF SlotInv, SlotsOK, Join, Looking
<1>3. m \in Lookup /\ m.pc = "wait" /\ m.missing = lookup[r].missing /\ m.out = lookup[r].out
      /\ m.keys = lookup[r].keys
  BY <1>2 DEF Lookup
<1> HIDE DEF m
<1>4. /\ SlotsOK' /\ request'[r] = request[r] /\ lookup'[r] = m
      /\ \A s \in Requests \ {r} : Still(s)
  BY <1>2, <1>3, LookupMoves
<1>5. RequestOK(r)'
  BY <1>2, <1>3, <1>4 DEF RequestOK, Offer
<1>6. QED
  BY <1>1, <1>4, <1>5, EndSlots DEF SlotInv

LEMMA SlotsStore ==
  ASSUME SlotInv, CacheOK, NEW r \in Requests, StoreFetched(r), request' = request
  PROVE  SlotInv'
<1> DEFINE q == request[r]
           l == lookup[r]
           m == [l EXCEPT !.pc = "done"]
<1>1. clock \in Nat /\ clock' = clock /\ Remembered /\ was' = was
  BY ClockType DEF Remembered, StoreFetched
<1>2. SlotsOK /\ RequestOK(r) /\ l \in Lookup /\ l.pc = "store"
  BY DEF SlotInv, SlotsOK, StoreFetched, Looking
<1>3. lookup' = [lookup EXCEPT ![r] = m]
  BY DEF StoreFetched
<1>4. m \in Lookup /\ m.pc = "done" /\ m.out = l.out /\ m.keys = l.keys
  BY <1>2 DEF Lookup
<1> HIDE DEF m
<1>5. /\ SlotsOK' /\ request'[r] = request[r] /\ lookup'[r] = m
      /\ \A s \in Requests \ {r} : Still(s)
  BY <1>2, <1>3, <1>4, LookupMoves
<1>6. ASSUME q.pc \in {"enroll", "path"}
      PROVE  l.out[q.key] \in Recently(q.key)'
  <2>1. q.key \in l.missing /\ q.key \in Keys
    BY <1>2, <1>6, Constants DEF RequestOK
  <2>2. /\ l.out[q.key] \in was[q.key][l.answered] /\ l.answered \in 0..clock
        /\ l.answered + TTL + Lag >= clock
    BY <1>1, <1>2, <2>1, Constants DEF RequestOK, Lookup
  <2>3. QED
    BY <1>1, <2>2 DEF Recently
<1>7. RequestOK(r)'
  BY <1>2, <1>4, <1>5, <1>6 DEF RequestOK, Offer
<1>8. QED
  BY <1>1, <1>5, <1>7, EndSlots DEF SlotInv

\* The answer reaches those that wait for it, and leaves the others alone.
LEMMA SlotsFetched ==
  ASSUME SlotInv, CacheOK, NEW keys \in flights, FetchDone(keys) \/ FetchFails(keys),
         request' = request
  PROVE  SlotInv'
<1>1. clock \in Nat /\ clock \in 0..MaxClock /\ clock' = clock /\ Remembered /\ was' = was
      /\ keys \in SUBSET Keys
  BY ClockType DEF CacheOK, CacheTypeOK, Remembered, FetchDone, FetchFails
<1>2. ASSUME NEW r \in Requests
      PROVE  lookup'[r] \in Lookup /\ RequestOK(r)'
  <2> DEFINE l == lookup[r]
  <2>1. RequestOK(r) /\ l \in Lookup /\ request[r] \in RequestSet
    BY DEF SlotInv, SlotsOK
  <2>2. CASE lookup'[r] = lookup[r]
    BY <1>1, <2>1, <2>2, StillOK DEF Still
  <2>3. ASSUME r \in Riders(keys), FetchDone(keys)
        PROVE  lookup'[r] \in Lookup /\ RequestOK(r)'
    <3> DEFINE out == [k \in Keys |-> IF k \in keys THEN upstream[k] ELSE l.out[k]]
               m == [l EXCEPT !.pc = "store", !.answered = clock, !.out = out]
    <3>1. l.pc = "wait" /\ l.missing = keys
      BY <2>3 DEF Riders, Looking
    <3>2. out \in [Keys -> Values \cup {None}] /\ \A k \in Keys : Offer(k, out[k])
      BY <1>1, <2>1 DEF CacheOK, CacheTypeOK, Lookup, RequestOK
    <3>3. \A k \in keys : out[k] \in was[k][clock]
      BY <1>1 DEF CacheOK
    <3> HIDE DEF out
    <3>4. m \in Lookup /\ m.pc = "store" /\ m.answered = clock /\ m.out = out
          /\ m.keys = l.keys /\ m.missing = l.missing
      BY <1>1, <2>1, <3>2 DEF Lookup
    <3>5. lookup'[r] = m
      BY <2>3 DEF FetchDone, out
    <3> HIDE DEF m
    <3>6. clock <= clock + Lag
      BY <1>1, Constants
    <3>7. RequestOK(r)'
      BY <1>1, <2>1, <3>1, <3>2, <3>3, <3>4, <3>5, <3>6 DEF RequestOK, Offer
    <3>8. QED
      BY <3>4, <3>5, <3>7
  <2>4. ASSUME r \in Riders(keys), FetchFails(keys)
        PROVE  lookup'[r] \in Lookup /\ RequestOK(r)'
    <3> DEFINE m == [l EXCEPT !.pc = "done", !.failed = TRUE]
    <3>1. m \in Lookup /\ m.pc = "done" /\ m.failed = TRUE /\ m.out = l.out /\ m.keys = l.keys
      BY <2>1 DEF Lookup
    <3>2. lookup'[r] = m
      BY <2>4 DEF FetchFails
    <3> HIDE DEF m
    <3>3. l.pc = "wait"
      BY <2>4 DEF Riders, Looking
    <3>4. RequestOK(r)'
      BY <2>1, <3>1, <3>2, <3>3 DEF RequestOK, Offer
    <3>5. QED
      BY <3>1, <3>2, <3>4
  <2>5. QED
    BY <2>2, <2>3, <2>4 DEF FetchDone, FetchFails
<1>3. DOMAIN lookup' = Requests /\ lookup' = [r \in Requests |-> lookup'[r]]
  BY DEF FetchDone, FetchFails
<1>4. SlotsOK'
  BY <1>2, <1>3 DEF SlotInv, SlotsOK
<1>5. QED
  BY <1>2, <1>4 DEF SlotInv

\* The clock does not outrun an answer on its way to the cache.
LEMMA SlotsTick ==
  ASSUME SlotInv, CacheOK, Tick, request' = request
  PROVE  SlotInv'
<1>1. /\ clock \in Nat /\ clock' = clock + 1 /\ lookup' = lookup
      /\ \A r \in Requests : lookup[r].pc # "done"
      /\ \A r \in Requests : lookup[r].pc = "store" => clock < lookup[r].answered + Lag
  BY ClockType DEF Tick, Looking
<1>2. \A k \in Keys, t \in 0..clock : was'[k][t] = was[k][t]
  <2> SUFFICES ASSUME NEW k \in Keys, NEW t \in 0..clock
               PROVE  was'[k][t] = was[k][t]
    OBVIOUS
  <2>1. was'[k] = [was[k] EXCEPT ![clock + 1] = {upstream[k]}] /\ t # clock + 1
    BY <1>1 DEF Tick
  <2>2. was[k] \in [0..MaxClock -> SUBSET (Values \cup {None})]
    BY DEF CacheOK, CacheTypeOK
  <2>3. t \in 0..MaxClock
    BY ClockType, Constants
  <2>4. QED
    BY <2>1, <2>2, <2>3
<1>3. SlotsOK'
  BY <1>1 DEF SlotInv, SlotsOK
<1>4. ASSUME NEW r \in Requests
      PROVE  RequestOK(r)'
  <2> DEFINE l == lookup[r]
  <2>0. l \in Lookup
    BY DEF SlotInv, SlotsOK
  <2>1. /\ RequestOK(r) /\ l.answered \in Nat /\ l.missing \subseteq Keys
        /\ lookup'[r] = l /\ request'[r] = request[r]
    <3>1. RequestOK(r) /\ lookup'[r] = l /\ request'[r] = request[r]
      BY <1>1 DEF SlotInv
    <3>2. l.answered \in 0..MaxClock /\ l.missing \subseteq Keys
      BY <2>0 DEF Lookup
    <3>3. QED
      BY <3>1, <3>2, Constants
  <2>2. ASSUME l.pc = "store"
        PROVE  /\ l.answered <= clock' /\ clock' <= l.answered + Lag
               /\ \A k \in l.missing : l.out[k] \in was'[k][l.answered]
    <3>1. l.answered \in 0..clock /\ \A k \in l.missing : l.out[k] \in was[k][l.answered]
      BY <1>1, <2>1, <2>2 DEF RequestOK
    <3>2. clock < l.answered + Lag
      BY <1>1, <2>2
    <3>3. QED
      BY <1>1, <1>2, <2>1, <3>1, <3>2, Constants
  <2>3. l.pc # "done"
    BY <1>1
  <2>4. QED
    BY <2>1, <2>2, <2>3 DEF RequestOK, Offer
<1>5. QED
  BY <1>3, <1>4 DEF SlotInv

LEMMA SlotsAround ==
  ASSUME SlotInv, CacheOK, Around
  PROVE  SlotInv'
<1>1. request' = request
  BY DEF Around
<1>2. CASE \E r \in Requests : CacheStep(r)
  BY <1>1, <1>2, SlotsRead, SlotsJoin, SlotsStore DEF CacheStep
<1>3. CASE \E keys \in flights : FetchDone(keys) \/ FetchFails(keys)
  BY <1>1, <1>3, SlotsFetched
<1>4. CASE Tick
  BY <1>1, <1>4, SlotsTick
<1>5. QED
  BY <1>2, <1>3, <1>4 DEF Around

\* What an author changes is remembered, too.
LEMMA EditRemembers ==
  ASSUME CacheOK, NEW k \in Keys, NEW value \in Values \cup {None}, Edit(k, value)
  PROVE  /\ Remembered /\ clock' = clock
         /\ upstream' \in [Keys -> Values \cup {None}]
         /\ was' \in [Keys -> [0..MaxClock -> SUBSET (Values \cup {None})]]
         /\ value \in was'[k][clock]
         /\ upstream'[k] = value /\ \A j \in Keys \ {k} : upstream'[j] = upstream[j]
<1> DEFINE h == [was[k] EXCEPT ![clock] = @ \cup {value}]
<1>1. /\ was \in [Keys -> [0..MaxClock -> SUBSET (Values \cup {None})]]
      /\ upstream \in [Keys -> Values \cup {None}]
  BY DEF CacheOK, CacheTypeOK
<1>2. was[k] \in [0..MaxClock -> SUBSET (Values \cup {None})] /\ clock \in 0..MaxClock
  BY <1>1, ClockType
<1>3. /\ h \in [0..MaxClock -> SUBSET (Values \cup {None})]
      /\ value \in h[clock] /\ \A t \in 0..MaxClock : was[k][t] \subseteq h[t]
  <2>1. was[k][clock] \cup {value} \in SUBSET (Values \cup {None})
    BY <1>2
  <2>2. QED
    BY <1>2, <2>1
<1>4. was' = [was EXCEPT ![k] = h] /\ clock' = clock /\ upstream' = [upstream EXCEPT ![k] = value]
  BY DEF Edit
<1> HIDE DEF h
<1>5. /\ was' \in [Keys -> [0..MaxClock -> SUBSET (Values \cup {None})]]
      /\ was'[k] = h /\ \A j \in Keys \ {k} : was'[j] = was[j]
  BY <1>1, <1>3, <1>4
<1>6. 0..clock \subseteq 0..MaxClock
  BY ClockType, Constants
<1>7. Remembered
  BY <1>3, <1>5, <1>6 DEF Remembered
<1>8. QED
  BY <1>1, <1>3, <1>4, <1>5, <1>7

LEMMA SlotsEdit ==
  ASSUME SlotInv, CacheOK, NEW k \in Keys, NEW value \in Values \cup {None}, EditCatalog(k, value)
  PROVE  SlotInv'
<1>1. Edit(k, value) /\ UNCHANGED <<request, lookup>>
  BY DEF EditCatalog, Edit
<1>2. Remembered /\ clock' = clock /\ clock \in Nat
  BY <1>1, EditRemembers, ClockType
<1>3. QED
  BY <1>1, <1>2, AllStill DEF SlotInv

\* A step that concerns neither the catalogue nor a request.
Aside == UNCHANGED <<cacheVars, request>>

LEMMA SlotsAside ==
  ASSUME SlotInv, CacheOK, Aside
  PROVE  SlotInv'
<1>1. UNCHANGED <<request, lookup>> /\ clock' = clock /\ Remembered /\ clock \in Nat
  BY ClockType DEF Aside, cacheVars, Remembered
<1>2. QED
  BY <1>1, AllStill DEF SlotInv

-----------------------------------------------------------------------------
(* The cache                                                               *)

\* The catalogue and the entries stay as they are.
LEMMA CacheStays ==
  ASSUME CacheOK, SlotsOK', UNCHANGED <<upstream, was, cache, clock>>, flights' \subseteq SUBSET Keys
  PROVE  CacheOK'
<1>1. CacheTypeOK'
  BY DEF CacheOK, CacheTypeOK, SlotsOK, Live
<1>2. QED
  BY <1>1 DEF CacheOK, Offer

LEMMA CacheTick ==
  ASSUME CacheOK, SlotsOK', Tick
  PROVE  CacheOK'
<1>1. /\ upstream' = upstream /\ cache' = cache /\ flights' = flights /\ clock' = clock + 1
      /\ clock \in Nat /\ clock \in 0..MaxClock /\ clock + 1 \in 0..MaxClock
  BY ClockType, Constants DEF Tick
<1>2. ASSUME NEW k \in Keys
      PROVE  /\ was'[k] \in [0..MaxClock -> SUBSET (Values \cup {None})]
             /\ was'[k][clock + 1] = {upstream[k]}
             /\ \A t \in 0..clock : was'[k][t] = was[k][t]
  <2>1. /\ was[k] \in [0..MaxClock -> SUBSET (Values \cup {None})]
        /\ upstream[k] \in Values \cup {None}
    BY DEF CacheOK, CacheTypeOK
  <2>2. was'[k] = [was[k] EXCEPT ![clock + 1] = {upstream[k]}]
    BY DEF Tick
  <2>3. {upstream[k]} \in SUBSET (Values \cup {None})
    BY <2>1
  <2>4. \A t \in 0..clock : t \in 0..MaxClock /\ t # clock + 1
    BY <1>1, Constants
  <2> DEFINE n == clock + 1
             v == {upstream[k]}
  <2>5. n \in 0..MaxClock
    BY <1>1
  <2>6. \A t \in 0..clock : t # n
    BY <2>4
  <2>7. was'[k] = [was[k] EXCEPT ![n] = v] /\ v \in SUBSET (Values \cup {None})
    BY <2>2, <2>3
  <2> HIDE DEF n, v
  <2>8. /\ was'[k] \in [0..MaxClock -> SUBSET (Values \cup {None})]
        /\ was'[k][n] = v
        /\ \A t \in 0..clock : was'[k][t] = was[k][t]
    BY <2>1, <2>4, <2>5, <2>6, <2>7
  <2>9. QED
    BY <2>8 DEF n, v
<1>3. was' \in [Keys -> [0..MaxClock -> SUBSET (Values \cup {None})]]
  <2>1. was' = [k \in Keys |-> was'[k]]
    BY DEF Tick
  <2>2. QED
    BY <1>2, <2>1
<1>4. CacheTypeOK'
  BY <1>1, <1>3 DEF CacheOK, CacheTypeOK, SlotsOK, Live
<1>5. ASSUME NEW k \in Keys
      PROVE  /\ Offer(k, upstream'[k]) /\ upstream'[k] \in was'[k][clock']
             /\ cache'[k] # None =>
                  /\ Offer(k, cache'[k].value)
                  /\ \E t \in 0..clock' : /\ cache'[k].value \in was'[k][t]
                                          /\ t + Lag + TTL >= cache'[k].expires
  <2>1. ASSUME cache[k] # None
        PROVE  \E t \in 0..clock' : /\ cache[k].value \in was'[k][t]
                                    /\ t + Lag + TTL >= cache[k].expires
    <3>1. PICK t \in 0..clock : cache[k].value \in was[k][t] /\ t + Lag + TTL >= cache[k].expires
      BY <2>1 DEF CacheOK
    <3>2. t \in 0..clock' /\ was'[k][t] = was[k][t]
      BY <1>1, <1>2
    <3>3. QED
      BY <3>1, <3>2
  <2>2. QED
    BY <1>1, <1>2, <2>1 DEF CacheOK
<1>6. QED
  BY <1>4, <1>5 DEF CacheOK, Offer

LEMMA CacheEdit ==
  ASSUME CacheOK, SlotsOK', NEW k \in Keys, NEW value \in Values \cup {None}, EditCatalog(k, value)
  PROVE  CacheOK'
<1>1. Edit(k, value) /\ cache' = cache /\ flights' = flights
  BY DEF EditCatalog, Edit
<1>2. /\ Remembered /\ clock' = clock
      /\ upstream' \in [Keys -> Values \cup {None}]
      /\ was' \in [Keys -> [0..MaxClock -> SUBSET (Values \cup {None})]]
      /\ value \in was'[k][clock]
      /\ upstream'[k] = value /\ \A j \in Keys \ {k} : upstream'[j] = upstream[j]
  BY <1>1, EditRemembers
<1>3. Offer(k, value)
  BY DEF EditCatalog, Offer
<1>4. CacheTypeOK'
  BY <1>1, <1>2 DEF CacheOK, CacheTypeOK, SlotsOK, Live
<1>5. clock \in 0..clock
  BY ClockType
<1>6. ASSUME NEW j \in Keys
      PROVE  /\ Offer(j, upstream'[j]) /\ upstream'[j] \in was'[j][clock']
             /\ cache'[j] # None =>
                  /\ Offer(j, cache'[j].value)
                  /\ \E t \in 0..clock' : /\ cache'[j].value \in was'[j][t]
                                          /\ t + Lag + TTL >= cache'[j].expires
  BY <1>1, <1>2, <1>3, <1>5 DEF CacheOK, Remembered
<1>7. QED
  BY <1>4, <1>6 DEF CacheOK, Offer

\* What is kept of a cache fits in it.
LEMMA KeptFits ==
  ASSUME NEW K \in Caches, NEW live \in SUBSET K, NEW entries, NEW kept \in Kept(live, entries)
  PROVE  kept \subseteq live /\ Cardinality(kept) <= MaxEntries
<1> DEFINE fresh == {k \in live : ~Expired(entries[k])}
<1>1. fresh \subseteq live
  OBVIOUS
<1>2. CASE Cardinality(live) <= MaxEntries
  BY <1>2 DEF Kept
<1>3. CASE ~(Cardinality(live) <= MaxEntries) /\ Cardinality(fresh) <= MaxEntries
  BY <1>1, <1>3 DEF Kept
<1>4. CASE ~(Cardinality(live) <= MaxEntries) /\ ~(Cardinality(fresh) <= MaxEntries)
  <2>1. kept \in SUBSET fresh /\ Cardinality(kept) = MaxEntries
    BY <1>4 DEF Kept
  <2>2. QED
    BY <1>1, <2>1, Constants
<1>5. QED
  BY <1>2, <1>3, <1>4

\* An answer is good for TTL from when it is stored, within Lag of its time.
LEMMA CacheStore ==
  ASSUME SlotInv, CacheOK, SlotsOK', NEW r \in Requests, StoreFetched(r)
  PROVE  CacheOK'
<1> DEFINE l == lookup[r]
           entries == [k \in Keys |->
             IF k \in l.missing THEN [value |-> l.out[k], expires |-> clock + TTL] ELSE cache[k]]
           live(K) == {k \in K : entries[k] # None}
<1>1. /\ l \in Lookup /\ RequestOK(r) /\ l.pc = "store"
      /\ upstream' = upstream /\ was' = was /\ flights' = flights /\ clock' = clock
  BY DEF SlotInv, SlotsOK, StoreFetched, Looking
<1>0. PICK K \in Caches :
        /\ l.missing \subseteq K
        /\ \E kept \in Kept(live(K), entries) :
             cache' = [k \in Keys |-> IF k \in K \ kept THEN None ELSE entries[k]]
  BY Zenon DEF StoreFetched
<1>2. PICK kept \in Kept(live(K), entries) :
        /\ l.missing \subseteq K
        /\ cache' = [k \in Keys |-> IF k \in K \ kept THEN None ELSE entries[k]]
  BY <1>0
<1>3. /\ l.answered \in 0..clock /\ clock <= l.answered + Lag /\ l.out \in [Keys -> Values \cup {None}]
      /\ \A k \in Keys : Offer(k, l.out[k])
      /\ \A k \in l.missing : l.out[k] \in was[k][l.answered]
  <2>1. l.answered \in 0..MaxClock /\ l.out \in [Keys -> Values \cup {None}]
    BY <1>1 DEF Lookup
  <2>2. l.answered <= clock
    BY <1>1 DEF RequestOK
  <2>3. l.answered \in 0..clock
    BY <2>1, <2>2, ClockType, Constants
  <2>4. QED
    BY <1>1, <2>1, <2>3 DEF RequestOK
<1>4. ASSUME NEW k \in Keys
      PROVE  /\ entries[k] \in Entry \cup {None}
             /\ entries[k] # None =>
                  /\ Offer(k, entries[k].value)
                  /\ \E t \in 0..clock : /\ entries[k].value \in was[k][t]
                                         /\ t + Lag + TTL >= entries[k].expires
  <2>1. CASE k \notin l.missing
    BY <2>1 DEF CacheOK, CacheTypeOK
  <2>2. CASE k \in l.missing
    <3> DEFINE e == [value |-> l.out[k], expires |-> clock + TTL]
    <3>1. clock + TTL \in 0..MaxClock + TTL /\ l.answered + Lag + TTL >= clock + TTL
      BY <1>3, ClockType, Constants
    <3>2. e \in Entry
      BY <1>3, <3>1 DEF Entry
    <3>3. e.value = l.out[k] /\ e.expires = clock + TTL /\ entries[k] = e
      BY <2>2
    <3> HIDE DEF e, entries
    <3>4. QED
      BY <1>3, <2>2, <3>1, <3>2, <3>3
  <2>3. QED
    BY <2>1, <2>2
<1>5. \A k \in Keys : cache'[k] = entries[k] \/ cache'[k] = None
  BY <1>2
<1>6. cache' \in [Keys -> Entry \cup {None}]
  <2>1. cache' = [k \in Keys |-> cache'[k]]
    BY <1>2
  <2> HIDE DEF entries
  <2>2. QED
    BY <1>4, <1>5, <2>1
<1>7. ASSUME NEW M \in Caches
      PROVE  Cardinality(Live(M)') <= MaxEntries
  <2>1. M \subseteq Keys
    BY DEF Keys
  <2>2. CASE M = K
    <3>1. kept \subseteq live(K) /\ Cardinality(kept) <= MaxEntries
      <4>1. live(K) \in SUBSET K
        OBVIOUS
      <4> HIDE DEF entries, live
      <4>2. QED
        BY <1>2, <4>1, KeptFits
    <3>2. Live(M)' = kept
      BY <1>2, <2>1, <2>2, <3>1 DEF Live
    <3>3. QED
      BY <3>1, <3>2
  <2>3. CASE M # K
    <3>1. M \cap K = {}
      BY <2>3, CacheAssumption
    <3>2. \A k \in M : cache'[k] = cache[k]
      BY <1>2, <2>1, <3>1
    <3>3. Live(M)' = Live(M)
      BY <3>2 DEF Live
    <3>4. QED
      BY <3>3 DEF CacheOK, CacheTypeOK
  <2>4. QED
    BY <2>2, <2>3
<1> HIDE DEF entries
<1>8. CacheTypeOK'
  BY <1>1, <1>6, <1>7 DEF CacheOK, CacheTypeOK, SlotsOK
<1>9. \A k \in Keys : /\ Offer(k, upstream'[k]) /\ upstream'[k] \in was'[k][clock']
                      /\ cache'[k] # None =>
                           /\ Offer(k, cache'[k].value)
                           /\ \E t \in 0..clock' : /\ cache'[k].value \in was'[k][t]
                                                   /\ t + Lag + TTL >= cache'[k].expires
  BY <1>1, <1>4, <1>5 DEF CacheOK
<1>10. QED
  BY <1>8, <1>9 DEF CacheOK, Offer

LEMMA CacheAround ==
  ASSUME SlotInv, CacheOK, SlotsOK', Around
  PROVE  CacheOK'
<1>1. flights \subseteq SUBSET Keys
  BY DEF CacheOK, CacheTypeOK
<1>2. ASSUME NEW r \in Requests, ReadCached(r)
      PROVE  CacheOK'
  BY <1>1, <1>2, CacheStays DEF ReadCached
<1>3. ASSUME NEW r \in Requests, Join(r)
      PROVE  CacheOK'
  <2>1. lookup[r].missing \subseteq Keys
    BY DEF SlotInv, SlotsOK, Lookup
  <2>2. flights' \subseteq SUBSET Keys
    BY <1>1, <1>3, <2>1 DEF Join
  <2>3. QED
    BY <1>3, <2>2, CacheStays DEF Join
<1>4. ASSUME NEW keys \in flights, FetchDone(keys) \/ FetchFails(keys)
      PROVE  CacheOK'
  <2>1. UNCHANGED <<upstream, was, cache, clock>> /\ flights' \subseteq SUBSET Keys
    BY <1>1, <1>4 DEF FetchDone, FetchFails
  <2>2. QED
    BY <2>1, CacheStays
<1>5. QED
  BY <1>2, <1>3, <1>4, CacheStore, CacheTick DEF Around, CacheStep

-----------------------------------------------------------------------------
(* The tables                                                              *)

LEMMA TablesStep ==
  ASSUME TablesOK, SlotInv, NEW r \in Requests, Step(r)
  PROVE  TablesOK'
<1> DEFINE q == request[r]
<1>1. RequestOK(r) /\ q \in RequestSet
  BY DEF SlotInv, SlotsOK
<1>2. ASSUME Create(r)
      PROVE  TablesOK'
  <2>1. q.user \in Users /\ q.key \in Courses
    BY <1>1, <1>2 DEF Create, At, RequestOK
  <2>2. enrolled' \subseteq Users \X Courses
    BY <1>2, <2>1 DEF Create, TablesOK
  <2>3. QED
    BY <1>2, <2>2 DEF Create, TablesOK
<1>3. ASSUME EnrollWithCourses(r)
      PROVE  TablesOK'
  <2>1. q.user \in Users /\ q.key \in Paths /\ q.key \in Keys
    BY <1>1, <1>3, Constants DEF EnrollWithCourses, At, RequestOK
  <2>2. Offer(q.key, Found(r)) /\ q.key \notin Courses
    BY <1>1, <2>1, Constants DEF RequestOK, Found
  <2>3. CoursesOf(r) \subseteq Courses
    BY <2>2 DEF CoursesOf, Offer, PathOffer
  <2>4. enrolled' \subseteq Users \X Courses /\ pathEnrolled' \subseteq Users \X Paths
    BY <1>3, <2>1, <2>3 DEF EnrollWithCourses, TablesOK
  <2>5. QED
    BY <1>3, <2>4 DEF EnrollWithCourses, TablesOK
<1>4. ASSUME Insert(r)
      PROVE  TablesOK'
  <2>1. q.user \in Users /\ q.seat \in Seats /\ q.capacity \in Nat
    BY <1>1, <1>4 DEF Insert, At, RequestOK, RequestSet
  <2>2. /\ bookings' \in [Seats -> [Users -> BOOLEAN \cup {None}]]
        /\ admitted' \in [Seats -> [Users -> Nat]]
    <3> DEFINE row == [bookings[q.seat] EXCEPT ![q.user] = FALSE]
               caps == [admitted[q.seat] EXCEPT ![q.user] = q.capacity]
    <3>1. row \in [Users -> BOOLEAN \cup {None}] /\ caps \in [Users -> Nat]
      BY <2>1 DEF TablesOK
    <3>2. \/ UNCHANGED <<bookings, admitted>>
          \/ /\ bookings' = [bookings EXCEPT ![q.seat] = row]
             /\ admitted' = [admitted EXCEPT ![q.seat] = caps]
      BY <1>4 DEF Insert
    <3> HIDE DEF row, caps
    <3>3. QED
      BY <2>1, <3>1, <3>2 DEF TablesOK
  <2>3. QED
    BY <1>4, <2>2 DEF Insert, TablesOK
<1>5. QED
  BY <1>2, <1>3, <1>4 DEF Step, Listed, SessionCapacity, CountBySession, Book, Insert, Fails, tables, TablesOK

LEMMA TablesAtOnce ==
  ASSUME TablesOK, AtOnce
  PROVE  TablesOK'
<1>1. asked' \in 0..MaxRequests
  <2>1. asked' = asked - 1 /\ asked > 0 /\ asked \in 0..MaxRequests /\ MaxRequests \in Nat
    BY Constants DEF AtOnce, AutoEnroll, Unenroll, UnenrollFromPath, Unbook, MarkPresent, EarnXP,
       Ask, TablesOK
  <2>2. QED
    BY <2>1
<1>2. PICK u \in Users :
        \/ \E c \in Courses : AutoEnroll(u, c) \/ Unenroll(u, c)
        \/ \E p \in Paths : UnenrollFromPath(u, p)
        \/ \E x \in Seats : Unbook(u, x) \/ \E present \in BOOLEAN : MarkPresent(u, x, present)
        \/ EarnXP(u)
  BY DEF AtOnce
<1>3. ASSUME NEW c \in Courses, AutoEnroll(u, c) \/ Unenroll(u, c)
      PROVE  TablesOK'
  BY <1>1, <1>3 DEF AutoEnroll, Unenroll, TablesOK
<1>4. ASSUME NEW p \in Paths, UnenrollFromPath(u, p)
      PROVE  TablesOK'
  BY <1>1, <1>4 DEF UnenrollFromPath, TablesOK
<1>5. ASSUME NEW x \in Seats, Unbook(u, x)
      PROVE  TablesOK'
  BY <1>1, <1>5 DEF Unbook, TablesOK
<1>6. ASSUME NEW x \in Seats, NEW present \in BOOLEAN, MarkPresent(u, x, present)
      PROVE  TablesOK'
  BY <1>1, <1>6 DEF MarkPresent, TablesOK
<1>7. ASSUME EarnXP(u)
      PROVE  TablesOK'
  <2>1. xp[u] + 1 \in 0..MaxXP
    BY <1>7, Constants DEF EarnXP, TablesOK
  <2>2. xp' \in [Users -> 0..MaxXP]
    BY <1>7, <2>1 DEF EarnXP, TablesOK
  <2>3. QED
    BY <1>1, <1>7, <2>2 DEF EarnXP, tables, TablesOK
<1>8. QED
  BY <1>2, <1>3, <1>4, <1>5, <1>6, <1>7

\* A step that leaves the tables alone.
LEMMA TablesStay ==
  ASSUME TablesOK, UNCHANGED <<xp, tables, admitted>>, Ask \/ asked' = asked
  PROVE  TablesOK'
<1>1. asked' \in 0..MaxRequests
  BY Constants DEF Ask, TablesOK
<1>2. QED
  BY <1>1 DEF tables, TablesOK

-----------------------------------------------------------------------------
(* The seats, action by action                                             *)

\* Nobody is let in, and nobody comes closer.
LEMMA SeatsStay ==
  ASSUME SeatsOK, UNCHANGED <<bookings, admitted>>,
         \A s \in Requests : request'[s] = request[s] \/ request'[s].pc \notin {"book", "insert"}
  PROVE  SeatsOK'
<1>1. ASSUME NEW x \in Seats, NEW k \in Nat \ {0}
      PROVE  RoomFor(x, k)'
  <2>1. LetIn(x, k)' = LetIn(x, k) /\ AboutToBook(x, k)' \subseteq AboutToBook(x, k)
    BY DEF LetIn, AboutToBook
  <2>2. RoomFor(x, k)
    BY DEF SeatsOK
  <2>3. QED
    BY <2>1, <2>2, FewerKeepRoom
<1>2. QED
  BY <1>1 DEF SeatsOK

LEMMA SeatsEnd ==
  ASSUME SeatsOK, SlotInv, NEW r \in Requests, End(r), UNCHANGED <<bookings, admitted>>
  PROVE  SeatsOK'
<1>1. request'[r] = Idle /\ \A s \in Requests \ {r} : Still(s)
  BY EndOK DEF SlotInv
<1>2. \A s \in Requests : request'[s] = request[s] \/ request'[s].pc \notin {"book", "insert"}
  BY <1>1 DEF Still, Idle
<1>3. QED
  BY <1>2, SeatsStay

LEMMA SeatsBegin ==
  ASSUME SeatsOK, SlotInv, NEW r \in Requests, Begin(r)
  PROVE  SeatsOK'
<1>1. UNCHANGED <<bookings, admitted>>
  BY DEF Begin, Enroll, AdminEnrollUserInPath, MyPaths, BookSession, tables
<1>2. request \in [Requests -> RequestSet]
  BY DEF SlotInv, SlotsOK
<1>3. \A u, c : Enroll(r, u, c) => request'[r].pc = "enroll"
  BY <1>2 DEF Enroll, Start, Idle
<1>4. \A u, p : AdminEnrollUserInPath(r, u, p) => request'[r].pc = "path"
  BY <1>2 DEF AdminEnrollUserInPath, Start, Idle
<1>5. \A u : MyPaths(r, u) => request'[r].pc = "list"
  BY <1>2 DEF MyPaths, Start, Idle
<1>6. \A u, x : BookSession(r, u, x) => request'[r].pc = "capacity"
  BY <1>2 DEF BookSession, Start, Idle
<1>7. request'[r].pc \notin {"book", "insert"}
  BY <1>3, <1>4, <1>5, <1>6 DEF Begin
<1>8. \A s \in Requests \ {r} : request'[s] = request[s]
  BY <1>2 DEF Begin, Enroll, AdminEnrollUserInPath, MyPaths, BookSession, Start
<1>9. QED
  BY <1>1, <1>7, <1>8, SeatsStay

LEMMA SeatsCapacity ==
  ASSUME SeatsOK, SlotInv, NEW r \in Requests, SessionCapacity(r)
  PROVE  SeatsOK'
<1>1. request \in [Requests -> RequestSet] /\ UNCHANGED <<bookings, admitted>>
  BY DEF SlotInv, SlotsOK, SessionCapacity, tables
<1>2. PICK capacity :
        request' = [request EXCEPT ![r].pc = IF capacity > 0 THEN "count" ELSE "book",
                                   ![r].capacity = capacity]
  BY DEF SessionCapacity
<1>3. PICK pc \in {"count", "book"} : pc = IF capacity > 0 THEN "count" ELSE "book"
  OBVIOUS
<1> DEFINE q == [request[r] EXCEPT !.pc = pc, !.capacity = capacity]
<1>4. request' = [request EXCEPT ![r] = q]
  BY <1>1, <1>2, <1>3
<1>5. request[r] \in RequestSet
  BY <1>1
<1>6. q.pc = pc /\ q.capacity = capacity
  BY <1>5 DEF RequestSet
<1> HIDE DEF q
<1>7. request'[r] = q /\ \A s \in Requests \ {r} : request'[s] = request[s]
  BY <1>1, <1>4
<1>8. ASSUME NEW x \in Seats, NEW k \in Nat \ {0}
      PROVE  RoomFor(x, k)'
  <2>1. RoomFor(x, k)
    BY DEF SeatsOK
  <2>2. r \notin AboutToBook(x, k)'
    BY <1>3, <1>6, <1>7 DEF AboutToBook
  <2>3. LetIn(x, k)' = LetIn(x, k) /\ AboutToBook(x, k)' \subseteq AboutToBook(x, k)
    BY <1>1, <1>7, <2>2 DEF LetIn, AboutToBook
  <2>4. QED
    BY <2>1, <2>3, FewerKeepRoom
<1>9. QED
  BY <1>8 DEF SeatsOK

LEMMA SeatsCount ==
  ASSUME SeatsOK, SlotInv, NEW r \in Requests, CountBySession(r), ~End(r)
  PROVE  SeatsOK'
<1> DEFINE q == request[r]
           m == [q EXCEPT !.pc = "book"]
<1>1. /\ request \in [Requests -> RequestSet] /\ q \in RequestSet
      /\ UNCHANGED <<bookings, admitted>>
      /\ ~(Cardinality(Booked(q.seat)) >= q.capacity)
      /\ request' = [request EXCEPT ![r] = m]
  BY DEF SlotInv, SlotsOK, CountBySession, tables
<1>2. m.pc = "book" /\ m.seat = q.seat /\ m.capacity = q.capacity /\ q.capacity \in Nat
  BY <1>1 DEF RequestSet
<1> HIDE DEF m
<1>3. request'[r] = m /\ \A s \in Requests \ {r} : request'[s] = request[s]
  BY <1>1
<1>4. ASSUME NEW x \in Seats, NEW k \in Nat \ {0}
      PROVE  RoomFor(x, k)'
  <2>1. CASE x = q.seat /\ q.capacity <= k
    <3>1. Cardinality(Booked(x)) \in Nat
      <4>1. Booked(x) \subseteq Users
        BY DEF Booked
      <4>2. QED
        BY <4>1, Constants, FS_Subset, FS_CardinalityType
    <3>2. Cardinality(Booked(x)) < k
      BY <1>1, <1>2, <2>1, <3>1
    <3>3. QED
      BY <1>1, <3>2, CountedKeepsRoom
  <2>2. CASE ~(x = q.seat /\ q.capacity <= k)
    <3>1. RoomFor(x, k)
      BY DEF SeatsOK
    <3>2. r \notin AboutToBook(x, k)'
      BY <1>2, <1>3, <2>2 DEF AboutToBook
    <3>3. LetIn(x, k)' = LetIn(x, k) /\ AboutToBook(x, k)' \subseteq AboutToBook(x, k)
      BY <1>1, <1>3, <3>2 DEF LetIn, AboutToBook
    <3>4. QED
      BY <3>1, <3>3, FewerKeepRoom
  <2>3. QED
    BY <2>1, <2>2
<1>5. QED
  BY <1>4 DEF SeatsOK

\* Whoever found no booking is as near as before.
LEMMA SeatsBook ==
  ASSUME SeatsOK, SlotInv, NEW r \in Requests, Book(r), ~End(r)
  PROVE  SeatsOK'
<1> DEFINE q == request[r]
           m == [q EXCEPT !.pc = "insert"]
<1>1. /\ request \in [Requests -> RequestSet] /\ q \in RequestSet /\ q.pc = "book"
      /\ UNCHANGED <<bookings, admitted>>
      /\ request' = [request EXCEPT ![r] = m]
  BY DEF SlotInv, SlotsOK, Book, At, tables
<1>2. m.pc = "insert" /\ m.seat = q.seat /\ m.capacity = q.capacity
  BY <1>1 DEF RequestSet
<1> HIDE DEF m
<1>3. request'[r] = m /\ \A s \in Requests \ {r} : request'[s] = request[s]
  BY <1>1
<1>4. ASSUME NEW x \in Seats, NEW k \in Nat \ {0}
      PROVE  RoomFor(x, k)'
  <2>1. RoomFor(x, k)
    BY DEF SeatsOK
  <2>2. LetIn(x, k)' = LetIn(x, k) /\ AboutToBook(x, k)' \subseteq AboutToBook(x, k)
    BY <1>1, <1>2, <1>3 DEF LetIn, AboutToBook
  <2>3. QED
    BY <2>1, <2>2, FewerKeepRoom
<1>5. QED
  BY <1>4 DEF SeatsOK

LEMMA SeatsInsert ==
  ASSUME SeatsOK, TablesOK, SlotInv, NEW r \in Requests, Insert(r)
  PROVE  SeatsOK'
<1> DEFINE q == request[r]
           row == [bookings[q.seat] EXCEPT ![q.user] = FALSE]
           caps == [admitted[q.seat] EXCEPT ![q.user] = q.capacity]
<1>1. /\ q.user \in Users /\ q.seat \in Seats /\ q.capacity \in Nat /\ q.pc = "insert"
      /\ SlotsOK /\ End(r)
  BY DEF Insert, At, SlotInv, SlotsOK, RequestOK, RequestSet
<1>2. request'[r] = Idle /\ \A s \in Requests \ {r} : request'[s] = request[s]
  BY <1>1, EndOK DEF Still
<1>3. Idle.pc \notin {"book", "insert"}
  BY DEF Idle
<1>4. CASE UNCHANGED <<bookings, admitted>>
  BY <1>1, <1>4, SeatsEnd
<1>5. ASSUME bookings' = [bookings EXCEPT ![q.seat] = row],
             admitted' = [admitted EXCEPT ![q.seat] = caps]
      PROVE  SeatsOK'
  <2>1. /\ bookings'[q.seat] = row /\ admitted'[q.seat] = caps
        /\ \A x \in Seats \ {q.seat} : bookings'[x] = bookings[x] /\ admitted'[x] = admitted[x]
    BY <1>1, <1>5 DEF TablesOK
  <2>2. \A u \in Users \ {q.user} : row[u] = bookings[q.seat][u] /\ caps[u] = admitted[q.seat][u]
    BY <1>1 DEF TablesOK
  <2>3. caps[q.user] = q.capacity
    BY <1>1 DEF TablesOK
  <2> HIDE DEF row, caps
  <2>4. ASSUME NEW x \in Seats, NEW k \in Nat \ {0}
        PROVE  RoomFor(x, k)'
    <3>1. RoomFor(x, k)
      BY DEF SeatsOK
    <3>2. AboutToBook(x, k)' \subseteq AboutToBook(x, k) \ {r}
      BY <1>2, <1>3 DEF AboutToBook
    <3>3. CASE x # q.seat
      <4>1. LetIn(x, k)' = LetIn(x, k)
        BY <2>1, <3>3 DEF LetIn
      <4>2. QED
        BY <3>1, <3>2, <4>1, FewerKeepRoom
    <3>4. CASE x = q.seat /\ q.capacity \in 1..k
      <4>1. LetIn(x, k)' \subseteq LetIn(x, k) \cup {q.user}
        BY <2>1, <2>2, <3>4 DEF LetIn
      <4>2. r \in AboutToBook(x, k)
        BY <1>1, <3>4 DEF AboutToBook
      <4>3. QED
        BY <3>1, <3>2, <4>1, <4>2, BookedKeepsRoom
    <3>5. CASE x = q.seat /\ q.capacity \notin 1..k
      <4>1. LetIn(x, k)' \subseteq LetIn(x, k)
        BY <2>1, <2>2, <2>3, <3>5 DEF LetIn
      <4>2. QED
        BY <3>1, <3>2, <4>1, FewerKeepRoom
    <3>6. QED
      BY <3>3, <3>4, <3>5
  <2>5. QED
    BY <2>4 DEF SeatsOK
<1>6. QED
  BY <1>4, <1>5 DEF Insert

LEMMA SeatsStep ==
  ASSUME SeatsOK, TablesOK, SlotInv, NEW r \in Requests, Step(r)
  PROVE  SeatsOK'
<1>1. ASSUME End(r), UNCHANGED <<bookings, admitted>>
      PROVE  SeatsOK'
  BY <1>1, SeatsEnd
<1>2. ASSUME Create(r) \/ EnrollWithCourses(r) \/ Listed(r) \/ Fails(r)
      PROVE  SeatsOK'
  BY <1>1, <1>2 DEF Create, EnrollWithCourses, Listed, Fails, tables
<1>3. ASSUME CountBySession(r)
      PROVE  SeatsOK'
  BY <1>1, <1>3, SeatsCount DEF CountBySession, tables
<1>4. ASSUME Book(r)
      PROVE  SeatsOK'
  BY <1>1, <1>4, SeatsBook DEF Book, tables
<1>5. QED
  BY <1>2, <1>3, <1>4, SeatsCapacity, SeatsInsert DEF Step

\* A seat given back is one less, and one that is marked was taken before.
LEMMA SeatsAtOnce ==
  ASSUME SeatsOK, TablesOK, AtOnce
  PROVE  SeatsOK'
<1>1. PICK u \in Users :
        \/ \E c \in Courses : AutoEnroll(u, c) \/ Unenroll(u, c)
        \/ \E p \in Paths : UnenrollFromPath(u, p)
        \/ \E x \in Seats : Unbook(u, x) \/ \E present \in BOOLEAN : MarkPresent(u, x, present)
        \/ EarnXP(u)
  BY DEF AtOnce
<1>2. request' = request
  BY DEF AtOnce, AutoEnroll, Unenroll, UnenrollFromPath, Unbook, MarkPresent, EarnXP
<1>3. ASSUME UNCHANGED <<bookings, admitted>>
      PROVE  SeatsOK'
  BY <1>2, <1>3, SeatsStay
<1>4. ASSUME NEW x \in Seats, Unbook(u, x) \/ \E present \in BOOLEAN : MarkPresent(u, x, present)
      PROVE  SeatsOK'
  <2>1. \A y \in Seats, v \in Users :
          bookings'[y][v] # None => bookings[y][v] # None /\ admitted'[y][v] = admitted[y][v]
    <3>1. PICK present \in BOOLEAN \cup {None} :
            /\ bookings' = [bookings EXCEPT ![x] = [bookings[x] EXCEPT ![u] = present]]
            /\ u \in Booked(x)
            /\ \/ present = None /\ admitted' = [admitted EXCEPT ![x] = [admitted[x] EXCEPT ![u] = 0]]
               \/ admitted' = admitted
      BY <1>4 DEF Unbook, MarkPresent
    <3> SUFFICES ASSUME NEW y \in Seats, NEW v \in Users, bookings'[y][v] # None
                 PROVE  bookings[y][v] # None /\ admitted'[y][v] = admitted[y][v]
      OBVIOUS
    <3> DEFINE row == [bookings[x] EXCEPT ![u] = present]
               caps == [admitted[x] EXCEPT ![u] = 0]
    <3>2. bookings[x][u] # None
      BY <3>1 DEF Booked
    <3>3. /\ \A w \in Users \ {u} : row[w] = bookings[x][w] /\ caps[w] = admitted[x][w]
          /\ row[u] = present
      BY <3>1 DEF TablesOK
    <3>4. bookings' = [bookings EXCEPT ![x] = row]
      BY <3>1
    <3>5. \/ present = None /\ admitted' = [admitted EXCEPT ![x] = caps]
          \/ admitted' = admitted
      BY <3>1
    <3> HIDE DEF row, caps
    <3>6. /\ bookings'[x] = row /\ \A z \in Seats \ {x} : bookings'[z] = bookings[z]
          /\ \A z \in Seats \ {x} : admitted'[z] = admitted[z]
          /\ (present = None /\ admitted'[x] = caps) \/ admitted'[x] = admitted[x]
      BY <3>4, <3>5 DEF TablesOK
    <3>7. QED
      BY <3>2, <3>3, <3>6
  <2>2. ASSUME NEW y \in Seats, NEW k \in Nat \ {0}
        PROVE  RoomFor(y, k)'
    <3>1. LetIn(y, k)' \subseteq LetIn(y, k)
      BY <2>1 DEF LetIn
    <3>2. AboutToBook(y, k)' = AboutToBook(y, k)
      BY <1>2 DEF AboutToBook
    <3>3. RoomFor(y, k)
      BY DEF SeatsOK
    <3>4. QED
      BY <3>1, <3>2, <3>3, FewerKeepRoom
  <2>3. QED
    BY <2>2 DEF SeatsOK
<1>5. QED
  BY <1>1, <1>3, <1>4 DEF AutoEnroll, Unenroll, UnenrollFromPath, EarnXP, tables

-----------------------------------------------------------------------------
(* The invariant is inductive                                              *)

LEMMA InvParts ==
  Inv <=> CacheOK /\ TablesOK /\ SlotInv /\ SeatsOK
BY DEF Inv, SlotInv

LEMMA InvInit ==
  ASSUME Init
  PROVE  Inv
<1>1. SlotInv
  <2>1. SlotsOK
    BY IdleType DEF Init, CacheInit, SlotsOK
  <2>2. ASSUME NEW r \in Requests
        PROVE  RequestOK(r)
    <3>1. request[r] = Idle /\ lookup[r] = NoLookup
      BY DEF Init, CacheInit
    <3>2. QED
      BY <3>1 DEF RequestOK, Idle, NoLookup, Offer
  <2>3. QED
    BY <2>1, <2>2 DEF SlotInv
<1>2. CacheOK
  <2>1. clock = 0 /\ 0 \in 0..MaxClock /\ cache = [k \in Keys |-> None] /\ flights = {}
        /\ upstream \in [Keys -> Values \cup {None}]
        /\ was = [k \in Keys |-> [t \in 0..MaxClock |-> IF t = 0 THEN {upstream[k]} ELSE {}]]
    BY Constants DEF Init, CacheInit
  <2>2. \A K \in Caches : Cardinality(Live(K)) <= MaxEntries
    <3>1. \A K \in Caches : Live(K) = {}
      BY <2>1 DEF Live, Keys
    <3>2. QED
      BY <3>1, FS_EmptySet, Constants
  <2>3. was \in [Keys -> [0..MaxClock -> SUBSET (Values \cup {None})]]
    BY <2>1
  <2>4. \A r \in Requests : lookup[r] \in Lookup
    BY <1>1 DEF SlotInv, SlotsOK
  <2>5. CacheTypeOK
    BY <2>1, <2>2, <2>3, <2>4 DEF CacheTypeOK
  <2>6. \A k \in Keys : Offer(k, upstream[k]) /\ upstream[k] \in was[k][clock] /\ cache[k] = None
    BY <2>1 DEF Init, Offer
  <2>7. QED
    BY <2>5, <2>6 DEF CacheOK
<1>3. TablesOK
  BY Constants DEF Init, TablesOK
<1>4. SeatsOK
  <2>1. ASSUME NEW x \in Seats, NEW k \in Nat \ {0}
        PROVE  RoomFor(x, k)
    <3>1. LetIn(x, k) = {} /\ AboutToBook(x, k) = {}
      BY DEF Init, LetIn, AboutToBook, Idle
    <3>2. Cardinality(Requests) \in Nat
      BY SeatSets
    <3>3. QED
      BY <3>1, <3>2, FS_EmptySet DEF RoomFor
  <2>2. QED
    BY <2>1 DEF SeatsOK
<1>5. QED
  BY <1>1, <1>2, <1>3, <1>4, InvParts

\* What is neither a request's step nor the catalogue's.
LEMMA InvAside ==
  ASSUME Inv, Aside, TablesOK', SeatsOK'
  PROVE  Inv'
<1>1. CacheOK /\ SlotInv
  BY InvParts
<1>2. SlotInv'
  BY <1>1, SlotsAside
<1>3. UNCHANGED <<upstream, was, cache, clock>> /\ flights' \subseteq SUBSET Keys /\ SlotsOK'
  BY <1>1, <1>2 DEF Aside, cacheVars, CacheOK, CacheTypeOK, SlotInv
<1>4. CacheOK'
  BY <1>1, <1>3, CacheStays
<1>5. QED
  BY <1>2, <1>4, InvParts DEF Inv, SlotInv

LEMMA InvNext ==
  ASSUME Inv, Next
  PROVE  Inv'
<1>1. CacheOK /\ TablesOK /\ SlotInv /\ SeatsOK
  BY InvParts
<1>2. ASSUME CacheOK', TablesOK', SlotInv', SeatsOK'
      PROVE  Inv'
  BY <1>2 DEF Inv, SlotInv
<1>3. ASSUME NEW r \in Requests, Begin(r)
      PROVE  Inv'
  <2>1. SlotInv' /\ SeatsOK'
    BY <1>1, <1>3, SlotsBegin, SeatsBegin
  <2>2. UNCHANGED <<upstream, was, cache, clock, flights>> /\ UNCHANGED <<xp, tables, admitted>> /\ Ask
    BY <1>3 DEF Begin, Enroll, AdminEnrollUserInPath, MyPaths, BookSession, Start, Resolve, cacheVars
  <2>3. CacheOK'
    BY <1>1, <2>1, <2>2, CacheStays DEF SlotInv, CacheOK, CacheTypeOK
  <2>4. QED
    BY <1>1, <1>2, <2>1, <2>2, <2>3, TablesStay
<1>4. ASSUME NEW r \in Requests, Step(r)
      PROVE  Inv'
  <2>1. SlotInv' /\ SeatsOK' /\ TablesOK'
    BY <1>1, <1>4, SlotsStep, SeatsStep, TablesStep
  <2>2. UNCHANGED <<upstream, was, cache, clock, flights>>
    BY <1>4 DEF Step, Create, EnrollWithCourses, Listed, SessionCapacity, CountBySession, Book, Insert, Fails,
       End, cacheVars
  <2>3. CacheOK'
    BY <1>1, <2>1, <2>2, CacheStays DEF SlotInv, CacheOK, CacheTypeOK
  <2>4. QED
    BY <1>2, <2>1, <2>3
<1>5. ASSUME AtOnce
      PROVE  Inv'
  <2>1. Aside
    BY <1>5 DEF AtOnce, AutoEnroll, Unenroll, UnenrollFromPath, Unbook, MarkPresent, EarnXP, Aside
  <2>2. QED
    BY <1>1, <1>5, <2>1, TablesAtOnce, SeatsAtOnce, InvAside
<1>6. ASSUME Around
      PROVE  Inv'
  <2>1. SlotInv'
    BY <1>1, <1>6, SlotsAround
  <2>2. CacheOK'
    BY <1>1, <1>6, <2>1, CacheAround DEF SlotInv
  <2>3. UNCHANGED <<xp, tables, admitted, request, asked>>
    BY <1>6 DEF Around
  <2>4. TablesOK'
    BY <1>1, <2>3, TablesStay
  <2>5. SeatsOK'
    BY <1>1, <2>3, SeatsStay DEF tables
  <2>6. QED
    BY <1>2, <2>1, <2>2, <2>4, <2>5
<1>7. ASSUME NEW k \in Keys, NEW value \in Values \cup {None}, EditCatalog(k, value)
      PROVE  Inv'
  <2>1. SlotInv'
    BY <1>1, <1>7, SlotsEdit
  <2>2. CacheOK'
    BY <1>1, <1>7, <2>1, CacheEdit DEF SlotInv
  <2>3. UNCHANGED <<xp, tables, admitted, request>> /\ Ask
    BY <1>7 DEF EditCatalog
  <2>4. TablesOK'
    BY <1>1, <2>3, TablesStay
  <2>5. SeatsOK'
    BY <1>1, <2>3, SeatsStay DEF tables
  <2>6. QED
    BY <1>2, <2>1, <2>2, <2>4, <2>5
<1>8. QED
  BY <1>3, <1>4, <1>5, <1>6, <1>7 DEF Next

\* An export takes one of the requests left, and reads.
LEMMA ExportsLookOn ==
  ASSUME NEW e \in Exporters, ExportStep(e)
  PROVE  UNCHANGED <<cacheVars, xp, tables, admitted, request>> /\ (Ask \/ asked' = asked)
<1>1. ASSUME NEW q, ExportPreview(e, q) \/ ExportDownload(e, q)
      PROVE  UNCHANGED <<cacheVars, xp, tables, admitted, request>> /\ Ask
  BY <1>1 DEF ExportPreview, ExportDownload
<1>2. ASSUME UNCHANGED vars
      PROVE  UNCHANGED <<cacheVars, xp, tables, admitted, request>> /\ asked' = asked
  BY <1>2 DEF vars
<1>3. QED
  BY <1>1, <1>2 DEF ExportStep, FetchCount, FetchRows, RowEnricher, Answer, WriteCSV, WriteEnrichedCSV,
     StreamRows, LogDownload, ExportFails

LEMMA InvExports ==
  ASSUME Inv, [ExportsNext]_exportVars
  PROVE  Inv'
<1>1. ASSUME UNCHANGED <<cacheVars, xp, tables, admitted, request>>, Ask \/ asked' = asked
      PROVE  Inv'
  <2>1. TablesOK' /\ SeatsOK' /\ Aside
    BY <1>1, InvParts, TablesStay, SeatsStay DEF tables, Aside
  <2>2. QED
    BY <2>1, InvAside
<1>2. CASE UNCHANGED exportVars
  BY <1>1, <1>2 DEF exportVars, vars
<1>3. QED
  BY <1>1, <1>2, ExportsLookOn, InvNext DEF ExportsNext

LEMMA AlwaysInv == ExportsSpec => []Inv
<1>1. ExportsInit => Inv
  BY InvInit DEF ExportsInit
<1>2. Inv /\ [ExportsNext]_exportVars => Inv'
  BY InvExports
<1>3. QED
  BY <1>1, <1>2, PTL DEF ExportsSpec

-----------------------------------------------------------------------------
(* Types and seats                                                         *)

\* Every variable of Enrolments keeps its type, whatever is exported meanwhile;
\* no cache holds more entries than it may, and no answer is dated after now.
THEOREM TypeCorrect == ExportsSpec => []TypeOK
<1>1. Inv => TypeOK
  BY DEF Inv, CacheOK, TablesOK, SlotsOK, RequestSet, TypeOK, RequestTypeOK
<1>2. QED
  BY <1>1, AlwaysInv, PTL

\* A session is overbooked by less than the number of requests at work,
\* however the bookings overlap with each other and with those given back
\* (BookSession counts and books in two statements).
THEOREM SeatsAlwaysBounded == ExportsSpec => []SeatsBounded
<1>1. ASSUME Inv
      PROVE  SeatsBounded
  <2> SUFFICES ASSUME NEW x \in Seats, NEW u \in Users, admitted[x][u] > 0
               PROVE  Cardinality(LetIn(x, admitted[x][u])) < admitted[x][u] + Cardinality(Requests)
    BY DEF SeatsBounded
  <2> DEFINE k == admitted[x][u]
  <2>1. k \in Nat \ {0}
    BY <1>1 DEF Inv, TablesOK
  <2> HIDE DEF k
  <2>2. RoomFor(x, k)
    BY <1>1, <2>1 DEF Inv, SeatsOK
  <2>3. Cardinality(LetIn(x, k)) < k + Cardinality(Requests)
    BY <2>1, <2>2, SeatSets DEF RoomFor
  <2>4. QED
    BY <2>3 DEF k
<1>2. QED
  BY <1>1, AlwaysInv, PTL

-----------------------------------------------------------------------------
(* What enrolments are decided on                                          *)

\* The steps that change the enrolments in courses and in paths.
LEMMA EnrolledBy ==
  ASSUME [ExportsNext]_exportVars
  PROVE  \/ UNCHANGED <<enrolled, pathEnrolled>>
         \/ \E r \in Requests : Create(r) \/ EnrollWithCourses(r)
         \/ /\ request' = request
            /\ \E u \in Users :
                 \/ \E c \in Courses : AutoEnroll(u, c) \/ Unenroll(u, c)
                 \/ \E p \in Paths : UnenrollFromPath(u, p)
<1>1. ASSUME NEW r \in Requests, Begin(r)
      PROVE  UNCHANGED <<enrolled, pathEnrolled>>
  BY <1>1 DEF Begin, Enroll, AdminEnrollUserInPath, MyPaths, BookSession, tables
<1>2. ASSUME NEW r \in Requests, Step(r), ~Create(r), ~EnrollWithCourses(r)
      PROVE  UNCHANGED <<enrolled, pathEnrolled>>
  BY <1>2 DEF Step, Listed, SessionCapacity, CountBySession, Book, Insert, Fails, tables
<1>3. ASSUME AtOnce
      PROVE  \/ UNCHANGED <<enrolled, pathEnrolled>>
             \/ /\ request' = request
                /\ \E u \in Users :
                     \/ \E c \in Courses : AutoEnroll(u, c) \/ Unenroll(u, c)
                     \/ \E p \in Paths : UnenrollFromPath(u, p)
  BY <1>3 DEF AtOnce, AutoEnroll, Unenroll, UnenrollFromPath, Unbook, MarkPresent, EarnXP, tables
<1>4. ASSUME Around \/ \E k \in Keys, value \in Values \cup {None} : EditCatalog(k, value)
      PROVE  UNCHANGED <<enrolled, pathEnrolled>>
  BY <1>4 DEF Around, EditCatalog, tables
<1>5. ASSUME NEW e \in Exporters, ExportStep(e)
      PROVE  UNCHANGED <<enrolled, pathEnrolled>>
  BY <1>5, ExportsLookOn DEF tables
<1>6. ASSUME UNCHANGED exportVars
      PROVE  UNCHANGED <<enrolled, pathEnrolled>>
  BY <1>6 DEF exportVars, vars, tables
<1>7. ASSUME Next
      PROVE  \/ UNCHANGED <<enrolled, pathEnrolled>>
             \/ \E r \in Requests : Create(r) \/ EnrollWithCourses(r)
             \/ /\ request' = request
                /\ \E u \in Users :
                     \/ \E c \in Courses : AutoEnroll(u, c) \/ Unenroll(u, c)
                     \/ \E p \in Paths : UnenrollFromPath(u, p)
  BY <1>1, <1>2, <1>3, <1>4, <1>7 DEF Next
<1>8. QED
  BY <1>5, <1>6, <1>7 DEF ExportsNext

\* A request whose lookup has ended knows what its key was not long ago.
LEMMA DecidedOn ==
  ASSUME Inv, NEW r \in Requests, request[r].pc \in {"enroll", "path"}, lookup[r].pc = "done",
         ~lookup[r].failed
  PROVE  Found(r) \in Recently(request[r].key)
BY DEF Inv, RequestOK, Found

\* A request that ends was the one to end, when it is the one to write.
LEMMA OthersGoOn ==
  ASSUME Inv, NEW r \in Requests, NEW s \in Requests, r # s, End(s), request[r].pc # "idle"
  PROVE  request'[r] # Idle
<1>1. SlotsOK
  BY DEF Inv
<1>2. request'[r] = request[r]
  BY <1>1, EndOK DEF Still
<1>3. QED
  BY <1>2 DEF Idle

\* Whoever enrols has the experience the course asked for not long ago, unless
\* it was not there or could not be fetched: an answer is acted upon at once,
\* was stored within Lag of being given, and is not read after its time.
THEOREM XPAlwaysGated == ExportsSpec => XPGate
<1> DEFINE Gated(r) ==
             LET q == request[r] IN
             At(r, "enroll") /\ enrolled' # enrolled /\ request'[r] = Idle =>
               \/ lookup[r].failed
               \/ \E v \in Recently(q.key) : v = None \/ xp[q.user] >= v.xp
<1>1. ASSUME Inv, [ExportsNext]_exportVars, NEW r \in Requests
      PROVE  Gated(r)
  <2> DEFINE q == request[r]
  <2> SUFFICES ASSUME q.pc = "enroll", enrolled' # enrolled, request'[r] = Idle, ~lookup[r].failed
               PROVE  \E v \in Recently(q.key) : v = None \/ xp[q.user] >= v.xp
    BY DEF At
  <2>1. PICK s \in Requests : Create(s) \/ EnrollWithCourses(s)
    <3>1. request' # request
      BY DEF Idle
    <3>2. QED
      BY <1>1, <3>1, EnrolledBy
  <2>2. s = r
    BY <1>1, <2>1, OthersGoOn DEF Create, EnrollWithCourses
  <2>3. Create(r)
    BY <2>1, <2>2 DEF EnrollWithCourses, At
  <2>4. Found(r) \in Recently(q.key)
    BY <1>1, <2>3, DecidedOn DEF Create, Looking
  <2>5. xp[q.user] >= Required(r)
    BY <2>3 DEF Create
  <2>6. QED
    BY <2>4, <2>5 DEF Required
<1>2. Inv /\ [ExportsNext]_exportVars => [\A r \in Requests : Gated(r)]_vars
  BY <1>1
<1>3. QED
  BY <1>2, AlwaysInv, PTL DEF ExportsSpec, XPGate

\* Whoever is put in a path is in all courses the path had not long ago, by the
\* same step, unless the path could not be fetched.
THEOREM PathsAlwaysComplete == ExportsSpec => PathComplete
<1> DEFINE Complete(r) ==
             LET q == request[r] IN
             At(r, "path") /\ pathEnrolled' # pathEnrolled /\ request'[r] = Idle =>
               \/ lookup[r].failed
               \/ \E v \in Recently(q.key) : v = None \/ {q.user} \X v.courses \subseteq enrolled'
<1>1. ASSUME Inv, [ExportsNext]_exportVars, NEW r \in Requests
      PROVE  Complete(r)
  <2> DEFINE q == request[r]
  <2> SUFFICES ASSUME q.pc = "path", pathEnrolled' # pathEnrolled, request'[r] = Idle, ~lookup[r].failed
               PROVE  \E v \in Recently(q.key) : v = None \/ {q.user} \X v.courses \subseteq enrolled'
    BY DEF At
  <2>1. PICK s \in Requests : Create(s) \/ EnrollWithCourses(s)
    <3>1. request' # request
      BY DEF Idle
    <3>2. QED
      BY <1>1, <3>1, EnrolledBy
  <2>2. s = r
    BY <1>1, <2>1, OthersGoOn DEF Create, EnrollWithCourses
  <2>3. EnrollWithCourses(r)
    BY <2>1, <2>2 DEF Create, At
  <2>4. Found(r) \in Recently(q.key)
    BY <1>1, <2>3, DecidedOn DEF EnrollWithCourses, Looking
  <2>5. {q.user} \X CoursesOf(r) \subseteq enrolled'
    BY <2>3 DEF EnrollWithCourses
  <2>6. QED
    BY <2>4, <2>5 DEF CoursesOf
<1>2. Inv /\ [ExportsNext]_exportVars => [\A r \in Requests : Complete(r)]_vars
  BY <1>1
<1>3. QED
  BY <1>2, AlwaysInv, PTL DEF ExportsSpec, PathComplete

-----------------------------------------------------------------------------
(* The tables implement EnrolmentStore                                     *)

LEMMA EnrolledAsStore ==
  ASSUME Inv, [ExportsNext]_exportVars
  PROVE  /\ [Store!PathStep]_pathEnrolled
         /\ [Store!EnrolmentStep
             \/ \E r \in Requests : At(r, "path") /\ enrolled \subseteq enrolled']_enrolled
<1>1. ASSUME NEW r \in Requests, Create(r)
      PROVE  pathEnrolled' = pathEnrolled /\ (enrolled' = enrolled \/ Store!EnrolmentStep)
  <2> DEFINE q == request[r]
  <2>1. q.user \in Users /\ q.key \in Courses
    BY <1>1 DEF Inv, Create, At, RequestOK
  <2>2. enrolled' = enrolled \/ Store!Create(q.user, q.key)
    BY <1>1 DEF Create, Store!Create
  <2>3. QED
    BY <1>1, <2>1, <2>2 DEF Create, Store!EnrolmentStep
<1>2. ASSUME NEW r \in Requests, EnrollWithCourses(r)
      PROVE  Store!PathStep /\ At(r, "path") /\ enrolled \subseteq enrolled'
  <2> DEFINE q == request[r]
  <2>1. q.user \in Users /\ q.key \in Paths
    BY <1>2 DEF Inv, EnrollWithCourses, At, RequestOK
  <2>2. Store!EnrollWithCourses(q.user, q.key, {})
    BY <1>2 DEF EnrollWithCourses, Store!EnrollWithCourses
  <2>3. QED
    BY <1>2, <2>1, <2>2 DEF EnrollWithCourses, Store!PathStep
<1>3. ASSUME NEW u \in Users, NEW c \in Courses, AutoEnroll(u, c) \/ Unenroll(u, c)
      PROVE  pathEnrolled' = pathEnrolled /\ Store!EnrolmentStep
  BY <1>3 DEF AutoEnroll, Unenroll, Store!EnrolmentStep, Store!Create, Store!Delete
<1>4. ASSUME NEW u \in Users, NEW p \in Paths, UnenrollFromPath(u, p)
      PROVE  enrolled' = enrolled /\ Store!PathStep
  BY <1>4 DEF UnenrollFromPath, Store!PathStep, Store!Unenroll
<1>5. QED
  BY <1>1, <1>2, <1>3, <1>4, EnrolledBy

LEMMA BookedBy ==
  ASSUME [ExportsNext]_exportVars
  PROVE  \/ UNCHANGED bookings
         \/ \E r \in Requests : Insert(r)
         \/ /\ request' = request
            /\ \E u \in Users, x \in Seats :
                 Unbook(u, x) \/ \E present \in BOOLEAN : MarkPresent(u, x, present)
<1>1. ASSUME NEW r \in Requests, Begin(r)
      PROVE  UNCHANGED bookings
  BY <1>1 DEF Begin, Enroll, AdminEnrollUserInPath, MyPaths, BookSession, tables
<1>2. ASSUME NEW r \in Requests, Step(r), ~Insert(r)
      PROVE  UNCHANGED bookings
  BY <1>2 DEF Step, Create, EnrollWithCourses, Listed, SessionCapacity, CountBySession, Book, Insert, Fails, tables
<1>3. ASSUME AtOnce
      PROVE  \/ UNCHANGED bookings
             \/ /\ request' = request
                /\ \E u \in Users, x \in Seats :
                     Unbook(u, x) \/ \E present \in BOOLEAN : MarkPresent(u, x, present)
  BY <1>3 DEF AtOnce, AutoEnroll, Unenroll, UnenrollFromPath, Unbook, MarkPresent, EarnXP, tables
<1>4. ASSUME Around \/ \E k \in Keys, value \in Values \cup {None} : EditCatalog(k, value)
      PROVE  UNCHANGED bookings
  BY <1>4 DEF Around, EditCatalog, tables
<1>5. ASSUME NEW e \in Exporters, ExportStep(e)
      PROVE  UNCHANGED bookings
  BY <1>5, ExportsLookOn DEF tables
<1>6. ASSUME UNCHANGED exportVars
      PROVE  UNCHANGED bookings
  BY <1>6 DEF exportVars, vars, tables
<1>7. ASSUME Next
      PROVE  \/ UNCHANGED bookings
             \/ \E r \in Requests : Insert(r)
             \/ /\ request' = request
                /\ \E u \in Users, x \in Seats :
                     Unbook(u, x) \/ \E present \in BOOLEAN : MarkPresent(u, x, present)
  BY <1>1, <1>2, <1>3, <1>4, <1>7 DEF Next
<1>8. QED
  BY <1>5, <1>6, <1>7 DEF ExportsNext

LEMMA BookedAsStore ==
  ASSUME Inv, [ExportsNext]_exportVars
  PROVE  [Store!BookingStep /\ \A r \in Requests : Booking(r)]_bookings
<1>1. ASSUME NEW r \in Requests, Insert(r)
      PROVE  Store!BookingStep /\ \A s \in Requests : Booking(s)
  <2> DEFINE q == request[r]
  <2>1. q.user \in Users /\ q.seat \in Seats
    BY <1>1 DEF Inv, Insert, At, RequestOK
  <2>2. Store!Book(q.user, q.seat)
    BY <1>1 DEF Insert, Booked, Store!Book, Store!Booked
  <2>3. ASSUME NEW s \in Requests, s # r
        PROVE  Booking(s)
    BY <1>1, <2>3, OthersGoOn DEF Booking, Insert, At
  <2>4. QED
    BY <2>1, <2>2, <2>3 DEF Booking, Store!BookingStep
<1>2. ASSUME NEW u \in Users, NEW x \in Seats, request' = request,
             Unbook(u, x) \/ \E present \in BOOLEAN : MarkPresent(u, x, present)
      PROVE  Store!BookingStep /\ \A s \in Requests : Booking(s)
  <2>1. \/ Store!Unbook(u, x)
        \/ \E present \in BOOLEAN : Store!MarkPresent(u, x, present)
    BY <1>2 DEF Unbook, MarkPresent, Booked, Store!Unbook, Store!MarkPresent, Store!Booked
  <2>2. \A s \in Requests : Booking(s)
    BY <1>2 DEF Booking, At, Idle
  <2>3. QED
    BY <2>1, <2>2 DEF Store!BookingStep
<1>3. QED
  BY <1>1, <1>2, BookedBy

\* The tables start empty and change row by row as EnrolmentStore says: a
\* booking is that of its request's user and seat, and does nothing to one that
\* is there; the courses of a path come with it, and no other request writes
\* more than a row.
THEOREM ImplementsEnrolmentStore == ExportsSpec => Implements
<1>1. ExportsInit => Store!Init
  BY DEF ExportsInit, Init, Store!Init
<1>2. Inv /\ [ExportsNext]_exportVars =>
        /\ [Store!PathStep]_pathEnrolled
        /\ [Store!BookingStep /\ \A r \in Requests : Booking(r)]_bookings
        /\ [Store!EnrolmentStep
            \/ \E r \in Requests : At(r, "path") /\ enrolled \subseteq enrolled']_enrolled
  BY EnrolledAsStore, BookedAsStore
<1>3. QED
  BY <1>1, <1>2, AlwaysInv, PTL DEF ExportsSpec, Implements
-----------------------------------------------------------------------------
(***************************************************************************)
(* Exports: an export's sheet is one moment's rows, with the columns asked *)
(* for and no title of a course that was not public.                       *)
(***************************************************************************)

-----------------------------------------------------------------------------
(* The invariant                                                           *)

\* The keys that were there, and public if they are courses, at some time.
Published ==
  {k \in Keys : \E t \in 0..clock : \E v \in was[k][t] : v # None /\ (k \in Courses => v.public)}

\* A record of an export.
Shaped(q) ==
  q \in [pc : {q.pc}, mode : {"preview", "download"}, category : {"enrollments", "path_enrollments"},
         fields : {q.fields}, filter : {q.filter}, titled : {q.titled}, total : {q.total},
         sheet : {q.sheet}, counted : {q.counted}, snapshot : {q.snapshot}]

\* What does not change while an export goes on.
Same(m, q) ==
  m.mode = q.mode /\ m.category = q.category /\ m.fields = q.fields /\ m.filter = q.filter

Rows(q, S) == {row \in S : q.filter = None \/ row[2] = q.filter}

\* A row has the columns asked for, and a title only if it was published.
RowOK(q, line, row, P) ==
  /\ DOMAIN line = Columns(q)
  /\ \A f \in Columns(q) \cap VirtualFields :
       line[f] = Blank \/ (line[f] = row[2] /\ row[2] \in P)

RowsOK(q, P) == \A row \in DOMAIN q.sheet : RowOK(q, q.sheet[row], row, P)

Shown(q, P) ==
  /\ DOMAIN q.sheet \subseteq Rows(q, q.snapshot)
  /\ q.counted = q.snapshot =>
       /\ q.total = Cardinality(Rows(q, q.snapshot))
       /\ Cardinality(DOMAIN q.sheet) = Least(PreviewLimit, q.total)
  /\ RowsOK(q, P)

Written(q, P) ==
  /\ DOMAIN q.sheet = Rows(q, q.snapshot) /\ q.total = Cardinality(Rows(q, q.snapshot))
  /\ RowsOK(q, P)

Good(q, P) ==
  /\ Shaped(q)
  /\ q.titled \subseteq P
  /\ q.pc \in {"count", "rows", "answer"} => q.mode = "preview"
  /\ q.pc \in {"stream", "log"} => q.mode = "download"
  /\ q.pc = "rows" => q.total = Cardinality(Rows(q, q.counted))
  /\ q.pc \in {"titles", "answer"} /\ q.mode = "preview" => Shown(q, P)
  /\ q.pc = "log" => Written(q, P)

ExportInv ==
  /\ Inv
  /\ export = [e \in Exporters |-> export[e]]
  /\ \A e \in Exporters : Good(export[e], Published)

-----------------------------------------------------------------------------
(* Columns and titles                                                      *)

\* The columns fetched for the titles' sake are the ones left out again.
LEMMA ColumnsShown ==
  ASSUME NEW q
  PROVE  /\ (FetchFields(q) \cup Virtual(q)) \ HelperFields(q) = Columns(q)
         /\ Columns(q) \subseteq FetchFields(q) \cup Virtual(q)
         /\ Virtual(q) = {} => FetchFields(q) \cup Virtual(q) = Columns(q)
         /\ Virtual(q) # {} => q.fields = Columns(q)
<1>1. CASE Virtual(q) = {}
  <2>1. (q.fields \ VirtualFields) \cup {EnrichSlugField[f] : f \in Virtual(q)} = q.fields
    BY <1>1 DEF Virtual
  <2>2. FetchFields(q) = Columns(q)
    BY <2>1 DEF FetchFields, Columns
  <2>3. QED
    BY <1>1, <2>2 DEF HelperFields
<1>2. CASE Virtual(q) # {}
  <2> DEFINE slugs == {EnrichSlugField[f] : f \in Virtual(q)}
  <2>1. slugs # {}
    BY <1>2
  <2>2. FetchFields(q) = (q.fields \ VirtualFields) \cup slugs
    BY <2>1 DEF FetchFields
  <2>3. q.fields # {} /\ q.fields = Columns(q)
    BY <1>2 DEF Virtual, Columns
  <2> HIDE DEF slugs
  <2>4. QED
    BY <1>2, <2>2, <2>3 DEF HelperFields, Virtual
<1>3. QED
  BY <1>1, <1>2

LEMMA TitleOf ==
  ASSUME NEW q, NEW row, NEW f \in Virtual(q)
  PROVE  Enriched(q, row)[f] = IF row[2] \in q.titled THEN row[2] ELSE Blank
<1>1. f \in VirtualFields /\ f # "userid" /\ f \notin {"courseslug", "path_slug"}
  BY DEF Virtual, VirtualFields
<1>2. QED
  BY <1>1 DEF Enriched

\* A title that is wanted is a title that is filled in.
LEMMA TitlesWanted ==
  ASSUME NEW q, Shaped(q)
  PROVE  Columns(q) \cap VirtualFields = Virtual(q)
<1>1. CASE q.fields # {}
  BY <1>1 DEF Columns, Virtual
<1>2. CASE q.fields = {}
  <2>1. Columns(q) = ExportCategories[q.category].defaults /\ Virtual(q) = {}
    BY <1>2 DEF Columns, Virtual
  <2>2. q.category = "enrollments" \/ q.category = "path_enrollments"
    BY DEF Shaped
  <2>3. Columns(q) = {"userid", "courseslug"} \/ Columns(q) = {"userid", "path_slug"}
    BY <2>1, <2>2 DEF ExportCategories, Enrollments, PathEnrollments
  <2>4. QED
    BY <2>1, <2>3 DEF VirtualFields
<1>3. QED
  BY <1>1, <1>2

LEMMA PreviewRowOK ==
  ASSUME NEW q, NEW row, NEW P, q.titled \subseteq P, Shaped(q)
  PROVE  RowOK(q, PreviewRow(q, row), row, P)
<1>1. DOMAIN Enriched(q, row) = FetchFields(q) \cup Virtual(q)
  BY DEF Enriched
<1>2. PreviewRow(q, row) = [f \in Columns(q) |-> Enriched(q, row)[f]]
  BY <1>1, ColumnsShown DEF PreviewRow
<1>3. ASSUME NEW f \in Columns(q) \cap VirtualFields
      PROVE  PreviewRow(q, row)[f] = IF row[2] \in q.titled THEN row[2] ELSE Blank
  BY <1>2, TitlesWanted, TitleOf
<1>4. DOMAIN PreviewRow(q, row) = Columns(q)
  BY <1>2
<1>5. QED
  BY <1>3, <1>4 DEF RowOK

LEMMA CSVRecordOK ==
  ASSUME NEW q, NEW row, NEW P, q.titled \subseteq P, Shaped(q)
  PROVE  RowOK(q, CSVRecord(q, row), row, P)
<1>1. DOMAIN Enriched(q, row) = FetchFields(q) \cup Virtual(q)
  BY DEF Enriched
<1>2. DOMAIN CSVRecord(q, row) = Columns(q)
  BY <1>1, ColumnsShown DEF CSVRecord
<1>3. ASSUME NEW f \in Columns(q) \cap VirtualFields
      PROVE  CSVRecord(q, row)[f] = IF row[2] \in q.titled THEN row[2] ELSE Blank
  <2>1. f \in Virtual(q) /\ f \in q.fields
    BY TitlesWanted DEF Virtual
  <2>2. CSVRecord(q, row) = [c \in q.fields |-> Enriched(q, row)[c]]
    BY <2>1 DEF CSVRecord
  <2>3. CSVRecord(q, row)[f] = Enriched(q, row)[f]
    BY <2>1, <2>2
  <2>4. QED
    BY <2>1, <2>3, TitleOf
<1>4. QED
  BY <1>2, <1>3 DEF RowOK

-----------------------------------------------------------------------------
(* Time                                                                    *)

\* Nothing that was, is forgotten, whatever happens.
LEMMA TickRemembers ==
  ASSUME CacheOK, Tick
  PROVE  Remembered /\ clock' = clock + 1
<1>1. clock' = clock + 1
  BY DEF Tick
<1>2. ASSUME NEW k \in Keys, NEW t \in 0..clock
      PROVE  was'[k][t] = was[k][t]
  <2>1. was'[k] = [was[k] EXCEPT ![clock + 1] = {upstream[k]}] /\ t # clock + 1
    BY ClockType DEF Tick
  <2>2. was[k] \in [0..MaxClock -> SUBSET (Values \cup {None})]
    BY DEF CacheOK, CacheTypeOK
  <2>3. t \in 0..MaxClock
    BY ClockType, Constants
  <2>4. QED
    BY <2>1, <2>2, <2>3
<1>3. QED
  BY <1>1, <1>2 DEF Remembered

LEMMA AlwaysRemembers ==
  ASSUME Inv, [ExportsNext]_exportVars
  PROVE  Remembered /\ clock' \in {clock, clock + 1}
<1>1. ASSUME was' = was, clock' = clock
      PROVE  Remembered /\ clock' \in {clock, clock + 1}
  BY <1>1 DEF Remembered
<1>2. CacheOK
  BY DEF Inv
<1>3. ASSUME NEW r \in Requests, Begin(r)
      PROVE  was' = was /\ clock' = clock
  BY <1>3 DEF Begin, Enroll, AdminEnrollUserInPath, MyPaths, BookSession, Resolve, cacheVars
<1>4. ASSUME NEW r \in Requests, Step(r)
      PROVE  was' = was /\ clock' = clock
  BY <1>4 DEF Step, Create, EnrollWithCourses, Listed, SessionCapacity, CountBySession, Book, Insert, Fails,
     End, cacheVars
<1>5. ASSUME AtOnce
      PROVE  was' = was /\ clock' = clock
  BY <1>5 DEF AtOnce, AutoEnroll, Unenroll, UnenrollFromPath, Unbook, MarkPresent, EarnXP, cacheVars
<1>6. ASSUME Around, ~Tick
      PROVE  was' = was /\ clock' = clock
  BY <1>6 DEF Around, CacheStep, ReadCached, Join, StoreFetched, FetchDone, FetchFails
<1>7. ASSUME NEW k \in Keys, NEW value \in Values \cup {None}, EditCatalog(k, value)
      PROVE  Remembered /\ clock' = clock
  BY <1>2, <1>7, EditRemembers DEF EditCatalog
<1>8. ASSUME NEW e \in Exporters, ExportStep(e)
      PROVE  was' = was /\ clock' = clock
  BY <1>8, ExportsLookOn DEF cacheVars
<1>9. ASSUME UNCHANGED exportVars
      PROVE  was' = was /\ clock' = clock
  BY <1>9 DEF exportVars, vars, cacheVars
<1>10. ASSUME Next
       PROVE  Remembered /\ clock' \in {clock, clock + 1}
  BY <1>1, <1>2, <1>3, <1>4, <1>5, <1>6, <1>7, <1>10, TickRemembers DEF Next
<1>11. QED
  BY <1>1, <1>8, <1>9, <1>10 DEF ExportsNext

LEMMA PublishedGrows ==
  ASSUME Inv, [ExportsNext]_exportVars
  PROVE  Published \subseteq Published'
<1>1. Remembered /\ clock' \in {clock, clock + 1} /\ clock \in Nat
  BY AlwaysRemembers, ClockType DEF Inv
<1>2. 0..clock \subseteq 0..clock'
  BY <1>1
<1>3. QED
  BY <1>1, <1>2 DEF Published, Remembered

LEMMA GoodStays ==
  ASSUME NEW q, NEW P, NEW R, Good(q, P), P \subseteq R
  PROVE  Good(q, R)
BY DEF Good, Shown, Written, RowsOK, RowOK

LEMMA TitledPublished ==
  ASSUME Inv
  PROVE  Titled \subseteq Published
<1>1. clock \in 0..clock /\ \A k \in Keys : upstream[k] \in was[k][clock]
  BY ClockType DEF Inv, CacheOK
<1>2. QED
  BY <1>1 DEF Titled, Published, Visible

-----------------------------------------------------------------------------
(* Action by action                                                        *)

LEMMA SameMeans ==
  ASSUME NEW m, NEW q, Same(m, q)
  PROVE  /\ Columns(m) = Columns(q) /\ Virtual(m) = Virtual(q) /\ FromClause(m) = FromClause(q)
         /\ \A S : Rows(m, S) = Rows(q, S)
BY DEF Same, Columns, Virtual, FromClause, Rows

LEMMA NoExportGood ==
  ASSUME NEW P
  PROVE  Good(NoExport, P)
BY DEF NoExport, Good, Shaped

LEMMA StartGood ==
  ASSUME NEW P, NEW w \in Wanted, NEW pc \in {"count", "stream", "titles"},
         pc = "count" => w.mode = "preview",
         pc # "count" => w.mode = "download",
         NEW q, q = [NoExport EXCEPT !.mode = w.mode, !.category = w.category, !.fields = w.fields,
                                     !.filter = w.filter]
  PROVE  Good([q EXCEPT !.pc = pc], P)
<1> DEFINE m == [q EXCEPT !.pc = pc]
<1>1. w.mode \in {"preview", "download"} /\ w.category \in {"enrollments", "path_enrollments"}
  BY ExportAssumption
<1>2. Shaped(m) /\ m.pc = pc /\ m.mode = w.mode /\ m.titled = {}
  BY <1>1 DEF Shaped, NoExport
<1> HIDE DEF m
<1>3. Good(m, P)
  BY <1>2 DEF Good
<1>4. QED
  BY <1>3 DEF m

LEMMA FetchCountGood ==
  ASSUME NEW q, NEW P, NEW S, Good(q, P), q.pc = "count"
  PROVE  Good([q EXCEPT !.pc = "rows", !.total = Cardinality(Rows(q, S)), !.counted = S], P)
<1> DEFINE n == Cardinality(Rows(q, S))
           m == [q EXCEPT !.pc = "rows", !.total = n, !.counted = S]
<1> HIDE DEF n
<1>1. Shaped(m) /\ m.pc = "rows" /\ Same(m, q) /\ m.titled = q.titled /\ m.total = n /\ m.counted = S
  BY DEF Good, Shaped, Same
<1> HIDE DEF m
<1>2. Rows(m, S) = Rows(q, S)
  BY <1>1, SameMeans
<1>3. Good(m, P)
  BY <1>1, <1>2 DEF Good, Same, n
<1>4. QED
  BY <1>3 DEF m, n

LEMMA FetchRowsGood ==
  ASSUME NEW q, NEW P, NEW S, Good(q, P), q.pc = "rows",
         NEW next \in {"answer", "titles"}, NEW shown \in SUBSET Rows(q, S),
         Cardinality(shown) = Least(PreviewLimit, Cardinality(Rows(q, S)))
  PROVE  Good([q EXCEPT !.pc = next, !.snapshot = S, !.sheet = [row \in shown |-> PreviewRow(q, row)]], P)
<1> DEFINE sheet == [row \in shown |-> PreviewRow(q, row)]
           m == [q EXCEPT !.pc = next, !.snapshot = S, !.sheet = sheet]
<1>1. DOMAIN sheet = shown /\ \A row \in shown : RowOK(q, sheet[row], row, P)
  BY PreviewRowOK DEF Good
<1> HIDE DEF sheet
<1>2. /\ Shaped(m) /\ m.pc = next /\ Same(m, q) /\ m.titled = q.titled /\ m.snapshot = S
      /\ m.sheet = sheet /\ m.total = q.total /\ m.counted = q.counted
  BY DEF Good, Shaped, Same
<1> HIDE DEF m
<1>3. Columns(m) = Columns(q) /\ Rows(m, S) = Rows(q, S) /\ Rows(m, q.counted) = Rows(q, q.counted)
  BY <1>2, SameMeans
<1>4. RowsOK(m, P)
  BY <1>1, <1>2, <1>3 DEF RowsOK, RowOK
<1>5. Shown(m, P)
  BY <1>1, <1>2, <1>3, <1>4 DEF Shown, Good
<1>6. Good(m, P)
  BY <1>2, <1>5 DEF Good, Same
<1>7. QED
  BY <1>6 DEF m, sheet

LEMMA EnrichedPreviewGood ==
  ASSUME NEW q, NEW P, NEW T, Good(q, P), q.pc = "titles", q.mode = "preview", T \subseteq P
  PROVE  LET known == [q EXCEPT !.titled = T] IN
         Good([known EXCEPT !.pc = "answer",
                            !.sheet = [row \in DOMAIN q.sheet |-> PreviewRow(known, row)]], P)
<1> DEFINE known == [q EXCEPT !.titled = T]
           sheet == [row \in DOMAIN q.sheet |-> PreviewRow(known, row)]
           m == [known EXCEPT !.pc = "answer", !.sheet = sheet]
<1>1. /\ Shaped(known) /\ Same(known, q) /\ known.titled = T /\ known.snapshot = q.snapshot
      /\ known.counted = q.counted /\ known.total = q.total
  BY DEF Good, Shaped, Same
<1> HIDE DEF known
<1>2. DOMAIN sheet = DOMAIN q.sheet /\ \A row \in DOMAIN q.sheet : RowOK(known, sheet[row], row, P)
  BY <1>1, PreviewRowOK
<1> HIDE DEF sheet
<1>3. /\ Shaped(m) /\ m.pc = "answer" /\ Same(m, known) /\ m.titled = T /\ m.snapshot = q.snapshot
      /\ m.sheet = sheet /\ m.total = q.total /\ m.counted = q.counted
  BY <1>1 DEF Shaped, Same
<1> HIDE DEF m
<1>4. Same(m, q)
  BY <1>1, <1>3 DEF Same
<1>5. /\ Columns(m) = Columns(known)
      /\ \A S : Rows(m, S) = Rows(q, S)
  BY <1>3, <1>4, SameMeans
<1>6. RowsOK(m, P)
  BY <1>2, <1>3, <1>5 DEF RowsOK, RowOK
<1>7. Shown(q, P)
  BY DEF Good
<1>8. Shown(m, P)
  BY <1>2, <1>3, <1>5, <1>6, <1>7 DEF Shown
<1>9. Good(m, P)
  BY <1>3, <1>4, <1>8 DEF Good, Same
<1>10. QED
  BY <1>9 DEF m, sheet, known

LEMMA EnrichedDownloadGood ==
  ASSUME NEW q, NEW P, NEW T, Good(q, P), q.mode # "preview", T \subseteq P
  PROVE  LET known == [q EXCEPT !.titled = T] IN Good([known EXCEPT !.pc = "stream"], P)
<1> DEFINE known == [q EXCEPT !.titled = T]
           m == [known EXCEPT !.pc = "stream"]
<1>1. Shaped(known) /\ Same(known, q) /\ known.titled = T
  BY DEF Good, Shaped, Same
<1> HIDE DEF known
<1>2. Shaped(m) /\ m.pc = "stream" /\ Same(m, known) /\ m.titled = T
  BY <1>1 DEF Shaped, Same
<1>3. m.mode = "download"
  BY <1>1, <1>2 DEF Same, Good, Shaped
<1> HIDE DEF m
<1>4. Good(m, P)
  BY <1>2, <1>3 DEF Good
<1>5. QED
  BY <1>4 DEF m, known

LEMMA StreamGood ==
  ASSUME NEW q, NEW P, NEW S, Good(q, P), q.pc = "stream"
  PROVE  Good([q EXCEPT !.pc = "log", !.total = Cardinality(Rows(q, S)), !.snapshot = S,
                        !.sheet = [row \in Rows(q, S) |-> CSVRecord(q, row)]], P)
<1> DEFINE n == Cardinality(Rows(q, S))
           sheet == [row \in Rows(q, S) |-> CSVRecord(q, row)]
           m == [q EXCEPT !.pc = "log", !.total = n, !.snapshot = S, !.sheet = sheet]
<1>1. DOMAIN sheet = Rows(q, S) /\ \A row \in Rows(q, S) : RowOK(q, sheet[row], row, P)
  BY CSVRecordOK DEF Good
<1> HIDE DEF sheet, n
<1>2. /\ Shaped(m) /\ m.pc = "log" /\ Same(m, q) /\ m.titled = q.titled /\ m.snapshot = S
      /\ m.sheet = sheet /\ m.total = n
  BY DEF Good, Shaped, Same
<1> HIDE DEF m
<1>3. Columns(m) = Columns(q) /\ Rows(m, S) = Rows(q, S)
  BY <1>2, SameMeans
<1>4. RowsOK(m, P)
  BY <1>1, <1>2, <1>3 DEF RowsOK, RowOK
<1>5. Written(m, P)
  BY <1>1, <1>2, <1>3, <1>4 DEF Written, n
<1>6. Good(m, P)
  BY <1>2, <1>5 DEF Good, Same
<1>7. QED
  BY <1>6 DEF m, sheet, n

\* An export's own step.
LEMMA ExportStepGood ==
  ASSUME ExportInv, NEW e \in Exporters, ExportStep(e)
  PROVE  export' = export \/ \E m : Set(e, m) /\ Good(m, Published)
<1> DEFINE q == export[e]
           P == Published
<1>1. Good(q, P)
  BY DEF ExportInv
<1>2. Matching(q) = Rows(q, FromClause(q))
  BY DEF Matching, Rows
<1>3. Good(NoExport, P)
  BY NoExportGood
<1>4. ASSUME NEW w \in Wanted, NEW v,
             v = [NoExport EXCEPT !.mode = w.mode, !.category = w.category, !.fields = w.fields,
                                  !.filter = w.filter],
             ExportPreview(e, v)
      PROVE  export' = export \/ \E m : Set(e, m) /\ Good(m, P)
  <2>1. v.mode = w.mode
    BY <1>4 DEF NoExport
  <2>2. w.mode = "preview" /\ (export' = export \/ Set(e, [v EXCEPT !.pc = "count"]))
    BY <1>4, <2>1 DEF ExportPreview
  <2>3. Good([v EXCEPT !.pc = "count"], P)
    BY <1>4, <2>2, StartGood
  <2>4. QED
    BY <2>2, <2>3
<1>5. ASSUME NEW w \in Wanted, NEW v,
             v = [NoExport EXCEPT !.mode = w.mode, !.category = w.category, !.fields = w.fields,
                                  !.filter = w.filter],
             ExportDownload(e, v)
      PROVE  \E m : Set(e, m) /\ Good(m, P)
  <2>1. v.mode = w.mode
    BY <1>5 DEF NoExport
  <2>2. PICK pc \in {"stream", "titles"} : Set(e, [v EXCEPT !.pc = pc])
    BY <1>5 DEF ExportDownload
  <2>3. w.mode = "download"
    BY <1>5, <2>1 DEF ExportDownload
  <2>4. Good([v EXCEPT !.pc = pc], P)
    BY <1>5, <2>3, StartGood
  <2>5. QED
    BY <2>2, <2>4
<1>6. ASSUME FetchCount(e)
      PROVE  \E m : Set(e, m) /\ Good(m, P)
  <2> DEFINE m == [q EXCEPT !.pc = "rows", !.total = Cardinality(Rows(q, FromClause(q))),
                            !.counted = FromClause(q)]
  <2>1. Set(e, m)
    BY <1>2, <1>6 DEF FetchCount
  <2>2. Good(m, P)
    BY <1>1, <1>6, FetchCountGood DEF FetchCount
  <2>3. QED
    BY <2>1, <2>2
<1>7. ASSUME FetchRows(e)
      PROVE  \E m : Set(e, m) /\ Good(m, P)
  <2> DEFINE S == FromClause(q)
             next == IF Virtual(q) = {} THEN "answer" ELSE "titles"
             new(shown) == [q EXCEPT !.pc = next, !.snapshot = S,
                                     !.sheet = [row \in shown |-> PreviewRow(q, row)]]
  <2>1. PICK shown \in SUBSET Rows(q, S) :
          /\ Cardinality(shown) = Least(PreviewLimit, Cardinality(Rows(q, S)))
          /\ Set(e, new(shown))
    BY <1>2, <1>7 DEF FetchRows
  <2>2. next \in {"answer", "titles"} /\ q.pc = "rows"
    BY <1>7 DEF FetchRows
  <2> HIDE DEF next, S
  <2>3. Good(new(shown), P)
    BY <1>1, <2>1, <2>2, FetchRowsGood
  <2>4. QED
    BY <2>1, <2>3
<1>8. ASSUME RowEnricher(e)
      PROVE  \E m : Set(e, m) /\ Good(m, P)
  <2> DEFINE known(T) == [q EXCEPT !.titled = T]
             preview(T) == [known(T) EXCEPT !.pc = "answer",
                              !.sheet = [row \in DOMAIN q.sheet |-> PreviewRow(known(T), row)]]
             download(T) == [known(T) EXCEPT !.pc = "stream"]
  <2>1. PICK T \in {Titled, {}} :
          IF q.mode = "preview" THEN Set(e, preview(T)) ELSE Set(e, download(T))
    BY <1>8 DEF RowEnricher
  <2>2. T \subseteq P /\ q.pc = "titles"
    BY <1>8, TitledPublished DEF ExportInv, RowEnricher
  <2>3. CASE q.mode = "preview"
    <3>1. Good(preview(T), P)
      BY <1>1, <2>2, <2>3, EnrichedPreviewGood
    <3>2. QED
      BY <2>1, <2>3, <3>1
  <2>4. CASE q.mode # "preview"
    <3>1. Good(download(T), P)
      BY <1>1, <2>2, <2>4, EnrichedDownloadGood
    <3>2. QED
      BY <2>1, <2>4, <3>1
  <2>5. QED
    BY <2>3, <2>4
<1>9. ASSUME StreamRows(e)
      PROVE  \E m : Set(e, m) /\ Good(m, P)
  <2> DEFINE S == FromClause(q)
             m == [q EXCEPT !.pc = "log", !.total = Cardinality(Rows(q, S)), !.snapshot = S,
                            !.sheet = [row \in Rows(q, S) |-> CSVRecord(q, row)]]
  <2>1. Set(e, NoExport) \/ Set(e, m)
    BY <1>2, <1>9 DEF StreamRows
  <2>2. Good(m, P)
    BY <1>1, <1>9, StreamGood DEF StreamRows
  <2> HIDE DEF m
  <2>3. QED
    BY <1>3, <2>1, <2>2
<1>10. ASSUME Set(e, NoExport)
       PROVE  \E m : Set(e, m) /\ Good(m, P)
  BY <1>3, <1>10
<1>11. QED
  BY <1>4, <1>5, <1>6, <1>7, <1>8, <1>9, <1>10
     DEF ExportStep, Answer, WriteCSV, WriteEnrichedCSV, LogDownload, ExportFails

LEMMA ExportInvNext ==
  ASSUME ExportInv, [ExportsNext]_exportVars
  PROVE  ExportInv'
<1>1. Inv' /\ Published \subseteq Published'
  BY InvExports, PublishedGrows DEF ExportInv
<1>2. ASSUME export' = export
      PROVE  ExportInv'
  <2>1. \A e \in Exporters : Good(export'[e], Published')
    BY <1>1, <1>2, GoodStays DEF ExportInv
  <2>2. QED
    BY <1>1, <1>2, <2>1 DEF ExportInv
<1>3. ASSUME NEW e \in Exporters, ExportStep(e)
      PROVE  ExportInv'
  <2>1. SUFFICES ASSUME NEW m, Set(e, m), Good(m, Published)
                 PROVE  ExportInv'
    BY <1>2, <1>3, ExportStepGood
  <2>2. /\ export' = [x \in Exporters |-> export'[x]] /\ export'[e] = m
        /\ \A x \in Exporters \ {e} : export'[x] = export[x]
    BY <2>1 DEF Set, ExportInv
  <2>3. \A x \in Exporters : Good(export'[x], Published)
    BY <2>1, <2>2 DEF ExportInv
  <2>4. \A x \in Exporters : Good(export'[x], Published')
    BY <1>1, <2>3, GoodStays
  <2>5. QED
    BY <1>1, <2>2, <2>4 DEF ExportInv
<1>4. QED
  BY <1>2, <1>3 DEF ExportsNext, exportVars

\* A download that is about to be logged, and a preview that is about to be
\* shown, hold what SheetsFaithful says, whatever is enrolled, edited and
\* published meanwhile: each sheet is made from one reading of its table, and
\* titles are known only of what was published when they were asked for.
THEOREM SheetsAlwaysFaithful == ExportsSpec => []SheetsFaithful
<1>1. ExportsInit => ExportInv
  <2> SUFFICES ASSUME ExportsInit
               PROVE  ExportInv
    OBVIOUS
  <2>1. Inv
    BY InvInit DEF ExportsInit
  <2>2. export = [e \in Exporters |-> export[e]] /\ \A e \in Exporters : export[e] = NoExport
    BY DEF ExportsInit
  <2>3. QED
    BY <2>1, <2>2, NoExportGood DEF ExportInv
<1>2. ExportInv /\ [ExportsNext]_exportVars => ExportInv'
  BY ExportInvNext
<1>3. ExportInv => SheetsFaithful
  <2> SUFFICES ASSUME ExportInv, NEW e \in Exporters, export[e].pc \in {"answer", "log"}
               PROVE  LET q == export[e]
                          rows == {row \in q.snapshot : q.filter = None \/ row[2] = q.filter}
                      IN  /\ DOMAIN q.sheet \subseteq rows
                          /\ q.mode = "download" => DOMAIN q.sheet = rows /\ q.total = Cardinality(rows)
                          /\ q.mode = "preview" /\ q.counted = q.snapshot =>
                               /\ q.total = Cardinality(rows)
                               /\ Cardinality(DOMAIN q.sheet) = Least(PreviewLimit, q.total)
                          /\ \A row \in DOMAIN q.sheet :
                               /\ DOMAIN q.sheet[row] = Columns(q)
                               /\ \A f \in Columns(q) \cap VirtualFields :
                                    Entitled(q.sheet[row][f], row[2])
    BY DEF SheetsFaithful
  <2> DEFINE q == export[e]
  <2>1. Good(q, Published)
    BY DEF ExportInv
  <2>2. RowsOK(q, Published)
    BY <2>1 DEF Good, Shown, Written
  <2>3. \A row \in DOMAIN q.sheet :
          /\ DOMAIN q.sheet[row] = Columns(q)
          /\ \A f \in Columns(q) \cap VirtualFields : Entitled(q.sheet[row][f], row[2])
    BY <2>2 DEF RowsOK, RowOK, Entitled, Published
  <2>4. QED
    BY <2>1, <2>3 DEF Good, Shown, Written, Rows
<1>4. QED
  BY <1>1, <1>2, <1>3, PTL DEF ExportsSpec
==============================================================================
