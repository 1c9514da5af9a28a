----------------------------- MODULE Enrolments -----------------------------
(***************************************************************************)
(* Enrolling in courses and learning paths, and booking seats in the       *)
(* sessions of courses held in person: the handlers of user-service, which *)
(* ask course-service about the course or path first, through the cached   *)
(* catalogue or directly, and write afterwards.                            *)
(***************************************************************************)
EXTENDS CatalogCache

CONSTANTS
  Users, Courses, Paths, Sessions,
  MaxXP,                \* bound on experience points
  MaxRequests           \* bound on requests, with those that edit the catalogue or earn points

VARIABLES
  xp,                   \* experience points of each learner
  enrolled,             \* enrollments
  pathEnrolled,         \* path_enrollments
  bookings,             \* session_bookings: whether present, or None
  admitted,             \* history: the capacity a booking was let in under, 0 for unlimited
  request,              \* the request in each slot
  asked                 \* requests left

tables == <<enrolled, pathEnrolled, bookings>>
vars == <<cacheVars, xp, tables, admitted, request, asked>>

Seats == Courses \X Sessions

\* What course-service tells of a course and of a path.
CourseOffer == [xp : Nat, public : BOOLEAN, capacity : [Sessions -> Nat]]
PathOffer == [courses : SUBSET Courses]

ASSUME EnrolmentAssumption ==
  /\ Caches = {Courses, Paths} /\ Courses \cap Paths = {}
  /\ Values \subseteq CourseOffer \cup PathOffer
  /\ MaxXP \in Nat /\ MaxRequests \in Nat
  /\ IsFiniteSet(Users) /\ IsFiniteSet(Requests) /\ None \notin BOOLEAN

Idle == [pc |-> "idle", user |-> None, key |-> None, seat |-> None, capacity |-> 0]

RequestTypeOK(q) ==
  /\ q.pc \in {"idle", "enroll", "path", "list", "capacity", "count", "book", "insert"}
  /\ q.user \in Users \cup {None} /\ q.key \in Keys \cup {None} /\ q.seat \in Seats \cup {None}
  /\ q.capacity \in Nat

TypeOK ==
  /\ CacheTypeOK
  /\ xp \in [Users -> 0..MaxXP]
  /\ enrolled \subseteq Users \X Courses /\ pathEnrolled \subseteq Users \X Paths
  /\ bookings \in [Seats -> [Users -> BOOLEAN \cup {None}]]
  /\ admitted \in [Seats -> [Users -> Nat]]
  /\ \A r \in Requests : RequestTypeOK(request[r])
  /\ asked \in 0..MaxRequests

Init ==
  /\ CacheInit
  /\ \A k \in Keys : upstream[k] # None =>
       upstream[k] \in IF k \in Courses THEN CourseOffer ELSE PathOffer
  /\ xp = [u \in Users |-> 0]
  /\ enrolled = {} /\ pathEnrolled = {}
  /\ bookings = [x \in Seats |-> [u \in Users |-> None]]
  /\ admitted = [x \in Seats |-> [u \in Users |-> 0]]
  /\ request = [r \in Requests |-> Idle]
  /\ asked = MaxRequests

-----------------------------------------------------------------------------

At(r, pc) == request[r].pc = pc

Ask == asked > 0 /\ asked' = asked - 1

Start(r, q) == Ask /\ At(r, "idle") /\ request' = [request EXCEPT ![r] = q]

End(r) ==
  /\ request' = [request EXCEPT ![r] = Idle]
  /\ lookup' = [lookup EXCEPT ![r] = NoLookup]
  /\ UNCHANGED <<upstream, was, cache, flights, clock>>

Found(r) == lookup[r].out[request[r].key]

-----------------------------------------------------------------------------
(* Enrolling in a course                                                   *)

Enroll(r, u, c) ==
  /\ Start(r, [Idle EXCEPT !.pc = "enroll", !.user = u, !.key = c])
  /\ Resolve(r, {c})
  /\ UNCHANGED <<xp, tables, admitted>>

\* The experience asked for; nothing when the course could not be fetched.
Required(r) == IF Found(r) = None THEN 0 ELSE Found(r).xp

\* A learner below the requirement is refused.
Create(r) ==
  LET q == request[r] IN
  /\ At(r, "enroll") /\ Looking(r, "done")
  /\ enrolled' = IF xp[q.user] >= Required(r) THEN enrolled \cup {<<q.user, q.key>>} ELSE enrolled
  /\ End(r)
  /\ UNCHANGED <<xp, pathEnrolled, bookings, admitted, asked>>

\* An admin's enrolment, and the one a public course grants on first access.
AutoEnroll(u, c) ==
  /\ Ask
  /\ enrolled' = enrolled \cup {<<u, c>>}
  /\ UNCHANGED <<cacheVars, xp, pathEnrolled, bookings, admitted, request>>

Unenroll(u, c) ==
  /\ Ask
  /\ <<u, c>> \in enrolled
  /\ enrolled' = enrolled \ {<<u, c>>}
  /\ UNCHANGED <<cacheVars, xp, pathEnrolled, bookings, admitted, request>>

-----------------------------------------------------------------------------
(* Learning paths                                                          *)

AdminEnrollUserInPath(r, u, p) ==
  /\ Start(r, [Idle EXCEPT !.pc = "path", !.user = u, !.key = p])
  /\ Resolve(r, {p})
  /\ UNCHANGED <<xp, tables, admitted>>

CoursesOf(r) == IF Found(r) = None THEN {} ELSE Found(r).courses

\* Mutant: no transaction around the rows.
EnrollPiecemeal(r) ==
  LET q == request[r] IN
  /\ At(r, "path") /\ Looking(r, "done")
  /\ pathEnrolled' = pathEnrolled \cup {<<q.user, q.key>>}
  /\ \E cs \in SUBSET CoursesOf(r) : enrolled' = enrolled \cup ({q.user} \X cs)
  /\ End(r)
  /\ UNCHANGED <<xp, bookings, admitted, asked>>

\* The path and its courses, in one transaction.
EnrollWithCourses(r) ==
  LET q == request[r] IN
  /\ At(r, "path") /\ Looking(r, "done")
  /\ pathEnrolled' = pathEnrolled \cup {<<q.user, q.key>>}
  /\ enrolled' = enrolled \cup ({q.user} \X CoursesOf(r))
  /\ End(r)
  /\ UNCHANGED <<xp, bookings, admitted, asked>>

UnenrollFromPath(u, p) ==
  /\ Ask
  /\ <<u, p>> \in pathEnrolled
  /\ pathEnrolled' = pathEnrolled \ {<<u, p>>}
  /\ UNCHANGED <<cacheVars, xp, enrolled, bookings, admitted, request>>

\* The learner's page asks for all paths at once.
MyPaths(r, u) ==
  LET ps == {p \in Paths : <<u, p>> \in pathEnrolled} IN
  /\ ps # {}
  /\ Start(r, [Idle EXCEPT !.pc = "list", !.user = u])
  /\ Resolve(r, ps)
  /\ UNCHANGED <<xp, tables, admitted>>

Listed(r) ==
  /\ At(r, "list") /\ Looking(r, "done")
  /\ End(r)
  /\ UNCHANGED <<xp, tables, admitted, asked>>

-----------------------------------------------------------------------------
(* Booking seats                                                           *)

BookSession(r, u, x) ==
  /\ Start(r, [Idle EXCEPT !.pc = "capacity", !.user = u, !.seat = x])
  /\ UNCHANGED <<cacheVars, xp, tables, admitted>>

\* Who asks for a course without a token, is shown it if it is public.
Visible(c) == upstream[c] # None /\ upstream[c].public

\* course-service is asked, without a token.  A session without a limit, one
\* that is not found and a failed call all give 0, which limits nothing.
SessionCapacity(r) ==
  LET x == request[r].seat IN
  /\ At(r, "capacity")
  /\ \E capacity \in {0, IF Visible(x[1]) THEN upstream[x[1]].capacity[x[2]] ELSE 0} :
       request' = [request EXCEPT ![r].pc = IF capacity > 0 THEN "count" ELSE "book",
                                  ![r].capacity = capacity]
  /\ UNCHANGED <<cacheVars, xp, tables, admitted, asked>>

Booked(x) == {u \in Users : bookings[x][u] # None}

\* Mutant: one too many.
CountLoosely(r) ==
  LET q == request[r] IN
  /\ At(r, "count")
  /\ IF Cardinality(Booked(q.seat)) > q.capacity THEN End(r)
     ELSE request' = [request EXCEPT ![r].pc = "book"] /\ UNCHANGED cacheVars
  /\ UNCHANGED <<xp, tables, admitted, asked>>

CountBySession(r) ==
  LET q == request[r] IN
  /\ At(r, "count")
  /\ IF Cardinality(Booked(q.seat)) >= q.capacity THEN End(r)
     ELSE request' = [request EXCEPT ![r].pc = "book"] /\ UNCHANGED cacheVars
  /\ UNCHANGED <<xp, tables, admitted, asked>>

\* FirstOrCreate selects first.  One who has a seat keeps it.
Book(r) ==
  LET q == request[r] IN
  /\ At(r, "book")
  /\ IF q.user \in Booked(q.seat) THEN End(r)
     ELSE request' = [request EXCEPT ![r].pc = "insert"] /\ UNCHANGED cacheVars
  /\ UNCHANGED <<xp, tables, admitted, asked>>

\* Mutant: the row is written over.
InsertAgain(r) ==
  LET q == request[r] IN
  /\ At(r, "insert")
  /\ bookings' = [bookings EXCEPT ![q.seat][q.user] = FALSE]
  /\ admitted' = [admitted EXCEPT ![q.seat][q.user] = q.capacity]
  /\ End(r)
  /\ UNCHANGED <<xp, enrolled, pathEnrolled, asked>>

\* Then it inserts, which the unique index refuses when there is a row by now.
Insert(r) ==
  LET q == request[r] IN
  /\ At(r, "insert")
  /\ IF q.user \in Booked(q.seat) THEN UNCHANGED <<bookings, admitted>>
     ELSE /\ bookings' = [bookings EXCEPT ![q.seat][q.user] = FALSE]
          /\ admitted' = [admitted EXCEPT ![q.seat][q.user] = q.capacity]
  /\ End(r)
  /\ UNCHANGED <<xp, enrolled, pathEnrolled, asked>>

Unbook(u, x) ==
  /\ Ask
  /\ u \in Booked(x)
  /\ bookings' = [bookings EXCEPT ![x][u] = None]
  /\ admitted' = [admitted EXCEPT ![x][u] = 0]
  /\ UNCHANGED <<cacheVars, xp, enrolled, pathEnrolled, request>>

MarkPresent(u, x, present) ==
  /\ Ask
  /\ u \in Booked(x)
  /\ bookings' = [bookings EXCEPT ![x][u] = present]
  /\ UNCHANGED <<cacheVars, xp, enrolled, pathEnrolled, admitted, request>>

-----------------------------------------------------------------------------

\* A failing statement ends its request.
Fails(r) ==
  /\ ~At(r, "idle")
  /\ lookup[r].pc \in {"idle", "done"}
  /\ End(r)
  /\ UNCHANGED <<xp, tables, admitted, asked>>

EarnXP(u) ==
  /\ Ask /\ xp[u] < MaxXP
  /\ xp' = [xp EXCEPT ![u] = @ + 1]
  /\ UNCHANGED <<cacheVars, tables, admitted, request>>

EditCatalog(k, value) ==
  /\ Ask
  /\ value # None => value \in IF k \in Courses THEN CourseOffer ELSE PathOffer
  /\ Edit(k, value)
  /\ UNCHANGED <<xp, tables, admitted, request>>

Begin(r) ==
  \E u \in Users :
    \/ \E c \in Courses : Enroll(r, u, c)
    \/ \E p \in Paths : AdminEnrollUserInPath(r, u, p)
    \/ MyPaths(r, u)
    \/ \E x \in Seats : BookSession(r, u, x)

Step(r) ==
  \/ Create(r)
  \/ EnrollWithCourses(r)
  \/ Listed(r)
  \/ SessionCapacity(r) \/ CountBySession(r) \/ Book(r) \/ Insert(r)
  \/ Fails(r)

\* Requests of one statement.
AtOnce ==
  \E u \in Users :
    \/ \E c \in Courses : AutoEnroll(u, c) \/ Unenroll(u, c)
    \/ \E p \in Paths : UnenrollFromPath(u, p)
    \/ \E x \in Seats : Unbook(u, x) \/ \E present \in BOOLEAN : MarkPresent(u, x, present)
    \/ EarnXP(u)

\* The catalogue's reads, the network and the clock.
Around ==
  /\ \/ \E r \in Requests : CacheStep(r)
     \/ \E keys \in flights : FetchDone(keys) \/ FetchFails(keys)
     \/ Tick
  /\ UNCHANGED <<xp, tables, admitted, request, asked>>

Next ==
  \/ \E r \in Requests : Begin(r) \/ Step(r)
  \/ AtOnce
  \/ Around
  \/ \E k \in Keys, value \in Values \cup {None} : EditCatalog(k, value)

Spec == Init /\ [][Next]_vars
-----------------------------------------------------------------------------
(* Properties                                                              *)

\* Those who were let in under a capacity of at most k.
LetIn(x, k) == {u \in Users : bookings[x][u] # None /\ admitted[x][u] \in 1..k}

\* "Session is full": a session is overbooked by no more than the bookings
\* that overlap.  Those who were let in because the session had room for k, or
\* for fewer, exceed k by less than the number of requests at work (BookSession,
\* which counts the seats, looks for a booking and inserts it, each in a
\* statement of its own).
SeatsBounded ==
  \A x \in Seats, u \in Users :
    admitted[x][u] > 0 =>
      Cardinality(LetIn(x, admitted[x][u])) < admitted[x][u] + Cardinality(Requests)

\* A learner who enrols has the experience the course asked for at some moment
\* within the life of a cached answer, or else the course did not exist then or
\* could not be fetched (Enroll through resolveCatalog).
XPGate ==
  [][\A r \in Requests :
       LET q == request[r] IN
       At(r, "enroll") /\ enrolled' # enrolled /\ request'[r] = Idle =>
         \/ lookup[r].failed
         \/ \E v \in Recently(q.key) : v = None \/ xp[q.user] >= v.xp]_vars

\* "The path enrollment and all course auto-enrollments are committed in a
\* single transaction so a partial failure leaves no dangling state": a learner
\* who is put in a path is in all courses the path had at some moment within the
\* life of a cached answer, unless it could not be fetched.
PathComplete ==
  [][\A r \in Requests :
       LET q == request[r] IN
       At(r, "path") /\ pathEnrolled' # pathEnrolled /\ request'[r] = Idle =>
         \/ lookup[r].failed
         \/ \E v \in Recently(q.key) : v = None \/ {q.user} \X v.courses \subseteq enrolled']_vars

Store == INSTANCE EnrolmentStore

Booking(r) ==
  LET q == request[r] IN
  At(r, "insert") /\ request'[r] = Idle => Store!Book(q.user, q.seat)

\* The tables change row by row as the in-memory repositories of the tests do,
\* whatever requests overlap: booking a seat twice leaves the presence as it was
\* marked, and a course's row comes with a path's or alone.
Implements ==
  /\ Store!Init
  /\ [][Store!PathStep]_pathEnrolled
  /\ [][Store!BookingStep /\ \A r \in Requests : Booking(r)]_bookings
  /\ [][Store!EnrolmentStep \/ \E r \in Requests : At(r, "path") /\ enrolled \subseteq enrolled']_enrolled
=============================================================================
