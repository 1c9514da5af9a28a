--------------------------- MODULE EnrolmentStore ---------------------------
(***************************************************************************)
(* The enrolment, path enrolment and session booking repositories as their *)
(* in-memory implementations give them, which the tests of every handler   *)
(* run against.  Enrolments is checked against it.                         *)
(***************************************************************************)
CONSTANTS
  Users, Courses, Paths,
  Seats,        \* sessions, each with its course
  None

VARIABLES
  enrolled, pathEnrolled,   \* pairs of a user and a slug
  bookings                  \* by session and user: whether present, or None

Create(u, c) == enrolled' = enrolled \cup {<<u, c>>}
Delete(u, c) == enrolled' = enrolled \ {<<u, c>>}

Exists(u, c) == <<u, c>> \in enrolled

MyEnrollments(u) == {c \in Courses : Exists(u, c)}

ListByCourse(c) == {u \in Users : Exists(u, c)}

EnrolledInAny(u, ps) == \E p \in ps : <<u, p>> \in pathEnrolled

MyPathEnrollments(u) == {p \in Paths : <<u, p>> \in pathEnrolled}

ListBySlug(p) == {u \in Users : <<u, p>> \in pathEnrolled}

\* The courses are not tracked.
EnrollWithCourses(u, p, cs) == pathEnrolled' = pathEnrolled \cup {<<u, p>>}

Unenroll(u, p) == pathEnrolled' = pathEnrolled \ {<<u, p>>}

Booked(x) == {u \in Users : bookings[x][u] # None}

Book(u, x) ==
  IF u \in Booked(x) THEN UNCHANGED bookings ELSE bookings' = [bookings EXCEPT ![x][u] = FALSE]

Unbook(u, x) == bookings' = [bookings EXCEPT ![x][u] = None]

MarkPresent(u, x, present) ==
  IF u \in Booked(x) THEN bookings' = [bookings EXCEPT ![x][u] = present] ELSE UNCHANGED bookings

-----------------------------------------------------------------------------

Init ==
  /\ enrolled = {} /\ pathEnrolled = {}
  /\ bookings = [x \in Seats |-> [u \in Users |-> None]]

EnrolmentStep == \E u \in Users, c \in Courses : Create(u, c) \/ Delete(u, c)

PathStep == \E u \in Users, p \in Paths : EnrollWithCourses(u, p, {}) \/ Unenroll(u, p)

BookingStep ==
  \E u \in Users, x \in Seats :
    Book(u, x) \/ Unbook(u, x) \/ \E present \in BOOLEAN : MarkPresent(u, x, present)
=============================================================================
