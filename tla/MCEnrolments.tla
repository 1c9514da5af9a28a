---------------------------- MODULE MCEnrolments ----------------------------
(***************************************************************************)
(* A course with a session of one seat, paths with the course, and         *)
(* learners; the course may be private and ask for experience.             *)
(***************************************************************************)
EXTENDS Exports, TLC

CONSTANTS c1, p1, p2, s1

Free    == [xp |-> 0, public |-> TRUE,  capacity |-> [s \in {s1} |-> 1]]
Private == [xp |-> 1, public |-> FALSE, capacity |-> [s \in {s1} |-> 1]]

OnlyCourse == [courses |-> {c1}]

Offers    == {Free, Private, OnlyCourse}
TwoCaches == {{c1}, {p1, p2}}

Want(mode, category, fields, filter) ==
  [mode |-> mode, category |-> category, fields |-> fields, filter |-> filter]

\* A title alone, the usual columns, a title with its slug, and columns of
\* the other category.
SomeExports ==
  {Want("preview", "enrollments", {"course_title"}, c1),
   Want("preview", "enrollments", {"path_title"}, None),
   Want("download", "enrollments", {}, None),
   Want("download", "path_enrollments", {"path_slug", "path_title"}, None),
   Want("download", "path_enrollments", {"courseslug"}, None)}

Symmetric == Permutations(Users) \cup Permutations(Requests) \cup Permutations(Paths)
=============================================================================
