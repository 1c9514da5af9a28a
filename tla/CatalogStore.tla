---------------------------- MODULE CatalogStore -----------------------------
(***************************************************************************)
(* The CourseRepository and PathRepository interfaces as their in-memory   *)
(* implementations give them, a map each under one mutex, which the tests  *)
(* of every handler run against.  Catalog is checked against it.           *)
(***************************************************************************)
EXTENDS FiniteSets

CONSTANTS
  Courses, Paths, Sessions,
  Public,       \* of the courses' own fields, those that publish them
  SkillsOf,     \* the skills a module is tagged with
  None

VARIABLES
  courses,      \* by slug: text, modules, prerequisites, sessions, skills
  paths         \* by slug: text, kind, courses, skills

AggregateSkills(modules) == UNION {SkillsOf[modules[i]] : i \in DOMAIN modules}

-----------------------------------------------------------------------------
(* Queries                                                                 *)

Modules(c) == courses[c].modules

\* A skill of None filters nothing.
MatchesFilter(course, publicOnly, skill) ==
  /\ publicOnly => course.text \in Public
  /\ skill # None => skill \in course.skills

List(publicOnly, skill) ==
  {c \in Courses : courses[c] # None /\ MatchesFilter(courses[c], publicOnly, skill)}

SkillTotal(skill) ==
  Cardinality({c \in Courses : courses[c] # None /\ skill \in courses[c].skills})

ModulesBySkill(skill) ==
  UNION {{<<c, i>> : i \in {j \in DOMAIN Modules(c) : skill \in SkillsOf[Modules(c)[j]]}} :
           c \in List(TRUE, None)}

SlugsContainingCourse(c) ==
  {p \in Paths : paths[p] # None /\ \E i \in DOMAIN paths[p].courses : paths[p].courses[i] = c}

SessionExists(c, s) == courses[c] # None /\ courses[c].sessions[s] # None

-----------------------------------------------------------------------------
(* Changes                                                                 *)

\* The skills are derived again from the modules.
Put(c, course) ==
  courses' = [courses EXCEPT ![c] = [course EXCEPT !.skills = AggregateSkills(course.modules)]]

Upsert(c, course) == course # None /\ Put(c, course)

Create(c, course) == courses[c] = None /\ Upsert(c, course)

Delete(c) == courses[c] # None /\ courses' = [courses EXCEPT ![c] = None]

PutSession(c, s, session) ==
  courses[c] # None /\ courses' = [courses EXCEPT ![c].sessions[s] = session]

DeleteSession(c, s) ==
  SessionExists(c, s) /\ courses' = [courses EXCEPT ![c].sessions[s] = None]

UpsertPath(p, path) == path # None /\ paths' = [paths EXCEPT ![p] = path]

CreatePath(p, path) == paths[p] = None /\ UpsertPath(p, path)

DeletePath(p) == paths[p] # None /\ paths' = [paths EXCEPT ![p] = None]

Init == courses = [c \in Courses |-> None] /\ paths = [p \in Paths |-> None]

Next ==
  \/ \E c \in Courses :
       /\ \/ Create(c, courses'[c]) \/ Upsert(c, courses'[c]) \/ Delete(c)
          \/ \E s \in Sessions :
               \/ courses'[c] # None /\ PutSession(c, s, courses'[c].sessions[s])
               \/ DeleteSession(c, s)
       /\ UNCHANGED paths
  \/ \E p \in Paths :
       /\ CreatePath(p, paths'[p]) \/ UpsertPath(p, paths'[p]) \/ DeletePath(p)
       /\ UNCHANGED courses

Spec == Init /\ [][Next]_<<courses, paths>>
=============================================================================
