------------------------------- MODULE Catalog -------------------------------
(***************************************************************************)
(* The catalogue of course-service: courses with their modules,            *)
(* prerequisites and sessions, and learning paths, as admins create, edit, *)
(* import and delete them.                                                 *)
(*                                                                         *)
(* A definition is written in one transaction that locks the course's row, *)
(* so that writes of one course come one after the other.  Reading one is  *)
(* a statement for each table, and every editing request reads before it   *)
(* writes: anything may come in between.                                   *)
(***************************************************************************)
EXTENDS Naturals, Sequences, FiniteSets

CONSTANTS
  Courses, Paths,       \* slugs
  Texts, Public,        \* a course's own fields; those of them that publish it
  SkillsOf,             \* the skills of each module
  Sessions, Details,
  Documents,            \* course definitions as admins write them
  PathDocuments,
  Requests, None,
  MaxRequests           \* bound on requests

ModuleIds == DOMAIN SkillsOf
Skills    == UNION {SkillsOf[m] : m \in ModuleIds}

Definition == [text : Texts, modules : Seq(ModuleIds), prereqs : SUBSET Courses,
               sessions : [Sessions -> Details \cup {None}]]

\* The skills are those of all modules, in a column of their own.
CourseRow == [text : Texts, skills : SUBSET Skills]

PathDefinition == [text : Texts, kind : {"course", "skill"}, courses : Seq(Courses),
                   skills : SUBSET Skills]

\* A course as it is shown.
Course == [text : Texts, modules : Seq(ModuleIds), prereqs : SUBSET Courses,
           sessions : [Sessions -> Details \cup {None}], skills : SUBSET Skills]

ASSUME CatalogAssumption ==
  /\ Courses \cap Paths = {}
  /\ None \notin Courses \cup Paths \cup Texts \cup Details \cup Skills \cup Sessions
  /\ None \notin CourseRow \cup Course \cup PathDefinition
  /\ SkillsOf \in [ModuleIds -> SUBSET Skills]
  /\ Documents \subseteq Definition /\ PathDocuments \subseteq PathDefinition
  /\ MaxRequests \in Nat

VARIABLES
  course,       \* courses: the own fields and the skills, or None
  modules, prereqs, sessions,   \* the tables that hang off it, by course
  path,         \* paths, with their members
  drawn,        \* ids of sessions that have been used
  request,      \* the request in each slot
  seen,         \* history: what its course or path was while a request ran
  asked         \* requests left

tables == <<course, modules, prereqs, sessions, path>>
vars == <<tables, drawn, request, seen, asked>>

AggregateSkills(ms) == UNION {SkillsOf[ms[i]] : i \in DOMAIN ms}

NoSessions == [s \in Sessions |-> None]
Empty == [text |-> None, modules |-> <<>>, prereqs |-> {}, sessions |-> NoSessions]
NoPath == [text |-> None, kind |-> "course", courses |-> <<>>, skills |-> {}]

Idle == [pc |-> "idle", kind |-> None, slug |-> None, def |-> None, doc |-> None,
         session |-> None, detail |-> None]

PC == {"idle", "count", "exists", "row", "modules", "prereqs", "sessions", "courses",
       "skills", "edit", "write", "session", "course", "put"}

\* add, replace and append are the modes of an import; replaceAll replaces by a
\* document that has frontmatter.
Imports == {"add", "replace", "replaceAll", "append"}
Kinds == Imports \cup {"create", "update", "editPath", "newSession", "editSession"}

InFlight(q) ==
  /\ q.pc \in PC /\ q.kind \in Kinds \cup {None}
  /\ q.slug \in Courses \cup Paths \cup {None}
  /\ q.session \in Sessions \cup {None} /\ q.detail \in Details \cup {None}
  /\ q.doc \in Documents \cup {None}
  /\ q.pc = "write" /\ q.slug \in Courses => q.def \in Definition
  /\ q.pc = "write" /\ q.slug \in Paths   => q.def \in PathDefinition

\* Nothing hangs off a course that is not there.
TypeOK ==
  /\ \A c \in Courses :
       /\ modules[c] \in Seq(ModuleIds) /\ prereqs[c] \subseteq Courses
       /\ sessions[c] \in [Sessions -> Details \cup {None}]
       /\ \/ course[c] = None /\ modules[c] = <<>> /\ prereqs[c] = {} /\ sessions[c] = NoSessions
          \/ course[c] \in CourseRow
  /\ \A p \in Paths : path[p] \in PathDefinition \cup {None}
  /\ drawn \subseteq Sessions
  /\ \A r \in Requests : InFlight(request[r])
  /\ asked \in 0..MaxRequests

Init ==
  /\ course = [c \in Courses |-> None] /\ path = [p \in Paths |-> None]
  /\ modules = [c \in Courses |-> <<>>] /\ prereqs = [c \in Courses |-> {}]
  /\ sessions = [c \in Courses |-> NoSessions]
  /\ drawn = {s \in Sessions : \E d \in Documents : d.sessions[s] # None}
  /\ request = [r \in Requests |-> Idle]
  /\ seen = [r \in Requests |-> {}]
  /\ asked = MaxRequests

-----------------------------------------------------------------------------
(* Requests                                                                *)

There(x) == IF x \in Courses THEN course[x] # None ELSE path[x] # None

At(r, pc) == request[r].pc = pc

Goto(r, pc) == request' = [request EXCEPT ![r].pc = pc]

End(r) == request' = [request EXCEPT ![r] = Idle]

Ask == asked > 0 /\ asked' = asked - 1

Start(r, kind, pc, x, def, doc) ==
  /\ Ask
  /\ At(r, "idle")
  /\ request' = [request EXCEPT ![r] =
       [Idle EXCEPT !.pc = pc, !.kind = kind, !.slug = x, !.def = def, !.doc = doc]]
  /\ UNCHANGED <<tables, drawn>>

\* courseExists and pathExists read the whole definition for its row alone.
CreateDefinition(r, x, def) == Start(r, "create", "count", x, def, None)
UpdateDefinition(r, x, def) == Start(r, "update", "exists", x, def, None)

ImportMarkdown(r, c, mode, doc) == Start(r, mode, "row", c, Empty, doc)

\* The admin's form: a path's definition is read, edited and sent back.
GetPathDefinition(r, p) == Start(r, "editPath", "row", p, NoPath, None)

\* A session's id is random.
CreateSession(r, c, s, x) ==
  /\ Ask
  /\ At(r, "idle") /\ s \notin drawn
  /\ drawn' = drawn \cup {s}
  /\ request' = [request EXCEPT ![r] =
       [Idle EXCEPT !.pc = "course", !.kind = "newSession", !.slug = c, !.session = s,
                    !.detail = x]]
  /\ UNCHANGED tables

UpdateSession(r, c, s, x) ==
  /\ Ask
  /\ At(r, "idle") /\ s \in drawn
  /\ request' = [request EXCEPT ![r] =
       [Idle EXCEPT !.pc = "session", !.kind = "editSession", !.slug = c, !.session = s,
                    !.detail = x]]
  /\ UNCHANGED <<tables, drawn>>

Reads == UNCHANGED <<tables, drawn, asked>>

-----------------------------------------------------------------------------
(* Queries of the catalogue                                                *)

\* A skill of None filters nothing.
List(publicOnly, skill) ==
  {c \in Courses : /\ There(c)
                   /\ publicOnly => course[c].text \in Public
                   /\ skill # None => skill \in course[c].skills}

\* Counted over the skills column, unnested.
SkillTotal(skill) == Cardinality({c \in Courses : There(c) /\ skill \in course[c].skills})

Positions == UNION {DOMAIN modules[c] : c \in Courses}

ModulesBySkill(skill) ==
  {at \in List(TRUE, None) \X Positions :
     at[2] \in DOMAIN modules[at[1]] /\ skill \in SkillsOf[modules[at[1]][at[2]]]}

SlugsContainingCourse(c) ==
  {p \in Paths : There(p) /\ \E i \in DOMAIN path[p].courses : path[p].courses[i] = c}

SkillsOfCourses(cs) == UNION {course[c].skills : c \in {d \in cs : There(d)}}

SkillsByCourse(cs) == [c \in {d \in cs : There(d)} |-> course[c].skills]

\* A path of courses is shown with their skills, one of skills with its own.
Shown(def, skills) == IF def.kind = "course" /\ skills # {} THEN skills ELSE def.skills

Members(def) == {def.courses[i] : i \in DOMAIN def.courses}

GetPath(p) == Shown(path[p], SkillsOfCourses(Members(path[p])))

CourseKindMembers(ps) == UNION {Members(path[p]) : p \in {o \in ps : path[o].kind = "course"}}

ListPathsBatch(ps) ==
  LET byCourse == SkillsByCourse(CourseKindMembers(ps)) IN
  [p \in ps |-> Shown(path[p], UNION {byCourse[c] : c \in Members(path[p]) \cap DOMAIN byCourse})]

-----------------------------------------------------------------------------
(* What a request reads                                                    *)

\* Mutant: the slug is not looked up.
CountNothing(r) ==
  /\ At(r, "count")
  /\ Goto(r, "write")
  /\ Reads

Count(r) ==
  /\ At(r, "count")
  /\ IF There(request[r].slug) THEN End(r) ELSE Goto(r, "write")
  /\ Reads

Exists(r) ==
  /\ At(r, "exists")
  /\ IF There(request[r].slug) THEN Goto(r, "write") ELSE End(r)
  /\ Reads

\* Get's first statement.  Creating from a document wants the slug free, the
\* other imports want it taken.
ReadRow(r) ==
  LET q == request[r] IN
  /\ At(r, "row") /\ q.slug \in Courses
  /\ \/ /\ q.kind = "add"
        /\ IF There(q.slug) THEN End(r)
           ELSE request' = [request EXCEPT ![r].pc = "count", ![r].def = q.doc]
     \/ /\ q.kind # "add"
        /\ IF There(q.slug)
           THEN request' = [request EXCEPT ![r].pc = "modules", ![r].def.text = course[q.slug].text]
           ELSE End(r)
  /\ Reads

ReadModules(r) ==
  /\ At(r, "modules")
  /\ request' = [request EXCEPT ![r].pc = "prereqs", ![r].def.modules = modules[request[r].slug]]
  /\ Reads

ReadPrereqs(r) ==
  /\ At(r, "prereqs")
  /\ request' = [request EXCEPT ![r].pc = "sessions", ![r].def.prereqs = prereqs[request[r].slug]]
  /\ Reads

\* Mutant: a document without frontmatter takes the own fields along.
MergeAll(mode, stored, doc) ==
  CASE mode = "append" -> [doc EXCEPT !.modules = stored.modules \o @]
    [] OTHER           -> doc

MergeStored(mode, stored, doc) ==
  CASE mode = "append"     -> [stored EXCEPT !.modules = @ \o doc.modules]
    [] mode = "replaceAll" -> doc
    [] mode = "replace"    -> [stored EXCEPT !.modules = doc.modules]

ReadSessions(r) ==
  LET q == request[r]
      stored == [q.def EXCEPT !.sessions = sessions[q.slug]]
  IN
  /\ At(r, "sessions")
  /\ request' = [request EXCEPT ![r].pc = "write",
                                ![r].def = MergeStored(q.kind, stored, q.doc)]
  /\ Reads

ReadPathRow(r) ==
  LET p == request[r].slug IN
  /\ At(r, "row") /\ p \in Paths
  /\ IF There(p)
     THEN request' = [request EXCEPT ![r].pc = "courses", ![r].def.text = path[p].text,
                                     ![r].def.kind = path[p].kind]
     ELSE End(r)
  /\ Reads

\* The path may be gone by now: no rows.
ReadPathCourses(r) ==
  LET p == request[r].slug IN
  /\ At(r, "courses")
  /\ request' = [request EXCEPT ![r].pc = "skills",
       ![r].def.courses = IF There(p) THEN path[p].courses ELSE <<>>]
  /\ Reads

ReadPathSkills(r) ==
  LET p == request[r].slug IN
  /\ At(r, "skills")
  /\ request' = [request EXCEPT ![r].pc = "edit",
       ![r].def.skills = IF There(p) THEN path[p].skills ELSE {}]
  /\ Reads

\* The admin has changed the path's courses, and saves.
SavePath(r, cs) ==
  /\ At(r, "edit")
  /\ request' = [request EXCEPT ![r].pc = "exists", ![r].def.courses = cs]
  /\ Reads

-----------------------------------------------------------------------------
(* What it writes                                                          *)

ToRow(def) == [text |-> def.text, skills |-> AggregateSkills(def.modules)]

\* Mutant: sessions are exchanged like the modules.
ReplaceAllChildren(c, def) ==
  /\ modules' = [modules EXCEPT ![c] = def.modules]
  /\ prereqs' = [prereqs EXCEPT ![c] = def.prereqs]
  /\ sessions' = [sessions EXCEPT ![c] = def.sessions]

\* Modules and prerequisites are exchanged, sessions only put.
ReplaceChildren(c, def) ==
  /\ modules' = [modules EXCEPT ![c] = def.modules]
  /\ prereqs' = [prereqs EXCEPT ![c] = def.prereqs]
  /\ sessions' = [sessions EXCEPT ![c] =
       [s \in Sessions |-> IF def.sessions[s] # None THEN def.sessions[s] ELSE @[s]]]

\* Mutant: the conflict clause forgets the skills.
UpsertStale(c, def) ==
  /\ course' = [course EXCEPT ![c] =
       IF @ = None THEN ToRow(def) ELSE [@ EXCEPT !.text = def.text]]
  /\ ReplaceChildren(c, def)
  /\ UNCHANGED path

Upsert(c, def) ==
  /\ course' = [course EXCEPT ![c] = ToRow(def)]
  /\ ReplaceChildren(c, def)
  /\ UNCHANGED path

UpsertPath(p, def) ==
  /\ path' = [path EXCEPT ![p] = def]
  /\ UNCHANGED <<course, modules, prereqs, sessions>>

Write(r) ==
  LET q == request[r] IN
  /\ At(r, "write")
  /\ IF q.slug \in Courses THEN Upsert(q.slug, q.def) ELSE UpsertPath(q.slug, q.def)
  /\ End(r)
  /\ UNCHANGED <<drawn, asked>>

SessionExists(r) ==
  LET q == request[r] IN
  /\ At(r, "session")
  /\ IF sessions[q.slug][q.session] # None THEN Goto(r, "course") ELSE End(r)
  /\ Reads

CourseExists(r) ==
  /\ At(r, "course")
  /\ IF There(request[r].slug) THEN Goto(r, "put") ELSE End(r)
  /\ Reads

\* Refused by the foreign key when the course is gone.
PutSession(r) ==
  LET q == request[r] IN
  /\ At(r, "put")
  /\ IF There(q.slug)
     THEN sessions' = [sessions EXCEPT ![q.slug][q.session] = q.detail]
     ELSE UNCHANGED sessions
  /\ End(r)
  /\ UNCHANGED <<course, modules, prereqs, path, drawn, asked>>

\* A failing statement ends its request; a transaction is undone.
Fails(r) ==
  /\ ~At(r, "idle") /\ ~At(r, "edit")
  /\ End(r)
  /\ Reads

DeleteCourse(c) ==
  /\ Ask /\ There(c)
  /\ course' = [course EXCEPT ![c] = None]
  /\ modules' = [modules EXCEPT ![c] = <<>>]
  /\ prereqs' = [prereqs EXCEPT ![c] = {}]
  /\ sessions' = [sessions EXCEPT ![c] = NoSessions]
  /\ UNCHANGED <<path, drawn, request>>

DeleteSession(c, s) ==
  /\ Ask /\ sessions[c][s] # None
  /\ sessions' = [sessions EXCEPT ![c][s] = None]
  /\ UNCHANGED <<course, modules, prereqs, path, drawn, request>>

DeletePath(p) ==
  /\ Ask /\ There(p)
  /\ path' = [path EXCEPT ![p] = None]
  /\ UNCHANGED <<course, modules, prereqs, sessions, drawn, request>>

-----------------------------------------------------------------------------

Step(r) ==
  \/ Count(r) \/ Exists(r)
  \/ ReadRow(r) \/ ReadModules(r) \/ ReadPrereqs(r) \/ ReadSessions(r)
  \/ ReadPathRow(r) \/ ReadPathCourses(r) \/ ReadPathSkills(r)
  \/ \E d \in PathDocuments : SavePath(r, d.courses)
  \/ Write(r)
  \/ SessionExists(r) \/ CourseExists(r) \/ PutSession(r)
  \/ Fails(r)

Begin(r) ==
  \/ \E c \in Courses, d \in Documents :
       \/ CreateDefinition(r, c, d) \/ UpdateDefinition(r, c, d)
       \/ \E mode \in Imports : ImportMarkdown(r, c, mode, d)
  \/ \E p \in Paths :
       \/ \E d \in PathDocuments : CreateDefinition(r, p, d) \/ UpdateDefinition(r, p, d)
       \/ GetPathDefinition(r, p)
  \/ \E c \in Courses, s \in Sessions, x \in Details :
       CreateSession(r, c, s, x) \/ UpdateSession(r, c, s, x)

Remove ==
  \/ \E c \in Courses : DeleteCourse(c) \/ \E s \in Sessions : DeleteSession(c, s)
  \/ \E p \in Paths : DeletePath(p)

\* The course as a whole.
StoredCourse(c) ==
  IF course[c] = None THEN None
  ELSE [text |-> course[c].text, modules |-> modules[c], prereqs |-> prereqs[c],
        sessions |-> sessions[c], skills |-> AggregateSkills(modules[c])]

StoredCourses == [c \in Courses |-> StoredCourse(c)]

Stored(x) == IF x \in Paths THEN path[x] ELSE StoredCourse(x)

Snapshot == [x \in Courses \cup Paths |-> Stored(x)]

Track ==
  seen' = [r \in Requests |->
    IF request'[r].slug = None THEN {} ELSE seen[r] \cup {Snapshot'[request'[r].slug]}]

Next == ((\E r \in Requests : Step(r) \/ Begin(r)) \/ Remove) /\ Track

Spec == Init /\ [][Next]_vars
-----------------------------------------------------------------------------
(* Properties                                                              *)

Store == INSTANCE CatalogStore
           WITH courses <- StoredCourses, paths <- path

\* The tables change as the in-memory repositories of the tests do, whatever
\* requests overlap and whichever statements fail; unlike there, a course that
\* is written again keeps the sessions it had, for they may be booked
\* (replaceCourseChildren).
SessionKept(c, s) ==
  (sessions[c][s] # None /\ There(c) /\ course'[c] # None) =>
    (sessions'[c][s] # None \/ Store!DeleteSession(c, s))

Implements ==
  Store!Spec /\ [][\A c \in Courses, s \in Sessions : SessionKept(c, s)]_vars

\* The catalogue's queries answer what the in-memory repositories would: the
\* skills column agrees with the modules it is derived from (SkillTotals,
\* ModulesBySkills, List, SlugsContainingCourse), and a path in a batch is shown
\* with the skills it has alone (aggregateCourseKindSkills).
QueriesAgree ==
  /\ \A k \in Skills :
       /\ SkillTotal(k) = Store!SkillTotal(k)
       /\ ModulesBySkill(k) = Store!ModulesBySkill(k)
       /\ \A publicOnly \in BOOLEAN : List(publicOnly, k) = Store!List(publicOnly, k)
  /\ \A c \in Courses : SlugsContainingCourse(c) = Store!SlugsContainingCourse(c)
  /\ LET there == {p \in Paths : There(p)} IN
       ListPathsBatch(there) = [p \in there |-> GetPath(p)]

Writes(r) == At(r, "write") /\ request'[r].pc = "idle" /\ tables' # tables

\* "Append never touches the course's own fields", and "pasting a bare markdown
\* file cannot silently blank a course's metadata": whatever overlaps, such an
\* import leaves own fields the course had while it ran, and an append only
\* adds to modules the course had while it ran, or to none when it was away for
\* a moment (mergeStored).
ImportKeepsFields ==
  [][\A r \in Requests :
       LET q == request[r] IN
       Writes(r) /\ q.kind \in {"append", "replace"} =>
         /\ \E v \in seen[r] : v # None /\ v.text = course'[q.slug].text
         /\ q.kind = "append" =>
              \E v \in seen[r] : modules'[q.slug] =
                (IF v = None THEN <<>> ELSE v.modules) \o q.doc.modules]_vars

\* "A PUT to an unknown slug is a 404 rather than an implicit create", a taken
\* slug is a conflict and an unknown session is not found: a request that
\* creates meets a slug that was free, and one that edits a course, a path or a
\* session one that was there, at some moment while it ran (Create,
\* updateDefinition, UpdateSession).
Meets(r, x) ==
  LET q == request[r] IN
  Writes(r) /\ q.slug = x =>
    IF q.kind \in {"create", "add"} THEN There(x) => None \in seen[r]
                                   ELSE There(x) \/ \E v \in seen[r] : v # None

Carries(q, c, s) == q.pc = "write" /\ q.slug = c /\ q.def.sessions[s] # None

Puts(r, c, s) ==
  LET q == request[r] IN
    /\ q.pc = "put" /\ q.slug = c /\ q.session = s
    /\ q.kind = "editSession" => \E v \in seen[r] : v # None /\ v.sessions[s] # None

NothingRevived ==
  [][/\ \A r \in Requests, x \in Courses \cup Paths : Meets(r, x)
     /\ \A c \in Courses, s \in Sessions :
          sessions[c][s] = None /\ sessions'[c][s] # None =>
            \E r \in Requests : Carries(request[r], c, s) \/ Puts(r, c, s)]_vars

=============================================================================
