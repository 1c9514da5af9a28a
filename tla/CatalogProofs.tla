---------------------------- MODULE CatalogProofs ----------------------------
(***************************************************************************)
(* Proofs about Catalog: types, that its queries answer what the in-memory *)
(* repositories would, that its tables change as theirs do, and that what  *)
(* a request writes was so at some moment while it ran.                    *)
(***************************************************************************)
EXTENDS Catalog, SequenceTheorems, TLAPS

-----------------------------------------------------------------------------
(* The invariant                                                           *)

Tables ==
  /\ course \in [Courses -> CourseRow \cup {None}]
  /\ modules \in [Courses -> Seq(ModuleIds)]
  /\ prereqs \in [Courses -> SUBSET Courses]
  /\ sessions \in [Courses -> [Sessions -> Details \cup {None}]]
  /\ path \in [Paths -> PathDefinition \cup {None}]

\* The foreign keys delete a course's rows with it.
NoOrphans ==
  \A c \in Courses : course[c] = None =>
    modules[c] = <<>> /\ prereqs[c] = {} /\ sessions[c] = NoSessions

\* The column that is derived is up to date.
SkillsDerived ==
  \A c \in Courses : course[c] # None => course[c].skills = AggregateSkills(modules[c])

\* What an editing request holds while it has not read all.
Draft == [text : Texts \cup {None}, modules : Seq(ModuleIds), prereqs : SUBSET Courses,
          sessions : [Sessions -> Details \cup {None}]]

PathDraft == [text : Texts \cup {None}, kind : {"course", "skill"}, courses : Seq(Courses),
              skills : SUBSET Skills]

Request == [pc : PC, kind : Kinds \cup {None}, slug : Courses \cup Paths \cup {None},
            def : Draft \cup PathDraft \cup {None}, doc : Documents \cup {None},
            session : Sessions \cup {None}, detail : Details \cup {None}]

Edits == {"modules", "prereqs", "sessions"}

Whole(q) == \/ q.slug \in Courses /\ q.def \in Definition
            \/ q.slug \in Paths /\ q.def \in PathDefinition

Flying(q) ==
  /\ q \in Request
  /\ q.pc = "idle" <=> q.slug = None
  /\ q.pc \in {"count", "write"} /\ q.kind \in Imports => q.slug \in Courses
  /\ q.pc = "row" =>
       \/ q.slug \in Courses /\ q.kind \in Imports /\ q.def = Empty /\ q.doc \in Documents
       \/ q.slug \in Paths /\ q.kind = "editPath" /\ q.def = NoPath
  /\ q.pc \in Edits =>
       /\ q.slug \in Courses /\ q.kind \in Imports \ {"add"}
       /\ q.def \in Definition /\ q.doc \in Documents
  /\ q.pc \in {"courses", "skills", "edit"} =>
       q.slug \in Paths /\ q.kind = "editPath" /\ q.def \in PathDefinition
  /\ q.pc \in {"count", "exists", "write"} => Whole(q)
  /\ q.pc = "count" => q.kind \in {"create", "add"}
  /\ q.pc = "exists" => q.kind \in {"update", "editPath"}
  /\ q.pc \in {"session", "course", "put"} =>
       /\ q.slug \in Courses /\ q.session \in Sessions /\ q.detail \in Details
       /\ q.kind \in {"newSession", "editSession"}

ModulesIn(v) == IF v = None THEN <<>> ELSE v.modules

\* What a request holds, or checked, was so at a moment of S.
Remembers(q, S) ==
  /\ q.pc = "write" /\ q.kind \in {"create", "add"} => None \in S
  /\ (q.pc = "write" /\ q.kind \notin {"create", "add"}) \/ q.pc \in Edits =>
       \E v \in S : v # None
  /\ q.pc \in Edits \cup {"write"} /\ q.kind \in {"append", "replace"} =>
       \E v \in S : v # None /\ v.text = q.def.text
  /\ q.pc \in {"prereqs", "sessions"} /\ q.kind = "append" =>
       \E v \in S : q.def.modules = ModulesIn(v)
  /\ q.pc = "write" /\ q.kind = "append" =>
       \E v \in S : q.def.modules = ModulesIn(v) \o q.doc.modules
  /\ q.pc \in {"course", "put"} /\ q.kind = "editSession" =>
       \E v \in S : v # None /\ v.sessions[q.session] # None

\* The history of a request goes on to the present.
Current(r) == request[r].slug # None => Stored(request[r].slug) \in seen[r]

Running ==
  /\ request \in [Requests -> Request]
  /\ \A r \in Requests :
       Flying(request[r]) /\ Remembers(request[r], seen[r]) /\ Current(r)

Inv == Tables /\ NoOrphans /\ SkillsDerived /\ Running
       /\ drawn \subseteq Sessions /\ asked \in 0..MaxRequests

-----------------------------------------------------------------------------
(* Rows and definitions                                                    *)

LEMMA SkillsAggregated ==
  ASSUME NEW ms \in Seq(ModuleIds)
  PROVE  AggregateSkills(ms) \in SUBSET Skills
<1>1. \A i \in DOMAIN ms : ms[i] \in ModuleIds
  BY ElementOfSeq, LenProperties
<1>2. \A m \in ModuleIds : SkillsOf[m] \subseteq Skills
  BY CatalogAssumption
<1>3. QED
  BY <1>1, <1>2 DEF AggregateSkills

LEMMA RowOfDefinition ==
  ASSUME NEW def \in Definition
  PROVE  /\ ToRow(def) \in CourseRow /\ ToRow(def) # None
         /\ ToRow(def).text = def.text
         /\ ToRow(def).skills = AggregateSkills(def.modules)
<1>1. def.text \in Texts /\ def.modules \in Seq(ModuleIds)
  BY DEF Definition
<1>2. AggregateSkills(def.modules) \in SUBSET Skills
  BY <1>1, SkillsAggregated
<1>3. QED
  BY <1>1, <1>2, CatalogAssumption DEF ToRow, CourseRow

LEMMA StoredType ==
  ASSUME Tables, NEW c \in Courses
  PROVE  /\ Stored(c) = StoredCourse(c)
         /\ course[c] = None => StoredCourse(c) = None
         /\ course[c] # None =>
              /\ StoredCourse(c) \in Course /\ StoredCourse(c) # None
              /\ StoredCourse(c) = [text |-> course[c].text, modules |-> modules[c],
                                    prereqs |-> prereqs[c], sessions |-> sessions[c],
                                    skills |-> AggregateSkills(modules[c])]
<1>1. c \notin Paths
  BY CatalogAssumption
<1>2. Stored(c) = StoredCourse(c) /\ (course[c] = None => StoredCourse(c) = None)
  BY <1>1 DEF Stored, StoredCourse
<1>3. ASSUME course[c] # None
      PROVE  /\ StoredCourse(c) \in Course
             /\ StoredCourse(c) = [text |-> course[c].text, modules |-> modules[c],
                                   prereqs |-> prereqs[c], sessions |-> sessions[c],
                                   skills |-> AggregateSkills(modules[c])]
  <2>1. course[c] \in CourseRow
    BY <1>3 DEF Tables
  <2>2. course[c].text \in Texts /\ modules[c] \in Seq(ModuleIds)
    BY <2>1 DEF CourseRow, Tables
  <2>3. AggregateSkills(modules[c]) \in SUBSET Skills
    BY <2>2, SkillsAggregated
  <2>4. QED
    BY <1>3, <2>2, <2>3 DEF Course, Tables, StoredCourse
<1>4. QED
  BY <1>2, <1>3, CatalogAssumption

LEMMA StoredPath ==
  ASSUME NEW p \in Paths
  PROVE  Stored(p) = path[p] /\ (There(p) <=> path[p] # None)
BY CatalogAssumption DEF Stored, There

-----------------------------------------------------------------------------
(* What a step makes of a request                                          *)

Turned(r) ==
  /\ request' \in [Requests -> Request]
  /\ \A d \in Requests : d # r => request'[d] = request[d]
  /\ Flying(request'[r]) /\ Remembers(request'[r], seen[r])

LEMMA TurnedInto ==
  ASSUME Running, NEW r \in Requests, NEW n, request' = [request EXCEPT ![r] = n],
         Flying(n), Remembers(n, seen[r])
  PROVE  Turned(r)
<1>1. n \in Request
  BY DEF Flying
<1>2. /\ request' \in [Requests -> Request] /\ request'[r] = n
      /\ \A d \in Requests : d # r => request'[d] = request[d]
  BY <1>1 DEF Running
<1>3. QED
  BY <1>2 DEF Turned

LEMMA RequestType ==
  ASSUME Running, NEW r \in Requests
  PROVE  /\ request[r] \in Request /\ Flying(request[r])
         /\ Remembers(request[r], seen[r]) /\ Current(r)
BY DEF Running

\* Complete definitions are drafts, too.
LEMMA DraftFacts ==
  /\ Definition \subseteq Draft /\ PathDefinition \subseteq PathDraft
  /\ Documents \subseteq Definition /\ PathDocuments \subseteq PathDefinition
  /\ Empty \in Draft /\ NoPath \in PathDraft
<1>1. Definition \subseteq Draft /\ PathDefinition \subseteq PathDraft
  BY DEF Definition, Draft, PathDefinition, PathDraft
<1>2. Empty \in Draft
  BY DEF Empty, NoSessions, Draft
<1>3. NoPath \in PathDraft
  BY DEF NoPath, PathDraft
<1>4. QED
  BY <1>1, <1>2, <1>3, CatalogAssumption

\* The request in the slot, a step further; with something read; or begun.
Passed(q, pc) == [q EXCEPT !.pc = pc]

Holding(q, pc, def) == [q EXCEPT !.pc = pc, !.def = def]

Begun(kind, pc, x, def, doc) ==
  [Idle EXCEPT !.pc = pc, !.kind = kind, !.slug = x, !.def = def, !.doc = doc]

Booked(kind, pc, c, s, x) ==
  [Idle EXCEPT !.pc = pc, !.kind = kind, !.slug = c, !.session = s, !.detail = x]

LEMMA PassedFields ==
  ASSUME NEW q \in Request, NEW pc \in PC
  PROVE  LET n == Passed(q, pc)
         IN  /\ n \in Request /\ n.pc = pc /\ n.kind = q.kind /\ n.slug = q.slug
             /\ n.def = q.def /\ n.doc = q.doc /\ n.session = q.session /\ n.detail = q.detail
BY DEF Passed, Request

LEMMA HoldingFields ==
  ASSUME NEW q \in Request, NEW pc \in PC, NEW def \in Draft \cup PathDraft
  PROVE  LET n == Holding(q, pc, def)
         IN  /\ n \in Request /\ n.pc = pc /\ n.kind = q.kind /\ n.slug = q.slug
             /\ n.def = def /\ n.doc = q.doc
BY DEF Holding, Request

LEMMA BegunFields ==
  ASSUME NEW kind \in Kinds, NEW pc \in PC, NEW x \in Courses \cup Paths,
         NEW def \in Draft \cup PathDraft, NEW doc \in Documents \cup {None}
  PROVE  LET n == Begun(kind, pc, x, def, doc)
         IN  /\ n \in Request /\ n.pc = pc /\ n.kind = kind /\ n.slug = x
             /\ n.def = def /\ n.doc = doc
BY DEF Begun, Idle, Request

LEMMA BookedFields ==
  ASSUME NEW kind \in Kinds, NEW pc \in PC, NEW c \in Courses, NEW s \in Sessions,
         NEW x \in Details
  PROVE  LET n == Booked(kind, pc, c, s, x)
         IN  /\ n \in Request /\ n.pc = pc /\ n.kind = kind /\ n.slug = c
             /\ n.session = s /\ n.detail = x
BY DEF Booked, Idle, Request

LEMMA IdleFlies == Flying(Idle) /\ \A S : Remembers(Idle, S)
<1>1. /\ Idle \in Request /\ Idle.pc = "idle" /\ Idle.slug = None
  BY DEF Idle, Request, PC
<1>2. QED
  BY <1>1 DEF Flying, Remembers, Edits

LEMMA EndTurns ==
  ASSUME Running, NEW r \in Requests, End(r)
  PROVE  Turned(r)
BY IdleFlies, TurnedInto DEF End

LEMMA StartTurns ==
  ASSUME Running, NEW r \in Requests, NEW kind \in Kinds, NEW x \in Courses \cup Paths,
         NEW pc \in {"count", "exists", "row"},
         NEW def \in Draft \cup PathDraft, NEW doc \in Documents \cup {None},
         Start(r, kind, pc, x, def, doc), Flying(Begun(kind, pc, x, def, doc))
  PROVE  Turned(r)
<1>1. request' = [request EXCEPT ![r] = Begun(kind, pc, x, def, doc)]
  BY DEF Start, Begun
<1>2. Begun(kind, pc, x, def, doc).pc = pc
  BY BegunFields DEF PC
<1>3. Remembers(Begun(kind, pc, x, def, doc), seen[r])
  BY <1>2 DEF Remembers, Edits
<1>4. QED
  BY <1>1, <1>3, TurnedInto

LEMMA BeginTurns ==
  ASSUME Running, NEW r \in Requests, Begin(r)
  PROVE  Turned(r)
<1> USE DraftFacts, CatalogAssumption
<1>1. ASSUME NEW x \in Courses \cup Paths, NEW def,
             \/ x \in Courses /\ def \in Documents
             \/ x \in Paths /\ def \in PathDocuments,
             CreateDefinition(r, x, def) \/ UpdateDefinition(r, x, def)
      PROVE  Turned(r)
  <2>1. /\ def \in Draft \cup PathDraft
        /\ \/ x \in Courses /\ def \in Definition
           \/ x \in Paths /\ def \in PathDefinition
    BY <1>1
  <2>2. CASE CreateDefinition(r, x, def)
    <3>1. "create" \in Kinds /\ "count" \in PC /\ "count" \in {"count", "exists", "row"}
      BY DEF Kinds, PC
    <3>2. Flying(Begun("create", "count", x, def, None))
      BY <2>1, <3>1, BegunFields DEF Flying, Whole, Edits, Imports
    <3>3. QED
      BY <2>1, <2>2, <3>1, <3>2, StartTurns DEF CreateDefinition
  <2>3. CASE UpdateDefinition(r, x, def)
    <3>1. "update" \in Kinds /\ "exists" \in PC /\ "exists" \in {"count", "exists", "row"}
      BY DEF Kinds, PC
    <3>2. Flying(Begun("update", "exists", x, def, None))
      BY <2>1, <3>1, BegunFields DEF Flying, Whole, Edits, Imports
    <3>3. QED
      BY <2>1, <2>3, <3>1, <3>2, StartTurns DEF UpdateDefinition
  <2>4. QED
    BY <1>1, <2>2, <2>3
<1>2. ASSUME NEW c \in Courses, NEW d \in Documents, NEW mode \in Imports,
             ImportMarkdown(r, c, mode, d)
      PROVE  Turned(r)
  <2>1. mode \in Kinds /\ "row" \in PC /\ "row" \in {"count", "exists", "row"}
    BY DEF Kinds, PC
  <2>2. Flying(Begun(mode, "row", c, Empty, d))
    BY <2>1, BegunFields DEF Flying, Edits
  <2>3. QED
    BY <1>2, <2>1, <2>2, StartTurns DEF ImportMarkdown
<1>3. ASSUME NEW p \in Paths, GetPathDefinition(r, p)
      PROVE  Turned(r)
  <2>1. "editPath" \in Kinds /\ "row" \in PC /\ "row" \in {"count", "exists", "row"}
    BY DEF Kinds, PC
  <2>2. Flying(Begun("editPath", "row", p, NoPath, None))
    BY <2>1, BegunFields DEF Flying, Edits, Imports
  <2>3. QED
    BY <1>3, <2>1, <2>2, StartTurns DEF GetPathDefinition
<1>4. ASSUME NEW c \in Courses, NEW s \in Sessions, NEW x \in Details,
             CreateSession(r, c, s, x) \/ UpdateSession(r, c, s, x)
      PROVE  Turned(r)
  <2>1. /\ "newSession" \in Kinds /\ "editSession" \in Kinds
        /\ "course" \in PC /\ "session" \in PC
    BY DEF Kinds, PC
  <2>2. CASE CreateSession(r, c, s, x)
    <3> DEFINE n == Booked("newSession", "course", c, s, x)
    <3>1. request' = [request EXCEPT ![r] = n]
      BY <2>2 DEF CreateSession, Booked
    <3>2. Flying(n) /\ Remembers(n, seen[r])
      BY <2>1, BookedFields DEF Flying, Remembers, Edits
    <3> HIDE DEF n
    <3>3. QED
      BY <3>1, <3>2, TurnedInto
  <2>3. CASE UpdateSession(r, c, s, x)
    <3> DEFINE n == Booked("editSession", "session", c, s, x)
    <3>1. request' = [request EXCEPT ![r] = n]
      BY <2>3 DEF UpdateSession, Booked
    <3>2. Flying(n) /\ Remembers(n, seen[r])
      BY <2>1, BookedFields DEF Flying, Remembers, Edits
    <3> HIDE DEF n
    <3>3. QED
      BY <3>1, <3>2, TurnedInto
  <2>4. QED
    BY <1>4, <2>2, <2>3
<1>5. QED
  BY <1>1, <1>2, <1>3, <1>4 DEF Begin

-----------------------------------------------------------------------------

LEMMA ThereStored ==
  ASSUME Tables, NEW x \in Courses \cup Paths
  PROVE  There(x) <=> Stored(x) # None
<1>1. CASE x \in Courses
  BY <1>1, StoredType DEF There
<1>2. CASE x \in Paths
  BY <1>2, StoredPath
<1>3. QED
  BY <1>1, <1>2

\* The request goes on with what it has.
LEMMA GotoTurns ==
  ASSUME Running, NEW r \in Requests, NEW pc \in PC, Goto(r, pc),
         Flying(Passed(request[r], pc)), Remembers(Passed(request[r], pc), seen[r])
  PROVE  Turned(r)
<1>1. request' = [request EXCEPT ![r] = Passed(request[r], pc)]
  BY DEF Goto, Passed
<1>2. QED
  BY <1>1, TurnedInto

\* A request that has something to do has been told of the present.
LEMMA Present ==
  ASSUME Running, NEW r \in Requests, request[r].pc # "idle"
  PROVE  /\ request[r].slug \in Courses \cup Paths
         /\ Stored(request[r].slug) \in seen[r]
BY DEF Running, Flying, Current, Request

LEMMA CheckTurns ==
  ASSUME Tables, Running, NEW r \in Requests, Count(r) \/ Exists(r)
  PROVE  Turned(r)
<1> DEFINE q == request[r]
           n == Passed(q, "write")
<1>1. /\ q \in Request /\ Flying(q) /\ q.slug \in Courses \cup Paths
      /\ Stored(q.slug) \in seen[r] /\ "write" \in PC
  BY RequestType, Present DEF Count, Exists, At, PC
<1>2. There(q.slug) <=> Stored(q.slug) # None
  BY <1>1, ThereStored
<1>3. /\ n \in Request /\ n.pc = "write" /\ n.kind = q.kind /\ n.slug = q.slug
      /\ n.def = q.def
  BY <1>1, PassedFields
<1> HIDE DEF n
<1>4. CASE Count(r) /\ ~There(q.slug)
  <2>1. q.pc = "count" /\ Goto(r, "write")
    BY <1>4 DEF Count, At
  <2>2. None \in seen[r]
    BY <1>1, <1>2, <1>4
  <2>3. Flying(n) /\ Remembers(n, seen[r])
    BY <1>1, <1>3, <2>1, <2>2 DEF Flying, Remembers, Whole, Edits
  <2>4. QED
    BY <1>1, <2>1, <2>3, GotoTurns DEF n
<1>5. CASE Exists(r) /\ There(q.slug)
  <2>1. q.pc = "exists" /\ Goto(r, "write")
    BY <1>5 DEF Exists, At
  <2>2. \E v \in seen[r] : v # None
    BY <1>1, <1>2, <1>5
  <2>3. Flying(n) /\ Remembers(n, seen[r])
    BY <1>1, <1>3, <2>1, <2>2 DEF Flying, Remembers, Whole, Edits, Imports
  <2>4. QED
    BY <1>1, <2>1, <2>3, GotoTurns DEF n
<1>6. QED
  BY <1>4, <1>5, EndTurns DEF Count, Exists

LEMMA RowTurns ==
  ASSUME Tables, Running, NEW r \in Requests, ReadRow(r)
  PROVE  Turned(r)
<1> DEFINE q == request[r]
<1>1. /\ q \in Request /\ Flying(q) /\ q.slug \in Courses /\ q.pc = "row"
      /\ Stored(q.slug) \in seen[r] /\ "count" \in PC /\ "modules" \in PC
  BY RequestType, Present DEF ReadRow, At, PC
<1>2. q.kind \in Imports /\ q.def = Empty /\ q.doc \in Documents
  BY <1>1, CatalogAssumption DEF Flying
<1>3. CASE q.kind = "add" /\ ~There(q.slug)
  <2> DEFINE n == Holding(q, "count", q.doc)
  <2>1. request' = [request EXCEPT ![r] = n]
    BY <1>3 DEF ReadRow, Holding
  <2>2. q.doc \in Definition
    BY <1>2, DraftFacts
  <2>3. /\ n \in Request /\ n.pc = "count" /\ n.kind = "add" /\ n.slug = q.slug
        /\ n.def = q.doc
    <3>1. q.doc \in Draft \cup PathDraft
      BY <2>2, DraftFacts
    <3> HIDE DEF q
    <3>2. QED
      BY <1>1, <1>3, <3>1, HoldingFields
  <2> HIDE DEF n
  <2>4. Flying(n) /\ Remembers(n, seen[r])
    BY <1>1, <2>2, <2>3, CatalogAssumption DEF Flying, Remembers, Whole, Edits
  <2>5. QED
    BY <2>1, <2>4, TurnedInto
<1>4. CASE q.kind # "add" /\ There(q.slug)
  <2> DEFINE v == Stored(q.slug)
             d == [Empty EXCEPT !.text = course[q.slug].text]
             n == Holding(q, "modules", d)
  <2>1. request' = [request EXCEPT ![r] = n]
    <3>1. request' = [request EXCEPT ![r] =
             [request[r] EXCEPT !.pc = "modules",
                                !.def = [q.def EXCEPT !.text = course[q.slug].text]]]
      <4>1. request' = [request EXCEPT ![r].pc = "modules",
                                       ![r].def.text = course[q.slug].text]
        BY <1>4 DEF ReadRow
      <4>2. request \in [Requests -> Request]
        BY DEF Running
      <4>3. QED
        BY <4>1, <4>2
    <3>2. QED
      BY <1>2, <3>1 DEF Holding
  <2>2. /\ v \in seen[r] /\ v # None /\ v.text = course[q.slug].text /\ v \in Course
    <3>1. course[q.slug] # None
      BY <1>1, <1>4 DEF There
    <3>2. QED
      BY <1>1, <3>1, StoredType
  <2>3. d \in Definition /\ d.text = v.text
    <3>1. v.text \in Texts
      BY <2>2 DEF Course
    <3>2. \A t : [Empty EXCEPT !.text = t] =
                  [text |-> t, modules |-> <<>>, prereqs |-> {}, sessions |-> NoSessions]
      BY SMTT(40) DEF Empty
    <3>3. NoSessions \in [Sessions -> Details \cup {None}]
      BY DEF NoSessions
    <3>4. d = [text |-> v.text, modules |-> <<>>, prereqs |-> {}, sessions |-> NoSessions]
      BY <2>2, <3>2
    <3> HIDE DEF d, v
    <3>5. QED
      BY <3>1, <3>3, <3>4 DEF Definition
  <2>4. /\ n \in Request /\ n.pc = "modules" /\ n.kind = q.kind /\ n.slug = q.slug
        /\ n.def = d /\ n.doc = q.doc
    <3>1. d \in Draft \cup PathDraft
      BY <2>3, DraftFacts
    <3> HIDE DEF d
    <3>2. QED
      BY <1>1, <3>1, HoldingFields
  <2> HIDE DEF n, d, v
  <2>5. Flying(n) /\ Remembers(n, seen[r])
    BY <1>1, <1>2, <1>4, <2>2, <2>3, <2>4, CatalogAssumption DEF Flying, Remembers, Edits
  <2>6. QED
    BY <2>1, <2>5, TurnedInto
<1>5. QED
  BY <1>3, <1>4, EndTurns DEF ReadRow

-----------------------------------------------------------------------------

\* A definition with other modules, prerequisites or sessions.
LEMMA DefinitionFields ==
  ASSUME NEW def \in Definition
  PROVE  /\ def.text \in Texts /\ def.modules \in Seq(ModuleIds) /\ def.prereqs \subseteq Courses
         /\ def.sessions \in [Sessions -> Details \cup {None}]
         /\ \A ms \in Seq(ModuleIds) :
              LET d == [def EXCEPT !.modules = ms]
              IN  d \in Definition /\ d.text = def.text /\ d.modules = ms
         /\ \A cs \in SUBSET Courses :
              LET d == [def EXCEPT !.prereqs = cs]
              IN  d \in Definition /\ d.text = def.text /\ d.modules = def.modules
         /\ \A ss \in [Sessions -> Details \cup {None}] :
              LET d == [def EXCEPT !.sessions = ss]
              IN  d \in Definition /\ d.text = def.text /\ d.modules = def.modules
BY DEF Definition

\* What a document makes of the course that is stored.
LEMMA MergedFields ==
  ASSUME NEW stored \in Definition, NEW doc \in Definition
  PROVE  /\ \A mode \in Imports \ {"add"} : MergeStored(mode, stored, doc) \in Definition
         /\ MergeStored("append", stored, doc).text = stored.text
         /\ MergeStored("append", stored, doc).modules = stored.modules \o doc.modules
         /\ MergeStored("replace", stored, doc).text = stored.text
<1> DEFINE more == stored.modules \o doc.modules
           only == doc.modules
<1>1. more \in Seq(ModuleIds) /\ only \in Seq(ModuleIds)
  BY DefinitionFields, ConcatProperties
<1>2. MergeStored("append", stored, doc) = [stored EXCEPT !.modules = more]
  BY DEF MergeStored
<1> HIDE DEF more
<1>3. MergeStored("replaceAll", stored, doc) = doc
  BY DEF MergeStored
<1>4. MergeStored("replace", stored, doc) = [stored EXCEPT !.modules = only]
  BY DEF MergeStored
<1> HIDE DEF only
<1>5. /\ MergeStored("append", stored, doc) \in Definition
      /\ MergeStored("append", stored, doc).text = stored.text
      /\ MergeStored("append", stored, doc).modules = more
  <2> DEFINE d == [stored EXCEPT !.modules = more]
  <2>1. d \in Definition /\ d.text = stored.text /\ d.modules = more
    BY <1>1, DefinitionFields
  <2> HIDE DEF d
  <2>2. QED
    BY <1>2, <2>1 DEF d
<1>6. /\ MergeStored("replace", stored, doc) \in Definition
      /\ MergeStored("replace", stored, doc).text = stored.text
  <2> DEFINE d == [stored EXCEPT !.modules = only]
  <2>1. d \in Definition /\ d.text = stored.text
    BY <1>1, DefinitionFields
  <2> HIDE DEF d
  <2>2. QED
    BY <1>4, <2>1 DEF d
<1>7. \A mode \in Imports \ {"add"} : mode \in {"append", "replaceAll", "replace"}
  BY DEF Imports
<1>8. QED
  BY <1>3, <1>5, <1>6, <1>7 DEF more

LEMMA ModulesStored ==
  ASSUME Tables, NoOrphans, NEW c \in Courses
  PROVE  modules[c] = ModulesIn(Stored(c))
<1>1. CASE course[c] = None
  BY <1>1, StoredType DEF NoOrphans, ModulesIn
<1>2. CASE course[c] # None
  <2> DEFINE v == StoredCourse(c)
  <2>1. v # None /\ v = [text |-> course[c].text, modules |-> modules[c],
                         prereqs |-> prereqs[c], sessions |-> sessions[c],
                         skills |-> AggregateSkills(modules[c])]
    BY <1>2, StoredType
  <2> HIDE DEF v
  <2>2. v.modules = modules[c]
    BY <2>1
  <2>3. QED
    BY <2>1, <2>2, StoredType DEF ModulesIn, v
<1>3. QED
  BY <1>1, <1>2

\* A request that reads what the course has in one of its tables.
LEMMA EditTurns ==
  ASSUME Running, NEW r \in Requests, request[r].pc \in Edits,
         NEW pc \in {"prereqs", "sessions", "write"}, NEW d \in Definition,
         request' = [request EXCEPT ![r] = Holding(request[r], pc, d)],
         request[r].kind \in {"append", "replace"} => d.text = request[r].def.text,
         request[r].kind = "append" /\ pc \in {"prereqs", "sessions"} =>
           \E v \in seen[r] : d.modules = ModulesIn(v),
         request[r].kind = "append" /\ pc = "write" =>
           \E v \in seen[r] : d.modules = ModulesIn(v) \o request[r].doc.modules
  PROVE  Turned(r)
<1> DEFINE q == request[r]
           n == Holding(q, pc, d)
<1>1. /\ q \in Request /\ Flying(q) /\ Remembers(q, seen[r])
      /\ pc \in PC /\ d \in Draft \cup PathDraft
  BY RequestType, DraftFacts DEF PC
<1>2. /\ q.slug \in Courses /\ q.kind \in Imports \ {"add"} /\ q.doc \in Documents
      /\ q.pc \in Edits
  BY <1>1 DEF Flying
<1>3. /\ n \in Request /\ n.pc = pc /\ n.kind = q.kind /\ n.slug = q.slug
      /\ n.def = d /\ n.doc = q.doc
  BY <1>1, HoldingFields
<1> HIDE DEF n
<1>4. Flying(n)
  BY <1>2, <1>3, CatalogAssumption DEF Flying, Edits, Whole
<1>5. Remembers(n, seen[r])
  <2>1. \E v \in seen[r] : v # None
    BY <1>1, <1>2 DEF Remembers
  <2>2. n.kind \in {"append", "replace"} => \E v \in seen[r] : v # None /\ v.text = n.def.text
    BY <1>1, <1>2, <1>3 DEF Remembers
  <2>3. n.kind \notin {"create", "add", "editSession"}
    BY <1>2, <1>3 DEF Imports
  <2>4. QED
    BY <1>3, <2>1, <2>2, <2>3 DEF Remembers, Edits
<1>6. QED
  BY <1>4, <1>5, TurnedInto DEF n

LEMMA ChildrenTurn ==
  ASSUME Tables, NoOrphans, Running, NEW r \in Requests,
         ReadModules(r) \/ ReadPrereqs(r) \/ ReadSessions(r)
  PROVE  Turned(r)
<1> DEFINE q == request[r]
           c == q.slug
<1>1. /\ q.pc \in Edits /\ q \in Request /\ Flying(q) /\ Remembers(q, seen[r])
      /\ Stored(c) \in seen[r] /\ request \in [Requests -> Request]
  BY RequestType, Present DEF ReadModules, ReadPrereqs, ReadSessions, At, Edits, Running
<1>2. /\ c \in Courses /\ q.def \in Definition /\ q.doc \in Definition
      /\ q.kind \in Imports \ {"add"}
  BY <1>1, DraftFacts DEF Flying
<1>3. /\ modules[c] \in Seq(ModuleIds) /\ prereqs[c] \in SUBSET Courses
      /\ sessions[c] \in [Sessions -> Details \cup {None}]
  BY <1>2 DEF Tables
<1>4. CASE ReadModules(r)
  <2> DEFINE d == [q.def EXCEPT !.modules = modules[c]]
  <2>1. /\ d \in Definition /\ d.text = q.def.text /\ d.modules = modules[c]
    BY <1>2, <1>3, DefinitionFields
  <2>2. request' = [request EXCEPT ![r].pc = "prereqs", ![r].def.modules = modules[c]]
    BY <1>4 DEF ReadModules
  <2>3. request' = [request EXCEPT ![r] =
           [request[r] EXCEPT !.pc = "prereqs", !.def = [q.def EXCEPT !.modules = modules[c]]]]
    BY <1>1, <2>2
  <2>4. request' = [request EXCEPT ![r] = Holding(q, "prereqs", d)]
    BY <2>3 DEF Holding
  <2>5. \E v \in seen[r] : d.modules = ModulesIn(v)
    BY <1>1, <1>2, <2>1, ModulesStored
  <2> HIDE DEF d
  <2>6. QED
    BY <1>1, <2>1, <2>4, <2>5, EditTurns
<1>5. CASE ReadPrereqs(r)
  <2> DEFINE d == [q.def EXCEPT !.prereqs = prereqs[c]]
  <2>1. /\ d \in Definition /\ d.text = q.def.text /\ d.modules = q.def.modules
    BY <1>2, <1>3, DefinitionFields
  <2>2. request' = [request EXCEPT ![r].pc = "sessions", ![r].def.prereqs = prereqs[c]]
    BY <1>5 DEF ReadPrereqs
  <2>3. request' = [request EXCEPT ![r] =
           [request[r] EXCEPT !.pc = "sessions", !.def = [q.def EXCEPT !.prereqs = prereqs[c]]]]
    BY <1>1, <2>2
  <2>4. request' = [request EXCEPT ![r] = Holding(q, "sessions", d)]
    BY <2>3 DEF Holding
  <2>5. q.kind = "append" => \E v \in seen[r] : d.modules = ModulesIn(v)
    BY <1>1, <1>5, <2>1 DEF Remembers, ReadPrereqs, At
  <2> HIDE DEF d
  <2>6. QED
    BY <1>1, <2>1, <2>4, <2>5, EditTurns
<1>6. CASE ReadSessions(r)
  <2> DEFINE stored == [q.def EXCEPT !.sessions = sessions[c]]
             d == MergeStored(q.kind, stored, q.doc)
  <2>1. /\ stored \in Definition /\ stored.text = q.def.text /\ stored.modules = q.def.modules
    BY <1>2, <1>3, DefinitionFields
  <2>2. request' = [request EXCEPT ![r].pc = "write", ![r].def = d]
    BY <1>6 DEF ReadSessions
  <2> HIDE DEF stored
  <2>3. /\ d \in Definition
        /\ q.kind \in {"append", "replace"} => d.text = q.def.text
        /\ q.kind = "append" => d.modules = q.def.modules \o q.doc.modules
    BY <1>2, <2>1, MergedFields, ZenonT(60)
  <2> HIDE DEF d
  <2>4. request' = [request EXCEPT ![r] = Holding(q, "write", d)]
    BY <1>1, <2>2 DEF Holding
  <2>5. q.kind = "append" => \E v \in seen[r] : d.modules = ModulesIn(v) \o q.doc.modules
    BY <1>1, <1>6, <2>3 DEF Remembers, ReadSessions, At
  <2>6. QED
    BY <1>1, <2>3, <2>4, <2>5, EditTurns
<1>7. QED
  BY <1>4, <1>5, <1>6

-----------------------------------------------------------------------------

LEMMA PathDefinitionFields ==
  ASSUME NEW def \in PathDefinition
  PROVE  /\ def.text \in Texts /\ def.kind \in {"course", "skill"}
         /\ def.courses \in Seq(Courses) /\ def.skills \subseteq Skills
         /\ \A cs \in Seq(Courses) : [def EXCEPT !.courses = cs] \in PathDefinition
         /\ \A ks \in SUBSET Skills : [def EXCEPT !.skills = ks] \in PathDefinition
BY DEF PathDefinition

\* The admin's form holds the path as far as it has been read.
LEMMA PathEditTurns ==
  ASSUME Running, NEW r \in Requests, request[r].slug \in Paths, request[r].kind = "editPath",
         NEW pc \in {"courses", "skills", "edit", "exists"}, NEW d \in PathDefinition,
         request' = [request EXCEPT ![r] = Holding(request[r], pc, d)]
  PROVE  Turned(r)
<1> DEFINE q == request[r]
           n == Holding(q, pc, d)
<1>1. q \in Request /\ pc \in PC /\ d \in Draft \cup PathDraft
  BY RequestType, DraftFacts DEF PC
<1>2. /\ n \in Request /\ n.pc = pc /\ n.kind = q.kind /\ n.slug = q.slug /\ n.def = d
  BY <1>1, HoldingFields
<1> HIDE DEF n
<1>3. Flying(n) /\ Remembers(n, seen[r])
  BY <1>2, CatalogAssumption DEF Flying, Remembers, Whole, Edits, Imports
<1>4. QED
  BY <1>3, TurnedInto DEF n

LEMMA PathRowTurns ==
  ASSUME Tables, Running, NEW r \in Requests, ReadPathRow(r)
  PROVE  Turned(r)
<1> DEFINE q == request[r]
           p == q.slug
           d == [text |-> path[p].text, kind |-> path[p].kind, courses |-> <<>>, skills |-> {}]
<1>1. /\ p \in Paths /\ q.pc = "row" /\ Flying(q) /\ q \in Request
      /\ request \in [Requests -> Request]
  BY RequestType DEF ReadPathRow, At, Running
<1>2. q.def = NoPath /\ q.kind = "editPath"
  BY <1>1, CatalogAssumption DEF Flying
<1>3. CASE There(p)
  <2>1. path[p] \in PathDefinition
    BY <1>1, <1>3, StoredPath DEF Tables
  <2>2. d \in PathDefinition
    <3>1. path[p].text \in Texts /\ path[p].kind \in {"course", "skill"}
      BY <2>1, PathDefinitionFields
    <3>2. QED
      BY <3>1 DEF PathDefinition
  <2>3. request' = [request EXCEPT ![r].pc = "courses", ![r].def.text = path[p].text,
                                   ![r].def.kind = path[p].kind]
    BY <1>3 DEF ReadPathRow
  <2>4. request' = [request EXCEPT ![r] =
          [request[r] EXCEPT !.pc = "courses",
             !.def = [q.def EXCEPT !.text = path[p].text, !.kind = path[p].kind]]]
    BY <1>1, <2>3
  <2>5. \A t, k : [NoPath EXCEPT !.text = t, !.kind = k] =
                    [text |-> t, kind |-> k, courses |-> <<>>, skills |-> {}]
    <3> TAKE t, k
    <3> DEFINE e == [NoPath EXCEPT !.text = t, !.kind = k]
    <3>1. /\ e = [x \in {"text", "kind", "courses", "skills"} |-> e[x]]
          /\ e.text = t /\ e.kind = k /\ e.courses = <<>> /\ e.skills = {}
      BY DEF NoPath
    <3> HIDE DEF e
    <3>2. e = [text |-> t, kind |-> k, courses |-> <<>>, skills |-> {}]
      BY <3>1
    <3>3. QED
      BY <3>2 DEF e
  <2>6. [q.def EXCEPT !.text = path[p].text, !.kind = path[p].kind] = d
    BY <1>2, <2>5
  <2> HIDE DEF d
  <2>7. request' = [request EXCEPT ![r] = Holding(q, "courses", d)]
    BY <2>4, <2>6 DEF Holding
  <2>8. QED
    BY <1>1, <1>2, <2>2, <2>7, PathEditTurns
<1>4. QED
  BY <1>3, EndTurns DEF ReadPathRow

LEMMA PathMembersTurn ==
  ASSUME Tables, Running, NEW r \in Requests,
         \/ ReadPathCourses(r) \/ ReadPathSkills(r)
         \/ \E e \in PathDocuments : SavePath(r, e.courses)
  PROVE  Turned(r)
<1> DEFINE q == request[r]
           p == q.slug
<1>1. /\ Flying(q) /\ q.pc \in {"courses", "skills", "edit"}
      /\ request \in [Requests -> Request]
  BY RequestType DEF ReadPathCourses, ReadPathSkills, SavePath, At, Running
<1>2. p \in Paths /\ q.kind = "editPath" /\ q.def \in PathDefinition
  BY <1>1 DEF Flying
<1>3. There(p) => path[p] \in PathDefinition
  BY <1>2, StoredPath DEF Tables
<1>4. ASSUME NEW pc \in {"skills", "exists"}, NEW cs \in Seq(Courses),
             request' = [request EXCEPT ![r].pc = pc, ![r].def.courses = cs]
      PROVE  Turned(r)
  <2> DEFINE d == [q.def EXCEPT !.courses = cs]
  <2>1. request' = [request EXCEPT ![r] =
          [request[r] EXCEPT !.pc = pc, !.def = [q.def EXCEPT !.courses = cs]]]
    BY <1>1, <1>4
  <2>2. request' = [request EXCEPT ![r] = Holding(q, pc, d)]
    BY <2>1 DEF Holding
  <2>3. d \in PathDefinition
    BY <1>2, PathDefinitionFields
  <2> HIDE DEF d
  <2>4. QED
    BY <1>2, <2>2, <2>3, PathEditTurns
<1>5. CASE ReadPathCourses(r)
  <2> DEFINE cs == IF There(p) THEN path[p].courses ELSE <<>>
  <2>1. cs \in Seq(Courses)
    BY <1>3, PathDefinitionFields
  <2>2. request' = [request EXCEPT ![r].pc = "skills", ![r].def.courses = cs]
    BY <1>5 DEF ReadPathCourses
  <2> HIDE DEF cs
  <2>3. QED
    BY <1>4, <2>1, <2>2
<1>6. CASE ReadPathSkills(r)
  <2> DEFINE ks == IF There(p) THEN path[p].skills ELSE {}
             d == [q.def EXCEPT !.skills = ks]
  <2>1. ks \in SUBSET Skills
    BY <1>3, PathDefinitionFields
  <2>2. request' = [request EXCEPT ![r].pc = "edit", ![r].def.skills = ks]
    BY <1>6 DEF ReadPathSkills
  <2> HIDE DEF ks
  <2>3. request' = [request EXCEPT ![r] =
          [request[r] EXCEPT !.pc = "edit", !.def = [q.def EXCEPT !.skills = ks]]]
    BY <1>1, <2>2
  <2>4. request' = [request EXCEPT ![r] = Holding(q, "edit", d)]
    BY <2>3 DEF Holding
  <2>5. d \in PathDefinition
    BY <1>2, <2>1, PathDefinitionFields
  <2> HIDE DEF d
  <2>6. QED
    BY <1>2, <2>4, <2>5, PathEditTurns
<1>7. ASSUME NEW e \in PathDocuments, SavePath(r, e.courses)
      PROVE  Turned(r)
  <2>1. e.courses \in Seq(Courses)
    BY DraftFacts, PathDefinitionFields
  <2>2. request' = [request EXCEPT ![r].pc = "exists", ![r].def.courses = e.courses]
    BY <1>7 DEF SavePath
  <2>3. QED
    BY <1>4, <2>1, <2>2
<1>8. QED
  BY <1>5, <1>6, <1>7

LEMMA SessionTurns ==
  ASSUME Tables, NoOrphans, Running, NEW r \in Requests, SessionExists(r) \/ CourseExists(r)
  PROVE  Turned(r)
<1> DEFINE q == request[r]
           n(pc) == Passed(q, pc)
<1>1. /\ q \in Request /\ Flying(q) /\ Remembers(q, seen[r]) /\ Stored(q.slug) \in seen[r]
      /\ q.pc \in {"session", "course"} /\ "course" \in PC /\ "put" \in PC
  BY RequestType, Present DEF SessionExists, CourseExists, At, PC
<1>2. /\ q.slug \in Courses /\ q.session \in Sessions /\ q.detail \in Details
      /\ q.kind \in {"newSession", "editSession"}
  BY <1>1 DEF Flying
<1>3. \A pc \in PC :
        /\ n(pc) \in Request /\ n(pc).pc = pc /\ n(pc).kind = q.kind /\ n(pc).slug = q.slug
        /\ n(pc).session = q.session /\ n(pc).detail = q.detail
  BY <1>1, PassedFields
<1> HIDE DEF n
<1>4. ASSUME NEW pc \in {"course", "put"},
             q.kind = "editSession" => \E v \in seen[r] : v # None /\ v.sessions[q.session] # None
      PROVE  Flying(n(pc)) /\ Remembers(n(pc), seen[r])
  BY <1>1, <1>2, <1>3, <1>4, CatalogAssumption DEF Flying, Remembers, Edits
<1>5. CASE SessionExists(r) /\ sessions[q.slug][q.session] # None
  <2> DEFINE v == StoredCourse(q.slug)
  <2>1. course[q.slug] # None
    BY <1>2, <1>5 DEF NoOrphans, NoSessions
  <2>2. /\ v \in seen[r] /\ v # None
        /\ v = [text |-> course[q.slug].text, modules |-> modules[q.slug],
                prereqs |-> prereqs[q.slug], sessions |-> sessions[q.slug],
                skills |-> AggregateSkills(modules[q.slug])]
    BY <1>1, <1>2, <2>1, StoredType
  <2> HIDE DEF v
  <2>3. v.sessions = sessions[q.slug]
    BY <2>2
  <2>4. Goto(r, "course")
    BY <1>5 DEF SessionExists
  <2>5. Flying(n("course")) /\ Remembers(n("course"), seen[r])
    BY <1>4, <1>5, <2>2, <2>3
  <2>6. QED
    BY <1>1, <2>4, <2>5, GotoTurns DEF n
<1>6. CASE CourseExists(r) /\ There(q.slug)
  <2>1. Goto(r, "put") /\ q.pc = "course"
    BY <1>6 DEF CourseExists, At
  <2>2. Flying(n("put")) /\ Remembers(n("put"), seen[r])
    BY <1>1, <1>4, <2>1 DEF Remembers
  <2>3. QED
    BY <1>1, <2>1, <2>2, GotoTurns DEF n
<1>7. QED
  BY <1>5, <1>6, EndTurns DEF SessionExists, CourseExists

LEMMA StepTurns ==
  ASSUME Tables, NoOrphans, Running, NEW r \in Requests, Step(r)
  PROVE  Turned(r)
<1>1. CASE Write(r) \/ PutSession(r) \/ Fails(r)
  BY <1>1, EndTurns DEF Write, PutSession, Fails
<1>2. CASE \/ Count(r) \/ Exists(r) \/ ReadRow(r)
           \/ ReadModules(r) \/ ReadPrereqs(r) \/ ReadSessions(r)
  BY <1>2, CheckTurns, RowTurns, ChildrenTurn
<1>3. CASE \/ ReadPathRow(r) \/ ReadPathCourses(r) \/ ReadPathSkills(r)
           \/ \E d \in PathDocuments : SavePath(r, d.courses)
  BY <1>3, PathRowTurns, PathMembersTurn
<1>4. CASE SessionExists(r) \/ CourseExists(r)
  BY <1>4, SessionTurns
<1>5. QED
  BY <1>1, <1>2, <1>3, <1>4 DEF Step

-----------------------------------------------------------------------------

LEMMA RemembersMore ==
  ASSUME NEW q, NEW S, NEW T, S \subseteq T, Remembers(q, S)
  PROVE  Remembers(q, T)
BY DEF Remembers

LEMMA TrackedNow ==
  ASSUME Track, NEW d \in Requests, request'[d].slug \in Courses \cup Paths,
         request'[d].slug # None
  PROVE  Current(d)' /\ seen[d] \subseteq seen'[d]
<1>1. seen'[d] = seen[d] \cup {Snapshot'[request'[d].slug]}
  BY DEF Track
<1>2. Snapshot'[request'[d].slug] =
        IF request'[d].slug \in Paths THEN path'[request'[d].slug]
        ELSE IF course'[request'[d].slug] = None THEN None
        ELSE [text |-> course'[request'[d].slug].text, modules |-> modules'[request'[d].slug],
              prereqs |-> prereqs'[request'[d].slug], sessions |-> sessions'[request'[d].slug],
              skills |-> AggregateSkills(modules'[request'[d].slug])]
  BY DEF Snapshot, Stored, StoredCourse
<1>3. QED
  BY <1>1, <1>2 DEF Current, Stored, StoredCourse

LEMMA RunningStep ==
  ASSUME Tables, NoOrphans, Running, Next
  PROVE  Running'
<1>1. \/ \E r \in Requests : Turned(r)
      \/ request' = request
  BY StepTurns, BeginTurns DEF Next, Remove, DeleteCourse, DeleteSession, DeletePath
<1>2. request' \in [Requests -> Request]
  BY <1>1 DEF Turned, Running
<1>3. \A d \in Requests : Flying(request'[d]) /\ Remembers(request'[d], seen[d])
  BY <1>1 DEF Turned, Running
<1>4. ASSUME NEW d \in Requests
      PROVE  Remembers(request'[d], seen'[d]) /\ Current(d)'
  <2>1. CASE request'[d].slug = None
    <3>1. request'[d].pc = "idle"
      BY <1>3, <2>1 DEF Flying
    <3>2. Remembers(request'[d], seen'[d])
      BY <3>1 DEF Remembers, Edits
    <3>3. Current(d)'
      BY <2>1 DEF Current
    <3>4. QED
      BY <3>2, <3>3
  <2>2. CASE request'[d].slug # None
    <3>1. request'[d].slug \in Courses \cup Paths
      BY <1>2, <2>2 DEF Request
    <3>2. Track
      BY DEF Next
    <3>3. QED
      BY <1>3, <2>2, <3>1, <3>2, TrackedNow, RemembersMore
  <2>3. QED
    BY <2>1, <2>2
<1>5. QED
  BY <1>2, <1>3, <1>4 DEF Running

-----------------------------------------------------------------------------
(* What a step makes of the tables                                         *)

SessionSet(c, s, x) ==
  /\ course[c] # None
  /\ sessions' = [sessions EXCEPT ![c][s] = x]
  /\ UNCHANGED <<course, modules, prereqs, path>>

Dropped(c) ==
  /\ course[c] # None
  /\ course' = [course EXCEPT ![c] = None]
  /\ modules' = [modules EXCEPT ![c] = <<>>]
  /\ prereqs' = [prereqs EXCEPT ![c] = {}]
  /\ sessions' = [sessions EXCEPT ![c] = NoSessions]
  /\ UNCHANGED path

PathDropped(p) ==
  /\ path[p] # None
  /\ path' = [path EXCEPT ![p] = None]
  /\ UNCHANGED <<course, modules, prereqs, sessions>>

\* The tables' part of a step of r, and of a removal.
Changes(r) ==
  LET q == request[r] IN
  \/ /\ q.pc = "write"
     /\ \/ q.slug \in Courses /\ q.def \in Definition /\ Upsert(q.slug, q.def)
        \/ q.slug \in Paths /\ q.def \in PathDefinition /\ UpsertPath(q.slug, q.def)
  \/ /\ q.pc = "put" /\ q.slug \in Courses /\ q.session \in Sessions /\ q.detail \in Details
     /\ SessionSet(q.slug, q.session, q.detail)

Removes ==
  \/ \E c \in Courses : Dropped(c)
  \/ \E c \in Courses, s \in Sessions : sessions[c][s] # None /\ SessionSet(c, s, None)
  \/ \E p \in Paths : PathDropped(p)

LEMMA StepKinds ==
  ASSUME Tables, NoOrphans, Running, NEW r \in Requests, Step(r)
  PROVE  UNCHANGED tables \/ Changes(r)
<1> DEFINE q == request[r]
<1>1. Flying(q)
  BY RequestType
<1>2. CASE Write(r)
  <2>1. /\ q.pc = "write"
        /\ IF q.slug \in Courses THEN Upsert(q.slug, q.def) ELSE UpsertPath(q.slug, q.def)
    BY <1>2 DEF Write, At
  <2>2. \/ q.slug \in Courses /\ q.def \in Definition
        \/ q.slug \in Paths /\ q.slug \notin Courses /\ q.def \in PathDefinition
    BY <1>1, <2>1, CatalogAssumption DEF Flying, Whole
  <2>3. QED
    BY <2>1, <2>2 DEF Changes
<1>3. CASE PutSession(r)
  <2>1. /\ q.pc = "put" /\ UNCHANGED <<course, modules, prereqs, path>>
        /\ IF There(q.slug) THEN sessions' = [sessions EXCEPT ![q.slug][q.session] = q.detail]
                            ELSE UNCHANGED sessions
    BY <1>3 DEF PutSession, At
  <2>2. q.slug \in Courses /\ q.session \in Sessions /\ q.detail \in Details
    BY <1>1, <2>1 DEF Flying
  <2>3. QED
    BY <2>1, <2>2 DEF Changes, SessionSet, There, tables
<1>4. CASE ~Write(r) /\ ~PutSession(r)
  BY <1>4 DEF Step, Count, Exists, ReadRow, ReadModules, ReadPrereqs, ReadSessions, ReadPathRow,
              ReadPathCourses, ReadPathSkills, SavePath, SessionExists, CourseExists, Fails,
              Reads, tables
<1>5. QED
  BY <1>2, <1>3, <1>4

LEMMA BeginKinds ==
  ASSUME NEW r \in Requests, Begin(r)
  PROVE  UNCHANGED tables
BY DEF Begin, CreateDefinition, UpdateDefinition, ImportMarkdown, GetPathDefinition, Start,
       CreateSession, UpdateSession

LEMMA RemoveKinds ==
  ASSUME Tables, NoOrphans, Remove
  PROVE  Removes /\ request' = request
<1>1. ASSUME NEW c \in Courses, DeleteCourse(c)
      PROVE  Dropped(c) /\ request' = request
  BY <1>1 DEF DeleteCourse, There, Dropped
<1>2. ASSUME NEW c \in Courses, NEW s \in Sessions, DeleteSession(c, s)
      PROVE  sessions[c][s] # None /\ SessionSet(c, s, None) /\ request' = request
  <2>1. course[c] # None
    BY <1>2 DEF DeleteSession, NoOrphans, NoSessions
  <2>2. QED
    BY <1>2, <2>1 DEF DeleteSession, SessionSet
<1>3. ASSUME NEW p \in Paths, DeletePath(p)
      PROVE  PathDropped(p) /\ request' = request
  BY <1>3, StoredPath DEF DeletePath, PathDropped
<1>4. QED
  BY <1>1, <1>2, <1>3 DEF Remove, Removes

LEMMA TableSteps ==
  ASSUME Tables, NoOrphans, Running, Next
  PROVE  \/ UNCHANGED tables
         \/ \E r \in Requests : Changes(r) /\ Turned(r)
         \/ Removes /\ request' = request
<1>1. CASE \E r \in Requests : Step(r) \/ Begin(r)
  <2>1. PICK r \in Requests : Step(r) \/ Begin(r)
    BY <1>1
  <2>2. CASE Step(r)
    BY <2>2, StepKinds, StepTurns
  <2>3. CASE Begin(r)
    BY <2>3, BeginKinds
  <2>4. QED
    BY <2>1, <2>2, <2>3
<1>2. CASE Remove
  BY <1>2, RemoveKinds
<1>3. QED
  BY <1>1, <1>2 DEF Next

-----------------------------------------------------------------------------
(* The tables                                                              *)

Sound == Tables /\ NoOrphans /\ SkillsDerived

\* The rows of all courses but c stay.
Elsewhere(c) ==
  \A d \in Courses : d # c =>
    /\ course'[d] = course[d] /\ modules'[d] = modules[d]
    /\ prereqs'[d] = prereqs[d] /\ sessions'[d] = sessions[d]

\* A course's rows that may stand beside the others.
SoundAt(c) ==
  /\ course'[c] \in CourseRow \cup {None} /\ modules'[c] \in Seq(ModuleIds)
  /\ prereqs'[c] \subseteq Courses /\ sessions'[c] \in [Sessions -> Details \cup {None}]
  /\ course'[c] = None =>
       modules'[c] = <<>> /\ prereqs'[c] = {} /\ sessions'[c] = NoSessions
  /\ course'[c] # None => course'[c].skills = AggregateSkills(modules'[c])

LEMMA UpsertRows ==
  ASSUME Sound, NEW c \in Courses, NEW def \in Definition, Upsert(c, def)
  PROVE  /\ Elsewhere(c) /\ SoundAt(c) /\ path' = path
         /\ course'[c] = ToRow(def) /\ course'[c] # None
         /\ modules'[c] = def.modules /\ prereqs'[c] = def.prereqs
         /\ \A s \in Sessions : sessions'[c][s] =
              IF def.sessions[s] # None THEN def.sessions[s] ELSE sessions[c][s]
<1> DEFINE row == ToRow(def)
           put == [s \in Sessions |->
                     IF def.sessions[s] # None THEN def.sessions[s] ELSE sessions[c][s]]
<1>1. /\ course \in [Courses -> CourseRow \cup {None}]
      /\ modules \in [Courses -> Seq(ModuleIds)]
      /\ prereqs \in [Courses -> SUBSET Courses]
      /\ sessions \in [Courses -> [Sessions -> Details \cup {None}]]
  BY DEF Sound, Tables
<1>2. /\ course' = [course EXCEPT ![c] = row]
      /\ modules' = [modules EXCEPT ![c] = def.modules]
      /\ prereqs' = [prereqs EXCEPT ![c] = def.prereqs]
      /\ sessions' = [sessions EXCEPT ![c] = put]
      /\ path' = path
  BY DEF Upsert, ReplaceChildren
<1>3. put \in [Sessions -> Details \cup {None}]
  BY <1>1, DefinitionFields
<1>4. \A s \in Sessions : put[s] =
        IF def.sessions[s] # None THEN def.sessions[s] ELSE sessions[c][s]
  OBVIOUS
<1>5. /\ row \in CourseRow /\ row # None /\ row.skills = AggregateSkills(def.modules)
      /\ def.modules \in Seq(ModuleIds) /\ def.prereqs \subseteq Courses
  BY RowOfDefinition, DefinitionFields
<1> HIDE DEF row, put
<1>6. Elsewhere(c)
  BY <1>1, <1>2 DEF Elsewhere
<1>7. /\ course'[c] = row /\ modules'[c] = def.modules /\ prereqs'[c] = def.prereqs
      /\ sessions'[c] = put
  BY <1>1, <1>2
<1>8. SoundAt(c)
  BY <1>3, <1>5, <1>7 DEF SoundAt
<1>9. QED
  BY <1>2, <1>4, <1>5, <1>6, <1>7, <1>8 DEF row

LEMMA SessionSetRows ==
  ASSUME Sound, NEW c \in Courses, NEW s \in Sessions, NEW x \in Details \cup {None},
         SessionSet(c, s, x)
  PROVE  /\ Elsewhere(c) /\ SoundAt(c) /\ path' = path
         /\ course'[c] = course[c] /\ course[c] # None
         /\ modules'[c] = modules[c] /\ prereqs'[c] = prereqs[c]
         /\ sessions'[c] = [sessions[c] EXCEPT ![s] = x]
<1> DEFINE put == [sessions[c] EXCEPT ![s] = x]
<1>1. /\ sessions \in [Courses -> [Sessions -> Details \cup {None}]]
      /\ course[c] \in CourseRow \cup {None} /\ modules[c] \in Seq(ModuleIds)
      /\ prereqs[c] \subseteq Courses
  BY DEF Sound, Tables
<1>2. /\ sessions' = [sessions EXCEPT ![c] = put] /\ course[c] # None
      /\ UNCHANGED <<course, modules, prereqs, path>>
  BY DEF SessionSet
<1>3. put \in [Sessions -> Details \cup {None}]
  BY <1>1
<1> HIDE DEF put
<1>4. sessions'[c] = put /\ Elsewhere(c)
  BY <1>1, <1>2 DEF Elsewhere
<1>5. SoundAt(c)
  BY <1>1, <1>2, <1>3, <1>4 DEF SoundAt, Sound, SkillsDerived
<1>6. QED
  BY <1>2, <1>4, <1>5 DEF put

LEMMA DroppedRows ==
  ASSUME Sound, NEW c \in Courses, Dropped(c)
  PROVE  /\ Elsewhere(c) /\ SoundAt(c) /\ path' = path
         /\ course[c] # None /\ course'[c] = None /\ sessions'[c] = NoSessions
<1>1. /\ course \in [Courses -> CourseRow \cup {None}]
      /\ modules \in [Courses -> Seq(ModuleIds)]
      /\ prereqs \in [Courses -> SUBSET Courses]
      /\ sessions \in [Courses -> [Sessions -> Details \cup {None}]]
  BY DEF Sound, Tables
<1>2. /\ course'[c] = None /\ modules'[c] = <<>> /\ prereqs'[c] = {}
      /\ sessions'[c] = NoSessions
  BY <1>1 DEF Dropped
<1>3. Elsewhere(c)
  BY <1>1 DEF Dropped, Elsewhere
<1>4. NoSessions \in [Sessions -> Details \cup {None}] /\ <<>> \in Seq(ModuleIds)
  BY DEF NoSessions
<1>5. SoundAt(c)
  BY <1>2, <1>4 DEF SoundAt
<1>6. QED
  BY <1>2, <1>3, <1>5 DEF Dropped

\* The tables still are functions of the courses.
Shapes ==
  /\ DOMAIN course' = Courses /\ course' = [c \in Courses |-> course'[c]]
  /\ modules' = [c \in Courses |-> modules'[c]] /\ prereqs' = [c \in Courses |-> prereqs'[c]]
  /\ sessions' = [c \in Courses |-> sessions'[c]]

LEMMA ShapesStep ==
  ASSUME Tables, \/ \E c \in Courses : \E def : Upsert(c, def)
                 \/ \E c \in Courses : \E s, x : SessionSet(c, s, x)
                 \/ \E c \in Courses : Dropped(c)
  PROVE  Shapes
BY DEF Tables, Upsert, ReplaceChildren, SessionSet, Dropped, Shapes

LEMMA SoundElsewhere ==
  ASSUME Sound, NEW c \in Courses, Elsewhere(c), SoundAt(c), path' = path, Shapes
  PROVE  Sound'
<1>1. ASSUME NEW d \in Courses
      PROVE  SoundAt(d)
  BY <1>1 DEF Elsewhere, SoundAt, Sound, Tables, NoOrphans, SkillsDerived
<1>2. Tables'
  <2>1. path' \in [Paths -> PathDefinition \cup {None}]
    BY DEF Sound, Tables
  <2>2. QED
    BY <1>1, <2>1 DEF Shapes, SoundAt, Tables
<1>3. NoOrphans' /\ SkillsDerived'
  BY <1>1 DEF SoundAt, NoOrphans, SkillsDerived
<1>4. QED
  BY <1>2, <1>3 DEF Sound

LEMMA PathRows ==
  ASSUME Sound, NEW p \in Paths, NEW def \in PathDefinition \cup {None},
         path' = [path EXCEPT ![p] = def],
         UNCHANGED <<course, modules, prereqs, sessions>>
  PROVE  Sound'
<1>1. Tables'
  BY DEF Sound, Tables
<1>2. NoOrphans' /\ SkillsDerived'
  BY DEF Sound, NoOrphans, SkillsDerived
<1>3. QED
  BY <1>1, <1>2 DEF Sound

\* Every change to the tables keeps them sound.
LEMMA SoundStep ==
  ASSUME Sound, UNCHANGED tables \/ (\E r \in Requests : Changes(r)) \/ Removes
  PROVE  Sound'
<1>1. CASE UNCHANGED tables
  BY <1>1 DEF tables, Sound, Tables, NoOrphans, SkillsDerived
<1>2. ASSUME NEW r \in Requests, Changes(r)
      PROVE  Sound'
  <2> DEFINE q == request[r]
  <2>1. CASE q.slug \in Courses /\ q.def \in Definition /\ Upsert(q.slug, q.def)
    <3> HIDE DEF q
    <3>1. QED
      BY <2>1, UpsertRows, ShapesStep, SoundElsewhere DEF Sound
  <2>2. CASE q.slug \in Paths /\ q.def \in PathDefinition /\ UpsertPath(q.slug, q.def)
    <3> HIDE DEF q
    <3>1. QED
      BY <2>2, PathRows DEF UpsertPath
  <2>3. CASE /\ q.slug \in Courses /\ q.session \in Sessions /\ q.detail \in Details
             /\ SessionSet(q.slug, q.session, q.detail)
    <3> HIDE DEF q
    <3>1. QED
      BY <2>3, SessionSetRows, ShapesStep, SoundElsewhere DEF Sound
  <2>4. QED
    BY <1>2, <2>1, <2>2, <2>3 DEF Changes
<1>3. CASE Removes
  <2>1. ASSUME NEW c \in Courses, Dropped(c)
        PROVE  Sound'
    BY <2>1, DroppedRows, ShapesStep, SoundElsewhere DEF Sound
  <2>2. ASSUME NEW c \in Courses, NEW s \in Sessions, SessionSet(c, s, None)
        PROVE  Sound'
    BY <2>2, SessionSetRows, ShapesStep, SoundElsewhere DEF Sound
  <2>3. ASSUME NEW p \in Paths, PathDropped(p)
        PROVE  Sound'
    BY <2>3, PathRows DEF PathDropped
  <2>4. QED
    BY <1>3, <2>1, <2>2, <2>3 DEF Removes
<1>4. QED
  BY <1>1, <1>2, <1>3

-----------------------------------------------------------------------------
(* The catalogue is the in-memory one                                      *)

\* Deriving the skills of a course again leaves it as it is.
LEMMA DerivedAgain ==
  ASSUME NEW v \in Course, v.skills = AggregateSkills(v.modules)
  PROVE  [v EXCEPT !.skills = Store!AggregateSkills(v.modules)] = v
<1>1. Store!AggregateSkills(v.modules) = v.skills
  BY DEF Store!AggregateSkills, AggregateSkills
<1>2. QED
  BY <1>1 DEF Course

\* What the rows are shown as.
ShownRight ==
  \A c \in Courses :
    /\ course[c] = None <=> StoredCourses[c] = None
    /\ course[c] # None =>
         /\ StoredCourses[c] \in Course
         /\ StoredCourses[c].text = course[c].text
         /\ StoredCourses[c].modules = modules[c]
         /\ StoredCourses[c].prereqs = prereqs[c]
         /\ StoredCourses[c].sessions = sessions[c]
         /\ StoredCourses[c].skills = AggregateSkills(modules[c])

LEMMA ShownNow == Sound => ShownRight
<1> SUFFICES ASSUME Sound, NEW c \in Courses
             PROVE  /\ course[c] = None <=> StoredCourses[c] = None
                    /\ course[c] # None =>
                         /\ StoredCourses[c] \in Course
                         /\ StoredCourses[c].text = course[c].text
                         /\ StoredCourses[c].modules = modules[c]
                         /\ StoredCourses[c].prereqs = prereqs[c]
                         /\ StoredCourses[c].sessions = sessions[c]
                         /\ StoredCourses[c].skills = AggregateSkills(modules[c])
  BY DEF ShownRight
<1> DEFINE v == StoredCourse(c)
<1>1. StoredCourses[c] = v
  BY DEF StoredCourses
<1>2. /\ course[c] = None => v = None
      /\ course[c] # None => /\ v \in Course /\ v # None
                             /\ v = [text |-> course[c].text, modules |-> modules[c],
                                     prereqs |-> prereqs[c], sessions |-> sessions[c],
                                     skills |-> AggregateSkills(modules[c])]
  BY StoredType DEF Sound
<1> HIDE DEF v
<1>3. course[c] # None =>
        /\ v.text = course[c].text /\ v.modules = modules[c] /\ v.prereqs = prereqs[c]
        /\ v.sessions = sessions[c] /\ v.skills = AggregateSkills(modules[c])
  BY <1>2
<1>4. QED
  BY <1>1, <1>2, <1>3

LEMMA ShownNext == Sound' => ShownRight'
BY ShownNow, PTL

\* One course changed.
LEMMA ShownElsewhere ==
  ASSUME NEW c \in Courses, Elsewhere(c)
  PROVE  StoredCourses' = [StoredCourses EXCEPT ![c] = StoredCourses'[c]]
<1>1. /\ StoredCourses = [d \in Courses |-> StoredCourses[d]]
      /\ StoredCourses' = [d \in Courses |-> StoredCourses'[d]]
  BY DEF StoredCourses
<1>2. \A d \in Courses : d # c => StoredCourses'[d] = StoredCourses[d]
  BY DEF Elsewhere, StoredCourses, StoredCourse
<1>3. QED
  BY <1>1, <1>2

LEMMA PutStep ==
  ASSUME Sound, Sound', NEW c \in Courses, Elsewhere(c), path' = path, course'[c] # None
  PROVE  Store!Next
<1> DEFINE v == StoredCourses'[c]
<1>1. v \in Course /\ v # None /\ v.skills = AggregateSkills(v.modules)
  BY ShownNext DEF ShownRight
<1>2. StoredCourses' = [StoredCourses EXCEPT ![c] = v]
  BY ShownElsewhere
<1>3. [v EXCEPT !.skills = Store!AggregateSkills(v.modules)] = v
  BY <1>1, DerivedAgain
<1>4. Store!Upsert(c, v)
  BY <1>1, <1>2, <1>3 DEF Store!Upsert, Store!Put
<1>5. QED
  BY <1>4 DEF Store!Next

LEMMA DropStep ==
  ASSUME Sound, Sound', NEW c \in Courses, Elsewhere(c), path' = path,
         course[c] # None, course'[c] = None
  PROVE  Store!Next
<1>1. StoredCourses[c] # None /\ StoredCourses'[c] = None
  BY ShownNow, ShownNext DEF ShownRight
<1>2. Store!Delete(c)
  BY <1>1, ShownElsewhere DEF Store!Delete
<1>3. QED
  BY <1>2 DEF Store!Next

LEMMA PathStep ==
  ASSUME NEW p \in Paths, path' = [path EXCEPT ![p] = path'[p]], path[p] # None \/ path'[p] # None,
         UNCHANGED <<course, modules, prereqs, sessions>>
  PROVE  Store!Next
<1>1. StoredCourses' = StoredCourses
  BY DEF StoredCourses, StoredCourse
<1>2. CASE path'[p] # None
  BY <1>1, <1>2 DEF Store!UpsertPath, Store!Next
<1>3. CASE path'[p] = None
  BY <1>1, <1>3 DEF Store!DeletePath, Store!Next
<1>4. QED
  BY <1>2, <1>3

-----------------------------------------------------------------------------

\* A path that is written or dropped.
LEMMA PathChange ==
  ASSUME Sound, NEW p \in Paths,
         \/ \E def \in PathDefinition : UpsertPath(p, def)
         \/ PathDropped(p)
  PROVE  /\ path' = [path EXCEPT ![p] = path'[p]] /\ (path[p] # None \/ path'[p] # None)
         /\ UNCHANGED <<course, modules, prereqs, sessions>>
<1>1. path \in [Paths -> PathDefinition \cup {None}]
  BY DEF Sound, Tables
<1>2. ASSUME NEW def \in PathDefinition, UpsertPath(p, def)
      PROVE  /\ path' = [path EXCEPT ![p] = path'[p]] /\ path'[p] # None
             /\ UNCHANGED <<course, modules, prereqs, sessions>>
  <2>1. path' = [path EXCEPT ![p] = def] /\ UNCHANGED <<course, modules, prereqs, sessions>>
    BY <1>2 DEF UpsertPath
  <2>2. path'[p] = def
    BY <1>1, <2>1
  <2>3. QED
    BY <2>1, <2>2, CatalogAssumption
<1>3. CASE PathDropped(p)
  <2>1. /\ path' = [path EXCEPT ![p] = None] /\ path[p] # None
        /\ UNCHANGED <<course, modules, prereqs, sessions>>
    BY <1>3 DEF PathDropped
  <2>2. path'[p] = None
    BY <1>1, <2>1
  <2>3. QED
    BY <2>1, <2>2
<1>4. QED
  BY <1>2, <1>3

LEMMA StoreStep ==
  ASSUME Sound, Sound',
         UNCHANGED tables \/ (\E r \in Requests : Changes(r)) \/ Removes
  PROVE  Store!Next \/ UNCHANGED <<StoredCourses, path>>
<1>1. CASE UNCHANGED tables
  BY <1>1 DEF tables, StoredCourses, StoredCourse
<1>2. ASSUME NEW r \in Requests, Changes(r)
      PROVE  Store!Next
  <2> DEFINE q == request[r]
  <2>1. CASE q.slug \in Courses /\ q.def \in Definition /\ Upsert(q.slug, q.def)
    <3> HIDE DEF q
    <3>1. QED
      BY <2>1, UpsertRows, PutStep
  <2>2. CASE q.slug \in Paths /\ q.def \in PathDefinition /\ UpsertPath(q.slug, q.def)
    <3> HIDE DEF q
    <3>1. QED
      BY <2>2, PathChange, PathStep
  <2>3. CASE /\ q.slug \in Courses /\ q.session \in Sessions /\ q.detail \in Details
             /\ SessionSet(q.slug, q.session, q.detail)
    <3> HIDE DEF q
    <3>1. QED
      BY <2>3, SessionSetRows, PutStep
  <2>4. QED
    BY <1>2, <2>1, <2>2, <2>3 DEF Changes
<1>3. CASE Removes
  <2>1. ASSUME NEW c \in Courses, Dropped(c)
        PROVE  Store!Next
    BY <2>1, DroppedRows, DropStep
  <2>2. ASSUME NEW c \in Courses, NEW s \in Sessions, SessionSet(c, s, None)
        PROVE  Store!Next
    BY <2>2, SessionSetRows, PutStep
  <2>3. ASSUME NEW p \in Paths, PathDropped(p)
        PROVE  Store!Next
    BY <2>3, PathChange, PathStep
  <2>4. QED
    BY <1>3, <2>1, <2>2, <2>3 DEF Removes
<1>4. QED
  BY <1>1, <1>2, <1>3

\* A session that is taken away, as the interface has it.
LEMMA SessionGone ==
  ASSUME Sound, Sound', NEW c \in Courses, NEW s \in Sessions,
         sessions[c][s] # None, SessionSet(c, s, None)
  PROVE  Store!DeleteSession(c, s)
<1> DEFINE v == StoredCourses[c]
           w == StoredCourses'[c]
           gone == [sessions[c] EXCEPT ![s] = None]
<1>1. /\ Elsewhere(c) /\ course'[c] = course[c] /\ course[c] # None /\ modules'[c] = modules[c]
      /\ prereqs'[c] = prereqs[c] /\ sessions'[c] = gone
  BY SessionSetRows
<1> HIDE DEF gone
<1>2. /\ v \in Course /\ v # None /\ v.text = course[c].text /\ v.modules = modules[c]
      /\ v.prereqs = prereqs[c] /\ v.sessions = sessions[c]
      /\ v.skills = AggregateSkills(modules[c])
  BY <1>1, ShownNow DEF ShownRight
<1>3. /\ w \in Course /\ w.text = course[c].text /\ w.modules = modules[c]
      /\ w.prereqs = prereqs[c] /\ w.sessions = gone
      /\ w.skills = AggregateSkills(modules[c])
  BY <1>1, ShownNext DEF ShownRight
<1>4. StoredCourses' = [StoredCourses EXCEPT ![c] = w]
  BY <1>1, ShownElsewhere
<1> HIDE DEF v, w
<1>5. w = [v EXCEPT !.sessions = gone]
  BY <1>2, <1>3 DEF Course
<1>6. w = [v EXCEPT !.sessions = [@ EXCEPT ![s] = None]]
  BY <1>2, <1>5 DEF gone
<1>7. StoredCourses' = [StoredCourses EXCEPT ![c] =
                         [StoredCourses[c] EXCEPT !.sessions = [@ EXCEPT ![s] = None]]]
  BY <1>4, <1>6 DEF v
<1>8. StoredCourses' = [StoredCourses EXCEPT ![c].sessions[s] = None]
  BY <1>7 DEF StoredCourses
<1>9. QED
  BY <1>2, <1>8 DEF Store!DeleteSession, Store!SessionExists, v

LEMMA KeptStep ==
  ASSUME Sound, Sound', NEW c \in Courses, NEW s \in Sessions,
         UNCHANGED tables \/ (\E r \in Requests : Changes(r)) \/ Removes
  PROVE  SessionKept(c, s)
<1> SUFFICES ASSUME sessions[c][s] # None, course'[c] # None
             PROVE  sessions'[c][s] # None \/ Store!DeleteSession(c, s)
  BY DEF SessionKept
<1>1. \A d \in Courses : Elsewhere(d) => d = c \/ sessions'[c] = sessions[c]
  BY DEF Elsewhere
<1>2. sessions \in [Courses -> [Sessions -> Details \cup {None}]]
  BY DEF Sound, Tables
<1>3. CASE UNCHANGED tables
  BY <1>3 DEF tables
<1>4. ASSUME NEW r \in Requests, Changes(r)
      PROVE  sessions'[c][s] # None
  <2> DEFINE q == request[r]
  <2>1. CASE q.slug \in Courses /\ q.def \in Definition /\ Upsert(q.slug, q.def)
    <3> HIDE DEF q
    <3>1. QED
      BY <1>1, <2>1, UpsertRows
  <2>2. CASE q.slug \in Paths /\ q.def \in PathDefinition /\ UpsertPath(q.slug, q.def)
    BY <2>2 DEF UpsertPath
  <2>3. CASE /\ q.slug \in Courses /\ q.session \in Sessions /\ q.detail \in Details
             /\ SessionSet(q.slug, q.session, q.detail)
    <3> HIDE DEF q
    <3>1. q.detail # None
      BY <2>3, CatalogAssumption
    <3>2. sessions'[q.slug] = [sessions[q.slug] EXCEPT ![q.session] = q.detail] /\ Elsewhere(q.slug)
      BY <2>3, SessionSetRows
    <3>3. QED
      BY <1>1, <1>2, <2>3, <3>1, <3>2
  <2>4. QED
    BY <1>4, <2>1, <2>2, <2>3 DEF Changes
<1>5. CASE Removes
  <2>1. ASSUME NEW d \in Courses, Dropped(d)
        PROVE  sessions'[c][s] # None
    BY <1>1, <2>1, DroppedRows
  <2>2. ASSUME NEW d \in Courses, NEW t \in Sessions, sessions[d][t] # None,
               SessionSet(d, t, None)
        PROVE  sessions'[c][s] # None \/ Store!DeleteSession(c, s)
    <3>1. sessions'[d] = [sessions[d] EXCEPT ![t] = None] /\ Elsewhere(d)
      BY <2>2, SessionSetRows
    <3>2. CASE d = c /\ t = s
      BY <2>2, <3>2, SessionGone
    <3>3. CASE ~(d = c /\ t = s)
      BY <1>1, <1>2, <3>1, <3>3
    <3>4. QED
      BY <3>2, <3>3
  <2>3. ASSUME NEW p \in Paths, PathDropped(p)
        PROVE  sessions'[c][s] # None
    BY <2>3 DEF PathDropped
  <2>4. QED
    BY <1>5, <2>1, <2>2, <2>3 DEF Removes
<1>6. QED
  BY <1>3, <1>4, <1>5

-----------------------------------------------------------------------------
(* What writes are made of                                                 *)

\* Writes says that the request's own transaction is what changed the tables.
LEMMA OwnWrite ==
  ASSUME Sound, Running, Next, NEW r \in Requests, Writes(r)
  PROVE  Changes(r)
<1>1. tables' # tables /\ request[r].pc = "write" /\ request'[r].pc = "idle"
  BY DEF Writes, At
<1>2. request'[r] # request[r]
  BY <1>1
<1>3. PICK s \in Requests : Changes(s) /\ Turned(s)
  BY <1>1, <1>2, TableSteps DEF Sound
<1>4. s = r
  BY <1>2, <1>3 DEF Turned
<1>5. QED
  BY <1>3, <1>4

LEMMA FieldsKept ==
  ASSUME Sound, Running, Next, NEW r \in Requests, Writes(r),
         request[r].kind \in {"append", "replace"}
  PROVE  LET q == request[r] IN
         /\ \E v \in seen[r] : v # None /\ v.text = course'[q.slug].text
         /\ q.kind = "append" =>
              \E v \in seen[r] : modules'[q.slug] =
                (IF v = None THEN <<>> ELSE v.modules) \o q.doc.modules
<1> DEFINE q == request[r]
<1>1. q.pc = "write" /\ Changes(r) /\ Flying(q) /\ Remembers(q, seen[r])
  BY OwnWrite, RequestType DEF Writes, At
<1>2. q.slug \in Courses /\ q.slug \notin Paths
  BY <1>1, CatalogAssumption DEF Flying, Imports
<1>3. q.def \in Definition /\ Upsert(q.slug, q.def)
  BY <1>1, <1>2 DEF Changes
<1>4. /\ \E v \in seen[r] : v # None /\ v.text = q.def.text
      /\ q.kind = "append" =>
           \E v \in seen[r] : q.def.modules = ModulesIn(v) \o q.doc.modules
  BY <1>1 DEF Remembers
<1> HIDE DEF q
<1>5. course'[q.slug] = ToRow(q.def) /\ modules'[q.slug] = q.def.modules
  BY <1>2, <1>3, UpsertRows
<1>6. course'[q.slug].text = q.def.text
  BY <1>3, <1>5, RowOfDefinition
<1>7. QED
  BY <1>4, <1>5, <1>6 DEF ModulesIn, q

LEMMA MeetsStep ==
  ASSUME Running, NEW r \in Requests, NEW x \in Courses \cup Paths
  PROVE  Meets(r, x)
<1>1. Remembers(request[r], seen[r])
  BY RequestType
<1>2. QED
  BY <1>1 DEF Meets, Writes, At, Remembers

LEMMA RevivedStep ==
  ASSUME Sound, Running, Next, NEW c \in Courses, NEW s \in Sessions,
         sessions[c][s] = None, sessions'[c][s] # None
  PROVE  \E r \in Requests : Carries(request[r], c, s) \/ Puts(r, c, s)
<1>1. \A d \in Courses : Elsewhere(d) => d = c
  BY DEF Elsewhere
<1>2. sessions[c] \in [Sessions -> Details \cup {None}]
  BY DEF Sound, Tables
<1>3. ASSUME NEW r \in Requests, Changes(r)
      PROVE  Carries(request[r], c, s) \/ Puts(r, c, s)
  <2> DEFINE q == request[r]
  <2>1. CASE /\ q.pc = "write" /\ q.slug \in Courses /\ q.def \in Definition
             /\ Upsert(q.slug, q.def)
    <3> HIDE DEF q
    <3>1. q.slug = c
      BY <1>1, <2>1, UpsertRows
    <3>2. sessions'[c][s] = IF q.def.sessions[s] # None THEN q.def.sessions[s] ELSE sessions[c][s]
      BY <2>1, <3>1, UpsertRows
    <3>3. QED
      BY <2>1, <3>1, <3>2 DEF Carries, q
  <2>2. CASE UpsertPath(q.slug, q.def)
    BY <2>2 DEF UpsertPath
  <2>3. CASE /\ q.pc = "put" /\ q.slug \in Courses /\ q.session \in Sessions
             /\ q.detail \in Details /\ SessionSet(q.slug, q.session, q.detail)
    <3>1. Remembers(q, seen[r])
      BY RequestType
    <3>2. q.kind = "editSession" => \E v \in seen[r] : v # None /\ v.sessions[q.session] # None
      BY <2>3, <3>1 DEF Remembers
    <3> HIDE DEF q
    <3>3. sessions'[q.slug] = [sessions[q.slug] EXCEPT ![q.session] = q.detail] /\ Elsewhere(q.slug)
      BY <2>3, SessionSetRows
    <3>4. q.slug = c /\ q.session = s
      BY <1>1, <1>2, <2>3, <3>3
    <3>5. QED
      BY <2>3, <3>2, <3>4 DEF Puts, q
  <2>4. QED
    BY <1>3, <2>1, <2>2, <2>3 DEF Changes
<1>4. ~Removes
  <2>1. ASSUME NEW d \in Courses, Dropped(d)
        PROVE  FALSE
    BY <1>1, <2>1, DroppedRows DEF NoSessions
  <2>2. ASSUME NEW d \in Courses, NEW t \in Sessions, SessionSet(d, t, None)
        PROVE  FALSE
    <3>1. sessions'[d] = [sessions[d] EXCEPT ![t] = None] /\ Elsewhere(d)
      BY <2>2, SessionSetRows
    <3>2. QED
      BY <1>1, <1>2, <3>1
  <2>3. ASSUME NEW p \in Paths, PathDropped(p)
        PROVE  FALSE
    BY <2>3 DEF PathDropped
  <2>4. QED
    BY <2>1, <2>2, <2>3 DEF Removes
<1>5. tables' # tables
  BY DEF tables
<1>6. QED
  BY <1>3, <1>4, <1>5, TableSteps DEF Sound

-----------------------------------------------------------------------------
(* Queries                                                                 *)

LEMMA ListAgrees ==
  ASSUME Sound, NEW publicOnly \in BOOLEAN, NEW k
  PROVE  List(publicOnly, k) = Store!List(publicOnly, k)
<1>1. ShownRight
  BY ShownNow
<1>2. ASSUME NEW c \in Courses
      PROVE  /\ There(c) <=> StoredCourses[c] # None
             /\ There(c) => /\ StoredCourses[c].text = course[c].text
                            /\ StoredCourses[c].skills = course[c].skills
  BY <1>1 DEF ShownRight, There, Sound, SkillsDerived
<1>3. ASSUME NEW c \in Courses
      PROVE  c \in List(publicOnly, k) <=> c \in Store!List(publicOnly, k)
  BY <1>2 DEF List, Store!List, Store!MatchesFilter
<1>4. List(publicOnly, k) \subseteq Courses /\ Store!List(publicOnly, k) \subseteq Courses
  BY DEF List, Store!List
<1>5. QED
  BY <1>3, <1>4

LEMMA TotalsAgree ==
  ASSUME Sound, NEW k
  PROVE  SkillTotal(k) = Store!SkillTotal(k)
<1>1. ASSUME NEW c \in Courses
      PROVE  /\ There(c) <=> StoredCourses[c] # None
             /\ There(c) => StoredCourses[c].skills = course[c].skills
  BY ShownNow DEF ShownRight, There, Sound, SkillsDerived
<1> DEFINE A == {c \in Courses : There(c) /\ k \in course[c].skills}
           B == {c \in Courses : StoredCourses[c] # None /\ k \in StoredCourses[c].skills}
<1>2. A = B
  BY <1>1
<1>3. SkillTotal(k) = Cardinality(A) /\ Store!SkillTotal(k) = Cardinality(B)
  <2>1. SkillTotal(k) = Cardinality(A)
    BY Zenon DEF SkillTotal
  <2>2. Store!SkillTotal(k) = Cardinality(B)
    BY Zenon DEF Store!SkillTotal, Store!Cardinality, Cardinality
  <2>3. QED
    BY <2>1, <2>2
<1> HIDE DEF A, B
<1>4. QED
  BY <1>2, <1>3

LEMMA ModulesAgree ==
  ASSUME Sound, NEW k
  PROVE  ModulesBySkill(k) = Store!ModulesBySkill(k)
<1> DEFINE L == List(TRUE, None)
           Tagged(ms, i) == i \in DOMAIN ms /\ k \in SkillsOf[ms[i]]
<1>1. L = Store!List(TRUE, None) /\ L \subseteq Courses
  BY ListAgrees DEF List
<1>2. ASSUME NEW c \in L
      PROVE  StoredCourses[c].modules = modules[c]
  BY ShownNow DEF List, There, ShownRight
<1>3. ModulesBySkill(k) = {at \in L \X Positions : Tagged(modules[at[1]], at[2])}
  BY DEF ModulesBySkill
<1>4. Store!ModulesBySkill(k) =
        UNION {{<<c, i>> : i \in {j \in DOMAIN StoredCourses[c].modules :
                                    k \in SkillsOf[StoredCourses[c].modules[j]]}} : c \in L}
  BY <1>1 DEF Store!ModulesBySkill, Store!Modules
<1>5. \A c \in L : DOMAIN modules[c] \subseteq Positions
  BY <1>1 DEF Positions
<1> HIDE DEF L
<1>6. ASSUME NEW at \in ModulesBySkill(k)
      PROVE  at \in Store!ModulesBySkill(k)
  BY <1>2, <1>3, <1>4
<1>7. ASSUME NEW at \in Store!ModulesBySkill(k)
      PROVE  at \in ModulesBySkill(k)
  BY <1>2, <1>3, <1>4, <1>5
<1>8. QED
  BY <1>6, <1>7

-----------------------------------------------------------------------------

\* A batch fetches the skills of all its paths' courses at once.
LEMMA BatchAgrees ==
  ASSUME NEW ps \in SUBSET Paths
  PROVE  ListPathsBatch(ps) = [p \in ps |-> GetPath(p)]
<1> DEFINE all == CourseKindMembers(ps)
           byCourse == SkillsByCourse(all)
           batch(p) == UNION {byCourse[c] : c \in Members(path[p]) \cap DOMAIN byCourse}
<1>1. /\ DOMAIN byCourse = {c \in all : There(c)}
      /\ \A c \in DOMAIN byCourse : byCourse[c] = course[c].skills
  BY DEF SkillsByCourse
<1>2. ASSUME NEW p \in ps, path[p].kind = "course"
      PROVE  batch(p) = SkillsOfCourses(Members(path[p]))
  <2>1. Members(path[p]) \subseteq all
    BY <1>2 DEF CourseKindMembers
  <2> DEFINE ms == Members(path[p])
  <2> HIDE DEF byCourse, all, ms
  <2>2. ms \cap DOMAIN byCourse = {c \in ms : There(c)}
    BY <1>1, <2>1 DEF ms
  <2>3. \A c \in ms \cap DOMAIN byCourse : byCourse[c] = course[c].skills
    BY <1>1
  <2>4. UNION {byCourse[c] : c \in ms \cap DOMAIN byCourse} =
          UNION {course[c].skills : c \in {d \in ms : There(d)}}
    BY <2>2, <2>3
  <2>5. QED
    BY <2>4 DEF SkillsOfCourses, ms
<1>3. ASSUME NEW p \in ps
      PROVE  Shown(path[p], batch(p)) = GetPath(p)
  BY <1>2 DEF Shown, GetPath
<1>4. ListPathsBatch(ps) = [p \in ps |-> Shown(path[p], batch(p))]
  BY DEF ListPathsBatch
<1> HIDE DEF batch
<1>5. QED
  BY <1>3, <1>4

LEMMA SlugsAgree ==
  ASSUME Sound, NEW c \in Courses
  PROVE  SlugsContainingCourse(c) = Store!SlugsContainingCourse(c)
BY StoredPath DEF SlugsContainingCourse, Store!SlugsContainingCourse

LEMMA Answers == Sound => QueriesAgree
<1> SUFFICES ASSUME Sound
             PROVE  QueriesAgree
  OBVIOUS
<1>1. \A k \in Skills :
        /\ SkillTotal(k) = Store!SkillTotal(k)
        /\ ModulesBySkill(k) = Store!ModulesBySkill(k)
        /\ \A publicOnly \in BOOLEAN : List(publicOnly, k) = Store!List(publicOnly, k)
  BY TotalsAgree, ModulesAgree, ListAgrees
<1>2. \A c \in Courses : SlugsContainingCourse(c) = Store!SlugsContainingCourse(c)
  BY SlugsAgree
<1>3. ListPathsBatch({p \in Paths : There(p)}) = [p \in {q \in Paths : There(q)} |-> GetPath(p)]
  BY BatchAgrees
<1>4. QED
  BY <1>1, <1>2, <1>3 DEF QueriesAgree

-----------------------------------------------------------------------------
(* Theorems                                                                *)

LEMMA InitInv ==
  ASSUME Init
  PROVE  Inv
<1>1. /\ \A c \in Courses : course[c] = None /\ modules[c] = <<>> /\ prereqs[c] = {}
                            /\ sessions[c] = NoSessions
      /\ \A r \in Requests : request[r] = Idle
  BY DEF Init
<1>2. NoSessions \in [Sessions -> Details \cup {None}] /\ <<>> \in Seq(ModuleIds)
  BY DEF NoSessions
<1>3. Tables
  BY <1>2 DEF Init, Tables
<1>4. NoOrphans /\ SkillsDerived
  BY <1>1 DEF NoOrphans, SkillsDerived
<1>5. Idle \in Request /\ Idle.slug = None
  BY DEF Idle, Request, PC
<1>6. request \in [Requests -> Request]
  BY <1>5 DEF Init
<1>7. Running
  BY <1>1, <1>5, <1>6, IdleFlies DEF Running, Current
<1>8. drawn \subseteq Sessions /\ asked \in 0..MaxRequests
  BY CatalogAssumption DEF Init
<1>9. QED
  BY <1>3, <1>4, <1>7, <1>8 DEF Inv

LEMMA CountersStep ==
  ASSUME drawn \subseteq Sessions, asked \in 0..MaxRequests, Next
  PROVE  drawn' \subseteq Sessions /\ asked' \in 0..MaxRequests
<1>1. UNCHANGED asked \/ Ask
  BY ZenonT(60) DEF Next, Step, Begin, Remove, Count, Exists, ReadRow, ReadModules, ReadPrereqs, ReadSessions,
         ReadPathRow, ReadPathCourses, ReadPathSkills, SavePath, Write, SessionExists,
         CourseExists, PutSession, Fails, Reads, CreateDefinition, UpdateDefinition,
         ImportMarkdown, GetPathDefinition, Start, CreateSession, UpdateSession, DeleteCourse,
         DeleteSession, DeletePath
<1>2. UNCHANGED drawn \/ \E s \in Sessions : drawn' = drawn \cup {s}
  BY ZenonT(60) DEF Next, Step, Begin, Remove, Count, Exists, ReadRow, ReadModules, ReadPrereqs, ReadSessions,
         ReadPathRow, ReadPathCourses, ReadPathSkills, SavePath, Write, SessionExists,
         CourseExists, PutSession, Fails, Reads, CreateDefinition, UpdateDefinition,
         ImportMarkdown, GetPathDefinition, Start, CreateSession, UpdateSession, DeleteCourse,
         DeleteSession, DeletePath
<1>3. QED
  BY <1>1, <1>2, CatalogAssumption DEF Ask

LEMMA Inductive ==
  ASSUME Inv, [Next]_vars
  PROVE  Inv'
<1>1. CASE Next
  <2>1. Sound /\ Running
    BY DEF Inv, Sound
  <2>2. Sound'
    BY <1>1, <2>1, SoundStep, TableSteps DEF Sound
  <2>3. Running'
    BY <1>1, <2>1, RunningStep DEF Sound
  <2>4. QED
    BY <1>1, <2>2, <2>3, CountersStep DEF Inv, Sound
<1>2. CASE UNCHANGED vars
  <2>1. /\ UNCHANGED <<course, modules, prereqs, sessions, path>>
        /\ UNCHANGED <<drawn, request, seen, asked>>
    BY <1>2 DEF vars, tables
  <2>2. Tables' /\ NoOrphans' /\ SkillsDerived'
    BY <2>1 DEF Inv, Tables, NoOrphans, SkillsDerived
  <2>3. Running'
    BY <2>1 DEF Inv, Running, Current, Stored, StoredCourse
  <2>4. QED
    BY <2>1, <2>2, <2>3 DEF Inv
<1>3. QED
  BY <1>1, <1>2

LEMMA InvAlways == Spec => []Inv
BY InitInv, Inductive, PTL DEF Spec

LEMMA FlyingTyped ==
  ASSUME NEW q, Flying(q)
  PROVE  InFlight(q)
BY CatalogAssumption DEF Flying, Request, InFlight, Whole

-----------------------------------------------------------------------------

\* The tables, and what requests hold of them, keep their types, and nothing
\* hangs off a course that is not there.
THEOREM TypeCorrect == Spec => []TypeOK
<1>1. Inv => TypeOK
  <2> SUFFICES ASSUME Inv
               PROVE  TypeOK
    OBVIOUS
  <2>1. ASSUME NEW c \in Courses
        PROVE  /\ modules[c] \in Seq(ModuleIds) /\ prereqs[c] \subseteq Courses
               /\ sessions[c] \in [Sessions -> Details \cup {None}]
               /\ \/ /\ course[c] = None /\ modules[c] = <<>> /\ prereqs[c] = {}
                     /\ sessions[c] = NoSessions
                  \/ course[c] \in CourseRow
    BY DEF Inv, Tables, NoOrphans
  <2>2. \A p \in Paths : path[p] \in PathDefinition \cup {None}
    BY DEF Inv, Tables
  <2>3. \A r \in Requests : InFlight(request[r])
    BY FlyingTyped DEF Inv, Running
  <2>4. QED
    BY <2>1, <2>2, <2>3 DEF Inv, TypeOK
<1>2. QED
  BY <1>1, InvAlways, PTL

\* The queries answer as the in-memory repositories' would at every moment: the
\* skills column never lags behind the modules, and a batch shows of each path
\* what the path shows alone.
THEOREM QueriesAlwaysAgree == Spec => []QueriesAgree
<1>1. Inv => QueriesAgree
  BY Answers DEF Inv, Sound
<1>2. QED
  BY <1>1, InvAlways, PTL

\* Each step of the tables is one of the in-memory repositories, or none, and
\* no session goes but by its own deletion or with its course.
THEOREM CatalogImplements == Spec => Implements
<1>1. Init => Store!Init
  BY DEF Init, Store!Init, StoredCourses, StoredCourse
<1>2. ASSUME Inv, Inv', [Next]_vars
      PROVE  /\ [Store!Next]_<<StoredCourses, path>>
             /\ [\A c \in Courses, s \in Sessions : SessionKept(c, s)]_vars
  <2>1. Sound /\ Sound'
    BY <1>2 DEF Inv, Sound
  <2>2. CASE Next
    <3>1. UNCHANGED tables \/ (\E r \in Requests : Changes(r)) \/ Removes
      BY <1>2, <2>2, TableSteps DEF Inv
    <3>2. Store!Next \/ UNCHANGED <<StoredCourses, path>>
      BY <2>1, <3>1, StoreStep
    <3>3. \A c \in Courses, s \in Sessions : SessionKept(c, s)
      BY <2>1, <3>1, KeptStep
    <3>4. QED
      BY <3>2, <3>3
  <2>3. CASE UNCHANGED vars
    <3>1. UNCHANGED tables
      BY <2>3 DEF vars
    <3>2. Store!Next \/ UNCHANGED <<StoredCourses, path>>
      BY <2>1, <3>1, StoreStep
    <3>3. QED
      BY <2>3, <3>2
  <2>4. QED
    BY <1>2, <2>2, <2>3
<1>3. QED
  BY <1>1, <1>2, InvAlways, Inductive, PTL DEF Spec, Implements, Store!Spec

\* An import that appends, or replaces the modules alone, leaves own fields and
\* modules that the course had while the import ran.
THEOREM ImportsKeepFields == Spec => ImportKeepsFields
<1> DEFINE Kept ==
      \A r \in Requests :
        LET q == request[r] IN
        Writes(r) /\ q.kind \in {"append", "replace"} =>
          /\ \E v \in seen[r] : v # None /\ v.text = course'[q.slug].text
          /\ q.kind = "append" =>
               \E v \in seen[r] : modules'[q.slug] =
                 (IF v = None THEN <<>> ELSE v.modules) \o q.doc.modules
<1>1. ASSUME Inv, Next
      PROVE  Kept
  BY <1>1, FieldsKept DEF Inv, Sound
<1> HIDE DEF Kept
<1>2. Spec => [][Kept]_vars
  BY <1>1, InvAlways, PTL DEF Spec
<1>3. QED
  BY <1>2 DEF ImportKeepsFields, Kept

\* What a request creates was free, and what it edits was there, at a moment
\* while it ran, and no session comes back but one that a request put.
THEOREM NothingIsRevived == Spec => NothingRevived
<1> DEFINE Met ==
      /\ \A r \in Requests, x \in Courses \cup Paths : Meets(r, x)
      /\ \A c \in Courses, s \in Sessions :
           sessions[c][s] = None /\ sessions'[c][s] # None =>
             \E r \in Requests : Carries(request[r], c, s) \/ Puts(r, c, s)
<1>1. ASSUME Inv, Next
      PROVE  Met
  BY <1>1, MeetsStep, RevivedStep DEF Inv, Sound
<1> HIDE DEF Met
<1>2. Spec => [][Met]_vars
  BY <1>1, InvAlways, PTL DEF Spec
<1>3. QED
  BY <1>2 DEF NothingRevived, Met

=============================================================================
