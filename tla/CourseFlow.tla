----------------------------- MODULE CourseFlow -----------------------------
(***************************************************************************)
(* One learner working through courses: concurrent requests to             *)
(* course-service (mark a lesson complete, submit a quiz), the internal    *)
(* calls they make to user-service, and the statements those calls run.    *)
(*                                                                         *)
(* A request reads the learner's progress with three queries, decides, and *)
(* writes through calls that may be lost, time out, or fail half-way.      *)
(* Quiz results and automatic enrolment travel in detached calls that      *)
(* outlive the request and are never retried.                              *)
(***************************************************************************)
EXTENDS LearnerRecords, Sequences

CONSTANTS
  Requests,     \* identifiers of the learner's requests, each used once
  Asks,         \* what the learner may ask for, a set of operations
  Versions,     \* [Courses -> set of module listings an admin may save]
  Public,       \* courses open to everybody
  Prereqs,      \* [Courses -> set of [course, minScore, modules]]
  IsAdmin,      \* the learner's role
  PassScore,    \* score from which a quiz is passed
  MaxFaults,    \* bound on failed statements, lost calls and timeouts
  MaxEdits      \* bound on edits: of a course by an admin, of the enrolment
                \* by the learner

\* A module: quiz or lesson, hidden or not, listed by the course itself or
\* (remote) by a git-hosted index that must be fetched.
Module == [slug : Slugs, quiz : BOOLEAN, hidden : BOOLEAN, remote : BOOLEAN]

Prereq == [course : Courses, minScore : Nat, modules : SUBSET Slugs]

\* "lesson" names a module by its slug, "quiz" by its position in the list.
LessonOps == [kind : {"lesson"}, course : Courses, slug : Slugs]
QuizOps   == [kind : {"quiz"}, course : Courses, pos : Positions]
NoOp      == [kind |-> "none"]

ASSUME FlowAssumption ==
  /\ Asks \subseteq LessonOps \cup QuizOps
  /\ \A c \in Courses : Versions[c] \subseteq Seq(Module)
  /\ \A c \in Courses : \A v \in Versions[c] : DOMAIN v \subseteq Positions
  /\ Public \subseteq Courses
  /\ \A c \in Courses : Prereqs[c] \subseteq Prereq
  /\ IsAdmin \in BOOLEAN
  /\ PassScore \in Nat
  /\ MaxFaults \in Nat
  /\ MaxEdits \in Nat

VARIABLES
  listing,      \* [Courses -> module listing stored by course-service]
  pc,           \* where each request is
  op,           \* what each request asks for
  shown,        \* the modules each request works on (learnerView.modules)
  view,         \* the progress each request loaded (learnerView.progress)
  scored,       \* the outcome of each request's submission
  call,         \* progress of the internal calls of each request, by kind
  faults,       \* faults left
  edits,        \* edits left
  member        \* history: was the learner enrolled in the request's course at
                \* some moment since the request began and before it looked?

flow == <<pc, op, shown, view, scored>>
vars == <<records, listing, flow, call, faults, edits, member>>

\* The internal endpoints a request may call, at most once each.
Kinds == {"enroll", "lesson", "module", "complete"}

\* "sent" until the endpoint's first statement, then one step a statement.
Steps == {"none", "sent", "row", "badge", "xp", "done", "failed"}

View == [viewed : SUBSET (Slugs \cup {Complete}), passed : SUBSET Slugs,
         enrolled : BOOLEAN, begun : SUBSET Courses]

Listings == {l \in [Courses -> UNION {Versions[c] : c \in Courses}] :
               \A c \in Courses : l[c] \in Versions[c]}

\* The modules a request sees, at their places in the course's listing.
Listing == UNION {[D -> Module] : D \in SUBSET Positions}

NotScored == [quiz |-> Complete, score |-> 0, passed |-> FALSE]

EmptyView == [viewed |-> {}, passed |-> {}, enrolled |-> FALSE, begun |-> {}]

Finished == {"ok", "error", "denied"}

PC == {"idle", "readViewed", "readModules", "readEnrolled", "access",
       "prereqViewed", "prereqModules", "act", "posting", "notifying"} \cup Finished

TypeOK ==
  /\ RecordsTypeOK
  /\ listing \in Listings
  /\ pc \in [Requests -> PC]
  /\ op \in [Requests -> Asks \cup {NoOp}]
  /\ shown \in [Requests -> Listing]
  /\ view \in [Requests -> View]
  /\ scored \in [Requests -> {NotScored} \cup
                  [quiz : Slugs, score : Scores, passed : BOOLEAN]]
  /\ call \in [Requests -> [Kinds -> Steps]]
  /\ faults \in 0..MaxFaults
  /\ edits \in 0..MaxEdits
  /\ member \in [Requests -> BOOLEAN]

Init ==
  /\ RecordsInit
  /\ listing \in Listings
  /\ pc = [r \in Requests |-> "idle"]
  /\ op = [r \in Requests |-> NoOp]
  /\ shown = [r \in Requests |-> << >>]
  /\ view = [r \in Requests |-> EmptyView]
  /\ scored = [r \in Requests |-> NotScored]
  /\ call = [r \in Requests |-> [k \in Kinds |-> "none"]]
  /\ faults = MaxFaults
  /\ edits = MaxEdits
  /\ member = [r \in Requests |-> FALSE]

-----------------------------------------------------------------------------
(* Helpers                                                                 *)

Goto(r, from, to) == pc[r] = from /\ pc' = [pc EXCEPT ![r] = to]

\* Something goes wrong: a bounded number of times.
Fault == faults > 0 /\ faults' = faults - 1

Advance(r, k, from, to) ==
  /\ call[r][k] = from
  /\ call' = [call EXCEPT ![r][k] = to]

Send(r, k) == call' = [call EXCEPT ![r][k] = "sent"]

\* The requests about a course that have not read the enrolment yet.
Deciding(c) == {r \in Requests : /\ pc[r] \in {"readViewed", "readModules", "readEnrolled"}
                                 /\ op[r].course = c}

\* An enrolment is there while these requests run.
Noticed(c) == member' = [r \in Requests |-> r \in Deciding(c) \/ member[r]]

Answered(r, k) == call[r][k] \in {"done", "failed"}
InFlight(r, k) == call[r][k] \notin {"none", "done", "failed"}

\* The modules a request gets to see: the index's modules are skipped when
\* the index cannot be fetched, hidden ones are kept for admins only.
VisibleModules(list, indexFetched) ==
  Restrict(list, {i \in DOMAIN list : /\ IsAdmin \/ ~list[i].hidden
                                      /\ indexFetched \/ ~list[i].remote})

\* The index a module has in the list the learner is shown, which closes up
\* over the modules left out: requests and module_progress rows carry it.
IndexOf(list, i) == Cardinality({j \in DOMAIN list : j <= i})

\* Mutant: quizzes are not asked for.
LessonsCompleted(r, justPassedQuiz, justViewedLesson) ==
  \A i \in DOMAIN shown[r] :
    LET m == shown[r][i] IN
      m.hidden \/ m.quiz \/ m.slug \in justViewedLesson \cup view[r].viewed

\* Every module is viewed or passed, crediting the request's own.
CourseCompleted(r, justPassedQuiz, justViewedLesson) ==
  \A i \in DOMAIN shown[r] :
    LET m == shown[r][i] IN
      \/ m.hidden
      \/ m.quiz  /\ m.slug \in justPassedQuiz \cup view[r].passed
      \/ ~m.quiz /\ m.slug \in justViewedLesson \cup view[r].viewed

\* prerequisiteSatisfied, from the two tables the summary is made of.
Satisfied(p, begun) ==
  /\ p.minScore > 0 => TotalScore(p.course) >= p.minScore
  /\ p.modules \subseteq PassedModules(p.course)
  /\ \/ p.minScore > 0
     \/ p.modules # {}
     \/ TotalScore(p.course) > 0
     \/ p.course \in begun

-----------------------------------------------------------------------------
(* learnerView: load the course, the progress, then check access.          *)

Start(r) ==
  /\ Goto(r, "idle", "readViewed")
  /\ \E o \in Asks, indexFetched \in BOOLEAN :
       /\ op' = [op EXCEPT ![r] = o]
       /\ shown' = [shown EXCEPT ![r] =
                      VisibleModules(listing[o.course], indexFetched)]
       /\ member' = [member EXCEPT ![r] = o.course \in enrolled]
  /\ UNCHANGED <<records, listing, view, scored, call, faults, edits>>

\* GET /internal/progress/overview: three queries, no transaction.
ReadViewed(r) ==
  /\ Goto(r, "readViewed", "readModules")
  /\ view' = [view EXCEPT ![r].viewed = ViewedSlugs(op[r].course)]
  /\ UNCHANGED <<records, listing, op, shown, scored, call, faults, edits, member>>

ReadModules(r) ==
  /\ Goto(r, "readModules", "readEnrolled")
  /\ view' = [view EXCEPT ![r].passed = PassedModules(op[r].course)]
  /\ UNCHANGED <<records, listing, op, shown, scored, call, faults, edits, member>>

ReadEnrolled(r) ==
  /\ Goto(r, "readEnrolled", "access")
  /\ view' = [view EXCEPT ![r].enrolled = op[r].course \in enrolled]
  /\ UNCHANGED <<records, listing, op, shown, scored, call, faults, edits, member>>

\* A failed overview is treated as "no progress, not enrolled".
OverviewFails(r) ==
  /\ \E from \in {"readViewed", "readModules", "readEnrolled"} : Goto(r, from, "access")
  /\ Fault
  /\ view' = [view EXCEPT ![r] = EmptyView]
  /\ UNCHANGED <<records, listing, op, shown, scored, call, edits, member>>

\* Mutant: an enrolled learner is let in without the prerequisites.
EnrolledSkipsPrereqs(r) ==
  LET c == op[r].course IN
  /\ pc[r] = "access"
  /\ IF IsAdmin \/ c \in Public \/ view[r].enrolled
     THEN Goto(r, "access", IF view[r].enrolled \/ Prereqs[c] = {} THEN "act" ELSE "prereqViewed")
     ELSE Goto(r, "access", "denied")
  /\ UNCHANGED <<records, listing, op, shown, view, scored, call, faults, edits, member>>

\* ensureModuleAccess up to the prerequisites.
EnsureAccess(r) ==
  LET c == op[r].course IN
  /\ pc[r] = "access"
  /\ \/ /\ ~IsAdmin /\ c \notin Public /\ ~view[r].enrolled
        /\ Goto(r, "access", "denied")
        /\ UNCHANGED call
     \/ /\ IsAdmin \/ c \in Public \/ view[r].enrolled
        /\ Goto(r, "access", IF IsAdmin \/ Prereqs[c] = {} THEN "act" ELSE "prereqViewed")
        /\ IF ~IsAdmin /\ ~view[r].enrolled THEN Send(r, "enroll") ELSE UNCHANGED call
  /\ UNCHANGED <<records, listing, op, shown, view, scored, faults, edits, member>>

\* GET /internal/progress/course-summaries: two queries.
ReadPrereqViewed(r) ==
  /\ Goto(r, "prereqViewed", "prereqModules")
  /\ view' = [view EXCEPT ![r].begun =
                {p.course : p \in {q \in Prereqs[op[r].course] : ViewedSlugs(q.course) # {}}}]
  /\ UNCHANGED <<records, listing, op, shown, scored, call, faults, edits, member>>

CheckPrereqs(r) ==
  /\ Goto(r, "prereqModules",
          IF \A p \in Prereqs[op[r].course] : Satisfied(p, view[r].begun)
          THEN "act" ELSE "denied")
  /\ UNCHANGED <<records, listing, op, shown, view, scored, call, faults, edits, member>>

\* Empty summaries satisfy no prerequisite.
SummariesFail(r) ==
  /\ \E from \in {"prereqViewed", "prereqModules"} : Goto(r, from, "denied")
  /\ Fault
  /\ UNCHANGED <<records, listing, op, shown, view, scored, call, edits, member>>

-----------------------------------------------------------------------------
(* MarkLessonComplete                                                      *)

\* findModuleLesson accepts any module of the list, a quiz included.
Listed(r, slug) == \E i \in DOMAIN shown[r] : shown[r][i].slug = slug

PostLesson(r) ==
  /\ op[r].kind = "lesson"
  /\ \/ /\ Listed(r, op[r].slug)
        /\ Goto(r, "act", "posting")
        /\ Send(r, "lesson")
     \/ /\ ~Listed(r, op[r].slug)
        /\ Goto(r, "act", "error")
        /\ UNCHANGED call
  /\ UNCHANGED <<records, listing, op, shown, view, scored, faults, edits, member>>

\* The lesson is stored; tell user-service when it completed the course.
LessonPosted(r) ==
  /\ call[r]["lesson"] = "done"
  /\ \/ /\ CourseCompleted(r, {}, {op[r].slug})
        /\ Goto(r, "posting", "notifying")
        /\ Send(r, "complete")
     \/ /\ ~CourseCompleted(r, {}, {op[r].slug})
        /\ Goto(r, "posting", "ok")
        /\ UNCHANGED call
  /\ UNCHANGED <<records, listing, op, shown, view, scored, faults, edits, member>>

LessonRefused(r) ==
  /\ call[r]["lesson"] = "failed"
  /\ Goto(r, "posting", "error")
  /\ UNCHANGED <<records, listing, op, shown, view, scored, call, faults, edits, member>>

-----------------------------------------------------------------------------
(* SubmitModule                                                            *)

\* Not a quiz, no such module, quiz unavailable, or a question cooling down.
RefuseSubmission(r) ==
  /\ op[r].kind = "quiz"
  /\ Goto(r, "act", "error")
  /\ UNCHANGED <<records, listing, op, shown, view, scored, call, faults, edits, member>>

\* finalizeSubmission: the result leaves in a detached call, and a pass that
\* completes the course is reported at once, ahead of that call.
ScoreSubmission(r) ==
  /\ op[r].kind = "quiz"
  /\ \E i \in DOMAIN shown[r], score \in Scores :
       LET quiz     == shown[r][i].slug
           passed   == score >= PassScore
           complete == passed /\ CourseCompleted(r, {quiz}, {})
       IN  /\ IndexOf(shown[r], i) = op[r].pos
           /\ shown[r][i].quiz
           /\ scored' = [scored EXCEPT ![r] =
                           [quiz |-> quiz, score |-> score, passed |-> passed]]
           /\ Goto(r, "act", IF complete THEN "notifying" ELSE "ok")
           /\ call' = [call EXCEPT ![r]["module"] = "sent",
                                   ![r]["complete"] = IF complete THEN "sent" ELSE @]
  /\ UNCHANGED <<records, listing, op, shown, view, faults, edits, member>>

\* notifyCourseComplete: a failure is only logged.
Notified(r) ==
  /\ Answered(r, "complete")
  /\ Goto(r, "notifying", "ok")
  /\ UNCHANGED <<records, listing, op, shown, view, scored, call, faults, edits, member>>

\* The synchronous call outlasts its timeout, or its answer is lost; the
\* endpoint may still be running.
GiveUp(r) ==
  /\ Fault
  /\ \/ call[r]["lesson"] \notin {"none", "failed"} /\ Goto(r, "posting", "error")
     \/ InFlight(r, "complete") /\ Goto(r, "notifying", "ok")
  /\ UNCHANGED <<records, listing, op, shown, view, scored, call, edits, member>>

-----------------------------------------------------------------------------
(* The endpoints of user-service, one statement a step.                    *)

\* POST /internal/progress/complete
LessonRow(r) ==
  /\ Advance(r, "lesson", "sent", "row")
  /\ MarkComplete(op[r].course, op[r].slug)
  /\ UNCHANGED <<modules, xp, badges, levels, enrolled, listing, flow, faults, edits, member>>

LessonXP(r) ==
  /\ Advance(r, "lesson", "row", "done")
  /\ AwardXP("lesson", op[r].course, op[r].slug)
  /\ UNCHANGED <<lessons, modules, badges, levels, enrolled, listing, flow, faults, edits, member>>

\* Mutant: the call keeps the request's context and dies with it.
ModuleRowAttached(r) ==
  /\ pc[r] \notin Finished
  /\ Advance(r, "module", "sent", IF scored[r].passed THEN "row" ELSE "done")
  /\ RecordProgress(op[r].course, op[r].pos, scored[r].quiz,
                    scored[r].score, scored[r].passed)
  /\ UNCHANGED <<lessons, xp, badges, levels, enrolled, listing, flow, faults, edits, member>>

\* POST /internal/progress/module
ModuleRowWritten(r) ==
  /\ Advance(r, "module", "sent", IF scored[r].passed THEN "row" ELSE "done")
  /\ RecordProgress(op[r].course, op[r].pos, scored[r].quiz,
                    scored[r].score, scored[r].passed)
  /\ UNCHANGED <<lessons, xp, badges, levels, enrolled, listing, flow, faults, edits, member>>

ModuleXP(r) ==
  /\ Advance(r, "module", "row", "done")
  /\ AwardXP("module", op[r].course, scored[r].quiz)
  /\ UNCHANGED <<lessons, modules, badges, levels, enrolled, listing, flow, faults, edits, member>>

\* POST /internal/progress/course-complete
CompleteRow(r) ==
  /\ Advance(r, "complete", "sent", "row")
  /\ MarkComplete(op[r].course, Complete)
  /\ UNCHANGED <<modules, xp, badges, levels, enrolled, listing, flow, faults, edits, member>>

\* Mutant: a badge that is there already ends the handler.
BadgeEndsIt(r) ==
  /\ Advance(r, "complete", "row", IF op[r].course \in badges THEN "done" ELSE "badge")
  /\ AwardBadge(op[r].course)
  /\ UNCHANGED <<lessons, modules, xp, levels, enrolled, listing, flow, faults, edits, member>>

CompleteBadge(r) ==
  /\ Advance(r, "complete", "row", "badge")
  /\ AwardBadge(op[r].course)
  /\ UNCHANGED <<lessons, modules, xp, levels, enrolled, listing, flow, faults, edits, member>>

CompleteXP(r) ==
  /\ Advance(r, "complete", "badge", "xp")
  /\ AwardXP("course", op[r].course, Complete)
  /\ UNCHANGED <<lessons, modules, badges, levels, enrolled, listing, flow, faults, edits, member>>

\* SkillTotals counts the catalog's courses that teach a skill; when that
\* query failed (a fault) the payload has no totals and they read as 0.
SkillTotal(s) == Cardinality({c \in Courses : s \in SkillsOf[c]})

CompleteSkills(r) ==
  /\ Advance(r, "complete", "xp", "done")
  /\ \/ /\ UpsertSkills(op[r].course, [s \in Skills |-> SkillTotal(s)])
        /\ UNCHANGED faults
     \/ /\ Fault
        /\ UpsertSkills(op[r].course, [s \in Skills |-> 0])
  /\ UNCHANGED <<lessons, modules, xp, badges, enrolled, listing, flow, edits, member>>

\* POST /internal/enrollments/auto
AutoEnroll(r) ==
  /\ Advance(r, "enroll", "sent", "done")
  /\ CreateEnrollment(op[r].course)
  /\ Noticed(op[r].course)
  /\ UNCHANGED <<lessons, modules, xp, badges, levels, listing, flow, faults, edits>>

\* A statement of a call whose request gave up runs under a cancelled context:
\* it may fail without any further fault.
FaultIn(r, k) ==
  \/ Fault
  \/ k \in {"lesson", "complete"} /\ pc[r] \in Finished /\ UNCHANGED faults

\* Mutant: the failed insert of the sentinel is logged like the others.
FailureLogged(r, k) ==
  /\ FaultIn(r, k)
  /\ Advance(r, k, "sent", IF k = "complete" THEN "row" ELSE "failed")
  /\ UNCHANGED <<records, listing, flow, edits, member>>

\* The call never arrives, or its first statement fails: nothing is written
\* and the caller gets an error.
CallFails(r, k) ==
  /\ FaultIn(r, k)
  /\ Advance(r, k, "sent", "failed")
  /\ UNCHANGED <<records, listing, flow, edits, member>>

\* A later statement fails: the handler logs it and goes on.
StatementSkipped(r) ==
  /\ \/ FaultIn(r, "lesson") /\ Advance(r, "lesson", "row", "done")
     \/ FaultIn(r, "module") /\ Advance(r, "module", "row", "done")
     \/ /\ FaultIn(r, "complete")
        /\ \/ Advance(r, "complete", "row", "badge")
           \/ Advance(r, "complete", "badge", "xp")
           \/ Advance(r, "complete", "xp", "done")
  /\ UNCHANGED <<records, listing, flow, edits, member>>

-----------------------------------------------------------------------------
Edit == edits > 0 /\ edits' = edits - 1

\* An admin saves another version of a course's definition.
SaveCourse(c) ==
  /\ Edit
  /\ \E v \in Versions[c] \ {listing[c]} : listing' = [listing EXCEPT ![c] = v]
  /\ UNCHANGED <<records, flow, call, faults, member>>

\* The learner enrols, or somebody enrols them.  The XP some courses ask for is
\* left out: it may refuse.
Enroll(c) ==
  /\ Edit
  /\ CreateEnrollment(c)
  /\ Noticed(c)
  /\ UNCHANGED <<lessons, modules, xp, badges, levels, listing, flow, call, faults>>

\* The learner leaves a course: the row goes, the progress stays, and requests
\* that read the enrolment before go on.
Unenroll(c) ==
  /\ Edit
  /\ DeleteEnrollment(c)
  /\ UNCHANGED <<lessons, modules, xp, badges, levels, listing, flow, call, faults, member>>

\* What the services do by themselves once a request has arrived.
Serve(r) ==
  \/ ReadViewed(r) \/ ReadModules(r) \/ ReadEnrolled(r)
  \/ EnsureAccess(r) \/ ReadPrereqViewed(r) \/ CheckPrereqs(r)
  \/ PostLesson(r) \/ LessonPosted(r) \/ LessonRefused(r)
  \/ RefuseSubmission(r) \/ ScoreSubmission(r) \/ Notified(r)

Handle(r) ==
  \/ LessonRow(r) \/ LessonXP(r) \/ ModuleRowWritten(r) \/ ModuleXP(r)
  \/ CompleteRow(r) \/ CompleteBadge(r) \/ CompleteXP(r) \/ CompleteSkills(r)
  \/ AutoEnroll(r)

Disturb(r) ==
  \/ OverviewFails(r) \/ SummariesFail(r) \/ GiveUp(r) \/ StatementSkipped(r)
  \/ \E k \in Kinds : CallFails(r, k)

Next ==
  \/ \E r \in Requests : Start(r) \/ Serve(r) \/ Handle(r) \/ Disturb(r)
  \/ \E c \in Courses : SaveCourse(c) \/ Enroll(c) \/ Unenroll(c)

\* A server goroutine that can run does run: handlers have no other wait than
\* the calls they make.  The learner and the admin owe nothing.
Fairness == \A r \in Requests : WF_vars(Serve(r)) /\ WF_vars(Handle(r))

Spec == Init /\ [][Next]_vars /\ Fairness

-----------------------------------------------------------------------------
(* Safety                                                                  *)

\* What the learner has really done, whatever is stored about it.
ReallyPassed(c, quiz) ==
  \E r \in Requests : /\ op[r].kind = "quiz" /\ op[r].course = c
                       /\ scored[r].passed /\ scored[r].quiz = quiz

ReallyDone(c, m) ==
  IF m.quiz THEN ReallyPassed(c, m.slug) ELSE <<c, m.slug>> \in lessons

\* A course is recorded as completed only when some request saw a module list
\* of which the learner has done everything: every lesson stored as viewed and
\* every quiz passed.  Late, lost and overlapping calls, and the sentinel and
\* quiz slugs that share the lesson table, never complete a course early
\* (courseCompleted, MarkLessonComplete, finalizeSubmission).
CompletionSound ==
  \A c \in CompletedCourses :
    \E r \in Requests :
      /\ op[r] # NoOp /\ op[r].course = c
      /\ \A i \in DOMAIN shown[r] : shown[r][i].hidden \/ ReallyDone(c, shown[r][i])

\* The badge, the course XP and the skill levels are only ever given for a
\* course whose completion is stored, although four statements that fail one
\* by one write them (InternalMarkCourseComplete).
AwardsBacked ==
  /\ badges \subseteq CompletedCourses
  /\ \A c \in Courses : <<"course", c, Complete>> \in xp => c \in CompletedCourses
  /\ \A s \in Skills : levels[s].completed > 0 =>
       \E c \in CompletedCourses : s \in SkillsOf[c]

\* A completion that met no fault leaves nothing out: once the call has ended,
\* the badge, the course XP and at least the course's own difficulty in each of
\* its skills are there, whatever completions of the same or of another course
\* ran between its statements.
AwardsGranted ==
  \A r \in Requests : (call[r]["complete"] = "done" /\ faults = MaxFaults) =>
    LET c == op[r].course IN
      /\ c \in badges
      /\ <<"course", c, Complete>> \in xp
      /\ \A s \in SkillsOf[c] : levels[s].level >= Difficulty[c]

\* The calls that store progress, of which a request makes at least one.
Stores(r) == {k \in {"lesson", "module", "complete"} : call[r][k] # "none"}

\* Nobody gets in where they should not: a request that sends anything to be
\* stored about a private course met an enrolment between its start and its
\* look at the enrolments, however enrolments came and went since; and the
\* prerequisites of its course are met, by what is stored and stays stored
\* (ensureModuleAccess, checkCoursePrerequisites).  An enrolment that goes
\* between the look and the write is not noticed by the code, nor here.
AccessHonoured ==
  \A r \in Requests : (~IsAdmin /\ Stores(r) # {}) =>
    LET c == op[r].course IN
      /\ c \in Public \/ member[r]
      /\ \A p \in Prereqs[c] : Satisfied(p, {d \in Courses : ViewedSlugs(d) # {}})

\* The upsert loses no attempt: the row counts every delivered result of its
\* position, keeps their best score and remembers a pass, in whatever order
\* the detached calls of overlapping submissions land (RecordProgress).
Delivered(c, p) ==
  {r \in Requests : /\ op[r].kind = "quiz" /\ op[r].course = c /\ op[r].pos = p
                    /\ call[r]["module"] \in {"row", "done"}}

AttemptsCounted ==
  \A c \in Courses, p \in Positions :
    LET row == modules[<<c, p>>]
        rs  == Delivered(c, p)
    IN  /\ row.attempts = Cardinality(rs)
        /\ rs # {} => /\ row.passed = (\E r \in rs : scored[r].passed)
                      /\ \E r \in rs : scored[r].score = row.best
                      /\ \A r \in rs : scored[r].score <= row.best

\* Whoever has completed as many courses as teach a skill is a maitre of it:
\* the promotion compares the count AFTER this completion, in the insert as in
\* the update (upsertSkillLevelTx).
MaitreWhenAllDone ==
  \A s \in Skills :
    levels[s].total > 0 /\ levels[s].completed >= levels[s].total => levels[s].level = Maitre

(***************************************************************************)
(* Action properties                                                       *)
(***************************************************************************)

\* Progress is never taken back: no row disappears, a pass or a best score is
\* never overwritten by a worse or an older result that lands later, and a
\* skill level never drops.
Kept ==
  /\ lessons \subseteq lessons' /\ xp \subseteq xp' /\ badges \subseteq badges'
  /\ \A k \in Courses \X Positions :
       modules[k] # NoRow =>
         /\ modules'[k].attempts >= modules[k].attempts
         /\ modules'[k].best >= modules[k].best
         /\ modules[k].passed => modules'[k].passed
  /\ \A s \in Skills : levels'[s].level >= levels[s].level

ProgressKept == [][Kept]_records

(***************************************************************************)
(* Liveness                                                                *)
(***************************************************************************)

\* Every request is answered, whatever fails, and every call it made comes to
\* an end, the detached ones included, also when that is after the answer.
EverythingEnds ==
  \A r \in Requests :
    pc[r] # "idle" ~> /\ pc[r] \in Finished
                      /\ \A k \in Kinds : ~InFlight(r, k)

(***************************************************************************)
(* Stated by the source, and not true of it (see the README)               *)
(***************************************************************************)

\* "passing it completes the course whatever order the modules were taken in":
\* once every request is answered, every call has landed and nothing failed, a
\* course all of whose modules are stored as done is completed.
Quiet == \A r \in Requests : /\ pc[r] \in {"idle"} \cup Finished
                             /\ \A k \in Kinds : ~InFlight(r, k)

StoredDone(c) ==
  \A i \in DOMAIN listing[c] :
    LET m == listing[c][i] IN
      \/ m.hidden
      \/ m.slug \in IF m.quiz THEN PassedModules(c) ELSE ViewedSlugs(c)

CompletionNotMissed ==
  (Quiet /\ faults = MaxFaults) =>
    \A c \in Courses : StoredDone(c) => c \in CompletedCourses
=============================================================================
