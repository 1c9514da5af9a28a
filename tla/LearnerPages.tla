---------------------------- MODULE LearnerPages ----------------------------
(***************************************************************************)
(* What a learner is shown of the progress CourseFlow records: the modules *)
(* of a course (course-service, ListModules), the learning paths           *)
(* (user-service, MyPaths and the enrolment lists of a path) and the       *)
(* modules of a skill (MySkillModules).  Pages only read; each is an       *)
(* operator of the records, and of what could not be read when it was      *)
(* built.                                                                  *)
(***************************************************************************)
EXTENDS CourseFlow

CONSTANTS
  InlineSlugs,    \* modules shown inside the lesson before them
  ModulePrereqs,  \* [Slugs -> SUBSET Slugs], prerequisites of modules
  CoursePath,     \* the courses of a learning path, in order
  SkillPath,      \* the skills of a skill path, in order
  SkillModules    \* [Skills -> Seq of [course, slug, type]], tagged modules

ASSUME PagesAssumption ==
  /\ InlineSlugs \subseteq Slugs
  /\ ModulePrereqs \in [Slugs -> SUBSET Slugs]
  /\ CoursePath \in Seq(Courses)
  /\ SkillPath \in Seq(Skills)

\* What may be missing when a page is built: module_progress, lesson_progress,
\* and the skills whose modules course-service did not return.
Outage == [modules : BOOLEAN, lessons : BOOLEAN, skills : SUBSET Skills]

NoOutage == [modules |-> FALSE, lessons |-> FALSE, skills |-> {}]

-----------------------------------------------------------------------------
(* The modules of a course                                                 *)

\* Mutant: an attempt is enough.
AttemptedSlugs(c, visible) ==
  ViewedSlugs(c) \cup
    {visible[i].slug : i \in {j \in DOMAIN visible : IndexOf(visible, j) \in Attempts(c)}}

\* Slugs that were viewed, and whatever stands where a module was passed.
CompletedSlugs(c, visible) ==
  ViewedSlugs(c) \cup
    {visible[i].slug : i \in {j \in DOMAIN visible :
        LET p == IndexOf(visible, j) IN p \in Attempts(c) /\ modules[<<c, p>>].passed}}

Last(S) == CHOOSE i \in S : \A j \in S : j <= i

\* The last module before the i-th that is not inline, if there is one.
Before(visible, i) ==
  LET earlier == {j \in DOMAIN visible : j < i /\ visible[j].slug \notin InlineSlugs}
  IN  IF earlier = {} THEN {} ELSE {Last(earlier)}

\* ListModules: closed until its prerequisites are completed and, unless it is
\* inline, the module before it.  Only the list says so: no request checks it.
Locked(c, visible, i) ==
  LET done == CompletedSlugs(c, visible)
      slug == visible[i].slug
  IN  ~IsAdmin /\ \/ ~(ModulePrereqs[slug] \subseteq done)
                  \/ slug \notin InlineSlugs /\ \E j \in Before(visible, i) : visible[j].slug \notin done

-----------------------------------------------------------------------------
(* Learning paths and skills                                               *)

Statuses == {"locked", "available", "completed"}

\* The sequential rule: open after a completed one, and at the beginning.
Status(done, prevDone) ==
  CASE done -> "completed" [] prevDone /\ ~done -> "available" [] OTHER -> "locked"

BuildCourseStatuses(courses, completed) ==
  [i \in DOMAIN courses |->
     Status(courses[i] \in completed, i = 1 \/ courses[i - 1] \in completed)]

\* A failed query is no completed course.
CompletedCoursesCtx(outage, courses) ==
  IF outage.lessons THEN {} ELSE CompletedCourses \cap {courses[i] : i \in DOMAIN courses}

MyCoursePath(outage) == BuildCourseStatuses(CoursePath, CompletedCoursesCtx(outage, CoursePath))

\* One line of the lists of a path's learners that admins and managers see.
EnrolledUser(outage) ==
  LET statuses == MyCoursePath(outage)
  IN  [courses |-> statuses, total |-> Len(statuses),
       completed |-> Cardinality({i \in DOMAIN statuses : statuses[i] = "completed"})]

PassedKeys(outage) ==
  IF outage.modules THEN {} ELSE UNION {{c} \X PassedModules(c) : c \in Courses}

\* Without the sentinel.
ViewedKeys(outage) ==
  IF outage.lessons THEN {} ELSE UNION {{c} \X (ViewedSlugs(c) \ {Complete}) : c \in Courses}

\* A quiz is done when passed, anything else when viewed.
ModuleDone(m, passed, viewed) == <<m.course, m.slug>> \in (IF m.type = "quiz" THEN passed ELSE viewed)

Assessable(mods) == {m \in Range(mods) : m.type \in {"quiz", "lab"}}

SkillIsCompleted(mods, passed, viewed) ==
  /\ Assessable(mods) # {}
  /\ \A m \in Assessable(mods) : ModuleDone(m, passed, viewed)

SkillState == [completed : BOOLEAN, unavailable : BOOLEAN]

\* Mutant: a skill without modules has nothing left to do.
SkillCompletionOfNothing(outage) ==
  LET passed == PassedKeys(outage)
      viewed == ViewedKeys(outage)
  IN  [s \in Skills |->
         [unavailable |-> FALSE,
          completed   |-> s \in outage.skills \/ SkillIsCompleted(SkillModules[s], passed, viewed)]]

\* What is passed and viewed is read once for all the skills of the path.
SkillCompletion(outage) ==
  LET passed == PassedKeys(outage)
      viewed == ViewedKeys(outage)
  IN  [s \in Skills |->
         [unavailable |-> s \in outage.skills,
          completed   |-> s \notin outage.skills /\ SkillIsCompleted(SkillModules[s], passed, viewed)]]

OrderedSkillStatuses(skills, state) ==
  LET done == {i \in DOMAIN skills : state[skills[i]].completed}
  IN  [i \in DOMAIN skills |->
         IF state[skills[i]].unavailable THEN "locked"
         ELSE Status(i \in done, i = 1 \/ i - 1 \in done)]

MySkillPath(outage) == OrderedSkillStatuses(SkillPath, SkillCompletion(outage))

\* MySkillModules: the modules of one skill, in the same way; 502 without them.
MySkillModules(skill, outage) ==
  LET mods   == SkillModules[skill]
      passed == PassedKeys(outage)
      viewed == ViewedKeys(outage)
      done   == {i \in DOMAIN mods : ModuleDone(mods[i], passed, viewed)}
  IN  IF skill \in outage.skills THEN << >>
      ELSE [i \in DOMAIN mods |-> Status(i \in done, i = 1 \/ i - 1 \in done)]

-----------------------------------------------------------------------------
(* Safety                                                                  *)

\* What a learner did that the list may take for a module: open it as a
\* lesson, be it a quiz, in a list that showed it; or pass the quiz that was at
\* its place in the list the learner then saw, which is the module itself
\* unless that list was another one.
Marked(r, slug) == /\ op[r].kind = "lesson" /\ op[r].slug = slug
                   /\ Listed(r, slug) /\ call[r]["lesson"] # "none"

PassedAt(r, visible, i) ==
  /\ op[r].kind = "quiz" /\ op[r].pos = IndexOf(visible, i)
  /\ scored[r].passed /\ call[r]["module"] \in {"row", "done"}
  /\ shown[r] = visible => scored[r].quiz = visible[i].slug

Earned(c, visible, slug) ==
  \E r \in Requests :
    /\ op[r] # NoOp /\ op[r].course = c
    /\ \/ Marked(r, slug)
       \/ \E i \in DOMAIN visible : visible[i].slug = slug /\ PassedAt(r, visible, i)

\* The modules that the i-th waits for.
WaitsFor(visible, i) ==
  {j \in DOMAIN visible : visible[j].slug \in ModulePrereqs[visible[i].slug]}
  \cup (IF visible[i].slug \in InlineSlugs THEN {} ELSE Before(visible, i))

\* The list of a course opens modules in order of what the learner has done:
\* behind an open module, each of its prerequisites and the module before it
\* was earned by a request of its own, whatever was lost, failed or was edited
\* meanwhile (ListModules, completedSlugs).  An attempt, a pass at another
\* place or in another course opens nothing.
ModulesOpenInOrder ==
  \A c \in Courses :
    LET visible == VisibleModules(listing[c], TRUE)
    IN  \A i \in DOMAIN visible : ~IsAdmin /\ ~Locked(c, visible, i) =>
          \A j \in WaitsFor(visible, i) : Earned(c, visible, visible[j].slug)

\* "an outage cannot silently unlock the rest of a path": whatever could not be
\* read when a page was built, it shows nothing as open or completed that it
\* would not show with everything at hand, and nothing further along than it is
\* (skillCompletion, orderedSkillStatuses, completedCoursesCtx).
NotAhead(page, full) ==
  \A i \in DOMAIN page :
    /\ page[i] = "completed" => full[i] = "completed"
    /\ page[i] = "available" => full[i] # "locked"

OutageUnlocksNothing ==
  LET courses   == MyCoursePath(NoOutage)
      skills    == MySkillPath(NoOutage)
      done      == EnrolledUser(NoOutage).completed
      modulesOf == [s \in Skills |-> MySkillModules(s, NoOutage)]
  IN  \A outage \in Outage :
        /\ NotAhead(MySkillPath(outage), skills)
        \* These pages ask for the modules of one skill, or of none.
        /\ outage.skills = {} =>
             /\ NotAhead(MyCoursePath(outage), courses)
             /\ EnrolledUser(outage).completed <= done
             /\ \A s \in Skills : NotAhead(MySkillModules(s, outage), modulesOf[s])
=============================================================================
