--------------------------- MODULE LearnerRecords ---------------------------
(***************************************************************************)
(* The rows user-service keeps about ONE learner: every table below is     *)
(* keyed by userid, so learners never meet in them.  One operator per SQL  *)
(* statement; a statement is atomic in PostgreSQL, a handler is not.       *)
(*                                                                         *)
(* The module has no Next of its own: CourseFlow executes the handlers     *)
(* that issue these statements.                                            *)
(***************************************************************************)
EXTENDS Naturals, FiniteSets, Functions

CONSTANTS
  Courses,      \* course slugs
  Slugs,        \* module slugs
  Complete,     \* the "__complete__" sentinel lesson slug
  Positions,    \* module indexes (counted from 1 here, from 0 in the code)
  Skills,       \* skill names
  SkillsOf,     \* [Courses -> SUBSET Skills]
  Difficulty,   \* [Courses -> 0..3], 0 is a difficulty the code does not know
  Scores        \* scores a quiz submission can earn

NoRow == [attempts |-> 0]

ASSUME RecordsAssumption ==
  /\ IsFiniteSet(Courses) /\ IsFiniteSet(Positions)
  /\ Complete \notin Slugs
  /\ SkillsOf \in [Courses -> SUBSET Skills]
  /\ Difficulty \in [Courses -> 0..3]
  /\ Scores \subseteq Nat

VARIABLES
  lessons,      \* lesson_progress: set of <<course, lesson slug or Complete>>
  modules,      \* module_progress: row of each <<course, position>>
  xp,           \* user_xp_events: set of <<source, course, slug>>
  badges,       \* user_badges: set of courses
  levels,       \* user_skill_levels: row of each skill
  enrolled      \* enrollments: set of courses

records == <<lessons, modules, xp, badges, levels, enrolled>>

(***************************************************************************)
(* Types.  A module row with 0 attempts and a skill row with 0 completed   *)
(* courses stand for "no row".                                             *)
(***************************************************************************)
ModuleRow == [attempts : Nat \ {0}, slug : Slugs, best : Scores, passed : BOOLEAN]
SkillRow  == [level : 0..4, completed : Nat, total : Nat]

XPSources == {"lesson", "module", "course"}
XPKeys    == XPSources \X Courses \X (Slugs \cup {Complete})

RecordsTypeOK ==
  /\ lessons \subseteq Courses \X (Slugs \cup {Complete})
  /\ modules \in [Courses \X Positions -> ModuleRow \cup {NoRow}]
  /\ xp \subseteq XPKeys
  /\ badges \subseteq Courses
  /\ levels \in [Skills -> SkillRow]
  /\ enrolled \subseteq Courses

RecordsInit ==
  /\ lessons = {}
  /\ modules = [k \in Courses \X Positions |-> NoRow]
  /\ xp = {}
  /\ badges = {}
  /\ levels = [s \in Skills |-> [level |-> 0, completed |-> 0, total |-> 0]]
  /\ enrolled \in SUBSET Courses

-----------------------------------------------------------------------------
(* Statements that write.  Each changes one table.                         *)

\* INSERT ... ON CONFLICT DO NOTHING
MarkComplete(c, lesson) == lessons' = lessons \cup {<<c, lesson>>}

AwardXP(source, c, slug) == xp' = xp \cup {<<source, c, slug>>}

AwardBadge(c) == badges' = badges \cup {c}

CreateEnrollment(c) == enrolled' = enrolled \cup {c}

DeleteEnrollment(c) == enrolled' = enrolled \ {c}

\* Mutants of the upsert: the update overwrites the pass, or the best score.
AttemptedForgetsPass(row, slug, score, passed) ==
  IF row = NoRow
  THEN [attempts |-> 1, slug |-> slug, best |-> score, passed |-> passed]
  ELSE [row EXCEPT !.attempts = @ + 1,
                   !.best = IF score > @ THEN score ELSE @,
                   !.passed = passed]

AttemptedKeepsLast(row, slug, score, passed) ==
  IF row = NoRow
  THEN [attempts |-> 1, slug |-> slug, best |-> score, passed |-> passed]
  ELSE [row EXCEPT !.attempts = @ + 1, !.best = score, !.passed = @ \/ passed]

\* The upsert of one attempt at position p: attempts + 1, GREATEST, OR, and
\* COALESCE(old, new), which keeps the slug of the FIRST attempt.
Attempted(row, slug, score, passed) ==
  IF row = NoRow
  THEN [attempts |-> 1, slug |-> slug, best |-> score, passed |-> passed]
  ELSE [row EXCEPT !.attempts = @ + 1,
                   !.best = IF score > @ THEN score ELSE @,
                   !.passed = @ \/ passed]

RecordProgress(c, p, slug, score, passed) ==
  modules' = [modules EXCEPT ![<<c, p>>] = Attempted(@, slug, score, passed)]

\* "maitre", the level above every course difficulty.
Maitre == 4

\* One skill's upsert: insert, or count one more completion and promote.
Promoted(row, difficulty, total) ==
  LET done == row.completed + 1
      best == IF difficulty > row.level THEN difficulty ELSE row.level
  IN  [completed |-> done, total |-> total,
       level |-> IF total > 0 /\ done >= total THEN Maitre ELSE best]

\* UpsertAll: one transaction over the skills of the course.
UpsertSkills(c, totals) ==
  levels' = [s \in Skills |->
               IF s \in SkillsOf[c] /\ Difficulty[c] # 0
               THEN Promoted(levels[s], Difficulty[c], totals[s])
               ELSE levels[s]]

-----------------------------------------------------------------------------
(* Queries.                                                                *)

\* Every lesson_progress slug of the course, the sentinel included.
ViewedSlugs(c) == {l \in Slugs \cup {Complete} : <<c, l>> \in lessons}

Attempts(c) == {p \in Positions : modules[<<c, p>>] # NoRow}

PassedModules(c) ==
  {modules[<<c, p>>].slug : p \in {q \in Attempts(c) : modules[<<c, q>>].passed}}

TotalScore(c) ==
  SumFunctionOnSet([p \in Positions |->
      IF p \in Attempts(c) THEN modules[<<c, p>>].best ELSE 0], Positions)

\* The courses the sentinel marks as completed.
CompletedCourses == {c \in Courses : <<c, Complete>> \in lessons}
=============================================================================
