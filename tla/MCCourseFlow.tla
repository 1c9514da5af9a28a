---------------------------- MODULE MCCourseFlow ----------------------------
(***************************************************************************)
(* Small catalogs for model-checking CourseFlow.  c1 ends with a quiz, c2  *)
(* requires some progress in c1; both teach the skill "go".  One of them   *)
(* is private: c2 in CourseFlow_learn, c1 in CourseFlow_faults.            *)
(***************************************************************************)
EXTENDS LearnerPages, TLC

CONSTANTS c1, c2, a, q, h

Symmetric == Permutations(Requests)

Lesson(s) == [slug |-> s, quiz |-> FALSE, hidden |-> FALSE, remote |-> FALSE]
Quiz(s)   == [slug |-> s, quiz |-> TRUE, hidden |-> FALSE, remote |-> FALSE]
Hidden(m) == [m EXCEPT !.hidden = TRUE]
Remote(m) == [m EXCEPT !.remote = TRUE]

MarkA(c)     == [kind |-> "lesson", course |-> c, slug |-> a]
Submit(c, p) == [kind |-> "quiz", course |-> c, pos |-> p]

LessonThenQuiz == {MarkA(c1), Submit(c1, 2)}

BothTeachGo == (c1 :> {"go"}) @@ (c2 :> {"go"})
OneTeachesGo == (c1 :> {"go"})
SomeDifficulty == (c1 :> 1) @@ (c2 :> 2)

\* A lesson, a hidden module and a git-hosted quiz in c1, one lesson in c2.
TwoCourses == (c1 :> {<<Lesson(a), Hidden(Lesson(h)), Remote(Quiz(q))>>}) @@ (c2 :> {<<Lesson(a)>>})
C2NeedsC1 == (c1 :> {}) @@ (c2 :> {[course |-> c1, minScore |-> 0, modules |-> {q}]})

\* The lesson a is listed as needing the quiz q.
ANeedsQ == (a :> {q}) @@ (h :> {}) @@ (q :> {})
C1ThenC2 == <<c1, c2>>
C1Only == <<c1>>

GoPath == <<"go">>
Tagged(c, slug, type) == [course |-> c, slug |-> slug, type |-> type]
GoOnly == "go" :> <<Tagged(c1, q, "quiz")>>

\* Learn c1, then c2.
BothCourses == {MarkA(c1), Submit(c1, 2), MarkA(c2)}

\* One course only.
LessonAndQuiz == (c1 :> {<<Lesson(a), Quiz(q)>>})
NoPrereqs == (c1 :> {})
SomeDifficultyOfC1 == (c1 :> 1)

\* Two quizzes in c1 that an admin may exchange; some score in c1 opens c2.  The
\* first quiz may be marked as a lesson, and h asks for it wherever it stands.
Reordered == (c1 :> {<<Quiz(q), Quiz(h)>>, <<Quiz(h), Quiz(q)>>}) @@ (c2 :> {<<Lesson(a)>>})
C2NeedsScore == (c1 :> {}) @@ (c2 :> {[course |-> c1, minScore |-> 2, modules |-> {}]})
MarkQ == [kind |-> "lesson", course |-> c1, slug |-> q]
QuizzesThenA == {Submit(c1, 1), Submit(c1, 2), MarkQ, MarkA(c2)}
HNeedsQ == (a :> {}) @@ (h :> {q}) @@ (q :> {})

\* "go" is taught by a quiz of c1 and the lab of c2, "art" by nothing that is
\* assessed.
TwoSkills == <<"go", "art">>
GoAndArt ==
  ("go" :> <<Tagged(c1, q, "quiz"), Tagged(c2, a, "lab")>>)
  @@ ("art" :> <<Tagged(c2, a, "text")>>)
=============================================================================
