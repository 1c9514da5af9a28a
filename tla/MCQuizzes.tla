------------------------------ MODULE MCQuizzes ------------------------------
(***************************************************************************)
(* Quizzes of every question type, with partial and negative points and    *)
(* without; every cooldown strategy, with and without cap and multiplier,  *)
(* on a one-question quiz; limits with and without lock.  Multipliers are  *)
(* in halves: 1/2, 1 and 3 in documents, 2 in courses, 0 if not set.       *)
(***************************************************************************)
EXTENDS Quizzes, TLC

Q(type, points, correct, sequence) ==
  [type |-> type, points |-> points, correct |-> correct, sequence |-> sequence,
   partial |-> FALSE, negative |-> FALSE]

Multiple(points, negative) ==
  [Q("multiple", points, {"x", "y"}, << >>) EXCEPT !.partial = TRUE, !.negative = negative]

Quiz(questions, passing, spec) ==
  [questions |-> questions, passing |-> passing, cooldown |-> spec, limit |-> 0, lock |-> FALSE]

Curve(strategy, base, multiplier, max) ==
  [strategy |-> strategy, base |-> base, multiplier |-> multiplier, max |-> max]

Short == Curve("fixed", 1, 2, 0)

\* Quizzes about points.
Mixed ==
  {Quiz(("q1" :> Multiple(p, n)) @@ ("q2" :> second), passing, Short) :
     p \in {0, 3}, n \in BOOLEAN, passing \in {50, 100},
     second \in {Q("order", 2, {}, <<"x", "y">>), Q("boolean", 2, {"x"}, << >>)}}
  \cup {Quiz(("q1" :> Q("multiple", 2, {"x", "y"}, << >>)) @@ ("q2" :> Q("single", 1, {"x"}, << >>)), 67, Short),
        Quiz("q1" :> Q("unknown", 1, {}, << >>), 0, Short),
        Quiz("q1" :> Q("boolean", 1, {}, << >>), 101, Short)}

\* Quizzes about waits.  Only exponential ones read their multiplier.
Curves ==
  {Quiz("q3" :> Q("single", 1, {"x"}, << >>), 50, Curve(s[1], b, s[2], x)) :
     s \in {<<"fixed", 2>>, <<"linear", 2>>} \cup ({"exponential"} \X {0, 1, 2, 6}),
     b \in {-2, 3}, x \in {0, 2, 25}}

Limited(quiz) == [quiz EXCEPT !.limit = 2, !.lock = TRUE]

SomeDocuments ==
  Mixed \cup Curves \cup {Limited(Quiz("q3" :> Q("single", 1, {"x"}, << >>), 50, Short))}

Empty == Quiz(<< >>, 0, NoCooldown)

\* What an author changes: the passing score, or the cooldown.
SomeRevisions ==
  {r \in SomeDocuments \X SomeDocuments :
     \/ r[1] \in Mixed /\ r[2] = [r[1] EXCEPT !.passing = 50] /\ r[1] # r[2]
     \/ r[1] \in Curves /\ r[2] = [r[1] EXCEPT !.cooldown.strategy = "exponential"] /\ r[1] # r[2]}

SomeModules ==
  {[hosted |-> TRUE, rules |-> Empty],
   [hosted |-> FALSE, rules |-> Empty],
   [hosted |-> FALSE, rules |-> Limited(Quiz("q3" :> Q("single", 0, {"x"}, << >>), 50, Short))]}
  \cup {[hosted |-> FALSE, rules |-> Quiz("q3" :> Q("single", 1, {"x"}, << >>), 50, Curve("exponential", b, m, x))] :
          b \in {0, 3}, m \in {0, 4}, x \in {0, 25}}

\* Where the document does not matter there is an arbitrary one.
SomeStarts ==
  {s \in SomeModules \X SomeDocuments : ~s[1].hosted => s[2] = CHOOSE d \in SomeDocuments : TRUE}

\* "x" and "y" are right alternatives of the same questions, or "y" is wrong:
\* one of them does for both.
SomeAnswers ==
  {[chosen |-> c, sequence |-> << >>] :
     c \in {{}, {"x"}, {"z"}, {"x", "y"}, {"x", "z"}, {"x", "y", "z"}}}
  \cup {[chosen |-> {}, sequence |-> s] : s \in {<<"x">>, <<"x", "y">>, <<"y", "x">>}}
=============================================================================
