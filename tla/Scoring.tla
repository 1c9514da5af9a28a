------------------------------- MODULE Scoring -------------------------------
(***************************************************************************)
(* Quiz scoring: content.ScoreQuiz and the conversion of quiz documents.   *)
(* Pure operators.  Points and percentages are computed in float64 from    *)
(* small integers: quotients are rounded as the code rounds them, and a    *)
(* score that ties with the passing score may fall either side of it (29   *)
(* of 50 points are 57.99999999999999 per cent).                           *)
(***************************************************************************)
EXTENDS Integers, FiniteSets, Functions, Sequences

\* correct: the right answers (a question of type "boolean" has at most one,
\* "TRUE" or "FALSE"); sequence: the right order.
Question == [type : {"single", "multiple", "boolean", "order", "unknown"},
             points : Nat, correct : SUBSET STRING, sequence : Seq(STRING),
             partial : BOOLEAN, negative : BOOLEAN]

\* UserAnswer: Single, Multiple and Boolean are chosen, Order is sequence.
UserAnswer == [chosen : SUBSET STRING, sequence : Seq(STRING)]

NoAnswer == [chosen |-> {}, sequence |-> << >>]

\* What an author leaves out: a question is worth a point.
ConvertQuestion(raw) == [raw EXCEPT !.points = IF @ = 0 THEN 1 ELSE @]

ToQuiz(raw) == [raw EXCEPT !.questions = [id \in DOMAIN @ |-> ConvertQuestion(@[id])]]

\* IsCorrect.  An unanswered question is wrong.
IsCorrect(question, answer) ==
  CASE question.type = "order"    -> answer.sequence # << >> /\ answer.sequence = question.sequence
    [] question.type = "multiple" -> answer.chosen # {} /\ answer.chosen = question.correct
    [] question.type = "unknown"  -> FALSE
    [] OTHER -> answer.chosen # {} /\ answer.chosen \subseteq question.correct

\* math.Round: to the nearest integer, halves away from zero.
Round(n, d) == IF n >= 0 THEN (2 * n + d) \div (2 * d) ELSE -((d - 2 * n) \div (2 * d))

\* Mutant: wrong choices cost nothing when points cannot be negative.
PartialIgnoresWrong(question, chosen) ==
  LET hits   == Cardinality(chosen \cap question.correct)
      misses == Cardinality(chosen \ question.correct)
  IN  IF ~question.partial \/ hits = 0 THEN 0
      ELSE Round(question.points * (IF question.negative THEN hits - misses ELSE hits + misses),
                 Cardinality(question.correct))

\* partialMultipleChoiceScore
PartialScore(question, chosen) ==
  LET hits   == Cardinality(chosen \cap question.correct)
      misses == Cardinality(chosen \ question.correct)
  IN  IF ~question.partial \/ hits = misses \/ (~question.negative /\ hits < misses) THEN 0
      ELSE Round(question.points * (hits - misses), Cardinality(question.correct))

PointsEarned(question, answer) ==
  IF IsCorrect(question, answer) THEN question.points
  ELSE IF question.type = "multiple" /\ answer.chosen # {} THEN PartialScore(question, answer.chosen)
  ELSE 0

TotalScore(questions, answers) ==
  SumFunction([id \in DOMAIN questions |-> PointsEarned(questions[id], answers[id])])

MaxScore(questions) == SumFunction([id \in DOMAIN questions |-> questions[id].points])

\* The possible verdicts.
Passed(total, max, passingScore) ==
  CASE max = 0 -> {FALSE}
    [] 100 * total = passingScore * max /\ total \notin {0, max} -> BOOLEAN
    [] OTHER   -> {100 * total >= passingScore * max}
=============================================================================
