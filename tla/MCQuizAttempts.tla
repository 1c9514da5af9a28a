---------------------------- MODULE MCQuizAttempts ----------------------------
(***************************************************************************)
(* A quiz whose wait grows by one tick with every wrong answer.            *)
(***************************************************************************)
EXTENDS QuizAttempts, TLC

Symmetric == Permutations(Submissions)
SymmetricQuiz == Permutations(Submissions) \cup Permutations(Questions)

Growing == [strategy |-> "linear", base |-> 1, multiplier |-> 1, max |-> 0]
=============================================================================
