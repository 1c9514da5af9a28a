SPECIFICATION Spec
CONSTANTS
  Backoff <- Growing
  Word = 1000
  Second = 1
  Unit = 1
  Submissions = {s1, s2, s3}
  Questions = {q1, q2}
  MaxAttempts = 2
  LockOnMax = TRUE
  MaxInFlight = 2
  Horizon = 3
  MaxFaults = 1
SYMMETRY SymmetricQuiz
INVARIANTS
  CountsExact
  FailureDelays
PROPERTIES
  RetrySpaced
CHECK_DEADLOCK FALSE
