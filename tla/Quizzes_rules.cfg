SPECIFICATION QuizSpec
CONSTANTS
  Modules <- SomeModules
  Documents <- SomeDocuments
  Starts <- SomeStarts
  Revisions <- SomeRevisions
  Answers <- SomeAnswers
  BaseDefault = 2
  MaxFailures = 4
  MaxEdits = 1
  Word = 64
  Second = 2
  Unit = 2
INVARIANTS
  ScoringFair
PROPERTIES
  RulesApplied
  WaitsGrowToCap
CHECK_DEADLOCK FALSE
