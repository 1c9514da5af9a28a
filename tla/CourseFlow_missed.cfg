SPECIFICATION Spec
CONSTANTS
  c1 = c1
  c2 = c2
  a = a
  q = q
  h = h
  Complete = Complete
  Skills = {"go"}
  Scores = {0, 2}
  PassScore = 1
  Slugs = {a, q, h}
  IsAdmin = FALSE
  Public = {c1}
  Courses = {c1}
  SkillsOf <- OneTeachesGo
  Difficulty <- SomeDifficultyOfC1
  Prereqs <- NoPrereqs
  InlineSlugs = {q}
  ModulePrereqs <- ANeedsQ
  CoursePath <- C1Only
  SkillPath <- GoPath
  SkillModules <- GoOnly
  Positions = {1, 2}
  Requests = {r1, r2}
  Asks <- LessonThenQuiz
  Versions <- LessonAndQuiz
  MaxFaults = 0
  MaxEdits = 0
INVARIANTS
  CompletionNotMissed
CHECK_DEADLOCK FALSE
