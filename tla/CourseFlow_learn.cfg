SPECIFICATION Spec
CONSTANTS
  c1 = c1
  c2 = c2
  a = a
  q = q
  h = h
  Complete = Complete
  Skills = {"go"}
  Scores = {0, 2}
  PassScore = 1
  Slugs = {a, q, h}
  IsAdmin = FALSE
  Public = {c1}
  Courses = {c1, c2}
  SkillsOf <- BothTeachGo
  Difficulty <- SomeDifficulty
  Versions <- TwoCourses
  Prereqs <- C2NeedsC1
  InlineSlugs = {q}
  ModulePrereqs <- ANeedsQ
  CoursePath <- C1Only
  SkillPath <- GoPath
  SkillModules <- GoOnly
  Positions = {1, 2, 3}
  Requests = {r1, r2, r3}
  Asks <- BothCourses
  MaxFaults = 0
  MaxEdits = 0
SYMMETRY Symmetric
INVARIANTS
  CompletionSound
  AwardsGranted
CHECK_DEADLOCK FALSE
