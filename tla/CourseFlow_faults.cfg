SPECIFICATION Spec
CONSTANTS
  c1 = c1
  c2 = c2
  a = a
  q = q
  h = h
  Complete = Complete
  Skills = {"go", "art"}
  Scores = {0, 2}
  PassScore = 1
  Slugs = {a, q, h}
  IsAdmin = FALSE
  Public = {c2}
  Courses = {c1, c2}
  SkillsOf <- BothTeachGo
  Difficulty <- SomeDifficulty
  Versions <- Reordered
  Prereqs <- C2NeedsScore
  InlineSlugs = {}
  ModulePrereqs <- HNeedsQ
  CoursePath <- C1ThenC2
  SkillPath <- TwoSkills
  SkillModules <- GoAndArt
  Positions = {1, 2}
  Requests = {r1, r2}
  Asks <- QuizzesThenA
  MaxFaults = 1
  MaxEdits = 1
INVARIANTS
  AwardsBacked
  AccessHonoured
  ModulesOpenInOrder
  AttemptsCounted
  OutageUnlocksNothing
PROPERTIES
  ProgressKept
  EverythingEnds
CHECK_DEADLOCK FALSE
