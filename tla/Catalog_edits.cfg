SPECIFICATION Spec
CONSTANTS
  Courses = {c1}
  c1 = c1
  Paths = {p1}
  p1 = p1
  Texts = {t1, t2}
  t1 = t1
  t2 = t2
  Public = {t1}
  SkillsOf <- TwoModules
  m1 = m1
  m2 = m2
  k1 = k1
  k2 = k2
  Sessions = {s1, s2}
  s1 = s1
  s2 = s2
  Details = {x1, x2}
  x1 = x1
  x2 = x2
  Documents <- SmallDocuments
  PathDocuments <- SmallPaths
  Requests = {r1, r2}
  None = None
  MaxRequests = 4
SYMMETRY Symmetric
INVARIANTS QueriesAgree
PROPERTIES Implements ImportKeepsFields NothingRevived
CHECK_DEADLOCK FALSE
