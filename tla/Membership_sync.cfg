SPECIFICATION ManagersSpec
CONSTANTS
  Users = {u1, u2}
  Groups = {everyone, g1}
  Courses = {c1}
  Default = everyone
  Requests = {r1, r2}
  Errands = {x1}
  None = None
  MaxChanges = 4
  MaxFaults = 1
SYMMETRY Symmetric
INVARIANTS
  NobodyMissed
PROPERTIES
  LocalKept
  ManagersInScope
CHECK_DEADLOCK FALSE
