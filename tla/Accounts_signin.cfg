SPECIFICATION Spec
CONSTANTS
  Ids = {i1, i2, i3}
  i1 = i1
  i2 = i2
  i3 = i3
  Emails = {e1, e2}
  e1 = e1
  e2 = e2
  AdminEmail = e1
  Names = {admin, anna, blank}
  admin = admin
  anna = anna
  AdminName = admin
  Blank = blank
  Passwords = {p1, p2}
  p1 = p1
  Weak = {}
  Subjects = {s1}
  s1 = s1
  Providers = {"oidc", "github"}
  Groups = {g}
  Requests = {r1, r2}
  None = None
  Nobody = Nobody
  Tables <- SmallTables
  MockStudents <- Mock
  MaxRequests = 2
  MaxEvents = 1
SYMMETRY Symmetric
INVARIANTS RoleHeld
PROPERTIES NoTakeover PasswordProven Implements
CHECK_DEADLOCK FALSE
