SPECIFICATION ExportsSpec
CONSTANTS
  Courses = {c1}
  c1 = c1
  Paths = {p1, p2}
  p1 = p1
  p2 = p2
  Sessions = {s1}
  s1 = s1
  Users = {u1, u2, u3}
  Requests = {r1, r2}
  None = None
  Caches <- TwoCaches
  Values <- Offers
  TTL = 1
  MaxEntries = 1
  Lag = 1
  MaxClock = 3
  MaxXP = 1
  MaxRequests = 3
  Exporters = {x1}
  Wanted <- SomeExports
  PreviewLimit = 1
  Blank = Blank
SYMMETRY Symmetric
INVARIANTS SeatsBounded SheetsFaithful
PROPERTIES XPGate PathComplete Implements
CHECK_DEADLOCK FALSE
