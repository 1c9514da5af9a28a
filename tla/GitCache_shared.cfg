SPECIFICATION Spec
CONSTANTS
  NoReader = NoReader
  Readers = {r1, r2, r3}
  Keys = {k1, k2}
  MaxRepos = 1
  TTL = 1
  Backoff = 1
  Horizon = 1
  MaxFaults = 1
  MaxClears = 1
INVARIANTS
  SingleCloner
  DiskAccounted
  CacheBounded
PROPERTIES
  FetchEnds
CHECK_DEADLOCK FALSE
