SPECIFICATION LabsSpec
CONSTANTS
  m1 = m1
  m2 = m2
  Me = Me
  Other = Other
  Branches <- FeaturesFirst
  Main = "main"
  MRs <- NewestFirst
  Source <- Sources
  PageSize = 1
  FirstPage = 1
  MaxMoves = 2
  Starts <- SomeStarts
  Matches <- Prefixes
  MinMerged = 2
  Requests = {r1}
  Versions <- TwoVersions
  Expansion <- Extra
  Ops <- AllOps
  MaxEdits = 1
  MaxFailures = 1
INVARIANTS
  VerdictRight
  AllowEarned
  NamesShown
CHECK_DEADLOCK FALSE
