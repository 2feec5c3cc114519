\* The rollback comment without its exception.
SPECIFICATION Spec
CONSTANTS
  p1 = p1
  p2 = p2
  d1 = d1
  d2 = d2
  Nothing = Nothing
  Torn = Torn
  Paths <- MCPaths
  Contents <- MCContents
  MaxDrops = 3
  MaxCrashes = 1
  MaxLosses = 1
INVARIANT RetryIsPossible
CHECK_DEADLOCK FALSE
