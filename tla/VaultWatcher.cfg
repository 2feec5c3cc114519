\* Safety: drops, replacements, failures and restarts in any order.
SPECIFICATION Spec
CONSTANTS
  p1 = p1
  p2 = p2
  d1 = d1
  d2 = d2
  Nothing = Nothing
  Torn = Torn
  Paths <- MCPaths
  Contents <- MCContents
  MaxDrops = 3
  MaxCrashes = 1
  MaxLosses = 1
INVARIANTS TypeOK DocumentsSurvive IndexedIsComplete
PROPERTY NoSecondCopy
\* Every file dealt with, the watcher waits for the next: no step is left.
CHECK_DEADLOCK FALSE
