\* Liveness: the inbox drains.
SPECIFICATION FairSpec
CONSTANTS
  p1 = p1
  p2 = p2
  d1 = d1
  d2 = d2
  Nothing = Nothing
  Torn = Torn
  Paths <- MCPaths
  Contents <- OneContent
  MaxDrops = 2
  MaxCrashes = 1
  MaxLosses = 0
PROPERTY InboxDrains
\* Every file dealt with, the watcher waits for the next: no step is left.
CHECK_DEADLOCK FALSE
