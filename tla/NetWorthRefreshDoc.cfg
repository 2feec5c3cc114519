\* The doc claim without its exception.
SPECIFICATION Spec
CONSTANTS
  w = w
  h = h
  r1 = r1
  r2 = r2
  t = t
  c1 = c1
  c2 = c2
  m1 = m1
  m2 = m2
  NoProc = NoProc
  Writers <- MCWriters
  Early <- MCEarly
  Workers <- MCWorkers
  Triggers <- MCTriggers
  Connections <- MCConnections
  Marts <- MCMarts
  MaxRaw = 3
  MaxCrashes = 2
INVARIANT NeverAStaleMart
