\* Liveness: one worker, and the other writers in its way.
SPECIFICATION FairSpec
CONSTANTS
  w = w
  h = h
  r1 = r1
  r2 = r2
  t = t
  c1 = c1
  c2 = c2
  m1 = m1
  m2 = m2
  NoProc = NoProc
  Writers <- MCWriters
  Early <- MCEarly
  Workers <- OneWorker
  Triggers <- MCTriggers
  Connections <- OneConnection
  Marts <- MCMarts
  MaxRaw = 2
  MaxCrashes = 1
PROPERTY ChangesGetShown
