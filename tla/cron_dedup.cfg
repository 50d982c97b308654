CONSTANTS
  n1 = n1
  n2 = n2
  a = a
  b = b
  Nodes = {n1, n2}
  Slugs = {a}
  Purge = Purge
  Times <- Clock
  Due <- EveryTick
  SkipIfRunning = {a}
  PurgeEvery = 2
  PurgeWindow = 1
  SetBack = TRUE
  MaxTime = 2
SPECIFICATION Spec
SYMMETRY NodeSymmetry
INVARIANTS DueFiresOnce PurgesApart
