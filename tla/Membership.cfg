SPECIFICATION FairSpec
CONSTANTS
  l1 = l1
  l2 = l2
  f1 = f1
  f2 = f2
  Ldr = {l1, l2}
  Flw = {f1, f2}
  Networks <- Small
  Every = 2
  PurgeEvery = 1
  MaxMoves = 1
  MaxLost = 2
  None = None
INVARIANTS TypeOK
PROPERTIES PurgeSparesReporting OneMonitor PeersConverge
