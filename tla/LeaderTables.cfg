SPECIFICATION FairSpec
CONSTANTS
  l1 = l1
  l2 = l2
  f1 = f1
  f2 = f2
  Ldr = {l1, l2}
  Flw = {f1, f2}
  Home <- HomeOf
  Latency <- LatencyOf
  Tests <- SomeTests
  MaxPurges = 1
  NoRow = NoRow
  Null = Null
INVARIANTS TypeOK NoDrift 
 
