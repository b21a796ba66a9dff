\* Deadlock of calcSelection with the thread it joins, in two rounds of one initiator
SPECIFICATION Spec
CONSTANTS
  NoList = NoList
  Leader = {a, b}
  Initiator = {a}
  SelectionId = {1, 2}
  Cost = {1}
  Changes = {0}
  MaxRounds = 2
  Lossy = FALSE
  MayCrash = {}
  MayDemote = {}
CHECK_DEADLOCK FALSE
INVARIANT NoJoinDeadlock
