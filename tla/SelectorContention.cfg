\* Two of three leaders start a round at the same time
SPECIFICATION Spec
CONSTANTS
  NoList = NoList
  Leader = {a, b, c}
  Initiator = {a, b}
  SelectionId = {1, 2}
  Cost = {}
  Changes = {}
  MaxRounds = 1
  Lossy = FALSE
  MayCrash = {}
  MayDemote = {}
CHECK_DEADLOCK FALSE
INVARIANTS OneWinner SomeoneCanStart
