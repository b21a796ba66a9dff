\* Two consecutive rounds of one initiator, broken connections, a crash, demotions
SPECIFICATION Spec
CONSTANTS
  NoList = NoList
  Leader = {a, b}
  Initiator = {a}
  SelectionId = {1, 2}
  Cost = {1}
  Changes = {0}
  MaxRounds = 2
  Lossy = TRUE
  MayCrash = {b}
  MayDemote = {a, b}
CHECK_DEADLOCK FALSE
INVARIANTS TypeOK RoundAgreement BusyHasOwner
