\* One round of one initiator; another leader may crash
SPECIFICATION FairSpec
CONSTANTS
  NoList = NoList
  Leader = {a, b, c}
  Initiator = {a}
  SelectionId = {1}
  Cost = {1}
  Changes = {0}
  MaxRounds = 1
  Lossy = FALSE
  MayCrash = {b}
  MayDemote = {}
CHECK_DEADLOCK FALSE
PROPERTIES  ChoiceReachesAll
