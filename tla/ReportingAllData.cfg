SPECIFICATION Spec
CONSTANTS
  Peer = {p1, p2}
  Server = {s1, s2}
  Thing = {t1}
  MaxMoves = 1
  None = None
INVARIANT AllDataSent
