SPECIFICATION FairSpec
CONSTANTS
  Peer = {p1, p2}
  Pipe = 1
  MaxChanges = 2
  None = None
INVARIANTS TypeOK MeasuredAgain EstimateNotRefused NothingLeftRunning
PROPERTY StopReturns
CHECK_DEADLOCK FALSE
