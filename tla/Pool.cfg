\* Two connections, three workers, a failing accept and a stop at any time
SPECIFICATION FairSpec
CONSTANTS
  Fd = {f1, f2}
  Worker = {w1, w2, w3}
  Cell = {c1, c2}
  Null = Null
  MayStop = TRUE
  AcceptErrors = TRUE
CHECK_DEADLOCK FALSE
INVARIANTS TypeOK OneHolder NoSleepOverWork
PROPERTIES ImplementsFifo EveryRequestServed StopEnds
