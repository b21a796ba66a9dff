SPECIFICATION Spec
CONSTANTS
  n1 = n1
  n2 = n2
  n3 = n3
  Node = {n1, n2, n3}
  Threads = 2
  Tries = 2
  MaxLost = 1
  MaxOdd = 2
  None = None
CONSTRAINT FewFaults
SYMMETRY Interchangeable
CHECK_DEADLOCK FALSE
INVARIANTS TypeOK MeshComplete ExitNeedsStaleRow NoWaitCycle
