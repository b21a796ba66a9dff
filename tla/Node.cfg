\* Three requests to change role, two workers
SPECIFICATION FairSpec
CONSTANTS
  Worker = {w1, w2}
  List = {in, out}
  MeIn = {in}
  MaxRequests = 3
CHECK_DEADLOCK FALSE
INVARIANTS TypeOK RoleSettled FormerAgentsStopped
PROPERTIES OneServer RoleChangeEnds
