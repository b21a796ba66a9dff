\* Two sessions of one sender and one receiver; a process killed, datagrams lost
SPECIFICATION FairSpec
CONSTANTS
  Snd = {s1}
  Rcv = {r1}
  MaxSessions = 2
  MaxAck = 1
  MaxSilent = 1
  MaxOk = 2
  MaxRequest = 4
  MaxKills = 1
  MaxLost = 0
  Cap = 1
CHECK_DEADLOCK FALSE
INVARIANTS TypeOK AtMostOneChangeBehind
PROPERTIES EverySessionEnds SenderFreed
