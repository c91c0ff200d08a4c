SPECIFICATION FairSpec
CONSTANTS
  p1 = p1
  Peers = {p1}
  NoPeer = NoPeer
  Bodies = {"event", "bootstrap"}
  MaxSeq = 3
  QueueCap = 2
  ReplayMax = 1
  MaxParked = 1
INVARIANTS TypeOK PassedIsOnTheWay
 
CHECK_DEADLOCK FALSE
