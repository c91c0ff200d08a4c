SPECIFICATION Spec
CONSTANTS
  p1 = p1
  Peers = {p1}
  NoPeer = NoPeer
  Bodies = {"event"}
  MaxSeq = 2
  QueueCap = 2
  ReplayMax = 2
  MaxParked = 1
INVARIANT CursorNeverSkips
CHECK_DEADLOCK FALSE
