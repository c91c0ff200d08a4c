SPECIFICATION Spec
CONSTANTS
  p1 = p1
  Peers = {p1}
  NoPeer = NoPeer
  Bodies = {"event", "bootstrap"}
  MaxSeq = 3
  QueueCap = 2
  ReplayMax = 2
  MaxParked = 1
PROPERTY CursorWaitsForEvents
CHECK_DEADLOCK FALSE
