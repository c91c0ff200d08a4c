SPECIFICATION FairSpec
CONSTANTS
  p1 = p1
  Peers = {p1}
  Bodies = {"event", "presence"}
  MaxSeq = 3
  QueueCap = 2
  ReplayMax = 2
INVARIANTS
  TypeOK ReplayComplete SyncedPeerHasAll DeliveredWithoutGaps
CHECK_DEADLOCK FALSE
PROPERTY OwedUpdatesArrive
