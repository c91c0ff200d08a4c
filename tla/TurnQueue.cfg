CONSTANTS
  UserMessages = {u1}
  AgentMessages = {a1, a2}
  SteerMessages = {u1}
  Edits = {e}
  MAX_QUEUED_TURNS = 1
  MaxMerged = 2
  CanSteer = TRUE
  MaxFaults = 1
  MaxOps = 1
SYMMETRY Senders
SPECIFICATION Spec
CHECK_DEADLOCK FALSE
INVARIANTS TypeOK  BusyThreadWillSettle  SentOnce QueueIsBounded
 
