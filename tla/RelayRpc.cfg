CONSTANTS
  Clients = {c1}
  Daemons = {d1, d2}
  Methods = {m1}
  Ids = {r1, r2}
  MaxPending = 1
  NoPeer = NoPeer
  c1 = c1
  d1 = d1
  d2 = d2
  m1 = m1
  r1 = r1
  r2 = r2
SPECIFICATION FairSpec
INVARIANTS TypeOK PendingHasLivePeers ParkedHasNoServer AssignedIsTold AnsweredOnce OneLiveServer
CHECK_DEADLOCK FALSE
PROPERTY CallsEnd
