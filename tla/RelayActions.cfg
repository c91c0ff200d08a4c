CONSTANTS
  Daemons = {d1, d2}
  Actions = {a1}
  MaxDispatch = 1
  MaxFaults = 3
  NoPeer = NoPeer
  d1 = d1
  d2 = d2
  a1 = a1
SPECIFICATION FairSpec
INVARIANTS TypeOK InFlightHasLiveOwner OneLiveRunner OwnerIsAsked 
 
CHECK_DEADLOCK FALSE
