CONSTANTS
  Keys = {k1}
  Devices = {d1, d2}
  Pairings = {p1, p2}
  Conns = {c1}
  RevokeEarly = FALSE
  WritesFail = TRUE
  MaxGen = 2
  MaxRestarts = 1
  None = None
  k1 = k1
  d1 = d1
  d2 = d2
  p1 = p1
  p2 = p2
  c1 = c1
SPECIFICATION Spec
SYMMETRY Symmetry
INVARIANTS TypeOK RevokedIsGone RevocationIsStored OneDevicePerKey ClaimedTokenWorks
CHECK_DEADLOCK FALSE
