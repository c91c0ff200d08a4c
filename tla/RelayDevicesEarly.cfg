CONSTANTS
  Keys = {k1}
  Devices = {d1, d2}
  Pairings = {p1}
  Conns = {c1}
  RevokeEarly = TRUE
  WritesFail = FALSE
  MaxGen = 2
  MaxRestarts = 0
  None = None
  k1 = k1
  d1 = d1
  d2 = d2
  p1 = p1
  c1 = c1
SPECIFICATION Spec
SYMMETRY Symmetry
INVARIANT RevocationIsStored
CHECK_DEADLOCK FALSE
