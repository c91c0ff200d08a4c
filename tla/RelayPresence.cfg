CONSTANTS
  Daemons = {d1, d2}
  Clients = {c1}
  d1 = d1
  d2 = d2
  c1 = c1
SPECIFICATION Spec
SYMMETRY DaemonSymmetry
INVARIANTS TypeOK ChangesAreComputed LogFollowsPeers
