CONSTANTS
  Daemons = {d1}
  Clients = {c1}
  d1 = d1
  c1 = c1
SPECIFICATION FairSpec
PROPERTY ReadinessShows
