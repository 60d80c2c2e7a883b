SPECIFICATION FairSpec
CONSTANTS
  p1 = p1
  r1 = r1
  m1 = m1
  c1 = c1
  l1 = l1
  Probes = {p1}
  Reads = {}
  Mutations = {m1}
  Ceremonies = {}
  Logouts = {}
  MayTear = TRUE
  None = None
PROPERTIES
  EveryCallSettles
  ImplementsContract
CHECK_DEADLOCK FALSE
