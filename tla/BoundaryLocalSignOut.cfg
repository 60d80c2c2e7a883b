SPECIFICATION Spec
CONSTANTS
  p1 = p1
  r1 = r1
  m1 = m1
  c1 = c1
  l1 = l1
  Probes = {p1}
  Reads = {}
  Mutations = {}
  Ceremonies = {}
  Logouts = {l1}
  MayTear = TRUE
  None = None
INVARIANTS
  SignedOutOnThisDevice
CHECK_DEADLOCK FALSE
