SPECIFICATION Spec
CONSTANTS
  p1 = p1
  r1 = r1
  m1 = m1
  c1 = c1
  l1 = l1
  Probes = {p1}
  Reads = {r1}
  Mutations = {}
  Ceremonies = {c1}
  Logouts = {}
  MayTear = TRUE
  None = None
INVARIANTS
  OneRenewal
  NoStaleRotation
  VerdictIsReal
  OwnCancellation
  ReadAtMostTwice
PROPERTIES
  NotOverWhileRenewable
CHECK_DEADLOCK FALSE
