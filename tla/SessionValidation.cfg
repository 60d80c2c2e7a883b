SPECIFICATION FairSpec
CONSTANTS
  TotalCap = 8000
  AttemptTimeout = 4000
  MaxWait = 2000
  BackoffBase = 200
  MinUseful = 100
  Delays = {0, 150, 900, 3950}
  RetryAfters = {0, 1, 3}
  Lateness = {0, 40, 9000}
  None = None
INVARIANTS
  TypeOK
  WithinBudget
  OutageIsNotVerdict
PROPERTIES
  HonorsRetryAfter
  Returns
CHECK_DEADLOCK FALSE
