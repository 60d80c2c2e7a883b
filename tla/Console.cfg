SPECIFICATION ConsoleSpec
CONSTANTS
  t1 = t1
  t2 = t2
  Tabs = {t1, t2}
  MaxLinks = 2
  MaxSubmits = 2
  MaxWeak = 2
  MaxVersions = 4
  o1 = o1
  o2 = o2
  Others = {o1, o2}
  MaxSecrets = 2
  MaxCodes = 2
SYMMETRY TabSymmetry
INVARIANTS ConsoleTypeOK SetIsMine DeadIsDead StaleLinkIsFlagged DoneIsDone CodesAreTheNewest
PROPERTY BlindOnlyIfRebuilt
