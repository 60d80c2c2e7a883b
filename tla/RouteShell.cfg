SPECIFICATION Spec
CONSTANTS
  Entries = {"org", "site"}
  Links = {"org", "settings", "login"}
  Answers = {"authenticated", "needs_mfa", "no_credential", "expired", "unavailable"}
  MaxMoves = 1
  ReadsSession = {"org", "settings"}
  ReadsOrganization = {"org"}
INVARIANTS
  TypeOK
  FreshVerdicts
  ShownIsAdmitted
PROPERTIES
  ViewMovesForward
  OnlyAVerdictSignsOut
CHECK_DEADLOCK FALSE
