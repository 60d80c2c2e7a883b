SPECIFICATION Spec
CONSTANTS
  Entries = {"org"}
  Links = {"settings"}
  Answers = {"authenticated", "unavailable"}
  MaxMoves = 1
  ReadsSession = {"org", "settings"}
  ReadsOrganization = {"org"}
PROPERTIES
  OutageKeepsAddress
CHECK_DEADLOCK FALSE
