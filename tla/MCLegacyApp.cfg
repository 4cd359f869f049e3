SPECIFICATION LegacySpec
CONSTANTS
  Order <- Started3
  Pageant = "pageant"
  Notices = {"n1", "n2"}
  Own = 2
  Cap = 3
INVARIANT NothingLeft
PROPERTIES
  CommandsRun
  ShutdownEnds
CHECK_DEADLOCK FALSE
