SPECIFICATION Spec
CONSTANTS
  Missing = Missing
  Garbage = Garbage
  None = None
  Contents <- OnlyMissing
  Entries <- MCEntries
  ProfileKnown = TRUE
PROPERTIES
  ExistingNotOverwritten
CHECK_DEADLOCK FALSE
