SPECIFICATION Spec
CONSTANTS
  Missing = Missing
  Garbage = Garbage
  None = None
  Contents <- MCContents
  Entries <- MCEntries
  ProfileKnown = TRUE
PROPERTIES
  SavesAreAtomic
  NeverInvalidated
  NothingTorn
CHECK_DEADLOCK FALSE
