SPECIFICATION Spec
CONSTANTS
  pageant = pageant
  Components = {pageant}
  Hangable = {}
INVARIANTS
  TrayTimeoutIsReal
CHECK_DEADLOCK FALSE
