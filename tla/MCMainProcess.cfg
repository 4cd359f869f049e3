SPECIFICATION FairSpec
CONSTANTS
  pageant = pageant
  Components = {pageant}
  Hangable = {pageant}
INVARIANTS
  CleanExit
  TrayWasTold
PROPERTIES
  ImplementsLifecycle
  CancelEndsProcess
  TrayFailureEndsProcess
CHECK_DEADLOCK FALSE
