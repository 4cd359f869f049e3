SPECIFICATION AppFairSpec
CONSTANTS
  pageant = pageant
  cygwin = cygwin
  fake = fake
  Components = {pageant, cygwin, fake}
  Plain = {fake}
  Hangable = {pageant}
INVARIANTS
  RunningOnlyIfReady
  DegradedHasCause
  DoneMeansStopped
PROPERTIES
  CancelledRunReturns
  RunReturns
  CancelledStops
CHECK_DEADLOCK FALSE
