SPECIFICATION Spec
CONSTANTS
  Conns = {"c1", "c2"}
  MaxGen = 2
  ChanCap = 1
  MaxReq <- Requests
  PipeCap = 2
INVARIANTS
  AnswersAreOwn
  PanicNeedsLeaver
  BlockedByBacklog
CHECK_DEADLOCK FALSE
