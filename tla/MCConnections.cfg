SPECIFICATION Spec
CONSTANTS
  c1 = c1
  c2 = c2
  Conns = {c1, c2}
  Kinds = {"pipe", "cygwin"}
INVARIANTS
  PipeDrained
PROPERTIES
  CancelReturns
  CancelClosesAll
  NoGoroutineLeft
  AgentRecovers
CHECK_DEADLOCK FALSE
