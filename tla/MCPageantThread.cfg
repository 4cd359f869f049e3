SPECIFICATION Spec
CONSTANTS
  c1 = c1
  c2 = c2
  None = None
  Clients <- MCClients
  Requests <- MCRequests
  MaxMessageLen = 8
INVARIANTS
  WindowHasComponent
  InBounds
PROPERTIES
  ImplementsInterface
  SenderReleased
CHECK_DEADLOCK FALSE
