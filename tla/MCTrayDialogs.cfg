SPECIFICATION DialogSpec
CONSTANTS
  States = {"running", "degraded"}
  Keys = {"k1", "k2"}
  Lists <- MCLists
  MaxDepth = 3
INVARIANTS
  
  DialogPointers
  
PROPERTIES
  StateIsApplied
  CancelClosesTray
CHECK_DEADLOCK FALSE
