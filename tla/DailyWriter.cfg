SPECIFICATION LogSpec
CONSTANT LastDay = 3
INVARIANTS
  RecordsKept
  NoHandleLeft
