SPECIFICATION Spec
CONSTANTS
  i1 = i1
  i2 = i2
  i3 = i3
  p1 = p1
  p2 = p2
  p3 = p3
  s1 = s1
  s2 = s2
  NoFile = NoFile
  Foreign = Foreign
  Directory = Directory
  None = None
  Instances = {i1, i2, i3}
  Pids = {p1, p2, p3}
  Sessions = {s1}
  StalledStart = FALSE
SYMMETRY Interchangeable
INVARIANTS
  ServingPair
  NeverMixed
PROPERTIES
  LiveFilesPreserved
  UserFilesPreserved
CHECK_DEADLOCK FALSE
