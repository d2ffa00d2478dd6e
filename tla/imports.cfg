SPECIFICATION AllSpec
CONSTANTS
  Imports = {i1, i2}
  p1 = p1
  p2 = p2
  Phones = {p1, p2}
  NoPhone = none
  Files <- MCFiles
  SyncLimit = 2
  MaxFaults = 1
  Items = {n1, n2}
  Sessions = {c1, c2}
  MaxPlace = 3
INVARIANTS
  ImportsCohere
  DuplicateOnlyByOverlap
  
PROPERTIES
  Implements
  ReorderEnds
CHECK_DEADLOCK FALSE
