SPECIFICATION FairSpec
CONSTANTS
  Posts = {p1, p2}
  Instances = {i1, i2}
  Sessions = {c1}
  MaxCrashes = 1

  
PROPERTIES
  StampIsKept
  DueIsPublished
CHECK_DEADLOCK FALSE
