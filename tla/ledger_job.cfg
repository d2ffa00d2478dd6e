SPECIFICATION FairSpec
CONSTANTS
  t1 = t1
  t2 = t2
  Txs = {t1, t2}
  Reqs = {r1, r2}
  Scopes <- MCScopes
  Faults = {"abort", "cut", "step"}
PROPERTIES
  Implements
  ProcessingEnds
CHECK_DEADLOCK FALSE
