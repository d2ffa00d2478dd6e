SPECIFICATION FairSpec
CONSTANTS
  t1 = t1
  t2 = t2
  Txs = {t1}
  Reqs = {r1}
  Scopes <- MCScopes
  Faults = {}
PROPERTY
  AcceptedJobEnds
CHECK_DEADLOCK FALSE
