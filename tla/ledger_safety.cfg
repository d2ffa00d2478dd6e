SPECIFICATION Spec
CONSTANTS
  t1 = t1
  t2 = t2
  Txs = {t1, t2}
  Reqs = {r1, r2, r3}
  Scopes <- MCScopes
  Faults = {"step", "lostAck", "markError", "crash"}
SYMMETRY Symmetry
INVARIANTS
  ConfirmedWasExported
  DoneClosedItsRows
PROPERTY
  SettledStaysSettled
CHECK_DEADLOCK FALSE
