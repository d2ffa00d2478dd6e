SPECIFICATION FairSpec
CONSTANTS
  Charges = {c1, c2}
  Sessions = {s1, s2}
  Hooks = {h1, h2}
  MaxFaults = 1
INVARIANT
  PaymentsCohere
PROPERTY
  Implements
CHECK_DEADLOCK FALSE
