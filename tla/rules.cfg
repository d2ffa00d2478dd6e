SPECIFICATION FairSpec
CONSTANTS
  Rows = {1, 2, 3}
  MonthLen <- MCMonthLen
  Starts <- MCStarts
  Moves <- MCMoves
  Counts = {3}
  Clock <- MCClock
  Sessions = {c1}
  Handlers <- AllHandlers
  MaxFaults = 1
INVARIANTS
  RulesCohere
  FutureStaysDeleted
PROPERTIES
  StoppedStaysSilent
  CatchesUp
CHECK_DEADLOCK FALSE
