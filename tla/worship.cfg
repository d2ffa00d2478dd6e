SPECIFICATION AllSpec
CONSTANTS
  Instances = {i1, i2, i3}
  Runs = {r1, r2}
  MonthStart <- MCMonthStart
  FirstWeekday = 5
  Today <- MCToday
  Weekdays = {0}
  HandMade <- MCHandMade
  MaxFaults = 1
  Services = {d1}
  Sessions = {r1, r2}
  Segments = {s1, s2}
  Dispatches = {n1}
  Tags <- MCTags
  Criteria <- MCCriteria
  Batch = 1
  Tokens = {i1, i2, i3}
  Links = {o1, o2}
  Tabs = {r1, r2}
  MaxResets = 1
SYMMETRY Symmetry
INVARIANTS
  TargetsAreOccurrences
  CelebrationsCohere
  OrdersCohere
  
  LoginsCohere
CHECK_DEADLOCK FALSE
