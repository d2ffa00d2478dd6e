SPECIFICATION AllSpec
CONSTANTS
  Volunteers = {v1, v2, v3}
  Candidates = {v1, v2, v3}
  Slots = {s1, s2}
  Required <- MCRequired
  Assignments = {a1, a2}
  Swaps = {w1, w2}
  Sessions = {c1}
  Handlers <- AllHandlers
  Ministries = {}
  Top = Top
  TreeHandlers = {}
SYMMETRY Symmetry
INVARIANT
  RosterCoheres
PROPERTIES
  
  SuggestNeverDoubleBooks
  AnsweredOnceByTheHolder
CHECK_DEADLOCK FALSE
