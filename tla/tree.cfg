SPECIFICATION AllSpec
CONSTANTS
  Volunteers = {}
  Candidates = {}
  Slots = {}
  Required <- MCRequired
  Assignments = {}
  Swaps = {}
  Handlers = {}
  Ministries = {m1, m2, m3, m4}
  Top = Top
  Sessions = {c1, c2}
  TreeHandlers = {"create", "move", "remove"}
SYMMETRY Symmetry
PROPERTIES
  LostOnlyByRacingMoves
  
CHECK_DEADLOCK FALSE
