SPECIFICATION AllSpec
CONSTANTS
  Volunteers = {v1, v2, v3}
  Candidates = {v1, v2, v3}
  Slots = {s1}
  Required <- MCRequired
  Assignments = {a1, a2}
  Swaps = {w1, w2}
  Sessions = {c1, c2}
  Handlers = {"createAssignment", "removeAssignment", "suggest", "respond", "swapCreate", "swapAccept", "swapReject", "swapCancel"}
  Ministries = {}
  Top = Top
  TreeHandlers = {}
SYMMETRY Symmetry
INVARIANT
  SeatsCohere
PROPERTIES
  HandoverIsRecorded
  ResolvedStaysResolved
CHECK_DEADLOCK FALSE
