SPECIFICATION Spec
CONSTANTS
  Clients = {c1, c2}
  Addr = {a1, a2}
  Capacity = 1
  INT_MAX = 9
  MaxCalls = 2
  Ops = {"map", "mark_dirty", "sync"}
  Faults = {}
  Careful = TRUE
  Thread = Thread
  NoOne = NoOne
  NULL = NULL
PROPERTIES NoLostWrite
SYMMETRY Symmetry
CHECK_DEADLOCK FALSE
