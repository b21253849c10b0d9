SPECIFICATION Spec
CONSTANTS
  Clients = {c1}
  Blocks = {0, 1, 2}
  Extents <- Growing
  Capacity = 2
  MaxCalls = 4
  MaxWrites = 1
  Faults = {}
  Careful = FALSE
  Thread = Thread
  NoOne = NoOne
INVARIANTS Placed
CHECK_DEADLOCK FALSE
