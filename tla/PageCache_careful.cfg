SPECIFICATION Spec
CONSTANTS
  Clients = {c1}
  Blocks = {0, 1, 2, 3}
  Extents <- Spread
  Capacity = 2
  MaxCalls = 6
  MaxWrites = 2
  Faults = {"malloc"}
  Careful = TRUE
  Thread = Thread
  NoOne = NoOne
PROPERTIES ImplementsWriteBack
INVARIANTS Placed NothingLost Coherent
CHECK_DEADLOCK FALSE
