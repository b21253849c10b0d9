SPECIFICATION Spec
CONSTANTS
  Clients = {c1, c2}
  Blocks = {0, 1, 2, 3}
  Extents <- Spread
  Capacity = 2
  MaxCalls = 2
  MaxWrites = 1
  Faults = {"malloc"}
  Careful = FALSE
  Thread = Thread
  NoOne = NoOne
INVARIANTS TypeOK PagesDistinct
SYMMETRY Symmetry
CHECK_DEADLOCK FALSE
