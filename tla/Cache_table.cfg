SPECIFICATION Spec
CONSTANTS
  Clients = {c1, c2}
  Addr = {a1, a2, a3}
  Capacity = 2
  INT_MAX = 9
  MaxCalls = 2
  Ops = {"map", "lookup", "evict", "mark_dirty", "mark_eviction", "pin", "sync"}
  Faults = {"timeout", "malloc", "pthread_create"}
  Careful = FALSE
  Thread = Thread
  NoOne = NoOne
  NULL = NULL
INVARIANTS TypeOK InUseExact TableSound CleanMeansClean
SYMMETRY Symmetry
CHECK_DEADLOCK FALSE
