SPECIFICATION FairSpec
CONSTANTS
  Clients = {c1}
  Addr = {a1, a2}
  Capacity = 2
  INT_MAX = 9
  MaxCalls = 4
  Ops = {"map", "evict", "mark_dirty", "mark_eviction", "pin", "unpin", "sync", "disable"}
  Faults = {}
  Careful = TRUE
  Thread = Thread
  NoOne = NoOne
  NULL = NULL
PROPERTIES DirtyIsFlushed CallReturns
CHECK_DEADLOCK FALSE
