SPECIFICATION Spec
CONSTANTS
  Clients = {c1}
  Addr = {a1, a2, a3}
  Capacity = 2
  INT_MAX = 9
  MaxCalls = 5
  Ops = {"map", "evict", "mark_dirty", "mark_eviction", "pin", "unpin", "sync", "disable", "pause", "clear_pause", "clear_loop_done", "wait_el", "set_flags"}
  Faults = {"malloc"}
  Careful = TRUE
  Thread = Thread
  NoOne = NoOne
  NULL = NULL
INVARIANTS InUseExact UnsavedIsDirty HandleSafe ElementExclusive EvictedMeansEmpty ThreadEndsFirst
PROPERTIES NoLostWrite PinnedStays SyncEvicts
SYMMETRY Symmetry
CHECK_DEADLOCK FALSE
