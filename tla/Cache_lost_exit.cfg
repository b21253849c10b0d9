SPECIFICATION FairSpec
CONSTANTS
  Clients = {c1}
  Addr = {a1, a2}
  Capacity = 1
  INT_MAX = 9
  MaxCalls = 1
  Ops = {"disable"}
  Faults = {"timeout"}
  Careful = FALSE
  Thread = Thread
  NoOne = NoOne
  NULL = NULL
PROPERTIES CallReturns
CHECK_DEADLOCK FALSE
