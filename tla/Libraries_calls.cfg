SPECIFICATION LibrariesSpec
CONSTANTS
  Width = 4
  total_bits = 9
  Counts = {0, 2, 6, 9}
  Keys = {k1, k2}
  Strings = {1, 2, 3}
  MaxEntries = 5
  Nodes = {n1, n2, n3, n4}
  List = List
INVARIANTS TypeOK OthersKept SuccessSets CountExact FindComplete GrowExact
  DictOwns DictFits RingExact
CHECK_DEADLOCK FALSE
