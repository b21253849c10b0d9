SPECIFICATION Spec
CONSTANTS
  Width = 4
  total_bits = 9
  Counts = {0, 2, 6, 9}
INVARIANTS FindSound
