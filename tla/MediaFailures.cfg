CONSTANTS
  Sides = {left, right}
  MaxConnections = 1
  MaxReversals = 0
  MaxOutages = 1
  MaxSaves = 0
  MaxReloads = 1
  MayFail = TRUE
SPECIFICATION MediaSpec
INVARIANTS SignalsInOrder
CHECK_DEADLOCK FALSE
SYMMETRY Swaps
