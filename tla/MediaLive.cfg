CONSTANTS
  Sides = {left, right}
  MaxConnections = 1
  MaxReversals = 1
  MaxOutages = 0
  MaxSaves = 0
  MaxReloads = 0
  MayFail = FALSE
SPECIFICATION FairSpec
INVARIANTS OnlySharersSend
PROPERTIES MediaSettles
CHECK_DEADLOCK FALSE
