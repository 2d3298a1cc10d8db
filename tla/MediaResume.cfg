CONSTANTS
  Sides = {left, right}
  MaxConnections = 1
  MaxReversals = 0
  MaxOutages = 1
  MaxSaves = 1
  MaxReloads = 0
  MayFail = FALSE
SPECIFICATION FairSpec
INVARIANTS RestartsOwnConnection
PROPERTIES MediaSettles
CHECK_DEADLOCK FALSE
