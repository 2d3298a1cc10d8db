CONSTANTS
  Calls = {i1, i2}
  Value <- MCValue
  LastPort = 2
  Used = {i1}
  MaxStarts = 3
  MaxOthers = 0
  MaxOperations = 2
  MayFail = {i1}
SPECIFICATION Spec
INVARIANTS IdentityKept ReadyServes FailsForAReason ClosedAfterStop UserIsTold
CHECK_DEADLOCK FALSE
