CONSTANTS
  a = a
  b = b
  c = c
  Computers = {a, b, c}
  Calls <- MCThird
SPECIFICATION FairSpec
INVARIANTS SingleSession NoGuestsAfterStop
PROPERTIES DisplacedByOwnCall CallsSettle
CHECK_DEADLOCK FALSE
