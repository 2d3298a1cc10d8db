CONSTANTS
  Calls = {c1, c2}
  Value <- MCValue
  Devices = {d1}
  Intents = {"ViewRemote"}
  TrustDuration = 2
  MaxTime = 3
  MayFail = TRUE
SPECIFICATION Spec
INVARIANTS FileIsWhole FileFollowsMemory ClearedOnceWritten TrustNeverProlonged
SYMMETRY Swaps
