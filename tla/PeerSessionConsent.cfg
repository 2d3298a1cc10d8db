CONSTANTS
  PairingTicks = 2
  ConnectionTicks = 3
  Intents = {"ViewRemote", "ShareLocal"}
  LinkMayFail = TRUE
  MaxReversals = 0
  MaxSignals = 0
  MaxQueries = 0
SPECIFICATION FairSpec
INVARIANTS MutualConsent EverySessionTimed
PROPERTIES BothEndsShut ConsentSettles
CHECK_DEADLOCK FALSE
