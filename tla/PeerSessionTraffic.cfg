CONSTANTS
  PairingTicks = 1
  ConnectionTicks = 1
  Intents = {"ViewRemote"}
  LinkMayFail = FALSE
  MaxReversals = 1
  MaxSignals = 1
  MaxQueries = 1
SPECIFICATION Spec
INVARIANTS ReversalTokens ComplementaryRoles
PROPERTIES RejectedOnlyInRaces
CHECK_DEADLOCK FALSE
