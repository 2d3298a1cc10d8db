CONSTANTS
  Initiator = Initiator
  Responder = Responder
  Asked <- MCAsked
  NoNumber = NoNumber
  MaxSends = 2
  MayFail = TRUE
SPECIFICATION FairSpec
INVARIANTS NonceUsedOnce OnlyUncheckedRefused
PROPERTIES ReliableSpec SkipEndsSession
CHECK_DEADLOCK FALSE
