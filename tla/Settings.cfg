CONSTANTS
  Calls = {c1, c2}
  Value <- Configuration
  Rates = {30, 60}
  Default <- MCDefault
  RecoveryLimit = 1
  MaxEdits = 2
  MaxSnapshots = 1
  MaxStarts = 2
  MayFail = TRUE
SPECIFICATION Spec
INVARIANTS SettingsSurvive MediaFollowsState
PROPERTIES DraftKept
CHECK_DEADLOCK FALSE
