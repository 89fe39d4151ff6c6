SPECIFICATION FairSpec
CONSTANTS
  Key <- MCKey
  Rounds = 2
  Crashes = TRUE
INVARIANTS HonestRoundsHold InStep SuccessIsTrue
PROPERTIES BothEnd
CHECK_DEADLOCK FALSE
