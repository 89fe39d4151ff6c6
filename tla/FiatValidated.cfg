SPECIFICATION Spec
CONSTANTS
  Key <- MCKey
  Rounds = 2
  Crashes = FALSE
INVARIANTS SuccessIsValidated
CHECK_DEADLOCK FALSE
