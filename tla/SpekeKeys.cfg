SPECIFICATION FairSpec
CONSTANTS
  Password <- MCPassword
  Typed <- MCTyped
  MAX_ITER_A = 4
  MAX_ITER_B = 3
  MaxTries = 5
  Crashes = TRUE
INVARIANTS KeysMatch ChainFollows SamePassword
PROPERTIES NobodyStuck
CHECK_DEADLOCK FALSE
