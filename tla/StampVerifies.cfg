SPECIFICATION Spec
CONSTANTS
  u1 = u1
  u2 = u2
  u3 = u3
  User <- MCUser
  Mode <- MCMode
  Backlog = 1
  Address = {"address"}
  Crashes = FALSE
INVARIANTS OwnStampVerifies
CHECK_DEADLOCK FALSE
