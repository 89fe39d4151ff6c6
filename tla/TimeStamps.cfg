SPECIFICATION FairSpec
CONSTANTS
  u1 = u1
  u2 = u2
  u3 = u3
  User <- MCUser
  Mode <- MCMode
  Backlog = 1
  Address = {"address"}
  Crashes = TRUE
INVARIANTS StampIsOwn FileIsWritten
PROPERTIES EveryRunEnds
CHECK_DEADLOCK FALSE
