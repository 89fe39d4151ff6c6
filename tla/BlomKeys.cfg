SPECIFICATION FairSpec
CONSTANTS
  alice = alice
  bob = bob
  carol = carol
  User <- MCUser
  Role <- MCRole
  P = 3
  Garbage <- MCGarbage
  Crashes = TRUE
INVARIANTS KeysAgree OwnMaterial
PROPERTIES EverybodyEnds
CHECK_DEADLOCK FALSE
