SPECIFICATION MCSpec
CONSTANTS
  Text <- MCText
  Crashes = TRUE
  a1 = a1
  a2 = a2
  a3 = a3
  Client <- MCClient
  Nobody = Nobody
  Number <- MCNumber
  ZeroAt <- MCZeroAt
  Junk = Junk
  Backlog = 1
INVARIANTS BothAgree PkInv
PROPERTIES TwoStepIdentifies TwoStepsComplete ThreeStepIdentifies ThreeStepsComplete PkIdentifies PkCompletes
CHECK_DEADLOCK FALSE
