SPECIFICATION FairSpec
CONSTANTS
  c1 = c1
  c2 = c2
  c3 = c3
  right = right
  wrong = wrong
  Client <- MCClient
  NoClient = NoClient
  Password <- MCPassword
  SECRET_PASSWORD = right
  NoPassword = NoPassword
  Iteration <- MCIteration
  INITIAL_ITER = 2
  ClientID <- MCClientID
  ID = "Client_A"
  Backlog = 1
  Torn <- MCTorn
INVARIANTS TypeOK UsedOnce AnswersAreVerdicts OnlyThePassword
PROPERTIES OnlySuccessAdvances ServiceSpec EverybodyAnswered
CHECK_DEADLOCK FALSE
