SPECIFICATION FairClientSpec
CONSTANTS
  w1 = w1
  w2 = w2
  w3 = w3
  Poppers <- MCPoppers
  Capacity = 1
  MaxTokens = 1
  MaxPush = 2
  BackoffStart = 1
  BackoffCap = 3
  ReconnectBudget = 5
  ConnectTime = 2
  MaxConfig = 2
  MaxLosses = 2
INVARIANTS
  ClientTypeOK
  SomebodyDrives
  OneDriver
PROPERTIES
  RoutePinned
  GivesUp
  Converges
CHECK_DEADLOCK FALSE
