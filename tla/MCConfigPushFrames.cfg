SPECIFICATION PushSpec
CONSTANTS
  MaxSets = 2
  MaxSessions = 1
INVARIANT
  WholeMessages
CHECK_DEADLOCK FALSE
