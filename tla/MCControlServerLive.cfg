SPECIFICATION FairServerSpec
CONSTANTS
  NoPid = NoPid
  NoSession = NoSession
  p1 = p1
  p2 = p2
  s1 = s1
  s2 = s2
  s3 = s3
  Pids <- MCOnePid
  Sessions <- MCTwoSessions
  KeptCap = 1
  MaxMint = 2
PROPERTY
  DeadLeave
CHECK_DEADLOCK FALSE
