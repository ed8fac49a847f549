SPECIFICATION ServerSpec
CONSTANTS
  NoPid = NoPid
  NoSession = NoSession
  p1 = p1
  p2 = p2
  s1 = s1
  s2 = s2
  s3 = s3
  Pids <- MCPids
  Sessions <- MCTwoSessions
  KeptCap = 1
  MaxMint = 3
SYMMETRY MCTwoSymmetry
INVARIANT
  EvictionSparesFresh
CHECK_DEADLOCK FALSE
