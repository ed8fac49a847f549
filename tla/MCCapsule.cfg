\* A set of three hooks fails at the first, in the middle or at ConnectEx; three
\* attempts see a mapping that is late, lost or too late.  One socket row is
\* contended by two socket values and two incarnations of each; two association
\* rows are reused three times by two users; names and logins of every length at
\* which the encoding changes its mind.
SPECIFICATION CapsuleSpec
CONSTANTS
  Hooks = 3
  Tries = 3
  HostThreads = {1, 2}
  u1 = u1
  u2 = u2
  Users <- MCUsers
  AssocRows = 2
  IdleLimit = 2
  Controls = {1, 2}
  MaxRelay = 3
  MaxTick = 4
  SockRows = 1
  MaxDatagrams = 2
  MaxBytes = 2
  KeyQuarantine = 2
  Apps = {1, 2}
  Sizes = {0, 2, 3}
  Marks = {"takeover"}
  PumpApps = {2}
  MaxPush = 3
  MaxInsertions = 3
  MaxLives = 2
  MaxPins = 1
  MaxClock = 1
  NameLengths = {0, 1, 16, 17, 255, 256}
  Families = {"inet", "inet6", "unspec"}
CHECK_DEADLOCK FALSE
INVARIANTS
  NothingDangles
  HalfMadeLeaves
  StaleRefsDead
  
  ClosedOnce
  NoSilentLoss
  BudgetsExact
  NothingInherited
  GrantIsReal
  StaysInStep
  NeverDowngraded
  HeadersRoundTrip
PROPERTIES
  InUseStays
