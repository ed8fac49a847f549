\* The bounds let both rows be issued, retired, drained and issued again.
SPECIFICATION FakeSpec
CONSTANTS
  t1 = t1
  t2 = t2
  NoName = NoName
  Threads <- MCThreads
  Names <- MCNames
  AdSuffix <- MCAdSuffix
  Capacity = 2
  Rings = {0, 2}
  MaxTouch = 4
  MaxTicks = 5
SYMMETRY Symmetric
CHECK_DEADLOCK FALSE
INVARIANTS
  FakeTypeOK
  
  NoEarlyMisroute
  RingDrains
PROPERTIES
  ImplementsNameMap
