SPECIFICATION HookSpec
CONSTANT
  MaxList = 2
INVARIANTS
  NeverDirect
  
  
CHECK_DEADLOCK FALSE
