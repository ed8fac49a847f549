SPECIFICATION HookSpec
CONSTANT
  MaxList = 2
INVARIANT
  FalseOnFailure
CHECK_DEADLOCK FALSE
