\* Capacity = MaxTokens, as kReportQueueCap = kReportQueueTokens.
SPECIFICATION FairQueueSpec
CONSTANTS
  w1 = w1
  w2 = w2
  Poppers <- MCPoppers
  Capacity = 2
  MaxTokens = 2
  MaxPush = 5
INVARIANTS
  QueueTypeOK
  Conservation
  NewestKept
  NoLostWakeup
PROPERTY
  Drained
