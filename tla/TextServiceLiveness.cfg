CONSTANTS
  f1 = f1
  f2 = f2
  NoContext = NoContext
  Context <- MCOneField
  Capacity = 3
  Batch = 2
  Kind <- MCAllKinds
  TimerMayFail = FALSE
  CaretMayFail = FALSE
  MaxKeys = 3
  MaxEvents = 1
SPECIFICATION FairSpec
PROPERTIES
  QueuedKeysLeave
CHECK_DEADLOCK FALSE
