CONSTANTS
  f1 = f1
  f2 = f2
  NoContext = NoContext
  Context <- MCBothFields
  Capacity = 2
  Batch = 1
  Kind <- MCTypingKinds
  TimerMayFail = TRUE
  CaretMayFail = FALSE
  MaxKeys = 3
  MaxEvents = 2
SPECIFICATION Spec
INVARIANTS
  TypeOK
  QueueIsServed
  SessionMatchesField
PROPERTIES
  ReplayStaysInField
  ReplayStartsInChineseMode
  DeliveryKept
SYMMETRY MCSymmetry
CHECK_DEADLOCK FALSE
