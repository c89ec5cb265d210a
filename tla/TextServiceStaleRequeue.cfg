CONSTANTS
  f1 = f1
  f2 = f2
  NoContext = NoContext
  Context <- MCOneField
  Capacity = 2
  Batch = 1
  Kind <- MCLettersAndMarks
  TimerMayFail = FALSE
  CaretMayFail = FALSE
  MaxKeys = 2
  MaxEvents = 1
SPECIFICATION Spec
PROPERTIES
  NoStaleRequeue
CHECK_DEADLOCK FALSE
