CONSTANTS
  a = a
  b = b
  NoTip = NoTip
  Tip <- MCTip
  Width = 3
  Fields <- MCFields
  MaxExits = 1
SPECIFICATION Spec
INVARIANTS
  SessionsIsolated
CHECK_DEADLOCK FALSE
