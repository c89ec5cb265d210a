CONSTANTS
  a = a
  b = b
  NoTip = NoTip
  Tip <- MCTip
  Width = 3
  Fields <- MCFields
  MaxExits = 1
SPECIFICATION FairSpec
INVARIANTS
  TypeOK
  IsolatedUnlessCollision
PROPERTIES
  ExchangesEnd
  PipeIsFreed
CHECK_DEADLOCK FALSE
