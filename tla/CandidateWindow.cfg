CONSTANTS
  c1 = c1
  c2 = c2
  None = None
  Controls <- MCControls
  Default = "default"
  Skins = {"skin"}
  MaxShows = 2
  MaxEvents = 2
  MaxFailures = 1
  MaxReady = 1
  Scenes <- MCScenes
SPECIFICATION Spec
INVARIANTS
  TypeOK
  CaretOfFocus
  StaysHidden
  LatestIsShown
  NotOverOthers
  WillPresent
  StaysAtCaret
  ShownOpaque
  ScreenIsCurrent
SYMMETRY MCSymmetry
CHECK_DEADLOCK FALSE
