CONSTANTS
  MaxLetters = 3
  MaxPageSize = 2
  MaxWindow = 2
  Full = 2
  Menu <- MCMenu
  Seed <- MCSeed
  Sizes <- MCSizes
  Rows = 2
  Runtimes <- MCRuntimes
  Schemas <- MCSchemas
  MaxLost = 1
  MaxEvents = 1
  MaxSteps = 5
SPECIFICATION Spec
INVARIANTS
  TypeOK
  PagesFollow
  KeysAccounted
  BeliefMatches
  ShownIsSelected
  NoOldLetters
  OrphansAreLost
PROPERTIES
  ToggleUnlessUsed
CHECK_DEADLOCK FALSE
