CONSTANTS
  Windows = {w1, w2}
  Broker = broker
  Ids = {"a", "b"}
  Default = "default"
  None = none
  Packages <- MCPackages
  FirstThemes <- MCFirstThemes
  FirstWindows = {w1}
  MaxDirs = 3
  MaxEvents = 3
  MaxFailures = 2
  Manifest <- MCManifest
  CaseFold <- MCCaseFold
  MaxEntries = 3
  MaxAsset = 1
  MaxPackage = 3
  Archives <- MCArchives
SPECIFICATION MCSpec
INVARIANTS
  TypeOK
  InstalledWhole
  ActiveIsInstalled
  FileWhole
  SelectedIsListed
  LeftoversExplained
  ImportsAnswer
  ReadersAgree
  UnpacksToATree
PROPERTIES
  HeldStays
  NeverReplaced
CHECK_DEADLOCK FALSE
