SPECIFICATION FairSpec
CONSTANTS
  a = a
  b = b
  c = c
  x = x
  y = y
  NoPath = NoPath
  NoScreen = NoScreen
  Nothing = Nothing
  Unknown = Unknown
  Paths <- mcPaths
  Options <- mcOptions
  Menus <- mcMenus
  FaultAfter = 4
  RetryEvery = 10
  MaxEdits = 2
  MaxLosses = 0
  MaxDeaths = 1
  MaxGiveUps = 2
  MaxRestarts = 1
INVARIANTS
  TypeOK
  AppliedListRight
  LoopOptionsRight

  
