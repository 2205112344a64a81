SPECIFICATION FairSpec
CONSTANTS
  a = a
  b = b
  c = c
  x = x
  y = y
  NoPath = NoPath
  NoScreen = NoScreen
  Nothing = Nothing
  Unknown = Unknown
  Paths <- mcPaths
  Options <- mcOptions
  Menus <- mcOneItem
  FaultAfter = 4
  RetryEvery = 10
  MaxEdits = 0
  MaxLosses = 1
  MaxDeaths = 0
  MaxGiveUps = 1
  MaxRestarts = 0
PROPERTY ContentComesBack
