SPECIFICATION Spec
CONSTANTS
  NULL = NULL
  Off = Off
  Cards = {"a", "b", "c"}
  Sizes <- MCSizes
  Sigs <- MCSigs
  ImageSize = 1
  MaxRuns = 2
  MaxSwaps = 1
  MaxTokens = 2
  MaxStarts = 4
  MaxTries = 2
  MaxCuts = 2
  Day = 4
  Gap = 3
  WindowStart = 3
  WindowEnd = 1
  MaxTime = 6
  MaxMarkFailures = 1
  MaxCommands = 1
  MaxWants = 3
  MaxMisses = 2
  MaxPresses = 1
  MaxStops = 1
  Contents = {"x", "y"}
  MaxChanges = 3
INVARIANTS
  TypeOK
  
  
  
  
  
  
PROPERTIES
  FreshTokenKept
  NightlyOnce
CHECK_DEADLOCK FALSE
