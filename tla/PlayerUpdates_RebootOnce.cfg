SPECIFICATION Spec
CONSTANTS
  NULL = NULL
  Day = 4
  Gap = 3
  WindowStart = 3
  WindowEnd = 1
  MaxTime = 6
  MaxCuts = 0
  MaxMarkFailures = 1
  MaxCommands = 1
INVARIANT RebootOnce
CHECK_DEADLOCK FALSE
