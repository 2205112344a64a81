SPECIFICATION Spec
CONSTANTS
  MaxTokens = 2
  MaxStarts = 2
INVARIANT NoFlashUnderInstall
CHECK_DEADLOCK FALSE
