SPECIFICATION Spec
CONSTANTS
  NULL = NULL
  Off = Off
  Workers = {w1, w2}
  Lists = {p1}
  Files <- MCFiles
  Stored <- MCStored
  ThreeFiles <- MCThree
  MaxMedia = 3
  MaxItems = 3
  Bodies <- MCBodies
  MaxBytes = 2
  FlushAt = 2
  Serials = {s1}
  Groups = {g1}
  MaxRows = 2
  MaxTokens = 2
  Devices = {d1, d2}
  IrNames = {on, off}
  MaxDeliveries = 2
  MaxCommands = 2
  Browsers = {d1, d2}
  MaxUsers = 3
  MaxFailures = 2
  LockSeconds = 3
  MaxTime = 7
  MaxAlertTime = 2
  MaxDeaths = 1
  MaxPerHour = 1
  RuleSets <- MCRuleSets
  Fallbacks <- MCFallbacks
  DayLength = 4
  WeekLength = 7
  LeadMinutes = 2
  IdleMinutes = 1
  LastDay = 8
  Runs = {w1, w2}
  RepeatAfter = 1
  Kinds <- MCKinds
  FewAlerts = 1
  ManyAlerts = 2
  Codes = {d1, d2}
  OneCode = {k}
  FewTokens = 1
  ManyTokens = 2
  TwoAccounts = {s, a}
  ThreeAccounts = {s, a, b}
  AdminAccounts = {s, b}
  SiteAdmin = s
SYMMETRY MCSymmetry
INVARIANTS
  TypeOK
  TablesAgree
  ReceivedWhole
  CardTokenWorks
  
  AccessHolds
  
  OwnersKept
  ScheduleRight
PROPERTIES
  OrderKept
CHECK_DEADLOCK FALSE
