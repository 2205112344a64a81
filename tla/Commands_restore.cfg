SPECIFICATION FairSpec
CONSTANTS
  Nobody = Nobody
  NoRow = NoRow
  NoCommand = NoCommand
  reboot = reboot
  sync = sync
  h1 = h1
  h2 = h2
  Kinds <- mcKinds
  SelfKilling <- mcSelfKilling
  Handlers <- mcSingle
  MaxDeliveries = 1
  LedgerMax = 4
  MaxIssued = 2
  MaxRestores = 1
  MaxDiskFailures = 1
INVARIANTS
  
  ReportMeansRun
PROPERTIES
  EveryCommandCloses
