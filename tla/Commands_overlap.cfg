SPECIFICATION Spec
CONSTANTS
  Nobody = Nobody
  NoRow = NoRow
  NoCommand = NoCommand
  reboot = reboot
  sync = sync
  h1 = h1
  h2 = h2
  Kinds <- mcKinds
  SelfKilling <- mcSelfKilling
  Handlers <- mcOverlapping
  MaxDeliveries = 2
  LedgerMax = 4
  MaxIssued = 2
  MaxRestores = 0
  MaxDiskFailures = 0
SYMMETRY mcSymmetry
INVARIANTS
  TypeOK
  
  RunsWithinDeliveries

  
