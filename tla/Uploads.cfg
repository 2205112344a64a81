SPECIFICATION BothSpec
CONSTANTS
  r1 = r1
  r2nd = r2nd
  u1 = u1
  u2 = u2
  Nobody = Nobody
  NoUpload = NoUpload
  NoMedia = NoMedia
  Requests <- mcTwoRequests
  Uploads <- mcTwoUploads
  Parts <- mcTwoParts
  MaxPuts = 2
  MaxDeletes = 0
  MaxDeaths = 1
  SlowWorkers = FALSE
INVARIANTS
  BothTypeOK
  RacingEtagsCurrent
  
  SlowReceivedExact
PROPERTIES
  RacingObjectStays
  SlowUploadsEnd
CHECK_DEADLOCK FALSE
