SPECIFICATION Spec
CONSTANTS
  r1 = r1
  r2nd = r2nd
  u1 = u1
  u2 = u2
  Nobody = Nobody
  NoUpload = NoUpload
  NoMedia = NoMedia
  Requests <- mcTwoRequests
  Uploads <- mcOneUpload
  Parts <- mcTwoParts
  MaxPuts = 2
  MaxDeletes = 0
  MaxDeaths = 0
  SlowWorkers = FALSE
INVARIANT DuplicateIsThere
CHECK_DEADLOCK FALSE
