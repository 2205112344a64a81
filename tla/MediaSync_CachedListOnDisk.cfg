SPECIFICATION Spec
CONSTANTS
  a = a
  b = b
  Nothing = Nothing
  Files <- mcFiles
  Playlists <- mcReplaced
  Size = 2
  Attempts = 2
  MaxEdits = 1
  MaxMishaps = 1
INVARIANTS
  CachedListOnDisk
