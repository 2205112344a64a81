SPECIFICATION FairSpec
CONSTANTS
  a = a
  b = b
  Nothing = Nothing
  Files <- mcFiles
  Playlists <- mcPlaylists
  Size = 3
  Attempts = 2
  MaxEdits = 1
  MaxMishaps = 2
INVARIANTS
  TypeOK
  TransferExact
  NamedFilesWhole
PROPERTIES
  FilesArrive
