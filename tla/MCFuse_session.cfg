CONSTANTS
  a = a
  b = b
  c = c
  k1 = k1
  k2 = k2
  k3 = k3
  f1 = f1
  f2 = f2
  f3 = f3
  Empty = Empty
  NoFile = NoFile
  Fresh = Fresh
  Raw = Raw
  NoSuperblock = NoSuperblock
  Written = Written
  Rewritten = Rewritten
  Order <- MCOrder
  Paths <- MCPaths
  Keys <- MCKeys
  Files <- TwoFiles
  KeyOf <- TwoKeys
  Contents <- MCContents
  Playlist <- TwoPlaylist
  CreatefsBuild = "always"
  SkipWs = FALSE
  Tool = TRUE
  FsyncReturns = TRUE
SPECIFICATION Spec
INVARIANTS
  TypeOK
  KeyAccounting
  SingleObject
  LastSyncOnDisk
  SuperblockCurrent
  SuperblockPointsToFiles
  DirectoryRecorded
CHECK_DEADLOCK FALSE
