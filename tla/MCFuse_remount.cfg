CONSTANTS
  a = a
  b = b
  c = c
  k1 = k1
  k2 = k2
  k3 = k3
  f1 = f1
  f2 = f2
  f3 = f3
  Empty = Empty
  NoFile = NoFile
  Fresh = Fresh
  Raw = Raw
  NoSuperblock = NoSuperblock
  Written = Written
  Rewritten = Rewritten
  Order <- MCOrder
  Paths <- MCPaths
  Keys <- MCKeys
  Files <- ThreeFiles
  KeyOf <- ThreeKeys
  Contents <- MCContents
  Playlist <- ThreePlaylist
  CreatefsBuild = "once"
  SkipWs = TRUE
  Tool = FALSE
  FsyncReturns = TRUE
SPECIFICATION Spec
INVARIANTS
  KeyAccounting
  SuperblockDurable
CHECK_DEADLOCK FALSE
