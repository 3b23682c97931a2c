CONSTANTS
  Audios <- MCAudios
  Payloads <- MCPayloads
  HeaderLen = 1
  Chunk = 2
  BufChunks = 2
  KeyLen = 2
  Stale <- MCStale
  SignedCounter = FALSE
SPECIFICATION FairSpec
PROPERTY FsyncWrites
CHECK_DEADLOCK FALSE
