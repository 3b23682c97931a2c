CONSTANTS
  Audios <- MCAudios
  Payloads <- MCPayloads
  HeaderLen = 1
  Chunk = 2
  BufChunks = 2
  KeyLen = 2
  Stale <- MCStale
  SignedCounter = TRUE
SPECIFICATION FairSpec
INVARIANTS
  TypeOK
  UpperBitsKept
  PayloadPlaced
  TailUntouched
  EncodeAsserts
  LocationWhole
  PublishedCarries
  KeyKept
CHECK_DEADLOCK FALSE
PROPERTY FsyncWrites
