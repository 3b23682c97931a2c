CONSTANTS
  Audios <- MCAudios
  Payloads <- MCPayloads
  SignedCounter = TRUE
  Garbage <- MCGarbage
  IsMagic <- MCIsMagic
  SizeOf <- MCSizeOf
  Nothing = Nothing
  Failure = Failure
  HeaderLen = 2
  Chunk = 3
  BufChunks = 2
SPECIFICATION Spec
PROPERTY SaveIsAtomic
CHECK_DEADLOCK FALSE
