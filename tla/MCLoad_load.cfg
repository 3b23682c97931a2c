CONSTANTS
  Images <- MCImages
  Payloads <- MCPayloads
  Garbage <- MCGarbage
  IsMagic <- MCIsMagic
  SizeOf <- MCSizeOf
  HeaderLen = 2
  Chunk = 3
  BufChunks = 2
SPECIFICATION FairSpec
INVARIANTS TypeOK BitsInOrder LoadsTheFile RefusesOnlyCut
PROPERTY Ends
CHECK_DEADLOCK FALSE
