SPECIFICATION Spec
CONSTANTS
  HeaderLen = 2
  Chunk = 3
  Audios <- MCAudios
  Files <- MCFiles
  HeaderFor <- MCHeaderFor
  IsMagic <- MCIsMagic
  SizeOf <- MCSizeOf
  Garbage <- MCGarbage
INVARIANTS LocationWhole DecodesPrefix
PROPERTY BothEnd
CHECK_DEADLOCK FALSE
