CONSTANTS
  NumChunks = 3
  slot_size_array <- MCSizes
  SlotsPerChunk = 2
  MaxGroup = 256
  MaxAllocs = 6
SPECIFICATION Spec
PROPERTY
  BorrowsFromLater
CHECK_DEADLOCK FALSE
