SPECIFICATION BothSpec
CONSTANTS
  Size = 2
  Byte = {0, 1}
  LogSize = 5
  MsgMax = 6
  LineMax = 7
  Prefix = 1
  Ending = 1
  ChunkSize = 2
  DefaultEvery = 2
  Levels = {0, 1}
  InfoLevel = 1
  Messages <- MCOverlong
  EveryArgs = {0, 3}
  Writers = {"main", "isr"}
  Processors = {"main", "isr"}
  Setters = {"isr"}
  MaxWrites = 2
  MaxSets = 1
  MaxClock = 0
INVARIANTS LockedTypeOK MaskRestored BytesKept
PROPERTIES SharedFifo MaskEnds Drains
