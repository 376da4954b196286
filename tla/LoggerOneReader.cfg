SPECIFICATION Spec
CONSTANTS
  Size <- MCSize
  MsgMax <- MCMsgMax
  LineMax <- MCLineMax
  Prefix <- MCPrefix
  Ending <- MCEnding
  ChunkSize <- MCChunk
  DefaultEvery <- MCEvery
  Levels <- MCLevels
  InfoLevel <- MCInfo
  EveryArgs <- MCEveryArgs
  Messages <- MCMessages
  Writers <- MCBoth
  Processors <- MCMain
  Setters <- MCIsr
  MaxWrites = 3
  MaxSets = 1
  MaxClock = 1
INVARIANTS LoggerTypeOK DropsCounted StampsOrdered
PROPERTY IsLossyLog
