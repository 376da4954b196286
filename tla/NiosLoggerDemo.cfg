SPECIFICATION DemoSpec
CONSTANTS
  Size = 128
  MsgMax = 255
  LineMax = 259
  Prefix = 4
  Ending = 2
  ChunkSize = 32
  DefaultEvery = 2
  Levels <- MCLevels
  InfoLevel = 3
  EveryArgs <- MCEveryArgs
  Messages <- MCMessages
  Writers <- MCMain
  Processors <- MCMain
  Setters <- MCMain
  MaxWrites = 8
  MaxSets = 4
  MaxClock = 1
  Hello <- MCHello
  Heartbeat <- MCHeartbeat
  Warning <- MCWarning
  Error <- MCError
  Report <- MCReport
INVARIANT EveryDropReported
