SPECIFICATION ProgramsSpec
CONSTANTS
  LED_DELAY = 3
  UsPerMs = 2
  IterationsPerMs = 2
  Byte = {1, 2}
  RxDepth = 2
  TxDepth = 2
  TxThreshold = 1
  Messages <- MCMessages
  Spaces = {1, 3}
  W = 8
  ALT_LOG_FLAGS <- MCLevels
  AltPrints <- MCAltPrints
  LogPrints <- MCLogPrints
  Puts <- MCPuts
  Writes <- MCWrites
  EchoLen = 3
  Interval = 1
  IsrLine = 2
  Bursts = 1
  HeapBytes = 36
  Struct = 4
  Slab = 8
  Text = 2
  Bucket = 2
  Arcs <- MCArcs
  HandlerArcs <- MCHandlerArcs
  Increments = {8}
  Frame = 12
  MaxCalls = 2
  MaxMallocs = 1
  Line = 2
  Lines = 3
  Sets = 2
  HandlerLines = {0}
  Width = 5
  PerUs = 2
  Half = 3
  Devices <- MCDevices
  NULL <- MCNull
  NoName = "none"
  MaxRequests = 2
INVARIANTS ProgramsTypeOK HeapIsApart CallsCounted
PROPERTIES LightShows ProgramsAnswer PollsLine ConsolePrints FlushLeavesNothing TimesKept ChannelsKeep
CHECK_DEADLOCK FALSE
