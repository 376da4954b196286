SPECIFICATION Spec
CONSTANTS
  Byte <- MCBytes
  RxDepth = 1
  TxDepth = 1
  TxThreshold = 0
  BufLen = 3
  IntMax = 4
  HasClock = FALSE
  DefaultTimeout = 2
  Timeouts <- MCNone
  Messages <- MCMessage
  Spaces <- MCSpace
  Closes = FALSE
PROPERTY IsSerialLine
