SPECIFICATION Spec
CONSTANTS
  Byte <- MCBytes
  RxDepth = 1
  TxDepth = 2
  TxThreshold = 1
  BufLen = 3
  IntMax = 5
  HasClock = TRUE
  DefaultTimeout = 2
  Timeouts <- MCNone
  Messages <- MCMessage
  Spaces <- MCNone
  Closes = FALSE
PROPERTY FailsWhenGone
