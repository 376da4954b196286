SPECIFICATION FairSpec
CONSTANTS
  Byte <- MCOneByte
  RxDepth = 1
  TxDepth = 1
  TxThreshold = 0
  BufLen = 2
  IntMax = 4
  HasClock = TRUE
  DefaultTimeout = 2
  Timeouts <- MCTimeouts
  Messages <- MCLong
  Spaces <- MCSpaces
  Closes = TRUE
INVARIANTS UartTypeOK Armed
PROPERTY CallsServed
