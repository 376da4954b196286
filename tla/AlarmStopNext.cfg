SPECIFICATION ClockSpec
CONSTANTS
  Alarms = {a, b}
  Head = head
  Null = null
  Modulus <- MCModulus
  Delays <- MCDelays
  Periods <- MCPeriods
  StopsNext = TRUE
  ALT_US <- MCSecond
  TickRate <- MCTickRate
  Times <- MCNoTimes
PROPERTY OnlyRegisteredCalled
