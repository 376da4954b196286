SPECIFICATION FairClockSpec
CONSTANTS
  Alarms = {a, b, c}
  Head = head
  Null = null
  Modulus <- MCModulus
  Delays <- MCDelays
  Periods <- MCPeriods
  StopsNext = FALSE
  ALT_US <- MCSecond
  TickRate <- MCTickRate
  Times <- MCTimes
INVARIANTS ClockTypeOK TicksCounted TimeIsKept
PROPERTIES IsTimerQueue TimerServed
