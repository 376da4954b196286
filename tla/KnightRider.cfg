SPECIFICATION FairSpec
CONSTANTS
  LED_DELAY = 8
  UsPerMs = 4
  IterationsPerMs = 4
  Period = 1
PROPERTY LastsLong
