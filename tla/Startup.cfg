SPECIFICATION StartupSpec
CONSTANTS
  null = null
  uart = uart
  lcd = lcd
  rom = rom
  missing = missing
  Null <- null
  Missing <- missing
  MaxFd <- MCMaxFd
  Devices <- MCDevices
  FileSystems <- MCFileSystems
  Fragile <- MCFragile
  OpenFlags <- MCOpenFlags
  StdDevice <- MCApart
  Provides <- MCProvides
  DCache = TRUE
  ICache = TRUE
  Copied <- MCSections
  Register <- MCRegister
  Constructors = 2
INVARIANTS NoLeak OneHolder HandlerLoaded StdReady
PROPERTY LockHeld
