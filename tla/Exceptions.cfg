SPECIFICATION FairSpec
CONSTANTS
  W <- MCW
  Regs <- MCRegs
  Irqs <- MCIrqs
  Setups <- MCSetups
INVARIANTS ExceptionsTypeOK Agreement OnlyHigher
PROPERTIES OnlyArmed IsMachine Progress
CHECK_DEADLOCK FALSE
