CONSTANTS
  Tasks = {t1, t2}
  IrqWork = irq
  Consoles = {"early", "serial", "tty"}
  Boot = {"early"}
  Replaying = {"tty"}
  None = None
  Capacity = 2
  Quiet = {2, 3}
  Long = {4}
  TooLong = {5}
  Scenarios <- MCScenarios
  MaxSaid = 2
CHECK_DEADLOCK FALSE
SPECIFICATION Spec
INVARIANTS
  OneOwner
  EveryRecordWritten
  InOrder
PROPERTY AllOut
