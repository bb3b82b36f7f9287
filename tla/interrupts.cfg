\* Up to four interrupts of both devices between the instructions of main, or
\* two between any.
CONSTANTS
  Devices <- BothDevices
  Argument = 2
  Limit = 1
  MaxInterrupts = 4
SPECIFICATION Spec
INVARIANTS
  UninterruptedHandlersCount
  StoresOwnKey
PROPERTIES
  CompletesWithFactorial
  ReturnsIntact
CHECK_DEADLOCK FALSE
