\* The simulator with every interleaving and every spurious wakeup.
SPECIFICATION HSpec
CONSTANTS
  ProcessCount = 2
  CpuCount = 2
  Program <- MCShortProgram
  Priority <- MCShortPriority
  TimeSlices <- MCTimeSlices
  CreationPeriod = 2
  SpuriousWakeups = TRUE
INVARIANTS
  TypeOK
  WakeupNotLost
  ReaderExclusion
  OneRequestPerProcess
  TerminationsCounted
  OnePlaceInOrder
  StateMatchesPlaceInOrder
