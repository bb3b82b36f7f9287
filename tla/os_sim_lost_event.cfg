\* A process is lost although the sleep between ticks is long.
SPECIFICATION MCLongSleepSpec
CONSTANTS
  ProcessCount = 2
  CpuCount = 2
  Program <- MCShortProgram
  Priority <- MCShortPriority
  TimeSlices <- MCRoundRobin
  CreationPeriod = 2
  SpuriousWakeups = FALSE
INVARIANT
  OnePlace
