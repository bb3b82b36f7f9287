\* The reader of the PCBs does not see a writer.
SPECIFICATION Spec
CONSTANTS
  ProcessCount = 2
  CpuCount = 2
  Program <- MCShortProgram
  Priority <- MCShortPriority
  TimeSlices <- MCRoundRobin
  CreationPeriod = 2
  SpuriousWakeups = TRUE
INVARIANT
  ReaderAlone
