\* The queue, the life of a process and progress, up to the first time that the
\* simulator overtakes the scheduler.
SPECIFICATION MCFairSpec
CONSTANTS
  ProcessCount = 3
  CpuCount = 2
  Program <- MCProgram
  Priority <- MCPriority
  TimeSlices <- MCRoundRobin
  CreationPeriod = 2
  SpuriousWakeups = FALSE
PROPERTIES
  ImplementsFifo
  ImplementsLife
  ExitsOrOvertakes
  ReadyRunsOrOvertaken
