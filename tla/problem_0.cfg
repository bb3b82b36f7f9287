\* Two counting threads, and wakeups without a signal as often as you like.
CONSTANTS
  p1 = p1
  p2 = p2
  Counters <- BothCounters
  Limit = 3
  NULL = NULL
SPECIFICATION Spec
INVARIANTS
  NoIncrementLost
  ExitsAtLimit
PROPERTIES
  ShutsDown
CHECK_DEADLOCK FALSE
