\* Seven accesses to the four pages of two processes, in three frames and with
\* a TLB of two entries.
SPECIFICATION StatsSpec
CONSTANTS
  Pids = {p1, p2}
  NumPte = 2
  NumFrames = 3
  PageSize = 1
  TlbSize = 2
  Values = {0, 1}
  UsedLimit = 2
  NoPid = NoPid
  NoPage = NoPage
  MaxAccesses = 7
SYMMETRY Symmetry
INVARIANTS
  TypeOK
  FramesOwned
  TlbAgrees
  SwappedOnce
  CoherentUntilFull
  CountersAgree
CHECK_DEADLOCK FALSE
