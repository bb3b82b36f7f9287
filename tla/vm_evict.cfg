\* The same programs, whose loads have to give what was stored.
SPECIFICATION Spec
CONSTANTS
  Pids = {p1, p2}
  NumPte = 2
  NumFrames = 2
  PageSize = 1
  TlbSize = 2
  Values = {0, 1}
  UsedLimit = 2
  NoPid = NoPid
  NoPage = NoPage
SYMMETRY Symmetry
INVARIANT
  LoadsLastStore
