\* Five blocks for the four ways of a line; the run ends with the trace.
SPECIFICATION Spec
CONSTANTS
  NumWays = 4
  NumLines = 2
  BlockSize = 2
  MaskLimit = 16
  Addresses <- MCAddresses
  MaxAccesses = 7
INVARIANTS
  TypeOK
  UniqueTags
  WriteBacksBounded
PROPERTIES
  ImplementsLru
CHECK_DEADLOCK FALSE
