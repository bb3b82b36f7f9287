\* Corrupted packets, and at most one lost datagram, after which both
\* programs may wait for ever.
SPECIFICATION FairSpec
CONSTANTS
  MaxPayload = 3
  Messages <- MCMessages
  MaxLosses = 1
INVARIANTS
  TypeOK
  StoredOnce
  RepliesInOrder
  StopAndWait
PROPERTIES
  Completes
CHECK_DEADLOCK FALSE
