\* A message whose length is a multiple of MAX_PAYLOAD_LENGTH.
SPECIFICATION Spec
CONSTANTS
  MaxPayload = 3
  Messages <- MCFullPacket
  MaxLosses = 0
INVARIANT
  MessageArrives
CHECK_DEADLOCK FALSE
