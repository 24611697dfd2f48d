\* A test says that a malformed URB ends the stream for its reader.
SPECIFICATION Spec
CONSTANTS
  MaxPayload = 2
  SeqSpace = 2
  Calls <- FittingCalls
  Strays <- MCStrays
  Room = 3
  Window = 2
  MaxCalls = 1
INVARIANT MalformedEndsStream
CHECK_DEADLOCK FALSE
