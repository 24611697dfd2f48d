\* Safety of a session: three calls out of thirteen, sequence numbers modulo two.
SPECIFICATION Spec
CONSTANTS
  MaxPayload = 2
  SeqSpace = 2
  Calls <- AllCalls
  Strays <- MCStrays
  Room = 3
  Window = 2
  MaxCalls = 3
INVARIANTS EchoInOrder SeqnumsDistinct RepliesStayFramed BuffersBounded
CHECK_DEADLOCK FALSE
