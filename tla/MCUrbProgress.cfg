\* Progress of a session whose caller keeps two requests unanswered, with
\* pipes that hold one frame.
SPECIFICATION FairSpec
CONSTANTS
  MaxPayload = 2
  SeqSpace = 2
  Calls <- AllCalls
  Strays <- NoStrays
  Room = 3
  Window = 2
  MaxCalls = 3
INVARIANTS NothingElseAwaited NeverStuck
PROPERTIES EachStepCounts Answered ServerLetsGo ImplementsEchoService
CHECK_DEADLOCK FALSE
