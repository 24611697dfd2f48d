\* A session on bytes: an import out of four names and ten replies, then two
\* calls out of sixteen.
SPECIFICATION Spec
CONSTANTS
  Radix = 8
  MaxPayload = 49
  PathBytes = 4
  BusidBytes = 4
  Names <- MCNames
  Replies <- MCReplies
  Requests <- MCRequests
  Strays <- MCStrays
  MaxCalls = 2
INVARIANTS TypeOK DeviceIntact NameLeadsBack AnswersCarryRequests StreamStaysFramed NothingLeftOver StreamsAgreeWithCells
PROPERTY ImplementsEchoService
CHECK_DEADLOCK FALSE
