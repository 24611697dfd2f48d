-------------------------- MODULE UrbSessionProofs --------------------------
(***************************************************************************)
(* Theorems about UrbSession, for every set of calls, every pipe, window   *)
(* and payload limit.                                                      *)
(***************************************************************************)
EXTENDS UrbSession, Streams

\* Any cell of a stream can be read as a header.
LEMMA ReadAsHeaderType ==
  ASSUME NEW cell \in Cells
  PROVE  ReadAsHeader(cell) \in Headers
<1>1. Garbage \in Headers
  BY SeqSpaceAssumption DEF Garbage, Headers
<1>2. CASE IsHeaderCell(cell)
  <2>1. cell \in [header : Headers]
    BY <1>2 DEF Cells, IsHeaderCell
  <2> QED BY <1>2, <2>1 DEF ReadAsHeader
<1> QED BY <1>1, <1>2 DEF ReadAsHeader

\* The length a reader waits for is a number, and small once it is accepted.
LEMMA LengthBounds ==
  ASSUME NEW h \in Headers
  PROVE  /\ ClientLength(h) \in Nat
         /\ ServerLength(h) \in Nat
         /\ ~ClientRefuses(h) => ClientLength(h) <= MaxPayload
         /\ ~ServerRefuses(h) => ServerLength(h) <= MaxPayload
BY MaxPayloadAssumption
   DEF Headers, Announces, ClientLength, ServerLength, ClientRefuses, ServerRefuses

\* A frame is a sequence of cells.
LEMMA FrameType ==
  ASSUME NEW h \in Headers, NEW payload \in Seq(Cells)
  PROVE  /\ Frame(h, payload) \in Seq(Cells)
         /\ Frame(h, payload) # <<>>
         /\ Tail(Frame(h, payload)) \in Seq(Cells)
<1>1. HeaderCell(h) \in Cells
  BY DEF HeaderCell, Cells
<1>2. <<HeaderCell(h)>> \in Seq(Cells)
  BY <1>1
<1>3. (IF Announces(h) THEN payload ELSE <<>>) \in Seq(Cells)
  OBVIOUS
<1>4. Frame(h, payload) \in Seq(Cells)
  BY <1>2, <1>3 DEF Frame
<1>5. Frame(h, payload) # <<>>
  BY <1>2, <1>3 DEF Frame
<1> QED BY <1>4, <1>5

\* What a call puts on the wire.
LEMMA CallTypes ==
  ASSUME TypeOK, NEW c \in Calls
  PROVE  /\ Numbered(c) \in Headers
         /\ Payload(c) \in Seq(Cells)
         /\ Request(c) \in RequestRecords
<1>1. c \in CallRecords
  BY CallsAssumption
<1>2. Numbered(c) \in Headers
  BY <1>1 DEF TypeOK, Numbered, Headers, CallRecords
<1>3. Payload(c) \in Seq(Cells)
  <2>1. c.units \in Nat /\ calls + 1 \in Nat
    BY <1>1, BoundsAssumption DEF TypeOK, CallRecords
  <2>2. \A i \in 1 .. c.units : DataCell(calls + 1, i) \in Cells
    BY <2>1 DEF DataCell, Cells
  <2> QED BY <2>1, <2>2 DEF Payload
<1>4. Request(c) \in RequestRecords
  <2>1. Tail(Frame(Numbered(c), Payload(c))) \in Seq(Cells)
    BY <1>2, <1>3, FrameType
  <2>2. calls + 1 \in Nat
    BY BoundsAssumption DEF TypeOK
  <2>3. (Announces(Numbered(c)) => c.units = c.length) \in BOOLEAN
    OBVIOUS
  <2> QED BY <1>2, <2>1, <2>2, <2>3 DEF Request, RequestRecords
<1> QED BY <1>2, <1>3, <1>4

-----------------------------------------------------------------------------
(* Types and buffers *)

IInv == TypeOK /\ BuffersBounded

LEMMA InitIInv == Init => IInv
<1> SUFFICES ASSUME Init PROVE IInv
  OBVIOUS
<1>1. nextSeq \in 0 .. SeqSpace - 1 /\ calls \in 0 .. MaxCalls
  BY SeqSpaceAssumption, BoundsAssumption DEF Init
<1>2. /\ <<>> \in Seq(Cells) /\ <<>> \in Seq(RequestRecords)
      /\ <<>> \in Seq([header : Headers, payload : Seq(Cells)])
      /\ Len(<<>>) = 0
  OBVIOUS
<1>3. TypeOK
  <2>1. /\ call \in {"idle", "sending", "receiving", "receivingOrClose", "dropped"}
        /\ closed \in BOOLEAN /\ strayed \in BOOLEAN /\ server \in {"serving", "gone"}
    BY DEF Init
  <2>2. /\ out \in Seq(Cells) /\ in \in Seq(Cells) /\ sin \in Seq(Cells) /\ sout \in Seq(Cells)
        /\ up \in Seq(Cells) /\ down \in Seq(Cells)
    BY <1>2 DEF Init
  <2>3. Len(up) <= Room /\ Len(down) <= Room
    BY <1>2, BoundsAssumption DEF Init
  <2>4. /\ sent \in Seq(RequestRecords)
        /\ received \in Seq([header : Headers, payload : Seq(Cells)])
    BY <1>2 DEF Init
  <2> QED BY <1>1, <2>1, <2>2, <2>3, <2>4 DEF TypeOK
<1>4. BuffersBounded
  BY <1>2, MaxPayloadAssumption DEF Init, BuffersBounded
<1> QED BY <1>3, <1>4 DEF IInv

\* A cell taken from a pipe is a cell, and what is left is a sequence of them.
LEMMA HeadTail ==
  ASSUME NEW s \in Seq(Cells), s # <<>>
  PROVE  Head(s) \in Cells /\ Tail(s) \in Seq(Cells) /\ Len(Tail(s)) = Len(s) - 1
OBVIOUS

LEMMA TakeSeqnumType ==
  ASSUME TypeOK, calls < MaxCalls, TakeSeqnum
  PROVE  nextSeq' \in 0 .. SeqSpace - 1 /\ calls' \in 0 .. MaxCalls
<1>1. calls' \in 0 .. MaxCalls
  BY BoundsAssumption DEF TypeOK, TakeSeqnum
<1>2. (nextSeq + 1) % SeqSpace \in 0 .. SeqSpace - 1
  BY SeqSpaceAssumption DEF TypeOK
<1> QED BY <1>1, <1>2 DEF TakeSeqnum

LEMMA SendIInv ==
  ASSUME IInv, NEW c \in Calls, SendHeader(c) \/ SendRefused(c)
  PROVE  IInv'
<1>1. TypeOK /\ BuffersBounded
  BY DEF IInv
<1>2. calls < MaxCalls /\ TakeSeqnum
  BY DEF SendHeader, SendRefused, MaySend
<1>3. nextSeq' \in 0 .. SeqSpace - 1 /\ calls' \in 0 .. MaxCalls
  BY <1>1, <1>2, TakeSeqnumType
<1>4. CASE SendHeader(c)
  <2>1. out' \in Seq(Cells) /\ sent' \in Seq(RequestRecords)
    BY <1>1, <1>4, CallTypes, FrameType DEF SendHeader, TypeOK
  <2> QED
    BY <1>1, <1>3, <1>4, <2>1 DEF SendHeader, IInv, TypeOK, BuffersBounded, serverVars, pipes
<1>5. CASE SendRefused(c)
  BY <1>1, <1>3, <1>5 DEF SendRefused, IInv, TypeOK, BuffersBounded, serverVars, pipes, history
<1> QED BY <1>4, <1>5

LEMMA RunningIInv ==
  ASSUME IInv, Running
  PROVE  IInv'
<1>1. TypeOK /\ BuffersBounded
  BY DEF IInv
<1>2. CASE WriteCell
  <2>1. /\ out' \in Seq(Cells)
        /\ up' \in Seq(Cells) /\ Len(up') = Len(up) + 1
    BY <1>1, <1>2, HeadTail DEF WriteCell, TypeOK
  <2>2. Len(up') <= Room
    BY <1>1, <1>2, <2>1, BoundsAssumption DEF WriteCell, TypeOK
  <2> QED
    BY <1>1, <1>2, <2>1, <2>2 DEF WriteCell, IInv, TypeOK, BuffersBounded, serverVars, history
<1>3. CASE SendReturns
  BY <1>1, <1>3 DEF SendReturns, IInv, TypeOK, BuffersBounded, serverVars, pipes, history
<1>4. CASE WriteFails
  BY <1>1, <1>4 DEF WriteFails, IInv, TypeOK, BuffersBounded, serverVars, pipes, history
<1>5. CASE ReadCell
  <2>1. /\ in' \in Seq(Cells) /\ Len(in') = Len(in) + 1
        /\ down' \in Seq(Cells) /\ Len(down') <= Room
    BY <1>1, <1>5, HeadTail, BoundsAssumption DEF ReadCell, TypeOK
  <2>2. Len(in) + 1 <= 1 + MaxPayload
    <3>1. CASE in = <<>>
      BY <3>1, MaxPayloadAssumption
    <3>2. CASE in # <<>>
      <4>1. in[1] \in Cells
        BY <1>1, <3>2 DEF TypeOK
      <4>2. ClientHeader \in Headers
        BY <4>1, ReadAsHeaderType DEF ClientHeader
      <4>3. Len(in) < 1 + ClientLength(ClientHeader) /\ ~ClientRefuses(ClientHeader)
        BY <1>5, <3>2 DEF ReadCell, ClientWants
      <4> HIDE DEF ClientHeader
      <4>4. Len(in) \in Nat
        BY <1>1 DEF TypeOK
      <4> QED BY <4>2, <4>3, <4>4, LengthBounds, MaxPayloadAssumption
    <3> QED BY <3>1, <3>2
  <2> QED
    BY <1>1, <1>5, <2>1, <2>2 DEF ReadCell, IInv, TypeOK, BuffersBounded, serverVars, history
<1>6. CASE RecvReturns
  <2>1. in # <<>>
    BY <1>6 DEF RecvReturns, ClientWants
  <2>2. ClientHeader \in Headers
    BY <1>1, <2>1, ReadAsHeaderType DEF ClientHeader, TypeOK
  <2>3. Tail(in) \in Seq(Cells)
    BY <1>1, <2>1, HeadTail DEF TypeOK
  <2>4. received' \in Seq([header : Headers, payload : Seq(Cells)])
    BY <1>1, <1>6, <2>2, <2>3 DEF RecvReturns, TypeOK
  <2>5. Len(in') = 0 /\ in' \in Seq(Cells)
    BY <1>6 DEF RecvReturns
  <2> QED
    BY <1>1, <1>6, <2>4, <2>5, MaxPayloadAssumption
    DEF RecvReturns, IInv, TypeOK, BuffersBounded, serverVars, pipes
<1>7. CASE RecvMalformed \/ RecvEof
  <2>1. RecvFails /\ (down' = down \/ down' = <<>>)
    BY <1>7 DEF RecvMalformed, RecvEof
  <2>2. Len(in') = 0 /\ in' \in Seq(Cells)
    BY <2>1 DEF RecvFails
  <2>3. down' \in Seq(Cells) /\ Len(down') <= Room
    <3>1. <<>> \in Seq(Cells) /\ Len(<<>>) = 0 /\ 0 <= Room
      BY BoundsAssumption
    <3> QED BY <1>1, <2>1, <3>1 DEF TypeOK
  <2> QED
    BY <1>1, <2>1, <2>2, <2>3, MaxPayloadAssumption
    DEF RecvFails, IInv, TypeOK, BuffersBounded, serverVars, history
<1> QED BY <1>2, <1>3, <1>4, <1>5, <1>6, <1>7 DEF Running

LEMMA CollectIInv ==
  ASSUME IInv, Collect \/ Close
  PROVE  IInv'
BY DEF Collect, RecvHeader, RecvHeaderOrClose, Close, IInv, TypeOK, BuffersBounded,
       serverVars, pipes, history

\* The echo of a request that decodes.
LEMMA EchoReplyType ==
  ASSUME NEW h \in Headers, NEW payload \in Seq(Cells)
  PROVE  EchoReply(h, payload) \in Seq(Cells)
<1> DEFINE r == [command   |-> IF h.command = "CMD_SUBMIT" THEN "RET_SUBMIT" ELSE "RET_UNLINK",
                 direction |-> IF h.command = "CMD_SUBMIT" THEN "IN" ELSE h.direction,
                 seq       |-> h.seq,
                 length    |-> Len(payload),
                 packets   |-> 0]
<1>1. r \in Headers
  <2>1. Len(payload) \in Int
    OBVIOUS
  <2>2. /\ h.direction \in Directions \cup {"invalid"}
        /\ h.seq \in 0 .. SeqSpace - 1
    BY DEF Headers
  <2> QED BY <2>1, <2>2 DEF Headers, KnownCommands, Directions
<1>2. EchoReply(h, payload) = <<HeaderCell(r)>> \o payload
  BY DEF EchoReply
<1> HIDE DEF r
<1>3. <<HeaderCell(r)>> \in Seq(Cells)
  BY <1>1 DEF HeaderCell, Cells
<1> QED BY <1>2, <1>3

LEMMA DieTypes ==
  ASSUME Die
  PROVE  /\ server' = "gone"
         /\ sin' \in Seq(Cells) /\ Len(sin') = 0
         /\ sout' \in Seq(Cells)
BY DEF Die

LEMMA DieIInv ==
  ASSUME IInv, Die, UNCHANGED <<clientVars, pipes, history>>
  PROVE  IInv'
BY DieTypes, MaxPayloadAssumption
   DEF IInv, TypeOK, BuffersBounded, clientVars, pipes, history

LEMMA ServerIInv ==
  ASSUME IInv, EchoStep \/ (\E f \in Strays : Stray(f)) \/ ServerCrash
  PROVE  IInv'
<1>1. TypeOK /\ BuffersBounded
  BY DEF IInv
<1>2. CASE ServerRead
  <2>1. /\ sin' \in Seq(Cells) /\ Len(sin') = Len(sin) + 1
        /\ up' \in Seq(Cells) /\ Len(up') <= Room
    BY <1>1, <1>2, HeadTail, BoundsAssumption DEF ServerRead, TypeOK
  <2>2. Len(sin) + 1 <= 1 + MaxPayload
    <3>1. CASE sin = <<>>
      BY <3>1, MaxPayloadAssumption
    <3>2. CASE sin # <<>>
      <4>1. sin[1] \in Cells
        BY <1>1, <3>2 DEF TypeOK
      <4>2. ServerHeader \in Headers
        BY <4>1, ReadAsHeaderType DEF ServerHeader
      <4>3. Len(sin) < 1 + ServerLength(ServerHeader) /\ ~ServerRefuses(ServerHeader)
        BY <1>2, <3>2 DEF ServerRead, ServerWants
      <4> HIDE DEF ServerHeader
      <4>4. Len(sin) \in Nat
        BY <1>1 DEF TypeOK
      <4> QED BY <4>2, <4>3, <4>4, LengthBounds, MaxPayloadAssumption
    <3> QED BY <3>1, <3>2
  <2> QED
    BY <1>1, <1>2, <2>1, <2>2
    DEF ServerRead, IInv, TypeOK, BuffersBounded, clientVars, history
<1>3. CASE Echo
  <2>1. sin # <<>>
    BY <1>3 DEF Echo, ServerWants
  <2>2. ServerHeader \in Headers /\ Tail(sin) \in Seq(Cells)
    BY <1>1, <2>1, ReadAsHeaderType, HeadTail DEF ServerHeader, TypeOK
  <2>3. sout' \in Seq(Cells)
    BY <1>3, <2>2, EchoReplyType DEF Echo
  <2>4. sin' \in Seq(Cells) /\ Len(sin') = 0
    BY <1>3 DEF Echo
  <2> QED
    BY <1>1, <1>3, <2>3, <2>4, MaxPayloadAssumption
    DEF Echo, IInv, TypeOK, BuffersBounded, clientVars, pipes, history
<1>4. CASE ServerWrite
  <2>1. /\ sout' \in Seq(Cells)
        /\ down' \in Seq(Cells) /\ Len(down') = Len(down) + 1
    BY <1>1, <1>4, HeadTail DEF ServerWrite, TypeOK
  <2>2. Len(down') <= Room
    BY <1>1, <1>4, <2>1, BoundsAssumption DEF ServerWrite, TypeOK
  <2> QED
    BY <1>1, <1>4, <2>1, <2>2
    DEF ServerWrite, IInv, TypeOK, BuffersBounded, clientVars, history
<1>5. CASE \E f \in Strays : Stray(f)
  <2>1. PICK f \in Strays : Stray(f)
    BY <1>5
  <2>2. sout' \in Seq(Cells) /\ strayed' = TRUE
    BY <2>1, StraysAssumption DEF Stray
  <2> QED
    BY <1>1, <2>1, <2>2
    DEF Stray, IInv, TypeOK, BuffersBounded, clientVars, pipes, history
<1>6. CASE ServerEof \/ ServerRefusesRequest \/ ServerWriteFails \/ ServerCrash
  BY <1>6, DieIInv DEF ServerEof, ServerRefusesRequest, ServerWriteFails, ServerCrash
<1> QED BY <1>2, <1>3, <1>4, <1>5, <1>6 DEF EchoStep

LEMMA NextIInv == IInv /\ [Next]_vars => IInv'
<1> SUFFICES ASSUME IInv, [Next]_vars PROVE IInv'
  OBVIOUS
<1>1. CASE \E c \in Calls : SendHeader(c) \/ SendRefused(c)
  BY <1>1, SendIInv
<1>2. CASE Running
  BY <1>2, RunningIInv
<1>3. CASE Collect \/ Close
  BY <1>3, CollectIInv
<1>4. CASE EchoStep \/ (\E f \in Strays : Stray(f)) \/ ServerCrash
  BY <1>4, ServerIInv
<1>5. CASE UNCHANGED vars
  BY <1>5 DEF vars, clientVars, serverVars, pipes, history, IInv, TypeOK, BuffersBounded
<1> QED BY <1>1, <1>2, <1>3, <1>4, <1>5 DEF Next, ClientStep

\* Every reachable state of a session is well typed.
THEOREM TypeCorrect == Spec => []TypeOK
BY InitIInv, NextIInv, PTL DEF Spec, IInv

\* Neither side ever holds more than a header and MaxPayload cells, whatever
\* length the other side announces: recv_header_inner and serve_urb_echo check
\* the length before they read a payload.
THEOREM BuffersAlwaysBounded == Spec => []BuffersBounded
BY InitIInv, NextIInv, PTL DEF Spec, IInv

-----------------------------------------------------------------------------
(* Sequence numbers *)

\* As long as a round is not over, nextSeq lies as far from the number of a
\* request as calls have been made since.
NumbersCounted ==
  \A k \in DOMAIN sent :
    /\ sent[k].number \in 1 .. calls
    /\ calls + 1 - sent[k].number <= SeqSpace =>
         \/ nextSeq = sent[k].header.seq + (calls + 1 - sent[k].number)
         \/ nextSeq = sent[k].header.seq + (calls + 1 - sent[k].number) - SeqSpace

SeqInv == TypeOK /\ NumbersCounted /\ SeqnumsDistinct

LEMMA NextSeqnum ==
  ASSUME TypeOK, TakeSeqnum
  PROVE  /\ nextSeq' = IF nextSeq + 1 = SeqSpace THEN 0 ELSE nextSeq + 1
         /\ calls' = calls + 1
<1>1. nextSeq \in 0 .. SeqSpace - 1 /\ SeqSpace \in Nat \ {0}
  BY SeqSpaceAssumption DEF TypeOK
<1>2. nextSeq' = (nextSeq + 1) % SeqSpace /\ calls' = calls + 1
  BY DEF TakeSeqnum
<1>3. CASE nextSeq + 1 = SeqSpace
  <2>1. SeqSpace % SeqSpace = 0
    BY <1>1
  <2> QED BY <1>2, <1>3, <2>1
<1>4. CASE nextSeq + 1 # SeqSpace
  <2>1. nextSeq + 1 \in 0 .. SeqSpace - 1
    BY <1>1, <1>4
  <2>2. (nextSeq + 1) % SeqSpace = nextSeq + 1
    BY <1>1, <2>1
  <2> QED BY <1>2, <1>4, <2>2
<1> QED BY <1>3, <1>4

\* The numbers of the requests already sent stay counted.
LEMMA CountGoesOn ==
  ASSUME SeqInv, TakeSeqnum, NEW k \in DOMAIN sent
  PROVE  /\ sent[k].number \in 1 .. calls'
         /\ calls' + 1 - sent[k].number <= SeqSpace =>
              \/ nextSeq' = sent[k].header.seq + (calls' + 1 - sent[k].number)
              \/ nextSeq' = sent[k].header.seq + (calls' + 1 - sent[k].number) - SeqSpace
<1> DEFINE n == sent[k].number
           s == sent[k].header.seq
<1>1. /\ calls \in Nat /\ nextSeq \in 0 .. SeqSpace - 1 /\ SeqSpace \in Nat \ {0}
      /\ sent[k] \in RequestRecords
  BY SeqSpaceAssumption, BoundsAssumption DEF SeqInv, TypeOK
<1>2. s \in 0 .. SeqSpace - 1
  BY <1>1 DEF RequestRecords, Headers
<1>3. /\ n \in 1 .. calls
      /\ calls + 1 - n <= SeqSpace => \/ nextSeq = s + (calls + 1 - n)
                                      \/ nextSeq = s + (calls + 1 - n) - SeqSpace
  BY DEF SeqInv, NumbersCounted
<1>4. /\ nextSeq' = IF nextSeq + 1 = SeqSpace THEN 0 ELSE nextSeq + 1
      /\ calls' = calls + 1
  BY NextSeqnum DEF SeqInv
<1> HIDE DEF n, s
<1>5. /\ n \in 1 .. calls'
      /\ calls' + 1 - n <= SeqSpace => \/ nextSeq' = s + (calls' + 1 - n)
                                       \/ nextSeq' = s + (calls' + 1 - n) - SeqSpace
  BY <1>1, <1>2, <1>3, <1>4
<1> QED BY <1>5 DEF n, s

LEMMA InitSeqInv == Init => SeqInv
<1> SUFFICES ASSUME Init PROVE SeqInv
  OBVIOUS
<1>1. TypeOK
  BY InitIInv DEF IInv
<1>2. DOMAIN sent = {}
  BY DEF Init
<1> QED BY <1>1, <1>2 DEF SeqInv, NumbersCounted, SeqnumsDistinct

LEMMA SendHeaderSeqInv ==
  ASSUME SeqInv, TypeOK', NEW c \in Calls, SendHeader(c)
  PROVE  SeqInv'
<1> DEFINE new == Len(sent) + 1
<1>1. /\ sent' = Append(sent, Request(c)) /\ TakeSeqnum
      /\ sent \in Seq(RequestRecords) /\ Request(c) \in RequestRecords
  BY CallTypes DEF SendHeader, SeqInv, TypeOK
<1>2. /\ DOMAIN sent' = DOMAIN sent \cup {new} /\ new \notin DOMAIN sent /\ new \in Nat
      /\ \A k \in DOMAIN sent : k \in Nat /\ k < new /\ sent'[k] = sent[k]
      /\ sent'[new] = Request(c)
  BY <1>1
<1>3. Request(c).number = calls + 1 /\ Request(c).header.seq = nextSeq
  BY DEF Request, Numbered
<1>4. /\ nextSeq' = IF nextSeq + 1 = SeqSpace THEN 0 ELSE nextSeq + 1
      /\ calls' = calls + 1
  BY <1>1, NextSeqnum DEF SeqInv
<1>5. calls \in Nat /\ nextSeq \in 0 .. SeqSpace - 1 /\ SeqSpace \in Nat \ {0}
  BY SeqSpaceAssumption, BoundsAssumption DEF SeqInv, TypeOK
<1> HIDE DEF new
<1>6. NumbersCounted'
  <2> SUFFICES ASSUME NEW k \in DOMAIN sent'
               PROVE  /\ sent'[k].number \in 1 .. calls'
                      /\ calls' + 1 - sent'[k].number <= SeqSpace =>
                           \/ nextSeq' = sent'[k].header.seq + (calls' + 1 - sent'[k].number)
                           \/ nextSeq' = sent'[k].header.seq + (calls' + 1 - sent'[k].number) - SeqSpace
    BY DEF NumbersCounted
  <2>1. CASE k \in DOMAIN sent
    <3>1. sent'[k] = sent[k]
      BY <1>2, <2>1
    <3>2. /\ sent[k].number \in 1 .. calls'
          /\ calls' + 1 - sent[k].number <= SeqSpace =>
               \/ nextSeq' = sent[k].header.seq + (calls' + 1 - sent[k].number)
               \/ nextSeq' = sent[k].header.seq + (calls' + 1 - sent[k].number) - SeqSpace
      BY <1>1, <2>1, CountGoesOn
    <3> QED BY <3>1, <3>2
  <2>2. CASE k = new
    <3>1. sent'[k].number = calls + 1 /\ sent'[k].header.seq = nextSeq
      BY <1>2, <1>3, <2>2
    <3>2. /\ calls + 1 \in 1 .. calls' /\ calls' + 1 - (calls + 1) = 1
          /\ nextSeq' = nextSeq + 1 \/ nextSeq' = nextSeq + 1 - SeqSpace
      BY <1>4, <1>5
    <3> QED BY <3>1, <3>2
  <2> QED BY <1>2, <2>1, <2>2
<1>7. SeqnumsDistinct'
  <2> SUFFICES ASSUME NEW j \in DOMAIN sent', NEW k \in DOMAIN sent',
                      j < k, sent'[j].header.seq = sent'[k].header.seq
               PROVE  sent'[k].number - sent'[j].number >= SeqSpace
    BY DEF SeqnumsDistinct
  <2>1. CASE k \in DOMAIN sent
    <3>1. j \in DOMAIN sent
      BY <1>2, <2>1
    <3> QED BY <1>2, <2>1, <3>1 DEF SeqInv, SeqnumsDistinct
  <2>2. CASE k = new
    <3>1. j \in DOMAIN sent
      BY <1>2, <2>2
    <3>2. sent[j].header.seq = nextSeq /\ sent'[k].number = calls + 1 /\ sent'[j] = sent[j]
      BY <1>2, <1>3, <2>2, <3>1
    <3>3. /\ sent[j].number \in 1 .. calls
          /\ calls + 1 - sent[j].number <= SeqSpace =>
               \/ nextSeq = sent[j].header.seq + (calls + 1 - sent[j].number)
               \/ nextSeq = sent[j].header.seq + (calls + 1 - sent[j].number) - SeqSpace
      BY <3>1 DEF SeqInv, NumbersCounted
    <3> QED BY <1>5, <3>2, <3>3
  <2> QED BY <1>2, <2>1, <2>2
<1> QED BY <1>6, <1>7 DEF SeqInv

LEMMA SendRefusedSeqInv ==
  ASSUME SeqInv, TypeOK', NEW c \in Calls, SendRefused(c)
  PROVE  SeqInv'
<1>1. TakeSeqnum /\ sent' = sent
  BY DEF SendRefused, history
<1>2. NumbersCounted'
  BY <1>1, CountGoesOn DEF NumbersCounted
<1>3. SeqnumsDistinct'
  BY <1>1 DEF SeqInv, SeqnumsDistinct
<1> QED BY <1>2, <1>3 DEF SeqInv

LEMMA NextSeqInv == SeqInv /\ TypeOK' /\ [Next]_vars => SeqInv'
<1> SUFFICES ASSUME SeqInv, TypeOK', [Next]_vars PROVE SeqInv'
  OBVIOUS
<1>1. CASE \E c \in Calls : SendHeader(c) \/ SendRefused(c)
  BY <1>1, SendHeaderSeqInv, SendRefusedSeqInv
<1>2. CASE UNCHANGED <<nextSeq, calls, sent>>
  BY <1>2 DEF SeqInv, NumbersCounted, SeqnumsDistinct
<1>3. CASE Running \/ Collect \/ Close
  <2>1. UNCHANGED <<nextSeq, calls, sent>>
    BY <1>3
    DEF Running, WriteCell, SendReturns, WriteFails, ReadCell, RecvReturns, RecvMalformed,
        RecvEof, RecvFails, Collect, RecvHeader, RecvHeaderOrClose, Close, history
  <2> QED BY <1>2, <2>1
<1>4. CASE EchoStep \/ (\E f \in Strays : Stray(f)) \/ ServerCrash
  <2>1. UNCHANGED <<nextSeq, calls, sent>>
    BY <1>4
    DEF EchoStep, ServerRead, ServerEof, Echo, ServerRefusesRequest, ServerWrite,
        ServerWriteFails, Stray, ServerCrash, clientVars, history
  <2> QED BY <1>2, <2>1
<1>5. CASE UNCHANGED vars
  BY <1>2, <1>5 DEF vars, clientVars, history
<1> QED BY <1>1, <1>3, <1>4, <1>5 DEF Next, ClientStep

\* Requests share a sequence number only a whole round apart: send_header takes
\* a number for every call, those that fail to encode included.
THEOREM SeqnumsAlwaysDistinct == Spec => []SeqnumsDistinct
<1>1. SeqInv => SeqnumsDistinct
  BY DEF SeqInv
<1> QED BY <1>1, InitSeqInv, NextSeqInv, TypeCorrect, PTL DEF Spec

-----------------------------------------------------------------------------
(* Frames *)

\* What a client accepts as the header of an answer.
AnswerHeader(h) ==
  /\ h.command \in {"RET_SUBMIT", "RET_UNLINK"}
  /\ h.direction \in Directions
  /\ ~ClientRefuses(h)

After(s, i) == i + 1 + ClientLength(ReadAsHeader(s[i]))

\* B are the places in s where a frame begins.  The last frame may be cut.
FramedBy(s, B) ==
  /\ 1 \in B /\ B \subseteq 1 .. Len(s) + 1
  /\ \A i \in B : i <= Len(s) =>
       /\ AnswerHeader(ReadAsHeader(s[i]))
       /\ After(s, i) \in B \/ After(s, i) > Len(s) + 1

\* And the last frame is not cut.
WholeBy(s, B) ==
  /\ 1 \in B /\ B \subseteq 1 .. Len(s) + 1
  /\ Len(s) + 1 \in B
  /\ \A i \in B : i <= Len(s) => AnswerHeader(ReadAsHeader(s[i])) /\ After(s, i) \in B

\* What the client has not returned yet, from the cells it has read to those
\* the server has still to write.
Coming == in \o (down \o sout)

FrameInv ==
  /\ TypeOK /\ BuffersBounded
  /\ server = "gone" => sout = <<>>
  /\ in # <<>> /\ ~ClientRefuses(ClientHeader) => Len(in) <= 1 + ClientLength(ClientHeader)
  /\ sin # <<>> /\ ~ServerRefuses(ServerHeader) => Len(sin) <= 1 + ServerLength(ServerHeader)
  /\ ~strayed => \E B : FramedBy(Coming, B) /\ (server = "serving" => WholeBy(Coming, B))

\* Concatenation, cell by cell.
LEMMA ConcatCells ==
  ASSUME NEW s \in Seq(Cells), NEW t \in Seq(Cells)
  PROVE  /\ s \o t \in Seq(Cells)
         /\ Len(s \o t) = Len(s) + Len(t)
         /\ \A i \in 1 .. Len(s) : (s \o t)[i] = s[i]
         /\ \A i \in 1 .. Len(t) : (s \o t)[Len(s) + i] = t[i]
OBVIOUS

LEMMA ConcatEmpty ==
  ASSUME NEW s \in Seq(Cells)
  PROVE  s \o <<>> = s /\ <<>> \o s = s
OBVIOUS

LEMMA ConcatAssoc ==
  ASSUME NEW s \in Seq(Cells), NEW t \in Seq(Cells), NEW u \in Seq(Cells)
  PROVE  s \o (t \o u) = (s \o t) \o u
OBVIOUS

\* Moving a cell from the head of one sequence to the end of the one before.
LEMMA MoveCell ==
  ASSUME NEW s \in Seq(Cells), NEW t \in Seq(Cells), t # <<>>
  PROVE  Append(s, Head(t)) \o Tail(t) = s \o t
OBVIOUS

LEMMA HeadOfConcat ==
  ASSUME NEW s \in Seq(Cells), NEW t \in Seq(Cells), s # <<>>
  PROVE  Head(s \o t) = Head(s) /\ Tail(s \o t) = Tail(s) \o t /\ s \o t # <<>>
OBVIOUS

\* A place inside a stream of whole headers.
LEMMA AfterType ==
  ASSUME NEW s \in Seq(Cells), NEW i \in 1 .. Len(s)
  PROVE  After(s, i) \in Nat /\ After(s, i) >= i + 1
<1>1. s[i] \in Cells
  OBVIOUS
<1>2. ClientLength(ReadAsHeader(s[i])) \in Nat
  BY <1>1, ReadAsHeaderType, LengthBounds
<1> QED BY <1>2 DEF After

LEMMA WholeIsFramed ==
  ASSUME NEW s, NEW B, WholeBy(s, B)
  PROVE  FramedBy(s, B)
BY DEF WholeBy, FramedBy

\* A stream that is cut stays framed.
LEMMA CutFrames ==
  ASSUME NEW s \in Seq(Cells), NEW t \in Seq(Cells), NEW B, FramedBy(s \o t, B)
  PROVE  FramedBy(s, B \cap (1 .. Len(s) + 1))
<1> DEFINE C == B \cap (1 .. Len(s) + 1)
<1>1. 1 \in C
  BY DEF FramedBy
<1>2. ASSUME NEW i \in C, i <= Len(s)
      PROVE  AnswerHeader(ReadAsHeader(s[i])) /\ (After(s, i) \in C \/ After(s, i) > Len(s) + 1)
  <2>1. i \in B /\ i \in 1 .. Len(s) /\ i <= Len(s \o t) /\ (s \o t)[i] = s[i]
    BY <1>2, ConcatCells
  <2>2. /\ AnswerHeader(ReadAsHeader(s[i]))
        /\ After(s, i) \in B \/ After(s, i) > Len(s \o t) + 1
    BY <2>1 DEF FramedBy, After
  <2>3. After(s, i) \in Nat /\ After(s, i) >= i + 1 /\ Len(s \o t) >= Len(s)
    BY <2>1, AfterType, ConcatCells
  <2> QED BY <2>2, <2>3
<1> QED BY <1>1, <1>2 DEF FramedBy

\* The first frame is taken away.
LEMMA DropFrame ==
  ASSUME NEW s \in Seq(Cells), NEW t \in Seq(Cells), s # <<>>,
         Len(s) = 1 + ClientLength(ReadAsHeader(s[1])), NEW B
  PROVE  LET C == {i \in 1 .. Len(t) + 1 : Len(s) + i \in B}
         IN  /\ FramedBy(s \o t, B) => FramedBy(t, C)
             /\ WholeBy(s \o t, B) => WholeBy(t, C)
<1> DEFINE st == s \o t
           C == {i \in 1 .. Len(t) + 1 : Len(s) + i \in B}
<1>1. /\ Len(st) = Len(s) + Len(t) /\ Len(s) \in Nat /\ Len(t) \in Nat /\ Len(s) >= 1
      /\ st[1] = s[1]
      /\ \A i \in 1 .. Len(t) : st[Len(s) + i] = t[i]
  BY ConcatCells
<1> HIDE DEF st
<1>2. After(st, 1) = Len(s) + 1
  <2>1. s[1] \in Cells
    OBVIOUS
  <2>2. ClientLength(ReadAsHeader(s[1])) \in Nat
    BY <2>1, ReadAsHeaderType, LengthBounds
  <2> QED BY <1>1, <2>2 DEF After
<1>3. ASSUME NEW i \in 1 .. Len(t)
      PROVE  /\ After(st, Len(s) + i) = Len(s) + After(t, i)
             /\ After(t, i) \in Nat /\ After(t, i) >= i + 1
  <2>1. st[Len(s) + i] = t[i]
    BY <1>1
  <2>2. t[i] \in Cells
    OBVIOUS
  <2>3. ClientLength(ReadAsHeader(t[i])) \in Nat
    BY <2>2, ReadAsHeaderType, LengthBounds
  <2> QED BY <1>1, <2>1, <2>3 DEF After
<1>4. ASSUME FramedBy(st, B) PROVE FramedBy(t, C)
  <2>1. Len(s) + 1 \in B
    BY <1>1, <1>2, <1>4 DEF FramedBy
  <2>2. 1 \in C
    BY <1>1, <2>1
  <2>3. ASSUME NEW i \in C, i <= Len(t)
        PROVE  AnswerHeader(ReadAsHeader(t[i])) /\ (After(t, i) \in C \/ After(t, i) > Len(t) + 1)
    <3>1. i \in 1 .. Len(t) /\ Len(s) + i \in B /\ Len(s) + i <= Len(st)
      BY <1>1, <2>3
    <3>2. /\ AnswerHeader(ReadAsHeader(st[Len(s) + i]))
          /\ After(st, Len(s) + i) \in B \/ After(st, Len(s) + i) > Len(st) + 1
      BY <1>4, <3>1 DEF FramedBy
    <3>3. st[Len(s) + i] = t[i] /\ After(st, Len(s) + i) = Len(s) + After(t, i)
      BY <1>1, <1>3, <3>1
    <3>4. After(t, i) \in Nat /\ After(t, i) >= i + 1
      BY <1>3, <3>1
    <3>5. CASE After(st, Len(s) + i) > Len(st) + 1
      BY <1>1, <3>2, <3>3, <3>4, <3>5
    <3>6. CASE After(st, Len(s) + i) \in B /\ After(st, Len(s) + i) <= Len(st) + 1
      BY <1>1, <3>1, <3>2, <3>3, <3>4, <3>6
    <3>7. After(st, Len(s) + i) \in Int /\ Len(st) + 1 \in Int
      BY <1>1, <3>3, <3>4
    <3> QED BY <3>2, <3>5, <3>6, <3>7
  <2> QED BY <2>2, <2>3 DEF FramedBy
<1>5. ASSUME WholeBy(st, B) PROVE WholeBy(t, C)
  <2>1. Len(s) + 1 \in B
    BY <1>1, <1>2, <1>5 DEF WholeBy
  <2>2. 1 \in C /\ Len(t) + 1 \in C
    <3>1. Len(s) + (Len(t) + 1) \in B
      BY <1>1, <1>5 DEF WholeBy
    <3> QED BY <1>1, <2>1, <3>1
  <2>3. ASSUME NEW i \in C, i <= Len(t)
        PROVE  AnswerHeader(ReadAsHeader(t[i])) /\ After(t, i) \in C
    <3>1. i \in 1 .. Len(t) /\ Len(s) + i \in B /\ Len(s) + i <= Len(st)
      BY <1>1, <2>3
    <3>2. AnswerHeader(ReadAsHeader(st[Len(s) + i])) /\ After(st, Len(s) + i) \in B
      BY <1>5, <3>1 DEF WholeBy
    <3>3. B \subseteq 1 .. Len(st) + 1
      BY <1>5 DEF WholeBy
    <3>4. st[Len(s) + i] = t[i] /\ After(st, Len(s) + i) = Len(s) + After(t, i)
      BY <1>1, <1>3, <3>1
    <3>5. After(t, i) \in 1 .. Len(t) + 1
      <4>1. After(t, i) \in Nat /\ After(t, i) >= i + 1
        BY <1>3, <3>1
      <4>2. After(st, Len(s) + i) \in 1 .. Len(st) + 1
        BY <3>2, <3>3
      <4>3. Len(s) + After(t, i) <= Len(s) + Len(t) + 1
        BY <1>1, <3>4, <4>2
      <4> QED BY <1>1, <4>1, <4>3
    <3> QED BY <3>2, <3>4, <3>5
  <2> QED BY <2>2, <2>3 DEF WholeBy
<1> QED BY <1>4, <1>5 DEF st

\* A frame is added to a stream that is whole.
LEMMA AddFrame ==
  ASSUME NEW s \in Seq(Cells), NEW t \in Seq(Cells), NEW B, WholeBy(s, B),
         t # <<>>, AnswerHeader(ReadAsHeader(t[1])),
         Len(t) = 1 + ClientLength(ReadAsHeader(t[1]))
  PROVE  WholeBy(s \o t, B \cup {Len(s \o t) + 1})
<1> DEFINE st == s \o t
           C == B \cup {Len(st) + 1}
<1>1. /\ Len(st) = Len(s) + Len(t) /\ Len(s) \in Nat /\ Len(t) \in Nat /\ Len(t) >= 1
      /\ \A i \in 1 .. Len(s) : st[i] = s[i]
      /\ st[Len(s) + 1] = t[1]
  BY ConcatCells
<1> HIDE DEF st
<1>2. 1 \in C /\ C \subseteq 1 .. Len(st) + 1 /\ Len(st) + 1 \in C
  <2>1. 1 \in B /\ B \subseteq 1 .. Len(s) + 1
    BY DEF WholeBy
  <2>2. B \subseteq 1 .. Len(st) + 1 /\ Len(st) + 1 \in 1 .. Len(st) + 1
    BY <1>1, <2>1
  <2> QED BY <2>1, <2>2
<1>3. ASSUME NEW i \in C, i <= Len(st)
      PROVE  AnswerHeader(ReadAsHeader(st[i])) /\ After(st, i) \in C
  <2>1. i \in B /\ i \in 1 .. Len(s) + 1
    BY <1>1, <1>3 DEF WholeBy
  <2>2. CASE i <= Len(s)
    <3>1. AnswerHeader(ReadAsHeader(s[i])) /\ After(s, i) \in B
      BY <2>1, <2>2 DEF WholeBy
    <3>2. st[i] = s[i]
      BY <1>1, <2>1, <2>2
    <3> QED BY <3>1, <3>2 DEF After
  <2>3. CASE i = Len(s) + 1
    <3>1. After(st, i) = Len(st) + 1
      <4>1. t[1] \in Cells
        OBVIOUS
      <4>2. ClientLength(ReadAsHeader(t[1])) \in Nat
        BY <4>1, ReadAsHeaderType, LengthBounds
      <4> QED BY <1>1, <2>3, <4>2 DEF After
    <3> QED BY <1>1, <2>3, <3>1
  <2> QED BY <1>1, <2>1, <2>2, <2>3
<1>4. WholeBy(st, C)
  BY <1>2, <1>3 DEF WholeBy
<1> QED BY <1>4 DEF st

LEMMA InitFrameInv == Init => FrameInv
<1> SUFFICES ASSUME Init PROVE FrameInv
  OBVIOUS
<1>1. TypeOK /\ BuffersBounded
  BY InitIInv DEF IInv
<1>2. in = <<>> /\ sin = <<>> /\ sout = <<>> /\ server = "serving"
  BY DEF Init
<1>3. Coming = <<>>
  BY DEF Init, Coming
<1>4. WholeBy(Coming, {1}) /\ FramedBy(Coming, {1})
  <2>1. Len(Coming) = 0
    BY <1>3
  <2> QED BY <2>1 DEF WholeBy, FramedBy
<1> QED BY <1>1, <1>2, <1>4 DEF FrameInv

\* Types of the parts of the stream.
LEMMA ComingType ==
  ASSUME TypeOK
  PROVE  /\ in \in Seq(Cells) /\ down \in Seq(Cells) /\ sout \in Seq(Cells) /\ sin \in Seq(Cells)
         /\ down \o sout \in Seq(Cells)
         /\ Coming \in Seq(Cells)
BY ConcatCells DEF TypeOK, Coming

\* Where the client has read something, the stream begins with it, and what it
\* takes for a header is one.
LEMMA HeadIsAnswer ==
  ASSUME FrameInv, ~strayed, in # <<>>
  PROVE  AnswerHeader(ClientHeader)
<1>1. PICK B : FramedBy(Coming, B)
  BY DEF FrameInv
<1>2. /\ in \in Seq(Cells) /\ down \o sout \in Seq(Cells)
      /\ Len(in) \in Nat /\ Len(in) >= 1
  BY ComingType DEF FrameInv
<1>3. Coming[1] = in[1] /\ Len(Coming) >= 1
  BY <1>2, ConcatCells DEF Coming
<1>4. AnswerHeader(ReadAsHeader(Coming[1]))
  BY <1>1, <1>3 DEF FramedBy
<1> QED BY <1>3, <1>4 DEF ClientHeader

\* A step that leaves the stream, the server and the reading alone.
LEMMA StutterFrameInv ==
  ASSUME FrameInv, TypeOK', BuffersBounded',
         UNCHANGED <<in, sin, down, sout, server, strayed>>
  PROVE  FrameInv'
BY DEF FrameInv, Coming, ClientHeader, ServerHeader

\* What the client has to read is still framed when the server gives up: what
\* it had still to write is cut off.
LEMMA DieFrameInv ==
  ASSUME FrameInv, TypeOK', BuffersBounded', Die, UNCHANGED <<in, down, strayed>>
  PROVE  FrameInv'
<1>1. server' = "gone" /\ sin' = <<>> /\ sout' = <<>>
  BY DEF Die
<1>2. ASSUME ~strayed' PROVE \E B : FramedBy(Coming', B)
  <2>1. PICK B : FramedBy(Coming, B)
    BY <1>2 DEF FrameInv
  <2>2. /\ in \in Seq(Cells) /\ down \in Seq(Cells) /\ sout \in Seq(Cells)
        /\ in \o down \in Seq(Cells)
    BY ComingType, ConcatCells DEF FrameInv
  <2>3. Coming = (in \o down) \o sout
    BY <2>2, ConcatAssoc DEF Coming
  <2>4. Coming' = in \o down
    BY <1>1, <2>2, ConcatEmpty DEF Coming
  <2> QED BY <2>1, <2>2, <2>3, <2>4, CutFrames
<1>3. in' # <<>> /\ ~ClientRefuses(ClientHeader') => Len(in') <= 1 + ClientLength(ClientHeader')
  BY DEF FrameInv, ClientHeader
<1> QED BY <1>1, <1>2, <1>3 DEF FrameInv

LEMMA ReadCellFrameInv ==
  ASSUME FrameInv, TypeOK', BuffersBounded', ReadCell
  PROVE  FrameInv'
<1>1. /\ in' = Append(in, Head(down)) /\ down' = Tail(down) /\ down # <<>>
      /\ UNCHANGED <<sin, sout, server, strayed>>
  BY DEF ReadCell, serverVars, history
<1>2. in \in Seq(Cells) /\ down \in Seq(Cells) /\ sout \in Seq(Cells) /\ down \o sout \in Seq(Cells)
  BY ComingType DEF FrameInv
<1>3. Coming' = Coming
  <2>1. /\ Head(down \o sout) = Head(down) /\ Tail(down \o sout) = Tail(down) \o sout
        /\ down \o sout # <<>>
    BY <1>1, <1>2, HeadOfConcat
  <2>2. Append(in, Head(down \o sout)) \o Tail(down \o sout) = in \o (down \o sout)
    BY <1>2, <2>1, MoveCell
  <2> QED BY <1>1, <2>1, <2>2 DEF Coming
<1>4. ASSUME ~ClientRefuses(ClientHeader') PROVE Len(in') <= 1 + ClientLength(ClientHeader')
  <2>1. Head(down) \in Cells /\ Len(in') = Len(in) + 1
    BY <1>1, <1>2
  <2>2. CASE in = <<>>
    <3>1. in'[1] = Head(down) /\ Len(in') = 1
      BY <1>1, <2>1, <2>2
    <3>2. ClientLength(ClientHeader') \in Nat
      BY <2>1, <3>1, ReadAsHeaderType, LengthBounds DEF ClientHeader
    <3> QED BY <3>1, <3>2
  <2>3. CASE in # <<>>
    <3>1. in'[1] = in[1] /\ in[1] \in Cells /\ Len(in) \in Nat
      BY <1>1, <1>2, <2>1, <2>3
    <3>2. ClientHeader' = ClientHeader
      BY <3>1 DEF ClientHeader
    <3>3. Len(in) < 1 + ClientLength(ClientHeader)
      BY <2>3 DEF ReadCell, ClientWants
    <3>4. ClientLength(ClientHeader) \in Nat
      BY <3>1, ReadAsHeaderType, LengthBounds DEF ClientHeader
    <3> QED BY <2>1, <3>1, <3>2, <3>3, <3>4
  <2> QED BY <2>2, <2>3
<1>5. ServerHeader' = ServerHeader
  BY <1>1 DEF ServerHeader
<1> QED BY <1>1, <1>3, <1>4, <1>5 DEF FrameInv

LEMMA RecvReturnsFrameInv ==
  ASSUME FrameInv, TypeOK', BuffersBounded', RecvReturns
  PROVE  FrameInv'
<1>1. /\ in' = <<>> /\ UNCHANGED <<down, sin, sout, server, strayed>>
      /\ in # <<>> /\ ~ClientRefuses(ClientHeader)
      /\ ~(Len(in) < 1 + ClientLength(ClientHeader))
  BY DEF RecvReturns, ClientWants, serverVars, pipes
<1>2. /\ in \in Seq(Cells) /\ down \o sout \in Seq(Cells) /\ Len(in) \in Nat
  BY ComingType DEF FrameInv
<1>3. Len(in) = 1 + ClientLength(ReadAsHeader(in[1]))
  <2>1. in[1] \in Cells
    BY <1>1, <1>2
  <2>2. ClientLength(ReadAsHeader(in[1])) \in Nat
    BY <2>1, ReadAsHeaderType, LengthBounds
  <2> QED BY <1>1, <1>2, <2>2 DEF FrameInv, ClientHeader
<1>4. Coming' = down \o sout
  BY <1>1, <1>2, ConcatEmpty DEF Coming
<1>5. ASSUME ~strayed'
      PROVE  \E B : FramedBy(Coming', B) /\ (server' = "serving" => WholeBy(Coming', B))
  <2>1. PICK B : FramedBy(Coming, B) /\ (server = "serving" => WholeBy(Coming, B))
    BY <1>1, <1>5 DEF FrameInv
  <2> DEFINE C == {i \in 1 .. Len(down \o sout) + 1 : Len(in) + i \in B}
  <2>2. /\ FramedBy(in \o (down \o sout), B) => FramedBy(down \o sout, C)
        /\ WholeBy(in \o (down \o sout), B) => WholeBy(down \o sout, C)
    BY <1>1, <1>2, <1>3, DropFrame
  <2> HIDE DEF C
  <2> QED BY <1>1, <1>4, <2>1, <2>2 DEF Coming
<1>6. ServerHeader' = ServerHeader
  BY <1>1 DEF ServerHeader
<1> QED BY <1>1, <1>5, <1>6 DEF FrameInv

\* As long as the server has not strayed, nothing is malformed.
LEMMA NothingMalformed ==
  ASSUME FrameInv, RecvMalformed
  PROVE  strayed
<1>1. /\ in # <<>>
      /\ ClientRefuses(ClientHeader) \/ ~(Len(in) < 1 + ClientLength(ClientHeader))
      /\ ClientRefuses(ClientHeader) \/ ~Decodes(ClientHeader, Len(in) - 1)
  BY DEF RecvMalformed, ClientWants
<1>2. in \in Seq(Cells) /\ Len(in) \in Nat /\ in[1] \in Cells
  BY <1>1, ComingType DEF FrameInv
<1>3. ClientHeader \in Headers
  BY <1>2, ReadAsHeaderType DEF ClientHeader
<1> SUFFICES ASSUME ~strayed PROVE FALSE
  BY DEF FrameInv, TypeOK
<1>4. AnswerHeader(ClientHeader)
  BY <1>1, HeadIsAnswer
<1>5. ClientLength(ClientHeader) \in Nat /\ ClientLength(ClientHeader) <= MaxPayload
  BY <1>3, <1>4, LengthBounds DEF AnswerHeader
<1>6. Decodes(ClientHeader, Len(in) - 1)
  <2>1. ClientLength(ClientHeader) <= Len(in) - 1
    BY <1>1, <1>2, <1>4, <1>5 DEF AnswerHeader
  <2> QED BY <1>4, <1>5, <2>1 DEF AnswerHeader, Decodes, KnownCommands
<1> QED BY <1>1, <1>4, <1>6 DEF AnswerHeader

LEMMA RecvMalformedFrameInv ==
  ASSUME FrameInv, TypeOK', BuffersBounded', RecvMalformed
  PROVE  FrameInv'
<1>1. in' = <<>> /\ UNCHANGED <<down, sin, sout, server, strayed>>
  BY DEF RecvMalformed, RecvFails, serverVars, history
<1>2. strayed
  BY NothingMalformed
<1>3. ServerHeader' = ServerHeader
  BY <1>1 DEF ServerHeader
<1> QED BY <1>1, <1>2, <1>3 DEF FrameInv

LEMMA RecvEofFrameInv ==
  ASSUME FrameInv, TypeOK', BuffersBounded', RecvEof
  PROVE  FrameInv'
<1>1. /\ in' = <<>> /\ down' = <<>> /\ server = "gone"
      /\ UNCHANGED <<sin, sout, server, strayed>>
  BY DEF RecvEof, RecvFails, serverVars, history
<1>2. sout' = <<>>
  BY <1>1 DEF FrameInv
<1>3. Len(Coming') = 0
  BY <1>1, <1>2 DEF Coming
<1>4. FramedBy(Coming', {1})
  BY <1>3 DEF FramedBy
<1>5. ServerHeader' = ServerHeader
  BY <1>1 DEF ServerHeader
<1> QED BY <1>1, <1>2, <1>4, <1>5 DEF FrameInv

LEMMA ServerReadFrameInv ==
  ASSUME FrameInv, TypeOK', BuffersBounded', ServerRead
  PROVE  FrameInv'
<1>1. /\ sin' = Append(sin, Head(up)) /\ up # <<>>
      /\ UNCHANGED <<in, down, sout, server, strayed>>
  BY DEF ServerRead, clientVars, history
<1>2. sin \in Seq(Cells) /\ up \in Seq(Cells)
  BY DEF FrameInv, TypeOK
<1>3. ASSUME ~ServerRefuses(ServerHeader') PROVE Len(sin') <= 1 + ServerLength(ServerHeader')
  <2>1. Head(up) \in Cells /\ Len(sin') = Len(sin) + 1
    BY <1>1, <1>2
  <2>2. CASE sin = <<>>
    <3>1. sin'[1] = Head(up) /\ Len(sin') = 1
      BY <1>1, <2>1, <2>2
    <3>2. ServerLength(ServerHeader') \in Nat
      BY <2>1, <3>1, ReadAsHeaderType, LengthBounds DEF ServerHeader
    <3> QED BY <3>1, <3>2
  <2>3. CASE sin # <<>>
    <3>1. sin'[1] = sin[1] /\ sin[1] \in Cells /\ Len(sin) \in Nat
      BY <1>1, <1>2, <2>1, <2>3
    <3>2. ServerHeader' = ServerHeader
      BY <3>1 DEF ServerHeader
    <3>3. Len(sin) < 1 + ServerLength(ServerHeader)
      BY <2>3 DEF ServerRead, ServerWants
    <3>4. ServerLength(ServerHeader) \in Nat
      BY <3>1, ReadAsHeaderType, LengthBounds DEF ServerHeader
    <3> QED BY <2>1, <3>1, <3>2, <3>3, <3>4
  <2> QED BY <2>2, <2>3
<1>4. Coming' = Coming /\ ClientHeader' = ClientHeader
  BY <1>1 DEF Coming, ClientHeader
<1> QED BY <1>1, <1>3, <1>4 DEF FrameInv

\* The echo of a request is one frame that the client accepts: actual_length is
\* the length of the payload that follows, and that is at most MaxPayload.
LEMMA EchoIsFrame ==
  ASSUME NEW h \in Headers, NEW payload \in Seq(Cells),
         Echoes(h, payload), Len(payload) <= ServerLength(h)
  PROVE  /\ EchoReply(h, payload) \in Seq(Cells) /\ EchoReply(h, payload) # <<>>
         /\ AnswerHeader(ReadAsHeader(EchoReply(h, payload)[1]))
         /\ Len(EchoReply(h, payload)) = 1 + ClientLength(ReadAsHeader(EchoReply(h, payload)[1]))
<1> DEFINE r == [command   |-> IF h.command = "CMD_SUBMIT" THEN "RET_SUBMIT" ELSE "RET_UNLINK",
                 direction |-> IF h.command = "CMD_SUBMIT" THEN "IN" ELSE h.direction,
                 seq       |-> h.seq,
                 length    |-> Len(payload),
                 packets   |-> 0]
<1>1. EchoReply(h, payload) = <<HeaderCell(r)>> \o payload
  BY DEF EchoReply
<1>2. EchoReply(h, payload) \in Seq(Cells)
  BY EchoReplyType
<1>3. /\ Len(EchoReply(h, payload)) = 1 + Len(payload)
      /\ EchoReply(h, payload)[1] = HeaderCell(r)
      /\ EchoReply(h, payload) # <<>>
  BY <1>1
<1>4. ReadAsHeader(HeaderCell(r)) = r
  BY DEF ReadAsHeader, HeaderCell, IsHeaderCell
<1>5. Len(payload) \in Nat /\ Len(payload) <= MaxPayload
  BY LengthBounds, MaxPayloadAssumption DEF Echoes
<1>6. ClientLength(r) = Len(payload)
  <2>1. CASE h.command = "CMD_SUBMIT"
    BY <1>5, <2>1 DEF ClientLength, Announces
  <2>2. CASE h.command # "CMD_SUBMIT"
    <3>1. Len(payload) = 0
      BY <1>5, <2>2 DEF ServerLength
    <3> QED BY <2>2, <3>1 DEF ClientLength, Announces
  <2> QED BY <2>1, <2>2
<1>7. AnswerHeader(r)
  <2>1. h.direction \in Directions
    BY DEF Echoes, Decodes
  <2>2. r.command \in {"RET_SUBMIT", "RET_UNLINK"} /\ r.direction \in Directions /\ r.packets = 0
    BY <2>1 DEF Directions
  <2>3. ~ClientRefuses(r)
    BY <1>5, <1>6, <2>2, MaxPayloadAssumption DEF ClientRefuses
  <2> QED BY <2>2, <2>3 DEF AnswerHeader
<1> QED BY <1>2, <1>3, <1>4, <1>6, <1>7

LEMMA EchoFrameInv ==
  ASSUME FrameInv, TypeOK', BuffersBounded', Echo
  PROVE  FrameInv'
<1> DEFINE f == EchoReply(ServerHeader, Tail(sin))
<1>1. /\ sin # <<>> /\ sout = <<>> /\ server = "serving"
      /\ Echoes(ServerHeader, Tail(sin))
      /\ sin' = <<>> /\ sout' = f
      /\ UNCHANGED <<in, down, server, strayed>>
  BY DEF Echo, Serving, ServerWants, clientVars, pipes, history
<1>2. /\ sin \in Seq(Cells) /\ in \in Seq(Cells) /\ down \in Seq(Cells)
      /\ in \o down \in Seq(Cells)
  BY ComingType, ConcatCells DEF FrameInv
<1>3. /\ sin[1] \in Cells /\ Tail(sin) \in Seq(Cells) /\ Len(Tail(sin)) = Len(sin) - 1
      /\ Len(sin) \in Nat
  BY <1>1, <1>2
<1>4. ServerHeader \in Headers
  BY <1>3, ReadAsHeaderType DEF ServerHeader
<1>5. Len(Tail(sin)) <= ServerLength(ServerHeader)
  <2>1. ~ServerRefuses(ServerHeader)
    BY <1>1 DEF Echoes
  <2>2. Len(sin) <= 1 + ServerLength(ServerHeader)
    BY <1>1, <2>1 DEF FrameInv
  <2>3. ServerLength(ServerHeader) \in Nat
    BY <1>4, LengthBounds
  <2> QED BY <1>3, <2>2, <2>3
<1>6. /\ f \in Seq(Cells) /\ f # <<>>
      /\ AnswerHeader(ReadAsHeader(f[1]))
      /\ Len(f) = 1 + ClientLength(ReadAsHeader(f[1]))
  BY <1>1, <1>3, <1>4, <1>5, EchoIsFrame
<1> HIDE DEF f
<1>7. Coming = in \o down /\ Coming' = (in \o down) \o f
  <2>1. down \o <<>> = down
    BY <1>2, ConcatEmpty
  <2>2. in \o (down \o f) = (in \o down) \o f
    BY <1>2, <1>6, ConcatAssoc
  <2> QED BY <1>1, <2>1, <2>2 DEF Coming
<1>8. ASSUME ~strayed' PROVE \E B : FramedBy(Coming', B) /\ WholeBy(Coming', B)
  <2>1. PICK B : WholeBy(in \o down, B)
    BY <1>1, <1>7, <1>8 DEF FrameInv
  <2>2. WholeBy((in \o down) \o f, B \cup {Len((in \o down) \o f) + 1})
    BY <1>2, <1>6, <2>1, AddFrame
  <2> QED BY <1>7, <2>2, WholeIsFramed
<1>9. ClientHeader' = ClientHeader
  BY <1>1 DEF ClientHeader
<1> QED BY <1>1, <1>8, <1>9 DEF FrameInv

LEMMA ServerWriteFrameInv ==
  ASSUME FrameInv, TypeOK', BuffersBounded', ServerWrite
  PROVE  FrameInv'
<1>1. /\ down' = Append(down, Head(sout)) /\ sout' = Tail(sout) /\ sout # <<>>
      /\ UNCHANGED <<in, sin, server, strayed>>
  BY DEF ServerWrite, clientVars, history
<1>2. down \in Seq(Cells) /\ sout \in Seq(Cells)
  BY ComingType DEF FrameInv
<1>3. down' \o sout' = down \o sout
  BY <1>1, <1>2, MoveCell
<1>4. Coming' = Coming /\ ClientHeader' = ClientHeader /\ ServerHeader' = ServerHeader
  BY <1>1, <1>3 DEF Coming, ClientHeader, ServerHeader
<1>5. server # "gone"
  BY <1>1 DEF FrameInv
<1> QED BY <1>1, <1>4, <1>5 DEF FrameInv

LEMMA StrayFrameInv ==
  ASSUME FrameInv, TypeOK', BuffersBounded', NEW f \in Strays, Stray(f)
  PROVE  FrameInv'
<1>1. /\ strayed' = TRUE /\ server = "serving" /\ UNCHANGED <<in, sin, server>>
  BY DEF Stray, Serving, clientVars
<1>2. ClientHeader' = ClientHeader /\ ServerHeader' = ServerHeader
  BY <1>1 DEF ClientHeader, ServerHeader
<1> QED BY <1>1, <1>2 DEF FrameInv

LEMMA NextFrameInv == FrameInv /\ TypeOK' /\ BuffersBounded' /\ [Next]_vars => FrameInv'
<1> SUFFICES ASSUME FrameInv, TypeOK', BuffersBounded', [Next]_vars PROVE FrameInv'
  OBVIOUS
<1>1. CASE \/ \E c \in Calls : SendHeader(c) \/ SendRefused(c)
           \/ WriteCell \/ SendReturns \/ WriteFails
           \/ Collect \/ Close
           \/ UNCHANGED vars
  <2>1. UNCHANGED <<in, sin, down, sout, server, strayed>>
    BY <1>1
    DEF SendHeader, SendRefused, WriteCell, SendReturns, WriteFails, Collect, RecvHeader,
        RecvHeaderOrClose, Close, vars, clientVars, serverVars, pipes, history
  <2> QED BY <2>1, StutterFrameInv
<1>2. CASE ReadCell \/ RecvReturns \/ RecvMalformed \/ RecvEof
  BY <1>2, ReadCellFrameInv, RecvReturnsFrameInv, RecvMalformedFrameInv, RecvEofFrameInv
<1>3. CASE ServerRead \/ Echo \/ ServerWrite \/ \E f \in Strays : Stray(f)
  BY <1>3, ServerReadFrameInv, EchoFrameInv, ServerWriteFrameInv, StrayFrameInv
<1>4. CASE ServerEof \/ ServerRefusesRequest \/ ServerWriteFails \/ ServerCrash
  <2>1. Die /\ UNCHANGED <<in, down, strayed>>
    BY <1>4
    DEF ServerEof, ServerRefusesRequest, ServerWriteFails, ServerCrash, clientVars, pipes, history
  <2> QED BY <2>1, DieFrameInv
<1> QED BY <1>1, <1>2, <1>3, <1>4 DEF Next, ClientStep, Running, EchoStep

\* The client finds a header it accepts wherever it expects one, whatever was
\* sent and however the server came to frame it: serve_urb_echo gives every
\* answer the length of its payload.
THEOREM RepliesAlwaysFramed == Spec => []RepliesStayFramed
<1>1. FrameInv => RepliesStayFramed
  BY HeadIsAnswer DEF RepliesStayFramed, AnswerHeader
<1> QED
  BY <1>1, InitFrameInv, NextFrameInv, TypeCorrect, BuffersAlwaysBounded, PTL DEF Spec

-----------------------------------------------------------------------------
(* The answers and their requests *)

\* What the server has not taken for a request yet, from the cells it has read
\* to those send_header has still to write.
Going == sin \o (up \o out)

\* The frames of the requests, and of their echoes.
Asks == [k \in DOMAIN sent |-> <<HeaderCell(sent[k].header)>> \o sent[k].payload]
Echoed == [k \in DOMAIN sent |-> EchoReply(sent[k].header, sent[k].payload)]

\* The first n requests fit, and the next one, if there is one, does not.
Fitting(n) ==
  /\ n \in 0 .. Len(sent)
  /\ \A j \in 1 .. n : sent[j].fits
  /\ n < Len(sent) => ~sent[n + 1].fits

Answers(k) ==
  /\ received[k].header.seq = sent[k].header.seq
  /\ received[k].payload = sent[k].payload
  /\ <<sent[k].header.command, received[k].header.command>> \in
       {<<"CMD_SUBMIT", "RET_SUBMIT">>, <<"CMD_UNLINK", "RET_UNLINK">>}

\* The request has been echoed with a frame whose length is the one it states.
Echoable(k) ==
  /\ sent[k].header.command \in {"CMD_SUBMIT", "CMD_UNLINK"}
  /\ Len(Echoed[k]) = 1 + ClientLength(ReadAsHeader(Echoed[k][1]))

\* Of the first F requests, those that fit, the server has echoed e: the echoes
\* the client has not returned come first, and nothing else is on the way
\* unless a request that does not fit has been echoed as well.
AnswersAhead(F, e) ==
  \E p : /\ LaidOut(Coming, Echoed, Len(received) + 1, e, p)
         /\ e < F \/ F = Len(sent) => Len(Coming) <= p[e + 1]
         /\ server = "serving" => p[e + 1] <= Len(Coming)

\* The others are under way to the server, and nothing else if all fit.
RequestsAhead(F, e) ==
  \E p : /\ LaidOut(Going, Asks, e + 1, F, p)
         /\ p[F + 1] <= Len(Going)
         /\ F = Len(sent) => Len(Going) = p[F + 1]

InStep(F, e) ==
  /\ e \in Len(received) .. F
  /\ \A k \in 1 .. e : Echoable(k)
  /\ AnswersAhead(F, e)
  /\ server = "serving" => RequestsAhead(F, e)

OrderFor(F) ==
  /\ Fitting(F)
  /\ F < Len(received) => F < Len(sent)
  /\ \A k \in 1 .. Len(received) : k <= F => Answers(k)
  /\ Len(received) <= F => \E e : InStep(F, e)

OrderInv ==
  /\ call # "sending" => out = <<>>
  /\ \A k \in 1 .. Len(sent) : sent[k].fits => Len(sent[k].payload) = ClientLength(sent[k].header)
  /\ ~strayed => \E F : OrderFor(F)

\* The invariant is that every answer up to the first request that does not
\* fit repeats its request.
LEMMA OrderInvImplies == TypeOK /\ OrderInv => EchoInOrder
<1> SUFFICES ASSUME TypeOK, OrderInv, ~strayed,
                    NEW k \in DOMAIN received, \A j \in DOMAIN sent : j <= k => sent[j].fits
             PROVE  k \in DOMAIN sent /\ Answers(k)
  BY DEF EchoInOrder, Answers
<1>1. PICK F : OrderFor(F)
  BY DEF OrderInv
<1>2. /\ DOMAIN sent = 1 .. Len(sent) /\ DOMAIN received = 1 .. Len(received)
      /\ Len(sent) \in Nat /\ Len(received) \in Nat
  BY DEF TypeOK
<1>3. F \in 0 .. Len(sent)
  BY <1>1 DEF OrderFor, Fitting
<1>4. k <= F
  <2> SUFFICES ASSUME F < k PROVE FALSE
    BY <1>2, <1>3
  <2>1. F < Len(sent)
    BY <1>1, <1>2, <1>3 DEF OrderFor
  <2>2. F + 1 \in DOMAIN sent /\ F + 1 <= k
    BY <1>2, <1>3, <2>1
  <2> QED BY <1>1, <2>1, <2>2 DEF OrderFor, Fitting
<1>5. Answers(k)
  BY <1>1, <1>2, <1>4 DEF OrderFor
<1> QED BY <1>2, <1>3, <1>4, <1>5

LEMMA InitOrderInv == Init => OrderInv
<1> SUFFICES ASSUME Init PROVE OrderInv
  OBVIOUS
<1>1. /\ sent = <<>> /\ received = <<>> /\ out = <<>>
      /\ Coming = <<>> /\ Going = <<>>
  BY DEF Init, Coming, Going
<1>2. Len(sent) = 0 /\ Len(received) = 0 /\ Len(Coming) = 0 /\ Len(Going) = 0
  BY <1>1
<1>3. Fitting(0)
  BY <1>2 DEF Fitting
<1>4. InStep(0, 0)
  <2>1. PICK p : LaidOut(Coming, Echoed, 1, 0, p) /\ p[1] = 0
    BY NoFrames
  <2>2. PICK q : LaidOut(Going, Asks, 1, 0, q) /\ q[1] = 0
    BY NoFrames
  <2> HIDE DEF Coming, Going, Asks, Echoed
  <2> QED BY <1>2, <2>1, <2>2 DEF InStep, AnswersAhead, RequestsAhead
<1>5. OrderFor(0)
  BY <1>2, <1>3, <1>4 DEF OrderFor
<1> QED BY <1>1, <1>2, <1>5 DEF OrderInv

\* Requests and echoes are frames of cells.
LEMMA FramesExist ==
  ASSUME TypeOK
  PROVE  /\ DOMAIN sent = 1 .. Len(sent) /\ Len(sent) \in Nat /\ Len(received) \in Nat
         /\ \A k \in 1 .. Len(sent) :
              /\ sent[k].header \in Headers /\ sent[k].payload \in Seq(Cells)
              /\ Asks[k] = <<HeaderCell(sent[k].header)>> \o sent[k].payload
              /\ Echoed[k] = EchoReply(sent[k].header, sent[k].payload)
              /\ Asks[k] \in Seq(Cells) /\ Echoed[k] \in Seq(Cells)
         /\ \A a \in Nat, b \in Nat : 1 <= a /\ a <= b + 1 /\ b <= Len(sent) =>
              Frames(Cells, Asks, a, b) /\ Frames(Cells, Echoed, a, b)
<1>1. DOMAIN sent = 1 .. Len(sent) /\ Len(sent) \in Nat /\ Len(received) \in Nat
  BY DEF TypeOK
<1>2. ASSUME NEW k \in 1 .. Len(sent)
      PROVE  /\ sent[k].header \in Headers /\ sent[k].payload \in Seq(Cells)
             /\ Asks[k] = <<HeaderCell(sent[k].header)>> \o sent[k].payload
             /\ Echoed[k] = EchoReply(sent[k].header, sent[k].payload)
             /\ Asks[k] \in Seq(Cells) /\ Echoed[k] \in Seq(Cells)
  <2>1. sent[k] \in RequestRecords
    BY <1>1 DEF TypeOK
  <2>2. sent[k].header \in Headers /\ sent[k].payload \in Seq(Cells)
    BY <2>1 DEF RequestRecords
  <2>3. /\ Asks[k] = <<HeaderCell(sent[k].header)>> \o sent[k].payload
        /\ Echoed[k] = EchoReply(sent[k].header, sent[k].payload)
    BY <1>1 DEF Asks, Echoed
  <2>4. <<HeaderCell(sent[k].header)>> \in Seq(Cells)
    BY <2>2 DEF HeaderCell, Cells
  <2>5. <<HeaderCell(sent[k].header)>> \o sent[k].payload \in Seq(Cells)
    BY <2>2, <2>4, ConcatCells
  <2> QED BY <2>2, <2>3, <2>5, EchoReplyType
<1>3. ASSUME NEW a \in Nat, NEW b \in Nat, 1 <= a, a <= b + 1, b <= Len(sent)
      PROVE  Frames(Cells, Asks, a, b) /\ Frames(Cells, Echoed, a, b)
  <2>1. \A k \in a .. b : k \in 1 .. Len(sent)
    BY <1>1, <1>3
  <2> QED BY <1>2, <1>3, <2>1 DEF Frames
<1> QED BY <1>1, <1>2, <1>3

\* Types of what goes to the server.
LEMMA GoingType ==
  ASSUME TypeOK
  PROVE  /\ sin \in Seq(Cells) /\ up \in Seq(Cells) /\ out \in Seq(Cells)
         /\ up \o out \in Seq(Cells)
         /\ Going \in Seq(Cells)
BY ConcatCells DEF TypeOK, Going

\* Steps that only move cells.
LEMMA MovesKeepStreams ==
  ASSUME TypeOK, WriteCell \/ ReadCell \/ ServerRead \/ ServerWrite
  PROVE  Coming' = Coming /\ Going' = Going
<1>1. CASE WriteCell
  <2>1. /\ up' = Append(up, Head(out)) /\ out' = Tail(out) /\ out # <<>>
        /\ UNCHANGED <<in, down, sin, sout>>
    BY <1>1 DEF WriteCell, serverVars
  <2>2. up' \o out' = up \o out
    BY <2>1, GoingType, MoveCell
  <2> QED BY <2>1, <2>2 DEF Coming, Going
<1>2. CASE ReadCell
  <2>1. /\ in' = Append(in, Head(down)) /\ down' = Tail(down) /\ down # <<>>
        /\ UNCHANGED <<out, up, sin, sout>>
    BY <1>2 DEF ReadCell, serverVars
  <2>2. /\ Head(down \o sout) = Head(down) /\ Tail(down \o sout) = Tail(down) \o sout
        /\ down \o sout # <<>>
    BY <2>1, ComingType, HeadOfConcat
  <2>3. Append(in, Head(down \o sout)) \o Tail(down \o sout) = in \o (down \o sout)
    BY <2>2, ComingType, MoveCell
  <2> QED BY <2>1, <2>2, <2>3 DEF Coming, Going
<1>3. CASE ServerRead
  <2>1. /\ sin' = Append(sin, Head(up)) /\ up' = Tail(up) /\ up # <<>>
        /\ UNCHANGED <<in, out, down, sout>>
    BY <1>3 DEF ServerRead, clientVars
  <2>2. /\ Head(up \o out) = Head(up) /\ Tail(up \o out) = Tail(up) \o out
        /\ up \o out # <<>>
    BY <2>1, GoingType, HeadOfConcat
  <2>3. Append(sin, Head(up \o out)) \o Tail(up \o out) = sin \o (up \o out)
    BY <2>2, GoingType, MoveCell
  <2> QED BY <2>1, <2>2, <2>3 DEF Coming, Going
<1>4. CASE ServerWrite
  <2>1. /\ down' = Append(down, Head(sout)) /\ sout' = Tail(sout) /\ sout # <<>>
        /\ UNCHANGED <<in, out, up, sin>>
    BY <1>4 DEF ServerWrite, clientVars
  <2>2. down' \o sout' = down \o sout
    BY <2>1, ComingType, MoveCell
  <2> QED BY <2>1, <2>2 DEF Coming, Going
<1> QED BY <1>1, <1>2, <1>3, <1>4

\* A step that sends no request and returns no answer keeps the order if it
\* keeps client and server in step.
LEMMA QuietOrder ==
  ASSUME OrderInv, UNCHANGED <<sent, received>>,
         call' # "sending" => out' = <<>>,
         ~strayed' => ~strayed,
         ASSUME ~strayed, NEW F, OrderFor(F), NEW e, InStep(F, e) PROVE \E d : InStep(F, d)'
  PROVE  OrderInv'
<1>1. ASSUME ~strayed' PROVE \E F : OrderFor(F)'
  <2>1. PICK F : OrderFor(F)
    BY <1>1 DEF OrderInv
  <2>2. Fitting(F)'
    BY <2>1 DEF OrderFor, Fitting
  <2>3. \A k : Answers(k)' <=> Answers(k)
    BY DEF Answers
  <2>4. ASSUME Len(received) <= F PROVE \E d : InStep(F, d)'
    <3>1. PICK e : InStep(F, e)
      BY <2>1, <2>4 DEF OrderFor
    <3> QED BY <1>1, <2>1, <3>1
  <2>5. OrderFor(F)'
    BY <2>1, <2>2, <2>3, <2>4 DEF OrderFor
  <2> QED BY <2>5
<1> QED BY <1>1 DEF OrderInv

LEMMA StillOrderInv ==
  ASSUME OrderInv, UNCHANGED <<sent, received>>,
         call' # "sending" => out' = <<>>,
         ~strayed' => ~strayed,
         Coming' = Coming, server' = "serving" => server = "serving" /\ Going' = Going
  PROVE  OrderInv'
<1>1. ASSUME NEW F, NEW e, InStep(F, e) PROVE InStep(F, e)'
  <2>1. Echoed' = Echoed /\ Asks' = Asks
    BY DEF Echoed, Asks
  <2>2. \A k : Echoable(k)' <=> Echoable(k)
    BY <2>1 DEF Echoable
  <2>3. AnswersAhead(F, e)'
    BY <1>1, <2>1 DEF InStep, AnswersAhead
  <2>4. server' = "serving" => RequestsAhead(F, e)'
    BY <1>1, <2>1 DEF InStep, RequestsAhead
  <2> QED BY <1>1, <2>2, <2>3, <2>4 DEF InStep
<1> QED BY <1>1, QuietOrder

\* When the server is gone, what comes is cut off somewhere.
LEMMA CutOrderInv ==
  ASSUME TypeOK, OrderInv, UNCHANGED <<sent, received, strayed>>,
         call' # "sending" => out' = <<>>,
         server' = "gone",
         NEW rest \in Seq(Cells), Coming' \in Seq(Cells), Coming = Coming' \o rest
  PROVE  OrderInv'
<1>1. ASSUME NEW F, OrderFor(F), NEW e, InStep(F, e) PROVE InStep(F, e)'
  <2>1. Echoed' = Echoed
    BY DEF Echoed
  <2>2. \A k : Echoable(k)' <=> Echoable(k)
    BY <2>1 DEF Echoable
  <2>3. /\ Len(received) + 1 \in Nat /\ e \in Nat /\ F \in Nat
        /\ Frames(Cells, Echoed, Len(received) + 1, e)
    <3>1. F \in 0 .. Len(sent) /\ e \in Len(received) .. F /\ Len(sent) \in Nat /\ Len(received) \in Nat
      BY <1>1, FramesExist DEF OrderFor, Fitting, InStep
    <3> QED BY <3>1, FramesExist
  <2>4. AnswersAhead(F, e)'
    <3>1. PICK p : /\ LaidOut(Coming' \o rest, Echoed, Len(received) + 1, e, p)
                   /\ e < F \/ F = Len(sent) => Len(Coming' \o rest) <= p[e + 1]
      BY <1>1 DEF InStep, AnswersAhead
    <3>2. LaidOut(Coming', Echoed, Len(received) + 1, e, p)
      BY <2>3, <3>1, CutStream
    <3>3. e < F \/ F = Len(sent) => Len(Coming') <= p[e + 1]
      <4>1. p[e + 1] \in Nat
        BY <2>3, <3>1 DEF LaidOut, Positions, Frames
      <4>2. /\ Len(Coming') \in Nat /\ Len(rest) \in Nat
            /\ Len(Coming' \o rest) = Len(Coming') + Len(rest)
        BY JoinedElements
      <4> QED BY <3>1, <4>1, <4>2
    <3> QED BY <2>1, <3>2, <3>3 DEF AnswersAhead
  <2> QED BY <1>1, <2>2, <2>4 DEF InStep
<1> QED BY <1>1, QuietOrder

\* What send_header writes, and what it means that a payload fits.
LEMMA RequestFrame ==
  ASSUME TypeOK, NEW c \in Calls
  PROVE  /\ Frame(Numbered(c), Payload(c)) = <<HeaderCell(Request(c).header)>> \o Request(c).payload
         /\ Frame(Numbered(c), Payload(c)) \in Seq(Cells)
         /\ Request(c).fits \in BOOLEAN
         /\ Request(c).fits => Len(Request(c).payload) = ClientLength(Request(c).header)
<1> DEFINE h == Numbered(c)
           body == IF Announces(h) THEN Payload(c) ELSE <<>>
<1>1. c \in CallRecords /\ h \in Headers /\ Payload(c) \in Seq(Cells)
  BY CallsAssumption, CallTypes
<1>2. body \in Seq(Cells) /\ HeaderCell(h) \in Cells
  BY <1>1 DEF HeaderCell, Cells
<1>3. Frame(h, Payload(c)) = <<HeaderCell(h)>> \o body
  BY DEF Frame
<1>4. /\ Request(c).header = h
      /\ Request(c).payload = Tail(Frame(h, Payload(c)))
      /\ Request(c).fits = (Announces(h) => c.units = c.length)
  BY DEF Request
<1>5. Announces(h) => Len(body) = c.units /\ ClientLength(h) = c.length
  <2>1. c.units \in Nat
    BY <1>1 DEF CallRecords
  <2>2. Len(Payload(c)) = c.units
    BY <2>1 DEF Payload
  <2>3. h.length = c.length
    BY DEF Numbered
  <2> HIDE DEF h
  <2> QED BY <2>2, <2>3 DEF ClientLength
<1>6. ~Announces(h) => Len(body) = 0 /\ ClientLength(h) = 0
  <2> HIDE DEF h
  <2> QED BY DEF ClientLength
<1> HIDE DEF h, body
<1>7. Tail(<<HeaderCell(h)>> \o body) = body /\ <<HeaderCell(h)>> \o body \in Seq(Cells)
  BY <1>2
<1> QED BY <1>3, <1>4, <1>5, <1>6, <1>7 DEF h

\* A new request: what it writes comes last, and the frames before it stay.
LEMMA NewRequest ==
  ASSUME TypeOK, TypeOK', OrderInv, NEW c \in Calls, SendHeader(c)
  PROVE  /\ Len(sent') = Len(sent) + 1 /\ sent' = Append(sent, Request(c))
         /\ \A k \in 1 .. Len(sent) :
              sent'[k] = sent[k] /\ Asks'[k] = Asks[k] /\ Echoed'[k] = Echoed[k]
         /\ sent'[Len(sent) + 1] = Request(c)
         /\ Asks'[Len(sent) + 1] = out'
         /\ Coming' = Coming /\ Going' = Going \o out'
         /\ out' \in Seq(Cells) /\ call' = "sending"
         /\ UNCHANGED <<received, server, strayed>>
<1>1. /\ out = <<>> /\ call' = "sending"
      /\ out' = Frame(Numbered(c), Payload(c)) /\ sent' = Append(sent, Request(c))
      /\ UNCHANGED <<in, down, sout, sin, up, received, server, strayed>>
  BY DEF SendHeader, MaySend, OrderInv, serverVars, pipes
<1>2. Request(c) \in RequestRecords /\ sent \in Seq(RequestRecords)
  BY CallTypes DEF TypeOK
<1>3. /\ Len(sent') = Len(sent) + 1
      /\ \A k \in 1 .. Len(sent) : sent'[k] = sent[k]
      /\ sent'[Len(sent) + 1] = Request(c)
      /\ DOMAIN sent = 1 .. Len(sent) /\ DOMAIN sent' = 1 .. Len(sent) + 1 /\ Len(sent) \in Nat
  BY <1>1, <1>2
<1>4. ASSUME NEW k \in 1 .. Len(sent) PROVE Asks'[k] = Asks[k] /\ Echoed'[k] = Echoed[k]
  <2>1. k \in DOMAIN sent /\ k \in DOMAIN sent' /\ sent'[k] = sent[k]
    BY <1>3
  <2> QED BY <2>1 DEF Asks, Echoed
<1>5. Asks'[Len(sent) + 1] = out'
  <2>1. Len(sent) + 1 \in DOMAIN sent'
    BY <1>3
  <2>2. Asks'[Len(sent) + 1] = <<HeaderCell(Request(c).header)>> \o Request(c).payload
    BY <1>3, <2>1 DEF Asks
  <2> QED BY <1>1, <2>2, RequestFrame
<1>6. out' \in Seq(Cells)
  BY <1>1, RequestFrame
<1>7. Going' = Going \o out'
  <2>1. up \o out = up /\ Going = sin \o up
    BY <1>1, GoingType, ConcatEmpty DEF Going
  <2>2. Going' = sin \o (up \o out')
    BY <1>1 DEF Going
  <2>3. sin \o (up \o out') = (sin \o up) \o out'
    <3>1. sin \in Seq(Cells) /\ up \in Seq(Cells)
      BY GoingType
    <3> QED BY <1>6, <3>1, ConcatAssoc
  <2> QED BY <2>1, <2>2, <2>3
<1>8. Coming' = Coming
  BY <1>1 DEF Coming
<1> QED BY <1>1, <1>3, <1>4, <1>5, <1>6, <1>7, <1>8

LEMMA SendHeaderOrderInv ==
  ASSUME TypeOK, TypeOK', OrderInv, NEW c \in Calls, SendHeader(c)
  PROVE  OrderInv'
<1>0. PICK n \in Nat, m \in Nat : n = Len(sent) /\ m = Len(received)
  BY FramesExist
<1>1. /\ Len(sent') = n + 1 /\ Len(received') = m
      /\ \A k \in 1 .. n : sent'[k] = sent[k] /\ Asks'[k] = Asks[k] /\ Echoed'[k] = Echoed[k]
      /\ sent'[n + 1] = Request(c) /\ Asks'[n + 1] = out'
      /\ Coming' = Coming /\ Going' = Going \o out'
      /\ Going \in Seq(Cells) /\ out' \in Seq(Cells) /\ call' = "sending"
      /\ UNCHANGED <<received, server, strayed>>
      /\ n \in Nat /\ m \in Nat
  BY <1>0, NewRequest, GoingType
<1>2. ASSUME NEW k \in 1 .. n + 1, sent'[k].fits
      PROVE  Len(sent'[k].payload) = ClientLength(sent'[k].header)
  <2>1. CASE k \in 1 .. n
    BY <1>0, <1>1, <1>2, <2>1 DEF OrderInv
  <2>2. CASE k = n + 1
    BY <1>1, <1>2, <2>2, RequestFrame
  <2> QED BY <2>1, <2>2
<1>3. ASSUME NEW F, OrderFor(F), F \in 0 .. n PROVE \A k \in 1 .. m : k <= F => Answers(k)'
  <2> SUFFICES ASSUME NEW k \in 1 .. m, k <= F PROVE Answers(k)'
    OBVIOUS
  <2>1. k \in 1 .. n /\ Answers(k)
    BY <1>0, <1>1, <1>3 DEF OrderFor
  <2> QED BY <1>1, <2>1 DEF Answers
\* The answers that come are those that came.
<1>4. ASSUME NEW F \in 0 .. n, NEW e, InStep(F, e)
      PROVE  /\ e \in m .. F
             /\ \A k \in 1 .. e : Echoable(k)'
             /\ Frames(Cells, Asks, e + 1, F) /\ e + 1 \in Nat
             /\ \E p : /\ LaidOut(Coming', Echoed', m + 1, e, p)
                       /\ e < F \/ F = n => Len(Coming') <= p[e + 1]
                       /\ server' = "serving" => p[e + 1] <= Len(Coming')
  <2>1. e \in m .. F /\ e \in Nat
    BY <1>0, <1>1, <1>4 DEF InStep
  <2>2. ASSUME NEW k \in 1 .. e PROVE Echoable(k)'
    <3>1. k \in 1 .. n /\ Echoable(k)
      BY <1>0, <1>1, <1>4, <2>1 DEF InStep
    <3> QED BY <1>1, <3>1 DEF Echoable
  <2>3. Frames(Cells, Asks, e + 1, F) /\ e + 1 \in Nat
    BY <1>0, <1>1, <2>1, FramesExist
  <2>4. PICK p : /\ LaidOut(Coming, Echoed, m + 1, e, p)
                 /\ e < F \/ F = n => Len(Coming) <= p[e + 1]
                 /\ server = "serving" => p[e + 1] <= Len(Coming)
    BY <1>0, <1>4 DEF InStep, AnswersAhead
  <2>5. LaidOut(Coming, Echoed', m + 1, e, p)
    <3>1. \A k \in m + 1 .. e : Echoed'[k] = Echoed[k]
      <4>1. \A k \in m + 1 .. e : k \in 1 .. n
        BY <1>1, <2>1
      <4> QED BY <1>1, <4>1
    <3>2. m + 1 \in Nat
      BY <1>1
    <3> QED BY <2>1, <2>4, <3>1, <3>2, SameFrames
  <2> QED BY <1>1, <2>1, <2>2, <2>3, <2>4, <2>5
\* The requests under way are followed by the new one.
<1>5. ASSUME NEW F \in 0 .. n, NEW e, InStep(F, e), server = "serving"
      PROVE  \E p : /\ LaidOut(Going, Asks', e + 1, F, p) /\ Frames(Cells, Asks', e + 1, F)
                    /\ p[F + 1] <= Len(Going)
                    /\ F = n => Len(Going) = p[F + 1]
  <2>1. e \in Nat /\ e + 1 \in Nat /\ F \in Nat /\ Frames(Cells, Asks, e + 1, F)
    BY <1>1, <1>4, <1>5
  <2>2. PICK p : /\ LaidOut(Going, Asks, e + 1, F, p)
                 /\ p[F + 1] <= Len(Going)
                 /\ F = n => Len(Going) = p[F + 1]
    BY <1>0, <1>5 DEF InStep, RequestsAhead
  <2>3. \A k \in e + 1 .. F : Asks'[k] = Asks[k]
    <3>1. \A k \in e + 1 .. F : k \in 1 .. n
      BY <1>1, <2>1
    <3> QED BY <1>1, <3>1
  <2>4. LaidOut(Going, Asks', e + 1, F, p)
    BY <2>1, <2>2, <2>3, SameFrames
  <2>5. Frames(Cells, Asks', e + 1, F)
    BY <2>1, <2>3 DEF Frames
  <2> QED BY <2>2, <2>4, <2>5
\* The new request comes after one that does not fit, or does not fit itself.
<1>6. ASSUME ~strayed, NEW F, OrderFor(F), F \in 0 .. n, F < n \/ ~Request(c).fits
      PROVE  OrderFor(F)'
  <2>1. Fitting(F)'
    <3>1. Fitting(F)
      BY <1>0, <1>6 DEF OrderFor
    <3>2. F \in 0 .. Len(sent') /\ F < Len(sent')
      BY <1>1, <1>6
    <3>3. \A j \in 1 .. F : sent'[j] = sent[j]
      <4>1. \A j \in 1 .. F : j \in 1 .. n
        BY <1>1, <1>6
      <4> QED BY <1>1, <4>1
    <3>4. ~sent'[F + 1].fits
      <4>1. CASE F < n
        <5>1. F + 1 \in 1 .. n
          BY <1>1, <1>6, <4>1
        <5> QED BY <1>0, <1>1, <3>1, <4>1, <5>1 DEF Fitting
      <4>2. CASE F = n
        BY <1>1, <1>6, <4>2
      <4> QED BY <1>1, <1>6, <4>1, <4>2
    <3> QED BY <1>0, <3>1, <3>2, <3>3, <3>4 DEF Fitting
  <2>2. F < Len(sent')
    BY <1>1, <1>6
  <2>3. ASSUME NEW e, InStep(F, e) PROVE InStep(F, e)'
    <3>1. AnswersAhead(F, e)'
      <4>1. PICK p : /\ LaidOut(Coming', Echoed', m + 1, e, p)
                     /\ e < F \/ F = n => Len(Coming') <= p[e + 1]
                     /\ server' = "serving" => p[e + 1] <= Len(Coming')
        BY <1>4, <1>6, <2>3
      <4>2. F # Len(sent')
        BY <1>1, <2>2, <1>6
      <4> QED BY <1>0, <1>1, <4>1, <4>2 DEF AnswersAhead
    <3>2. ASSUME server = "serving" PROVE RequestsAhead(F, e)'
      <4>1. e + 1 \in Nat /\ F \in Nat
        BY <1>4, <1>6, <2>3
      <4>2. PICK p : /\ LaidOut(Going, Asks', e + 1, F, p) /\ Frames(Cells, Asks', e + 1, F)
                     /\ p[F + 1] <= Len(Going)
        BY <1>5, <1>6, <2>3, <3>2
      <4>3. LaidOut(Going \o out', Asks', e + 1, F, p) /\ p[F + 1] <= Len(Going \o out')
        BY <1>1, <4>1, <4>2, AddBehind
      <4>4. F # Len(sent')
        BY <1>1, <2>2, <1>6
      <4> QED BY <1>0, <1>1, <4>3, <4>4 DEF RequestsAhead
    <3>3. e \in m .. F /\ \A k \in 1 .. e : Echoable(k)'
      BY <1>4, <1>6, <2>3
    <3> QED BY <1>0, <1>1, <3>1, <3>2, <3>3 DEF InStep
  <2>4. ASSUME m <= F PROVE \E e : InStep(F, e)'
    BY <1>0, <1>6, <2>3, <2>4 DEF OrderFor
  <2> QED BY <1>0, <1>1, <1>3, <1>6, <2>1, <2>2, <2>4 DEF OrderFor
\* All fit, and so does the new one.
<1>7. ASSUME ~strayed, OrderFor(n), Request(c).fits
      PROVE  OrderFor(n + 1)'
  <2>1. Fitting(n + 1)'
    <3>1. \A j \in 1 .. n : sent[j].fits
      BY <1>0, <1>7 DEF OrderFor, Fitting
    <3>2. ASSUME NEW j \in 1 .. n + 1 PROVE sent'[j].fits
      <4>1. CASE j \in 1 .. n
        BY <1>1, <3>1, <4>1
      <4>2. CASE j = n + 1
        BY <1>1, <1>7, <4>2
      <4> QED BY <1>1, <4>1, <4>2
    <3>3. n + 1 \in 0 .. Len(sent') /\ ~(n + 1 < Len(sent'))
      BY <1>1
    <3> QED BY <1>0, <3>2, <3>3 DEF Fitting
  <2>2. m <= n
    BY <1>0, <1>1, <1>7 DEF OrderFor
  <2>3. PICK e : InStep(n, e)
    BY <1>0, <1>7, <2>2 DEF OrderFor
  <2>4. n \in 0 .. n /\ n + 1 \in Nat
    BY <1>1
  <2>5. e \in m .. n + 1 /\ (\A k \in 1 .. e : Echoable(k)') /\ e + 1 \in Nat
    BY <1>1, <1>4, <2>3, <2>4
  <2>6. AnswersAhead(n + 1, e)'
    <3>1. PICK p : /\ LaidOut(Coming', Echoed', m + 1, e, p)
                   /\ Len(Coming') <= p[e + 1]
                   /\ server' = "serving" => p[e + 1] <= Len(Coming')
      BY <1>4, <2>3, <2>4
    <3> QED BY <1>0, <1>1, <3>1 DEF AnswersAhead
  <2>7. ASSUME server = "serving" PROVE RequestsAhead(n + 1, e)'
    <3>1. PICK p : /\ LaidOut(Going, Asks', e + 1, n, p) /\ Frames(Cells, Asks', e + 1, n)
                   /\ Len(Going) = p[n + 1]
      BY <1>5, <2>3, <2>4, <2>7
    <3>2. \E q : /\ LaidOut(Going \o out', Asks', e + 1, n + 1, q)
                 /\ q[n + 2] = Len(Going \o out')
      BY <1>1, <2>5, <3>1, AddLastFrame
    <3>3. PICK q : LaidOut(Going', Asks', e + 1, n + 1, q) /\ q[n + 2] = Len(Going')
      BY <1>1, <3>2
    <3>4. n + 1 + 1 = n + 2 /\ Len(Going') \in Nat
      BY <1>0, <1>1, GoingType, JoinedElements
    <3> QED BY <1>0, <3>3, <3>4 DEF RequestsAhead
  <2>8. InStep(n + 1, e)'
    BY <1>0, <1>1, <2>5, <2>6, <2>7 DEF InStep
  <2>9. \A k \in 1 .. m : k <= n + 1 => Answers(k)'
    <3>1. \A k \in 1 .. m : k <= n
      BY <1>1, <2>2
    <3> QED BY <1>3, <1>7, <2>4, <3>1
  <2> QED BY <1>0, <1>1, <2>1, <2>2, <2>8, <2>9 DEF OrderFor
<1>8. ASSUME ~strayed' PROVE \E F : OrderFor(F)'
  <2>1. PICK F : OrderFor(F)
    BY <1>0, <1>1, <1>8 DEF OrderInv
  <2>2. F \in 0 .. n
    BY <1>0, <2>1 DEF OrderFor, Fitting
  <2>3. ~strayed
    BY <1>1, <1>8
  <2>4. CASE F < n \/ ~Request(c).fits
    BY <1>6, <2>1, <2>2, <2>3, <2>4
  <2>5. CASE F = n /\ Request(c).fits
    BY <1>7, <2>1, <2>3, <2>5
  <2>6. F < n \/ F = n
    BY <1>0, <2>2
  <2> QED BY <2>4, <2>5, <2>6
<1> QED BY <1>0, <1>1, <1>2, <1>8 DEF OrderInv

\* The parts of an echo.
LEMMA EchoParts ==
  ASSUME NEW h \in Headers, NEW payload \in Seq(Cells)
  PROVE  /\ ReadAsHeader(EchoReply(h, payload)[1]).seq = h.seq
         /\ ReadAsHeader(EchoReply(h, payload)[1]).command =
              IF h.command = "CMD_SUBMIT" THEN "RET_SUBMIT" ELSE "RET_UNLINK"
         /\ Tail(EchoReply(h, payload)) = payload
         /\ EchoReply(h, payload) # <<>>
         /\ Len(EchoReply(h, payload)) = 1 + Len(payload)
<1> DEFINE r == [command   |-> IF h.command = "CMD_SUBMIT" THEN "RET_SUBMIT" ELSE "RET_UNLINK",
                 direction |-> IF h.command = "CMD_SUBMIT" THEN "IN" ELSE h.direction,
                 seq       |-> h.seq,
                 length    |-> Len(payload),
                 packets   |-> 0]
<1>1. EchoReply(h, payload) = <<HeaderCell(r)>> \o payload
  BY DEF EchoReply
<1>2. ReadAsHeader(HeaderCell(r)) = r
  BY DEF ReadAsHeader, HeaderCell, IsHeaderCell
<1>3. /\ r.seq = h.seq
      /\ r.command = IF h.command = "CMD_SUBMIT" THEN "RET_SUBMIT" ELSE "RET_UNLINK"
  OBVIOUS
<1> HIDE DEF r
<1>4. /\ (<<HeaderCell(r)>> \o payload)[1] = HeaderCell(r)
      /\ Tail(<<HeaderCell(r)>> \o payload) = payload
      /\ <<HeaderCell(r)>> \o payload # <<>>
      /\ Len(<<HeaderCell(r)>> \o payload) = 1 + Len(payload)
  <2>1. payload \in Seq(Cells \cup {HeaderCell(r)})
    OBVIOUS
  <2> QED BY <2>1
<1> QED BY <1>1, <1>2, <1>3, <1>4

\* Where client and server are in step, a call that returns has read the echo
\* of the next request.
LEMMA NextAnswer ==
  ASSUME FrameInv, NEW F, OrderFor(F), RecvReturns
  PROVE  /\ in # <<>>
         /\ Len(received) = F => F < Len(sent)
         /\ Len(received) < F =>
              \E e : /\ InStep(F, e) /\ e \in Len(received) + 1 .. F
                     /\ in = Echoed[Len(received) + 1]
                     /\ \E p : /\ LaidOut(down \o sout, Echoed, Len(received) + 2, e, p)
                               /\ e < F \/ F = Len(sent) => Len(down \o sout) <= p[e + 1]
                               /\ server = "serving" => p[e + 1] <= Len(down \o sout)
<1>0. PICK n \in Nat, m \in Nat : n = Len(sent) /\ m = Len(received)
  BY FramesExist DEF FrameInv
<1>1. /\ in # <<>> /\ ~ClientRefuses(ClientHeader)
      /\ ~(Len(in) < 1 + ClientLength(ClientHeader))
  BY DEF RecvReturns, ClientWants
<1>2. /\ in \in Seq(Cells) /\ down \o sout \in Seq(Cells) /\ Coming = in \o (down \o sout)
      /\ Coming \in Seq(Cells) /\ TypeOK
  BY ComingType DEF FrameInv, Coming
<1>3. Len(in) = 1 + ClientLength(ReadAsHeader(in[1]))
  <2>1. in[1] \in Cells /\ Len(in) \in Nat
    BY <1>1, <1>2
  <2>2. ClientLength(ReadAsHeader(in[1])) \in Nat
    BY <2>1, ReadAsHeaderType, LengthBounds
  <2> QED BY <1>1, <2>1, <2>2 DEF FrameInv, ClientHeader
<1>4. /\ Len(Coming) >= 1 /\ Coming # <<>> /\ Coming[1] = in[1]
      /\ Len(Coming) = Len(in) + Len(down \o sout)
      /\ Len(Coming) \in Nat /\ Len(in) \in Nat /\ Len(down \o sout) \in Nat
  <2>1. /\ Len(Coming) = Len(in) + Len(down \o sout)
        /\ Len(in) \in Nat /\ Len(down \o sout) \in Nat
        /\ \A i \in 1 .. Len(in) : Coming[i] = in[i]
    BY <1>2, JoinedElements
  <2>2. Len(in) >= 1
    BY <1>1, <1>2
  <2> QED BY <1>2, <2>1, <2>2
<1>5. F \in 0 .. n
  BY <1>0 DEF OrderFor, Fitting
<1>6. ASSUME NEW e, InStep(F, e), e < F \/ F = n PROVE m < e
  <2>1. e \in m .. F
    BY <1>0, <1>6 DEF InStep
  <2>2. ASSUME e = m PROVE FALSE
    <3>1. PICK p : LaidOut(Coming, Echoed, m + 1, m, p) /\ Len(Coming) <= p[m + 1]
      BY <1>0, <1>6, <2>2 DEF InStep, AnswersAhead
    <3>2. p[m + 1] = 0
      BY <3>1 DEF LaidOut, Positions
    <3> QED BY <1>4, <3>1, <3>2
  <2> QED BY <1>5, <2>1, <2>2
<1>7. ASSUME m = F PROVE F < n
  <2> SUFFICES ASSUME F = n PROVE FALSE
    BY <1>5
  <2>1. PICK e : InStep(F, e)
    BY <1>0, <1>7 DEF OrderFor
  <2>2. e \in m .. F /\ m < e
    BY <1>0, <1>6, <2>1 DEF InStep
  <2> QED BY <1>5, <1>7, <2>2
<1>8. ASSUME m < F
      PROVE  \E e : /\ InStep(F, e) /\ e \in m + 1 .. F
                    /\ in = Echoed[m + 1]
                    /\ \E p : /\ LaidOut(down \o sout, Echoed, m + 2, e, p)
                              /\ e < F \/ F = n => Len(down \o sout) <= p[e + 1]
                              /\ server = "serving" => p[e + 1] <= Len(down \o sout)
  <2>1. PICK e : InStep(F, e)
    BY <1>0, <1>5, <1>8 DEF OrderFor
  <2>2. e \in m + 1 .. F
    <3>1. e \in m .. F
      BY <1>0, <2>1 DEF InStep
    <3> QED BY <1>5, <1>6, <1>8, <2>1, <3>1
  <2>3. /\ m + 1 \in Nat /\ e \in Nat /\ m + 1 <= e /\ Frames(Cells, Echoed, m + 1, e)
        /\ m + 1 \in 1 .. n /\ m + 1 \in 1 .. e
    <3>1. /\ m + 1 \in Nat /\ e \in Nat /\ m + 1 <= e /\ 1 <= m + 1 /\ m + 1 <= e + 1 /\ e <= n
          /\ m + 1 \in 1 .. n /\ m + 1 \in 1 .. e
      BY <1>5, <2>2
    <3> QED BY <1>0, <1>2, <3>1, FramesExist
  <2>4. PICK p : /\ LaidOut(Coming, Echoed, m + 1, e, p)
                 /\ e < F \/ F = n => Len(Coming) <= p[e + 1]
                 /\ server = "serving" => p[e + 1] <= Len(Coming)
    BY <1>0, <2>1 DEF InStep, AnswersAhead
  <2>5. Echoed[m + 1] # <<>>
    <3>1. /\ Echoed[m + 1] = EchoReply(sent[m + 1].header, sent[m + 1].payload)
          /\ sent[m + 1].header \in Headers /\ sent[m + 1].payload \in Seq(Cells)
      BY <1>0, <1>2, <2>3, FramesExist
    <3> QED BY <3>1, EchoParts
  <2>6. in[1] = Echoed[m + 1][1]
    <3>1. Coming[1] = Echoed[m + 1][1]
      <4>1. /\ Coming \in Seq(Cells) /\ Coming # <<>> /\ Echoed[m + 1] # <<>>
            /\ m + 1 \in Nat /\ e \in Nat /\ m + 1 <= e /\ Frames(Cells, Echoed, m + 1, e)
            /\ LaidOut(Coming, Echoed, m + 1, e, p)
        BY <1>2, <1>4, <2>3, <2>4, <2>5
      <4>2. PICK a \in Nat : a = m + 1
        BY <4>1
      <4> QED BY <4>1, <4>2, FirstOfFirstFrame
    <3> QED BY <1>4, <3>1
  <2>7. Len(in) = Len(Echoed[m + 1])
    <3>1. Len(Echoed[m + 1]) = 1 + ClientLength(ReadAsHeader(Echoed[m + 1][1]))
      BY <2>1, <2>3 DEF InStep, Echoable
    <3> QED BY <1>3, <2>6, <3>1
  <2>8. /\ in = Echoed[m + 1]
        /\ \E q : LaidOut(down \o sout, Echoed, m + 2, e, q) /\ p[e + 1] = Len(in) + q[e + 1]
    <3>1. m + 1 + 1 = m + 2
      OBVIOUS
    <3>2. LaidOut(in \o (down \o sout), Echoed, m + 1, e, p)
      BY <1>2, <2>4
    <3>3. /\ in = Echoed[m + 1]
          /\ \E q : LaidOut(down \o sout, Echoed, m + 1 + 1, e, q) /\ p[e + 1] = Len(in) + q[e + 1]
      <4>1. PICK a \in Nat, rest \in Seq(Cells) : a = m + 1 /\ rest = down \o sout
        BY <1>2, <2>3
      <4>2. /\ in \in Seq(Cells) /\ e \in Nat /\ a <= e /\ Frames(Cells, Echoed, a, e)
            /\ LaidOut(in \o rest, Echoed, a, e, p) /\ Len(in) = Len(Echoed[a])
        BY <1>2, <2>3, <2>7, <3>2, <4>1
      <4>3. /\ in = Echoed[a]
            /\ \E q : LaidOut(rest, Echoed, a + 1, e, q) /\ p[e + 1] = Len(in) + q[e + 1]
        BY <4>2, DropFirstFrame
      <4> QED BY <4>1, <4>3
    <3> QED BY <3>1, <3>3
  <2>9. PICK q : LaidOut(down \o sout, Echoed, m + 2, e, q) /\ p[e + 1] = Len(in) + q[e + 1]
    BY <2>8
  <2>10. /\ e < F \/ F = n => Len(down \o sout) <= q[e + 1]
         /\ server = "serving" => q[e + 1] <= Len(down \o sout)
    <3>1. e + 1 \in m + 2 .. e + 1
      BY <2>2, <2>3
    <3>2. q[e + 1] \in Nat
      BY <2>9, <3>1 DEF LaidOut, Positions
    <3> QED BY <1>4, <2>4, <2>9, <3>2
  <2> QED BY <2>1, <2>2, <2>8, <2>9, <2>10
<1> QED BY <1>0, <1>1, <1>7, <1>8

LEMMA RecvReturnsOrderInv ==
  ASSUME FrameInv, TypeOK', OrderInv, RecvReturns
  PROVE  OrderInv'
<1>0. PICK n \in Nat, m \in Nat : n = Len(sent) /\ m = Len(received)
  BY FramesExist DEF FrameInv
<1>1. /\ received' = Append(received, [header |-> ClientHeader, payload |-> Tail(in)])
      /\ call' = "idle" /\ in' = <<>>
      /\ UNCHANGED <<out, sent, down, sout, up, sin, server, strayed>>
  BY DEF RecvReturns, serverVars, pipes
<1>2. out' = <<>>
  BY <1>1 DEF OrderInv, RecvReturns, Receiving
<1>3. /\ Len(received') = m + 1
      /\ \A k \in 1 .. m : received'[k] = received[k]
      /\ received'[m + 1] = [header |-> ClientHeader, payload |-> Tail(in)]
  <2>1. received \in Seq([header : Headers, payload : Seq(Cells)])
    BY DEF FrameInv, TypeOK
  <2> QED BY <1>0, <1>1, <2>1
<1>4. /\ Coming' = down \o sout /\ Going' = Going
      /\ Echoed' = Echoed /\ Asks' = Asks /\ TypeOK
  <2>1. down \o sout \in Seq(Cells) /\ TypeOK
    BY ComingType DEF FrameInv
  <2>2. Coming' = <<>> \o (down \o sout)
    BY <1>1 DEF Coming
  <2> QED BY <1>1, <2>1, <2>2, ConcatEmpty DEF Going, Echoed, Asks
<1>5. ASSUME ~strayed, NEW F, OrderFor(F) PROVE OrderFor(F)'
  <2>1. Fitting(F)' /\ F \in 0 .. n
    BY <1>0, <1>1, <1>5 DEF OrderFor, Fitting
  <2>2. F < m + 1 => F < n
    <3>1. F < m => F < n
      BY <1>0, <1>5 DEF OrderFor
    <3>2. F = m => F < n
      BY <1>0, <1>5, NextAnswer
    <3> QED BY <2>1, <3>1, <3>2
  <2>3. ASSUME NEW k \in 1 .. m, k <= F PROVE Answers(k)'
    <3>1. Answers(k)
      BY <1>0, <1>5, <2>3 DEF OrderFor
    <3> QED BY <1>1, <1>3, <2>3, <3>1 DEF Answers
  <2>4. ASSUME m + 1 <= F PROVE Answers(m + 1)' /\ \E e : InStep(F, e)'
    <3>1. PICK e : /\ InStep(F, e) /\ e \in m + 1 .. F
                   /\ in = Echoed[m + 1]
                   /\ \E p : /\ LaidOut(down \o sout, Echoed, m + 2, e, p)
                             /\ e < F \/ F = n => Len(down \o sout) <= p[e + 1]
                             /\ server = "serving" => p[e + 1] <= Len(down \o sout)
      <4>1. m < F
        BY <2>1, <2>4
      <4> QED BY <1>0, <1>5, <4>1, NextAnswer
    <3>2. m + 1 \in 1 .. n /\ m + 1 \in 1 .. e
      BY <2>1, <3>1
    <3>3. Answers(m + 1)'
      <4>1. /\ Echoed[m + 1] = EchoReply(sent[m + 1].header, sent[m + 1].payload)
            /\ sent[m + 1].header \in Headers /\ sent[m + 1].payload \in Seq(Cells)
        BY <1>0, <1>4, <3>2, FramesExist
      <4>2. /\ ClientHeader.seq = sent[m + 1].header.seq
            /\ ClientHeader.command = IF sent[m + 1].header.command = "CMD_SUBMIT"
                                        THEN "RET_SUBMIT" ELSE "RET_UNLINK"
            /\ Tail(in) = sent[m + 1].payload
        BY <3>1, <4>1, EchoParts DEF ClientHeader
      <4>3. sent[m + 1].header.command \in {"CMD_SUBMIT", "CMD_UNLINK"}
        BY <3>1, <3>2 DEF InStep, Echoable
      <4>4. received'[m + 1].header = ClientHeader /\ received'[m + 1].payload = Tail(in)
        BY <1>3
      <4> QED BY <1>1, <4>2, <4>3, <4>4 DEF Answers
    <3>4. InStep(F, e)'
      <4>1. \A k : Echoable(k)' <=> Echoable(k)
        BY <1>1, <1>4 DEF Echoable
      <4>2. AnswersAhead(F, e)'
        <5>1. m + 1 + 1 = m + 2
          OBVIOUS
        <5> QED BY <1>0, <1>1, <1>3, <1>4, <3>1, <5>1 DEF AnswersAhead
      <4>3. server' = "serving" => RequestsAhead(F, e)'
        BY <1>1, <1>4, <3>1 DEF InStep, RequestsAhead
      <4> QED BY <1>3, <3>1, <4>1, <4>2, <4>3 DEF InStep
    <3> QED BY <3>3, <3>4
  <2>5. \A k \in 1 .. m + 1 : k <= F => Answers(k)'
    <3>1. \A k \in 1 .. m + 1 : k \in 1 .. m \/ k = m + 1
      OBVIOUS
    <3> QED BY <2>3, <2>4, <3>1
  <2> QED BY <1>0, <1>1, <1>3, <2>1, <2>2, <2>4, <2>5 DEF OrderFor
<1> QED BY <1>1, <1>2, <1>5 DEF OrderInv

\* The frame of a request that fits has the length the echo server waits for.
LEMMA AskParts ==
  ASSUME NEW h \in Headers, NEW payload \in Seq(Cells)
  PROVE  /\ (<<HeaderCell(h)>> \o payload)[1] = HeaderCell(h)
         /\ Tail(<<HeaderCell(h)>> \o payload) = payload
         /\ Len(<<HeaderCell(h)>> \o payload) = 1 + Len(payload)
         /\ <<HeaderCell(h)>> \o payload # <<>>
         /\ ReadAsHeader(HeaderCell(h)) = h
<1>1. ReadAsHeader(HeaderCell(h)) = h
  BY DEF ReadAsHeader, HeaderCell, IsHeaderCell
<1>2. HeaderCell(h) \in Cells
  BY DEF HeaderCell, Cells
<1> QED BY <1>1, <1>2

\* Where client and server are in step, the server echoes the next request, or
\* something that follows the first one that does not fit.
LEMMA NextEcho ==
  ASSUME FrameInv, OrderInv, NEW F, OrderFor(F), NEW e, InStep(F, e), Echo
  PROVE  /\ e = F => F < Len(sent)
         /\ e < F =>
              /\ sout' = Echoed[e + 1] /\ Echoable(e + 1)
              /\ \E p : /\ LaidOut(up \o out, Asks, e + 2, F, p)
                        /\ p[F + 1] <= Len(up \o out)
                        /\ F = Len(sent) => Len(up \o out) = p[F + 1]
<1>0. PICK n \in Nat, m \in Nat : n = Len(sent) /\ m = Len(received)
  BY FramesExist DEF FrameInv
<1>1. /\ sin # <<>> /\ server = "serving"
      /\ Echoes(ServerHeader, Tail(sin))
      /\ ~(Len(sin) < 1 + ServerLength(ServerHeader))
      /\ sout' = EchoReply(ServerHeader, Tail(sin))
  BY DEF Echo, Serving, ServerWants, Echoes
<1>2. /\ sin \in Seq(Cells) /\ up \o out \in Seq(Cells) /\ Going = sin \o (up \o out)
      /\ Going \in Seq(Cells) /\ TypeOK
  BY GoingType DEF FrameInv, Going
<1>3. Len(sin) = 1 + ServerLength(ReadAsHeader(sin[1]))
  <2>1. sin[1] \in Cells /\ Len(sin) \in Nat
    BY <1>1, <1>2
  <2>2. ServerLength(ReadAsHeader(sin[1])) \in Nat
    BY <2>1, ReadAsHeaderType, LengthBounds
  <2> QED BY <1>1, <2>1, <2>2 DEF FrameInv, ServerHeader, Echoes
<1>4. /\ Len(Going) >= 1 /\ Going # <<>> /\ Going[1] = sin[1]
      /\ Len(Going) = Len(sin) + Len(up \o out)
      /\ Len(Going) \in Nat /\ Len(sin) \in Nat /\ Len(up \o out) \in Nat
  <2>1. /\ Len(Going) = Len(sin) + Len(up \o out)
        /\ Len(sin) \in Nat /\ Len(up \o out) \in Nat
        /\ \A i \in 1 .. Len(sin) : Going[i] = sin[i]
    BY <1>2, JoinedElements
  <2>2. Len(sin) >= 1
    BY <1>1, <1>2
  <2> QED BY <1>2, <2>1, <2>2
<1>5. F \in 0 .. n /\ e \in m .. F /\ e \in Nat /\ F \in Nat
  BY <1>0 DEF OrderFor, Fitting, InStep
<1>6. PICK p : /\ LaidOut(Going, Asks, e + 1, F, p)
               /\ p[F + 1] <= Len(Going)
               /\ F = n => Len(Going) = p[F + 1]
  BY <1>0, <1>1 DEF InStep, RequestsAhead
<1>7. ASSUME e = F PROVE F < n
  <2>1. p[F + 1] = 0
    BY <1>6, <1>7 DEF LaidOut, Positions
  <2> QED BY <1>4, <1>5, <1>6, <2>1
<1>8. ASSUME e < F
      PROVE  /\ sout' = Echoed[e + 1] /\ Echoable(e + 1)
             /\ \E q : /\ LaidOut(up \o out, Asks, e + 2, F, q)
                       /\ q[F + 1] <= Len(up \o out)
                       /\ F = n => Len(up \o out) = q[F + 1]
  <2>0. PICK a \in Nat : a = e + 1
    BY <1>5
  <2>1. PICK rest \in Seq(Cells) : a = e + 1 /\ rest = up \o out
    BY <1>2, <2>0
  <2>2. a \in 1 .. n /\ a <= F /\ a \in 1 .. F /\ Frames(Cells, Asks, a, F)
    <3>1. a \in 1 .. n /\ a <= F /\ a \in 1 .. F /\ 1 <= a /\ a <= F + 1 /\ F <= n
      BY <1>5, <1>8, <2>1
    <3> QED BY <1>0, <1>2, <1>5, <3>1, FramesExist
  <2> DEFINE h == sent[a].header
             payload == sent[a].payload
  <2>3. /\ h \in Headers /\ payload \in Seq(Cells)
        /\ Asks[a] = <<HeaderCell(h)>> \o payload
        /\ Echoed[a] = EchoReply(h, payload)
    BY <1>0, <1>2, <2>2, FramesExist
  <2>4. Len(payload) = ClientLength(h)
    <3>1. sent[a].fits
      BY <2>2 DEF OrderFor, Fitting
    <3> QED BY <1>0, <2>2, <3>1 DEF OrderInv
  <2> HIDE DEF h, payload
  <2>5. /\ Asks[a][1] = HeaderCell(h) /\ Asks[a] # <<>> /\ ReadAsHeader(HeaderCell(h)) = h
        /\ Len(Asks[a]) = 1 + Len(payload) /\ Tail(Asks[a]) = payload
    BY <2>3, AskParts
  <2>6. LaidOut(sin \o rest, Asks, a, F, p) /\ LaidOut(Going, Asks, a, F, p)
    BY <1>2, <1>6, <2>1
  <2>7. sin[1] = HeaderCell(h) /\ ServerHeader = h
    <3>1. Going[1] = Asks[a][1]
      <4>1. /\ Going \in Seq(Cells) /\ Going # <<>> /\ Asks[a] # <<>>
            /\ F \in Nat /\ a <= F /\ Frames(Cells, Asks, a, F)
            /\ LaidOut(Going, Asks, a, F, p)
        BY <1>2, <1>4, <1>5, <2>2, <2>5, <2>6
      <4> QED BY <4>1, FirstOfFirstFrame
    <3> QED BY <1>4, <2>5, <3>1 DEF ServerHeader
  <2>8. h.command \in {"CMD_SUBMIT", "CMD_UNLINK"} /\ ServerLength(h) = ClientLength(h)
    <3>1. h.command \in {"CMD_SUBMIT", "CMD_UNLINK"}
      BY <1>1, <2>7 DEF Echoes
    <3> QED BY <3>1 DEF ServerLength, ClientLength, Announces
  <2>9. Len(sin) = Len(Asks[a])
    BY <1>3, <2>4, <2>5, <2>7, <2>8
  <2>10. /\ sin = Asks[a]
         /\ \E q : LaidOut(rest, Asks, a + 1, F, q) /\ p[F + 1] = Len(sin) + q[F + 1]
    <3>1. /\ sin \in Seq(Cells) /\ F \in Nat /\ a <= F /\ Frames(Cells, Asks, a, F)
          /\ LaidOut(sin \o rest, Asks, a, F, p) /\ Len(sin) = Len(Asks[a])
      BY <1>2, <1>5, <2>2, <2>6, <2>9
    <3> QED BY <3>1, DropFirstFrame
  <2>11. sout' = Echoed[a]
    BY <1>1, <2>3, <2>5, <2>7, <2>10
  <2>12. Echoable(a)
    <3>1. Echoes(h, payload) /\ Len(payload) <= ServerLength(h)
      <4>1. Len(payload) = Len(sin) - 1 /\ Len(payload) \in Nat
        BY <2>3, <2>5, <2>9
      <4>2. Tail(sin) = payload /\ ServerHeader = h
        BY <2>3, <2>5, <2>7, <2>10
      <4>3. Len(payload) <= ServerLength(h)
        BY <2>4, <2>8, <4>1
      <4> QED BY <1>1, <4>2, <4>3
    <3>2. Len(Echoed[a]) = 1 + ClientLength(ReadAsHeader(Echoed[a][1]))
      BY <2>3, <3>1, EchoIsFrame
    <3> QED BY <2>8, <3>2 DEF Echoable, h
  <2>13. PICK q : LaidOut(rest, Asks, a + 1, F, q) /\ p[F + 1] = Len(sin) + q[F + 1]
    BY <2>10
  <2>14. /\ q[F + 1] <= Len(rest)
         /\ F = n => Len(rest) = q[F + 1]
    <3>1. F + 1 \in a + 1 .. F + 1
      BY <1>5, <2>2
    <3>2. q[F + 1] \in Nat
      BY <2>13, <3>1 DEF LaidOut, Positions
    <3> QED BY <1>4, <1>6, <2>1, <2>13, <3>2
  <2>15. a + 1 = e + 2
    BY <1>5, <2>1
  <2> QED BY <2>1, <2>11, <2>12, <2>13, <2>14, <2>15
<1> QED BY <1>0, <1>7, <1>8

LEMMA EchoOrderInv ==
  ASSUME FrameInv, TypeOK', OrderInv, Echo
  PROVE  OrderInv'
<1> DEFINE f == EchoReply(ServerHeader, Tail(sin))
<1>0. PICK n \in Nat, m \in Nat : n = Len(sent) /\ m = Len(received)
  BY FramesExist DEF FrameInv
<1>1. /\ sin # <<>> /\ sout = <<>> /\ server = "serving"
      /\ sin' = <<>> /\ sout' = f
      /\ UNCHANGED <<call, out, in, up, down, server, strayed, sent, received>>
  BY DEF Echo, Serving, ServerWants, clientVars, pipes, history
<1>2. f \in Seq(Cells) /\ TypeOK
  BY <1>1 DEF TypeOK, FrameInv
<1> HIDE DEF f
<1>3. /\ Coming' = Coming \o f /\ Coming \in Seq(Cells)
      /\ Going' = up \o out /\ up \o out \in Seq(Cells)
      /\ Echoed' = Echoed /\ Asks' = Asks
  <2>1. /\ in \in Seq(Cells) /\ down \in Seq(Cells) /\ in \o down \in Seq(Cells)
        /\ up \o out \in Seq(Cells)
    BY <1>2, ComingType, GoingType, ConcatCells
  <2>2. down \o <<>> = down /\ in \o (down \o f) = (in \o down) \o f
    BY <1>2, <2>1, ConcatEmpty, ConcatAssoc
  <2>3. Coming = in \o down /\ Coming' = in \o (down \o f)
    BY <1>1, <2>2 DEF Coming
  <2>4. Going' = up \o out
    BY <1>1, <2>1, ConcatEmpty DEF Going
  <2> QED BY <1>1, <2>1, <2>2, <2>3, <2>4 DEF Echoed, Asks
<1>4. \A k : Echoable(k)' <=> Echoable(k)
  BY <1>1, <1>3 DEF Echoable
<1>5. ASSUME NEW F, OrderFor(F), NEW e, InStep(F, e)
      PROVE  \E d : InStep(F, d)'
  <2>1. /\ F \in 0 .. n /\ e \in m .. F /\ m + 1 \in Nat /\ e \in Nat /\ F \in Nat
        /\ Frames(Cells, Echoed, m + 1, e)
    <3>1. F \in 0 .. n /\ e \in m .. F
      BY <1>0, <1>5 DEF OrderFor, Fitting, InStep
    <3>2. 1 <= m + 1 /\ m + 1 <= e + 1 /\ e <= n /\ m + 1 \in Nat /\ e \in Nat /\ F \in Nat
      BY <3>1
    <3> QED BY <1>0, <1>2, <3>1, <3>2, FramesExist
  <2>2. PICK p : /\ LaidOut(Coming, Echoed, m + 1, e, p)
                 /\ e < F \/ F = n => Len(Coming) <= p[e + 1]
                 /\ p[e + 1] <= Len(Coming)
    BY <1>0, <1>1, <1>5 DEF InStep, AnswersAhead
  <2>3. CASE e = F
    <3>1. F < n
      BY <1>0, <1>5, <2>3, NextEcho
    <3>2. LaidOut(Coming \o f, Echoed, m + 1, e, p) /\ p[e + 1] <= Len(Coming \o f)
      BY <1>2, <1>3, <2>1, <2>2, AddBehind
    <3>3. AnswersAhead(F, e)'
      <4>1. ~(e < F \/ F = n)
        BY <2>1, <2>3, <3>1
      <4> QED BY <1>0, <1>1, <1>3, <3>2, <4>1 DEF AnswersAhead
    <3>4. RequestsAhead(F, e)'
      <4>1. PICK q : LaidOut(up \o out, Asks, F + 1, F, q) /\ q[F + 1] = 0
        BY <2>1, NoFrames
      <4>2. q[F + 1] <= Len(up \o out)
        BY <1>3, <4>1
      <4>3. F # n
        BY <2>1, <3>1
      <4> QED BY <1>0, <1>1, <1>3, <2>3, <4>1, <4>2, <4>3 DEF RequestsAhead
    <3>5. InStep(F, e)'
      BY <1>1, <1>4, <1>5, <3>3, <3>4 DEF InStep
    <3> QED BY <3>5
  <2>4. CASE e < F
    <3>1. /\ sout' = Echoed[e + 1] /\ Echoable(e + 1)
          /\ \E q : /\ LaidOut(up \o out, Asks, e + 2, F, q)
                    /\ q[F + 1] <= Len(up \o out)
                    /\ F = n => Len(up \o out) = q[F + 1]
      BY <1>0, <1>5, <2>4, NextEcho
    <3>2. PICK d \in Nat : d = e + 1
      BY <2>1
    <3>3. d \in m .. F /\ d + 1 = e + 2
      BY <2>1, <2>4, <3>2
    <3>4. AnswersAhead(F, d)'
      <4>1. Len(Coming) = p[e + 1]
        <5>1. p[e + 1] \in Nat /\ Len(Coming) \in Nat
          BY <1>3, <2>1, <2>2 DEF LaidOut, Positions, Frames
        <5> QED BY <2>2, <2>4, <5>1
      <4>2. Echoed[e + 1] = f
        BY <1>1, <3>1
      <4>3. \E q : /\ LaidOut(Coming \o f, Echoed, m + 1, e + 1, q)
                   /\ q[e + 2] = Len(Coming \o f)
        <5>1. PICK a \in Nat : a = m + 1
          BY <2>1
        <5>2. /\ Coming \in Seq(Cells) /\ f \in Seq(Cells) /\ e \in Nat /\ Frames(Cells, Echoed, a, e)
              /\ LaidOut(Coming, Echoed, a, e, p) /\ Len(Coming) = p[e + 1] /\ Echoed[e + 1] = f
          BY <1>2, <1>3, <2>1, <2>2, <4>1, <4>2, <5>1
        <5> QED BY <5>1, <5>2, AddLastFrame
      <4>4. PICK q : /\ LaidOut(Coming', Echoed', m + 1, d, q)
                     /\ q[d + 1] = Len(Coming')
        BY <1>3, <3>2, <3>3, <4>3
      <4>5. Len(Coming') \in Nat
        BY <1>2, <1>3, JoinedElements
      <4> QED BY <1>0, <1>1, <4>4, <4>5 DEF AnswersAhead
    <3>5. RequestsAhead(F, d)'
      BY <1>0, <1>1, <1>3, <3>1, <3>3 DEF RequestsAhead
    <3>6. \A k \in 1 .. d : Echoable(k)'
      <4>1. \A k \in 1 .. d : k \in 1 .. e \/ k = e + 1
        BY <2>1, <3>2
      <4> QED BY <1>4, <1>5, <3>1, <4>1 DEF InStep
    <3>7. InStep(F, d)'
      BY <1>0, <1>1, <3>3, <3>4, <3>5, <3>6 DEF InStep
    <3> QED BY <3>7
  <2> QED BY <2>1, <2>3, <2>4
<1>6. call' # "sending" => out' = <<>>
  BY <1>1 DEF OrderInv
<1> QED BY <1>1, <1>5, <1>6, QuietOrder

LEMMA NextOrderInv == FrameInv /\ OrderInv /\ TypeOK' /\ [Next]_vars => OrderInv'
<1> SUFFICES ASSUME FrameInv, OrderInv, TypeOK', [Next]_vars PROVE OrderInv'
  OBVIOUS
<1>1. TypeOK /\ (call # "sending" => out = <<>>)
  BY DEF FrameInv, OrderInv
<1>2. CASE \E c \in Calls : SendHeader(c)
  BY <1>1, <1>2, SendHeaderOrderInv
<1>3. CASE \/ \E c \in Calls : SendRefused(c)
           \/ SendReturns \/ WriteFails \/ Collect \/ Close \/ UNCHANGED vars
  <2>1. /\ UNCHANGED <<sent, received, in, down, sout, sin, up, server, strayed>>
        /\ call' # "sending" => out' = <<>>
        /\ out' = out \/ server = "gone"
    BY <1>1, <1>3
    DEF SendRefused, MaySend, SendReturns, WriteFails, Collect, RecvHeader, RecvHeaderOrClose, Close,
        vars, clientVars, serverVars, pipes, history
  <2>2. Coming' = Coming /\ (server' = "serving" => server = "serving" /\ Going' = Going)
    BY <2>1 DEF Coming, Going
  <2> QED BY <2>1, <2>2, StillOrderInv
<1>4. CASE WriteCell \/ ReadCell \/ ServerRead \/ ServerWrite
  <2>1. /\ UNCHANGED <<sent, received, server, strayed>>
        /\ call' = call /\ (out' = out \/ call = "sending")
    BY <1>4 DEF WriteCell, ReadCell, ServerRead, ServerWrite, clientVars, serverVars, history
  <2>2. Coming' = Coming /\ Going' = Going
    BY <1>1, <1>4, MovesKeepStreams
  <2> QED BY <1>1, <2>1, <2>2, StillOrderInv
<1>5. CASE RecvReturns
  BY <1>5, RecvReturnsOrderInv
<1>6. CASE RecvMalformed
  <2>1. /\ strayed /\ UNCHANGED <<sent, received, strayed>>
        /\ call = "receiving" \/ call = "receivingOrClose"
        /\ out' = out
    BY <1>6, NothingMalformed DEF RecvMalformed, RecvFails, Receiving, history
  <2>2. ASSUME ~strayed PROVE FALSE
    BY <2>1, <2>2
  <2>3. /\ UNCHANGED <<sent, received>>
        /\ call' # "sending" => out' = <<>>
        /\ ~strayed' => ~strayed
    BY <1>1, <2>1
  <2> QED BY <2>2, <2>3, QuietOrder
<1>7. CASE RecvEof
  <2>1. /\ in' = <<>> /\ down' = <<>> /\ server = "gone" /\ out' = out
        /\ call = "receiving" \/ call = "receivingOrClose"
        /\ UNCHANGED <<sent, received, server, sout, strayed>>
    BY <1>7 DEF RecvEof, RecvFails, Receiving, serverVars, history
  <2>2. sout = <<>>
    BY <2>1 DEF FrameInv
  <2>3. Coming' = <<>> /\ Coming \in Seq(Cells)
    BY <1>1, <2>1, <2>2, ComingType DEF Coming
  <2>4. Coming' \in Seq(Cells) /\ Coming = Coming' \o Coming
    BY <2>3, ConcatEmpty
  <2> QED BY <1>1, <2>1, <2>3, <2>4, CutOrderInv
<1>8. CASE Echo
  BY <1>8, EchoOrderInv
<1>9. CASE ServerEof \/ ServerRefusesRequest \/ ServerWriteFails \/ ServerCrash
  <2>1. Die /\ UNCHANGED <<call, out, in, down, sent, received, strayed>>
    BY <1>9
    DEF ServerEof, ServerRefusesRequest, ServerWriteFails, ServerCrash, clientVars, pipes, history
  <2>2. server' = "gone" /\ sout' = <<>>
    BY <2>1 DEF Die
  <2>3. /\ in \in Seq(Cells) /\ down \in Seq(Cells) /\ sout \in Seq(Cells)
        /\ in \o down \in Seq(Cells)
    BY <1>1, ComingType, ConcatCells
  <2>4. Coming = (in \o down) \o sout /\ Coming' = in \o down
    BY <2>1, <2>2, <2>3, ConcatAssoc, ConcatEmpty DEF Coming
  <2> QED BY <1>1, <2>1, <2>2, <2>3, <2>4, CutOrderInv
<1>10. CASE \E f \in Strays : Stray(f)
  <2>1. strayed' /\ UNCHANGED <<call, out, sent, received>>
    BY <1>10 DEF Stray, clientVars
  <2> QED BY <1>1, <2>1 DEF OrderInv
<1> QED
  BY <1>2, <1>3, <1>4, <1>5, <1>6, <1>7, <1>8, <1>9, <1>10
  DEF Next, ClientStep, Running, EchoStep

LEMMA FrameAlways == Spec => [](TypeOK /\ FrameInv)
BY InitFrameInv, NextFrameInv, TypeCorrect, BuffersAlwaysBounded, PTL DEF Spec

\* Answers come in the order of the requests and give back their numbers and
\* payloads: serve_urb_echo answers one request after the other, and neither
\* side ever loses its place in the stream before a payload that does not fit.
THEOREM AlwaysInOrder == Spec => []EchoInOrder
BY InitOrderInv, NextOrderInv, FrameAlways, OrderInvImplies, PTL DEF Spec

-----------------------------------------------------------------------------
(* The session implements the queue of EchoService *)

\* The values EchoService sees.
Queue == [k \in 1 .. FitLength |-> Content(sent[k])]
Given == [k \in 1 .. IF Len(received) < FitLength THEN Len(received) ELSE FitLength |->
            Content(received[k])]
Ended == Over \/ FitLength < Len(sent)

LEMMA ServiceSteps ==
  /\ Service!Init <=> Queue = <<>> /\ Given = <<>> /\ Ended = FALSE
  /\ Service!Ask <=> /\ Len(Queue') = Len(Queue) + 1
                     /\ Queue'[Len(Queue')] \in [seq : 0 .. SeqSpace - 1, payload : Seq(Cells)]
                     /\ Queue' = Append(Queue, Queue'[Len(Queue')])
                     /\ UNCHANGED <<Given, Ended>>
  /\ Service!Answer <=> /\ Len(Given) < Len(Queue)
                        /\ Given' = Append(Given, Queue[Len(Given) + 1])
                        /\ UNCHANGED <<Queue, Ended>>
  /\ Service!End <=> ~Ended /\ Ended' = TRUE /\ UNCHANGED <<Queue, Given>>
  /\ UNCHANGED Service!vars <=> UNCHANGED <<Queue, Given, Ended>>
BY DEF Service!Init, Service!Ask, Service!Answer, Service!End, Service!vars, Queue, Given, Ended

\* There is one number of leading requests that fit.
OneFit == \A n : Fitting(n) /\ Len(sent) \in Nat => FitLength = n

LEMMA FitLengthIs == OneFit
<1> SUFFICES ASSUME NEW n, Fitting(n), Len(sent) \in Nat PROVE FitLength = n
  BY DEF OneFit
<1> DEFINE P(i) == /\ \A j \in 1 .. i : sent[j].fits
                   /\ i < Len(sent) => ~sent[i + 1].fits
<1>1. n \in 0 .. Len(sent) /\ P(n)
  BY DEF Fitting
<1>2. ASSUME NEW i \in 0 .. Len(sent), P(i) PROVE i = n
  <2>1. CASE i < n
    <3>1. i < Len(sent) /\ i + 1 \in 1 .. n
      BY <1>1, <2>1
    <3> QED BY <1>1, <1>2, <3>1
  <2>2. CASE n < i
    <3>1. n < Len(sent) /\ n + 1 \in 1 .. i
      BY <1>1, <2>2
    <3> QED BY <1>1, <1>2, <3>1
  <2> QED BY <1>1, <2>1, <2>2
<1> DEFINE c == CHOOSE i \in 0 .. Len(sent) : P(i)
<1>3. c \in 0 .. Len(sent) /\ P(c)
  BY <1>1
<1>4. FitLength = c
  BY DEF FitLength
<1> QED BY <1>2, <1>3, <1>4

LEMMA FitLengthNext == OneFit'
BY FitLengthIs, PTL

FitsInOrder ==
  TypeOK /\ OrderInv /\ ~strayed =>
    OrderFor(FitLength) /\ Fitting(FitLength) /\ FitLength \in 0 .. Len(sent)

LEMMA FitLengthFits == FitsInOrder
<1> SUFFICES ASSUME TypeOK, OrderInv, ~strayed
             PROVE  OrderFor(FitLength) /\ Fitting(FitLength) /\ FitLength \in 0 .. Len(sent)
  BY DEF FitsInOrder
<1>1. PICK F : OrderFor(F)
  BY DEF OrderInv
<1>2. FitLength = F
  BY <1>1, FitLengthIs, FramesExist DEF OneFit, OrderFor
<1> QED BY <1>1, <1>2 DEF OrderFor, Fitting

LEMMA FitLengthFitsNext == FitsInOrder'
BY FitLengthFits, PTL

LEMMA InitService == Init => Service!Init
<1> SUFFICES ASSUME Init PROVE Service!Init
  OBVIOUS
<1>1. sent = <<>> /\ received = <<>> /\ Len(sent) = 0 /\ Len(received) = 0
  BY DEF Init
<1>2. FitLength = 0
  <2>1. Fitting(0)
    BY <1>1 DEF Fitting
  <2> QED BY <1>1, <2>1, FitLengthIs DEF OneFit
<1>3. Queue = <<>> /\ Given = <<>>
  BY <1>1, <1>2 DEF Queue, Given
<1>4. Ended = FALSE
  BY <1>1, <1>2 DEF Ended, Over, Init
<1> QED BY <1>3, <1>4, ServiceSteps

\* A step that neither sends a request nor returns an answer.
LEMMA QuietService ==
  ASSUME UNCHANGED <<sent, received>>, Over => Over'
  PROVE  Service!End \/ UNCHANGED Service!vars
<1>1. FitLength' = FitLength /\ Queue' = Queue /\ Given' = Given
  BY DEF FitLength, Queue, Given, Content
<1>2. Ended => Ended'
  BY <1>1 DEF Ended
<1>3. Ended \in BOOLEAN /\ Ended' \in BOOLEAN
  BY DEF Ended
<1>4. CASE Ended' = Ended
  BY <1>1, <1>4, ServiceSteps
<1>5. CASE ~Ended /\ Ended' = TRUE
  BY <1>1, <1>5, ServiceSteps
<1> QED BY <1>2, <1>3, <1>4, <1>5

\* A session that is over stays over.
LEMMA OverStays ==
  ASSUME TypeOK, [Next]_vars
  PROVE  Over => Over'
<1> SUFFICES ASSUME Over PROVE Over'
  OBVIOUS
<1>1. CASE ClientStep
  BY <1>1
  DEF ClientStep, Running, Collect, Over, TypeOK, SendHeader, SendRefused, MaySend, WriteCell,
      SendReturns, WriteFails, ReadCell, RecvReturns, RecvMalformed, RecvEof, RecvFails, Receiving,
      RecvHeader, RecvHeaderOrClose, Close, serverVars, history
<1>2. CASE EchoStep \/ (\E f \in Strays : Stray(f)) \/ ServerCrash
  BY <1>2
  DEF EchoStep, Over, TypeOK, ServerRead, ServerEof, Echo, ServerRefusesRequest, ServerWrite,
      ServerWriteFails, Stray, ServerCrash, Serving, Die, clientVars, history
<1>3. CASE UNCHANGED vars
  BY <1>3 DEF vars, clientVars, serverVars, history, Over
<1> QED BY <1>1, <1>2, <1>3 DEF Next

\* A request is asked, or it is the first that does not fit, or comes later.
LEMMA SendHeaderService ==
  ASSUME TypeOK, TypeOK', OrderInv, OrderInv', ~strayed, NEW c \in Calls, SendHeader(c)
  PROVE  Service!Ask \/ Service!End \/ UNCHANGED Service!vars
<1>0. PICK n \in Nat, m \in Nat : n = Len(sent) /\ m = Len(received)
  BY FramesExist
<1>1. /\ Len(sent') = n + 1 /\ Len(received') = m
      /\ \A k \in 1 .. n : sent'[k] = sent[k]
      /\ sent'[n + 1] = Request(c)
      /\ call' = "sending" /\ UNCHANGED <<received, server, strayed>>
  BY <1>0, NewRequest
<1>2. call = "idle" /\ closed' = closed
  BY DEF SendHeader, MaySend
<1>3. Over' = Over
  BY <1>1, <1>2 DEF Over
<1>4. PICK F \in 0 .. n : /\ F = FitLength
                          /\ Fitting(F)
                          /\ F < m => F < n
  BY <1>0, FitLengthFits DEF FitsInOrder, OrderFor
<1>5. ASSUME NEW G \in 0 .. n, G <= F PROVE \A j \in 1 .. G : sent'[j] = sent[j]
  <2>1. \A j \in 1 .. G : j \in 1 .. n
    OBVIOUS
  <2> QED BY <1>1, <2>1
<1>6. CASE F < n \/ ~Request(c).fits
  <2>1. Fitting(F)'
    <3>1. F \in 0 .. Len(sent') /\ F < Len(sent')
      BY <1>1
    <3>2. \A j \in 1 .. F : sent'[j].fits
      BY <1>0, <1>4, <1>5 DEF Fitting
    <3>3. ~sent'[F + 1].fits
      <4>1. CASE F < n
        <5>1. F + 1 \in 1 .. n
          BY <4>1
        <5> QED BY <1>0, <1>1, <1>4, <4>1, <5>1 DEF Fitting
      <4>2. CASE F = n
        BY <1>1, <1>6, <4>2
      <4> QED BY <4>1, <4>2
    <3> QED BY <3>1, <3>2, <3>3 DEF Fitting
  <2>2. FitLength' = F
    <3>1. Len(sent') \in Nat
      BY <1>1
    <3> QED BY <2>1, <3>1, FitLengthNext DEF OneFit
  <2>3. Queue' = Queue /\ Given' = Given
    <3>1. Queue' = Queue
      BY <1>0, <1>4, <1>5, <2>2 DEF Queue, Content
    <3> QED BY <1>0, <1>1, <1>4, <2>2, <3>1 DEF Given, Content
  <2>4. Ended' = TRUE /\ Ended \in BOOLEAN
    <3>1. F < Len(sent')
      BY <1>1
    <3> QED BY <2>2, <3>1 DEF Ended
  <2>5. CASE Ended
    BY <2>3, <2>4, <2>5, ServiceSteps
  <2>6. CASE ~Ended
    BY <2>3, <2>4, <2>6, ServiceSteps
  <2> QED BY <2>5, <2>6
<1>7. CASE F = n /\ Request(c).fits
  <2>1. Fitting(n + 1)'
    <3>1. ASSUME NEW j \in 1 .. n + 1 PROVE sent'[j].fits
      <4>1. CASE j \in 1 .. n
        BY <1>0, <1>1, <1>4, <1>7, <4>1 DEF Fitting
      <4>2. CASE j = n + 1
        BY <1>1, <1>7, <4>2
      <4> QED BY <4>1, <4>2
    <3>2. n + 1 \in 0 .. Len(sent') /\ ~(n + 1 < Len(sent'))
      BY <1>1
    <3> QED BY <3>1, <3>2 DEF Fitting
  <2>2. FitLength' = n + 1
    <3>1. Len(sent') \in Nat
      BY <1>1
    <3> QED BY <2>1, <3>1, FitLengthNext DEF OneFit
  <2>3. /\ Queue = [k \in 1 .. n |-> Content(sent[k])]
        /\ Queue' = [k \in 1 .. n + 1 |-> Content(sent'[k])]
    BY <1>0, <1>4, <1>7, <2>2 DEF Queue, Content
  <2>4. Content(Request(c)) \in [seq : 0 .. SeqSpace - 1, payload : Seq(Cells)]
    BY CallTypes DEF RequestRecords, Headers, Content
  <2>5. /\ Len(Queue) = n /\ Len(Queue') = n + 1
        /\ Queue'[n + 1] = Content(Request(c))
        /\ Queue' = Append(Queue, Content(Request(c)))
    <3> DEFINE q == [k \in 1 .. n |-> Content(sent[k])]
               r == [k \in 1 .. n + 1 |-> Content(sent'[k])]
    <3>1. \A k \in 1 .. n : q[k] = r[k]
      BY <1>1
    <3>2. r[n + 1] = Content(Request(c))
      BY <1>1
    <3>3. q = [k \in 1 .. n |-> q[k]] /\ r = [k \in 1 .. n + 1 |-> r[k]]
      OBVIOUS
    <3> HIDE DEF q, r
    <3>4. Len(q) = n /\ Len(r) = n + 1 /\ r = Append(q, r[n + 1])
      <4>1. n \in Nat
        BY <1>0
      <4> QED BY <3>1, <3>3, <4>1, OneMore
    <3> QED BY <2>3, <3>2, <3>4 DEF q, r
  <2>6. Given' = Given
    <3>1. m <= n
      BY <1>0, <1>4, <1>7
    <3>2. /\ (IF Len(received) < FitLength THEN Len(received) ELSE FitLength) = m
          /\ (IF Len(received) < FitLength THEN Len(received) ELSE FitLength)' = m
      BY <1>0, <1>1, <1>4, <1>7, <2>2, <3>1
    <3> QED BY <1>1, <3>2 DEF Given, Content
  <2>7. Ended' = Ended
    BY <1>0, <1>1, <1>3, <1>4, <1>7, <2>2 DEF Ended
  <2> QED BY <2>4, <2>5, <2>6, <2>7, ServiceSteps
<1> QED BY <1>4, <1>6, <1>7, RequestFrame

\* A call that returns gives the answer of the next request, or comes after a
\* request that does not fit.
LEMMA RecvReturnsService ==
  ASSUME FrameInv, OrderInv, TypeOK', OrderInv', ~strayed, RecvReturns
  PROVE  Service!Answer \/ UNCHANGED Service!vars
<1> TypeOK
  BY DEF FrameInv
<1>0. PICK n \in Nat, m \in Nat : n = Len(sent) /\ m = Len(received)
  BY FramesExist
<1>1. /\ received' = Append(received, [header |-> ClientHeader, payload |-> Tail(in)])
      /\ call' = "idle" /\ call # "dropped" /\ UNCHANGED <<sent, closed, server, strayed>>
  BY DEF RecvReturns, Receiving, serverVars
<1>2. Len(received') = m + 1 /\ \A k \in 1 .. m : received'[k] = received[k]
  <2>1. received \in Seq([header : Headers, payload : Seq(Cells)])
    BY DEF TypeOK
  <2> QED BY <1>0, <1>1, <2>1
<1>3. PICK F \in 0 .. n : F = FitLength
  BY <1>0, FitLengthFits DEF FitsInOrder
<1>4. FitLength' = FitLength
  BY <1>1 DEF FitLength
<1>5. Over' = Over
  BY <1>1 DEF Over
<1>6. Queue' = Queue /\ Ended' = Ended
  BY <1>1, <1>4, <1>5 DEF Queue, Ended, Content
<1>7. CASE F <= m
  <2>1. /\ (IF Len(received) < FitLength THEN Len(received) ELSE FitLength) = F
        /\ (IF Len(received) < FitLength THEN Len(received) ELSE FitLength)' = F
    BY <1>0, <1>2, <1>3, <1>4, <1>7
  <2>2. \A k \in 1 .. F : Content(received'[k]) = Content(received[k])
    <3>1. \A k \in 1 .. F : k \in 1 .. m
      BY <1>0, <1>7
    <3> QED BY <1>2, <3>1
  <2>3. Given = [k \in 1 .. F |-> Content(received[k])]
    BY <2>1 DEF Given
  <2>4. Given' = [k \in 1 .. F |-> Content(received'[k])]
    BY <2>1 DEF Given, Content
  <2>5. Given' = Given
    BY <2>2, <2>3, <2>4
  <2> QED BY <1>6, <2>5, ServiceSteps
<1>8. CASE m < F
  <2>1. /\ (IF Len(received) < FitLength THEN Len(received) ELSE FitLength) = m
        /\ (IF Len(received) < FitLength THEN Len(received) ELSE FitLength)' = m + 1
    BY <1>0, <1>2, <1>3, <1>4, <1>8
  <2> DEFINE q == [k \in 1 .. m |-> Content(received[k])]
             r == [k \in 1 .. m + 1 |-> Content(received'[k])]
  <2>2. Given = q
    BY <2>1 DEF Given
  <2>3. Given' = r
    BY <2>1 DEF Given, Content
  <2>4. \A k \in 1 .. m : q[k] = r[k]
    BY <1>2
  <2>5. q = [k \in 1 .. m |-> q[k]] /\ r = [k \in 1 .. m + 1 |-> r[k]]
    OBVIOUS
  <2>6. m + 1 \in 1 .. F /\ m + 1 \in 1 .. m + 1 /\ m + 1 <= F
    BY <1>0, <1>8
  <2>7. r[m + 1] = Queue[m + 1]
    <3>1. Answers(m + 1)'
      <4>1. OrderFor(FitLength)'
        BY <1>1, FitLengthFitsNext DEF FitsInOrder
      <4> QED BY <1>2, <1>3, <1>4, <2>6, <4>1 DEF OrderFor
    <3>2. Content(received'[m + 1]) = Content(sent[m + 1])
      BY <1>1, <3>1 DEF Answers, Content
    <3>3. Queue[m + 1] = Content(sent[m + 1])
      BY <1>3, <2>6 DEF Queue
    <3> QED BY <2>6, <3>2, <3>3
  <2> HIDE DEF q, r
  <2>8. Len(q) = m /\ Len(r) = m + 1 /\ r = Append(q, r[m + 1])
    <3>1. m \in Nat
      BY <1>0
    <3> QED BY <2>4, <2>5, <3>1, OneMore
  <2>9. Len(Queue) = F
    <3>1. Queue = [k \in 1 .. F |-> Content(sent[k])] /\ F \in Nat
      BY <1>3 DEF Queue
    <3> QED BY <3>1
  <2>10. Len(Given) < Len(Queue) /\ Given' = Append(Given, Queue[Len(Given) + 1])
    BY <1>0, <1>8, <2>2, <2>3, <2>7, <2>8, <2>9
  <2> QED BY <1>6, <2>10, ServiceSteps
<1> QED BY <1>0, <1>3, <1>7, <1>8

\* Every other step ends the session or changes nothing of the queue.
LEMMA NextService ==
  ASSUME FrameInv, OrderInv, TypeOK', OrderInv', ~strayed, [Next]_vars
  PROVE  [Service!Next]_(Service!vars)
<1> TypeOK
  BY DEF FrameInv
<1>1. CASE \E c \in Calls : SendHeader(c)
  BY <1>1, SendHeaderService DEF Service!Next
<1>2. CASE RecvReturns
  BY <1>2, RecvReturnsService DEF Service!Next
<1>3. CASE UNCHANGED <<sent, received>>
  BY <1>3, OverStays, QuietService DEF Service!Next
<1>4. CASE ClientStep /\ ~(\E c \in Calls : SendHeader(c)) /\ ~RecvReturns
  <2>1. UNCHANGED <<sent, received>>
    BY <1>4
    DEF ClientStep, Running, Collect, SendRefused, WriteCell, SendReturns, WriteFails, ReadCell,
        RecvMalformed, RecvEof, RecvFails, RecvHeader, RecvHeaderOrClose, Close, history
  <2> QED BY <1>3, <2>1
<1>5. CASE EchoStep \/ (\E f \in Strays : Stray(f)) \/ ServerCrash \/ UNCHANGED vars
  <2>1. UNCHANGED <<sent, received>>
    BY <1>5
    DEF EchoStep, ServerRead, ServerEof, Echo, ServerRefusesRequest, ServerWrite,
        ServerWriteFails, Stray, ServerCrash, history, vars
  <2> QED BY <1>3, <2>1
<1> QED BY <1>1, <1>2, <1>4, <1>5 DEF Next

LEMMA OrderAlways == Spec => []OrderInv
BY InitOrderInv, NextOrderInv, FrameAlways, PTL DEF Spec

\* As long as the server writes nothing of its own, the session with its two
\* pipes, its framing and its lengths is the queue of EchoService: send_header
\* appends a request, recv_header takes the answer of the oldest one, and
\* nothing else is ever asked or answered.
THEOREM SessionImplementsEchoService == Spec /\ []~strayed => Service!Spec
<1>1. Init => Service!Init
  BY InitService
<1>2. /\ FrameInv /\ OrderInv /\ TypeOK' /\ OrderInv' /\ ~strayed /\ [Next]_vars
      => [Service!Next]_(Service!vars)
  BY NextService
<1> QED BY <1>1, <1>2, FrameAlways, OrderAlways, PTL DEF Spec, Service!Spec

-----------------------------------------------------------------------------
(* Client and server never wait for each other *)

\* What a step that is not a call of send_header does for the answers.
Counts == Over' \/ Len(received') > Len(received) \/ Left' < Left

\* The lengths that are counted, and a cell that is moved.
LEMMA LengthTypes ==
  ASSUME TypeOK
  PROVE  /\ Len(out) \in Nat /\ Len(up) \in Nat /\ Len(sin) \in Nat
         /\ Len(sout) \in Nat /\ Len(down) \in Nat /\ Len(in) \in Nat
         /\ Len(sent) \in Nat /\ Len(received) \in Nat
BY DEF TypeOK

LEMMA MovedCell ==
  ASSUME NEW s \in Seq(Cells), NEW t \in Seq(Cells), s # <<>>
  PROVE  Len(Tail(s)) = Len(s) - 1 /\ Len(Append(t, Head(s))) = Len(t) + 1
OBVIOUS

LEMMA ClientStepCounts ==
  ASSUME TypeOK, FrameInv, Owed, Running \/ Collect \/ Close
  PROVE  Counts
<1> USE LengthTypes
<1>1. /\ out \in Seq(Cells) /\ up \in Seq(Cells) /\ in \in Seq(Cells) /\ down \in Seq(Cells)
      /\ server = "serving" /\ ~strayed /\ Phase[call] \in Nat
  BY DEF TypeOK, Owed, Over, Phase
<1>2. CASE WriteCell
  <2>1. Len(out') = Len(out) - 1 /\ Len(up') = Len(up) + 1
    BY <1>1, <1>2, MovedCell DEF WriteCell
  <2>2. UNCHANGED <<sin, sout, down, Phase[call]>>
    BY <1>2 DEF WriteCell, serverVars
  <2> QED BY <1>1, <2>1, <2>2 DEF Left, Counts
<1>3. CASE SendReturns
  <2>1. Phase[call] = 2 /\ Phase[call'] = 1
    BY <1>3 DEF SendReturns, Phase
  <2>2. UNCHANGED <<out, up, sin, sout, down>>
    BY <1>3 DEF SendReturns, serverVars, pipes
  <2> QED BY <1>1, <2>1, <2>2 DEF Left, Counts
<1>4. CASE WriteFails
  BY <1>1, <1>4 DEF WriteFails
<1>5. CASE ReadCell
  <2>1. Len(down') = Len(down) - 1
    BY <1>1, <1>5, MovedCell DEF ReadCell
  <2>2. UNCHANGED <<out, up, sin, sout, Phase[call]>>
    BY <1>5 DEF ReadCell, serverVars
  <2> QED BY <1>1, <2>1, <2>2 DEF Left, Counts
<1>6. CASE RecvReturns
  BY <1>6 DEF RecvReturns, TypeOK, Counts
<1>7. CASE RecvMalformed
  BY <1>1, <1>7, NothingMalformed
<1>8. CASE RecvEof
  BY <1>1, <1>8 DEF RecvEof
<1>9. CASE Collect
  <2>1. Phase[call] = 1 /\ Phase[call'] = 0
    BY <1>9 DEF Collect, RecvHeader, RecvHeaderOrClose, Phase
  <2>2. UNCHANGED <<out, up, sin, sout, down>>
    BY <1>9 DEF Collect, RecvHeader, RecvHeaderOrClose, serverVars, pipes
  <2> QED BY <1>1, <2>1, <2>2 DEF Left, Counts
<1>10. CASE Close
  BY <1>10 DEF Close, Counts, Over
<1> QED BY <1>2, <1>3, <1>4, <1>5, <1>6, <1>7, <1>8, <1>9, <1>10 DEF Running

LEMMA ServerStepCounts ==
  ASSUME TypeOK, Owed, EchoStep \/ ServerCrash \/ \E f \in Strays : Stray(f)
  PROVE  Counts
<1> USE LengthTypes
<1>1. /\ up \in Seq(Cells) /\ sin \in Seq(Cells) /\ sout \in Seq(Cells) /\ down \in Seq(Cells)
      /\ Phase[call] \in Nat
  BY DEF TypeOK, Phase
<1>2. CASE ServerRead
  <2>1. Len(up') = Len(up) - 1 /\ Len(sin') = Len(sin) + 1
    BY <1>1, <1>2, MovedCell DEF ServerRead
  <2>2. UNCHANGED <<out, sout, down, call>>
    BY <1>2 DEF ServerRead, clientVars
  <2> QED BY <1>1, <2>1, <2>2 DEF Left, Counts
<1>3. CASE Echo
  <2>1. sin # <<>> /\ sout = <<>> /\ sin' = <<>> /\ sout' = EchoReply(ServerHeader, Tail(sin))
    BY <1>3 DEF Echo, Serving, ServerWants
  <2>2. Len(EchoReply(ServerHeader, Tail(sin))) = Len(sin)
    <3>1. sin[1] \in Cells /\ Tail(sin) \in Seq(Cells) /\ Len(Tail(sin)) = Len(sin) - 1
      BY <1>1, <2>1
    <3>2. ServerHeader \in Headers
      BY <3>1, ReadAsHeaderType DEF ServerHeader
    <3>3. Len(EchoReply(ServerHeader, Tail(sin))) = 1 + Len(Tail(sin))
      BY <3>1, <3>2, EchoParts
    <3> QED BY <3>1, <3>3
  <2>3. Len(sin) > 0 /\ Len(sin') = 0 /\ Len(sout) = 0 /\ Len(sout') = Len(sin)
    BY <1>1, <2>1, <2>2
  <2>4. UNCHANGED <<out, up, down, call>>
    BY <1>3 DEF Echo, clientVars, pipes
  <2> QED BY <1>1, <2>3, <2>4 DEF Left, Counts
<1>4. CASE ServerWrite
  <2>1. Len(sout') = Len(sout) - 1 /\ Len(down') = Len(down) + 1
    BY <1>1, <1>4, MovedCell DEF ServerWrite
  <2>2. UNCHANGED <<out, up, sin, call>>
    BY <1>4 DEF ServerWrite, clientVars
  <2> QED BY <1>1, <2>1, <2>2 DEF Left, Counts
<1>5. CASE ServerEof \/ ServerRefusesRequest \/ ServerWriteFails \/ ServerCrash
  BY <1>5 DEF ServerEof, ServerRefusesRequest, ServerWriteFails, ServerCrash, Die, Counts, Over
<1>6. CASE \E f \in Strays : Stray(f)
  BY <1>6 DEF Stray, Counts, Over
<1> QED BY <1>2, <1>3, <1>4, <1>5, <1>6 DEF EchoStep

\* As long as a request waits for its answer, every step that is not a call of
\* send_header answers one or brings the answers nearer: no cell is written or
\* read twice, and nothing the reader refuses is ever read.
THEOREM EveryStepCounts == Spec => EachStepCounts
<1>1. TypeOK /\ FrameInv /\ [Next]_vars =>
        [Owed /\ calls' = calls => Over' \/ Len(received') > Len(received) \/ Left' < Left]_vars
  <2> SUFFICES ASSUME TypeOK, FrameInv, Next, Owed, calls' = calls PROVE Counts
    BY DEF Counts
  <2>1. \A c \in Calls : ~SendHeader(c) /\ ~SendRefused(c)
    BY DEF SendHeader, SendRefused, TakeSeqnum, TypeOK
  <2> QED BY <2>1, ClientStepCounts, ServerStepCounts DEF Next, ClientStep
<1> QED BY <1>1, FrameAlways, PTL DEF Spec, EachStepCounts

\* The pipes take what Window requests and their answers may hold, less the
\* two cells that are waiting to be written, if no payload that may be written
\* has more than U cells.
PipesHold(U) ==
  /\ U \in Nat
  /\ \A c \in Calls : c.units <= MaxPayload => c.units <= U
  /\ Window * (1 + U) <= 2 * Room + 1

\* No more than Window requests are unanswered, and their payloads are payloads
\* of calls.
WindowInv(U) ==
  /\ Len(sent) - Len(received) <= Window
  /\ \A k \in 1 .. Len(sent) : Len(sent[k].payload) <= U

LEMMA InitWindowInv ==
  ASSUME NEW U, PipesHold(U), Init
  PROVE  WindowInv(U)
<1>1. Len(sent) = 0 /\ Len(received) = 0
  BY DEF Init
<1> QED BY <1>1, BoundsAssumption DEF WindowInv

LEMMA NextWindowInv ==
  ASSUME NEW U, PipesHold(U), TypeOK, TypeOK', OrderInv, WindowInv(U), [Next]_vars
  PROVE  WindowInv(U)'
<1>1. Len(sent) \in Nat /\ Len(received) \in Nat
  BY LengthTypes
<1>2. ASSUME NEW c \in Calls, SendHeader(c) PROVE WindowInv(U)'
  <2>1. /\ Len(sent') = Len(sent) + 1 /\ received' = received
        /\ \A k \in 1 .. Len(sent) : sent'[k] = sent[k]
        /\ sent'[Len(sent) + 1] = Request(c)
    BY <1>2, NewRequest
  <2>2. Len(sent) - Len(received) < Window
    BY <1>2 DEF SendHeader, MaySend
  <2>3. Len(Request(c).payload) <= U
    <3>1. /\ c.units \in Nat /\ Payload(c) \in Seq(Cells) /\ Len(Payload(c)) = c.units
      <4>1. c.units \in Nat
        BY CallsAssumption DEF CallRecords
      <4>2. Payload(c) \in Seq(Cells)
        BY CallTypes
      <4> QED BY <4>1, <4>2 DEF Payload
    <3>2. Request(c).payload = Tail(Frame(Numbered(c), Payload(c)))
      BY DEF Request
    <3>3. CASE Announces(Numbered(c))
      <4>1. Len(Payload(c)) <= MaxPayload
        BY <1>2, <3>3 DEF SendHeader, Encodes
      <4>2. Request(c).payload = Payload(c)
        BY <3>1, <3>2, <3>3, CallTypes, AskParts DEF Frame
      <4> QED BY <3>1, <4>1, <4>2 DEF PipesHold
    <3>4. CASE ~Announces(Numbered(c))
      <4>1. Request(c).payload = <<>>
        <5>1. <<>> \in Seq(Cells)
          OBVIOUS
        <5> QED BY <3>2, <3>4, <5>1, CallTypes, AskParts DEF Frame
      <4> QED BY <4>1 DEF PipesHold
    <3> QED BY <3>3, <3>4
  <2> QED BY <1>1, <2>1, <2>2, <2>3, BoundsAssumption DEF WindowInv
<1>3. CASE RecvReturns
  <2>1. /\ sent' = sent /\ Len(received') = Len(received) + 1
    BY <1>3 DEF RecvReturns, TypeOK
  <2> QED BY <1>1, <2>1, BoundsAssumption DEF WindowInv
<1>4. CASE UNCHANGED <<sent, received>>
  BY <1>4 DEF WindowInv
<1>5. ASSUME ~RecvReturns, \A c \in Calls : ~SendHeader(c) PROVE UNCHANGED <<sent, received>>
  BY <1>5 DEF Next, ClientStep, Running, Collect, EchoStep, SendRefused, WriteCell, SendReturns,
    WriteFails, ReadCell, RecvMalformed, RecvEof, RecvFails, RecvHeader, RecvHeaderOrClose, Close,
    ServerRead, ServerEof, Echo, ServerRefusesRequest, ServerWrite, ServerWriteFails, Stray,
    ServerCrash, history, vars
<1> QED BY <1>2, <1>3, <1>4, <1>5

\* Where all requests fit and some are unanswered, the streams hold the frames
\* of these, and nothing else.
UnansweredFrames(e) ==
  /\ e \in Len(received) .. Len(sent)
  /\ \A k \in 1 .. e : Echoable(k)
  /\ \E p : LaidOut(Coming, Echoed, Len(received) + 1, e, p) /\ Len(Coming) = p[e + 1]
  /\ \E p : LaidOut(Going, Asks, e + 1, Len(sent), p) /\ Len(Going) = p[Len(sent) + 1]

LEMMA OwedFrames ==
  ASSUME TypeOK, FrameInv, OrderInv, Owed
  PROVE  \E e : UnansweredFrames(e)
<1>0. PICK n \in Nat, m \in Nat : n = Len(sent) /\ m = Len(received)
  BY LengthTypes
<1>1. server = "serving" /\ ~strayed /\ m < n /\ \A j \in 1 .. n : sent[j].fits
  <2>1. DOMAIN sent = 1 .. n
    BY <1>0 DEF TypeOK
  <2> QED BY <1>0, <2>1 DEF Owed, Over, TypeOK
<1>2. PICK F : OrderFor(F)
  BY <1>1 DEF OrderInv
<1>3. F = n
  <2>1. F \in 0 .. n /\ (F < n => ~sent[F + 1].fits)
    BY <1>0, <1>2 DEF OrderFor, Fitting
  <2>2. F < n => F + 1 \in 1 .. n
    BY <2>1
  <2> QED BY <1>1, <2>1, <2>2
<1>4. PICK e : InStep(F, e)
  BY <1>0, <1>1, <1>2, <1>3 DEF OrderFor
<1>5. e \in m .. n /\ \A k \in 1 .. e : Echoable(k)
  BY <1>0, <1>3, <1>4 DEF InStep
<1>6. \E p : LaidOut(Coming, Echoed, m + 1, e, p) /\ Len(Coming) = p[e + 1]
  <2>1. PICK p : /\ LaidOut(Coming, Echoed, m + 1, e, p)
                 /\ Len(Coming) <= p[e + 1] /\ p[e + 1] <= Len(Coming)
    BY <1>0, <1>1, <1>3, <1>4 DEF InStep, AnswersAhead
  <2>2. p[e + 1] \in Nat
    <3>1. e + 1 \in m + 1 .. e + 1
      BY <1>5
    <3> QED BY <2>1, <3>1 DEF LaidOut, Positions
  <2>3. Len(Coming) \in Nat
    BY ComingType
  <2> QED BY <2>1, <2>2, <2>3
<1>7. \E p : LaidOut(Going, Asks, e + 1, n, p) /\ Len(Going) = p[n + 1]
  BY <1>0, <1>1, <1>3, <1>4 DEF InStep, RequestsAhead
<1> QED BY <1>0, <1>5, <1>6, <1>7 DEF UnansweredFrames

\* What is under way in both directions fits into the pipes and the two
\* frames that are being written, less a cell.
LEMMA StreamsBounded ==
  ASSUME NEW U, PipesHold(U), TypeOK, WindowInv(U), NEW e, UnansweredFrames(e)
  PROVE  Len(Coming) + Len(Going) <= 2 * Room + 1
<1>0. PICK n \in Nat, m \in Nat : n = Len(sent) /\ m = Len(received)
  BY LengthTypes
<1>1. e \in m .. n /\ e \in Nat /\ m <= e /\ e <= n /\ U \in Nat
  BY <1>0 DEF UnansweredFrames, PipesHold
<1>2. PICK u \in Nat : u = 1 + U
  BY <1>1
<1>3. \A k \in 1 .. n : Len(Asks[k]) <= u /\ Len(Echoed[k]) <= u
  <2> SUFFICES ASSUME NEW k \in 1 .. n PROVE Len(Asks[k]) <= u /\ Len(Echoed[k]) <= u
    OBVIOUS
  <2>1. /\ sent[k].header \in Headers /\ sent[k].payload \in Seq(Cells)
        /\ Asks[k] = <<HeaderCell(sent[k].header)>> \o sent[k].payload
        /\ Echoed[k] = EchoReply(sent[k].header, sent[k].payload)
    BY <1>0, FramesExist
  <2>2. Len(Asks[k]) = 1 + Len(sent[k].payload) /\ Len(Echoed[k]) = 1 + Len(sent[k].payload)
    BY <2>1, AskParts, EchoParts
  <2>3. Len(sent[k].payload) <= U /\ Len(sent[k].payload) \in Nat
    BY <1>0, <2>1 DEF WindowInv
  <2> QED BY <1>1, <1>2, <2>2, <2>3
<1>4. Len(Coming) <= (e - m) * u
  <2>1. PICK a \in Nat : a = m + 1
    OBVIOUS
  <2>2. PICK p : LaidOut(Coming, Echoed, a, e, p) /\ Len(Coming) = p[e + 1]
    BY <1>0, <2>1 DEF UnansweredFrames
  <2>3. Frames(Cells, Echoed, a, e)
    <3>1. 1 <= a /\ a <= e + 1 /\ e <= n
      BY <1>1, <2>1
    <3> QED BY <1>0, <1>1, <3>1, FramesExist
  <2>4. \A k \in a .. e : Len(Echoed[k]) <= u
    <3>1. \A k \in a .. e : k \in 1 .. n
      BY <1>1, <2>1
    <3> QED BY <1>3, <3>1
  <2>5. p[e + 1] <= (e + 1 - a) * u
    <3>1. Positions(Echoed, a, e, p)
      BY <2>2 DEF LaidOut
    <3> QED BY <1>1, <2>3, <2>4, <3>1, FramesBounded
  <2>6. e + 1 - a = e - m
    BY <1>1, <2>1
  <2> QED BY <2>2, <2>5, <2>6
<1>5. Len(Going) <= (n - e) * u
  <2>1. PICK a \in Nat : a = e + 1
    BY <1>1
  <2>2. PICK p : LaidOut(Going, Asks, a, n, p) /\ Len(Going) = p[n + 1]
    BY <1>0, <2>1 DEF UnansweredFrames
  <2>3. Frames(Cells, Asks, a, n)
    <3>1. 1 <= a /\ a <= n + 1 /\ n <= n
      BY <1>1, <2>1
    <3> QED BY <1>0, <3>1, FramesExist
  <2>4. \A k \in a .. n : Len(Asks[k]) <= u
    <3>1. \A k \in a .. n : k \in 1 .. n
      BY <1>1, <2>1
    <3> QED BY <1>3, <3>1
  <2>5. p[n + 1] <= (n + 1 - a) * u
    <3>1. Positions(Asks, a, n, p)
      BY <2>2 DEF LaidOut
    <3> QED BY <2>3, <2>4, <3>1, FramesBounded
  <2>6. n + 1 - a = n - e
    BY <1>1, <2>1
  <2> QED BY <2>2, <2>5, <2>6
<1>6. (e - m) * u + (n - e) * u = (n - m) * u
  BY <1>1
<1>7. (n - m) * u <= Window * u
  <2>1. n - m <= Window /\ n - m \in Nat /\ Window \in Nat
    BY <1>0, <1>1, BoundsAssumption DEF WindowInv
  <2> QED BY <2>1
<1>8. Window * u <= 2 * Room + 1
  BY <1>2 DEF PipesHold
<1>9. /\ (e - m) * u \in Int /\ (n - e) * u \in Int /\ (n - m) * u \in Int /\ Window * u \in Int
      /\ Room \in Nat
  BY <1>1, BoundsAssumption
<1>10. Len(Coming) \in Nat /\ Len(Going) \in Nat
  BY ComingType, GoingType
<1> QED BY <1>4, <1>5, <1>6, <1>7, <1>8, <1>9, <1>10

\* Both sides write: there is room in one of the pipes.
LEMMA NotBothFull ==
  ASSUME NEW U, PipesHold(U), TypeOK, WindowInv(U), NEW e, UnansweredFrames(e)
  PROVE  ~(out # <<>> /\ ~(Len(up) < Room) /\ sout # <<>> /\ ~(Len(down) < Room))
<1>1. Len(Coming) = Len(in) + Len(down) + Len(sout)
  <2>1. /\ in \in Seq(Cells) /\ down \in Seq(Cells) /\ sout \in Seq(Cells) /\ down \o sout \in Seq(Cells)
    BY ComingType
  <2>2. Len(down \o sout) = Len(down) + Len(sout)
    BY <2>1
  <2>3. Len(in \o (down \o sout)) = Len(in) + Len(down \o sout)
    BY <2>1
  <2> QED BY <2>2, <2>3, LengthTypes DEF Coming
<1>2. Len(Going) = Len(sin) + Len(up) + Len(out)
  <2>1. /\ sin \in Seq(Cells) /\ up \in Seq(Cells) /\ out \in Seq(Cells) /\ up \o out \in Seq(Cells)
    BY GoingType
  <2>2. Len(up \o out) = Len(up) + Len(out)
    BY <2>1
  <2>3. Len(sin \o (up \o out)) = Len(sin) + Len(up \o out)
    BY <2>1
  <2> QED BY <2>2, <2>3, LengthTypes DEF Going
<1>3. out # <<>> => Len(out) >= 1
  BY GoingType
<1>4. sout # <<>> => Len(sout) >= 1
  BY ComingType
<1>5. Len(Coming) + Len(Going) <= 2 * Room + 1
  BY StreamsBounded
<1> QED BY <1>1, <1>2, <1>3, <1>4, <1>5, LengthTypes, BoundsAssumption

\* The client reads, nothing is on its way to it, and the frame it has begun
\* is not whole: the server has still to answer the next request.
LEMMA NothingHalfRead ==
  ASSUME TypeOK, NEW e, UnansweredFrames(e), down = <<>>, sout = <<>>, ClientWants
  PROVE  e = Len(received)
<1>0. PICK n \in Nat, m \in Nat : n = Len(sent) /\ m = Len(received)
  BY LengthTypes
<1>1. e \in m .. n /\ e \in Nat
  BY <1>0 DEF UnansweredFrames
<1>2. Coming = in /\ in \in Seq(Cells) /\ Len(in) \in Nat
  <2>1. in \in Seq(Cells) /\ <<>> \o <<>> = <<>>
    BY ComingType
  <2> QED BY <2>1, ConcatEmpty DEF Coming
<1> SUFFICES ASSUME m < e PROVE FALSE
  BY <1>0, <1>1
<1>3. PICK a \in Nat : a = m + 1
  OBVIOUS
<1>4. a <= e /\ a \in 1 .. n /\ a \in 1 .. e /\ Frames(Cells, Echoed, a, e)
  <2>1. a <= e /\ a \in 1 .. n /\ a \in 1 .. e /\ 1 <= a /\ a <= e + 1 /\ e <= n
    BY <1>1, <1>3
  <2> QED BY <1>0, <1>1, <2>1, FramesExist
<1>5. PICK p : LaidOut(in, Echoed, a, e, p) /\ Len(in) = p[e + 1]
  BY <1>0, <1>2, <1>3 DEF UnansweredFrames
<1>6. Echoed[a] # <<>> /\ Len(Echoed[a]) = 1 + ClientLength(ReadAsHeader(Echoed[a][1]))
  <2>1. Echoable(a)
    BY <1>4 DEF UnansweredFrames
  <2>2. /\ Echoed[a] = EchoReply(sent[a].header, sent[a].payload)
        /\ sent[a].header \in Headers /\ sent[a].payload \in Seq(Cells)
    BY <1>0, <1>4, FramesExist
  <2> QED BY <2>1, <2>2, EchoParts DEF Echoable
<1>7. Len(Echoed[a]) <= Len(in) /\ Len(Echoed[a]) >= 1
  BY <1>1, <1>2, <1>4, <1>5, <1>6, FirstWithin
<1>8. in # <<>>
  BY <1>2, <1>7
<1>9. in[1] = Echoed[a][1]
  BY <1>1, <1>2, <1>4, <1>5, <1>6, <1>8, FirstOfFirstFrame
<1> QED BY <1>6, <1>7, <1>8, <1>9, <1>2 DEF ClientWants, ClientHeader

\* The server reads, and nothing is on its way to it: it has answered all.
LEMMA NothingHalfServed ==
  ASSUME TypeOK, OrderInv, Owed, NEW e, UnansweredFrames(e), up = <<>>, out = <<>>, ServerWants
  PROVE  e = Len(sent)
<1>0. PICK n \in Nat, m \in Nat : n = Len(sent) /\ m = Len(received)
  BY LengthTypes
<1>1. e \in m .. n /\ e \in Nat
  BY <1>0 DEF UnansweredFrames
<1>2. Going = sin /\ sin \in Seq(Cells) /\ Len(sin) \in Nat
  <2>1. sin \in Seq(Cells) /\ <<>> \o <<>> = <<>>
    BY GoingType
  <2> QED BY <2>1, ConcatEmpty DEF Going
<1> SUFFICES ASSUME e < n PROVE FALSE
  BY <1>0, <1>1
<1>3. PICK a \in Nat : a = e + 1
  BY <1>1
<1>4. a <= n /\ a \in 1 .. n /\ Frames(Cells, Asks, a, n)
  <2>1. a <= n /\ a \in 1 .. n /\ 1 <= a /\ a <= n + 1 /\ n <= n
    BY <1>1, <1>3
  <2> QED BY <1>0, <2>1, FramesExist
<1>5. PICK p : LaidOut(sin, Asks, a, n, p) /\ Len(sin) = p[n + 1]
  BY <1>0, <1>2, <1>3 DEF UnansweredFrames
<1>6. PICK h \in Headers, payload \in Seq(Cells) :
        /\ h = sent[a].header /\ payload = sent[a].payload
        /\ Asks[a] = <<HeaderCell(h)>> \o payload
  BY <1>0, <1>4, FramesExist
<1>7. /\ Asks[a] # <<>> /\ Len(Asks[a]) = 1 + Len(payload) /\ Len(payload) \in Nat
      /\ ReadAsHeader(Asks[a][1]) = h
  BY <1>6, AskParts
<1>8. Len(payload) = ClientLength(h)
  <2>1. a \in DOMAIN sent
    BY <1>0, <1>4 DEF TypeOK
  <2>2. sent[a].fits
    BY <2>1 DEF Owed
  <2> QED BY <1>0, <1>4, <1>6, <2>2 DEF OrderInv
<1>9. Len(Asks[a]) <= Len(sin) /\ Len(Asks[a]) >= 1
  BY <1>2, <1>4, <1>5, <1>7, FirstWithin
<1>10. sin # <<>>
  BY <1>2, <1>9
<1>11. ServerHeader = h
  <2>1. sin[1] = Asks[a][1]
    BY <1>2, <1>4, <1>5, <1>7, <1>10, FirstOfFirstFrame
  <2> QED BY <1>7, <2>1 DEF ServerHeader
<1>12. ServerLength(h) <= ClientLength(h) /\ ClientLength(h) \in Nat
  BY <1>7, <1>8 DEF ServerLength
<1>13. ServerLength(h) \in Nat
  BY LengthBounds
<1> QED BY <1>2, <1>7, <1>8, <1>9, <1>10, <1>11, <1>12, <1>13 DEF ServerWants

\* No request is ever left with two sides that wait for each other.
LEMMA SomeoneReady ==
  ASSUME NEW U, PipesHold(U), TypeOK, FrameInv, OrderInv, WindowInv(U), Owed
  PROVE  ClientReady \/ ServerReady
<1> SUFFICES ASSUME ~ClientReady, ~ServerReady PROVE FALSE
  OBVIOUS
<1>1. PICK e : UnansweredFrames(e)
  BY OwedFrames
<1>2. server = "serving" /\ ~closed /\ call # "dropped" /\ Len(received) < Len(sent)
  BY DEF Owed, Over, TypeOK
<1>3. \/ call = "sending" /\ out # <<>> /\ ~(Len(up) < Room)
      \/ call # "sending" /\ down = <<>> /\ ClientWants
  BY <1>2 DEF ClientReady, Receiving, TypeOK
<1>4. \/ sout # <<>> /\ ~(Len(down) < Room)
      \/ sout = <<>> /\ up = <<>> /\ ServerWants
  BY <1>2 DEF ServerReady, Serving
<1>5. up = <<>> => Len(up) < Room
  BY BoundsAssumption
<1>6. down = <<>> => Len(down) < Room
  BY BoundsAssumption
<1>7. ~(out # <<>> /\ ~(Len(up) < Room) /\ sout # <<>> /\ ~(Len(down) < Room))
  BY <1>1, NotBothFull
<1>8. /\ call # "sending" /\ down = <<>> /\ ClientWants
      /\ sout = <<>> /\ up = <<>> /\ ServerWants
  BY <1>3, <1>4, <1>5, <1>6, <1>7
<1>9. out = <<>>
  BY <1>8 DEF OrderInv
<1>10. e = Len(received) /\ e = Len(sent)
  BY <1>1, <1>8, <1>9, NothingHalfRead, NothingHalfServed
<1> QED BY <1>2, <1>10, LengthTypes

\* If the pipes hold what the caller may leave unanswered, then client and
\* server never wait for each other while a request has no answer, whatever the
\* number of the calls and the sizes: neither write_all blocks against the
\* other, and no read_exact waits for the rest of a frame nobody will write.
THEOREM NeverWaitForEachOther ==
  ASSUME NEW U, PipesHold(U)
  PROVE  Spec => []NeverStuck
<1>1. Init => WindowInv(U)
  BY InitWindowInv
<1>2. TypeOK /\ TypeOK' /\ OrderInv /\ WindowInv(U) /\ [Next]_vars => WindowInv(U)'
  BY NextWindowInv
<1>3. TypeOK /\ FrameInv /\ OrderInv /\ WindowInv(U) => NeverStuck
  BY SomeoneReady DEF NeverStuck
<1> QED BY <1>1, <1>2, <1>3, FrameAlways, OrderAlways, PTL DEF Spec

\* A step that counts, or a new call: what is left for the answers is less, an
\* answer has come, or the caller has used up one of its calls.
LEMMA StepComesNearer ==
  ASSUME NEW m, NEW k, NEW n, TypeOK, TypeOK', Next,
         [Owed /\ calls' = calls => Over' \/ Len(received') > Len(received) \/ Left' < Left]_vars,
         Owed, Len(received) = m, calls = k, Left = n
  PROVE  \/ ~Owed'
         \/ Len(received') > m
         \/ calls' > k
         \/ Len(received') = m /\ calls' = k /\ Left' < n
         \/ UNCHANGED vars
<1> SUFFICES ASSUME ~UNCHANGED vars, ~Over'
             PROVE  \/ Len(received') > m
                    \/ calls' > k
                    \/ Len(received') = m /\ calls' = k /\ Left' < n
  BY DEF Owed
<1>1. calls' = calls \/ calls' = calls + 1
  BY DEF Next, ClientStep, SendHeader, SendRefused, TakeSeqnum, Running, WriteCell, SendReturns,
    WriteFails, ReadCell, RecvReturns, RecvMalformed, RecvEof, RecvFails, Collect, RecvHeader,
    RecvHeaderOrClose, Close, EchoStep, ServerRead, ServerEof, Echo, ServerRefusesRequest,
    ServerWrite, ServerWriteFails, Die, Stray, ServerCrash, clientVars
<1>2. Len(received') = Len(received) \/ Len(received') = Len(received) + 1
  <2>1. CASE RecvReturns
    BY <2>1 DEF RecvReturns, TypeOK
  <2>2. CASE ~RecvReturns
    BY <2>2 DEF Next, ClientStep, SendHeader, SendRefused, Running, WriteCell, SendReturns,
      WriteFails, ReadCell, RecvMalformed, RecvEof, RecvFails, Collect, RecvHeader,
      RecvHeaderOrClose, Close, EchoStep, ServerRead, ServerEof, Echo, ServerRefusesRequest,
      ServerWrite, ServerWriteFails, Stray, ServerCrash, history
  <2> QED BY <2>1, <2>2
<1>3. calls \in Nat /\ Len(received) \in Nat
  BY LengthTypes DEF TypeOK
<1> QED BY <1>1, <1>2, <1>3

\* As long as a request waits for its answer, the session goes on: an answer
\* comes, the caller makes one of its calls, or fewer moves are left than
\* before.  The moves left are a natural number and the calls are bounded, so
\* that this can happen only so often before every request is answered.
THEOREM AnswersComeNearer ==
  ASSUME NEW U, PipesHold(U), NEW m \in Nat, NEW k \in Nat, NEW n \in Nat
  PROVE  FairSpec /\ []NothingElseAwaited =>
           (Owed /\ Len(received) = m /\ calls = k /\ Left = n
              ~> \/ ~Owed
                 \/ Len(received) > m
                 \/ calls > k
                 \/ Len(received) = m /\ calls = k /\ Left < n)
<1> DEFINE Here == Owed /\ Len(received) = m /\ calls = k /\ Left = n
           Nearer == \/ ~Owed
                     \/ Len(received) > m
                     \/ calls > k
                     \/ Len(received) = m /\ calls = k /\ Left < n
           Counting == [Owed /\ calls' = calls =>
                          Over' \/ Len(received') > Len(received) \/ Left' < Left]_vars
<1>1. TypeOK /\ TypeOK' /\ Counting /\ Here /\ [Next]_vars
        => Nearer' \/ (Here' /\ UNCHANGED vars)
  <2>1. UNCHANGED vars /\ Here => Here'
    BY DEF vars, clientVars, serverVars, pipes, history, Owed, Over, Left
  <2> QED BY <2>1, StepComesNearer
<1>2. UNCHANGED vars =>
        /\ ClientReady <=> ClientReady'
        /\ ServerReady <=> ServerReady'
        /\ call = "idle" <=> (call = "idle")'
  BY DEF vars, clientVars, serverVars, pipes, ClientReady, ServerReady, Receiving, ClientWants,
    ClientHeader, Serving, ServerWants, ServerHeader
<1>3. Spec => [][Owed /\ calls' = calls =>
                   Over' \/ Len(received') > Len(received) \/ Left' < Left]_vars
  BY EveryStepCounts DEF EachStepCounts
<1>4. Spec => []NeverStuck
  BY NeverWaitForEachOther
<1>5. NeverStuck /\ Here => ClientReady \/ ServerReady
  BY DEF NeverStuck
<1>6. NothingElseAwaited /\ Here =>
        /\ ClientReady /\ ~(call = "idle") => ENABLED <<Running>>_vars
        /\ call = "idle" => ENABLED <<Len(received) < Len(sent) /\ Collect>>_vars
        /\ ServerReady => ENABLED <<EchoStep>>_vars
  BY DEF NothingElseAwaited
<1>7. /\ <<Running>>_vars => ~UNCHANGED vars
      /\ <<Len(received) < Len(sent) /\ Collect>>_vars => ~UNCHANGED vars
      /\ <<EchoStep>>_vars => ~UNCHANGED vars
  OBVIOUS
<1> HIDE DEF Here, Nearer
<1>8. FairSpec /\ []NothingElseAwaited => (Here ~> Nearer)
  BY <1>1, <1>2, <1>3, <1>4, <1>5, <1>6, <1>7, TypeCorrect, PTL
  DEF FairSpec, Spec, Fairness
<1> QED BY <1>8 DEF Here, Nearer

\* The moves a server has left once its client is gone.
Unserved == 3 * Len(up) + 2 * Len(sin) + Len(sout)

\* What happens to a server whose client is gone: it ends, writes a frame of
\* its own for once, or has fewer moves left.
LEMMA AbandonedStep ==
  ASSUME TypeOK, Next, call = "dropped", server = "serving"
  PROVE  /\ call' = "dropped"
         /\ \/ server' = "gone"
            \/ ~strayed /\ strayed'
            \/ server' = "serving" /\ strayed' = strayed /\ Unserved' < Unserved
<1> USE LengthTypes
<1>1. /\ up \in Seq(Cells) /\ sin \in Seq(Cells) /\ sout \in Seq(Cells) /\ down \in Seq(Cells)
  BY DEF TypeOK
<1>2. CASE ServerRead
  <2>1. Len(up') = Len(up) - 1 /\ Len(sin') = Len(sin) + 1
    BY <1>1, <1>2, MovedCell DEF ServerRead
  <2>2. UNCHANGED <<sout, call, server, strayed>>
    BY <1>2 DEF ServerRead, clientVars, history
  <2> QED BY <1>1, <2>1, <2>2 DEF Unserved
<1>3. CASE Echo
  <2>1. sin # <<>> /\ sout = <<>> /\ sin' = <<>> /\ sout' = EchoReply(ServerHeader, Tail(sin))
    BY <1>3 DEF Echo, Serving, ServerWants
  <2>2. Len(EchoReply(ServerHeader, Tail(sin))) = Len(sin)
    <3>1. sin[1] \in Cells /\ Tail(sin) \in Seq(Cells) /\ Len(Tail(sin)) = Len(sin) - 1
      BY <1>1, <2>1
    <3>2. ServerHeader \in Headers
      BY <3>1, ReadAsHeaderType DEF ServerHeader
    <3>3. Len(EchoReply(ServerHeader, Tail(sin))) = 1 + Len(Tail(sin))
      BY <3>1, <3>2, EchoParts
    <3> QED BY <3>1, <3>3
  <2>3. Len(sin) > 0 /\ Len(sin') = 0 /\ Len(sout) = 0 /\ Len(sout') = Len(sin)
    BY <1>1, <2>1, <2>2
  <2>4. UNCHANGED <<up, call, server, strayed>>
    BY <1>3 DEF Echo, clientVars, pipes, history
  <2> QED BY <1>1, <2>3, <2>4 DEF Unserved
<1>4. CASE ServerWrite
  <2>1. Len(sout') = Len(sout) - 1
    BY <1>1, <1>4, MovedCell DEF ServerWrite
  <2>2. UNCHANGED <<up, sin, call, server, strayed>>
    BY <1>4 DEF ServerWrite, clientVars, history
  <2> QED BY <1>1, <2>1, <2>2 DEF Unserved
<1>5. CASE ServerEof \/ ServerRefusesRequest \/ ServerWriteFails \/ ServerCrash
  BY <1>5 DEF ServerEof, ServerRefusesRequest, ServerWriteFails, ServerCrash, Die, clientVars
<1>6. CASE \E f \in Strays : Stray(f)
  BY <1>6 DEF Stray, clientVars
<1>7. ~ClientStep
  BY DEF ClientStep, SendHeader, SendRefused, MaySend, Running, WriteCell, SendReturns, WriteFails,
    ReadCell, RecvReturns, RecvMalformed, RecvEof, Receiving, Collect, RecvHeader,
    RecvHeaderOrClose, Close
<1> QED BY <1>2, <1>3, <1>4, <1>5, <1>6, <1>7 DEF Next, EchoStep

\* A server whose client is gone does not sit still: it ends, or it has fewer
\* cells left to read, echo and write, after at most one frame of its own.
THEOREM ServerComesToEnd ==
  ASSUME NEW n \in Nat, NEW s \in BOOLEAN
  PROVE  FairSpec /\ []NothingElseAwaited =>
           (call = "dropped" /\ server = "serving" /\ strayed = s /\ Unserved = n
              ~> \/ server = "gone"
                 \/ ~s /\ strayed
                 \/ call = "dropped" /\ server = "serving" /\ strayed = s /\ Unserved < n)
<1> DEFINE Here == call = "dropped" /\ server = "serving" /\ strayed = s /\ Unserved = n
           Nearer == \/ server = "gone"
                     \/ ~s /\ strayed
                     \/ call = "dropped" /\ server = "serving" /\ strayed = s /\ Unserved < n
<1>1. TypeOK /\ Here /\ [Next]_vars => Nearer' \/ (Here' /\ UNCHANGED vars)
  <2>1. UNCHANGED vars /\ Here => Here'
    BY DEF vars, clientVars, serverVars, pipes, history, Unserved
  <2>2. TypeOK /\ Here /\ Next => Nearer'
    BY AbandonedStep
  <2> QED BY <2>1, <2>2
<1>2. NothingElseAwaited /\ Here => ENABLED <<EchoStep>>_vars
  BY DEF NothingElseAwaited
<1>3. <<EchoStep>>_vars => ~UNCHANGED vars
  OBVIOUS
<1> HIDE DEF Here, Nearer
<1>4. FairSpec /\ []NothingElseAwaited => (Here ~> Nearer)
  BY <1>1, <1>2, <1>3, TypeCorrect, PTL DEF FairSpec, Spec, Fairness
<1> QED BY <1>4 DEF Here, Nearer
=============================================================================
