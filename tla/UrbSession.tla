----------------------------- MODULE UrbSession -----------------------------
(***************************************************************************)
(* A TcpSession (protocol/session.rs) after its handshake, and a server    *)
(* that calls serve_urb_echo() (protocol/server.rs) in a loop until it     *)
(* fails, then drops its stream.                                           *)
(*                                                                         *)
(* Each direction of the connection is a pipe of bounded room: write_all   *)
(* moves one cell at a time and waits while the pipe is full, read_exact   *)
(* takes one cell at a time and waits while it is empty.  The methods of   *)
(* the session take &mut self, so the client runs one at a time.  The      *)
(* caller keeps at most Window requests unanswered; the server may write   *)
(* frames nobody asked for, and may die.                                   *)
(***************************************************************************)
EXTENDS UrbCodec

CONSTANTS Calls,      \* arguments of send_header
          Strays,     \* frames a server may send by itself
          Room,       \* cells a pipe holds
          Window,     \* requests the caller keeps unanswered
          MaxCalls    \* bound: calls of send_header

\* A header, and Some(payload of `units` cells) if `given`.
CallRecords == [command : KnownCommands \cup {"unknown"}, direction : Directions \cup {"invalid"},
                length : Int, packets : Int, given : BOOLEAN, units : Nat]

ASSUME CallsAssumption == Calls \subseteq CallRecords
ASSUME StraysAssumption == Strays \subseteq Seq(Cells)
ASSUME BoundsAssumption == Room \in Nat \ {0} /\ Window \in Nat \ {0} /\ MaxCalls \in Nat

VARIABLES
  call,       \* "idle", "sending", "receiving", "receivingOrClose" or "dropped"
  closed,     \* TcpSession.closed; the write half is shut down as well
  nextSeq,    \* TcpSession.next_seqnum
  calls,      \* calls of send_header that passed the closed check
  out,        \* cells the running send_header has still to write
  in,         \* cells the running recv_header has read
  up, down,   \* the pipes, client to server and back
  server,     \* "serving" or "gone"
  sin,        \* cells the running serve_urb_echo has read
  sout,       \* cells it has still to write
  sent,       \* history: requests send_header has begun to write
  received,   \* history: what a recv_header returned Ok with
  strayed     \* history: the server sent something by itself

clientVars == <<call, closed, nextSeq, calls, out, in>>
serverVars == <<server, sin, sout>>
pipes == <<up, down>>
history == <<sent, received, strayed>>
vars == <<clientVars, serverVars, pipes, history>>

Init ==
  /\ call = "idle" /\ closed = FALSE
  /\ nextSeq = 0 /\ calls = 0
  /\ out = <<>> /\ in = <<>>
  /\ up = <<>> /\ down = <<>>
  /\ server = "serving" /\ sin = <<>> /\ sout = <<>>
  /\ sent = <<>> /\ received = <<>> /\ strayed = FALSE

-----------------------------------------------------------------------------
(* TcpSession::send_header *)

Payload(c) == [i \in 1 .. c.units |-> DataCell(calls + 1, i)]
Numbered(c) == [command |-> c.command, direction |-> c.direction, seq |-> nextSeq,
                length |-> c.length, packets |-> c.packets]

\* What the caller may remember of a request: its number among the calls, and
\* whether its payload has the length its header announces.
Request(c) == [number |-> calls + 1, header |-> Numbered(c),
               payload |-> Tail(Frame(Numbered(c), Payload(c))),
               fits |-> Announces(Numbered(c)) => c.units = c.length]

\* A plausible bug: saturating_add.
TakeSeqnumSaturating ==
  /\ nextSeq' = IF nextSeq + 1 = SeqSpace THEN nextSeq ELSE nextSeq + 1
  /\ calls' = calls + 1

\* The sequence number is taken before the header is encoded.
TakeSeqnum ==
  /\ nextSeq' = (nextSeq + 1) % SeqSpace
  /\ calls' = calls + 1

MaySend ==
  /\ call = "idle" /\ ~closed
  /\ calls < MaxCalls
  /\ Len(sent) - Len(received) < Window

SendHeader(c) ==
  /\ MaySend
  /\ Encodes(Numbered(c), c.given, Payload(c))
  /\ TakeSeqnum
  /\ call' = "sending"
  /\ out' = Frame(Numbered(c), Payload(c))
  /\ sent' = Append(sent, Request(c))
  /\ UNCHANGED <<closed, in, serverVars, pipes, received, strayed>>

\* encode_header fails: the number is spent, nothing is written.
SendRefused(c) ==
  /\ MaySend
  /\ ~Encodes(Numbered(c), c.given, Payload(c))
  /\ TakeSeqnum
  /\ UNCHANGED <<call, closed, out, in, serverVars, pipes, history>>

\* A plausible bug: what was written is not cut off before the next write.
WriteCellAgain ==
  /\ call = "sending" /\ out # <<>>
  /\ Len(up) < Room
  /\ up' = Append(up, Head(out))
  /\ UNCHANGED <<call, closed, nextSeq, calls, out, in, serverVars, down, history>>

\* A plausible bug: the rest of the frame is only written in one piece.
WriteCellWhole ==
  /\ call = "sending" /\ out # <<>>
  /\ Len(up) + Len(out) <= Room
  /\ up' = Append(up, Head(out))
  /\ out' = Tail(out)
  /\ UNCHANGED <<call, closed, nextSeq, calls, in, serverVars, down, history>>

WriteCell ==
  /\ call = "sending" /\ out # <<>>
  /\ Len(up) < Room
  /\ up' = Append(up, Head(out))
  /\ out' = Tail(out)
  /\ UNCHANGED <<call, closed, nextSeq, calls, in, serverVars, down, history>>

SendReturns ==
  /\ call = "sending" /\ out = <<>>
  /\ call' = "idle"
  /\ UNCHANGED <<closed, nextSeq, calls, out, in, serverVars, pipes, history>>

\* write_all finds the connection reset; the session is not marked closed.
WriteFails ==
  /\ call = "sending" /\ out # <<>>
  /\ server = "gone"
  /\ call' = "idle"
  /\ out' = <<>>
  /\ UNCHANGED <<closed, nextSeq, calls, in, serverVars, pipes, history>>

-----------------------------------------------------------------------------
(* TcpSession::recv_header and recv_header_or_close *)

Receiving == call \in {"receiving", "receivingOrClose"}

RecvHeader ==
  /\ call = "idle" /\ ~closed
  /\ call' = "receiving"
  /\ UNCHANGED <<closed, nextSeq, calls, out, in, serverVars, pipes, history>>

\* It does not look at `closed`.
RecvHeaderOrClose ==
  /\ call = "idle"
  /\ call' = "receivingOrClose"
  /\ UNCHANGED <<closed, nextSeq, calls, out, in, serverVars, pipes, history>>

ClientHeader == ReadAsHeader(in[1])

\* A plausible bug: the client waits for a byte behind the frame.
ClientWantsMore ==
  in # <<>> => /\ ~ClientRefuses(ClientHeader)
               /\ Len(in) <= 1 + ClientLength(ClientHeader)

ClientWants ==
  in # <<>> => /\ ~ClientRefuses(ClientHeader)
               /\ Len(in) < 1 + ClientLength(ClientHeader)

ReadCell ==
  /\ Receiving /\ ClientWants
  /\ down # <<>>
  /\ in' = Append(in, Head(down))
  /\ down' = Tail(down)
  /\ UNCHANGED <<call, closed, nextSeq, calls, out, serverVars, up, history>>

RecvReturns ==
  /\ Receiving /\ ~ClientWants
  /\ ~ClientRefuses(ClientHeader)
  /\ Decodes(ClientHeader, Len(in) - 1)
  /\ received' = Append(received, [header |-> ClientHeader, payload |-> Tail(in)])
  /\ call' = "idle"
  /\ in' = <<>>
  /\ UNCHANGED <<closed, nextSeq, calls, out, serverVars, pipes, sent, strayed>>

\* The error is returned; what it leaves in the stream stays there, and only
\* recv_header_or_close shuts the write half down.
RecvFails ==
  /\ call' = "idle"
  /\ in' = <<>>
  /\ closed' = (closed \/ call = "receivingOrClose")
  /\ UNCHANGED <<nextSeq, calls, out, serverVars, up, history>>

RecvMalformed ==
  /\ Receiving /\ ~ClientWants
  /\ ClientRefuses(ClientHeader) \/ ~Decodes(ClientHeader, Len(in) - 1)
  /\ RecvFails
  /\ UNCHANGED down

\* read_exact finds the end of the stream, or a reset, and then whatever was
\* still under way is lost.
RecvEof ==
  /\ Receiving /\ ClientWants
  /\ server = "gone"
  /\ RecvFails
  /\ down' = <<>>

\* close(), or the session is dropped.
Close ==
  /\ call = "idle"
  /\ call' = "dropped"
  /\ UNCHANGED <<closed, nextSeq, calls, out, in, serverVars, pipes, history>>

-----------------------------------------------------------------------------
(* serve_urb_echo *)

Serving == server = "serving" /\ sout = <<>>
Die == server' = "gone" /\ sin' = <<>> /\ sout' = <<>>

ServerHeader == ReadAsHeader(sin[1])

\* A plausible bug: the server waits for a byte behind the frame.
ServerWantsMore ==
  sin # <<>> => /\ ~ServerRefuses(ServerHeader)
                /\ Len(sin) <= 1 + ServerLength(ServerHeader)

ServerWants ==
  sin # <<>> => /\ ~ServerRefuses(ServerHeader)
                /\ Len(sin) < 1 + ServerLength(ServerHeader)

ServerRead ==
  /\ Serving /\ ServerWants
  /\ up # <<>>
  /\ sin' = Append(sin, Head(up))
  /\ up' = Tail(up)
  /\ UNCHANGED <<clientVars, server, sout, down, history>>

\* read_exact finds the end of what the client wrote.
\* A plausible bug: a read of no bytes is taken for "nothing yet".
ServerEofAwaited ==
  /\ Serving /\ ServerWants
  /\ up = <<>>
  /\ closed \/ call = "dropped"
  /\ UNCHANGED vars

ServerEof ==
  /\ Serving /\ ServerWants
  /\ up = <<>>
  /\ closed \/ call = "dropped"
  /\ Die
  /\ UNCHANGED <<clientVars, pipes, history>>

\* A plausible bug: the answer to an unlink is filled in anew, without its number.
EchoReplyUnnumbered(h, payload) ==
  <<HeaderCell([command   |-> IF h.command = "CMD_SUBMIT" THEN "RET_SUBMIT" ELSE "RET_UNLINK",
                direction |-> IF h.command = "CMD_SUBMIT" THEN "IN" ELSE h.direction,
                seq       |-> IF h.command = "CMD_SUBMIT" THEN h.seq ELSE 0,
                length    |-> Len(payload),
                packets   |-> 0])>> \o payload

\* The answer repeats the sequence number and the payload.
EchoReply(h, payload) ==
  <<HeaderCell([command   |-> IF h.command = "CMD_SUBMIT" THEN "RET_SUBMIT" ELSE "RET_UNLINK",
                direction |-> IF h.command = "CMD_SUBMIT" THEN "IN" ELSE h.direction,
                seq       |-> h.seq,
                length    |-> Len(payload),
                packets   |-> 0])>> \o payload

\* The request can be echoed: it decodes, it is one, not isochronous, and the
\* answer encodes, with a payload if the request came with one.
Echoes(h, payload) ==
  /\ ~ServerRefuses(h)
  /\ Decodes(h, Len(payload))
  /\ h.command \in {"CMD_SUBMIT", "CMD_UNLINK"}
  /\ h.command = "CMD_SUBMIT" => h.packets = 0
  /\ Encodes(Head(EchoReply(h, payload)).header, Announces(h), payload)

Echo ==
  /\ Serving /\ ~ServerWants
  /\ Echoes(ServerHeader, Tail(sin))
  /\ sout' = EchoReply(ServerHeader, Tail(sin))
  /\ sin' = <<>>
  /\ UNCHANGED <<clientVars, server, pipes, history>>

ServerRefusesRequest ==
  /\ Serving /\ ~ServerWants
  /\ ~Echoes(ServerHeader, Tail(sin))
  /\ Die
  /\ UNCHANGED <<clientVars, pipes, history>>

ServerWrite ==
  /\ sout # <<>>
  /\ Len(down) < Room
  /\ down' = Append(down, Head(sout))
  /\ sout' = Tail(sout)
  /\ UNCHANGED <<clientVars, server, sin, up, history>>

\* write_all finds that the client has dropped its stream.
ServerWriteFails ==
  /\ sout # <<>>
  /\ call = "dropped"
  /\ Die
  /\ UNCHANGED <<clientVars, pipes, history>>

\* Between two requests the server writes a frame of its own.
Stray(f) ==
  /\ Serving /\ sin = <<>>
  /\ ~strayed
  /\ sout' = f
  /\ strayed' = TRUE
  /\ UNCHANGED <<clientVars, server, sin, pipes, sent, received>>

\* The server program ends, or the connection is lost.
ServerCrash ==
  /\ server = "serving"
  /\ Die
  /\ UNCHANGED <<clientVars, pipes, history>>

-----------------------------------------------------------------------------
Running ==
  \/ WriteCell \/ SendReturns \/ WriteFails
  \/ ReadCell \/ RecvReturns \/ RecvMalformed \/ RecvEof

Collect == RecvHeader \/ RecvHeaderOrClose

ClientStep ==
  \/ \E c \in Calls : SendHeader(c) \/ SendRefused(c)
  \/ Running
  \/ Collect
  \/ Close

EchoStep ==
  \/ ServerRead \/ ServerEof \/ Echo \/ ServerRefusesRequest
  \/ ServerWrite \/ ServerWriteFails

Next ==
  \/ ClientStep
  \/ EchoStep
  \/ \E f \in Strays : Stray(f)
  \/ ServerCrash

\* A call that can go on goes on, on both sides, and the caller collects what
\* it has asked for.
Fairness ==
  /\ WF_vars(Running)
  /\ WF_vars(EchoStep)
  /\ WF_vars(Len(received) < Len(sent) /\ Collect)

Spec == Init /\ [][Next]_vars
FairSpec == Spec /\ Fairness

-----------------------------------------------------------------------------
(* Safety *)

RequestRecords == [number : Nat, header : Headers, payload : Seq(Cells), fits : BOOLEAN]

TypeOK ==
  /\ call \in {"idle", "sending", "receiving", "receivingOrClose", "dropped"}
  /\ closed \in BOOLEAN
  /\ nextSeq \in 0 .. SeqSpace - 1
  /\ calls \in 0 .. MaxCalls
  /\ server \in {"serving", "gone"}
  /\ out \in Seq(Cells) /\ in \in Seq(Cells)
  /\ sout \in Seq(Cells) /\ sin \in Seq(Cells)
  /\ up \in Seq(Cells) /\ Len(up) <= Room
  /\ down \in Seq(Cells) /\ Len(down) <= Room
  /\ sent \in Seq(RequestRecords)
  /\ received \in Seq([header : Headers, payload : Seq(Cells)])
  /\ strayed \in BOOLEAN

\* The answers come in the order of the requests, each with the sequence
\* number and the payload of its request, as long as the payloads had the
\* announced lengths: a request that does not fit spoils no answer before it.
EchoInOrder ==
  ~strayed =>
    \A k \in DOMAIN received :
      (\A j \in DOMAIN sent : j <= k => sent[j].fits) =>
        /\ k \in DOMAIN sent
        /\ received[k].header.seq = sent[k].header.seq
        /\ received[k].payload = sent[k].payload
        /\ <<sent[k].header.command, received[k].header.command>> \in
             {<<"CMD_SUBMIT", "RET_SUBMIT">>, <<"CMD_UNLINK", "RET_UNLINK">>}

\* Two requests share a sequence number only when the numbers have gone all
\* the way round between them, calls that failed to encode included.
SeqnumsDistinct ==
  \A j, k \in DOMAIN sent :
    j < k /\ sent[j].header.seq = sent[k].header.seq =>
      sent[k].number - sent[j].number >= SeqSpace

\* Whatever the caller sends, and however the server comes to frame it, the
\* client finds a header it accepts wherever it expects one.
RepliesStayFramed ==
  ~strayed /\ in # <<>> =>
    /\ ClientHeader.command \in {"RET_SUBMIT", "RET_UNLINK"}
    /\ ~ClientRefuses(ClientHeader)

\* Nobody holds more than one header and MaxPayload cells, whatever length the
\* other side announces.
BuffersBounded ==
  /\ Len(in) <= 1 + MaxPayload
  /\ Len(sin) <= 1 + MaxPayload

-----------------------------------------------------------------------------
(* Progress *)

Over == call = "dropped" \/ server = "gone" \/ closed \/ strayed

\* A request waits for its answer, and nothing has ended or broken the session.
Owed ==
  /\ ~Over
  /\ \A j \in DOMAIN sent : sent[j].fits
  /\ Len(received) < Len(sent)

\* The guards of Running and Collect, and of EchoStep: the side has something
\* to do that waits for nobody.
ClientReady ==
  \/ call = "idle" /\ ~closed
  \/ call = "sending" /\ (out = <<>> \/ Len(up) < Room)
  \/ Receiving /\ (ClientWants => down # <<>>)

ServerReady ==
  \/ sout # <<>> /\ Len(down) < Room
  \/ Serving /\ (ServerWants => up # <<>>)

\* A side that has something to do can do it: write_all waits for one cell of
\* room and not for more, read_exact for one cell, and nothing else is awaited;
\* once the client is gone a server has no reason left to wait.
NothingElseAwaited ==
  /\ call # "idle" /\ ClientReady => ENABLED <<Running>>_vars
  /\ call = "idle" /\ Owed => ENABLED <<Len(received) < Len(sent) /\ Collect>>_vars
  /\ ServerReady => ENABLED <<EchoStep>>_vars
  /\ server = "serving" /\ call = "dropped" => ENABLED <<EchoStep>>_vars

\* As long as a request waits for its answer, client and server never wait for
\* each other: neither do both write into full pipes, nor both read from empty
\* ones with half a frame between them.
NeverStuck == Owed => ClientReady \/ ServerReady

\* The moves that are left for the answers on their way: a cell is moved into
\* a pipe, out of it and into a frame of the other side, and a call returns.
Phase == [sending |-> 2, idle |-> 1, receiving |-> 0, receivingOrClose |-> 0, dropped |-> 0]
Left == 5 * Len(out) + 4 * Len(up) + 3 * Len(sin) + 2 * Len(sout) + Len(down) + Phase[call]

\* While a request waits for its answer, each step that is not a new call of
\* send_header answers one, or leaves fewer moves to do: no move is ever
\* repeated, so that the answers cannot be put off for ever.
EachStepCounts ==
  [][Owed /\ calls' = calls => Over' \/ Len(received') > Len(received) \/ Left' < Left]_vars

\* Every request is answered, unless the session ends or a request did not
\* fit: within its window the caller never fills both pipes.
Answered ==
  \A k \in 1 .. MaxCalls :
    (Len(sent) >= k) ~> (Len(received) >= k \/ Over \/ \E j \in DOMAIN sent : ~sent[j].fits)

\* A server always notices that its client is gone.
ServerLetsGo == (call = "dropped") ~> (server = "gone")

-----------------------------------------------------------------------------
(* What client and server promise together *)

\* The requests before the first whose payload does not fit.
FitLength ==
  CHOOSE n \in 0 .. Len(sent) :
    /\ \A j \in 1 .. n : sent[j].fits
    /\ n < Len(sent) => ~sent[n + 1].fits

Content(r) == [seq |-> r.header.seq, payload |-> r.payload]

Service == INSTANCE EchoService WITH
  Contents <- [seq : 0 .. SeqSpace - 1, payload : Seq(Cells)],
  asked <- [k \in 1 .. FitLength |-> Content(sent[k])],
  answered <- [k \in 1 .. IF Len(received) < FitLength THEN Len(received) ELSE FitLength |->
                 Content(received[k])],
  over <- (Over \/ FitLength < Len(sent))

\* As long as the server writes nothing of its own, the session is a queue of
\* requests: answers come in order, one for each, and none is taken back or
\* left out.
ImplementsEchoService == Service!FairSpec

-----------------------------------------------------------------------------
(* What a test says of the session, and the code does not do *)

\* malformed_urb_closes_connection: once recv_header_or_close has failed, a
\* read of the stream fails or returns nothing,
\* "assert!(read_result.is_err() || read_result.unwrap_or(0) == 0);"
\* (session.rs:396).
MalformedEndsStream == closed => down = <<>>
=============================================================================
