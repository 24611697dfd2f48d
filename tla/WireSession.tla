----------------------------- MODULE WireSession -----------------------------
(***************************************************************************)
(* A session on the bytes of its connection, from the import to the URBs:  *)
(* TcpSession::connect, send_header and recv_header_or_close               *)
(* (protocol/session.rs) against accept_device, send_op_rep_import and     *)
(* serve_urb_echo (protocol/server.rs).                                    *)
(*                                                                         *)
(* Every call is one step, taken when the bytes it reads have arrived.     *)
(* Retries and crashes are the matter of ImportHandshake, pipes that fill  *)
(* up and calls that overlap that of UrbSession.  In return nothing is     *)
(* assumed here of where a frame begins: what a reader finds in the stream *)
(* is a header if its bytes say so.                                        *)
(***************************************************************************)
EXTENDS UrbFrames, ImportMessages

CONSTANTS Names,      \* arguments of TcpSession::connect
          Replies,    \* what a server may answer an import with
          Requests,   \* arguments of send_header
          Strays,     \* bytes a server that is not serve_urb_echo may end with
          MaxCalls    \* bound: calls of send_header

\* The arguments of send_header: payload is None unless `given`.
RequestRecords == [header : {r.header : r \in Requests}, given : BOOLEAN, payload : Seq(Byte)]

ASSUME NamesAssumption == \A s \in Names : s \in Seq(Byte) /\ IsUtf8(s)
ASSUME RepliesAssumption == Replies \subseteq OpRepImports
ASSUME RequestsAssumption ==
  /\ Requests \subseteq RequestRecords
  /\ \A r \in Requests : IsHeader(r.header)
  /\ MaxCalls \in Nat
ASSUME StraysAssumption == Strays \subseteq Seq(Byte)

VARIABLES
  client,     \* "new", "requested", "imported", "open", "failed" or "closed"
  name,       \* the argument busid
  nextSeq,    \* TcpSession.next_seqnum
  calls,      \* calls of send_header
  server,     \* "accepting", "asked", "serving", "gone" or "strayed"
  up, down,   \* the bytes under way, client to server and back
  asked,      \* history: the OP_REQ_IMPORT the server decoded
  answer,     \* history: the OP_REP_IMPORT it answered
  reply,      \* the OP_REP_IMPORT the handshake returned: TcpSession._reply
  sent,       \* history: the headers and payloads send_header returned Ok for
  received    \* history: what recv_header_or_close returned Ok with

importVars == <<name, asked, answer, reply>>
urbVars == <<nextSeq, calls, sent, received>>
vars == <<client, server, up, down, importVars, urbVars>>

None == [none |-> TRUE]

Init ==
  /\ client = "new" /\ server = "accepting"
  /\ name \in Names
  /\ up = <<>> /\ down = <<>>
  /\ asked = None /\ answer = None /\ reply = None
  /\ nextSeq = 0 /\ calls = 0
  /\ sent = <<>> /\ received = <<>>

Take(stream, n) == SubSeq(stream, 1, n)
Drop(stream, n) == SubSeq(stream, n + 1, Len(stream))

-----------------------------------------------------------------------------
(* The import *)

RefuseEmptyBusid ==
  /\ client = "new" /\ name = <<>>
  /\ client' = "failed"
  /\ UNCHANGED <<server, up, down, importVars, urbVars>>

SendImport ==
  /\ client = "new" /\ name # <<>>
  /\ client' = "requested"
  /\ up' = up \o EncodeOpReqImport(ImportRequest(name))
  /\ UNCHANGED <<server, down, importVars, urbVars>>

AcceptDevice ==
  /\ server = "accepting"
  /\ Len(up) >= SizeOfOpReqImport
  /\ LET req == DecodeOpReqImport(Take(up, SizeOfOpReqImport))
     IN  /\ asked' = req
         /\ server' = IF NamesDevice(req) THEN "asked" ELSE "gone"
  /\ up' = Drop(up, SizeOfOpReqImport)
  /\ UNCHANGED <<client, down, name, answer, reply, urbVars>>

\* The program around the library decides what to answer.
SendOpRepImport(rep) ==
  /\ server = "asked"
  /\ server' = "serving"
  /\ answer' = rep
  /\ down' = down \o EncodeOpRepImport(rep)
  /\ UNCHANGED <<client, up, name, asked, reply, urbVars>>

ReceiveReply ==
  /\ client = "requested"
  /\ Len(down) >= SizeOfOpRepImport
  /\ LET rep == DecodeOpRepImport(Take(down, SizeOfOpRepImport))
     IN  /\ client' = IF Accepts(rep) THEN "imported" ELSE "failed"
         /\ reply' = IF Accepts(rep) THEN rep ELSE None
  /\ down' = Drop(down, SizeOfOpRepImport)
  /\ UNCHANGED <<server, up, name, asked, answer, urbVars>>

ImportEof ==
  /\ client = "requested"
  /\ server = "gone" /\ Len(down) < SizeOfOpRepImport
  /\ client' = "failed"
  /\ UNCHANGED <<server, up, down, importVars, urbVars>>

\* connect returns a session.
Connected ==
  /\ client = "imported"
  /\ client' = "open"
  /\ UNCHANGED <<server, up, down, importVars, urbVars>>

\* set_tcp_keepalive fails: the stream of an accepted import is dropped.
KeepaliveFails ==
  /\ client = "imported"
  /\ client' = "failed"
  /\ UNCHANGED <<server, up, down, importVars, urbVars>>

-----------------------------------------------------------------------------
(* URBs *)

Numbered(h) == [h EXCEPT !.base.seqnum = nextSeq]

MaySend ==
  /\ client = "open"
  /\ calls < MaxCalls
  /\ calls' = calls + 1
  /\ nextSeq' = (nextSeq + 1) % WordSpace

SendHeader(r) ==
  /\ MaySend
  /\ Encodes(Numbered(r.header), r.given, r.payload)
  /\ up' = up \o Encoded(Numbered(r.header), r.payload)
  /\ sent' = Append(sent, [header |-> Numbered(r.header), payload |-> r.payload])
  /\ UNCHANGED <<client, server, down, importVars, received>>

SendRefused(r) ==
  /\ MaySend
  /\ ~Encodes(Numbered(r.header), r.given, r.payload)
  /\ UNCHANGED <<client, server, up, down, importVars, sent, received>>

\* serve_urb_echo, called in a loop until it fails.
HasHeader(stream) == Len(stream) >= PAYLOAD_OFFSET
EchoTakes == PAYLOAD_OFFSET + EchoLength(up)

Serve ==
  /\ server = "serving"
  /\ HasHeader(up) /\ ~EchoRefuses(up)
  /\ Len(up) >= EchoTakes
  /\ Echoes(Take(up, EchoTakes))
  /\ LET h == DecodedHeader(up)
         payload == DecodedPayload(Take(up, EchoTakes))
     IN  down' = down \o Encoded(EchoReply(h, Len(payload)), payload)
  /\ up' = Drop(up, EchoTakes)
  /\ UNCHANGED <<client, server, importVars, urbVars>>

ServeFails ==
  /\ server = "serving"
  /\ HasHeader(up)
  /\ \/ EchoRefuses(up)
     \/ Len(up) >= EchoTakes /\ ~Echoes(Take(up, EchoTakes))
  /\ server' = "gone"
  /\ UNCHANGED <<client, up, down, importVars, urbVars>>

\* Another server: it answers with bytes of its own and closes.
Stray(f) ==
  /\ server = "serving"
  /\ server' = "strayed"
  /\ down' = down \o f
  /\ UNCHANGED <<client, up, importVars, urbVars>>

\* recv_header_or_close
SessionTakes == PAYLOAD_OFFSET + SessionLength(down)

RecvHeader ==
  /\ client = "open"
  /\ HasHeader(down) /\ ~SessionRefuses(down)
  /\ Len(down) >= SessionTakes
  /\ Decodes(Take(down, SessionTakes))
  /\ received' = Append(received, [header |-> DecodedHeader(down),
                                   payload |-> DecodedPayload(Take(down, SessionTakes))])
  /\ down' = Drop(down, SessionTakes)
  /\ UNCHANGED <<client, server, up, importVars, nextSeq, calls, sent>>

RecvFails ==
  /\ client = "open"
  /\ \/ HasHeader(down) /\ SessionRefuses(down)
     \/ HasHeader(down) /\ Len(down) >= SessionTakes /\ ~Decodes(Take(down, SessionTakes))
     \/ server \in {"gone", "strayed"} /\ (HasHeader(down) => Len(down) < SessionTakes)
  /\ client' = "closed"
  /\ UNCHANGED <<server, up, down, importVars, urbVars>>

-----------------------------------------------------------------------------
Import ==
  \/ RefuseEmptyBusid \/ SendImport \/ AcceptDevice
  \/ \E rep \in Replies : SendOpRepImport(rep)
  \/ ReceiveReply \/ ImportEof
  \/ Connected \/ KeepaliveFails

Next ==
  \/ Import
  \/ \E r \in Requests : SendHeader(r) \/ SendRefused(r)
  \/ Serve \/ ServeFails
  \/ \E f \in Strays : Stray(f)
  \/ RecvHeader \/ RecvFails

Spec == Init /\ [][Next]_vars

-----------------------------------------------------------------------------
(* Properties *)

TypeOK ==
  /\ client \in {"new", "requested", "imported", "open", "failed", "closed"}
  /\ server \in {"accepting", "asked", "serving", "gone", "strayed"}
  /\ nextSeq \in Word /\ calls \in 0 .. MaxCalls
  /\ up \in Seq(Byte) /\ down \in Seq(Byte)
  /\ \A k \in DOMAIN received : IsHeader(received[k].header) /\ received[k].payload \in Seq(Byte)

\* What reply() of the session is converted to.
Device == UsbDevice(Descriptor(reply))

\* The fields of a device are those the server sent, whatever stands between
\* the two structs, and a speed nobody knows is taken for high speed.
DeviceIntact ==
  reply # None =>
    /\ <<Device.vid, Device.pid, Device.busnum, Device.devnum>> =
         <<answer.id_vendor, answer.id_product, answer.busnum, answer.devnum>>
    /\ <<Device.b_device_class, Device.b_device_sub_class, Device.b_device_protocol>> =
         <<answer.b_device_class, answer.b_device_sub_class, answer.b_device_protocol>>
    /\ Device.speed = answer.speed \/ (answer.speed \notin UsbDeviceSpeeds /\ Device.speed = HighSpeed)

\* A device whose busid a server would accept can be imported again by the name
\* it was given: import_device does not refuse the name and its request holds the
\* busid field of the reply.  A field of zeros, which a server refuses, gives the
\* empty name, which import_device refuses as well.
NameLeadsBack ==
  reply # None /\ IsUtf8(answer.busid) =>
    IF NamesDevice(answer)
      THEN Device.busid # <<>> /\ ImportRequest(Device.busid).busid = answer.busid
      ELSE Device.busid = <<>>

\* The payload of a request has the length its header announces.
Fits(r) == Announced(r.header) > 0 => Len(r.payload) = Announced(r.header)

\* An answer carries the number, device, endpoint and setup bytes of its
\* request and gives its payload back, as long as the payloads before it fit.
AnswersCarryRequests ==
  server # "strayed" => \A k \in DOMAIN received :
    (\A j \in DOMAIN sent : j <= k => Fits(sent[j])) =>
      /\ k \in DOMAIN sent
      /\ LET h == sent[k].header
             rep == received[k]
         IN  /\ <<rep.header.base.seqnum, rep.header.base.devid, rep.header.base.ep>> =
                  <<h.base.seqnum, h.base.devid, h.base.ep>>
             /\ h.base.command = CMD_SUBMIT =>
                  /\ rep.header.base.command = RET_SUBMIT
                  /\ <<rep.header.u.setup0, rep.header.u.setup4>> = <<h.u.setup0, h.u.setup4>>
                  /\ rep.payload = IF Announced(h) > 0 THEN sent[k].payload ELSE <<>>
                  /\ rep.header.u.actual_length = Len(rep.payload)
             /\ h.base.command = CMD_UNLINK => rep.header.base.command = RET_UNLINK

\* Whatever the client sends, and wherever the server takes a header to begin,
\* the client finds a whole frame it accepts behind every 48 bytes it reads.
StreamStaysFramed ==
  client = "open" /\ server # "strayed" /\ HasHeader(down) =>
    /\ ~SessionRefuses(down)
    /\ Len(down) >= SessionTakes
    /\ Decodes(Take(down, SessionTakes))

\* Once every request is answered no byte of the import or of a request is
\* left on the wire, where the next call would take it for a header.
NothingLeftOver ==
  /\ client = "open" /\ server # "strayed"
  /\ \A j \in DOMAIN sent : Fits(sent[j])
  /\ Len(received) = Len(sent)
  => up = <<>> /\ down = <<>>

-----------------------------------------------------------------------------
(* UrbSession takes a header for one cell of the stream and lengths for    *)
(* numbers of cells: the bytes bear it out.                                *)

Cells == INSTANCE UrbCodec WITH SeqSpace <- WordSpace

CommandNames == <<"CMD_SUBMIT", "CMD_UNLINK", "RET_SUBMIT", "RET_UNLINK">>
DirectionNames == <<"OUT", "IN">>

\* The header of UrbCodec that 48 bytes stand for.
AsCell(buf) ==
  LET base == GetStruct(BasicRead, buf, 0)
      known == base.command \in Commands
      layout == IF known THEN VariantRead[base.command] ELSE CmdUnlinkRead
      u == GetStruct(layout, buf, BASIC_HEADER_SIZE)
  IN  [command |-> IF known THEN CommandNames[base.command] ELSE "unknown",
       direction |-> IF base.direction \in Directions THEN DirectionNames[base.direction + 1]
                                                      ELSE "invalid",
       seq |-> base.seqnum,
       length |-> CASE base.command = CMD_SUBMIT -> u.transfer_buffer_length
                    [] base.command = RET_SUBMIT -> u.actual_length
                    [] OTHER -> AsSigned(u.padding0),
       packets |-> IF base.command \in {CMD_SUBMIT, RET_SUBMIT} THEN u.number_of_packets
                                                                ELSE AsSigned(u.padding2)]

\* A reader that looks at the bytes at its offsets decides as UrbCodec does on
\* the decoded header, and the decoder decides alike.
AgreesWithCells(stream) ==
  HasHeader(stream) =>
    LET h == AsCell(stream)
    IN  /\ SessionLength(stream) = Cells!ClientLength(h)
        /\ SessionRefuses(stream) <=> Cells!ClientRefuses(h)
        /\ EchoLength(stream) = Cells!ServerLength(h)
        /\ EchoRefuses(stream) <=> Cells!ServerRefuses(h)
        /\ Decodes(stream) <=> Cells!Decodes(h, Len(stream) - PAYLOAD_OFFSET)

StreamsAgreeWithCells == AgreesWithCells(up) /\ AgreesWithCells(down)

-----------------------------------------------------------------------------
(* What client and server promise together *)

Over == client \in {"failed", "closed"} \/ server \in {"gone", "strayed"}

\* The requests before the first whose payload does not fit.
FitLength ==
  CHOOSE n \in 0 .. Len(sent) :
    /\ \A j \in 1 .. n : Fits(sent[j])
    /\ n < Len(sent) => ~Fits(sent[n + 1])

Content(m) == [seq |-> m.header.base.seqnum,
               payload |-> IF Announced(m.header) > 0 THEN m.payload ELSE <<>>]

Service == INSTANCE EchoService WITH
  Contents <- [seq : Word, payload : Seq(Byte)],
  asked <- [k \in 1 .. FitLength |-> Content(sent[k])],
  answered <- [k \in 1 .. IF Len(received) < FitLength THEN Len(received) ELSE FitLength |->
                 Content(received[k])],
  over <- (Over \/ FitLength < Len(sent))

\* From the import to the end the connection is the queue of requests that
\* UrbSession is, until a server ends with bytes of its own.
ImplementsEchoService ==
  /\ Service!Init
  /\ [][server' # "strayed" => Service!Next]_(Service!vars)
=============================================================================
