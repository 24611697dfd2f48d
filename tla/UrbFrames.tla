------------------------------ MODULE UrbFrames ------------------------------
(***************************************************************************)
(* URB headers and payloads as bytes: protocol/codec.rs over the structs   *)
(* of protocol/wire.rs, and the bytes session.rs and server.rs look at     *)
(* before they call the decoder.                                           *)
(*                                                                         *)
(* The union of a header is the record of the variant its command selects. *)
(* The eight setup bytes are taken four at a time, as setup0 and setup4.   *)
(***************************************************************************)
EXTENDS WireBytes

CONSTANT MaxPayload   \* MAX_PAYLOAD_SIZE

ASSUME MaxPayloadAssumption == MaxPayload \in Nat

CMD_SUBMIT == 1
CMD_UNLINK == 2
RET_SUBMIT == 3
RET_UNLINK == 4
Commands == {CMD_SUBMIT, CMD_UNLINK, RET_SUBMIT, RET_UNLINK}

USBIP_DIR_OUT == 0
USBIP_DIR_IN == 1
Directions == {USBIP_DIR_OUT, USBIP_DIR_IN}

\* size_of of the basic header and of each variant of the union.
BASIC_HEADER_SIZE == 20
CMD_HEADER_SIZE == 28
PAYLOAD_OFFSET == BASIC_HEADER_SIZE + CMD_HEADER_SIZE

Paddings == <<"padding0", "padding1", "padding2", "padding3", "padding4", "padding5">>

-----------------------------------------------------------------------------
(* The order in which encode_* puts the fields of a struct, and decode_*   *)
(* reads them.                                                             *)

BasicPut  == <<"command", "seqnum", "devid", "direction", "ep">>
BasicRead == <<"command", "seqnum", "devid", "direction", "ep">>

CmdSubmitPut  == <<"transfer_flags", "transfer_buffer_length", "start_frame",
                   "number_of_packets", "interval", "setup0", "setup4">>
CmdSubmitRead == <<"transfer_flags", "transfer_buffer_length", "start_frame",
                   "number_of_packets", "interval", "setup0", "setup4">>

RetSubmitPut  == <<"status", "actual_length", "start_frame",
                   "number_of_packets", "error_count", "setup0", "setup4">>
\* A plausible bug: two fields of one type in the wrong order.
RetSubmitReadSwapped == <<"actual_length", "status", "start_frame",
                          "number_of_packets", "error_count", "setup0", "setup4">>
RetSubmitRead == <<"status", "actual_length", "start_frame",
                   "number_of_packets", "error_count", "setup0", "setup4">>

CmdUnlinkPut  == <<"seqnum">> \o Paddings
CmdUnlinkRead == <<"seqnum">> \o Paddings
RetUnlinkPut  == <<"status">> \o Paddings
\* A plausible bug: copied from decode_cmd_unlink and not changed.
RetUnlinkReadCopied == <<"seqnum">> \o Paddings
RetUnlinkRead == <<"status">> \o Paddings

\* Indexed by command: the variant each command selects.
VariantPut  == <<CmdSubmitPut, CmdUnlinkPut, RetSubmitPut, RetUnlinkPut>>
VariantRead == <<CmdSubmitRead, CmdUnlinkRead, RetSubmitRead, RetUnlinkRead>>

IsHeader(h) ==
  /\ h = [base |-> h.base, u |-> h.u]
  /\ h.base \in [FieldsOf(BasicPut) -> Word]
  /\ h.base.command \in Commands => h.u \in [FieldsOf(VariantPut[h.base.command]) -> Int]
  /\ \A f \in DOMAIN h.u : h.u[f] \in FieldValues(f)

-----------------------------------------------------------------------------
(* encode_header *)

\* The payload length a header announces.
Announced(h) ==
  IF h.base.command = CMD_SUBMIT /\ h.base.direction = USBIP_DIR_OUT
    THEN h.u.transfer_buffer_length
    ELSE IF h.base.command = RET_SUBMIT THEN h.u.actual_length ELSE 0

Encodes(h, given, payload) ==
  /\ h.base.direction \in Directions
  /\ h.base.command \in Commands
  /\ h.base.command \in {CMD_SUBMIT, RET_SUBMIT} => h.u.number_of_packets = 0
  /\ Announced(h) > 0 => given /\ Len(payload) <= MaxPayload

\* A plausible bug: a payload is written whoever the header is for.
EncodedAlwaysWithPayload(h, payload) ==
  PutStruct(BasicPut, h.base) \o PutStruct(VariantPut[h.base.command], h.u) \o payload

Encoded(h, payload) ==
  PutStruct(BasicPut, h.base) \o PutStruct(VariantPut[h.base.command], h.u)
    \o (IF Announced(h) > 0 THEN payload ELSE <<>>)

-----------------------------------------------------------------------------
(* decode_header *)

DecodedHeader(buf) ==
  LET base == GetStruct(BasicRead, buf, 0)
  IN  [base |-> base, u |-> GetStruct(VariantRead[base.command], buf, BASIC_HEADER_SIZE)]

DecodedPayload(buf) ==
  SubSeq(buf, PAYLOAD_OFFSET + 1, PAYLOAD_OFFSET + Announced(DecodedHeader(buf)))

Decodes(buf) ==
  /\ Len(buf) >= PAYLOAD_OFFSET
  /\ GetStruct(BasicRead, buf, 0).direction \in Directions
  /\ GetStruct(BasicRead, buf, 0).command \in Commands
  /\ LET n == Announced(DecodedHeader(buf))
     IN  Len(buf) >= PAYLOAD_OFFSET + n /\ n <= MaxPayload

-----------------------------------------------------------------------------
(* What the two readers look at in the 48 bytes of a header *)

DIRECTION_OFFSET == 12
\* A plausible bug: the union starts with its length.
TFL_OFFSET_0 == BASIC_HEADER_SIZE
TFL_OFFSET == BASIC_HEADER_SIZE + 4
NUM_PACKETS_OFFSET == BASIC_HEADER_SIZE + 12

Positive(n) == IF n > 0 THEN n ELSE 0

\* A plausible bug: only a CMD_SUBMIT is taken to have a payload, as in the server.
SessionLengthOfSubmits(buf) ==
  IF GetU32(buf, 0) = CMD_SUBMIT /\ GetU32(buf, DIRECTION_OFFSET) = USBIP_DIR_OUT
    THEN Positive(GetI32(buf, TFL_OFFSET))
    ELSE 0

\* recv_header_inner
SessionLength(buf) ==
  LET command == GetU32(buf, 0)
  IN  IF \/ command = RET_SUBMIT
         \/ command = CMD_SUBMIT /\ GetU32(buf, DIRECTION_OFFSET) = USBIP_DIR_OUT
        THEN Positive(GetI32(buf, TFL_OFFSET))
        ELSE 0

SessionRefuses(buf) ==
  GetI32(buf, NUM_PACKETS_OFFSET) # 0 \/ SessionLength(buf) > MaxPayload

\* serve_urb_echo
EchoLength(buf) ==
  IF GetU32(buf, 0) = CMD_SUBMIT /\ GetU32(buf, DIRECTION_OFFSET) = USBIP_DIR_OUT
    THEN Positive(GetI32(buf, TFL_OFFSET))
    ELSE 0

EchoRefuses(buf) == EchoLength(buf) > MaxPayload

-----------------------------------------------------------------------------
(* What serve_urb_echo answers *)

\* A plausible bug: the answer to an unlink is filled in anew, without its number.
EchoReplyUnnumbered(h, n) ==
  IF h.base.command = CMD_SUBMIT
    THEN [base |-> [h.base EXCEPT !.command = RET_SUBMIT, !.direction = USBIP_DIR_IN],
          u |-> [status |-> 0, actual_length |-> n, start_frame |-> 0,
                 number_of_packets |-> 0, error_count |-> 0,
                 setup0 |-> h.u.setup0, setup4 |-> h.u.setup4]]
    ELSE [base |-> [h.base EXCEPT !.command = RET_UNLINK, !.seqnum = 0],
          u |-> [f \in FieldsOf(RetUnlinkPut) |-> 0]]

\* The answer to a header with `n` payload bytes, which go back with it.
EchoReply(h, n) ==
  IF h.base.command = CMD_SUBMIT
    THEN [base |-> [h.base EXCEPT !.command = RET_SUBMIT, !.direction = USBIP_DIR_IN],
          u |-> [status |-> 0, actual_length |-> n, start_frame |-> 0,
                 number_of_packets |-> 0, error_count |-> 0,
                 setup0 |-> h.u.setup0, setup4 |-> h.u.setup4]]
    ELSE [base |-> [h.base EXCEPT !.command = RET_UNLINK],
          u |-> [f \in FieldsOf(RetUnlinkPut) |-> 0]]

\* The bytes of a request that is answered: they decode to one, and the answer
\* encodes, with a payload if the request came with one.
Echoes(buf) ==
  /\ Decodes(buf)
  /\ LET h == DecodedHeader(buf)
         payload == DecodedPayload(buf)
     IN  /\ h.base.command \in {CMD_SUBMIT, CMD_UNLINK}
         /\ h.base.command = CMD_SUBMIT => h.u.number_of_packets = 0
         /\ Encodes(EchoReply(h, Len(payload)), Announced(h) > 0, payload)
=============================================================================
