------------------------------ MODULE UrbCodec ------------------------------
(***************************************************************************)
(* The framing of URBs (protocol/codec.rs, and the length rules that       *)
(* session.rs and server.rs repeat).                                       *)
(*                                                                         *)
(* A frame is a header of 48 bytes and the payload the header announces.   *)
(* Here a header is one cell of the stream and a payload is cut into cells *)
(* as well, so that lengths count cells and frames keep their boundaries   *)
(* even when an announced length is wrong.                                 *)
(***************************************************************************)
EXTENDS Integers, Sequences

CONSTANTS MaxPayload,   \* MAX_PAYLOAD_SIZE
          SeqSpace      \* number of sequence numbers: 2^32

ASSUME MaxPayloadAssumption == MaxPayload \in Nat
ASSUME SeqSpaceAssumption == SeqSpace \in Nat \ {0}

KnownCommands == {"CMD_SUBMIT", "RET_SUBMIT", "CMD_UNLINK", "RET_UNLINK"}
Directions == {"OUT", "IN"}

\* `length` is transfer_buffer_length or actual_length, `packets` is
\* number_of_packets: the words at the same offsets of an UNLINK are padding.
Headers == [command : KnownCommands \cup {"unknown"}, direction : Directions \cup {"invalid"},
            seq : 0 .. SeqSpace - 1, length : Int, packets : Int]

\* The cells of a stream: a header, or one unit of the payload of a call.
HeaderCell(h) == [header |-> h]
DataCell(call, unit) == [call |-> call, unit |-> unit]
Cells == [header : Headers] \cup [call : Nat, unit : Nat]
IsHeaderCell(cell) == DOMAIN cell = {"header"}

\* Payload bytes where a header is expected: they are not the image of one.
Garbage == [command |-> "unknown", direction |-> "invalid", seq |-> 0, length |-> 0, packets |-> 0]
ReadAsHeader(cell) == IF IsHeaderCell(cell) THEN cell.header ELSE Garbage

-----------------------------------------------------------------------------
(* encode_header *)

\* The header announces a payload that follows it.
Announces(h) ==
  /\ h.length > 0
  /\ h.command = "RET_SUBMIT" \/ (h.command = "CMD_SUBMIT" /\ h.direction = "OUT")

\* encode_header returns Ok; `given` is Some(payload).  The payload is not
\* compared with the announced length.
Encodes(h, given, payload) ==
  /\ h.direction \in Directions
  /\ h.command \in KnownCommands
  /\ h.command \in {"CMD_SUBMIT", "RET_SUBMIT"} => h.packets = 0
  /\ Announces(h) => given /\ Len(payload) <= MaxPayload

\* A plausible bug: a payload is appended whenever one is given.
FrameAlwaysWithPayload(h, payload) == <<HeaderCell(h)>> \o payload

\* The bytes it returns: a payload nobody announced is left out.
Frame(h, payload) == <<HeaderCell(h)>> \o (IF Announces(h) THEN payload ELSE <<>>)

-----------------------------------------------------------------------------
(* decode_header, and the reading that leads to it *)

\* A plausible bug: the client leaves out the payload of an answer, as the server may.
ClientLengthOfSubmits(h) == IF h.command = "CMD_SUBMIT" /\ Announces(h) THEN h.length ELSE 0

\* The payload length a reader waits for: the client also reads the payload of
\* a RET_SUBMIT, the echo server only that of a CMD_SUBMIT.
ClientLength(h) == IF Announces(h) THEN h.length ELSE 0
ServerLength(h) == IF h.command = "CMD_SUBMIT" THEN ClientLength(h) ELSE 0

\* The error a reader returns before it reads any payload.
\* A plausible bug: the announced length is not limited.
ClientRefusesOnlyIso(h) == h.packets # 0

ClientRefuses(h) == h.packets # 0 \/ ClientLength(h) > MaxPayload
ServerRefuses(h) == ServerLength(h) > MaxPayload

\* decode_header returns Ok for a header with `n` payload cells behind it.
Decodes(h, n) ==
  /\ h.direction \in Directions
  /\ h.command \in KnownCommands
  /\ ClientLength(h) <= n
  /\ ClientLength(h) <= MaxPayload
=============================================================================
