------------------------- MODULE WireSessionProofs -------------------------
(***************************************************************************)
(* What WireSession promises holds for every radix, size of the fields,    *)
(* payload limit and set of names, replies and requests.                   *)
(***************************************************************************)
EXTENDS WireSession, UrbFramesProofs, Streams

-----------------------------------------------------------------------------
(* Reading *)

\* Every word of a stream of bytes is a word.
LEMMA WordOfStream ==
  ASSUME NEW buf \in Seq(Byte), NEW at \in Nat, at + 4 <= Len(buf)
  PROVE  GetU32(buf, at) \in Word
<1>1. /\ buf[at + 1] \in Byte /\ buf[at + 2] \in Byte
      /\ buf[at + 3] \in Byte /\ buf[at + 4] \in Byte
  <2>1. Len(buf) \in Nat
    OBVIOUS
  <2>2. /\ at + 1 \in 1 .. Len(buf) /\ at + 2 \in 1 .. Len(buf)
        /\ at + 3 \in 1 .. Len(buf) /\ at + 4 \in 1 .. Len(buf)
    BY <2>1
  <2> QED BY <2>2
<1>2. ASSUME NEW a \in Byte, NEW n \in Nat \ {0}, NEW x \in 0 .. n - 1
      PROVE  x * Radix + a \in 0 .. Radix * n - 1
  <2>1. Radix \in Nat /\ x \in Nat /\ a \in 0 .. Radix - 1
    BY Spaces DEF Byte
  <2>2. x * Radix >= 0 /\ x * Radix \in Nat
    BY <2>1
  <2>3. x * Radix <= (n - 1) * Radix
    BY <2>1
  <2>4. (n - 1) * Radix = Radix * n - Radix
    BY <2>1
  <2>5. Radix * n \in Nat
    BY <2>1
  <2> QED BY <2>1, <2>2, <2>3, <2>4, <2>5
<1> DEFINE x1 == buf[at + 1]
           x2 == x1 * Radix + buf[at + 2]
           x3 == x2 * Radix + buf[at + 3]
           x4 == x3 * Radix + buf[at + 4]
<1>3. x1 \in 0 .. Radix - 1 /\ x4 = GetU32(buf, at)
  BY <1>1 DEF Byte, GetU32
<1> HIDE DEF x1
<1>4. x2 \in 0 .. HalfSpace - 1
  BY <1>1, <1>2, <1>3, Spaces
<1> HIDE DEF x2
<1>5. x3 \in 0 .. Radix * HalfSpace - 1
  BY <1>1, <1>2, <1>4, Spaces
<1> HIDE DEF x3
<1>6. x4 \in 0 .. Radix * (Radix * HalfSpace) - 1
  BY <1>1, <1>2, <1>5, Spaces
<1> HIDE DEF x4
<1> QED BY <1>3, <1>6, Spaces DEF Word

LEMMA SignedOfWord ==
  ASSUME NEW w \in Word
  PROVE  AsSigned(w) \in SignedWord
<1>1. WordSpace \in Nat \ {0} /\ w \in 0 .. WordSpace - 1
  BY Spaces DEF Word
<1> DEFINE h == WordSpace \div 2
           g == (WordSpace - 1) \div 2
<1>2. h \in Nat /\ g \in Nat /\ h + g = WordSpace - 1
  BY <1>1
<1>3. SignedWord = -h .. g /\ AsSigned(w) = IF w > g THEN w - WordSpace ELSE w
  BY DEF SignedWord, AsSigned
<1> HIDE DEF h, g
<1> QED BY <1>1, <1>2, <1>3

LEMMA WordsAreInts == Word \subseteq Int /\ SignedWord \subseteq Int /\ 0 \in Word /\ 0 \in SignedWord
<1>1. WordSpace \in Nat \ {0}
  BY Spaces
<1> QED BY <1>1 DEF Word, SignedWord

\* What is read with a layout is a struct of it.
LEMMA StructOfStream ==
  ASSUME NEW layout, IsLayout(layout), NEW buf \in Seq(Byte), NEW at \in Nat,
         at + 4 * Len(layout) <= Len(buf)
  PROVE  GetStruct(layout, buf, at) \in Structs(layout)
<1> DEFINE get(f) == LET offset == at + 4 * (Place(layout, f) - 1)
                     IN  IF f \in SignedFields THEN GetI32(buf, offset) ELSE GetU32(buf, offset)
<1>1. ASSUME NEW f \in FieldsOf(layout) PROVE get(f) \in FieldValues(f)
  <2>1. PICK k \in 1 .. Len(layout) : k = Place(layout, f)
    BY PlaceOfField
  <2>2. Len(layout) \in Nat /\ Len(buf) \in Nat
    BY DEF IsLayout
  <2>3. at + 4 * (k - 1) \in Nat /\ at + 4 * (k - 1) + 4 <= Len(buf)
    BY <2>2
  <2>4. GetU32(buf, at + 4 * (k - 1)) \in Word
    BY <2>3, WordOfStream
  <2> QED BY <2>1, <2>4, SignedOfWord DEF GetI32, FieldValues
<1>2. GetStruct(layout, buf, at) = [f \in FieldsOf(layout) |-> get(f)]
  BY DEF GetStruct
<1> HIDE DEF get
<1>3. \A f \in FieldsOf(layout) : get(f) \in Int
  BY <1>1, WordsAreInts DEF FieldValues
<1> QED BY <1>1, <1>2, <1>3 DEF Structs

\* What is read from the beginning of a stream does not depend on the rest.
LEMMA StructOfPrefix ==
  ASSUME NEW layout, IsLayout(layout), NEW buf \in Seq(Byte), NEW at \in Nat,
         NEW n \in Nat, n <= Len(buf), at + 4 * Len(layout) <= n
  PROVE  GetStruct(layout, Take(buf, n), at) = GetStruct(layout, buf, at)
<1> DEFINE get(f, b) == LET offset == at + 4 * (Place(layout, f) - 1)
                        IN  IF f \in SignedFields THEN GetI32(b, offset) ELSE GetU32(b, offset)
           s == Take(buf, n)
<1>1. \A i \in 1 .. n : s[i] = buf[i]
  BY DEF Take
<1> HIDE DEF s
<1>2. ASSUME NEW f \in FieldsOf(layout) PROVE get(f, s) = get(f, buf)
  <2>1. PICK k \in 1 .. Len(layout) : k = Place(layout, f)
    BY PlaceOfField
  <2>2. Len(layout) \in Nat
    BY DEF IsLayout
  <2>3. PICK o \in Nat : o = at + 4 * (k - 1) /\ o + 4 <= n
    BY <2>2
  <2>4. o + 1 \in 1 .. n /\ o + 2 \in 1 .. n /\ o + 3 \in 1 .. n /\ o + 4 \in 1 .. n
    BY <2>3
  <2>5. GetU32(s, o) = GetU32(buf, o)
    BY <1>1, <2>4 DEF GetU32
  <2> QED BY <2>1, <2>3, <2>5 DEF GetI32
<1>3. GetStruct(layout, s, at) = [f \in FieldsOf(layout) |-> get(f, s)]
  BY DEF GetStruct
<1>4. GetStruct(layout, buf, at) = [f \in FieldsOf(layout) |-> get(f, buf)]
  BY DEF GetStruct
<1> HIDE DEF get
<1> QED BY <1>2, <1>3, <1>4 DEF s

LEMMA FieldOfStruct ==
  ASSUME NEW layout, IsLayout(layout), NEW buf, NEW at, NEW i \in 1 .. Len(layout)
  PROVE  GetStruct(layout, buf, at)[layout[i]] =
           IF layout[i] \in SignedFields THEN GetI32(buf, at + 4 * (i - 1))
                                         ELSE GetU32(buf, at + 4 * (i - 1))
BY PlaceIsIndex DEF GetStruct

-----------------------------------------------------------------------------
(* Headers as cells *)

\* The words a reader looks at are fields of the header.
LEMMA BaseFields ==
  ASSUME NEW buf
  PROVE  /\ GetStruct(BasicRead, buf, 0).command = GetU32(buf, 0)
         /\ GetStruct(BasicRead, buf, 0).direction = GetU32(buf, DIRECTION_OFFSET)
<1>1. /\ IsLayout(BasicPut) /\ BasicRead = BasicPut /\ 1 \in 1 .. Len(BasicPut) /\ 4 \in 1 .. Len(BasicPut)
      /\ BasicPut[1] = "command" /\ BasicPut[4] = "direction"
      /\ "command" \notin SignedFields /\ "direction" \notin SignedFields
  BY BasicLayout DEF SignedFields
<1>2. GetStruct(BasicPut, buf, 0)[BasicPut[1]] = GetU32(buf, 0 + 4 * (1 - 1))
  BY <1>1, FieldOfStruct
<1>3. GetStruct(BasicPut, buf, 0)[BasicPut[4]] = GetU32(buf, 0 + 4 * (4 - 1))
  BY <1>1, FieldOfStruct
<1>4. 0 + 4 * (1 - 1) = 0 /\ 0 + 4 * (4 - 1) = DIRECTION_OFFSET
  BY DEF DIRECTION_OFFSET
<1> QED BY <1>1, <1>2, <1>3, <1>4

LEMMA UnionFields ==
  ASSUME NEW layout, IsLayout(layout), Len(layout) = 7, NEW buf
  PROVE  LET u == GetStruct(layout, buf, BASIC_HEADER_SIZE)
         IN  /\ layout[2] \in SignedFields => u[layout[2]] = GetI32(buf, TFL_OFFSET)
             /\ layout[4] \in SignedFields => u[layout[4]] = GetI32(buf, NUM_PACKETS_OFFSET)
             /\ layout[2] \notin SignedFields => AsSigned(u[layout[2]]) = GetI32(buf, TFL_OFFSET)
             /\ layout[4] \notin SignedFields => AsSigned(u[layout[4]]) = GetI32(buf, NUM_PACKETS_OFFSET)
<1>1. PICK u : u = GetStruct(layout, buf, BASIC_HEADER_SIZE)
  OBVIOUS
<1>2. ASSUME NEW i \in 1 .. Len(layout), NEW at, at = BASIC_HEADER_SIZE + 4 * (i - 1)
      PROVE  u[layout[i]] = IF layout[i] \in SignedFields THEN GetI32(buf, at) ELSE GetU32(buf, at)
  <2>1. layout[i] \in FieldsOf(layout) /\ Place(layout, layout[i]) = i
    BY PlaceIsIndex
  <2> QED BY <1>1, <1>2, <2>1 DEF GetStruct
<1>3. 2 \in 1 .. Len(layout) /\ 4 \in 1 .. Len(layout)
  OBVIOUS
<1>4. /\ TFL_OFFSET = BASIC_HEADER_SIZE + 4 * (2 - 1)
      /\ NUM_PACKETS_OFFSET = BASIC_HEADER_SIZE + 4 * (4 - 1)
  BY DEF BASIC_HEADER_SIZE, TFL_OFFSET, NUM_PACKETS_OFFSET
<1>5. u[layout[2]] = IF layout[2] \in SignedFields THEN GetI32(buf, TFL_OFFSET)
                                                   ELSE GetU32(buf, TFL_OFFSET)
  BY <1>2, <1>3, <1>4
<1>6. u[layout[4]] = IF layout[4] \in SignedFields THEN GetI32(buf, NUM_PACKETS_OFFSET)
                                                   ELSE GetU32(buf, NUM_PACKETS_OFFSET)
  BY <1>2, <1>3, <1>4
<1> QED BY <1>1, <1>5, <1>6 DEF GetI32

\* Whatever the command: the cell has the two numbers at the fixed offsets.
LEMMA CellOfStream ==
  ASSUME NEW buf
  PROVE  LET command == GetU32(buf, 0)
             direction == GetU32(buf, DIRECTION_OFFSET)
             cell == AsCell(buf)
         IN  /\ cell.command = IF command \in Commands THEN CommandNames[command] ELSE "unknown"
             /\ cell.direction = IF direction \in Directions THEN DirectionNames[direction + 1]
                                                             ELSE "invalid"
             /\ cell.length = GetI32(buf, TFL_OFFSET)
             /\ cell.packets = GetI32(buf, NUM_PACKETS_OFFSET)
<1> DEFINE base == GetStruct(BasicRead, buf, 0)
           known == base.command \in Commands
           layout == IF known THEN VariantRead[base.command] ELSE CmdUnlinkRead
           u == GetStruct(layout, buf, BASIC_HEADER_SIZE)
           length == CASE base.command = CMD_SUBMIT -> u.transfer_buffer_length
                       [] base.command = RET_SUBMIT -> u.actual_length
                       [] OTHER -> AsSigned(u.padding0)
           packets == IF base.command \in {CMD_SUBMIT, RET_SUBMIT} THEN u.number_of_packets
                                                                   ELSE AsSigned(u.padding2)
<1>1. AsCell(buf) = [command |-> IF known THEN CommandNames[base.command] ELSE "unknown",
                     direction |-> IF base.direction \in Directions
                                     THEN DirectionNames[base.direction + 1] ELSE "invalid",
                     seq |-> base.seqnum, length |-> length, packets |-> packets]
  BY DEF AsCell
<1>2. base.command = GetU32(buf, 0) /\ base.direction = GetU32(buf, DIRECTION_OFFSET)
  BY BaseFields
<1>3. /\ \A f \in {"transfer_buffer_length", "actual_length", "number_of_packets"} : f \in SignedFields
      /\ "padding0" \notin SignedFields /\ "padding2" \notin SignedFields
  BY DEF SignedFields
<1>4. length = GetI32(buf, TFL_OFFSET) /\ packets = GetI32(buf, NUM_PACKETS_OFFSET)
  <2>1. CASE base.command = CMD_SUBMIT
    <3>1. layout = CmdSubmitPut /\ CMD_SUBMIT # RET_SUBMIT
      BY <2>1, SubmitLayout DEF Variant, VariantRead, Commands, CMD_SUBMIT, RET_SUBMIT
    <3>2. /\ IsLayout(layout) /\ Len(layout) = 7
          /\ layout[2] = "transfer_buffer_length" /\ layout[4] = "number_of_packets"
      BY <3>1, SubmitLayout DEF Variant
    <3> HIDE DEF layout, base
    <3>3. u.transfer_buffer_length = GetI32(buf, TFL_OFFSET) /\ u.number_of_packets = GetI32(buf, NUM_PACKETS_OFFSET)
      BY <1>3, <3>2, UnionFields
    <3> QED BY <2>1, <3>1, <3>3
  <2>2. CASE base.command = RET_SUBMIT
    <3>1. layout = RetSubmitPut /\ CMD_SUBMIT # RET_SUBMIT
      BY <2>2, RetSubmitLayout DEF Variant, VariantRead, Commands, CMD_SUBMIT, RET_SUBMIT
    <3>2. /\ IsLayout(layout) /\ Len(layout) = 7
          /\ layout[2] = "actual_length" /\ layout[4] = "number_of_packets"
      BY <3>1, RetSubmitLayout DEF Variant
    <3> HIDE DEF layout, base
    <3>3. u.actual_length = GetI32(buf, TFL_OFFSET) /\ u.number_of_packets = GetI32(buf, NUM_PACKETS_OFFSET)
      BY <1>3, <3>2, UnionFields
    <3> QED BY <2>2, <3>1, <3>3
  <2>3. CASE base.command \notin {CMD_SUBMIT, RET_SUBMIT}
    <3>1. layout \in {CmdUnlinkPut, RetUnlinkPut}
      <4>1. CmdUnlinkRead = CmdUnlinkPut /\ RetUnlinkRead = RetUnlinkPut
        BY UnlinkLayouts DEF Variant
      <4>2. VariantRead[CMD_UNLINK] = CmdUnlinkRead /\ VariantRead[RET_UNLINK] = RetUnlinkRead
        BY DEF VariantRead, CMD_UNLINK, RET_UNLINK
      <4> QED BY <2>3, <4>1, <4>2 DEF Commands
    <3>2. /\ IsLayout(layout) /\ Len(layout) = 7
          /\ layout[2] = "padding0" /\ layout[4] = "padding2"
      BY <3>1, UnlinkLayouts DEF Variant
    <3> HIDE DEF layout, base
    <3>3. /\ AsSigned(u.padding0) = GetI32(buf, TFL_OFFSET)
          /\ AsSigned(u.padding2) = GetI32(buf, NUM_PACKETS_OFFSET)
      BY <1>3, <3>2, UnionFields
    <3> QED BY <2>3, <3>3
  <2> QED BY <2>1, <2>2, <2>3
<1> HIDE DEF base, length, packets
<1> QED BY <1>1, <1>2, <1>4

\* The names of commands and directions tell them apart.
LEMMA CellNames ==
  /\ \A c \in Commands : /\ CommandNames[c] \in Cells!KnownCommands
                         /\ CommandNames[c] = "CMD_SUBMIT" <=> c = CMD_SUBMIT
                         /\ CommandNames[c] = "RET_SUBMIT" <=> c = RET_SUBMIT
  /\ \A d \in Directions : /\ DirectionNames[d + 1] \in Cells!Directions
                           /\ DirectionNames[d + 1] = "OUT" <=> d = USBIP_DIR_OUT
<1>1. /\ CommandNames[1] = "CMD_SUBMIT" /\ CommandNames[2] = "CMD_UNLINK"
      /\ CommandNames[3] = "RET_SUBMIT" /\ CommandNames[4] = "RET_UNLINK"
      /\ DirectionNames[1] = "OUT" /\ DirectionNames[2] = "IN"
  BY DEF CommandNames, DirectionNames
<1> QED
  BY <1>1
  DEF Commands, CMD_SUBMIT, CMD_UNLINK, RET_SUBMIT, RET_UNLINK, Directions, USBIP_DIR_OUT,
      USBIP_DIR_IN, Cells!KnownCommands, Cells!Directions

\* What the decoder takes for the length of the payload.
LEMMA DecodedLength ==
  ASSUME NEW buf, GetU32(buf, 0) \in Commands
  PROVE  Announced(DecodedHeader(buf)) =
           IF \/ GetU32(buf, 0) = RET_SUBMIT
              \/ GetU32(buf, 0) = CMD_SUBMIT /\ GetU32(buf, DIRECTION_OFFSET) = USBIP_DIR_OUT
             THEN GetI32(buf, TFL_OFFSET) ELSE 0
<1>1. PICK h : h = DecodedHeader(buf)
  OBVIOUS
<1>2. /\ h.base.command = GetU32(buf, 0) /\ h.base.direction = GetU32(buf, DIRECTION_OFFSET)
      /\ h.u = GetStruct(VariantRead[h.base.command], buf, BASIC_HEADER_SIZE)
  BY <1>1, BaseFields DEF DecodedHeader
<1>3. CMD_SUBMIT # RET_SUBMIT
  BY DEF CMD_SUBMIT, RET_SUBMIT
<1>4. ASSUME h.base.command = CMD_SUBMIT PROVE h.u.transfer_buffer_length = GetI32(buf, TFL_OFFSET)
  <2>1. VariantRead[CMD_SUBMIT] = CmdSubmitPut
    BY SubmitLayout DEF Variant, VariantRead, CMD_SUBMIT
  <2>2. CmdSubmitPut[2] \in SignedFields
    BY SubmitLayout DEF SignedFields
  <2> QED BY <1>2, <1>4, <2>1, <2>2, SubmitLayout, UnionFields DEF Variant
<1>5. ASSUME h.base.command = RET_SUBMIT PROVE h.u.actual_length = GetI32(buf, TFL_OFFSET)
  <2>1. VariantRead[RET_SUBMIT] = RetSubmitPut
    BY RetSubmitLayout DEF Variant, VariantRead, RET_SUBMIT
  <2>2. RetSubmitPut[2] \in SignedFields
    BY RetSubmitLayout DEF SignedFields
  <2> QED BY <1>2, <1>5, <2>1, <2>2, RetSubmitLayout, UnionFields DEF Variant
<1> QED BY <1>1, <1>2, <1>3, <1>4, <1>5 DEF Announced

\* For any bytes, sent by whom ever: the readers, which look at the words at
\* their offsets (session.rs:107, server.rs:73), and decode_header, which
\* looks at the fields, decide alike, and as UrbCodec does on a header that is
\* one cell.
THEOREM BytesAgreeWithCells ==
  ASSUME NEW stream \in Seq(Byte)
  PROVE  AgreesWithCells(stream)
<1> SUFFICES ASSUME HasHeader(stream) PROVE AgreesWithCells(stream)
  BY DEF AgreesWithCells
<1>1. PICK h : h = AsCell(stream)
  OBVIOUS
<1>2. PICK command : command = GetU32(stream, 0)
  OBVIOUS
<1>3. PICK direction : direction = GetU32(stream, DIRECTION_OFFSET)
  OBVIOUS
<1>4. PICK length : length = GetI32(stream, TFL_OFFSET)
  OBVIOUS
<1>5. PICK packets : packets = GetI32(stream, NUM_PACKETS_OFFSET)
  OBVIOUS
<1>6. /\ h.command = IF command \in Commands THEN CommandNames[command] ELSE "unknown"
      /\ h.direction = IF direction \in Directions THEN DirectionNames[direction + 1] ELSE "invalid"
      /\ h.length = length /\ h.packets = packets
  BY <1>1, <1>2, <1>3, <1>4, <1>5, CellOfStream
<1>7. /\ h.command \in Cells!KnownCommands <=> command \in Commands
      /\ h.direction \in Cells!Directions <=> direction \in Directions
      /\ h.command = "CMD_SUBMIT" <=> command = CMD_SUBMIT
      /\ h.command = "RET_SUBMIT" <=> command = RET_SUBMIT
      /\ h.direction = "OUT" <=> direction = USBIP_DIR_OUT
      /\ CMD_SUBMIT # RET_SUBMIT
  <2>1. "unknown" \notin Cells!KnownCommands /\ "invalid" \notin Cells!Directions
    BY DEF Cells!KnownCommands, Cells!Directions
  <2>2. CMD_SUBMIT \in Commands /\ RET_SUBMIT \in Commands /\ USBIP_DIR_OUT \in Directions
    BY DEF Commands, Directions
  <2>3. CMD_SUBMIT # RET_SUBMIT
    BY DEF CMD_SUBMIT, RET_SUBMIT
  <2> QED BY <1>6, <2>1, <2>2, <2>3, CellNames
<1>8. length \in Int /\ Len(stream) \in Nat /\ MaxPayload \in Nat /\ PAYLOAD_OFFSET \in Nat
  <2>1. TFL_OFFSET \in Nat /\ TFL_OFFSET + 4 <= PAYLOAD_OFFSET /\ PAYLOAD_OFFSET \in Nat
    BY DEF TFL_OFFSET, PAYLOAD_OFFSET, BASIC_HEADER_SIZE, CMD_HEADER_SIZE
  <2>2. GetI32(stream, TFL_OFFSET) \in SignedWord
    BY <2>1, WordOfStream, SignedOfWord DEF HasHeader, GetI32
  <2>3. length \in Int
    BY <1>4, <2>2, WordsAreInts
  <2>4. Len(stream) \in Nat
    OBVIOUS
  <2> QED BY <2>1, <2>3, <2>4, MaxPayloadAssumption
<1>9. /\ Cells!Announces(h) <=> /\ length > 0
                                /\ \/ command = RET_SUBMIT
                                   \/ command = CMD_SUBMIT /\ direction = USBIP_DIR_OUT
      /\ Cells!ClientLength(h) = IF Cells!Announces(h) THEN length ELSE 0
      /\ Cells!ServerLength(h) = IF command = CMD_SUBMIT THEN Cells!ClientLength(h) ELSE 0
  BY <1>6, <1>7 DEF Cells!Announces, Cells!ClientLength, Cells!ServerLength
<1>10. SessionLength(stream) = Cells!ClientLength(h)
  BY <1>2, <1>3, <1>4, <1>8, <1>9 DEF SessionLength, Positive
<1>11. SessionRefuses(stream) <=> Cells!ClientRefuses(h)
  BY <1>5, <1>6, <1>10 DEF SessionRefuses, Cells!ClientRefuses
<1>12. EchoLength(stream) = Cells!ServerLength(h)
  BY <1>2, <1>3, <1>4, <1>7, <1>8, <1>9 DEF EchoLength, Positive
<1>13. EchoRefuses(stream) <=> Cells!ServerRefuses(h)
  BY <1>12 DEF EchoRefuses, Cells!ServerRefuses
<1>14. Decodes(stream) <=> Cells!Decodes(h, Len(stream) - PAYLOAD_OFFSET)
  <2>1. /\ GetStruct(BasicRead, stream, 0).command = command
        /\ GetStruct(BasicRead, stream, 0).direction = direction
    BY <1>2, <1>3, BaseFields
  <2>2. CASE command \in Commands
    <3>1. PICK n : n = Announced(DecodedHeader(stream))
      OBVIOUS
    <3>2. n = IF command = RET_SUBMIT \/ (command = CMD_SUBMIT /\ direction = USBIP_DIR_OUT)
                THEN length ELSE 0
      BY <1>2, <1>3, <1>4, <2>2, <3>1, DecodedLength
    <3>3. Decodes(stream) <=> /\ Len(stream) >= PAYLOAD_OFFSET
                              /\ direction \in Directions
                              /\ Len(stream) >= PAYLOAD_OFFSET + n /\ n <= MaxPayload
      BY <2>1, <2>2, <3>1 DEF Decodes
    <3>4. Cells!Decodes(h, Len(stream) - PAYLOAD_OFFSET)
            <=> /\ direction \in Directions
                /\ Cells!ClientLength(h) <= Len(stream) - PAYLOAD_OFFSET
                /\ Cells!ClientLength(h) <= MaxPayload
      BY <1>7, <2>2 DEF Cells!Decodes
    <3>5. Len(stream) >= PAYLOAD_OFFSET
      BY DEF HasHeader
    <3> QED BY <1>8, <1>9, <3>2, <3>3, <3>4, <3>5
  <2>3. CASE command \notin Commands
    BY <1>7, <2>1, <2>3 DEF Decodes, Cells!Decodes
  <2> QED BY <2>2, <2>3
<1> QED BY <1>1, <1>10, <1>11, <1>12, <1>13, <1>14 DEF AgreesWithCells

-----------------------------------------------------------------------------
(* OP_REQ_IMPORT and OP_REP_IMPORT *)

\* The stream s begins with t, or shows it behind k bytes.
Begins(s, t) == Len(t) <= Len(s) /\ \A i \in 1 .. Len(t) : s[i] = t[i]
Shows(s, k, t) == k + Len(t) <= Len(s) /\ \A i \in 1 .. Len(t) : s[k + i] = t[i]

LEMMA AddPart ==
  ASSUME NEW s \in Seq(Byte), NEW t \in Seq(Byte)
  PROVE  /\ s \o t \in Seq(Byte) /\ Len(s \o t) = Len(s) + Len(t)
         /\ Len(s) \in Nat /\ Len(t) \in Nat
         /\ Begins(s \o t, s) /\ Shows(s \o t, Len(s), t)
<1>1. /\ s \o t \in Seq(Byte)
      /\ Len(s) \in Nat /\ Len(t) \in Nat
      /\ Len(s \o t) = Len(s) + Len(t)
      /\ \A i \in 1 .. Len(s) : (s \o t)[i] = s[i]
      /\ \A i \in 1 .. Len(t) : (s \o t)[Len(s) + i] = t[i]
  BY JoinedElements
<1> QED BY <1>1 DEF Begins, Shows

LEMMA BeginsOn ==
  ASSUME NEW s \in Seq(Byte), NEW t \in Seq(Byte), NEW r \in Seq(Byte),
         Begins(r, s), Begins(s, t)
  PROVE  Begins(r, t)
BY DEF Begins

LEMMA ShowsOn ==
  ASSUME NEW s \in Seq(Byte), NEW r \in Seq(Byte), Begins(r, s),
         NEW k \in Nat, NEW t \in Seq(Byte), Shows(s, k, t)
  PROVE  Shows(r, k, t)
<1>1. Len(s) \in Nat /\ Len(r) \in Nat /\ Len(t) \in Nat
  OBVIOUS
<1>2. ASSUME NEW i \in 1 .. Len(t) PROVE r[k + i] = t[i]
  <2>1. k + i \in 1 .. Len(s) /\ s[k + i] = t[i]
    BY <1>1 DEF Shows
  <2> QED BY <2>1 DEF Begins
<1> QED BY <1>1, <1>2 DEF Shows, Begins

\* A number of two bytes.
LEMMA HalfBytes ==
  ASSUME NEW v \in Half
  PROVE  /\ PutU16(v) \in Seq(Byte) /\ Len(PutU16(v)) = 2
         /\ PutU16(v)[1] * Radix + PutU16(v)[2] = v
<1>1. v \in 0 .. Radix * Radix - 1
  BY Spaces DEF Half
<1>2. /\ v \div Radix \in Byte /\ v % Radix \in Byte
      /\ (v \div Radix) * Radix + (v % Radix) = v
  BY <1>1, Spaces, TwoDigits DEF Byte
<1>3. PutU16(v) = <<v \div Radix, v % Radix>>
  BY DEF PutU16
<1> QED BY <1>2, <1>3

LEMMA HalfShown ==
  ASSUME NEW v \in Half, NEW s, NEW k, Shows(s, k, PutU16(v))
  PROVE  GetU16(s, k) = v
<1>1. s[k + 1] = PutU16(v)[1] /\ s[k + 2] = PutU16(v)[2]
  BY HalfBytes DEF Shows
<1> QED BY <1>1, HalfBytes DEF GetU16

LEMMA WordShown ==
  ASSUME NEW v \in Word, NEW s \in Seq(Byte), NEW k \in Nat, Shows(s, k, PutU32(v))
  PROVE  GetU32(s, k) = v
BY WordBytes, WordRoundTrip DEF Shows

\* A field of a fixed size.
LEMMA FieldBytes ==
  ASSUME NEW n \in Nat, NEW f \in [1 .. n -> Byte]
  PROVE  f \in Seq(Byte) /\ Len(f) = n
OBVIOUS

LEMMA TextBytes == {Nul, Ascii, Continuation, Lead2, Lead3} \subseteq Byte
<1>1. Radix \in Nat /\ Radix >= 5
  BY RadixAssumption, TextAssumption
<1>2. 0 \in Byte /\ 1 \in Byte /\ 2 \in Byte /\ 3 \in Byte /\ 4 \in Byte
  BY <1>1 DEF Byte
<1> QED BY <1>2 DEF Nul, Ascii, Continuation, Lead2, Lead3

LEMMA FieldOfText ==
  ASSUME NEW s \in Seq(Byte), NEW n \in Nat
  PROVE  Field(s, n) \in [1 .. n -> Byte]
<1>1. ASSUME NEW i \in 1 .. n PROVE (IF i <= Len(s) THEN s[i] ELSE Nul) \in Byte
  BY TextBytes
<1> QED BY <1>1 DEF Field

LEMMA VersionIsWord == USBIP_VERSION \in Word
<1>1. PICK n \in Nat : n = Radix * Radix /\ n >= 25
  BY TextAssumption, RadixAssumption
<1>2. n * n >= 25 * n /\ n * n \in Nat
  BY <1>1
<1>3. WordSpace = n * n
  BY <1>1 DEF WordSpace, HalfSpace
<1> QED BY <1>1, <1>2, <1>3 DEF Word, USBIP_VERSION

\* The bytes of a request, and the size accept_device waits for.
LEMMA RequestBytes ==
  ASSUME NEW text \in Seq(Byte)
  PROVE  LET req == EncodeOpReqImport(ImportRequest(text))
         IN  req \in Seq(Byte) /\ Len(req) <= SizeOfOpReqImport /\ Len(req) >= 4
<1>1. SysPath \in Seq(Byte)
  BY TextBytes DEF SysPath
<1>2. PICK w : w = PutU32(USBIP_VERSION)
  OBVIOUS
<1>3. PICK path : path = Field(SysPath, PathBytes)
  OBVIOUS
<1>4. PICK busid : busid = Field(text, BusidBytes)
  OBVIOUS
<1>5. w \in Seq(Byte) /\ Len(w) = 4
  BY <1>2, VersionIsWord, WordBytes
<1>6. path \in Seq(Byte) /\ Len(path) = PathBytes /\ busid \in Seq(Byte) /\ Len(busid) = BusidBytes
  BY <1>1, <1>3, <1>4, FieldOfText, FieldBytes, FieldsAssumption
<1>7. w \o path \in Seq(Byte) /\ Len(w \o path) = 4 + PathBytes
  BY <1>5, <1>6, AddPart
<1>8. (w \o path) \o busid \in Seq(Byte) /\ Len((w \o path) \o busid) = 4 + PathBytes + BusidBytes
  BY <1>6, <1>7, AddPart
<1>9. EncodeOpReqImport(ImportRequest(text)) = (w \o path) \o busid
  BY <1>2, <1>3, <1>4 DEF EncodeOpReqImport, ImportRequest
<1>10. 4 + PathBytes + BusidBytes <= SizeOfOpReqImport /\ 4 + PathBytes + BusidBytes >= 4
  BY FieldsAssumption DEF SizeOfOpReqImport, Aligned
<1> QED BY <1>8, <1>9, <1>10

\* The bytes of a reply: where each field stands.
LEMMA ReplyBytes ==
  ASSUME NEW rep \in OpRepImports
  PROVE  LET s == EncodeOpRepImport(rep)
             at == 4 + PathBytes + BusidBytes
         IN  /\ s \in Seq(Byte) /\ Len(s) = at + 24
             /\ Shows(s, 0, PutU32(rep.status)) /\ Shows(s, 4, rep.path)
             /\ Shows(s, 4 + PathBytes, rep.busid)
             /\ Shows(s, at, PutU32(rep.busnum)) /\ Shows(s, at + 4, PutU32(rep.devnum))
             /\ Shows(s, at + 8, PutU32(rep.speed))
             /\ Shows(s, at + 12, PutU16(rep.id_vendor)) /\ Shows(s, at + 14, PutU16(rep.id_product))
             /\ Shows(s, at + 16, PutU16(rep.bcd_device))
             /\ Shows(s, at + 18,
                      <<rep.b_device_class, rep.b_device_sub_class, rep.b_device_protocol,
                        rep.b_configuration_value, rep.b_num_configurations, rep.b_num_interfaces>>)
<1>1. /\ PathBytes \in Nat /\ BusidBytes \in Nat
      /\ rep.status \in Word /\ rep.busnum \in Word /\ rep.devnum \in Word /\ rep.speed \in Word
      /\ rep.id_vendor \in Half /\ rep.id_product \in Half /\ rep.bcd_device \in Half
      /\ rep.path \in [1 .. PathBytes -> Byte] /\ rep.busid \in [1 .. BusidBytes -> Byte]
      /\ rep.b_device_class \in Byte /\ rep.b_device_sub_class \in Byte
      /\ rep.b_device_protocol \in Byte /\ rep.b_configuration_value \in Byte
      /\ rep.b_num_configurations \in Byte /\ rep.b_num_interfaces \in Byte
  BY FieldsAssumption DEF OpRepImports
<1>2. PICK at \in Nat : at = 4 + PathBytes + BusidBytes
  BY <1>1
<1>3. PICK f1 : f1 = PutU32(rep.status)
  OBVIOUS
<1>4. PICK f2, f3 : f2 = rep.path /\ f3 = rep.busid
  OBVIOUS
<1>5. PICK f4, f5, f6 : f4 = PutU32(rep.busnum) /\ f5 = PutU32(rep.devnum) /\ f6 = PutU32(rep.speed)
  OBVIOUS
<1>6. PICK f7, f8, f9 : /\ f7 = PutU16(rep.id_vendor) /\ f8 = PutU16(rep.id_product)
                        /\ f9 = PutU16(rep.bcd_device)
  OBVIOUS
<1>7. PICK f10 : f10 = <<rep.b_device_class, rep.b_device_sub_class, rep.b_device_protocol,
                         rep.b_configuration_value, rep.b_num_configurations, rep.b_num_interfaces>>
  OBVIOUS
<1>8. /\ f1 \in Seq(Byte) /\ Len(f1) = 4
      /\ f2 \in Seq(Byte) /\ Len(f2) = PathBytes /\ f3 \in Seq(Byte) /\ Len(f3) = BusidBytes
  BY <1>1, <1>3, <1>4, WordBytes, FieldBytes
<1>9. /\ f4 \in Seq(Byte) /\ Len(f4) = 4 /\ f5 \in Seq(Byte) /\ Len(f5) = 4
      /\ f6 \in Seq(Byte) /\ Len(f6) = 4
  BY <1>1, <1>5, WordBytes
<1>10. /\ f7 \in Seq(Byte) /\ Len(f7) = 2 /\ f8 \in Seq(Byte) /\ Len(f8) = 2
       /\ f9 \in Seq(Byte) /\ Len(f9) = 2
  BY <1>1, <1>6, HalfBytes
<1>11. f10 \in Seq(Byte) /\ Len(f10) = 6
  BY <1>1, <1>7
<1>12. PICK s2 : s2 = f1 \o f2
  OBVIOUS
<1>13. PICK s3 : s3 = s2 \o f3
  OBVIOUS
<1>14. PICK s4 : s4 = s3 \o f4
  OBVIOUS
<1>15. PICK s5 : s5 = s4 \o f5
  OBVIOUS
<1>16. PICK s6 : s6 = s5 \o f6
  OBVIOUS
<1>17. PICK s7 : s7 = s6 \o f7
  OBVIOUS
<1>18. PICK s8 : s8 = s7 \o f8
  OBVIOUS
<1>19. PICK s9 : s9 = s8 \o f9
  OBVIOUS
<1>20. PICK s : s = s9 \o f10
  OBVIOUS
<1>21. EncodeOpRepImport(rep) = s
  BY <1>3, <1>4, <1>5, <1>6, <1>7, <1>12, <1>13, <1>14, <1>15, <1>16, <1>17, <1>18, <1>19, <1>20
  DEF EncodeOpRepImport
<1>22. s2 \in Seq(Byte) /\ Len(s2) = 4 + PathBytes /\ Begins(s2, f1) /\ Shows(s2, 4, f2)
  BY <1>8, <1>12, AddPart
<1>23. s3 \in Seq(Byte) /\ Len(s3) = at /\ Begins(s3, s2) /\ Shows(s3, 4 + PathBytes, f3)
  BY <1>2, <1>8, <1>13, <1>22, AddPart
<1>44. /\ at + 4 \in Nat /\ at + 8 \in Nat /\ at + 12 \in Nat /\ at + 14 \in Nat
      /\ at + 16 \in Nat /\ at + 18 \in Nat /\ at + 24 \in Nat /\ 2 \in Nat /\ 4 \in Nat /\ 6 \in Nat
      /\ at + 8 = (at + 4) + 4 /\ at + 12 = (at + 8) + 4 /\ at + 14 = (at + 12) + 2
      /\ at + 16 = (at + 14) + 2 /\ at + 18 = (at + 16) + 2 /\ at + 24 = (at + 18) + 6
  OBVIOUS
<1>24. s4 \in Seq(Byte) /\ Len(s4) = at + 4 /\ Begins(s4, s3) /\ Shows(s4, at, f4)
  <2>1. PICK k \in Nat : k = at
    BY <1>44
  <2>2. Len(s3) = k /\ Len(f4) = 4 /\ s3 \in Seq(Byte) /\ f4 \in Seq(Byte)
    BY <1>9, <1>14, <1>23, <2>1
  <2>3. /\ s3 \o f4 \in Seq(Byte) /\ Len(s3 \o f4) = Len(s3) + Len(f4)
        /\ Begins(s3 \o f4, s3) /\ Shows(s3 \o f4, Len(s3), f4)
    BY <2>2, AddPart
  <2> QED BY <1>14, <1>44, <2>1, <2>2, <2>3
<1>25. s5 \in Seq(Byte) /\ Len(s5) = at + 8 /\ Begins(s5, s4) /\ Shows(s5, at + 4, f5)
  <2>1. PICK k \in Nat : k = at + 4
    BY <1>44
  <2>2. Len(s4) = k /\ Len(f5) = 4 /\ s4 \in Seq(Byte) /\ f5 \in Seq(Byte)
    BY <1>9, <1>15, <1>24, <2>1
  <2>3. /\ s4 \o f5 \in Seq(Byte) /\ Len(s4 \o f5) = Len(s4) + Len(f5)
        /\ Begins(s4 \o f5, s4) /\ Shows(s4 \o f5, Len(s4), f5)
    BY <2>2, AddPart
  <2> QED BY <1>15, <1>44, <2>1, <2>2, <2>3
<1>26. s6 \in Seq(Byte) /\ Len(s6) = at + 12 /\ Begins(s6, s5) /\ Shows(s6, at + 8, f6)
  <2>1. PICK k \in Nat : k = at + 8
    BY <1>44
  <2>2. Len(s5) = k /\ Len(f6) = 4 /\ s5 \in Seq(Byte) /\ f6 \in Seq(Byte)
    BY <1>9, <1>16, <1>25, <2>1
  <2>3. /\ s5 \o f6 \in Seq(Byte) /\ Len(s5 \o f6) = Len(s5) + Len(f6)
        /\ Begins(s5 \o f6, s5) /\ Shows(s5 \o f6, Len(s5), f6)
    BY <2>2, AddPart
  <2> QED BY <1>16, <1>44, <2>1, <2>2, <2>3
<1>27. s7 \in Seq(Byte) /\ Len(s7) = at + 14 /\ Begins(s7, s6) /\ Shows(s7, at + 12, f7)
  <2>1. PICK k \in Nat : k = at + 12
    BY <1>44
  <2>2. Len(s6) = k /\ Len(f7) = 2 /\ s6 \in Seq(Byte) /\ f7 \in Seq(Byte)
    BY <1>10, <1>17, <1>26, <2>1
  <2>3. /\ s6 \o f7 \in Seq(Byte) /\ Len(s6 \o f7) = Len(s6) + Len(f7)
        /\ Begins(s6 \o f7, s6) /\ Shows(s6 \o f7, Len(s6), f7)
    BY <2>2, AddPart
  <2> QED BY <1>17, <1>44, <2>1, <2>2, <2>3
<1>28. s8 \in Seq(Byte) /\ Len(s8) = at + 16 /\ Begins(s8, s7) /\ Shows(s8, at + 14, f8)
  <2>1. PICK k \in Nat : k = at + 14
    BY <1>44
  <2>2. Len(s7) = k /\ Len(f8) = 2 /\ s7 \in Seq(Byte) /\ f8 \in Seq(Byte)
    BY <1>10, <1>18, <1>27, <2>1
  <2>3. /\ s7 \o f8 \in Seq(Byte) /\ Len(s7 \o f8) = Len(s7) + Len(f8)
        /\ Begins(s7 \o f8, s7) /\ Shows(s7 \o f8, Len(s7), f8)
    BY <2>2, AddPart
  <2> QED BY <1>18, <1>44, <2>1, <2>2, <2>3
<1>29. s9 \in Seq(Byte) /\ Len(s9) = at + 18 /\ Begins(s9, s8) /\ Shows(s9, at + 16, f9)
  <2>1. PICK k \in Nat : k = at + 16
    BY <1>44
  <2>2. Len(s8) = k /\ Len(f9) = 2 /\ s8 \in Seq(Byte) /\ f9 \in Seq(Byte)
    BY <1>10, <1>19, <1>28, <2>1
  <2>3. /\ s8 \o f9 \in Seq(Byte) /\ Len(s8 \o f9) = Len(s8) + Len(f9)
        /\ Begins(s8 \o f9, s8) /\ Shows(s8 \o f9, Len(s8), f9)
    BY <2>2, AddPart
  <2> QED BY <1>19, <1>44, <2>1, <2>2, <2>3
<1>30. s \in Seq(Byte) /\ Len(s) = at + 24 /\ Begins(s, s9) /\ Shows(s, at + 18, f10)
  <2>1. PICK k \in Nat : k = at + 18
    BY <1>44
  <2>2. Len(s9) = k /\ Len(f10) = 6 /\ s9 \in Seq(Byte) /\ f10 \in Seq(Byte)
    BY <1>11, <1>20, <1>29, <2>1
  <2>3. /\ s9 \o f10 \in Seq(Byte) /\ Len(s9 \o f10) = Len(s9) + Len(f10)
        /\ Begins(s9 \o f10, s9) /\ Shows(s9 \o f10, Len(s9), f10)
    BY <2>2, AddPart
  <2> QED BY <1>20, <1>44, <2>1, <2>2, <2>3
<1>31. Begins(s, s8)
  BY <1>28, <1>29, <1>30, BeginsOn
<1>32. Begins(s, s7)
  BY <1>27, <1>28, <1>30, <1>31, BeginsOn
<1>33. Begins(s, s6)
  BY <1>26, <1>27, <1>30, <1>32, BeginsOn
<1>34. Begins(s, s5)
  BY <1>25, <1>26, <1>30, <1>33, BeginsOn
<1>35. Begins(s, s4)
  BY <1>24, <1>25, <1>30, <1>34, BeginsOn
<1>36. Begins(s, s3)
  BY <1>23, <1>24, <1>30, <1>35, BeginsOn
<1>37. Begins(s, s2)
  BY <1>22, <1>23, <1>30, <1>36, BeginsOn
<1>38. Begins(s, f1)
  BY <1>8, <1>22, <1>30, <1>37, BeginsOn
<1>39. Shows(s, 0, f1)
  BY <1>8, <1>38 DEF Begins, Shows
<1>40. Shows(s, 4, f2) /\ Shows(s, 4 + PathBytes, f3)
  BY <1>1, <1>8, <1>22, <1>23, <1>30, <1>36, <1>37, ShowsOn
<1>41. Shows(s, at, f4) /\ Shows(s, at + 4, f5) /\ Shows(s, at + 8, f6)
  BY <1>9, <1>24, <1>25, <1>26, <1>30, <1>33, <1>34, <1>35, ShowsOn
<1>42. Shows(s, at + 12, f7) /\ Shows(s, at + 14, f8) /\ Shows(s, at + 16, f9)
  BY <1>10, <1>27, <1>28, <1>29, <1>30, <1>31, <1>32, ShowsOn
<1> QED
  BY <1>2, <1>3, <1>4, <1>5, <1>6, <1>7, <1>21, <1>30, <1>39, <1>40, <1>41, <1>42

\* Part of a stream that shows it.
LEMMA PartShown ==
  ASSUME NEW s \in Seq(Byte), NEW k \in Nat, NEW n \in Nat, NEW t \in [1 .. n -> Byte], Shows(s, k, t)
  PROVE  SubSeq(s, k + 1, k + n) = t
<1>1. t \in Seq(Byte) /\ Len(t) = n
  BY FieldBytes
<1> QED BY <1>1, PartOfStream DEF Shows

LEMMA TakeBegins ==
  ASSUME NEW s \in Seq(Byte), NEW t \in Seq(Byte), Begins(s, t),
         NEW n \in Nat, Len(t) <= n, n <= Len(s)
  PROVE  Take(s, n) \in Seq(Byte) /\ Begins(Take(s, n), t)
<1>1. PICK r : r = Take(s, n)
  OBVIOUS
<1>2. r \in Seq(Byte) /\ Len(r) = n /\ Len(t) \in Nat /\ \A i \in 1 .. n : r[i] = s[i]
  BY <1>1 DEF Take
<1>3. \A i \in 1 .. Len(t) : i \in 1 .. n
  BY <1>2
<1> QED BY <1>1, <1>2, <1>3 DEF Begins

\* decode_op_rep_import gives back what encode_op_rep_import was given,
\* whatever follows it (codec.rs:218, codec.rs:239).
THEOREM ReplyRoundTrip ==
  ASSUME NEW rep \in OpRepImports, NEW buf \in Seq(Byte), Begins(buf, EncodeOpRepImport(rep))
  PROVE  DecodeOpRepImport(buf) = rep
<1>1. /\ PathBytes \in Nat /\ BusidBytes \in Nat
      /\ rep.status \in Word /\ rep.busnum \in Word /\ rep.devnum \in Word /\ rep.speed \in Word
      /\ rep.id_vendor \in Half /\ rep.id_product \in Half /\ rep.bcd_device \in Half
      /\ rep.path \in [1 .. PathBytes -> Byte] /\ rep.busid \in [1 .. BusidBytes -> Byte]
      /\ rep.b_device_class \in Byte /\ rep.b_device_sub_class \in Byte
      /\ rep.b_device_protocol \in Byte /\ rep.b_configuration_value \in Byte
      /\ rep.b_num_configurations \in Byte /\ rep.b_num_interfaces \in Byte
  BY FieldsAssumption DEF OpRepImports
<1>2. PICK at \in Nat : at = 4 + PathBytes + BusidBytes
  BY <1>1
<1>3. PICK last : last = <<rep.b_device_class, rep.b_device_sub_class, rep.b_device_protocol,
                           rep.b_configuration_value, rep.b_num_configurations,
                           rep.b_num_interfaces>>
  OBVIOUS
<1>4. PICK s : s = EncodeOpRepImport(rep)
  OBVIOUS
<1>5. /\ s \in Seq(Byte)
      /\ Shows(s, 0, PutU32(rep.status)) /\ Shows(s, 4, rep.path)
      /\ Shows(s, 4 + PathBytes, rep.busid)
      /\ Shows(s, at, PutU32(rep.busnum)) /\ Shows(s, at + 4, PutU32(rep.devnum))
      /\ Shows(s, at + 8, PutU32(rep.speed))
      /\ Shows(s, at + 12, PutU16(rep.id_vendor)) /\ Shows(s, at + 14, PutU16(rep.id_product))
      /\ Shows(s, at + 16, PutU16(rep.bcd_device)) /\ Shows(s, at + 18, last)
  BY <1>2, <1>3, <1>4, ReplyBytes
<1>6. /\ 0 \in Nat /\ 4 \in Nat /\ 4 + PathBytes \in Nat
      /\ at + 4 \in Nat /\ at + 8 \in Nat /\ at + 12 \in Nat
      /\ at + 14 \in Nat /\ at + 16 \in Nat /\ at + 18 \in Nat
  BY <1>1
<1>7. /\ PutU32(rep.status) \in Seq(Byte) /\ PutU32(rep.busnum) \in Seq(Byte)
      /\ PutU32(rep.devnum) \in Seq(Byte) /\ PutU32(rep.speed) \in Seq(Byte)
      /\ PutU16(rep.id_vendor) \in Seq(Byte) /\ PutU16(rep.id_product) \in Seq(Byte)
      /\ PutU16(rep.bcd_device) \in Seq(Byte)
      /\ rep.path \in Seq(Byte) /\ rep.busid \in Seq(Byte) /\ last \in Seq(Byte) /\ Len(last) = 6
  <2>1. /\ PutU32(rep.status) \in Seq(Byte) /\ PutU32(rep.busnum) \in Seq(Byte)
        /\ PutU32(rep.devnum) \in Seq(Byte) /\ PutU32(rep.speed) \in Seq(Byte)
    BY <1>1, WordBytes
  <2>2. /\ PutU16(rep.id_vendor) \in Seq(Byte) /\ PutU16(rep.id_product) \in Seq(Byte)
        /\ PutU16(rep.bcd_device) \in Seq(Byte)
    BY <1>1, HalfBytes
  <2>3. rep.path \in Seq(Byte) /\ rep.busid \in Seq(Byte)
    BY <1>1, FieldBytes
  <2>4. last \in Seq(Byte) /\ Len(last) = 6
    BY <1>1, <1>3
  <2> QED BY <2>1, <2>2, <2>3, <2>4
<1>8. /\ Shows(buf, 0, PutU32(rep.status)) /\ Shows(buf, at, PutU32(rep.busnum))
      /\ Shows(buf, at + 4, PutU32(rep.devnum)) /\ Shows(buf, at + 8, PutU32(rep.speed))
  BY <1>2, <1>4, <1>5, <1>6, <1>7, ShowsOn
<1>9. /\ Shows(buf, at + 12, PutU16(rep.id_vendor)) /\ Shows(buf, at + 14, PutU16(rep.id_product))
      /\ Shows(buf, at + 16, PutU16(rep.bcd_device)) /\ Shows(buf, at + 18, last)
  BY <1>2, <1>4, <1>5, <1>6, <1>7, ShowsOn
<1>10. Shows(buf, 4, rep.path) /\ Shows(buf, 4 + PathBytes, rep.busid)
  BY <1>4, <1>5, <1>6, <1>7, ShowsOn
<1>11. /\ GetU32(buf, 0) = rep.status /\ GetU32(buf, at) = rep.busnum
       /\ GetU32(buf, at + 4) = rep.devnum /\ GetU32(buf, at + 8) = rep.speed
  BY <1>1, <1>2, <1>6, <1>8, WordShown
<1>12. /\ GetU16(buf, at + 12) = rep.id_vendor /\ GetU16(buf, at + 14) = rep.id_product
       /\ GetU16(buf, at + 16) = rep.bcd_device
  BY <1>1, <1>9, HalfShown
<1>13. /\ SubSeq(buf, 5, 4 + PathBytes) = rep.path
       /\ SubSeq(buf, 5 + PathBytes, at) = rep.busid
  <2>1. SubSeq(buf, 4 + 1, 4 + PathBytes) = rep.path
    BY <1>1, <1>6, <1>10, PartShown
  <2>2. SubSeq(buf, (4 + PathBytes) + 1, (4 + PathBytes) + BusidBytes) = rep.busid
    BY <1>1, <1>6, <1>10, PartShown
  <2>3. 4 + 1 = 5 /\ (4 + PathBytes) + 1 = 5 + PathBytes /\ (4 + PathBytes) + BusidBytes = at
    BY <1>1, <1>2
  <2> QED BY <2>1, <2>2, <2>3
<1>14. /\ buf[at + 19] = rep.b_device_class /\ buf[at + 20] = rep.b_device_sub_class
       /\ buf[at + 21] = rep.b_device_protocol /\ buf[at + 22] = rep.b_configuration_value
       /\ buf[at + 23] = rep.b_num_configurations /\ buf[at + 24] = rep.b_num_interfaces
  <2>1. \A i \in 1 .. 6 : buf[(at + 18) + i] = last[i]
    BY <1>7, <1>9 DEF Shows
  <2>2. /\ (at + 18) + 1 = at + 19 /\ (at + 18) + 2 = at + 20 /\ (at + 18) + 3 = at + 21
        /\ (at + 18) + 4 = at + 22 /\ (at + 18) + 5 = at + 23 /\ (at + 18) + 6 = at + 24
    BY <1>2
  <2> QED BY <1>3, <2>1, <2>2
<1>15. rep = [status |-> rep.status, path |-> rep.path, busid |-> rep.busid,
              busnum |-> rep.busnum, devnum |-> rep.devnum, speed |-> rep.speed,
              id_vendor |-> rep.id_vendor, id_product |-> rep.id_product,
              bcd_device |-> rep.bcd_device,
              b_device_class |-> rep.b_device_class, b_device_sub_class |-> rep.b_device_sub_class,
              b_device_protocol |-> rep.b_device_protocol,
              b_configuration_value |-> rep.b_configuration_value,
              b_num_configurations |-> rep.b_num_configurations,
              b_num_interfaces |-> rep.b_num_interfaces]
  BY DEF OpRepImports
<1>16. DecodeOpRepImport(buf) =
         [status |-> GetU32(buf, 0),
          path |-> SubSeq(buf, 5, 4 + PathBytes),
          busid |-> SubSeq(buf, 5 + PathBytes, at),
          busnum |-> GetU32(buf, at), devnum |-> GetU32(buf, at + 4), speed |-> GetU32(buf, at + 8),
          id_vendor |-> GetU16(buf, at + 12), id_product |-> GetU16(buf, at + 14),
          bcd_device |-> GetU16(buf, at + 16),
          b_device_class |-> buf[at + 19], b_device_sub_class |-> buf[at + 20],
          b_device_protocol |-> buf[at + 21], b_configuration_value |-> buf[at + 22],
          b_num_configurations |-> buf[at + 23], b_num_interfaces |-> buf[at + 24]]
  BY <1>2 DEF DecodeOpRepImport
<1> QED BY <1>11, <1>12, <1>13, <1>14, <1>15, <1>16

\* decode_op_req_import gives back what encode_op_req_import was given, whatever
\* follows it, the padding of the struct too (codec.rs:187, codec.rs:196): the
\* server looks for the busid the client asked for, cut to its field.
THEOREM RequestRoundTrip ==
  ASSUME NEW text \in Seq(Byte), NEW buf \in Seq(Byte),
         Begins(buf, EncodeOpReqImport(ImportRequest(text)))
  PROVE  DecodeOpReqImport(buf) = ImportRequest(text)
<1>1. PICK w : w = PutU32(USBIP_VERSION)
  OBVIOUS
<1>2. PICK path : path = Field(SysPath, PathBytes)
  OBVIOUS
<1>3. PICK busid : busid = Field(text, BusidBytes)
  OBVIOUS
<1>4. w \in Seq(Byte) /\ Len(w) = 4 /\ USBIP_VERSION \in Word
  BY <1>1, VersionIsWord, WordBytes
<1>5. /\ PathBytes \in Nat /\ BusidBytes \in Nat
      /\ path \in [1 .. PathBytes -> Byte] /\ busid \in [1 .. BusidBytes -> Byte]
  <2>1. SysPath \in Seq(Byte)
    BY TextBytes DEF SysPath
  <2> QED BY <1>2, <1>3, <2>1, FieldOfText, FieldsAssumption
<1>6. path \in Seq(Byte) /\ Len(path) = PathBytes /\ busid \in Seq(Byte) /\ Len(busid) = BusidBytes
  BY <1>5, FieldBytes
<1>7. PICK s2 : s2 = w \o path
  OBVIOUS
<1>8. PICK s : s = s2 \o busid
  OBVIOUS
<1>9. s2 \in Seq(Byte) /\ Len(s2) = 4 + PathBytes /\ Begins(s2, w) /\ Shows(s2, 4, path)
  BY <1>4, <1>6, <1>7, AddPart
<1>10. s \in Seq(Byte) /\ Begins(s, s2) /\ Shows(s, 4 + PathBytes, busid)
  BY <1>6, <1>8, <1>9, AddPart
<1>11. ImportRequest(text) = [status |-> USBIP_VERSION, path |-> path, busid |-> busid]
  BY <1>2, <1>3 DEF ImportRequest
<1>12. Begins(buf, s)
  BY <1>1, <1>7, <1>8, <1>11 DEF EncodeOpReqImport
<1>13. Begins(buf, s2)
  BY <1>9, <1>10, <1>12, BeginsOn
<1>14. Shows(buf, 0, w)
  <2>1. Begins(buf, w)
    BY <1>4, <1>9, <1>13, BeginsOn
  <2> QED BY <1>4, <2>1 DEF Begins, Shows
<1>15. Shows(buf, 4, path) /\ Shows(buf, 4 + PathBytes, busid)
  <2>1. 4 \in Nat /\ 4 + PathBytes \in Nat
    BY <1>5
  <2> QED BY <1>6, <1>9, <1>10, <1>12, <1>13, <2>1, ShowsOn
<1>16. GetU32(buf, 0) = USBIP_VERSION
  BY <1>1, <1>4, <1>14, WordShown
<1>17. SubSeq(buf, 4 + 1, 4 + PathBytes) = path
  BY <1>5, <1>15, PartShown
<1>18. SubSeq(buf, (4 + PathBytes) + 1, (4 + PathBytes) + BusidBytes) = busid
  <2>1. 4 + PathBytes \in Nat
    BY <1>5
  <2> QED BY <1>5, <1>15, <2>1, PartShown
<1>19. 4 + 1 = 5 /\ (4 + PathBytes) + 1 = 5 + PathBytes
       /\ (4 + PathBytes) + BusidBytes = 4 + PathBytes + BusidBytes
  BY <1>5
<1> QED BY <1>11, <1>16, <1>17, <1>18, <1>19 DEF DecodeOpReqImport

-----------------------------------------------------------------------------
(* Headers and what is made of them *)

Headers ==
  {h \in [base : Structs(BasicPut), u : UNION {Structs(VariantPut[c]) : c \in Commands}] :
     h.base.command \in Commands /\ h.u \in Structs(VariantPut[h.base.command])}
Messages == [header : Headers, payload : Seq(Byte)]

LEMMA HeaderParts ==
  ASSUME NEW h \in Headers
  PROVE  /\ h = [base |-> h.base, u |-> h.u]
         /\ h.base \in Structs(BasicPut) /\ h.base.command \in Commands
         /\ h.u \in Structs(VariantPut[h.base.command])
         /\ IsHeader(h)
<1>1. /\ h = [base |-> h.base, u |-> h.u]
      /\ h.base \in Structs(BasicPut) /\ h.base.command \in Commands
      /\ h.u \in Structs(VariantPut[h.base.command])
  BY DEF Headers
<1>2. h.base \in [FieldsOf(BasicPut) -> Word]
  <2>1. \A f \in FieldsOf(BasicPut) : FieldValues(f) = Word
    BY BasicLayout DEF FieldValues
  <2> QED BY <1>1, <2>1 DEF Structs
<1>3. /\ h.u \in [FieldsOf(VariantPut[h.base.command]) -> Int]
      /\ \A f \in DOMAIN h.u : h.u[f] \in FieldValues(f)
  BY <1>1 DEF Structs
<1> QED BY <1>1, <1>2, <1>3 DEF IsHeader

LEMMA HeaderIsOne ==
  ASSUME NEW base \in [FieldsOf(BasicPut) -> Word], base.command \in Commands,
         NEW u \in Structs(VariantPut[base.command])
  PROVE  [base |-> base, u |-> u] \in Headers
<1>1. base \in Structs(BasicPut)
  <2>1. \A f \in FieldsOf(BasicPut) : FieldValues(f) = Word
    BY BasicLayout DEF FieldValues
  <2> QED BY <2>1, WordsAreInts DEF Structs
<1>2. u \in UNION {Structs(VariantPut[c]) : c \in Commands}
  OBVIOUS
<1> QED BY <1>1, <1>2 DEF Headers

\* The header that send_header writes.
LEMMA NumberedHeader ==
  ASSUME NEW h, IsHeader(h), h.base.command \in Commands, nextSeq \in Word
  PROVE  /\ Numbered(h) \in Headers
         /\ Numbered(h).base.seqnum = nextSeq
         /\ Numbered(h).base.command = h.base.command
         /\ Announced(Numbered(h)) = Announced(h)
<1>1. PICK base : base = [h.base EXCEPT !.seqnum = nextSeq]
  OBVIOUS
<1>2. h = [base |-> h.base, u |-> h.u] /\ h.base \in [FieldsOf(BasicPut) -> Word]
  BY DEF IsHeader
<1>3. Numbered(h) = [base |-> base, u |-> h.u]
  BY <1>1, <1>2 DEF Numbered
<1>4. FieldsOf(BasicPut) = {"command", "seqnum", "devid", "direction", "ep"}
  BY BasicLayout
<1>5. /\ base \in [FieldsOf(BasicPut) -> Word]
      /\ base.seqnum = nextSeq
      /\ base.command = h.base.command /\ base.direction = h.base.direction
  BY <1>1, <1>2, <1>4
<1>6. h.u \in Structs(VariantPut[base.command])
  <2>1. h.u \in [FieldsOf(VariantPut[h.base.command]) -> Int]
    BY DEF IsHeader
  <2>2. \A f \in DOMAIN h.u : h.u[f] \in FieldValues(f)
    BY DEF IsHeader
  <2> QED BY <1>5, <2>1, <2>2 DEF Structs
<1>7. [base |-> base, u |-> h.u] \in Headers
  BY <1>5, <1>6, HeaderIsOne
<1> QED BY <1>3, <1>5, <1>7 DEF Announced

LEMMA Offsets ==
  /\ PAYLOAD_OFFSET = 48 /\ PAYLOAD_OFFSET \in Nat
  /\ BASIC_HEADER_SIZE = 20 /\ BASIC_HEADER_SIZE \in Nat /\ TFL_OFFSET \in Nat /\ TFL_OFFSET + 4 <= 48
BY DEF PAYLOAD_OFFSET, BASIC_HEADER_SIZE, CMD_HEADER_SIZE, TFL_OFFSET

\* How many bytes of its payload follow a header.
LEMMA PayloadOnWire ==
  ASSUME NEW h \in Headers, NEW payload \in Seq(Byte)
  PROVE  /\ Announced(h) \in Int
         /\ OnWire(h, payload) \in Seq(Byte)
         /\ OnWire(h, payload) = IF Announced(h) > 0 THEN payload ELSE <<>>
         /\ Encoded(h, payload) \in Seq(Byte)
         /\ Len(Encoded(h, payload)) = 48 + Len(OnWire(h, payload))
<1>1. Announced(h) \in Int
  BY HeaderParts, AnnouncedIsInt
<1>2. OnWire(h, payload) \in Seq(Byte)
  BY DEF OnWire
<1>3. PICK base, u : base = h.base /\ u = h.u
  OBVIOUS
<1>4. /\ base \in Structs(BasicPut) /\ base.command \in Commands
      /\ u \in Structs(VariantPut[base.command])
  BY <1>3, HeaderParts
<1>5. /\ PutStruct(BasicPut, base) \in Seq(Byte) /\ Len(PutStruct(BasicPut, base)) = 20
  <2>1. IsLayout(BasicPut) /\ Len(BasicPut) = 5
    BY BasicLayout
  <2>2. PutStruct(BasicPut, base) \in Seq(Byte) /\ Len(PutStruct(BasicPut, base)) = 4 * Len(BasicPut)
    BY <1>4, <2>1, StructBytes
  <2> QED BY <2>1, <2>2
<1>6. PICK put : put = VariantPut[base.command]
  OBVIOUS
<1>7. PutStruct(put, u) \in Seq(Byte) /\ Len(PutStruct(put, u)) = 28
  <2>1. IsLayout(put) /\ Len(put) = 7
    BY <1>4, <1>6, VariantLayouts DEF Variant
  <2>2. PutStruct(put, u) \in Seq(Byte) /\ Len(PutStruct(put, u)) = 4 * Len(put)
    BY <1>4, <1>6, <2>1, StructBytes
  <2> QED BY <2>1, <2>2
<1>8. PICK a, b, t : a = PutStruct(BasicPut, base) /\ b = PutStruct(put, u) /\ t = OnWire(h, payload)
  OBVIOUS
<1>9. Encoded(h, payload) = (a \o b) \o t
  BY <1>3, <1>6, <1>8 DEF Encoded, OnWire
<1>10. a \in Seq(Byte) /\ Len(a) = 20 /\ b \in Seq(Byte) /\ Len(b) = 28 /\ t \in Seq(Byte)
  BY <1>2, <1>5, <1>7, <1>8
<1>11. a \o b \in Seq(Byte) /\ Len(a \o b) = 48
  <2>1. a \o b \in Seq(Byte) /\ Len(a \o b) = Len(a) + Len(b)
    BY <1>10, AddPart
  <2> QED BY <1>10, <2>1
<1>12. (a \o b) \o t \in Seq(Byte) /\ Len((a \o b) \o t) = 48 + Len(t)
  <2>1. (a \o b) \o t \in Seq(Byte) /\ Len((a \o b) \o t) = Len(a \o b) + Len(t)
    BY <1>10, <1>11, AddPart
  <2> QED BY <1>11, <2>1
<1> QED BY <1>1, <1>2, <1>8, <1>9, <1>12 DEF OnWire

\* What the decoder makes of a stream is a header with its payload.
LEMMA DecodedTypes ==
  ASSUME NEW buf \in Seq(Byte), Decodes(buf)
  PROVE  /\ DecodedHeader(buf) \in Headers
         /\ DecodedPayload(buf) \in Seq(Byte)
         /\ Announced(DecodedHeader(buf)) \in SignedWord
         /\ Announced(DecodedHeader(buf)) \in Int
         /\ Len(DecodedPayload(buf)) = Positive(Announced(DecodedHeader(buf)))
         /\ Len(DecodedPayload(buf)) <= MaxPayload
<1>1. PICK h : h = DecodedHeader(buf)
  OBVIOUS
<1>2. /\ h.base = GetStruct(BasicRead, buf, 0) /\ h.u = GetStruct(VariantRead[h.base.command], buf, 20)
      /\ h = [base |-> h.base, u |-> h.u]
  BY <1>1, Offsets DEF DecodedHeader
<1>3. /\ Len(buf) >= 48 /\ h.base.command \in Commands /\ h.base.direction \in Directions
      /\ Len(buf) >= 48 + Announced(h) /\ Announced(h) <= MaxPayload
  BY <1>1, <1>2, Offsets DEF Decodes
<1>4. h.base \in Structs(BasicPut)
  <2>1. IsLayout(BasicPut) /\ BasicRead = BasicPut /\ Len(BasicPut) = 5 /\ 0 \in Nat
    BY BasicLayout
  <2>2. 0 + 4 * Len(BasicPut) <= Len(buf)
    BY <1>3, <2>1
  <2> QED BY <1>2, <2>1, <2>2, StructOfStream
<1>5. PICK put : put = VariantPut[h.base.command]
  OBVIOUS
<1>6. h.u \in Structs(put)
  <2>1. IsLayout(put) /\ Len(put) = 7 /\ VariantRead[h.base.command] = put
    BY <1>3, <1>5, VariantLayouts DEF Variant
  <2>2. 20 + 4 * Len(put) <= Len(buf) /\ 20 \in Nat
    BY <1>3, <2>1
  <2> QED BY <1>2, <2>1, <2>2, StructOfStream
<1>7. h \in Headers
  <2>1. h.u \in UNION {Structs(VariantPut[c]) : c \in Commands}
    BY <1>3, <1>5, <1>6
  <2> QED BY <1>2, <1>3, <1>4, <1>5, <1>6, <2>1 DEF Headers
<1>8. Announced(h) \in SignedWord
  <2>1. GetU32(buf, 0) \in Commands
    BY <1>2, <1>3, BaseFields
  <2>2. GetI32(buf, TFL_OFFSET) \in SignedWord
    <3>1. TFL_OFFSET + 4 <= Len(buf)
      BY <1>3, Offsets
    <3> QED BY <3>1, Offsets, WordOfStream, SignedOfWord DEF GetI32
  <2> QED BY <1>1, <2>1, <2>2, DecodedLength, WordsAreInts
<1>9. Announced(h) \in Int
  BY <1>8, WordsAreInts
<1>10. PICK n \in Int : n = Announced(h)
  BY <1>9
<1>11. DecodedPayload(buf) = SubSeq(buf, 48 + 1, 48 + n)
  BY <1>1, <1>10, Offsets DEF DecodedPayload
<1>12. Len(buf) >= 48 + n /\ Len(buf) \in Nat /\ n <= MaxPayload /\ MaxPayload \in Nat
  BY <1>3, <1>10, MaxPayloadAssumption
<1>13. /\ SubSeq(buf, 48 + 1, 48 + n) \in Seq(Byte)
       /\ Len(SubSeq(buf, 48 + 1, 48 + n)) = IF n > 0 THEN n ELSE 0
  BY <1>10, <1>12
<1> QED BY <1>1, <1>7, <1>8, <1>10, <1>11, <1>12, <1>13 DEF Positive

\* The header and the lengths that are read ahead are the same once the frame
\* is cut out of the stream.
LEMMA ReadAhead ==
  ASSUME NEW buf \in Seq(Byte), NEW n \in Nat, 48 <= n, n <= Len(buf), GetU32(buf, 0) \in Commands
  PROVE  DecodedHeader(Take(buf, n)) = DecodedHeader(buf)
<1>1. IsLayout(BasicPut) /\ BasicRead = BasicPut /\ 0 + 4 * Len(BasicPut) <= n /\ 0 \in Nat
  BY BasicLayout
<1>2. GetStruct(BasicRead, Take(buf, n), 0) = GetStruct(BasicRead, buf, 0)
  BY <1>1, StructOfPrefix
<1>3. PICK base : base = GetStruct(BasicRead, buf, 0)
  OBVIOUS
<1>4. base.command \in Commands
  BY <1>3, BaseFields
<1>5. PICK put : put = VariantRead[base.command]
  OBVIOUS
<1>6. IsLayout(put) /\ 20 + 4 * Len(put) <= n /\ 20 \in Nat
  <2>1. Variant(VariantPut[base.command], put)
    BY <1>4, <1>5, VariantLayouts
  <2>2. IsLayout(put) /\ Len(put) = 7
    BY <2>1 DEF Variant
  <2> QED BY <2>2
<1>7. GetStruct(put, Take(buf, n), 20) = GetStruct(put, buf, 20)
  BY <1>6, StructOfPrefix
<1> QED BY <1>2, <1>3, <1>5, <1>7, Offsets DEF DecodedHeader

LEMMA CutStreamTypes ==
  ASSUME NEW buf \in Seq(Byte), NEW n \in Nat, n <= Len(buf)
  PROVE  /\ Take(buf, n) \in Seq(Byte) /\ Len(Take(buf, n)) = n
         /\ \A i \in 1 .. n : Take(buf, n)[i] = buf[i]
         /\ Drop(buf, n) \in Seq(Byte) /\ Len(Drop(buf, n)) = Len(buf) - n
BY DEF Take, Drop

\* serve_urb_echo answers a request with a header that encode_header takes.
LEMMA EchoReplyHeader ==
  ASSUME NEW h \in Headers, h.base.command \in {CMD_SUBMIT, CMD_UNLINK},
         NEW n \in Nat, n \in SignedWord
  PROVE  /\ EchoReply(h, n) \in Headers
         /\ h.base.command = CMD_SUBMIT =>
              /\ EchoReply(h, n).base.command = RET_SUBMIT
              /\ EchoReply(h, n).base.direction = USBIP_DIR_IN
              /\ EchoReply(h, n).u.number_of_packets = 0
              /\ EchoReply(h, n).u.setup0 = h.u.setup0 /\ EchoReply(h, n).u.setup4 = h.u.setup4
              /\ EchoReply(h, n).u.actual_length = n
              /\ Announced(EchoReply(h, n)) = n
         /\ h.base.command = CMD_UNLINK =>
              /\ EchoReply(h, n).base.command = RET_UNLINK
              /\ EchoReply(h, n).base.direction = h.base.direction
              /\ EchoReply(h, n).u = [f \in FieldsOf(RetUnlinkPut) |-> 0]
              /\ Announced(EchoReply(h, n)) = 0
         /\ EchoReply(h, n).base.seqnum = h.base.seqnum
         /\ EchoReply(h, n).base.devid = h.base.devid
         /\ EchoReply(h, n).base.ep = h.base.ep
<1>1. /\ h.base \in [FieldsOf(BasicPut) -> Word]
      /\ h.u \in Structs(VariantPut[h.base.command])
  BY HeaderParts DEF IsHeader
<1>2. FieldsOf(BasicPut) = {"command", "seqnum", "devid", "direction", "ep"}
  BY BasicLayout
<1>3. /\ CMD_SUBMIT = 1 /\ CMD_UNLINK = 2 /\ RET_SUBMIT = 3 /\ RET_UNLINK = 4
      /\ USBIP_DIR_IN = 1
  BY DEF CMD_SUBMIT, CMD_UNLINK, RET_SUBMIT, RET_UNLINK, USBIP_DIR_IN
<1>4. {1, 2, 3, 4} \subseteq Word
  <2>1. \A c \in Commands : c \in {1, 2, 3, 4}
    BY <1>3 DEF Commands
  <2>2. PICK n1 \in Nat : n1 = Radix * Radix /\ n1 >= 25
    BY TextAssumption, RadixAssumption
  <2>3. n1 * n1 >= 25 * n1 /\ n1 * n1 \in Nat
    BY <2>2
  <2>4. WordSpace = n1 * n1
    BY <2>2 DEF WordSpace, HalfSpace
  <2> QED BY <2>2, <2>3, <2>4 DEF Word
<1>5. CASE h.base.command = CMD_SUBMIT
  <2>1. PICK base : base = [h.base EXCEPT !.command = RET_SUBMIT, !.direction = USBIP_DIR_IN]
    OBVIOUS
  <2>2. /\ base \in [FieldsOf(BasicPut) -> Word]
        /\ base.command = RET_SUBMIT /\ base.direction = USBIP_DIR_IN
        /\ base.seqnum = h.base.seqnum /\ base.devid = h.base.devid /\ base.ep = h.base.ep
    BY <1>1, <1>2, <1>3, <1>4, <2>1
  <2>3. PICK u : u = [status |-> 0, actual_length |-> n, start_frame |-> 0,
                      number_of_packets |-> 0, error_count |-> 0,
                      setup0 |-> h.u.setup0, setup4 |-> h.u.setup4]
    OBVIOUS
  <2>4. EchoReply(h, n) = [base |-> base, u |-> u]
    BY <1>5, <2>1, <2>3 DEF EchoReply
  <2>5. h.u.setup0 \in Word /\ h.u.setup4 \in Word
    <3>1. CmdSubmitPut[6] = "setup0" /\ CmdSubmitPut[7] = "setup4" /\ DOMAIN CmdSubmitPut = 1 .. 7
      BY DEF CmdSubmitPut
    <3>2. {"setup0", "setup4"} \subseteq FieldsOf(CmdSubmitPut)
      BY <3>1 DEF FieldsOf
    <3>3. h.u \in Structs(CmdSubmitPut)
      BY <1>1, <1>3, <1>5 DEF VariantPut
    <3>4. "setup0" \notin SignedFields /\ "setup4" \notin SignedFields
      BY DEF SignedFields
    <3> QED BY <3>2, <3>3, <3>4 DEF Structs, FieldValues
  <2>6. FieldsOf(RetSubmitPut) = {"status", "actual_length", "start_frame", "number_of_packets",
                                  "error_count", "setup0", "setup4"}
    <3>1. /\ RetSubmitPut[1] = "status" /\ RetSubmitPut[2] = "actual_length"
          /\ RetSubmitPut[3] = "start_frame" /\ RetSubmitPut[4] = "number_of_packets"
          /\ RetSubmitPut[5] = "error_count" /\ RetSubmitPut[6] = "setup0"
          /\ RetSubmitPut[7] = "setup4" /\ DOMAIN RetSubmitPut = 1 .. 7
      BY DEF RetSubmitPut
    <3> QED BY <3>1 DEF FieldsOf
  <2>7. u \in Structs(RetSubmitPut)
    <3>1. u.setup0 \in Word /\ u.setup4 \in Word /\ u.actual_length \in SignedWord
      BY <2>3, <2>5
    <3>2. /\ u.status \in SignedWord /\ u.start_frame \in SignedWord
          /\ u.number_of_packets \in SignedWord /\ u.error_count \in SignedWord
      BY <2>3, WordsAreInts
    <3>3. /\ "setup0" \notin SignedFields /\ "setup4" \notin SignedFields
          /\ {"status", "actual_length", "start_frame", "number_of_packets", "error_count"}
               \subseteq SignedFields
      BY DEF SignedFields
    <3>4. \A f \in FieldsOf(RetSubmitPut) : u[f] \in FieldValues(f)
      BY <2>6, <3>1, <3>2, <3>3 DEF FieldValues
    <3>5. \A f : FieldValues(f) \subseteq Int
      BY WordsAreInts DEF FieldValues
    <3>6. DOMAIN u = FieldsOf(RetSubmitPut) /\ u = [f \in DOMAIN u |-> u[f]]
      BY <2>3, <2>6
    <3> QED BY <3>4, <3>5, <3>6 DEF Structs
  <2>8. base.command \in Commands /\ VariantPut[base.command] = RetSubmitPut
    BY <1>3, <2>2 DEF Commands, VariantPut
  <2>9. EchoReply(h, n) \in Headers
    BY <2>2, <2>4, <2>7, <2>8, HeaderIsOne
  <2>10. EchoReply(h, n).base = base /\ EchoReply(h, n).u = u
    BY <2>4
  <2>11. Announced(EchoReply(h, n)) = n
    BY <1>3, <2>2, <2>3, <2>10 DEF Announced
  <2> QED BY <1>3, <1>5, <2>2, <2>3, <2>9, <2>10, <2>11
<1>6. CASE h.base.command = CMD_UNLINK
  <2>1. PICK base : base = [h.base EXCEPT !.command = RET_UNLINK]
    OBVIOUS
  <2>2. /\ base \in [FieldsOf(BasicPut) -> Word]
        /\ base.command = RET_UNLINK /\ base.direction = h.base.direction
        /\ base.seqnum = h.base.seqnum /\ base.devid = h.base.devid /\ base.ep = h.base.ep
    BY <1>1, <1>2, <1>3, <1>4, <2>1
  <2>3. PICK u : u = [f \in FieldsOf(RetUnlinkPut) |-> 0]
    OBVIOUS
  <2>4. EchoReply(h, n) = [base |-> base, u |-> u]
    BY <1>3, <1>6, <2>1, <2>3 DEF EchoReply
  <2>5. u \in Structs(RetUnlinkPut)
    BY <2>3, WordsAreInts DEF Structs, FieldValues
  <2>6. base.command \in Commands /\ VariantPut[base.command] = RetUnlinkPut
    BY <1>3, <2>2 DEF Commands, VariantPut
  <2>7. EchoReply(h, n) \in Headers
    BY <2>2, <2>4, <2>5, <2>6, HeaderIsOne
  <2>8. EchoReply(h, n).base = base /\ EchoReply(h, n).u = u
    BY <2>4
  <2>9. Announced(EchoReply(h, n)) = 0
    BY <1>3, <2>2, <2>8 DEF Announced
  <2> QED BY <1>3, <1>6, <2>2, <2>3, <2>7, <2>8, <2>9
<1> QED BY <1>5, <1>6

\* What a reader that has cut a frame out of its stream has in its hands.
LEMMA ReadFrame ==
  ASSUME NEW buf \in Seq(Byte), NEW n \in Nat, n <= Len(buf), Decodes(Take(buf, n))
  PROVE  /\ DecodedHeader(Take(buf, n)) = DecodedHeader(buf)
         /\ DecodedHeader(buf) \in Headers
         /\ DecodedPayload(Take(buf, n)) \in Seq(Byte)
         /\ Announced(DecodedHeader(buf)) \in SignedWord
         /\ Announced(DecodedHeader(buf)) \in Int
         /\ Len(DecodedPayload(Take(buf, n))) = Positive(Announced(DecodedHeader(buf)))
         /\ Len(DecodedPayload(Take(buf, n))) <= MaxPayload
<1>1. PICK s : s = Take(buf, n)
  OBVIOUS
<1>2. s \in Seq(Byte) /\ Len(s) = n /\ \A i \in 1 .. n : s[i] = buf[i]
  BY <1>1, CutStreamTypes
<1>3. Decodes(s)
  BY <1>1
<1>4. n >= 48 /\ GetU32(s, 0) \in Commands
  BY <1>2, <1>3, BaseFields, Offsets DEF Decodes
<1>5. GetU32(s, 0) = GetU32(buf, 0)
  <2>1. 0 + 1 \in 1 .. n /\ 0 + 2 \in 1 .. n /\ 0 + 3 \in 1 .. n /\ 0 + 4 \in 1 .. n
    BY <1>4
  <2> QED BY <1>2, <2>1 DEF GetU32
<1>6. DecodedHeader(s) = DecodedHeader(buf)
  BY <1>1, <1>4, <1>5, ReadAhead
<1> QED BY <1>1, <1>2, <1>3, <1>6, DecodedTypes

\* Readers know how many bytes to wait for once they have 48.
LEMMA LengthTypes ==
  ASSUME NEW buf \in Seq(Byte), HasHeader(buf)
  PROVE  SessionLength(buf) \in Nat /\ EchoLength(buf) \in Nat
<1>1. Len(buf) >= 48 /\ TFL_OFFSET \in Nat /\ TFL_OFFSET + 4 <= Len(buf)
  BY Offsets DEF HasHeader
<1>2. GetI32(buf, TFL_OFFSET) \in Int
  BY <1>1, WordOfStream, SignedOfWord, WordsAreInts DEF GetI32
<1>3. Positive(GetI32(buf, TFL_OFFSET)) \in Nat
  BY <1>2 DEF Positive
<1> QED BY <1>3 DEF SessionLength, EchoLength

\* A CMD_SUBMIT or CMD_UNLINK is all that serve_urb_echo answers, and it has
\* waited for as many bytes as the header announces.
LEMMA EchoReads ==
  ASSUME NEW buf \in Seq(Byte), HasHeader(buf), NEW n, n = PAYLOAD_OFFSET + EchoLength(buf),
         n <= Len(buf), Echoes(Take(buf, n))
  PROVE  LET h == DecodedHeader(buf)
             t == DecodedPayload(Take(buf, n))
         IN  /\ n \in Nat /\ n >= 48
             /\ h \in Headers /\ h.base.command \in {CMD_SUBMIT, CMD_UNLINK}
             /\ t \in Seq(Byte) /\ Len(t) \in Nat /\ Len(t) \in SignedWord
             /\ Len(t) <= MaxPayload /\ Len(t) = Positive(Announced(h))
             /\ Encoded(EchoReply(h, Len(t)), t) \in Seq(Byte)
<1>1. n \in Nat /\ n >= 48
  BY LengthTypes, Offsets
<1>2. PICK h, t : h = DecodedHeader(buf) /\ t = DecodedPayload(Take(buf, n))
  OBVIOUS
<1>3. Decodes(Take(buf, n)) /\ DecodedHeader(Take(buf, n)).base.command \in {CMD_SUBMIT, CMD_UNLINK}
  BY DEF Echoes
<1>4. /\ DecodedHeader(Take(buf, n)) = h
      /\ h \in Headers /\ t \in Seq(Byte)
      /\ Announced(h) \in SignedWord /\ Announced(h) \in Int
      /\ Len(t) = Positive(Announced(h)) /\ Len(t) <= MaxPayload
  BY <1>1, <1>2, <1>3, ReadFrame
<1>5. h.base.command \in {CMD_SUBMIT, CMD_UNLINK}
  BY <1>3, <1>4
<1>6. Len(t) \in Nat /\ Len(t) \in SignedWord
  BY <1>4, WordsAreInts DEF Positive
<1>7. EchoReply(h, Len(t)) \in Headers
  BY <1>4, <1>5, <1>6, EchoReplyHeader
<1>8. Encoded(EchoReply(h, Len(t)), t) \in Seq(Byte)
  BY <1>4, <1>7, PayloadOnWire
<1> QED BY <1>1, <1>2, <1>4, <1>5, <1>6, <1>8

-----------------------------------------------------------------------------
(* Types *)

Types ==
  /\ client \in {"new", "requested", "imported", "open", "failed", "closed"}
  /\ server \in {"accepting", "asked", "serving", "gone", "strayed"}
  /\ name \in Names
  /\ nextSeq \in Word /\ calls \in 0 .. MaxCalls
  /\ up \in Seq(Byte) /\ down \in Seq(Byte)
  /\ sent \in Seq(Messages) /\ received \in Seq(Messages)

LEMMA NextNumber ==
  ASSUME NEW n \in Word
  PROVE  (n + 1) % WordSpace \in Word
<1>1. WordSpace \in Nat \ {0} /\ n \in Nat
  BY Spaces DEF Word
<1> QED BY <1>1 DEF Word

LEMMA InitTypes == Init => Types
<1> SUFFICES ASSUME Init PROVE Types
  OBVIOUS
<1>1. nextSeq \in Word
  BY WordsAreInts DEF Init
<1>2. calls \in 0 .. MaxCalls
  BY RequestsAssumption DEF Init
<1> QED BY <1>1, <1>2 DEF Init, Types

LEMMA MaySendTypes ==
  ASSUME Types, MaySend
  PROVE  nextSeq' \in Word /\ calls' \in 0 .. MaxCalls
<1>1. nextSeq' \in Word
  BY NextNumber DEF Types, MaySend
<1>2. MaxCalls \in Nat /\ calls \in 0 .. MaxCalls /\ calls < MaxCalls /\ calls' = calls + 1
  BY RequestsAssumption DEF Types, MaySend
<1>3. calls + 1 \in 0 .. MaxCalls
  BY <1>2
<1> QED BY <1>1, <1>2, <1>3

\* What send_header returned Ok for is a header as it should be.
LEMMA SentTypes ==
  ASSUME Types, NEW r \in Requests, Encodes(Numbered(r.header), r.given, r.payload)
  PROVE  /\ Numbered(r.header) \in Headers /\ r.payload \in Seq(Byte)
         /\ Encoded(Numbered(r.header), r.payload) \in Seq(Byte)
         /\ [header |-> Numbered(r.header), payload |-> r.payload] \in Messages
<1>1. IsHeader(r.header) /\ r.payload \in Seq(Byte)
  BY RequestsAssumption DEF RequestRecords
<1>2. Numbered(r.header).base.command = r.header.base.command
  <2>1. PICK base : base = [r.header.base EXCEPT !.seqnum = nextSeq]
    OBVIOUS
  <2>2. /\ r.header = [base |-> r.header.base, u |-> r.header.u]
        /\ r.header.base \in [FieldsOf(BasicPut) -> Word]
    BY <1>1 DEF IsHeader
  <2>3. Numbered(r.header) = [base |-> base, u |-> r.header.u]
    BY <2>1, <2>2 DEF Numbered
  <2>4. base.command = r.header.base.command
    BY <2>1, <2>2, BasicLayout
  <2> QED BY <2>3, <2>4
<1>3. r.header.base.command \in Commands
  BY <1>2 DEF Encodes
<1>4. Numbered(r.header) \in Headers
  BY <1>1, <1>3, NumberedHeader DEF Types
<1>5. Encoded(Numbered(r.header), r.payload) \in Seq(Byte)
  BY <1>1, <1>4, PayloadOnWire
<1> QED BY <1>1, <1>4, <1>5 DEF Messages

LEMMA ImportTypes ==
  ASSUME Types, Import
  PROVE  Types'
<1>1. CASE RefuseEmptyBusid
  BY <1>1 DEF RefuseEmptyBusid, Types, importVars, urbVars
<1>2. CASE SendImport
  <2>1. EncodeOpReqImport(ImportRequest(name)) \in Seq(Byte)
    BY NamesAssumption, RequestBytes DEF Types
  <2>2. up' \in Seq(Byte)
    BY <1>2, <2>1, AddPart DEF SendImport, Types
  <2> QED BY <1>2, <2>2 DEF SendImport, Types, importVars, urbVars
<1>3. CASE AcceptDevice
  <2>1. SizeOfOpReqImport \in Nat
    BY FieldsAssumption DEF SizeOfOpReqImport, Aligned
  <2>2. up' \in Seq(Byte)
    BY <1>3, <2>1, CutStreamTypes DEF AcceptDevice, Types
  <2>3. server' \in {"asked", "gone"}
    BY <1>3 DEF AcceptDevice
  <2> QED BY <1>3, <2>2, <2>3 DEF AcceptDevice, Types, urbVars
<1>4. ASSUME NEW rep \in Replies, SendOpRepImport(rep) PROVE Types'
  <2>1. EncodeOpRepImport(rep) \in Seq(Byte)
    BY RepliesAssumption, ReplyBytes
  <2>2. down' \in Seq(Byte)
    BY <1>4, <2>1, AddPart DEF SendOpRepImport, Types
  <2> QED BY <1>4, <2>2 DEF SendOpRepImport, Types, urbVars
<1>5. CASE ReceiveReply
  <2>1. SizeOfOpRepImport \in Nat
    BY FieldsAssumption DEF SizeOfOpRepImport, Aligned
  <2>2. down' \in Seq(Byte)
    BY <1>5, <2>1, CutStreamTypes DEF ReceiveReply, Types
  <2>3. client' \in {"imported", "failed"}
    BY <1>5 DEF ReceiveReply
  <2> QED BY <1>5, <2>2, <2>3 DEF ReceiveReply, Types, urbVars
<1>6. CASE ImportEof
  BY <1>6 DEF ImportEof, Types, importVars, urbVars
<1>7. CASE Connected
  BY <1>7 DEF Connected, Types, importVars, urbVars
<1>8. CASE KeepaliveFails
  BY <1>8 DEF KeepaliveFails, Types, importVars, urbVars
<1> QED BY <1>1, <1>2, <1>3, <1>4, <1>5, <1>6, <1>7, <1>8 DEF Import

LEMMA NextTypes ==
  ASSUME Types, [Next]_vars
  PROVE  Types'
<1>1. CASE Import
  BY <1>1, ImportTypes
<1>2. ASSUME NEW r \in Requests, SendHeader(r) PROVE Types'
  <2>1. MaySend /\ Encodes(Numbered(r.header), r.given, r.payload)
    BY <1>2 DEF SendHeader
  <2>2. nextSeq' \in Word /\ calls' \in 0 .. MaxCalls
    BY <2>1, MaySendTypes
  <2>3. up' \in Seq(Byte)
    BY <1>2, <2>1, SentTypes, AddPart DEF SendHeader, Types
  <2>4. sent' \in Seq(Messages)
    <3>1. [header |-> Numbered(r.header), payload |-> r.payload] \in Messages
      BY <2>1, SentTypes
    <3> QED BY <1>2, <3>1 DEF SendHeader, Types
  <2> QED BY <1>2, <2>2, <2>3, <2>4 DEF SendHeader, Types, importVars
<1>3. ASSUME NEW r \in Requests, SendRefused(r) PROVE Types'
  <2>1. nextSeq' \in Word /\ calls' \in 0 .. MaxCalls
    BY <1>3, MaySendTypes DEF SendRefused
  <2> QED BY <1>3, <2>1 DEF SendRefused, Types, importVars
<1>4. CASE Serve
  <2>1. /\ up \in Seq(Byte) /\ HasHeader(up) /\ EchoTakes = PAYLOAD_OFFSET + EchoLength(up)
        /\ EchoTakes <= Len(up) /\ Echoes(Take(up, EchoTakes))
    <3>1. Len(up) >= EchoTakes /\ Len(up) \in Nat /\ EchoTakes \in Nat
      BY <1>4, LengthTypes, Offsets DEF Serve, Types, EchoTakes
    <3> QED BY <1>4, <3>1 DEF Serve, Types, EchoTakes
  <2>2. /\ EchoTakes \in Nat
        /\ Encoded(EchoReply(DecodedHeader(up), Len(DecodedPayload(Take(up, EchoTakes)))),
                   DecodedPayload(Take(up, EchoTakes))) \in Seq(Byte)
    BY <2>1, EchoReads
  <2>3. down' \in Seq(Byte)
    BY <1>4, <2>2, AddPart DEF Serve, Types
  <2>4. up' \in Seq(Byte)
    BY <1>4, <2>1, <2>2, CutStreamTypes DEF Serve
  <2> QED BY <1>4, <2>3, <2>4 DEF Serve, Types, importVars, urbVars
<1>5. CASE ServeFails
  BY <1>5 DEF ServeFails, Types, importVars, urbVars
<1>6. ASSUME NEW f \in Strays, Stray(f) PROVE Types'
  <2>1. down' \in Seq(Byte)
    BY <1>6, StraysAssumption, AddPart DEF Stray, Types
  <2> QED BY <1>6, <2>1 DEF Stray, Types, importVars, urbVars
<1>7. CASE RecvHeader
  <2>1. /\ down \in Seq(Byte) /\ HasHeader(down) /\ Len(down) >= SessionTakes
        /\ SessionTakes = PAYLOAD_OFFSET + SessionLength(down)
        /\ Decodes(Take(down, SessionTakes))
    BY <1>7 DEF RecvHeader, Types, SessionTakes
  <2>2. SessionTakes \in Nat /\ SessionTakes <= Len(down)
    BY <2>1, LengthTypes, Offsets
  <2>3. DecodedHeader(down) \in Headers /\ DecodedPayload(Take(down, SessionTakes)) \in Seq(Byte)
    BY <2>1, <2>2, ReadFrame
  <2>4. [header |-> DecodedHeader(down), payload |-> DecodedPayload(Take(down, SessionTakes))]
          \in Messages
    BY <2>3 DEF Messages
  <2>5. received' \in Seq(Messages)
    BY <1>7, <2>4 DEF RecvHeader, Types
  <2>6. down' \in Seq(Byte)
    BY <1>7, <2>1, <2>2, CutStreamTypes DEF RecvHeader
  <2> QED BY <1>7, <2>5, <2>6 DEF RecvHeader, Types, importVars
<1>8. CASE RecvFails
  BY <1>8 DEF RecvFails, Types, importVars, urbVars
<1>9. CASE UNCHANGED vars
  BY <1>9 DEF vars, importVars, urbVars, Types
<1> QED BY <1>1, <1>2, <1>3, <1>4, <1>5, <1>6, <1>7, <1>8, <1>9 DEF Next

LEMMA AlwaysTypes == Spec => []Types
<1>1. Types /\ [Next]_vars => Types'
  BY NextTypes
<1> QED BY InitTypes, <1>1, PTL DEF Spec

\* Whatever bytes the other side sends, what recv_header_or_close returns is a
\* header with fields of their types (session.rs:87), and the numbers of the
\* session stay words (session.rs:69).
THEOREM AlwaysTyped == Spec => []TypeOK
<1>1. Types => TypeOK
  <2> SUFFICES ASSUME Types PROVE TypeOK
    OBVIOUS
  <2>1. ASSUME NEW k \in DOMAIN received
        PROVE  IsHeader(received[k].header) /\ received[k].payload \in Seq(Byte)
    <3>1. received[k] \in Messages
      BY DEF Types
    <3> QED BY <3>1, HeaderParts DEF Messages
  <2> QED BY <2>1 DEF Types, TypeOK
<1> QED BY AlwaysTypes, <1>1, PTL

\* Both streams are always such that UrbSession may count cells instead of
\* bytes.
THEOREM AlwaysAgree == Spec => []StreamsAgreeWithCells
<1>1. Types => StreamsAgreeWithCells
  BY BytesAgreeWithCells DEF Types, StreamsAgreeWithCells
<1> QED BY AlwaysTypes, <1>1, PTL

-----------------------------------------------------------------------------
(* The import *)

\* How far the import is, and what is under way meanwhile.
ImportInv ==
  /\ client \in {"new", "requested"} => reply = None
  /\ client \notin {"open", "closed"} => sent = <<>> /\ received = <<>>
  /\ client = "new" => server = "accepting" /\ up = <<>> /\ down = <<>>
  /\ client = "requested" =>
       \/ server = "accepting" /\ up = EncodeOpReqImport(ImportRequest(name)) /\ down = <<>>
       \/ server \in {"asked", "gone"} /\ up = <<>> /\ down = <<>>
       \/ server = "serving" /\ up = <<>> /\ answer \in OpRepImports /\ down = EncodeOpRepImport(answer)
       \/ /\ server = "strayed" /\ up = <<>> /\ answer \in OpRepImports
          /\ Begins(down, EncodeOpRepImport(answer))
  /\ client \in {"imported", "open", "closed"} => server \in {"serving", "gone", "strayed"}
  /\ client = "imported" /\ server # "strayed" => server = "serving" /\ up = <<>> /\ down = <<>>
  /\ reply # None =>
       /\ reply = answer /\ answer \in OpRepImports
       /\ server \in {"serving", "gone", "strayed"}

LEMMA SizesOfMessages ==
  /\ SizeOfOpReqImport \in Nat /\ SizeOfOpReqImport >= 4
  /\ SizeOfOpRepImport \in Nat /\ SizeOfOpRepImport >= 4 + PathBytes + BusidBytes + 24
BY FieldsAssumption DEF SizeOfOpReqImport, SizeOfOpRepImport, Aligned

LEMMA InitImport == Init => ImportInv
BY DEF Init, ImportInv

\* The reply the client waits for is all there.
LEMMA ReplyReceived ==
  ASSUME Types, ImportInv, ReceiveReply
  PROVE  /\ server \in {"serving", "strayed"} /\ answer \in OpRepImports /\ up = <<>>
         /\ DecodeOpRepImport(Take(down, SizeOfOpRepImport)) = answer
         /\ server = "serving" => down' = <<>>
<1>1. /\ down \in Seq(Byte) /\ Len(down) \in Nat /\ Len(down) >= SizeOfOpRepImport
      /\ down' = Drop(down, SizeOfOpRepImport)
  BY DEF Types, ReceiveReply
<1>2. /\ server \in {"serving", "strayed"} /\ answer \in OpRepImports /\ up = <<>>
      /\ server = "serving" => down = EncodeOpRepImport(answer)
      /\ server = "strayed" => Begins(down, EncodeOpRepImport(answer))
  <2>1. down # <<>>
    BY <1>1, SizesOfMessages, FieldsAssumption
  <2> QED BY <2>1 DEF ImportInv, ReceiveReply
<1>3. PICK s : s = EncodeOpRepImport(answer)
  OBVIOUS
<1>4. s \in Seq(Byte) /\ Len(s) = 4 + PathBytes + BusidBytes + 24
  BY <1>2, <1>3, ReplyBytes, FieldsAssumption
<1>5. Len(s) <= SizeOfOpRepImport /\ SizeOfOpRepImport \in Nat
  BY <1>4, SizesOfMessages
<1>6. Begins(down, s)
  <2>1. Begins(s, s)
    BY <1>4 DEF Begins
  <2> QED BY <1>2, <1>3, <2>1
<1>7. /\ Take(down, SizeOfOpRepImport) \in Seq(Byte)
      /\ Begins(Take(down, SizeOfOpRepImport), s)
  BY <1>1, <1>4, <1>5, <1>6, TakeBegins
<1>8. DecodeOpRepImport(Take(down, SizeOfOpRepImport)) = answer
  BY <1>2, <1>3, <1>7, ReplyRoundTrip
<1>9. ASSUME server = "serving" PROVE down' = <<>>
  <2>1. Len(down) = SizeOfOpRepImport
    BY <1>1, <1>2, <1>3, <1>4, <1>5, <1>9
  <2> QED BY <1>1, <1>5, <2>1 DEF Drop
<1> QED BY <1>2, <1>8, <1>9

\* The request that the server waits for is all there.
LEMMA RequestReceived ==
  ASSUME Types, ImportInv, AcceptDevice, client = "requested"
  PROVE  up' = <<>> /\ down = <<>>
<1>1. /\ up \in Seq(Byte) /\ Len(up) >= SizeOfOpReqImport /\ server = "accepting"
      /\ up' = Drop(up, SizeOfOpReqImport)
  BY DEF Types, AcceptDevice
<1>2. up = EncodeOpReqImport(ImportRequest(name)) /\ down = <<>>
  BY <1>1 DEF ImportInv
<1>3. Len(up) <= SizeOfOpReqImport
  BY <1>2, RequestBytes, NamesAssumption DEF Types
<1>4. Len(up) = SizeOfOpReqImport /\ SizeOfOpReqImport \in Nat
  BY <1>1, <1>3, SizesOfMessages
<1> QED BY <1>1, <1>2, <1>4 DEF Drop

LEMMA ImportStep ==
  ASSUME Types, ImportInv, Import
  PROVE  ImportInv'
<1>1. CASE RefuseEmptyBusid
  BY <1>1 DEF RefuseEmptyBusid, ImportInv, importVars, urbVars
<1>2. CASE SendImport
  <2>1. PICK req : req = EncodeOpReqImport(ImportRequest(name))
    OBVIOUS
  <2>2. req \in Seq(Byte)
    BY <2>1, NamesAssumption, RequestBytes DEF Types
  <2>3. up' = req
    BY <1>2, <2>1, <2>2 DEF SendImport, ImportInv
  <2> QED BY <1>2, <2>1, <2>3 DEF SendImport, ImportInv, importVars, urbVars
<1>3. CASE AcceptDevice
  <2>1. client # "new"
    <3>1. Len(up) >= 4
      BY <1>3, SizesOfMessages DEF AcceptDevice, Types
    <3> QED BY <3>1 DEF ImportInv
  <2>2. /\ server' \in {"asked", "gone"} /\ server = "accepting"
        /\ UNCHANGED <<client, down, name, answer, reply, sent, received>>
    BY <1>3 DEF AcceptDevice, urbVars
  <2>3. client = "requested" => up' = <<>> /\ down = <<>>
    BY <1>3, RequestReceived
  <2> QED BY <2>1, <2>2, <2>3 DEF ImportInv
<1>4. ASSUME NEW rep \in Replies, SendOpRepImport(rep) PROVE ImportInv'
  <2>1. rep \in OpRepImports
    BY RepliesAssumption
  <2>2. EncodeOpRepImport(rep) \in Seq(Byte)
    BY <2>1, ReplyBytes
  <2>3. client = "requested" => down' = EncodeOpRepImport(rep)
    BY <1>4, <2>2 DEF SendOpRepImport, ImportInv
  <2> QED BY <1>4, <2>1, <2>3 DEF SendOpRepImport, ImportInv, urbVars
<1>5. CASE ReceiveReply
  <2>1. PICK rep : rep = DecodeOpRepImport(Take(down, SizeOfOpRepImport))
    OBVIOUS
  <2>2. /\ client = "requested"
        /\ client' = IF Accepts(rep) THEN "imported" ELSE "failed"
        /\ reply' = IF Accepts(rep) THEN rep ELSE None
        /\ UNCHANGED <<server, up, answer, sent, received>>
    BY <1>5, <2>1 DEF ReceiveReply, urbVars
  <2>3. /\ server \in {"serving", "strayed"} /\ answer \in OpRepImports /\ up = <<>>
        /\ rep = answer /\ (server = "serving" => down' = <<>>)
    BY <1>5, <2>1, ReplyReceived
  <2> QED BY <2>2, <2>3 DEF ImportInv
<1>6. CASE ImportEof
  BY <1>6 DEF ImportEof, ImportInv, importVars, urbVars
<1>7. CASE Connected
  BY <1>7 DEF Connected, ImportInv, importVars, urbVars
<1>8. CASE KeepaliveFails
  BY <1>8 DEF KeepaliveFails, ImportInv, importVars, urbVars
<1> QED BY <1>1, <1>2, <1>3, <1>4, <1>5, <1>6, <1>7, <1>8 DEF Import

LEMMA NextImport ==
  ASSUME Types, ImportInv, [Next]_vars
  PROVE  ImportInv'
<1>1. CASE Import
  BY <1>1, ImportStep
<1>2. ASSUME NEW r \in Requests, SendHeader(r) \/ SendRefused(r) PROVE ImportInv'
  BY <1>2 DEF SendHeader, SendRefused, MaySend, ImportInv, importVars
<1>3. CASE Serve \/ ServeFails
  <2>1. up # <<>> /\ server = "serving" /\ server' \in {"serving", "gone"}
        /\ UNCHANGED <<client, importVars, urbVars>>
    BY <1>3, Offsets DEF Serve, ServeFails, HasHeader
  <2>2. client \notin {"new", "requested", "imported"}
    BY <2>1 DEF ImportInv
  <2> QED BY <2>1, <2>2 DEF ImportInv, importVars, urbVars
<1>4. ASSUME NEW f \in Strays, Stray(f) PROVE ImportInv'
  <2>1. client = "requested" => Begins(down', EncodeOpRepImport(answer))
    <3>1. SUFFICES ASSUME client = "requested" PROVE Begins(down', EncodeOpRepImport(answer))
      OBVIOUS
    <3>2. PICK s : s = EncodeOpRepImport(answer)
      OBVIOUS
    <3>3. s \in Seq(Byte) /\ down' = s \o f
      BY <1>4, <3>1, <3>2, ReplyBytes DEF Stray, ImportInv
    <3>4. f \in Seq(Byte)
      BY StraysAssumption
    <3> QED BY <3>2, <3>3, <3>4, AddPart
  <2>2. /\ server = "serving" /\ server' = "strayed"
        /\ UNCHANGED <<client, up, importVars, urbVars>>
    BY <1>4 DEF Stray
  <2> QED BY <2>1, <2>2 DEF ImportInv, importVars, urbVars
<1>5. CASE RecvHeader
  BY <1>5 DEF RecvHeader, ImportInv, importVars
<1>6. CASE RecvFails
  BY <1>6 DEF RecvFails, ImportInv, importVars, urbVars
<1>7. CASE UNCHANGED vars
  BY <1>7 DEF vars, importVars, urbVars, ImportInv
<1> QED BY <1>1, <1>2, <1>3, <1>4, <1>5, <1>6, <1>7 DEF Next

LEMMA AlwaysImport == Spec => [](Types /\ ImportInv)
<1>1. Types /\ ImportInv /\ [Next]_vars => (Types /\ ImportInv)'
  BY NextTypes, NextImport
<1> QED BY InitTypes, InitImport, <1>1, PTL DEF Spec

\* The device that a session stands for has the numbers, the class and the
\* speed of the reply that the server sent, whatever came behind it
\* (device.rs:42, types.rs:33).
THEOREM AlwaysIntact == Spec => []DeviceIntact
<1>1. Types /\ ImportInv => DeviceIntact
  <2> SUFFICES ASSUME ImportInv, reply # None PROVE DeviceIntact
    BY DEF DeviceIntact
  <2>1. reply = answer /\ answer \in OpRepImports
    BY DEF ImportInv
  <2>2. PICK d : d = Descriptor(answer)
    OBVIOUS
  <2>3. /\ d.id_vendor = answer.id_vendor /\ d.id_product = answer.id_product
        /\ d.busnum = answer.busnum /\ d.devnum = answer.devnum
        /\ d.b_device_class = answer.b_device_class
        /\ d.b_device_sub_class = answer.b_device_sub_class
        /\ d.b_device_protocol = answer.b_device_protocol
        /\ d.speed = SpeedOf(answer.speed)
    BY <2>1, <2>2 DEF Descriptor, OpRepImports
  <2>4. /\ Device.vid = d.id_vendor /\ Device.pid = d.id_product
        /\ Device.busnum = d.busnum /\ Device.devnum = d.devnum /\ Device.speed = d.speed
        /\ Device.b_device_class = d.b_device_class
        /\ Device.b_device_sub_class = d.b_device_sub_class
        /\ Device.b_device_protocol = d.b_device_protocol
    BY <2>1, <2>2 DEF Device, UsbDevice
  <2> QED BY <2>3, <2>4 DEF DeviceIntact, SpeedOf
<1> QED BY AlwaysImport, <1>1, PTL

\* A text that is cut at its NULs fills the field as it did, and is empty if
\* there was nothing else.
LEMMA TrimmedField ==
  ASSUME NEW n \in Nat, NEW s \in [1 .. n -> Byte]
  PROVE  /\ Field(TrimNuls(s), n) = s
         /\ TrimNuls(s) = <<>> <=> \A i \in 1 .. n : s[i] = Nul
<1>1. s \in Seq(Byte) /\ Len(s) = n
  BY FieldBytes
<1> DEFINE T == {m \in 0 .. n : \A i \in m + 1 .. n : s[i] = Nul}
<1>2. T \subseteq Nat /\ n \in T
  OBVIOUS
<1>3. PICK m \in T : \A k \in T : m <= k
  <2> HIDE DEF T
  <2> QED BY <1>2, LeastNatural
<1>4. m \in 0 .. n /\ \A i \in m + 1 .. n : s[i] = Nul
  BY <1>3
<1>5. m > 0 => s[m] # Nul
  <2>1. SUFFICES ASSUME m > 0, s[m] = Nul PROVE FALSE
    OBVIOUS
  <2>2. m - 1 \in 0 .. n /\ \A i \in (m - 1) + 1 .. n : i = m \/ i \in m + 1 .. n
    BY <1>4, <2>1
  <2>3. m - 1 \in T
    BY <1>4, <2>1, <2>2
  <2>4. m <= m - 1
    BY <1>3, <2>3
  <2> QED BY <1>4, <2>4
<1> DEFINE Ends(k) == (\A i \in k + 1 .. Len(s) : s[i] = Nul) /\ (k > 0 => s[k] # Nul)
<1>6. PICK k : k = CHOOSE j \in 0 .. Len(s) : Ends(j)
  OBVIOUS
<1>7. k \in 0 .. Len(s) /\ Ends(k)
  <2>1. m \in 0 .. Len(s) /\ Ends(m)
    BY <1>1, <1>4, <1>5
  <2> HIDE DEF Ends
  <2> QED BY <1>6, <2>1
<1>8. TrimNuls(s) = SubSeq(s, 1, k)
  BY <1>6 DEF TrimNuls
<1>9. k \in 0 .. n /\ \A i \in k + 1 .. n : s[i] = Nul
  BY <1>1, <1>7
<1>10. PICK t : t = SubSeq(s, 1, k)
  OBVIOUS
<1>11. t \in Seq(Byte) /\ Len(t) = k /\ \A i \in 1 .. k : t[i] = s[i]
  BY <1>1, <1>9, <1>10
<1>12. \A i \in 1 .. n : (IF i <= Len(t) THEN t[i] ELSE Nul) = s[i]
  BY <1>9, <1>11
<1>13. Field(t, n) = [i \in 1 .. n |-> s[i]]
  BY <1>12 DEF Field
<1>14. Field(TrimNuls(s), n) = s
  BY <1>8, <1>10, <1>13
<1>15. ASSUME t = <<>> PROVE \A i \in 1 .. n : s[i] = Nul
  <2>1. k = 0
    BY <1>11, <1>15
  <2> QED BY <1>9, <2>1
<1>16. ASSUME \A i \in 1 .. n : s[i] = Nul PROVE t = <<>>
  <2>1. k = 0
    <3>1. k > 0 => k \in 1 .. n /\ s[k] # Nul
      BY <1>1, <1>7
    <3> QED BY <1>9, <1>16, <3>1
  <2> QED BY <1>11, <2>1
<1> QED BY <1>8, <1>10, <1>14, <1>15, <1>16

\* A device whose busid a server would accept can be imported again by the name
\* that the port shows (types.rs:33): import_device takes it (handshake.rs:40) and
\* asks with the same field.  A field of zeros shows as the name that it refuses.
THEOREM AlwaysLeadsBack == Spec => []NameLeadsBack
<1>1. Types /\ ImportInv => NameLeadsBack
  <2> SUFFICES ASSUME ImportInv, reply # None, IsUtf8(answer.busid)
               PROVE  IF NamesDevice(answer)
                        THEN Device.busid # <<>> /\ ImportRequest(Device.busid).busid = answer.busid
                        ELSE Device.busid = <<>>
    BY DEF NameLeadsBack
  <2>1. reply = answer /\ answer \in OpRepImports
    BY DEF ImportInv
  <2>2. answer.busid \in [1 .. BusidBytes -> Byte] /\ BusidBytes \in Nat
    BY <2>1, FieldsAssumption DEF OpRepImports
  <2>3. Descriptor(answer).busid = answer.busid
    BY <2>1 DEF Descriptor, OpRepImports
  <2>4. Device.busid = TrimNuls(FromUtf8Lossy(answer.busid))
    BY <2>1, <2>3 DEF Device, UsbDevice, DeviceName
  <2>5. Device.busid = TrimNuls(answer.busid)
    BY <2>4 DEF IsUtf8
  <2>6. ImportRequest(Device.busid).busid = Field(Device.busid, BusidBytes)
    BY DEF ImportRequest
  <2>7. ImportRequest(Device.busid).busid = answer.busid
    BY <2>2, <2>5, <2>6, TrimmedField
  <2>8. Device.busid = <<>> <=> \A i \in 1 .. BusidBytes : answer.busid[i] = Nul
    BY <2>2, <2>5, TrimmedField
  <2>9. NamesDevice(answer) <=> \E i \in 1 .. BusidBytes : answer.busid[i] # Nul
    BY <2>2 DEF NamesDevice
  <2> QED BY <2>7, <2>8, <2>9
<1> QED BY AlwaysImport, <1>1, PTL

-----------------------------------------------------------------------------
(* Frames in a stream of bytes *)

LEMMA SplitStream ==
  ASSUME NEW s \in Seq(Byte), NEW r \in Seq(Byte)
  PROVE  Take(s \o r, Len(s)) = s /\ Drop(s \o r, Len(s)) = r
<1>1. PICK st : st = s \o r
  OBVIOUS
<1>2. /\ st \in Seq(Byte) /\ Len(s) \in Nat /\ Len(r) \in Nat /\ Len(st) = Len(s) + Len(r)
      /\ \A i \in 1 .. Len(s) : st[i] = s[i]
      /\ \A i \in 1 .. Len(r) : st[Len(s) + i] = r[i]
  BY <1>1, JoinedElements
<1>3. PICK a, b : a = Take(st, Len(s)) /\ b = Drop(st, Len(s))
  OBVIOUS
<1>4. /\ a \in Seq(Byte) /\ Len(a) = Len(s) /\ \A i \in 1 .. Len(s) : a[i] = st[i]
      /\ b \in Seq(Byte) /\ Len(b) = Len(r) /\ \A i \in 1 .. Len(r) : b[i] = st[Len(s) + i]
  BY <1>2, <1>3 DEF Take, Drop
<1>5. a = s
  <2>1. \A i \in 1 .. Len(a) : a[i] = s[i]
    BY <1>2, <1>4
  <2> QED BY <1>4, <2>1, SameElements
<1>6. b = r
  <2>1. \A i \in 1 .. Len(b) : b[i] = r[i]
    BY <1>2, <1>4
  <2> QED BY <1>4, <2>1, SameElements
<1> QED BY <1>1, <1>3, <1>5, <1>6

LEMMA JoinStream ==
  ASSUME NEW s \in Seq(Byte), NEW n \in Nat, n <= Len(s)
  PROVE  s = Take(s, n) \o Drop(s, n)
<1>1. PICK a, b : a = Take(s, n) /\ b = Drop(s, n)
  OBVIOUS
<1>2. /\ a \in Seq(Byte) /\ Len(a) = n /\ b \in Seq(Byte) /\ Len(b) = Len(s) - n
      /\ \A i \in 1 .. n : a[i] = s[i]
      /\ \A i \in 1 .. Len(s) - n : b[i] = s[n + i]
  BY <1>1 DEF Take, Drop
<1>3. PICK t : t = a \o b
  OBVIOUS
<1>4. /\ t \in Seq(Byte) /\ Len(t) = Len(a) + Len(b)
      /\ \A i \in 1 .. Len(a) : t[i] = a[i]
      /\ \A i \in 1 .. Len(b) : t[Len(a) + i] = b[i]
  BY <1>2, <1>3, JoinedElements
<1>5. Len(t) = Len(s) /\ Len(s) \in Nat
  BY <1>2, <1>4
<1>6. ASSUME NEW i \in 1 .. Len(t) PROVE t[i] = s[i]
  <2>1. CASE i <= n
    BY <1>2, <1>4, <2>1
  <2>2. CASE i > n
    <3>1. PICK j \in 1 .. Len(s) - n : n + j = i
      <4>1. i \in Nat /\ i <= Len(s)
        BY <1>5
      <4>2. i - n \in 1 .. Len(s) - n /\ n + (i - n) = i
        BY <1>5, <2>2, <4>1
      <4> QED BY <4>2
    <3>2. b[j] = s[n + j]
      BY <1>2
    <3>3. j \in 1 .. Len(b) /\ Len(a) = n
      BY <1>2
    <3>4. t[Len(a) + j] = b[j]
      BY <1>4, <3>3
    <3> QED BY <3>1, <3>2, <3>3, <3>4
  <2> QED BY <2>1, <2>2
<1> QED BY <1>1, <1>3, <1>4, <1>5, <1>6, SameElements

\* The stream s is frame a and a stream with the frames that follow it.
StartsWith(s, f, a, b, p) ==
  \E r \in Seq(Byte) :
    /\ s = f[a] \o r
    /\ \E q : LaidOut(r, f, a + 1, b, q) /\ p[b + 1] = Len(f[a]) + q[b + 1]

\* A stream that shows at least one whole frame begins with it.
LEMMA FirstFrame ==
  ASSUME NEW s \in Seq(Byte), NEW f, NEW a \in Nat, NEW b \in Nat, Frames(Byte, f, a, b), a <= b,
         NEW p, LaidOut(s, f, a, b, p), p[b + 1] <= Len(s)
  PROVE  StartsWith(s, f, a, b, p)
<1>1. a \in a .. b /\ a + 1 \in a .. b + 1 /\ b + 1 \in a .. b + 1
  OBVIOUS
<1>2. /\ p[a + 1] <= p[b + 1] /\ p[a + 1] = p[a] + Len(f[a]) /\ p[a] = 0
      /\ p[b + 1] \in Nat
  <2>1. a + 1 <= b + 1
    OBVIOUS
  <2> QED BY <1>1, <2>1 DEF LaidOut, Positions
<1>3. f[a] \in Seq(Byte) /\ Len(f[a]) \in Nat
  BY <1>1 DEF Frames
<1>4. PICK n \in Nat : n = Len(f[a])
  BY <1>3
<1>5. n <= Len(s)
  BY <1>2, <1>4
<1>6. PICK x, r : x = Take(s, n) /\ r = Drop(s, n)
  OBVIOUS
<1>7. x \in Seq(Byte) /\ Len(x) = Len(f[a]) /\ r \in Seq(Byte)
  BY <1>4, <1>5, <1>6, CutStreamTypes
<1>8. s = x \o r
  BY <1>4, <1>5, <1>6, JoinStream
<1>9. LaidOut(x \o r, f, a, b, p)
  BY <1>8
<1>10. /\ x = f[a]
       /\ \E q : LaidOut(r, f, a + 1, b, q) /\ p[b + 1] = Len(x) + q[b + 1]
  BY <1>7, <1>9, DropFirstFrame
<1> QED BY <1>7, <1>8, <1>10 DEF StartsWith

\* The readers and the decoder on a frame, in terms of headers.
LEMMA FrameDecoded ==
  ASSUME NEW h \in Headers, NEW payload \in Seq(Byte), NEW rest \in Seq(Byte),
         Encodes(h, TRUE, payload), Announced(h) > 0 => Len(payload) = Announced(h)
  PROVE  LET buf == Encoded(h, payload) \o rest
         IN  /\ Decodes(buf) /\ DecodedHeader(buf) = h
             /\ DecodedPayload(buf) = OnWire(h, payload)
<1>1. PICK base, u : base = h.base /\ u = h.u
  OBVIOUS
<1>2. /\ h = [base |-> base, u |-> u]
      /\ base \in Structs(BasicPut) /\ base.command \in Commands
      /\ u \in Structs(VariantPut[base.command])
  BY <1>1, HeaderParts
<1>3. /\ Encodes([base |-> base, u |-> u], TRUE, payload)
      /\ Announced([base |-> base, u |-> u]) > 0
           => Len(payload) = Announced([base |-> base, u |-> u])
  BY <1>2
<1>4. PICK g : g = [base |-> base, u |-> u]
  OBVIOUS
<1>5. LET buf == Encoded(g, payload) \o rest
      IN  /\ Decodes(buf) /\ DecodedHeader(buf) = g
          /\ DecodedPayload(buf) = OnWire(g, payload)
  BY <1>2, <1>3, <1>4, HeaderRoundTrip
<1> QED BY <1>2, <1>4, <1>5

LEMMA FrameRead ==
  ASSUME NEW h \in Headers, NEW payload \in Seq(Byte), NEW rest \in Seq(Byte)
  PROVE  LET buf == Encoded(h, payload) \o rest
         IN  /\ SessionLength(buf) = Positive(Announced(h))
             /\ h.base.command = CMD_SUBMIT => EchoLength(buf) = Positive(Announced(h))
             /\ h.base.command \in {CMD_SUBMIT, RET_SUBMIT}
                  => GetI32(buf, NUM_PACKETS_OFFSET) = h.u.number_of_packets
<1>1. PICK base, u : base = h.base /\ u = h.u
  OBVIOUS
<1>2. /\ h = [base |-> base, u |-> u]
      /\ base \in Structs(BasicPut) /\ base.command \in Commands
      /\ u \in Structs(VariantPut[base.command])
  BY <1>1, HeaderParts
<1>3. PICK g : g = [base |-> base, u |-> u]
  OBVIOUS
<1>4. LET buf == Encoded(g, payload) \o rest
      IN  /\ SessionLength(buf) = Positive(Announced(g))
          /\ base.command = CMD_SUBMIT => EchoLength(buf) = Positive(Announced(g))
          /\ base.command \in {CMD_SUBMIT, RET_SUBMIT}
               => GetI32(buf, NUM_PACKETS_OFFSET) = u.number_of_packets
  BY <1>2, <1>3, ReadersAgree
<1> QED BY <1>1, <1>2, <1>3, <1>4

\* What serve_urb_echo writes: a RET_SUBMIT with all of its payload, or a
\* RET_UNLINK that is zeros.
ReplyOf(h, t) ==
  /\ h \in Headers /\ t \in Seq(Byte) /\ Len(t) <= MaxPayload
  /\ h.base.direction \in Directions
  /\ \/ h.base.command = RET_SUBMIT /\ h.u.number_of_packets = 0 /\ Announced(h) = Len(t)
     \/ h.base.command = RET_UNLINK /\ h.u = [f \in FieldsOf(RetUnlinkPut) |-> 0] /\ t = <<>>

LEMMA ReplyFrame ==
  ASSUME NEW h, NEW t, ReplyOf(h, t)
  PROVE  /\ h \in Headers /\ t \in Seq(Byte) /\ Len(t) \in Nat
         /\ OnWire(h, t) = t /\ Positive(Announced(h)) = Len(t)
         /\ Encoded(h, t) \in Seq(Byte) /\ Len(Encoded(h, t)) = 48 + Len(t)
         /\ Encodes(h, TRUE, t)
         /\ Announced(h) > 0 => Len(t) = Announced(h)
<1>1. h \in Headers /\ t \in Seq(Byte) /\ Len(t) \in Nat /\ Len(t) <= MaxPayload
  BY DEF ReplyOf
<1>2. CMD_SUBMIT = 1 /\ RET_SUBMIT = 3 /\ RET_UNLINK = 4
  BY DEF CMD_SUBMIT, RET_SUBMIT, RET_UNLINK
<1>3. h.base.command = RET_UNLINK => Announced(h) = 0
  BY <1>2 DEF Announced
<1>4. t = <<>> => Len(t) = 0
  OBVIOUS
<1>5. Len(t) = 0 => t = <<>>
  BY <1>1
<1>6. Announced(h) = Len(t)
  BY <1>3, <1>4 DEF ReplyOf
<1>7. OnWire(h, t) = t /\ Positive(Announced(h)) = Len(t)
  BY <1>1, <1>5, <1>6 DEF OnWire, Positive
<1>8. Encoded(h, t) \in Seq(Byte) /\ Len(Encoded(h, t)) = 48 + Len(t)
  BY <1>1, <1>7, PayloadOnWire
<1>9. Encodes(h, TRUE, t)
  BY <1>1, <1>2, HeaderParts DEF Encodes, ReplyOf
<1> QED BY <1>1, <1>6, <1>7, <1>8, <1>9

\* The session takes n elements of a stream for h with the payload t, and
\* leaves the rest.
ReadsAs(buf, n, h, t, rest) ==
  /\ HasHeader(buf) /\ ~SessionRefuses(buf)
  /\ Len(buf) >= n
  /\ Decodes(Take(buf, n))
  /\ DecodedHeader(buf) = h /\ DecodedPayload(Take(buf, n)) = t
  /\ Drop(buf, n) = rest

\* recv_header_inner on a stream that begins with such an answer.
LEMMA ReplyRead ==
  ASSUME NEW h, NEW t, ReplyOf(h, t), NEW rest \in Seq(Byte),
         NEW buf, buf = Encoded(h, t) \o rest, NEW n, n = PAYLOAD_OFFSET + SessionLength(buf)
  PROVE  ReadsAs(buf, n, h, t, rest)
<1>1. /\ h \in Headers /\ t \in Seq(Byte) /\ Len(t) \in Nat
      /\ OnWire(h, t) = t /\ Positive(Announced(h)) = Len(t)
      /\ Encodes(h, TRUE, t) /\ (Announced(h) > 0 => Len(t) = Announced(h))
  BY ReplyFrame
<1>2. PICK s : s = Encoded(h, t)
  OBVIOUS
<1>3. s \in Seq(Byte) /\ Len(s) = 48 + Len(t)
  BY <1>2, ReplyFrame
<1>4. buf \in Seq(Byte) /\ Len(buf) = Len(s) + Len(rest) /\ Len(rest) \in Nat
  BY <1>2, <1>3, JoinedElements
<1>5. SessionLength(buf) = Len(t)
  BY <1>1, FrameRead
<1>6. n = Len(s) /\ Len(buf) >= n /\ Len(buf) >= 48
  BY <1>1, <1>3, <1>4, <1>5, Offsets
<1>7. Take(buf, n) = s /\ Drop(buf, n) = rest
  BY <1>2, <1>3, <1>6, SplitStream
<1>8. s = s \o <<>>
  BY <1>3
<1>9. <<>> \in Seq(Byte)
  OBVIOUS
<1>10. Decodes(s) /\ DecodedPayload(s) = t
  <2>1. PICK z : z = Encoded(h, t) \o <<>>
    OBVIOUS
  <2>2. Decodes(z) /\ DecodedPayload(z) = OnWire(h, t)
    BY <1>1, <1>9, <2>1, FrameDecoded
  <2>3. z = s
    BY <1>2, <1>8, <2>1
  <2> QED BY <1>1, <2>2, <2>3
<1>11. DecodedHeader(buf) = h
  BY <1>1, FrameDecoded
<1>12. GetI32(buf, NUM_PACKETS_OFFSET) = 0
  <2>1. CASE h.base.command = RET_SUBMIT
    <3>1. GetI32(buf, NUM_PACKETS_OFFSET) = h.u.number_of_packets
      BY <1>1, <2>1, FrameRead
    <3>2. h.u.number_of_packets = 0
      BY <2>1 DEF ReplyOf, RET_SUBMIT, RET_UNLINK
    <3> QED BY <3>1, <3>2
  <2>2. CASE h.base.command = RET_UNLINK
    <3>1. h.u = [f \in FieldsOf(RetUnlinkPut) |-> 0]
      BY <2>2 DEF ReplyOf, RET_SUBMIT, RET_UNLINK
    <3>2. PICK base, u : base = h.base /\ u = h.u
      OBVIOUS
    <3>3. /\ h = [base |-> base, u |-> u]
          /\ base \in Structs(BasicPut) /\ base.command \in Commands
          /\ u \in Structs(VariantPut[base.command])
      BY <1>1, <3>2, HeaderParts
    <3>4. Holds(buf, BASIC_HEADER_SIZE, VariantPut[base.command], u)
      BY <1>1, <3>3, FrameHolds
    <3>5. PICK put : put = VariantPut[base.command]
      OBVIOUS
    <3>6. put = RetUnlinkPut
      BY <2>2, <3>2, <3>5 DEF VariantPut, RET_UNLINK
    <3>7. IsLayout(put) /\ Len(put) = 7 /\ 4 \in 1 .. Len(put)
      BY <3>6, UnlinkLayouts DEF Variant
    <3>8. u \in Structs(put) /\ Holds(buf, BASIC_HEADER_SIZE, put, u)
      BY <3>3, <3>4, <3>5
    <3>9. GetU32(buf, BASIC_HEADER_SIZE + 4 * (4 - 1)) = AsWord(u[put[4]])
      BY <1>4, <3>7, <3>8, FieldAtOffset
    <3>10. u[put[4]] = 0
      BY <3>1, <3>2, <3>6, <3>7, PlaceIsIndex
    <3>11. BASIC_HEADER_SIZE + 4 * (4 - 1) = NUM_PACKETS_OFFSET
      BY DEF BASIC_HEADER_SIZE, NUM_PACKETS_OFFSET
    <3>12. AsWord(0) = 0 /\ AsSigned(0) = 0
      BY WordsAreInts, SignedRoundTrip DEF AsWord
    <3> QED BY <3>9, <3>10, <3>11, <3>12 DEF GetI32
  <2> QED BY <2>1, <2>2 DEF ReplyOf
<1>13. ~SessionRefuses(buf)
  <2>1. Len(t) <= MaxPayload /\ MaxPayload \in Nat
    BY MaxPayloadAssumption DEF ReplyOf
  <2> QED BY <1>1, <1>5, <1>12, <2>1 DEF SessionRefuses
<1>14. HasHeader(buf)
  BY <1>6, Offsets DEF HasHeader
<1> QED BY <1>6, <1>7, <1>10, <1>11, <1>13, <1>14 DEF ReadsAs

LEMMA AnnouncedIsSigned ==
  ASSUME NEW h \in Headers
  PROVE  Announced(h) \in SignedWord /\ Announced(h) \in Int
<1>1. /\ h.base.command \in Commands /\ h.u \in Structs(VariantPut[h.base.command])
  BY HeaderParts
<1>2. /\ "transfer_buffer_length" \in SignedFields /\ "actual_length" \in SignedFields
  BY DEF SignedFields
<1>3. ASSUME NEW put, IsLayout(put), Len(put) = 7, h.u \in Structs(put), put[2] \in SignedFields
      PROVE  h.u[put[2]] \in SignedWord
  <2>1. put[2] \in FieldsOf(put)
    BY <1>3, PlaceIsIndex
  <2> QED BY <1>3, <2>1 DEF Structs, FieldValues
<1>4. CASE h.base.command = CMD_SUBMIT
  <2>1. VariantPut[h.base.command] = CmdSubmitPut
    BY <1>4 DEF VariantPut, CMD_SUBMIT
  <2>2. h.u.transfer_buffer_length \in SignedWord
    BY <1>1, <1>2, <1>3, <2>1, SubmitLayout DEF Variant
  <2>3. CMD_SUBMIT # RET_SUBMIT
    BY DEF CMD_SUBMIT, RET_SUBMIT
  <2> QED BY <1>4, <2>2, <2>3, WordsAreInts DEF Announced
<1>5. CASE h.base.command = RET_SUBMIT
  <2>1. VariantPut[h.base.command] = RetSubmitPut
    BY <1>5 DEF VariantPut, RET_SUBMIT
  <2>2. h.u.actual_length \in SignedWord
    BY <1>1, <1>2, <1>3, <2>1, RetSubmitLayout DEF Variant
  <2>3. CMD_SUBMIT # RET_SUBMIT
    BY DEF CMD_SUBMIT, RET_SUBMIT
  <2> QED BY <1>5, <2>2, <2>3, WordsAreInts DEF Announced
<1>6. CASE h.base.command \notin {CMD_SUBMIT, RET_SUBMIT}
  BY <1>6, WordsAreInts DEF Announced
<1> QED BY <1>4, <1>5, <1>6

\* Whatever serve_urb_echo takes for a request, its answer is one the client
\* can read.
LEMMA ReplyServed ==
  ASSUME NEW h \in Headers, h.base.command \in {CMD_SUBMIT, CMD_UNLINK},
         h.base.direction \in Directions,
         NEW t \in Seq(Byte), Len(t) \in SignedWord, Len(t) <= MaxPayload,
         Len(t) = Positive(Announced(h))
  PROVE  ReplyOf(EchoReply(h, Len(t)), t)
<1>1. Len(t) \in Nat
  OBVIOUS
<1>2. PICK r : r = EchoReply(h, Len(t))
  OBVIOUS
<1>3. r \in Headers
  BY <1>1, <1>2, EchoReplyHeader
<1>4. CASE h.base.command = CMD_SUBMIT
  <2>1. /\ r.base.command = RET_SUBMIT /\ r.base.direction = USBIP_DIR_IN
        /\ r.u.number_of_packets = 0 /\ Announced(r) = Len(t)
    BY <1>1, <1>2, <1>4, EchoReplyHeader
  <2> QED BY <1>2, <1>3, <2>1 DEF ReplyOf, Directions
<1>5. CASE h.base.command = CMD_UNLINK
  <2>1. /\ r.base.command = RET_UNLINK /\ r.base.direction = h.base.direction
        /\ r.u = [f \in FieldsOf(RetUnlinkPut) |-> 0]
    BY <1>1, <1>2, <1>5, EchoReplyHeader
  <2>2. Announced(h) = 0
    BY <1>5 DEF Announced, CMD_SUBMIT, CMD_UNLINK, RET_SUBMIT
  <2>3. t = <<>>
    BY <2>2 DEF Positive
  <2> QED BY <1>2, <1>3, <2>1, <2>3 DEF ReplyOf
<1> QED BY <1>4, <1>5

EchoOf(m) ==
  LET t == OnWire(m.header, m.payload)
  IN  [header |-> EchoReply(m.header, Len(t)), payload |-> t]

\* serve_urb_echo on a stream that begins with a request that fits.
LEMMA RequestServed ==
  ASSUME NEW m \in Messages, Encodes(m.header, TRUE, m.payload), Fits(m),
         NEW rest \in Seq(Byte), NEW buf, buf = Encoded(m.header, m.payload) \o rest,
         HasHeader(buf), NEW n, n = PAYLOAD_OFFSET + EchoLength(buf), n <= Len(buf),
         Echoes(Take(buf, n))
  PROVE  /\ m.header.base.command \in {CMD_SUBMIT, CMD_UNLINK}
         /\ n = Len(Encoded(m.header, m.payload)) /\ Drop(buf, n) = rest
         /\ DecodedHeader(buf) = m.header
         /\ DecodedPayload(Take(buf, n)) = OnWire(m.header, m.payload)
<1>1. PICK h, p : h = m.header /\ p = m.payload
  OBVIOUS
<1>2. /\ h \in Headers /\ p \in Seq(Byte) /\ Encodes(h, TRUE, p)
      /\ (Announced(h) > 0 => Len(p) = Announced(h)) /\ buf = Encoded(h, p) \o rest
  BY <1>1 DEF Messages, Fits
<1>3. PICK s : s = Encoded(h, p)
  OBVIOUS
<1>4. PICK t : t = OnWire(h, p)
  OBVIOUS
<1>5. /\ Announced(h) \in Int /\ s \in Seq(Byte) /\ t \in Seq(Byte) /\ Len(s) = 48 + Len(t)
      /\ t = IF Announced(h) > 0 THEN p ELSE <<>>
  BY <1>2, <1>3, <1>4, PayloadOnWire
<1>6. Len(t) = Positive(Announced(h)) /\ Len(t) \in Nat
  BY <1>2, <1>5 DEF Positive
<1>7. DecodedHeader(buf) = h
  <2>1. h \in Headers /\ p \in Seq(Byte) /\ Encodes(h, TRUE, p)
    BY <1>2
  <2>2. Announced(h) > 0 => Len(p) = Announced(h)
    BY <1>2
  <2>3. DecodedHeader(Encoded(h, p) \o rest) = h
    BY <2>1, <2>2, FrameDecoded
  <2> QED BY <1>2, <2>3
<1>8. buf \in Seq(Byte)
  BY <1>2, <1>3, <1>5, JoinedElements
<1>9. h.base.command \in {CMD_SUBMIT, CMD_UNLINK}
  BY <1>7, <1>8, EchoReads
<1>10. EchoLength(buf) = Len(t)
  <2>1. CASE h.base.command = CMD_SUBMIT
    BY <1>2, <1>6, <2>1, FrameRead
  <2>2. CASE h.base.command = CMD_UNLINK
    <3>1. GetU32(buf, 0) = CMD_UNLINK
      BY <1>7, <2>2, BaseFields DEF DecodedHeader
    <3>2. EchoLength(buf) = 0 /\ Announced(h) = 0
      BY <2>2, <3>1 DEF EchoLength, Announced, CMD_SUBMIT, CMD_UNLINK, RET_SUBMIT
    <3> QED BY <1>6, <3>2 DEF Positive
  <2> QED BY <1>9, <2>1, <2>2
<1>11. n = Len(s)
  BY <1>5, <1>10, Offsets
<1>12. Take(buf, n) = s /\ Drop(buf, n) = rest
  <2>1. Take(s \o rest, Len(s)) = s /\ Drop(s \o rest, Len(s)) = rest
    BY <1>5, SplitStream
  <2> QED BY <1>2, <1>3, <1>11, <2>1
<1>13. DecodedPayload(s) = t
  <2>1. PICK z : z = Encoded(h, p) \o <<>>
    OBVIOUS
  <2>2. <<>> \in Seq(Byte)
    OBVIOUS
  <2>3. DecodedPayload(z) = OnWire(h, p)
    BY <1>2, <2>1, <2>2, FrameDecoded
  <2>4. z = s
    BY <1>3, <1>5, <2>1
  <2> QED BY <1>4, <2>3, <2>4
<1> QED BY <1>1, <1>3, <1>4, <1>7, <1>9, <1>11, <1>12, <1>13

-----------------------------------------------------------------------------
(* Requests and answers *)

\* The first F requests fit, and no more.
Fitting(F) ==
  /\ F \in 0 .. Len(sent)
  /\ \A j \in 1 .. F : Fits(sent[j])
  /\ F < Len(sent) => ~Fits(sent[F + 1])

\* The bytes of the requests, and of e answers R.
Asks == [k \in 1 .. Len(sent) |-> Encoded(sent[k].header, sent[k].payload)]
Answers(R, e) == [k \in 1 .. e |-> Encoded(R[k].header, R[k].payload)]

IsReply(m) == m = [header |-> m.header, payload |-> m.payload] /\ ReplyOf(m.header, m.payload)

\* R are the e answers of the server so far: frames the client can read, which
\* it has read in this order, and echoes of the requests as long as those fit.
Served(F, e, R) ==
  /\ e \in Nat /\ Len(received) <= e
  /\ F < e => F < Len(sent)
  /\ \A k \in 1 .. e : IsReply(R[k])
  /\ \A k \in 1 .. Len(received) : received[k] = R[k]
  /\ \A k \in 1 .. e : k <= F =>
       sent[k].header.base.command \in {CMD_SUBMIT, CMD_UNLINK} /\ R[k] = EchoOf(sent[k])

\* The answers that the client has not read yet are all that comes.
Coming(R, e) ==
  \E p : LaidOut(down, Answers(R, e), Len(received) + 1, e, p) /\ Len(down) = p[e + 1]

\* The requests that fit and are not answered yet are the first that goes.
Going(F, e) ==
  e <= F => \E q : /\ LaidOut(up, Asks, e + 1, F, q)
                   /\ q[F + 1] <= Len(up)
                   /\ F = Len(sent) => Len(up) = q[F + 1]

OrderFor(F, e, R) == Fitting(F) /\ Served(F, e, R) /\ Coming(R, e) /\ Going(F, e)

InSession == client \in {"imported", "open", "closed"} /\ server # "strayed"

OrderInv ==
  /\ \A k \in 1 .. Len(sent) : Encodes(sent[k].header, TRUE, sent[k].payload)
  /\ InSession => \E F, e, R : OrderFor(F, e, R)

LEMMA AsksFrames ==
  ASSUME Types
  PROVE  /\ Len(sent) \in Nat /\ Len(received) \in Nat
         /\ \A k \in 1 .. Len(sent) :
              /\ sent[k] \in Messages
              /\ Asks[k] = Encoded(sent[k].header, sent[k].payload)
              /\ Asks[k] \in Seq(Byte)
         /\ \A a \in Nat, b \in Nat : 1 <= a /\ a <= b + 1 /\ b <= Len(sent) => Frames(Byte, Asks, a, b)
<1>1. Len(sent) \in Nat /\ Len(received) \in Nat /\ \A k \in 1 .. Len(sent) : sent[k] \in Messages
  BY DEF Types
<1>2. ASSUME NEW k \in 1 .. Len(sent)
      PROVE  Asks[k] = Encoded(sent[k].header, sent[k].payload) /\ Asks[k] \in Seq(Byte)
  <2>1. sent[k].header \in Headers /\ sent[k].payload \in Seq(Byte)
    BY <1>1 DEF Messages
  <2> QED BY <2>1, PayloadOnWire DEF Asks
<1>3. ASSUME NEW a \in Nat, NEW b \in Nat, 1 <= a, a <= b + 1, b <= Len(sent)
      PROVE  Frames(Byte, Asks, a, b)
  <2>1. \A k \in a .. b : k \in 1 .. Len(sent)
    BY <1>1, <1>3
  <2> QED BY <1>2, <1>3, <2>1 DEF Frames
<1> QED BY <1>1, <1>2, <1>3

LEMMA AnswersFrames ==
  ASSUME NEW e \in Nat, NEW R, \A k \in 1 .. e : IsReply(R[k])
  PROVE  /\ \A k \in 1 .. e : /\ Answers(R, e)[k] = Encoded(R[k].header, R[k].payload)
                              /\ Answers(R, e)[k] \in Seq(Byte)
         /\ \A a \in Nat, b \in Nat : 1 <= a /\ a <= b + 1 /\ b <= e => Frames(Byte, Answers(R, e), a, b)
<1>1. ASSUME NEW k \in 1 .. e
      PROVE  /\ Answers(R, e)[k] = Encoded(R[k].header, R[k].payload)
             /\ Answers(R, e)[k] \in Seq(Byte)
  <2>1. ReplyOf(R[k].header, R[k].payload)
    BY DEF IsReply
  <2> QED BY <2>1, ReplyFrame DEF Answers
<1>2. ASSUME NEW a \in Nat, NEW b \in Nat, 1 <= a, a <= b + 1, b <= e
      PROVE  Frames(Byte, Answers(R, e), a, b)
  <2>1. \A k \in a .. b : k \in 1 .. e
    BY <1>2
  <2> QED BY <1>1, <1>2, <2>1 DEF Frames
<1> QED BY <1>1, <1>2

\* A connection on which nothing is under way.
LEMMA QuietOrder ==
  ASSUME sent = <<>>, received = <<>>, up = <<>>, down = <<>>
  PROVE  OrderInv
<1>1. Len(sent) = 0 /\ Len(received) = 0 /\ Len(up) = 0 /\ Len(down) = 0
  OBVIOUS
<1>2. Fitting(0)
  BY <1>1 DEF Fitting
<1>3. Served(0, 0, <<>>)
  BY <1>1 DEF Served
<1>4. Coming(<<>>, 0)
  <2>1. PICK p : LaidOut(down, Answers(<<>>, 0), 0 + 1, 0, p) /\ p[0 + 1] = 0
    BY NoFrames
  <2> QED BY <1>1, <2>1 DEF Coming
<1>5. Going(0, 0)
  <2>1. PICK q : LaidOut(up, Asks, 0 + 1, 0, q) /\ q[0 + 1] = 0
    BY NoFrames
  <2>2. LaidOut(up, Asks, 0 + 1, 0, q) /\ q[0 + 1] <= Len(up) /\ Len(up) = q[0 + 1]
    BY <1>1, <2>1
  <2> QED BY <2>2 DEF Going
<1> QED BY <1>1, <1>2, <1>3, <1>4, <1>5 DEF OrderInv, OrderFor

\* A step that leaves the streams and the histories alone.
LEMMA StillOrder ==
  ASSUME OrderInv, UNCHANGED <<sent, received, up, down>>, InSession' => InSession
  PROVE  OrderInv'
<1>1. Asks' = Asks
  BY DEF Asks
<1>2. ASSUME NEW F, NEW e, NEW R, OrderFor(F, e, R) PROVE OrderFor(F, e, R)'
  <2>1. Fitting(F)' /\ Served(F, e, R)'
    BY <1>2 DEF OrderFor, Fitting, Served
  <2>2. Coming(R, e)'
    BY <1>2 DEF OrderFor, Coming
  <2>3. Going(F, e)'
    BY <1>1, <1>2 DEF OrderFor, Going
  <2> QED BY <2>1, <2>2, <2>3 DEF OrderFor
<1> QED BY <1>2 DEF OrderInv

LEMMA SendHeaderOrder ==
  ASSUME Types, OrderInv, NEW r \in Requests, SendHeader(r)
  PROVE  OrderInv'
<1>1. PICK m : m = [header |-> Numbered(r.header), payload |-> r.payload]
  OBVIOUS
<1>2. m.header = Numbered(r.header) /\ m.payload = r.payload
  BY <1>1
<1>3. Encodes(m.header, r.given, m.payload)
  BY <1>2 DEF SendHeader
<1>4. PICK frame : frame = Encoded(m.header, m.payload)
  OBVIOUS
<1>5. m \in Messages /\ frame \in Seq(Byte)
  BY <1>1, <1>2, <1>3, <1>4, SentTypes
<1>6. /\ up' = up \o frame /\ sent' = Append(sent, m)
      /\ UNCHANGED <<client, server, down, received>>
  BY <1>1, <1>2, <1>4 DEF SendHeader
<1>7. PICK n \in Nat : n = Len(sent)
  BY AsksFrames
<1>8. /\ Len(sent') = n + 1 /\ sent'[n + 1] = m
      /\ \A k \in 1 .. n : sent'[k] = sent[k]
  BY <1>6, <1>7 DEF Types
<1>9. /\ \A k \in 1 .. n : Asks'[k] = Asks[k]
      /\ Asks'[n + 1] = frame
  <2>1. Asks' = [k \in 1 .. n + 1 |-> Encoded(sent'[k].header, sent'[k].payload)]
    BY <1>8 DEF Asks
  <2>2. Asks = [k \in 1 .. n |-> Encoded(sent[k].header, sent[k].payload)]
    BY <1>7 DEF Asks
  <2>3. n + 1 \in 1 .. n + 1 /\ \A k \in 1 .. n : k \in 1 .. n + 1
    OBVIOUS
  <2> QED BY <1>4, <1>8, <2>1, <2>2, <2>3
<1>10. \A k \in 1 .. Len(sent') : Encodes(sent'[k].header, TRUE, sent'[k].payload)
  <2>1. Encodes(m.header, TRUE, m.payload)
    BY <1>3 DEF Encodes
  <2>2. \A k \in 1 .. n + 1 : k \in 1 .. n \/ k = n + 1
    OBVIOUS
  <2> QED BY <1>7, <1>8, <2>1, <2>2 DEF OrderInv
<1>11. ASSUME InSession' PROVE \E F, e, R : OrderFor(F, e, R)'
  <2>1. PICK F, e, R : OrderFor(F, e, R)
    BY <1>6, <1>11 DEF OrderInv, InSession
  <2>2. /\ F \in 0 .. n /\ (\A j \in 1 .. F : Fits(sent[j])) /\ (F < n => ~Fits(sent[F + 1]))
        /\ e \in Nat /\ F \in Nat
    BY <1>7, <2>1 DEF OrderFor, Fitting, Served
  <2>3. /\ Len(received) <= e /\ (F < e => F < n)
        /\ \A k \in 1 .. e : IsReply(R[k])
        /\ \A k \in 1 .. Len(received) : received[k] = R[k]
        /\ \A k \in 1 .. e : k <= F =>
             sent[k].header.base.command \in {CMD_SUBMIT, CMD_UNLINK} /\ R[k] = EchoOf(sent[k])
    BY <1>7, <2>1 DEF OrderFor, Served
  <2>4. Coming(R, e)'
    BY <1>6, <2>1 DEF OrderFor, Coming
  <2>5. \A k \in 1 .. e : k <= F => k \in 1 .. n
    BY <2>2
  <2>6. e <= F => Frames(Byte, Asks, e + 1, F) /\ e + 1 \in Nat
    <3>1. e <= F => 1 <= e + 1 /\ e + 1 <= F + 1 /\ F <= n /\ e + 1 \in Nat
      BY <2>2
    <3> QED BY <1>7, <2>2, <3>1, AsksFrames
  <2>7. e <= F => \A k \in e + 1 .. F : Asks'[k] = Asks[k]
    <3>1. \A k \in e + 1 .. F : k \in 1 .. n
      BY <2>2
    <3> QED BY <1>9, <3>1
  <2>8. up \in Seq(Byte) /\ Len(up) \in Nat
    BY DEF Types
  <2>9. CASE F = n /\ Fits(m)
    <3>1. Fitting(n + 1)'
      <4>1. \A j \in 1 .. n + 1 : j \in 1 .. n \/ j = n + 1
        OBVIOUS
      <4>2. \A j \in 1 .. n + 1 : Fits(sent'[j])
        BY <1>8, <2>2, <2>9, <4>1
      <4>3. n + 1 \in 0 .. n + 1 /\ ~(n + 1 < n + 1)
        OBVIOUS
      <4> QED BY <1>8, <4>2, <4>3 DEF Fitting
    <3>2. e <= n
      BY <2>2, <2>3, <2>9
    <3>3. Served(n + 1, e, R)'
      <4>1. \A k \in 1 .. e : k <= F /\ k \in 1 .. n
        BY <2>2, <2>9, <3>2
      <4>2. ~(n + 1 < e)
        BY <2>2, <3>2
      <4> QED BY <1>6, <1>8, <2>2, <2>3, <4>1, <4>2 DEF Served
    <3>4. Going(n + 1, e)'
      <4>1. PICK q : LaidOut(up, Asks, e + 1, n, q) /\ Len(up) = q[n + 1]
        BY <1>7, <2>1, <2>9, <3>2 DEF OrderFor, Going
      <4>2. LaidOut(up, Asks', e + 1, n, q)
        <5>1. e + 1 \in Nat /\ \A k \in e + 1 .. n : Asks'[k] = Asks[k]
          BY <2>6, <2>7, <2>9, <3>2
        <5> QED BY <4>1, <5>1, SameFrames
      <4>3. Frames(Byte, Asks', e + 1, n)
        BY <2>6, <2>7, <2>9, <3>2 DEF Frames
      <4>4. e + 1 \in Nat
        BY <2>2
      <4>5. PICK q2 : LaidOut(up \o frame, Asks', e + 1, n + 1, q2) /\ q2[n + 2] = Len(up \o frame)
        BY <1>5, <1>9, <2>8, <4>1, <4>2, <4>3, <4>4, AddLastFrame
      <4>6. (n + 1) + 1 = n + 2
        OBVIOUS
      <4>7. Len(up \o frame) \in Nat
        BY <1>5, <2>8, JoinedElements
      <4>8. q2[(n + 1) + 1] <= Len(up') /\ Len(up') = q2[(n + 1) + 1]
        BY <1>6, <4>5, <4>6, <4>7
      <4>9. LaidOut(up', Asks', e + 1, n + 1, q2)
        BY <1>6, <4>5
      <4> QED BY <4>8, <4>9 DEF Going
    <3> QED BY <2>4, <3>1, <3>3, <3>4 DEF OrderFor
  <2>10. CASE ~(F = n /\ Fits(m))
    <3>1. F < n + 1 /\ ~Fits(sent'[F + 1])
      <4>1. CASE F = n
        BY <1>8, <2>10, <4>1
      <4>2. CASE F # n
        <5>1. F < n /\ F + 1 \in 1 .. n
          BY <2>2, <4>2
        <5> QED BY <1>8, <2>2, <5>1
      <4> QED BY <4>1, <4>2
    <3>2. Fitting(F)'
      <4>1. \A j \in 1 .. F : j \in 1 .. n
        BY <2>2
      <4>2. F \in 0 .. n + 1
        BY <2>2
      <4> QED BY <1>8, <2>2, <3>1, <4>1, <4>2 DEF Fitting
    <3>3. Served(F, e, R)'
      BY <1>6, <1>8, <2>2, <2>3, <2>5, <3>1 DEF Served
    <3>4. Going(F, e)'
      <4>1. SUFFICES ASSUME e <= F
                     PROVE  \E q : /\ LaidOut(up', Asks', e + 1, F, q)
                                   /\ q[F + 1] <= Len(up')
                                   /\ F = Len(sent') => Len(up') = q[F + 1]
        BY DEF Going
      <4>2. PICK q : LaidOut(up, Asks, e + 1, F, q) /\ q[F + 1] <= Len(up)
        BY <2>1, <4>1 DEF OrderFor, Going
      <4>3. LaidOut(up, Asks', e + 1, F, q)
        BY <2>2, <2>6, <2>7, <4>1, <4>2, SameFrames
      <4>4. Frames(Byte, Asks', e + 1, F)
        BY <2>6, <2>7, <4>1 DEF Frames
      <4>5. LaidOut(up \o frame, Asks', e + 1, F, q) /\ q[F + 1] <= Len(up \o frame)
        BY <1>5, <2>2, <2>6, <2>8, <4>1, <4>2, <4>3, <4>4, AddBehind
      <4>6. F # Len(sent')
        BY <1>8, <2>2, <3>1
      <4> QED BY <1>6, <4>5, <4>6
    <3> QED BY <2>4, <3>2, <3>3, <3>4 DEF OrderFor
  <2> QED BY <2>9, <2>10
<1> QED BY <1>10, <1>11 DEF OrderInv

\* What one call of serve_urb_echo makes of the requests and of the answers.
LEMMA ServeTakes ==
  ASSUME Types, OrderInv, Serve, NEW F, NEW e, NEW R, OrderFor(F, e, R)
  PROVE  \E m : /\ IsReply(m)
                /\ Encoded(m.header, m.payload) \in Seq(Byte)
                /\ down' = down \o Encoded(m.header, m.payload)
                /\ e + 1 <= F => /\ sent[e + 1].header.base.command \in {CMD_SUBMIT, CMD_UNLINK}
                                 /\ m = EchoOf(sent[e + 1])
                /\ ~(e + 1 <= F) => F < Len(sent)
                /\ Going(F, e + 1)'
<1>1. /\ up \in Seq(Byte) /\ Len(up) \in Nat /\ HasHeader(up) /\ Len(up) >= 48
  BY Offsets DEF Types, Serve, HasHeader
<1>2. PICK n : n = EchoTakes
  OBVIOUS
<1>3. /\ n = PAYLOAD_OFFSET + EchoLength(up) /\ n \in Nat /\ n <= Len(up) /\ Echoes(Take(up, n))
  BY <1>1, <1>2, LengthTypes, Offsets DEF Serve, EchoTakes
<1>4. PICK h, t : h = DecodedHeader(up) /\ t = DecodedPayload(Take(up, n))
  OBVIOUS
<1>5. /\ h \in Headers /\ h.base.command \in {CMD_SUBMIT, CMD_UNLINK}
      /\ t \in Seq(Byte) /\ Len(t) \in SignedWord /\ Len(t) <= MaxPayload
      /\ Len(t) = Positive(Announced(h))
  BY <1>1, <1>3, <1>4, EchoReads
<1>6. h.base.direction \in Directions
  <2>1. Decodes(Take(up, n))
    BY <1>3 DEF Echoes
  <2>2. DecodedHeader(Take(up, n)) = h
    BY <1>1, <1>3, <1>4, <2>1, ReadFrame
  <2> QED BY <2>1, <2>2, BaseFields DEF Decodes, DecodedHeader
<1>7. PICK m : m = [header |-> EchoReply(h, Len(t)), payload |-> t]
  OBVIOUS
<1>8. m.header = EchoReply(h, Len(t)) /\ m.payload = t /\ IsReply(m)
  <2>1. m.header = EchoReply(h, Len(t)) /\ m.payload = t
    BY <1>7
  <2>2. ReplyOf(m.header, m.payload)
    BY <1>5, <1>6, <2>1, ReplyServed
  <2> QED BY <1>7, <2>1, <2>2 DEF IsReply
<1>9. Encoded(m.header, m.payload) \in Seq(Byte)
  BY <1>8, ReplyFrame DEF IsReply
<1>10. /\ down' = down \o Encoded(m.header, m.payload)
       /\ up' = Drop(up, n)
       /\ UNCHANGED <<sent, received>>
  BY <1>2, <1>4, <1>8 DEF Serve, urbVars
<1>11. F \in 0 .. Len(sent) /\ F \in Nat /\ e \in Nat /\ Len(sent) \in Nat /\ (F < e => F < Len(sent))
  BY AsksFrames DEF OrderFor, Fitting, Served
<1>12. Asks' = Asks
  BY <1>10 DEF Asks
<1>13. CASE e + 1 <= F
  <2>1. PICK q : /\ LaidOut(up, Asks, e + 1, F, q)
                 /\ q[F + 1] <= Len(up)
                 /\ F = Len(sent) => Len(up) = q[F + 1]
    BY <1>11, <1>13 DEF OrderFor, Going
  <2>2. Frames(Byte, Asks, e + 1, F) /\ e + 1 \in Nat
    <3>1. 1 <= e + 1 /\ e + 1 <= F + 1 /\ F <= Len(sent) /\ e + 1 \in Nat
      BY <1>11, <1>13
    <3> QED BY <1>11, <3>1, AsksFrames
  <2>3. PICK rest \in Seq(Byte) :
          /\ up = Asks[e + 1] \o rest
          /\ \E p : LaidOut(rest, Asks, (e + 1) + 1, F, p) /\ q[F + 1] = Len(Asks[e + 1]) + p[F + 1]
    <3>1. PICK a \in Nat : a = e + 1
      BY <2>2
    <3>2. LaidOut(up, Asks, a, F, q) /\ q[F + 1] <= Len(up)
      BY <2>1, <3>1
    <3>3. Frames(Byte, Asks, a, F) /\ a <= F /\ F \in Nat
      BY <1>11, <1>13, <2>2, <3>1
    <3>4. StartsWith(up, Asks, a, F, q)
      BY <1>1, <3>1, <3>2, <3>3, FirstFrame
    <3> QED BY <3>1, <3>4 DEF StartsWith
  <2>4. e + 1 \in 1 .. Len(sent) /\ e + 1 \in 1 .. F
    BY <1>11, <1>13
  <2>5. PICK s : s = sent[e + 1]
    OBVIOUS
  <2>6. /\ s \in Messages /\ Asks[e + 1] = Encoded(s.header, s.payload) /\ Asks[e + 1] \in Seq(Byte)
    BY <2>4, <2>5, AsksFrames
  <2>7. Fits(s)
    BY <2>4, <2>5 DEF OrderFor, Fitting
  <2>8. Encodes(s.header, TRUE, s.payload)
    BY <2>4, <2>5 DEF OrderInv
  <2>9. up = Encoded(s.header, s.payload) \o rest
    BY <2>3, <2>6
  <2>10. /\ s.header.base.command \in {CMD_SUBMIT, CMD_UNLINK}
         /\ n = Len(Encoded(s.header, s.payload)) /\ Drop(up, n) = rest
         /\ DecodedHeader(up) = s.header
         /\ DecodedPayload(Take(up, n)) = OnWire(s.header, s.payload)
    BY <1>1, <1>3, <2>6, <2>7, <2>8, <2>9, RequestServed
  <2>11. m = EchoOf(s)
    BY <1>4, <1>7, <2>10 DEF EchoOf
  <2>12. Going(F, e + 1)'
    <3>1. PICK p : /\ LaidOut(rest, Asks, (e + 1) + 1, F, p)
                   /\ q[F + 1] = Len(Asks[e + 1]) + p[F + 1]
      BY <2>3
    <3>2. Len(up) = Len(Asks[e + 1]) + Len(rest) /\ Len(Asks[e + 1]) \in Nat /\ Len(rest) \in Nat
      BY <2>3, <2>6, JoinedElements
    <3>3. p[F + 1] \in Nat
      <4>1. F + 1 \in (e + 1) + 1 .. F + 1
        BY <1>11, <1>13
      <4> QED BY <3>1, <4>1 DEF LaidOut, Positions
    <3>4. p[F + 1] <= Len(rest) /\ (F = Len(sent) => Len(rest) = p[F + 1])
      BY <2>1, <3>1, <3>2, <3>3
    <3>5. up' = rest
      BY <1>10, <2>10
    <3> QED BY <1>10, <1>12, <3>1, <3>4, <3>5 DEF Going
  <2> QED BY <1>8, <1>9, <1>10, <1>13, <2>5, <2>10, <2>11, <2>12
<1>14. CASE ~(e + 1 <= F)
  <2>1. Going(F, e + 1)'
    BY <1>14 DEF Going
  <2>2. F < Len(sent)
    <3>1. CASE F < e
      BY <1>11, <3>1
    <3>2. CASE e = F
      <4>1. PICK q : /\ LaidOut(up, Asks, e + 1, F, q)
                     /\ F = Len(sent) => Len(up) = q[F + 1]
        BY <1>11, <3>2 DEF OrderFor, Going
      <4>2. q[F + 1] = 0
        BY <3>2, <4>1 DEF LaidOut, Positions
      <4> QED BY <1>1, <1>11, <4>1, <4>2
    <3> QED BY <1>11, <1>14, <3>1, <3>2
  <2> QED BY <1>8, <1>9, <1>10, <1>14, <2>1, <2>2
<1> QED BY <1>13, <1>14

\* An answer that is written comes behind the others.
LEMMA AddAnswer ==
  ASSUME Types, NEW e \in Nat, NEW R, \A k \in 1 .. e : IsReply(R[k]),
         Len(received) <= e, Coming(R, e),
         NEW m, IsReply(m), down' = down \o Encoded(m.header, m.payload), received' = received,
         NEW R2, \A k \in 1 .. e : R2[k] = R[k], R2[e + 1] = m
  PROVE  Coming(R2, e + 1)'
<1>1. PICK a \in Nat : a = Len(received) + 1 /\ 1 <= a /\ a <= e + 1
  BY AsksFrames
<1>2. PICK frame : frame = Encoded(m.header, m.payload)
  OBVIOUS
<1>3. frame \in Seq(Byte) /\ down \in Seq(Byte)
  BY <1>2, ReplyFrame DEF IsReply, Types
<1>4. PICK f, g : f = Answers(R, e) /\ g = Answers(R2, e + 1)
  OBVIOUS
<1>5. \A k \in a .. e : g[k] = f[k]
  <2>1. \A k \in a .. e : k \in 1 .. e /\ k \in 1 .. e + 1
    BY <1>1
  <2> QED BY <1>4, <2>1 DEF Answers
<1>6. g[e + 1] = frame
  <2>1. e + 1 \in 1 .. e + 1
    OBVIOUS
  <2> QED BY <1>2, <1>4, <2>1 DEF Answers
<1>7. PICK p : LaidOut(down, f, a, e, p) /\ Len(down) = p[e + 1]
  BY <1>1, <1>4 DEF Coming
<1>8. LaidOut(down, g, a, e, p)
  BY <1>1, <1>5, <1>7, SameFrames
<1>9. Frames(Byte, g, a, e)
  <2>1. Frames(Byte, f, a, e)
    BY <1>1, <1>4, AnswersFrames
  <2> QED BY <1>5, <2>1 DEF Frames
<1>10. PICK q : LaidOut(down \o frame, g, a, e + 1, q) /\ q[e + 2] = Len(down \o frame)
  BY <1>1, <1>3, <1>6, <1>7, <1>8, <1>9, AddLastFrame
<1>11. (e + 1) + 1 = e + 2
  OBVIOUS
<1>12. LaidOut(down', g, a, e + 1, q) /\ Len(down') = q[(e + 1) + 1]
  BY <1>2, <1>10, <1>11
<1> QED BY <1>1, <1>4, <1>12 DEF Coming

LEMMA ServeOrder ==
  ASSUME Types, OrderInv, Serve
  PROVE  OrderInv'
<1>1. UNCHANGED <<client, server, sent, received>>
  BY DEF Serve, urbVars
<1>2. \A k \in 1 .. Len(sent') : Encodes(sent'[k].header, TRUE, sent'[k].payload)
  BY <1>1 DEF OrderInv
<1>3. ASSUME InSession' PROVE \E F, e, R : OrderFor(F, e, R)'
  <2>1. PICK F, e, R : OrderFor(F, e, R)
    BY <1>1, <1>3 DEF OrderInv, InSession
  <2>2. PICK m : /\ IsReply(m)
                 /\ down' = down \o Encoded(m.header, m.payload)
                 /\ e + 1 <= F => /\ sent[e + 1].header.base.command \in {CMD_SUBMIT, CMD_UNLINK}
                                  /\ m = EchoOf(sent[e + 1])
                 /\ ~(e + 1 <= F) => F < Len(sent)
                 /\ Going(F, e + 1)'
    BY <2>1, ServeTakes
  <2>3. PICK R2 : R2 = [k \in 1 .. e + 1 |-> IF k = e + 1 THEN m ELSE R[k]]
    OBVIOUS
  <2>4. /\ e \in Nat /\ Len(received) <= e /\ Len(received) \in Nat
        /\ F \in Nat /\ Len(sent) \in Nat /\ (F < e => F < Len(sent))
        /\ \A k \in 1 .. e : IsReply(R[k])
        /\ \A k \in 1 .. Len(received) : received[k] = R[k]
        /\ \A k \in 1 .. e : k <= F =>
             sent[k].header.base.command \in {CMD_SUBMIT, CMD_UNLINK} /\ R[k] = EchoOf(sent[k])
    BY <2>1, AsksFrames DEF OrderFor, Served, Fitting
  <2>5. R2[e + 1] = m /\ (\A k \in 1 .. e : R2[k] = R[k])
    <3>1. e + 1 \in 1 .. e + 1 /\ \A k \in 1 .. e : k \in 1 .. e + 1 /\ k # e + 1
      BY <2>4
    <3> QED BY <2>3, <3>1
  <2>6. Coming(R2, e + 1)'
    BY <1>1, <2>1, <2>2, <2>4, <2>5, AddAnswer DEF OrderFor
  <2>7. Fitting(F)'
    BY <1>1, <2>1 DEF OrderFor, Fitting
  <2>8. Served(F, e + 1, R2)'
    <3>1. \A k \in 1 .. e + 1 : k \in 1 .. e \/ k = e + 1
      BY <2>4
    <3>2. /\ e + 1 \in Nat /\ Len(received) <= e + 1 /\ (F < e + 1 => F < Len(sent))
          /\ \A k \in 1 .. Len(received) : k \in 1 .. e
      BY <2>2, <2>4
    <3>3. \A k \in 1 .. e + 1 : IsReply(R2[k])
      BY <2>2, <2>4, <2>5, <3>1
    <3>4. \A k \in 1 .. Len(received) : received[k] = R2[k]
      BY <2>4, <2>5, <3>2
    <3>5. \A k \in 1 .. e + 1 : k <= F =>
            sent[k].header.base.command \in {CMD_SUBMIT, CMD_UNLINK} /\ R2[k] = EchoOf(sent[k])
      BY <2>2, <2>4, <2>5, <3>1
    <3> QED BY <1>1, <3>2, <3>3, <3>4, <3>5 DEF Served
  <2> QED BY <2>2, <2>6, <2>7, <2>8 DEF OrderFor
<1> QED BY <1>2, <1>3 DEF OrderInv

\* Where the client finds 48 bytes there is an answer it has not read.
LEMMA NextAnswer ==
  ASSUME Types, HasHeader(down), NEW F, NEW e, NEW R, OrderFor(F, e, R),
         NEW a, a = Len(received) + 1
  PROVE  /\ a \in Nat /\ e \in Nat /\ a \in 1 .. e /\ IsReply(R[a])
         /\ \E rest \in Seq(Byte) :
              /\ down = Encoded(R[a].header, R[a].payload) \o rest
              /\ \E p : LaidOut(rest, Answers(R, e), a + 1, e, p) /\ Len(rest) = p[e + 1]
<1>1. down \in Seq(Byte) /\ Len(down) \in Nat /\ Len(down) >= 48
  BY Offsets DEF Types, HasHeader
<1>2. /\ e \in Nat /\ Len(received) \in Nat /\ Len(received) <= e
      /\ \A k \in 1 .. e : IsReply(R[k])
  BY AsksFrames DEF OrderFor, Served
<1>3. PICK p : LaidOut(down, Answers(R, e), a, e, p) /\ Len(down) = p[e + 1]
  BY DEF OrderFor, Coming
<1>4. a \in Nat /\ 1 <= a /\ a <= e
  <2>1. CASE Len(received) = e
    <3>1. p[e + 1] = 0
      BY <1>3, <2>1 DEF LaidOut, Positions
    <3> QED BY <1>1, <1>3, <3>1
  <2>2. CASE Len(received) # e
    BY <1>2, <2>2
  <2> QED BY <2>1, <2>2
<1>5. Frames(Byte, Answers(R, e), a, e)
  <2>1. a <= e + 1
    BY <1>2, <1>4
  <2> QED BY <1>2, <1>4, <2>1, AnswersFrames
<1>6. p[e + 1] <= Len(down)
  BY <1>1, <1>3
<1>7. StartsWith(down, Answers(R, e), a, e, p)
  BY <1>1, <1>2, <1>3, <1>4, <1>5, <1>6, FirstFrame
<1>8. PICK rest \in Seq(Byte) :
        /\ down = Answers(R, e)[a] \o rest
        /\ \E q : LaidOut(rest, Answers(R, e), a + 1, e, q) /\ p[e + 1] = Len(Answers(R, e)[a]) + q[e + 1]
  BY <1>7 DEF StartsWith
<1>9. PICK q : LaidOut(rest, Answers(R, e), a + 1, e, q) /\ p[e + 1] = Len(Answers(R, e)[a]) + q[e + 1]
  BY <1>8
<1>10. a \in 1 .. e
  BY <1>2, <1>4
<1>11. PICK frame : frame = Answers(R, e)[a]
  OBVIOUS
<1>12. frame = Encoded(R[a].header, R[a].payload) /\ frame \in Seq(Byte)
  BY <1>2, <1>10, <1>11, AnswersFrames
<1>13. Len(rest) = q[e + 1]
  <2>1. Len(down) = Len(frame) + Len(rest) /\ Len(frame) \in Nat /\ Len(rest) \in Nat
    BY <1>8, <1>11, <1>12, JoinedElements
  <2>2. q[e + 1] \in Nat
    <3>1. e + 1 \in a + 1 .. e + 1
      BY <1>2, <1>4
    <3> QED BY <1>9, <3>1 DEF LaidOut, Positions
  <2> QED BY <1>3, <1>9, <1>11, <2>1, <2>2
<1> QED BY <1>2, <1>4, <1>8, <1>9, <1>10, <1>11, <1>12, <1>13

LEMMA RecvHeaderOrder ==
  ASSUME Types, OrderInv, RecvHeader
  PROVE  OrderInv'
<1>1. UNCHANGED <<client, server, up, sent>>
  BY DEF RecvHeader
<1>2. \A k \in 1 .. Len(sent') : Encodes(sent'[k].header, TRUE, sent'[k].payload)
  BY <1>1 DEF OrderInv
<1>3. ASSUME InSession' PROVE \E F, e, R : OrderFor(F, e, R)'
  <2>1. PICK F, e, R : OrderFor(F, e, R)
    BY <1>1, <1>3 DEF OrderInv, InSession
  <2>2. PICK a : a = Len(received) + 1
    OBVIOUS
  <2>3. HasHeader(down)
    BY DEF RecvHeader
  <2>4. /\ a \in Nat /\ e \in Nat /\ a \in 1 .. e /\ IsReply(R[a])
        /\ \E rest \in Seq(Byte) :
             /\ down = Encoded(R[a].header, R[a].payload) \o rest
             /\ \E p : LaidOut(rest, Answers(R, e), a + 1, e, p) /\ Len(rest) = p[e + 1]
    BY <2>1, <2>2, <2>3, NextAnswer
  <2>5. PICK rest \in Seq(Byte) :
          /\ down = Encoded(R[a].header, R[a].payload) \o rest
          /\ \E p : LaidOut(rest, Answers(R, e), a + 1, e, p) /\ Len(rest) = p[e + 1]
    BY <2>4
  <2>6. PICK n : n = SessionTakes
    OBVIOUS
  <2>7. /\ DecodedHeader(down) = R[a].header
        /\ DecodedPayload(Take(down, n)) = R[a].payload
        /\ Drop(down, n) = rest
    <3>1. PICK h, t : h = R[a].header /\ t = R[a].payload
      OBVIOUS
    <3>2. ReplyOf(h, t) /\ down = Encoded(h, t) \o rest
      BY <2>4, <2>5, <3>1 DEF IsReply
    <3>3. n = PAYLOAD_OFFSET + SessionLength(down)
      BY <2>6 DEF SessionTakes
    <3>4. ReadsAs(down, n, h, t, rest)
      BY <2>5, <3>2, <3>3, ReplyRead
    <3> QED BY <3>1, <3>4 DEF ReadsAs
  <2>8. R[a] \in Messages /\ R[a] = [header |-> R[a].header, payload |-> R[a].payload]
    <3>1. /\ R[a] = [header |-> R[a].header, payload |-> R[a].payload]
          /\ ReplyOf(R[a].header, R[a].payload)
      BY <2>4 DEF IsReply
    <3>2. R[a].header \in Headers /\ R[a].payload \in Seq(Byte)
      BY <3>1, ReplyFrame
    <3> QED BY <3>1, <3>2 DEF Messages
  <2>9. received' = Append(received, R[a]) /\ down' = rest
    BY <2>6, <2>7, <2>8 DEF RecvHeader
  <2>10. /\ received \in Seq(Messages)
         /\ Len(received') = a /\ received'[a] = R[a]
         /\ \A k \in 1 .. Len(received) : received'[k] = received[k]
    BY <2>2, <2>8, <2>9 DEF Types
  <2>11. Fitting(F)'
    BY <1>1, <2>1 DEF OrderFor, Fitting
  <2>12. Going(F, e)'
    <3>1. Asks' = Asks
      BY <1>1 DEF Asks
    <3> QED BY <1>1, <2>1, <3>1 DEF OrderFor, Going
  <2>13. Coming(R, e)'
    BY <2>5, <2>9, <2>10 DEF Coming
  <2>14. Served(F, e, R)'
    <3>1. \A k \in 1 .. a : k \in 1 .. Len(received) \/ k = a
      BY <2>2, AsksFrames
    <3>2. \A k \in 1 .. Len(received) : received[k] = R[k]
      BY <2>1 DEF OrderFor, Served
    <3>3. \A k \in 1 .. Len(received') : received'[k] = R[k]
      BY <2>10, <3>1, <3>2
    <3>4. Len(received') <= e
      BY <2>4, <2>10
    <3> QED BY <1>1, <2>1, <3>3, <3>4 DEF OrderFor, Served
  <2> QED BY <2>11, <2>12, <2>13, <2>14 DEF OrderFor
<1> QED BY <1>2, <1>3 DEF OrderInv

QuietInOrder == (sent = <<>> /\ received = <<>> /\ up = <<>> /\ down = <<>>) => OrderInv

LEMMA QuietOrderNext == QuietInOrder'
<1>1. QuietInOrder
  BY QuietOrder DEF QuietInOrder
<1> QED BY <1>1, PTL

LEMMA NoSessionOrder ==
  ASSUME OrderInv, sent' = sent, ~InSession'
  PROVE  OrderInv'
BY DEF OrderInv

LEMMA ImportOrder ==
  ASSUME Types, ImportInv, OrderInv, Import
  PROVE  OrderInv'
<1>1. CASE RefuseEmptyBusid \/ SendImport \/ ImportEof \/ KeepaliveFails
  <2>1. sent' = sent /\ client' \in {"failed", "requested"}
    BY <1>1 DEF RefuseEmptyBusid, SendImport, ImportEof, KeepaliveFails, urbVars
  <2> QED BY <2>1, NoSessionOrder DEF InSession
<1>2. CASE AcceptDevice \/ \E rep \in Replies : SendOpRepImport(rep)
  <2>1. server \in {"accepting", "asked"} /\ UNCHANGED <<client, sent>>
    BY <1>2 DEF AcceptDevice, SendOpRepImport, urbVars
  <2>2. client \notin {"imported", "open", "closed"}
    BY <2>1 DEF ImportInv
  <2> QED BY <2>1, <2>2, NoSessionOrder DEF InSession
<1>3. CASE ReceiveReply
  <2>1. /\ client = "requested" /\ client' \in {"imported", "failed"}
        /\ UNCHANGED <<server, up, sent, received>>
    BY <1>3 DEF ReceiveReply, urbVars
  <2>2. /\ server \in {"serving", "strayed"} /\ up = <<>>
        /\ server = "serving" => down' = <<>>
    BY <1>3, ReplyReceived
  <2>3. CASE server = "serving"
    <3>1. sent' = <<>> /\ received' = <<>> /\ up' = <<>> /\ down' = <<>>
      BY <2>1, <2>2, <2>3 DEF ImportInv
    <3> QED BY <3>1, QuietOrderNext DEF QuietInOrder
  <2>4. CASE server = "strayed"
    BY <2>1, <2>4, NoSessionOrder DEF InSession
  <2> QED BY <2>2, <2>3, <2>4
<1>4. CASE Connected
  <2>1. client = "imported" /\ UNCHANGED <<server, sent, received, up, down>>
    BY <1>4 DEF Connected, urbVars
  <2> QED BY <2>1, StillOrder DEF InSession
<1> QED BY <1>1, <1>2, <1>3, <1>4 DEF Import

LEMMA InitOrder == Init => OrderInv
BY QuietOrder DEF Init

LEMMA NextOrder ==
  ASSUME Types, ImportInv, OrderInv, [Next]_vars
  PROVE  OrderInv'
<1>1. CASE Import
  BY <1>1, ImportOrder
<1>2. ASSUME NEW r \in Requests, SendHeader(r) PROVE OrderInv'
  BY <1>2, SendHeaderOrder
<1>3. CASE (\E r \in Requests : SendRefused(r)) \/ ServeFails \/ RecvFails \/ UNCHANGED vars
  <2>1. /\ UNCHANGED <<sent, received, up, down>>
        /\ client' = client \/ client = "open"
        /\ server' = server \/ server = "serving"
    BY <1>3 DEF SendRefused, MaySend, ServeFails, RecvFails, vars, importVars, urbVars
  <2>2. InSession' => InSession
    <3>1. InSession' => client' \in {"imported", "open", "closed"} /\ server' # "strayed"
      BY DEF InSession
    <3> QED BY <2>1, <3>1 DEF InSession
  <2> QED BY <2>1, <2>2, StillOrder
<1>4. CASE Serve
  BY <1>4, ServeOrder
<1>5. ASSUME NEW f \in Strays, Stray(f) PROVE OrderInv'
  <2>1. sent' = sent /\ server' = "strayed"
    BY <1>5 DEF Stray, urbVars
  <2> QED BY <2>1, NoSessionOrder DEF InSession
<1>6. CASE RecvHeader
  BY <1>6, RecvHeaderOrder
<1> QED BY <1>1, <1>2, <1>3, <1>4, <1>5, <1>6 DEF Next

LEMMA AlwaysOrder == Spec => [](Types /\ ImportInv /\ OrderInv)
<1>1. Types /\ ImportInv /\ OrderInv /\ [Next]_vars => (Types /\ ImportInv /\ OrderInv)'
  BY NextTypes, NextImport, NextOrder
<1> QED BY InitTypes, InitImport, InitOrder, <1>1, PTL DEF Spec

\* Whatever the client sends, and wherever serve_urb_echo (server.rs:73) took
\* a header to begin once a payload did not fit: recv_header_or_close
\* (session.rs:87) finds a whole frame it accepts behind every 48 bytes.
THEOREM AlwaysFramed == Spec => []StreamStaysFramed
<1>1. Types /\ ImportInv /\ OrderInv => StreamStaysFramed
  <2> SUFFICES ASSUME Types, OrderInv, client = "open", server # "strayed", HasHeader(down)
               PROVE  /\ ~SessionRefuses(down)
                      /\ Len(down) >= SessionTakes
                      /\ Decodes(Take(down, SessionTakes))
    BY DEF StreamStaysFramed
  <2>1. PICK F, e, R : OrderFor(F, e, R)
    BY DEF OrderInv, InSession
  <2>2. PICK a : a = Len(received) + 1
    OBVIOUS
  <2>3. /\ a \in Nat /\ e \in Nat /\ a \in 1 .. e /\ IsReply(R[a])
        /\ \E rest \in Seq(Byte) :
             /\ down = Encoded(R[a].header, R[a].payload) \o rest
             /\ \E p : LaidOut(rest, Answers(R, e), a + 1, e, p) /\ Len(rest) = p[e + 1]
    BY <2>1, <2>2, NextAnswer
  <2>4. PICK rest \in Seq(Byte) : down = Encoded(R[a].header, R[a].payload) \o rest
    BY <2>3
  <2>5. PICK h, t : h = R[a].header /\ t = R[a].payload
    OBVIOUS
  <2>6. ReplyOf(h, t) /\ down = Encoded(h, t) \o rest
    BY <2>3, <2>4, <2>5 DEF IsReply
  <2>7. PICK n : n = SessionTakes
    OBVIOUS
  <2>8. n = PAYLOAD_OFFSET + SessionLength(down)
    BY <2>7 DEF SessionTakes
  <2>9. ReadsAs(down, n, h, t, rest)
    BY <2>4, <2>6, <2>8, ReplyRead
  <2> QED BY <2>7, <2>9 DEF ReadsAs
<1> QED BY AlwaysOrder, <1>1, PTL

\* Once every request that fits is answered nothing is under way: neither
\* accept_device and serve_urb_echo (server.rs:73) nor the handshake and
\* recv_header_inner (session.rs:107) leave a byte that they do not count.
THEOREM AlwaysNothingLeft == Spec => []NothingLeftOver
<1>1. Types /\ ImportInv /\ OrderInv => NothingLeftOver
  <2> SUFFICES ASSUME Types, OrderInv, client = "open", server # "strayed",
                      \A j \in DOMAIN sent : Fits(sent[j]), Len(received) = Len(sent)
               PROVE  up = <<>> /\ down = <<>>
    BY DEF NothingLeftOver
  <2>1. PICK F, e, R : OrderFor(F, e, R)
    BY DEF OrderInv, InSession
  <2>2. PICK n \in Nat : n = Len(sent)
    BY AsksFrames
  <2>3. F = n
    <3>1. F \in 0 .. n /\ (F < n => ~Fits(sent[F + 1]))
      BY <2>1, <2>2 DEF OrderFor, Fitting
    <3>2. F < n => F + 1 \in DOMAIN sent
      <4>1. DOMAIN sent = 1 .. n
        BY <2>2 DEF Types
      <4> QED BY <3>1, <4>1
    <3> QED BY <3>1, <3>2
  <2>4. e = n
    <3>1. e \in Nat /\ n <= e /\ (n < e => n < n)
      BY <2>1, <2>2, <2>3 DEF OrderFor, Served
    <3> QED BY <2>2, <3>1
  <2>5. Len(down) = 0
    <3>1. PICK p : LaidOut(down, Answers(R, e), n + 1, n, p) /\ Len(down) = p[n + 1]
      BY <2>1, <2>2, <2>4 DEF OrderFor, Coming
    <3> QED BY <3>1 DEF LaidOut, Positions
  <2>6. Len(up) = 0
    <3>1. PICK q : LaidOut(up, Asks, n + 1, n, q) /\ Len(up) = q[n + 1]
      BY <2>1, <2>2, <2>3, <2>4 DEF OrderFor, Going
    <3> QED BY <3>1 DEF LaidOut, Positions
  <2> QED BY <2>5, <2>6 DEF Types
<1> QED BY AlwaysOrder, <1>1, PTL

\* As long as the payloads fit, recv_header_or_close (session.rs:87) returns
\* the answers of serve_urb_echo (server.rs:73) to the requests that
\* send_header wrote (session.rs:69), in their order: the bytes of the fields
\* that name the request, and the payload, come back as they were sent.
THEOREM AlwaysCarries == Spec => []AnswersCarryRequests
<1>1. Types /\ ImportInv /\ OrderInv => AnswersCarryRequests
  <2> SUFFICES ASSUME Types, ImportInv, OrderInv, server # "strayed",
                      NEW k \in DOMAIN received,
                      \A j \in DOMAIN sent : j <= k => Fits(sent[j])
               PROVE  /\ k \in DOMAIN sent
                      /\ LET h == sent[k].header
                             rep == received[k]
                         IN  /\ <<rep.header.base.seqnum, rep.header.base.devid, rep.header.base.ep>> =
                                  <<h.base.seqnum, h.base.devid, h.base.ep>>
                             /\ h.base.command = CMD_SUBMIT =>
                                  /\ rep.header.base.command = RET_SUBMIT
                                  /\ <<rep.header.u.setup0, rep.header.u.setup4>> = <<h.u.setup0, h.u.setup4>>
                                  /\ rep.payload = IF Announced(h) > 0 THEN sent[k].payload ELSE <<>>
                                  /\ rep.header.u.actual_length = Len(rep.payload)
                             /\ h.base.command = CMD_UNLINK => rep.header.base.command = RET_UNLINK
    BY DEF AnswersCarryRequests
  <2>1. InSession
    <3>1. received # <<>>
      OBVIOUS
    <3> QED BY <3>1 DEF ImportInv, InSession
  <2>2. PICK F, e, R : OrderFor(F, e, R)
    BY <2>1 DEF OrderInv
  <2>3. DOMAIN received = 1 .. Len(received) /\ DOMAIN sent = 1 .. Len(sent) /\ Len(sent) \in Nat
    BY DEF Types
  <2>4. /\ e \in Nat /\ k \in 1 .. e /\ received[k] = R[k]
        /\ F \in 0 .. Len(sent) /\ (F < e => F < Len(sent))
        /\ F < Len(sent) => ~Fits(sent[F + 1])
    <3>1. e \in Nat /\ Len(received) <= e /\ Len(received) \in Nat
      BY <2>2, AsksFrames DEF OrderFor, Served
    <3>2. k \in 1 .. e
      BY <2>3, <3>1
    <3> QED BY <2>2, <2>3, <3>1, <3>2 DEF OrderFor, Served, Fitting
  <2>5. k <= F
    <3>1. F + 1 \in DOMAIN sent => ~(F + 1 <= k) \/ Fits(sent[F + 1])
      OBVIOUS
    <3>2. F < Len(sent) => F + 1 \in DOMAIN sent
      BY <2>3, <2>4
    <3> QED BY <2>4, <3>1, <3>2
  <2>6. k \in DOMAIN sent /\ k \in 1 .. Len(sent)
    BY <2>3, <2>4, <2>5
  <2>7. PICK m, rep : m = sent[k] /\ rep = received[k]
    OBVIOUS
  <2>8. m.header.base.command \in {CMD_SUBMIT, CMD_UNLINK} /\ rep = EchoOf(m)
    BY <2>2, <2>4, <2>5, <2>7 DEF OrderFor, Served
  <2>9. m \in Messages /\ Fits(m)
    BY <2>6, <2>7, AsksFrames
  <2>10. PICK h, t : h = m.header /\ t = OnWire(m.header, m.payload)
    OBVIOUS
  <2>11. h \in Headers /\ m.payload \in Seq(Byte) /\ (Announced(h) > 0 => Len(m.payload) = Announced(h))
    BY <2>9, <2>10 DEF Messages, Fits
  <2>12. t \in Seq(Byte) /\ t = IF Announced(h) > 0 THEN m.payload ELSE <<>>
    BY <2>10, <2>11, PayloadOnWire
  <2>13. Len(t) \in Nat /\ Len(t) \in SignedWord
    <3>1. Len(t) \in Nat
      BY <2>12
    <3>2. Len(<<>>) = 0 /\ 0 \in SignedWord
      BY WordsAreInts
    <3>3. Announced(h) > 0 => Len(t) \in SignedWord
      BY <2>11, <2>12, AnnouncedIsSigned
    <3>4. ~(Announced(h) > 0) => Len(t) \in SignedWord
      BY <2>12, <3>2
    <3> QED BY <3>1, <3>3, <3>4
  <2>14. PICK n \in Nat : n = Len(t) /\ n \in SignedWord
    BY <2>13
  <2>15. rep.header = EchoReply(h, n) /\ rep.payload = t
    BY <2>8, <2>10, <2>14 DEF EchoOf
  <2>16. /\ rep.header.base.seqnum = h.base.seqnum /\ rep.header.base.devid = h.base.devid
         /\ rep.header.base.ep = h.base.ep
         /\ h.base.command = CMD_SUBMIT =>
              /\ rep.header.base.command = RET_SUBMIT
              /\ rep.header.u.setup0 = h.u.setup0 /\ rep.header.u.setup4 = h.u.setup4
              /\ rep.header.u.actual_length = n
         /\ h.base.command = CMD_UNLINK => rep.header.base.command = RET_UNLINK
    <3>1. h.base.command \in {CMD_SUBMIT, CMD_UNLINK}
      BY <2>8, <2>10
    <3> QED BY <2>11, <2>14, <2>15, <3>1, EchoReplyHeader
  <2> QED BY <2>6, <2>7, <2>10, <2>12, <2>14, <2>15, <2>16
<1> QED BY AlwaysOrder, <1>1, PTL

-----------------------------------------------------------------------------
(* The connection implements the queue of EchoService *)

\* The values EchoService sees.
Queue == [k \in 1 .. FitLength |-> Content(sent[k])]
Given == [k \in 1 .. IF Len(received) < FitLength THEN Len(received) ELSE FitLength |->
            Content(received[k])]
Ended == Over \/ FitLength < Len(sent)

LEMMA ServiceSteps ==
  /\ Service!Init <=> Queue = <<>> /\ Given = <<>> /\ Ended = FALSE
  /\ Service!Ask <=> /\ Len(Queue') = Len(Queue) + 1
                     /\ Queue'[Len(Queue')] \in [seq : Word, payload : Seq(Byte)]
                     /\ Queue' = Append(Queue, Queue'[Len(Queue')])
                     /\ UNCHANGED <<Given, Ended>>
  /\ Service!Answer <=> /\ Len(Given) < Len(Queue)
                        /\ Given' = Append(Given, Queue[Len(Given) + 1])
                        /\ UNCHANGED <<Queue, Ended>>
  /\ Service!End <=> ~Ended /\ Ended' = TRUE /\ UNCHANGED <<Queue, Given>>
  /\ UNCHANGED Service!vars <=> UNCHANGED <<Queue, Given, Ended>>
BY DEF Service!Init, Service!Ask, Service!Answer, Service!End, Service!vars, Queue, Given, Ended

\* There is one number of leading requests that fit.
OneFit == \A n : Fitting(n) /\ Len(sent) \in Nat => FitLength = n

LEMMA FitLengthIs == OneFit
<1> SUFFICES ASSUME NEW n, Fitting(n), Len(sent) \in Nat PROVE FitLength = n
  BY DEF OneFit
<1> DEFINE P(i) == /\ \A j \in 1 .. i : Fits(sent[j])
                   /\ i < Len(sent) => ~Fits(sent[i + 1])
<1>1. n \in 0 .. Len(sent) /\ P(n)
  BY DEF Fitting
<1>2. ASSUME NEW i \in 0 .. Len(sent), P(i) PROVE i = n
  <2>1. CASE i < n
    <3>1. i < Len(sent) /\ i + 1 \in 1 .. n
      BY <1>1, <2>1
    <3> QED BY <1>1, <1>2, <3>1
  <2>2. CASE n < i
    <3>1. n < Len(sent) /\ n + 1 \in 1 .. i
      BY <1>1, <2>2
    <3> QED BY <1>1, <1>2, <3>1
  <2> QED BY <1>1, <2>1, <2>2
<1> DEFINE c == CHOOSE i \in 0 .. Len(sent) : P(i)
<1>3. c \in 0 .. Len(sent) /\ P(c)
  BY <1>1
<1>4. FitLength = c
  BY DEF FitLength
<1> QED BY <1>2, <1>3, <1>4

LEMMA FitLengthNext == OneFit'
BY FitLengthIs, PTL

\* More answers than fitting requests: then there is a request that does not fit.
FitsInOrder ==
  Types /\ ImportInv /\ OrderInv /\ server # "strayed" =>
    /\ Fitting(FitLength) /\ FitLength \in 0 .. Len(sent)
    /\ FitLength < Len(received) => FitLength < Len(sent)

LEMMA FitLengthFits == FitsInOrder
<1> SUFFICES ASSUME Types, ImportInv, OrderInv, server # "strayed"
             PROVE  /\ Fitting(FitLength) /\ FitLength \in 0 .. Len(sent)
                    /\ FitLength < Len(received) => FitLength < Len(sent)
  BY DEF FitsInOrder
<1>1. Len(sent) \in Nat /\ Len(received) \in Nat
  BY AsksFrames
<1>2. PICK F : Fitting(F) /\ (F < Len(received) => F < Len(sent))
  <2>1. CASE InSession
    <3>1. PICK F, e, R : OrderFor(F, e, R)
      BY <2>1 DEF OrderInv
    <3>2. /\ Fitting(F) /\ F \in 0 .. Len(sent)
          /\ e \in Nat /\ Len(received) <= e /\ (F < e => F < Len(sent))
      BY <3>1 DEF OrderFor, Served, Fitting
    <3> QED BY <1>1, <3>2
  <2>2. CASE ~InSession
    <3>1. sent = <<>> /\ received = <<>>
      BY <2>2 DEF InSession, ImportInv
    <3>2. Fitting(0)
      BY <3>1 DEF Fitting
    <3> QED BY <3>1, <3>2
  <2> QED BY <2>1, <2>2
<1>3. FitLength = F
  BY <1>1, <1>2, FitLengthIs DEF OneFit
<1> QED BY <1>2, <1>3 DEF Fitting

LEMMA InitService == Init => Service!Init
<1> SUFFICES ASSUME Init PROVE Service!Init
  OBVIOUS
<1>1. sent = <<>> /\ received = <<>> /\ Len(sent) = 0 /\ Len(received) = 0
  BY DEF Init
<1>2. FitLength = 0
  <2>1. Fitting(0)
    BY <1>1 DEF Fitting
  <2> QED BY <1>1, <2>1, FitLengthIs DEF OneFit
<1>3. Queue = <<>> /\ Given = <<>>
  BY <1>1, <1>2 DEF Queue, Given
<1>4. Ended = FALSE
  BY <1>1, <1>2 DEF Ended, Over, Init
<1> QED BY <1>3, <1>4, ServiceSteps

\* A step that neither sends a request nor returns an answer.
LEMMA QuietService ==
  ASSUME UNCHANGED <<sent, received>>, Over => Over'
  PROVE  Service!End \/ UNCHANGED Service!vars
<1>1. FitLength' = FitLength /\ Queue' = Queue /\ Given' = Given
  BY DEF FitLength, Queue, Given
<1>2. Ended => Ended'
  BY <1>1 DEF Ended
<1>3. Ended \in BOOLEAN /\ Ended' \in BOOLEAN
  BY DEF Ended
<1>4. CASE Ended' = Ended
  BY <1>1, <1>4, ServiceSteps
<1>5. CASE ~Ended /\ Ended' = TRUE
  BY <1>1, <1>5, ServiceSteps
<1> QED BY <1>2, <1>3, <1>4, <1>5

\* A client that has failed or closed and a server that is gone do nothing.
LEMMA OverStays ==
  ASSUME [Next]_vars
  PROVE  Over => Over'
<1>1. CASE Import
  BY <1>1
  DEF Import, RefuseEmptyBusid, SendImport, AcceptDevice, SendOpRepImport, ReceiveReply,
      ImportEof, Connected, KeepaliveFails, Over
<1>2. ASSUME NEW r \in Requests, SendHeader(r) \/ SendRefused(r) PROVE Over => Over'
  BY <1>2 DEF SendHeader, SendRefused, Over
<1>3. CASE Serve \/ ServeFails \/ RecvHeader \/ RecvFails
  BY <1>3 DEF Serve, ServeFails, RecvHeader, RecvFails, Over
<1>4. ASSUME NEW f \in Strays, Stray(f) PROVE Over => Over'
  BY <1>4 DEF Stray, Over
<1>5. CASE UNCHANGED vars
  BY <1>5 DEF vars, Over
<1> QED BY <1>1, <1>2, <1>3, <1>4, <1>5 DEF Next

\* What a request carries, to the server or not.
LEMMA ContentTypes ==
  ASSUME NEW m \in Messages
  PROVE  Content(m) \in [seq : Word, payload : Seq(Byte)]
<1>1. m.header \in Headers /\ m.payload \in Seq(Byte) /\ <<>> \in Seq(Byte)
  BY DEF Messages
<1>2. PICK h : h = m.header
  OBVIOUS
<1>3. h.base \in [FieldsOf(BasicPut) -> Word]
  BY <1>1, <1>2, HeaderParts DEF IsHeader
<1>4. "seqnum" \in FieldsOf(BasicPut)
  BY BasicLayout
<1> QED BY <1>1, <1>2, <1>3, <1>4 DEF Content

\* A request is asked, or it is the first that does not fit, or comes later.
LEMMA SendHeaderService ==
  ASSUME Types, ImportInv, OrderInv, server # "strayed", NEW r \in Requests, SendHeader(r)
  PROVE  Service!Ask \/ Service!End \/ UNCHANGED Service!vars
<1>0. PICK n \in Nat, m \in Nat : n = Len(sent) /\ m = Len(received)
  BY AsksFrames
<1>1. PICK q : q = [header |-> Numbered(r.header), payload |-> r.payload]
  OBVIOUS
<1>2. q \in Messages
  BY <1>1, SentTypes DEF SendHeader
<1>3. /\ Len(sent') = n + 1 /\ sent'[n + 1] = q /\ \A k \in 1 .. n : sent'[k] = sent[k]
      /\ UNCHANGED <<received, client, server>>
  <2>1. sent' = Append(sent, q) /\ UNCHANGED <<received, client, server>>
    BY <1>1 DEF SendHeader
  <2> QED BY <1>0, <1>2, <2>1 DEF Types
<1>4. Over' = Over
  BY <1>3 DEF Over
<1>5. PICK F \in 0 .. n : F = FitLength /\ Fitting(F) /\ (F < m => F < n)
  BY <1>0, FitLengthFits DEF FitsInOrder
<1>6. /\ \A j \in 1 .. F : sent'[j] = sent[j] /\ Fits(sent[j])
      /\ F < n => sent'[F + 1] = sent[F + 1] /\ ~Fits(sent[F + 1])
  <2>1. \A j \in 1 .. F : j \in 1 .. n
    OBVIOUS
  <2>2. F < n => F + 1 \in 1 .. n
    OBVIOUS
  <2> QED BY <1>0, <1>3, <1>5, <2>1, <2>2 DEF Fitting
<1>7. CASE F < n \/ ~Fits(q)
  <2>1. Fitting(F)'
    <3>1. F \in 0 .. Len(sent') /\ F < Len(sent')
      BY <1>3
    <3>2. \A j \in 1 .. F : Fits(sent'[j])
      BY <1>6
    <3>3. ~Fits(sent'[F + 1])
      <4>1. CASE F < n
        BY <1>6, <4>1
      <4>2. CASE F = n
        BY <1>3, <1>7, <4>2
      <4> QED BY <4>1, <4>2
    <3> QED BY <3>1, <3>2, <3>3 DEF Fitting
  <2>2. FitLength' = F
    <3>1. Len(sent') \in Nat
      BY <1>3
    <3> QED BY <2>1, <3>1, FitLengthNext DEF OneFit
  <2>3. Queue' = Queue /\ Given' = Given
    <3>1. Queue' = Queue
      BY <1>5, <1>6, <2>2 DEF Queue
    <3> QED BY <1>3, <1>5, <2>2, <3>1 DEF Given
  <2>4. Ended' = TRUE /\ Ended \in BOOLEAN
    <3>1. F < Len(sent')
      BY <1>3
    <3> QED BY <2>2, <3>1 DEF Ended
  <2>5. CASE Ended
    BY <2>3, <2>4, <2>5, ServiceSteps
  <2>6. CASE ~Ended
    BY <2>3, <2>4, <2>6, ServiceSteps
  <2> QED BY <2>5, <2>6
<1>8. CASE F = n /\ Fits(q)
  <2>1. Fitting(n + 1)'
    <3>1. ASSUME NEW j \in 1 .. n + 1 PROVE Fits(sent'[j])
      <4>1. CASE j \in 1 .. n
        BY <1>6, <1>8, <4>1
      <4>2. CASE j = n + 1
        BY <1>3, <1>8, <4>2
      <4> QED BY <4>1, <4>2
    <3>2. n + 1 \in 0 .. Len(sent') /\ ~(n + 1 < Len(sent'))
      BY <1>3
    <3> QED BY <3>1, <3>2 DEF Fitting
  <2>2. FitLength' = n + 1
    <3>1. Len(sent') \in Nat
      BY <1>3
    <3> QED BY <2>1, <3>1, FitLengthNext DEF OneFit
  <2>3. /\ Queue = [k \in 1 .. n |-> Content(sent[k])]
        /\ Queue' = [k \in 1 .. n + 1 |-> Content(sent'[k])]
    BY <1>5, <1>8, <2>2 DEF Queue
  <2>4. Content(q) \in [seq : Word, payload : Seq(Byte)]
    BY <1>2, ContentTypes
  <2>5. /\ Len(Queue) = n /\ Len(Queue') = n + 1
        /\ Queue'[n + 1] = Content(q)
        /\ Queue' = Append(Queue, Content(q))
    <3> DEFINE a == [k \in 1 .. n |-> Content(sent[k])]
               b == [k \in 1 .. n + 1 |-> Content(sent'[k])]
    <3>1. \A k \in 1 .. n : a[k] = b[k]
      BY <1>3
    <3>2. b[n + 1] = Content(q)
      BY <1>3
    <3>3. a = [k \in 1 .. n |-> a[k]] /\ b = [k \in 1 .. n + 1 |-> b[k]]
      OBVIOUS
    <3> HIDE DEF a, b
    <3>4. Len(a) = n /\ Len(b) = n + 1 /\ b = Append(a, b[n + 1])
      BY <3>1, <3>3, OneMore
    <3> QED BY <2>3, <3>2, <3>4 DEF a, b
  <2>6. Given' = Given
    <3>1. m <= n
      BY <1>5, <1>8
    <3>2. /\ (IF Len(received) < FitLength THEN Len(received) ELSE FitLength) = m
          /\ (IF Len(received) < FitLength THEN Len(received) ELSE FitLength)' = m
      BY <1>0, <1>3, <1>5, <1>8, <2>2, <3>1
    <3> QED BY <1>3, <3>2 DEF Given
  <2>7. Ended' = Ended
    BY <1>0, <1>3, <1>4, <1>5, <1>8, <2>2 DEF Ended
  <2> QED BY <2>4, <2>5, <2>6, <2>7, ServiceSteps
<1> QED BY <1>5, <1>7, <1>8

\* An answer that carries its request has the same content.
LEMMA AnswerContent ==
  ASSUME Types, ImportInv, OrderInv, AnswersCarryRequests, server # "strayed",
         NEW k \in 1 .. Len(received), k <= FitLength
  PROVE  Content(received[k]) = Content(sent[k])
<1>1. InSession
  <2>1. received # <<>>
    BY DEF Types
  <2> QED BY <2>1 DEF ImportInv, InSession
<1>2. Len(sent) \in Nat /\ DOMAIN received = 1 .. Len(received) /\ DOMAIN sent = 1 .. Len(sent)
  BY DEF Types
<1>3. PICK F, e, R : OrderFor(F, e, R)
  BY <1>1 DEF OrderInv
<1>4. FitLength = F
  BY <1>2, <1>3, FitLengthIs DEF OneFit, OrderFor
<1>5. F \in 0 .. Len(sent) /\ \A j \in 1 .. F : Fits(sent[j])
  BY <1>3 DEF OrderFor, Fitting
<1>6. k \in 1 .. e /\ k <= F /\ k \in DOMAIN sent
  <2>1. e \in Nat /\ Len(received) <= e /\ Len(received) \in Nat
    BY <1>3, AsksFrames DEF OrderFor, Served
  <2> QED BY <1>2, <1>4, <1>5, <2>1
<1>7. PICK h, rep : h = sent[k].header /\ rep = received[k]
  OBVIOUS
<1>8. /\ h.base.command \in {CMD_SUBMIT, CMD_UNLINK}
      /\ IsReply(rep)
  BY <1>3, <1>6, <1>7 DEF OrderFor, Served
<1>9. \A j \in DOMAIN sent : j <= k => Fits(sent[j])
  BY <1>2, <1>5, <1>6
<1>10. /\ rep.header.base.seqnum = h.base.seqnum
       /\ h.base.command = CMD_SUBMIT =>
            /\ rep.header.base.command = RET_SUBMIT
            /\ rep.payload = IF Announced(h) > 0 THEN sent[k].payload ELSE <<>>
            /\ rep.header.u.actual_length = Len(rep.payload)
       /\ h.base.command = CMD_UNLINK => rep.header.base.command = RET_UNLINK
  BY <1>2, <1>6, <1>7, <1>9 DEF AnswersCarryRequests
<1>11. CMD_SUBMIT = 1 /\ CMD_UNLINK = 2 /\ RET_SUBMIT = 3 /\ RET_UNLINK = 4
  BY DEF CMD_SUBMIT, CMD_UNLINK, RET_SUBMIT, RET_UNLINK
<1>12. rep.payload \in Seq(Byte)
  BY <1>8 DEF IsReply, ReplyOf
<1>13. CASE h.base.command = CMD_SUBMIT
  <2>1. Announced(rep.header) = Len(rep.payload)
    BY <1>10, <1>11, <1>13 DEF Announced
  <2>2. Len(rep.payload) \in Nat /\ (Len(rep.payload) = 0 => rep.payload = <<>>)
    BY <1>12
  <2>3. Content(rep).payload = rep.payload
    BY <2>1, <2>2 DEF Content
  <2>4. Content(sent[k]).payload = rep.payload
    BY <1>7, <1>10, <1>13 DEF Content
  <2> QED BY <1>7, <1>10, <2>3, <2>4 DEF Content
<1>14. CASE h.base.command = CMD_UNLINK
  <2>1. Announced(rep.header) = 0 /\ Announced(h) = 0
    BY <1>10, <1>11, <1>14 DEF Announced
  <2> QED BY <1>7, <1>10, <2>1 DEF Content
<1> QED BY <1>8, <1>13, <1>14

ContentKept ==
  Types /\ ImportInv /\ OrderInv /\ AnswersCarryRequests /\ server # "strayed" =>
    \A k \in 1 .. Len(received) : k <= FitLength => Content(received[k]) = Content(sent[k])

LEMMA ContentIsKept == ContentKept
BY AnswerContent DEF ContentKept

LEMMA ContentKeptNext == ContentKept'
BY ContentIsKept, PTL

\* A call that returns gives the answer of the next request, or comes after a
\* request that does not fit.
LEMMA RecvHeaderService ==
  ASSUME Types, ImportInv, OrderInv, Types', ImportInv', OrderInv', AnswersCarryRequests',
         server # "strayed", RecvHeader
  PROVE  Service!Answer \/ UNCHANGED Service!vars
<1>0. PICK n \in Nat, m \in Nat : n = Len(sent) /\ m = Len(received)
  BY AsksFrames
<1>1. UNCHANGED <<sent, client, server>>
  BY DEF RecvHeader
<1>2. Len(received') = m + 1 /\ \A k \in 1 .. m : received'[k] = received[k]
  <2>1. PICK q : received' = Append(received, q)
    BY DEF RecvHeader
  <2>2. received \in Seq(Messages) /\ received' \in Seq(Messages)
    BY DEF Types
  <2> QED BY <1>0, <2>1, <2>2
<1>3. PICK F \in 0 .. n : F = FitLength
  BY <1>0, FitLengthFits DEF FitsInOrder
<1>4. FitLength' = FitLength
  BY <1>1 DEF FitLength
<1>5. Over' = Over
  BY <1>1 DEF Over
<1>6. Queue' = Queue /\ Ended' = Ended
  BY <1>1, <1>4, <1>5 DEF Queue, Ended
<1>7. CASE F <= m
  <2>1. /\ (IF Len(received) < FitLength THEN Len(received) ELSE FitLength) = F
        /\ (IF Len(received) < FitLength THEN Len(received) ELSE FitLength)' = F
    BY <1>0, <1>2, <1>3, <1>4, <1>7
  <2>2. \A k \in 1 .. F : Content(received'[k]) = Content(received[k])
    <3>1. \A k \in 1 .. F : k \in 1 .. m
      BY <1>0, <1>7
    <3> QED BY <1>2, <3>1
  <2>3. Given = [k \in 1 .. F |-> Content(received[k])]
    BY <2>1 DEF Given
  <2>4. Given' = [k \in 1 .. F |-> Content(received'[k])]
    BY <2>1 DEF Given
  <2>5. Given' = Given
    BY <2>2, <2>3, <2>4
  <2> QED BY <1>6, <2>5, ServiceSteps
<1>8. CASE m < F
  <2>1. /\ (IF Len(received) < FitLength THEN Len(received) ELSE FitLength) = m
        /\ (IF Len(received) < FitLength THEN Len(received) ELSE FitLength)' = m + 1
    BY <1>0, <1>2, <1>3, <1>4, <1>8
  <2> DEFINE a == [k \in 1 .. m |-> Content(received[k])]
             b == [k \in 1 .. m + 1 |-> Content(received'[k])]
  <2>2. Given = a
    BY <2>1 DEF Given
  <2>3. Given' = b
    BY <2>1 DEF Given
  <2>4. \A k \in 1 .. m : a[k] = b[k]
    BY <1>2
  <2>5. a = [k \in 1 .. m |-> a[k]] /\ b = [k \in 1 .. m + 1 |-> b[k]]
    OBVIOUS
  <2>6. m + 1 \in 1 .. F /\ m + 1 \in 1 .. m + 1 /\ m + 1 <= F
    BY <1>0, <1>8
  <2>7. b[m + 1] = Queue[m + 1]
    <3>1. Content(received'[m + 1]) = Content(sent'[m + 1])
      BY <1>1, <1>2, <1>3, <1>4, <2>6, ContentKeptNext DEF ContentKept
    <3>2. Queue[m + 1] = Content(sent[m + 1])
      BY <1>3, <2>6 DEF Queue
    <3> QED BY <1>1, <2>6, <3>1, <3>2
  <2> HIDE DEF a, b
  <2>8. Len(a) = m /\ Len(b) = m + 1 /\ b = Append(a, b[m + 1])
    BY <2>4, <2>5, OneMore
  <2>9. Len(Queue) = F
    <3>1. Queue = [k \in 1 .. F |-> Content(sent[k])] /\ F \in Nat
      BY <1>3 DEF Queue
    <3> QED BY <3>1
  <2>10. Len(Given) < Len(Queue) /\ Given' = Append(Given, Queue[Len(Given) + 1])
    BY <1>0, <1>8, <2>2, <2>3, <2>7, <2>8, <2>9
  <2> QED BY <1>6, <2>10, ServiceSteps
<1> QED BY <1>0, <1>3, <1>7, <1>8

\* Every other step ends the session or changes nothing of the queue.
LEMMA NextService ==
  ASSUME Types, ImportInv, OrderInv, Types', ImportInv', OrderInv', AnswersCarryRequests',
         [Next]_vars
  PROVE  [server' # "strayed" => Service!Next]_(Service!vars)
<1> SUFFICES ASSUME server' # "strayed" PROVE Service!Next \/ UNCHANGED Service!vars
  OBVIOUS
<1>1. CASE UNCHANGED <<sent, received>>
  BY <1>1, OverStays, QuietService DEF Service!Next
<1>2. CASE Import
  <2>1. UNCHANGED <<sent, received>>
    BY <1>2
    DEF Import, RefuseEmptyBusid, SendImport, AcceptDevice, SendOpRepImport, ReceiveReply,
        ImportEof, Connected, KeepaliveFails, urbVars
  <2> QED BY <1>1, <2>1
<1>3. ASSUME NEW r \in Requests, SendHeader(r) PROVE Service!Next \/ UNCHANGED Service!vars
  <2>1. server # "strayed"
    BY <1>3 DEF SendHeader
  <2> QED BY <1>3, <2>1, SendHeaderService DEF Service!Next
<1>4. CASE RecvHeader
  <2>1. server # "strayed"
    BY <1>4 DEF RecvHeader
  <2> QED BY <1>4, <2>1, RecvHeaderService DEF Service!Next
<1>5. CASE \/ \E r \in Requests : SendRefused(r)
           \/ Serve \/ ServeFails \/ RecvFails
           \/ \E f \in Strays : Stray(f)
           \/ UNCHANGED vars
  <2>1. UNCHANGED <<sent, received>>
    BY <1>5 DEF SendRefused, Serve, ServeFails, RecvFails, Stray, urbVars, vars
  <2> QED BY <1>1, <2>1
<1> QED BY <1>2, <1>3, <1>4, <1>5 DEF Next

\* From the import to the last answer, a connection whose server is accept_device
\* and serve_urb_echo (server.rs:28, server.rs:62) is the queue of EchoService, on
\* its bytes: send_header appends a request, recv_header_or_close takes the answer
\* of the oldest, and nothing else is asked or answered until a server ends with
\* bytes of its own.
THEOREM ConnectionImplementsEchoService == Spec => ImplementsEchoService
<1>1. Init => Service!Init
  BY InitService
<1>2. /\ (Types /\ ImportInv /\ OrderInv) /\ (Types /\ ImportInv /\ OrderInv)'
      /\ AnswersCarryRequests' /\ [Next]_vars
      => [server' # "strayed" => Service!Next]_(Service!vars)
  BY NextService
<1> QED BY <1>1, <1>2, AlwaysOrder, AlwaysCarries, PTL DEF Spec, ImplementsEchoService

\* Where nobody strays, that is the specification of EchoService.
THEOREM EchoingConnectionIsService == Spec /\ [](server # "strayed") => Service!Spec
<1>1. (server # "strayed")' /\ [server' # "strayed" => Service!Next]_(Service!vars)
      => [Service!Next]_(Service!vars)
  OBVIOUS
<1> QED BY <1>1, ConnectionImplementsEchoService, PTL DEF ImplementsEchoService, Service!Spec
=============================================================================
