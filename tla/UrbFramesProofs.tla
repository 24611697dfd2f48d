-------------------------- MODULE UrbFramesProofs --------------------------
(***************************************************************************)
(* A frame is decoded to the header and the payload it was encoded from,   *)
(* and the readers that look into it find what the decoder finds, for      *)
(* every radix and payload limit.                                          *)
(***************************************************************************)
EXTENDS UrbFrames, WireBytesProofs

\* The layouts name no field twice, and decode_* reads what encode_* puts.
LEMMA BasicLayout ==
  /\ IsLayout(BasicPut) /\ BasicRead = BasicPut /\ Len(BasicPut) = 5
  /\ BasicPut[1] = "command" /\ BasicPut[4] = "direction"
  /\ FieldsOf(BasicPut) = {"command", "seqnum", "devid", "direction", "ep"}
  /\ \A f \in FieldsOf(BasicPut) : f \notin SignedFields
<1>1. /\ BasicRead = BasicPut /\ Len(BasicPut) = 5
      /\ BasicPut[1] = "command" /\ BasicPut[2] = "seqnum" /\ BasicPut[3] = "devid"
      /\ BasicPut[4] = "direction" /\ BasicPut[5] = "ep"
  BY DEF BasicPut, BasicRead
<1>2. DOMAIN BasicPut = 1 .. 5
  BY DEF BasicPut
<1>3. \A i, j \in 1 .. 5 : BasicPut[i] = BasicPut[j] => i = j
  BY <1>1
<1>4. FieldsOf(BasicPut) = {"command", "seqnum", "devid", "direction", "ep"}
  BY <1>1, <1>2 DEF FieldsOf
<1>5. IsLayout(BasicPut)
  BY <1>1, <1>2, <1>3 DEF IsLayout
<1> QED BY <1>1, <1>4, <1>5 DEF SignedFields

\* What the layouts of the four variants have in common.
Variant(put, read) == IsLayout(put) /\ read = put /\ Len(put) = 7

LEMMA SubmitLayout ==
  /\ Variant(CmdSubmitPut, CmdSubmitRead)
  /\ CmdSubmitPut[2] = "transfer_buffer_length" /\ CmdSubmitPut[4] = "number_of_packets"
<1>1. /\ CmdSubmitRead = CmdSubmitPut /\ Len(CmdSubmitPut) = 7
      /\ CmdSubmitPut[1] = "transfer_flags" /\ CmdSubmitPut[2] = "transfer_buffer_length"
      /\ CmdSubmitPut[3] = "start_frame" /\ CmdSubmitPut[4] = "number_of_packets"
      /\ CmdSubmitPut[5] = "interval" /\ CmdSubmitPut[6] = "setup0" /\ CmdSubmitPut[7] = "setup4"
  BY DEF CmdSubmitPut, CmdSubmitRead
<1>2. DOMAIN CmdSubmitPut = 1 .. 7
  BY DEF CmdSubmitPut
<1>3. \A i, j \in 1 .. 7 : CmdSubmitPut[i] = CmdSubmitPut[j] => i = j
  BY <1>1
<1> QED BY <1>1, <1>2, <1>3 DEF IsLayout, Variant

LEMMA RetSubmitLayout ==
  /\ Variant(RetSubmitPut, RetSubmitRead)
  /\ RetSubmitPut[2] = "actual_length" /\ RetSubmitPut[4] = "number_of_packets"
<1>1. /\ RetSubmitRead = RetSubmitPut /\ Len(RetSubmitPut) = 7
      /\ RetSubmitPut[1] = "status" /\ RetSubmitPut[2] = "actual_length"
      /\ RetSubmitPut[3] = "start_frame" /\ RetSubmitPut[4] = "number_of_packets"
      /\ RetSubmitPut[5] = "error_count" /\ RetSubmitPut[6] = "setup0" /\ RetSubmitPut[7] = "setup4"
  BY DEF RetSubmitPut, RetSubmitRead
<1>2. DOMAIN RetSubmitPut = 1 .. 7
  BY DEF RetSubmitPut
<1>3. \A i, j \in 1 .. 7 : RetSubmitPut[i] = RetSubmitPut[j] => i = j
  BY <1>1
<1> QED BY <1>1, <1>2, <1>3 DEF IsLayout, Variant

\* One field before others.
LEMMA ConsFields ==
  ASSUME NEW S, NEW s \in Seq(S), NEW t \in Seq(S)
  PROVE  /\ Len(s \o t) = Len(s) + Len(t)
         /\ DOMAIN (s \o t) = 1 .. Len(s) + Len(t)
         /\ \A i \in 1 .. Len(s) : (s \o t)[i] = s[i]
         /\ \A i \in 1 .. Len(t) : (s \o t)[Len(s) + i] = t[i]
OBVIOUS

\* An UNLINK is one word and six of padding.
LEMMA PaddedLayout ==
  ASSUME NEW f \in {"seqnum", "status"}
  PROVE  /\ Variant(<<f>> \o Paddings, <<f>> \o Paddings)
         /\ (<<f>> \o Paddings)[2] = "padding0" /\ (<<f>> \o Paddings)[4] = "padding2"
<1> DEFINE l == <<f>> \o Paddings
<1>1. /\ Len(Paddings) = 6
      /\ Paddings[1] = "padding0" /\ Paddings[2] = "padding1" /\ Paddings[3] = "padding2"
      /\ Paddings[4] = "padding3" /\ Paddings[5] = "padding4" /\ Paddings[6] = "padding5"
  BY DEF Paddings
<1> DEFINE Names == {f, "padding0", "padding1", "padding2", "padding3", "padding4", "padding5"}
           s == <<f>>
<1>2. s \in Seq(Names) /\ Paddings \in Seq(Names)
  BY DEF Paddings
<1>3. Len(s) = 1 /\ s[1] = f
  OBVIOUS
<1> HIDE DEF Names, s
<1>4. /\ Len(s \o Paddings) = Len(s) + Len(Paddings)
      /\ DOMAIN (s \o Paddings) = 1 .. Len(s) + Len(Paddings)
      /\ \A i \in 1 .. Len(s) : (s \o Paddings)[i] = s[i]
      /\ \A i \in 1 .. Len(Paddings) : (s \o Paddings)[Len(s) + i] = Paddings[i]
  BY <1>2, ConsFields
<1>5. l = s \o Paddings
  BY DEF s
<1> HIDE DEF l
<1>6. /\ DOMAIN l = 1 .. 7 /\ Len(l) = 7
      /\ l[1] = f /\ \A i \in 1 .. 6 : l[1 + i] = Paddings[i]
  BY <1>1, <1>3, <1>4, <1>5
<1>7. /\ l[2] = "padding0" /\ l[3] = "padding1" /\ l[4] = "padding2"
      /\ l[5] = "padding3" /\ l[6] = "padding4" /\ l[7] = "padding5"
  BY <1>1, <1>6
<1>8. \A i, j \in 1 .. 7 : l[i] = l[j] => i = j
  BY <1>6, <1>7
<1>9. Variant(l, l)
  BY <1>6, <1>8 DEF IsLayout, Variant
<1> QED BY <1>7, <1>9 DEF l

LEMMA UnlinkLayouts ==
  /\ Variant(CmdUnlinkPut, CmdUnlinkRead) /\ Variant(RetUnlinkPut, RetUnlinkRead)
  /\ CmdUnlinkPut[2] = "padding0" /\ CmdUnlinkPut[4] = "padding2"
  /\ RetUnlinkPut[2] = "padding0" /\ RetUnlinkPut[4] = "padding2"
BY PaddedLayout DEF CmdUnlinkPut, CmdUnlinkRead, RetUnlinkPut, RetUnlinkRead

LEMMA VariantLayouts ==
  ASSUME NEW c \in Commands
  PROVE  Variant(VariantPut[c], VariantRead[c])
<1>1. /\ VariantPut[1] = CmdSubmitPut /\ VariantRead[1] = CmdSubmitRead
      /\ VariantPut[2] = CmdUnlinkPut /\ VariantRead[2] = CmdUnlinkRead
      /\ VariantPut[3] = RetSubmitPut /\ VariantRead[3] = RetSubmitRead
      /\ VariantPut[4] = RetUnlinkPut /\ VariantRead[4] = RetUnlinkRead
  BY DEF VariantPut, VariantRead
<1> QED
  BY <1>1, SubmitLayout, RetSubmitLayout, UnlinkLayouts
  DEF Commands, CMD_SUBMIT, CMD_UNLINK, RET_SUBMIT, RET_UNLINK

-----------------------------------------------------------------------------
(* Frames *)

\* ab is a with b after it.
Joins(ab, a, b) ==
  /\ ab \in Seq(Byte) /\ Len(ab) = Len(a) + Len(b)
  /\ \A i \in 1 .. Len(a) : ab[i] = a[i]
  /\ \A i \in 1 .. Len(b) : ab[Len(a) + i] = b[i]

LEMMA TwoParts ==
  ASSUME NEW a \in Seq(Byte), NEW b \in Seq(Byte)
  PROVE  a \o b \in Seq(Byte) /\ Joins(a \o b, a, b)
<1>1. a \o b \in Seq(Byte)
  OBVIOUS
<1>2. /\ Len(a \o b) = Len(a) + Len(b)
      /\ \A i \in 1 .. Len(a) : (a \o b)[i] = a[i]
      /\ \A i \in 1 .. Len(b) : (a \o b)[Len(a) + i] = b[i]
  BY ConsFields
<1> QED BY <1>1, <1>2 DEF Joins

\* buf is a, b and t, and then anything.
Frame(buf, a, b, t, r) ==
  /\ buf \in Seq(Byte)
  /\ Len(buf) = Len(a) + Len(b) + Len(t) + Len(r)
  /\ \A i \in 1 .. Len(a) : buf[i] = a[i]
  /\ \A i \in 1 .. Len(b) : buf[Len(a) + i] = b[i]
  /\ \A i \in 1 .. Len(t) : buf[Len(a) + Len(b) + i] = t[i]

LEMMA FrameParts ==
  ASSUME NEW a \in Seq(Byte), NEW b \in Seq(Byte), NEW t \in Seq(Byte), NEW r \in Seq(Byte)
  PROVE  Frame(((a \o b) \o t) \o r, a, b, t, r)
<1> DEFINE ab == a \o b
           abt == ab \o t
           buf == abt \o r
<1>1. ab \in Seq(Byte) /\ Joins(ab, a, b)
  BY TwoParts
<1> HIDE DEF ab
<1>2. abt \in Seq(Byte) /\ Joins(abt, ab, t)
  BY <1>1, TwoParts
<1> HIDE DEF abt
<1>3. buf \in Seq(Byte) /\ Joins(buf, abt, r)
  BY <1>2, TwoParts
<1> HIDE DEF buf
<1>4. /\ Len(ab) = Len(a) + Len(b)
      /\ \A i \in 1 .. Len(a) : ab[i] = a[i]
      /\ \A i \in 1 .. Len(b) : ab[Len(a) + i] = b[i]
  BY <1>1 DEF Joins
<1>5. /\ Len(abt) = Len(ab) + Len(t)
      /\ \A i \in 1 .. Len(ab) : abt[i] = ab[i]
      /\ \A i \in 1 .. Len(t) : abt[Len(ab) + i] = t[i]
  BY <1>2 DEF Joins
<1>6. /\ buf \in Seq(Byte) /\ Len(buf) = Len(abt) + Len(r)
      /\ \A i \in 1 .. Len(abt) : buf[i] = abt[i]
  BY <1>3 DEF Joins
<1>7. Len(a) \in Nat /\ Len(b) \in Nat /\ Len(t) \in Nat /\ Len(r) \in Nat
  OBVIOUS
<1>8. Len(buf) = Len(a) + Len(b) + Len(t) + Len(r)
  BY <1>4, <1>5, <1>6, <1>7
<1>9. ASSUME NEW i \in 1 .. Len(a) PROVE buf[i] = a[i]
  <2>1. i \in 1 .. Len(ab) /\ i \in 1 .. Len(abt)
    BY <1>4, <1>5, <1>7
  <2> QED BY <1>4, <1>5, <1>6, <2>1
<1>10. ASSUME NEW i \in 1 .. Len(b) PROVE buf[Len(a) + i] = b[i]
  <2>1. Len(a) + i \in 1 .. Len(ab) /\ Len(a) + i \in 1 .. Len(abt)
    BY <1>4, <1>5, <1>7
  <2> QED BY <1>4, <1>5, <1>6, <2>1
<1>11. ASSUME NEW i \in 1 .. Len(t) PROVE buf[Len(a) + Len(b) + i] = t[i]
  <2>1. Len(ab) + i \in 1 .. Len(abt) /\ Len(ab) + i = Len(a) + Len(b) + i
    BY <1>4, <1>5, <1>7
  <2> QED BY <1>4, <1>5, <1>6, <2>1
<1>12. Frame(buf, a, b, t, r)
  BY <1>6, <1>8, <1>9, <1>10, <1>11 DEF Frame
<1> QED BY <1>12 DEF buf, abt, ab

LEMMA PartOfStream ==
  ASSUME NEW buf \in Seq(Byte), NEW t \in Seq(Byte), NEW k \in Nat,
         k + Len(t) <= Len(buf), \A i \in 1 .. Len(t) : buf[k + i] = t[i]
  PROVE  SubSeq(buf, k + 1, k + Len(t)) = t
<1> DEFINE s == SubSeq(buf, k + 1, k + Len(t))
<1>1. /\ s \in Seq(Byte) /\ Len(s) = Len(t)
      /\ \A i \in 1 .. Len(t) : s[i] = buf[k + i]
  OBVIOUS
<1> HIDE DEF s
<1>2. s = t
  BY <1>1
<1> QED BY <1>2 DEF s

\* The payload that follows a header on the wire.
OnWire(h, payload) == IF Announced(h) > 0 THEN payload ELSE <<>>

LEMMA NothingOfStream ==
  ASSUME NEW buf \in Seq(Byte), NEW m \in Int, NEW n \in Int, n < m
  PROVE  SubSeq(buf, m, n) = <<>>
OBVIOUS

\* The length a header announces is one of its numbers.
LEMMA AnnouncedIsInt ==
  ASSUME NEW h, h.base \in Structs(BasicPut), h.base.command \in Commands,
         h.u \in Structs(VariantPut[h.base.command])
  PROVE  Announced(h) \in Int
<1>1. CASE h.base.command = CMD_SUBMIT
  <2>1. VariantPut[h.base.command] = CmdSubmitPut
    BY <1>1 DEF VariantPut, CMD_SUBMIT
  <2>2. 2 \in 1 .. Len(CmdSubmitPut)
    BY SubmitLayout DEF Variant
  <2>3. "transfer_buffer_length" \in FieldsOf(CmdSubmitPut)
    BY <2>2, SubmitLayout, PlaceIsIndex DEF Variant
  <2>4. h.u.transfer_buffer_length \in Int
    BY <2>1, <2>3 DEF Structs
  <2>5. CMD_SUBMIT # RET_SUBMIT
    BY DEF CMD_SUBMIT, RET_SUBMIT
  <2> QED BY <1>1, <2>4, <2>5 DEF Announced
<1>2. CASE h.base.command = RET_SUBMIT
  <2>1. VariantPut[h.base.command] = RetSubmitPut
    BY <1>2 DEF VariantPut, RET_SUBMIT
  <2>2. 2 \in 1 .. Len(RetSubmitPut)
    BY RetSubmitLayout DEF Variant
  <2>3. "actual_length" \in FieldsOf(RetSubmitPut)
    BY <2>2, RetSubmitLayout, PlaceIsIndex DEF Variant
  <2>4. h.u.actual_length \in Int
    BY <2>1, <2>3 DEF Structs
  <2>5. CMD_SUBMIT # RET_SUBMIT
    BY DEF CMD_SUBMIT, RET_SUBMIT
  <2> QED BY <1>2, <2>4, <2>5 DEF Announced
<1>3. CASE h.base.command \notin {CMD_SUBMIT, RET_SUBMIT}
  BY <1>3 DEF Announced
<1> QED BY <1>1, <1>2, <1>3

\* Where the parts of a frame are, whatever comes after it.
LEMMA FrameHolds ==
  ASSUME NEW base \in Structs(BasicPut), base.command \in Commands,
         NEW u \in Structs(VariantPut[base.command]),
         NEW payload \in Seq(Byte), NEW rest \in Seq(Byte)
  PROVE  LET h == [base |-> base, u |-> u]
             buf == Encoded(h, payload) \o rest
         IN  /\ buf \in Seq(Byte)
             /\ Holds(buf, 0, BasicPut, base)
             /\ Holds(buf, BASIC_HEADER_SIZE, VariantPut[base.command], u)
             /\ Len(buf) = PAYLOAD_OFFSET + Len(OnWire(h, payload)) + Len(rest)
             /\ \A i \in 1 .. Len(OnWire(h, payload)) :
                  buf[PAYLOAD_OFFSET + i] = OnWire(h, payload)[i]
<1> DEFINE h == [base |-> base, u |-> u]
           put == VariantPut[base.command]
<1>1. PICK a : a = PutStruct(BasicPut, base)
  OBVIOUS
<1>2. PICK b : b = PutStruct(put, u)
  OBVIOUS
<1>3. PICK t : t = OnWire(h, payload)
  OBVIOUS
<1>4. PICK buf : buf = ((a \o b) \o t) \o rest
  OBVIOUS
<1>5. Encoded(h, payload) \o rest = buf
  BY <1>1, <1>2, <1>3, <1>4 DEF Encoded, OnWire
<1>6. a \in Seq(Byte) /\ Len(a) = 20
  <2>1. IsLayout(BasicPut) /\ Len(BasicPut) = 5
    BY BasicLayout
  <2>2. PutStruct(BasicPut, base) \in Seq(Byte) /\ Len(PutStruct(BasicPut, base)) = 4 * Len(BasicPut)
    BY <2>1, StructBytes
  <2> QED BY <1>1, <2>1, <2>2
<1>7. IsLayout(put) /\ Len(put) = 7
  BY VariantLayouts DEF Variant
<1>8. b \in Seq(Byte) /\ Len(b) = 28
  <2>1. PutStruct(put, u) \in Seq(Byte) /\ Len(PutStruct(put, u)) = 4 * Len(put)
    BY <1>7, StructBytes
  <2> QED BY <1>2, <1>7, <2>1
<1>9. t \in Seq(Byte)
  BY <1>3 DEF OnWire
<1> HIDE DEF h, put
<1>10. Frame(buf, a, b, t, rest)
  <2>1. Frame(((a \o b) \o t) \o rest, a, b, t, rest)
    BY <1>6, <1>8, <1>9, FrameParts
  <2> QED BY <1>4, <2>1
<1>11. /\ buf \in Seq(Byte)
       /\ Len(buf) = Len(a) + Len(b) + Len(t) + Len(rest)
       /\ \A i \in 1 .. Len(a) : buf[i] = a[i]
       /\ \A i \in 1 .. Len(b) : buf[Len(a) + i] = b[i]
       /\ \A i \in 1 .. Len(t) : buf[Len(a) + Len(b) + i] = t[i]
  BY <1>10 DEF Frame
<1>12. Len(t) \in Nat /\ Len(rest) \in Nat
  BY <1>9
<1>13. Holds(buf, 0, BasicPut, base)
  BY <1>1, <1>6, <1>8, <1>11, <1>12, BasicLayout DEF Holds
<1>14. Holds(buf, BASIC_HEADER_SIZE, put, u)
  BY <1>2, <1>6, <1>7, <1>8, <1>11, <1>12 DEF Holds, BASIC_HEADER_SIZE
<1>15. /\ Len(buf) = PAYLOAD_OFFSET + Len(t) + Len(rest)
       /\ \A i \in 1 .. Len(t) : buf[PAYLOAD_OFFSET + i] = t[i]
  BY <1>6, <1>8, <1>11, <1>12 DEF PAYLOAD_OFFSET, BASIC_HEADER_SIZE, CMD_HEADER_SIZE
<1> QED BY <1>3, <1>5, <1>11, <1>13, <1>14, <1>15 DEF h, put

\* encode_header, then decode_header: a header and a payload of the length it announces are
\* accepted and come back as they were, whatever follows them in the buffer.
THEOREM HeaderRoundTrip ==
  ASSUME NEW base \in Structs(BasicPut), base.command \in Commands,
         NEW u \in Structs(VariantPut[base.command]),
         NEW payload \in Seq(Byte), NEW rest \in Seq(Byte),
         Encodes([base |-> base, u |-> u], TRUE, payload),
         Announced([base |-> base, u |-> u]) > 0
           => Len(payload) = Announced([base |-> base, u |-> u])
  PROVE  LET h == [base |-> base, u |-> u]
             buf == Encoded(h, payload) \o rest
         IN  /\ Decodes(buf)
             /\ DecodedHeader(buf) = h
             /\ DecodedPayload(buf) = OnWire(h, payload)
<1> DEFINE put == VariantPut[base.command]
<1>1. PICK h : h = [base |-> base, u |-> u]
  OBVIOUS
<1>2. PICK buf : buf = Encoded(h, payload) \o rest
  OBVIOUS
<1>3. PICK t : t = OnWire(h, payload)
  OBVIOUS
<1>4. /\ buf \in Seq(Byte)
      /\ Holds(buf, 0, BasicPut, base)
      /\ Holds(buf, BASIC_HEADER_SIZE, put, u)
      /\ Len(buf) = PAYLOAD_OFFSET + Len(t) + Len(rest)
      /\ \A i \in 1 .. Len(t) : buf[PAYLOAD_OFFSET + i] = t[i]
  BY <1>1, <1>2, <1>3, FrameHolds
<1>5. IsLayout(put) /\ VariantRead[base.command] = put
  BY VariantLayouts DEF Variant
<1> HIDE DEF put
<1>6. GetStruct(BasicRead, buf, 0) = base
  <2>1. IsLayout(BasicPut) /\ BasicRead = BasicPut
    BY BasicLayout
  <2>2. GetStruct(BasicPut, buf, 0) = base
    BY <1>4, <2>1, StructRoundTrip
  <2> QED BY <2>1, <2>2
<1>7. GetStruct(VariantRead[base.command], buf, BASIC_HEADER_SIZE) = u
  <2>1. GetStruct(put, buf, BASIC_HEADER_SIZE) = u
    BY <1>4, <1>5, StructRoundTrip DEF put
  <2> QED BY <1>5, <2>1
<1>8. DecodedHeader(buf) = h
  BY <1>1, <1>6, <1>7 DEF DecodedHeader
<1>9. h.base = base /\ h.u = u
  BY <1>1
<1>10. Announced(h) \in Int
  BY <1>9, AnnouncedIsInt
<1>11. t \in Seq(Byte) /\ Len(t) = Positive(Announced(h)) /\ Len(rest) \in Nat
  BY <1>1, <1>3, <1>10 DEF OnWire, Positive
<1>12. PAYLOAD_OFFSET \in Nat
  BY DEF PAYLOAD_OFFSET, BASIC_HEADER_SIZE, CMD_HEADER_SIZE
<1>13. DecodedPayload(buf) = t
  <2>1. CASE Announced(h) > 0
    <3>1. Len(t) = Announced(h)
      BY <1>10, <1>11, <2>1 DEF Positive
    <3>2. SubSeq(buf, PAYLOAD_OFFSET + 1, PAYLOAD_OFFSET + Len(t)) = t
      <4>1. Len(t) \in Nat
        BY <1>11
      <4>2. PAYLOAD_OFFSET + Len(t) <= Len(buf)
        BY <1>4, <1>11, <1>12, <4>1
      <4> QED BY <1>4, <1>11, <1>12, <4>2, PartOfStream
    <3> QED BY <1>8, <3>1, <3>2 DEF DecodedPayload
  <2>2. CASE ~(Announced(h) > 0)
    <3>1. t = <<>>
      BY <1>3, <2>2 DEF OnWire
    <3>2. PAYLOAD_OFFSET + Announced(h) < PAYLOAD_OFFSET + 1
      BY <1>10, <1>12, <2>2
    <3>3. PAYLOAD_OFFSET + 1 \in Int /\ PAYLOAD_OFFSET + Announced(h) \in Int
      BY <1>10, <1>12
    <3>4. SubSeq(buf, PAYLOAD_OFFSET + 1, PAYLOAD_OFFSET + Announced(h)) = <<>>
      BY <1>4, <3>2, <3>3, NothingOfStream
    <3> QED BY <1>8, <3>1, <3>4 DEF DecodedPayload
  <2> QED BY <2>1, <2>2
<1>14. Decodes(buf)
  <2>1. Len(buf) >= PAYLOAD_OFFSET /\ Len(buf) >= PAYLOAD_OFFSET + Announced(h)
    BY <1>4, <1>10, <1>11, <1>12 DEF Positive
  <2>2. base.direction \in Directions
    BY <1>1 DEF Encodes
  <2>3. Announced(h) <= MaxPayload
    <3>1. Announced(h) > 0 => Announced(h) <= MaxPayload
      BY <1>1 DEF Encodes
    <3> QED BY <1>10, <3>1, MaxPayloadAssumption
  <2> QED BY <1>6, <1>8, <2>1, <2>2, <2>3 DEF Decodes
<1> QED BY <1>1, <1>2, <1>3, <1>8, <1>13, <1>14

\* recv_header_inner and serve_urb_echo look for the length of the payload in the bytes of the
\* header before they decode it. They find the length the header announces, and the session
\* finds its number of packets.
THEOREM ReadersAgree ==
  ASSUME NEW base \in Structs(BasicPut), base.command \in Commands,
         NEW u \in Structs(VariantPut[base.command]),
         NEW payload \in Seq(Byte), NEW rest \in Seq(Byte)
  PROVE  LET h == [base |-> base, u |-> u]
             buf == Encoded(h, payload) \o rest
         IN  /\ SessionLength(buf) = Positive(Announced(h))
             /\ base.command = CMD_SUBMIT => EchoLength(buf) = Positive(Announced(h))
             /\ base.command \in {CMD_SUBMIT, RET_SUBMIT}
                  => GetI32(buf, NUM_PACKETS_OFFSET) = u.number_of_packets
<1>1. PICK h : h = [base |-> base, u |-> u]
  OBVIOUS
<1>2. PICK buf : buf = Encoded(h, payload) \o rest
  OBVIOUS
<1>3. PICK put : put = VariantPut[base.command]
  OBVIOUS
<1>4. /\ buf \in Seq(Byte)
      /\ Holds(buf, 0, BasicPut, base)
      /\ Holds(buf, BASIC_HEADER_SIZE, put, u)
  BY <1>1, <1>2, <1>3, FrameHolds
<1>5. IsLayout(put) /\ Len(put) = 7 /\ u \in Structs(put)
  BY <1>3, VariantLayouts DEF Variant
<1>6. h.base = base /\ h.u = u
  BY <1>1
<1>7. GetU32(buf, 0) = base.command /\ GetU32(buf, DIRECTION_OFFSET) = base.direction
  <2>1. /\ IsLayout(BasicPut) /\ 1 \in 1 .. Len(BasicPut) /\ 4 \in 1 .. Len(BasicPut)
        /\ BasicPut[1] = "command" /\ BasicPut[4] = "direction"
        /\ "command" \notin SignedFields /\ "direction" \notin SignedFields
    BY BasicLayout DEF SignedFields
  <2>2. GetU32(buf, 0 + 4 * (1 - 1)) = base[BasicPut[1]]
    BY <1>4, <2>1, FieldAtOffset
  <2>3. GetU32(buf, 0 + 4 * (4 - 1)) = base[BasicPut[4]]
    BY <1>4, <2>1, FieldAtOffset
  <2> QED BY <2>1, <2>2, <2>3 DEF DIRECTION_OFFSET
<1>8. put[2] \in SignedFields => GetI32(buf, TFL_OFFSET) = u[put[2]]
  <2>1. 2 \in 1 .. Len(put)
    BY <1>5
  <2>2. put[2] \in SignedFields => GetI32(buf, BASIC_HEADER_SIZE + 4 * (2 - 1)) = u[put[2]]
    BY <1>4, <1>5, <2>1, FieldAtOffset
  <2> QED BY <2>2 DEF TFL_OFFSET, BASIC_HEADER_SIZE
<1>9. put[4] \in SignedFields => GetI32(buf, NUM_PACKETS_OFFSET) = u[put[4]]
  <2>1. 4 \in 1 .. Len(put)
    BY <1>5
  <2>2. put[4] \in SignedFields => GetI32(buf, BASIC_HEADER_SIZE + 4 * (4 - 1)) = u[put[4]]
    BY <1>4, <1>5, <2>1, FieldAtOffset
  <2> QED BY <2>2 DEF NUM_PACKETS_OFFSET, BASIC_HEADER_SIZE
<1>10. CASE base.command = CMD_SUBMIT
  <2>1. put[2] = "transfer_buffer_length" /\ put[4] = "number_of_packets"
    BY <1>3, <1>10, SubmitLayout DEF VariantPut, CMD_SUBMIT
  <2>2. /\ GetI32(buf, TFL_OFFSET) = u.transfer_buffer_length
        /\ GetI32(buf, NUM_PACKETS_OFFSET) = u.number_of_packets
    BY <1>8, <1>9, <2>1 DEF SignedFields
  <2>3. CMD_SUBMIT # RET_SUBMIT
    BY DEF CMD_SUBMIT, RET_SUBMIT
  <2>4. SessionLength(buf) = Positive(Announced(h)) /\ EchoLength(buf) = Positive(Announced(h))
    BY <1>6, <1>7, <1>10, <2>2, <2>3 DEF SessionLength, EchoLength, Announced, Positive
  <2> QED BY <1>1, <1>2, <2>2, <2>4
<1>11. CASE base.command = RET_SUBMIT
  <2>1. put[2] = "actual_length" /\ put[4] = "number_of_packets"
    BY <1>3, <1>11, RetSubmitLayout DEF VariantPut, RET_SUBMIT
  <2>2. /\ GetI32(buf, TFL_OFFSET) = u.actual_length
        /\ GetI32(buf, NUM_PACKETS_OFFSET) = u.number_of_packets
    BY <1>8, <1>9, <2>1 DEF SignedFields
  <2>3. CMD_SUBMIT # RET_SUBMIT
    BY DEF CMD_SUBMIT, RET_SUBMIT
  <2>4. SessionLength(buf) = Positive(Announced(h))
    BY <1>6, <1>7, <1>11, <2>2, <2>3 DEF SessionLength, Announced
  <2> QED BY <1>1, <1>2, <1>11, <2>2, <2>3, <2>4
<1>12. CASE base.command \notin {CMD_SUBMIT, RET_SUBMIT}
  <2>1. SessionLength(buf) = 0 /\ Positive(Announced(h)) = 0
    BY <1>6, <1>7, <1>12 DEF SessionLength, Announced, Positive
  <2> QED BY <1>1, <1>2, <1>12, <2>1
<1> QED BY <1>10, <1>11, <1>12
=============================================================================
