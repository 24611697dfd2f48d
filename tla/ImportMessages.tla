--------------------------- MODULE ImportMessages ---------------------------
(***************************************************************************)
(* OP_REQ_IMPORT and OP_REP_IMPORT as bytes (protocol/codec.rs), and what  *)
(* becomes of a reply: a UsbDeviceDescriptor (protocol/device.rs) and then *)
(* a UsbDevice (port/types.rs).                                            *)
(*                                                                         *)
(* The bytes of a text are of five kinds, numbered from 0: the conversions *)
(* tell apart a NUL, an ASCII byte and the parts of wider characters.      *)
(***************************************************************************)
EXTENDS WireBytes

CONSTANTS PathBytes,    \* size of the path field: 256
          BusidBytes    \* size of the busid field: 32

Nul == 0
Ascii == 1
Continuation == 2
Lead2 == 3       \* first of two bytes
Lead3 == 4       \* first of three bytes
ReplacementCharacter == <<Lead3, Continuation, Continuation>>

ASSUME TextAssumption == Radix >= 5
ASSUME FieldsAssumption == PathBytes \in Nat /\ BusidBytes \in Nat \ {0}

-----------------------------------------------------------------------------
(* Text *)

FollowedBy(s, i, n) == \A j \in i + 1 .. i + n : j <= Len(s) /\ s[j] = Continuation

\* Bytes of the character that begins at i, 0 if none does.
CharacterLength(s, i) ==
  CASE s[i] \in {Nul, Ascii} -> 1
    [] s[i] = Lead2 /\ FollowedBy(s, i, 1) -> 2
    [] s[i] = Lead3 /\ FollowedBy(s, i, 2) -> 3
    [] OTHER -> 0

\* Bytes that one replacement character stands for.
BrokenLength(s, i) == IF s[i] = Lead3 /\ FollowedBy(s, i, 1) THEN 2 ELSE 1

\* String::from_utf8_lossy
FromUtf8Lossy(s) ==
  LET from[i \in 1 .. Len(s) + 1] ==
        IF i > Len(s) THEN <<>>
        ELSE IF CharacterLength(s, i) > 0
          THEN SubSeq(s, i, i + CharacterLength(s, i) - 1) \o from[i + CharacterLength(s, i)]
          ELSE ReplacementCharacter \o from[i + BrokenLength(s, i)]
  IN  from[1]

\* core::str::from_utf8: nothing had to be replaced, which makes a text longer.
IsUtf8(s) == FromUtf8Lossy(s) = s

\* trim_end_matches('\0')
TrimNuls(s) ==
  SubSeq(s, 1, CHOOSE n \in 0 .. Len(s) : /\ \A i \in n + 1 .. Len(s) : s[i] = Nul
                                          /\ n > 0 => s[n] # Nul)

\* A field holds the first bytes of a text, padded with zeros.
Field(s, size) == [i \in 1 .. size |-> IF i <= Len(s) THEN s[i] ELSE Nul]

-----------------------------------------------------------------------------
(* OP_REQ_IMPORT *)

USBIP_VERSION == 273   \* 0x0111
SysPath == <<Ascii, Ascii, Ascii>>

\* make_import_request
ImportRequest(busid) ==
  [status |-> USBIP_VERSION, path |-> Field(SysPath, PathBytes), busid |-> Field(busid, BusidBytes)]

SizeOfOpReqImport == Aligned(4 + PathBytes + BusidBytes)

EncodeOpReqImport(req) == PutU32(req.status) \o req.path \o req.busid

\* For at least SizeOfOpReqImport bytes.
DecodeOpReqImport(buf) ==
  [status |-> GetU32(buf, 0),
   path |-> SubSeq(buf, 5, 4 + PathBytes),
   busid |-> SubSeq(buf, 5 + PathBytes, 4 + PathBytes + BusidBytes)]

\* accept_device: not all zeros, and valid UTF-8.
NamesDevice(req) == (\E i \in DOMAIN req.busid : req.busid[i] # Nul) /\ IsUtf8(req.busid)

-----------------------------------------------------------------------------
(* OP_REP_IMPORT *)

OpRepImports ==
  [status : Word, path : [1 .. PathBytes -> Byte], busid : [1 .. BusidBytes -> Byte],
   busnum : Word, devnum : Word, speed : Word,
   id_vendor : Half, id_product : Half, bcd_device : Half,
   b_device_class : Byte, b_device_sub_class : Byte, b_device_protocol : Byte,
   b_configuration_value : Byte, b_num_configurations : Byte, b_num_interfaces : Byte]

SizeOfOpRepImport == Aligned(4 + PathBytes + BusidBytes + 24)

EncodeOpRepImport(rep) ==
  PutU32(rep.status) \o rep.path \o rep.busid
    \o PutU32(rep.busnum) \o PutU32(rep.devnum) \o PutU32(rep.speed)
    \o PutU16(rep.id_vendor) \o PutU16(rep.id_product) \o PutU16(rep.bcd_device)
    \o <<rep.b_device_class, rep.b_device_sub_class, rep.b_device_protocol,
         rep.b_configuration_value, rep.b_num_configurations, rep.b_num_interfaces>>

\* A plausible bug: two fields of one type in the wrong order.
DecodeOpRepImportSwapped(buf) ==
  LET at == 4 + PathBytes + BusidBytes
  IN  [status |-> GetU32(buf, 0),
       path |-> SubSeq(buf, 5, 4 + PathBytes),
       busid |-> SubSeq(buf, 5 + PathBytes, at),
       busnum |-> GetU32(buf, at), devnum |-> GetU32(buf, at + 4), speed |-> GetU32(buf, at + 8),
       id_vendor |-> GetU16(buf, at + 14), id_product |-> GetU16(buf, at + 12),
       bcd_device |-> GetU16(buf, at + 16),
       b_device_class |-> buf[at + 19], b_device_sub_class |-> buf[at + 20],
       b_device_protocol |-> buf[at + 21], b_configuration_value |-> buf[at + 22],
       b_num_configurations |-> buf[at + 23], b_num_interfaces |-> buf[at + 24]]

\* For at least SizeOfOpRepImport bytes.
DecodeOpRepImport(buf) ==
  LET at == 4 + PathBytes + BusidBytes
  IN  [status |-> GetU32(buf, 0),
       path |-> SubSeq(buf, 5, 4 + PathBytes),
       busid |-> SubSeq(buf, 5 + PathBytes, at),
       busnum |-> GetU32(buf, at), devnum |-> GetU32(buf, at + 4), speed |-> GetU32(buf, at + 8),
       id_vendor |-> GetU16(buf, at + 12), id_product |-> GetU16(buf, at + 14),
       bcd_device |-> GetU16(buf, at + 16),
       b_device_class |-> buf[at + 19], b_device_sub_class |-> buf[at + 20],
       b_device_protocol |-> buf[at + 21], b_configuration_value |-> buf[at + 22],
       b_num_configurations |-> buf[at + 23], b_num_interfaces |-> buf[at + 24]]

\* do_handshake
Accepts(rep) == rep.status = 0 /\ rep.busnum # 0 /\ rep.devnum # 0

-----------------------------------------------------------------------------
(* From OP_REP_IMPORT to a device *)

HighSpeed == 3
UsbDeviceSpeeds == 1 .. 4

\* UsbDeviceSpeed::try_from, and what the conversion falls back to.
SpeedOf(value) == IF value \in UsbDeviceSpeeds THEN value ELSE HighSpeed

\* From<OpRepImport> for UsbDeviceDescriptor: every field but the status.
Descriptor(rep) ==
  [f \in DOMAIN rep \ {"status"} |-> IF f = "speed" THEN SpeedOf(rep.speed) ELSE rep[f]]

\* A plausible bug: every byte is taken for a character of its own.
DeviceNameBytewise(d) ==
  TrimNuls(FromUtf8Lossy([i \in 1 .. 2 * Len(d.busid) |->
    LET b == d.busid[(i + 1) \div 2]
    IN  IF b \in {Nul, Ascii} THEN IF i % 2 = 1 THEN b ELSE Nul
                              ELSE IF i % 2 = 1 THEN Lead2 ELSE Continuation]))

DeviceName(d) == TrimNuls(FromUtf8Lossy(d.busid))

\* From<UsbDeviceDescriptor> for UsbDevice; manufacturer and product are None.
UsbDevice(d) ==
  [busid |-> DeviceName(d), vid |-> d.id_vendor, pid |-> d.id_product,
   busnum |-> d.busnum, devnum |-> d.devnum, speed |-> d.speed,
   b_device_class |-> d.b_device_class, b_device_sub_class |-> d.b_device_sub_class,
   b_device_protocol |-> d.b_device_protocol]
=============================================================================
