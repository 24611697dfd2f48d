---------------------------- MODULE MCWireSession ----------------------------
(***************************************************************************)
(* Instances of WireSession for TLC: bytes of eight values, so that a word *)
(* has 4096, and fields of four bytes.                                     *)
(***************************************************************************)
EXTENDS WireSession, TLC

\* Empty, shorter than the field, a wider character, cut inside a character.
MCNames == {<<>>, <<Ascii>>, <<Lead2, Continuation, Ascii>>,
            <<Ascii, Ascii, Ascii, Lead2, Continuation>>}

\* Every field has a value of its own.
Reply(status, busid, busnum, speed) ==
  [status |-> status, path |-> Field(SysPath, PathBytes), busid |-> busid,
   busnum |-> busnum, devnum |-> 2050, speed |-> speed,
   id_vendor |-> 35, id_product |-> 42, bcd_device |-> 17,
   b_device_class |-> 1, b_device_sub_class |-> 2, b_device_protocol |-> 3,
   b_configuration_value |-> 4, b_num_configurations |-> 5, b_num_interfaces |-> 6]

\* Texts that end before the field does or fill it, with a NUL inside, all
\* zeros, and bytes that are no text; speeds known and not; two refusals.
MCReplies == {
  Reply(0, <<Ascii, Nul, Nul, Nul>>, 70, 1),
  Reply(0, <<Ascii, Ascii, Ascii, Ascii>>, 70, 4),
  Reply(0, <<Lead3, Continuation, Continuation, Nul>>, 1, 0),
  Reply(0, <<Ascii, Lead2, Continuation, Ascii>>, 4095, 5),
  Reply(0, <<Ascii, Nul, Ascii, Nul>>, 70, 2),
  Reply(0, <<Nul, Nul, Nul, Nul>>, 70, 3),
  Reply(0, <<Continuation, Ascii, Nul, Nul>>, 70, 3),
  Reply(0, <<Ascii, Lead3, Continuation, Ascii>>, 70, 3),
  Reply(0, <<Ascii, Nul, Nul, Nul>>, 0, 3),
  Reply(1, <<Ascii, Nul, Nul, Nul>>, 70, 3)}

Base(command, direction) ==
  [command |-> command, seqnum |-> 0, devid |-> 600, direction |-> direction, ep |-> 9]

Submit(direction, length, packets) ==
  [base |-> Base(CMD_SUBMIT, direction),
   u |-> [transfer_flags |-> 64, transfer_buffer_length |-> length, start_frame |-> -1,
          number_of_packets |-> packets, interval |-> 77, setup0 |-> 3000, setup4 |-> 5]]

RetSubmit(length) ==
  [base |-> Base(RET_SUBMIT, USBIP_DIR_IN),
   u |-> [status |-> -2048, actual_length |-> length, start_frame |-> 2047,
          number_of_packets |-> 0, error_count |-> 1, setup0 |-> 0, setup4 |-> 0]]

Unlink(padding) ==
  [base |-> Base(CMD_UNLINK, USBIP_DIR_OUT),
   u |-> [seqnum |-> 4095] @@ [f \in FieldsOf(Paddings) |-> padding]]

RetUnlink ==
  [base |-> Base(RET_UNLINK, USBIP_DIR_OUT),
   u |-> [status |-> -104] @@ [f \in FieldsOf(Paddings) |-> 0]]

Request(h, given, payload) == [header |-> h, given |-> given, payload |-> payload]

\* Three payload bytes, and a byte with the image of a whole frame behind it.
Data == <<7, 0, 1>>
Image == <<7>> \o Encoded(Unlink(0), <<>>)

\* Requests that fit.
FittingRequests == {
  Request(Submit(USBIP_DIR_OUT, 3, 0), TRUE, Data),
  Request(Submit(USBIP_DIR_OUT, 49, 0), TRUE, Image),
  Request(Submit(USBIP_DIR_IN, 3, 0), TRUE, Data),
  Request(Submit(USBIP_DIR_OUT, -1, 0), TRUE, Data),
  Request(Unlink(0), FALSE, <<>>)}

\* Requests that do not encode, whose payload does not fit, that announce more
\* than the limit, that are answers, or with something in the padding.
OddRequests == {
  Request(Submit(USBIP_DIR_OUT, 3, 0), FALSE, <<>>),
  Request(Submit(USBIP_DIR_OUT, 3, 1), TRUE, Data),
  Request(Submit(2, 0, 0), FALSE, <<>>),
  Request(Submit(USBIP_DIR_OUT, 3, 0), TRUE, Image \o <<7>>),
  Request(Submit(USBIP_DIR_OUT, 1, 0), TRUE, Image),
  Request(Submit(USBIP_DIR_OUT, 48, 0), TRUE, Data),
  Request(Submit(USBIP_DIR_OUT, 50, 0), TRUE, Data),
  Request(RetSubmit(3), TRUE, Data),
  Request(Unlink(4095), FALSE, <<>>),
  Request(RetUnlink, FALSE, <<>>),
  Request([Unlink(0) EXCEPT !.base.command = 5], FALSE, <<>>)}

\* An isochronous answer, one that announces too much, one that is no answer
\* to anything, a broken direction, an unknown command, and half a header.
Iso == [RetSubmit(0) EXCEPT !.u.number_of_packets = 1]
MCStrays == {
  Encoded(Iso, <<>>),
  Encoded(RetSubmit(50), Data),
  Encoded(Submit(USBIP_DIR_OUT, 3, 0), Data),
  Encoded(Submit(2, 0, 0), <<>>),
  PutWords([i \in 1 .. 12 |-> IF i = 1 THEN 5 ELSE 0]),
  Take(Encoded(RetUnlink, <<>>), 40)}

MCRequests == FittingRequests \cup OddRequests
=============================================================================
