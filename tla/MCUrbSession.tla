---------------------------- MODULE MCUrbSession ----------------------------
(***************************************************************************)
(* Instances of UrbSession for TLC.                                        *)
(***************************************************************************)
EXTENDS UrbSession, TLC

Call(command, direction, length, packets, given, units) ==
  [command |-> command, direction |-> direction, length |-> length,
   packets |-> packets, given |-> given, units |-> units]

\* Requests whose payload, if it is written, is as long as announced, and two
\* that do not encode.
FittingCalls == {
  Call("CMD_SUBMIT", "OUT", 2, 0, TRUE, 2),
  Call("CMD_SUBMIT", "OUT", 0, 0, TRUE, 1),
  Call("CMD_SUBMIT", "IN", 2, 0, FALSE, 0),
  Call("CMD_UNLINK", "OUT", 0, 0, FALSE, 0),
  Call("CMD_SUBMIT", "OUT", 1, 1, TRUE, 1),
  Call("CMD_SUBMIT", "OUT", 1, 0, FALSE, 0)}

\* A payload too short, too long, longer than allowed, a length below zero or
\* above what the reader allows, and frames that are no request.
OddCalls == {
  Call("CMD_SUBMIT", "OUT", 2, 0, TRUE, 1),
  Call("CMD_SUBMIT", "OUT", 1, 0, TRUE, 2),
  Call("CMD_SUBMIT", "OUT", 3, 0, TRUE, 3),
  Call("CMD_SUBMIT", "OUT", -1, 0, TRUE, 1),
  Call("CMD_SUBMIT", "OUT", 3, 0, TRUE, 2),
  Call("RET_SUBMIT", "IN", 1, 0, TRUE, 1),
  Call("CMD_SUBMIT", "invalid", 0, 0, FALSE, 0)}

AllCalls == FittingCalls \cup OddCalls

NoStrays == {}

\* An isochronous answer, one that announces too much, and a request.
MCStrays == {
  <<HeaderCell([command |-> "RET_SUBMIT", direction |-> "IN", seq |-> 0, length |-> 1, packets |-> 1]),
    DataCell(0, 1)>>,
  <<HeaderCell([command |-> "RET_SUBMIT", direction |-> "IN", seq |-> 0, length |-> 3, packets |-> 0]),
    DataCell(0, 1)>>,
  <<HeaderCell([command |-> "CMD_SUBMIT", direction |-> "OUT", seq |-> 0, length |-> 1, packets |-> 0]),
    DataCell(0, 1)>>}
=============================================================================
