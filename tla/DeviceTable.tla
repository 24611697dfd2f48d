----------------------------- MODULE DeviceTable -----------------------------
(***************************************************************************)
(* What the device registry promises: every bus holds at most one device,  *)
(* a device goes through a fixed life cycle, and a session serves a device *)
(* exactly from the step that forwards it to the step that takes it away.  *)
(* There is no queue, no task and no snapshot here: DeviceRegistry shows   *)
(* that it implements this table.                                          *)
(***************************************************************************)
CONSTANTS BusIds, SessionIds, Descriptors

VARIABLES table,   \* plugged buses -> the device and its stage
          served   \* per session: the buses it serves

Stages == {"Idle", "Bound", "Forwarded", "Disconnected"}

Plugged(b) == b \in DOMAIN table
Stage(b) == table[b].stage
Withdrawn(b) == [s \in SessionIds |-> served[s] \ {b}]

Init ==
  /\ table = [b \in {} |-> b]
  /\ served = [s \in SessionIds |-> {}]

\* A new device, or one that comes back after it was disconnected.
Plug(b, d) ==
  /\ Plugged(b) => Stage(b) = "Disconnected"
  /\ table' = [c \in DOMAIN table \cup {b} |->
                 IF c = b THEN [device |-> d, stage |-> "Idle"] ELSE table[c]]
  /\ UNCHANGED served

Unplug(b) ==
  /\ Plugged(b)
  /\ table' = [c \in DOMAIN table \ {b} |-> table[c]]
  /\ served' = Withdrawn(b)

Bind(b) ==
  /\ Plugged(b) /\ Stage(b) = "Idle"
  /\ table' = [table EXCEPT ![b].stage = "Bound"]
  /\ UNCHANGED served

Forward(b, s) ==
  /\ Plugged(b) /\ Stage(b) = "Bound"
  /\ table' = [table EXCEPT ![b].stage = "Forwarded"]
  /\ served' = [served EXCEPT ![s] = @ \cup {b}]

Release(b) ==
  /\ Plugged(b) /\ Stage(b) = "Forwarded"
  /\ table' = [table EXCEPT ![b].stage = "Idle"]
  /\ served' = Withdrawn(b)

Disconnect(b) ==
  /\ Plugged(b) /\ Stage(b) # "Disconnected"
  /\ table' = [table EXCEPT ![b].stage = "Disconnected"]
  /\ served' = Withdrawn(b)

Next ==
  \E b \in BusIds :
    \/ \E d \in Descriptors : Plug(b, d)
    \/ Unplug(b)
    \/ Bind(b)
    \/ \E s \in SessionIds : Forward(b, s)
    \/ Release(b)
    \/ Disconnect(b)

Spec == Init /\ [][Next]_<<table, served>>
=============================================================================
