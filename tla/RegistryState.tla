--------------------------- MODULE RegistryState ---------------------------
(***************************************************************************)
(* The data of the device registry (engine/registry.rs): the snapshot the  *)
(* actor owns and the effect of one command on it.                         *)
(*                                                                         *)
(* A HashMap is a function whose domain is the set of keys present.  The   *)
(* Vec<BusId> a session serves is the multiplicity of each bus in it: no   *)
(* code reads the order, but a duplicate would be visible to every reader. *)
(***************************************************************************)
EXTENDS Naturals, Functions

CONSTANTS BusIds,       \* bus identifiers a device can be plugged at
          SessionIds,   \* forwarding sessions
          Descriptors   \* what a UsbDevice says beyond its busid

Idle == [kind |-> "Idle"]
Bound == [kind |-> "Bound"]
Disconnected == [kind |-> "Disconnected"]
Forwarded(sid) == [kind |-> "Forwarded", sid |-> sid]

DeviceStates == {Idle, Bound, Disconnected} \cup {Forwarded(s) : s \in SessionIds}
DeviceEntries == [device : Descriptors, state : DeviceStates]

\* A Vec<BusId> up to order: how often each bus occurs.
BusLists == [BusIds -> Nat]
EmptyList == [b \in BusIds |-> 0]

EmptySnapshot == [devices |-> [b \in {} |-> b], forwardings |-> [s \in {} |-> s]]

IsTable(devices) ==
  /\ devices = [b \in DOMAIN devices |-> devices[b]]
  /\ DOMAIN devices \subseteq BusIds
  /\ \A b \in DOMAIN devices : devices[b] \in DeviceEntries

IsIndex(fw) ==
  /\ fw = [s \in DOMAIN fw |-> fw[s]]
  /\ DOMAIN fw \subseteq SessionIds
  /\ \A s \in DOMAIN fw : fw[s] \in BusLists

IsSnapshot(st) ==
  /\ st = [devices |-> st.devices, forwardings |-> st.forwardings]
  /\ IsTable(st.devices)
  /\ IsIndex(st.forwardings)

-----------------------------------------------------------------------------
(* Commands *)

AddCommands == [op : {"AddDevice"}, bus : BusIds, device : Descriptors]
RemoveCommands == [op : {"RemoveDevice"}, bus : BusIds]
TransitionCommands == [op : {"TransitionState"}, bus : BusIds, to : DeviceStates]
Commands == AddCommands \cup RemoveCommands \cup TransitionCommands

-----------------------------------------------------------------------------
(* The index from sessions to the buses they serve *)

\* buses.retain(|b| *b != busid), and the key goes when nothing is left.
\* A plausible bug: the emptied list stays in the index.
UnlistKeepingKey(fw, sid, bus) ==
  IF sid \in DOMAIN fw THEN [fw EXCEPT ![sid][bus] = 0] ELSE fw

Unlist(fw, sid, bus) ==
  LET rest == [fw[sid] EXCEPT ![bus] = 0]
  IN  IF sid \notin DOMAIN fw THEN fw
      ELSE IF rest = EmptyList THEN Restrict(fw, DOMAIN fw \ {sid})
      ELSE [fw EXCEPT ![sid] = rest]

\* entry(sid).or_default(), then push(busid) unless the list contains it.
List(fw, sid, bus) ==
  LET buses == IF sid \in DOMAIN fw THEN fw[sid] ELSE EmptyList
      pushed == IF buses[bus] = 0 THEN [buses EXCEPT ![bus] = 1] ELSE buses
  IN  [s \in DOMAIN fw \cup {sid} |-> IF s = sid THEN pushed ELSE fw[s]]

\* The index once `bus` has left `state`: only Forwarded(sid) is indexed.
Withdraw(fw, state, bus) ==
  IF state.kind = "Forwarded" THEN Unlist(fw, state.sid, bus) ELSE fw

\* The index once `bus` has entered `state`.
Enlist(fw, state, bus) ==
  IF state.kind = "Forwarded" THEN List(fw, state.sid, bus) ELSE fw

-----------------------------------------------------------------------------
(* handle_command, one operator per command *)

\* A plausible bug: a duplicate AddDevice refreshes the descriptor.
AddDeviceRefreshing(st, bus, device) ==
  LET state == IF bus \in DOMAIN st.devices /\ st.devices[bus].state # Disconnected
               THEN st.devices[bus].state ELSE Idle
  IN  [st EXCEPT !.devices =
         [b \in DOMAIN st.devices \cup {bus} |->
            IF b = bus THEN [device |-> device, state |-> state] ELSE st.devices[b]]]

\* Vacant or Disconnected: the device starts over as Idle.  Otherwise the
\* command is a duplicate and is skipped.
AddDevice(st, bus, device) ==
  IF bus \in DOMAIN st.devices /\ st.devices[bus].state # Disconnected
  THEN st
  ELSE [st EXCEPT !.devices =
          [b \in DOMAIN st.devices \cup {bus} |->
             IF b = bus THEN [device |-> device, state |-> Idle] ELSE st.devices[b]]]

\* A plausible bug: the device goes but its session still lists it.
RemoveDeviceOnly(st, bus) ==
  [st EXCEPT !.devices = Restrict(st.devices, DOMAIN st.devices \ {bus})]

RemoveDevice(st, bus) ==
  IF bus \notin DOMAIN st.devices THEN st
  ELSE [devices     |-> Restrict(st.devices, DOMAIN st.devices \ {bus}),
        forwardings |-> Withdraw(st.forwardings, st.devices[bus].state, bus)]

\* A plausible bug: any session may take over a forwarded device.
IsValidTransitionOrHandover(from, to) ==
  \/ from.kind \in {"Bound", "Forwarded"} /\ to.kind = "Forwarded"
  \/ <<from.kind, to.kind>> \in {<<"Idle", "Bound">>, <<"Forwarded", "Idle">>}
  \/ from.kind # "Disconnected" /\ to.kind = "Disconnected"

IsValidTransition(from, to) ==
  <<from.kind, to.kind>> \in
    {<<"Idle", "Bound">>, <<"Idle", "Disconnected">>,
     <<"Bound", "Forwarded">>, <<"Bound", "Disconnected">>,
     <<"Forwarded", "Idle">>, <<"Forwarded", "Disconnected">>}

TransitionState(st, bus, to) ==
  IF bus \notin DOMAIN st.devices THEN st
  ELSE LET from == st.devices[bus].state
       IN  IF ~IsValidTransition(from, to) THEN st
           ELSE [devices     |-> [st.devices EXCEPT ![bus].state = to],
                 forwardings |-> Enlist(Withdraw(st.forwardings, from, bus), to, bus)]

HandleCommand(cmd, st) ==
  CASE cmd.op = "AddDevice"       -> AddDevice(st, cmd.bus, cmd.device)
    [] cmd.op = "RemoveDevice"    -> RemoveDevice(st, cmd.bus)
    [] cmd.op = "TransitionState" -> TransitionState(st, cmd.bus, cmd.to)

-----------------------------------------------------------------------------
(* What makes a snapshot meaningful to its readers *)

\* The index lists `bus` under session `sid`.
Listed(fw, sid, bus) == sid \in DOMAIN fw /\ fw[sid][bus] # 0

\* Device `bus` is forwarded to `sid`.
Serves(devices, sid, bus) == bus \in DOMAIN devices /\ devices[bus].state = Forwarded(sid)

\* Nothing is listed twice, and no session is kept with nothing to serve.
Tidy(fw) ==
  \A s \in DOMAIN fw :
    /\ \A b \in BusIds : fw[s][b] \in {0, 1}
    /\ \E b \in BusIds : fw[s][b] # 0

\* The two maps are one relation, kept twice: a session lists exactly the
\* devices forwarded to it.
Agree(devices, fw) ==
  \A s \in SessionIds, b \in BusIds : Listed(fw, s, b) <=> Serves(devices, s, b)

Consistent(st) == Agree(st.devices, st.forwardings) /\ Tidy(st.forwardings)
=============================================================================
