------------------------ MODULE DeviceRegistryProofs ------------------------
(***************************************************************************)
(* Proofs about DeviceRegistry for every set of buses, sessions,           *)
(* descriptors, handles and readers and every capacity.                    *)
(***************************************************************************)
EXTENDS DeviceRegistry, SequenceTheorems, TLAPS

-----------------------------------------------------------------------------
(* What the helpers do to the index *)

\* Unlist takes exactly one bus from one session and leaves a tidy index tidy.
LEMMA UnlistProperties ==
  ASSUME NEW fw, IsIndex(fw), Tidy(fw), NEW sid \in SessionIds, NEW bus \in BusIds
  PROVE  /\ IsIndex(Unlist(fw, sid, bus))
         /\ Tidy(Unlist(fw, sid, bus))
         /\ \A s \in SessionIds, b \in BusIds :
              Listed(Unlist(fw, sid, bus), s, b) <=> Listed(fw, s, b) /\ ~(s = sid /\ b = bus)
<1> DEFINE rest == [fw[sid] EXCEPT ![bus] = 0]
<1>1. CASE sid \notin DOMAIN fw
  BY <1>1 DEF Unlist, Listed
<1>2. CASE sid \in DOMAIN fw /\ rest = EmptyList
  <2> DEFINE new == Restrict(fw, DOMAIN fw \ {sid})
  <2>1. Unlist(fw, sid, bus) = new
    BY <1>2 DEF Unlist
  <2>2. IsIndex(new) /\ Tidy(new)
    BY DEF IsIndex, Tidy, Restrict
  <2>3. \A b \in BusIds : b # bus => fw[sid][b] = 0
    <3> TAKE b \in BusIds
    <3>1. b # bus => rest[b] = fw[sid][b]
      BY <1>2 DEF IsIndex, BusLists
    <3> QED BY <3>1, <1>2 DEF EmptyList
  <2>4. ASSUME NEW s \in SessionIds, NEW b \in BusIds
        PROVE  Listed(new, s, b) <=> Listed(fw, s, b) /\ ~(s = sid /\ b = bus)
    BY <2>3 DEF Listed, Restrict
  <2> QED BY <2>1, <2>2, <2>4
<1>3. CASE sid \in DOMAIN fw /\ rest # EmptyList
  <2> DEFINE new == [fw EXCEPT ![sid] = rest]
  <2>1. Unlist(fw, sid, bus) = new
    BY <1>3 DEF Unlist
  <2>2. rest \in BusLists /\ \A b \in BusIds : rest[b] = IF b = bus THEN 0 ELSE fw[sid][b]
    BY <1>3 DEF IsIndex, BusLists
  <2>3. IsIndex(new)
    BY <1>3, <2>2 DEF IsIndex
  <2>4. \E b \in BusIds : rest[b] # 0
    BY <1>3, <2>2 DEF BusLists, EmptyList
  <2>5. Tidy(new)
    BY <1>3, <2>2, <2>4 DEF Tidy, IsIndex
  <2>6. ASSUME NEW s \in SessionIds, NEW b \in BusIds
        PROVE  Listed(new, s, b) <=> Listed(fw, s, b) /\ ~(s = sid /\ b = bus)
    BY <1>3, <2>2 DEF Listed, IsIndex
  <2> QED BY <2>1, <2>3, <2>5, <2>6
<1> QED BY <1>1, <1>2, <1>3

\* List adds exactly one bus to one session, once.
LEMMA ListProperties ==
  ASSUME NEW fw, IsIndex(fw), Tidy(fw), NEW sid \in SessionIds, NEW bus \in BusIds
  PROVE  /\ IsIndex(List(fw, sid, bus))
         /\ Tidy(List(fw, sid, bus))
         /\ \A s \in SessionIds, b \in BusIds :
              Listed(List(fw, sid, bus), s, b) <=> Listed(fw, s, b) \/ (s = sid /\ b = bus)
<1> DEFINE buses == IF sid \in DOMAIN fw THEN fw[sid] ELSE EmptyList
           pushed == IF buses[bus] = 0 THEN [buses EXCEPT ![bus] = 1] ELSE buses
           new == [s \in DOMAIN fw \cup {sid} |-> IF s = sid THEN pushed ELSE fw[s]]
<1>1. List(fw, sid, bus) = new
  BY DEF List
<1>2. buses \in BusLists /\ \A b \in BusIds : buses[b] \in {0, 1}
  BY DEF IsIndex, Tidy, BusLists, EmptyList
<1>3. \A b \in BusIds : Listed(fw, sid, b) <=> buses[b] # 0
  BY DEF Listed, EmptyList
<1>4. /\ pushed \in BusLists
      /\ \A b \in BusIds : pushed[b] = IF b = bus THEN 1 ELSE buses[b]
  BY <1>2 DEF BusLists
<1> HIDE DEF buses, pushed
<1>5. IsIndex(new)
  BY <1>4 DEF IsIndex
<1>6. Tidy(new)
  BY <1>2, <1>4 DEF Tidy
<1>7. ASSUME NEW s \in SessionIds, NEW b \in BusIds
      PROVE  Listed(new, s, b) <=> Listed(fw, s, b) \/ (s = sid /\ b = bus)
  BY <1>3, <1>4 DEF Listed
<1> QED BY <1>1, <1>5, <1>6, <1>7

\* The same two facts for a state: only a forwarded device touches the index.
LEMMA WithdrawProperties ==
  ASSUME NEW fw, IsIndex(fw), Tidy(fw), NEW state \in DeviceStates, NEW bus \in BusIds
  PROVE  /\ IsIndex(Withdraw(fw, state, bus))
         /\ Tidy(Withdraw(fw, state, bus))
         /\ \A s \in SessionIds, b \in BusIds :
              Listed(Withdraw(fw, state, bus), s, b)
                <=> Listed(fw, s, b) /\ ~(state = Forwarded(s) /\ b = bus)
<1>1. CASE state.kind # "Forwarded"
  BY <1>1 DEF Withdraw, Forwarded
<1>2. CASE state.kind = "Forwarded"
  <2>1. PICK sid \in SessionIds : state = Forwarded(sid)
    BY <1>2 DEF DeviceStates, Idle, Bound, Disconnected
  <2>2. Withdraw(fw, state, bus) = Unlist(fw, sid, bus)
    BY <1>2, <2>1 DEF Withdraw, Forwarded
  <2>3. \A s \in SessionIds : state = Forwarded(s) <=> s = sid
    BY <2>1 DEF Forwarded
  <2> QED BY <2>2, <2>3, UnlistProperties
<1> QED BY <1>1, <1>2

LEMMA EnlistProperties ==
  ASSUME NEW fw, IsIndex(fw), Tidy(fw), NEW state \in DeviceStates, NEW bus \in BusIds
  PROVE  /\ IsIndex(Enlist(fw, state, bus))
         /\ Tidy(Enlist(fw, state, bus))
         /\ \A s \in SessionIds, b \in BusIds :
              Listed(Enlist(fw, state, bus), s, b)
                <=> Listed(fw, s, b) \/ (state = Forwarded(s) /\ b = bus)
<1>1. CASE state.kind # "Forwarded"
  BY <1>1 DEF Enlist, Forwarded
<1>2. CASE state.kind = "Forwarded"
  <2>1. PICK sid \in SessionIds : state = Forwarded(sid)
    BY <1>2 DEF DeviceStates, Idle, Bound, Disconnected
  <2>2. Enlist(fw, state, bus) = List(fw, sid, bus)
    BY <1>2, <2>1 DEF Enlist, Forwarded
  <2>3. \A s \in SessionIds : state = Forwarded(s) <=> s = sid
    BY <2>1 DEF Forwarded
  <2> QED BY <2>2, <2>3, ListProperties
<1> QED BY <1>1, <1>2

-----------------------------------------------------------------------------
(* Every command keeps the two maps in step *)

WellFormed(st) == IsSnapshot(st) /\ Consistent(st)

LEMMA EmptySnapshotWellFormed == WellFormed(EmptySnapshot)
BY DEF WellFormed, EmptySnapshot, IsSnapshot, IsTable, IsIndex, Consistent, Agree, Tidy,
       Listed, Serves

LEMMA AddDeviceWellFormed ==
  ASSUME NEW st, WellFormed(st), NEW bus \in BusIds, NEW device \in Descriptors
  PROVE  WellFormed(AddDevice(st, bus, device))
<1> DEFINE entry == [device |-> device, state |-> Idle]
           devices == [b \in DOMAIN st.devices \cup {bus} |->
                         IF b = bus THEN entry ELSE st.devices[b]]
<1>1. CASE bus \in DOMAIN st.devices /\ st.devices[bus].state # Disconnected
  BY <1>1 DEF AddDevice
<1>2. CASE ~(bus \in DOMAIN st.devices /\ st.devices[bus].state # Disconnected)
  <2>1. /\ AddDevice(st, bus, device).devices = devices
        /\ AddDevice(st, bus, device).forwardings = st.forwardings
        /\ AddDevice(st, bus, device) = [devices |-> devices, forwardings |-> st.forwardings]
    BY <1>2 DEF AddDevice, WellFormed, IsSnapshot
  <2>2. entry \in DeviceEntries
    BY DEF DeviceEntries, DeviceStates
  <2>3. IsTable(devices)
    BY <2>2 DEF IsTable, WellFormed, IsSnapshot
  <2>4. \A s \in SessionIds, b \in BusIds : Serves(devices, s, b) <=> Serves(st.devices, s, b)
    BY <1>2 DEF Serves, Idle, Forwarded, Disconnected
  <2>5. Agree(devices, st.forwardings)
    BY <2>4 DEF Agree, WellFormed, Consistent
  <2> HIDE DEF devices
  <2> QED BY <2>1, <2>3, <2>5 DEF WellFormed, IsSnapshot, Consistent
<1> QED BY <1>1, <1>2

LEMMA RemoveDeviceWellFormed ==
  ASSUME NEW st, WellFormed(st), NEW bus \in BusIds
  PROVE  WellFormed(RemoveDevice(st, bus))
<1> DEFINE devices == Restrict(st.devices, DOMAIN st.devices \ {bus})
           fw == Withdraw(st.forwardings, st.devices[bus].state, bus)
<1>1. CASE bus \notin DOMAIN st.devices
  BY <1>1 DEF RemoveDevice
<1>2. CASE bus \in DOMAIN st.devices
  <2>1. RemoveDevice(st, bus) = [devices |-> devices, forwardings |-> fw]
    BY <1>2 DEF RemoveDevice
  <2>2. st.devices[bus].state \in DeviceStates
    BY <1>2 DEF WellFormed, IsSnapshot, IsTable, DeviceEntries
  <2>3. IsTable(devices)
    BY DEF IsTable, Restrict, WellFormed, IsSnapshot
  <2>4. /\ IsIndex(fw)
        /\ Tidy(fw)
        /\ \A s \in SessionIds, b \in BusIds :
             Listed(fw, s, b)
               <=> Listed(st.forwardings, s, b) /\ ~(st.devices[bus].state = Forwarded(s) /\ b = bus)
    BY <2>2, WithdrawProperties DEF WellFormed, IsSnapshot, Consistent
  <2>5. \A s \in SessionIds, b \in BusIds :
          Serves(devices, s, b) <=> Serves(st.devices, s, b) /\ b # bus
    BY DEF Serves, Restrict
  <2>6. Agree(devices, fw)
    BY <1>2, <2>4, <2>5 DEF Agree, Serves, WellFormed, Consistent
  <2> HIDE DEF devices, fw
  <2> QED BY <2>1, <2>3, <2>4, <2>6 DEF WellFormed, IsSnapshot, Consistent
<1> QED BY <1>1, <1>2

LEMMA TransitionStateWellFormed ==
  ASSUME NEW st, WellFormed(st), NEW bus \in BusIds, NEW to \in DeviceStates
  PROVE  WellFormed(TransitionState(st, bus, to))
<1> DEFINE from == st.devices[bus].state
           devices == [st.devices EXCEPT ![bus].state = to]
           less == Withdraw(st.forwardings, from, bus)
           fw == Enlist(less, to, bus)
<1>1. CASE bus \notin DOMAIN st.devices \/ ~IsValidTransition(from, to)
  BY <1>1 DEF TransitionState
<1>2. CASE bus \in DOMAIN st.devices /\ IsValidTransition(from, to)
  <2>1. TransitionState(st, bus, to) = [devices |-> devices, forwardings |-> fw]
    BY <1>2 DEF TransitionState
  <2>2. st.devices[bus] \in DeviceEntries /\ from \in DeviceStates
    BY <1>2 DEF WellFormed, IsSnapshot, IsTable, DeviceEntries
  <2>3. /\ DOMAIN devices = DOMAIN st.devices
        /\ devices[bus].state = to
        /\ devices[bus] \in DeviceEntries
        /\ \A b \in DOMAIN st.devices : b # bus => devices[b] = st.devices[b]
    BY <1>2, <2>2 DEF WellFormed, IsSnapshot, IsTable, DeviceEntries
  <2>4. IsTable(devices)
    BY <2>3 DEF IsTable, WellFormed, IsSnapshot
  <2>5. /\ IsIndex(less)
        /\ Tidy(less)
        /\ \A s \in SessionIds, b \in BusIds :
             Listed(less, s, b)
               <=> Listed(st.forwardings, s, b) /\ ~(from = Forwarded(s) /\ b = bus)
    BY <2>2, WithdrawProperties DEF WellFormed, IsSnapshot, Consistent
  <2> HIDE DEF less, devices
  <2>6. /\ IsIndex(fw)
        /\ Tidy(fw)
        /\ \A s \in SessionIds, b \in BusIds :
             Listed(fw, s, b) <=> Listed(less, s, b) \/ (to = Forwarded(s) /\ b = bus)
    BY <2>5, EnlistProperties
  <2>7. ASSUME NEW s \in SessionIds, NEW b \in BusIds
        PROVE  Listed(fw, s, b) <=> Serves(devices, s, b)
    <3>1. Listed(st.forwardings, s, b) <=> Serves(st.devices, s, b)
      BY DEF WellFormed, Consistent, Agree
    <3>2. CASE b = bus
      <4>1. Serves(devices, s, b) <=> to = Forwarded(s)
        BY <1>2, <2>3, <3>2 DEF Serves
      <4>2. Listed(st.forwardings, s, b) <=> from = Forwarded(s)
        BY <1>2, <3>1, <3>2 DEF Serves
      <4> QED BY <2>5, <2>6, <3>2, <4>1, <4>2
    <3>3. CASE b # bus
      BY <2>3, <2>5, <2>6, <3>1, <3>3 DEF Serves
    <3> QED BY <3>2, <3>3
  <2> HIDE DEF fw
  <2> QED BY <2>1, <2>4, <2>6, <2>7 DEF WellFormed, IsSnapshot, Consistent, Agree
<1> QED BY <1>1, <1>2

LEMMA HandleCommandWellFormed ==
  ASSUME NEW st, WellFormed(st), NEW cmd \in Commands
  PROVE  WellFormed(HandleCommand(cmd, st))
<1>1. CASE cmd \in AddCommands
  <2>1. cmd.op = "AddDevice" /\ cmd.bus \in BusIds /\ cmd.device \in Descriptors
    BY <1>1 DEF AddCommands
  <2> QED BY <2>1, AddDeviceWellFormed DEF HandleCommand
<1>2. CASE cmd \in RemoveCommands
  <2>1. cmd.op = "RemoveDevice" /\ cmd.bus \in BusIds
    BY <1>2 DEF RemoveCommands
  <2> QED BY <2>1, RemoveDeviceWellFormed DEF HandleCommand
<1>3. CASE cmd \in TransitionCommands
  <2>1. cmd.op = "TransitionState" /\ cmd.bus \in BusIds /\ cmd.to \in DeviceStates
    BY <1>3 DEF TransitionCommands
  <2> QED BY <2>1, TransitionStateWellFormed DEF HandleCommand
<1> QED BY <1>1, <1>2, <1>3 DEF Commands

-----------------------------------------------------------------------------
(* The inductive invariant *)

\* Only a reader that exists has heard anything; without this, a command
\* applied while nobody listens could make PublishedIsCurrent false.
HeardIsSubscribed == \A r \in Readers : heard[r] => phase[r] # "none"

IInv ==
  /\ TypeOK
  /\ IndexMatchesTable
  /\ PublishedIsCurrent
  /\ HeardIsSubscribed
  /\ NoLostWakeup

LEMMA InitIInv == Init => IInv
<1> SUFFICES ASSUME Init PROVE IInv
  OBVIOUS
<1>1. IsSnapshot(EmptySnapshot) /\ Consistent(EmptySnapshot)
  BY EmptySnapshotWellFormed DEF WellFormed
<1>2. TypeOK
  <2>1. queue \in Seq(Commands) /\ Len(queue) <= Capacity
    BY CapacityAssumption DEF Init
  <2> QED BY <1>1, <2>1 DEF Init, TypeOK, Phases
<1>3. IndexMatchesTable
  BY <1>1 DEF Init, IndexMatchesTable
<1>4. PublishedIsCurrent /\ HeardIsSubscribed /\ NoLostWakeup
  BY DEF Init, PublishedIsCurrent, HeardIsSubscribed, NoLostWakeup
<1> QED BY <1>2, <1>3, <1>4 DEF IInv

\* The steps of handles touch the queue and the pending calls only.
LEMMA HandleStepIInv ==
  ASSUME IInv, NEW h \in Handles, HandleStep(h)
  PROVE  IInv'
<1> USE DEF IInv
<1>1. UNCHANGED <<registry, control, watch>>
  BY DEF HandleStep, CloneHandle, DropHandle, CallSend, Enqueue, SendFails
<1> DEFINE SendersOK == /\ queue' \in Seq(Commands) /\ Len(queue') <= Capacity
                        /\ pending' \in [Handles -> Commands \cup {NoCommand}]
                        /\ live' \subseteq Handles
<1>2. SendersOK
  <2>1. CASE CloneHandle(h)
    BY <2>1 DEF CloneHandle, TypeOK
  <2>2. CASE DropHandle(h)
    BY <2>2 DEF DropHandle, TypeOK
  <2>3. CASE CallSend(h)
    BY <2>3 DEF CallSend, TypeOK
  <2>4. CASE Enqueue(h)
    <3>1. pending[h] \in Commands /\ Len(queue) \in Nat /\ Capacity \in Nat
      BY <2>4, CapacityAssumption DEF Enqueue, TypeOK
    <3>2. Append(queue, pending[h]) \in Seq(Commands)
          /\ Len(Append(queue, pending[h])) = Len(queue) + 1
      BY <3>1 DEF TypeOK
    <3> QED BY <2>4, <3>1, <3>2 DEF Enqueue, TypeOK
  <2>5. CASE SendFails(h)
    BY <2>5 DEF SendFails, TypeOK
  <2> QED BY <2>1, <2>2, <2>3, <2>4, <2>5 DEF HandleStep
<1>3. TypeOK'
  BY <1>1, <1>2 DEF TypeOK, control, watch
<1>4. IndexMatchesTable' /\ PublishedIsCurrent' /\ HeardIsSubscribed' /\ NoLostWakeup'
  BY <1>1 DEF control, watch, IndexMatchesTable, PublishedIsCurrent, HeardIsSubscribed,
              NoLostWakeup
<1> QED BY <1>3, <1>4

\* Applying a command.
LEMMA RecvIInv ==
  ASSUME IInv, Recv
  PROVE  IInv'
<1> USE DEF IInv
<1>1. /\ Head(queue) \in Commands
      /\ queue' \in Seq(Commands) /\ Len(queue') <= Capacity
  <2>1. queue \in Seq(Commands) /\ queue # <<>> /\ Len(queue) <= Capacity
    BY DEF TypeOK, Recv
  <2>2. /\ Head(queue) \in Commands
        /\ Tail(queue) \in Seq(Commands)
        /\ Len(Tail(queue)) = Len(queue) - 1
    BY <2>1, HeadTailProperties
  <2> QED BY <2>1, <2>2, CapacityAssumption DEF Recv
<1>2. IsSnapshot(registry') /\ Consistent(registry')
  BY <1>1, HandleCommandWellFormed DEF WellFormed, TypeOK, IndexMatchesTable, Recv
<1>3. UNCHANGED <<pending, live, owner, signal, task, phase, view>>
  BY DEF Recv, Publish, control, watch
<1>4. CASE Subscribed = {}
  <2>1. UNCHANGED <<published, unseen, heard>>
    BY <1>4 DEF Recv, Publish, watch
  <2>2. \A r \in Readers : ~heard[r]
    BY <1>4 DEF Subscribed, HeardIsSubscribed
  <2> QED BY <1>1, <1>2, <1>3, <2>1, <2>2
          DEF TypeOK, IndexMatchesTable, PublishedIsCurrent, HeardIsSubscribed, NoLostWakeup
<1>5. CASE Subscribed # {}
  <2>1. /\ published' = registry'
        /\ unseen' = [r \in Readers |-> IF r \in Subscribed THEN TRUE ELSE unseen[r]]
        /\ heard' = [r \in Readers |-> IF r \in Subscribed THEN TRUE ELSE heard[r]]
    BY <1>5 DEF Recv, Publish
  <2>2. TypeOK'
    <3>1. unseen' \in [Readers -> BOOLEAN] /\ heard' \in [Readers -> BOOLEAN]
      BY <2>1 DEF TypeOK
    <3> QED BY <1>1, <1>2, <1>3, <2>1, <3>1 DEF TypeOK
  <2>3. IndexMatchesTable' /\ PublishedIsCurrent'
    BY <1>2, <1>3, <2>1 DEF IndexMatchesTable, PublishedIsCurrent
  <2>4. HeardIsSubscribed' /\ NoLostWakeup'
    BY <1>3, <2>1 DEF HeardIsSubscribed, NoLostWakeup, Subscribed
  <2> QED BY <2>2, <2>3, <2>4
<1> QED BY <1>4, <1>5

\* The task ends, the owner goes: nothing the readers hold changes.
LEMMA StopIInv ==
  ASSUME IInv, RecvNone \/ StopOnSignal \/ OwnerStep
  PROVE  IInv'
<1> USE DEF IInv
<1>1. UNCHANGED <<registry, pending, live, watch>>
  BY DEF RecvNone, StopOnSignal, StopTask, OwnerStep, Shutdown, ShutdownReturns, DropRegistry,
         senders
<1>2. queue' \in Seq(Commands) /\ Len(queue') <= Capacity
  <2>1. queue' = <<>> \/ queue' = queue
    BY DEF RecvNone, StopOnSignal, StopTask, OwnerStep, Shutdown, ShutdownReturns,
           DropRegistry, senders
  <2>2. <<>> \in Seq(Commands) /\ Len(<<>>) <= Capacity
    BY CapacityAssumption
  <2> QED BY <2>1, <2>2 DEF TypeOK
<1>3. /\ owner' \in {"live", "shutdown", "dropped"}
      /\ signal' \in BOOLEAN
      /\ task' \in {"running", "stopped"}
  BY DEF TypeOK, RecvNone, StopOnSignal, StopTask, OwnerStep, Shutdown, ShutdownReturns,
         DropRegistry
<1>4. TypeOK'
  BY <1>1, <1>2, <1>3 DEF TypeOK, watch
<1>5. IndexMatchesTable' /\ PublishedIsCurrent' /\ HeardIsSubscribed' /\ NoLostWakeup'
  BY <1>1 DEF watch, IndexMatchesTable, PublishedIsCurrent, HeardIsSubscribed, NoLostWakeup
<1> QED BY <1>4, <1>5

\* The steps of readers touch that reader's own state only.
LEMMA ReaderStepIInv ==
  ASSUME IInv, NEW r \in Readers, ReaderStep(r)
  PROVE  IInv'
<1> USE DEF IInv
<1>1. UNCHANGED <<registry, senders, control, published>>
  BY DEF ReaderStep, Subscribe, DropReceiver, StartLoop, Look, Satisfied, AwaitChange, Wake,
         WakeClosed, GiveUp
<1>2. /\ phase' \in [Readers -> Phases] /\ unseen' \in [Readers -> BOOLEAN]
      /\ heard' \in [Readers -> BOOLEAN]
      /\ \A q \in Readers \ {r} :
           phase'[q] = phase[q] /\ unseen'[q] = unseen[q] /\ heard'[q] = heard[q]
      /\ heard'[r] => heard[r] /\ phase'[r] # "none"
      /\ phase'[r] \in {"looked", "waiting"} /\ ~unseen'[r]
           => view'[r] = published
  BY DEF TypeOK, Phases, HeardIsSubscribed, NoLostWakeup,
         ReaderStep, Subscribe, DropReceiver, StartLoop, Look, Satisfied, AwaitChange, Wake,
         WakeClosed, GiveUp
<1>3. /\ view' = [q \in Readers |-> view'[q]]
      /\ \A q \in Readers \ {r} : view'[q] = view[q]
      /\ view'[r] \in {view[r], published, EmptySnapshot}
  BY DEF TypeOK, ReaderStep, Subscribe, DropReceiver, StartLoop, Look, Satisfied, AwaitChange,
         Wake, WakeClosed, GiveUp
<1>4. TypeOK'
  BY <1>1, <1>2, <1>3, EmptySnapshotWellFormed DEF TypeOK, WellFormed, senders, control
<1>5. IndexMatchesTable'
  BY <1>1, <1>3, EmptySnapshotWellFormed DEF IndexMatchesTable, WellFormed
<1>6. PublishedIsCurrent' /\ HeardIsSubscribed' /\ NoLostWakeup'
  BY <1>1, <1>2, <1>3 DEF PublishedIsCurrent, HeardIsSubscribed, NoLostWakeup
<1> QED BY <1>4, <1>5, <1>6

LEMMA StutterIInv == ASSUME IInv, UNCHANGED vars PROVE IInv'
BY DEF IInv, vars, senders, control, watch, TypeOK, IndexMatchesTable, PublishedIsCurrent,
       HeardIsSubscribed, NoLostWakeup

LEMMA NextIInv == ASSUME IInv, [Next]_vars PROVE IInv'
<1>1. CASE \E h \in Handles : HandleStep(h)
  BY <1>1, HandleStepIInv
<1>2. CASE TaskStep
  BY <1>2, RecvIInv, StopIInv DEF TaskStep
<1>3. CASE OwnerStep
  BY <1>3, StopIInv
<1>4. CASE \E r \in Readers : ReaderStep(r)
  BY <1>4, ReaderStepIInv
<1>5. CASE Finished \/ UNCHANGED vars
  BY <1>5, StutterIInv DEF Finished
<1> QED BY <1>1, <1>2, <1>3, <1>4, <1>5 DEF Next

LEMMA SpecIInv == Spec => []IInv
<1>1. Init => IInv
  BY InitIInv
<1>2. IInv /\ [Next]_vars => IInv'
  BY NextIInv
<1> QED BY <1>1, <1>2, PTL DEF Spec

-----------------------------------------------------------------------------
(* The theorems *)

\* Every variable of the registry actor keeps its type; in particular the
\* channel never holds more commands than it has slots (with_capacity).
THEOREM TypeCorrect == Spec => []TypeOK
<1>1. IInv => TypeOK
  BY DEF IInv
<1> QED BY <1>1, SpecIInv, PTL

\* handle_command keeps `devices` and `forwardings` in step, in the task, in
\* the watch channel and in every snapshot a reader holds.
THEOREM IndexAlwaysMatchesTable == Spec => []IndexMatchesTable
<1>1. IInv => IndexMatchesTable
  BY DEF IInv
<1> QED BY <1>1, SpecIInv, PTL

\* A registry whose reader has seen a command applied hands out its current
\* state, although watch::Sender::send loses values nobody listens to.
THEOREM PublishedAlwaysCurrent == Spec => []PublishedIsCurrent
<1>1. IInv => PublishedIsCurrent
  BY DEF IInv
<1> QED BY <1>1, SpecIInv, PTL

\* No update slips in between borrow_and_update and changed().
THEOREM NeverLostWakeup == Spec => []NoLostWakeup
<1>1. IInv => NoLostWakeup
  BY DEF IInv
<1> QED BY <1>1, SpecIInv, PTL

-----------------------------------------------------------------------------
(* The registry implements DeviceTable *)

\* In a consistent snapshot the index can be read off the devices.
LEMMA ServedByState ==
  ASSUME NEW st, WellFormed(st), NEW S, S \in [SessionIds -> SUBSET BusIds],
         \A s \in SessionIds, b \in BusIds : b \in S[s] <=> Serves(st.devices, s, b)
  PROVE  ServedOf(st.forwardings) = S
<1>1. ASSUME NEW s \in SessionIds
      PROVE  {b \in BusIds : Listed(st.forwardings, s, b)} = S[s]
  BY DEF WellFormed, Consistent, Agree
<1> QED BY <1>1 DEF ServedOf

LEMMA ServedMembers ==
  ASSUME NEW st, WellFormed(st)
  PROVE  /\ ServedOf(st.forwardings) \in [SessionIds -> SUBSET BusIds]
         /\ \A s \in SessionIds, b \in BusIds :
              b \in ServedOf(st.forwardings)[s] <=> Serves(st.devices, s, b)
BY DEF ServedOf, WellFormed, Consistent, Agree

LEMMA AddDeviceStep ==
  ASSUME WellFormed(registry), WellFormed(registry'),
         NEW bus \in BusIds, NEW device \in Descriptors,
         registry' = AddDevice(registry, bus, device)
  PROVE  Table!Plug(bus, device) \/ UNCHANGED registry
<1>1. CASE bus \in DOMAIN registry.devices /\ registry.devices[bus].state # Disconnected
  BY <1>1 DEF AddDevice
<1>2. CASE ~(bus \in DOMAIN registry.devices /\ registry.devices[bus].state # Disconnected)
  <2> DEFINE new == [b \in DOMAIN registry.devices \cup {bus} |->
                       IF b = bus THEN [device |-> device, state |-> Idle]
                       ELSE registry.devices[b]]
  <2>1. registry'.devices = new /\ registry'.forwardings = registry.forwardings
    BY <1>2 DEF AddDevice, WellFormed, IsSnapshot
  <2>2. TableOf(new) = [c \in DOMAIN TableOf(registry.devices) \cup {bus} |->
                          IF c = bus THEN [device |-> device, stage |-> "Idle"]
                          ELSE TableOf(registry.devices)[c]]
    BY DEF TableOf, Idle
  <2>3. bus \in DOMAIN registry.devices => registry.devices[bus].state.kind = "Disconnected"
    BY <1>2 DEF Disconnected
  <2> HIDE DEF new
  <2> QED BY <2>1, <2>2, <2>3 DEF Table!Plug, Table!Plugged, Table!Stage, TableOf
<1> QED BY <1>1, <1>2

LEMMA RemoveDeviceStep ==
  ASSUME WellFormed(registry), WellFormed(registry'), NEW bus \in BusIds,
         registry' = RemoveDevice(registry, bus)
  PROVE  Table!Unplug(bus) \/ UNCHANGED registry
<1>1. CASE bus \notin DOMAIN registry.devices
  BY <1>1 DEF RemoveDevice
<1>2. CASE bus \in DOMAIN registry.devices
  <2>1. registry'.devices = Restrict(registry.devices, DOMAIN registry.devices \ {bus})
    BY <1>2 DEF RemoveDevice
  <2>2. TableOf(registry'.devices)
          = [c \in DOMAIN TableOf(registry.devices) \ {bus} |-> TableOf(registry.devices)[c]]
    BY <2>1 DEF TableOf, Restrict
  <2>3. \A s \in SessionIds, b \in BusIds :
          Serves(registry'.devices, s, b) <=> Serves(registry.devices, s, b) /\ b # bus
    BY <2>1 DEF Serves, Restrict
  <2>4. ServedOf(registry'.forwardings)
          = [s \in SessionIds |-> ServedOf(registry.forwardings)[s] \ {bus}]
    <3> DEFINE S == [s \in SessionIds |-> ServedOf(registry.forwardings)[s] \ {bus}]
    <3>1. /\ S \in [SessionIds -> SUBSET BusIds]
          /\ \A s \in SessionIds, b \in BusIds : b \in S[s] <=> Serves(registry'.devices, s, b)
      BY <2>3, ServedMembers
    <3> HIDE DEF S
    <3>2. ServedOf(registry'.forwardings) = S
      BY <3>1, ServedByState
    <3> QED BY <3>2 DEF S
  <2> QED BY <1>2, <2>2, <2>4 DEF Table!Unplug, Table!Plugged, Table!Withdrawn, TableOf
<1> QED BY <1>1, <1>2

LEMMA TransitionStateStep ==
  ASSUME WellFormed(registry), WellFormed(registry'),
         NEW bus \in BusIds, NEW to \in DeviceStates,
         registry' = TransitionState(registry, bus, to)
  PROVE  \/ Table!Bind(bus) \/ Table!Release(bus) \/ Table!Disconnect(bus)
         \/ \E s \in SessionIds : Table!Forward(bus, s)
         \/ UNCHANGED registry
<1> DEFINE from == registry.devices[bus].state
           table == TableOf(registry.devices)
           served == ServedOf(registry.forwardings)
<1>1. CASE bus \notin DOMAIN registry.devices \/ ~IsValidTransition(from, to)
  BY <1>1 DEF TransitionState
<1>2. CASE bus \in DOMAIN registry.devices /\ IsValidTransition(from, to)
  <2>1. registry'.devices = [registry.devices EXCEPT ![bus].state = to]
    BY <1>2 DEF TransitionState
  <2>2. registry.devices[bus] \in DeviceEntries /\ from \in DeviceStates
    BY <1>2 DEF WellFormed, IsSnapshot, IsTable, DeviceEntries
  <2>3. /\ DOMAIN registry'.devices = DOMAIN registry.devices
        /\ registry'.devices[bus] = [device |-> registry.devices[bus].device, state |-> to]
        /\ \A b \in DOMAIN registry.devices : b # bus => registry'.devices[b] = registry.devices[b]
    BY <1>2, <2>1, <2>2 DEF DeviceEntries
  <2>4. TableOf(registry'.devices) = [table EXCEPT ![bus].stage = to.kind]
    BY <1>2, <2>3 DEF TableOf
  <2>5. bus \in DOMAIN table /\ table[bus].stage = from.kind
    BY <1>2 DEF TableOf
  <2>6. \A s \in SessionIds, b \in BusIds :
          Serves(registry'.devices, s, b)
            <=> IF b = bus THEN to = Forwarded(s) ELSE Serves(registry.devices, s, b)
    BY <1>2, <2>3 DEF Serves
  <2>7. CASE to.kind = "Forwarded"
    <3>1. PICK sid \in SessionIds : to = Forwarded(sid)
      BY <2>7 DEF DeviceStates, Idle, Bound, Disconnected
    <3>2. from.kind = "Bound"
      BY <1>2, <2>7 DEF IsValidTransition
    <3>3. \A s \in SessionIds : ~Serves(registry.devices, s, bus)
      BY <3>2 DEF Serves, Forwarded
    <3>4. \A s \in SessionIds : to = Forwarded(s) <=> s = sid
      BY <3>1 DEF Forwarded
    <3>5. ServedOf(registry'.forwardings) = [served EXCEPT ![sid] = @ \cup {bus}]
      <4> DEFINE S == [served EXCEPT ![sid] = @ \cup {bus}]
      <4>1. /\ S \in [SessionIds -> SUBSET BusIds]
            /\ \A s \in SessionIds, b \in BusIds : b \in S[s] <=> Serves(registry'.devices, s, b)
        BY <2>6, <3>3, <3>4, ServedMembers
      <4> HIDE DEF S
      <4>2. ServedOf(registry'.forwardings) = S
        BY <4>1, ServedByState
      <4> QED BY <4>2 DEF S
    <3>6. Table!Forward(bus, sid)
      BY <2>4, <2>5, <2>7, <3>2, <3>5 DEF Table!Forward, Table!Plugged, Table!Stage
    <3> QED BY <3>6
  <2>8. CASE to.kind # "Forwarded"
    <3>1. \A s \in SessionIds : to # Forwarded(s)
      BY <2>8 DEF Forwarded
    <3>2. ServedOf(registry'.forwardings) = [s \in SessionIds |-> served[s] \ {bus}]
      <4> DEFINE S == [s \in SessionIds |-> served[s] \ {bus}]
      <4>1. /\ S \in [SessionIds -> SUBSET BusIds]
            /\ \A s \in SessionIds, b \in BusIds : b \in S[s] <=> Serves(registry'.devices, s, b)
        BY <2>6, <3>1, ServedMembers
      <4> HIDE DEF S
      <4>2. ServedOf(registry'.forwardings) = S
        BY <4>1, ServedByState
      <4> QED BY <4>2 DEF S
    <3>3. from.kind # "Forwarded" => ServedOf(registry'.forwardings) = served
      <4>1. SUFFICES ASSUME from.kind # "Forwarded"
                     PROVE  ServedOf(registry'.forwardings) = served
        OBVIOUS
      <4>2. \A s \in SessionIds : ~Serves(registry.devices, s, bus)
        BY <4>1 DEF Serves, Forwarded
      <4>3. /\ served \in [SessionIds -> SUBSET BusIds]
            /\ \A s \in SessionIds, b \in BusIds : b \in served[s] <=> Serves(registry'.devices, s, b)
        BY <2>6, <3>1, <4>2, ServedMembers
      <4> HIDE DEF served
      <4> QED BY <4>3, ServedByState
    <3>4. \/ from.kind = "Idle" /\ to.kind = "Bound"
          \/ from.kind = "Forwarded" /\ to.kind = "Idle"
          \/ from.kind # "Disconnected" /\ to.kind = "Disconnected"
      BY <1>2, <2>8 DEF IsValidTransition
    <3> QED BY <2>4, <2>5, <3>2, <3>3, <3>4
            DEF Table!Bind, Table!Release, Table!Disconnect, Table!Plugged, Table!Stage,
                Table!Withdrawn
  <2> QED BY <2>7, <2>8
<1> QED BY <1>1, <1>2

LEMMA RecvStep ==
  ASSUME IInv, Recv
  PROVE  Table!Next \/ UNCHANGED registry
<1> DEFINE cmd == Head(queue)
<1>1. WellFormed(registry) /\ WellFormed(registry')
  BY RecvIInv DEF IInv, TypeOK, IndexMatchesTable, WellFormed
<1>2. cmd \in Commands /\ registry' = HandleCommand(cmd, registry)
  <2>1. queue \in Seq(Commands) /\ queue # <<>>
    BY DEF IInv, TypeOK, Recv
  <2> QED BY <2>1, HeadTailProperties DEF Recv
<1> HIDE DEF cmd
<1>3. CASE cmd \in AddCommands
  <2>1. /\ cmd.bus \in BusIds /\ cmd.device \in Descriptors
        /\ registry' = AddDevice(registry, cmd.bus, cmd.device)
    BY <1>2, <1>3 DEF AddCommands, HandleCommand
  <2> QED BY <1>1, <2>1, AddDeviceStep DEF Table!Next
<1>4. CASE cmd \in RemoveCommands
  <2>1. cmd.bus \in BusIds /\ registry' = RemoveDevice(registry, cmd.bus)
    BY <1>2, <1>4 DEF RemoveCommands, HandleCommand
  <2> QED BY <1>1, <2>1, RemoveDeviceStep DEF Table!Next
<1>5. CASE cmd \in TransitionCommands
  <2>1. /\ cmd.bus \in BusIds /\ cmd.to \in DeviceStates
        /\ registry' = TransitionState(registry, cmd.bus, cmd.to)
    BY <1>2, <1>5 DEF TransitionCommands, HandleCommand
  <2> QED BY <1>1, <2>1, TransitionStateStep DEF Table!Next
<1> QED BY <1>2, <1>3, <1>4, <1>5 DEF Commands

LEMMA OtherStepsKeepRegistry == Next => Recv \/ UNCHANGED registry
BY DEF Next, HandleStep, CloneHandle, DropHandle, CallSend, Enqueue, SendFails,
       TaskStep, RecvNone, StopOnSignal, StopTask,
       OwnerStep, Shutdown, ShutdownReturns, DropRegistry,
       ReaderStep, Subscribe, DropReceiver, StartLoop, Look, Satisfied, AwaitChange, Wake,
       WakeClosed, GiveUp, Finished, vars

\* Whatever the interleaving of senders, readers and shutdown, the registry's
\* two HashMaps behave like one table of devices going through their life
\* cycle (handle_command and is_valid_transition).
THEOREM RegistryImplementsDeviceTable == Spec => ImplementsDeviceTable
<1>1. Init => Table!Init
  BY DEF Init, Table!Init, EmptySnapshot, TableOf, ServedOf, Listed
<1>2. IInv /\ [Next]_vars => [Table!Next]_<<TableOf(registry.devices), ServedOf(registry.forwardings)>>
  <2>1. UNCHANGED registry => UNCHANGED <<TableOf(registry.devices), ServedOf(registry.forwardings)>>
    OBVIOUS
  <2>2. UNCHANGED vars => UNCHANGED registry
    BY DEF vars
  <2> QED BY <2>1, <2>2, RecvStep, OtherStepsKeepRegistry
<1> QED BY <1>1, <1>2, SpecIInv, PTL DEF Spec, ImplementsDeviceTable, Table!Spec

-----------------------------------------------------------------------------
(* A session keeps the device it was given *)

LEMMA HandleCommandKeepsServedDevice ==
  ASSUME NEW st, WellFormed(st), NEW cmd \in Commands,
         NEW s \in SessionIds, NEW t \in SessionIds, NEW b \in BusIds,
         Serves(st.devices, s, b), Serves(HandleCommand(cmd, st).devices, t, b)
  PROVE  s = t /\ HandleCommand(cmd, st).devices[b].device = st.devices[b].device
<1> DEFINE new == HandleCommand(cmd, st)
<1>1. SUFFICES new.devices[b] = st.devices[b]
  BY DEF Serves, Forwarded
<1>2. CASE cmd \in AddCommands
  <2>1. new = AddDevice(st, cmd.bus, cmd.device)
    BY <1>2 DEF AddCommands, HandleCommand
  <2>2. CASE cmd.bus \in DOMAIN st.devices /\ st.devices[cmd.bus].state # Disconnected
    BY <2>1, <2>2 DEF AddDevice
  <2>3. CASE ~(cmd.bus \in DOMAIN st.devices /\ st.devices[cmd.bus].state # Disconnected)
    <3>1. /\ b \in DOMAIN st.devices
          /\ new.devices = [c \in DOMAIN st.devices \cup {cmd.bus} |->
                              IF c = cmd.bus THEN [device |-> cmd.device, state |-> Idle]
                              ELSE st.devices[c]]
      BY <2>1, <2>3 DEF AddDevice, Serves, WellFormed, IsSnapshot
    <3>2. b # cmd.bus
      BY <3>1 DEF Serves, Idle, Forwarded
    <3> QED BY <3>1, <3>2
  <2> QED BY <2>2, <2>3
<1>3. CASE cmd \in RemoveCommands
  <2>1. new = RemoveDevice(st, cmd.bus)
    BY <1>3 DEF RemoveCommands, HandleCommand
  <2> QED BY <2>1 DEF RemoveDevice, Restrict, Serves
<1>4. CASE cmd \in TransitionCommands
  <2>1. new = TransitionState(st, cmd.bus, cmd.to)
    BY <1>4 DEF TransitionCommands, HandleCommand
  <2>2. CASE cmd.bus \notin DOMAIN st.devices \/ ~IsValidTransition(st.devices[cmd.bus].state, cmd.to)
    BY <2>1, <2>2 DEF TransitionState
  <2>3. CASE cmd.bus \in DOMAIN st.devices /\ IsValidTransition(st.devices[cmd.bus].state, cmd.to)
    <3>1. /\ b \in DOMAIN st.devices
          /\ st.devices[cmd.bus] \in DeviceEntries
          /\ new.devices = [st.devices EXCEPT ![cmd.bus].state = cmd.to]
      BY <2>1, <2>3 DEF TransitionState, Serves, WellFormed, IsSnapshot, IsTable
    <3>2. b = cmd.bus => cmd.to = Forwarded(t) /\ st.devices[cmd.bus].state = Forwarded(s)
      BY <3>1 DEF Serves, DeviceEntries
    <3>3. b # cmd.bus
      BY <2>3, <3>2 DEF IsValidTransition, Forwarded
    <3> QED BY <3>1, <3>3
  <2> QED BY <2>2, <2>3
<1> QED BY <1>2, <1>3, <1>4 DEF Commands

\* A session never finds another device behind a bus it serves, and a bus
\* never moves from one session to another in one step (AddDevice on an
\* occupied bus, TransitionState from Forwarded to Forwarded).
THEOREM ServedDeviceNeverSwapped == Spec => DeviceNotSwappedUnderSession
<1> DEFINE Kept == \A s, t \in SessionIds, b \in BusIds :
                     Listed(registry.forwardings, s, b) /\ Listed(registry'.forwardings, t, b)
                       => s = t /\ registry'.devices[b].device = registry.devices[b].device
<1>1. IInv /\ [Next]_vars => [Kept]_vars
  <2> SUFFICES ASSUME IInv, Next PROVE Kept \/ UNCHANGED vars
    OBVIOUS
  <2>1. IInv'
    BY NextIInv
  <2>2. WellFormed(registry) /\ WellFormed(registry')
    BY <2>1 DEF IInv, TypeOK, IndexMatchesTable, WellFormed
  <2> SUFFICES ASSUME NEW s \in SessionIds, NEW t \in SessionIds, NEW b \in BusIds,
                      Listed(registry.forwardings, s, b), Listed(registry'.forwardings, t, b)
               PROVE  s = t /\ registry'.devices[b].device = registry.devices[b].device
    OBVIOUS
  <2>3. Serves(registry.devices, s, b) /\ Serves(registry'.devices, t, b)
    BY <2>2 DEF WellFormed, Consistent, Agree
  <2>4. CASE Recv
    <3>1. Head(queue) \in Commands /\ registry' = HandleCommand(Head(queue), registry)
      <4>1. queue \in Seq(Commands) /\ queue # <<>>
        BY <2>4 DEF IInv, TypeOK, Recv
      <4> QED BY <2>4, <4>1, HeadTailProperties DEF Recv
    <3> QED BY <2>2, <2>3, <3>1, HandleCommandKeepsServedDevice
  <2>5. CASE UNCHANGED registry
    BY <2>3, <2>5 DEF Serves, Forwarded
  <2> QED BY <2>4, <2>5, OtherStepsKeepRegistry
<1> QED BY <1>1, SpecIInv, PTL DEF Spec, DeviceNotSwappedUnderSession

-----------------------------------------------------------------------------
(* Progress.  The prover does not expand ENABLED, so that a step can be      *)
(* taken where its guard holds, which follows from the definitions of the    *)
(* actions, is a hypothesis of these theorems: GuardsEnable.                 *)

\* What the task, a send() and a reader wait for at each of their awaits.
GuardsEnable ==
  /\ task = "running" /\ queue # <<>> => ENABLED <<Recv>>_vars
  /\ task = "running" /\ signal => ENABLED <<StopOnSignal>>_vars
  /\ \A h \in Handles :
       /\ pending[h] # NoCommand /\ task = "running" /\ Len(queue) < Capacity
            => ENABLED <<Enqueue(h)>>_vars
       /\ pending[h] # NoCommand /\ task = "stopped" => ENABLED <<SendFails(h)>>_vars
  /\ \A r \in Readers :
       /\ phase[r] = "looking" => ENABLED <<Look(r)>>_vars
       /\ phase[r] = "looked" => ENABLED <<Satisfied(r) \/ AwaitChange(r)>>_vars
       /\ phase[r] = "waiting" /\ unseen[r] => ENABLED <<Wake(r)>>_vars
       /\ phase[r] = "waiting" /\ ~unseen[r] /\ WatchClosed => ENABLED <<WakeClosed(r)>>_vars

\* What the hypothesis and the fairness say of one handle and of one reader.
LEMMA HandleAwaits ==
  ASSUME NEW h \in Handles, GuardsEnable
  PROVE  /\ pending[h] # NoCommand /\ task = "running" /\ Len(queue) < Capacity
              => ENABLED <<Enqueue(h)>>_vars
         /\ pending[h] # NoCommand /\ task = "stopped" => ENABLED <<SendFails(h)>>_vars
BY DEF GuardsEnable

LEMMA ReaderAwaits ==
  ASSUME NEW r \in Readers, GuardsEnable
  PROVE  /\ phase[r] = "looking" => ENABLED <<Look(r)>>_vars
         /\ phase[r] = "looked" => ENABLED <<Satisfied(r) \/ AwaitChange(r)>>_vars
         /\ phase[r] = "waiting" /\ unseen[r] => ENABLED <<Wake(r)>>_vars
         /\ phase[r] = "waiting" /\ ~unseen[r] /\ WatchClosed => ENABLED <<WakeClosed(r)>>_vars
BY DEF GuardsEnable

LEMMA TaskAwaits ==
  ASSUME GuardsEnable
  PROVE  /\ task = "running" /\ queue # <<>> => ENABLED <<Recv>>_vars
         /\ task = "running" /\ signal => ENABLED <<StopOnSignal>>_vars
BY DEF GuardsEnable

\* Whoever ends the owner's life has set the signal.
SignalSet == owner # "live" => signal

LEMMA AlwaysSignalled == Spec => []SignalSet
<1>1. Init => SignalSet
  BY DEF Init, SignalSet
<1>2. SignalSet /\ [Next]_vars => SignalSet'
  BY DEF SignalSet, Next, HandleStep, CloneHandle, DropHandle, CallSend, Enqueue, SendFails, TaskStep,
    Recv, RecvNone, StopOnSignal, StopTask, OwnerStep, Shutdown, ShutdownReturns, DropRegistry,
    ReaderStep, Subscribe, DropReceiver, StartLoop, Look, Satisfied, AwaitChange, Wake, WakeClosed,
    GiveUp, Finished, control, vars
<1> QED BY <1>1, <1>2, PTL DEF Spec

\* A registry that is shut down or dropped stays so, and a task that has
\* stopped never runs again.
LEMMA EndIsFinal ==
  ASSUME TypeOK, [Next]_vars
  PROVE  /\ owner # "live" => owner' # "live"
         /\ owner = "dropped" => owner' = "dropped"
         /\ task = "running" \/ task = "stopped"
         /\ task' = "running" \/ task' = "stopped"
         /\ task = "stopped" => task' = "stopped"
BY DEF TypeOK, Next, HandleStep, CloneHandle, DropHandle, CallSend, Enqueue, SendFails, TaskStep,
  Recv, RecvNone, StopOnSignal, StopTask, OwnerStep, Shutdown, ShutdownReturns, DropRegistry,
  ReaderStep, Subscribe, DropReceiver, StartLoop, Look, Satisfied, AwaitChange, Wake, WakeClosed,
  GiveUp, Finished, control, vars

\* A registry that is told to stop, or dropped, stops, however full its handles
\* keep the queue: the select! of run_registry comes to the signal.
THEOREM AlwaysStopsWhenTold == FairSpec /\ []GuardsEnable => StopsWhenTold
<1>1. TypeOK /\ [Next]_vars =>
        /\ owner # "live" => (owner # "live")'
        /\ task = "running" \/ task = "stopped"
        /\ (task = "running")' \/ (task = "stopped")'
  BY EndIsFinal
<1>2. <<StopOnSignal>>_vars => (task = "stopped")'
  BY DEF StopOnSignal, StopTask
<1>3. GuardsEnable /\ SignalSet =>
        (owner # "live" /\ task = "running" => ENABLED <<StopOnSignal>>_vars)
  BY TaskAwaits DEF SignalSet
<1>4. TypeOK => task = "running" \/ task = "stopped"
  BY DEF TypeOK
<1> QED
  BY <1>1, <1>2, <1>3, <1>4, TypeCorrect, AlwaysSignalled, PTL
  DEF FairSpec, Spec, Fairness, TaskFairness, StopsWhenTold

\* A waiting send() keeps its command until it returns, and a queue that is
\* full has one for the task to receive.
LEMMA SendStep ==
  ASSUME NEW h \in Handles
  PROVE  /\ TypeOK => (Len(queue) < Capacity \/ queue # <<>>)
         /\ TypeOK /\ <<Recv>>_vars => (Len(queue) < Capacity)'
         /\ <<Enqueue(h)>>_vars => (pending[h] = NoCommand)' \/ ~TypeOK
         /\ <<SendFails(h)>>_vars => (pending[h] = NoCommand)' \/ ~TypeOK
<1>1. TypeOK => (Len(queue) < Capacity \/ queue # <<>>)
  BY CapacityAssumption DEF TypeOK
<1>2. TypeOK /\ <<Recv>>_vars => (Len(queue) < Capacity)'
  BY CapacityAssumption DEF TypeOK, Recv
<1>3. <<Enqueue(h)>>_vars => (pending[h] = NoCommand)' \/ ~TypeOK
  BY DEF Enqueue, TypeOK
<1>4. <<SendFails(h)>>_vars => (pending[h] = NoCommand)' \/ ~TypeOK
  BY DEF SendFails, TypeOK
<1> QED BY <1>1, <1>2, <1>3, <1>4

\* Every send() call returns: while the task runs, it makes room again and
\* again and the permits come round; once it has stopped, the call fails.
THEOREM SendAlwaysReturns == FairSpec /\ []GuardsEnable => SendReturns
<1> SUFFICES ASSUME NEW h \in Handles
             PROVE  FairSpec /\ []GuardsEnable
                      => (pending[h] # NoCommand ~> pending[h] = NoCommand)
  BY DEF SendReturns
<1>1. TypeOK => (Len(queue) < Capacity \/ queue # <<>>)
  BY SendStep
<1>2. TypeOK /\ <<Recv>>_vars => (Len(queue) < Capacity)'
  BY SendStep
<1>3. TypeOK /\ <<Enqueue(h)>>_vars => (pending[h] = NoCommand)'
  BY SendStep
<1>4. TypeOK /\ <<SendFails(h)>>_vars => (pending[h] = NoCommand)'
  BY SendStep
<1>5. TypeOK /\ [Next]_vars =>
        /\ task = "running" \/ task = "stopped"
        /\ (task = "running")' \/ (task = "stopped")'
        /\ task = "stopped" => (task = "stopped")'
  BY EndIsFinal
<1>6. TypeOK => task = "running" \/ task = "stopped"
  BY DEF TypeOK
<1>7. GuardsEnable =>
        /\ task = "running" /\ queue # <<>> => ENABLED <<Recv>>_vars
        /\ pending[h] # NoCommand /\ task = "running" /\ Len(queue) < Capacity
             => ENABLED <<Enqueue(h)>>_vars
        /\ pending[h] # NoCommand /\ task = "stopped" => ENABLED <<SendFails(h)>>_vars
  BY TaskAwaits, HandleAwaits
<1>8. HandlesFair => HandleFairness(h)
  BY DEF HandlesFair
<1>9. pending[h] # NoCommand <=> ~(pending[h] = NoCommand)
  OBVIOUS
<1> QED
  BY <1>1, <1>2, <1>3, <1>4, <1>5, <1>6, <1>7, <1>8, <1>9, TypeCorrect, PTL
  DEF FairSpec, Spec, Fairness, TaskFairness, HandleFairness

\* What a step does to a reader that waits: as long as it waits, the channel's
\* version only gets newer, and only by a command that is applied.
LEMMA WaitingStep ==
  ASSUME NEW r \in Readers, TypeOK, [Next]_vars, phase[r] = "waiting", phase'[r] = "waiting"
  PROVE  /\ unseen[r] => unseen'[r]
         /\ task = "stopped" => unseen'[r] = unseen[r]
<1>1. CASE \E h \in Handles : HandleStep(h)
  BY <1>1 DEF HandleStep, CloneHandle, DropHandle, CallSend, Enqueue, SendFails, watch
<1>2. CASE Recv
  BY <1>2 DEF Recv, Publish, watch, TypeOK
<1>3. CASE RecvNone \/ StopOnSignal \/ OwnerStep \/ Finished \/ UNCHANGED vars
  BY <1>3 DEF RecvNone, StopOnSignal, StopTask, OwnerStep, Shutdown, ShutdownReturns,
    DropRegistry, Finished, vars, watch
<1>4. CASE \E q \in Readers : ReaderStep(q)
  BY <1>4 DEF ReaderStep, Subscribe, DropReceiver, StartLoop, Look, Satisfied, AwaitChange,
    Wake, WakeClosed, GiveUp, TypeOK
<1> QED BY <1>1, <1>2, <1>3, <1>4 DEF Next, TaskStep

\* A reader that waits on a registry that is gone learns of it: it sees what
\* is left to see or finds the channel closed.
THEOREM WaitersAlwaysLearnOfClose == FairSpec /\ []GuardsEnable => WaitersLearnOfClose
<1> SUFFICES ASSUME NEW r \in Readers
             PROVE  FairSpec /\ []GuardsEnable
                      => (owner = "dropped" ~> phase[r] # "waiting")
  BY DEF WaitersLearnOfClose
<1>1. TypeOK /\ [Next]_vars =>
        /\ owner = "dropped" => (owner = "dropped")'
        /\ task = "stopped" => (task = "stopped")'
  BY EndIsFinal
<1>2. owner = "dropped" => owner # "live"
  OBVIOUS
<1>3. owner = "dropped" /\ task = "stopped" => WatchClosed
  BY DEF WatchClosed
<1>4. TypeOK /\ [Next]_vars /\ phase[r] = "waiting" /\ (phase[r] = "waiting")' =>
        /\ unseen[r] => (unseen[r])'
        /\ task = "stopped" /\ ~unseen[r] => (~unseen[r])'
  BY WaitingStep DEF TypeOK
<1>5. TypeOK /\ (<<Wake(r)>>_vars \/ <<WakeClosed(r)>>_vars) => (~(phase[r] = "waiting"))'
  BY DEF Wake, WakeClosed, TypeOK
<1>6. GuardsEnable =>
        /\ phase[r] = "waiting" /\ unseen[r] => ENABLED <<Wake(r)>>_vars
        /\ phase[r] = "waiting" /\ ~unseen[r] /\ WatchClosed => ENABLED <<WakeClosed(r)>>_vars
  BY ReaderAwaits
<1>7. ReadersFair => ReaderFairness(r)
  BY DEF ReadersFair
<1>8. phase[r] # "waiting" <=> ~(phase[r] = "waiting")
  OBVIOUS
<1> QED
  BY <1>1, <1>2, <1>3, <1>4, <1>5, <1>6, <1>7, <1>8, TypeCorrect, AlwaysStopsWhenTold, PTL
  DEF FairSpec, Spec, Fairness, ReaderFairness, StopsWhenTold

\* What a step does to a reader in its loop.
LEMMA LoopStep ==
  ASSUME NEW r \in Readers, IInv, [Next]_vars, heard[r],
         phase[r] \in {"looking", "looked", "waiting"}
  PROVE  /\ heard'[r]
         /\ phase[r] = "looking" => phase'[r] = "looking" \/ view'[r] = registry'
         /\ phase[r] = "looked" => phase'[r] \in {"looked", "waiting", "held"}
         /\ phase[r] = "waiting" => phase'[r] \in {"looking", "waiting", "held"}
<1>1. CASE \E h \in Handles : HandleStep(h)
  BY <1>1 DEF HandleStep, CloneHandle, DropHandle, CallSend, Enqueue, SendFails, watch
<1>2. CASE Recv
  BY <1>2 DEF Recv, Publish, watch, IInv, TypeOK, Subscribed
<1>3. CASE RecvNone \/ StopOnSignal \/ OwnerStep \/ Finished \/ UNCHANGED vars
  BY <1>3 DEF RecvNone, StopOnSignal, StopTask, OwnerStep, Shutdown, ShutdownReturns,
    DropRegistry, Finished, vars, watch
<1>4. CASE \E q \in Readers : ReaderStep(q)
  BY <1>4 DEF ReaderStep, Subscribe, DropReceiver, StartLoop, Look, Satisfied, AwaitChange,
    Wake, WakeClosed, GiveUp, IInv, TypeOK, PublishedIsCurrent
<1> QED BY <1>1, <1>2, <1>3, <1>4 DEF Next, TaskStep

\* A reader in its loop never stays with an old snapshot: an old one leaves it
\* with something unseen, that wakes it, and the next look shows it the
\* registry as it is.
THEOREM ReaderAlwaysCatchesUp == FairSpec /\ []GuardsEnable => ReaderCatchesUp
<1> SUFFICES ASSUME NEW r \in Readers
             PROVE  FairSpec /\ []GuardsEnable =>
                      (heard[r] /\ phase[r] \in {"looking", "looked", "waiting"} /\ view[r] # registry
                         ~> view[r] = registry \/ phase[r] = "held")
  BY DEF ReaderCatchesUp
<1>1. phase[r] \in {"looking", "looked", "waiting"}
        <=> phase[r] = "looking" \/ phase[r] = "looked" \/ phase[r] = "waiting"
  OBVIOUS
<1>2. IInv /\ [Next]_vars /\ heard[r] =>
        /\ phase[r] = "looking" \/ phase[r] = "looked" \/ phase[r] = "waiting" => (heard[r])'
        /\ phase[r] = "looking" => (phase[r] = "looking")' \/ (view[r] = registry)'
        /\ phase[r] = "looked" =>
             (phase[r] = "looked")' \/ (phase[r] = "waiting")' \/ (phase[r] = "held")'
        /\ phase[r] = "waiting" =>
             (phase[r] = "looking")' \/ (phase[r] = "waiting")' \/ (phase[r] = "held")'
  BY LoopStep
<1>3. IInv /\ heard[r] /\ phase[r] = "waiting" /\ view[r] # registry => unseen[r]
  BY DEF IInv, NoLostWakeup, PublishedIsCurrent
<1>4. IInv /\ <<Look(r)>>_vars => (~(phase[r] = "looking"))'
  BY DEF IInv, TypeOK, Look
<1>5. IInv /\ <<Satisfied(r) \/ AwaitChange(r)>>_vars => (~(phase[r] = "looked"))'
  BY DEF IInv, TypeOK, Satisfied, AwaitChange
<1>6. IInv /\ <<Wake(r)>>_vars => (~(phase[r] = "waiting"))'
  BY DEF IInv, TypeOK, Wake
<1>7. GuardsEnable =>
        /\ phase[r] = "looking" => ENABLED <<Look(r)>>_vars
        /\ phase[r] = "looked" => ENABLED <<Satisfied(r) \/ AwaitChange(r)>>_vars
        /\ phase[r] = "waiting" /\ unseen[r] => ENABLED <<Wake(r)>>_vars
  BY ReaderAwaits
<1>8. ReadersFair => ReaderFairness(r)
  BY DEF ReadersFair
<1>9. /\ phase[r] = "looking" => ~(phase[r] = "looked") /\ ~(phase[r] = "waiting")
      /\ phase[r] = "looked" => ~(phase[r] = "waiting")
      /\ view[r] # registry <=> ~(view[r] = registry)
  OBVIOUS
<1> QED
  BY <1>1, <1>2, <1>3, <1>4, <1>5, <1>6, <1>7, <1>8, <1>9, SpecIInv, PTL
  DEF FairSpec, Spec, Fairness, ReaderFairness
=============================================================================
