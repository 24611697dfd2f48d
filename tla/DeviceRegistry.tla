--------------------------- MODULE DeviceRegistry ---------------------------
(***************************************************************************)
(* The device registry actor (engine/registry.rs).                         *)
(*                                                                         *)
(* One task owns the snapshot.  Handles send it commands over a bounded    *)
(* mpsc channel, each applied command publishes the new snapshot over a    *)
(* watch channel, and a oneshot channel tells the task to stop.  The owner *)
(* (DeviceRegistry) may be dropped, or may wait for the task at most five  *)
(* seconds.  Readers run the loop of the tests' wait_for: look at the      *)
(* snapshot, then wait for the next change.                                *)
(*                                                                         *)
(* A step is what happens between two awaits of one task.                  *)
(***************************************************************************)
EXTENDS RegistryState, Sequences

CONSTANTS Handles,    \* RegistryHandle clones that may exist at a time
          Readers,    \* watch receivers that may exist at a time
          Capacity,   \* slots of the mpsc channel
          NoCommand   \* "no send() call in progress"

\* mpsc::channel(0) panics, so a registry that exists has a slot.
ASSUME CapacityAssumption == Capacity \in Nat \ {0}
ASSUME NoCommandAssumption == NoCommand \notin Commands

VARIABLES
  registry,   \* the snapshot the task owns
  queue,      \* commands accepted by the mpsc channel
  pending,    \* per handle: the command of its send() call in progress
  live,       \* handles that exist
  owner,      \* DeviceRegistry: "live", inside "shutdown", or "dropped"
  signal,     \* the oneshot has been sent
  task,       \* run_registry: "running" or "stopped"
  published,  \* the value inside the watch channel
  phase,      \* per reader: where it is in its loop
  unseen,     \* per reader: the channel's version is newer than its own
  view,       \* per reader: the snapshot it last looked at
  heard       \* history: a command was applied since the reader subscribed

senders == <<queue, pending, live>>
control == <<owner, signal, task>>
watch == <<published, phase, unseen, view, heard>>
vars == <<registry, senders, control, watch>>

Phases == {"none",      \* no receiver
           "held",      \* owns a receiver, not in the loop
           "looking",   \* about to borrow_and_update()
           "looked",    \* has the snapshot, predicate not evaluated yet
           "waiting"}   \* inside changed().await

Subscribed == {r \in Readers : phase[r] # "none"}

\* All mpsc senders are gone: the owner's own handle and every clone.
SendersGone == owner = "dropped" /\ live = {}

\* All watch senders are gone: the owner's and the task's.
\* A plausible bug: handles hold a watch sender too.
WatchClosedWithHandles == owner = "dropped" /\ task = "stopped" /\ live = {}

WatchClosed == owner = "dropped" /\ task = "stopped"

Init ==
  /\ registry = EmptySnapshot
  /\ queue = <<>>
  /\ pending = [h \in Handles |-> NoCommand]
  /\ live = {}
  /\ owner = "live"
  /\ signal = FALSE
  /\ task = "running"
  /\ published = EmptySnapshot
  /\ phase = [r \in Readers |-> "none"]
  /\ unseen = [r \in Readers |-> FALSE]
  /\ view = [r \in Readers |-> EmptySnapshot]
  /\ heard = [r \in Readers |-> FALSE]

-----------------------------------------------------------------------------
(* Handles *)

\* handle().clone(), or the clone of a clone.
CloneHandle(h) ==
  /\ h \notin live
  /\ owner = "live" \/ live # {}
  /\ live' = live \cup {h}
  /\ UNCHANGED <<registry, queue, pending, control, watch>>

\* send() borrows the handle, so it cannot be dropped during the call.
DropHandle(h) ==
  /\ h \in live
  /\ pending[h] = NoCommand
  /\ live' = live \ {h}
  /\ UNCHANGED <<registry, queue, pending, control, watch>>

CallSend(h) ==
  /\ h \in live
  /\ pending[h] = NoCommand
  /\ \E cmd \in Commands : pending' = [pending EXCEPT ![h] = cmd]
  /\ UNCHANGED <<registry, queue, live, control, watch>>

\* The channel has room: the command is queued and send() returns Ok.
\* A plausible bug: an unbounded channel.
EnqueueUnbounded(h) ==
  /\ pending[h] # NoCommand
  /\ task = "running"
  /\ queue' = Append(queue, pending[h])
  /\ pending' = [pending EXCEPT ![h] = NoCommand]
  /\ UNCHANGED <<registry, live, control, watch>>

Enqueue(h) ==
  /\ pending[h] # NoCommand
  /\ task = "running"
  /\ Len(queue) < Capacity
  /\ queue' = Append(queue, pending[h])
  /\ pending' = [pending EXCEPT ![h] = NoCommand]
  /\ UNCHANGED <<registry, live, control, watch>>

\* The receiver is gone: send() returns ChannelClosed, also to a call that
\* was waiting for room.
\* A plausible bug: the handles keep the receiver alive, so that the channel
\* only closes with the last of them.
SendFailsWithLastHandle(h) ==
  /\ pending[h] # NoCommand
  /\ task = "stopped"
  /\ live = {}
  /\ pending' = [pending EXCEPT ![h] = NoCommand]
  /\ UNCHANGED <<registry, queue, live, control, watch>>

SendFails(h) ==
  /\ pending[h] # NoCommand
  /\ task = "stopped"
  /\ pending' = [pending EXCEPT ![h] = NoCommand]
  /\ UNCHANGED <<registry, queue, live, control, watch>>

-----------------------------------------------------------------------------
(* The task *)

\* watch::Sender::send(): with no receiver it fails and the value it holds
\* stays as it was; otherwise it is replaced and every receiver is behind.
Publish(snapshot) ==
  IF Subscribed = {}
  THEN UNCHANGED watch
  ELSE /\ published' = snapshot
       /\ unseen' = [r \in Readers |-> IF r \in Subscribed THEN TRUE ELSE unseen[r]]
       /\ heard' = [r \in Readers |-> IF r \in Subscribed THEN TRUE ELSE heard[r]]
       /\ UNCHANGED <<phase, view>>

\* A plausible bug: the snapshot is taken before the command is applied.
RecvPublishingFirst ==
  /\ task = "running"
  /\ queue # <<>>
  /\ registry' = HandleCommand(Head(queue), registry)
  /\ queue' = Tail(queue)
  /\ Publish(registry)
  /\ UNCHANGED <<pending, live, control>>

\* The recv() branch: apply one command, publish the result.
Recv ==
  /\ task = "running"
  /\ queue # <<>>
  /\ registry' = HandleCommand(Head(queue), registry)
  /\ queue' = Tail(queue)
  /\ Publish(registry')
  /\ UNCHANGED <<pending, live, control>>

\* The task ends and drops its receiver, with the commands still queued.
StopTask ==
  /\ task' = "stopped"
  /\ queue' = <<>>
  /\ UNCHANGED <<registry, pending, live, owner, signal, watch>>

\* The recv() branch once every sender is gone and the queue is empty.
RecvNone ==
  /\ task = "running"
  /\ queue = <<>>
  /\ SendersGone
  /\ StopTask

\* The shutdown branch; select! polls the branches in random order.
\* A plausible bug: the branch is only taken once the queue is empty.
StopWhenIdle ==
  /\ task = "running"
  /\ signal
  /\ queue = <<>>
  /\ StopTask

StopOnSignal ==
  /\ task = "running"
  /\ signal
  /\ StopTask

-----------------------------------------------------------------------------
(* The owner *)

\* shutdown(self): send the signal, then await the task.
Shutdown ==
  /\ owner = "live"
  /\ owner' = "shutdown"
  /\ signal' = TRUE
  /\ UNCHANGED <<registry, senders, task, watch>>

\* The task has ended, or five seconds have passed: self is dropped.
ShutdownReturns ==
  /\ owner = "shutdown"
  /\ owner' = "dropped"
  /\ UNCHANGED <<registry, senders, signal, task, watch>>

\* Drop for DeviceRegistry, without shutdown().
DropRegistry ==
  /\ owner = "live"
  /\ owner' = "dropped"
  /\ signal' = TRUE
  /\ UNCHANGED <<registry, senders, task, watch>>

-----------------------------------------------------------------------------
(* Readers *)

\* snapshot(): a receiver that regards the current value as seen.
Subscribe(r) ==
  /\ owner = "live"
  /\ phase[r] = "none"
  /\ phase' = [phase EXCEPT ![r] = "held"]
  /\ unseen' = [unseen EXCEPT ![r] = FALSE]
  /\ heard' = [heard EXCEPT ![r] = FALSE]
  /\ UNCHANGED <<registry, senders, control, published, view>>

DropReceiver(r) ==
  /\ phase[r] = "held"
  /\ phase' = [phase EXCEPT ![r] = "none"]
  /\ unseen' = [unseen EXCEPT ![r] = FALSE]
  /\ heard' = [heard EXCEPT ![r] = FALSE]
  /\ view' = [view EXCEPT ![r] = EmptySnapshot]
  /\ UNCHANGED <<registry, senders, control, published>>

StartLoop(r) ==
  /\ phase[r] = "held"
  /\ phase' = [phase EXCEPT ![r] = "looking"]
  /\ UNCHANGED <<registry, senders, control, published, unseen, view, heard>>

\* borrow_and_update(): read the value and regard it as seen.
Look(r) ==
  /\ phase[r] = "looking"
  /\ phase' = [phase EXCEPT ![r] = "looked"]
  /\ view' = [view EXCEPT ![r] = published]
  /\ unseen' = [unseen EXCEPT ![r] = FALSE]
  /\ UNCHANGED <<registry, senders, control, published, heard>>

\* The predicate holds of what was read: the loop returns true.
Satisfied(r) ==
  /\ phase[r] = "looked"
  /\ phase' = [phase EXCEPT ![r] = "held"]
  /\ UNCHANGED <<registry, senders, control, published, unseen, view, heard>>

\* The predicate does not hold: changed().await.
\* A plausible bug: the wait starts from the channel's current version, not
\* from the version that was looked at.
AwaitNextChange(r) ==
  /\ phase[r] = "looked"
  /\ phase' = [phase EXCEPT ![r] = "waiting"]
  /\ unseen' = [unseen EXCEPT ![r] = FALSE]
  /\ UNCHANGED <<registry, senders, control, published, view, heard>>

AwaitChange(r) ==
  /\ phase[r] = "looked"
  /\ phase' = [phase EXCEPT ![r] = "waiting"]
  /\ UNCHANGED <<registry, senders, control, published, unseen, view, heard>>

\* changed() returns Ok and regards the version it found as seen.
Wake(r) ==
  /\ phase[r] = "waiting"
  /\ unseen[r]
  /\ phase' = [phase EXCEPT ![r] = "looking"]
  /\ unseen' = [unseen EXCEPT ![r] = FALSE]
  /\ UNCHANGED <<registry, senders, control, published, view, heard>>

\* changed() returns Err: nothing unseen and no sender left.
WakeClosed(r) ==
  /\ phase[r] = "waiting"
  /\ ~unseen[r]
  /\ WatchClosed
  /\ phase' = [phase EXCEPT ![r] = "held"]
  /\ UNCHANGED <<registry, senders, control, published, unseen, view, heard>>

\* The reader's own timeout elapses inside changed().await.
GiveUp(r) ==
  /\ phase[r] = "waiting"
  /\ phase' = [phase EXCEPT ![r] = "held"]
  /\ UNCHANGED <<registry, senders, control, published, unseen, view, heard>>

-----------------------------------------------------------------------------
\* Everyone has gone home.
Finished ==
  /\ WatchClosed
  /\ live = {}
  /\ Subscribed = {}
  /\ UNCHANGED vars

HandleStep(h) ==
  \/ CloneHandle(h)
  \/ DropHandle(h)
  \/ CallSend(h)
  \/ Enqueue(h)
  \/ SendFails(h)

TaskStep == Recv \/ RecvNone \/ StopOnSignal

OwnerStep == Shutdown \/ ShutdownReturns \/ DropRegistry

ReaderStep(r) ==
  \/ Subscribe(r)
  \/ DropReceiver(r)
  \/ StartLoop(r)
  \/ Look(r)
  \/ Satisfied(r)
  \/ AwaitChange(r)
  \/ Wake(r)
  \/ WakeClosed(r)
  \/ GiveUp(r)

Next ==
  \/ \E h \in Handles : HandleStep(h)
  \/ TaskStep
  \/ OwnerStep
  \/ \E r \in Readers : ReaderStep(r)
  \/ Finished

\* The runtime polls every task that can make progress.  The channel's
\* permits are handed out first come first served, so a waiting send() is not
\* overtaken for ever; select! picks among ready branches at random, so a
\* signal that stays set is noticed.  Nobody must send, drop or subscribe.
TaskFairness == WF_vars(Recv) /\ WF_vars(RecvNone) /\ WF_vars(StopOnSignal)

HandleFairness(h) == SF_vars(Enqueue(h)) /\ WF_vars(SendFails(h))
HandlesFair == \A h \in Handles : HandleFairness(h)

ReaderFairness(r) ==
  /\ WF_vars(Look(r))
  /\ WF_vars(Satisfied(r) \/ AwaitChange(r))
  /\ WF_vars(Wake(r))
  /\ WF_vars(WakeClosed(r))
ReadersFair == \A r \in Readers : ReaderFairness(r)

Fairness == TaskFairness /\ WF_vars(ShutdownReturns) /\ HandlesFair /\ ReadersFair

Spec == Init /\ [][Next]_vars
FairSpec == Spec /\ Fairness

-----------------------------------------------------------------------------
(* Safety *)

TypeOK ==
  /\ IsSnapshot(registry)
  /\ queue \in Seq(Commands) /\ Len(queue) <= Capacity
  /\ pending \in [Handles -> Commands \cup {NoCommand}]
  /\ live \subseteq Handles
  /\ owner \in {"live", "shutdown", "dropped"}
  /\ signal \in BOOLEAN
  /\ task \in {"running", "stopped"}
  /\ IsSnapshot(published)
  /\ phase \in [Readers -> Phases]
  /\ unseen \in [Readers -> BOOLEAN]
  /\ view = [r \in Readers |-> view[r]]
  /\ \A r \in Readers : IsSnapshot(view[r])
  /\ heard \in [Readers -> BOOLEAN]

\* A reader never sees the session index and the device table disagree, and
\* neither does the task (handle_command keeps the two HashMaps in step).
IndexMatchesTable ==
  /\ Consistent(registry)
  /\ Consistent(published)
  /\ \A r \in Readers : Consistent(view[r])

\* Once a command has been applied since some reader subscribed, what
\* snapshot() hands out is the registry as of the last command, although
\* earlier snapshots may have been thrown away for want of a receiver.
PublishedIsCurrent == (\E r \in Readers : heard[r]) => published = registry

\* A reader about to wait, or waiting, with nothing unseen has looked at the
\* value the channel holds: no update slips in between borrow_and_update and
\* changed().
NoLostWakeup ==
  \A r \in Readers :
    phase[r] \in {"looked", "waiting"} /\ ~unseen[r] => view[r] = published

\* A session never finds another device behind a bus it serves: neither a
\* device plugged anew (AddDevice) nor a hand-over from another session slips
\* in without a step in which the session does not serve the bus.
DeviceNotSwappedUnderSession ==
  [][\A s, t \in SessionIds, b \in BusIds :
       Listed(registry.forwardings, s, b) /\ Listed(registry'.forwardings, t, b)
         => s = t /\ registry'.devices[b].device = registry.devices[b].device]_vars

\* The registry implements the device table: each step of any actor is one
\* step of some device's life cycle, seen alike in both HashMaps, or none.
TableOf(devices) ==
  [b \in DOMAIN devices |-> [device |-> devices[b].device, stage |-> devices[b].state.kind]]
ServedOf(fw) == [s \in SessionIds |-> {b \in BusIds : Listed(fw, s, b)}]

Table == INSTANCE DeviceTable WITH table  <- TableOf(registry.devices),
                                   served <- ServedOf(registry.forwardings)

ImplementsDeviceTable == Table!Spec

-----------------------------------------------------------------------------
(* Progress *)

\* Every send() call returns, with Ok or with ChannelClosed: back pressure
\* never turns into a block for ever, not even when the task ends while the
\* caller waits for room.
SendReturns == \A h \in Handles : pending[h] # NoCommand ~> pending[h] = NoCommand

\* Telling the registry to stop, or dropping it, ends the task even while
\* handles keep the queue full.
StopsWhenTold == owner # "live" ~> task = "stopped"

\* A reader in its loop gets to see the registry as of some later moment, or
\* its loop ends: it is never left waiting on an old snapshot.
ReaderCatchesUp ==
  \A r \in Readers :
    heard[r] /\ phase[r] \in {"looking", "looked", "waiting"} /\ view[r] # registry
      ~> view[r] = registry \/ phase[r] = "held"

\* A reader does not wait for ever on a registry that is gone.
WaitersLearnOfClose ==
  \A r \in Readers : owner = "dropped" ~> phase[r] # "waiting"

-----------------------------------------------------------------------------
(* What the tests say of the actor, and the code does not do *)

\* "shutdown_drains_pending_commands_before_stop" (registry.rs:1255).
ShutdownDrainsQueue == [][task = "running" /\ task' = "stopped" => queue = <<>>]_vars

\* "both devices should be registered after backpressure resolves"
\* (registry.rs:1211): a reader that subscribes after the sends and waits.
WaitingReaderSeesEveryDevice ==
  \A r \in Readers :
    /\ phase[r] = "waiting" /\ ~unseen[r]
    /\ task = "running" /\ queue = <<>> /\ \A h \in Handles : pending[h] = NoCommand
    => DOMAIN view[r].devices = DOMAIN registry.devices
=============================================================================
