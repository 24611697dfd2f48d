# A TLA+ verification of easy-usb

easy-usb shares USB devices over IP. At this commit the program proper is the
crate `easy-usb-core`; the adapters, the daemon and the command line are empty
crates. This directory holds TLA+ models of the core, the TLC runs that check
them on small instances and the theorems TLAPS proves about them for every
instance. Paths below are relative to `crates/easy-usb-core/src/`.

## 1. Inventory

| Component | State | Operations | Talks to |
|---|---|---|---|
| Device registry (`engine/registry.rs`) | the task's `RegistrySnapshot` (`devices`, `forwardings`); bounded mpsc queue; oneshot signal; watch channel | `send`, `snapshot`, `shutdown`, drop; `run_registry`, `handle_command`; the readers' loop of the tests (`wait_for`) | its handles by the queue, its readers by the watch channel |
| Import handshake, client (`protocol/handshake.rs`) | attempt counter, stream of the attempt | `import_device`, `do_handshake`, `make_import_request` | the server, over one TCP connection per attempt |
| Import handshake, server (`protocol/server.rs`) | the accepted stream | `accept_device`, `send_op_rep_import` | its clients |
| URB session (`protocol/session.rs`) | stream, `next_seqnum`, `closed` | `connect`, `send_header`, `recv_header`, `recv_header_or_close`, `close`, `into_stream` | the echo server |
| URB echo server (`protocol/server.rs`) | none between calls | `serve_urb_echo` | its client |
| Codec (`protocol/codec.rs`, `protocol/wire.rs`) | none | encode and decode of headers and of the two import messages | the four above |
| Device conversion (`protocol/device.rs`, `port/types.rs`) | none | `From` conversions from the import reply to a `UsbDevice` | the handshake's caller |
| Ports and their mocks (`port/`) | mocks: several mutexes each | `list`, `bind`, `unbind`, `watch`; `serve`, `shutdown`, `call_route`; `on_start`, `on_stop`; `advertise`, `scan`, `withdraw` | tests only |
| Adapters, daemon, cli, `api` | none | none | nothing yet |

What makes each correct, and what is hard about it:

* **Registry.** The two maps must stay one relation; a device goes through a
  fixed life cycle; a reader gets whole snapshots, the newest in the end; every
  `send` returns and a registry told to stop stops. Hard: senders, task, owner
  and readers interleave; `select!` is random; the watch channel forgets what
  is sent while nobody is subscribed.
* **Handshake.** A success must have been agreed on by both sides on the
  connection returned, a refusal is final, a failure is retried a bounded
  number of times. Hard: a timeout may strike at any await and race the answer,
  the server may crash, answer late or not at all, and the busid is cut to the
  size of its field.
* **Session and echo.** Answers match requests in order, number and payload;
  numbers wrap; frames keep their boundaries; nobody buffers more than allowed;
  neither side waits for the other for ever. Hard: both directions are bounded
  pipes, lengths are announced and not checked against the payload, errors
  leave data behind, and one half of a connection may be closed.
* **Codec and conversions.** What is put is read again, and the three places
  that look for a length (the session, the server and the decoder) find the
  same one. Hard: one struct is laid out by hand in two functions and, at fixed
  offsets, in a third; structs are padded; a text is cut to its field, padded
  with zeros and converted lossily.
* **Port mocks.** One `bind` holds a device, routes exist while the server is
  up, and the events tell what `list` returns. Hard: every method takes several
  mutexes one after the other, and a route's handler may call the mock that
  runs it.

`PROJECT.json` lists every hazard at its line with the properties that watch it.

## 2. Modules

| Module | Models |
|---|---|
| `RegistryState` | data of the registry and `handle_command`, as operators |
| `DeviceTable` | abstract specification: devices and their life cycle, sessions and the buses they serve; no queue, no task, no snapshot |
| `DeviceRegistry` | the actor: handles, queue, task, owner, watch channel, readers |
| `ImportHandshake` | one `import_device` call against an accept loop, over one connection per attempt |
| `UrbCodec` | what encodes, what decodes, and how long a payload is, with a header as one cell |
| `UrbSession` | a `TcpSession` and a loop around `serve_urb_echo`, over two bounded pipes |
| `EchoService` | abstract specification of both sessions: a queue of requests answered in order until the session is over |
| `WireBytes` | numbers in network order, structs of words, their reading at an offset |
| `UrbFrames` | headers and payloads of URBs as bytes, the offsets the two readers look at, the echo's answers |
| `ImportMessages` | the two import messages as bytes with their padding, and the conversions to a `UsbDevice` |
| `WireSession` | `TcpSession::connect`, then URBs, on the bytes of one connection: composes the two modules above with the server |
| `PortMocks` | `MockIpc` and `MockUsbHost` under several threads |
| `MC*` | instances for TLC |
| `Streams` | lemmas about streams that carry frames one after the other, for the two proofs below that follow frames through pipes |
| `*Proofs` | theorems about `DeviceRegistry`, `ImportHandshake`, `UrbSession`, `WireBytes`, `UrbFrames`, `WireSession` and `PortMocks` |

`UrbSession` and `WireSession` look at one piece of code from two sides. The
first has pipes that fill up, calls that overlap and cells for headers; the
second has bytes, padding and offsets and takes every call in one step.
`StreamsAgreeWithCells` ties them: on every stream of `WireSession` the readers
and the decoder decide as `UrbCodec` does. The theorem `BytesAgreeWithCells` says
so of every stream there is.

Correspondence of state and code:

* `DeviceRegistry`: `registry` is `state` in `run_registry`; `queue` and
  `pending` are the mpsc channel and the `send` calls that wait for it;
  `signal` is the oneshot; `published` and `unseen` are the watch channel's
  value and versions; `owner` is the `DeviceRegistry` value. One action is what
  a task does between two awaits. `Recv` is a whole turn of the `select!`
  branch: receive, `handle_command`, publish.
* A `Vec<BusId>` is modelled as a multiplicity per bus: no code reads its
  order, but a bus listed twice would be seen.
* `ImportHandshake`: connection *n* belongs to attempt *n*. The client's steps
  are the awaits of `do_handshake`, and `Elapse` may strike at each. The server
  reads one connection at a time, as a loop around `accept_device` does.
  Strings are sequences of three kinds of bytes (ASCII, first and second byte
  of a wider character), which is all that cutting and UTF-8 checking see.
* `UrbSession`: a header is one cell of a pipe and a payload unit one cell.
  `write_all` moves one cell at a time, `read_exact` takes one at a time.
  `send_header` takes its number, then encodes, then writes; `SendRefused` is
  the encoding error that spends a number. `RecvMalformed` and `RecvEof` are
  the errors of `recv_header_inner`, and only `recv_header_or_close` sets
  `closed`. The server's loop drops its stream when `serve_urb_echo` fails,
  also when it is the answer that does not encode.
* `WireSession`: `up` and `down` are the bytes under way. A call reads what it
  needs once it is there and looks at the bytes alone: nothing says where a
  frame begins. The import is one attempt, with `KeepaliveFails` for the socket
  option that `connect` sets after the server has accepted.
* `PortMocks`: `serving`, `routed`, `devices` and `bound` are the mutexes'
  contents. A mutex that is held while its holder waits for another has a
  holder variable (`servingLock`, `routesLock`), and a call that waits for it is
  at a place of its own (`serve1`, `shutdown1`, `route1`, ...), so that a handler
  cannot return while its call waits; the rest are held within one step. `Serve`
  and `ServeRoutes` are the two halves of `serve`, with whatever comes between
  them; `Bind` and `BindBound` those of `bind`; `InjectConnect` and `SendEvent`
  those of an injection. `InjectEvent` is `inject_event` called by itself, with
  any event. `overlapped` and `doubtful` remember which calls came between each
  other's halves, and how long it matters (section 3).

External behaviour is modelled from its use and marked so in the map: tokio's
mpsc (FIFO, a waiting `send` fails when the receiver goes), oneshot and watch
(`send` without a receiver keeps the old value; `changed` reports a version
newer than the receiver's own and fails when all senders are gone), TCP, and
the programs around the library calls.

Abstractions worth knowing. In `UrbSession` payload sizes are multiples of a
header, so a wrong length shifts frames by whole cells, payload cells are never
the image of a header, and `devid`, `ep`, `setup` and the flags, which the code
copies, are left out; all of this is in `WireSession`, where a payload may hold
the image of a frame. In `ImportHandshake` the path and the device fields are
left out; they are in `ImportMessages`. There, bytes of a text are of five
kinds, which is all that UTF-8 checking, lossy conversion and trimming tell
apart up to characters of three bytes. The eight setup bytes are two words. A byte has
`Radix` values, so that TLC can have words of four bytes. Logging is left out.

## 3. Runs

| Run | Question | Instance |
|---|---|---|
| `registry_commands` | do all command sequences keep the two maps in step, implement `DeviceTable`, which sees both, and never swap a device under a session? | 2 buses, 2 sessions, 2 descriptors, 1 handle, no reader |
| `registry_readers` | can a reader see a torn or stale snapshot or miss an update? | 2 readers, 1 device, 1 session |
| `registry_progress` | does every `send` return, the task stop when told, a waiting reader catch up and learn of the end? | 2 handles, 1 reader, 1 slot, 1 bus |
| `registry_drain` | violation: are accepted commands applied before the stop? | 1 handle |
| `registry_late_reader` | violation: does a late reader see every device? | 1 reader, 2 buses |
| `import_device` | is a success agreed on, is nothing leaked, is a refusal final; does the call return, does the accept loop go on? | 3 attempts as in the code, field of 2 bytes, 5 busids |
| `import_timeout` | violation: is silence reported as a timeout? | 3 attempts |
| `urb_safety` | do answers match, do frames and buffers hold? | 3 calls out of 13, numbers modulo 2, pipes of 3 cells |
| `urb_progress` | do the sides ever wait for each other, does every step bring the answers nearer, is every request answered, does the server let go of a client that left, does the session implement `EchoService`? | 3 calls out of 13, window 2, pipes of 3 cells |
| `urb_closed` | violation: does a malformed frame end the stream? | 1 call |
| `wire_session` | do devices, answers and frame boundaries survive the bytes, do the cells of `UrbSession` stand for them, do the bytes implement `EchoService`? | 4 names, 10 replies, 2 calls out of 16, 6 stray endings |
| `port_mocks` | one binding at a time, routes with the server, events that explain the list, no deadlock? | 3 threads, 2 devices |

Why the bounds are enough. A bus meets at most two sessions in any hazard (the
one that loses it and the one that gets it), so two of each decide
`registry_commands`; symmetry over them is sound because the code only compares
them. A channel with one slot blocks a sender most often, two handles make them
compete, and two readers make one subscribe while the other is behind. The
busids of the handshake are empty, shorter than the field, as long, cut between
and inside characters. Sequence numbers modulo 2 wrap within three calls, which
with a window of 2 lets an old number meet a new one; a pipe of 3 cells is
smaller than two frames, so `write_all` waits on both sides. `MaxCalls` bounds
the calls and nothing else; `Window` is what a caller must promise.

`wire_session` has bytes of eight values, so a word has 4096 and a sign; fields
of four bytes, of a text that ends inside, fills them or is cut in a character;
a payload limit of 49, one more than a header, so that a payload can be the
image of a whole frame and be misread as one if a length is wrong. Two calls
are enough for that: the second finds what the first left. Every reply field
has a value of its own, so a swap shows. In `port_mocks` the third thread is
the one that comes between the halves of two others.

`urb_progress` depends on the window: with `Room = 2` the same caller and the
echo server end up waiting for each other, each with a full pipe (`NeverStuck`
fails). The code sets no window, so this is a duty of the caller, and the theorem
`NeverWaitForEachOther` says how much: `Window` frames of the largest payload may
have no more cells than the two pipes hold and one more. With `Room = 3` that is 6
cells of 7, with `Room = 2` it would be 6 of 5.

`NothingElseAwaited`, in `ImportHandshake` and `UrbSession`, says what each side
waits for at each of its awaits: if that has come, one of several steps is enabled.
It fails where a case of a reader or a writer is forgotten. It is also what
`ENABLED` in the fairness conditions amounts to, so that the proofs of progress can
start from it. For the registry, where the same would say no more than the guard
of each action, it is no property: `GuardsEnable` of `DeviceRegistryProofs` is a
hypothesis of the proofs only.
`NeverStuck` is then about the guards: while an answer is owed, one side has what
it waits for. `EachStepCounts` bounds the moves: every step that is no new call
brings an answer or leaves fewer cells to move.

`CHECK_DEADLOCK FALSE` is set for the runs of `UrbSession` and `WireSession`
only: a finished client and a server that is gone have nothing left to do, and a
caller may wait for an answer it never asked for.

Some properties of `PortMocks` and `WireSession` say "unless", and the
exceptions are real. A `shutdown` between the halves of a `serve` leaves routes
behind a server that is down (`overlapped`, until the next `serve` or `shutdown`
that takes effect outside of such halves). Two injections of different kinds for
one device, the second begun before the first has sent its event, may send their
events in the other order and leave a watcher with the wrong picture; so does an
`inject_event` by itself, which sends what it likes and leaves the list alone, when
no injection is under way that has the last word (`doubtful`, until an injection for
the device begins while no other is under way). A payload that is not as long as
its header says moves every later answer (`Fits`). The sources promise nothing for
these cases; the properties say that nothing else goes wrong, and for the mocks that
it is over with the next call that comes alone. A device may be bound and gone, as
no property denies: `inject_disconnect` leaves `bound` alone on purpose, and the
second half of `bind` does not look at `devices` again.

`AcceptLoopGoesOn` speaks of the clients that the repository has: `import_device`
gives up after its timeout, and the stream that it drops ends the read of
`accept_device`, which has no timeout of its own. `SeqnumsDistinct` says that the
numbers have gone all the way round between two requests that share one; whether
both are outstanding then is up to the caller.

### Fairness

Registry: the runtime polls every task that can go on (weak fairness of each
task's steps). The mpsc channel hands out permits in order, so a waiting `send`
is not passed over for ever (strong fairness of `Enqueue`); `select!` picks at
random among ready branches and the signal stays ready, so it is noticed (weak
fairness of `StopOnSignal`). Nobody has to send, subscribe, drop or shut down.
Handshake: time passes, so an attempt ends (weak fairness of the client); the
loop accepts and reads; nobody has to answer. Session: a call that can go on
goes on, on both sides, and the caller collects answers it has asked for.
`EchoService` owes an answer until the session is over, and `UrbSession` shows
that its fairness delivers it. `WireSession` and `PortMocks` state no fairness:
their questions are of safety, and `SomeCallGoesOn` asks of every state with a
call under way that some call can continue.

### What the runs show against the tests and documents

* **Shutdown does not drain.** `run_registry` may take the shutdown branch with
  commands queued whose `send` returned `Ok` (registry.rs:177), although a test
  is named `shutdown_drains_pending_commands_before_stop` (registry.rs:1255).
* **A late reader can wait on an old snapshot.** Without a receiver the watch
  channel drops the new snapshot (registry.rs:175). The test at registry.rs:1189
  subscribes after it has sent and passes because the single-threaded test
  runtime has not yet run the task; on a multi-threaded runtime it may fail.
  `send_replace` would store the snapshot.
* **Silence is not reported as a timeout.** `HandshakeError::Timeout` is never
  built; the manual checklist expects a timeout error
  (tests/interop-checklist.md:70).
* **A malformed frame does not end the stream.** `recv_header_or_close` shuts
  the write half only; the assertion at session.rs:396 holds because that test's
  server sends less than a header and closes.

## 4. Theorems

tlapm checks every leaf. The assumptions are those the modules name on their
constants: a capacity of one at least, a radix of two at least, records of the
right shape, texts that are UTF-8, a `Nobody` that is no thread, and so on. TLC
evaluates each of them in the runs that use its module.

**`DeviceRegistryProofs`**, for every set of buses, sessions, descriptors,
handles and readers and every capacity: `TypeCorrect`,
`IndexAlwaysMatchesTable`, `PublishedAlwaysCurrent`, `NeverLostWakeup`,
`ServedDeviceNeverSwapped` and `RegistryImplementsDeviceTable`. The inductive
invariant adds to the four invariants the facts that make them inductive: the
consistency of every snapshot anybody holds, and that only a subscriber has
heard anything. Lemmas say what `Unlist` and `List` do to the index, then
what `Withdraw` and `Enlist` do, then that `HandleCommand` keeps a snapshot
consistent; refinement maps every command to one step of `DeviceTable` or to a
stutter and needs the invariant, because `DeviceTable` changes one relation
where the code changes two maps.

Progress of the registry: `SendAlwaysReturns`, `AlwaysStopsWhenTold`,
`WaitersAlwaysLearnOfClose` and `ReaderAlwaysCatchesUp`, for any number of handles
and readers and every capacity. The last rests on `NoLostWakeup` and
`PublishedIsCurrent`: a reader that waits on an old snapshot has something unseen,
is woken by it, and its next look shows the registry as it is.

**`ImportHandshakeProofs`**, for every number of retries, field size and set of
busids: `TypeCorrect`, `AlwaysOneConnection`, `ImportAlwaysAgreed`,
`RefusalAlwaysFinal`. The invariant ties each connection to the phase of the
attempt that owns it (unused beyond the current attempt, no reply without an
accepted request), which is what excludes a late answer to another attempt. A
lemma computes the length of the trimmed field, so that the name the server
reads is shown to be a prefix of the busid.

Progress of the import: `AcceptLoopAlwaysGoesOn`, for every number of retries; that
every attempt ends, `EveryAttemptEnds`, for every number of retries; and, chaining
the three attempts of the code (`MAX_RETRIES`), `ImportAlwaysReturns`. The first
needs one more invariant, `RequestSent`: a connection being read without a request
is the one the client is about to send on, so the client's own step, by its
timeout if by nothing else, brings a request or an end.

**`Streams`**. What a pipe holds is the remains of frames one after the other.
Where each of them begins is a sum of lengths; no recursive definition can be
proved about here, so a *position function* stands for the sums: `LaidOut(s, f,
a, b, p)` says that the stream `s` shows frame `k` of `f` behind `p[k]` elements,
for `k` from `a` to `b`, as far as `s` goes. The lemmas say what a write adds,
what a read removes, what a cut leaves, and that a stream as long as its frames
is determined by them. `FramesBounded` bounds a stream by the number of its frames
and the longest of them, by `LeastNatural` (every non-empty set of naturals has a
least element), which takes the place of an induction.

**`UrbSessionProofs`**, for every set of calls and stray frames, every pipe,
window and payload limit: `TypeCorrect` and `BuffersAlwaysBounded`, which rests
on `LengthBounds` (a reader asks for more cells only after the length check has
passed); `SeqnumsAlwaysDistinct`, by the invariant `NumbersCounted`, which ties
each number in flight to the call that took it; `RepliesAlwaysFramed`,
`AlwaysInOrder` and `SessionImplementsEchoService`.

For `RepliesAlwaysFramed`, what is on its way to the client (what it has read of
an answer, the pipe, what the server has still to write) is one sequence
`Coming`, and `FrameInv` says that it is a concatenation of whole frames;
`CutFrames`, `DropFrame` and `AddFrame` say what reading and writing do to one,
`EchoIsFrame` that the server's answer is one.

`AlwaysInOrder` states `EchoInOrder` and has to follow every payload through both
pipes. Its invariant `OrderInv` names two numbers: *F*, how many requests fit
before the first that does not, and *e*, how many the server has echoed. Then
`Coming` is laid out with the echoes the client has not returned, and `Going`
(what the server has read of a request, the pipe, what the client has still to
write) with the requests the server has not echoed. It is needed because no
step sees both ends: that an answer repeats its request is decided where the
server reads, many steps before the client returns it. The invariant says
nothing of what comes behind the first payload that does not fit.

`SessionImplementsEchoService` is the safety part of the refinement that
`urb_progress` checks: `Spec /\ []~strayed => Service!Spec`. Every step asks, answers,
ends the session or stutters, and an answer needs `EchoInOrder` of the state it
leads to, to be the next of the queue. The hypothesis is that the server is
`serve_urb_echo` and no other program; the run has no stray frames, so it holds
there by itself.

Four theorems are about progress. `EveryStepCounts` is the action property
`EachStepCounts`. `NeverWaitForEachOther` is `NeverStuck`, for every session whose
pipes hold what its window allows (`PipesHold`). If both sides wrote into full
pipes, the streams `Coming` and `Going` of `OrderInv` would hold two full pipes and
two cells more that wait to be written, more than `Window` frames have
(`NotBothFull`). If both read from empty pipes, the client would have returned all
that the server has echoed (`NothingHalfRead`), and the server echoed all that was
sent (`NothingHalfServed`), since the streams are laid out in whole frames; nothing
would be owed. `AnswersComeNearer` draws the conclusion under fairness:
while an answer is owed, an answer comes, the caller uses up one of its calls, or
fewer moves are left. Requests and calls are bounded and the moves are a natural
number, so `Answered` follows by an induction over them; that last induction is
left to TLC. `ServerComesToEnd` is the same step for `ServerLetsGo`: a server whose
client is gone ends or has fewer cells left, after at most one frame of its own.

**`WireBytesProofs`**, for every radix, number, layout and offset:
`WordRoundTrip` and `StructRoundTrip`: a word, and a struct of words with its
signed fields, is read as it was put, provided both sides use one layout that
names no field twice. They rest on `TwoDigits` (a number in two digits) and
`WordsBytes` (which byte of which word is where).

**`UrbFramesProofs`**, for every radix and payload limit: that the five layouts
of the code are layouts, and the same when put and when read
(`BasicLayout`, `VariantLayouts`); `HeaderRoundTrip`: what `encode_header`
accepts with a payload of the announced length, `decode_header` accepts and
returns, whatever follows in the buffer; `ReadersAgree`: the length and packet
count found at fixed offsets by `recv_header_inner` and `serve_urb_echo` are
those of the header.

**`WireSessionProofs`**, for every radix of five digits at least, every size of
the fields, every payload limit, and all names, replies, requests and strays:
every property that `wire_session` checks.

* `BytesAgreeWithCells`: on any bytes at all, the readers at their fixed offsets
  and `decode_header` decide as `UrbCodec` does on a header that is one cell.
  `AlwaysAgree` is that of the two streams.
* `RequestRoundTrip`, `ReplyRoundTrip`: the two import messages are read as they
  were put, whatever follows them. The proofs carry one fact per field, where
  in the message it stands.
* `AlwaysTyped`, `AlwaysIntact`: types, and that the device of a session has the
  fields of the reply. `ImportInv` says how far the import is and what exactly is
  under way at each stage, which is what excludes that a client reads an answer
  before there is one, or reads it twice.
* `AlwaysLeadsBack`: the name of a device, asked for again, is not refused by
  `import_device` and fills the field that named it; a device whose field was all
  zero, which a client takes from a foreign server, has the empty name, and that
  `import_device` and the server both refuse. `LeastNatural` takes the place of an induction: the trimmed name ends
  where the zeros begin.
* `AlwaysFramed`, `AlwaysNothingLeft`, `AlwaysCarries`, by `OrderInv`: *F* requests
  fit, the server has given *e* answers, the client has returned a prefix of
  these, `down` is laid out with the others and holds nothing else, `up` begins
  with the requests that fit and are not answered, and an answer to a request
  that fits is its echo. Behind a payload that does not fit, the server takes
  bytes of the payload for a header, so an answer there may echo nothing that
  was sent; `ReplyServed` shows that it is nevertheless a well-formed answer with
  a payload of the length it announces, which keeps the client framed.

* `ConnectionImplementsEchoService`: each step from the import on is one of
  `EchoService` or stutters, until the server ends with bytes of its own. That an
  answer has the content the queue calls for is `AlwaysCarries`; that there is
  one answer for one request, that neither a request behind a misfit nor its
  answer enters the queue, and that a session that is over stays over is shown
  here. `EchoingConnectionIsService` draws the conclusion for a server that is the
  echo throughout: `UrbSession` and `WireSession` implement one specification.

The properties under the last two points are about a session whose server has
not been replaced by another program (`server # "strayed"`); the others hold with
any server.

**`PortMocksProofs`**, for every number of threads and devices: `TypeCorrect`,
`AlwaysBoundOnce`, `RoutesAlwaysFollow` and `EventsAlwaysExplain`. The
strengthenings are `ServeLocks` (the mutex of `serving` belongs to the thread
that is shutting down), `OneServes` (a thread between the halves of a `serve`
is alone there, with the server up and the mutex free) and `ListAsInjected` (the
injections under way for a device that is not in doubt are of one kind, and the list
is as they left it). `AlwaysSomeCallReady` is `SomeCallGoesOn` with the guards of
the steps in place of `ENABLED`: who waits for `serving` waits for a thread that
waits for `routes` (`ServeLocks`), and `routes` is the last mutex any call takes, by
a thread that waits for nothing (`RoutesHeld`). `ReadyGoesOn` shows the guards to be the right ones: a call that is
ready has a next step, given variable by variable.

**Theorems of progress.** The prover does not look into `ENABLED`, and in temporal
steps takes a fairness condition for what it says: if `<<A>>` stays enabled, it
happens. The theorems of progress therefore have the form `FairSpec /\
[]NothingElseAwaited => Property`, with `GuardsEnable` for the registry. The second
hypothesis is a state predicate about `ENABLED` alone. `NothingElseAwaited` is
checked by TLC as an invariant of the same run; `GuardsEnable` follows from the
definitions of the actions, each of which gives every variable a next value where
its guard holds. The order of the steps, what stays true while
one waits, and which fairness is used where are all proved. What the prover cannot
do is induction over a bound that is a constant or a variable.

Every invariant and action property of a passing run is stated by a theorem, but
these. (The type invariants of `UrbSession` and `PortMocks` are theorems, for all
instances, and no run repeats them.) Only model-checked are:

* `SomeCallGoesOn` itself and the two `NothingElseAwaited`, which are about
  `ENABLED`;
* `Answered` and `ServerLetsGo`, which need an induction over the moves that are
  left, and with them the fairness of `EchoService`, which is the rest of
  `UrbSession`'s `ImplementsEchoService`; `ImportReturns` for other numbers of
  attempts than the code's;
* what the lossy conversion of a text computes, which is recursive: the proofs
  use only that a text is UTF-8 when the conversion leaves it as it is.

## 5. Not modelled

* `into_stream`, which hands the stream to code outside the repository.
* Cancelling a session call: no code of the repository does it.
* `Debug` and `PartialEq` of the structures; error texts.
* `MockSessionSignal` and `MockDiscovery`: values behind one mutex each, read
  and written in one critical section, with nothing to interleave.
* A client of `accept_device` that is no `import_device`, stays connected and sends
  nothing: it holds up the accept loop for as long as it likes.
* Busids with a NUL inside, which a `&str` may have: `Bytes` of `ImportHandshake` has none.
* `call_route` from within a handler, and the calls of the mocks that read one value
  under one mutex (`routes`, `list`). Of an injected device only its busid is seen:
  `inject_connect` for a busid that is in the list sends the new device and keeps
  the old one.
* `MockUsbHost::watch` called on one clone after another was taken, which
  leaves the earlier clones with the old event channel: `PortMocks` has one
  channel for all.
* Port traits: no behaviour.
* Adapters, daemon, cli and `api`: empty at this commit. The interop harness:
  scripts around foreign programs.

No composition of registry and session is modelled: at this commit nothing in
the repository connects them. `registry.rs` takes commands from whoever holds a
handle, and the daemon that would is empty.

## 6. Plan

1. Done: registry with `DeviceTable`, handshake, session with codec and
   `EchoService`, the byte level of both protocols in one connection, the
   mocks; first theorems of each.
2. Done: proofs of `EchoInOrder`, of the safety part of both refinements of
   `EchoService`, that `UrbCodec` and `UrbFrames` agree on every stream, of the
   properties of `WireSession`, and of progress: of the registry, of the import and,
   step by step, of the session.
3. When the daemon is written: a module that composes `DeviceRegistry`,
   `UrbSession` and a host, and asks what a command decided on an old snapshot
   may hit.
