------------------------------ MODULE PortMocks ------------------------------
(***************************************************************************)
(* MockIpc and MockUsbHost (port/tests/mock_ipc.rs, mock_host.rs) shared   *)
(* by several threads, each with a clone of its own.                       *)
(*                                                                         *)
(* A method is as many steps as it takes and gives back mutexes.  Where it *)
(* waits for one mutex with another in its hands, the first is modelled as *)
(* a lock with a holder, and a call that waits for it is at a place of its *)
(* own; the other mutexes are held within one step only.  The handler of a *)
(* route may call the mocks itself, once, but no route.                    *)
(*                                                                         *)
(* The clones are taken after watch(), which gives a new event channel to  *)
(* the clone it is called on and to nobody else.                           *)
(***************************************************************************)
EXTENDS Integers, FiniteSets

CONSTANTS Threads,   \* users of the mocks
          BusIds,    \* busids of the host's devices
          Nobody     \* holder of a free lock

ASSUME NobodyAssumption == Nobody \notin Threads
ASSUME BusIdsAssumption == BusIds # {}

VARIABLES
  at,          \* per thread: where its call is, "idle" outside of one
  handling,    \* per thread: "no", or in a handler that has its call "fresh" or "spent"
  bus,         \* per thread: the busid of its call
  serving,     \* MockIpc.serving
  servingLock, \* who holds its mutex
  routed,      \* MockIpc.routes is what a serve() was given, and not as new or cleared
  routesLock,  \* who holds its mutex
  devices,     \* MockUsbHost.devices
  bound,       \* MockUsbHost.bound
  grants,      \* history: per busid, bind calls that succeeded less unbind calls
  lastEvent,   \* history: per busid, the last event of the watch stream
  overlapped,  \* history: the last serve() or shutdown() came between the halves of a serve()
  doubtful     \* history: busids whose last event need not tell if the device is there

callVars == <<at, handling, bus>>
ipcVars == <<serving, servingLock, routed, routesLock, overlapped>>
hostVars == <<devices, bound, grants, lastEvent, doubtful>>
vars == <<callVars, ipcVars, hostVars>>

Places == {"idle", "serve1", "serve2", "shutdown1", "shutdown2",
           "route1", "route2", "bind2", "connect2", "disconnect2"}
Events == {"Connected", "Disconnected"}

\* The initial devices are known to whoever watches; `bus` counts within a call only.
Init ==
  /\ at = [t \in Threads |-> "idle"]
  /\ handling = [t \in Threads |-> "no"]
  /\ bus \in [Threads -> BusIds]
  /\ serving = FALSE /\ servingLock = Nobody
  /\ routed = FALSE /\ routesLock = Nobody
  /\ devices \in SUBSET BusIds /\ bound = {}
  /\ grants = [b \in BusIds |-> 0]
  /\ lastEvent = [b \in BusIds |-> IF b \in devices THEN "Connected" ELSE "Disconnected"]
  /\ overlapped = FALSE /\ doubtful = {}

-----------------------------------------------------------------------------
\* A thread begins a call, of its own or from a handler.
Begin(t) ==
  /\ at[t] = "idle" /\ handling[t] # "spent"
  /\ handling' = [handling EXCEPT ![t] = IF @ = "fresh" THEN "spent" ELSE @]

GoTo(t, place) == at' = [at EXCEPT ![t] = place]

(* MockIpc *)

HalfServed == \E t \in Threads : at[t] = "serve2"

BeginServe(t) ==
  /\ Begin(t)
  /\ GoTo(t, "serve1")
  /\ UNCHANGED <<bus, ipcVars, hostVars>>

\* serve(): the mutex of `serving` is given back before that of `routes` is taken.
Serve(t) ==
  /\ at[t] = "serve1"
  /\ servingLock = Nobody
  /\ ~serving
  /\ serving' = TRUE
  /\ GoTo(t, "serve2")
  /\ overlapped' = HalfServed
  /\ UNCHANGED <<handling, bus, servingLock, routed, routesLock, hostVars>>

AlreadyServing(t) ==
  /\ at[t] = "serve1"
  /\ servingLock = Nobody
  /\ serving
  /\ GoTo(t, "idle")
  /\ UNCHANGED <<handling, bus, ipcVars, hostVars>>

\* The routes may be an empty map: RouteNotFound asks nothing of them.
ServeRoutes(t) ==
  /\ at[t] = "serve2"
  /\ routesLock = Nobody
  /\ routed' = TRUE
  /\ GoTo(t, "idle")
  /\ UNCHANGED <<handling, bus, serving, servingLock, routesLock, overlapped, hostVars>>

BeginShutdown(t) ==
  /\ Begin(t)
  /\ GoTo(t, "shutdown1")
  /\ UNCHANGED <<bus, ipcVars, hostVars>>

\* shutdown(): `serving` stays locked until the routes are cleared.
Shutdown(t) ==
  /\ at[t] = "shutdown1"
  /\ servingLock = Nobody
  /\ serving
  /\ serving' = FALSE
  /\ servingLock' = t
  /\ GoTo(t, "shutdown2")
  /\ overlapped' = HalfServed
  /\ UNCHANGED <<handling, bus, routed, routesLock, hostVars>>

NotServing(t) ==
  /\ at[t] = "shutdown1"
  /\ servingLock = Nobody
  /\ ~serving
  /\ GoTo(t, "idle")
  /\ UNCHANGED <<handling, bus, ipcVars, hostVars>>

\* A plausible bug: the routes are left for the next serve() to replace.
ClearRoutesLater(t) ==
  /\ at[t] = "shutdown2"
  /\ servingLock' = Nobody
  /\ GoTo(t, "idle")
  /\ UNCHANGED <<handling, bus, serving, routed, routesLock, overlapped, hostVars>>

ClearRoutes(t) ==
  /\ at[t] = "shutdown2"
  /\ routesLock = Nobody
  /\ routed' = FALSE
  /\ servingLock' = Nobody
  /\ GoTo(t, "idle")
  /\ UNCHANGED <<handling, bus, serving, routesLock, overlapped, hostVars>>

BeginCallRoute(t) ==
  /\ at[t] = "idle" /\ handling[t] = "no"
  /\ GoTo(t, "route1")
  /\ UNCHANGED <<handling, bus, ipcVars, hostVars>>

\* call_route(): look the route up and clone its handler.
CallRoute(t) ==
  /\ at[t] = "route1"
  /\ routesLock = Nobody
  /\ routed
  /\ routesLock' = t
  /\ GoTo(t, "route2")
  /\ UNCHANGED <<handling, bus, serving, servingLock, routed, overlapped, hostVars>>

\* The path is none of those in the map.
RouteNotFound(t) ==
  /\ at[t] = "route1"
  /\ routesLock = Nobody
  /\ GoTo(t, "idle")
  /\ UNCHANGED <<handling, bus, ipcVars, hostVars>>

\* A plausible bug: the handler runs before the routes are unlocked.
RunHandlerLocked(t) ==
  /\ at[t] = "route2"
  /\ GoTo(t, "idle")
  /\ handling' = [handling EXCEPT ![t] = "fresh"]
  /\ UNCHANGED <<bus, ipcVars, hostVars>>

\* drop(routes), then block_on(handler(body)).
RunHandler(t) ==
  /\ at[t] = "route2"
  /\ routesLock' = Nobody
  /\ GoTo(t, "idle")
  /\ handling' = [handling EXCEPT ![t] = "fresh"]
  /\ UNCHANGED <<bus, serving, servingLock, routed, overlapped, hostVars>>

HandlerReturns(t) ==
  /\ at[t] = "idle" /\ handling[t] # "no"
  /\ handling' = [handling EXCEPT ![t] = "no"]
  /\ UNCHANGED <<at, bus, ipcVars, hostVars>>

-----------------------------------------------------------------------------
(* MockUsbHost *)

\* bind(): the device is there; then the mutex of `devices` is given back.
Bind(t, b) ==
  /\ Begin(t)
  /\ b \in devices
  /\ GoTo(t, "bind2")
  /\ bus' = [bus EXCEPT ![t] = b]
  /\ UNCHANGED <<ipcVars, hostVars>>

DeviceNotFound(t, b) ==
  /\ Begin(t)
  /\ b \notin devices
  /\ UNCHANGED <<at, bus, ipcVars, hostVars>>

\* A plausible bug: `bound` was looked at together with `devices`.
BindBoundUnchecked(t) ==
  /\ at[t] = "bind2"
  /\ bound' = bound \cup {bus[t]}
  /\ grants' = [grants EXCEPT ![bus[t]] = @ + 1]
  /\ GoTo(t, "idle")
  /\ UNCHANGED <<handling, bus, ipcVars, devices, lastEvent, doubtful>>

BindBound(t) ==
  /\ at[t] = "bind2"
  /\ bus[t] \notin bound
  /\ bound' = bound \cup {bus[t]}
  /\ grants' = [grants EXCEPT ![bus[t]] = @ + 1]
  /\ GoTo(t, "idle")
  /\ UNCHANGED <<handling, bus, ipcVars, devices, lastEvent, doubtful>>

DeviceInUse(t) ==
  /\ at[t] = "bind2"
  /\ bus[t] \in bound
  /\ GoTo(t, "idle")
  /\ UNCHANGED <<handling, bus, ipcVars, hostVars>>

\* unbind(): by any clone, whether or not the device is still there.
Unbind(t, b) ==
  /\ Begin(t)
  /\ b \in bound
  /\ bound' = bound \ {b}
  /\ grants' = [grants EXCEPT ![b] = @ - 1]
  /\ UNCHANGED <<at, bus, ipcVars, devices, lastEvent, doubtful>>

NotBound(t, b) ==
  /\ Begin(t)
  /\ b \notin bound
  /\ UNCHANGED <<at, bus, ipcVars, hostVars>>

Injecting(b, half) == \E t \in Threads : at[t] = half /\ bus[t] = b

UnderWay(b) == Injecting(b, "connect2") \/ Injecting(b, "disconnect2")

\* An injection for b begins.  When one of the `other` kind has not sent its event, whose
\* event comes last is open.  One that begins alone puts list and events in step again.
Doubt(b, other) ==
  CASE Injecting(b, other) -> doubtful \cup {b}
    [] ~UnderWay(b)        -> doubtful \ {b}
    [] OTHER               -> doubtful

\* inject_connect() and inject_disconnect(): the list first, then the event.
InjectConnect(t, b) ==
  /\ Begin(t)
  /\ devices' = devices \cup {b}
  /\ GoTo(t, "connect2")
  /\ bus' = [bus EXCEPT ![t] = b]
  /\ doubtful' = Doubt(b, "disconnect2")
  /\ UNCHANGED <<ipcVars, bound, grants, lastEvent>>

\* A plausible bug: a device in use stays in the list.
InjectDisconnectUnused(t, b) ==
  /\ Begin(t)
  /\ devices' = devices \ ({b} \ bound)
  /\ GoTo(t, "disconnect2")
  /\ bus' = [bus EXCEPT ![t] = b]
  /\ doubtful' = Doubt(b, "connect2")
  /\ UNCHANGED <<ipcVars, bound, grants, lastEvent>>

\* It leaves `bound` alone.
InjectDisconnect(t, b) ==
  /\ Begin(t)
  /\ devices' = devices \ {b}
  /\ GoTo(t, "disconnect2")
  /\ bus' = [bus EXCEPT ![t] = b]
  /\ doubtful' = Doubt(b, "connect2")
  /\ UNCHANGED <<ipcVars, bound, grants, lastEvent>>

SendEvent(t) ==
  /\ at[t] \in {"connect2", "disconnect2"}
  /\ lastEvent' = [lastEvent EXCEPT ![bus[t]] =
                     IF at[t] = "connect2" THEN "Connected" ELSE "Disconnected"]
  /\ GoTo(t, "idle")
  /\ UNCHANGED <<handling, bus, ipcVars, devices, bound, grants, doubtful>>

\* inject_event(), by itself: any event, and the list is left alone.  An injection under
\* way will send the last word; otherwise this is it.
InjectEvent(t, b, event) ==
  /\ Begin(t)
  /\ lastEvent' = [lastEvent EXCEPT ![b] = event]
  /\ doubtful' = IF UnderWay(b) THEN doubtful ELSE doubtful \cup {b}
  /\ UNCHANGED <<at, bus, ipcVars, devices, bound, grants>>

-----------------------------------------------------------------------------
Call(t) ==
  \/ BeginServe(t) \/ BeginShutdown(t) \/ BeginCallRoute(t)
  \/ \E b \in BusIds :
       \/ Bind(t, b) \/ DeviceNotFound(t, b)
       \/ Unbind(t, b) \/ NotBound(t, b)
       \/ InjectConnect(t, b) \/ InjectDisconnect(t, b)
       \/ \E event \in Events : InjectEvent(t, b, event)

GoOn(t) ==
  \/ Serve(t) \/ AlreadyServing(t) \/ ServeRoutes(t)
  \/ Shutdown(t) \/ NotServing(t) \/ ClearRoutes(t)
  \/ CallRoute(t) \/ RouteNotFound(t)
  \/ RunHandler(t) \/ HandlerReturns(t)
  \/ BindBound(t) \/ DeviceInUse(t) \/ SendEvent(t)

Next == \E t \in Threads : Call(t) \/ GoOn(t)

Spec == Init /\ [][Next]_vars

-----------------------------------------------------------------------------
(* Properties *)

TypeOK ==
  /\ at \in [Threads -> Places]
  /\ handling \in [Threads -> {"no", "fresh", "spent"}]
  /\ bus \in [Threads -> BusIds]
  /\ serving \in BOOLEAN /\ routed \in BOOLEAN /\ overlapped \in BOOLEAN
  /\ servingLock \in Threads \cup {Nobody} /\ routesLock \in Threads \cup {Nobody}
  /\ devices \subseteq BusIds /\ bound \subseteq BusIds /\ doubtful \subseteq BusIds
  /\ grants \in [BusIds -> 0 .. 1]
  /\ lastEvent \in [BusIds -> Events]

\* Of all the bind() calls for a device, from however many threads, one holds
\* it at a time, although the two conditions are checked under two mutexes.
BoundOnce == \A b \in BusIds : grants[b] = IF b \in bound THEN 1 ELSE 0

\* A server that is down answers no route and one that is up has its routes, once every
\* serve() and shutdown() is over, unless the last to come in came between the halves of a
\* serve(): then, and no longer than to the next, routes may be left of a server that is down.
RoutesFollowServing ==
  ~overlapped /\ (\A t \in Threads : at[t] \notin {"serve2", "shutdown2"}) =>
    (routed <=> serving)

\* Who follows the events knows the devices list() returns.  When an event was sent alone
\* or injections of both kinds ran into each other, what the last event says is open; once
\* an injection begins alone its event tells, whatever was sent or left undone before.
EventsExplainDevices ==
  \A b \in BusIds \ doubtful :
    ~UnderWay(b) => (lastEvent[b] = "Connected" <=> b \in devices)

Busy(t) == at[t] # "idle" \/ handling[t] # "no"

\* The calls under way never all wait for mutexes, not for those of each other
\* and not, when a handler calls the mock that runs it, for their own.
SomeCallGoesOn ==
  (\E t \in Threads : Busy(t)) => \E t \in Threads : ENABLED GoOn(t)
=============================================================================
