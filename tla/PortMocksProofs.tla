--------------------------- MODULE PortMocksProofs ---------------------------
(***************************************************************************)
(* Safety of the port mocks, for any number of threads and of devices.     *)
(***************************************************************************)
EXTENDS PortMocks, TLAPS

\* The actions of a step.
LEMMA NextActions ==
  ASSUME Next
  PROVE  \E t \in Threads :
           \/ BeginServe(t) \/ BeginShutdown(t) \/ BeginCallRoute(t)
           \/ \E b \in BusIds :
                \/ Bind(t, b) \/ DeviceNotFound(t, b)
                \/ Unbind(t, b) \/ NotBound(t, b)
                \/ InjectConnect(t, b) \/ InjectDisconnect(t, b)
                \/ \E event \in Events : InjectEvent(t, b, event)
           \/ Serve(t) \/ AlreadyServing(t) \/ ServeRoutes(t)
           \/ Shutdown(t) \/ NotServing(t) \/ ClearRoutes(t)
           \/ CallRoute(t) \/ RouteNotFound(t)
           \/ RunHandler(t) \/ HandlerReturns(t)
           \/ BindBound(t) \/ DeviceInUse(t) \/ SendEvent(t)
BY DEF Next, Call, GoOn

-----------------------------------------------------------------------------
(* Types, and who holds a device.  That no more than one bind() call holds *)
(* a device is part of both, so one invariant carries them.                *)

BindInv == TypeOK /\ BoundOnce

LEMMA InitTypeOK == Init => TypeOK
<1> SUFFICES ASSUME Init PROVE TypeOK
  OBVIOUS
<1>1. at \in [Threads -> Places] /\ handling \in [Threads -> {"no", "fresh", "spent"}]
  BY DEF Init, Places
<1>2. bus \in [Threads -> BusIds]
  BY DEF Init
<1>3. grants \in [BusIds -> 0 .. 1] /\ lastEvent \in [BusIds -> Events]
  BY DEF Init, Events
<1>4. /\ serving \in BOOLEAN /\ routed \in BOOLEAN /\ overlapped \in BOOLEAN
      /\ servingLock \in Threads \cup {Nobody} /\ routesLock \in Threads \cup {Nobody}
      /\ devices \subseteq BusIds /\ bound \subseteq BusIds /\ doubtful \subseteq BusIds
  BY DEF Init
<1> QED BY <1>1, <1>2, <1>3, <1>4 DEF TypeOK

LEMMA BindInvariant == Spec => []BindInv
<1>1. Init => BindInv
  <2>1. Init => BoundOnce
    BY DEF Init, BoundOnce
  <2> QED BY <2>1, InitTypeOK DEF BindInv
<1>2. BindInv /\ [Next]_vars => BindInv'
  <2> SUFFICES ASSUME BindInv, [Next]_vars PROVE BindInv'
    OBVIOUS
  <2> USE DEF BindInv, TypeOK, BoundOnce, Places, Events,
             callVars, ipcVars, hostVars, Begin, GoTo, HalfServed, Doubt
  <2>1. ASSUME NEW t \in Threads, BeginServe(t) PROVE BindInv'
    BY <2>1 DEF BeginServe
  <2>2. ASSUME NEW t \in Threads, BeginShutdown(t) PROVE BindInv'
    BY <2>2 DEF BeginShutdown
  <2>3. ASSUME NEW t \in Threads, BeginCallRoute(t) PROVE BindInv'
    BY <2>3 DEF BeginCallRoute
  <2>4. ASSUME NEW t \in Threads, Serve(t) PROVE BindInv'
    BY <2>4 DEF Serve
  <2>5. ASSUME NEW t \in Threads, AlreadyServing(t) PROVE BindInv'
    BY <2>5 DEF AlreadyServing
  <2>6. ASSUME NEW t \in Threads, ServeRoutes(t) PROVE BindInv'
    BY <2>6 DEF ServeRoutes
  <2>7. ASSUME NEW t \in Threads, Shutdown(t) PROVE BindInv'
    BY <2>7 DEF Shutdown
  <2>8. ASSUME NEW t \in Threads, NotServing(t) PROVE BindInv'
    BY <2>8 DEF NotServing
  <2>9. ASSUME NEW t \in Threads, ClearRoutes(t) PROVE BindInv'
    BY <2>9 DEF ClearRoutes
  <2>10. ASSUME NEW t \in Threads, CallRoute(t) PROVE BindInv'
    BY <2>10 DEF CallRoute
  <2>11. ASSUME NEW t \in Threads, RouteNotFound(t) PROVE BindInv'
    BY <2>11 DEF RouteNotFound
  <2>12. ASSUME NEW t \in Threads, RunHandler(t) PROVE BindInv'
    BY <2>12 DEF RunHandler
  <2>13. ASSUME NEW t \in Threads, HandlerReturns(t) PROVE BindInv'
    BY <2>13 DEF HandlerReturns
  <2>14. ASSUME NEW t \in Threads, BindBound(t) PROVE BindInv'
    BY <2>14 DEF BindBound
  <2>15. ASSUME NEW t \in Threads, DeviceInUse(t) PROVE BindInv'
    BY <2>15 DEF DeviceInUse
  <2>16. ASSUME NEW t \in Threads, SendEvent(t) PROVE BindInv'
    BY <2>16 DEF SendEvent
  <2>17. ASSUME NEW t \in Threads, NEW b \in BusIds, Bind(t, b) PROVE BindInv'
    BY <2>17 DEF Bind
  <2>18. ASSUME NEW t \in Threads, NEW b \in BusIds, DeviceNotFound(t, b) PROVE BindInv'
    BY <2>18 DEF DeviceNotFound
  <2>19. ASSUME NEW t \in Threads, NEW b \in BusIds, Unbind(t, b) PROVE BindInv'
    BY <2>19 DEF Unbind
  <2>20. ASSUME NEW t \in Threads, NEW b \in BusIds, NotBound(t, b) PROVE BindInv'
    BY <2>20 DEF NotBound
  <2>21. ASSUME NEW t \in Threads, NEW b \in BusIds, InjectConnect(t, b) PROVE BindInv'
    BY <2>21 DEF InjectConnect
  <2>22. ASSUME NEW t \in Threads, NEW b \in BusIds, InjectDisconnect(t, b) PROVE BindInv'
    BY <2>22 DEF InjectDisconnect
  <2>23. ASSUME NEW t \in Threads, NEW b \in BusIds, NEW event \in Events, InjectEvent(t, b, event)
         PROVE  BindInv'
    BY <2>23 DEF InjectEvent
  <2>24. CASE UNCHANGED vars
    BY <2>24 DEF vars
  <2> QED
    BY <2>1, <2>2, <2>3, <2>4, <2>5, <2>6, <2>7, <2>8, <2>9, <2>10, <2>11, <2>12,
       <2>13, <2>14, <2>15, <2>16, <2>17, <2>18, <2>19, <2>20, <2>21, <2>22, <2>23, <2>24, NextActions
<1> QED BY <1>1, <1>2, PTL DEF Spec

\* Every reachable state of the mocks is well typed, whatever the threads call.
THEOREM TypeCorrect == Spec => []TypeOK
BY BindInvariant, PTL DEF BindInv

\* bind() looks at `devices` and at `bound` under two mutexes, and still one of the
\* calls for a device holds it, however many threads bind and unbind.
THEOREM AlwaysBoundOnce == Spec => []BoundOnce
BY BindInvariant, PTL DEF BindInv

-----------------------------------------------------------------------------
(* Serving and routes.  The mutex of `serving` is held by the thread that *)
(* is shutting down, and while a serve() is not overlapped the thread      *)
(* between its halves is the only one, with the server up and the mutex    *)
(* free.                                                                   *)

ServeLocks ==
  /\ \A t \in Threads : servingLock = t <=> at[t] = "shutdown2"
  /\ servingLock # Nobody => ~serving

OneServes ==
  ~overlapped => \A t \in Threads : at[t] = "serve2" =>
    /\ serving /\ servingLock = Nobody
    /\ \A u \in Threads : at[u] = "serve2" => u = t

ServeInv == TypeOK /\ ServeLocks /\ OneServes /\ RoutesFollowServing

LEMMA ServeInvariant == Spec => []ServeInv
<1>1. Init => ServeInv
  <2>1. Init => ServeLocks /\ OneServes /\ RoutesFollowServing
    BY NobodyAssumption DEF Init, ServeLocks, OneServes, RoutesFollowServing
  <2> QED BY <2>1, InitTypeOK DEF ServeInv
<1>2. ServeInv /\ TypeOK' /\ [Next]_vars => ServeInv'
  <2> SUFFICES ASSUME ServeInv, TypeOK', [Next]_vars PROVE ServeInv'
    OBVIOUS
  <2> USE DEF ServeInv, TypeOK, ServeLocks, OneServes, RoutesFollowServing,
             callVars, ipcVars, hostVars, Begin, GoTo, HalfServed
  <2>1. ASSUME NEW t \in Threads, BeginServe(t) PROVE ServeInv'
    BY NobodyAssumption, <2>1 DEF BeginServe
  <2>2. ASSUME NEW t \in Threads, BeginShutdown(t) PROVE ServeInv'
    BY NobodyAssumption, <2>2 DEF BeginShutdown
  <2>3. ASSUME NEW t \in Threads, BeginCallRoute(t) PROVE ServeInv'
    BY NobodyAssumption, <2>3 DEF BeginCallRoute
  <2>4. ASSUME NEW t \in Threads, Serve(t) PROVE ServeInv'
    BY NobodyAssumption, <2>4 DEF Serve
  <2>5. ASSUME NEW t \in Threads, AlreadyServing(t) PROVE ServeInv'
    BY NobodyAssumption, <2>5 DEF AlreadyServing
  <2>6. ASSUME NEW t \in Threads, ServeRoutes(t) PROVE ServeInv'
    BY NobodyAssumption, <2>6 DEF ServeRoutes
  <2>7. ASSUME NEW t \in Threads, Shutdown(t) PROVE ServeInv'
    BY NobodyAssumption, <2>7 DEF Shutdown
  <2>8. ASSUME NEW t \in Threads, NotServing(t) PROVE ServeInv'
    BY NobodyAssumption, <2>8 DEF NotServing
  <2>9. ASSUME NEW t \in Threads, ClearRoutes(t) PROVE ServeInv'
    BY NobodyAssumption, <2>9 DEF ClearRoutes
  <2>10. ASSUME NEW t \in Threads, CallRoute(t) PROVE ServeInv'
    BY NobodyAssumption, <2>10 DEF CallRoute
  <2>11. ASSUME NEW t \in Threads, RouteNotFound(t) PROVE ServeInv'
    BY NobodyAssumption, <2>11 DEF RouteNotFound
  <2>12. ASSUME NEW t \in Threads, RunHandler(t) PROVE ServeInv'
    BY NobodyAssumption, <2>12 DEF RunHandler
  <2>13. ASSUME NEW t \in Threads, HandlerReturns(t) PROVE ServeInv'
    BY NobodyAssumption, <2>13 DEF HandlerReturns
  <2>14. ASSUME NEW t \in Threads, BindBound(t) PROVE ServeInv'
    BY NobodyAssumption, <2>14 DEF BindBound
  <2>15. ASSUME NEW t \in Threads, DeviceInUse(t) PROVE ServeInv'
    BY NobodyAssumption, <2>15 DEF DeviceInUse
  <2>16. ASSUME NEW t \in Threads, SendEvent(t) PROVE ServeInv'
    BY NobodyAssumption, <2>16 DEF SendEvent
  <2>17. ASSUME NEW t \in Threads, NEW b \in BusIds, Bind(t, b) PROVE ServeInv'
    BY NobodyAssumption, <2>17 DEF Bind
  <2>18. ASSUME NEW t \in Threads, NEW b \in BusIds, DeviceNotFound(t, b) PROVE ServeInv'
    BY NobodyAssumption, <2>18 DEF DeviceNotFound
  <2>19. ASSUME NEW t \in Threads, NEW b \in BusIds, Unbind(t, b) PROVE ServeInv'
    BY NobodyAssumption, <2>19 DEF Unbind
  <2>20. ASSUME NEW t \in Threads, NEW b \in BusIds, NotBound(t, b) PROVE ServeInv'
    BY NobodyAssumption, <2>20 DEF NotBound
  <2>21. ASSUME NEW t \in Threads, NEW b \in BusIds, InjectConnect(t, b) PROVE ServeInv'
    BY NobodyAssumption, <2>21 DEF InjectConnect
  <2>22. ASSUME NEW t \in Threads, NEW b \in BusIds, InjectDisconnect(t, b) PROVE ServeInv'
    BY NobodyAssumption, <2>22 DEF InjectDisconnect
  <2>23. ASSUME NEW t \in Threads, NEW b \in BusIds, NEW event \in Events, InjectEvent(t, b, event)
         PROVE  ServeInv'
    BY NobodyAssumption, <2>23 DEF InjectEvent
  <2>24. CASE UNCHANGED vars
    BY <2>24 DEF vars
  <2> QED
    BY <2>1, <2>2, <2>3, <2>4, <2>5, <2>6, <2>7, <2>8, <2>9, <2>10, <2>11, <2>12,
       <2>13, <2>14, <2>15, <2>16, <2>17, <2>18, <2>19, <2>20, <2>21, <2>22, <2>23, <2>24, NextActions
<1> QED BY <1>1, <1>2, TypeCorrect, PTL DEF Spec

\* serve() gives back the mutex of `serving` before it takes that of `routes`: unless the last serve() or
\* shutdown() came in between, the routes are there when the server is up and gone when it is down.
THEOREM RoutesAlwaysFollow == Spec => []RoutesFollowServing
BY ServeInvariant, PTL DEF ServeInv

-----------------------------------------------------------------------------
(* Devices and events.  Unless the busid is in doubt, all injections for   *)
(* it that are under way are of one kind, and the list is as they left it. *)

ListAsInjected ==
  \A b \in BusIds \ doubtful : \A t \in Threads :
    at[t] \in {"connect2", "disconnect2"} /\ bus[t] = b => (b \in devices <=> at[t] = "connect2")

EventInv == TypeOK /\ ListAsInjected /\ EventsExplainDevices

LEMMA EventInvariant == Spec => []EventInv
<1>1. Init => EventInv
  <2>1. Init => ListAsInjected
    BY DEF Init, ListAsInjected
  <2>2. Init => EventsExplainDevices
    BY DEF Init, EventsExplainDevices
  <2> QED BY <2>1, <2>2, InitTypeOK DEF EventInv
<1>2. EventInv /\ TypeOK' /\ [Next]_vars => EventInv'
  <2> SUFFICES ASSUME EventInv, TypeOK', [Next]_vars PROVE EventInv'
    OBVIOUS
  <2> USE DEF EventInv, TypeOK, ListAsInjected, Injecting, UnderWay, EventsExplainDevices, Events,
             callVars, ipcVars, hostVars, Begin, GoTo, Doubt
  <2>1. ASSUME NEW t \in Threads, BeginServe(t) PROVE EventInv'
    BY <2>1 DEF BeginServe
  <2>2. ASSUME NEW t \in Threads, BeginShutdown(t) PROVE EventInv'
    BY <2>2 DEF BeginShutdown
  <2>3. ASSUME NEW t \in Threads, BeginCallRoute(t) PROVE EventInv'
    BY <2>3 DEF BeginCallRoute
  <2>4. ASSUME NEW t \in Threads, Serve(t) PROVE EventInv'
    BY <2>4 DEF Serve
  <2>5. ASSUME NEW t \in Threads, AlreadyServing(t) PROVE EventInv'
    BY <2>5 DEF AlreadyServing
  <2>6. ASSUME NEW t \in Threads, ServeRoutes(t) PROVE EventInv'
    BY <2>6 DEF ServeRoutes
  <2>7. ASSUME NEW t \in Threads, Shutdown(t) PROVE EventInv'
    BY <2>7 DEF Shutdown
  <2>8. ASSUME NEW t \in Threads, NotServing(t) PROVE EventInv'
    BY <2>8 DEF NotServing
  <2>9. ASSUME NEW t \in Threads, ClearRoutes(t) PROVE EventInv'
    BY <2>9 DEF ClearRoutes
  <2>10. ASSUME NEW t \in Threads, CallRoute(t) PROVE EventInv'
    BY <2>10 DEF CallRoute
  <2>11. ASSUME NEW t \in Threads, RouteNotFound(t) PROVE EventInv'
    BY <2>11 DEF RouteNotFound
  <2>12. ASSUME NEW t \in Threads, RunHandler(t) PROVE EventInv'
    BY <2>12 DEF RunHandler
  <2>13. ASSUME NEW t \in Threads, HandlerReturns(t) PROVE EventInv'
    BY <2>13 DEF HandlerReturns
  <2>14. ASSUME NEW t \in Threads, BindBound(t) PROVE EventInv'
    BY <2>14 DEF BindBound
  <2>15. ASSUME NEW t \in Threads, DeviceInUse(t) PROVE EventInv'
    BY <2>15 DEF DeviceInUse
  <2>16. ASSUME NEW t \in Threads, SendEvent(t) PROVE EventInv'
    BY <2>16 DEF SendEvent
  <2>17. ASSUME NEW t \in Threads, NEW b \in BusIds, Bind(t, b) PROVE EventInv'
    BY <2>17 DEF Bind
  <2>18. ASSUME NEW t \in Threads, NEW b \in BusIds, DeviceNotFound(t, b) PROVE EventInv'
    BY <2>18 DEF DeviceNotFound
  <2>19. ASSUME NEW t \in Threads, NEW b \in BusIds, Unbind(t, b) PROVE EventInv'
    BY <2>19 DEF Unbind
  <2>20. ASSUME NEW t \in Threads, NEW b \in BusIds, NotBound(t, b) PROVE EventInv'
    BY <2>20 DEF NotBound
  <2>21. ASSUME NEW t \in Threads, NEW b \in BusIds, InjectConnect(t, b) PROVE EventInv'
    BY <2>21 DEF InjectConnect
  <2>22. ASSUME NEW t \in Threads, NEW b \in BusIds, InjectDisconnect(t, b) PROVE EventInv'
    BY <2>22 DEF InjectDisconnect
  <2>23. ASSUME NEW t \in Threads, NEW b \in BusIds, NEW event \in Events, InjectEvent(t, b, event)
         PROVE  EventInv'
    BY <2>23 DEF InjectEvent
  <2>24. CASE UNCHANGED vars
    BY <2>24 DEF vars
  <2> QED
    BY <2>1, <2>2, <2>3, <2>4, <2>5, <2>6, <2>7, <2>8, <2>9, <2>10, <2>11, <2>12,
       <2>13, <2>14, <2>15, <2>16, <2>17, <2>18, <2>19, <2>20, <2>21, <2>22, <2>23, <2>24, NextActions
<1> QED BY <1>1, <1>2, TypeCorrect, PTL DEF Spec

\* inject_connect() and inject_disconnect() change the list and then send the event, and anybody
\* may call inject_event(): from an injection that begins alone until an event is sent by itself or
\* injections of both kinds meet, the last event for a busid says whether list() returns it.
THEOREM EventsAlwaysExplain == Spec => []EventsExplainDevices
BY EventInvariant, PTL DEF EventInv

-----------------------------------------------------------------------------
(* Nobody waits for ever.  `routes` is the last mutex any call takes: who  *)
(* holds it has looked a route up and waits for nothing, and a handler is  *)
(* run after it is given back; who holds `serving` waits for `routes`      *)
(* alone.  Whether a step is enabled is said without ENABLED: Ready is its *)
(* guard, Moves gives every variable its next value.                       *)

RoutesHeld == \A t \in Threads : routesLock = t <=> at[t] = "route2"

\* The call of t waits for no mutex that somebody holds.
Ready(t) ==
  \/ at[t] \in {"serve1", "shutdown1"} /\ servingLock = Nobody
  \/ at[t] \in {"serve2", "shutdown2", "route1"} /\ routesLock = Nobody
  \/ at[t] \in {"route2", "bind2", "connect2", "disconnect2"}
  \/ at[t] = "idle" /\ handling[t] # "no"

SomeCallReady == (\E t \in Threads : Busy(t)) => \E t \in Threads : Ready(t)

\* What the next step of t's call makes of each variable; a route that is looked up is not found.
Moves(t) ==
  /\ at' = [at EXCEPT ![t] = CASE @ = "serve1" /\ ~serving   -> "serve2"
                              [] @ = "shutdown1" /\ serving -> "shutdown2"
                              [] OTHER                      -> "idle"]
  /\ handling' = CASE at[t] = "route2" -> [handling EXCEPT ![t] = "fresh"]
                   [] at[t] = "idle"   -> [handling EXCEPT ![t] = "no"]
                   [] OTHER            -> handling
  /\ serving' = CASE at[t] = "serve1"    -> TRUE
                  [] at[t] = "shutdown1" -> FALSE
                  [] OTHER               -> serving
  /\ servingLock' = CASE at[t] = "shutdown1" /\ serving -> t
                      [] at[t] = "shutdown2"            -> Nobody
                      [] OTHER                          -> servingLock
  /\ overlapped' = CASE at[t] = "serve1" /\ ~serving   -> HalfServed
                     [] at[t] = "shutdown1" /\ serving -> HalfServed
                     [] OTHER                          -> overlapped
  /\ routed' = CASE at[t] = "serve2"    -> TRUE
                 [] at[t] = "shutdown2" -> FALSE
                 [] OTHER               -> routed
  /\ routesLock' = IF at[t] = "route2" THEN Nobody ELSE routesLock
  /\ bound' = IF at[t] = "bind2" THEN bound \cup {bus[t]} ELSE bound
  /\ grants' = IF at[t] = "bind2" /\ bus[t] \notin bound
                 THEN [grants EXCEPT ![bus[t]] = @ + 1] ELSE grants
  /\ lastEvent' = CASE at[t] = "connect2"    -> [lastEvent EXCEPT ![bus[t]] = "Connected"]
                    [] at[t] = "disconnect2" -> [lastEvent EXCEPT ![bus[t]] = "Disconnected"]
                    [] OTHER                 -> lastEvent
  /\ UNCHANGED <<bus, devices, doubtful>>

\* A call that is ready has a next step: for t ready, the step that Moves describes is one of GoOn.
THEOREM ReadyGoesOn ==
  ASSUME TypeOK, NEW t \in Threads, Ready(t), Moves(t)
  PROVE  GoOn(t)
<1> USE DEF Ready, Moves, TypeOK, Places, GoOn, GoTo, callVars, ipcVars, hostVars
<1>1. CASE at[t] = "serve1"
  BY <1>1 DEF Serve, AlreadyServing
<1>2. CASE at[t] = "serve2"
  BY <1>2 DEF ServeRoutes
<1>3. CASE at[t] = "shutdown1"
  BY <1>3 DEF Shutdown, NotServing
<1>4. CASE at[t] = "shutdown2"
  BY <1>4 DEF ClearRoutes
<1>5. CASE at[t] = "route1"
  BY <1>5 DEF RouteNotFound
<1>6. CASE at[t] = "route2"
  BY <1>6 DEF RunHandler
<1>7. CASE at[t] = "bind2"
  BY <1>7 DEF BindBound, DeviceInUse
<1>8. CASE at[t] = "connect2"
  BY <1>8 DEF SendEvent
<1>9. CASE at[t] = "disconnect2"
  BY <1>9 DEF SendEvent
<1>10. CASE at[t] = "idle"
  BY <1>10 DEF HandlerReturns
<1> QED BY <1>1, <1>2, <1>3, <1>4, <1>5, <1>6, <1>7, <1>8, <1>9, <1>10

LEMMA RoutesInvariant == Spec => [](TypeOK /\ RoutesHeld)
<1>1. Init => RoutesHeld
  BY NobodyAssumption DEF Init, RoutesHeld
<1>2. RoutesHeld /\ TypeOK /\ [Next]_vars => RoutesHeld'
  <2> SUFFICES ASSUME RoutesHeld, TypeOK, [Next]_vars PROVE RoutesHeld'
    OBVIOUS
  <2> USE NobodyAssumption
      DEF TypeOK, RoutesHeld, callVars, ipcVars, hostVars, Begin, GoTo
  <2>1. ASSUME NEW t \in Threads, BeginServe(t) PROVE RoutesHeld'
    BY <2>1 DEF BeginServe
  <2>2. ASSUME NEW t \in Threads, BeginShutdown(t) PROVE RoutesHeld'
    BY <2>2 DEF BeginShutdown
  <2>3. ASSUME NEW t \in Threads, BeginCallRoute(t) PROVE RoutesHeld'
    BY <2>3 DEF BeginCallRoute
  <2>4. ASSUME NEW t \in Threads, Serve(t) PROVE RoutesHeld'
    BY <2>4 DEF Serve
  <2>5. ASSUME NEW t \in Threads, AlreadyServing(t) PROVE RoutesHeld'
    BY <2>5 DEF AlreadyServing
  <2>6. ASSUME NEW t \in Threads, ServeRoutes(t) PROVE RoutesHeld'
    BY <2>6 DEF ServeRoutes
  <2>7. ASSUME NEW t \in Threads, Shutdown(t) PROVE RoutesHeld'
    BY <2>7 DEF Shutdown
  <2>8. ASSUME NEW t \in Threads, NotServing(t) PROVE RoutesHeld'
    BY <2>8 DEF NotServing
  <2>9. ASSUME NEW t \in Threads, ClearRoutes(t) PROVE RoutesHeld'
    BY <2>9 DEF ClearRoutes
  <2>10. ASSUME NEW t \in Threads, CallRoute(t) PROVE RoutesHeld'
    BY <2>10 DEF CallRoute
  <2>11. ASSUME NEW t \in Threads, RouteNotFound(t) PROVE RoutesHeld'
    BY <2>11 DEF RouteNotFound
  <2>12. ASSUME NEW t \in Threads, RunHandler(t) PROVE RoutesHeld'
    BY <2>12 DEF RunHandler
  <2>13. ASSUME NEW t \in Threads, HandlerReturns(t) PROVE RoutesHeld'
    BY <2>13 DEF HandlerReturns
  <2>14. ASSUME NEW t \in Threads, BindBound(t) PROVE RoutesHeld'
    BY <2>14 DEF BindBound
  <2>15. ASSUME NEW t \in Threads, DeviceInUse(t) PROVE RoutesHeld'
    BY <2>15 DEF DeviceInUse
  <2>16. ASSUME NEW t \in Threads, SendEvent(t) PROVE RoutesHeld'
    BY <2>16 DEF SendEvent
  <2>17. ASSUME NEW t \in Threads, NEW b \in BusIds, Bind(t, b) PROVE RoutesHeld'
    BY <2>17 DEF Bind
  <2>18. ASSUME NEW t \in Threads, NEW b \in BusIds, DeviceNotFound(t, b) PROVE RoutesHeld'
    BY <2>18 DEF DeviceNotFound
  <2>19. ASSUME NEW t \in Threads, NEW b \in BusIds, Unbind(t, b) PROVE RoutesHeld'
    BY <2>19 DEF Unbind
  <2>20. ASSUME NEW t \in Threads, NEW b \in BusIds, NotBound(t, b) PROVE RoutesHeld'
    BY <2>20 DEF NotBound
  <2>21. ASSUME NEW t \in Threads, NEW b \in BusIds, InjectConnect(t, b) PROVE RoutesHeld'
    BY <2>21 DEF InjectConnect
  <2>22. ASSUME NEW t \in Threads, NEW b \in BusIds, InjectDisconnect(t, b) PROVE RoutesHeld'
    BY <2>22 DEF InjectDisconnect
  <2>23. ASSUME NEW t \in Threads, NEW b \in BusIds, NEW event \in Events, InjectEvent(t, b, event)
         PROVE  RoutesHeld'
    BY <2>23 DEF InjectEvent
  <2>24. CASE UNCHANGED vars
    BY <2>24 DEF vars
  <2> QED
    BY <2>1, <2>2, <2>3, <2>4, <2>5, <2>6, <2>7, <2>8, <2>9, <2>10, <2>11, <2>12,
       <2>13, <2>14, <2>15, <2>16, <2>17, <2>18, <2>19, <2>20, <2>21, <2>22, <2>23, <2>24, NextActions
<1> QED BY <1>1, <1>2, TypeCorrect, PTL DEF Spec

\* A handler may call the mock that runs it and threads wait for each other's mutexes, and still, while
\* some call is under way, one is ready: SomeCallGoesOn, with the guards of GoOn written out.
THEOREM AlwaysSomeCallReady == Spec => []SomeCallReady
<1>1. TypeOK /\ RoutesHeld /\ ServeLocks => SomeCallReady
  <2> SUFFICES ASSUME TypeOK, RoutesHeld, ServeLocks, NEW t \in Threads, Busy(t)
               PROVE  \E u \in Threads : Ready(u)
    BY DEF SomeCallReady
  <2>1. CASE routesLock \in Threads
    BY <2>1 DEF RoutesHeld, Ready
  <2>2. CASE routesLock = Nobody /\ servingLock \in Threads
    BY <2>2 DEF ServeLocks, Ready
  <2>3. CASE routesLock = Nobody /\ servingLock = Nobody
    BY <2>3 DEF TypeOK, Places, Busy, Ready
  <2> QED BY <2>1, <2>2, <2>3 DEF TypeOK
<1> QED BY <1>1, RoutesInvariant, ServeInvariant, PTL DEF ServeInv
=============================================================================
