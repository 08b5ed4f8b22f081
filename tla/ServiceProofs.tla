-------------------------- MODULE ServiceProofs ---------------------------
(****************************************************************************)
(* Theorems about the bridge as a service: one process (BridgeRuntime), for *)
(* any number of clients, slots and faults; the key file and the endpoint   *)
(* (BridgeStartup), for any number of instances and starts, on either       *)
(* platform; the installation inventory (VerifyInventory), for any tree,    *)
(* number of workers and changes.                                           *)
(****************************************************************************)
EXTENDS Service, Sequences, FiniteSetTheorems, WellFoundedInduction, TLAPS

Failure == faults > 0 \/ panic

(* Why the accept loop ends as it does. Whoever closes the listener while   *)
(* the loop runs has requested the stop before; an error that runBridge     *)
(* returns, and an exit code, go back to a failure.                         *)
Causes ==
  /\ listener = "closed" => stopCh \/ run = "returned"
  /\ run = "failed" => stopCh \/ faults > 0
  /\ monitor = "closing" => stopCh
  /\ control = "close" => stopCh
  /\ outcome = "error" => Failure
  /\ status.code = 1 => Failure
  /\ exit = 1 => Failure

(* The slots taken are those of the connections being served.               *)
Served == {c \in Clients : conn[c] = "served"}
SlotsExact == IsFiniteSet(Served) /\ slots = Cardinality(Served)

-----------------------------------------------------------------------------
(* Type correctness *)

Flags ==
  /\ held \in BOOLEAN /\ stopCh \in BOOLEAN /\ ready \in BOOLEAN
  /\ monitorStop \in BOOLEAN /\ integrity \in BOOLEAN
  /\ tampered \in BOOLEAN /\ panic \in BOOLEAN

States == {"out", "queued", "accepted", "served", "refused", "gone"}

Places ==
  /\ host \in Hosts
  /\ run \in Labels /\ outcome \in {"none", "nil", "error"}
  /\ listener \in {"none", "open", "closed"}
  /\ monitor \in {"off", "polling", "violated", "closing", "ended"}
  /\ control \in {"starting", "running", "request", "close", "waiting", "over"}
  /\ status \in [state : {"StartPending", "Running", "StopPending", "Stopped"}, code : {0, 1}]
  /\ exit \in {Alive, 0, 1}
  /\ conn \in [Clients -> States]
  /\ slots \in Int
  /\ faults \in 0..MaxFaults

LEMMA TypeParts == TypeOK <=> Flags /\ Places
BY Zenon DEF TypeOK, Flags, Places, States

(* The steps of Next, one group for each goroutine.                         *)
LEMMA NextCases ==
  ASSUME [Next]_vars
  PROVE  \/ RunBridge /\ UNCHANGED <<host, exit>>
         \/ Monitor /\ UNCHANGED <<host, exit>>
         \/ (Control \/ RequestsClosed \/ StopAsked) /\ UNCHANGED <<host, exit>>
         \/ (\E c \in Clients : HandlerEnds(c) \/ Connect(c)) /\ UNCHANGED <<host, exit>>
         \/ (TargetUnreadable \/ Tamper \/ PanicRaised) /\ UNCHANGED <<host, exit>>
         \/ (Exit \/ Crash) /\ UNCHANGED host
         \/ UNCHANGED vars
BY Zenon DEF Next, Goroutine

(* A flag is only ever set to TRUE or FALSE.                                *)
LEMMA FlagsStep ==
  ASSUME Flags, [Next]_vars
  PROVE  Flags'
<1>1. CASE RunBridge
  BY <1>1, Zenon DEF Flags, RunBridge, Prepare, ListenBridge, SetListener, SignalReady,
     CheckPanic,
     CheckStop, Accept, Serve, AcceptTimeout, AcceptFails, AcceptFailed, Defers, StartMonitor,
     RequestStop, StopListener, shared, watch, environment
<1>2. CASE Monitor \/ TargetUnreadable
  BY <1>2, Zenon DEF Flags, Monitor, MonitorStops, Detect, ViolationRequestsStop,
     ViolationStopsListener, TargetUnreadable, Violate, RequestStop, StopListener, shared,
     environment
<1>3. CASE Control \/ RequestsClosed \/ StopAsked
  BY <1>3, Zenon DEF Flags, Control, ServiceReady, ServiceDone, ControlStops, StopAwaited,
     RequestsClosed, StopAsked, RequestStop, StopListener, shared, watch, environment
<1>4. CASE \/ \E c \in Clients : HandlerEnds(c) \/ Connect(c)
           \/ Tamper \/ PanicRaised \/ Exit \/ Crash
  BY <1>4, Zenon DEF Flags, HandlerEnds, Connect, Tamper, PanicRaised, Exit, Crash, shared,
     watch,
     environment
<1>5. CASE UNCHANGED vars
  BY <1>5, Zenon DEF Flags, vars, shared, watch, environment
<1>6. QED
  BY <1>1, <1>2, <1>3, <1>4, <1>5, NextCases, Zenon

(* A fault is counted up to its bound.                                      *)
LEMMA FaultStep ==
  ASSUME faults \in 0..MaxFaults, Fault
  PROVE  faults' \in 0..MaxFaults /\ faults' > 0 
BY RuntimeAssumption DEF Fault

LEMMA ResetType ==
  ASSUME conn \in [Clients -> States]
  PROVE  Reset \in [Clients -> States]
BY DEF Reset, States

(* stopListener leaves the listener closed, or everything as it was.        *)
LEMMA StopListenerCases ==
  ASSUME StopListener
  PROVE  \/ listener' = "closed" /\ conn' = Reset
         \/ UNCHANGED <<listener, conn>>
BY Zenon DEF StopListener

LEMMA PlacesStep ==
  ASSUME Places, [Next]_vars
  PROVE  Places'
<1>1. ASSUME RunBridge, UNCHANGED <<host, exit>>
      PROVE  Places'
  <2>1. CASE Prepare
    BY <1>1, <2>1, FaultStep DEF Places, Prepare, Goto, Return, StartMonitor, watch, shared,
       service,
       connections, Labels
  <2>2. CASE ListenBridge
    BY <1>1, <2>2, FaultStep DEF Places, ListenBridge, Goto, Return, watch, service,
       connections,
       Labels
  <2>3. CASE SetListener \/ SignalReady \/ CheckStop \/ AcceptTimeout \/ AcceptFailed
    BY <1>1, <2>3 DEF Places, SetListener, SignalReady, CheckStop, AcceptTimeout, AcceptFailed,
       Goto,
       Return, watch, shared, service, connections, environment, Labels
  <2>4. CASE CheckPanic
    <3>1. /\ run' \in Labels /\ outcome' \in {"none", "nil", "error"}
          /\ UNCHANGED <<monitor, service, slots, faults>>
      BY <2>4, Zenon DEF Places, CheckPanic, Goto, Return, watch, environment, Labels
    <3>2. \/ listener' = "closed" /\ conn' = Reset
          \/ UNCHANGED <<listener, conn>>
      BY <2>4, StopListenerCases, Zenon DEF CheckPanic
    <3>3. QED
      BY <1>1, <3>1, <3>2, ResetType DEF Places, service
  <2>5. CASE \E c \in Clients : Accept(c) \/ Serve(c)
    BY <1>1, <2>5 DEF Places, Accept, Serve, Goto, watch, shared, service, environment, Labels,
       States
  <2>6. CASE AcceptFails
    BY <1>1, <2>6, FaultStep DEF Places, AcceptFails, Goto, watch, shared, service, connections,
       Labels
  <2>7. CASE Defers
    BY <1>1, <2>7, ResetType DEF Places, Defers, service, environment, Labels
  <2>8. QED
    BY <1>1, <2>1, <2>2, <2>3, <2>4, <2>5, <2>6, <2>7 DEF RunBridge
<1>2. ASSUME Monitor, UNCHANGED <<host, exit>>
      PROVE  Places'
  <2>1. CASE MonitorStops \/ Detect \/ ViolationRequestsStop
    BY <1>2, <2>1 DEF Places, MonitorStops, Detect, ViolationRequestsStop, Violate, loop,
       shared,
       service, connections, environment
  <2>2. CASE ViolationStopsListener
    BY <1>2, <2>2, ResetType, StopListenerCases
       DEF Places, ViolationStopsListener, loop, service, environment
  <2>3. QED
    BY <1>2, <2>1, <2>2 DEF Monitor
<1>3. ASSUME Control \/ RequestsClosed \/ StopAsked, UNCHANGED <<host, exit>>
      PROVE  Places'
  <2>1. CASE ControlStops
    BY <1>3, <2>1, ResetType, StopListenerCases DEF Places, ControlStops, loop, watch,
       environment
  <2>2. CASE ServiceReady \/ ServiceDone \/ StopAwaited \/ RequestsClosed \/ StopAsked
    BY <1>3, <2>2 DEF Places, ServiceReady, ServiceDone, StopAwaited, RequestsClosed, StopAsked,
       Report, loop, shared, watch, connections, environment
  <2>3. QED
    BY <1>3, <2>1, <2>2 DEF Control
<1>4. ASSUME \E c \in Clients : HandlerEnds(c) \/ Connect(c), UNCHANGED <<host, exit>>
      PROVE  Places'
  BY <1>4 DEF Places, HandlerEnds, Connect, loop, shared, watch, service, environment, States
<1>5. ASSUME TargetUnreadable \/ Tamper \/ PanicRaised, UNCHANGED <<host, exit>>
      PROVE  Places'
  BY <1>5, FaultStep DEF Places, TargetUnreadable, Tamper, PanicRaised, Violate, loop, shared,
     watch,
     service, connections, environment
<1>6. ASSUME Exit \/ Crash, UNCHANGED host
      PROVE  Places'
  BY <1>6, FaultStep DEF Places, Exit, Crash, Alive, loop, shared, watch, service, connections,
     environment
<1>7. ASSUME UNCHANGED vars
      PROVE  Places'
  BY <1>7 DEF Places, vars, loop, shared, watch, service, connections, environment
<1>8. QED
  BY <1>1, <1>2, <1>3, <1>4, <1>5, <1>6, <1>7, NextCases

(* Every variable of the bridge process keeps its type: the counter of      *)
(* faults its bound, the exit code one of the two that main can end with.   *)
THEOREM RuntimeTypeCorrect == Spec => []TypeOK
<1>1. Init => Flags
  BY Zenon DEF Init, Flags
<1>2. Init => Places
  BY RuntimeAssumption DEF Init, Places, Labels, Alive, States
<1>3. TypeOK /\ [Next]_vars => TypeOK'
  <2>1. Flags' /\ Places' => TypeOK'
    BY Zenon DEF TypeOK, Flags, Places, States
  <2>2. QED
    BY <2>1, TypeParts, FlagsStep, PlacesStep
<1>4. QED
  BY <1>1, <1>2, <1>3, TypeParts, PTL DEF Spec

-----------------------------------------------------------------------------
(* What ends the process *)

(* Faults are counted up, panic mode and a stop request are for good.       *)
LEMMA ForGood ==
  ASSUME Places, [Next]_vars
  PROVE  /\ faults > 0 => faults' > 0
         /\ panic => panic'
         /\ stopCh => stopCh'
<1>1. UNCHANGED faults \/ Fault
  <2>1. CASE RunBridge
    BY <2>1, Zenon DEF RunBridge, Prepare, ListenBridge, SetListener, SignalReady, CheckPanic,
       CheckStop, Accept, Serve, AcceptTimeout, AcceptFails, AcceptFailed, Defers, environment
  <2>2. CASE Monitor \/ TargetUnreadable \/ Tamper \/ PanicRaised \/ Exit \/ Crash
    BY <2>2, Zenon DEF Monitor, MonitorStops, Detect, ViolationRequestsStop,
       ViolationStopsListener, TargetUnreadable, Tamper, PanicRaised, Exit, Crash, environment
  <2>3. CASE \/ Control \/ RequestsClosed \/ StopAsked
             \/ \E c \in Clients : HandlerEnds(c) \/ Connect(c)
    BY <2>3, Zenon DEF Control, ServiceReady, ServiceDone, ControlStops, StopAwaited,
       RequestsClosed, StopAsked, HandlerEnds, Connect, environment
  <2>4. CASE UNCHANGED vars
    BY <2>4, Zenon DEF vars, environment
  <2>5. QED
    BY <2>1, <2>2, <2>3, <2>4, NextCases, Zenon
<1>2. UNCHANGED panic \/ panic' = TRUE
  <2>1. CASE RunBridge
    BY <2>1, Zenon DEF RunBridge, Prepare, ListenBridge, SetListener, SignalReady, CheckPanic,
       CheckStop, Accept, Serve, AcceptTimeout, AcceptFails, AcceptFailed, Defers, environment
  <2>2. CASE Monitor \/ TargetUnreadable \/ Tamper \/ PanicRaised \/ Exit \/ Crash
    BY <2>2, Zenon DEF Monitor, MonitorStops, Detect, ViolationRequestsStop,
       ViolationStopsListener, TargetUnreadable, Tamper, PanicRaised, Exit, Crash, environment
  <2>3. CASE \/ Control \/ RequestsClosed \/ StopAsked
             \/ \E c \in Clients : HandlerEnds(c) \/ Connect(c)
    BY <2>3, Zenon DEF Control, ServiceReady, ServiceDone, ControlStops, StopAwaited,
       RequestsClosed, StopAsked, HandlerEnds, Connect, environment
  <2>4. CASE UNCHANGED vars
    BY <2>4, Zenon DEF vars, environment
  <2>5. QED
    BY <2>1, <2>2, <2>3, <2>4, NextCases, Zenon
<1>3. UNCHANGED stopCh \/ stopCh' = TRUE
  <2>1. CASE RunBridge
    BY <2>1, Zenon DEF RunBridge, Prepare, ListenBridge, SetListener, SignalReady, CheckPanic,
       CheckStop, Accept, Serve, AcceptTimeout, AcceptFails, AcceptFailed, Defers, shared,
       RequestStop
  <2>2. CASE Monitor \/ TargetUnreadable \/ Tamper \/ PanicRaised \/ Exit \/ Crash
    BY <2>2, Zenon DEF Monitor, MonitorStops, Detect, ViolationRequestsStop,
       ViolationStopsListener, TargetUnreadable, Tamper, PanicRaised, Exit, Crash, shared,
       RequestStop
  <2>3. CASE \/ Control \/ RequestsClosed \/ StopAsked
             \/ \E c \in Clients : HandlerEnds(c) \/ Connect(c)
    BY <2>3, Zenon DEF Control, ServiceReady, ServiceDone, ControlStops, StopAwaited,
       RequestsClosed, StopAsked, HandlerEnds, Connect, shared, RequestStop
  <2>4. CASE UNCHANGED vars
    BY <2>4, Zenon DEF vars, shared
  <2>5. QED
    BY <2>1, <2>2, <2>3, <2>4, NextCases, Zenon
<1>4. faults > 0 => faults' > 0
  BY <1>1, FaultStep DEF Places
<1>5. panic => panic'
  BY <1>2
<1>6. stopCh => stopCh'
  BY <1>3
<1>7. QED
  BY <1>4, <1>5, <1>6

(* The reasons that Causes speaks of do not go away.                        *)
LEMMA FailureStays ==
  ASSUME Places, [Next]_vars, Failure
  PROVE  Failure'
BY ForGood, Zenon DEF Failure

LEMMA CausesStep ==
  ASSUME Places, Causes, [Next]_vars
  PROVE  Causes'
<1>1. (Failure => Failure') /\ (stopCh => stopCh') /\ (faults > 0 => faults' > 0)
  BY FailureStays, ForGood, Zenon
<1>2. Fault => Failure' /\ faults' > 0
  BY FaultStep, Zenon DEF Failure, Places
<1>3. CASE RunBridge /\ UNCHANGED <<host, exit>>
  <2>1. CASE Prepare
    BY <1>1, <1>2, <1>3, <2>1, Zenon DEF Causes, Prepare, Goto, Return, StartMonitor, watch,
       shared, service
  <2>2. CASE ListenBridge
    BY <1>1, <1>2, <1>3, <2>2, Zenon DEF Causes, ListenBridge, Goto, Return, watch, shared,
       service
  <2>3. CASE SetListener \/ SignalReady \/ AcceptTimeout \/ \E c \in Clients : Accept(c)
        \/ Serve(c)
    BY <1>1, <1>3, <2>3, Zenon DEF Causes, SetListener, SignalReady, AcceptTimeout, Accept,
       Serve,
       Goto, watch, shared, service
  <2>4. CASE CheckPanic
    BY <1>1, <1>3, <2>4, StopListenerCases, Zenon DEF Causes, CheckPanic, Goto, Return, watch,
       service, Failure, RequestStop
  <2>5. CASE CheckStop
    BY <1>1, <1>3, <2>5, Zenon DEF Causes, CheckStop, Goto, Return, watch, shared, service
  <2>6. CASE AcceptFails
    BY <1>1, <1>2, <1>3, <2>6, Zenon DEF Causes, AcceptFails, Goto, watch, shared, service
  <2>7. CASE AcceptFailed
    BY <1>1, <1>3, <2>7, Zenon DEF Causes, AcceptFailed, Return, watch, shared, service, Failure
  <2>8. CASE Defers
    BY <1>1, <1>3, <2>8, Zenon DEF Causes, Defers, service
  <2>9. QED
    BY <1>3, <2>1, <2>2, <2>3, <2>4, <2>5, <2>6, <2>7, <2>8, Zenon DEF RunBridge
<1>4. CASE Monitor /\ UNCHANGED <<host, exit>>
  BY <1>1, <1>4, StopListenerCases, Zenon DEF Causes, Monitor, MonitorStops, Detect,
     ViolationRequestsStop, ViolationStopsListener, Violate, RequestStop, loop, shared, service
<1>5. CASE (Control \/ RequestsClosed \/ StopAsked) /\ UNCHANGED <<host, exit>>
  <2>1. CASE ControlStops
    BY <1>1, <1>5, <2>1, StopListenerCases, Zenon DEF Causes, ControlStops, RequestStop, loop,
       watch
  <2>2. CASE ServiceDone
    BY <1>1, <1>5, <2>2 DEF Causes, ServiceDone, Report, loop, shared, watch
  <2>3. CASE ServiceReady \/ StopAwaited \/ RequestsClosed \/ StopAsked
    BY <1>1, <1>5, <2>3 DEF Causes, ServiceReady, StopAwaited, RequestsClosed, StopAsked,
       Report,
       loop, shared, watch
  <2>4. QED
    BY <1>5, <2>1, <2>2, <2>3, Zenon DEF Control
<1>6. CASE (\E c \in Clients : HandlerEnds(c) \/ Connect(c)) /\ UNCHANGED <<host, exit>>
  BY <1>1, <1>6, Zenon DEF Causes, HandlerEnds, Connect, loop, shared, watch, service
<1>7. CASE (TargetUnreadable \/ Tamper \/ PanicRaised) /\ UNCHANGED <<host, exit>>
  BY <1>1, <1>7, Zenon DEF Causes, TargetUnreadable, Tamper, PanicRaised, Violate, loop, shared,
     watch, service
<1>8. CASE (Exit \/ Crash) /\ UNCHANGED host
  <2>1. exit' = 1 => Failure'
    BY <1>1, <1>2, <1>8 DEF Causes, Exit, Crash
  <2>2. UNCHANGED <<loop, shared, watch, service>>
    BY <1>8, Zenon DEF Exit, Crash
  <2>3. QED
    BY <1>1, <2>1, <2>2, Zenon DEF Causes, loop, shared, watch, service
<1>9. CASE UNCHANGED vars
  BY <1>1, <1>9, Zenon DEF Causes, vars, loop, shared, watch, service
<1>10. QED
  BY <1>3, <1>4, <1>5, <1>6, <1>7, <1>8, <1>9, NextCases, Zenon

(* Only a failure or panic mode ends the bridge with the exit code that     *)
(* makes the service manager restart it: whatever the order in which        *)
(* monitor, service handler, interrupt and accept loop get to stopCh and to *)
(* the listener, a requested stop is told from a broken listener.           *)
THEOREM OnlyFailuresRestartHolds == Spec => []OnlyFailuresRestart
<1>1. Init => Causes
  BY DEF Init, Causes, Alive
<1>2. Places /\ Causes /\ [Next]_vars => Causes'
  BY CausesStep
<1>3. Causes => OnlyFailuresRestart
  BY DEF Causes, OnlyFailuresRestart, Failure
<1>4. TypeOK => Places
  BY TypeParts
<1>5. QED
  BY <1>1, <1>2, <1>3, <1>4, RuntimeTypeCorrect, PTL DEF Spec

-----------------------------------------------------------------------------
(* The connection slots *)

(* One connection more, or less, is served.                                 *)
LEMMA OneMore ==
  ASSUME NEW c \in Clients, conn \in [Clients -> States], SlotsExact, conn[c] # "served",
         conn' = [conn EXCEPT ![c] = "served"], slots' = slots + 1
  PROVE  SlotsExact'
<1>1. Served' = Served \cup {c} /\ c \notin Served
  BY DEF Served
<1>2. IsFiniteSet(Served') /\ Cardinality(Served') = Cardinality(Served) + 1
  BY <1>1, FS_AddElement DEF SlotsExact
<1>3. QED
  BY <1>2 DEF SlotsExact

LEMMA OneLess ==
  ASSUME NEW c \in Clients, conn \in [Clients -> States], SlotsExact, conn[c] = "served",
         conn' = [conn EXCEPT ![c] = "gone"], slots' = slots - 1
  PROVE  SlotsExact'
<1>1. Served' = Served \ {c} /\ c \in Served
  BY DEF Served
<1>2. IsFiniteSet(Served') /\ Cardinality(Served') = Cardinality(Served) - 1
  BY <1>1, FS_RemoveElement DEF SlotsExact
<1>3. QED
  BY <1>2 DEF SlotsExact

(* Every other change of the connections leaves the served ones alone.      *)
LEMMA SameServed ==
  ASSUME SlotsExact, UNCHANGED slots,
         \A c \in Clients : conn[c] = "served" <=> conn'[c] = "served"
  PROVE  SlotsExact'
<1>1. Served' = Served
  BY DEF Served
<1>2. QED
  BY <1>1 DEF SlotsExact

(* What a step does to the connections and their slots.                     *)
LEMMA ConnectionCases ==
  ASSUME [Next]_vars
  PROVE  \/ UNCHANGED connections
         \/ conn' = Reset /\ UNCHANGED slots
         \/ \E c \in Clients : Accept(c) \/ Serve(c) \/ HandlerEnds(c) \/ Connect(c)
<1>1. CASE RunBridge
  BY <1>1, StopListenerCases, Zenon DEF RunBridge, Prepare, ListenBridge, SetListener,
     SignalReady,
     CheckPanic, CheckStop, AcceptTimeout, AcceptFails, AcceptFailed, Defers, connections
<1>2. CASE Monitor \/ TargetUnreadable \/ Tamper \/ PanicRaised \/ Exit \/ Crash
  BY <1>2, StopListenerCases, Zenon DEF Monitor, MonitorStops, Detect, ViolationRequestsStop,
     ViolationStopsListener, TargetUnreadable, Tamper, PanicRaised, Exit, Crash, connections
<1>3. CASE Control \/ RequestsClosed \/ StopAsked
  BY <1>3, StopListenerCases, Zenon DEF Control, ServiceReady, ServiceDone, ControlStops,
     StopAwaited, RequestsClosed, StopAsked, connections
<1>4. CASE UNCHANGED vars
  BY <1>4, Zenon DEF vars
<1>5. QED
  BY <1>1, <1>2, <1>3, <1>4, NextCases, Zenon

LEMMA SlotsStep ==
  ASSUME Places, SlotsExact, [Next]_vars
  PROVE  SlotsExact'
<1>1. conn \in [Clients -> States]
  BY DEF Places
<1>2. CASE UNCHANGED connections
  BY <1>2, SameServed DEF connections
<1>3. CASE conn' = Reset /\ UNCHANGED slots
  BY <1>3, SameServed DEF Reset
<1>4. ASSUME NEW c \in Clients, Accept(c) \/ Connect(c)
      PROVE  SlotsExact'
  BY <1>1, <1>4, SameServed DEF Accept, Connect
<1>5. ASSUME NEW c \in Clients, Serve(c)
      PROVE  SlotsExact'
  <2>1. CASE conn' = [conn EXCEPT ![c] = "served"] /\ slots' = slots + 1
    BY <1>1, <1>5, <2>1, OneMore DEF Serve
  <2>2. CASE conn' = [conn EXCEPT ![c] = "refused"] /\ UNCHANGED slots
    BY <1>1, <1>5, <2>2, SameServed DEF Serve
  <2>3. QED
    BY <1>5, <2>1, <2>2 DEF Serve
<1>6. ASSUME NEW c \in Clients, HandlerEnds(c)
      PROVE  SlotsExact'
  BY <1>1, <1>6, OneLess DEF HandlerEnds
<1>7. QED
  BY <1>2, <1>3, <1>4, <1>5, <1>6, ConnectionCases

(* A client is refused with "too many concurrent connections" only while    *)
(* that many handlers are at work: the semaphore of the accept loop never   *)
(* leaks a slot, by whatever path a handler ends.                           *)
THEOREM RefusedOnlyWhenFullHolds == Spec => RefusedOnlyWhenFull
<1> DEFINE Full(c) == conn[c] = "accepted" /\ conn'[c] = "refused"
                        => Cardinality({d \in Clients : conn[d] = "served"}) >= MaxConnections
<1>1. Init => SlotsExact
  <2>1. Init => Served = {}
    BY DEF Init, Served
  <2>2. QED
    BY <2>1, FS_EmptySet DEF SlotsExact, Init
<1>2. Places /\ SlotsExact /\ [Next]_vars => SlotsExact'
  BY SlotsStep
<1>3. Places /\ SlotsExact /\ [Next]_vars => [\A c \in Clients : Full(c)]_vars
  <2> SUFFICES ASSUME Places, SlotsExact, [Next]_vars, NEW c \in Clients
               PROVE  Full(c)
    OBVIOUS
  <2>1. conn \in [Clients -> States]
    BY DEF Places
  <2>2. CASE UNCHANGED connections
    BY <2>2 DEF connections
  <2>3. CASE conn' = Reset
    BY <2>3 DEF Reset
  <2>4. ASSUME NEW d \in Clients, Accept(d) \/ HandlerEnds(d) \/ Connect(d)
        PROVE  Full(c)
    BY <2>1, <2>4 DEF Accept, HandlerEnds, Connect
  <2>5. ASSUME NEW d \in Clients, Serve(d)
        PROVE  Full(c)
    <3>1. SUFFICES ASSUME conn[c] = "accepted", conn'[c] = "refused"
                   PROVE  Cardinality(Served) >= MaxConnections
      BY DEF Served
    <3>2. ~(slots < MaxConnections)
      BY <2>1, <2>5, <3>1 DEF Serve
    <3>3. slots = Cardinality(Served) /\ slots \in Int
      BY DEF SlotsExact, Places
    <3>4. QED
      BY <3>2, <3>3, RuntimeAssumption
  <2>6. QED
    BY <2>2, <2>3, <2>4, <2>5, ConnectionCases
<1>4. TypeOK => Places
  BY TypeParts
<1>5. QED
  BY <1>1, <1>2, <1>3, <1>4, RuntimeTypeCorrect, PTL DEF Spec, RefusedOnlyWhenFull

-----------------------------------------------------------------------------
(* Key file and endpoint *)

Files == Boot!ValidKeys \cup {Boot!NoFile, Boot!UnsafeFile, Boot!PartialFile}
StartupLabels ==
  {"down", "validate", "read", "create", "revalidate", "reread", "write", "finish", "remove"}
    \cup Boot!AtEndpoint

-----------------------------------------------------------------------------
(* Type correctness *)

StartupPlaces ==
  /\ platform \in Platforms
  /\ key \in Files
  /\ endpoint \in Instances \cup {Boot!Nobody}
  /\ at \in [Instances -> StartupLabels]
  /\ secret \in [Instances -> Boot!ValidKeys \cup {Boot!NoSecret}]
  /\ starts \in 0..MaxStarts
  /\ happened \subseteq Boot!Kinds

(* A process that is not down has been started.                             *)
Started == \A i \in Instances : at[i] # "down" => starts > 0

(* One instance at a time creates the key file, and it knows how far it is. *)
Creating == {"write", "finish", "remove"}
OneCreator ==
  /\ \A i \in Instances :
       /\ at[i] = "write" => key = Boot!PartialFile
       /\ at[i] = "finish" => key \in Boot!ValidKeys
       /\ at[i] = "remove" =>
            key = Boot!PartialFile \/ (key \in Boot!ValidKeys /\ "finish" \in happened)
  /\ \A i, j \in Instances : at[i] \in Creating /\ at[j] \in Creating => i = j

LEMMA StartupParts == Boot!TypeOK <=> StartupPlaces /\ company \subseteq Instances
BY Zenon DEF Boot!TypeOK, StartupPlaces, Files, StartupLabels

LEMMA KeyFacts ==
  ASSUME Boot!StartupAssumption
  PROVE  /\ Boot!NoSecret \notin Boot!ValidKeys
         /\ Boot!NoFile \notin Boot!ValidKeys /\ Boot!UnsafeFile \notin Boot!ValidKeys
            /\ Boot!PartialFile \notin Boot!ValidKeys
         /\ Boot!NoFile # Boot!PartialFile /\ Boot!UnsafeFile # Boot!PartialFile
            /\ Boot!NoFile # Boot!UnsafeFile
         /\ Boot!ValidKeys \subseteq Int
         /\ \A n \in 1..MaxStarts : n \in Boot!ValidKeys
BY DEF Boot!StartupAssumption, Boot!ValidKeys, Boot!GeneratedKeys, Boot!OldKey, Boot!NoSecret,
   Boot!NoFile, Boot!UnsafeFile, Boot!PartialFile

LEMMA MoveType ==
  ASSUME StartupPlaces, NEW i \in Instances, NEW l \in StartupLabels, NEW k \in Boot!ValidKeys,
         Boot!Goto(i, l) \/ Boot!Load(i, k) \/ Boot!Down(i)
  PROVE  /\ at' \in [Instances -> StartupLabels]
         /\ secret' \in [Instances -> Boot!ValidKeys \cup {Boot!NoSecret}]
BY DEF StartupPlaces, Boot!Goto, Boot!Load, Boot!Down, StartupLabels, Boot!AtEndpoint

LEMMA FailsType ==
  ASSUME StartupPlaces, NEW kind \in Boot!Kinds, Boot!Fails(kind) \/ UNCHANGED happened
  PROVE  happened' \subseteq Boot!Kinds
BY DEF StartupPlaces, Boot!Fails

(* A key is written by Create, Write and Remove only.                       *)
LEMMA KeyWriters ==
  ASSUME NEW i \in Instances, Boot!Step(i)
  PROVE  UNCHANGED key \/ Boot!Create(i) \/ Boot!Write(i) \/ Boot!Remove(i)
BY DEF Boot!Step, Boot!Validate, Boot!ReadExisting, Boot!ReadConcurrent, Boot!ReadKey,
   Boot!Finish, Boot!Inspect, Boot!Unlink, Boot!Bind, Boot!Protect,
   Boot!CloseListener, Boot!Cleanup, Boot!Crash

LEMMA EndpointType ==
  ASSUME StartupPlaces, NEW i \in Instances, Boot!Step(i)
  PROVE  endpoint' \in Instances \cup {Boot!Nobody}
BY DEF StartupPlaces, Boot!Step, Boot!Validate, Boot!ReadExisting, Boot!ReadConcurrent,
   Boot!ReadKey, Boot!Create, Boot!Write, Boot!Finish, Boot!Remove,
   Boot!Inspect, Boot!Unlink, Boot!Bind, Boot!Protect, Boot!CloseListener, Boot!Cleanup,
   Boot!Crash

LEMMA HappenedStep ==
  ASSUME NEW i \in Instances, Boot!Step(i)
  PROVE  UNCHANGED happened \/ \E kind \in Boot!Kinds : Boot!Fails(kind)
BY DEF Boot!Step, Boot!Validate, Boot!ReadExisting, Boot!ReadConcurrent, Boot!ReadKey,
   Boot!Create, Boot!Write, Boot!Finish, Boot!Remove,
   Boot!Inspect, Boot!Unlink, Boot!Bind, Boot!Protect, Boot!CloseListener, Boot!Cleanup,
   Boot!Crash, Boot!Kinds

(* An instance goes on only with a key that is valid.                       *)
LEMMA LoadIsValid ==
  ASSUME StartupPlaces, NEW i \in Instances, Boot!Step(i),
         at[i] = "finish" => key \in Boot!ValidKeys
  PROVE  Boot!Down(i) \/ (\E l \in StartupLabels : Boot!Goto(i, l)) \/ (key \in Boot!ValidKeys
         /\ Boot!Load(i, key))
<1>1. CASE Boot!ReadExisting(i) \/ Boot!ReadConcurrent(i)
  BY <1>1 DEF Boot!ReadExisting, Boot!ReadConcurrent, Boot!ReadKey, StartupLabels
<1>2. CASE Boot!Finish(i)
  BY <1>2 DEF Boot!Finish, StartupLabels
<1>3. CASE ~(Boot!ReadExisting(i) \/ Boot!ReadConcurrent(i) \/ Boot!Finish(i))
  <2>1. CASE Boot!Validate(i, "validate", "read") \/ Boot!Validate(i, "revalidate", "reread")
    BY <2>1 DEF Boot!Validate, StartupLabels
  <2>2. CASE Boot!Create(i) \/ Boot!Write(i) \/ Boot!Remove(i)
    BY <2>2 DEF Boot!Create, Boot!Write, Boot!Remove, StartupLabels
  <2>3. CASE Boot!Inspect(i) \/ Boot!Unlink(i) \/ Boot!Bind(i) \/ Boot!Protect(i)
    BY <2>3 DEF Boot!Inspect, Boot!Unlink, Boot!Bind, Boot!Protect, StartupLabels,
       Boot!AtEndpoint
  <2>4. CASE Boot!CloseListener(i) \/ Boot!Cleanup(i) \/ Boot!Crash(i)
    BY <2>4 DEF Boot!CloseListener, Boot!Cleanup, Boot!Crash, StartupLabels, Boot!AtEndpoint
  <2>5. QED
    BY <1>3, <2>1, <2>2, <2>3, <2>4 DEF Boot!Step
<1>4. QED
  BY <1>1, <1>2, <1>3

LEMMA StartupPlacesStep ==
  ASSUME Boot!StartupAssumption, StartupPlaces, Started, OneCreator, Boot!Next
  PROVE  StartupPlaces' /\ Started'
<1>1. platform' \in Platforms
  BY DEF Boot!Next, StartupPlaces
<1>2. ASSUME NEW i \in Instances, Boot!Start(i)
      PROVE  StartupPlaces' /\ Started'
  BY <1>1, <1>2 DEF Boot!StartupAssumption, StartupPlaces, Started, Boot!Start, Boot!Goto,
     StartupLabels
<1>3. ASSUME NEW i \in Instances, Boot!Step(i), UNCHANGED starts
      PROVE  StartupPlaces' /\ Started'
  <2>1. at[i] # "down" /\ starts > 0
    <3>1. at[i] # "down"
      BY <1>3 DEF Boot!Step, Boot!Validate, Boot!ReadExisting, Boot!ReadConcurrent,
         Boot!ReadKey,
         Boot!Create, Boot!Write, Boot!Finish,
         Boot!Remove, Boot!Inspect, Boot!Unlink, Boot!Bind, Boot!Protect, Boot!CloseListener,
         Boot!Cleanup, Boot!Crash
    <3>2. QED
      BY <3>1 DEF Started
  <2>2. Boot!Down(i) \/ (\E l \in StartupLabels : Boot!Goto(i, l)) \/ (key \in Boot!ValidKeys
        /\ Boot!Load(i, key))
    BY <1>3, LoadIsValid DEF OneCreator
  <2>3. at' \in [Instances -> StartupLabels]
        /\ secret' \in [Instances -> Boot!ValidKeys \cup {Boot!NoSecret}]
    BY <2>2, MoveType DEF StartupPlaces, Boot!Down, Boot!Goto, Boot!Load, StartupLabels,
       Boot!AtEndpoint
  <2>4. key' \in Files
    <3>1. UNCHANGED key \/ key' = Boot!PartialFile \/ key' = Boot!NoFile \/ key' = starts
      BY <1>3, KeyWriters DEF Boot!Create, Boot!Write, Boot!Remove
    <3>2. starts \in Boot!ValidKeys
      BY <2>1, KeyFacts DEF StartupPlaces
    <3>3. QED
      BY <3>1, <3>2 DEF StartupPlaces, Files
  <2>5. happened' \subseteq Boot!Kinds
    BY <1>3, HappenedStep, FailsType, Zenon DEF StartupPlaces
  <2>6. Started'
    BY <1>3, <2>1 DEF Started
  <2>7. QED
    BY <1>1, <1>3, <2>3, <2>4, <2>5, <2>6, EndpointType DEF StartupPlaces
<1>4. QED
  BY <1>2, <1>3 DEF Boot!Next

-----------------------------------------------------------------------------
(* The key file *)

KeyInv == StartupPlaces /\ Started /\ OneCreator /\ Boot!KeysAgree /\ Boot!BrokenKeyNeedsCrash

(* A step of an instance that does not touch the file, and does not enter   *)
(* or leave its creation.                                                   *)
LEMMA AsideStep ==
  ASSUME Boot!StartupAssumption, KeyInv, NEW i \in Instances, UNCHANGED key,
         happened \subseteq happened',
         at[i] \notin Creating, NEW l \in StartupLabels \ Creating,
         Boot!Goto(i, l) \/ Boot!Down(i) \/ (key \in Boot!ValidKeys /\ Boot!Load(i, key))
  PROVE  OneCreator' /\ Boot!KeysAgree' /\ Boot!BrokenKeyNeedsCrash'
<1>1. \A j \in Instances : at'[j] \in Creating \/ at[j] \in Creating => at'[j] = at[j]
  BY DEF KeyInv, StartupPlaces, Boot!Goto, Boot!Down, Boot!Load, Creating, StartupLabels
<1>2. OneCreator'
  BY <1>1 DEF KeyInv, OneCreator, Creating
<1>3. Boot!KeysAgree'
  BY DEF KeyInv, StartupPlaces, Boot!KeysAgree, Boot!Goto, Boot!Down, Boot!Load
<1>4. Boot!BrokenKeyNeedsCrash'
  BY <1>1 DEF KeyInv, Boot!BrokenKeyNeedsCrash, Creating
<1>5. QED
  BY <1>2, <1>3, <1>4

LEMMA CreateStep ==
  ASSUME Boot!StartupAssumption, KeyInv, NEW i \in Instances, Boot!Create(i)
  PROVE  OneCreator' /\ Boot!KeysAgree' /\ Boot!BrokenKeyNeedsCrash'
<1>1. CASE key = Boot!NoFile
  <2>1. /\ key' = Boot!PartialFile /\ at' = [at EXCEPT ![i] = "write"]
        /\ UNCHANGED <<secret, happened>>
    BY <1>1 DEF Boot!Create, Boot!Goto
  <2>2. \A j \in Instances : at[j] \notin Creating
    BY <1>1, KeyFacts DEF KeyInv, OneCreator, Creating
  <2>3. OneCreator'
    BY <2>1, <2>2 DEF KeyInv, StartupPlaces, OneCreator, Creating
  <2>4. Boot!KeysAgree'
    BY <1>1, <2>1, KeyFacts DEF KeyInv, StartupPlaces, Boot!KeysAgree
  <2>5. Boot!BrokenKeyNeedsCrash'
    BY <2>1 DEF KeyInv, StartupPlaces, Boot!BrokenKeyNeedsCrash
  <2>6. QED
    BY <2>3, <2>4, <2>5
<1>2. CASE key # Boot!NoFile
  BY <1>2, AsideStep DEF Boot!Create, Creating, StartupLabels
<1>3. QED
  BY <1>1, <1>2

LEMMA WriteStep ==
  ASSUME Boot!StartupAssumption, KeyInv, NEW i \in Instances, Boot!Write(i)
  PROVE  OneCreator' /\ Boot!KeysAgree' /\ Boot!BrokenKeyNeedsCrash'
<1>1. /\ key = Boot!PartialFile /\ at[i] = "write" /\ UNCHANGED secret
      /\ \A j \in Instances : j # i => at[j] \notin Creating
  BY DEF KeyInv, OneCreator, Boot!Write, Boot!Goto, Creating
<1>2. starts \in Boot!ValidKeys
  BY <1>1, KeyFacts DEF KeyInv, StartupPlaces, Started
<1>3. CASE key' = starts /\ Boot!Goto(i, "finish") /\ UNCHANGED happened
  <2>1. OneCreator'
    BY <1>1, <1>2, <1>3, KeyFacts DEF KeyInv, StartupPlaces, OneCreator, Boot!Goto, Creating
  <2>2. Boot!KeysAgree'
    BY <1>1, <1>3, KeyFacts DEF KeyInv, StartupPlaces, Boot!KeysAgree, Boot!Goto
  <2>3. Boot!BrokenKeyNeedsCrash'
    BY <1>2, <1>3, KeyFacts DEF Boot!BrokenKeyNeedsCrash
  <2>4. QED
    BY <2>1, <2>2, <2>3
<1>4. CASE Boot!Fails("write") /\ Boot!Goto(i, "remove") /\ UNCHANGED key
  <2>1. OneCreator'
    BY <1>1, <1>4, KeyFacts DEF KeyInv, StartupPlaces, OneCreator, Boot!Goto, Creating
  <2>2. Boot!KeysAgree'
    BY <1>4 DEF KeyInv, Boot!KeysAgree, Boot!Goto, Boot!Fails
  <2>3. Boot!BrokenKeyNeedsCrash'
    BY <1>4 DEF KeyInv, StartupPlaces, Boot!BrokenKeyNeedsCrash, Boot!Goto
  <2>4. QED
    BY <2>1, <2>2, <2>3
<1>5. QED
  BY <1>3, <1>4 DEF Boot!Write

LEMMA FinishStep ==
  ASSUME Boot!StartupAssumption, KeyInv, NEW i \in Instances, Boot!Finish(i)
  PROVE  OneCreator' /\ Boot!KeysAgree' /\ Boot!BrokenKeyNeedsCrash'
<1>1. /\ key \in Boot!ValidKeys /\ at[i] = "finish" /\ key' = key
      /\ \A j \in Instances : j # i => at[j] \notin Creating
  BY DEF KeyInv, OneCreator, Boot!Finish, Creating
<1>2. Boot!BrokenKeyNeedsCrash'
  BY <1>1, KeyFacts DEF Boot!BrokenKeyNeedsCrash
<1>3. CASE Boot!Load(i, key) /\ UNCHANGED happened
  <2>1. OneCreator'
    BY <1>1, <1>3 DEF KeyInv, StartupPlaces, OneCreator, Boot!Load, Creating
  <2>2. Boot!KeysAgree'
    BY <1>1, <1>3 DEF KeyInv, StartupPlaces, Boot!KeysAgree, Boot!Load
  <2>3. QED
    BY <1>2, <2>1, <2>2
<1>4. CASE Boot!Fails("finish") /\ (Boot!Goto(i, "remove") \/ Boot!Down(i))
  <2>1. "finish" \in happened'
    BY <1>4 DEF Boot!Fails
  <2>2. OneCreator'
    BY <1>1, <1>4, <2>1 DEF KeyInv, StartupPlaces, OneCreator, Boot!Goto, Boot!Down, Creating
  <2>3. QED
    BY <1>2, <2>1, <2>2 DEF Boot!KeysAgree
<1>5. QED
  BY <1>3, <1>4 DEF Boot!Finish

LEMMA RemoveStep ==
  ASSUME Boot!StartupAssumption, KeyInv, NEW i \in Instances, Boot!Remove(i)
  PROVE  OneCreator' /\ Boot!KeysAgree' /\ Boot!BrokenKeyNeedsCrash'
<1>1. /\ at[i] = "remove" /\ Boot!Down(i)
      /\ \A j \in Instances : j # i => at[j] \notin Creating
  BY DEF KeyInv, OneCreator, Boot!Remove, Creating
<1>2. OneCreator'
  BY <1>1 DEF KeyInv, StartupPlaces, OneCreator, Boot!Down, Creating
<1>3. Boot!KeysAgree'
  <2>1. CASE key' = Boot!NoFile /\ UNCHANGED happened
    <3>1. "finish" \notin happened => \A j \in Instances : secret[j] = Boot!NoSecret
      BY <1>1, KeyFacts DEF KeyInv, StartupPlaces, OneCreator, Boot!KeysAgree
    <3>2. QED
      BY <1>1, <2>1, <3>1 DEF KeyInv, StartupPlaces, Boot!KeysAgree, Boot!Down
  <2>2. CASE Boot!Fails("remove") /\ UNCHANGED key
    BY <1>1, <2>2 DEF KeyInv, StartupPlaces, Boot!KeysAgree, Boot!Down, Boot!Fails
  <2>3. QED
    BY <2>1, <2>2 DEF Boot!Remove
<1>4. Boot!BrokenKeyNeedsCrash'
  BY KeyFacts DEF Boot!Remove, Boot!BrokenKeyNeedsCrash, Boot!Fails
<1>5. QED
  BY <1>2, <1>3, <1>4

LEMMA StartupCrashStep ==
  ASSUME Boot!StartupAssumption, KeyInv, NEW i \in Instances, Boot!Crash(i)
  PROVE  OneCreator' /\ Boot!KeysAgree' /\ Boot!BrokenKeyNeedsCrash'
<1>1. /\ Boot!Down(i) /\ UNCHANGED key
      /\ happened \subseteq happened' /\ "crash" \in happened'
  BY DEF Boot!Crash, Boot!Fails
<1>2. OneCreator'
  BY <1>1 DEF KeyInv, StartupPlaces, OneCreator, Boot!Down, Creating
<1>3. Boot!KeysAgree'
  BY <1>1 DEF KeyInv, StartupPlaces, Boot!KeysAgree, Boot!Down
<1>4. Boot!BrokenKeyNeedsCrash'
  BY <1>1 DEF Boot!BrokenKeyNeedsCrash
<1>5. QED
  BY <1>2, <1>3, <1>4

LEMMA KeyInvStep ==
  ASSUME Boot!StartupAssumption, KeyInv, Boot!Next
  PROVE  KeyInv'
<1>1. ASSUME NEW i \in Instances, Boot!Start(i)
      PROVE  OneCreator' /\ Boot!KeysAgree' /\ Boot!BrokenKeyNeedsCrash'
  BY <1>1, AsideStep DEF Boot!Start, Creating, StartupLabels
<1>2. ASSUME NEW i \in Instances, Boot!Step(i)
      PROVE  OneCreator' /\ Boot!KeysAgree' /\ Boot!BrokenKeyNeedsCrash'
  <2>1. CASE Boot!Validate(i, "validate", "read") \/ Boot!Validate(i, "revalidate", "reread")
    BY <2>1, AsideStep DEF Boot!Validate, Creating, StartupLabels
  <2>2. CASE Boot!ReadExisting(i) \/ Boot!ReadConcurrent(i)
    BY <2>2, AsideStep DEF Boot!ReadExisting, Boot!ReadConcurrent, Boot!ReadKey, Creating,
       StartupLabels
  <2>3. CASE Boot!Inspect(i) \/ Boot!Unlink(i) \/ Boot!Bind(i)
    BY <2>3, AsideStep DEF Boot!Inspect, Boot!Unlink, Boot!Bind, Creating, StartupLabels,
       Boot!AtEndpoint
  <2>4. CASE Boot!Protect(i) \/ Boot!CloseListener(i) \/ Boot!Cleanup(i)
    BY <2>4, AsideStep DEF Boot!Protect, Boot!CloseListener, Boot!Cleanup, Boot!Fails, Creating,
       StartupLabels, Boot!AtEndpoint
  <2>5. QED
    BY <1>2, <2>1, <2>2, <2>3, <2>4, CreateStep, WriteStep, FinishStep, RemoveStep,
       StartupCrashStep
       DEF Boot!Step
<1>3. OneCreator' /\ Boot!KeysAgree' /\ Boot!BrokenKeyNeedsCrash'
  BY <1>1, <1>2 DEF Boot!Next
<1>4. QED
  BY <1>3, StartupPlacesStep DEF KeyInv

LEMMA KeyInvHolds ==
  ASSUME Boot!StartupAssumption
  PROVE  Boot!Spec => []KeyInv
<1>1. Boot!Init => KeyInv
  BY KeyFacts DEF Boot!StartupAssumption, Boot!Init, KeyInv, StartupPlaces, Files,
     StartupLabels,
     Started, OneCreator,
     Creating, Boot!KeysAgree, Boot!BrokenKeyNeedsCrash, Boot!ValidKeys
<1>2. KeyInv /\ UNCHANGED Boot!vars => KeyInv'
  BY DEF Boot!vars, KeyInv, StartupPlaces, Started, OneCreator, Boot!KeysAgree,
     Boot!BrokenKeyNeedsCrash
<1>3. KeyInv /\ [Boot!Next]_(Boot!vars) => KeyInv'
  BY <1>2, KeyInvStep
<1>4. QED
  BY <1>1, <1>3, PTL DEF Boot!Spec

(* Every variable keeps its type: no instance goes on with anything but a   *)
(* valid key.                                                               *)
THEOREM StartupTypeCorrect ==
  ASSUME Boot!StartupAssumption
  PROVE  Boot!Spec => []Boot!TypeOK
<1>1. Boot!Init => company \subseteq Instances
  BY DEF Boot!Init
<1>2. company \subseteq Instances /\ [Boot!Next]_(Boot!vars) => (company \subseteq Instances)'
  BY DEF Boot!Next, Boot!vars
<1>3. KeyInv /\ company \subseteq Instances => Boot!TypeOK
  BY StartupParts DEF KeyInv
<1>4. QED
  BY <1>1, <1>2, <1>3, KeyInvHolds, PTL DEF Boot!Spec

(* Instances that start together all go on with the key in the file, and no *)
(* order of starts and failing writes leaves a key file that no start can   *)
(* use: O_EXCL, and the removal of what could not be written, see to it     *)
(* that one instance at a time creates the file.                            *)
THEOREM StartupKeySound ==
  ASSUME Boot!StartupAssumption
  PROVE  Boot!Spec => []Boot!KeyFileSound
<1>1. KeyInv => Boot!KeyFileSound
  BY DEF KeyInv, Boot!KeyFileSound
<1>2. QED
  BY <1>1, KeyInvHolds, PTL

-----------------------------------------------------------------------------
(* The endpoint *)

(* Whoever is at the endpoint with another has company. An instance without *)
(* company, and every one on Windows, has the endpoint once it has bound    *)
(* it, and finds there what it saw before.                                  *)
Undisturbed(i) == platform = "windows" \/ i \notin company
Met ==
  \A i, j \in Instances :
    i # j /\ at[i] \in Boot!AtEndpoint /\ at[j] \in Boot!AtEndpoint => i \in company
BoundIsOwned == \A i \in Instances : at[i] \in Boot!Bound /\ Undisturbed(i) => endpoint = i
SeesWhatIs ==
  \A i \in Instances :
    /\ at[i] = "unlink" => platform # "windows"
    /\ at[i] = "unlink" /\ i \notin company => endpoint # Boot!Nobody
    /\ at[i] = "bind" /\ i \notin company /\ platform # "windows" => endpoint = Boot!Nobody

EndpointInv == Met /\ BoundIsOwned /\ SeesWhatIs /\ Boot!LeadsToListener

(* The steps of an instance that is not at the endpoint.                    *)
Away(i) ==
  /\ at[i] \notin Boot!AtEndpoint /\ UNCHANGED endpoint /\ happened \subseteq happened'
  /\ \E l : /\ l \notin Boot!AtEndpoint \ {"inspect"} /\ at' = [at EXCEPT ![i] = l]

LEMMA EndpointSteps ==
  ASSUME NEW i \in Instances, Boot!Start(i) \/ Boot!Step(i)
  PROVE  \/ Away(i) \/ Boot!Inspect(i) \/ Boot!Unlink(i) \/ Boot!Bind(i) \/ Boot!Protect(i)
         \/ Boot!CloseListener(i) \/ Boot!Cleanup(i) \/ Boot!Crash(i)
<1>1. CASE Boot!Start(i) \/ Boot!Validate(i, "validate", "read")
           \/ Boot!Validate(i, "revalidate", "reread")
  BY <1>1 DEF Away, Boot!Start, Boot!Validate, Boot!Goto, Boot!Down, Boot!AtEndpoint
<1>2. CASE Boot!ReadExisting(i) \/ Boot!ReadConcurrent(i)
  BY <1>2 DEF Away, Boot!ReadExisting, Boot!ReadConcurrent, Boot!ReadKey, Boot!Goto, Boot!Down,
     Boot!Load, Boot!AtEndpoint
<1>3. CASE Boot!Create(i) \/ Boot!Write(i)
  BY <1>3 DEF Away, Boot!Create, Boot!Write, Boot!Fails, Boot!Goto, Boot!AtEndpoint
<1>4. CASE Boot!Finish(i) \/ Boot!Remove(i)
  BY <1>4 DEF Away, Boot!Finish, Boot!Remove, Boot!Fails, Boot!Goto, Boot!Down, Boot!Load,
     Boot!AtEndpoint
<1>5. QED
  BY <1>1, <1>2, <1>3, <1>4, Zenon DEF Boot!Step

(* Only the instance that takes the step moves.                             *)
LEMMA OneMoves ==
  ASSUME StartupPlaces, NEW k \in Instances, Boot!Start(k) \/ Boot!Step(k)
  PROVE  /\ \A i \in Instances : i # k => at'[i] = at[i]
         /\ happened \subseteq happened'
BY EndpointSteps DEF StartupPlaces, Away, Boot!Inspect, Boot!Unlink, Boot!Bind, Boot!Protect,
   Boot!CloseListener, Boot!Cleanup, Boot!Crash, Boot!Fails, Boot!Goto, Boot!Down

(* Company is met at the endpoint and remembered while one stays there.     *)
LEMMA CompanyIs ==
  ASSUME Boot!Next, NEW i \in Instances, at'[i] \in Boot!AtEndpoint, i \notin company'
  PROVE  i \notin company /\ \A j \in Instances : j # i => at'[j] \notin Boot!AtEndpoint
BY DEF Boot!Next, Boot!Accompanied

(* Where one instance is alone, the steps of the others leave the endpoint  *)
(* as it is; a port they leave in any case, once it is bound.               *)
LEMMA OthersLeave ==
  ASSUME StartupPlaces, Met, Boot!Next, NEW k \in Instances, Boot!Start(k) \/ Boot!Step(k),
         NEW i \in Instances, i # k, at'[i] \in Boot!AtEndpoint, i \notin company',
         platform # "windows"
  PROVE  UNCHANGED endpoint
<1>1. i \notin company /\ at'[k] \notin Boot!AtEndpoint
  BY CompanyIs
<1>2. at[i] \in Boot!AtEndpoint
  BY OneMoves
<1>3. at[k] \notin Boot!AtEndpoint
  BY <1>1, <1>2 DEF Met
<1>4. QED
  BY <1>3, EndpointSteps DEF Away, Boot!Inspect, Boot!Unlink, Boot!Bind, Boot!Protect,
     Boot!CloseListener, Boot!Cleanup, Boot!Crash, Boot!AtEndpoint

LEMMA OwnedStep ==
  ASSUME Boot!StartupAssumption, StartupPlaces, EndpointInv, Boot!Next, NEW k \in Instances,
         Boot!Start(k) \/ Boot!Step(k)
  PROVE  BoundIsOwned'
<1> SUFFICES ASSUME NEW i \in Instances, at'[i] \in Boot!Bound, Undisturbed(i)'
             PROVE  endpoint' = i
  BY DEF BoundIsOwned
<1>1. at'[i] \in Boot!AtEndpoint /\ UNCHANGED platform
  BY DEF Boot!Bound, Boot!AtEndpoint, Boot!Next
<1>2. Undisturbed(i)
  BY <1>1, CompanyIs DEF Undisturbed
<1>3. at[i] \in Boot!Bound => endpoint = i
  BY <1>2 DEF EndpointInv, BoundIsOwned
<1>4. CASE i = k
  <2>1. ~Away(k) /\ ~Boot!Inspect(k) /\ ~Boot!Unlink(k) /\ ~Boot!CloseListener(k)
        /\ ~Boot!Cleanup(k) /\ ~Boot!Crash(k)
    BY <1>4 DEF StartupPlaces, Away, Boot!Inspect, Boot!Unlink, Boot!CloseListener, Boot!Cleanup,
       Boot!Crash, Boot!Goto, Boot!Down, Boot!Bound, Boot!AtEndpoint
  <2>2. CASE Boot!Bind(k)
    BY <1>4, <2>2 DEF StartupPlaces, Boot!Bind, Boot!Down, Boot!Bound
  <2>3. CASE Boot!Protect(k)
    BY <1>3, <1>4, <2>3 DEF StartupPlaces, Boot!Protect, Boot!Down, Boot!Bound
  <2>4. QED
    BY <2>1, <2>2, <2>3, EndpointSteps
<1>5. CASE i # k /\ platform # "windows"
  BY <1>1, <1>3, <1>5, OthersLeave, OneMoves DEF EndpointInv, Undisturbed
<1>6. CASE i # k /\ platform = "windows"
  <2>1. endpoint = i /\ endpoint # Boot!Nobody /\ platform # "unix"
    BY <1>3, <1>6, OneMoves DEF Boot!StartupAssumption, Boot!Nobody
  <2>2. at[k] # "unlink"
    BY <1>6 DEF EndpointInv, SeesWhatIs
  <2>3. QED
    BY <1>6, <2>1, <2>2, EndpointSteps DEF Away, Boot!Inspect, Boot!Unlink, Boot!Bind,
       Boot!Protect, Boot!CloseListener, Boot!Cleanup, Boot!Crash
<1>7. QED
  BY <1>4, <1>5, <1>6

LEMMA SeesStep ==
  ASSUME Boot!StartupAssumption, StartupPlaces, EndpointInv, Boot!Next, NEW k \in Instances,
         Boot!Start(k) \/ Boot!Step(k)
  PROVE  SeesWhatIs'
<1> SUFFICES ASSUME NEW i \in Instances, at'[i] \in {"unlink", "bind"}
             PROVE  /\ at'[i] = "unlink" => platform' # "windows"
                    /\ at'[i] = "unlink" /\ i \notin company' => endpoint' # Boot!Nobody
                    /\ at'[i] = "bind" /\ i \notin company' /\ platform' # "windows" =>
                         endpoint' = Boot!Nobody
  BY DEF SeesWhatIs
<1>1. at'[i] \in Boot!AtEndpoint /\ UNCHANGED platform
  BY DEF Boot!AtEndpoint, Boot!Next
<1>2. CASE i = k
  <2>1. CASE Boot!Inspect(k)
    BY <1>1, <1>2, <2>1 DEF Boot!StartupAssumption, StartupPlaces, Boot!Inspect, Boot!Goto
  <2>2. CASE Boot!Unlink(k)
    BY <1>2, <2>2 DEF StartupPlaces, Boot!Unlink, Boot!Goto, Boot!Down
  <2>3. ~Away(k) /\ ~Boot!Bind(k) /\ ~Boot!Protect(k) /\ ~Boot!CloseListener(k)
        /\ ~Boot!Cleanup(k) /\ ~Boot!Crash(k)
    BY <1>2 DEF StartupPlaces, Away, Boot!Bind, Boot!Protect, Boot!CloseListener, Boot!Cleanup,
       Boot!Crash, Boot!Goto, Boot!Down, Boot!AtEndpoint
  <2>4. QED
    BY <2>1, <2>2, <2>3, EndpointSteps
<1>3. CASE i # k
  <2>1. at'[i] = at[i]
    BY <1>3, OneMoves
  <2>2. at[i] = "unlink" => platform # "windows"
    BY DEF EndpointInv, SeesWhatIs
  <2>3. i \notin company' => i \notin company
    BY <1>1, CompanyIs
  <2>4. i \notin company' /\ platform # "windows" => UNCHANGED endpoint
    BY <1>1, <1>3, OthersLeave DEF EndpointInv
  <2>5. QED
    BY <1>1, <2>1, <2>2, <2>3, <2>4 DEF EndpointInv, SeesWhatIs
<1>4. QED
  BY <1>2, <1>3

LEMMA ListenerStep ==
  ASSUME Boot!StartupAssumption, StartupPlaces, Boot!LeadsToListener, NEW k \in Instances,
         Boot!Start(k) \/ Boot!Step(k), UNCHANGED platform
  PROVE  Boot!LeadsToListener'
<1>1. platform \in {"unix", "windows"} /\ k # Boot!Nobody
  BY DEF Boot!StartupAssumption, StartupPlaces, Boot!Nobody
<1>2. CASE UNCHANGED endpoint /\ (at'[k] \in Boot!Bound \/ endpoint # k)
  BY <1>2, OneMoves DEF StartupPlaces, Boot!LeadsToListener
<1>3. CASE Away(k) \/ Boot!Inspect(k) \/ Boot!Cleanup(k)
  <2>1. at[k] \notin Boot!Bound /\ (UNCHANGED endpoint \/ endpoint' = Boot!Nobody)
    BY <1>3 DEF Away, Boot!Inspect, Boot!Cleanup, Boot!Bound, Boot!AtEndpoint
  <2>2. QED
    BY <2>1, OneMoves DEF StartupPlaces, Boot!LeadsToListener
<1>4. CASE Boot!Unlink(k)
  BY <1>4 DEF Boot!Unlink, Boot!LeadsToListener
<1>5. CASE Boot!Bind(k)
  <2>1. CASE endpoint = Boot!Nobody
    BY <1>5, <2>1 DEF StartupPlaces, Boot!Bind, Boot!Goto, Boot!Bound, Boot!LeadsToListener
  <2>2. CASE endpoint # Boot!Nobody
    <3>1. at[k] \notin Boot!Bound /\ UNCHANGED endpoint
      BY <1>5, <2>2 DEF Boot!Bind, Boot!Bound
    <3>2. QED
      BY <3>1, OneMoves DEF StartupPlaces, Boot!LeadsToListener
  <2>3. QED
    BY <2>1, <2>2
<1>6. CASE Boot!Protect(k)
  <2>1. CASE Boot!Goto(k, "serving") /\ UNCHANGED endpoint
    BY <1>2, <2>1 DEF StartupPlaces, Boot!Goto, Boot!Bound
  <2>2. CASE endpoint' = Boot!Nobody
    BY <2>2 DEF Boot!LeadsToListener
  <2>3. QED
    BY <1>6, <2>1, <2>2 DEF Boot!Protect
<1>7. CASE Boot!CloseListener(k)
  <2>1. endpoint' = Boot!Nobody \/ (endpoint' = endpoint /\ endpoint # k)
    BY <1>7 DEF Boot!CloseListener
  <2>2. QED
    BY <1>2, <2>1 DEF Boot!LeadsToListener
<1>8. CASE Boot!Crash(k)
  <2>1. "crash" \in happened'
    BY <1>8 DEF Boot!Crash, Boot!Fails
  <2>2. platform = "windows" =>
          endpoint' = Boot!Nobody \/ (endpoint' = endpoint /\ endpoint # k)
    BY <1>8 DEF Boot!Crash
  <2>3. QED
    BY <1>1, <1>2, <2>1, <2>2 DEF Boot!LeadsToListener
<1>9. QED
  BY <1>3, <1>4, <1>5, <1>6, <1>7, <1>8, EndpointSteps

LEMMA EndpointInvStep ==
  ASSUME Boot!StartupAssumption, StartupPlaces, EndpointInv, Boot!Next
  PROVE  EndpointInv'
<1>1. PICK k \in Instances : Boot!Start(k) \/ Boot!Step(k)
  BY DEF Boot!Next
<1>2. Met'
  BY DEF Met, Boot!Next, Boot!Accompanied
<1>3. Boot!LeadsToListener'
  BY <1>1, ListenerStep DEF EndpointInv, Boot!Next
<1>4. QED
  BY <1>1, <1>2, <1>3, OwnedStep, SeesStep DEF EndpointInv

(* A start that gives up without an operation failing has met another.      *)
LEMMA GivingUp ==
  ASSUME Boot!StartupAssumption, StartupPlaces, EndpointInv, Boot!Next
  PROVE  Boot!GivesUpInCompany
<1> SUFFICES ASSUME NEW i \in Instances, at[i] \in {"inspect", "unlink", "bind", "protect"},
                    at'[i] = "down", happened' = happened, i \notin company
             PROVE  FALSE
  BY DEF Boot!GivesUpInCompany
<1>1. PICK k \in Instances : Boot!Start(k) \/ Boot!Step(k)
  BY DEF Boot!Next
<1>2. k = i
  BY <1>1, OneMoves
<1>3. at[i] \in Boot!AtEndpoint /\ platform \in {"unix", "windows"}
  BY DEF Boot!AtEndpoint, Boot!StartupAssumption, StartupPlaces
<1>4. ~Away(i) /\ ~Boot!Inspect(i) /\ ~Boot!CloseListener(i) /\ ~Boot!Cleanup(i) /\ ~Boot!Crash(i)
  BY <1>3 DEF StartupPlaces, Away, Boot!Inspect, Boot!CloseListener, Boot!Cleanup, Boot!Crash,
     Boot!Goto, Boot!Fails
<1>5. ASSUME Boot!Unlink(i)
      PROVE  FALSE
  <2>1. endpoint # Boot!Nobody
    BY <1>5 DEF EndpointInv, SeesWhatIs, Boot!Unlink
  <2>2. QED
    BY <1>5, <2>1 DEF StartupPlaces, Boot!Unlink, Boot!Goto
<1>6. ASSUME Boot!Bind(i)
      PROVE  FALSE
  <2>1. endpoint # Boot!Nobody
    BY <1>6 DEF StartupPlaces, Boot!Bind, Boot!Goto
  <2>2. platform = "windows" /\ at[i] = "bind"
    BY <1>3, <1>6, <2>1 DEF EndpointInv, SeesWhatIs, Boot!Bind
  <2>3. endpoint \in Instances /\ at[endpoint] \in Boot!Bound
    BY <2>1, <2>2 DEF EndpointInv, Boot!LeadsToListener, StartupPlaces
  <2>4. endpoint # i /\ at[endpoint] \in Boot!AtEndpoint
    BY <2>2, <2>3 DEF Boot!Bound, Boot!AtEndpoint
  <2>5. QED
    BY <1>3, <2>3, <2>4 DEF EndpointInv, Met
<1>7. ASSUME Boot!Protect(i)
      PROVE  FALSE
  <2>1. endpoint = i /\ endpoint # Boot!Nobody
    BY <1>7 DEF EndpointInv, BoundIsOwned, Undisturbed, Boot!Protect, Boot!Bound,
       Boot!StartupAssumption, Boot!Nobody
  <2>2. QED
    BY <1>7, <2>1 DEF StartupPlaces, Boot!Protect, Boot!Goto, Boot!Fails
<1>8. QED
  BY <1>1, <1>2, <1>4, <1>5, <1>6, <1>7, EndpointSteps

(* However instances start, overlap and crash: what the endpoint leads to   *)
(* listens, unless it is a socket file left by a crash; a start that is     *)
(* alone at the endpoint comes to serve unless an operation fails, also     *)
(* over what a crash has left, and stays reachable until another comes.     *)
THEOREM StartupEndpoint ==
  ASSUME Boot!StartupAssumption
  PROVE  Boot!Spec => Boot!EndpointSound
<1>1. Boot!Init => EndpointInv
  BY DEF Boot!Init, EndpointInv, Met, BoundIsOwned, SeesWhatIs, Boot!LeadsToListener, Boot!Bound,
     Boot!AtEndpoint
<1>2. KeyInv => StartupPlaces
  BY DEF KeyInv
<1>3. EndpointInv /\ UNCHANGED Boot!vars => EndpointInv'
  BY DEF Boot!vars, EndpointInv, Met, BoundIsOwned, Undisturbed, SeesWhatIs, Boot!LeadsToListener
<1>4. KeyInv /\ EndpointInv /\ [Boot!Next]_(Boot!vars) => EndpointInv'
  BY <1>2, <1>3, EndpointInvStep
<1>5. EndpointInv => Boot!LeadsToListener /\ Boot!ServingIsReachable
  BY DEF EndpointInv, BoundIsOwned, Undisturbed, Boot!Bound, Boot!ServingIsReachable
<1>6. KeyInv /\ EndpointInv /\ [Boot!Next]_(Boot!vars) => [Boot!GivesUpInCompany]_(Boot!vars)
  BY <1>2, GivingUp
<1>7. QED
  BY <1>1, <1>4, <1>5, <1>6, KeyInvHolds, PTL DEF Boot!Spec, Boot!EndpointSound

-----------------------------------------------------------------------------
(* The installation inventory *)

(* Every set of natural numbers has a least element.                        *)
LEMMA Least ==
  ASSUME NEW T, T \subseteq Nat, T # {}
  PROVE  \E x \in T : \A y \in T : x <= y
<1> DEFINE Below == {ss \in Nat \X Nat : ss[1] < ss[2]}
<1>1. IsWellFoundedOn(Below, Nat)
  <2>1. OpToRel(<, Nat) = Below
    BY Zenon DEF OpToRel
  <2>2. QED
    BY <2>1, NatLessThanWellFounded, Zenon
<1> HIDE DEF Below
<1>2. PICK x \in T : \A y \in T : ~(<<y, x>> \in Below)
  BY <1>1, WFMin, Zenon
<1>3. ASSUME NEW y \in T
      PROVE  x <= y
  <2>1. ~(y < x)
    BY <1>2 DEF Below
  <2>2. QED
    BY <2>1
<1>4. QED
  BY <1>3

(* Induction over the natural numbers, for a set of them.                   *)
LEMMA AllNaturals ==
  ASSUME NEW S, S \subseteq Nat, 0 \in S, \A n \in S : n + 1 \in S
  PROVE  S = Nat
<1> SUFFICES ASSUME Nat \ S # {}
             PROVE  FALSE
  OBVIOUS
<1>1. PICK x \in Nat \ S : \A y \in Nat \ S : x <= y
  BY Least
<1>2. x # 0 /\ x - 1 \in Nat /\ x - 1 \notin Nat \ S
  BY <1>1
<1>3. QED
  BY <1>1, <1>2

InOrder(k, p, n) == \A i, j \in 1..n : i < j => k[p[i]] <= k[p[j]]

(* Keys can be put in order.                                                *)
LEMMA OrderExists ==
  \A n \in Nat : \A k \in [1..n -> Int] : \E p \in Bijection(1..n, 1..n) : InOrder(k, p, n)
<1> DEFINE Good(n) == \A k \in [1..n -> Int] : \E p \in Bijection(1..n, 1..n) : InOrder(k, p, n)
           S == {n \in Nat : Good(n)}
<1>1. 0 \in S
  <2>1. ASSUME NEW k \in [1..0 -> Int]
        PROVE  \E p \in Bijection(1..0, 1..0) : InOrder(k, p, 0)
    <3>1. 1..0 = {}
      OBVIOUS
    <3>2. [i \in {} |-> i] \in Bijection({}, {})
      BY DEF Bijection, Injection, Surjection, IsInjective
    <3>3. QED
      BY <3>1, <3>2 DEF InOrder
  <2>2. QED
    BY <2>1
<1>2. ASSUME NEW n \in S
      PROVE  n + 1 \in S
  <2> SUFFICES ASSUME NEW k \in [1..n + 1 -> Int]
               PROVE  \E p \in Bijection(1..n + 1, 1..n + 1) : InOrder(k, p, n + 1)
    OBVIOUS
  <2> DEFINE k0 == [i \in 1..n |-> k[i]]
  <2>1. n \in Nat /\ k0 \in [1..n -> Int]
    OBVIOUS
  <2>2. PICK p \in Bijection(1..n, 1..n) : InOrder(k0, p, n)
    BY <1>2, <2>1
  <2>3. /\ p \in [1..n -> 1..n]
        /\ \A i, j \in 1..n : p[i] = p[j] => i = j
        /\ \A j \in 1..n : \E i \in 1..n : p[i] = j
    BY <2>2 DEF Bijection, Injection, Surjection, IsInjective
  <2>4. \A i, j \in 1..n : i < j => k[p[i]] <= k[p[j]]
    BY <2>2, <2>3 DEF InOrder
  <2> HIDE DEF k0, S
  <2>5. n + 1 \in 1..n + 1 /\ k[n + 1] \in Int /\ \A i \in 1..n : k[p[i]] \in Int
    <3>1. n + 1 \in 1..n + 1
      BY <2>1
    <3>2. \A i \in 1..n : p[i] \in 1..n + 1
      BY <2>1, <2>3
    <3>3. QED
      BY <3>1, <3>2
  <2> DEFINE T == {c \in 1..n + 1 : \A i \in c..n : k[n + 1] < k[p[i]]}
  <2>6. PICK c \in T : \A d \in T : c <= d
    <3>1. n + 1 \in T
      BY <2>1, <2>5
    <3>2. T \subseteq Nat
      OBVIOUS
    <3>3. QED
      BY <3>1, <3>2, Least
  <2>7. c \in 1..n + 1 /\ \A i \in 1..n : c <= i => k[n + 1] < k[p[i]]
    BY <2>1, <2>6
  <2>8. \A i \in 1..n : i < c => k[p[i]] <= k[n + 1]
    <3> SUFFICES ASSUME NEW i \in 1..n, i < c
                 PROVE  k[p[i]] <= k[n + 1]
      OBVIOUS
    <3>1. c - 1 \in 1..n /\ c - 1 \in 1..n + 1
      BY <2>1, <2>7
    <3>2. c - 1 \notin T
      BY <2>6, <2>7, <3>1
    <3>3. PICK j \in (c - 1)..n : ~(k[n + 1] < k[p[j]])
      BY <3>1, <3>2
    <3>4. j = c - 1
      BY <2>1, <2>7, <3>1, <3>3
    <3>5. k[p[c - 1]] <= k[n + 1]
      BY <2>5, <3>1, <3>3, <3>4
    <3>6. i = c - 1 \/ k[p[i]] <= k[p[c - 1]]
      BY <2>4, <2>7, <3>1
    <3>7. QED
      BY <2>5, <3>1, <3>5, <3>6
  <2> HIDE DEF T
  <2> DEFINE q == [i \in 1..n + 1 |-> IF i < c THEN p[i] ELSE IF i = c THEN n + 1 ELSE p[i - 1]]
  <2>9. /\ \A i \in 1..n + 1 : i < c => i \in 1..n /\ q[i] = p[i]
        /\ q[c] = n + 1
        /\ \A i \in 1..n + 1 : c < i => i - 1 \in 1..n /\ q[i] = p[i - 1]
        /\ DOMAIN q = 1..n + 1
        /\ q = [i \in 1..n + 1 |-> q[i]]
    BY <2>1, <2>7
  <2> HIDE DEF q
  <2>10. \A i \in 1..n + 1 : i # c => q[i] \in 1..n
    <3> SUFFICES ASSUME NEW i \in 1..n + 1, i # c
                 PROVE  q[i] \in 1..n
      OBVIOUS
    <3>1. CASE i < c
      BY <2>3, <2>9, <3>1
    <3>2. CASE c < i
      BY <2>3, <2>9, <3>2
    <3>3. QED
      BY <2>7, <3>1, <3>2
  <2>11. q \in [1..n + 1 -> 1..n + 1]
    <3>1. \A i \in 1..n + 1 : q[i] \in 1..n + 1
      BY <2>1, <2>5, <2>9, <2>10
    <3>2. QED
      BY <2>9, <3>1, Zenon
  <2>12. \A i, j \in 1..n + 1 : q[i] = q[j] => i = j
    <3> SUFFICES ASSUME NEW i \in 1..n + 1, NEW j \in 1..n + 1, q[i] = q[j]
                 PROVE  i = j
      OBVIOUS
    <3>1. CASE i = c \/ j = c
      BY <2>1, <2>7, <2>9, <2>10, <3>1
    <3>2. CASE i < c /\ j < c
      BY <2>3, <2>9, <3>2
    <3>3. CASE i < c /\ c < j
      <4>1. i = j - 1
        BY <2>3, <2>9, <3>3
      <4>2. QED
        BY <2>7, <3>3, <4>1
    <3>4. CASE c < i /\ j < c
      <4>1. j = i - 1
        BY <2>3, <2>9, <3>4
      <4>2. QED
        BY <2>7, <3>4, <4>1
    <3>5. CASE c < i /\ c < j
      <4>1. i - 1 = j - 1
        BY <2>3, <2>9, <3>5
      <4>2. QED
        BY <4>1
    <3>6. QED
      BY <2>7, <3>1, <3>2, <3>3, <3>4, <3>5
  <2>13. \A j \in 1..n + 1 : \E i \in 1..n + 1 : q[i] = j
    <3> SUFFICES ASSUME NEW j \in 1..n + 1
                 PROVE  \E i \in 1..n + 1 : q[i] = j
      OBVIOUS
    <3>1. CASE j = n + 1
      BY <2>7, <2>9, <3>1
    <3>2. CASE j # n + 1
      <4>1. j \in 1..n
        BY <2>1, <3>2
      <4>2. PICK i \in 1..n : p[i] = j
        BY <2>3, <4>1
      <4>3. CASE i < c
        <5>1. i \in 1..n + 1 /\ q[i] = j
          BY <2>1, <2>9, <4>2, <4>3
        <5>2. QED
          BY <5>1
      <4>4. CASE ~(i < c)
        <5>1. i + 1 \in 1..n + 1 /\ c < i + 1 /\ i + 1 - 1 = i
          BY <2>1, <2>7, <4>4
        <5>2. q[i + 1] = j
          BY <2>9, <4>2, <5>1
        <5>3. QED
          BY <5>1, <5>2
      <4>5. QED
        BY <4>3, <4>4
    <3>3. QED
      BY <3>1, <3>2
  <2>14. InOrder(k, q, n + 1)
    <3> SUFFICES ASSUME NEW i \in 1..n + 1, NEW j \in 1..n + 1, i < j
                 PROVE  k[q[i]] <= k[q[j]]
      BY DEF InOrder
    <3>1. CASE j < c
      <4>1. i < c
        BY <2>7, <3>1
      <4>2. QED
        BY <2>4, <2>9, <3>1, <4>1
    <3>2. CASE j = c
      BY <2>8, <2>9, <3>2
    <3>3. CASE c < j /\ i < c
      <4>1. q[i] = p[i] /\ q[j] = p[j - 1] /\ i \in 1..n /\ j - 1 \in 1..n /\ c <= j - 1
        BY <2>7, <2>9, <3>3
      <4>2. k[p[i]] <= k[n + 1] /\ k[n + 1] < k[p[j - 1]]
        BY <2>7, <2>8, <3>3, <4>1
      <4>3. QED
        BY <2>5, <4>1, <4>2
    <3>4. CASE c < j /\ i = c
      <4>1. q[i] = n + 1 /\ q[j] = p[j - 1] /\ j - 1 \in 1..n /\ c <= j - 1
        BY <2>7, <2>9, <3>4
      <4>2. k[n + 1] < k[p[j - 1]]
        BY <2>7, <4>1
      <4>3. QED
        BY <2>5, <4>1, <4>2
    <3>5. CASE c < i
      <4>1. q[i] = p[i - 1] /\ i - 1 \in 1..n
        BY <2>9, <3>5
      <4>2. c < j /\ i - 1 < j - 1
        BY <2>7, <3>5
      <4>3. q[j] = p[j - 1] /\ j - 1 \in 1..n
        BY <2>9, <4>2
      <4>4. QED
        BY <2>4, <4>1, <4>2, <4>3
    <3>6. QED
      BY <2>7, <3>1, <3>2, <3>3, <3>4, <3>5
  <2>15. QED
    BY <2>11, <2>12, <2>13, <2>14 DEF Bijection, Injection, Surjection, IsInjective
<1> HIDE DEF Good
<1>3. S = Nat
  BY <1>1, <1>2, AllNaturals
<1>4. QED
  BY <1>3 DEF Good

RecordType == [path : Inventory!Files, size : Contents, sha256 : Contents \cup {"link"}]
DoneJob == [file : Inventory!Files, size : Contents, result : Contents \cup {"link"}]
FailedJob == [file : Inventory!Files, size : Contents \cup {"none", "link"}, result : {"error"}]
OpenJob == [file : Inventory!Files, size : Contents, result : {"open"}]
ResultType == DoneJob \cup FailedJob
JobType == {Inventory!Idle} \cup DoneJob \cup FailedJob \cup OpenJob

UsedType == [changes : 0..MaxChanges, starts : 0..MaxReboots, faults : SUBSET Inventory!Kinds]

InventoryTypes ==
  /\ procs \in Inventory!Workers
  /\ tree \in [Inventory!Files -> Contents \cup {"none", "link"}]
  /\ state.kind \in {"absent", "corrupt", "authentic"} /\ state.files \in Seq(RecordType)
  /\ expected.kind \in {"absent", "authentic"} /\ expected.files \in Seq(RecordType)
  /\ pc \in {"down", "load", "walk", "pool", "judge", "running"}
  /\ todo \subseteq Inventory!Files
  /\ job \in Seq(JobType)
  /\ results \in Seq(ResultType)
  /\ records \in Seq(RecordType)
  /\ Len(job) <= procs /\ Len(results) <= Len(job)
  /\ firstErr \in BOOLEAN /\ touched \in BOOLEAN /\ alarmed \in BOOLEAN
  /\ used \in UsedType

AtRest ==
  /\ pc \notin {"pool", "judge"} => todo = {} /\ job = <<>> /\ results = <<>> /\ records = <<>>
  /\ pc = "judge" => todo = {} /\ results = <<>> /\ \A w \in DOMAIN job : job[w] = Inventory!Idle
  /\ alarmed => pc = "down"

FilesApart ==
  /\ \A w \in DOMAIN job : job[w].file \notin todo
  /\ \A i \in DOMAIN results : results[i].file \notin todo
  /\ \A i \in DOMAIN records : records[i].path \notin todo
  /\ \A w \in DOMAIN job, i \in DOMAIN results : job[w].file # results[i].file
  /\ \A w \in DOMAIN job, i \in DOMAIN records : job[w].file # records[i].path
  /\ \A i \in DOMAIN results, j \in DOMAIN records : results[i].file # records[j].path
  /\ \A v, w \in DOMAIN job : job[v].file = job[w].file => v = w \/ job[v].file = 0
  /\ \A i, j \in DOMAIN results : results[i].file = results[j].file => i = j
  /\ \A i, j \in DOMAIN records : records[i].path = records[j].path => i = j

Untouched == ~touched /\ "read" \notin used.faults
PresentFiles == {f \in Inventory!Files : tree[f] # "none"}
FactOf(f) == [path |-> f, size |-> tree[f], sha256 |-> tree[f]]
TrueOf(r) ==
  /\ r.file \in PresentFiles
  /\ r.result = "error" => tree[r.file] \notin Contents
  /\ r.result \in {"open", "error"} \/ r.result = tree[r.file]
  /\ r.size = tree[r.file]

HonestTodo == todo \subseteq PresentFiles
HonestJobs == \A w \in DOMAIN job : job[w] = Inventory!Idle \/ TrueOf(job[w])
HonestResults == \A i \in DOMAIN results : TrueOf(results[i])
HonestRecords ==
  \A i \in DOMAIN records : records[i].path \in PresentFiles /\ records[i] = FactOf(records[i].path)
HonestError ==
  firstErr /\ pc \in {"pool", "judge"} => \E f \in PresentFiles : tree[f] \notin Contents
Somewhere(f) ==
  \/ f \in todo
  \/ \E w \in DOMAIN job : job[w].file = f
  \/ \E i \in DOMAIN results : results[i].file = f
  \/ \E i \in DOMAIN records : records[i].path = f
Covered == pc \in {"pool", "judge"} /\ ~firstErr => \A f \in PresentFiles : Somewhere(f)
HonestPool ==
  /\ HonestTodo /\ HonestJobs /\ HonestResults
  /\ HonestRecords /\ HonestError /\ Covered
Honest == Untouched => HonestPool

Faithful(r) ==
  /\ \A i, j \in DOMAIN r : r[i].path = r[j].path => i = j
  /\ \A i \in DOMAIN r : r[i].path \in PresentFiles /\ r[i] = FactOf(r[i].path)
  /\ \A f \in PresentFiles : \E i \in DOMAIN r : r[i].path = f
  /\ \A f \in PresentFiles : tree[f] \in Contents

StateSound ==
  /\ Untouched /\ state.kind = "authentic" => Faithful(state.files)
  /\ Untouched /\ pc \in {"walk", "pool", "judge"} /\ expected.kind = "authentic" =>
       Faithful(expected.files)

InventoryInv ==
  /\ InventoryTypes /\ AtRest /\ FilesApart
  /\ Honest /\ StateSound /\ Inventory!NoFalseAlarm

Orders(s) == {[i \in DOMAIN s |-> s[p[i]]] : p \in Inventory!Bijection(DOMAIN s, DOMAIN s)}
Ordered(q, D) == \A i, j \in D : i < j => q[i].path <= q[j].path

(* Operators of the standard modules that VerifyInventory brings along.     *)
LEMMA SameOperators ==
  /\ \A S, T : Inventory!Bijection(S, T) = Bijection(S, T)
  /\ \A S : Inventory!Cardinality(S) = Cardinality(S)
<1>1. \A S, T : Inventory!Bijection(S, T) = Bijection(S, T)
  BY Zenon DEF Inventory!Bijection, Inventory!Injection, Inventory!Surjection,
     Inventory!IsInjective,
     Bijection, Injection, Surjection, IsInjective
<1>2. \A S : Inventory!Cardinality(S) = Cardinality(S)
  BY Zenon DEF Inventory!Cardinality, Cardinality, Inventory!IsFiniteSet, IsFiniteSet
<1>3. QED
  BY <1>1, <1>2

(* The canonical order of records is one of their orders, by path.          *)
LEMMA CanonicalIs ==
  ASSUME Inventory!InventoryAssumption, NEW s \in Seq(RecordType)
  PROVE  /\ Inventory!canonicalVerifyRecords(s) \in Orders(s)
         /\ Ordered(Inventory!canonicalVerifyRecords(s), DOMAIN s)
<1> DEFINE n == Len(s)
           k == [i \in 1..n |-> s[i].path]
<1>1. n \in Nat /\ DOMAIN s = 1..n
  OBVIOUS
<1>2. \A i \in 1..n : s[i].path \in Int
  <2>1. \A i \in 1..n : s[i] \in RecordType
    BY <1>1
  <2>2. \A e \in RecordType : e.path \in Inventory!Files
    BY DEF RecordType
  <2>3. MaxFiles \in Nat
    BY DEF Inventory!InventoryAssumption
  <2>4. QED
    BY <2>1, <2>2, <2>3 DEF Inventory!Files
<1>3. k \in [1..n -> Int] /\ \A i \in 1..n : k[i] = s[i].path
  BY <1>2
<1> HIDE DEF n, k
<1>4. PICK p \in Bijection(1..n, 1..n) : InOrder(k, p, n)
  BY <1>1, <1>3, OrderExists
<1>5. p \in [1..n -> 1..n]
  BY <1>4 DEF Bijection, Injection
<1> DEFINE q == [i \in DOMAIN s |-> s[p[i]]]
<1>6. q \in Orders(s)
  <2>1. p \in Inventory!Bijection(DOMAIN s, DOMAIN s)
    BY <1>1, <1>4, SameOperators
  <2>2. QED
    BY <2>1, Zenon DEF Orders
<1>7. Ordered(q, DOMAIN s)
  <2>1. \A i \in 1..n : q[i] = s[p[i]] /\ q[i].path = k[p[i]]
    BY <1>1, <1>3, <1>5
  <2>2. QED
    BY <1>1, <1>4, <2>1 DEF Ordered, InOrder
<1> HIDE DEF q
<1>8. Inventory!canonicalVerifyRecords(s) = CHOOSE x \in Orders(s) : Ordered(x, DOMAIN s)
  BY Zenon DEF Inventory!canonicalVerifyRecords, Orders, Ordered
<1>9. QED
  BY <1>6, <1>7, <1>8, Zenon

(* Another order of records is the same records.                            *)
LEMMA OrderIsFaithful ==
  ASSUME NEW s \in Seq(RecordType), NEW q \in Orders(s)
  PROVE  q \in Seq(RecordType) /\ DOMAIN q = DOMAIN s /\ (Faithful(s) => Faithful(q))
<1>1. PICK p \in Inventory!Bijection(DOMAIN s, DOMAIN s) : q = [i \in DOMAIN s |-> s[p[i]]]
  BY DEF Orders
<1>2. /\ \A i \in DOMAIN s : p[i] \in DOMAIN s
      /\ \A i, j \in DOMAIN s : p[i] = p[j] => i = j
      /\ \A j \in DOMAIN s : \E i \in DOMAIN s : p[i] = j
  BY <1>1 DEF Inventory!Bijection, Inventory!Injection, Inventory!Surjection,
              Inventory!IsInjective
<1>3. DOMAIN q = DOMAIN s /\ \A i \in DOMAIN s : q[i] = s[p[i]]
  BY <1>1
<1>4. q \in Seq(RecordType)
  <2>1. Len(s) \in Nat /\ DOMAIN s = 1..Len(s) /\ \A i \in DOMAIN s : s[i] \in RecordType
    OBVIOUS
  <2>2. q \in [1..Len(s) -> RecordType]
    BY <1>1, <1>2, <2>1
  <2>3. QED
    BY <2>1, <2>2
<1>5. ASSUME Faithful(s)
      PROVE  Faithful(q)
  <2>1. \A i, j \in DOMAIN q : q[i].path = q[j].path => i = j
    <3> SUFFICES ASSUME NEW i \in DOMAIN s, NEW j \in DOMAIN s, q[i].path = q[j].path
                 PROVE  i = j
      BY <1>3
    <3>1. s[p[i]].path = s[p[j]].path /\ p[i] \in DOMAIN s /\ p[j] \in DOMAIN s
      BY <1>2, <1>3
    <3>2. p[i] = p[j]
      BY <1>5, <3>1, Zenon DEF Faithful
    <3>3. QED
      BY <1>2, <3>2
  <2>2. \A i \in DOMAIN q : q[i].path \in PresentFiles /\ q[i] = FactOf(q[i].path)
    <3> SUFFICES ASSUME NEW i \in DOMAIN s
                 PROVE  q[i].path \in PresentFiles /\ q[i] = FactOf(q[i].path)
      BY <1>3
    <3>1. q[i] = s[p[i]] /\ p[i] \in DOMAIN s
      BY <1>2, <1>3
    <3>2. s[p[i]].path \in PresentFiles /\ s[p[i]] = FactOf(s[p[i]].path)
      BY <1>5, <3>1, Zenon DEF Faithful
    <3>3. QED
      BY <3>1, <3>2, Zenon
  <2>3. \A f \in PresentFiles : \E i \in DOMAIN q : q[i].path = f
    <3> SUFFICES ASSUME NEW f \in PresentFiles
                 PROVE  \E i \in DOMAIN q : q[i].path = f
      OBVIOUS
    <3>1. PICK j \in DOMAIN s : s[j].path = f
      BY <1>5 DEF Faithful
    <3>2. PICK i \in DOMAIN s : p[i] = j
      BY <1>2
    <3>3. QED
      BY <1>3, <3>1, <3>2
  <2>4. QED
    BY <1>5, <2>1, <2>2, <2>3 DEF Faithful
<1>6. QED
  BY <1>3, <1>4, <1>5

(* Faithful records are as many as there are files.                         *)
LEMMA FaithfulLength ==
  ASSUME NEW s \in Seq(RecordType), Faithful(s)
  PROVE  Len(s) = Cardinality(PresentFiles)
<1> DEFINE f == [i \in 1..Len(s) |-> s[i].path]
<1>1. Len(s) \in Nat /\ DOMAIN s = 1..Len(s)
  OBVIOUS
<1>2. f \in Bijection(1..Len(s), PresentFiles)
  BY <1>1 DEF Faithful, Bijection, Injection, Surjection, IsInjective
<1>3. IsFiniteSet(1..Len(s)) /\ Cardinality(1..Len(s)) = Len(s)
  BY <1>1, FS_Interval
<1> HIDE DEF f
<1>4. Cardinality(PresentFiles) = Cardinality(1..Len(s))
  <2>1. ExistsBijection(1..Len(s), PresentFiles)
    BY <1>2, Zenon DEF ExistsBijection
  <2>2. QED
    BY <1>3, <2>1, FS_Bijection, Zenon
<1>5. QED
  BY <1>3, <1>4

(* Records of one tree in order of their paths are the same.                *)
LEMMA OrderedIsUnique ==
  ASSUME NEW n \in Nat, NEW x, NEW y, DOMAIN x = 1..n, DOMAIN y = 1..n,
         x = [i \in 1..n |-> x[i]], y = [i \in 1..n |-> y[i]],
         Faithful(x), Faithful(y), Ordered(x, 1..n), Ordered(y, 1..n)
  PROVE  x = y
<1> DEFINE T == {i \in 1..n : x[i] # y[i]}
<1>1. \A i \in 1..n : x[i].path \in Int /\ y[i].path \in Int
  BY DEF Faithful, PresentFiles, Inventory!Files
<1>2. ASSUME T # {}
      PROVE  FALSE
  <2>0. T \subseteq Nat
    OBVIOUS
  <2>1. PICK i \in T : \A j \in T : i <= j
    BY <1>2, <2>0, Least
  <2>2. i \in 1..n /\ x[i] # y[i] /\ \A j \in 1..n : j < i => x[j] = y[j]
    BY <2>1
  <2> HIDE DEF T
  <2>3. x[i].path # y[i].path
    BY <2>2 DEF Faithful
  <2>4. PICK j \in 1..n : x[j].path = y[i].path
    BY <2>2 DEF Faithful
  <2>5. j # i /\ ~(j < i)
    BY <2>2, <2>3, <2>4 DEF Faithful
  <2>6. x[i].path <= y[i].path
    <3>1. i < j
      BY <2>2, <2>5
    <3>2. QED
      BY <2>2, <2>4, <3>1, Zenon DEF Ordered
  <2>7. PICK k \in 1..n : y[k].path = x[i].path
    BY <2>2 DEF Faithful
  <2>8. k # i /\ ~(k < i)
    BY <2>2, <2>3, <2>7 DEF Faithful
  <2>9. y[i].path <= x[i].path
    <3>1. i < k
      BY <2>2, <2>8
    <3>2. QED
      BY <2>2, <2>7, <3>1, Zenon DEF Ordered
  <2>10. QED
    BY <1>1, <2>2, <2>3, <2>6, <2>9
<1>3. \A i \in 1..n : x[i] = y[i]
  BY <1>2
<1>4. QED
  BY <1>3, Zenon

(* What two scans of one tree recorded is equal, in whatever order it came. *)
LEMMA FaithfulAreEqual ==
  ASSUME Inventory!InventoryAssumption, NEW a \in Seq(RecordType), NEW b \in Seq(RecordType),
         Faithful(a), Faithful(b)
  PROVE  Inventory!verifyRecordsEqual(a, b)
<1> DEFINE x == Inventory!canonicalVerifyRecords(a)
           y == Inventory!canonicalVerifyRecords(b)
           n == Len(a)
<1>1. x \in Orders(a) /\ Ordered(x, DOMAIN a) /\ y \in Orders(b) /\ Ordered(y, DOMAIN b)
  BY CanonicalIs
<1> HIDE DEF x, y
<1>2. /\ x \in Seq(RecordType) /\ DOMAIN x = DOMAIN a /\ Faithful(x)
      /\ y \in Seq(RecordType) /\ DOMAIN y = DOMAIN b /\ Faithful(y)
  BY <1>1, OrderIsFaithful
<1>3. n \in Nat /\ DOMAIN a = 1..n /\ DOMAIN b = 1..n
  BY FaithfulLength
<1>4. x = [i \in 1..n |-> x[i]] /\ y = [i \in 1..n |-> y[i]]
  BY <1>2, <1>3
<1> HIDE DEF n
<1>5. x = y
  BY <1>1, <1>2, <1>3, <1>4, OrderedIsUnique
<1>6. QED
  BY <1>5 DEF Inventory!verifyRecordsEqual, x, y

(* What a worker's job is says how far it is.                               *)
LEMMA JobFacts ==
  ASSUME Inventory!InventoryAssumption, NEW e \in JobType
  PROVE  /\ e.file \in Inventory!Files \cup {0}
         /\ e.file = 0 => e = Inventory!Idle
         /\ e.result = "open" => e \in OpenJob
         /\ e.result \notin {"none", "open"} => e \in DoneJob \cup FailedJob
         /\ e \in DoneJob \cup FailedJob \cup OpenJob => e.file \in Inventory!Files /\ e # Inventory!Idle
<1>1. 0 \notin Inventory!Files /\ "open" \notin Contents /\ "none" \notin Contents
  BY DEF Inventory!Files, Inventory!InventoryAssumption
<1>2. CASE e = Inventory!Idle
  BY <1>1, <1>2 DEF Inventory!Idle, DoneJob, FailedJob, OpenJob
<1>3. CASE e \in DoneJob
  BY <1>1, <1>3 DEF Inventory!Idle, DoneJob, FailedJob, OpenJob
<1>4. CASE e \in FailedJob
  BY <1>1, <1>4 DEF Inventory!Idle, DoneJob, FailedJob, OpenJob
<1>5. CASE e \in OpenJob
  BY <1>1, <1>5 DEF Inventory!Idle, DoneJob, FailedJob, OpenJob
<1>6. QED
  BY <1>2, <1>3, <1>4, <1>5 DEF JobType

(* The least element of a set of natural numbers is one of them.            *)
LEMMA MinIsIn ==
  ASSUME NEW T, T \subseteq Nat, T # {}
  PROVE  Inventory!Min(T) \in T /\ \A y \in T : Inventory!Min(T) <= y
BY Least, Zenon DEF Inventory!Min

(* The pool has at most as many workers as there are processors.            *)
LEMMA PoolSizeIs ==
  ASSUME Inventory!InventoryAssumption, procs \in Inventory!Workers, NEW P, P \subseteq Inventory!Files
  PROVE  Inventory!PoolSize(P) \in Nat /\ Inventory!PoolSize(P) <= procs
<1> DEFINE T == {procs, Inventory!MaxWorkers, Inventory!Cardinality(P)}
<1>1. Inventory!Cardinality(P) \in Nat
  <2>1. IsFiniteSet(Inventory!Files)
    BY FS_Interval DEF Inventory!InventoryAssumption, Inventory!Files
  <2>2. IsFiniteSet(P)
    BY <2>1, FS_Subset
  <2>3. QED
    BY <2>2, FS_CardinalityType, SameOperators
<1>2. procs \in Nat /\ Inventory!MaxWorkers \in Nat
  BY DEF Inventory!Workers, Inventory!InventoryAssumption, Inventory!MaxWorkers
<1>3. T \subseteq Nat /\ T # {} /\ procs \in T
  BY <1>1, <1>2
<1> HIDE DEF T
<1>4. Inventory!Min(T) \in T /\ Inventory!Min(T) <= procs
  BY <1>3, MinIsIn
<1>5. Inventory!PoolSize(P) = Inventory!Min(T)
  BY DEF Inventory!PoolSize, T
<1>6. QED
  BY <1>3, <1>4, <1>5

(* The start of a worker's job.                                             *)
LEMMA TakeJobIs ==
  ASSUME Inventory!InventoryAssumption, InventoryTypes, NEW w \in DOMAIN job, Inventory!TakeJob(w)
  PROVE  \E f \in todo :
           /\ f \in Inventory!Files /\ job[w] = Inventory!Idle /\ job'[w].file = f
           /\ job'[w] \in FailedJob \cup OpenJob
           /\ todo' = todo \ {f}
           /\ job' = [job EXCEPT ![w] = job'[w]]
           /\ job'[w].size = tree[f]
           /\ job'[w].result = IF tree[f] \in Contents THEN "open" ELSE "error"
<1> DEFINE f == Inventory!Min(todo)
           e == [file |-> f, size |-> tree[f],
                 result |-> IF tree[f] \in Contents THEN "open" ELSE "error"]
<1>1. f \in todo /\ f \in Inventory!Files
  <2>1. todo # {} /\ todo \subseteq Nat /\ todo \subseteq Inventory!Files
    BY DEF Inventory!TakeJob, InventoryTypes, Inventory!Files, Inventory!InventoryAssumption
  <2>2. QED
    BY <2>1, MinIsIn
<1>2. job' = [job EXCEPT ![w] = e] /\ todo' = todo \ {f} /\ job[w].file = 0
  BY DEF Inventory!TakeJob
<1> HIDE DEF f
<1>3. e \in FailedJob \cup OpenJob
  BY <1>1 DEF FailedJob, OpenJob, InventoryTypes
<1>4. /\ e.file = f /\ e.size = tree[f]
      /\ e.result = IF tree[f] \in Contents THEN "open" ELSE "error"
  OBVIOUS
<1> HIDE DEF e
<1>5. job'[w] = e /\ job[w] \in JobType
  BY <1>2 DEF InventoryTypes, JobType
<1>6. job[w] = Inventory!Idle
  BY <1>2, <1>5, JobFacts
<1>7. QED
  BY <1>1, <1>2, <1>3, <1>4, <1>5, <1>6

(* The end of a worker's job.                                               *)
LEMMA HashIs ==
  ASSUME Inventory!InventoryAssumption, InventoryTypes, NEW w \in DOMAIN job, Inventory!Hash(w)
  PROVE  /\ job[w] \in OpenJob /\ job'[w] \in DoneJob \cup FailedJob
         /\ job'[w].file = job[w].file /\ job'[w].size = job[w].size
         /\ job' = [job EXCEPT ![w] = job'[w]]
         /\ \/ /\ UNCHANGED used
               /\ job'[w].result = IF tree[job[w].file] = "none" THEN "error"
                                   ELSE tree[job[w].file]
            \/ job'[w].result = "error" /\ "read" \in used'.faults
         /\ used' \in UsedType
         /\ used.faults \subseteq used'.faults
<1>1. job[w] \in OpenJob
  BY JobFacts DEF Inventory!Hash, InventoryTypes, JobType
<1>2. job[w].file \in Inventory!Files /\ job[w].size \in Contents
      /\ tree[job[w].file] \in Contents \cup {"none", "link"}
  BY <1>1 DEF OpenJob, InventoryTypes
<1>3. PICK r : /\ job' = [job EXCEPT ![w].result = r]
               /\ \/ /\ UNCHANGED used
                     /\ r = IF tree[job[w].file] = "none" THEN "error" ELSE tree[job[w].file]
                  \/ r = "error" /\ Inventory!Fails("read")
  BY Zenon DEF Inventory!Hash
<1>4. r \in Contents \cup {"link"} \/ r = "error"
  BY <1>2, <1>3
<1>5. job'[w] = [job[w] EXCEPT !.result = r]
  BY <1>3 DEF InventoryTypes
<1>6. job'[w] = [file |-> job[w].file, size |-> job[w].size, result |-> r]
  BY <1>1, <1>5 DEF OpenJob
<1>7. job'[w] \in DoneJob \cup FailedJob
  BY <1>2, <1>4, <1>6 DEF DoneJob, FailedJob
<1>8. job' = [job EXCEPT ![w] = job'[w]]
  BY <1>3, <1>5
<1>9. /\ used' \in UsedType
      /\ used.faults \subseteq used'.faults
  <2>1. CASE UNCHANGED used
    BY <2>1 DEF InventoryTypes
  <2>2. CASE Inventory!Fails("read")
    BY <2>2 DEF Inventory!Fails, InventoryTypes, Inventory!Kinds, UsedType
  <2>3. QED
    BY <1>3, <2>1, <2>2
<1>10. r = "error" /\ Inventory!Fails("read") => "read" \in used'.faults
  BY DEF Inventory!Fails, InventoryTypes, UsedType
<1>11. QED
  BY <1>1, <1>3, <1>6, <1>7, <1>8, <1>9, <1>10

(* The next-state relation, the steps on the scan apart from the others.    *)
AsideSteps ==
  \/ Inventory!PeriodicCheck \/ Inventory!PoolEnds
  \/ Inventory!Start \/ Inventory!Corrupt \/ Inventory!RemoveState
  \/ \E f \in Inventory!Files : Inventory!Change(f)
EndingStep ==
  \/ Inventory!NotAuthentic \/ Inventory!Passes \/ Inventory!Differs
  \/ Inventory!BaselineFails \/ Inventory!Persist \/ Inventory!Crash
  \/ Inventory!StateUnreadable

(* The goroutines are gone and the check is over.                           *)
CheckEnded ==
  /\ expected' = Inventory!Absent /\ todo' = {} /\ job' = <<>> /\ results' = <<>>
  /\ records' = <<>> /\ firstErr' = FALSE /\ pc' \in {"down", "running"}

(* The steps that end a check leave nothing of it, and the tree alone.      *)
LEMMA EndingSteps ==
  ASSUME InventoryTypes, EndingStep
  PROVE  /\ CheckEnded /\ UNCHANGED <<procs, tree, touched>>
         /\ used.faults \subseteq used'.faults /\ used' \in UsedType
         /\ ~Inventory!Persist => UNCHANGED state
         /\ UNCHANGED alarmed \/ (alarmed' = TRUE /\ pc' = "down")
<1>1. CheckEnded /\ UNCHANGED <<procs, tree, touched>>
  <2>1. UNCHANGED <<procs, tree, touched>>
    BY Zenon DEF EndingStep, Inventory!NotAuthentic, Inventory!Passes, Inventory!Differs,
       Inventory!BaselineFails, Inventory!Persist, Inventory!Crash, Inventory!StateUnreadable,
       Inventory!Alarm,
       Inventory!disk
  <2>2. Inventory!Return("down") \/ Inventory!Return("running")
    BY Zenon DEF EndingStep, Inventory!NotAuthentic, Inventory!Passes, Inventory!Differs,
       Inventory!BaselineFails, Inventory!Persist, Inventory!Crash, Inventory!StateUnreadable, Inventory!Alarm
  <2>3. QED
    BY <2>1, <2>2 DEF CheckEnded, Inventory!Return
<1>2. UNCHANGED used \/ \E kind \in Inventory!Kinds : Inventory!Fails(kind)
  BY Zenon DEF EndingStep, Inventory!NotAuthentic, Inventory!Passes, Inventory!Differs,
     Inventory!BaselineFails, Inventory!Persist, Inventory!Crash, Inventory!StateUnreadable,
     Inventory!Alarm, Inventory!Kinds
<1>3. used.faults \subseteq used'.faults /\ used' \in UsedType
  <2>1. used \in UsedType
    BY DEF InventoryTypes, UsedType
  <2>2. CASE UNCHANGED used
    BY <2>1, <2>2
  <2>3. ASSUME NEW kind \in Inventory!Kinds, Inventory!Fails(kind)
        PROVE  used.faults \subseteq used'.faults /\ used' \in UsedType
    BY <2>1, <2>3 DEF Inventory!Fails, UsedType
  <2>4. QED
    BY <1>2, <2>2, <2>3
<1>4. ~Inventory!Persist => UNCHANGED state
  BY Zenon DEF EndingStep, Inventory!NotAuthentic, Inventory!Passes, Inventory!Differs,
     Inventory!BaselineFails, Inventory!Crash, Inventory!StateUnreadable, Inventory!Alarm, Inventory!disk
<1>5. UNCHANGED alarmed \/ (alarmed' = TRUE /\ pc' = "down")
  BY Zenon DEF EndingStep, Inventory!Passes, Inventory!BaselineFails, Inventory!Persist,
     Inventory!Crash, Inventory!NotAuthentic, Inventory!StateUnreadable, Inventory!Differs,
     Inventory!Alarm, Inventory!Return
<1>6. QED
  BY <1>1, <1>3, <1>4, <1>5

(* The start of a scan.                                                     *)
LEMMA WalkIs ==
  ASSUME Inventory!InventoryAssumption, InventoryTypes, AtRest, Inventory!Walk
  PROVE  /\ todo' = PresentFiles /\ records' = <<>> /\ results' = <<>> /\ firstErr' = FALSE
         /\ pc' = IF PresentFiles = {} THEN "judge" ELSE "pool"
         /\ job' \in Seq({Inventory!Idle}) /\ Len(job') \in Nat /\ Len(job') <= procs
         /\ \A w \in DOMAIN job' : job'[w] = Inventory!Idle
         /\ UNCHANGED <<procs, Inventory!disk, expected, alarmed, used>>
<1> DEFINE n == Inventory!PoolSize(PresentFiles)
<1>1. PresentFiles \subseteq Inventory!Files
  BY DEF PresentFiles
<1>2. n \in Nat /\ n <= procs
  BY <1>1, PoolSizeIs DEF InventoryTypes
<1>3. /\ todo' = PresentFiles /\ records' = <<>> /\ results' = <<>> /\ firstErr' = FALSE
      /\ pc' = IF PresentFiles = {} THEN "judge" ELSE "pool"
      /\ UNCHANGED <<procs, Inventory!disk, expected, alarmed, used>>
  BY DEF Inventory!Walk, PresentFiles, AtRest
<1>4. job' = <<>> \/ job' = [w \in 1..n |-> Inventory!Idle]
  BY DEF Inventory!Walk, PresentFiles
<1> HIDE DEF n
<1>5. procs \in Nat
  BY DEF InventoryTypes, Inventory!Workers
<1>6. CASE job' = <<>>
  BY <1>3, <1>5, <1>6
<1>7. CASE job' = [w \in 1..n |-> Inventory!Idle]
  BY <1>2, <1>3, <1>5, <1>7
<1>8. QED
  BY <1>4, <1>6, <1>7

(* A worker hands on its result.                                            *)
LEMMA SendIs ==
  ASSUME Inventory!InventoryAssumption, InventoryTypes, NEW w \in DOMAIN job, Inventory!SendResult(w)
  PROVE  /\ job[w] \in DoneJob \cup FailedJob /\ results' = Append(results, job[w])
         /\ job' = [job EXCEPT ![w] = Inventory!Idle] /\ Len(results) < Len(job)
BY JobFacts DEF Inventory!SendResult, InventoryTypes, JobType

(* The collector takes a result.                                            *)
LEMMA ReceiveIs ==
  ASSUME Inventory!InventoryAssumption, InventoryTypes, Inventory!Collect
  PROVE  /\ results # <<>> /\ results' = Tail(results)
         /\ 1 \in DOMAIN results /\ results[1] \in DoneJob \cup FailedJob
         /\ \/ results[1].result = "error" /\ firstErr' = TRUE /\ UNCHANGED records
            \/ /\ results[1] \in DoneJob /\ UNCHANGED firstErr
               /\ [path |-> results[1].file, size |-> results[1].size,
                   sha256 |-> results[1].result] \in RecordType
               /\ records' = Append(records, [path |-> results[1].file,
                      size |-> results[1].size, sha256 |-> results[1].result])
<1>1. results # <<>> /\ results' = Tail(results)
  BY DEF Inventory!Collect, Inventory!Receive
<1>2. 1 \in DOMAIN results /\ results[1] \in DoneJob \cup FailedJob /\ Head(results) = results[1]
  BY <1>1 DEF InventoryTypes, ResultType
<1>3. results[1].result # "error" => results[1] \in DoneJob
  BY <1>2 DEF FailedJob
<1>4. results[1] \in DoneJob => [path |-> results[1].file, size |-> results[1].size,
                                 sha256 |-> results[1].result] \in RecordType
  BY DEF DoneJob, RecordType
<1>5. \/ results[1].result = "error" /\ firstErr' = TRUE /\ UNCHANGED records
      \/ /\ results[1].result # "error" /\ UNCHANGED firstErr
         /\ records' = Append(records, [path |-> results[1].file,
                size |-> results[1].size, sha256 |-> results[1].result])
  BY <1>2, Zenon DEF Inventory!Collect, Inventory!Receive
<1>6. QED
  BY <1>1, <1>2, <1>3, <1>4, <1>5

LEMMA InventorySteps ==
  ASSUME Inventory!Next
  PROVE  \/ AsideSteps \/ EndingStep \/ Inventory!Load \/ Inventory!Walk \/ Inventory!Collect
         \/ \E w \in DOMAIN job :
              Inventory!TakeJob(w) \/ Inventory!Hash(w) \/ Inventory!SendResult(w)
BY Zenon DEF Inventory!Next, Inventory!Scan, AsideSteps, EndingStep


(* Facts about sequences.                                                   *)
LEMMA SeqUpdate ==
  ASSUME NEW S, NEW s \in Seq(S), NEW w \in DOMAIN s, NEW e \in S
  PROVE  /\ [s EXCEPT ![w] = e] \in Seq(S) /\ Len([s EXCEPT ![w] = e]) = Len(s)
         /\ DOMAIN [s EXCEPT ![w] = e] = DOMAIN s
         /\ \A v \in DOMAIN s : [s EXCEPT ![w] = e][v] = IF v = w THEN e ELSE s[v]
<1>1. Len(s) \in Nat /\ DOMAIN s = 1..Len(s) /\ s \in [1..Len(s) -> S]
  OBVIOUS
<1>2. [s EXCEPT ![w] = e] \in [1..Len(s) -> S]
  BY <1>1
<1>3. QED
  BY <1>1, <1>2

LEMMA SeqAppend ==
  ASSUME NEW S, NEW s \in Seq(S), NEW e \in S
  PROVE  /\ Append(s, e) \in Seq(S) /\ Len(Append(s, e)) = Len(s) + 1
         /\ DOMAIN Append(s, e) = DOMAIN s \cup {Len(s) + 1}
         /\ Append(s, e)[Len(s) + 1] = e /\ Len(s) + 1 \notin DOMAIN s
         /\ \A v \in DOMAIN s : Append(s, e)[v] = s[v]
OBVIOUS

LEMMA SeqTail ==
  ASSUME NEW S, NEW s \in Seq(S), s # <<>>
  PROVE  /\ Tail(s) \in Seq(S) /\ Len(Tail(s)) = Len(s) - 1 /\ Len(s) \in Nat
         /\ \A v \in DOMAIN Tail(s) : v + 1 \in DOMAIN s /\ Tail(s)[v] = s[v + 1] /\ v \in Nat
         /\ \A v \in DOMAIN s : v # 1 => v - 1 \in DOMAIN Tail(s) /\ Tail(s)[v - 1] = s[v]
OBVIOUS

(* The steps that leave the scan alone.                                     *)
LEMMA AsideStepsAre ==
  ASSUME Inventory!InventoryAssumption, InventoryTypes, AsideSteps
  PROVE  /\ UNCHANGED <<procs, Inventory!scan>> /\ used' \in UsedType
         /\ used.faults \subseteq used'.faults
         /\ pc' \in {"down", "load", "walk", "pool", "judge", "running"}
<1>0. MaxReboots \in Nat /\ MaxChanges \in Nat /\ used \in UsedType
  BY DEF Inventory!InventoryAssumption, InventoryTypes, UsedType
<1>1. UNCHANGED <<procs, Inventory!scan>>
  BY Zenon DEF AsideSteps, Inventory!PeriodicCheck, Inventory!Start, Inventory!Corrupt,
     Inventory!RemoveState, Inventory!Change, Inventory!PoolEnds, Inventory!scan
<1>2. \/ UNCHANGED used \/ Inventory!Fails("corrupt")
      \/ used.starts < MaxReboots /\ used' = [used EXCEPT !.starts = @ + 1]
      \/ used.changes < MaxChanges /\ used' = [used EXCEPT !.changes = @ + 1]
  BY Zenon DEF AsideSteps, Inventory!PeriodicCheck, Inventory!Start, Inventory!Corrupt,
     Inventory!RemoveState, Inventory!Change, Inventory!PoolEnds
<1>3. used' \in UsedType /\ used.faults \subseteq used'.faults
  <2>1. CASE UNCHANGED used
    BY <2>1 DEF InventoryTypes, UsedType
  <2>2. CASE Inventory!Fails("corrupt")
    BY <2>2 DEF InventoryTypes, UsedType, Inventory!Fails, Inventory!Kinds
  <2>3. CASE used.starts < MaxReboots /\ used' = [used EXCEPT !.starts = @ + 1]
    BY <1>0, <2>3 DEF UsedType
  <2>4. CASE used.changes < MaxChanges /\ used' = [used EXCEPT !.changes = @ + 1]
    BY <1>0, <2>4 DEF UsedType
  <2>5. QED
    BY <1>2, <2>1, <2>2, <2>3, <2>4
<1>4. UNCHANGED pc \/ pc' \in {"load", "judge"}
  BY Zenon DEF AsideSteps, Inventory!PeriodicCheck, Inventory!Start, Inventory!Corrupt,
     Inventory!RemoveState, Inventory!Change, Inventory!PoolEnds
<1>5. QED
  BY <1>1, <1>3, <1>4 DEF InventoryTypes

(* Every step keeps the types.                                              *)
LEMMA TypesStep ==
  ASSUME Inventory!InventoryAssumption, InventoryTypes, AtRest, Inventory!Next
  PROVE  InventoryTypes'
<1>0. procs \in Nat /\ Len(job) \in Nat /\ Len(results) \in Nat
  BY DEF InventoryTypes, Inventory!Workers
<1>1. CASE Inventory!Walk
  <2>1. Seq({Inventory!Idle}) \subseteq Seq(JobType)
    BY DEF JobType
  <2>2. UNCHANGED <<procs, tree, state, touched, expected, alarmed, used>>
    BY <1>1, WalkIs DEF Inventory!disk
  <2>3. Len(results') <= Len(job') /\ results' \in Seq(ResultType) /\ records' \in Seq(RecordType)
    BY <1>1, WalkIs
  <2>4. pc' \in {"judge", "pool"} /\ todo' \subseteq Inventory!Files
    BY <1>1, WalkIs DEF PresentFiles
  <2>5. QED
    BY <1>1, <2>1, <2>2, <2>3, <2>4, WalkIs DEF InventoryTypes
<1>2. ASSUME NEW w \in DOMAIN job, Inventory!TakeJob(w)
      PROVE  InventoryTypes'
  <2>1. job' \in Seq(JobType) /\ Len(job') = Len(job)
    <3>1. job'[w] \in JobType /\ job' = [job EXCEPT ![w] = job'[w]] /\ job \in Seq(JobType)
      BY <1>2, TakeJobIs DEF InventoryTypes, JobType
    <3>2. QED
      BY <3>1, SeqUpdate
  <2>2. todo' \subseteq Inventory!Files
    BY <1>2, TakeJobIs DEF InventoryTypes
  <2>3. UNCHANGED <<procs, tree, state, touched, pc, expected, results, records, firstErr,
                    alarmed, used>>
    BY <1>2 DEF Inventory!TakeJob, Inventory!disk
  <2>4. QED
    BY <2>1, <2>2, <2>3 DEF InventoryTypes
<1>3. ASSUME NEW w \in DOMAIN job, Inventory!Hash(w)
      PROVE  InventoryTypes'
  <2>1. job' \in Seq(JobType) /\ Len(job') = Len(job)
    <3>1. job'[w] \in JobType /\ job' = [job EXCEPT ![w] = job'[w]] /\ job \in Seq(JobType)
      BY <1>3, HashIs DEF InventoryTypes, JobType
    <3>2. QED
      BY <3>1, SeqUpdate
  <2>2. UNCHANGED <<procs, tree, state, touched, pc, expected, todo, results, records, firstErr,
                    alarmed>>
    BY <1>3 DEF Inventory!Hash, Inventory!disk
  <2>3. QED
    BY <1>3, <2>1, <2>2, HashIs DEF InventoryTypes
<1>4. ASSUME NEW w \in DOMAIN job, Inventory!SendResult(w)
      PROVE  InventoryTypes'
  <2>1. job' \in Seq(JobType) /\ Len(job') = Len(job)
    <3>1. Inventory!Idle \in JobType /\ job' = [job EXCEPT ![w] = Inventory!Idle] /\ job \in Seq(JobType)
      BY <1>4, SendIs DEF InventoryTypes, JobType
    <3>2. QED
      BY <3>1, SeqUpdate
  <2>2. results' \in Seq(ResultType) /\ Len(results') <= Len(job)
    <3>1. /\ results' = Append(results, job[w]) /\ Len(results) < Len(job)
          /\ job[w] \in ResultType /\ results \in Seq(ResultType)
      BY <1>4, SendIs DEF InventoryTypes, ResultType
    <3>2. QED
      BY <1>0, <3>1, SeqAppend
  <2>3. UNCHANGED <<procs, tree, state, touched, pc, expected, todo, records, firstErr,
                    alarmed, used>>
    BY <1>4 DEF Inventory!SendResult, Inventory!disk
  <2>4. QED
    BY <2>1, <2>2, <2>3 DEF InventoryTypes
<1>5. CASE Inventory!Collect
  <2>1. results' \in Seq(ResultType) /\ Len(results') <= Len(job)
    <3>1. /\ results' = Tail(results) /\ results # <<>>
          /\ results \in Seq(ResultType) /\ Len(results) <= Len(job)
      BY <1>5, ReceiveIs DEF InventoryTypes
    <3>2. QED
      BY <1>0, <3>1, SeqTail
  <2>2. records' \in Seq(RecordType) /\ firstErr' \in BOOLEAN
    <3>1. records \in Seq(RecordType) /\ firstErr \in BOOLEAN
      BY DEF InventoryTypes
    <3>2. QED
      <4>1. CASE UNCHANGED records /\ firstErr' = TRUE
        BY <3>1, <4>1
      <4>2. CASE UNCHANGED firstErr /\ \E e \in RecordType : records' = Append(records, e)
        BY <3>1, <4>2
      <4>3. QED
        BY <1>5, <4>1, <4>2, ReceiveIs, Zenon
  <2>3. UNCHANGED <<procs, tree, state, touched, pc, expected, todo, job, alarmed, used>>
    BY <1>5 DEF Inventory!Collect, Inventory!Receive, Inventory!disk
  <2>4. QED
    BY <2>1, <2>2, <2>3 DEF InventoryTypes
<1>6. CASE Inventory!Load
  BY <1>6 DEF Inventory!Load, InventoryTypes
<1>7. CASE AsideSteps
  <2>1. UNCHANGED <<procs, expected, todo, job, results, records, firstErr>> /\ used' \in UsedType
        /\ pc' \in {"down", "load", "walk", "pool", "judge", "running"}
    BY <1>7, AsideStepsAre DEF Inventory!scan
  <2>2. touched' \in BOOLEAN /\ alarmed' \in BOOLEAN
    <3>1. (UNCHANGED touched \/ touched' = TRUE) /\ (UNCHANGED alarmed \/ alarmed' = FALSE)
      BY <1>7, Zenon DEF AsideSteps, Inventory!PeriodicCheck, Inventory!Start,
         Inventory!Corrupt, Inventory!RemoveState, Inventory!Change, Inventory!PoolEnds,
         Inventory!disk
    <3>2. QED
      BY <3>1 DEF InventoryTypes
  <2>3. tree' \in [Inventory!Files -> Contents \cup {"none", "link"}]
    <3>1. \/ UNCHANGED tree
          \/ \E f \in Inventory!Files : \E c \in Contents \cup {"none", "link"} :
               tree' = [tree EXCEPT ![f] = c]
      BY <1>7, Zenon DEF AsideSteps, Inventory!PeriodicCheck, Inventory!Start,
         Inventory!Corrupt, Inventory!RemoveState, Inventory!Change, Inventory!PoolEnds,
         Inventory!disk
    <3>2. QED
      BY <3>1 DEF InventoryTypes
  <2>4. state'.kind \in {"absent", "corrupt", "authentic"} /\ state'.files \in Seq(RecordType)
    <3>1. UNCHANGED state \/ Inventory!Corrupt \/ state' = Inventory!Absent
      BY <1>7, Zenon DEF AsideSteps, Inventory!PeriodicCheck, Inventory!Start,
         Inventory!RemoveState, Inventory!Change, Inventory!PoolEnds, Inventory!disk
    <3>2. CASE Inventory!Corrupt
      <4>1. state' = [state EXCEPT !.kind = "corrupt"]
        BY <3>2 DEF Inventory!Corrupt
      <4>2. QED
        BY <4>1 DEF InventoryTypes
    <3>3. QED
      <4>1. CASE UNCHANGED state
        BY <4>1 DEF InventoryTypes
      <4>2. CASE state' = Inventory!Absent
        BY <4>2 DEF Inventory!Absent
      <4>3. QED
        BY <3>1, <3>2, <4>1, <4>2
  <2>5. QED
    BY <2>1, <2>2, <2>3, <2>4 DEF InventoryTypes, UsedType
<1>8. CASE EndingStep
  <2>1. CheckEnded /\ UNCHANGED <<procs, tree, touched>> /\ used' \in UsedType
    BY <1>8, EndingSteps
  <2>2. alarmed' \in BOOLEAN
    BY <1>8, EndingSteps DEF InventoryTypes
  <2>3. state'.kind \in {"absent", "corrupt", "authentic"} /\ state'.files \in Seq(RecordType)
    <3>1. \/ UNCHANGED state
          \/ state' = [kind |-> "authentic", files |-> Inventory!canonicalVerifyRecords(records)]
      BY <1>8, EndingSteps, Zenon DEF Inventory!Persist
    <3>2. Inventory!canonicalVerifyRecords(records) \in Seq(RecordType)
      BY CanonicalIs, OrderIsFaithful DEF InventoryTypes
    <3>3. QED
      BY <3>1, <3>2 DEF InventoryTypes
  <2>4. QED
    <3>1. /\ expected'.kind \in {"absent", "authentic"} /\ expected'.files \in Seq(RecordType)
          /\ todo' \subseteq Inventory!Files /\ job' \in Seq(JobType) /\ results' \in Seq(ResultType)
          /\ records' \in Seq(RecordType) /\ firstErr' \in BOOLEAN
          /\ pc' \in {"down", "load", "walk", "pool", "judge", "running"}
      <4>1. /\ expected' = Inventory!Absent /\ todo' = {} /\ job' = <<>> /\ results' = <<>>
            /\ records' = <<>> /\ firstErr' = FALSE /\ pc' \in {"down", "running"}
        BY <2>1 DEF CheckEnded
      <4>2. Inventory!Absent.kind = "absent" /\ Inventory!Absent.files = <<>>
        BY DEF Inventory!Absent
      <4>3. <<>> \in Seq(RecordType) /\ <<>> \in Seq(JobType) /\ <<>> \in Seq(ResultType)
        OBVIOUS
      <4>4. /\ expected'.kind \in {"absent", "authentic"} /\ expected'.files \in Seq(RecordType)
            /\ job' \in Seq(JobType) /\ results' \in Seq(ResultType) /\ records' \in Seq(RecordType)
        BY <4>1, <4>2, <4>3, Zenon
      <4>5. todo' \subseteq Inventory!Files /\ firstErr' \in BOOLEAN
            /\ pc' \in {"down", "load", "walk", "pool", "judge", "running"}
        BY <4>1, Zenon
      <4>6. QED
        BY <4>4, <4>5
    <3>2. Len(job') <= procs' /\ Len(results') <= Len(job')
      BY <1>0, <2>1 DEF CheckEnded
    <3>3. QED
      BY <2>1, <2>2, <2>3, <3>1, <3>2 DEF InventoryTypes, UsedType
<1>9. QED
  BY <1>1, <1>2, <1>3, <1>4, <1>5, <1>6, <1>7, <1>8, InventorySteps

(* Outside a scan there is nothing left of one, and an alarm ends the       *)
(* process.                                                                 *)
LEMMA RestStep ==
  ASSUME Inventory!InventoryAssumption, InventoryTypes, AtRest, Inventory!Next
  PROVE  AtRest'
<1>1. CASE Inventory!Walk
  <2>1. pc = "walk" /\ UNCHANGED alarmed
    BY <1>1, WalkIs DEF Inventory!Walk
  <2>2. ~alarmed'
    BY <2>1 DEF AtRest, InventoryTypes
  <2>3. QED
    BY <1>1, <2>2, WalkIs DEF AtRest
<1>2. ASSUME pc = "pool", UNCHANGED <<pc, alarmed>>
      PROVE  AtRest'
  BY <1>2 DEF AtRest
<1>3. ASSUME NEW w \in DOMAIN job, Inventory!TakeJob(w) \/ Inventory!Hash(w) \/ Inventory!SendResult(w)
      PROVE  AtRest'
  <2>1. pc = "pool" /\ UNCHANGED <<pc, alarmed>>
    BY <1>3, Zenon DEF Inventory!TakeJob, Inventory!Hash, Inventory!SendResult
  <2>2. QED
    BY <1>2, <2>1
<1>4. CASE Inventory!Collect
  <2>1. pc = "pool" /\ UNCHANGED <<pc, alarmed>>
    BY <1>4, Zenon DEF Inventory!Collect, Inventory!Receive
  <2>2. QED
    BY <1>2, <2>1
<1>5. CASE Inventory!Load
  BY <1>5 DEF Inventory!Load, AtRest
<1>6. CASE EndingStep
  <2>1. CheckEnded
    BY <1>6, EndingSteps
  <2>2. alarmed' => pc' = "down"
    <3>1. pc # "down"
      BY <1>6 DEF EndingStep, Inventory!NotAuthentic, Inventory!Passes, Inventory!Differs,
         Inventory!BaselineFails, Inventory!Persist, Inventory!Crash, Inventory!StateUnreadable
    <3>2. QED
      BY <1>6, <3>1, EndingSteps DEF AtRest
  <2>3. QED
    BY <2>1, <2>2 DEF CheckEnded, AtRest
<1>7. CASE AsideSteps
  <2>1. UNCHANGED <<todo, job, results, records, firstErr>>
    BY <1>7, AsideStepsAre DEF Inventory!scan
  <2>2. CASE Inventory!PoolEnds
    <3>1. pc = "pool" /\ pc' = "judge" /\ UNCHANGED alarmed
          /\ todo = {} /\ results = <<>> /\ \A w \in DOMAIN job : job[w] = Inventory!Idle
      BY <2>2 DEF Inventory!PoolEnds
    <3>2. QED
      BY <2>1, <3>1 DEF AtRest
  <2>3. CASE ~Inventory!PoolEnds
    <3>1. \/ UNCHANGED pc /\ (UNCHANGED alarmed \/ alarmed' = FALSE)
          \/ pc = "running" /\ pc' = "load" /\ UNCHANGED alarmed
          \/ pc = "down" /\ pc' = "load" /\ alarmed' = FALSE
      BY <1>7, <2>3, Zenon DEF AsideSteps, Inventory!PeriodicCheck, Inventory!Start,
         Inventory!Corrupt, Inventory!RemoveState, Inventory!Change
    <3>2. QED
      BY <2>1, <3>1 DEF AtRest
  <2>4. QED
    BY <2>2, <2>3
<1>8. QED
  BY <1>1, <1>3, <1>4, <1>5, <1>6, <1>7, InventorySteps

(* No file is at two places of the pool, or twice at one.                   *)
LEMMA FilesApartStep ==
  ASSUME Inventory!InventoryAssumption, InventoryTypes, AtRest, FilesApart, Inventory!Next
  PROVE  FilesApart'
<1>0. /\ DOMAIN job = 1..Len(job) /\ \A w \in DOMAIN job : job[w] \in JobType
      /\ \A i \in DOMAIN results : results[i] \in ResultType /\ results[i].file \in Inventory!Files
      /\ \A i \in DOMAIN records : records[i] \in RecordType /\ records[i].path \in Inventory!Files
      /\ \A w \in DOMAIN job : job[w].file \in Inventory!Files \cup {0}
      /\ 0 \notin Inventory!Files
  <2>1. \A e \in ResultType : e.file \in Inventory!Files
    BY DEF ResultType, DoneJob, FailedJob
  <2>2. \A e \in RecordType : e.path \in Inventory!Files
    BY DEF RecordType
  <2>3. /\ DOMAIN job = 1..Len(job) /\ \A w \in DOMAIN job : job[w] \in JobType
        /\ \A i \in DOMAIN results : results[i] \in ResultType
        /\ \A i \in DOMAIN records : records[i] \in RecordType
    BY DEF InventoryTypes
  <2>4. QED
    BY <2>1, <2>2, <2>3, JobFacts DEF Inventory!Files
<1>1. CASE UNCHANGED <<todo, job, results, records>>
  BY <1>1 DEF FilesApart
<1>2. CASE todo' = {} /\ job' = <<>> /\ results' = <<>> /\ records' = <<>>
  BY <1>2 DEF FilesApart
<1>3. CASE Inventory!Walk
  <2>1. results' = <<>> /\ records' = <<>> /\ todo' \subseteq Inventory!Files
        /\ \A w \in DOMAIN job' : job'[w].file = 0
    BY <1>3, WalkIs DEF PresentFiles, Inventory!Idle
  <2>2. QED
    BY <1>0, <2>1 DEF FilesApart
<1>4. ASSUME NEW w \in DOMAIN job, Inventory!TakeJob(w)
      PROVE  FilesApart'
  <2>1. PICK f \in todo : /\ f \in Inventory!Files /\ job[w] = Inventory!Idle /\ job'[w].file = f
                          /\ todo' = todo \ {f} /\ job' = [job EXCEPT ![w] = job'[w]]
    BY <1>4, TakeJobIs
  <2>2. UNCHANGED <<results, records>>
    BY <1>4 DEF Inventory!TakeJob
  <2>3. DOMAIN job' = DOMAIN job /\ \A v \in DOMAIN job : v # w => job'[v] = job[v]
    BY <2>1
  <2>4. QED
    BY <1>0, <2>1, <2>2, <2>3 DEF FilesApart
<1>5. ASSUME NEW w \in DOMAIN job, Inventory!Hash(w)
      PROVE  FilesApart'
  <2>1. job'[w].file = job[w].file /\ job' = [job EXCEPT ![w] = job'[w]]
    BY <1>5, HashIs
  <2>2. UNCHANGED <<todo, results, records>>
    BY <1>5 DEF Inventory!Hash
  <2>3. DOMAIN job' = DOMAIN job /\ \A v \in DOMAIN job : job'[v].file = job[v].file
    BY <2>1
  <2>4. QED
    BY <2>2, <2>3 DEF FilesApart
<1>6. ASSUME NEW w \in DOMAIN job, Inventory!SendResult(w)
      PROVE  FilesApart'
  <2>1. /\ job[w] \in ResultType /\ results' = Append(results, job[w])
        /\ job' = [job EXCEPT ![w] = Inventory!Idle]
    BY <1>6, SendIs DEF ResultType
  <2>2. UNCHANGED <<todo, records>>
    BY <1>6 DEF Inventory!SendResult
  <2>3. /\ DOMAIN job' = DOMAIN job /\ job'[w].file = 0
        /\ \A v \in DOMAIN job : v # w => job'[v] = job[v]
    BY <2>1 DEF Inventory!Idle
  <2>4. job[w].file \in Inventory!Files
    BY <2>1 DEF ResultType, DoneJob, FailedJob
  <2>5. /\ DOMAIN results' = DOMAIN results \cup {Len(results) + 1}
        /\ Len(results) + 1 \notin DOMAIN results
        /\ results'[Len(results) + 1] = job[w]
        /\ \A i \in DOMAIN results : results'[i] = results[i]
    <3>1. results \in Seq(ResultType)
      BY DEF InventoryTypes
    <3>2. QED
      BY <2>1, <3>1, SeqAppend
  <2>6. \A i \in DOMAIN results' :
           \/ results'[i].file = job[w].file
           \/ i \in DOMAIN results /\ results'[i] = results[i]
    BY <2>5
  <2>7. /\ \A v \in DOMAIN job' : job'[v].file \notin todo'
        /\ \A i \in DOMAIN records' : records'[i].path \notin todo'
        /\ \A v \in DOMAIN job', i \in DOMAIN records' : job'[v].file # records'[i].path
        /\ \A u, v \in DOMAIN job' : job'[u].file = job'[v].file => u = v \/ job'[u].file = 0
        /\ \A i, j \in DOMAIN records' : records'[i].path = records'[j].path => i = j
    <3>1. todo \subseteq Inventory!Files
      BY DEF InventoryTypes
    <3>2. QED
      BY <1>0, <2>2, <2>3, <3>1 DEF FilesApart
  <2>8. \A i \in DOMAIN results' : results'[i].file \notin todo'
    BY <2>2, <2>6 DEF FilesApart
  <2>9. \A v \in DOMAIN job', i \in DOMAIN results' : job'[v].file # results'[i].file
    BY <1>0, <2>3, <2>4, <2>6 DEF FilesApart
  <2>10. \A i \in DOMAIN results', j \in DOMAIN records' : results'[i].file # records'[j].path
    BY <2>2, <2>6 DEF FilesApart
  <2>11. \A i, j \in DOMAIN results' : results'[i].file = results'[j].file => i = j
    BY <2>5 DEF FilesApart
  <2>12. QED
    BY <2>7, <2>8, <2>9, <2>10, <2>11 DEF FilesApart
<1>7. CASE Inventory!Collect
  <2>1. /\ UNCHANGED <<todo, job>>
        /\ results' = Tail(results) /\ results # <<>> /\ 1 \in DOMAIN results
    BY <1>7, ReceiveIs DEF Inventory!Collect, Inventory!Receive
  <2>2. \A i \in DOMAIN results' :
           i + 1 \in DOMAIN results /\ results'[i] = results[i + 1] /\ i \in Nat /\ i # 0
    <3>1. results \in Seq(ResultType)
      BY DEF InventoryTypes
    <3>2. QED
      BY <2>1, <3>1
  <2>3. /\ \A i \in DOMAIN results' :
             results'[i].file \notin todo' /\ results'[i].file # results[1].file
        /\ \A v \in DOMAIN job', i \in DOMAIN results' : job'[v].file # results'[i].file
        /\ \A i \in DOMAIN results', j \in DOMAIN records : results'[i].file # records[j].path
    <3>1. \A i \in DOMAIN results' : i + 1 # 1
      BY <2>2
    <3>2. QED
      BY <2>1, <2>2, <3>1 DEF FilesApart
  <2>4. \A i, j \in DOMAIN results' : results'[i].file = results'[j].file => i = j
    <3> SUFFICES ASSUME NEW i \in DOMAIN results', NEW j \in DOMAIN results',
                        results'[i].file = results'[j].file
                 PROVE  i = j
      OBVIOUS
    <3>1. i + 1 = j + 1
      BY <2>2 DEF FilesApart
    <3>2. QED
      BY <2>2, <3>1
  <2>5. CASE UNCHANGED records
    BY <2>1, <2>3, <2>4, <2>5 DEF FilesApart
  <2>6. ASSUME NEW e \in RecordType, e.path = results[1].file, records' = Append(records, e)
        PROVE  FilesApart'
    <3>1. /\ DOMAIN records' = DOMAIN records \cup {Len(records) + 1}
          /\ Len(records) + 1 \notin DOMAIN records
          /\ records'[Len(records) + 1] = e
          /\ \A i \in DOMAIN records : records'[i] = records[i]
      <4>1. records \in Seq(RecordType)
        BY DEF InventoryTypes
      <4>2. QED
        BY <2>6, <4>1, SeqAppend
    <3>2. \A i \in DOMAIN records' :
             \/ records'[i].path = results[1].file
             \/ i \in DOMAIN records /\ records'[i] = records[i]
      BY <2>6, <3>1
    <3>3. \A i \in DOMAIN records' : records'[i].path \notin todo'
      BY <2>1, <3>2 DEF FilesApart
    <3>4. \A v \in DOMAIN job', i \in DOMAIN records' : job'[v].file # records'[i].path
      BY <2>1, <3>2 DEF FilesApart
    <3>5. \A i \in DOMAIN results', j \in DOMAIN records' : results'[i].file # records'[j].path
      BY <2>3, <3>2
    <3>6. \A i, j \in DOMAIN records' : records'[i].path = records'[j].path => i = j
      BY <2>1, <2>6, <3>1 DEF FilesApart
    <3>7. QED
      BY <2>1, <2>3, <2>4, <3>3, <3>4, <3>5, <3>6 DEF FilesApart
  <2>7. QED
    <3>1. \/ UNCHANGED records
          \/ LET e == [path |-> results[1].file, size |-> results[1].size,
                       sha256 |-> results[1].result]
             IN e \in RecordType /\ records' = Append(records, e)
      BY <1>7, ReceiveIs
    <3>2. QED
      BY <2>5, <2>6, <3>1
<1>8. CASE Inventory!Load
  <2>1. UNCHANGED <<todo, job, results, records>>
    BY <1>8 DEF Inventory!Load
  <2>2. QED
    BY <1>1, <2>1
<1>9. CASE AsideSteps
  <2>1. UNCHANGED <<todo, job, results, records>>
    BY <1>9, AsideStepsAre DEF Inventory!scan
  <2>2. QED
    BY <1>1, <2>1
<1>10. CASE EndingStep
  <2>1. todo' = {} /\ job' = <<>> /\ results' = <<>> /\ records' = <<>>
    BY <1>10, EndingSteps DEF CheckEnded
  <2>2. QED
    BY <1>2, <2>1
<1>11. QED
  BY <1>3, <1>4, <1>5, <1>6, <1>7, <1>8, <1>9, <1>10, InventorySteps

(* While the tree is as the scan found it, what the pool holds is true.     *)
LEMMA HonestStep ==
  ASSUME Inventory!InventoryAssumption, InventoryTypes, AtRest, FilesApart, Honest, Inventory!Next
  PROVE  Honest'
<1> SUFFICES ASSUME Untouched'
             PROVE  HonestPool'
  BY DEF Honest
<1> USE DEF HonestPool
<1>1. ASSUME todo' = {}, job' = <<>>, results' = <<>>, records' = <<>>, pc' \notin {"pool", "judge"}
      PROVE  HonestPool'
  BY <1>1 DEF HonestTodo, HonestJobs, HonestResults, HonestRecords, HonestError, Covered,
     Somewhere
<1>2. ASSUME UNCHANGED <<tree, touched>>, used.faults \subseteq used'.faults
      PROVE  /\ HonestPool
             /\ PresentFiles' = PresentFiles
  <2>1. Untouched
    BY <1>2 DEF Untouched
  <2>2. QED
    BY <1>2, <2>1 DEF Honest, PresentFiles, TrueOf, FactOf
<1>3. CASE Inventory!Walk
  <2>1. UNCHANGED tree
    BY <1>3 DEF Inventory!Walk, Inventory!disk
  <2>2. PresentFiles' = PresentFiles
    BY <2>1 DEF PresentFiles
  <2>3. /\ todo' = PresentFiles /\ records' = <<>> /\ results' = <<>> /\ firstErr' = FALSE
        /\ \A w \in DOMAIN job' : job'[w] = Inventory!Idle
    BY <1>3, WalkIs
  <2>4. QED
    BY <2>2, <2>3 DEF HonestTodo, HonestJobs, HonestResults, HonestRecords, HonestError,
       Covered, Somewhere
<1>4. ASSUME NEW w \in DOMAIN job, Inventory!TakeJob(w)
      PROVE  HonestPool'
  <2>1. /\ HonestPool
        /\ PresentFiles' = PresentFiles
    BY <1>2, <1>4 DEF Inventory!TakeJob, Inventory!disk
  <2>2. UNCHANGED <<tree, pc, results, records, firstErr>>
    BY <1>4 DEF Inventory!TakeJob, Inventory!disk
  <2>3. PICK f \in todo : /\ job[w] = Inventory!Idle /\ job'[w].file = f
                          /\ todo' = todo \ {f} /\ job' = [job EXCEPT ![w] = job'[w]]
                          /\ job'[w].size = tree[f]
                          /\ job'[w].result = IF tree[f] \in Contents THEN "open" ELSE "error"
    BY <1>4, TakeJobIs
  <2>4. DOMAIN job' = DOMAIN job /\ \A v \in DOMAIN job : v # w => job'[v] = job[v]
    BY <2>3
  <2>5. HonestTodo'
    BY <2>1, <2>3 DEF HonestTodo
  <2>6. HonestJobs'
    <3>1. TrueOf(job'[w])
      BY <2>1, <2>3 DEF TrueOf, HonestTodo
    <3>2. \A v \in DOMAIN job' : job'[v] = Inventory!Idle \/ TrueOf(job'[v])
      BY <2>1, <2>4, <3>1 DEF HonestJobs
    <3>3. QED
      BY <2>2, <3>2 DEF HonestJobs, TrueOf, PresentFiles
  <2>7. HonestResults' /\ HonestRecords' /\ HonestError'
    BY <2>1, <2>2 DEF HonestResults, HonestRecords, HonestError, TrueOf, PresentFiles, FactOf
  <2>8. Covered'
    <3> SUFFICES ASSUME pc' \in {"pool", "judge"}, ~firstErr', NEW g \in PresentFiles'
                 PROVE  Somewhere(g)'
      BY DEF Covered
    <3>0. g \in PresentFiles /\ Somewhere(g)
      BY <2>1, <2>2 DEF Covered
    <3>1. CASE g = f
      BY <2>3, <2>4, <3>1 DEF Somewhere
    <3>2. ASSUME NEW v \in DOMAIN job, job[v].file = g
          PROVE  v # w
      BY <2>3, <3>0, <3>2 DEF Inventory!Idle, PresentFiles, Inventory!Files
    <3>3. QED
      BY <2>2, <2>3, <2>4, <3>0, <3>1, <3>2 DEF Somewhere
  <2>9. QED
    BY <2>5, <2>6, <2>7, <2>8
<1>5. ASSUME NEW w \in DOMAIN job, Inventory!Hash(w)
      PROVE  HonestPool'
  <2>1. /\ job[w] \in OpenJob /\ job' = [job EXCEPT ![w] = job'[w]]
        /\ job'[w].file = job[w].file /\ job'[w].size = job[w].size
        /\ used.faults \subseteq used'.faults
        /\ job'[w].result = IF tree[job[w].file] = "none" THEN "error" ELSE tree[job[w].file]
    BY <1>5, HashIs DEF Untouched
  <2>2. UNCHANGED <<tree, touched, pc, todo, results, records, firstErr>>
    BY <1>5 DEF Inventory!Hash, Inventory!disk
  <2>3. /\ HonestPool
        /\ PresentFiles' = PresentFiles
    BY <1>2, <2>1, <2>2
  <2>4. /\ DOMAIN job' = DOMAIN job /\ \A v \in DOMAIN job : v # w => job'[v] = job[v]
        /\ \A v \in DOMAIN job : job'[v].file = job[v].file
    BY <2>1
  <2>5. HonestJobs'
    <3>1. TrueOf(job[w])
      BY <2>1, <2>3, JobFacts DEF HonestJobs, JobType
    <3>2. job'[w].result = tree[job[w].file]
      BY <2>1, <3>1 DEF TrueOf, PresentFiles
    <3>3. tree[job[w].file] # "error"
      BY <2>1 DEF InventoryTypes, Inventory!InventoryAssumption, OpenJob
    <3>4. TrueOf(job'[w])
      BY <2>1, <3>1, <3>2, <3>3 DEF TrueOf
    <3>5. \A v \in DOMAIN job' : job'[v] = Inventory!Idle \/ TrueOf(job'[v])
      BY <2>3, <2>4, <3>4 DEF HonestJobs
    <3>6. QED
      BY <2>2, <3>5 DEF HonestJobs, TrueOf, PresentFiles
  <2>6. HonestTodo' /\ HonestResults' /\ HonestRecords' /\ HonestError'
    BY <2>2, <2>3 DEF HonestTodo, HonestResults, HonestRecords, HonestError, TrueOf,
       PresentFiles, FactOf
  <2>7. Covered'
    BY <2>2, <2>3, <2>4 DEF Covered, Somewhere
  <2>8. QED
    BY <2>5, <2>6, <2>7
<1>6. ASSUME NEW w \in DOMAIN job, Inventory!SendResult(w)
      PROVE  HonestPool'
  <2>1. /\ job[w] \in DoneJob \cup FailedJob /\ results' = Append(results, job[w])
        /\ job' = [job EXCEPT ![w] = Inventory!Idle]
    BY <1>6, SendIs
  <2>2. UNCHANGED <<tree, touched, pc, todo, records, firstErr, used>>
    BY <1>6 DEF Inventory!SendResult, Inventory!disk
  <2>3. /\ HonestPool
        /\ PresentFiles' = PresentFiles
    BY <1>2, <2>2
  <2>4. /\ DOMAIN job' = DOMAIN job /\ job'[w] = Inventory!Idle
        /\ \A v \in DOMAIN job : v # w => job'[v] = job[v]
    BY <2>1
  <2>5. /\ DOMAIN results' = DOMAIN results \cup {Len(results) + 1}
        /\ results'[Len(results) + 1] = job[w]
        /\ \A i \in DOMAIN results : results'[i] = results[i]
    <3>1. results \in Seq(ResultType) /\ job[w] \in ResultType
      BY <2>1 DEF InventoryTypes, ResultType
    <3>2. QED
      BY <2>1, <3>1, SeqAppend
  <2>6. HonestJobs'
    BY <2>2, <2>3, <2>4 DEF HonestJobs, TrueOf, PresentFiles
  <2>7. HonestResults'
    <3>1. TrueOf(job[w])
      BY <2>1, <2>3, JobFacts DEF HonestJobs, JobType
    <3>2. \A i \in DOMAIN results' : TrueOf(results'[i])
      BY <2>3, <2>5, <3>1 DEF HonestResults
    <3>3. QED
      BY <2>2, <3>2 DEF HonestResults, TrueOf, PresentFiles
  <2>8. HonestTodo' /\ HonestRecords' /\ HonestError'
    BY <2>2, <2>3 DEF HonestTodo, HonestRecords, HonestError, PresentFiles, FactOf
  <2>9. Covered'
    BY <2>2, <2>3, <2>4, <2>5 DEF Covered, Somewhere
  <2>10. QED
    BY <2>6, <2>7, <2>8, <2>9
<1>7. CASE Inventory!Collect
  <2>1. /\ UNCHANGED <<tree, touched, pc, todo, job, used>>
        /\ results' = Tail(results) /\ results # <<>>
    BY <1>7 DEF Inventory!Collect, Inventory!Receive, Inventory!disk
  <2>2. /\ HonestPool
        /\ PresentFiles' = PresentFiles
    BY <1>2, <2>1
  <2>3. 1 \in DOMAIN results /\ results[1] \in DoneJob \cup FailedJob /\ TrueOf(results[1])
    BY <1>7, <2>2, ReceiveIs DEF HonestResults
  <2>4. /\ \A i \in DOMAIN results' : i + 1 \in DOMAIN results /\ results'[i] = results[i + 1]
        /\ \A i \in DOMAIN results :
             i # 1 => i - 1 \in DOMAIN results' /\ results'[i - 1] = results[i]
    <3>1. results \in Seq(ResultType)
      BY DEF InventoryTypes
    <3>2. QED
      BY <2>1, <3>1, SeqTail
  <2>5. HonestTodo' /\ HonestJobs'
    BY <2>1, <2>2 DEF HonestTodo, HonestJobs, TrueOf, PresentFiles
  <2>6. HonestResults'
    <3>1. \A i \in DOMAIN results' : TrueOf(results'[i])
      BY <2>2, <2>4 DEF HonestResults
    <3>2. QED
      BY <2>1, <3>1 DEF HonestResults, TrueOf, PresentFiles
  <2>7. CASE results[1].result = "error" /\ firstErr' = TRUE /\ UNCHANGED records
    <3>1. HonestRecords'
      BY <2>1, <2>2, <2>7 DEF HonestRecords, PresentFiles, FactOf
    <3>2. results[1].file \in PresentFiles /\ tree[results[1].file] \notin Contents
      BY <2>3, <2>7 DEF TrueOf
    <3>3. HonestError' /\ Covered'
      BY <2>1, <2>2, <2>7, <3>2 DEF HonestError, Covered, Somewhere
    <3>4. QED
      BY <2>5, <2>6, <3>1, <3>3
  <2>8. ASSUME NEW e \in RecordType,
               e = [path |-> results[1].file, size |-> results[1].size,
                    sha256 |-> results[1].result],
               results[1] \in DoneJob, UNCHANGED firstErr, records' = Append(records, e)
        PROVE  HonestPool'
    <3>1. /\ DOMAIN records' = DOMAIN records \cup {Len(records) + 1}
          /\ records'[Len(records) + 1] = e
          /\ \A i \in DOMAIN records : records'[i] = records[i]
      <4>1. records \in Seq(RecordType)
        BY DEF InventoryTypes
      <4>2. QED
        BY <2>8, <4>1, SeqAppend
    <3>2. e.path = results[1].file /\ e.path \in PresentFiles /\ e = FactOf(e.path)
      <4>1. results[1].result \notin {"open", "error"}
        BY <2>8 DEF DoneJob, Inventory!InventoryAssumption
      <4>2. results[1].size = tree[results[1].file] /\ results[1].result = tree[results[1].file]
            /\ results[1].file \in PresentFiles
        BY <2>3, <4>1 DEF TrueOf
      <4>3. e.path = results[1].file
        BY <2>8
      <4>4. QED
        BY <2>8, <4>2, <4>3, Zenon DEF FactOf
    <3>3. HonestRecords'
      <4>1. \A i \in DOMAIN records' :
               records'[i].path \in PresentFiles /\ records'[i] = FactOf(records'[i].path)
        BY <2>2, <3>1, <3>2 DEF HonestRecords
      <4>2. QED
        BY <2>1, <4>1 DEF HonestRecords, PresentFiles, FactOf
    <3>4. HonestError'
      BY <2>1, <2>2, <2>8 DEF HonestError
    <3>5. Covered'
      <4> SUFFICES ASSUME pc' \in {"pool", "judge"}, ~firstErr', NEW g \in PresentFiles'
                   PROVE  Somewhere(g)'
        BY DEF Covered
      <4>0. g \in PresentFiles /\ Somewhere(g)
        BY <2>1, <2>2, <2>8 DEF Covered
      <4>1. CASE g = results[1].file
        BY <3>1, <3>2, <4>1 DEF Somewhere
      <4>2. ASSUME NEW i \in DOMAIN results, results[i].file = g, g # results[1].file
            PROVE  \E j \in DOMAIN results' : results'[j].file = g
        <5>1. i - 1 \in DOMAIN results' /\ results'[i - 1] = results[i]
          BY <2>4, <4>2
        <5>2. QED
          BY <4>2, <5>1
      <4>3. ASSUME NEW i \in DOMAIN records, records[i].path = g
            PROVE  \E j \in DOMAIN records' : records'[j].path = g
        BY <3>1, <4>3
      <4>4. QED
        BY <2>1, <4>0, <4>1, <4>2, <4>3 DEF Somewhere
    <3>6. QED
      BY <2>5, <2>6, <3>3, <3>4, <3>5
  <2>9. QED
    <3> DEFINE e == [path |-> results[1].file, size |-> results[1].size,
                     sha256 |-> results[1].result]
    <3>1. \/ results[1].result = "error" /\ firstErr' = TRUE /\ UNCHANGED records
          \/ /\ e \in RecordType /\ results[1] \in DoneJob /\ UNCHANGED firstErr
             /\ records' = Append(records, e)
      BY <1>7, ReceiveIs, Zenon
    <3>2. QED
      BY <2>7, <2>8, <3>1
<1>8. CASE Inventory!Load
  <2>1. todo' = {} /\ job' = <<>> /\ results' = <<>> /\ records' = <<>> /\ pc' = "walk"
    BY <1>8 DEF Inventory!Load, AtRest
  <2>2. QED
    BY <1>1, <2>1
<1>9. CASE AsideSteps
  <2>1. UNCHANGED <<todo, job, results, records, firstErr>> /\ used.faults \subseteq used'.faults
    BY <1>9, AsideStepsAre DEF Inventory!scan
  <2>2. ~touched'
    BY DEF Untouched
  <2>3. UNCHANGED <<tree, touched>>
    BY <1>9, <2>2, Zenon DEF AsideSteps, Inventory!PeriodicCheck, Inventory!Start,
       Inventory!Corrupt, Inventory!RemoveState, Inventory!Change, Inventory!PoolEnds,
       Inventory!disk
  <2>4. pc' \in {"pool", "judge"} => pc \in {"pool", "judge"}
    <3>1. UNCHANGED pc \/ pc' = "load" \/ pc = "pool"
      BY <1>9, Zenon DEF AsideSteps, Inventory!PeriodicCheck, Inventory!Start,
         Inventory!Corrupt, Inventory!RemoveState, Inventory!Change, Inventory!PoolEnds
    <3>2. QED
      BY <3>1
  <2>5. /\ HonestPool
        /\ PresentFiles' = PresentFiles
    BY <1>2, <2>1, <2>3
  <2>6. HonestTodo' /\ HonestJobs' /\ HonestResults' /\ HonestRecords'
    BY <2>1, <2>3, <2>5 DEF HonestTodo, HonestJobs, HonestResults, HonestRecords, TrueOf,
       PresentFiles, FactOf
  <2>7. HonestError' /\ Covered'
    BY <2>1, <2>3, <2>4, <2>5 DEF HonestError, Covered, Somewhere
  <2>8. QED
    BY <2>6, <2>7
<1>10. CASE EndingStep
  <2>1. todo' = {} /\ job' = <<>> /\ results' = <<>> /\ records' = <<>> /\ pc' \in {"down", "running"}
    BY <1>10, EndingSteps DEF CheckEnded
  <2>2. QED
    BY <1>1, <2>1
<1>11. QED
  BY <1>3, <1>4, <1>5, <1>6, <1>7, <1>8, <1>9, <1>10, InventorySteps

(* A scan without an error, of a tree that did not change, saw all of it.   *)
LEMMA JudgeIsFaithful ==
  ASSUME Inventory!InventoryAssumption, InventoryTypes, AtRest, FilesApart, Honest, Untouched,
         pc = "judge", ~firstErr
  PROVE  Faithful(records)
<1>1. HonestRecords /\ Covered
  BY DEF Honest, HonestPool
<1>2. todo = {} /\ results = <<>> /\ \A w \in DOMAIN job : job[w].file = 0
  BY DEF AtRest, Inventory!Idle
<1>3. \A f \in PresentFiles : f # 0
  BY DEF PresentFiles, Inventory!Files
<1>4. \A f \in PresentFiles : \E i \in DOMAIN records : records[i].path = f
  BY <1>1, <1>2, <1>3 DEF Covered, Somewhere
<1>5. \A f \in PresentFiles : tree[f] \in Contents
  <2> SUFFICES ASSUME NEW f \in PresentFiles
               PROVE  tree[f] \in Contents
    OBVIOUS
  <2>1. PICK i \in DOMAIN records : records[i].path = f
    BY <1>4
  <2>2. records[i] \in RecordType
    BY <2>1 DEF InventoryTypes
  <2>3. records[i].size \in Contents /\ records[i] = FactOf(f)
    BY <1>1, <2>1, <2>2 DEF RecordType, HonestRecords
  <2>4. QED
    BY <2>3 DEF FactOf
<1>6. QED
  BY <1>1, <1>4, <1>5 DEF Faithful, FilesApart, HonestRecords

(* An authentic state, and the one that a check compares with, describe the *)
(* tree until the tree changes.                                             *)
LEMMA StateSoundStep ==
  ASSUME Inventory!InventoryAssumption, InventoryTypes, AtRest, FilesApart, Honest, StateSound,
         Inventory!Next
  PROVE  StateSound'
<1>1. ASSUME UNCHANGED <<tree, touched, state>>, used.faults \subseteq used'.faults
      PROVE  (Untouched /\ state.kind = "authentic" => Faithful(state.files))'
  BY <1>1 DEF StateSound, Untouched, Faithful, PresentFiles, FactOf
<1>2. ASSUME UNCHANGED <<tree, touched, expected>>, used.faults \subseteq used'.faults,
             pc \in {"walk", "pool", "judge"} \/ pc' \notin {"walk", "pool", "judge"}
      PROVE  (Untouched /\ pc \in {"walk", "pool", "judge"} /\ expected.kind = "authentic" =>
                Faithful(expected.files))'
  BY <1>2 DEF StateSound, Untouched, Faithful, PresentFiles, FactOf
<1>3. ASSUME \/ Inventory!Walk \/ Inventory!Collect
             \/ \E w \in DOMAIN job : Inventory!TakeJob(w) \/ Inventory!Hash(w) \/ Inventory!SendResult(w)
      PROVE  StateSound'
  <2>1. UNCHANGED <<tree, touched, state, expected>> /\ pc \in {"walk", "pool"}
    BY <1>3 DEF Inventory!Walk, Inventory!Collect, Inventory!Receive, Inventory!TakeJob,
       Inventory!Hash, Inventory!SendResult, Inventory!disk
  <2>2. used.faults \subseteq used'.faults
    <3>1. CASE \E w \in DOMAIN job : Inventory!Hash(w)
      BY <3>1, HashIs
    <3>2. CASE UNCHANGED used
      BY <3>2
    <3>3. QED
      BY <1>3, <3>1, <3>2, Zenon DEF Inventory!Walk, Inventory!Collect, Inventory!Receive,
         Inventory!TakeJob, Inventory!SendResult
  <2>3. QED
    BY <1>1, <1>2, <2>1, <2>2 DEF StateSound
<1>4. CASE Inventory!Load
  <2>1. /\ UNCHANGED <<tree, state, used>> /\ expected' = state
        /\ state.kind = "authentic" => touched' = touched
    BY <1>4 DEF Inventory!Load, InventoryTypes
  <2>2. QED
    BY <2>1 DEF StateSound, Untouched, Faithful, PresentFiles, FactOf
<1>5. CASE AsideSteps
  <2>1. UNCHANGED expected /\ used.faults \subseteq used'.faults
    BY <1>5, AsideStepsAre DEF Inventory!scan
  <2>2. CASE \E f \in Inventory!Files : Inventory!Change(f)
    <3>1. touched' = TRUE /\ UNCHANGED <<state, pc>>
      BY <2>2 DEF Inventory!Change
    <3>2. QED
      BY <2>1, <3>1 DEF StateSound, Untouched
  <2>3. CASE Inventory!Corrupt
    <3>1. /\ state' = [state EXCEPT !.kind = "corrupt"] /\ state.kind = "authentic"
          /\ UNCHANGED <<pc, tree, touched>>
      BY <2>3 DEF Inventory!Corrupt
    <3>2. CASE "kind" \in DOMAIN state
      <4>1. state'.kind # "authentic"
        BY <3>1, <3>2
      <4>2. QED
        BY <1>2, <2>1, <3>1, <4>1 DEF StateSound
    <3>3. CASE "kind" \notin DOMAIN state
      <4>1. state'.kind # "authentic"
        BY <3>1, <3>3
      <4>2. QED
        BY <1>2, <2>1, <3>1, <4>1 DEF StateSound
    <3>4. QED
      BY <3>2, <3>3
  <2>4. CASE Inventory!RemoveState
    <3>1. state' = Inventory!Absent /\ UNCHANGED <<pc, tree, touched>>
      BY <2>4 DEF Inventory!RemoveState
    <3>2. state'.kind # "authentic"
      BY <3>1 DEF Inventory!Absent
    <3>3. QED
      BY <1>2, <2>1, <3>1, <3>2 DEF StateSound
  <2>5. CASE Inventory!PeriodicCheck \/ Inventory!Start \/ Inventory!PoolEnds
    <3>1. UNCHANGED <<tree, touched, state>> /\ (pc' = "load" \/ pc = "pool")
      BY <2>5 DEF Inventory!PeriodicCheck, Inventory!Start, Inventory!PoolEnds, Inventory!disk
    <3>2. QED
      BY <1>1, <1>2, <2>1, <3>1 DEF StateSound
  <2>6. QED
    BY <1>5, <2>2, <2>3, <2>4, <2>5, Zenon DEF AsideSteps
<1>6. CASE EndingStep
  <2>1. /\ pc' \in {"down", "running"} /\ UNCHANGED <<tree, touched>>
        /\ used.faults \subseteq used'.faults /\ (~Inventory!Persist => UNCHANGED state)
    BY <1>6, EndingSteps DEF CheckEnded
  <2>2. CASE UNCHANGED state
    BY <1>1, <2>1, <2>2 DEF StateSound
  <2>3. CASE Inventory!Persist /\ ~UNCHANGED state
    <3>1. /\ pc = "judge" /\ ~firstErr
          /\ state' = [kind |-> "authentic", files |-> Inventory!canonicalVerifyRecords(records)]
      BY <2>3 DEF Inventory!Persist
    <3>2. ASSUME Untouched'
          PROVE  Faithful(state'.files)
      <4>1. Untouched
        BY <2>1, <3>2 DEF Untouched
      <4>2. Faithful(records)
        BY <3>1, <4>1, JudgeIsFaithful
      <4>3. Faithful(Inventory!canonicalVerifyRecords(records))
        BY <4>2, CanonicalIs, OrderIsFaithful DEF InventoryTypes
      <4>4. QED
        BY <3>1, <4>3
    <3>3. (Untouched /\ state.kind = "authentic" => Faithful(state.files))'
      BY <2>1, <3>2 DEF Faithful, PresentFiles, FactOf
    <3>4. QED
      BY <2>1, <3>3 DEF StateSound
  <2>4. QED
    BY <2>1, <2>2, <2>3
<1>7. QED
  BY <1>3, <1>4, <1>5, <1>6, InventorySteps

(* A check that fails has a reason.                                         *)
LEMMA AlarmStep ==
  ASSUME Inventory!InventoryAssumption, InventoryTypes, AtRest, FilesApart, Honest, StateSound,
         Inventory!NoFalseAlarm, Inventory!Next
  PROVE  Inventory!NoFalseAlarm'
<1> SUFFICES ASSUME alarmed'
             PROVE  touched' \/ state'.kind = "corrupt" \/ "read" \in used'.faults
  BY DEF Inventory!NoFalseAlarm
<1>1. CASE Inventory!NotAuthentic
  BY <1>1 DEF Inventory!NotAuthentic, Inventory!Alarm, Inventory!disk
<1>0. CASE Inventory!StateUnreadable
  BY <1>0 DEF Inventory!StateUnreadable, Inventory!Fails, InventoryTypes, UsedType
<1>2. CASE Inventory!Differs
  <2>1. /\ pc = "judge" /\ expected.kind # "absent" /\ UNCHANGED <<touched, state, used>>
        /\ firstErr \/ ~Inventory!verifyRecordsEqual(expected.files, records)
    BY <1>2 DEF Inventory!Differs, Inventory!Baseline, Inventory!Alarm, Inventory!disk
  <2>2. SUFFICES ASSUME Untouched
                 PROVE  FALSE
    BY <2>1 DEF Untouched
  <2>3. expected.kind = "authentic"
    BY <2>1 DEF InventoryTypes
  <2>4. Faithful(expected.files)
    BY <2>1, <2>2, <2>3 DEF StateSound
  <2>5. CASE firstErr
    BY <2>1, <2>2, <2>4, <2>5 DEF Honest, HonestPool, HonestError, Faithful
  <2>6. CASE ~firstErr
    <3>1. Faithful(records)
      BY <2>1, <2>2, <2>6, JudgeIsFaithful
    <3>2. Inventory!verifyRecordsEqual(expected.files, records)
      BY <2>3, <2>4, <3>1, FaithfulAreEqual DEF InventoryTypes
    <3>3. QED
      BY <2>1, <2>6, <3>2
  <2>7. QED
    BY <2>5, <2>6
<1>3. ASSUME pc # "down", UNCHANGED alarmed
      PROVE  FALSE
  BY <1>3 DEF AtRest
<1>4. CASE Inventory!Passes \/ Inventory!BaselineFails \/ Inventory!Persist \/ Inventory!Crash
  <2>1. pc # "down" /\ UNCHANGED alarmed
    BY <1>4 DEF Inventory!Passes, Inventory!BaselineFails, Inventory!Persist, Inventory!Crash
  <2>2. QED
    BY <1>3, <2>1
<1>5. CASE \/ Inventory!Walk \/ Inventory!Load \/ Inventory!Collect
           \/ \E w \in DOMAIN job : Inventory!TakeJob(w) \/ Inventory!Hash(w) \/ Inventory!SendResult(w)
  <2>1. pc # "down" /\ UNCHANGED alarmed
    BY <1>5 DEF Inventory!Walk, Inventory!Load, Inventory!Collect, Inventory!Receive,
       Inventory!TakeJob, Inventory!Hash, Inventory!SendResult
  <2>2. QED
    BY <1>3, <2>1
<1>6. CASE Inventory!PoolEnds \/ Inventory!PeriodicCheck
  <2>1. pc # "down" /\ UNCHANGED alarmed
    BY <1>6 DEF Inventory!PoolEnds, Inventory!PeriodicCheck
  <2>2. QED
    BY <1>3, <2>1
<1>7. CASE Inventory!Start \/ Inventory!RemoveState
  BY <1>7 DEF Inventory!Start, Inventory!RemoveState
<1>8. CASE \E f \in Inventory!Files : Inventory!Change(f)
  BY <1>8 DEF Inventory!Change
<1>9. CASE Inventory!Corrupt
  <2>1. UNCHANGED <<touched, alarmed>> /\ used.faults \subseteq used'.faults
    BY <1>9, AsideStepsAre DEF Inventory!Corrupt, AsideSteps
  <2>2. state' = [state EXCEPT !.kind = "corrupt"]
    BY <1>9 DEF Inventory!Corrupt
  <2>3. CASE "kind" \in DOMAIN state
    BY <2>2, <2>3
  <2>4. CASE "kind" \notin DOMAIN state
    BY <1>9, <2>1, <2>2, <2>4 DEF Inventory!NoFalseAlarm, Inventory!Corrupt
  <2>5. QED
    BY <2>3, <2>4
<1>10. QED
  BY <1>0, <1>1, <1>2, <1>4, <1>5, <1>6, <1>7, <1>8, <1>9, InventorySteps DEF AsideSteps, EndingStep

(* The initial states are as the invariant says.                            *)
LEMMA InventoryInit ==
  ASSUME Inventory!InventoryAssumption, Inventory!Init
  PROVE  InventoryInv
<1>1. /\ todo = {} /\ job = <<>> /\ results = <<>> /\ records = <<>> /\ firstErr = FALSE
      /\ state = Inventory!Absent /\ expected = Inventory!Absent
      /\ pc = "down" /\ touched = FALSE /\ alarmed = FALSE
      /\ procs \in Inventory!Workers /\ tree \in [Inventory!Files -> Contents \cup {"none"}]
      /\ used = [changes |-> 0, starts |-> 0, faults |-> {}]
  BY DEF Inventory!Init
<1>2. InventoryTypes
  <2>1. Inventory!Absent.kind = "absent" /\ Inventory!Absent.files = <<>>
    BY DEF Inventory!Absent
  <2>2. <<>> \in Seq(RecordType) /\ <<>> \in Seq(JobType) /\ <<>> \in Seq(ResultType) /\ Len(<<>>) = 0
    OBVIOUS
  <2>3. tree \in [Inventory!Files -> Contents \cup {"none", "link"}]
    BY <1>1
  <2>4. procs \in Nat /\ Len(job) <= procs /\ Len(results) <= Len(job)
    BY <1>1 DEF Inventory!Workers
  <2>5. used \in UsedType
    BY <1>1 DEF UsedType, Inventory!InventoryAssumption
  <2>6. QED
    BY <1>1, <2>1, <2>2, <2>3, <2>4, <2>5 DEF InventoryTypes, UsedType
<1>3. AtRest /\ FilesApart /\ Inventory!NoFalseAlarm
  BY <1>1 DEF AtRest, FilesApart, Inventory!NoFalseAlarm
<1>4. Honest
  BY <1>1 DEF Honest, HonestPool, HonestTodo, HonestJobs, HonestResults, HonestRecords,
     HonestError, Covered, Somewhere
<1>5. StateSound
  BY <1>1 DEF StateSound, Inventory!Absent
<1>6. QED
  BY <1>2, <1>3, <1>4, <1>5 DEF InventoryInv

LEMMA InventoryStep ==
  ASSUME Inventory!InventoryAssumption, InventoryInv, [Inventory!Next]_(Inventory!vars)
  PROVE  InventoryInv'
<1>1. CASE Inventory!Next
  BY <1>1, TypesStep, RestStep, FilesApartStep, HonestStep, StateSoundStep,
     AlarmStep DEF InventoryInv
<1>2. CASE UNCHANGED Inventory!vars
  <2>1. UNCHANGED <<procs, tree, state, pc, expected, todo, job, results, records, firstErr,
                    touched, alarmed, used>>
    BY <1>2 DEF Inventory!vars
  <2>2. InventoryTypes' /\ AtRest' /\ FilesApart' /\ Inventory!NoFalseAlarm'
    BY <2>1 DEF InventoryInv, InventoryTypes, AtRest, FilesApart, Inventory!NoFalseAlarm
  <2>3. Honest'
    BY <2>1 DEF InventoryInv, Honest, Untouched, HonestPool, HonestTodo, HonestJobs,
       HonestResults, HonestRecords,
                HonestError, Covered, Somewhere, PresentFiles, TrueOf, FactOf
  <2>4. StateSound'
    BY <2>1 DEF InventoryInv, StateSound, Untouched, Faithful, PresentFiles, FactOf
  <2>5. QED
    BY <2>2, <2>3, <2>4 DEF InventoryInv
<1>3. QED
  BY <1>1, <1>2

(* The types and the bounds of the queues follow.                           *)
LEMMA InventoryTypeOK ==
  ASSUME Inventory!InventoryAssumption, InventoryInv
  PROVE  Inventory!TypeOK
<1> DEFINE f == [i \in 1..Len(records) |-> records[i].path]
<1>1. /\ Len(records) \in Nat /\ DOMAIN records = 1..Len(records)
      /\ \A i \in DOMAIN records : records[i].path \in Inventory!Files
  <2>1. \A e \in RecordType : e.path \in Inventory!Files
    BY DEF RecordType
  <2>2. QED
    BY <2>1 DEF InventoryInv, InventoryTypes
<1>2. f \in Injection(1..Len(records), Inventory!Files)
  BY <1>1 DEF InventoryInv, FilesApart, Injection, IsInjective
<1> HIDE DEF f
<1>3. /\ IsFiniteSet(1..Len(records)) /\ Cardinality(1..Len(records)) = Len(records)
      /\ IsFiniteSet(Inventory!Files) /\ Cardinality(Inventory!Files) = MaxFiles /\ MaxFiles \in Nat
  <2>1. MaxFiles \in Nat /\ Inventory!Files = 1..MaxFiles
    BY DEF Inventory!InventoryAssumption, Inventory!Files
  <2>2. \A n \in Nat : IsFiniteSet(1..n) /\ Cardinality(1..n) = n
    BY FS_Interval
  <2>3. QED
    BY <1>1, <2>1, <2>2
<1>4. Len(records) <= MaxFiles
  <2>1. Cardinality(1..Len(records)) <= Cardinality(Inventory!Files)
    BY <1>2, <1>3, FS_Injection, Zenon
  <2>2. QED
    BY <1>3, <2>1
<1>5. QED
  BY <1>4 DEF InventoryInv, InventoryTypes, Inventory!TypeOK, UsedType

LEMMA InventoryInvHolds ==
  ASSUME Inventory!InventoryAssumption
  PROVE  Inventory!Spec => []InventoryInv
BY InventoryInit, InventoryStep, PTL DEF Inventory!Spec

(* Every variable keeps its type: the pool has no more workers than there   *)
(* are processors, its channel no more results than workers, and a scan no  *)
(* more records than files.                                                 *)
THEOREM InventoryTypeCorrect ==
  ASSUME Inventory!InventoryAssumption
  PROVE  Inventory!Spec => []Inventory!TypeOK
<1>1. InventoryInv => Inventory!TypeOK
  BY InventoryTypeOK
<1>2. QED
  BY <1>1, InventoryInvHolds, PTL

-----------------------------------------------------------------------------
(* The service as a whole: a behaviour stays with the part it began with.   *)

InStartup == part = "startup"

LEMMA StartupPart ==
  /\ ServiceInit /\ InStartup => Boot!Init
  /\ InStartup /\ [ServiceNext]_all => InStartup' /\ [Boot!Next]_(Boot!vars)
  /\ ~InStartup /\ [ServiceNext]_all => ~InStartup'
BY Zenon DEF InStartup, ServiceInit, ServiceNext, Runtime, Inventories, all, startup, Boot!vars

(* Instances that start together agree on one key, and only a crash or a    *)
(* failing removal leaves a file that none can use (loadOrCreateSecret).    *)
THEOREM KeyFileSoundHolds == ServiceSpec => []KeyFileSound
<1>1. Boot!Spec => []Boot!KeyFileSound
  BY StartupKeySound, ServiceAssumption
<1>2. (InStartup => Boot!KeyFileSound) => KeyFileSound
  BY DEF KeyFileSound, InStartup
<1>3. QED
  BY <1>1, <1>2, StartupPart, PTL DEF ServiceSpec, Boot!Spec

(* The endpoint leads to a bridge that listens or is what a crash has left, *)
(* and a start that is alone at it comes to serve and stays reachable       *)
(* (listenBridge, cleanupBridgeEndpoint).                                   *)
THEOREM EndpointSoundHolds == ServiceSpec => EndpointSound
<1>1. Boot!Spec => Boot!EndpointSound
  BY StartupEndpoint, ServiceAssumption
<1>2. ServiceInit => Boot!Init
  BY DEF ServiceInit, StartupRests
<1>3. [ServiceNext]_all => [Boot!Next]_(Boot!vars)
  BY Zenon DEF ServiceNext, Runtime, Inventories, all, startup, Boot!vars
<1>4. QED
  BY <1>1, <1>2, <1>3, PTL DEF ServiceSpec, Boot!Spec, EndpointSound

InInventory == part = "inventory"

LEMMA InventoryPart ==
  /\ ServiceInit /\ InInventory => Inventory!Init
  /\ InInventory /\ [ServiceNext]_all => InInventory' /\ [Inventory!Next]_(Inventory!vars)
  /\ ~InInventory /\ [ServiceNext]_all => ~InInventory'
BY Zenon DEF InInventory, ServiceInit, ServiceNext, Runtime, Inventories, all, inventory,
   Inventory!vars

(* For any tree, number of workers and order in which they finish: a check  *)
(* fails only when the tree changed after its baseline was begun, the state *)
(* file is not authentic or a file could not be read                        *)
(* (verifyInstallationStateWithKey).                                        *)
THEOREM NoFalseAlarmHolds == ServiceSpec => []NoFalseAlarm
<1>1. Inventory!Spec => []InventoryInv
  BY InventoryInvHolds, ServiceAssumption
<1>2. (InInventory => InventoryInv) => NoFalseAlarm
  BY DEF NoFalseAlarm, InInventory, InventoryInv
<1>3. QED
  BY <1>1, <1>2, InventoryPart, PTL DEF ServiceSpec, Inventory!Spec
===========================================================================
