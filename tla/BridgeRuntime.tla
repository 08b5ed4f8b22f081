--------------------------- MODULE BridgeRuntime ---------------------------
(***************************************************************************)
(* One bridge process from start to exit: runBridge and the goroutines     *)
(* that share bridgeService with it.                                       *)
(*                                                                         *)
(*   runBridge   bridge_runtime.go: startup, accept loop, connection slots *)
(*   monitor     integrity_monitor.go: start, violate, stop                *)
(*   control     service_windows.go: the service handler ("scm") or the    *)
(*               interrupt goroutine of a console; elsewhere ("unix")      *)
(*               nobody asks the bridge to stop                            *)
(*                                                                         *)
(* A step is one access to what they share: stopCh, ready, the listener,   *)
(* the integrity flag. What a handler does with its connection is          *)
(* CommandGate's; how the installation is scanned is VerifyInventory's.    *)
(***************************************************************************)
EXTENDS Integers, FiniteSets

CONSTANTS
  Hosts,           \* which of "scm", "console", "unix" to consider
  Clients,         \* connections that may be made
  MaxConnections,  \* maxConcurrentConnections
  MaxFaults        \* bound: failed startup steps, accepts and reads, crashes

ASSUME RuntimeAssumption ==
  /\ Hosts \subseteq {"scm", "console", "unix"}
  /\ MaxConnections \in Nat /\ MaxFaults \in Nat

VARIABLES
  host,           \* what the process runs under, for good
  run, outcome,   \* runBridge: where it is, what it returns
  listener,       \* "none", "open" or "closed"
  held,           \* bridgeService.listener is set
  stopCh, ready,  \* the two channels are closed
  monitor,        \* the monitor goroutine
  monitorStop,    \* its stopCh is closed
  integrity,      \* bridgeIntegrityState
  control,        \* service handler or interrupt goroutine
  status,         \* last state reported to the service control manager
  exit,           \* exit code of the process, Alive before
  conn, slots,    \* the connections; the slots taken
  tampered,       \* a target differs from the monitor's baseline
  panic,          \* panicModeActive()
  faults

loop == <<run, outcome>>
shared == <<listener, held, stopCh, ready>>
watch == <<monitor, monitorStop, integrity>>
service == <<control, status>>
connections == <<conn, slots>>
environment == <<tampered, panic, faults>>
vars == <<host, loop, shared, watch, service, exit, connections, environment>>

Alive == -1

-----------------------------------------------------------------------------
(* bridgeService *)

Fault == faults < MaxFaults /\ faults' = faults + 1

(* requestStop: closed once, however often it is called.                    *)
RequestStop == stopCh' = TRUE

(* Connections still in the backlog are reset with the listener.            *)
Reset == [c \in Clients |-> IF conn[c] = "queued" THEN "gone" ELSE conn[c]]

(* stopListener: the listener is taken out and closed, if it is set.        *)
StopListener ==
  IF held THEN held' = FALSE /\ listener' = "closed" /\ conn' = Reset
  ELSE UNCHANGED <<held, listener, conn>>

-----------------------------------------------------------------------------
(* runBridge *)

Goto(label) == run' = label /\ UNCHANGED outcome
Return(value) == run' = "defers" /\ outcome' = value

(* The monitor has its baseline, and its goroutine is started.              *)
StartMonitor == monitor' = "polling" /\ integrity' = TRUE /\ UNCHANGED monitorStop

(* Key, canary and integrity baseline; each of them may fail.               *)
Prepare ==
  /\ run = "start"
  /\ \/ Goto("listen") /\ StartMonitor /\ UNCHANGED faults
     \/ Fault /\ Return("error") /\ UNCHANGED watch
  /\ UNCHANGED <<shared, service, connections, tampered, panic>>

ListenBridge ==
  /\ run = "listen"
  /\ \/ Goto("set") /\ listener' = "open" /\ UNCHANGED faults
     \/ Fault /\ Return("error") /\ UNCHANGED listener
  /\ UNCHANGED <<held, stopCh, ready, watch, service, connections, tampered, panic>>

SetListener ==
  /\ run = "set"
  /\ held' = TRUE
  /\ Goto("ready")
  /\ UNCHANGED <<listener, stopCh, ready, watch, service, connections, environment>>

SignalReady ==
  /\ run = "ready"
  /\ ready' = TRUE
  /\ Goto("loop")
  /\ UNCHANGED <<listener, held, stopCh, watch, service, connections, environment>>

(* The head of the loop: panic mode first, then a stop request.             *)
CheckPanic ==
  /\ run = "loop"
  /\ \/ panic /\ RequestStop /\ StopListener /\ Return("error")
     \/ ~panic /\ Goto("check") /\ UNCHANGED <<listener, held, stopCh, conn>>
  /\ UNCHANGED <<ready, watch, service, slots, environment>>

CheckStop ==
  /\ run = "check"
  /\ IF stopCh THEN Return("nil") ELSE Goto("accept")
  /\ UNCHANGED <<shared, watch, service, connections, environment>>

(* Accept, with a deadline of one second.                                   *)
Accept(c) ==
  /\ run = "accept"
  /\ listener = "open" /\ conn[c] = "queued"
  /\ conn' = [conn EXCEPT ![c] = "accepted"]
  /\ Goto("serve")
  /\ UNCHANGED <<shared, watch, service, slots, environment>>

AcceptTimeout ==
  /\ run = "accept"
  /\ listener = "open"
  /\ Goto("loop")
  /\ UNCHANGED <<shared, watch, service, connections, environment>>

AcceptFails ==
  /\ run = "accept"
  /\ \/ listener = "closed" /\ UNCHANGED faults
     \/ Fault
  /\ Goto("failed")
  /\ UNCHANGED <<shared, watch, service, connections, tampered, panic>>

(* An error of Accept is a clean end only if a stop was requested.          *)
AcceptFailed ==
  /\ run = "failed"
  /\ Return(IF stopCh THEN "nil" ELSE "error")
  /\ UNCHANGED <<shared, watch, service, connections, environment>>

(* A slot for a handler, or the refusal of the connection.                  *)
Serve(c) ==
  /\ run = "serve"
  /\ conn[c] = "accepted"
  /\ IF slots < MaxConnections
     THEN conn' = [conn EXCEPT ![c] = "served"] /\ slots' = slots + 1
     ELSE conn' = [conn EXCEPT ![c] = "refused"] /\ UNCHANGED slots
  /\ Goto("loop")
  /\ UNCHANGED <<shared, watch, service, environment>>

(* The deferred calls: stopListener, listener.Close, integrityMonitor.stop; *)
(* then the result is in the channel "done".                                *)
Defers ==
  /\ run = "defers"
  /\ run' = "returned" /\ UNCHANGED outcome
  /\ held' = FALSE
  /\ listener' = IF listener = "none" THEN "none" ELSE "closed"
  /\ conn' = Reset
  /\ monitorStop' = (monitor # "off")
  /\ UNCHANGED <<stopCh, ready, monitor, integrity, service, slots, environment>>

(* Mutant: the slot is given back on success only.                          *)
HandlerLeaks(c) ==
  /\ conn[c] = "served"
  /\ conn' = [conn EXCEPT ![c] = "gone"]
  /\ slots' \in {slots, slots - 1}
  /\ UNCHANGED <<loop, shared, watch, service, environment>>

(* handleConnection is over, by whatever path; the slot is given back.      *)
HandlerEnds(c) ==
  /\ conn[c] = "served"
  /\ conn' = [conn EXCEPT ![c] = "gone"]
  /\ slots' = slots - 1
  /\ UNCHANGED <<loop, shared, watch, service, environment>>

-----------------------------------------------------------------------------
(* bridgeIntegrityMonitor *)

MonitorStops ==
  /\ monitor = "polling" /\ monitorStop
  /\ monitor' = "ended"
  /\ UNCHANGED <<loop, shared, monitorStop, integrity, service, connections, environment>>

(* violate: the flag first, the callback after it.                          *)
Violate == monitor' = "violated" /\ integrity' = FALSE /\ UNCHANGED monitorStop

(* A tick finds a target changed.                                           *)
Detect ==
  /\ monitor = "polling" /\ tampered
  /\ Violate
  /\ UNCHANGED <<loop, shared, service, connections, environment>>

(* A target that cannot be read once counts as changed.                     *)
TargetUnreadable ==
  /\ monitor = "polling" /\ Fault
  /\ Violate
  /\ UNCHANGED <<loop, shared, service, connections, tampered, panic>>

(* Mutant: the callback only closes the listener.                           *)
ViolationOnlyCloses ==
  /\ monitor = "violated"
  /\ monitor' = "ended"
  /\ StopListener
  /\ UNCHANGED <<loop, stopCh, ready, monitorStop, integrity, service, slots, environment>>

(* onViolation: requestStop, then stopListener.                             *)
ViolationRequestsStop ==
  /\ monitor = "violated"
  /\ monitor' = "closing"
  /\ RequestStop
  /\ UNCHANGED <<loop, listener, held, ready, monitorStop, integrity, service, connections,
                 environment>>

ViolationStopsListener ==
  /\ monitor = "closing"
  /\ monitor' = "ended"
  /\ StopListener
  /\ UNCHANGED <<loop, stopCh, ready, monitorStop, integrity, service, slots, environment>>

-----------------------------------------------------------------------------
(* Service handler and interrupt *)

Report(state, code) == status' = [state |-> state, code |-> code]

ServiceReady ==
  /\ host = "scm" /\ control = "starting" /\ ready
  /\ Report("Running", 0)
  /\ control' = "running"
  /\ UNCHANGED <<loop, shared, watch, connections, environment>>

(* runBridge is over and nobody asked for it.                               *)
ServiceDone ==
  /\ host = "scm" /\ control \in {"starting", "running"} /\ run = "returned"
  /\ Report("Stopped", IF outcome = "error" THEN 1 ELSE 0)
  /\ control' = "over"
  /\ UNCHANGED <<loop, shared, watch, connections, environment>>

RequestsClosed ==
  /\ host = "scm" /\ control \in {"starting", "running"}
  /\ Report("Stopped", 0)
  /\ control' = "over"
  /\ UNCHANGED <<loop, shared, watch, connections, environment>>

(* Stop or Shutdown of the service; Ctrl-C in a console.                    *)
StopAsked ==
  /\ \/ host = "scm" /\ control \in {"starting", "running"} /\ Report("StopPending", 0)
     \/ host = "console" /\ control = "starting" /\ UNCHANGED status
  /\ control' = "request"
  /\ UNCHANGED <<loop, shared, watch, connections, environment>>

(* Mutant: the listener is closed before the stop is requested.             *)
ControlClosesFirst ==
  /\ \/ control = "request" /\ StopListener /\ UNCHANGED stopCh /\ control' = "close"
     \/ /\ control = "close"
        /\ RequestStop /\ UNCHANGED <<listener, held, conn>>
        /\ control' = IF host = "scm" THEN "waiting" ELSE "over"
  /\ UNCHANGED <<loop, ready, watch, status, slots, environment>>

(* stopService and installConsoleShutdown: requestStop, then stopListener.  *)
ControlStops ==
  /\ \/ /\ control = "request"
        /\ RequestStop /\ UNCHANGED <<listener, held, conn>>
        /\ control' = "close"
     \/ /\ control = "close"
        /\ StopListener /\ UNCHANGED stopCh
        /\ control' = IF host = "scm" THEN "waiting" ELSE "over"
  /\ UNCHANGED <<loop, ready, watch, status, slots, environment>>

(* stopService waits for runBridge, ten seconds at most.                    *)
StopAwaited ==
  /\ control = "waiting"
  /\ Report("Stopped", 0)
  /\ control' = "over"
  /\ UNCHANGED <<loop, shared, watch, connections, environment>>

-----------------------------------------------------------------------------
(* Process and environment *)

(* main ends with runBridge, a service with its handler.                    *)
Exit ==
  /\ \/ host = "scm" /\ control = "over" /\ exit' = status.code
     \/ host # "scm" /\ run = "returned" /\ exit' = IF outcome = "error" THEN 1 ELSE 0
  /\ UNCHANGED <<loop, shared, watch, service, connections, environment>>

(* The process crashes or is killed.                                        *)
Crash ==
  /\ Fault
  /\ exit' = 1
  /\ UNCHANGED <<loop, shared, watch, service, connections, tampered, panic>>

Connect(c) ==
  /\ conn[c] = "out" /\ listener = "open"
  /\ conn' = [conn EXCEPT ![c] = "queued"]
  /\ UNCHANGED <<loop, shared, watch, service, slots, environment>>

(* A file is changed after its baseline was taken, and stays so.            *)
Tamper ==
  /\ monitor # "off" /\ ~tampered
  /\ tampered' = TRUE
  /\ UNCHANGED <<loop, shared, watch, service, connections, panic, faults>>

PanicRaised ==
  /\ ~panic
  /\ panic' = TRUE
  /\ UNCHANGED <<loop, shared, watch, service, connections, tampered, faults>>

-----------------------------------------------------------------------------

Init ==
  /\ host \in Hosts
  /\ run = "start" /\ outcome = "none"
  /\ listener = "none" /\ held = FALSE
  /\ stopCh = FALSE /\ ready = FALSE
  /\ monitor = "off" /\ monitorStop = FALSE /\ integrity = TRUE
  /\ control = "starting" /\ status = [state |-> "StartPending", code |-> 0]
  /\ exit = Alive
  /\ conn = [c \in Clients |-> "out"] /\ slots = 0
  /\ tampered = FALSE /\ panic \in BOOLEAN /\ faults = 0

RunBridge ==
  \/ Prepare \/ ListenBridge \/ SetListener \/ SignalReady
  \/ CheckPanic \/ CheckStop
  \/ (\E c \in Clients : Accept(c) \/ Serve(c))
  \/ AcceptTimeout \/ AcceptFails \/ AcceptFailed
  \/ Defers

Monitor == MonitorStops \/ Detect \/ ViolationRequestsStop \/ ViolationStopsListener

Control == ServiceReady \/ ServiceDone \/ ControlStops \/ StopAwaited

Goroutine ==
  \/ RunBridge
  \/ Monitor
  \/ Control
  \/ RequestsClosed \/ StopAsked
  \/ \E c \in Clients : HandlerEnds(c) \/ Connect(c)
  \/ TargetUnreadable
  \/ Tamper \/ PanicRaised

Next ==
  /\ exit = Alive
  /\ UNCHANGED host
  /\ (Goroutine /\ UNCHANGED exit) \/ Exit \/ Crash

Spec == Init /\ [][Next]_vars

(* Every goroutine that can go on does: the accept loop comes round with    *)
(* the deadline of Accept, the monitor with its ticker, the service handler *)
(* with its timeout. Nothing is assumed of clients, handlers or files.      *)
Live(step) == exit = Alive /\ step /\ UNCHANGED <<host, exit>>
FairSpec ==
  /\ Spec
  /\ WF_vars(Live(RunBridge)) /\ WF_vars(Live(Monitor)) /\ WF_vars(Live(Control))
  /\ WF_vars(exit = Alive /\ Exit /\ UNCHANGED host)

-----------------------------------------------------------------------------
(* Properties *)

Labels == {"start", "listen", "set", "ready", "loop", "check", "accept", "failed", "serve",
           "defers", "returned"}

(* Every variable keeps its type.                                           *)
TypeOK ==
  /\ host \in Hosts
  /\ run \in Labels /\ outcome \in {"none", "nil", "error"}
  /\ listener \in {"none", "open", "closed"}
  /\ held \in BOOLEAN /\ stopCh \in BOOLEAN /\ ready \in BOOLEAN
  /\ monitor \in {"off", "polling", "violated", "closing", "ended"}
  /\ monitorStop \in BOOLEAN /\ integrity \in BOOLEAN
  /\ control \in {"starting", "running", "request", "close", "waiting", "over"}
  /\ status \in [state : {"StartPending", "Running", "StopPending", "Stopped"}, code : {0, 1}]
  /\ exit \in {Alive, 0, 1}
  /\ conn \in [Clients -> {"out", "queued", "accepted", "served", "refused", "gone"}]
  /\ slots \in Int
  /\ tampered \in BOOLEAN /\ panic \in BOOLEAN /\ faults \in 0..MaxFaults

(* Only a failure or panic mode ends the process with the exit code that    *)
(* makes the service manager start it again. A stop request, and a changed  *)
(* installation above all, ends it cleanly: a new start would take the      *)
(* changed files for its baseline. It depends on the order in which all     *)
(* callers request the stop and close the listener.                         *)
OnlyFailuresRestart == exit = 1 => faults > 0 \/ panic

(* A client is told "too many concurrent connections" only when that many   *)
(* handlers are at work.                                                    *)
RefusedOnlyWhenFull ==
  [][\A c \in Clients : conn[c] = "accepted" /\ conn'[c] = "refused"
       => Cardinality({d \in Clients : conn[d] = "served"}) >= MaxConnections]_vars

(* A change of the installation ends the process, wherever in startup,      *)
(* service or shutdown it is found.                                         *)
TamperEndsService == tampered ~> exit # Alive
=============================================================================
