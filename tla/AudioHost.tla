----------------------------- MODULE AudioHost -----------------------------
(***************************************************************************)
(* AudioDeviceHost (audio_core/src/audio_device_host.cpp): the control     *)
(* thread that enumerates, starts and stops under lifecycleMutex, the      *)
(* device thread of miniaudio that runs callback and notification, and the *)
(* analysis worker.  The last two meet in the queue of SpectrumQueue.      *)
(***************************************************************************)
EXTENDS SpectrumQueue

CONSTANT MaxDevices  \* bound: endpoints of the computer

ASSUME HostAssumption == MaxDevices \in Nat \ {0}

VARIABLES
  pc,          \* the control thread
  goal,        \* what stopLocked is part of: "start", "stop", "failed"
  started,     \* what the last request came to: start returned true
  present,     \* endpoints of the computer, which come and go
  listed,      \* captureIds, playbackIds: endpoints at the last enumeration
  stream,      \* the device: "closed", "opened", "running", "stopped"
  callback,    \* the device thread is inside callback
  notifying,   \* the device thread is about to call notification
  isRunning

control == <<pc, goal, started, listed>>
device == <<stream, callback, notifying>>
host == <<control, present, device, isRunning>>
vars == <<host, queue>>

Goto(step) == pc' = step

-----------------------------------------------------------------------------
(* Requests *)

(* enumerateLocked: a backend that does not answer leaves the old list.     *)
Enumerate ==
  /\ pc = "idle"
  /\ listed' \in {listed, present}
  /\ UNCHANGED <<pc, goal, started, present, device, isRunning, queue>>

StartRequest ==
  /\ pc = "idle"
  /\ goal' = "start" /\ started' = FALSE
  /\ Goto("clear")
  /\ UNCHANGED <<listed, present, device, isRunning, queue>>

StopRequest ==
  /\ pc = "idle"
  /\ goal' = "stop" /\ started' = FALSE
  /\ Goto("clear")
  /\ UNCHANGED <<listed, present, device, isRunning, queue>>

-----------------------------------------------------------------------------
(* stopLocked *)

ClearRunning ==
  /\ pc = "clear"
  /\ isRunning' = FALSE
  /\ Goto("close")
  /\ UNCHANGED <<goal, started, listed, present, device, queue>>

(* Mutant: the device is closed without waiting for its thread.             *)
CloseDeviceNoWait ==
  /\ pc = "close"
  /\ stream' = "closed"
  /\ Goto("signal")
  /\ UNCHANGED <<goal, started, listed, present, callback, notifying, isRunning, queue>>

(* ma_device_stop and ma_device_uninit return when the device thread is     *)
(* gone; the notification of an intentional stop clears isRunning again.    *)
CloseDevice ==
  /\ pc = "close"
  /\ ~callback /\ ~notifying
  /\ stream' = "closed"
  /\ isRunning' = IF stream = "running" THEN FALSE ELSE isRunning
  /\ Goto("signal")
  /\ UNCHANGED <<goal, started, listed, present, callback, notifying, queue>>

(* stopAnalysisWorker: the flag, then the join.                             *)
SignalWorker ==
  /\ pc = "signal"
  /\ analysisStop' = TRUE
  /\ Goto("join")
  /\ UNCHANGED <<goal, started, listed, present, device, isRunning, producer, consumer, loudness>>

(* Mutant: the worker is not waited for.                                    *)
JoinWorkerDetached ==
  /\ pc = "join"
  /\ Goto(IF goal = "start" THEN "open" ELSE "idle")
  /\ UNCHANGED <<goal, started, listed, present, device, isRunning, queue>>

(* A failed start has nothing left to do after the join.                    *)
JoinWorker ==
  /\ pc = "join"
  /\ pcC \in {"none", "exit"}
  /\ pcC' = "none"
  /\ Goto(IF goal = "start" THEN "open" ELSE "idle")
  /\ UNCHANGED <<goal, started, listed, present, device, isRunning,
                 producer, seen, windows, readIndex, taken, loudness, analysisStop>>

-----------------------------------------------------------------------------
(* start, after stopLocked *)

Fail ==
  /\ goal' = "failed"
  /\ Goto("clear")
  /\ UNCHANGED <<started, listed, present, device, isRunning>>

(* A stale index or no context: start just returns.  Otherwise the counters *)
(* are cleared and the device is opened, or start returns with nothing      *)
(* acquired.                                                                *)
OpenDevice ==
  /\ pc = "open"
  /\ \/ UNCHANGED <<stream, dropped>> /\ Goto("idle")
     \/ /\ listed > 0
        /\ dropped' = 0
        /\ \/ stream' = "opened" /\ Goto("configure")
           \/ UNCHANGED stream /\ Goto("idle")
  /\ UNCHANGED <<goal, started, listed, present, callback, notifying, isRunning,
                 pcP, produced, writeIndex, slots, consumer, loudness, analysisStop>>

(* AudioEngine::configure; it refuses an unusual sample rate.               *)
Configure ==
  /\ pc = "configure"
  /\ \/ Goto("spawn") /\ UNCHANGED <<goal, started, listed, present, device, isRunning>>
     \/ Fail
  /\ UNCHANGED queue

(* startAnalysisWorker resets the queue, then creates the thread; when that *)
(* fails it takes the flag back.                                            *)
StartAnalysisWorker ==
  /\ pc = "spawn"
  /\ ResetQueue
  /\ \/ /\ analysisStop' = FALSE /\ pcC' = "poll"
        /\ Goto("begin")
        /\ UNCHANGED <<goal, started, listed, present, device, isRunning>>
     \/ /\ analysisStop' = TRUE /\ UNCHANGED pcC
        /\ Fail

StartDevice ==
  /\ pc = "begin"
  /\ \/ /\ stream' = "running"
        /\ Goto("publish")
        /\ UNCHANGED <<goal, started, listed, present, callback, notifying, isRunning>>
     \/ Fail
  /\ UNCHANGED queue

PublishRunning ==
  /\ pc = "publish"
  /\ isRunning' = TRUE /\ started' = TRUE
  /\ Goto("idle")
  /\ UNCHANGED <<goal, listed, present, device, queue>>

-----------------------------------------------------------------------------
(* The device thread, the worker and the computer *)

CallbackBegins ==
  /\ stream = "running" /\ ~callback
  /\ callback' = TRUE
  /\ UNCHANGED <<control, present, stream, notifying, isRunning, queue>>

(* A callback completes any number of frames.                               *)
CallbackEnqueues ==
  /\ callback
  /\ EnqueueSpectrumSample
  /\ UNCHANGED host

CallbackEnds ==
  /\ callback /\ pcP = "idle"
  /\ callback' = FALSE
  /\ UNCHANGED <<control, present, stream, notifying, isRunning, queue>>

(* The backend stops by itself, between two callbacks.                      *)
DeviceLost ==
  /\ stream = "running" /\ ~callback
  /\ stream' = "stopped" /\ notifying' = TRUE
  /\ UNCHANGED <<control, present, callback, isRunning, queue>>

(* Mutant: the notification takes lifecycleMutex.                           *)
NotificationLocked ==
  /\ notifying /\ pc = "idle"
  /\ notifying' = FALSE
  /\ isRunning' = FALSE
  /\ UNCHANGED <<control, present, stream, callback, queue>>

Notification ==
  /\ notifying
  /\ notifying' = FALSE
  /\ isRunning' = FALSE
  /\ UNCHANGED <<control, present, stream, callback, queue>>

Worker == WorkerStep /\ UNCHANGED host

HotPlug ==
  /\ present' \in (0..MaxDevices) \ {present}
  /\ UNCHANGED <<control, device, isRunning, queue>>

-----------------------------------------------------------------------------

Init ==
  /\ QueueInit
  /\ pc = "idle" /\ goal = "stop" /\ started = FALSE
  /\ present \in 0..MaxDevices /\ listed = 0
  /\ stream = "closed" /\ callback = FALSE /\ notifying = FALSE
  /\ isRunning = FALSE

StopLocked == ClearRunning \/ CloseDevice \/ SignalWorker \/ JoinWorker
Start == OpenDevice \/ Configure \/ StartAnalysisWorker \/ StartDevice \/ PublishRunning
DeviceThread ==
  CallbackBegins \/ CallbackEnqueues \/ CallbackEnds \/ DeviceLost \/ Notification

Next ==
  \/ Enumerate \/ StartRequest \/ StopRequest
  \/ StopLocked \/ Start
  \/ DeviceThread \/ Worker \/ HotPlug

Spec == Init /\ [][Next]_vars

(* Control thread and worker run, a callback and a notification return:     *)
(* none of them waits for another, but for the join.  ma_device_stop asks   *)
(* for no new callback, so that a close that is enabled again and again is  *)
(* taken.                                                                   *)
FairSpec ==
  /\ Spec
  /\ WF_vars(ClearRunning \/ SignalWorker \/ JoinWorker \/ Start)
  /\ SF_vars(CloseDevice)
  /\ WF_vars(Worker)
  /\ WF_vars(CallbackEnqueues \/ CallbackEnds)
  /\ WF_vars(Notification)

-----------------------------------------------------------------------------
(* Properties *)

(* Types of the variables.                                                  *)
TypeOK ==
  /\ QueueTypeOK
  /\ pc \in {"idle", "clear", "close", "signal", "join", "open", "configure", "spawn",
             "begin", "publish"}
  /\ goal \in {"start", "stop", "failed"}
  /\ present \in 0..MaxDevices /\ listed \in 0..MaxDevices
  /\ stream \in {"closed", "opened", "running", "stopped"}
  /\ started \in BOOLEAN /\ callback \in BOOLEAN /\ notifying \in BOOLEAN
  /\ isRunning \in BOOLEAN

(* The lock-free queue implements a bounded stream in every session: the    *)
(* worker analyses complete frames, in order and once each, whatever the    *)
(* slots still hold of the session before, and enqueueSpectrumSample drops  *)
(* a frame only when the queue was full as it looked.  Between two sessions *)
(* start clears the stream.                                                 *)
StreamStep == Stream!Next \/ pc \in {"open", "spawn"}
ImplementsStream == Stream!Init /\ [][StreamStep]_(Stream!vars)

(* "Once an analysis block is lost, suppress loudness values for this       *)
(* session": after the loss no value is offered, however callback and       *)
(* worker interleave, unless the worker had begun a refresh before the flag *)
(* was cleared; there is at most one such refresh, and its value stays      *)
(* until the next loss or the next session.                                 *)
SuppressedAfterLoss ==
  /\ ~contiguous /\ pcP # "suppress" /\ late = 0 => ~available
  /\ late <= 1

(* The engine is configured and the queue reset, both without atomics, only *)
(* while neither the callback nor the worker can touch them; and a callback *)
(* always has a worker that empties its queue.                              *)
NoSharedReset ==
  /\ pc \in {"configure", "spawn"} => ~callback /\ pcC = "none"
  /\ callback => pcC \notin {"none", "exit"}

(* A stream that runs is reported as running: no notification of an earlier *)
(* device is delivered into the session after it.                           *)
StreamIsReported ==
  pc = "idle" /\ stream = "running" => isRunning

(* Every request comes to its end: the close waits for the device thread,   *)
(* which never waits for the control thread, and the join for a worker that *)
(* first empties the queue, however full it is.                             *)
RequestReturns == pc = "clear" ~> pc = "idle"
=============================================================================
