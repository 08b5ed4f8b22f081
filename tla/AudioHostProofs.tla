-------------------------- MODULE AudioHostProofs --------------------------
(***************************************************************************)
(* Theorems about AudioHost and its lock-free queue, for any number of     *)
(* slots, frames and devices: the life cycle keeps callback, worker and    *)
(* control thread apart, and the queue implements SpectrumStream.          *)
(***************************************************************************)
EXTENDS AudioHost, SequenceTheorems, TLAPS

-----------------------------------------------------------------------------
(* The life cycle *)

(* Where the control thread is says what the device and the worker may do.  *)
(* Callback and notification belong to a device that was started; a worker  *)
(* has been joined before anything is opened again, and is there, with no   *)
(* stop requested, as long as a device can call back.                       *)
Lifecycle ==
  /\ callback => stream = "running"
  /\ notifying => stream = "stopped"
  /\ pcP # "idle" => callback
  /\ stream \in {"running", "stopped"} => pc \in {"publish", "idle", "clear", "close"}
  /\ pc \in {"signal", "join", "open"} => stream = "closed"
  /\ pc \in {"configure", "spawn", "begin"} => stream = "opened"
  /\ pc = "publish" => stream \in {"running", "stopped"}
  /\ pc = "idle" => stream # "opened"
  /\ pc \in {"open", "configure", "spawn"} => pcC = "none"
  /\ pcC = "exit" => analysisStop
  /\ stream \in {"running", "stopped"} \/ pc = "begin" => ~analysisStop /\ pcC # "none"
  /\ StreamIsReported

(* The steps of Next by the thread that takes them.                         *)
LEMMA NextCases ==
  ASSUME [Next]_vars
  PROVE  \/ Enumerate \/ StartRequest \/ StopRequest \/ HotPlug
         \/ ClearRunning \/ CloseDevice \/ SignalWorker \/ JoinWorker
         \/ OpenDevice \/ Configure \/ StartAnalysisWorker \/ StartDevice \/ PublishRunning
         \/ CallbackBegins \/ CallbackEnqueues \/ CallbackEnds \/ DeviceLost \/ Notification
         \/ Worker
         \/ UNCHANGED vars
BY Zenon DEF Next, StopLocked, Start, DeviceThread

LEMMA LifecycleStep ==
  ASSUME Lifecycle, [Next]_vars
  PROVE  Lifecycle'
<1> USE DEF Lifecycle, StreamIsReported, Goto, control, device, queue, producer, consumer
<1>1. CASE Enumerate
  BY <1>1 DEF Enumerate
<1>2. CASE StartRequest \/ StopRequest
  BY <1>2 DEF StartRequest, StopRequest
<1>3. CASE ClearRunning
  BY <1>3 DEF ClearRunning
<1>4. CASE CloseDevice
  BY <1>4 DEF CloseDevice
<1>5. CASE SignalWorker
  BY <1>5 DEF SignalWorker
<1>6. CASE JoinWorker
  BY <1>6 DEF JoinWorker
<1>7. CASE OpenDevice
  BY <1>7 DEF OpenDevice
<1>8. CASE Configure
  BY <1>8 DEF Configure, Fail
<1>9. CASE StartAnalysisWorker
  BY <1>9 DEF StartAnalysisWorker, ResetQueue, Fail
<1>10. CASE StartDevice
  BY <1>10 DEF StartDevice, Fail
<1>11. CASE PublishRunning
  BY <1>11 DEF PublishRunning
<1>12. CASE CallbackBegins
  BY <1>12 DEF CallbackBegins
<1>13. CASE CallbackEnqueues
  BY <1>13 DEF CallbackEnqueues, EnqueueSpectrumSample, FrameComplete, CopyBegins, CopyEnds, Publish,
     DropFrame, Suppress, host
<1>14. CASE CallbackEnds
  BY <1>14 DEF CallbackEnds
<1>15. CASE DeviceLost
  BY <1>15 DEF DeviceLost
<1>16. CASE Notification
  BY <1>16 DEF Notification
<1>17. CASE Worker
  BY <1>17 DEF Worker, WorkerStep, Poll, CheckContiguous, RefreshLoudness, Analyze, Release, host
<1>18. CASE HotPlug \/ UNCHANGED vars
  BY <1>18 DEF HotPlug, vars, host
<1>19. QED
  BY <1>1, <1>2, <1>3, <1>4, <1>5, <1>6, <1>7, <1>8, <1>9, <1>10, <1>11, <1>12, <1>13, <1>14, <1>15,
     <1>16, <1>17, <1>18, NextCases

LEMMA LifecycleHolds == Spec => []Lifecycle
<1>1. Init => Lifecycle
  BY DEF Init, QueueInit, Lifecycle, StreamIsReported
<1>2. QED
  BY <1>1, LifecycleStep, PTL DEF Spec

(* AudioDeviceHost configures the engine and resets the queue, both without *)
(* atomics, only while neither the device callback nor the analysis worker  *)
(* runs; and a callback always has a live worker.                           *)
THEOREM NoSharedResetHolds == Spec => []NoSharedReset
<1>1. Lifecycle => NoSharedReset
  BY DEF Lifecycle, NoSharedReset
<1>2. QED
  BY <1>1, LifecycleHolds, PTL

(* No notification of an earlier device reaches the session after it: once  *)
(* start has returned, a stream that runs is reported as running.           *)
THEOREM StreamIsReportedHolds == Spec => []StreamIsReported
<1>1. Lifecycle => StreamIsReported
  BY DEF Lifecycle
<1>2. QED
  BY <1>1, LifecycleHolds, PTL

-----------------------------------------------------------------------------
(* The loudness values *)

(* A refresh counts as late only if it was begun before the loss; until     *)
(* there is one, what the callback suppressed stays suppressed.             *)
Loudness ==
  /\ late = 0 \/ late = 1
  /\ ~contiguous /\ pcP # "suppress" /\ late = 0 => ~available
  /\ contiguous => late = 0
  /\ pcC = "refresh" => late = 0

LEMMA LoudnessStep ==
  ASSUME Loudness, [Next]_vars
  PROVE  Loudness'
<1> USE DEF Loudness
<1>1. CASE Worker
  BY <1>1 DEF Worker, WorkerStep, Poll, CheckContiguous, Contiguous, RefreshLoudness, Analyze, Release,
     loudness, producer
<1>2. CASE CallbackEnqueues
  BY <1>2 DEF CallbackEnqueues, EnqueueSpectrumSample, FrameComplete, CopyBegins, CopyEnds, Publish,
     DropFrame, Suppress, loudness, consumer
<1>3. CASE StartAnalysisWorker
  BY <1>3 DEF StartAnalysisWorker, ResetQueue
<1>4. CASE JoinWorker \/ SignalWorker \/ OpenDevice
  BY <1>4 DEF JoinWorker, SignalWorker, OpenDevice, loudness, consumer, producer
<1>5. CASE UNCHANGED queue
  BY <1>5 DEF queue, loudness, consumer, producer
<1>6. QED
  BY <1>1, <1>2, <1>3, <1>4, <1>5, NextCases DEF Enumerate, StartRequest, StopRequest, HotPlug,
     ClearRunning, CloseDevice, Configure, StartDevice, PublishRunning, CallbackBegins, CallbackEnds,
     DeviceLost, Notification, vars

(* Once enqueueSpectrumSample has lost a frame and suppressed the loudness  *)
(* values, none is offered but by the one refresh that the analysis worker  *)
(* had already begun.                                                       *)
THEOREM SuppressedAfterLossHolds == Spec => []SuppressedAfterLoss
<1>1. Init => Loudness
  BY DEF Init, QueueInit, Loudness
<1>2. Loudness => SuppressedAfterLoss
  BY DEF Loudness, SuppressedAfterLoss
<1>3. QED
  BY <1>1, <1>2, LoudnessStep, PTL DEF Spec

-----------------------------------------------------------------------------
(* The indices and the slots *)

LEMMA DivMod ==
  ASSUME NEW S \in Nat \ {0}, NEW a \in Nat
  PROVE  a % S \in 0..S - 1 /\ a \div S \in Int /\ a = S * (a \div S) + (a % S)
OBVIOUS

(* Two multiples of S that differ are S apart.                              *)
LEMMA MultiplesApart ==
  ASSUME NEW S \in Nat \ {0}, NEW p \in Int, NEW q \in Int, S * p < S * q
  PROVE  S * q >= S * p + S
<1>1. p < q
  <2>1. SUFFICES ASSUME p >= q PROVE FALSE
    OBVIOUS
  <2>2. S * p >= S * q
    BY <2>1
  <2>3. QED
    BY <2>2
<1>2. \A d \in Int : d >= 1 => S * d >= S
  OBVIOUS
<1>3. S * (q - p) >= S
  BY <1>1, <1>2
<1>4. S * (q - p) = S * q - S * p
  OBVIOUS
<1>5. QED
  BY <1>3, <1>4

(* Indices less than Slots apart are in different slots.                    *)
LEMMA SlotsApart ==
  ASSUME QueueAssumption, NEW a \in Nat, NEW b \in Nat, a < b, b < a + Slots
  PROVE  Slot(a) # Slot(b)
<1> SUFFICES ASSUME a % Slots = b % Slots PROVE FALSE
  BY DEF Slot
<1> DEFINE p == a \div Slots
           q == b \div Slots
<1>1. Slots \in Nat \ {0}
  BY DEF QueueAssumption
<1>2. /\ p \in Int /\ q \in Int /\ a % Slots \in Int
      /\ a = Slots * p + (a % Slots)
      /\ b = Slots * q + (a % Slots)
  BY <1>1, DivMod
<1> HIDE DEF p, q
<1>3. Slots * p \in Int /\ Slots * q \in Int
  BY <1>1, <1>2
<1>4. Slots * p < Slots * q
  BY <1>2, <1>3
<1>5. Slots * q >= Slots * p + Slots
  BY <1>1, <1>2, <1>4, MultiplesApart
<1>6. QED
  BY <1>1, <1>2, <1>3, <1>5

LEMMA SlotType ==
  ASSUME QueueAssumption, NEW a \in Nat
  PROVE  Slot(a) \in 0..Slots - 1
BY DivMod DEF Slot, QueueAssumption

Frames == {Torn} \cup 0..MaxFrames
Copying == pcP \in {"copy", "copying", "publish"}
Reading == pcC \in {"loudness", "refresh", "analyze", "release"}

(* The producer keeps the room it found until it publishes, the consumer    *)
(* the frame it found until it releases the slot.                           *)
Indices ==
  /\ readIndex \in Nat /\ writeIndex \in Nat
  /\ readIndex <= writeIndex /\ writeIndex <= readIndex + Slots
  /\ Copying => writeIndex < readIndex + Slots
  /\ Reading => readIndex < writeIndex

(* A frame that is about to be published is complete; one that was analysed *)
(* was not written meanwhile.                                               *)
Contents ==
  /\ slots \in [0..Slots - 1 -> Frames]
  /\ seen \in Frames
  /\ pcP = "publish" => slots[Slot(writeIndex)] = produced
  /\ pcC = "release" => seen = slots[Slot(readIndex)]

(* The frames dropped in a session are among those it produced.             *)
Numbers ==
  /\ produced \in 0..MaxFrames /\ dropped \in Nat
  /\ dropped + (IF pcP = "drop" THEN 1 ELSE 0) <= produced
  /\ pc \in {"configure", "spawn"} => dropped = 0

QueueInv == Indices /\ Contents /\ Numbers

(* Steps of the control thread and the device that leave the queue alone.   *)
LEMMA QueueSteps ==
  ASSUME [Next]_vars
  PROVE  \/ CallbackEnqueues \/ Worker \/ JoinWorker \/ SignalWorker
         \/ OpenDevice \/ StartAnalysisWorker
         \/ UNCHANGED queue /\ (Configure \/ pc' \notin {"configure", "spawn"} \/ pc' = pc)
BY NextCases DEF Enumerate, StartRequest, StopRequest, HotPlug, ClearRunning, CloseDevice, Configure,
   StartDevice, PublishRunning, CallbackBegins, CallbackEnds, DeviceLost, Notification, Fail, Goto,
   control, vars, host

LEMMA IndicesStep ==
  ASSUME QueueAssumption, Lifecycle, Indices, [Next]_vars
  PROVE  Indices'
<1> USE DEF Indices, Copying, Reading, QueueAssumption
<1>1. CASE CallbackEnqueues
  BY <1>1 DEF CallbackEnqueues, EnqueueSpectrumSample, FrameComplete, Room, CopyBegins, CopyEnds,
     Publish, DropFrame, Suppress, consumer
<1>2. CASE Worker
  BY <1>2 DEF Worker, WorkerStep, Poll, CheckContiguous, RefreshLoudness, Analyze, Release, producer
<1>3. CASE JoinWorker \/ SignalWorker \/ OpenDevice
  BY <1>3 DEF JoinWorker, SignalWorker, OpenDevice, producer, consumer
<1>4. CASE StartAnalysisWorker
  BY <1>4 DEF StartAnalysisWorker, ResetQueue, Lifecycle
<1>5. CASE UNCHANGED queue
  BY <1>5 DEF queue, producer, consumer
<1>6. QED
  BY <1>1, <1>2, <1>3, <1>4, <1>5, QueueSteps

LEMMA NumbersStep ==
  ASSUME QueueAssumption, Lifecycle, Numbers, [Next]_vars
  PROVE  Numbers'
<1> USE DEF Numbers, QueueAssumption
<1>1. CASE CallbackEnqueues
  BY <1>1 DEF CallbackEnqueues, EnqueueSpectrumSample, FrameComplete, CopyBegins, CopyEnds,
     Publish, DropFrame, Suppress, host, control, Lifecycle
<1>2. CASE Worker
  BY <1>2 DEF Worker, WorkerStep, Poll, CheckContiguous, RefreshLoudness, Analyze, Release, producer,
     host, control
<1>3. CASE JoinWorker \/ SignalWorker
  BY <1>3 DEF JoinWorker, SignalWorker, producer, Goto
<1>4. CASE OpenDevice
  BY <1>4 DEF OpenDevice, Goto, Lifecycle
<1>5. CASE StartAnalysisWorker
  BY <1>5 DEF StartAnalysisWorker, ResetQueue, Lifecycle, Goto, Fail
<1>6. CASE UNCHANGED queue /\ (Configure \/ pc' \notin {"configure", "spawn"} \/ pc' = pc)
  BY <1>6 DEF queue, producer, Configure
<1>7. QED
  BY <1>1, <1>2, <1>3, <1>4, <1>5, <1>6, QueueSteps

LEMMA ContentsStep ==
  ASSUME QueueAssumption, Lifecycle, Indices, Numbers, Contents, [Next]_vars
  PROVE  Contents'
<1>1. Slot(writeIndex) \in 0..Slots - 1 /\ Slot(readIndex) \in 0..Slots - 1
  BY SlotType DEF Indices
<1>2. Copying /\ Reading => Slot(readIndex) # Slot(writeIndex)
  BY SlotsApart DEF Indices
<1>3. Frames = {-1} \cup 0..MaxFrames
  BY DEF Frames, Torn
<1>4. CASE CallbackEnqueues
  <2> SUFFICES ASSUME EnqueueSpectrumSample PROVE Contents'
    BY <1>4 DEF CallbackEnqueues
  <2>1. CASE FrameComplete
    BY <2>1 DEF FrameComplete, Contents, consumer
  <2>2. CASE CopyBegins
    BY <2>2, <1>1, <1>2, <1>3 DEF CopyBegins, Contents, consumer, Torn, Copying, Reading
  <2>3. CASE CopyEnds
    BY <2>3, <1>1, <1>2, <1>3 DEF CopyEnds, Contents, consumer, Copying, Reading, Numbers
  <2>4. CASE Publish \/ DropFrame \/ Suppress
    BY <2>4 DEF Publish, DropFrame, Suppress, Contents, consumer
  <2>5. QED
    BY <2>1, <2>2, <2>3, <2>4 DEF EnqueueSpectrumSample
<1>5. CASE Worker
  BY <1>5, <1>1 DEF Worker, WorkerStep, Poll, CheckContiguous, RefreshLoudness, Analyze, Release,
     producer, Contents
<1>6. CASE JoinWorker \/ SignalWorker \/ OpenDevice
  BY <1>6 DEF JoinWorker, SignalWorker, OpenDevice, producer, consumer, Contents
<1>7. CASE StartAnalysisWorker
  BY <1>7, <1>3 DEF StartAnalysisWorker, ResetQueue, Lifecycle, Contents, QueueAssumption
<1>8. CASE UNCHANGED queue
  BY <1>8 DEF queue, producer, consumer, Contents
<1>9. QED
  BY <1>4, <1>5, <1>6, <1>7, <1>8, QueueSteps

LEMMA QueueInvHolds ==
  ASSUME QueueAssumption
  PROVE  Spec => [](Lifecycle /\ QueueInv)
<1>1. Init => QueueInv
  BY DEF Init, QueueInit, QueueInv, Indices, Contents, Numbers, Copying, Reading, Frames, Torn,
     QueueAssumption
<1>2. Lifecycle /\ QueueInv /\ [Next]_vars => QueueInv'
  BY IndicesStep, NumbersStep, ContentsStep DEF QueueInv
<1>3. QED
  BY <1>1, <1>2, LifecycleHolds, PTL DEF Spec

-----------------------------------------------------------------------------
(* The types *)

(* The flags apart from the rest, and the histories.                        *)
FlagsOK ==
  /\ contiguous \in BOOLEAN /\ available \in BOOLEAN /\ analysisStop \in BOOLEAN
  /\ started \in BOOLEAN /\ callback \in BOOLEAN /\ notifying \in BOOLEAN
  /\ isRunning \in BOOLEAN

PlacesOK ==
  /\ pcP \in {"idle", "copy", "copying", "publish", "drop", "suppress"}
  /\ pcC \in {"none", "poll", "loudness", "refresh", "analyze", "release", "exit"}
  /\ pc \in {"idle", "clear", "close", "signal", "join", "open", "configure", "spawn",
             "begin", "publish"}
  /\ goal \in {"start", "stop", "failed"}
  /\ present \in 0..MaxDevices /\ listed \in 0..MaxDevices
  /\ stream \in {"closed", "opened", "running", "stopped"}

HistoriesOK ==
  /\ windows \in 0..RefreshEvery - 1
  /\ taken \in Seq(Frames)
  /\ late \in Nat

LEMMA FlagsStep ==
  ASSUME FlagsOK, [Next]_vars
  PROVE  FlagsOK'
<1> USE DEF FlagsOK
<1>1. CASE CallbackEnqueues
  BY <1>1, Zenon DEF CallbackEnqueues, EnqueueSpectrumSample, FrameComplete, CopyBegins, CopyEnds,
     Publish, DropFrame, Suppress, loudness, host, control, device
<1>2. CASE Worker
  BY <1>2, Zenon DEF Worker, WorkerStep, Poll, CheckContiguous, RefreshLoudness, Analyze, Release,
     loudness, host, control, device
<1>3. CASE CloseDevice
  <2>1. isRunning' \in BOOLEAN
    BY <1>3, Zenon DEF CloseDevice
  <2>2. QED
    BY <1>3, <2>1, Zenon DEF CloseDevice, queue, loudness
<1>4. CASE JoinWorker \/ SignalWorker \/ OpenDevice \/ StartAnalysisWorker
  BY <1>4, Zenon DEF JoinWorker, SignalWorker, OpenDevice, StartAnalysisWorker, ResetQueue, Fail,
     loudness, device
<1>5. CASE Enumerate \/ StartRequest \/ StopRequest \/ HotPlug \/ ClearRunning \/ Configure
           \/ StartDevice \/ PublishRunning \/ CallbackBegins \/ CallbackEnds \/ DeviceLost
           \/ Notification \/ UNCHANGED vars
  BY <1>5, Zenon DEF Enumerate, StartRequest, StopRequest, HotPlug, ClearRunning, Configure,
     StartDevice, PublishRunning, CallbackBegins, CallbackEnds, DeviceLost, Notification, Fail,
     vars, host, control, device, queue, loudness
<1>6. QED
  BY <1>1, <1>2, <1>3, <1>4, <1>5, NextCases

LEMMA PlacesStep ==
  ASSUME PlacesOK, [Next]_vars
  PROVE  PlacesOK'
<1> USE DEF PlacesOK, Goto
<1>1. CASE CallbackEnqueues
  BY <1>1 DEF CallbackEnqueues, EnqueueSpectrumSample, FrameComplete, CopyBegins, CopyEnds,
     Publish, DropFrame, Suppress, consumer, host, control, device
<1>2. CASE Worker
  BY <1>2 DEF Worker, WorkerStep, Poll, CheckContiguous, RefreshLoudness, Analyze, Release,
     producer, host, control, device
<1>3. CASE StartAnalysisWorker
  BY <1>3 DEF StartAnalysisWorker, ResetQueue, Fail, device
<1>4. CASE JoinWorker \/ SignalWorker \/ OpenDevice
  BY <1>4 DEF JoinWorker, SignalWorker, OpenDevice, producer, consumer, device
<1>5. CASE Configure \/ StartDevice \/ Enumerate \/ HotPlug
  BY <1>5 DEF Configure, StartDevice, Enumerate, HotPlug, Fail, control, device, queue, producer, consumer
<1>6. CASE StartRequest \/ StopRequest \/ ClearRunning \/ CloseDevice
           \/ PublishRunning \/ CallbackBegins \/ CallbackEnds \/ DeviceLost
           \/ Notification \/ UNCHANGED vars
  BY <1>6 DEF StartRequest, StopRequest, ClearRunning, CloseDevice, PublishRunning, CallbackBegins,
     CallbackEnds, DeviceLost, Notification, vars, host, control, device, queue, producer, consumer
<1>7. QED
  BY <1>1, <1>2, <1>3, <1>4, <1>5, <1>6, NextCases

LEMMA HistoriesStep ==
  ASSUME QueueAssumption, QueueInv, HistoriesOK, [Next]_vars
  PROVE  HistoriesOK'
<1> USE DEF HistoriesOK, QueueAssumption
<1>1. CASE CallbackEnqueues
  BY <1>1 DEF CallbackEnqueues, EnqueueSpectrumSample, FrameComplete, CopyBegins, CopyEnds,
     Publish, DropFrame, Suppress, consumer, loudness
<1>2. CASE Poll \/ RefreshLoudness \/ Analyze
  BY <1>2 DEF Poll, RefreshLoudness, Analyze, loudness
<1>3. CASE CheckContiguous
  <2>1. (windows + 1) % RefreshEvery \in 0..RefreshEvery - 1
    BY DivMod
  <2>2. QED
    BY <1>3, <2>1 DEF CheckContiguous, loudness
<1>4. CASE Release
  <2>1. seen \in Frames /\ Torn \in Frames
    BY DEF QueueInv, Contents, Frames
  <2>2. QED
    BY <1>4, <2>1 DEF Release, loudness
<1>5. CASE StartAnalysisWorker
  BY <1>5 DEF StartAnalysisWorker, ResetQueue
<1>6. CASE JoinWorker \/ SignalWorker \/ OpenDevice
  BY <1>6 DEF JoinWorker, SignalWorker, OpenDevice, consumer, loudness
<1>7. CASE UNCHANGED queue
  BY <1>7 DEF queue, consumer, loudness
<1>8. QED
  BY <1>1, <1>2, <1>3, <1>4, <1>5, <1>6, <1>7, QueueSteps DEF Worker, WorkerStep

(* The variables keep their types, and the spectrum queue never holds more  *)
(* frames than it has slots: what enqueueSpectrumSample found free stays    *)
(* free until it publishes, whatever the worker does meanwhile.             *)
THEOREM HostTypeCorrect ==
  ASSUME QueueAssumption, HostAssumption
  PROVE  Spec => []TypeOK
<1> DEFINE Types == FlagsOK /\ PlacesOK /\ HistoriesOK
<1>1. Init => Types
  <2>1. Init => FlagsOK
    BY Zenon DEF Init, QueueInit, FlagsOK
  <2>2. Init => PlacesOK /\ HistoriesOK
    BY DEF Init, QueueInit, PlacesOK, HistoriesOK, QueueAssumption, HostAssumption
  <2>3. QED
    BY <2>1, <2>2
<1>2. QueueInv /\ Types /\ [Next]_vars => Types'
  BY FlagsStep, PlacesStep, HistoriesStep
<1>3. QueueInv /\ Types => TypeOK
  <2> SUFFICES ASSUME QueueInv, Types PROVE TypeOK
    OBVIOUS
  <2>1. readIndex \in Nat /\ writeIndex \in readIndex..readIndex + Slots
        /\ produced \in 0..MaxFrames /\ dropped \in 0..MaxFrames
    BY DEF QueueInv, Indices, Numbers, QueueAssumption
  <2>2. QED
    BY <2>1, Zenon DEF QueueInv, Contents, TypeOK, QueueTypeOK, FlagsOK, PlacesOK, HistoriesOK, Frames
<1> HIDE DEF Types
<1>4. QED
  BY <1>1, <1>2, <1>3, QueueInvHolds, PTL DEF Spec

-----------------------------------------------------------------------------
(* The refinement of SpectrumStream *)

(* Sequences: a frame added at the end, the first one taken away.           *)
LEMMA TailOfConcat ==
  ASSUME NEW S, NEW s \in Seq(S), NEW t \in Seq(S), s # <<>>
  PROVE  s \o t # <<>> /\ Head(s \o t) = Head(s) /\ Tail(s \o t) = Tail(s) \o t
<1>1. Len(s) \in Nat \ {0} /\ Len(t) \in Nat
  BY EmptySeq, LenProperties
<1>2. /\ s \o t \in Seq(S) /\ Len(s \o t) = Len(s) + Len(t)
      /\ \A i \in 1..Len(s) + Len(t) : (s \o t)[i] = IF i <= Len(s) THEN s[i] ELSE t[i - Len(s)]
  BY ConcatProperties
<1>3. s \o t # <<>>
  BY <1>1, <1>2, EmptySeq
<1>4. Head(s \o t) = Head(s)
  BY <1>1, <1>2, <1>3
<1>5. /\ Tail(s) \in Seq(S) /\ Len(Tail(s)) = Len(s) - 1
      /\ \A i \in 1..Len(Tail(s)) : Tail(s)[i] = s[i + 1]
  BY HeadTailProperties
<1>6. /\ Tail(s \o t) \in Seq(S) /\ Len(Tail(s \o t)) = Len(s) + Len(t) - 1
      /\ \A i \in 1..Len(Tail(s \o t)) : Tail(s \o t)[i] = (s \o t)[i + 1]
  BY <1>2, <1>3, HeadTailProperties
<1>7. /\ Tail(s) \o t \in Seq(S) /\ Len(Tail(s) \o t) = Len(s) - 1 + Len(t)
      /\ \A i \in 1..Len(s) - 1 + Len(t) :
            (Tail(s) \o t)[i] = IF i <= Len(s) - 1 THEN Tail(s)[i] ELSE t[i - (Len(s) - 1)]
  BY <1>5, ConcatProperties
<1>8. ASSUME NEW i \in 1..Len(s) + Len(t) - 1
      PROVE  Tail(s \o t)[i] = (Tail(s) \o t)[i]
  <2>1. Tail(s \o t)[i] = IF i + 1 <= Len(s) THEN s[i + 1] ELSE t[i + 1 - Len(s)]
    BY <1>1, <1>2, <1>6
  <2>2. (Tail(s) \o t)[i] = IF i <= Len(s) - 1 THEN s[i + 1] ELSE t[i - (Len(s) - 1)]
    BY <1>1, <1>5, <1>7
  <2>3. i + 1 - Len(s) = i - (Len(s) - 1)
    BY <1>1
  <2>4. QED
    BY <1>1, <2>1, <2>2, <2>3
<1>9. Tail(s \o t) = Tail(s) \o t
  BY <1>1, <1>6, <1>7, <1>8, SeqEqual
<1>10. QED
  BY <1>3, <1>4, <1>9

(* The published frames, as a sequence: now and after the step.             *)
PublishedIsSeq ==
  /\ Published \in Seq(Frames) /\ Len(Published) = writeIndex - readIndex
  /\ \A i \in 1..writeIndex - readIndex : Published[i] = slots[Slot(readIndex + i - 1)]

LEMMA PublishedType ==
  ASSUME QueueAssumption, QueueInv
  PROVE  PublishedIsSeq
<1>1. writeIndex - readIndex \in Nat
  BY DEF QueueInv, Indices
<1>2. ASSUME NEW i \in 1..writeIndex - readIndex
      PROVE  slots[Slot(readIndex + i - 1)] \in Frames
  <2>1. readIndex + i - 1 \in Nat
    BY DEF QueueInv, Indices
  <2>2. QED
    BY <2>1, SlotType DEF QueueInv, Contents
<1>3. QED
  BY <1>1, <1>2 DEF Published, PublishedIsSeq

LEMMA PublishedTypeNext ==
  ASSUME QueueAssumption
  PROVE  QueueInv' => PublishedIsSeq'
<1>1. QueueInv => PublishedIsSeq
  BY PublishedType
<1>2. QED
  BY <1>1, PTL

LEMMA DecidedType ==
  ASSUME QueueInv
  PROVE  Decided \in Seq(Frames) /\ Len(Decided) = IF Copying THEN 1 ELSE 0
<1>1. CASE Copying
  <2>1. Decided = <<produced>> /\ produced \in Frames
    BY <1>1 DEF QueueInv, Numbers, Decided, Copying, Frames
  <2>2. QED
    BY <1>1, <2>1
<1>2. CASE ~Copying
  <2>1. Decided = <<>>
    BY <1>2 DEF Decided, Copying
  <2>2. QED
    BY <1>2, <2>1, EmptySeq
<1>3. QED
  BY <1>1, <1>2

(* The slot that is being written is none of those that are published.      *)
LEMMA CopyKeepsPublished ==
  ASSUME QueueAssumption, QueueInv, Copying, NEW f,
         slots' = [slots EXCEPT ![Slot(writeIndex)] = f],
         UNCHANGED <<writeIndex, readIndex>>
  PROVE  Published' = Published
<1>1. ASSUME NEW i \in 1..writeIndex - readIndex
      PROVE  slots'[Slot(readIndex + i - 1)] = slots[Slot(readIndex + i - 1)]
  <2>1. /\ readIndex + i - 1 \in Nat /\ writeIndex \in Nat
        /\ readIndex + i - 1 < writeIndex /\ writeIndex < readIndex + i - 1 + Slots
    BY DEF QueueInv, Indices, QueueAssumption
  <2>2. Slot(readIndex + i - 1) # Slot(writeIndex)
    BY <2>1, SlotsApart
  <2>3. Slot(readIndex + i - 1) \in 0..Slots - 1
    BY <2>1, SlotType
  <2>4. QED
    BY <2>2, <2>3 DEF QueueInv, Contents
<1>2. Published' = [i \in 1..writeIndex - readIndex |-> slots'[Slot(readIndex + i - 1)]]
  BY DEF Published, Slot
<1>3. QED
  BY <1>1, <1>2 DEF Published

(* Publishing appends the frame that was copied.                            *)
LEMMA PublishAppends ==
  ASSUME QueueAssumption, QueueInv, QueueInv', Publish
  PROVE  Published' = Published \o <<produced>>
<1> DEFINE n == writeIndex - readIndex
           q == Published \o <<produced>>
<1>1. n \in Nat /\ readIndex + n = writeIndex /\ produced \in Frames
  BY DEF QueueInv, Indices, Numbers, Frames
<1>2. /\ writeIndex' = writeIndex + 1 /\ readIndex' = readIndex /\ slots' = slots
      /\ slots[Slot(writeIndex)] = produced
  BY DEF Publish, consumer, QueueInv, Contents
<1>3. /\ Published' \in Seq(Frames) /\ Len(Published') = n + 1
      /\ \A i \in 1..n + 1 : Published'[i] = slots[Slot(readIndex + i - 1)]
  <2>1. /\ Published' \in Seq(Frames) /\ Len(Published') = writeIndex' - readIndex'
        /\ \A i \in 1..writeIndex' - readIndex' :
              Published'[i] = slots'[Slot(readIndex' + i - 1)]
    BY PublishedTypeNext DEF PublishedIsSeq, Frames, Torn, Slot
  <2>2. writeIndex' - readIndex' = n + 1
    BY <1>1, <1>2 DEF QueueInv, Indices
  <2>3. QED
    BY <1>2, <2>1, <2>2
<1>4. /\ Published \in Seq(Frames) /\ Len(Published) = n
      /\ \A i \in 1..n : Published[i] = slots[Slot(readIndex + i - 1)]
  BY PublishedType DEF PublishedIsSeq
<1>5. <<produced>> \in Seq(Frames) /\ Len(<<produced>>) = 1 /\ <<produced>>[1] = produced
  BY <1>1
<1>6. /\ q \in Seq(Frames) /\ Len(q) = n + 1
      /\ \A i \in 1..n + 1 : q[i] = IF i <= n THEN Published[i] ELSE <<produced>>[i - n]
  BY <1>4, <1>5, ConcatProperties
<1> HIDE DEF n, q
<1>7. ASSUME NEW i \in 1..n + 1
      PROVE  Published'[i] = q[i]
  <2>1. CASE i <= n
    BY <1>1, <1>3, <1>4, <1>6, <2>1
  <2>2. CASE i = n + 1
    <3>1. readIndex + i - 1 = writeIndex /\ i - n = 1
      BY <1>1, <2>2 DEF QueueInv, Indices
    <3>2. Published'[i] = produced
      BY <1>2, <1>3, <3>1
    <3>3. q[i] = produced
      BY <1>1, <1>5, <1>6, <2>2, <3>1
    <3>4. QED
      BY <3>2, <3>3
  <2>3. QED
    BY <1>1, <2>1, <2>2
<1>8. QED
  BY <1>3, <1>6, <1>7, SeqEqual DEF q

(* Releasing takes away the first frame, which is the one analysed.         *)
LEMMA ReleaseTakes ==
  ASSUME QueueAssumption, QueueInv, QueueInv', Release
  PROVE  Published # <<>> /\ Head(Published) = seen /\ Published' = Tail(Published)
<1> DEFINE n == writeIndex - readIndex
<1>1. n \in Nat \ {0} /\ readIndex \in Nat
  BY DEF QueueInv, Indices, Release, Reading
<1>2. /\ writeIndex' = writeIndex /\ readIndex' = readIndex + 1 /\ slots' = slots
      /\ slots[Slot(readIndex)] = seen
  BY DEF Release, producer, QueueInv, Contents
<1>3. /\ Published' \in Seq(Frames) /\ Len(Published') = n - 1
      /\ \A i \in 1..n - 1 : Published'[i] = slots[Slot(readIndex + i)]
  <2>1. /\ Published' \in Seq(Frames) /\ Len(Published') = writeIndex' - readIndex'
        /\ \A i \in 1..writeIndex' - readIndex' :
              Published'[i] = slots'[Slot(readIndex' + i - 1)]
    BY PublishedTypeNext DEF PublishedIsSeq, Frames, Torn, Slot
  <2>2. \A i \in 1..n - 1 : readIndex + 1 + i - 1 = readIndex + i
    BY <1>1
  <2>3. writeIndex' - readIndex' = n - 1
    BY <1>1, <1>2 DEF QueueInv, Indices
  <2>4. QED
    BY <1>2, <2>1, <2>2, <2>3
<1>4. /\ Published \in Seq(Frames) /\ Len(Published) = n
      /\ \A i \in 1..n : Published[i] = slots[Slot(readIndex + i - 1)]
  BY PublishedType DEF PublishedIsSeq
<1> HIDE DEF n
<1>5. Published # <<>>
  BY <1>1, <1>4, EmptySeq
<1>6. Head(Published) = seen
  <2>1. Head(Published) = Published[1] /\ readIndex + 1 - 1 = readIndex
    BY <1>1, <1>4, <1>5
  <2>2. QED
    BY <1>1, <1>2, <1>4, <2>1
<1>7. /\ Tail(Published) \in Seq(Frames) /\ Len(Tail(Published)) = n - 1
      /\ \A i \in 1..n - 1 : Tail(Published)[i] = Published[i + 1]
  BY <1>4, <1>5, HeadTailProperties
<1>8. ASSUME NEW i \in 1..n - 1
      PROVE  Published'[i] = Tail(Published)[i]
  <2>1. i + 1 \in 1..n /\ readIndex + (i + 1) - 1 = readIndex + i
    BY <1>1
  <2>2. QED
    BY <1>3, <1>4, <1>7, <2>1
<1>9. Published' = Tail(Published)
  BY <1>3, <1>7, <1>8, SeqEqual
<1>10. QED
  BY <1>5, <1>6, <1>9

(* The steps of the callback: the decision is the step of the stream, what  *)
(* follows it is invisible.                                                 *)
LEMMA EnqueueRefines ==
  ASSUME QueueAssumption, QueueInv, QueueInv', EnqueueSpectrumSample
  PROVE  Stream!Next \/ UNCHANGED Stream!vars
<1>1. /\ Published \in Seq(Frames) /\ Len(Published) = writeIndex - readIndex
      /\ Decided \in Seq(Frames) /\ Len(Decided) = IF Copying THEN 1 ELSE 0
  BY PublishedType, DecidedType DEF PublishedIsSeq
<1>2. CASE FrameComplete
  <2>1. Decided = <<>> /\ ~Copying /\ Published' = Published
    BY <1>2 DEF FrameComplete, consumer, Decided, Copying, Published, Slot
  <2>2. Published \o Decided = Published
    BY <1>1, <2>1, ConcatEmptySeq
  <2>3. CASE Room
    <3>1. Decided' = <<produced + 1>> /\ produced + 1 \in Frames
      BY <1>2, <2>3 DEF FrameComplete, Decided, QueueInv, Numbers, Frames, QueueAssumption
    <3>2. (Published \o Decided)' = Append(Published, produced + 1)
      BY <1>1, <2>1, <3>1, AppendIsConcat
    <3>3. Len(Published) < Slots
      BY <1>1, <2>3 DEF Room
    <3>4. dropped + (IF pcP = "drop" THEN 1 ELSE 0) = dropped' + (IF pcP' = "drop" THEN 1 ELSE 0)
      BY <1>2, <2>3 DEF FrameComplete
    <3>5. Stream!Put
      BY <1>2, <2>2, <3>2, <3>3, <3>4 DEF Stream!Put, FrameComplete, consumer
    <3>6. QED
      BY <3>5 DEF Stream!Next
  <2>4. CASE ~Room
    <3>1. Decided' = <<>> /\ (Published \o Decided)' = Published \o Decided
      BY <1>2, <2>1, <2>4 DEF FrameComplete, Decided
    <3>2. Len(Published) = Slots
      BY <1>1, <2>4 DEF Room, QueueInv, Indices, QueueAssumption
    <3>3. dropped' + (IF pcP' = "drop" THEN 1 ELSE 0) = dropped + (IF pcP = "drop" THEN 1 ELSE 0) + 1
      BY <1>2, <2>4 DEF FrameComplete, QueueInv, Numbers
    <3>4. Stream!Drop
      BY <1>2, <2>2, <3>1, <3>2, <3>3 DEF Stream!Drop, FrameComplete, consumer
    <3>5. QED
      BY <3>4 DEF Stream!Next
  <2>5. QED
    BY <2>3, <2>4
<1>3. CASE CopyBegins \/ CopyEnds
  <2>1. Published' = Published
    BY <1>3, CopyKeepsPublished DEF CopyBegins, CopyEnds, Copying, consumer
  <2>2. Decided' = Decided
    BY <1>3 DEF CopyBegins, CopyEnds, Decided
  <2>3. QED
    BY <1>3, <2>1, <2>2 DEF CopyBegins, CopyEnds, consumer, Stream!vars
<1>4. CASE Publish
  <2>1. Published' = Published \o Decided
    BY <1>4, PublishAppends DEF Publish, Decided
  <2>2. Decided' = <<>> /\ Published' \in Seq(Frames)
    BY <1>1, <1>4, <2>1, ConcatProperties DEF Publish, Decided
  <2>3. (Published \o Decided)' = Published \o Decided
    BY <2>1, <2>2, ConcatEmptySeq
  <2>4. QED
    BY <1>4, <2>3 DEF Publish, consumer, Stream!vars
<1>5. CASE DropFrame \/ Suppress
  <2>1. Published' = Published /\ Decided' = Decided
    BY <1>5 DEF DropFrame, Suppress, consumer, Published, Decided, Slot
  <2>2. dropped' + (IF pcP' = "drop" THEN 1 ELSE 0) = dropped + (IF pcP = "drop" THEN 1 ELSE 0)
    <3>1. dropped \in Nat
      BY DEF QueueInv, Numbers
    <3>2. CASE DropFrame
      BY <3>1, <3>2 DEF DropFrame
    <3>3. CASE Suppress
      BY <3>1, <3>3 DEF Suppress
    <3>4. QED
      BY <1>5, <3>2, <3>3
  <2>3. QED
    BY <1>5, <2>1, <2>2 DEF DropFrame, Suppress, consumer, Stream!vars
<1>6. QED
  BY <1>2, <1>3, <1>4, <1>5 DEF EnqueueSpectrumSample

(* The steps of the worker: to release the slot is to take the frame.       *)
LEMMA WorkerRefines ==
  ASSUME QueueAssumption, QueueInv, QueueInv', WorkerStep
  PROVE  Stream!Next \/ UNCHANGED Stream!vars
<1>1. CASE Release
  <2>1. Published # <<>> /\ Head(Published) = seen /\ Published' = Tail(Published)
    BY <1>1, ReleaseTakes
  <2>2. Decided' = Decided
    BY <1>1 DEF Release, producer, Decided
  <2>3. Published \in Seq(Frames) /\ Decided \in Seq(Frames)
    BY PublishedType, DecidedType DEF PublishedIsSeq
  <2>4. /\ Published \o Decided # <<>> /\ Head(Published \o Decided) = seen
        /\ Tail(Published \o Decided) = (Published \o Decided)'
    BY <2>1, <2>2, <2>3, TailOfConcat
  <2>5. taken' = Append(taken, seen)
    BY <1>1 DEF Release, QueueInv, Contents
  <2>6. Stream!Take
    BY <1>1, <2>4, <2>5 DEF Stream!Take, Release, producer
  <2>7. QED
    BY <2>6 DEF Stream!Next
<1>2. CASE Poll \/ CheckContiguous \/ RefreshLoudness \/ Analyze
  BY <1>2 DEF Poll, CheckContiguous, RefreshLoudness, Analyze, producer, Published, Decided, Slot,
     Stream!vars
<1>3. QED
  BY <1>1, <1>2 DEF WorkerStep

LEMMA StreamStepHolds ==
  ASSUME QueueAssumption, QueueInv, QueueInv', [Next]_vars
  PROVE  [StreamStep]_(Stream!vars)
<1>1. CASE CallbackEnqueues
  BY <1>1, EnqueueRefines DEF CallbackEnqueues, StreamStep
<1>2. CASE Worker
  BY <1>2, WorkerRefines DEF Worker, StreamStep
<1>3. CASE OpenDevice \/ StartAnalysisWorker
  BY <1>3 DEF OpenDevice, StartAnalysisWorker, StreamStep
<1>4. CASE JoinWorker \/ SignalWorker \/ UNCHANGED queue
  BY <1>4 DEF JoinWorker, SignalWorker, queue, producer, consumer, Published, Decided, Slot, Stream!vars
<1>5. QED
  BY <1>1, <1>2, <1>3, <1>4, QueueSteps

(* The lock-free spectrum queue between the device callback and the         *)
(* analysis worker implements a bounded stream: for any number of slots,    *)
(* the worker analyses complete frames, in order and once each, and         *)
(* enqueueSpectrumSample drops a frame only when the queue was full as it   *)
(* looked.                                                                  *)
THEOREM QueueImplementsStream ==
  ASSUME QueueAssumption
  PROVE  Spec => ImplementsStream
<1>1. Init => Stream!Init
  <2> SUFFICES ASSUME Init PROVE Stream!Init
    OBVIOUS
  <2>1. Published = <<>> /\ Decided = <<>>
    BY DEF Init, QueueInit, Published, Decided
  <2>2. Published \o Decided = <<>>
    BY <2>1, EmptySeq, ConcatEmptySeq
  <2>3. QED
    BY <2>2 DEF Init, QueueInit, Stream!Init
<1>2. QueueInv /\ QueueInv' /\ [Next]_vars => [StreamStep]_(Stream!vars)
  BY StreamStepHolds
<1>3. QED
  BY <1>1, <1>2, QueueInvHolds, PTL DEF Spec, ImplementsStream
=============================================================================
