--------------------------- MODULE SpectrumQueue ---------------------------
(***************************************************************************)
(* The lock-free spectrum queue of audio_core/src/audio_device_host.cpp:   *)
(* the real-time device callback (enqueueSpectrumSample) produces frames,  *)
(* the analysis worker consumes them.  One step per access to a shared     *)
(* atomic; copying into a slot takes time, so a slot that is being written *)
(* is Torn until the copy is complete.  The indices are accessed with      *)
(* release and acquire and can be modelled as sequentially consistent; the *)
(* relaxed flags are modelled so, too, which leaves out orders a weaker    *)
(* machine adds.  Who starts and ends callback and worker is AudioHost.    *)
(***************************************************************************)
EXTENDS Integers, Sequences

CONSTANTS
  Slots,         \* kSpectrumQueueSlots
  RefreshEvery,  \* windows between two refreshes of the loudness values
  MaxFrames      \* bound: frames of a session

ASSUME QueueAssumption ==
  Slots \in Nat \ {0} /\ RefreshEvery \in Nat \ {0} /\ MaxFrames \in Nat

VARIABLES
  slots,         \* spectrumQueue: the number of the frame in each slot
  writeIndex, readIndex,
  produced,      \* how many frames the callback has completed
  dropped,       \* droppedSpectrumFrames
  pcP,           \* enqueueSpectrumSample
  pcC,           \* the worker, "none" while there is no such thread
  seen,          \* the frame the worker works on
  contiguous,    \* loudnessContiguous
  available,     \* momentaryLufsAvailable and integratedLufsAvailable
  windows,       \* windowsSinceLoudnessRead
  analysisStop,
  taken,         \* history: the frames the worker has analysed
  late           \* history: loudness refreshes since continuity was lost

producer == <<pcP, produced, dropped, writeIndex, slots>>
consumer == <<pcC, seen, windows, readIndex, taken>>
loudness == <<contiguous, available, late>>
queue == <<producer, consumer, loudness, analysisStop>>

Torn == -1
Slot(index) == index % Slots

-----------------------------------------------------------------------------
(* enqueueSpectrumSample, once a frame is complete *)

(* Mutant: one frame too many fits.                                         *)
RoomForOneMore == writeIndex - readIndex <= Slots

(* There is room: decided on the readIndex loaded now.                      *)
Room == writeIndex - readIndex < Slots

FrameComplete ==
  /\ pcP = "idle"
  /\ produced < MaxFrames
  /\ produced' = produced + 1
  /\ pcP' = IF Room THEN "copy" ELSE "drop"
  /\ UNCHANGED <<dropped, writeIndex, slots, consumer, loudness, analysisStop>>

CopyBegins ==
  /\ pcP = "copy"
  /\ slots' = [slots EXCEPT ![Slot(writeIndex)] = Torn]
  /\ pcP' = "copying"
  /\ UNCHANGED <<produced, dropped, writeIndex, consumer, loudness, analysisStop>>

CopyEnds ==
  /\ pcP = "copying"
  /\ slots' = [slots EXCEPT ![Slot(writeIndex)] = produced]
  /\ pcP' = "publish"
  /\ UNCHANGED <<produced, dropped, writeIndex, consumer, loudness, analysisStop>>

Publish ==
  /\ pcP = "publish"
  /\ writeIndex' = writeIndex + 1
  /\ pcP' = "idle"
  /\ UNCHANGED <<produced, dropped, slots, consumer, loudness, analysisStop>>

(* A frame is lost: loudness is suppressed, first the flag, then the values. *)
DropFrame ==
  /\ pcP = "drop"
  /\ dropped' = dropped + 1
  /\ contiguous' = FALSE
  /\ pcP' = "suppress"
  /\ UNCHANGED <<produced, writeIndex, slots, consumer, available, late, analysisStop>>

(* Mutant: only the flag is cleared, what was published stays.              *)
SuppressFlagOnly ==
  /\ pcP = "suppress"
  /\ pcP' = "idle"
  /\ UNCHANGED <<produced, dropped, writeIndex, slots, consumer, loudness, analysisStop>>

Suppress ==
  /\ pcP = "suppress"
  /\ available' = FALSE
  /\ pcP' = "idle"
  /\ UNCHANGED <<produced, dropped, writeIndex, slots, consumer, contiguous, late, analysisStop>>

EnqueueSpectrumSample ==
  FrameComplete \/ CopyBegins \/ CopyEnds \/ Publish \/ DropFrame \/ Suppress

-----------------------------------------------------------------------------
(* The analysis worker *)

(* The indices are loaded; an empty queue ends the worker once stop is set. *)
Poll ==
  /\ pcC = "poll"
  /\ \/ readIndex = writeIndex /\ analysisStop /\ pcC' = "exit"
     \/ readIndex # writeIndex /\ pcC' = "loudness"
  /\ UNCHANGED <<producer, seen, windows, readIndex, taken, loudness, analysisStop>>

(* Mutant: the worker does not ask whether frames were lost.                *)
AlwaysContiguous == TRUE

(* The frame is processed for loudness only while no frame was lost. (The   *)
(* meter is ready: it accepts the sample rates AudioEngine::configure does.) *)
Contiguous == contiguous

CheckContiguous ==
  /\ pcC = "loudness"
  /\ \/ /\ Contiguous
        /\ windows' = (windows + 1) % RefreshEvery
        /\ pcC' = IF windows + 1 = RefreshEvery THEN "refresh" ELSE "analyze"
     \/ /\ ~Contiguous
        /\ pcC' = "analyze"
        /\ UNCHANGED windows
  /\ UNCHANGED <<producer, seen, readIndex, taken, loudness, analysisStop>>

(* The loudness values are published, available or not yet.                 *)
RefreshLoudness ==
  /\ pcC = "refresh"
  /\ available' \in BOOLEAN
  /\ late' = IF contiguous THEN late ELSE late + 1
  /\ pcC' = "analyze"
  /\ UNCHANGED <<producer, seen, windows, readIndex, taken, contiguous, analysisStop>>

Analyze ==
  /\ pcC = "analyze"
  /\ seen' = slots[Slot(readIndex)]
  /\ pcC' = "release"
  /\ UNCHANGED <<producer, windows, readIndex, taken, loudness, analysisStop>>

(* The slot is given back; what it held until now was analysed.             *)
Release ==
  /\ pcC = "release"
  /\ taken' = Append(taken, IF slots[Slot(readIndex)] = seen THEN seen ELSE Torn)
  /\ readIndex' = readIndex + 1
  /\ pcC' = "poll"
  /\ UNCHANGED <<producer, seen, windows, loudness, analysisStop>>

WorkerStep == Poll \/ CheckContiguous \/ RefreshLoudness \/ Analyze \/ Release

-----------------------------------------------------------------------------

QueueInit ==
  /\ slots = [i \in 0..Slots - 1 |-> 0]
  /\ writeIndex = 0 /\ readIndex = 0
  /\ produced = 0 /\ dropped = 0
  /\ pcP = "idle" /\ pcC = "none"
  /\ seen = 0
  /\ contiguous = TRUE /\ available = FALSE
  /\ windows = 0
  /\ analysisStop = TRUE
  /\ taken = <<>>
  /\ late = 0

(* startAnalysisWorker up to the start of the thread; what the slots held   *)
(* stays.  The numbers of the frames, and the histories, begin anew.        *)
ResetQueue ==
  /\ writeIndex' = 0 /\ readIndex' = 0
  /\ contiguous' = TRUE /\ available' = FALSE
  /\ windows' = 0 /\ seen' = 0
  /\ produced' = 0 /\ taken' = <<>> /\ late' = 0
  /\ UNCHANGED <<slots, dropped, pcP>>

(* Types; the queue never holds more than its slots.                        *)
QueueTypeOK ==
  /\ slots \in [0..Slots - 1 -> {Torn} \cup 0..MaxFrames]
  /\ readIndex \in Nat /\ writeIndex \in readIndex..readIndex + Slots
  /\ produced \in 0..MaxFrames /\ dropped \in 0..MaxFrames
  /\ pcP \in {"idle", "copy", "copying", "publish", "drop", "suppress"}
  /\ pcC \in {"none", "poll", "loudness", "refresh", "analyze", "release", "exit"}
  /\ seen \in {Torn} \cup 0..MaxFrames
  /\ contiguous \in BOOLEAN /\ available \in BOOLEAN /\ analysisStop \in BOOLEAN
  /\ windows \in 0..RefreshEvery - 1
  /\ taken \in Seq({Torn} \cup 0..MaxFrames)
  /\ late \in Nat

(* The frames a reader of the indices finds, and the one the callback has   *)
(* already decided to put.                                                  *)
Published == [i \in 1..writeIndex - readIndex |-> slots[Slot(readIndex + i - 1)]]
Decided == IF pcP \in {"copy", "copying", "publish"} THEN <<produced>> ELSE <<>>

Stream == INSTANCE SpectrumStream WITH
  queue <- Published \o Decided,
  dropped <- dropped + (IF pcP = "drop" THEN 1 ELSE 0)
=============================================================================
