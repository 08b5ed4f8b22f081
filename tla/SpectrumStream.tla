--------------------------- MODULE SpectrumStream ---------------------------
(***************************************************************************)
(* What the spectrum queue of the audio host promises: a bounded stream of *)
(* frames from the device callback to the analysis worker.  Frames come    *)
(* out in order, unchanged and at most once; the callback never waits, and *)
(* a frame is dropped only while the queue is full.                        *)
(***************************************************************************)
EXTENDS Integers, Sequences

CONSTANTS Slots, MaxFrames

VARIABLES
  queue,     \* frames put and not yet taken
  taken,     \* the frames the worker has analysed
  produced,  \* how many frames the callback has completed: their numbers
  dropped    \* how many of them were dropped

vars == <<queue, taken, produced, dropped>>

Init == queue = <<>> /\ taken = <<>> /\ produced = 0 /\ dropped = 0

Put ==
  /\ produced < MaxFrames
  /\ Len(queue) < Slots
  /\ queue' = Append(queue, produced + 1)
  /\ produced' = produced + 1
  /\ UNCHANGED <<taken, dropped>>

Drop ==
  /\ produced < MaxFrames
  /\ Len(queue) = Slots
  /\ produced' = produced + 1
  /\ dropped' = dropped + 1
  /\ UNCHANGED <<queue, taken>>

Take ==
  /\ queue # <<>>
  /\ taken' = Append(taken, Head(queue))
  /\ queue' = Tail(queue)
  /\ UNCHANGED <<produced, dropped>>

Next == Put \/ Drop \/ Take

Spec == Init /\ [][Next]_vars
=============================================================================
