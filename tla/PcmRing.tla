------------------------------- MODULE PcmRing -------------------------------
(***************************************************************************)
(* The pipeline that carries a recording from CoreAudio's render callback  *)
(* to its file (remtene-platform/audio/macos_coreaudio.rs): a lock-free    *)
(* ring with one producer, the callback, and one consumer, the writer      *)
(* thread; and the owner of the capture (SafeAudioCapture), which stops    *)
(* the device before it closes or cancels the ring and joins the thread.   *)
(*                                                                         *)
(* A step is one access to shared memory.  Every atomic access is taken in *)
(* program order: the release stores of the two indices order the relaxed  *)
(* stores and loads of the slots around them.  Indices are naturals: the   *)
(* code's wrap at 2^64 samples.  The passthrough and the resampling writer *)
(* read the ring by the same loop.  The i-th accepted sample is the number *)
(* i; Unset is a slot's initial value.                                     *)
(***************************************************************************)
EXTENDS Naturals, Sequences

CONSTANTS
  Capacity,  \* the slots of the ring
  MaxBatch,  \* the most samples one render callback brings
  Chunk,     \* the most samples the writer takes at once
  MaxHeard   \* bound: the samples the microphone ever delivers

ASSUME SizesArePositive ==
  /\ Capacity \in Nat \ {0} /\ MaxBatch \in Nat \ {0} /\ Chunk \in Nat \ {0}
  /\ MaxHeard \in Nat

VARIABLES
  slots, readIndex, writeIndex, closed, cancelled,  \* PcmRing
  callback,      \* where the render callback is
  batch,         \* the samples it brought
  stored,        \* how many of them it has stored
  writer,        \* where the writer thread is
  available,     \* the samples it takes
  taken,         \* those it has copied
  file,          \* the samples written to the file
  writerFailed,  \* RingFrameSink.writer_failed
  faulty,        \* CaptureFaultReporter: a fault was reported
  heard,         \* the samples the microphone delivered
  owner          \* where the owner of the capture is

ring == <<slots, readIndex, writeIndex, closed, cancelled>>
producer == <<callback, batch, stored, heard, faulty>>
consumer == <<writer, available, taken, file, writerFailed>>
vars == <<ring, producer, consumer, owner>>

Unset == 0
Slot(index) == index % Capacity
Ended == {"done", "cancelled", "failed"}

TypeOK ==
  /\ slots \in [0..(Capacity - 1) -> Nat]
  /\ readIndex \in Nat /\ writeIndex \in readIndex..(readIndex + Capacity)
  /\ closed \in BOOLEAN /\ cancelled \in BOOLEAN
  /\ callback \in {"idle", "load", "store"}
  /\ batch \in 0..MaxBatch /\ stored \in 0..batch
  /\ heard \in 0..MaxHeard /\ faulty \in BOOLEAN
  /\ writer \in Ended \cup {"check", "drain", "copy", "closed", "empty",
                            "complete", "failing"}
  /\ available \in 0..Chunk
  /\ taken \in Seq(Nat) /\ Len(taken) <= available
  /\ file \in Seq(Nat) /\ writerFailed \in BOOLEAN
  /\ owner \in {"recording", "stopped", "closing", "refused", "finalized",
                "aborting", "aborted"}

Init ==
  /\ slots = [i \in 0..(Capacity - 1) |-> Unset]
  /\ readIndex = 0 /\ writeIndex = 0 /\ closed = FALSE /\ cancelled = FALSE
  /\ callback = "idle" /\ batch = 0 /\ stored = 0 /\ heard = 0
  /\ faulty = FALSE
  /\ writer = "check" /\ available = 0 /\ taken = <<>> /\ file = <<>>
  /\ writerFailed = FALSE
  /\ owner = "recording"

-----------------------------------------------------------------------------
(* The render callback: RingFrameSink::try_write and PcmRing::try_push *)

(* The device delivers samples; those of a failed or closed pipeline are    *)
(* lost and the fault is reported, and so is a render error.                *)
Deliver ==
  /\ owner = "recording" /\ callback = "idle"
  /\ \E n \in 1..MaxBatch :
       /\ heard + n <= MaxHeard
       /\ heard' = heard + n
       /\ batch' = n
  /\ IF writerFailed \/ closed
     THEN faulty' = TRUE /\ UNCHANGED callback
     ELSE \/ callback' = "load" /\ UNCHANGED faulty
          \/ faulty' = TRUE /\ UNCHANGED callback
  /\ stored' = 0
  /\ UNCHANGED <<ring, consumer, owner>>

HasRoom == batch <= Capacity - (writeIndex - readIndex)

LoadIndices ==
  /\ callback = "load"
  /\ IF HasRoom THEN callback' = "store" /\ UNCHANGED faulty
                ELSE callback' = "idle" /\ faulty' = TRUE
  /\ UNCHANGED <<ring, batch, stored, heard, consumer, owner>>

StoreSample ==
  /\ callback = "store" /\ stored < batch
  /\ slots' = [slots EXCEPT ![Slot(writeIndex + stored)] =
                              writeIndex + stored + 1]
  /\ stored' = stored + 1
  /\ UNCHANGED <<readIndex, writeIndex, closed, cancelled, callback, batch,
                 heard, faulty, consumer, owner>>

Publish ==
  /\ callback = "store" /\ stored = batch
  /\ writeIndex' = writeIndex + batch
  /\ callback' = "idle"
  /\ UNCHANGED <<slots, readIndex, closed, cancelled, batch, stored, heard,
                 faulty, consumer, owner>>

-----------------------------------------------------------------------------
(* The writer thread: write_pcm_stream and PcmRing::drain_into *)

CheckCancelled ==
  /\ writer = "check"
  /\ writer' = IF cancelled THEN "cancelled" ELSE "drain"
  /\ UNCHANGED <<ring, producer, available, taken, file, writerFailed, owner>>

LoadAvailable ==
  /\ writer = "drain"
  /\ available' = IF writeIndex - readIndex < Chunk
                  THEN writeIndex - readIndex ELSE Chunk
  /\ writer' = IF available' = 0 THEN "closed" ELSE "copy"
  /\ taken' = <<>>
  /\ UNCHANGED <<ring, producer, file, writerFailed, owner>>

CopySample ==
  /\ writer = "copy" /\ Len(taken) < available
  /\ taken' = Append(taken, slots[Slot(readIndex + Len(taken))])
  /\ UNCHANGED <<ring, producer, writer, available, file, writerFailed, owner>>

(* The slots are freed and the samples written, or the disk fails. *)
Advance ==
  /\ writer = "copy" /\ Len(taken) = available
  /\ readIndex' = readIndex + available
  /\ \/ file' = file \o taken /\ writer' = "check"
     \/ writer' = "failing" /\ UNCHANGED file
  /\ UNCHANGED <<slots, writeIndex, closed, cancelled, producer, available,
                 taken, writerFailed, owner>>

(* Mutant: the stream ends as soon as it is closed. *)
ReadClosedOnly ==
  /\ writer = "closed"
  /\ writer' = IF closed THEN "complete" ELSE "check"
  /\ UNCHANGED <<ring, producer, available, taken, file, writerFailed, owner>>

(* Nothing was available: the thread looks whether the ring is closed and   *)
(* then whether it is still empty, and parks for a while otherwise.         *)
ReadClosed ==
  /\ writer = "closed"
  /\ writer' = IF closed THEN "empty" ELSE "check"
  /\ UNCHANGED <<ring, producer, available, taken, file, writerFailed, owner>>

ReadEmpty ==
  /\ writer = "empty"
  /\ writer' = IF readIndex = writeIndex THEN "complete" ELSE "check"
  /\ UNCHANGED <<ring, producer, available, taken, file, writerFailed, owner>>

(* finalize_wav: the header and the length, or the disk fails. *)
CompleteFile ==
  /\ writer = "complete"
  /\ writer' \in {"done", "failing"}
  /\ UNCHANGED <<ring, producer, available, taken, file, writerFailed, owner>>

ReportFailure ==
  /\ writer = "failing"
  /\ writer' = "failed" /\ writerFailed' = TRUE
  /\ UNCHANGED <<ring, producer, available, taken, file, owner>>

-----------------------------------------------------------------------------
(* The owner: SafeAudioCapture::finish_sync and cancel_sync *)

(* AudioOutputUnitStop returns when no callback runs any more. *)
StopDevice ==
  /\ owner = "recording" /\ callback = "idle"
  /\ owner' = "stopped"
  /\ UNCHANGED <<ring, producer, consumer>>

(* Mutant: the ring stays open. *)
FinishWithoutClosing ==
  /\ owner = "stopped"
  /\ owner' = IF faulty THEN "refused" ELSE "closing"
  /\ UNCHANGED <<ring, producer, consumer>>

(* Mutant: a fault of the device is not looked at. *)
FinishDespiteFault ==
  /\ owner = "stopped"
  /\ closed' = TRUE /\ owner' = "closing"
  /\ UNCHANGED <<slots, readIndex, writeIndex, cancelled, producer, consumer>>

Finish ==
  /\ owner = "stopped"
  /\ IF faulty THEN owner' = "refused" /\ UNCHANGED closed
               ELSE closed' = TRUE /\ owner' = "closing"
  /\ UNCHANGED <<slots, readIndex, writeIndex, cancelled, producer, consumer>>

Join ==
  /\ writer \in Ended
  /\ \/ /\ owner = "closing"
        /\ owner' = IF writer = "done" THEN "finalized" ELSE "refused"
     \/ owner = "aborting" /\ owner' = "aborted"
  /\ UNCHANGED <<ring, producer, consumer>>

(* A cancel instead of a finish, or after one that was refused. *)
Abort ==
  /\ owner \in {"stopped", "refused"}
  /\ cancelled' = TRUE /\ closed' = TRUE
  /\ owner' = "aborting"
  /\ UNCHANGED <<slots, readIndex, writeIndex, producer, consumer>>

-----------------------------------------------------------------------------
CallbackStep == LoadIndices \/ StoreSample \/ Publish

WriterStep ==
  \/ CheckCancelled \/ LoadAvailable \/ CopySample \/ Advance \/ ReadClosed
  \/ ReadEmpty \/ CompleteFile \/ ReportFailure

OwnerStep == StopDevice \/ Finish \/ Join \/ Abort

Over == owner \in {"finalized", "aborted"} /\ UNCHANGED vars

Next == Deliver \/ CallbackStep \/ WriterStep \/ OwnerStep \/ Over

Spec == Init /\ [][Next]_vars

(* Threads run, and the owner joins.  Nobody has to stop a recording. *)
Fairness == WF_vars(CallbackStep) /\ WF_vars(WriterStep) /\ WF_vars(Join)

FairSpec == Spec /\ Fairness

-----------------------------------------------------------------------------
(* Properties *)

(* A recording that finish hands out holds every sample the microphone      *)
(* delivered: one that lost any of them is refused.                         *)
FinishedIsComplete == owner = "finalized" => Len(file) = heard

(* The writer never reads a slot that the callback has reused or not yet    *)
(* written, and never ends with samples left in the ring.                   *)
Phase == CASE writer = "done" -> "complete"
           [] writer \in {"failing", "failed"} -> "failed"
           [] OTHER -> "open"

Fifo == INSTANCE AudioFifo WITH sent <- writeIndex, phase <- Phase
ImplementsFifo == Fifo!Spec

(* The owner holds the registry's lock while it joins the writer thread:    *)
(* the thread must end, whatever is left in the ring and however it failed. *)
JoinReturns == owner \in {"closing", "aborting"}
                 ~> owner \in {"finalized", "refused", "aborted"}
=============================================================================
