----------------------------- MODULE PcmRingProofs -----------------------------
(***************************************************************************)
(* What holds of PcmRing for every size of the ring, of the batches and of *)
(* the writer's chunks, and for every length of a recording: its types,    *)
(* that a finalized recording is complete, and that the ring with its two  *)
(* threads implements AudioFifo.                                           *)
(***************************************************************************)
EXTENDS PcmRing, Integers, TLAPS

-----------------------------------------------------------------------------
(* The inductive invariant *)

(* What the callback has brought but not yet published. *)
Pending == IF callback = "idle" THEN 0 ELSE batch

(* The samples it has stored beyond the write index. *)
Ahead == IF callback = "store" THEN stored ELSE 0

(* Each slot from the read index to the last sample stored holds the sample *)
(* of that number, and what is being stored has room behind what is unread. *)
RingInv ==
  /\ \A i \in readIndex..(writeIndex + Ahead - 1) : slots[Slot(i)] = i + 1
  /\ callback = "store" => writeIndex + batch <= readIndex + Capacity
  /\ callback # "idle" => batch > 0
  /\ callback = "load" => stored = 0

(* The callback runs only while recording, the ring is closed only later,   *)
(* and what was heard is published unless a fault was reported.             *)
OwnerInv ==
  /\ callback # "idle" => owner = "recording"
  /\ owner \in {"recording", "stopped"} => ~closed
  /\ owner \in {"closing", "finalized"} => ~faulty
  /\ owner = "finalized" => writer = "done"
  /\ ~faulty => heard = writeIndex + Pending

(* The file holds what was read; a chunk being copied is what comes next;   *)
(* and the thread ends only on a closed ring with nothing left in it.       *)
WriterInv ==
  /\ \A i \in 1..Len(file) : file[i] = i
  /\ writer \notin {"failing", "failed"} => Len(file) = readIndex
  /\ writer = "copy" =>
       /\ available > 0 /\ readIndex + available <= writeIndex
       /\ \A k \in 1..Len(taken) : taken[k] = readIndex + k
  /\ writer \in {"empty", "complete", "done"} => closed
  /\ writer \in {"complete", "done"} => readIndex = writeIndex

PipelineInv == TypeOK /\ RingInv /\ OwnerInv /\ WriterInv

-----------------------------------------------------------------------------
(* The slots *)

(* Every index has a slot. *)
LEMMA SlotType ==
  ASSUME NEW i \in Nat
  PROVE  Slot(i) \in 0..(Capacity - 1)
  BY SizesArePositive DEF Slot

(* An index is a number of rounds of the ring and its slot. *)
LEMMA SlotRounds ==
  ASSUME NEW i \in Nat
  PROVE  /\ i \div Capacity \in Int
         /\ i = Capacity * (i \div Capacity) + Slot(i)
  BY SizesArePositive DEF Slot

(* Two indices that share a slot are a whole round apart, so the callback   *)
(* overwrites no sample that is still within the ring's capacity.           *)
LEMMA SlotsAreDistinct ==
  ASSUME NEW i \in Nat, NEW j \in Nat, i < j, j < i + Capacity
  PROVE  Slot(i) # Slot(j)
<1> DEFINE p == i \div Capacity
           q == j \div Capacity
<1>1. /\ p \in Int /\ q \in Int
      /\ i = Capacity * p + Slot(i)
      /\ j = Capacity * q + Slot(j)
      /\ Slot(i) \in Int /\ Slot(j) \in Int
  BY SlotRounds, SlotType
<1> HIDE DEF p, q
<1> SUFFICES ASSUME Slot(i) = Slot(j) PROVE FALSE
  OBVIOUS
<1>2. Capacity * q - Capacity * p = j - i
  BY <1>1, SizesArePositive
<1>3. Capacity * (q - p) = j - i
  BY <1>1, <1>2, SizesArePositive
<1>4. q - p > 0
  BY <1>1, <1>3, SizesArePositive
<1>5. Capacity * (q - p) >= Capacity
  BY <1>1, <1>4, SizesArePositive
<1> QED BY <1>3, <1>5, SizesArePositive

(* A chunk that continues the numbering of a file continues it there. *)
LEMMA NumberingContinues ==
  ASSUME NEW s \in Seq(Nat), NEW t \in Seq(Nat),
         \A k \in 1..Len(s) : s[k] = k,
         \A k \in 1..Len(t) : t[k] = Len(s) + k
  PROVE  /\ s \o t \in Seq(Nat) /\ Len(s \o t) = Len(s) + Len(t)
         /\ \A k \in 1..Len(s \o t) : (s \o t)[k] = k
<1>1. s \o t \in Seq(Nat) /\ Len(s \o t) = Len(s) + Len(t)
  OBVIOUS
<1>2. ASSUME NEW k \in 1..Len(s \o t) PROVE (s \o t)[k] = k
  <2>1. CASE k \in 1..Len(s)
    BY <2>1
  <2>2. CASE k \notin 1..Len(s)
    <3>1. k - Len(s) \in 1..Len(t) /\ (s \o t)[k] = t[k - Len(s)]
      BY <1>1, <2>2
    <3> QED BY <3>1
  <2> QED BY <2>1, <2>2
<1> QED BY <1>1, <1>2

-----------------------------------------------------------------------------
(* The invariant is inductive *)

(* A step keeps the types. *)
LEMMA NextKeepsType ==
  ASSUME PipelineInv, [Next]_vars
  PROVE  TypeOK'
<1> USE SizesArePositive DEF PipelineInv, TypeOK, ring, producer, consumer, Ended
<1>1. CASE Deliver
  <2>1. heard' \in 0..MaxHeard /\ batch' \in 0..MaxBatch /\ stored' \in 0..batch'
    BY <1>1 DEF Deliver
  <2>2. callback' \in {"idle", "load", "store"} /\ faulty' \in BOOLEAN
    BY <1>1 DEF Deliver
  <2> QED BY <1>1, <2>1, <2>2 DEF Deliver
<1>2. CASE LoadIndices
  BY <1>2 DEF LoadIndices
<1>3. CASE StoreSample
  <2>1. slots' \in [0..(Capacity - 1) -> Nat]
    <3>1. writeIndex + stored + 1 \in Nat
      OBVIOUS
    <3>2. slots' = [slots EXCEPT ![Slot(writeIndex + stored)] =
                                   writeIndex + stored + 1]
      BY <1>3 DEF StoreSample
    <3> HIDE DEF ring, producer, consumer, Ended
    <3> QED BY <3>1, <3>2
  <2>2. stored' \in 0..batch
    <3>1. stored < batch /\ stored' = stored + 1
      BY <1>3 DEF StoreSample
    <3>2. stored \in Nat /\ batch \in Nat
      OBVIOUS
    <3> QED BY ONLY <3>1, <3>2
  <2> QED BY <1>3, <2>1, <2>2 DEF StoreSample
<1>4. CASE Publish
  BY <1>4 DEF Publish, RingInv
<1>5. CASE CheckCancelled
  BY <1>5 DEF CheckCancelled
<1>6. CASE LoadAvailable
  BY <1>6 DEF LoadAvailable
<1>7. CASE CopySample
  <2>1. slots[Slot(readIndex + Len(taken))] \in Nat
    <3>1. readIndex + Len(taken) \in Nat
      OBVIOUS
    <3> QED BY <3>1, SlotType
  <2> QED BY <1>7, <2>1 DEF CopySample
<1>8. CASE Advance
  <2>1. readIndex' \in Nat /\ writeIndex' \in readIndex'..(readIndex' + Capacity)
    BY <1>8 DEF Advance, WriterInv
  <2>2. file' \in Seq(Nat)
    <3>1. file \in Seq(Nat) /\ taken \in Seq(Nat) /\ (file' = file \/ file' = file \o taken)
      BY <1>8 DEF Advance
    <3>2. file \o taken \in Seq(Nat)
      BY ONLY <3>1
    <3> QED BY <3>1, <3>2
  <2> QED BY <1>8, <2>1, <2>2 DEF Advance
<1>9. CASE ReadClosed
  BY <1>9 DEF ReadClosed
<1>10. CASE ReadEmpty
  BY <1>10 DEF ReadEmpty
<1>11. CASE CompleteFile
  BY <1>11 DEF CompleteFile
<1>12. CASE ReportFailure
  BY <1>12 DEF ReportFailure
<1>13. CASE OwnerStep
  BY <1>13 DEF OwnerStep, StopDevice, Finish, Join, Abort
<1>14. CASE UNCHANGED vars
  BY <1>14 DEF vars
<1> QED BY <1>1, <1>2, <1>3, <1>4, <1>5, <1>6, <1>7, <1>8, <1>9, <1>10, <1>11,
           <1>12, <1>13, <1>14 DEF Next, CallbackStep, WriterStep, Over

(* A step keeps what is unread in its slots. *)
LEMMA NextKeepsRing ==
  ASSUME PipelineInv, [Next]_vars
  PROVE  RingInv'
<1> USE SizesArePositive DEF PipelineInv, TypeOK, RingInv, Ahead, ring, producer,
                             consumer
<1>1. CASE Deliver
  BY <1>1 DEF Deliver
<1>2. CASE LoadIndices
  <2>1. writeIndex' = writeIndex /\ Ahead' = 0 /\ Ahead = 0
    BY <1>2 DEF LoadIndices
  <2>2. callback' = "store" => writeIndex + batch <= readIndex + Capacity
    BY <1>2 DEF LoadIndices, HasRoom
  <2> QED BY <1>2, <2>1, <2>2 DEF LoadIndices
<1>3. CASE StoreSample
  <2> DEFINE last == writeIndex + stored
  <2>1. /\ last \in Nat /\ last < readIndex + Capacity
        /\ slots' = [slots EXCEPT ![Slot(last)] = last + 1]
        /\ Slot(last) \in 0..(Capacity - 1)
        /\ \A i \in readIndex..(last - 1) : slots[Slot(i)] = i + 1
        /\ writeIndex' + Ahead' - 1 = last
        /\ readIndex' = readIndex
    <3>1. last \in Nat /\ last < readIndex + Capacity
      BY <1>3 DEF StoreSample
    <3>2. Slot(last) \in 0..(Capacity - 1)
      BY <3>1, SlotType
    <3>3. /\ slots' = [slots EXCEPT ![Slot(last)] = last + 1]
          /\ writeIndex' + Ahead' - 1 = last
          /\ readIndex' = readIndex
      BY <1>3 DEF StoreSample
    <3>4. \A i \in readIndex..(last - 1) : slots[Slot(i)] = i + 1
      BY <1>3 DEF StoreSample
    <3> QED BY <3>1, <3>2, <3>3, <3>4
  <2> HIDE DEF last
  <2>2. ASSUME NEW i \in readIndex..last
        PROVE  slots'[Slot(i)] = i + 1
    <3>1. CASE i = last
      BY <2>1, <3>1
    <3>2. CASE i # last
      <4>1. /\ i \in Nat /\ i < last /\ last < i + Capacity
            /\ i \in readIndex..(last - 1)
        BY <2>1, <3>2
      <4>2. Slot(i) # Slot(last) /\ Slot(i) \in 0..(Capacity - 1)
        BY <2>1, <4>1, SlotsAreDistinct, SlotType
      <4> QED BY <2>1, <4>1, <4>2
    <3> QED BY <3>1, <3>2
  <2>3. \A i \in readIndex'..(writeIndex' + Ahead' - 1) : slots'[Slot(i)] = i + 1
    BY <2>1, <2>2
  <2>4. UNCHANGED <<readIndex, writeIndex, callback, batch>> /\ callback = "store"
    BY <1>3 DEF StoreSample
  <2> QED BY <2>3, <2>4
<1>4. CASE Publish
  BY <1>4 DEF Publish
<1>5. CASE Advance
  BY <1>5 DEF Advance, WriterInv
<1>6. CASE CheckCancelled \/ LoadAvailable \/ CopySample \/ ReadClosed
           \/ ReadEmpty \/ CompleteFile \/ ReportFailure \/ OwnerStep
           \/ UNCHANGED vars
  <2>1. UNCHANGED <<slots, readIndex, writeIndex, callback, batch, stored>>
    BY <1>6 DEF CheckCancelled, LoadAvailable, CopySample, ReadClosed, ReadEmpty,
      CompleteFile, ReportFailure, OwnerStep, StopDevice, Finish, Join, Abort, vars
  <2> QED BY <2>1
<1> QED BY <1>1, <1>2, <1>3, <1>4, <1>5, <1>6
        DEF Next, CallbackStep, WriterStep, Over

(* A step keeps the order in which the owner stops and closes. *)
LEMMA NextKeepsOwner ==
  ASSUME PipelineInv, [Next]_vars
  PROVE  OwnerInv'
<1> USE SizesArePositive DEF PipelineInv, TypeOK, OwnerInv, Pending, ring,
                             producer, consumer, Ended
<1>1. CASE Deliver
  BY <1>1 DEF Deliver
<1>2. CASE LoadIndices
  BY <1>2 DEF LoadIndices
<1>3. CASE StoreSample
  BY <1>3 DEF StoreSample
<1>4. CASE Publish
  <2>1. ~faulty => heard' = writeIndex' + Pending'
    BY <1>4 DEF Publish
  <2> QED BY <1>4, <2>1 DEF Publish
<1>5. CASE WriterStep
  <2>1. UNCHANGED <<callback, owner, closed, faulty, heard, writeIndex, batch>>
    BY <1>5 DEF WriterStep, CheckCancelled, LoadAvailable, CopySample, Advance,
                ReadClosed, ReadEmpty, CompleteFile, ReportFailure
  <2>2. writer = "done" => writer' = "done"
    BY <1>5 DEF WriterStep, CheckCancelled, LoadAvailable, CopySample, Advance,
                ReadClosed, ReadEmpty, CompleteFile, ReportFailure
  <2> QED BY <2>1, <2>2
<1>6. CASE OwnerStep
  BY <1>6 DEF OwnerStep, StopDevice, Finish, Join, Abort
<1>7. CASE UNCHANGED vars
  BY <1>7 DEF vars
<1> QED BY <1>1, <1>2, <1>3, <1>4, <1>5, <1>6, <1>7
        DEF Next, CallbackStep, Over

(* A step keeps the file a prefix of what was accepted. *)
LEMMA NextKeepsWriter ==
  ASSUME PipelineInv, [Next]_vars
  PROVE  WriterInv'
<1> USE SizesArePositive DEF PipelineInv, TypeOK, WriterInv, ring, producer,
                             consumer, Ended
<1>1. CASE Deliver
  BY <1>1 DEF Deliver
<1>2. CASE CallbackStep
  <2>1. /\ UNCHANGED <<file, writer, readIndex, available, taken, closed>>
        /\ writeIndex' \in Nat /\ writeIndex' >= writeIndex
    BY <1>2 DEF CallbackStep, LoadIndices, StoreSample, Publish
  <2>2. ~closed
    BY <1>2 DEF CallbackStep, LoadIndices, StoreSample, Publish, OwnerInv
  <2>3. writer \notin {"empty", "complete", "done"}
    BY <2>2
  <2>4. writer = "copy" => readIndex + available <= writeIndex'
    BY <2>1
  <2> QED BY <2>1, <2>3, <2>4
<1>3. CASE CheckCancelled
  BY <1>3 DEF CheckCancelled
<1>4. CASE LoadAvailable
  BY <1>4 DEF LoadAvailable
<1>5. CASE CopySample
  <2>1. slots[Slot(readIndex + Len(taken))] = readIndex + Len(taken) + 1
    BY <1>5 DEF CopySample, RingInv, Ahead
  <2>2. \A k \in 1..Len(taken') : taken'[k] = readIndex + k
    <3>1. \A k \in 1..Len(taken) : taken[k] = readIndex + k
      BY <1>5 DEF CopySample
    <3>2. /\ taken' = Append(taken, readIndex + Len(taken) + 1)
          /\ readIndex' = readIndex
      BY <1>5, <2>1 DEF CopySample
    <3>3. taken \in Seq(Nat) /\ readIndex \in Nat
      OBVIOUS
    <3> QED BY ONLY <3>1, <3>2, <3>3
  <2> QED BY <1>5, <2>2 DEF CopySample
<1>6. CASE Advance
  <2>1. CASE file' = file \o taken /\ writer' = "check"
    <3>1. /\ taken \in Seq(Nat) /\ file \in Seq(Nat)
          /\ Len(file) = readIndex /\ Len(taken) = available
          /\ \A k \in 1..Len(taken) : taken[k] = readIndex + k
          /\ \A k \in 1..Len(file) : file[k] = k
          /\ readIndex' = readIndex + available
      BY <1>6 DEF Advance
    <3>2. /\ Len(file') = readIndex'
          /\ \A k \in 1..Len(file') : file'[k] = k
      BY ONLY <2>1, <3>1, NumberingContinues
    <3> QED BY <2>1, <3>2
  <2>2. CASE writer' = "failing" /\ UNCHANGED file
    BY <2>2
  <2> QED BY <1>6, <2>1, <2>2 DEF Advance
<1>7. CASE ReadClosed
  BY <1>7 DEF ReadClosed
<1>8. CASE ReadEmpty
  BY <1>8 DEF ReadEmpty
<1>9. CASE CompleteFile \/ ReportFailure
  BY <1>9 DEF CompleteFile, ReportFailure
<1>10. CASE OwnerStep
  BY <1>10 DEF OwnerStep, StopDevice, Finish, Join, Abort
<1>11. CASE UNCHANGED vars
  BY <1>11 DEF vars
<1> QED BY <1>1, <1>2, <1>3, <1>4, <1>5, <1>6, <1>7, <1>8, <1>9, <1>10, <1>11
        DEF Next, WriterStep, Over

(* The invariant holds of every behaviour. *)
LEMMA PipelineInvariant == Spec => []PipelineInv
<1>1. Init => PipelineInv
  <2> SUFFICES ASSUME Init PROVE PipelineInv
    OBVIOUS
  <2>1. TypeOK
    <3>1. slots \in [0..(Capacity - 1) -> Nat]
      BY DEF Init, Unset
    <3>2. /\ writeIndex \in readIndex..(readIndex + Capacity) /\ readIndex \in Nat
          /\ batch \in 0..MaxBatch /\ stored \in 0..batch /\ heard \in 0..MaxHeard
          /\ available \in 0..Chunk
      BY SizesArePositive DEF Init
    <3>3. /\ taken \in Seq(Nat) /\ Len(taken) <= available /\ file \in Seq(Nat)
      BY DEF Init
    <3> QED BY <3>1, <3>2, <3>3 DEF Init, TypeOK
  <2>2. RingInv
    BY DEF Init, RingInv, Ahead
  <2>3. OwnerInv
    BY DEF Init, OwnerInv, Pending
  <2>4. WriterInv
    BY DEF Init, WriterInv
  <2> QED BY <2>1, <2>2, <2>3, <2>4 DEF PipelineInv
<1>2. PipelineInv /\ [Next]_vars => PipelineInv'
  BY NextKeepsType, NextKeepsRing, NextKeepsOwner, NextKeepsWriter DEF PipelineInv
<1> QED BY <1>1, <1>2, PTL DEF Spec

(* The two indices never run more than the ring's size apart, and every     *)
(* variable keeps its type.                                                 *)
THEOREM TypeCorrect == Spec => []TypeOK
  BY PipelineInvariant, PTL DEF PipelineInv

(* A recording that SafeAudioCapture hands out holds every sample that the  *)
(* microphone delivered, however the two threads interleave.                *)
THEOREM FinishedIsCompleteHolds == Spec => []FinishedIsComplete
<1>1. PipelineInv => FinishedIsComplete
  BY DEF PipelineInv, TypeOK, OwnerInv, WriterInv, FinishedIsComplete, Pending
<1> QED BY <1>1, PipelineInvariant, PTL

-----------------------------------------------------------------------------
(* The refinement *)

(* Where the mapped phase changes. *)
LEMMA PhaseIs ==
  /\ writer = "done" => Phase = "complete"
  /\ writer \in {"failing", "failed"} => Phase = "failed"
  /\ writer \notin {"done", "failing", "failed"} => Phase = "open"
  /\ writer' = "done" => Phase' = "complete"
  /\ writer' \in {"failing", "failed"} => Phase' = "failed"
  /\ writer' \notin {"done", "failing", "failed"} => Phase' = "open"
  BY DEF Phase

(* Publishing a batch accepts it. *)
LEMMA PublishAccepts ==
  ASSUME PipelineInv, Publish
  PROVE  Fifo!Accept
<1>1. /\ writeIndex' > writeIndex
      /\ Phase = "open" => writeIndex' <= Len(file) + Capacity
  BY SizesArePositive, PhaseIs
     DEF PipelineInv, TypeOK, RingInv, WriterInv, Publish
<1>2. Phase # "complete"
  BY PhaseIs DEF PipelineInv, OwnerInv, WriterInv, Publish, TypeOK, Ended
<1>3. UNCHANGED <<file, Phase>>
  BY DEF Publish, consumer, Phase
<1> QED BY <1>1, <1>2, <1>3 DEF Fifo!Accept

(* Freeing the slots of a chunk writes it to the file or gives the file up. *)
LEMMA AdvanceWrites ==
  ASSUME PipelineInv, Advance
  PROVE  Fifo!Write \/ Fifo!GiveUp
<1>1. Phase = "open" /\ writeIndex' = writeIndex
  BY PhaseIs DEF Advance
<1>2. CASE file' = file \o taken /\ writer' = "check"
  <2>1. WriterInv' /\ file' \in Seq(Nat)
    BY NextKeepsWriter, NextKeepsType DEF Next, WriterStep, TypeOK
  <2>2. Len(file') > Len(file) /\ Len(file') <= writeIndex
    BY <1>2 DEF PipelineInv, TypeOK, WriterInv, Advance
  <2>3. file' = [i \in 1..Len(file') |-> i]
    BY <2>1 DEF WriterInv
  <2>4. Phase' = "open"
    BY <1>2, PhaseIs
  <2> QED BY <1>1, <2>2, <2>3, <2>4 DEF Fifo!Write
<1>3. CASE writer' = "failing" /\ UNCHANGED file
  BY <1>1, <1>3, PhaseIs DEF Fifo!GiveUp
<1> QED BY <1>2, <1>3 DEF Advance

(* The header is written to a file that has everything, or it is given up. *)
LEMMA CompleteFileCompletes ==
  ASSUME PipelineInv, CompleteFile
  PROVE  Fifo!Complete \/ Fifo!GiveUp
<1>1. /\ Phase = "open" /\ Len(file) = writeIndex
      /\ UNCHANGED <<writeIndex, file>>
  BY PhaseIs DEF PipelineInv, WriterInv, CompleteFile, ring
<1>2. Phase' \in {"complete", "failed"}
  BY PhaseIs DEF CompleteFile
<1> QED BY <1>1, <1>2 DEF Fifo!Complete, Fifo!GiveUp

(* Every other step is invisible to the abstract queue. *)
LEMMA OthersStutter ==
  ASSUME PipelineInv,
         \/ Deliver \/ LoadIndices \/ StoreSample \/ CheckCancelled
         \/ LoadAvailable \/ CopySample \/ ReadClosed \/ ReadEmpty
         \/ ReportFailure \/ OwnerStep \/ UNCHANGED vars
  PROVE  UNCHANGED <<writeIndex, file, Phase>>
<1>1. UNCHANGED <<writeIndex, file>>
  BY DEF Deliver, LoadIndices, StoreSample, CheckCancelled, LoadAvailable,
         CopySample, ReadClosed, ReadEmpty, ReportFailure, OwnerStep, StopDevice,
         Finish, Join, Abort, vars, ring, producer, consumer
<1>2. \/ UNCHANGED writer
      \/ /\ writer \notin {"done", "failing", "failed"}
         /\ writer' \notin {"done", "failing", "failed"}
      \/ writer = "failing" /\ writer' = "failed"
  BY DEF Deliver, LoadIndices, StoreSample, CheckCancelled, LoadAvailable,
         CopySample, ReadClosed, ReadEmpty, ReportFailure, OwnerStep, StopDevice,
         Finish, Join, Abort, vars, ring, producer, consumer
<1>3. UNCHANGED Phase
  BY <1>2 DEF Phase
<1> QED BY <1>1, <1>3

(* The lock-free ring, its callback and its writer implement the queue that *)
(* delivers every accepted sample to the file once and in order: the writer *)
(* reads no slot that was reused or not yet written, and completes no file  *)
(* with samples left behind.                                                *)
THEOREM RingImplementsFifo == Spec => ImplementsFifo
<1>1. Init => Fifo!Init
  BY DEF Init, Fifo!Init, Phase
<1>2. PipelineInv /\ [Next]_vars => [Fifo!Next]_<<writeIndex, file, Phase>>
  BY PublishAccepts, AdvanceWrites, CompleteFileCompletes, OthersStutter
     DEF Next, CallbackStep, WriterStep, Over, Fifo!Next
<1> QED BY <1>1, <1>2, PipelineInvariant, PTL DEF Spec, ImplementsFifo, Fifo!Spec
=============================================================================
