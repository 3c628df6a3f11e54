------------------------ MODULE SafeAudioCaptureProofs ------------------------
(***************************************************************************)
(* What holds of SafeAudioCapture for every set of sessions: its types,    *)
(* that no file and no CoreAudio unit is without an owner, that every      *)
(* finalized recording is sound, and what a confirmed cancel has released. *)
(***************************************************************************)
EXTENDS SafeAudioCapture, FiniteSetTheorems, TLAPS

(* How far the operation that holds the lock has come. *)
CallInv ==
  /\ ~running => call = NoCall /\ artifacts = {}
  /\ call.step \in {"createWriter", "startBackend"} =>
       call.session \notin captures \cup artifacts
  /\ call.step \in {"checkFault", "finalize", "rename"} =>
       call.session \in captures /\ unit[call.session] = "none"
  /\ call.step \in {"finalize", "rename"} => fault[call.session] = "none"

(* A capture whose handle is gone has no unit, so a stop that finds no      *)
(* handle has nothing to stop.                                              *)
UnitInv == \A s \in captures \ handles : unit[s] = "none"

SoundInv == CallInv /\ UnitInv /\ ArtifactIsSound

(* A stop that fails leaves a unit at one of its levels. *)
LEMMA LowerIsUnit == \A u \in Units : Lower(u) \subseteq Units \ {"none"}
  BY DEF Lower, Units

-----------------------------------------------------------------------------
(* A new orphan is an orphan. *)
LEMMA OrphanKeepsType ==
  ASSUME orphans \subseteq Orphans, NEW s \in Sessions, NEW handle \in BOOLEAN,
         NEW writer \in BOOLEAN, Orphan(s, handle, writer)
  PROVE  orphans' \subseteq Orphans
  BY DEF Orphan, Orphans

(* A step of start keeps the types. *)
LEMMA StartKeepsType ==
  ASSUME TypeOK, NEW s \in Sessions, Start(s)
  PROVE  TypeOK'
<1>1. CASE Enter("retryOrphans", s)
  BY <1>1 DEF TypeOK, Enter, Steps, records, files
<1>2. CASE RetryOrphan(s)
  <2>1. PICK o \in orphans :
          \/ RetrySucceeds(o) /\ UNCHANGED <<call, result>>
          \/ RetryFails(o) /\ Return("error")
    BY <1>2 DEF RetryOrphan
  <2>2. o \in Orphans
    BY DEF TypeOK
  <2>3. orphans' \subseteq Orphans
    <3>1. \A left \in Retried(o) : left \in Orphans
      BY <2>2 DEF Retried, Orphans
    <3> QED BY <2>1, <3>1 DEF TypeOK, RetrySucceeds, RetryFails, files
  <2>4. unit' \in [Sessions -> Units]
    BY <2>1, <2>2, LowerIsUnit
      DEF TypeOK, RetrySucceeds, RetryFails, Orphans, Stopped, StopFails, Units
  <2>5. partialFiles' \in SUBSET Sessions /\ finalFiles' \in SUBSET Sessions
    BY <2>1, <2>2 DEF TypeOK, RetrySucceeds, RetryFails, Removed, files
  <2>6. /\ call' \in [step : Steps, session : Sessions] \cup {NoCall}
        /\ result' \in {"none", "ok", "error"}
    BY <2>1 DEF TypeOK, Return
  <2> QED BY <1>2, <2>3, <2>4, <2>5, <2>6 DEF TypeOK, RetryOrphan, At, records
<1>3. CASE CheckStart(s)
  BY <1>3 DEF TypeOK, CheckStart, At, Continue, Return, Steps, records, files
<1>4. CASE CreateWriter(s)
  BY <1>4 DEF TypeOK, CreateWriter, At, Continue, Steps, records
<1>5. CASE CreateWriterFails(s)
  <2>1. orphans' \subseteq Orphans
    BY <1>5, OrphanKeepsType DEF CreateWriterFails, TypeOK
  <2> QED BY <1>5, <2>1 DEF TypeOK, CreateWriterFails, At, Return, records, files
<1>6. CASE BackendStarts(s)
  BY <1>6 DEF TypeOK, BackendStarts, At, Return, Units, files
<1>7. CASE BackendFailsClean(s)
  <2>1. orphans' \subseteq Orphans
    BY <1>7, OrphanKeepsType DEF BackendFailsClean, RememberIfCleanupFails, TypeOK
  <2>2. partialFiles' \subseteq partialFiles /\ finalFiles' = finalFiles
    BY <1>7 DEF BackendFailsClean, RememberIfCleanupFails, Removed,
                RemoveFails, files
  <2> QED BY <1>7, <2>1, <2>2
    DEF TypeOK, BackendFailsClean, At, Return, records
<1>8. CASE BackendFailsOwned(s)
  <2>1. orphans' \subseteq Orphans
    BY <1>8, OrphanKeepsType DEF BackendFailsOwned, TypeOK
  <2>2. unit' \in [Sessions -> Units]
    BY <1>8 DEF BackendFailsOwned, TypeOK, Units
  <2> QED BY <1>8, <2>1, <2>2
    DEF TypeOK, BackendFailsOwned, At, Return, records, files
<1> QED BY <1>1, <1>2, <1>3, <1>4, <1>5, <1>6, <1>7, <1>8 DEF Start

(* So does stopping the device, with what it changes. *)
LEMMA StopKeepsType ==
  ASSUME TypeOK, NEW s \in Sessions, StopBackend(s) \/ StopBackendFails(s)
  PROVE  /\ unit' \in [Sessions -> Units]
         /\ handles' \subseteq handles
         /\ openHandles' \in Nat
<1>1. CASE StopBackend(s)
  BY <1>1 DEF TypeOK, StopBackend, Stopped, Units
<1>2. CASE StopBackendFails(s)
  BY <1>2, LowerIsUnit DEF TypeOK, StopBackendFails, StopFails, Units
<1> QED BY <1>1, <1>2

(* A step of finish keeps the types. *)
LEMMA FinishKeepsType ==
  ASSUME TypeOK, NEW s \in Sessions, FinishCapture(s)
  PROVE  TypeOK'
<1>1. CASE Enter("finishStop", s)
  BY <1>1 DEF TypeOK, Enter, Steps, records, files
<1>2. CASE FinishStop(s)
  <2>1. /\ unit' \in [Sessions -> Units]
        /\ handles' \subseteq handles
        /\ openHandles' \in Nat
    BY <1>2, StopKeepsType DEF FinishStop, TypeOK
  <2>2. /\ call' \in [step : Steps, session : Sessions] \cup {NoCall}
        /\ result' \in {"none", "ok", "error"}
    BY <1>2 DEF FinishStop, TypeOK, Continue, Return, StopBackendFails, Steps
  <2> QED BY <1>2, <2>1, <2>2 DEF TypeOK, FinishStop, At, files
<1>3. CASE CheckFault(s)
  BY <1>3 DEF TypeOK, CheckFault, At, Continue, Return, Steps, records, files
<1>4. CASE Finalize(s)
  BY <1>4 DEF TypeOK, Finalize, At, Continue, Return, Steps, files
<1>5. CASE FinalizeFails(s)
  BY <1>5 DEF TypeOK, FinalizeFails, At, Return, records, files
<1>6. CASE FinalizePanics(s)
  BY <1>6 DEF TypeOK, FinalizePanics, Return, records, files
<1>7. CASE Rename(s)
  BY <1>7 DEF TypeOK, Rename, At, Forget, Return, records, files
<1> QED BY <1>1, <1>2, <1>3, <1>4, <1>5, <1>6, <1>7 DEF FinishCapture

(* A step of cancel keeps the types. *)
LEMMA CancelKeepsType ==
  ASSUME TypeOK, NEW s \in Sessions, Cancel(s)
  PROVE  TypeOK'
<1>1. CASE Enter("cancelStop", s)
  BY <1>1 DEF TypeOK, Enter, Steps, records, files
<1>2. CASE CancelStop(s)
  <2>1. /\ unit' \in [Sessions -> Units]
        /\ handles' \subseteq handles
        /\ openHandles' \in Nat
    BY <1>2, StopKeepsType DEF CancelStop, TypeOK
  <2>2. /\ call' \in [step : Steps, session : Sessions] \cup {NoCall}
        /\ result' \in {"none", "ok", "error"}
    BY <1>2 DEF CancelStop, TypeOK, Continue, Return, StopBackendFails, Steps
  <2> QED BY <1>2, <2>1, <2>2 DEF TypeOK, CancelStop, At, files
<1>3. CASE AbortWriter(s)
  BY <1>3 DEF TypeOK, AbortWriter, At, Continue, Return, Steps, files
<1>4. CASE RemovePartial(s)
  BY <1>4 DEF TypeOK, RemovePartial, At, Removed, RemoveFails, Forget, Return,
              records, files
<1> QED BY <1>1, <1>2, <1>3, <1>4 DEF Cancel

(* The empty table has every type the registry uses it at. *)
LEMMA NothingKeepsType ==
  /\ Nothing \in [Sessions -> {"none", "empty", "some"}]
  /\ Nothing \in [Sessions -> {"none", "overflow", "device"}]
  /\ Nothing \in [Sessions -> Units]
  BY DEF Nothing, Units

(* The initial state is typed. *)
LEMMA TypeInit == Init => TypeOK
<1> SUFFICES ASSUME Init PROVE TypeOK
  OBVIOUS
<1>1. running \in BOOLEAN /\ poisoned \in BOOLEAN /\ openHandles \in Nat
  BY DEF Init
<1>2. call = NoCall /\ result = "none"
  BY DEF Init
<1>3. /\ captures = {} /\ handles = {} /\ writers = {} /\ artifacts = {}
      /\ orphans = {} /\ partialFiles = {} /\ finalFiles = {}
  BY DEF Init
<1>4. summary = Nothing /\ fault = Nothing /\ unit = Nothing
  BY DEF Init
<1> QED BY <1>1, <1>2, <1>3, <1>4, NothingKeepsType DEF TypeOK

(* Every step keeps the types. *)
LEMMA TypeStep == TypeOK /\ [Next]_vars => TypeOK'
<1> SUFFICES ASSUME TypeOK, [Next]_vars PROVE TypeOK'
  OBVIOUS
<1>1. ASSUME NEW s \in Sessions, Start(s) PROVE TypeOK'
  BY <1>1, StartKeepsType
<1>2. ASSUME NEW s \in Sessions, FinishCapture(s) PROVE TypeOK'
  BY <1>2, FinishKeepsType
<1>3. ASSUME NEW s \in Sessions, Cancel(s) PROVE TypeOK'
  BY <1>3, CancelKeepsType
<1>4. ASSUME NEW s \in Sessions, Cleanup(s) PROVE TypeOK'
  BY <1>4 DEF TypeOK, Cleanup, records
<1>5. ASSUME NEW s \in Sessions, ReportFault(s) PROVE TypeOK'
  BY <1>5 DEF TypeOK, ReportFault, files
<1>6. CASE Crash
  BY <1>6, NothingKeepsType DEF TypeOK, Crash, files
<1>7. CASE Initialize
  BY <1>7 DEF TypeOK, Initialize, records
<1>8. CASE Refuse
  BY <1>8 DEF TypeOK, Refuse, records, files
<1>9. CASE UNCHANGED vars
  BY <1>9 DEF TypeOK, vars, records, files
<1> QED BY <1>1, <1>2, <1>3, <1>4, <1>5, <1>6, <1>7, <1>8, <1>9 DEF Next

(* TypeOK: the registry, the units and the files have their types, and no   *)
(* handle or writer is held for a capture that is not registered.           *)
THEOREM TypeCorrect == Spec => []TypeOK
  BY TypeInit, TypeStep, PTL DEF Spec

-----------------------------------------------------------------------------
(* FilesAreOwned: whichever step of whichever operation fails, every file   *)
(* belongs to a capture, an orphan or an artifact that will delete it.      *)

(* A new orphan adds its session to those that own a file. *)
LEMMA OrphanIsAdded ==
  ASSUME NEW s, NEW handle, NEW writer, Orphan(s, handle, writer)
  PROVE  OrphanSessions' = OrphanSessions \cup {s}
<1> DEFINE o == [session |-> s, handle |-> handle, writer |-> writer]
<1>1. orphans' = orphans \cup {o} /\ o.session = s
  BY DEF Orphan
<1> HIDE DEF o
<1> QED BY <1>1 DEF OrphanSessions

(* The same orphans own the same sessions' files. *)
LEMMA SameOrphans == orphans' = orphans => OrphanSessions' = OrphanSessions
  BY DEF OrphanSessions

(* Only a start and the operations that end a recording touch the files or  *)
(* their records; each moves a file together with the record that owns it.  *)
LEMMA StartOwnsFiles ==
  ASSUME TypeOK, FilesAreOwned, NEW s \in Sessions, Start(s)
  PROVE  FilesAreOwned'
<1> USE OrphanIsAdded, SameOrphans DEF FilesAreOwned
<1>1. CASE Enter("retryOrphans", s)
  BY <1>1 DEF Enter, NoCall, records, files
<1>2. CASE RetryOrphan(s)
  <2>1. PICK o \in orphans :
          \/ RetrySucceeds(o) /\ UNCHANGED <<call, result>>
          \/ RetryFails(o) /\ Return("error")
    BY <1>2 DEF RetryOrphan
  <2>2. call.step = "retryOrphans" /\ UNCHANGED <<running, captures, artifacts>>
    BY <1>2 DEF RetryOrphan, At, records
  <2>3. CASE RetrySucceeds(o)
    BY <2>2, <2>3 DEF RetrySucceeds, Removed, OrphanSessions
  <2>4. CASE RetryFails(o)
    <3>1. \A left \in Retried(o) : left.session = o.session
      BY DEF Retried, TypeOK, Orphans
    <3>2. OrphanSessions \subseteq OrphanSessions'
      BY <2>4, <3>1 DEF RetryFails, OrphanSessions
    <3> QED BY <2>2, <2>4, <3>2 DEF RetryFails, files
  <2> QED BY <2>1, <2>3, <2>4
<1>3. CASE CheckStart(s)
  BY <1>3 DEF CheckStart, At, records, files
<1>4. CASE CreateWriter(s)
  BY <1>4 DEF CreateWriter, At, Continue, records
<1>5. CASE CreateWriterFails(s)
  <2>1. /\ call.step = "createWriter"
        /\ UNCHANGED <<running, captures, artifacts, finalFiles>>
    BY <1>5 DEF CreateWriterFails, At, records, files
  <2>2. CASE UNCHANGED <<orphans, files>>
    BY <2>1, <2>2 DEF files
  <2>3. CASE Orphan(s, FALSE, FALSE) /\ partialFiles' = partialFiles \cup {s}
    <3>1. OrphanSessions' = OrphanSessions \cup {s}
      BY <2>3
    <3> QED BY <2>1, <2>3, <3>1
  <2> QED BY <1>5, <2>2, <2>3 DEF CreateWriterFails
<1>6. CASE BackendStarts(s)
  BY <1>6 DEF BackendStarts, At, files
<1>7. CASE BackendFailsClean(s)
  BY <1>7 DEF BackendFailsClean, RememberIfCleanupFails, Removed, RemoveFails,
              At, records, files
<1>8. CASE BackendFailsOwned(s)
  BY <1>8 DEF BackendFailsOwned, At, records, files
<1> QED BY <1>1, <1>2, <1>3, <1>4, <1>5, <1>6, <1>7, <1>8 DEF Start

(* A step of finish keeps every file owned. *)
LEMMA FinishOwnsFiles ==
  ASSUME FilesAreOwned, NEW s \in Sessions, FinishCapture(s)
  PROVE  FilesAreOwned'
<1> USE DEF FilesAreOwned, OrphanSessions
<1>1. CASE Enter("finishStop", s)
  BY <1>1 DEF Enter, NoCall, records, files
<1>2. CASE FinishStop(s)
  BY <1>2 DEF FinishStop, At, files
<1>3. CASE CheckFault(s)
  BY <1>3 DEF CheckFault, At, records, files
<1>4. CASE Finalize(s)
  BY <1>4 DEF Finalize, At, files
<1>5. CASE FinalizeFails(s)
  BY <1>5 DEF FinalizeFails, At, records, files
<1>6. CASE FinalizePanics(s)
  BY <1>6 DEF FinalizePanics, Return, NoCall, records, files
<1>7. CASE Rename(s)
  BY <1>7 DEF Rename, At, Forget, records, files
<1> QED BY <1>1, <1>2, <1>3, <1>4, <1>5, <1>6, <1>7 DEF FinishCapture

(* A step of cancel keeps every file owned. *)
LEMMA CancelOwnsFiles ==
  ASSUME FilesAreOwned, NEW s \in Sessions, Cancel(s)
  PROVE  FilesAreOwned'
<1> USE DEF FilesAreOwned, OrphanSessions
<1>1. CASE Enter("cancelStop", s)
  BY <1>1 DEF Enter, NoCall, records, files
<1>2. CASE CancelStop(s)
  BY <1>2 DEF CancelStop, At, files
<1>3. CASE AbortWriter(s)
  BY <1>3 DEF AbortWriter, At, files
<1>4. CASE RemovePartial(s)
  BY <1>4 DEF RemovePartial, At, Removed, RemoveFails, Forget, records, files
<1> QED BY <1>1, <1>2, <1>3, <1>4 DEF Cancel

(* Every step keeps every file owned. *)
LEMMA FilesStep == TypeOK /\ FilesAreOwned /\ [Next]_vars => FilesAreOwned'
<1> SUFFICES ASSUME TypeOK, FilesAreOwned, [Next]_vars PROVE FilesAreOwned'
  OBVIOUS
<1>1. ASSUME NEW s \in Sessions, Start(s) \/ FinishCapture(s) \/ Cancel(s)
      PROVE  FilesAreOwned'
  BY <1>1, StartOwnsFiles, FinishOwnsFiles, CancelOwnsFiles
<1>2. ASSUME NEW s \in Sessions, Cleanup(s) PROVE FilesAreOwned'
  BY <1>2 DEF FilesAreOwned, OrphanSessions, Cleanup, records
<1>3. ASSUME NEW s \in Sessions, ReportFault(s) PROVE FilesAreOwned'
  BY <1>3 DEF FilesAreOwned, OrphanSessions, ReportFault, files
<1>4. CASE Crash
  BY <1>4 DEF FilesAreOwned, Crash
<1>5. CASE Initialize
  BY <1>5 DEF FilesAreOwned, Initialize
<1>6. CASE Refuse
  BY <1>6 DEF FilesAreOwned, OrphanSessions, Refuse, records, files
<1>7. CASE UNCHANGED vars
  BY <1>7 DEF FilesAreOwned, OrphanSessions, vars, records, files
<1> QED BY <1>1, <1>2, <1>3, <1>4, <1>5, <1>6, <1>7 DEF Next

(* FilesAreOwned, for any number of sessions and failures: no recording is  *)
(* left on the disk that only a restart would find.                         *)
THEOREM FilesAreOwnedHolds == Spec => []FilesAreOwned
<1>1. Init => FilesAreOwned
  BY DEF Init, FilesAreOwned
<1> QED BY <1>1, FilesStep, TypeCorrect, PTL DEF Spec
-----------------------------------------------------------------------------
(* ArtifactIsSound.  It is not inductive: that the recording which Rename   *)
(* registers has no unit and no fault was settled steps earlier (CallInv),  *)
(* and a stop that found no handle relies on UnitInv.                       *)

(* A step of start keeps SoundInv. *)
LEMMA StartKeepsSound ==
  ASSUME TypeOK, SoundInv, NEW s \in Sessions, Start(s)
  PROVE  SoundInv'
<1> USE DEF SoundInv, CallInv, UnitInv, ArtifactIsSound
<1>1. CASE Enter("retryOrphans", s)
  BY <1>1 DEF Enter, records, files
<1>2. CASE RetryOrphan(s)
  <2>1. PICK o \in orphans :
          \/ RetrySucceeds(o) /\ UNCHANGED <<call, result>>
          \/ RetryFails(o) /\ Return("error")
    BY <1>2 DEF RetryOrphan
  <2>2. /\ call.step = "retryOrphans" /\ call # NoCall
        /\ UNCHANGED <<running, captures, handles, fault, artifacts>>
    BY <1>2 DEF RetryOrphan, At, records, NoCall
  <2>3. \A t \in Sessions : unit[t] = "none" => unit'[t] = "none"
    BY <2>1 DEF TypeOK, RetrySucceeds, RetryFails, Stopped, StopFails, Lower
  <2>4. finalFiles' = finalFiles
    BY <2>1 DEF RetrySucceeds, RetryFails, Removed, files
  <2>5. UnitInv' /\ ArtifactIsSound'
    BY <2>2, <2>3, <2>4 DEF TypeOK
  <2>6. CallInv'
    BY <2>1, <2>2 DEF Return, NoCall
  <2> QED BY <2>5, <2>6
<1>3. CASE CheckStart(s)
  BY <1>3 DEF CheckStart, At, Continue, Return, NoCall, records, files
<1>4. CASE CreateWriter(s)
  <2>1. /\ call.step = "createWriter" /\ call.session = s
        /\ call'.step = "startBackend" /\ call'.session = s
        /\ running /\ running'
    BY <1>4 DEF CreateWriter, At, Continue, NoCall, TypeOK
  <2>2. UNCHANGED <<records, artifacts, unit, finalFiles>>
    BY <1>4 DEF CreateWriter
  <2> QED BY <2>1, <2>2 DEF records
<1>5. CASE CreateWriterFails(s)
  BY <1>5 DEF CreateWriterFails, At, Return, NoCall, records, files
<1>6. CASE BackendStarts(s)
  BY <1>6 DEF BackendStarts, At, Return, NoCall, files, TypeOK
<1>7. CASE BackendFailsClean(s)
  BY <1>7 DEF BackendFailsClean, RememberIfCleanupFails, Removed, RemoveFails,
              At, Return, NoCall, records, files
<1>8. CASE BackendFailsOwned(s)
  BY <1>8 DEF BackendFailsOwned, At, Return, NoCall, records, files, TypeOK
<1> QED BY <1>1, <1>2, <1>3, <1>4, <1>5, <1>6, <1>7, <1>8 DEF Start

(* A stop leaves the session without a unit, or the handle where it was.    *)
LEMMA StopIsSound ==
  ASSUME TypeOK, UnitInv, NEW s \in captures
  PROVE  /\ StopBackend(s) =>
              unit'[s] = "none" /\ \A t \in Sessions \ {s} : unit'[t] = unit[t]
         /\ StopBackendFails(s) =>
              /\ handles' = handles /\ s \in handles /\ unit[s] # "none"
              /\ \A t \in Sessions \ {s} : unit'[t] = unit[t]
<1>1. s \in Sessions
  BY DEF TypeOK
<1>2. CASE StopBackend(s)
  BY <1>1, <1>2 DEF TypeOK, UnitInv, StopBackend, Stopped, StopBackendFails,
                    StopFails, Lower
<1>3. CASE StopBackendFails(s)
  BY <1>1, <1>3 DEF TypeOK, StopBackend, Stopped, StopBackendFails, StopFails,
                    Lower
<1> QED BY <1>2, <1>3

(* A step that stops the device and goes on, or fails and returns.          *)
LEMMA StoppingKeepsSound ==
  ASSUME TypeOK, SoundInv, NEW s \in captures, NEW next,
         next \in {"checkFault", "abort"}, running, running',
         UNCHANGED <<captures, fault, artifacts, finalFiles>>,
         \/ StopBackend(s) /\ Continue(next, s)
         \/ StopBackendFails(s)
  PROVE  SoundInv'
<1> USE DEF SoundInv, CallInv, UnitInv, ArtifactIsSound
<1>1. s \in Sessions /\ artifacts \subseteq Sessions
  BY DEF TypeOK
<1>2. CASE StopBackend(s) /\ Continue(next, s)
  <2>1. /\ unit'[s] = "none"
        /\ \A t \in Sessions \ {s} : unit'[t] = unit[t]
        /\ handles \ {s} \subseteq handles'
    BY <1>2, StopIsSound DEF StopBackend
  <2>2. UnitInv' /\ ArtifactIsSound'
    BY <1>1, <2>1 DEF TypeOK
  <2>3. CallInv'
    BY <1>2, <2>1 DEF Continue
  <2> QED BY <2>2, <2>3
<1>3. CASE StopBackendFails(s)
  <2>1. /\ handles' = handles /\ s \in handles /\ unit[s] # "none"
        /\ \A t \in Sessions \ {s} : unit'[t] = unit[t]
    BY <1>3, StopIsSound
  <2>2. UnitInv' /\ ArtifactIsSound'
    BY <1>1, <2>1 DEF TypeOK
  <2>3. CallInv'
    BY <1>3 DEF StopBackendFails, Return, NoCall
  <2> QED BY <2>2, <2>3
<1> QED BY <1>2, <1>3

(* A step of finish keeps SoundInv. *)
LEMMA FinishKeepsSound ==
  ASSUME TypeOK, SoundInv, NEW s \in Sessions, FinishCapture(s)
  PROVE  SoundInv'
<1> USE DEF SoundInv, CallInv, UnitInv, ArtifactIsSound
<1>1. CASE Enter("finishStop", s)
  BY <1>1 DEF Enter, records, files
<1>2. CASE FinishStop(s) /\ s \in captures
  <2>1. running /\ running'
    BY <1>2 DEF FinishStop, At, NoCall, TypeOK
  <2> QED BY <1>2, <2>1, StoppingKeepsSound DEF FinishStop, files
<1>3. CASE FinishStop(s) /\ s \notin captures
  BY <1>3 DEF FinishStop, At, Return, NoCall, files
<1>4. CASE CheckFault(s)
  BY <1>4 DEF CheckFault, At, Continue, Return, NoCall, records, files
<1>5. CASE Finalize(s)
  BY <1>5 DEF Finalize, At, Continue, Return, NoCall, files
<1>6. CASE FinalizeFails(s)
  BY <1>6 DEF FinalizeFails, At, Return, NoCall, records, files
<1>7. CASE FinalizePanics(s)
  BY <1>7 DEF FinalizePanics, Return, NoCall, records, files
<1>8. CASE Rename(s)
  BY <1>8 DEF Rename, At, Forget, Return, NoCall, records, files
<1> QED BY <1>1, <1>2, <1>3, <1>4, <1>5, <1>6, <1>7, <1>8 DEF FinishCapture

(* A step of cancel keeps SoundInv. *)
LEMMA CancelKeepsSound ==
  ASSUME TypeOK, SoundInv, NEW s \in Sessions, Cancel(s)
  PROVE  SoundInv'
<1> USE DEF SoundInv, CallInv, UnitInv, ArtifactIsSound
<1>1. CASE Enter("cancelStop", s)
  BY <1>1 DEF Enter, records, files
<1>2. CASE CancelStop(s) /\ s \in captures
  <2>1. running /\ running'
    BY <1>2 DEF CancelStop, At, NoCall, TypeOK
  <2> QED BY <1>2, <2>1, StoppingKeepsSound DEF CancelStop, files
<1>3. CASE CancelStop(s) /\ s \notin captures
  BY <1>3 DEF CancelStop, At, Return, NoCall, files
<1>4. CASE AbortWriter(s)
  BY <1>4 DEF AbortWriter, At, Continue, Return, NoCall, files
<1>5. CASE RemovePartial(s)
  BY <1>5 DEF RemovePartial, At, Removed, RemoveFails, Forget, Return, NoCall,
              records, files
<1> QED BY <1>1, <1>2, <1>3, <1>4, <1>5 DEF Cancel

(* Every step keeps SoundInv. *)
LEMMA SoundStep == TypeOK /\ SoundInv /\ [Next]_vars => SoundInv'
<1> SUFFICES ASSUME TypeOK, SoundInv, [Next]_vars PROVE SoundInv'
  OBVIOUS
<1> USE DEF SoundInv, CallInv, UnitInv, ArtifactIsSound
<1>1. ASSUME NEW s \in Sessions, Start(s) \/ FinishCapture(s) \/ Cancel(s)
      PROVE  SoundInv'
  BY <1>1, StartKeepsSound, FinishKeepsSound, CancelKeepsSound
<1>2. ASSUME NEW s \in Sessions, Cleanup(s) PROVE SoundInv'
  BY <1>2 DEF Cleanup, NoCall, records
<1>3. ASSUME NEW s \in Sessions, ReportFault(s) PROVE SoundInv'
  BY <1>3 DEF ReportFault, TypeOK, NoCall, files
<1>4. CASE Crash
  BY <1>4 DEF Crash, NoCall
<1>5. CASE Initialize
  BY <1>5 DEF Initialize, NoCall, records
<1>6. CASE Refuse
  BY <1>6 DEF Refuse, records, files
<1>7. CASE UNCHANGED vars
  BY <1>7 DEF vars, records, files
<1> QED BY <1>1, <1>2, <1>3, <1>4, <1>5, <1>6, <1>7 DEF Next

(* ArtifactIsSound, for any number of sessions: a recording is only         *)
(* registered for transcription with its file in place, its microphone      *)
(* released and no fault of its device reported.                            *)
THEOREM ArtifactIsSoundHolds == Spec => []ArtifactIsSound
<1>1. Init => SoundInv
  BY DEF Init, SoundInv, CallInv, UnitInv, ArtifactIsSound, NoCall
<1>2. SoundInv => ArtifactIsSound
  BY DEF SoundInv
<1> QED BY <1>1, <1>2, SoundStep, TypeCorrect, PTL DEF Spec
-----------------------------------------------------------------------------
(* UnitsAreOwned and CancelReleases.  That a unit keeps its owner needs      *)
(* that a record is only dropped after its handle is gone (ReleaseInv), and  *)
(* that there is one orphan, that a start goes on only without any.          *)
ReleaseInv ==
  call.step \in {"checkFault", "finalize", "rename", "abort", "remove"} =>
    call.session \in captures \ handles

UnitOwnerInv ==
  \A s \in Sessions :
    unit[s] # "none" =>
      s \in handles \/ \E o \in orphans : o.session = s /\ o.handle

SoleOrphanInv ==
  /\ \A o1, o2 \in orphans : o1 = o2
  /\ call.step \in {"createWriter", "startBackend"} => orphans = {}

CountInv == IsFiniteSet(handles) /\ openHandles = Cardinality(handles)

OwnershipInv == ReleaseInv /\ UnitOwnerInv /\ SoleOrphanInv /\ CountInv

(* A new orphan is the only one where there was none. *)
LEMMA OrphanIsTheOnlyOne ==
  ASSUME NEW s, NEW handle, NEW writer, Orphan(s, handle, writer), orphans = {}
  PROVE  orphans' = {[session |-> s, handle |-> handle, writer |-> writer]}
  BY DEF Orphan

(* A step of start keeps every unit with its owner. *)
LEMMA StartKeepsOwners ==
  ASSUME TypeOK, CallInv, OwnershipInv, NEW s \in Sessions, Start(s)
  PROVE  OwnershipInv'
<1> USE DEF OwnershipInv, ReleaseInv, UnitOwnerInv, SoleOrphanInv, CountInv
<1>1. CASE Enter("retryOrphans", s)
  BY <1>1 DEF Enter, records, files
<1>2. CASE RetryOrphan(s)
  <2>1. PICK o \in orphans :
          \/ RetrySucceeds(o) /\ UNCHANGED <<call, result>>
          \/ RetryFails(o) /\ Return("error")
    BY <1>2 DEF RetryOrphan
  <2>2. call.step = "retryOrphans" /\ UNCHANGED records
    BY <1>2 DEF RetryOrphan, At
  <2>3. o \in Orphans /\ orphans = {o}
    BY DEF TypeOK
  <2>4. CASE RetrySucceeds(o) /\ UNCHANGED <<call, result>>
    BY <2>2, <2>3, <2>4 DEF RetrySucceeds, Stopped, TypeOK, records, Orphans
  <2>5. CASE o.handle /\ StopFails(o.session) /\ UNCHANGED <<orphans, files>>
             /\ Return("error")
    BY <2>2, <2>3, <2>5 DEF StopFails, Lower, TypeOK, Return, NoCall, records,
                            Orphans
  <2>6. ASSUME NEW left, orphans' = (orphans \ {o}) \cup {left},
               Stopped(o.session), Return("error")
        PROVE  OwnershipInv'
    <3>1. orphans' = {left}
      BY <2>3, <2>6
    <3>2. \A t \in Sessions : unit'[t] # "none" => t # o.session /\ unit[t] # "none"
      BY <2>6 DEF Stopped, TypeOK
    <3>3. UnitOwnerInv'
      BY <2>2, <2>3, <3>2 DEF records
    <3> QED BY <2>2, <2>6, <3>1, <3>3 DEF Return, NoCall, records
  <2> QED BY <2>1, <2>4, <2>5, <2>6 DEF RetryFails
<1>3. CASE CheckStart(s)
  BY <1>3 DEF CheckStart, At, Continue, Return, NoCall, records, files
<1>4. CASE CreateWriter(s)
  BY <1>4 DEF CreateWriter, At, Continue, records
<1>5. CASE CreateWriterFails(s)
  <2>1. call.step = "createWriter" /\ orphans = {} /\ call' = NoCall
    BY <1>5 DEF CreateWriterFails, At, Return
  <2>2. \A o1, o2 \in orphans' : o1 = o2
    BY <1>5, <2>1, OrphanIsTheOnlyOne DEF CreateWriterFails
  <2> QED BY <1>5, <2>1, <2>2 DEF CreateWriterFails, NoCall, records
<1>6. CASE BackendStarts(s)
  <2>1. call.step = "startBackend" /\ s \notin captures /\ call' = NoCall
    BY <1>6 DEF BackendStarts, At, Return, CallInv
  <2>2. s \notin handles
    BY <2>1 DEF TypeOK
  <2>3. CountInv'
    BY <1>6, <2>2, FS_AddElement DEF BackendStarts
  <2>4. UnitOwnerInv'
    BY <1>6 DEF BackendStarts, TypeOK
  <2> QED BY <1>6, <2>1, <2>3, <2>4 DEF BackendStarts, NoCall
<1>7. CASE BackendFailsClean(s)
  <2>1. call.step = "startBackend" /\ orphans = {} /\ call' = NoCall
    BY <1>7 DEF BackendFailsClean, At, Return
  <2>2. \A o1, o2 \in orphans' : o1 = o2
    BY <1>7, <2>1, OrphanIsTheOnlyOne DEF BackendFailsClean, RememberIfCleanupFails
  <2> QED BY <1>7, <2>1, <2>2 DEF BackendFailsClean, NoCall, records
<1>8. CASE BackendFailsOwned(s)
  <2>1. call.step = "startBackend" /\ orphans = {} /\ call' = NoCall
    BY <1>8 DEF BackendFailsOwned, At, Return
  <2>2. orphans' = {[session |-> s, handle |-> TRUE, writer |-> TRUE]}
    BY <1>8, <2>1, OrphanIsTheOnlyOne DEF BackendFailsOwned
  <2>3. UnitOwnerInv'
    BY <1>8, <2>1, <2>2 DEF BackendFailsOwned, TypeOK, records
  <2> QED BY <1>8, <2>1, <2>2, <2>3 DEF BackendFailsOwned, NoCall, records
<1> QED BY <1>1, <1>2, <1>3, <1>4, <1>5, <1>6, <1>7, <1>8 DEF Start

(* A stop takes the handle off the count, or leaves it with its unit. *)
LEMMA StoppingKeepsOwners ==
  ASSUME TypeOK, OwnershipInv, NEW s \in captures, NEW next,
         next \in {"checkFault", "abort"},
         UNCHANGED <<captures, orphans>>,
         \/ StopBackend(s) /\ Continue(next, s)
         \/ StopBackendFails(s)
  PROVE  OwnershipInv'
<1> USE DEF OwnershipInv, ReleaseInv, UnitOwnerInv, SoleOrphanInv, CountInv
<1>1. s \in Sessions
  BY DEF TypeOK
<1>2. CASE StopBackend(s) /\ Continue(next, s) /\ s \in handles
  <2>1. handles' = handles \ {s} /\ unit' = [unit EXCEPT ![s] = "none"]
    BY <1>2 DEF StopBackend, Stopped
  <2>2. IsFiniteSet(handles') /\ Cardinality(handles') = Cardinality(handles) - 1
    BY <1>2, <2>1, FS_RemoveElement
  <2>3. Cardinality(handles') \in Nat /\ Cardinality(handles) \in Nat
    BY <2>2, FS_CardinalityType
  <2>4. CountInv'
    BY <1>2, <2>2, <2>3 DEF StopBackend
  <2>5. UnitOwnerInv'
    BY <1>1, <2>1 DEF TypeOK
  <2> QED BY <1>2, <2>1, <2>4, <2>5 DEF Continue
<1>3. CASE StopBackend(s) /\ Continue(next, s) /\ s \notin handles
  BY <1>3 DEF StopBackend, Continue
<1>4. CASE StopBackendFails(s)
  BY <1>1, <1>4 DEF StopBackendFails, StopFails, Lower, Return, NoCall, TypeOK
<1> QED BY <1>2, <1>3, <1>4

(* The record of a capture without a handle is dropped without one. *)
LEMMA ForgetKeepsHandles ==
  ASSUME NEW s, s \notin handles, Forget(s)
  PROVE  handles' = handles /\ openHandles' = openHandles
  BY DEF Forget

(* A step of finish or of cancel keeps every unit with its owner. *)
LEMMA EndKeepsOwners ==
  ASSUME TypeOK, OwnershipInv, NEW s \in Sessions, FinishCapture(s) \/ Cancel(s)
  PROVE  OwnershipInv'
<1> USE DEF OwnershipInv, ReleaseInv, UnitOwnerInv, SoleOrphanInv, CountInv
<1>1. CASE Enter("finishStop", s) \/ Enter("cancelStop", s)
  BY <1>1 DEF Enter, records, files
<1>2. CASE (FinishStop(s) \/ CancelStop(s)) /\ s \in captures
  BY <1>2, StoppingKeepsOwners DEF FinishStop, CancelStop
<1>3. CASE (FinishStop(s) \/ CancelStop(s)) /\ s \notin captures
  BY <1>3 DEF FinishStop, CancelStop, Return, NoCall
<1>4. CASE CheckFault(s)
  BY <1>4 DEF CheckFault, At, Continue, Return, NoCall, records, files
<1>5. CASE Finalize(s)
  BY <1>5 DEF Finalize, At, Continue, Return, NoCall, files
<1>6. CASE FinalizeFails(s) \/ FinalizePanics(s)
  BY <1>6 DEF FinalizeFails, FinalizePanics, Return, NoCall, records, files
<1>7. CASE Rename(s) \/ RemovePartial(s)
  <2>1. s \notin handles /\ call' = NoCall /\ UNCHANGED <<orphans, unit>>
    BY <1>7 DEF Rename, RemovePartial, At, Return
  <2>2. handles' = handles /\ openHandles' = openHandles
    BY <1>7, <2>1, ForgetKeepsHandles DEF Rename, RemovePartial, records
  <2> QED BY <2>1, <2>2 DEF NoCall
<1>8. CASE AbortWriter(s)
  BY <1>8 DEF AbortWriter, At, Continue, Return, NoCall
<1> QED BY <1>1, <1>2, <1>3, <1>4, <1>5, <1>6, <1>7, <1>8
        DEF FinishCapture, Cancel

(* Every step keeps every unit with its owner. *)
LEMMA OwnershipStep ==
  TypeOK /\ CallInv /\ OwnershipInv /\ [Next]_vars => OwnershipInv'
<1> SUFFICES ASSUME TypeOK, CallInv, OwnershipInv, [Next]_vars
             PROVE  OwnershipInv'
  OBVIOUS
<1> USE DEF OwnershipInv, ReleaseInv, UnitOwnerInv, SoleOrphanInv, CountInv
<1>1. ASSUME NEW s \in Sessions, Start(s) \/ FinishCapture(s) \/ Cancel(s)
      PROVE  OwnershipInv'
  BY <1>1, StartKeepsOwners, EndKeepsOwners
<1>2. ASSUME NEW s \in Sessions, Cleanup(s) PROVE OwnershipInv'
  BY <1>2 DEF Cleanup, records
<1>3. ASSUME NEW s \in Sessions, ReportFault(s) PROVE OwnershipInv'
  BY <1>3 DEF ReportFault, files
<1>4. CASE Crash
  BY <1>4, FS_EmptySet DEF Crash, Nothing, NoCall
<1>5. CASE Initialize
  BY <1>5 DEF Initialize, records
<1>6. CASE Refuse
  BY <1>6 DEF Refuse, records, files
<1>7. CASE UNCHANGED vars
  BY <1>7 DEF vars, records, files
<1> QED BY <1>1, <1>2, <1>3, <1>4, <1>5, <1>6, <1>7 DEF Next

(* OwnershipInv holds from the start on. *)
LEMMA OwnershipInvariant == Spec => [](TypeOK /\ CallInv /\ OwnershipInv)
<1>1. Init => SoundInv
  BY DEF Init, SoundInv, CallInv, UnitInv, ArtifactIsSound, NoCall
<1>2. Init => OwnershipInv
  BY FS_EmptySet DEF Init, OwnershipInv, ReleaseInv, UnitOwnerInv, SoleOrphanInv,
                     CountInv, Nothing, NoCall
<1>3. SoundInv => CallInv
  BY DEF SoundInv
<1> QED BY <1>1, <1>2, <1>3, TypeInit, TypeStep, SoundStep, OwnershipStep, PTL
        DEF Spec

(* UnitsAreOwned, for any number of sessions and failures: every CoreAudio  *)
(* unit has the capture or the orphan that will stop it, open_handles       *)
(* counts the captures', and there is never a second orphan.                *)
THEOREM UnitsAreOwnedHolds == Spec => []UnitsAreOwned
<1>1. ASSUME OwnershipInv PROVE OneOrphan
  <2> USE <1>1 DEF OwnershipInv, SoleOrphanInv, OneOrphan
  <2>1. CASE orphans = {}
    BY <2>1, FS_EmptySet
  <2>2. ASSUME NEW o \in orphans PROVE OneOrphan
    <3>1. orphans = {o}
      OBVIOUS
    <3> QED BY <3>1, FS_Singleton
  <2> QED BY <2>1, <2>2
<1>2. OwnershipInv => MicrophoneIsOwned
  BY DEF OwnershipInv, UnitOwnerInv, CountInv, MicrophoneIsOwned
<1>3. OwnershipInv => UnitsAreOwned
  BY <1>1, <1>2 DEF UnitsAreOwned
<1> QED BY <1>3, OwnershipInvariant, PTL

(* CancelReleases, for any number of sessions and failed attempts: a cancel  *)
(* that returns Ok has released the microphone and deleted the recording,    *)
(* up to the orphan of a start that failed.                                  *)
THEOREM CancelReleasesHolds == Spec => CancelReleases
<1>1. ASSUME TypeOK, CallInv, OwnershipInv, OwnershipInv', FilesAreOwned,
             [Next]_vars, NEW s \in Sessions, call.session = s,
             call.step \in {"cancelStop", "remove"}, call' = NoCall,
             result' = "ok"
      PROVE  /\ s \notin captures'
             /\ unit'[s] # "none" \/ s \in partialFiles' => s \in OrphanSessions'
  <2>1. call # NoCall
    BY <1>1, NobodyIsNoSession DEF NoCall
  <2>2. ASSUME NEW t \in Sessions, Start(t) PROVE FALSE
    <3>1. ~Enter("retryOrphans", t)
      BY <2>1 DEF Enter
    <3>2. \A step \in {"retryOrphans", "createWriter", "startBackend"} : ~At(step, t)
      BY <1>1 DEF At
    <3>3. ~RetryOrphan(t) /\ ~CheckStart(t)
      BY <3>2 DEF RetryOrphan, CheckStart
    <3>4. ~CreateWriter(t) /\ ~CreateWriterFails(t)
      BY <3>2 DEF CreateWriter, CreateWriterFails
    <3>5. ~BackendStarts(t) /\ ~BackendFailsClean(t) /\ ~BackendFailsOwned(t)
      BY <3>2 DEF BackendStarts, BackendFailsClean, BackendFailsOwned
    <3> QED BY <2>2, <3>1, <3>3, <3>4, <3>5 DEF Start
  <2>3. ASSUME NEW t \in Sessions, FinishCapture(t) PROVE FALSE
    BY <1>1, <2>1, <2>3 DEF FinishCapture, Enter, FinishStop, CheckFault,
         Finalize, FinalizeFails, FinalizePanics, Rename, At
  <2>4. ASSUME NEW t \in Sessions, CancelStop(t)
        PROVE  /\ s \notin captures /\ running
               /\ UNCHANGED <<captures, orphans, unit, files>>
    <3>1. t = s /\ running
      BY <1>1, <2>1, <2>4 DEF CancelStop, At, CallInv
    <3>2. ~Continue("abort", t) /\ ~StopBackendFails(t)
      BY <1>1 DEF Continue, NoCall, StopBackendFails, Return
    <3> QED BY <2>4, <3>1, <3>2 DEF CancelStop
  <2>5. ASSUME NEW t \in Sessions, RemovePartial(t)
        PROVE  /\ s \notin captures' /\ s \notin handles' /\ orphans' = orphans
               /\ s \notin partialFiles'
    <3>1. t = s
      BY <1>1, <2>5 DEF RemovePartial, At
    <3>2. Removed(t) /\ Forget(t) /\ orphans' = orphans
      BY <1>1, <2>5 DEF RemovePartial, Return
    <3> QED BY <3>1, <3>2 DEF Removed, Forget
  <2>6. CASE \E t \in Sessions : CancelStop(t)
    <3>1. unit[s] # "none" => s \in OrphanSessions
      BY <1>1, <2>4, <2>6 DEF OwnershipInv, UnitOwnerInv, OrphanSessions, TypeOK
    <3>2. s \in partialFiles => s \in OrphanSessions
      BY <1>1, <2>4, <2>6 DEF FilesAreOwned
    <3> QED BY <2>4, <2>6, <3>1, <3>2, SameOrphans DEF files
  <2>7. CASE \E t \in Sessions : RemovePartial(t)
    <3>1. unit'[s] # "none" => s \in OrphanSessions'
      BY <1>1, <2>5, <2>7 DEF OwnershipInv, UnitOwnerInv, OrphanSessions
    <3> QED BY <2>5, <2>7, <3>1
  <2>8. \A t \in Sessions : ~Enter("cancelStop", t) /\ ~AbortWriter(t)
    BY <1>1, <2>1 DEF Enter, AbortWriter, At
  <2>9. \A t \in Sessions : ~Cleanup(t) /\ ~ReportFault(t)
    BY <1>1, <2>1 DEF Cleanup, ReportFault
  <2>10. ~Crash /\ ~Refuse /\ ~Initialize /\ ~UNCHANGED vars
    BY <1>1, <2>1 DEF Crash, Refuse, Initialize, vars
  <2> QED BY <1>1, <2>2, <2>3, <2>6, <2>7, <2>8, <2>9, <2>10 DEF Next, Cancel
<1>2. TypeOK /\ CallInv /\ OwnershipInv /\ OwnershipInv' /\ FilesAreOwned
        /\ [Next]_vars =>
        [\A s \in Sessions :
           /\ call.session = s /\ call.step \in {"cancelStop", "remove"}
           /\ call' = NoCall /\ result' = "ok"
           =>
           /\ s \notin captures'
           /\ unit'[s] # "none" \/ s \in partialFiles' => s \in OrphanSessions']_vars
  BY <1>1
<1> QED BY <1>2, OwnershipInvariant, FilesAreOwnedHolds, PTL
        DEF Spec, CancelReleases
=============================================================================
