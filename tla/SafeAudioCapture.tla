--------------------------- MODULE SafeAudioCapture ---------------------------
(***************************************************************************)
(* SafeAudioCapture: the registry of microphone captures, finalized        *)
(* recordings and orphans, and the files and CoreAudio units they stand    *)
(* for (remtene-platform/audio.rs, audio/macos_coreaudio.rs).              *)
(*                                                                         *)
(* An operation holds the registry's lock from its first step to its last; *)
(* a step is one call of the device, the writer or the file system, each   *)
(* of which may fail.  The device's callback and a crash of the process    *)
(* need no lock.  What a capture does with samples is PcmRing's matter.    *)
(***************************************************************************)
EXTENDS Naturals, FiniteSets

CONSTANTS
  Sessions,  \* the sessions that ever record
  Nobody     \* absence of a session

ASSUME NobodyIsNoSession == Nobody \notin Sessions

VARIABLES
  running,      \* the process runs and has initialized the adapter
  poisoned,     \* a panic has poisoned the registry's mutex
  call,         \* the operation that holds the lock: its session and next step
  result,       \* what the last operation returned
  captures,     \* registry.captures
  handles,      \* the captures that hold a backend handle
  writers,      \* the captures that hold a writer
  summary,      \* their finalized_summary
  fault,        \* their CaptureFaultReporter
  openHandles,  \* registry.open_handles
  artifacts,    \* registry.artifacts
  orphans,      \* registry.orphans
  unit,         \* the CoreAudio unit of a session
  partialFiles, \* the .wav.partial files
  finalFiles    \* the .wav files

records == <<captures, handles, writers, summary, fault, openHandles>>
files == <<partialFiles, finalFiles>>
vars == <<running, poisoned, call, result, records, artifacts, orphans, unit, files>>

Steps == {"retryOrphans", "createWriter", "startBackend",
          "finishStop", "checkFault", "finalize", "rename",
          "cancelStop", "abort", "remove"}
NoCall == [step |-> "none", session |-> Nobody]

(* Set up in this order and taken down in the opposite one. *)
Units == {"none", "created", "initialized", "started"}

Orphans == [session : Sessions, handle : BOOLEAN, writer : BOOLEAN]

TypeOK ==
  /\ running \in BOOLEAN /\ poisoned \in BOOLEAN
  /\ call \in [step : Steps, session : Sessions] \cup {NoCall}
  /\ result \in {"none", "ok", "error"}
  /\ captures \in SUBSET Sessions
  /\ handles \in SUBSET captures /\ writers \in SUBSET captures
  /\ summary \in [Sessions -> {"none", "empty", "some"}]
  /\ fault \in [Sessions -> {"none", "overflow", "device"}]
  /\ openHandles \in Nat
  /\ artifacts \in SUBSET Sessions
  /\ orphans \in SUBSET Orphans
  /\ unit \in [Sessions -> Units]
  /\ partialFiles \in SUBSET Sessions /\ finalFiles \in SUBSET Sessions

Nothing == [s \in Sessions |-> "none"]

Init ==
  /\ running = FALSE /\ poisoned = FALSE
  /\ call = NoCall /\ result = "none"
  /\ captures = {} /\ handles = {} /\ writers = {}
  /\ summary = Nothing /\ fault = Nothing /\ openHandles = 0
  /\ artifacts = {} /\ orphans = {}
  /\ unit = Nothing
  /\ partialFiles = {} /\ finalFiles = {}

-----------------------------------------------------------------------------
(* Each operation: taking the lock, going on, returning *)

Enter(step, s) ==
  /\ running /\ ~poisoned /\ call = NoCall
  /\ call' = [step |-> step, session |-> s]
  /\ UNCHANGED <<running, poisoned, result, records, artifacts, orphans, unit,
                 files>>

(* Every operation is refused once the mutex is poisoned. *)
Refuse ==
  /\ running /\ poisoned
  /\ result' = "error"
  /\ UNCHANGED <<running, poisoned, call, records, artifacts, orphans, unit,
                 files>>

At(step, s) ==
  call = [step |-> step, session |-> s] /\ UNCHANGED <<running, poisoned>>

Continue(step, s) ==
  call' = [step |-> step, session |-> s] /\ UNCHANGED result

Return(outcome) == call' = NoCall /\ result' = outcome

(* MacOsCoreAudioHandle::stop_and_release takes the unit down by as many    *)
(* levels as it can and is Ok if nothing is left of it.                     *)
Lower(level) ==
  CASE level = "started" -> {"started", "initialized", "created"}
    [] level = "initialized" -> {"initialized", "created"}
    [] level = "created" -> {"created"}
    [] OTHER -> {}

Stopped(s) == unit' = [unit EXCEPT ![s] = "none"]
StopFails(s) == \E level \in Lower(unit[s]) : unit' = [unit EXCEPT ![s] = level]

Removed(s) == partialFiles' = partialFiles \ {s} /\ UNCHANGED finalFiles
RemoveFails(s) == s \in partialFiles /\ UNCHANGED files

Orphan(s, handle, writer) ==
  orphans' = orphans \cup {[session |-> s, handle |-> handle, writer |-> writer]}

(* Mutant: a file that cannot be deleted is forgotten. *)
ForgetIfCleanupFails(s) ==
  UNCHANGED orphans /\ (Removed(s) \/ RemoveFails(s))

RememberIfCleanupFails(s) ==
  \/ Removed(s) /\ UNCHANGED orphans
  \/ RemoveFails(s) /\ Orphan(s, FALSE, FALSE)

-----------------------------------------------------------------------------
(* start *)

(* What a retry leaves of the orphan o, when it does not dispose of it. *)
Retried(o) ==
  {[o EXCEPT !.handle = FALSE], [o EXCEPT !.handle = FALSE, !.writer = FALSE]}

RetryFails(o) ==
  \/ o.handle /\ StopFails(o.session) /\ UNCHANGED <<orphans, files>>
  \/ /\ \E left \in Retried(o) :
          /\ left.writer \/ RemoveFails(o.session)
          /\ orphans' = (orphans \ {o}) \cup {left}
     /\ Stopped(o.session)
     /\ UNCHANGED files

RetrySucceeds(o) ==
  /\ orphans' = orphans \ {o}
  /\ Stopped(o.session)
  /\ Removed(o.session)

(* retry_orphan_cleanup.  There is never a second orphan (OneOrphan) that   *)
(* the loop would go on with after the first one failed.                    *)
RetryOrphan(s) ==
  /\ At("retryOrphans", s)
  /\ \E o \in orphans : \/ RetrySucceeds(o) /\ UNCHANGED <<call, result>>
                        \/ RetryFails(o) /\ Return("error")
  /\ UNCHANGED <<records, artifacts>>

(* The session must be new to the registry and to the directory, and the    *)
(* input device must have a format.                                         *)
CheckStart(s) ==
  /\ At("retryOrphans", s)
  /\ orphans = {}
  /\ \/ s \notin captures \cup artifacts \cup partialFiles \cup finalFiles
          /\ Continue("createWriter", s)
     \/ Return("error")
  /\ UNCHANGED <<records, artifacts, orphans, unit, files>>

CreateWriter(s) ==
  /\ At("createWriter", s)
  /\ partialFiles' = partialFiles \cup {s} /\ UNCHANGED finalFiles
  /\ Continue("startBackend", s)
  /\ UNCHANGED <<records, artifacts, orphans, unit>>

(* Creation fails before or after it made the file. *)
CreateWriterFails(s) ==
  /\ At("createWriter", s)
  /\ \/ UNCHANGED <<orphans, files>>
     \/ Orphan(s, FALSE, FALSE) /\ partialFiles' = partialFiles \cup {s}
          /\ UNCHANGED finalFiles
  /\ Return("error")
  /\ UNCHANGED <<records, artifacts, unit>>

BackendStarts(s) ==
  /\ At("startBackend", s)
  /\ unit' = [unit EXCEPT ![s] = "started"]
  /\ captures' = captures \cup {s}
  /\ handles' = handles \cup {s} /\ writers' = writers \cup {s}
  /\ summary' = [summary EXCEPT ![s] = "none"]
  /\ fault' = [fault EXCEPT ![s] = "none"]
  /\ openHandles' = openHandles + 1
  /\ Return("ok")
  /\ UNCHANGED <<artifacts, orphans, files>>

(* BackendStartOutcome::FailedClean *)
BackendFailsClean(s) ==
  /\ At("startBackend", s)
  /\ \/ Orphan(s, FALSE, TRUE) /\ UNCHANGED files  \* abort failed
     \/ RememberIfCleanupFails(s)
  /\ Return("error")
  /\ UNCHANGED <<records, artifacts, unit>>

(* FailedOwned: what was set up of the unit could not be released. *)
BackendFailsOwned(s) ==
  /\ At("startBackend", s)
  /\ \E level \in {"created", "initialized"} :
       unit' = [unit EXCEPT ![s] = level]
  /\ Orphan(s, TRUE, TRUE)
  /\ Return("error")
  /\ UNCHANGED <<records, artifacts, files>>

-----------------------------------------------------------------------------
(* stop_backend, the first step of finish and cancel *)

(* stop_backend; only a handle stopped now is taken off the count. *)
StopBackend(s) ==
  \/ s \notin handles /\ UNCHANGED <<unit, handles, openHandles>>
  \/ /\ s \in handles
     /\ Stopped(s)
     /\ handles' = handles \ {s}
     /\ openHandles' = IF openHandles = 0 THEN 0 ELSE openHandles - 1

(* Mutant: the handle is taken out of the record before it is stopped. *)
StopBackendFailsTaking(s) ==
  /\ s \in handles
  /\ StopFails(s)
  /\ Return("error")
  /\ handles' = handles \ {s}
  /\ openHandles' = openHandles - 1

StopBackendFails(s) ==
  /\ s \in handles
  /\ StopFails(s)
  /\ Return("error")
  /\ UNCHANGED <<handles, openHandles>>

Forget(s) ==
  /\ captures' = captures \ {s}
  /\ handles' = handles \ {s} /\ writers' = writers \ {s}
  /\ UNCHANGED <<summary, fault, openHandles>>

-----------------------------------------------------------------------------
(* finish *)

FinishStop(s) ==
  /\ At("finishStop", s)
  /\ IF s \in captures
     THEN \/ StopBackend(s) /\ Continue("checkFault", s)
          \/ StopBackendFails(s)
     ELSE Return("error") /\ UNCHANGED <<unit, handles, openHandles>>
  /\ UNCHANGED <<captures, writers, summary, fault, artifacts, orphans, files>>

(* Mutant: the fault is not looked at. *)
FinishDespiteFault(s) ==
  /\ At("checkFault", s)
  /\ Continue("finalize", s)
  /\ UNCHANGED <<records, artifacts, orphans, unit, files>>

CheckFault(s) ==
  /\ At("checkFault", s)
  /\ IF fault[s] = "none" THEN Continue("finalize", s) ELSE Return("error")
  /\ UNCHANGED <<records, artifacts, orphans, unit, files>>

(* The summary of an earlier finish is used again; the writer of a failed   *)
(* one stays.  The trait lets a later attempt succeed (PcmRing's writer     *)
(* repeats its first answer).                                               *)
Finalize(s) ==
  /\ At("finalize", s)
  /\ summary[s] # "none" \/ s \in writers
  /\ \E frames \in {"empty", "some"} :
       /\ summary[s] \in {"none", frames}
       /\ summary' = [summary EXCEPT ![s] = frames]
       /\ IF frames = "some" THEN Continue("rename", s) ELSE Return("error")
  /\ writers' = writers \ {s}
  /\ UNCHANGED <<captures, handles, fault, openHandles, artifacts, orphans,
                 unit, files>>

FinalizeFails(s) ==
  /\ At("finalize", s)
  /\ summary[s] = "none" /\ s \in writers
  /\ Return("error")
  /\ UNCHANGED <<records, artifacts, orphans, unit, files>>

(* A cancel has aborted the writer and then failed to remove the file: the  *)
(* finish panics with the lock held.                                        *)
FinalizePanics(s) ==
  /\ call = [step |-> "finalize", session |-> s]
  /\ summary[s] = "none" /\ s \notin writers
  /\ poisoned' = TRUE
  /\ Return("none")
  /\ UNCHANGED <<running, records, artifacts, orphans, unit, files>>

Rename(s) ==
  /\ At("rename", s)
  /\ \/ /\ partialFiles' = partialFiles \ {s}
        /\ finalFiles' = finalFiles \cup {s}
        /\ Forget(s)
        /\ artifacts' = artifacts \cup {s}
        /\ Return("ok")
     \/ Return("error") /\ UNCHANGED <<records, artifacts, files>>
  /\ UNCHANGED <<orphans, unit>>

-----------------------------------------------------------------------------
(* cancel and cleanup *)

CancelStop(s) ==
  /\ At("cancelStop", s)
  /\ IF s \in captures
     THEN \/ StopBackend(s) /\ Continue("abort", s)
          \/ StopBackendFails(s)
     ELSE Return("ok") /\ UNCHANGED <<unit, handles, openHandles>>
  /\ UNCHANGED <<captures, writers, summary, fault, artifacts, orphans, files>>

AbortWriter(s) ==
  /\ At("abort", s)
  /\ \/ writers' = writers \ {s} /\ Continue("remove", s)
     \/ s \in writers /\ Return("error") /\ UNCHANGED writers
  /\ UNCHANGED <<captures, handles, summary, fault, openHandles, artifacts,
                 orphans, unit, files>>

(* Mutant: a cancel is confirmed although its file is still there. *)
RemoveBestEffort(s) ==
  /\ At("remove", s)
  /\ Removed(s) \/ RemoveFails(s)
  /\ Forget(s) /\ Return("ok")
  /\ UNCHANGED <<artifacts, orphans, unit>>

RemovePartial(s) ==
  /\ At("remove", s)
  /\ \/ Removed(s) /\ Forget(s) /\ Return("ok")
     \/ RemoveFails(s) /\ Return("error") /\ UNCHANGED records
  /\ UNCHANGED <<artifacts, orphans, unit>>

Cleanup(s) ==
  /\ running /\ ~poisoned /\ call = NoCall
  /\ \/ /\ finalFiles' = IF s \in artifacts THEN finalFiles \ {s} ELSE finalFiles
        /\ artifacts' = artifacts \ {s}
        /\ result' = "ok"
     \/ s \in artifacts /\ result' = "error" /\ UNCHANGED <<finalFiles, artifacts>>
  /\ UNCHANGED <<running, poisoned, call, records, orphans, unit, partialFiles>>

-----------------------------------------------------------------------------
(* The device's callback, and the life of the process *)

ReportFault(s) ==
  /\ unit[s] = "started" /\ fault[s] = "none"
  /\ \E f \in {"overflow", "device"} : fault' = [fault EXCEPT ![s] = f]
  /\ UNCHANGED <<running, poisoned, call, result, captures, handles, writers,
                 summary, openHandles, artifacts, orphans, unit, files>>

(* The units and the registry die with the process; the files stay. *)
Crash ==
  /\ running
  /\ running' = FALSE /\ poisoned' = FALSE
  /\ call' = NoCall /\ result' = "none"
  /\ captures' = {} /\ handles' = {} /\ writers' = {}
  /\ summary' = Nothing /\ fault' = Nothing /\ openHandles' = 0
  /\ artifacts' = {} /\ orphans' = {}
  /\ unit' = Nothing
  /\ UNCHANGED files

(* cleanup_stale_audio_artifacts stops at the first file it cannot remove,  *)
(* and the adapter is not initialized then.                                 *)
Initialize ==
  /\ ~running
  /\ partialFiles' \in SUBSET partialFiles /\ finalFiles' \in SUBSET finalFiles
  /\ running' = (partialFiles' = {} /\ finalFiles' = {})
  /\ UNCHANGED <<poisoned, call, result, records, artifacts, orphans, unit>>

-----------------------------------------------------------------------------
Start(s) ==
  \/ Enter("retryOrphans", s) \/ RetryOrphan(s) \/ CheckStart(s)
  \/ CreateWriter(s) \/ CreateWriterFails(s) \/ BackendStarts(s)
  \/ BackendFailsClean(s) \/ BackendFailsOwned(s)

FinishCapture(s) ==
  \/ Enter("finishStop", s) \/ FinishStop(s) \/ CheckFault(s) \/ Finalize(s)
  \/ FinalizeFails(s) \/ FinalizePanics(s) \/ Rename(s)

Cancel(s) ==
  \/ Enter("cancelStop", s) \/ CancelStop(s) \/ AbortWriter(s)
  \/ RemovePartial(s)

Next ==
  \/ \E s \in Sessions : \/ Start(s) \/ FinishCapture(s) \/ Cancel(s)
                         \/ Cleanup(s) \/ ReportFault(s)
  \/ Refuse
  \/ Crash
  \/ Initialize

Spec == Init /\ [][Next]_vars

-----------------------------------------------------------------------------
(* Properties *)

OrphanSessions == {o.session : o \in orphans}

(* Every file of the directory belongs to a record through which a later    *)
(* operation deletes it, whichever step of whichever operation failed: no   *)
(* recording is left on the disk that only a restart would find.            *)
FilesAreOwned ==
  running =>
    /\ partialFiles \subseteq captures \cup OrphanSessions
         \cup (IF call.step = "startBackend" THEN {call.session} ELSE {})
    /\ finalFiles \subseteq artifacts

(* Every CoreAudio unit that exists is held by the capture or the orphan    *)
(* that will stop it, and open_handles counts those of the captures.        *)
MicrophoneIsOwned ==
  /\ \A s \in Sessions :
       unit[s] # "none" =>
         s \in handles \/ \E o \in orphans : o.session = s /\ o.handle
  /\ openHandles = Cardinality(handles)

(* A finalized recording is whole: its file is there, its microphone is     *)
(* released and its device never reported a fault.                          *)
ArtifactIsSound ==
  \A s \in artifacts :
    s \in finalFiles /\ unit[s] = "none" /\ fault[s] = "none"

(* A capture that finish is about to finalize still has its writer: the     *)
(* expect in finish_sync ("unfinished capture retains writer ownership").   *)
WriterIsRetained ==
  call.step = "finalize" /\ summary[call.session] = "none" =>
    call.session \in writers

(* A failed start blocks the next one until its remains are gone, so there  *)
(* is never more than one orphan.                                           *)
OneOrphan == Cardinality(orphans) <= 1

(* However often an attempt to stop it fails, a CoreAudio unit keeps one    *)
(* owner that will try again, and a start that failed keeps the next one    *)
(* out until then.                                                          *)
UnitsAreOwned == MicrophoneIsOwned /\ OneOrphan

(* A cancel that returns Ok has released the microphone and deleted the     *)
(* partial recording, after any number of failed attempts; what is left of  *)
(* the session is at most the orphan of a start that failed.                *)
CancelReleases ==
  [][\A s \in Sessions :
       /\ call.session = s /\ call.step \in {"cancelStop", "remove"}
       /\ call' = NoCall /\ result' = "ok"
       =>
       /\ s \notin captures'
       /\ unit'[s] # "none" \/ s \in partialFiles' => s \in OrphanSessions']_vars
=============================================================================
