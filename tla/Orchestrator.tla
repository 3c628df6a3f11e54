---------------------------- MODULE Orchestrator ----------------------------
(***************************************************************************)
(* TranscriptionOrchestrator: one recording at a time, from the start      *)
(* request to the last irreversible commit, against concurrent finish,     *)
(* cancel, cleanup-retry, deadline and quit calls.                         *)
(*                                                                         *)
(* Every call is an async future.  A step of a future is one section under *)
(* one of the two mutexes (the runtime's, the coordinator's) or one port   *)
(* call together with its answer; between two steps any other future may   *)
(* run.  Consecutive reads of the runtime are one step where only quit     *)
(* could come between them and the outcome is the same.  HUD, cue and      *)
(* diagnostics calls are best effort and left out except where their       *)
(* failure changes the control flow.  Delivery's port calls are one        *)
(* representative commit.                                                  *)
(***************************************************************************)
EXTENDS TranscriptionSession

VARIABLES
  opsOpen,       \* OperationBarrier's fence is open
  quitting,      \* RuntimeState.quitting
  starting,      \* RuntimeState.starting
  preparing,     \* RuntimeState.preparing
  active,        \* RuntimeState.active
  debts,         \* RuntimeState.audio_cleanup_debts
  gate,          \* holder of configuration_gate
  slot,          \* SessionCoordinator.active
  fence,         \* sessions whose LifecycleFence is open
  commit,        \* sessions with a commit guard held
  capture,       \* sessions with a capture registered in the audio adapter
  artifact,      \* sessions with a finalized recording on disk
  timer,         \* per session: its recording deadline
  start,         \* per session: where its start call is
  finish,        \* per session: where its finish_recording call is
  cleaner,       \* per session: where its cancel or cleanup-retry call is
  quit,          \* where the exit leader is
  heldPreparing, \* run_leader_quit's local preparing
  heldActive,    \* run_leader_quit's local active
  retrying,      \* debts the exit leader has still to retry
  refused        \* history: sessions one of whose events the domain refused

runtime == <<quitting, starting, preparing, active, debts>>
audio == <<capture, artifact>>
fences == <<fence, commit>>
calls == <<start, finish, cleaner>>
quitLocals == <<quit, heldPreparing, heldActive, retrying>>
vars == <<opsOpen, runtime, gate, slot, fences, audio, timer, calls,
          quitLocals, refused>>

-----------------------------------------------------------------------------
(* Values *)

Resources == {"capture", "artifact"}
PreparingStages == {"StartingAudio", "Capturing", "Cancelling"}
RuntimeStages ==
  {"Recording", "Cancelling", "FinishingAudio", "Recognizing",
   "CleaningAudio", "Processing", "Delivering", "Finalizing"}

(* cleanup is the in_flight flag of a stage that cancels or cleans up,      *)
(* deadline the presence of the RecordingDeadlineGuard, limit is            *)
(* recording_limit_elapsed, audio the presence of Recognizing's AudioRef.   *)
PreparingWorkflow ==
  [id : Sessions \cup {NoSession}, stage : PreparingStages,
   cleanup : {"idle", "inFlight"}, deadline : {"none", "guard"},
   limit : {"none", "elapsed"}]
ActiveWorkflow ==
  [id : Sessions \cup {NoSession}, stage : RuntimeStages,
   cleanup : {"idle", "inFlight"},
   completion : {"Cancelled", "FailAudio"}, audio : {"none", "file"},
   deadline : {"none", "guard"}]

NoPreparing ==
  [id |-> NoSession, stage |-> "StartingAudio", cleanup |-> "idle",
   deadline |-> "none", limit |-> "none"]
NoActive ==
  [id |-> NoSession, stage |-> "Recording", cleanup |-> "idle",
   completion |-> "Cancelled", audio |-> "none", deadline |-> "none"]

(* The workflow values the calls write, named for the stage they enter. *)
Disarmed(w) == [w EXCEPT !.deadline = "none"]
Cancelling(w) == [w EXCEPT !.stage = "Cancelling", !.cleanup = "inFlight"]
CancellingAs(w, completion) ==
  [w EXCEPT !.stage = "Cancelling", !.cleanup = "inFlight",
            !.completion = completion]
Recording(s, deadline) == [NoActive EXCEPT !.id = s, !.deadline = deadline]
FinishingAudio(w) ==
  [w EXCEPT !.stage = "FinishingAudio", !.deadline = "none"]
Recognizing(w) == [w EXCEPT !.stage = "Recognizing", !.audio = "file"]
CleaningAudio(w) ==
  [w EXCEPT !.stage = "CleaningAudio", !.cleanup = "inFlight"]
CleanedUp(w) ==
  [w EXCEPT !.stage = "Recognizing", !.cleanup = "idle", !.audio = "none"]

StartSteps ==
  {"idle", "gate", "settings", "route", "target", "selection", "microphone",
   "cue", "open", "publish", "abandon", "abandoned", "abandonFailed",
   "deadline", "attach", "show", "join", "try", "update", "activate",
   "preflight", "preflightLimited", "limit", "await", "cancel", "cancelled",
   "cancelFailed", "remove", "release", "reject", "fail", "done"}
FinishSteps ==
  {"idle", "audio", "failed", "empty", "finished", "apply", "recognize",
   "submit", "asr", "asrCancelled", "answered", "clean", "cleaned",
   "cleanFailed", "cleanedUp", "release", "outcome", "discard", "discarded",
   "discardFailed", "failSession", "noSpeech", "process", "processing", "llm",
   "deliver", "delivering", "insert", "committing", "delivered", "finalize",
   "finalizing", "save", "saving", "saved", "complete", "clear", "done"}
CleanerSteps ==
  {"idle", "capture", "captureGone", "captureKept", "artifact",
   "artifactGone", "artifactKept", "release", "close", "cancelSession",
   "failSession", "clear"}
QuitSteps ==
  {"idle", "take", "invalidate", "fail", "stage", "capture", "captureGone",
   "captureKept", "asrCancel", "artifact", "artifactGone", "artifactKept",
   "drainOps", "drainCommits", "snapshot", "retry", "verdict", "done"}

TypeOK ==
  /\ opsOpen \in BOOLEAN /\ quitting \in BOOLEAN
  /\ starting \in Sessions \cup {NoSession}
  /\ preparing \in PreparingWorkflow
  /\ active \in ActiveWorkflow
  /\ debts \subseteq Sessions \X Resources
  /\ gate \in Sessions \cup {NoSession}
  /\ slot \in Slots \cup {EmptySlot}
  /\ fence \subseteq Sessions /\ commit \subseteq Sessions
  /\ capture \subseteq Sessions /\ artifact \subseteq Sessions
  /\ timer \in [Sessions -> {"off", "armed", "elapsed", "finishing"}]
  /\ start \in [Sessions -> StartSteps]
  /\ finish \in [Sessions -> FinishSteps]
  /\ cleaner \in [Sessions -> CleanerSteps]
  /\ quit \in QuitSteps
  /\ heldPreparing \in PreparingWorkflow
  /\ heldActive \in ActiveWorkflow
  /\ retrying \subseteq Sessions \X Resources
  /\ refused \subseteq Sessions

Init ==
  /\ opsOpen = TRUE /\ quitting = FALSE
  /\ starting = NoSession
  /\ preparing = NoPreparing
  /\ active = NoActive
  /\ debts = {}
  /\ gate = NoSession
  /\ slot = EmptySlot
  /\ fence = {} /\ commit = {}
  /\ capture = {} /\ artifact = {}
  /\ timer = [s \in Sessions |-> "off"]
  /\ start = [s \in Sessions |-> "idle"]
  /\ finish = [s \in Sessions |-> "idle"]
  /\ cleaner = [s \in Sessions |-> "idle"]
  /\ quit = "idle"
  /\ heldPreparing = NoPreparing
  /\ heldActive = NoActive
  /\ retrying = {}
  /\ refused = {}

-----------------------------------------------------------------------------
(* Runtime predicates and updates the calls share *)

(* Mutant: a recording still being prepared does not count. *)
HasActiveSessionButPreparing ==
  active.id # NoSession \/ starting # NoSession \/ debts # {}

(* RuntimeState::active_session_id has an answer. *)
HasActiveSession ==
  \/ active.id # NoSession
  \/ preparing.id # NoSession
  \/ starting # NoSession
  \/ debts # {}

StartReservationIsCurrent(s) ==
  ~quitting /\ (starting = s \/ preparing.id = s)

IsCurrentPreparingStart(s) ==
  ~quitting /\ preparing.id = s /\ preparing.stage = "StartingAudio"

IsCurrentPreparingCapture(s) ==
  ~quitting /\ preparing.id = s /\ preparing.stage = "Capturing"

IsCurrentStage(s, stages) ==
  ~quitting /\ active.id = s /\ active.stage \in stages

(* Dropping a RecordingDeadlineGuard stops a deadline that has not elapsed. *)
DeadlineDropped(s) ==
  [timer EXCEPT ![s] = IF @ = "armed" THEN "off" ELSE @]

TakeDeadline(s, workflow) ==
  timer' = IF workflow.deadline = "guard" THEN DeadlineDropped(s) ELSE timer

(* Mutant: the stage of the other cleanup. *)
ClaimPreparingAsCleaning ==
  preparing' = CleaningAudio(preparing)

ClaimPreparingCapture == preparing' = Cancelling(preparing)

(* remove_preparing_if_current: the workflow, its fence and its guard go.  *)
RemovePreparing(s) ==
  IF preparing.id = s
  THEN /\ preparing' = NoPreparing
       /\ fence' = fence \ {s}
       /\ TakeDeadline(s, preparing)
  ELSE UNCHANGED <<preparing, fence, timer>>

(* clear_active_if_current *)
ClearActive(s) ==
  IF active.id = s
  THEN /\ active' = NoActive
       /\ fence' = fence \ {s}
       /\ TakeDeadline(s, active)
  ELSE UNCHANGED <<active, fence, timer>>

(* set_audio_cleanup_in_flight_if_current(false) *)
ReleaseInFlight(s) ==
  IF active.id = s
  THEN /\ active' = [active EXCEPT !.cleanup =
                       IF active.stage \in {"Cancelling", "CleaningAudio"}
                       THEN "idle" ELSE @]
       /\ UNCHANGED preparing
  ELSE /\ preparing' = [preparing EXCEPT !.cleanup =
                          IF preparing.id = s /\ preparing.stage = "Cancelling"
                          THEN "idle" ELSE @]
       /\ UNCHANGED active

SetStage(stage) == active' = [active EXCEPT !.stage = stage]

(* AudioCapture::cancel and ::cleanup: an answer Ok means the resource is   *)
(* gone, an unknown one included; an error leaves it with the caller.       *)
Released(held, s) == held' = held \ {s}
Kept(held, s) == s \in held /\ UNCHANGED held

(* Mutants: a paid debt stays on the books, a new one is not entered. *)
KeepDebt(s, resource) == UNCHANGED debts
ForgetDebt(s, resource) == UNCHANGED debts

(* clear_audio_cleanup_debt, record_audio_cleanup_debt *)
ClearDebt(s, resource) == debts' = debts \ {<<s, resource>>}
RecordDebt(s, resource) == debts' = debts \cup {<<s, resource>>}

(* SessionCoordinator::apply, with the refusals remembered. *)
Apply(s, event) ==
  /\ slot' = Applied(slot, s, event)
  /\ refused' = IF Answer(slot, s, event) = "Invalid" THEN refused \cup {s}
                ELSE refused

(* Mutant: a write that does not ask the fence. *)
BeginCommitUnfenced(s) == commit' = commit \cup {s}

(* LifecycleFence::begin_commit has a guard to give; the guard's drop. *)
BeginCommit(s) == s \in fence /\ commit' = commit \cup {s}
EndCommit(s) == commit' = commit \ {s}

GotoStart(s, step) == start' = [start EXCEPT ![s] = step]
GotoFinish(s, step) == finish' = [finish EXCEPT ![s] = step]
GotoCleaner(s, step) == cleaner' = [cleaner EXCEPT ![s] = step]

-----------------------------------------------------------------------------
(* start: the reservation *)

StartEnter(s) ==
  /\ start[s] = "idle"
  /\ opsOpen
  /\ GotoStart(s, "gate")
  /\ UNCHANGED <<opsOpen, runtime, gate, slot, fences, audio, timer, finish,
                 cleaner, quitLocals, refused>>

(* The configuration gate, then the reservation under the runtime lock. *)
StartReserve(s) ==
  /\ start[s] = "gate"
  /\ gate = NoSession
  /\ IF quitting \/ HasActiveSession
     THEN GotoStart(s, "done") /\ UNCHANGED <<starting, gate>>
     ELSE GotoStart(s, "settings") /\ starting' = s /\ gate' = s
  /\ UNCHANGED <<opsOpen, quitting, preparing, active, debts, slot, fences,
                 audio, timer, finish, cleaner, quitLocals, refused>>

(* Leaves start early; the reservation is given back if it is still held.  *)
GiveUp(s) ==
  /\ GotoStart(s, "done")
  /\ starting' = IF starting = s THEN NoSession ELSE starting

(* A port call made under the reservation: it fails and start gives up, or  *)
(* the reservation has been taken away meanwhile, or start goes on.         *)
ReservedCall(s, from, to) ==
  /\ start[s] = from
  /\ \/ GiveUp(s)
     \/ /\ ~StartReservationIsCurrent(s)
        /\ GotoStart(s, "done") /\ UNCHANGED starting
     \/ /\ StartReservationIsCurrent(s)
        /\ GotoStart(s, to) /\ UNCHANGED starting
  /\ UNCHANGED <<opsOpen, quitting, preparing, active, debts, slot, fences,
                 audio, timer, finish, cleaner, quitLocals, refused>>

(* settings.load, then resolve_text_processing_route, under the gate. *)
StartSettings(s) ==
  /\ ReservedCall(s, "settings", "route")
  /\ gate' = IF start'[s] = "done" THEN NoSession ELSE gate

StartRoute(s) ==
  /\ start[s] = "route"
  /\ GotoStart(s, IF StartReservationIsCurrent(s) THEN "target" ELSE "done")
  /\ gate' = NoSession
  /\ UNCHANGED <<opsOpen, runtime, slot, fences, audio, timer, finish, cleaner,
                 quitLocals, refused>>

StartTarget(s) ==
  /\ \/ ReservedCall(s, "target", "selection")
     \/ ReservedCall(s, "target", "microphone")
  /\ UNCHANGED gate

StartSelection(s) ==
  ReservedCall(s, "selection", "microphone") /\ UNCHANGED gate

StartPrepare(s) ==
  /\ start[s] = "microphone"
  /\ \/ /\ ~quitting /\ starting = s        \* access granted
        /\ starting' = NoSession
        /\ preparing' = [NoPreparing EXCEPT !.id = s]
        /\ fence' = fence \cup {s}
        /\ GotoStart(s, "cue")
     \/ /\ starting # s \/ quitting
        /\ GotoStart(s, "done") /\ UNCHANGED <<starting, preparing, fence>>
     \/ GiveUp(s) /\ UNCHANGED <<preparing, fence>>   \* denied or an error
  /\ UNCHANGED <<opsOpen, quitting, active, debts, gate, slot, commit, audio,
                 timer, finish, cleaner, quitLocals, refused>>

-----------------------------------------------------------------------------
(* start: prepare_recording *)

StartCue(s) ==
  /\ start[s] = "cue"
  /\ GotoStart(s, IF IsCurrentPreparingStart(s) THEN "open" ELSE "done")
  /\ UNCHANGED <<opsOpen, runtime, gate, slot, fences, audio, timer, finish,
                 cleaner, quitLocals, refused>>

(* audio.start: an error removes the preparation if it is still there. *)
StartOpen(s) ==
  /\ start[s] = "open"
  /\ \/ /\ capture' = capture \cup {s}
        /\ GotoStart(s, "publish")
        /\ UNCHANGED <<preparing, fence, timer>>
     \/ RemovePreparing(s) /\ GotoStart(s, "done") /\ UNCHANGED capture
  /\ UNCHANGED <<opsOpen, quitting, starting, active, debts, gate, slot,
                 commit, artifact, finish, cleaner, quitLocals, refused>>

(* set_preparing_capture_if_current *)
StartPublish(s) ==
  /\ start[s] = "publish"
  /\ IF IsCurrentPreparingStart(s)
     THEN /\ preparing' = [preparing EXCEPT !.stage = "Capturing"]
          /\ GotoStart(s, "deadline")
     ELSE GotoStart(s, "abandon") /\ UNCHANGED preparing
  /\ UNCHANGED <<opsOpen, quitting, starting, active, debts, gate, slot,
                 fences, audio, timer, finish, cleaner, quitLocals, refused>>

StartAbandon(s) ==
  /\ start[s] = "abandon"
  /\ \/ Released(capture, s) /\ GotoStart(s, "abandoned")
     \/ Kept(capture, s) /\ GotoStart(s, "abandonFailed")
  /\ UNCHANGED <<opsOpen, runtime, gate, slot, fences, artifact, timer, finish,
                 cleaner, quitLocals, refused>>

StartAbandonSettle(s) ==
  /\ \/ start[s] = "abandoned" /\ ClearDebt(s, "capture")
     \/ start[s] = "abandonFailed" /\ RecordDebt(s, "capture")
  /\ GotoStart(s, "done")
  /\ UNCHANGED <<opsOpen, quitting, starting, preparing, active, gate, slot,
                 fences, audio, timer, finish, cleaner, quitLocals, refused>>

(* Where a failed preflight step goes: it claims the capture to cancel it,  *)
(* or somebody else has taken the preparation over.                         *)
ClaimOrLeave(s) ==
  IF IsCurrentPreparingCapture(s)
  THEN ClaimPreparingCapture /\ GotoStart(s, "cancel")
  ELSE GotoStart(s, "done") /\ UNCHANGED preparing

StartDeadline(s) ==
  /\ start[s] = "deadline"
  /\ \/ /\ timer' = [timer EXCEPT ![s] = "armed"]
        /\ GotoStart(s, "attach") /\ UNCHANGED preparing
     \/ ClaimOrLeave(s) /\ UNCHANGED timer
  /\ UNCHANGED <<opsOpen, quitting, starting, active, debts, gate, slot,
                 fences, audio, finish, cleaner, quitLocals, refused>>

(* set_preparing_deadline_if_current: a guard not stored is dropped. *)
StartAttach(s) ==
  /\ start[s] = "attach"
  /\ IF IsCurrentPreparingCapture(s)
     THEN /\ preparing' = [preparing EXCEPT !.deadline = "guard"]
          /\ GotoStart(s, "show") /\ UNCHANGED timer
     ELSE /\ timer' = DeadlineDropped(s)
          /\ GotoStart(s, "done") /\ UNCHANGED preparing
  /\ UNCHANGED <<opsOpen, quitting, starting, active, debts, gate, slot,
                 fences, audio, finish, cleaner, quitLocals, refused>>

(* recording_hud.show *)
StartShow(s) ==
  /\ start[s] = "show"
  /\ \/ /\ GotoStart(s, IF IsCurrentPreparingCapture(s) THEN "join" ELSE "done")
        /\ UNCHANGED preparing
     \/ ClaimOrLeave(s)
  /\ UNCHANGED <<opsOpen, quitting, starting, active, debts, gate, slot,
                 fences, audio, timer, finish, cleaner, quitLocals, refused>>

(* The recording is ready and resolve_route has answered: an engine or none.*)
StartJoin(s) ==
  /\ start[s] = "join"
  /\ \/ /\ GotoStart(s, IF IsCurrentPreparingCapture(s) THEN "try" ELSE "done")
        /\ UNCHANGED preparing
     \/ ClaimOrLeave(s)
  /\ UNCHANGED <<opsOpen, quitting, starting, active, debts, gate, slot,
                 fences, audio, timer, finish, cleaner, quitLocals, refused>>

-----------------------------------------------------------------------------
(* start: the session and its activation *)

(* SessionCoordinator::try_start; Busy claims the capture to cancel it. *)
StartTry(s) ==
  /\ start[s] = "try"
  /\ IF slot.id = NoSession
     THEN slot' = Occupied(s) /\ GotoStart(s, "update") /\ UNCHANGED preparing
     ELSE ClaimOrLeave(s) /\ UNCHANGED slot
  /\ UNCHANGED <<opsOpen, quitting, starting, active, debts, gate, fences,
                 audio, timer, finish, cleaner, quitLocals, refused>>

(* recording_hud.update(Recording) *)
StartUpdate(s) ==
  /\ start[s] = "update"
  /\ \/ GotoStart(s, "activate") /\ UNCHANGED preparing
     \/ IF IsCurrentPreparingCapture(s)
        THEN ClaimPreparingCapture /\ GotoStart(s, "cancel")
        ELSE GotoStart(s, "fail") /\ UNCHANGED preparing
  /\ UNCHANGED <<opsOpen, quitting, starting, active, debts, gate, slot,
                 fences, audio, timer, finish, cleaner, quitLocals, refused>>

(* The preparation becomes the active workflow; the domain hears of it only *)
(* in the next step, after the runtime lock is released.                    *)
StartActivate(s) ==
  /\ start[s] = "activate"
  /\ IF IsCurrentPreparingCapture(s)
     THEN /\ active' = Recording(s, preparing.deadline)
          /\ preparing' = NoPreparing
          /\ GotoStart(s, IF preparing.limit = "elapsed" THEN "preflightLimited"
                          ELSE "preflight")
     ELSE GotoStart(s, "fail") /\ UNCHANGED <<active, preparing>>
  /\ UNCHANGED <<opsOpen, quitting, starting, debts, gate, slot, fences, audio,
                 timer, finish, cleaner, quitLocals, refused>>

(* PreflightPassed; a limit that elapsed before activation finishes now.    *)
StartPreflight(s) ==
  /\ start[s] \in {"preflight", "preflightLimited"}
  /\ Apply(s, "PreflightPassed")
  /\ GotoStart(s, IF /\ start[s] = "preflightLimited"
                     /\ Answer(slot, s, "PreflightPassed") = "Ok"
                  THEN "limit" ELSE "done")
  /\ UNCHANGED <<opsOpen, runtime, gate, fences, audio, timer, finish, cleaner,
                 quitLocals>>

(* The not activated session is failed, whatever the coordinator answers.  *)
StartFail(s) ==
  /\ start[s] = "fail"
  /\ slot' = Applied(slot, s, "Fail")
  /\ GotoStart(s, "done")
  /\ UNCHANGED <<opsOpen, runtime, gate, fences, audio, timer, finish, cleaner,
                 quitLocals, refused>>

(* cancel_claimed_preparing_capture *)
StartCancel(s) ==
  /\ start[s] = "cancel"
  /\ \/ Released(capture, s) /\ GotoStart(s, "cancelled")
     \/ Kept(capture, s) /\ GotoStart(s, "cancelFailed")
  /\ UNCHANGED <<opsOpen, runtime, gate, slot, fences, artifact, timer, finish,
                 cleaner, quitLocals, refused>>

StartCancelSettle(s) ==
  /\ \/ start[s] = "cancelled" /\ ClearDebt(s, "capture")
        /\ GotoStart(s, "remove")
     \/ start[s] = "cancelFailed" /\ RecordDebt(s, "capture")
        /\ GotoStart(s, "release")
  /\ UNCHANGED <<opsOpen, quitting, starting, preparing, active, gate, slot,
                 fences, audio, timer, finish, cleaner, quitLocals, refused>>

(* The error is returned at once: a session already in the coordinator's    *)
(* slot stays there.                                                        *)
StartRelease(s) ==
  /\ start[s] = "release"
  /\ ReleaseInFlight(s)
  /\ GotoStart(s, "done")
  /\ UNCHANGED <<opsOpen, quitting, starting, debts, gate, slot, fences, audio,
                 timer, finish, cleaner, quitLocals, refused>>

(* Only the claim after a failed HUD update comes after try_start, and only *)
(* there is the session rejected.                                           *)
StartRemove(s) ==
  /\ start[s] = "remove"
  /\ RemovePreparing(s)
  /\ GotoStart(s, IF slot.id = s THEN "reject" ELSE "done")
  /\ UNCHANGED <<opsOpen, quitting, starting, active, debts, gate, slot,
                 commit, audio, finish, cleaner, quitLocals, refused>>

StartReject(s) ==
  /\ start[s] = "reject"
  /\ slot' = Applied(slot, s, "Reject")
  /\ GotoStart(s, "done")
  /\ UNCHANGED <<opsOpen, runtime, gate, fences, audio, timer, finish, cleaner,
                 quitLocals, refused>>

-----------------------------------------------------------------------------
(* finish_recording *)

CanFinish(s) == opsOpen /\ active.id = s /\ active.stage = "Recording"

(* The claim; a call that cannot claim returns and changes nothing. *)
FinishClaimed(s) ==
  /\ active' = FinishingAudio(active)
  /\ GotoFinish(s, "audio")

FinishRequest(s) ==
  /\ CanFinish(s)
  /\ FinishClaimed(s)
  /\ TakeDeadline(s, active)
  /\ UNCHANGED <<opsOpen, quitting, starting, preparing, debts, gate, slot,
                 fences, audio, start, cleaner, quitLocals, refused>>

(* start's own call for a limit that elapsed while it prepared. *)
StartLimit(s) ==
  /\ start[s] = "limit"
  /\ IF CanFinish(s)
     THEN FinishClaimed(s) /\ TakeDeadline(s, active) /\ GotoStart(s, "await")
     ELSE GotoStart(s, "done") /\ UNCHANGED <<active, finish, timer>>
  /\ UNCHANGED <<opsOpen, quitting, starting, preparing, debts, gate, slot,
                 fences, audio, cleaner, quitLocals, refused>>

StartAwait(s) ==
  /\ start[s] = "await"
  /\ finish[s] = "done" /\ cleaner[s] = "idle"
  /\ GotoStart(s, "done")
  /\ UNCHANGED <<opsOpen, runtime, gate, slot, fences, audio, timer, finish,
                 cleaner, quitLocals, refused>>

(* audio.finish: success closes the capture and leaves an artifact; empty   *)
(* or failed, or the capture is unknown, the capture is as it was.          *)
FinishAudio(s) ==
  /\ finish[s] = "audio"
  /\ \/ /\ s \in capture
        /\ capture' = capture \ {s}
        /\ artifact' = artifact \cup {s}
        /\ GotoFinish(s, "finished")
     \/ s \in capture /\ GotoFinish(s, "empty") /\ UNCHANGED audio
     \/ GotoFinish(s, "failed") /\ UNCHANGED audio
  /\ UNCHANGED <<opsOpen, runtime, gate, slot, fences, timer, start, cleaner,
                 quitLocals, refused>>

(* The capture is not proved closed: the call goes on as the cancellation   *)
(* it has claimed, unless quit has taken the workflow.                      *)
FinishUnusable(s) ==
  /\ finish[s] \in {"empty", "failed"}
  /\ IF IsCurrentStage(s, {"FinishingAudio"})
     THEN /\ active' = CancellingAs(active, IF finish[s] = "empty"
                                           THEN "Cancelled" ELSE "FailAudio")
          /\ GotoCleaner(s, "capture")
     ELSE UNCHANGED <<active, cleaner>>
  /\ GotoFinish(s, "done")
  /\ UNCHANGED <<opsOpen, quitting, starting, preparing, debts, gate, slot,
                 fences, audio, timer, start, quitLocals, refused>>

(* Mutant: a call that has lost the workflow just returns. *)
FinishCheckOrReturn(s) ==
  /\ finish[s] = "finished"
  /\ GotoFinish(s, IF IsCurrentStage(s, {"FinishingAudio"})
                   THEN "apply" ELSE "done")
  /\ UNCHANGED <<opsOpen, runtime, gate, slot, fences, audio, timer, start,
                 cleaner, quitLocals, refused>>

(* The runtime still has the workflow, or the finalized audio is discarded. *)
FinishCheck(s) ==
  /\ finish[s] = "finished"
  /\ GotoFinish(s, IF IsCurrentStage(s, {"FinishingAudio"})
                   THEN "apply" ELSE "discard")
  /\ UNCHANGED <<opsOpen, runtime, gate, slot, fences, audio, timer, start,
                 cleaner, quitLocals, refused>>

(* apply_if_current's coordinator call; a refusal is returned as it is.     *)
ApplyOr(s, event, ok, notFound) ==
  /\ Apply(s, event)
  /\ GotoFinish(s, CASE Answer(slot, s, event) = "Ok" -> ok
                     [] Answer(slot, s, event) = "NotFound" -> notFound
                     [] OTHER -> "done")

FinishApply(s) ==
  /\ finish[s] = "apply"
  /\ ApplyOr(s, "FinishRecording", "recognize", "discard")
  /\ UNCHANGED <<opsOpen, runtime, gate, fences, audio, timer, start, cleaner,
                 quitLocals>>

FinishRecognize(s) ==
  /\ finish[s] = "recognize"
  /\ IF IsCurrentStage(s, RuntimeStages)
     THEN /\ active' = Recognizing(active)
          /\ GotoFinish(s, "submit")
     ELSE GotoFinish(s, "discard") /\ UNCHANGED active
  /\ UNCHANGED <<opsOpen, quitting, starting, preparing, debts, gate, slot,
                 fences, audio, timer, start, cleaner, quitLocals, refused>>

(* asr.transcribe reaches the supervisor: it answers at once when it cannot *)
(* use the artifact, and always when the artifact is gone.                  *)
FinishSubmit(s) ==
  /\ finish[s] = "submit"
  /\ \/ s \in artifact /\ GotoFinish(s, "asr")
     \/ GotoFinish(s, "answered")
  /\ UNCHANGED <<opsOpen, runtime, gate, slot, fences, audio, timer, start,
                 cleaner, quitLocals, refused>>

FinishAsrAnswer(s) ==
  /\ finish[s] \in {"asr", "asrCancelled"}
  /\ GotoFinish(s, "answered")
  /\ UNCHANGED <<opsOpen, runtime, gate, slot, fences, audio, timer, start,
                 cleaner, quitLocals, refused>>

(* begin_recognizing_audio_cleanup *)
FinishBeginCleanup(s) ==
  /\ finish[s] = "answered"
  /\ IF IsCurrentStage(s, {"Recognizing"}) /\ active.audio = "file"
     THEN /\ active' = CleaningAudio(active)
          /\ GotoFinish(s, "clean")
     ELSE GotoFinish(s, "outcome") /\ UNCHANGED active
  /\ UNCHANGED <<opsOpen, quitting, starting, preparing, debts, gate, slot,
                 fences, audio, timer, start, cleaner, quitLocals, refused>>

FinishClean(s) ==
  /\ finish[s] \in {"clean", "discard"}
  /\ \/ /\ Released(artifact, s)
        /\ GotoFinish(s, IF finish[s] = "clean" THEN "cleaned" ELSE "discarded")
     \/ /\ Kept(artifact, s)
        /\ GotoFinish(s, IF finish[s] = "clean" THEN "cleanFailed"
                         ELSE "discardFailed")
  /\ UNCHANGED <<opsOpen, runtime, gate, slot, fences, capture, timer, start,
                 cleaner, quitLocals, refused>>

FinishCleanSettle(s) ==
  /\ \/ finish[s] = "cleaned" /\ ClearDebt(s, "artifact")
        /\ GotoFinish(s, "cleanedUp")
     \/ finish[s] = "cleanFailed" /\ RecordDebt(s, "artifact")
        /\ GotoFinish(s, "release")
     \/ finish[s] = "discarded" /\ ClearDebt(s, "artifact")
        /\ GotoFinish(s, "done")
     \/ finish[s] = "discardFailed" /\ RecordDebt(s, "artifact")
        /\ GotoFinish(s, "done")
  /\ UNCHANGED <<opsOpen, quitting, starting, preparing, active, gate, slot,
                 fences, audio, timer, start, cleaner, quitLocals, refused>>

FinishRelease(s) ==
  /\ finish[s] = "release"
  /\ ReleaseInFlight(s)
  /\ GotoFinish(s, "done")
  /\ UNCHANGED <<opsOpen, quitting, starting, debts, gate, slot, fences, audio,
                 timer, start, cleaner, quitLocals, refused>>

(* complete_recognizing_audio_cleanup *)
FinishCompleteCleanup(s) ==
  /\ finish[s] = "cleanedUp"
  /\ IF IsCurrentStage(s, {"CleaningAudio"}) /\ active.cleanup = "inFlight"
     THEN /\ active' = CleanedUp(active)
          /\ GotoFinish(s, "outcome")
     ELSE GotoFinish(s, "done") /\ UNCHANGED active
  /\ UNCHANGED <<opsOpen, quitting, starting, preparing, debts, gate, slot,
                 fences, audio, timer, start, cleaner, quitLocals, refused>>

(* The transcription's outcome: wrong correlation or an error fails the     *)
(* session, no or blank text ends it without output, text goes to the LLM   *)
(* or straight to delivery, as the route says.                              *)
FinishOutcome(s) ==
  /\ finish[s] = "outcome"
  /\ IF IsCurrentStage(s, {"Recognizing"})
     THEN \E next \in {"failSession", "noSpeech", "process", "deliver"} :
            GotoFinish(s, next)
     ELSE GotoFinish(s, "done")
  /\ UNCHANGED <<opsOpen, runtime, gate, slot, fences, audio, timer, start,
                 cleaner, quitLocals, refused>>

(* One coordinator call of the pipeline and where it leads. *)
FinishApplies(s, from, event, to) ==
  /\ finish[s] = from
  /\ ApplyOr(s, event, to, "done")
  /\ UNCHANGED <<opsOpen, runtime, gate, fences, audio, timer, start, cleaner,
                 quitLocals>>

(* fail_current and complete_no_speech_current; the former ignores an       *)
(* unknown session, both then clear the workflow.                           *)
FinishFail(s) ==
  /\ finish[s] = "failSession"
  /\ IF active.id = s THEN slot' = Applied(slot, s, "Fail")
                           /\ GotoFinish(s, "clear")
     ELSE GotoFinish(s, "done") /\ UNCHANGED slot
  /\ UNCHANGED <<opsOpen, runtime, gate, fences, audio, timer, start, cleaner,
                 quitLocals, refused>>

FinishNoSpeech(s) == FinishApplies(s, "noSpeech", "NoSpeech", "clear")
FinishProcess(s) == FinishApplies(s, "process", "BeginProcessing", "processing")
FinishDeliver(s) == FinishApplies(s, "deliver", "BeginDelivery", "delivering")
FinishFinalize(s) ==
  FinishApplies(s, "finalize", "BeginFinalizing", "finalizing")
FinishComplete(s) == FinishApplies(s, "complete", "Complete", "clear")

(* set_stage_if_current after the coordinator has accepted the event. *)
FinishSetStage(s, from, stage, to) ==
  /\ finish[s] = from
  /\ IF IsCurrentStage(s, RuntimeStages)
     THEN SetStage(stage) /\ GotoFinish(s, to)
     ELSE GotoFinish(s, "done") /\ UNCHANGED active
  /\ UNCHANGED <<opsOpen, quitting, starting, preparing, debts, gate, slot,
                 fences, audio, timer, start, cleaner, quitLocals, refused>>

FinishSetProcessing(s) == FinishSetStage(s, "processing", "Processing", "llm")
FinishSetDelivering(s) ==
  FinishSetStage(s, "delivering", "Delivering", "insert")
FinishSetFinalizing(s) ==
  FinishSetStage(s, "finalizing", "Finalizing", "save")

(* Any answer of the LLM, an error included, leads to delivery: of its text *)
(* or of the transcript.                                                    *)
FinishLlmAnswer(s) ==
  /\ finish[s] = "llm"
  /\ GotoFinish(s, IF IsCurrentStage(s, {"Processing"}) THEN "deliver"
                   ELSE "done")
  /\ UNCHANGED <<opsOpen, runtime, gate, slot, fences, audio, timer, start,
                 cleaner, quitLocals, refused>>

(* An adapter's irreversible write: begin_commit on the session's fence,    *)
(* the write under the guard, the guard's drop; or no write at all.         *)
FinishBeginCommit(s) ==
  /\ finish[s] \in {"insert", "save"}
  /\ BeginCommit(s)
  /\ GotoFinish(s, IF finish[s] = "insert" THEN "committing" ELSE "saving")
  /\ UNCHANGED <<opsOpen, runtime, gate, slot, fence, audio, timer, start,
                 cleaner, quitLocals, refused>>

FinishSkipCommit(s) ==
  /\ finish[s] \in {"insert", "save"}
  /\ GotoFinish(s, IF finish[s] = "insert" THEN "delivered" ELSE "saved")
  /\ UNCHANGED <<opsOpen, runtime, gate, slot, fences, audio, timer, start,
                 cleaner, quitLocals, refused>>

FinishEndCommit(s) ==
  /\ finish[s] \in {"committing", "saving"}
  /\ EndCommit(s)
  /\ GotoFinish(s, IF finish[s] = "committing" THEN "delivered" ELSE "saved")
  /\ UNCHANGED <<opsOpen, runtime, gate, slot, fence, audio, timer, start,
                 cleaner, quitLocals, refused>>

FinishDelivered(s) ==
  /\ finish[s] = "delivered"
  /\ IF IsCurrentStage(s, {"Delivering"})
     THEN \E next \in {"finalize", "failSession"} : GotoFinish(s, next)
     ELSE GotoFinish(s, "done")
  /\ UNCHANGED <<opsOpen, runtime, gate, slot, fences, audio, timer, start,
                 cleaner, quitLocals, refused>>

FinishSaved(s) ==
  /\ finish[s] = "saved"
  /\ GotoFinish(s, IF IsCurrentStage(s, {"Finalizing"}) THEN "complete"
                   ELSE "done")
  /\ UNCHANGED <<opsOpen, runtime, gate, slot, fences, audio, timer, start,
                 cleaner, quitLocals, refused>>

FinishClear(s) ==
  /\ finish[s] = "clear"
  /\ ClearActive(s)
  /\ GotoFinish(s, "done")
  /\ UNCHANGED <<opsOpen, quitting, starting, preparing, debts, gate, slot,
                 commit, audio, start, cleaner, quitLocals, refused>>

-----------------------------------------------------------------------------
(* cancel_recording and retry_audio_cleanup: the in_flight flag they claim  *)
(* admits one of them at a time; what follows the claim is the same.        *)

CancelRequest(s) ==
  /\ opsOpen
  /\ \/ /\ preparing.id = s /\ preparing.stage = "Capturing"
        /\ TakeDeadline(s, preparing)
        /\ preparing' = Cancelling(Disarmed(preparing))
        /\ UNCHANGED active
     \/ /\ active.id = s /\ active.stage = "Recording"
        /\ TakeDeadline(s, active)
        /\ active' = CancellingAs(Disarmed(active), "Cancelled")
        /\ UNCHANGED preparing
     \/ /\ preparing.id = s /\ preparing.stage = "Cancelling"
        /\ preparing.cleanup = "idle"
        /\ preparing' = [preparing EXCEPT !.cleanup = "inFlight"]
        /\ UNCHANGED <<active, timer>>
     \/ /\ active.id = s /\ active.stage = "Cancelling"
        /\ active.cleanup = "idle"
        /\ active' = [active EXCEPT !.cleanup = "inFlight"]
        /\ UNCHANGED <<preparing, timer>>
  /\ GotoCleaner(s, "capture")
  /\ UNCHANGED <<opsOpen, quitting, starting, debts, gate, slot, fences, audio,
                 start, finish, quitLocals, refused>>

RetryRequest(s) ==
  /\ opsOpen
  /\ \E resource \in Resources :
       /\ <<s, resource>> \in debts
       /\ GotoCleaner(s, resource)
  /\ \/ /\ preparing.id = s /\ preparing.stage = "Cancelling"
        /\ preparing.cleanup = "idle"
        /\ preparing' = [preparing EXCEPT !.cleanup = "inFlight"]
        /\ UNCHANGED active
     \/ /\ active.id = s /\ active.stage \in {"Cancelling", "CleaningAudio"}
        /\ active.cleanup = "idle"
        /\ active' = [active EXCEPT !.cleanup = "inFlight"]
        /\ UNCHANGED preparing
  /\ UNCHANGED <<opsOpen, quitting, starting, debts, gate, slot, fences, audio,
                 timer, start, finish, quitLocals, refused>>

CleanerCapture(s) ==
  /\ cleaner[s] = "capture"
  /\ \/ Released(capture, s) /\ GotoCleaner(s, "captureGone")
     \/ Kept(capture, s) /\ GotoCleaner(s, "captureKept")
  /\ UNCHANGED <<opsOpen, runtime, gate, slot, fences, artifact, timer, start,
                 finish, quitLocals, refused>>

CleanerArtifact(s) ==
  /\ cleaner[s] = "artifact"
  /\ \/ Released(artifact, s) /\ GotoCleaner(s, "artifactGone")
     \/ Kept(artifact, s) /\ GotoCleaner(s, "artifactKept")
  /\ UNCHANGED <<opsOpen, runtime, gate, slot, fences, capture, timer, start,
                 finish, quitLocals, refused>>

CleanerSettle(s) ==
  /\ \/ cleaner[s] = "captureGone" /\ ClearDebt(s, "capture")
        /\ GotoCleaner(s, "close")
     \/ cleaner[s] = "captureKept" /\ RecordDebt(s, "capture")
        /\ GotoCleaner(s, "release")
     \/ cleaner[s] = "artifactGone" /\ ClearDebt(s, "artifact")
        /\ GotoCleaner(s, "close")
     \/ cleaner[s] = "artifactKept" /\ RecordDebt(s, "artifact")
        /\ GotoCleaner(s, "release")
  /\ UNCHANGED <<opsOpen, quitting, starting, preparing, active, gate, slot,
                 fences, audio, timer, start, finish, quitLocals, refused>>

CleanerRelease(s) ==
  /\ cleaner[s] = "release"
  /\ ReleaseInFlight(s)
  /\ GotoCleaner(s, "idle")
  /\ UNCHANGED <<opsOpen, quitting, starting, debts, gate, slot, fences, audio,
                 timer, start, finish, quitLocals, refused>>

(* What the cleaned-up workflow was: a preparation just goes, a cancelled   *)
(* recording and a failed one still have to tell the coordinator.           *)
CleanerClose(s) ==
  /\ cleaner[s] = "close"
  /\ RemovePreparing(s)
  /\ GotoCleaner(s,
       IF preparing.id = s THEN "idle"
       ELSE IF ~IsCurrentStage(s, {"Cancelling", "CleaningAudio"}) THEN "idle"
       ELSE IF active.stage = "Cancelling" /\ active.completion = "Cancelled"
       THEN "cancelSession" ELSE "failSession")
  /\ UNCHANGED <<opsOpen, quitting, starting, active, debts, gate, slot,
                 commit, audio, start, finish, quitLocals, refused>>

CleanerCancelSession(s) ==
  /\ cleaner[s] = "cancelSession"
  /\ Apply(s, "CancelRecording")
  /\ GotoCleaner(s, IF Answer(slot, s, "CancelRecording") = "Ok" THEN "clear"
                    ELSE "idle")
  /\ UNCHANGED <<opsOpen, runtime, gate, fences, audio, timer, start, finish,
                 quitLocals>>

CleanerFailSession(s) ==
  /\ cleaner[s] = "failSession"
  /\ IF active.id = s THEN slot' = Applied(slot, s, "Fail")
                           /\ GotoCleaner(s, "clear")
     ELSE GotoCleaner(s, "idle") /\ UNCHANGED slot
  /\ UNCHANGED <<opsOpen, runtime, gate, fences, audio, timer, start, finish,
                 quitLocals, refused>>

CleanerClear(s) ==
  /\ cleaner[s] = "clear"
  /\ ClearActive(s)
  /\ GotoCleaner(s, "idle")
  /\ UNCHANGED <<opsOpen, quitting, starting, preparing, debts, gate, slot,
                 commit, audio, start, finish, quitLocals, refused>>

-----------------------------------------------------------------------------
(* The recording deadline's own thread, and recording_limit_elapsed *)

DeadlineElapses(s) ==
  /\ timer[s] = "armed"
  /\ timer' = [timer EXCEPT ![s] = "elapsed"]
  /\ UNCHANGED <<opsOpen, runtime, gate, slot, fences, audio, calls,
                 quitLocals, refused>>

(* Mutant: a limit that elapses during the preparation is not remembered. *)
ForgetLimit(s) == UNCHANGED preparing

RememberLimit(s) ==
  preparing' = IF preparing.id = s THEN [preparing EXCEPT !.limit = "elapsed"]
               ELSE preparing

RecordingLimitElapsed(s) ==
  /\ timer[s] = "elapsed"
  /\ RememberLimit(s)
  /\ timer' = [timer EXCEPT ![s] =
                 IF preparing.id # s /\ active.id = s
                    /\ active.stage = "Recording"
                 THEN "finishing" ELSE "off"]
  /\ UNCHANGED <<opsOpen, quitting, starting, active, debts, gate, slot,
                 fences, audio, calls, quitLocals, refused>>

(* Its finish_recording call, which may come too late. *)
DeadlineFinish(s) ==
  /\ timer[s] = "finishing"
  /\ timer' = [timer EXCEPT ![s] = "off"]
  /\ IF CanFinish(s) THEN FinishClaimed(s) ELSE UNCHANGED <<active, finish>>
  /\ UNCHANGED <<opsOpen, quitting, starting, preparing, debts, gate, slot,
                 fences, audio, start, cleaner, quitLocals, refused>>

-----------------------------------------------------------------------------
(* quit: the exit leader (module Exit has the followers) *)

QuitBegin ==
  /\ quit = "idle"
  /\ quit' = "take"
  /\ opsOpen' = FALSE
  /\ UNCHANGED <<runtime, gate, slot, fences, audio, timer, calls,
                 heldPreparing, heldActive, retrying, refused>>

QuitTake ==
  /\ quit = "take"
  /\ quitting' = TRUE
  /\ starting' = NoSession
  /\ heldPreparing' = Disarmed(preparing)
  /\ heldActive' = Disarmed(active)
  /\ preparing' = NoPreparing
  /\ active' = NoActive
  /\ timer' = [s \in Sessions |->
                 IF \/ preparing.id = s /\ preparing.deadline = "guard"
                    \/ active.id = s /\ active.deadline = "guard"
                 THEN DeadlineDropped(s)[s] ELSE timer[s]]
  /\ quit' = IF active.id = NoSession /\ preparing.id = NoSession
             THEN "drainOps" ELSE "invalidate"
  /\ UNCHANGED <<opsOpen, debts, gate, slot, fences, audio, calls, retrying,
                 refused>>

(* The session being terminated. *)
Subject == IF heldActive.id # NoSession THEN heldActive.id ELSE heldPreparing.id

QuitInvalidate ==
  /\ quit = "invalidate"
  /\ fence' = fence \ {Subject}
  /\ quit' = IF heldActive.id # NoSession THEN "fail" ELSE "stage"
  /\ UNCHANGED <<opsOpen, runtime, gate, slot, commit, audio, timer, calls,
                 heldPreparing, heldActive, retrying, refused>>

QuitFail ==
  /\ quit = "fail"
  /\ slot' = Applied(slot, Subject, "Fail")
  /\ quit' = "stage"
  /\ UNCHANGED <<opsOpen, runtime, gate, fences, audio, timer, calls,
                 heldPreparing, heldActive, retrying, refused>>

(* Mutant: the exit joins a cancel that another call is running. *)
HoldsCaptureInFlight(p) == p.stage \in {"Capturing", "Cancelling"}

(* A cleanup already in flight is left to the call that runs it. *)
HoldsCapture(p) ==
  p.stage = "Capturing" \/ (p.stage = "Cancelling" /\ p.cleanup = "idle")

(* What the stage taken over still holds. *)
QuitStage ==
  /\ quit = "stage"
  /\ quit' =
       IF heldActive.id # NoSession
       THEN CASE heldActive.stage \in {"Recording", "FinishingAudio"} ->
                     "capture"
              [] heldActive.stage = "Recognizing" -> "asrCancel"
              [] OTHER -> "drainOps"
       ELSE IF HoldsCapture(heldPreparing) THEN "capture" ELSE "drainOps"
  /\ UNCHANGED <<opsOpen, runtime, gate, slot, fences, audio, timer, calls,
                 heldPreparing, heldActive, retrying, refused>>

(* asr.cancel reaches a request already submitted, and no other. *)
QuitAsrCancel ==
  /\ quit = "asrCancel"
  /\ finish' = [finish EXCEPT ![Subject] = IF @ = "asr" THEN "asrCancelled"
                                           ELSE @]
  /\ quit' = IF heldActive.audio = "file" THEN "artifact" ELSE "drainOps"
  /\ UNCHANGED <<opsOpen, runtime, gate, slot, fences, audio, timer, start,
                 cleaner, heldPreparing, heldActive, retrying, refused>>

QuitCapture ==
  /\ quit = "capture"
  /\ \/ Released(capture, Subject) /\ quit' = "captureGone"
     \/ Kept(capture, Subject) /\ quit' = "captureKept"
  /\ UNCHANGED <<opsOpen, runtime, gate, slot, fences, artifact, timer, calls,
                 heldPreparing, heldActive, retrying, refused>>

QuitArtifact ==
  /\ quit = "artifact"
  /\ \/ Released(artifact, Subject) /\ quit' = "artifactGone"
     \/ Kept(artifact, Subject) /\ quit' = "artifactKept"
  /\ UNCHANGED <<opsOpen, runtime, gate, slot, fences, capture, timer, calls,
                 heldPreparing, heldActive, retrying, refused>>

QuitSettle ==
  /\ \/ quit = "captureGone" /\ ClearDebt(Subject, "capture")
     \/ quit = "captureKept" /\ RecordDebt(Subject, "capture")
     \/ quit = "artifactGone" /\ ClearDebt(Subject, "artifact")
     \/ quit = "artifactKept" /\ RecordDebt(Subject, "artifact")
  /\ quit' = "drainOps"
  /\ UNCHANGED <<opsOpen, quitting, starting, preparing, active, gate, slot,
                 fences, audio, timer, calls, heldPreparing, heldActive,
                 retrying, refused>>

(* Mutant: a start is not counted by the barrier. *)
OpsQuiescentButStart ==
  \A s \in Sessions : finish[s] \in {"idle", "done"} /\ cleaner[s] = "idle"

(* Every call that entered the barrier has returned. *)
OpsQuiescent ==
  \A s \in Sessions : /\ start[s] \in {"idle", "done"}
                      /\ finish[s] \in {"idle", "done"}
                      /\ cleaner[s] = "idle"

QuitDrainOps ==
  /\ quit = "drainOps"
  /\ OpsQuiescent
  /\ quit' = IF heldActive.id = NoSession /\ heldPreparing.id = NoSession
             THEN "snapshot" ELSE "drainCommits"
  /\ UNCHANGED <<opsOpen, runtime, gate, slot, fences, audio, timer, calls,
                 heldPreparing, heldActive, retrying, refused>>

QuitDrainCommits ==
  /\ quit = "drainCommits"
  /\ Subject \notin commit
  /\ quit' = "snapshot"
  /\ UNCHANGED <<opsOpen, runtime, gate, slot, fences, audio, timer, calls,
                 heldPreparing, heldActive, retrying, refused>>

QuitSnapshot ==
  /\ quit = "snapshot"
  /\ retrying' = debts
  /\ quit' = "retry"
  /\ UNCHANGED <<opsOpen, runtime, gate, slot, fences, audio, timer, calls,
                 heldPreparing, heldActive, refused>>

(* One debt of the snapshot is retried; no other call runs by now, so the   *)
(* adapter's answer and its entry in the debts are one step.                *)
QuitRetry(s, resource) ==
  /\ quit = "retry"
  /\ <<s, resource>> \in retrying
  /\ retrying' = retrying \ {<<s, resource>>}
  /\ \/ /\ resource = "capture"
        /\ UNCHANGED artifact
        /\ \/ Released(capture, s) /\ ClearDebt(s, resource)
           \/ Kept(capture, s) /\ RecordDebt(s, resource)
     \/ /\ resource = "artifact"
        /\ UNCHANGED capture
        /\ \/ Released(artifact, s) /\ ClearDebt(s, resource)
           \/ Kept(artifact, s) /\ RecordDebt(s, resource)
  /\ UNCHANGED <<opsOpen, quitting, starting, preparing, active, gate, slot,
                 fences, timer, calls, quit, heldPreparing, heldActive,
                 refused>>

QuitRetried ==
  /\ quit = "retry"
  /\ retrying = {}
  /\ quit' = "verdict"
  /\ UNCHANGED <<opsOpen, runtime, gate, slot, fences, audio, timer, calls,
                 heldPreparing, heldActive, retrying, refused>>

(* A debt that is left fails the exit and the workflow is given back, so    *)
(* that a later exit can try again.                                         *)
QuitVerdict ==
  /\ quit = "verdict"
  /\ IF debts = {}
     THEN quit' = "done" /\ UNCHANGED <<preparing, active>>
     ELSE /\ quit' = "idle"
          /\ preparing' = IF preparing.id = NoSession THEN heldPreparing
                          ELSE preparing
          /\ active' = IF active.id = NoSession THEN heldActive ELSE active
  /\ heldPreparing' = NoPreparing
  /\ heldActive' = NoActive
  /\ UNCHANGED <<opsOpen, quitting, starting, debts, gate, slot, fences, audio,
                 timer, calls, retrying, refused>>

(* A successful exit ends the process. *)
Exited == quit = "done" /\ UNCHANGED vars

-----------------------------------------------------------------------------
(* Everything start does without waiting for a person. *)
StartStep(s) ==
  \/ StartReserve(s) \/ StartSettings(s) \/ StartRoute(s) \/ StartTarget(s)
  \/ StartSelection(s) \/ StartCue(s) \/ StartOpen(s) \/ StartPublish(s)
  \/ StartAbandon(s) \/ StartAbandonSettle(s) \/ StartDeadline(s)
  \/ StartAttach(s) \/ StartShow(s) \/ StartJoin(s) \/ StartTry(s)
  \/ StartUpdate(s) \/ StartActivate(s) \/ StartPreflight(s) \/ StartFail(s)
  \/ StartCancel(s) \/ StartCancelSettle(s) \/ StartRelease(s)
  \/ StartRemove(s) \/ StartReject(s) \/ StartLimit(s) \/ StartAwait(s)

FinishStep(s) ==
  \/ FinishAudio(s) \/ FinishUnusable(s) \/ FinishCheck(s) \/ FinishApply(s)
  \/ FinishRecognize(s) \/ FinishSubmit(s) \/ FinishBeginCleanup(s)
  \/ FinishClean(s) \/ FinishCleanSettle(s) \/ FinishRelease(s)
  \/ FinishCompleteCleanup(s) \/ FinishOutcome(s) \/ FinishFail(s)
  \/ FinishNoSpeech(s) \/ FinishProcess(s) \/ FinishDeliver(s)
  \/ FinishFinalize(s) \/ FinishComplete(s) \/ FinishSetProcessing(s)
  \/ FinishSetDelivering(s) \/ FinishSetFinalizing(s) \/ FinishLlmAnswer(s)
  \/ FinishBeginCommit(s) \/ FinishSkipCommit(s) \/ FinishEndCommit(s)
  \/ FinishDelivered(s) \/ FinishSaved(s) \/ FinishClear(s)

CleanerStep(s) ==
  \/ CleanerCapture(s) \/ CleanerArtifact(s) \/ CleanerSettle(s)
  \/ CleanerRelease(s) \/ CleanerClose(s) \/ CleanerCancelSession(s)
  \/ CleanerFailSession(s) \/ CleanerClear(s)

TimerStep(s) ==
  DeadlineElapses(s) \/ RecordingLimitElapsed(s) \/ DeadlineFinish(s)

QuitStep ==
  \/ QuitTake \/ QuitInvalidate \/ QuitFail \/ QuitStage \/ QuitAsrCancel
  \/ QuitCapture \/ QuitArtifact \/ QuitSettle \/ QuitDrainOps
  \/ QuitDrainCommits \/ QuitSnapshot \/ QuitRetried \/ QuitVerdict
  \/ \E s \in Sessions, resource \in Resources : QuitRetry(s, resource)

(* What the user and the shell ask for, and what only the outside answers. *)
Request(s) ==
  \/ StartEnter(s) \/ StartPrepare(s) \/ FinishRequest(s) \/ CancelRequest(s)
  \/ RetryRequest(s) \/ FinishAsrAnswer(s)

Next ==
  \/ \E s \in Sessions : \/ Request(s) \/ StartStep(s) \/ FinishStep(s)
                         \/ CleanerStep(s) \/ TimerStep(s)
  \/ QuitBegin
  \/ QuitStep
  \/ Exited

Spec == Init /\ [][Next]_vars

(***************************************************************************)
(* Every future is polled until it is done and every port answers, except: *)
(* the permission prompt waits for the user (StartPrepare) and a           *)
(* transcription that nobody has cancelled has no deadline                 *)
(* (UNBOUNDED_M0_DEADLINE_MS).  A cancelled one is answered within the     *)
(* supervisor's cancel timeout.  Nobody has to press a key or quit.        *)
(***************************************************************************)
CancelledAsrAnswers(s) == finish[s] = "asrCancelled" /\ FinishAsrAnswer(s)

Fairness ==
  /\ \A s \in Sessions : /\ WF_vars(StartStep(s))
                         /\ WF_vars(FinishStep(s))
                         /\ WF_vars(CancelledAsrAnswers(s))
                         /\ WF_vars(CleanerStep(s))
                         /\ WF_vars(TimerStep(s))
  /\ WF_vars(QuitStep)

-----------------------------------------------------------------------------
(* Properties *)

(* Who will close an open capture: the start call that opened it and has    *)
(* not published it, the workflow in the runtime, the exit that took the    *)
(* workflow over, or whoever retries a recorded debt.                       *)
CaptureHeld(s) ==
  \/ start[s] \in {"publish", "abandon", "abandonFailed"}
  \/ \E p \in {preparing, heldPreparing} :
       p.id = s /\ p.stage \in {"Capturing", "Cancelling"}
  \/ \E a \in {active, heldActive} :
       a.id = s /\ a.stage \in {"Recording", "FinishingAudio", "Cancelling"}
  \/ <<s, "capture">> \in debts

(* An open capture always has somebody who will close it, whichever early   *)
(* return start, finish_recording, a cancel or the exit has taken.          *)
CaptureOwned == \A s \in capture : CaptureHeld(s)

(* The same for the finalized recording on disk. *)
ArtifactHeld(s) ==
  \/ finish[s] \in {"finished", "apply", "recognize", "discard",
                    "discardFailed"}
  \/ \E a \in {active, heldActive} :
       /\ a.id = s
       /\ \/ a.stage = "Recognizing" /\ a.audio = "file"
          \/ a.stage = "CleaningAudio"
  \/ <<s, "artifact">> \in debts

(* What the README promises of every recording: it is deleted after its     *)
(* session, so somebody is always about to delete it.                       *)
ArtifactOwned == \A s \in artifact : ArtifactHeld(s)

(* It holds of every session whose events the domain has accepted; the rest *)
(* is the activation race of finish_recording with start.                   *)
ArtifactOwnedUnlessRefused ==
  \A s \in artifact : ArtifactHeld(s) \/ s \in refused

(* Single flight: never two sessions with audio or an irreversible write    *)
(* under way, whatever stages the calls of the older one are in.            *)
SingleFlight == \A s, t \in capture \cup artifact \cup commit : s = t

(* quit returns success only with the microphone closed, the recordings     *)
(* deleted, no write in flight and no call still running.                   *)
ExitIsClean ==
  quit = "done" =>
    /\ OpsQuiescent /\ debts = {}
    /\ capture = {} /\ commit = {} /\ artifact \subseteq refused

(* No two calls are ever in the same cancel or cleanup: the in_flight flag  *)
(* and the operation barrier keep start, finish, cancel, retry and quit     *)
(* apart (the comment in run_leader_quit).                                  *)
CapturesBeingCancelled(s) ==
  {c \in {"start", "cleaner", "quit"} :
     CASE c = "start" -> start[s] \in {"abandon", "cancel"}
       [] c = "cleaner" -> cleaner[s] = "capture"
       [] c = "quit" -> quit = "capture" /\ Subject = s}

ArtifactsBeingCleaned(s) ==
  {c \in {"finish", "cleaner", "quit"} :
     CASE c = "finish" -> finish[s] \in {"clean", "discard"}
       [] c = "cleaner" -> cleaner[s] = "artifact"
       [] c = "quit" -> quit = "artifact" /\ Subject = s}

CleanupExclusive ==
  \A s \in Sessions :
    /\ \A c, d \in CapturesBeingCancelled(s) : c = d
    /\ \A c, d \in ArtifactsBeingCleaned(s) : c = d

(* A set in_flight flag has a call behind it that will clear it or the      *)
(* workflow; otherwise every later cancel and retry would be turned away.   *)
StartCleans(s) ==
  start[s] \in {"cancel", "cancelled", "cancelFailed", "remove", "release"}
FinishCleans(s) ==
  finish[s] \in {"clean", "cleaned", "cleanFailed", "cleanedUp", "release"}

PreparationIsServed(s) ==
  preparing.id = s /\ preparing.cleanup = "inFlight" =>
    StartCleans(s) \/ cleaner[s] # "idle" \/ quitting
ActivityIsServed(s) ==
  active.id = s /\ active.cleanup = "inFlight" =>
    FinishCleans(s) \/ cleaner[s] # "idle" \/ quitting

InFlightIsServed ==
  \A s \in Sessions : PreparationIsServed(s) /\ ActivityIsServed(s)

(* The code breaks InFlightIsServed in one case, after which no call is     *)
(* left: the capture of a session just activated is gone, by its cancel or  *)
(* by a finish that found nothing recorded, but the session is preparing    *)
(* still (PreflightPassed follows the activation under a lock of its own),  *)
(* so CancelRecording is refused and the call returns with the flag set.    *)
CancelWasRefused(s) ==
  /\ s \in refused
  /\ active.stage = "Cancelling" /\ active.completion = "Cancelled"

InFlightIsServedUnlessRefused ==
  \A s \in Sessions :
    PreparationIsServed(s) /\ (ActivityIsServed(s) \/ CancelWasRefused(s))

(* Until the exit begins a debt is always one its session's cleanup retry   *)
(* can reach, so it can be paid without leaving the program.                *)
DebtIsRetryable ==
  ~quitting => \A s \in Sessions :
    /\ <<s, "capture">> \in debts =>
         \/ preparing.id = s /\ preparing.stage = "Cancelling"
         \/ active.id = s /\ active.stage = "Cancelling"
    /\ <<s, "artifact">> \in debts =>
         active.id = s /\ active.stage = "CleaningAudio"

(* The runtime's stage and the domain's phase agree, except inside the call *)
(* that is moving both.                                                     *)
PhasesOf(s) ==
  CASE active.stage \in {"Recording", "Cancelling"} -> {"Recording"}
    [] active.stage = "FinishingAudio" ->
         IF finish[s] = "recognize" THEN {"Recognizing"} ELSE {"Recording"}
    [] active.stage \in {"Recognizing", "CleaningAudio"} ->
         CASE finish[s] = "processing" -> {"Processing"}
           [] finish[s] = "delivering" -> {"Delivering"}
           [] OTHER -> {"Recognizing"}
    [] active.stage = "Processing" ->
         IF finish[s] = "delivering" THEN {"Delivering"} ELSE {"Processing"}
    [] active.stage = "Delivering" ->
         IF finish[s] = "finalizing" THEN {"Finalizing"} ELSE {"Delivering"}
    [] active.stage = "Finalizing" -> {"Finalizing"}

StageMatchesPhase ==
  ~quitting => \A s \in Sessions : active.id = s =>
    \/ slot.id = s /\ slot.phase \in PhasesOf(s)
    \/ slot.id = s /\ start[s] \in {"preflight", "preflightLimited"}
    \/ slot.id # s /\ "clear" \in {finish[s], cleaner[s]}

(* The bookkeeping of the one workflow is coherent: a cleanup under way has *)
(* its call, one that failed has a retry that reaches it, and the runtime's *)
(* stage and the session's phase tell the same story.  The exemption is the *)
(* one of CancelWasRefused, of the first part only: there the session is    *)
(* stuck in Cancelling with no call behind it until the exit (see the       *)
(* README's findings).                                                      *)
WorkflowIsCoherentUnlessRefused ==
  InFlightIsServedUnlessRefused /\ DebtIsRetryable /\ StageMatchesPhase

(* A session in the coordinator's slot is one the runtime or a running call *)
(* still knows, so that the slot is released in the end (the doc of         *)
(* retry_audio_cleanup: success closes the failed session).                 *)
SessionIsKnown ==
  slot.id # NoSession =>
    \/ slot.id \in {preparing.id, active.id, heldPreparing.id, heldActive.id}
    \/ start[slot.id] \notin {"idle", "done"}

(* No irreversible write begins once the exit has invalidated the session's *)
(* fence, the exit that failed and gave the workflow back included.         *)
NoCommitAfterInvalidation ==
  [][commit' \subseteq commit \/ ~quitting \/ quit = "invalidate"]_vars

(* A recording whose limit has elapsed is closed, in whichever stage of     *)
(* start, finish or cancel the deadline catches it, or is a known debt.     *)
LimitEnforced ==
  \A s \in Sessions :
    timer[s] = "elapsed" ~> (s \notin capture \/ <<s, "capture">> \in debts)
=============================================================================
