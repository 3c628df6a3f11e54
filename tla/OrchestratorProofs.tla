------------------------- MODULE OrchestratorProofs -------------------------
(***************************************************************************)
(* What TLAPS proves of the orchestrator, for every set of session ids:    *)
(* its types, the fence the exit puts in front of every commit, who owns   *)
(* the recording - and, for OrchestratorFlowProofs, where each of the      *)
(* orchestrator's calls stands against the workflow of the session, the    *)
(* ledger of what it owes, the coordinator's slot and what it has refused. *)
(***************************************************************************)
EXTENDS Orchestrator, TLAPS

-----------------------------------------------------------------------------
(* Type correctness *)

(* While the exit leader terminates a session there is one to terminate:    *)
(* what it records as a debt is a session's.                                *)
ExitHasSubject ==
  quit \in {"invalidate", "fail", "stage", "asrCancel", "capture",
            "captureGone", "captureKept", "artifact", "artifactGone",
            "artifactKept"}
  => Subject \in Sessions

TypeInv == TypeOK /\ ExitHasSubject

(* The coordinator's slot stays empty or an active session's. *)
LEMMA AppliedIsTyped ==
  ASSUME NEW sl \in Slots \cup {EmptySlot}, NEW s \in Sessions, NEW event
  PROVE  Applied(sl, s, event) \in Slots \cup {EmptySlot}
<1>. DEFINE next == Successor(sl.phase, event)
<1>1. next \in LivePhases \cup {"Terminated", "Refused"}
  BY DEF Successor, LivePhases
<1>2. CASE Answer(sl, s, event) # "Ok"
  BY <1>2 DEF Applied
<1>3. CASE Answer(sl, s, event) = "Ok" /\ next = "Terminated"
  BY <1>3 DEF Applied
<1>4. CASE Answer(sl, s, event) = "Ok" /\ next # "Terminated"
  <2>1. sl.id = s /\ next # "Refused"
    BY <1>4 DEF Answer
  <2>2. sl \in Slots /\ next \in LivePhases
    BY <1>1, <1>4, <2>1, NoSessionIsNotASession DEF EmptySlot
  <2>3. Applied(sl, s, event) = [sl EXCEPT !.phase = next]
    BY <1>4 DEF Applied
  <2>. QED
    BY <2>2, <2>3 DEF Slots
<1>. QED
  BY <1>2, <1>3, <1>4

(* What the workflow values are, field by field. *)
LEMMA PreparingValues ==
  ASSUME NEW w \in PreparingWorkflow
  PROVE  /\ Cancelling(w) \in PreparingWorkflow
         /\ Cancelling(w).id = w.id /\ Cancelling(w).stage = "Cancelling"
         /\ Disarmed(w) \in PreparingWorkflow
         /\ Disarmed(w).id = w.id /\ Disarmed(w).stage = w.stage
         /\ Disarmed(w).cleanup = w.cleanup
         /\ Disarmed(NoPreparing) = NoPreparing
<1>1. Cancelling(w) \in PreparingWorkflow
  BY DEF Cancelling, PreparingWorkflow, PreparingStages
<1>2. Disarmed(w) \in PreparingWorkflow
  BY DEF Disarmed, PreparingWorkflow
<1>3. /\ Cancelling(w).id = w.id /\ Cancelling(w).stage = "Cancelling"
      /\ Disarmed(w).id = w.id /\ Disarmed(w).stage = w.stage
      /\ Disarmed(w).cleanup = w.cleanup
  BY DEF Cancelling, Disarmed, PreparingWorkflow
<1>4. Disarmed(NoPreparing) = NoPreparing
  BY DEF Disarmed, NoPreparing
<1>. QED
  BY <1>1, <1>2, <1>3, <1>4

(* The workflow values finish, cancel and quit write are workflows. *)
LEMMA RecordingTyped ==
  ASSUME NEW s \in Sessions, NEW d \in {"none", "guard"}
  PROVE  Recording(s, d) \in ActiveWorkflow
  BY DEF Recording, NoActive, ActiveWorkflow, RuntimeStages

(* So is a recording that is being cancelled. *)
LEMMA CancellingAsTyped ==
  ASSUME NEW w \in ActiveWorkflow, NEW c \in {"Cancelled", "FailAudio"}
  PROVE  CancellingAs(w, c) \in ActiveWorkflow
  BY DEF CancellingAs, ActiveWorkflow, RuntimeStages

(* So is every other stage of an active workflow. *)
LEMMA ActiveValuesTyped ==
  ASSUME NEW w \in ActiveWorkflow
  PROVE  /\ Disarmed(w) \in ActiveWorkflow
         /\ FinishingAudio(w) \in ActiveWorkflow
         /\ Recognizing(w) \in ActiveWorkflow
         /\ CleaningAudio(w) \in ActiveWorkflow
         /\ CleanedUp(w) \in ActiveWorkflow
<1>1. Disarmed(w) \in ActiveWorkflow
  BY DEF Disarmed, ActiveWorkflow
<1>2. FinishingAudio(w) \in ActiveWorkflow
  BY DEF FinishingAudio, ActiveWorkflow, RuntimeStages
<1>3. Recognizing(w) \in ActiveWorkflow
  BY DEF Recognizing, ActiveWorkflow, RuntimeStages
<1>4. CleaningAudio(w) \in ActiveWorkflow
  BY DEF CleaningAudio, ActiveWorkflow, RuntimeStages
<1>5. CleanedUp(w) \in ActiveWorkflow
  BY DEF CleanedUp, ActiveWorkflow, RuntimeStages
<1>. QED
  BY <1>1, <1>2, <1>3, <1>4, <1>5

(* Which session, stage and audio a new recording has. *)
LEMMA RecordingValues ==
  ASSUME NEW s \in Sessions, NEW d \in {"none", "guard"}
  PROVE  /\ Recording(s, d).id = s /\ Recording(s, d).stage = "Recording"
         /\ Recording(s, d).audio = "none"
  BY DEF Recording, NoActive

(* A cancellation keeps the session and says what it is. *)
LEMMA CancellingAsValues ==
  ASSUME NEW w \in ActiveWorkflow, NEW c \in {"Cancelled", "FailAudio"}
  PROVE  /\ CancellingAs(w, c).id = w.id
         /\ CancellingAs(w, c).stage = "Cancelling"
  BY DEF CancellingAs, ActiveWorkflow

(* Which session, stage and audio the other stages have. *)
LEMMA ActiveValues ==
  ASSUME NEW w \in ActiveWorkflow
  PROVE  /\ Disarmed(w).id = w.id /\ Disarmed(w).stage = w.stage
         /\ Disarmed(w).cleanup = w.cleanup /\ Disarmed(w).audio = w.audio
       /\ Disarmed(w).completion = w.completion
         /\ FinishingAudio(w).id = w.id
         /\ FinishingAudio(w).stage = "FinishingAudio"
         /\ Recognizing(w).id = w.id /\ Recognizing(w).stage = "Recognizing"
         /\ Recognizing(w).audio = "file"
         /\ CleaningAudio(w).id = w.id
         /\ CleaningAudio(w).stage = "CleaningAudio"
         /\ CleanedUp(w).id = w.id /\ CleanedUp(w).stage = "Recognizing"
         /\ CleanedUp(w).audio = "none"
  BY DEF Disarmed, FinishingAudio, Recognizing, CleaningAudio, CleanedUp,
         ActiveWorkflow

(* A step of the user, the shell and the outside keeps every type. *)
LEMMA RequestKeepsType ==
  ASSUME TypeInv, NEW s \in Sessions, Request(s)
  PROVE  TypeInv'
<1>. USE NoSessionIsNotASession
         DEF TypeInv, TypeOK, ExitHasSubject, Subject, runtime, audio, fences,
             calls, quitLocals, StartSteps, FinishSteps, CleanerSteps,
             QuitSteps, Resources
<1>1. CASE StartEnter(s)
  BY <1>1 DEF StartEnter, GotoStart
<1>2. CASE StartPrepare(s)
  BY <1>2 DEF StartPrepare, NoPreparing, GotoStart, GiveUp, PreparingWorkflow,
        ActiveWorkflow, PreparingStages, RuntimeStages
<1>3. CASE FinishRequest(s)
  BY <1>3, ActiveValuesTyped DEF FinishRequest, TakeDeadline, CanFinish,
        FinishClaimed, DeadlineDropped, GotoFinish, NoActive,
        PreparingWorkflow, ActiveWorkflow, PreparingStages, RuntimeStages
<1>4. CASE CancelRequest(s)
  BY <1>4, PreparingValues, ActiveValuesTyped, CancellingAsTyped DEF
        CancelRequest, TakeDeadline, GotoCleaner, NoActive, DeadlineDropped,
        PreparingWorkflow, ActiveWorkflow, PreparingStages, RuntimeStages
<1>5. CASE RetryRequest(s)
  BY <1>5 DEF RetryRequest, Resources, GotoCleaner, PreparingWorkflow,
        ActiveWorkflow, PreparingStages, RuntimeStages
<1>6. CASE FinishAsrAnswer(s)
  BY <1>6 DEF FinishAsrAnswer, GotoFinish
<1>. HIDE DEF TypeInv
<1>. QED
  BY <1>1, <1>2, <1>3, <1>4, <1>5, <1>6 DEF Request

(* A step of start keeps every type. *)
LEMMA StartKeepsType ==
  ASSUME TypeInv, NEW s \in Sessions, StartStep(s)
  PROVE  TypeInv'
<1>. USE NoSessionIsNotASession
         DEF TypeInv, TypeOK, ExitHasSubject, Subject, runtime, audio, fences,
             calls, quitLocals, StartSteps, FinishSteps, CleanerSteps,
             QuitSteps, Resources
<1>1. CASE StartReserve(s)
  BY <1>1 DEF StartReserve, HasActiveSession, GotoStart
<1>2. CASE StartSettings(s)
  BY <1>2 DEF StartSettings, ReservedCall, StartReservationIsCurrent,
        GotoStart, GiveUp
<1>3. CASE StartRoute(s)
  BY <1>3 DEF StartRoute, StartReservationIsCurrent, GotoStart
<1>4. CASE StartTarget(s)
  BY <1>4 DEF StartTarget, ReservedCall, StartReservationIsCurrent, GotoStart,
        GiveUp
<1>5. CASE StartSelection(s)
  BY <1>5 DEF StartSelection, ReservedCall, StartReservationIsCurrent,
        GotoStart, GiveUp
<1>6. CASE StartCue(s)
  BY <1>6 DEF StartCue, IsCurrentPreparingStart, GotoStart
<1>7. CASE StartOpen(s)
  BY <1>7 DEF StartOpen, RemovePreparing, GotoStart, NoPreparing,
        TakeDeadline, DeadlineDropped, PreparingWorkflow, ActiveWorkflow,
        PreparingStages, RuntimeStages
<1>8. CASE StartPublish(s)
  BY <1>8 DEF StartPublish, IsCurrentPreparingStart, GotoStart,
        PreparingWorkflow, ActiveWorkflow, PreparingStages, RuntimeStages
<1>9. CASE StartAbandon(s)
  BY <1>9 DEF StartAbandon, Released, Kept, GotoStart
<1>10. CASE StartAbandonSettle(s)
  BY <1>10 DEF StartAbandonSettle, ClearDebt, RecordDebt, GotoStart
<1>11. CASE StartDeadline(s)
  BY <1>11, PreparingValues DEF StartDeadline, GotoStart, ClaimOrLeave,
        IsCurrentPreparingCapture, ClaimPreparingCapture, PreparingWorkflow,
        ActiveWorkflow, PreparingStages, RuntimeStages
<1>12. CASE StartAttach(s)
  BY <1>12 DEF StartAttach, IsCurrentPreparingCapture, DeadlineDropped,
        GotoStart, PreparingWorkflow, ActiveWorkflow, PreparingStages,
        RuntimeStages
<1>13. CASE StartShow(s)
  BY <1>13, PreparingValues DEF StartShow, IsCurrentPreparingCapture,
        GotoStart, ClaimOrLeave, ClaimPreparingCapture, PreparingWorkflow,
        ActiveWorkflow, PreparingStages, RuntimeStages
<1>14. CASE StartJoin(s)
  BY <1>14, PreparingValues DEF StartJoin, IsCurrentPreparingCapture,
        GotoStart, ClaimOrLeave, ClaimPreparingCapture, PreparingWorkflow,
        ActiveWorkflow, PreparingStages, RuntimeStages
<1>15. CASE StartTry(s)
  BY <1>15, PreparingValues DEF StartTry, GotoStart, ClaimOrLeave,
        IsCurrentPreparingCapture, ClaimPreparingCapture, PreparingWorkflow,
        ActiveWorkflow, PreparingStages, RuntimeStages, Occupied, Slots,
        LivePhases
<1>16. CASE StartUpdate(s)
  BY <1>16, PreparingValues DEF StartUpdate, IsCurrentPreparingCapture,
        ClaimPreparingCapture, GotoStart, PreparingWorkflow, ActiveWorkflow,
        PreparingStages, RuntimeStages
<1>17. CASE StartActivate(s)
  BY <1>17, RecordingTyped DEF StartActivate, NoPreparing,
        IsCurrentPreparingCapture, GotoStart, NoActive, PreparingWorkflow,
        ActiveWorkflow, PreparingStages, RuntimeStages
<1>18. CASE StartPreflight(s)
  BY <1>18, AppliedIsTyped DEF StartPreflight, Apply, GotoStart
<1>19. CASE StartFail(s)
  BY <1>19, AppliedIsTyped DEF StartFail, GotoStart
<1>20. CASE StartCancel(s)
  BY <1>20 DEF StartCancel, Released, Kept, GotoStart
<1>21. CASE StartCancelSettle(s)
  BY <1>21 DEF StartCancelSettle, ClearDebt, RecordDebt, GotoStart
<1>22. CASE StartRelease(s)
  BY <1>22 DEF StartRelease, ReleaseInFlight, GotoStart, PreparingWorkflow,
        ActiveWorkflow, PreparingStages, RuntimeStages
<1>23. CASE StartRemove(s)
  BY <1>23 DEF StartRemove, RemovePreparing, GotoStart, NoPreparing,
        TakeDeadline, DeadlineDropped, PreparingWorkflow, ActiveWorkflow,
        PreparingStages, RuntimeStages
<1>24. CASE StartReject(s)
  BY <1>24, AppliedIsTyped DEF StartReject, GotoStart
<1>25. CASE StartLimit(s)
  BY <1>25, ActiveValuesTyped DEF StartLimit, TakeDeadline, GotoStart,
        CanFinish, FinishClaimed, DeadlineDropped, GotoFinish, NoActive,
        PreparingWorkflow, ActiveWorkflow, PreparingStages, RuntimeStages
<1>26. CASE StartAwait(s)
  BY <1>26 DEF StartAwait, GotoStart
<1>. HIDE DEF TypeInv
<1>. QED
  BY <1>1, <1>2, <1>3, <1>4, <1>5, <1>6, <1>7, <1>8, <1>9, <1>10, <1>11, <1>12,
        <1>13, <1>14, <1>15, <1>16, <1>17, <1>18, <1>19, <1>20, <1>21, <1>22,
        <1>23, <1>24, <1>25, <1>26 DEF StartStep

(* A step of finish_recording keeps every type. *)
LEMMA FinishKeepsType ==
  ASSUME TypeInv, NEW s \in Sessions, FinishStep(s)
  PROVE  TypeInv'
<1>. USE NoSessionIsNotASession
         DEF TypeInv, TypeOK, ExitHasSubject, Subject, runtime, audio, fences,
             calls, quitLocals, StartSteps, FinishSteps, CleanerSteps,
             QuitSteps, Resources
<1>1. CASE FinishAudio(s)
  BY <1>1 DEF FinishAudio, GotoFinish
<1>2. CASE FinishUnusable(s)
  BY <1>2, CancellingAsTyped DEF FinishUnusable, IsCurrentStage, GotoFinish,
        GotoCleaner, PreparingWorkflow, ActiveWorkflow, PreparingStages,
        RuntimeStages
<1>3. CASE FinishCheck(s)
  BY <1>3 DEF FinishCheck, IsCurrentStage, GotoFinish, PreparingWorkflow,
        ActiveWorkflow, PreparingStages, RuntimeStages
<1>4. CASE FinishApply(s)
  BY <1>4, AppliedIsTyped DEF FinishApply, ApplyOr, Apply, GotoFinish
<1>5. CASE FinishRecognize(s)
  BY <1>5, ActiveValuesTyped DEF FinishRecognize, RuntimeStages,
        IsCurrentStage, GotoFinish, NoActive, PreparingWorkflow,
        ActiveWorkflow, PreparingStages, RuntimeStages
<1>6. CASE FinishSubmit(s)
  BY <1>6 DEF FinishSubmit, GotoFinish
<1>7. CASE FinishBeginCleanup(s)
  BY <1>7, ActiveValuesTyped DEF FinishBeginCleanup, IsCurrentStage,
        GotoFinish, PreparingWorkflow, ActiveWorkflow, PreparingStages,
        RuntimeStages
<1>8. CASE FinishClean(s)
  BY <1>8 DEF FinishClean, Released, Kept, GotoFinish
<1>9. CASE FinishCleanSettle(s)
  BY <1>9 DEF FinishCleanSettle, ClearDebt, RecordDebt, GotoFinish
<1>10. CASE FinishRelease(s)
  BY <1>10 DEF FinishRelease, ReleaseInFlight, GotoFinish, PreparingWorkflow,
        ActiveWorkflow, PreparingStages, RuntimeStages
<1>11. CASE FinishCompleteCleanup(s)
  BY <1>11, ActiveValuesTyped DEF FinishCompleteCleanup, IsCurrentStage,
        GotoFinish, PreparingWorkflow, ActiveWorkflow, PreparingStages,
        RuntimeStages
<1>12. CASE FinishOutcome(s)
  BY <1>12 DEF FinishOutcome, IsCurrentStage, GotoFinish, PreparingWorkflow,
        ActiveWorkflow, PreparingStages, RuntimeStages
<1>13. CASE FinishFail(s)
  BY <1>13, AppliedIsTyped DEF FinishFail, GotoFinish
<1>14. CASE FinishNoSpeech(s)
  BY <1>14, AppliedIsTyped DEF FinishNoSpeech, FinishApplies, ApplyOr, Apply,
        GotoFinish
<1>15. CASE FinishProcess(s)
  BY <1>15, AppliedIsTyped DEF FinishProcess, FinishApplies, ApplyOr, Apply,
        GotoFinish
<1>16. CASE FinishDeliver(s)
  BY <1>16, AppliedIsTyped DEF FinishDeliver, FinishApplies, ApplyOr, Apply,
        GotoFinish
<1>17. CASE FinishFinalize(s)
  BY <1>17, AppliedIsTyped DEF FinishFinalize, FinishApplies, ApplyOr, Apply,
        GotoFinish
<1>18. CASE FinishComplete(s)
  BY <1>18, AppliedIsTyped DEF FinishComplete, FinishApplies, ApplyOr, Apply,
        GotoFinish
<1>19. CASE FinishSetProcessing(s)
  BY <1>19 DEF FinishSetProcessing, FinishSetStage, RuntimeStages,
        IsCurrentStage, SetStage, GotoFinish, NoActive, PreparingWorkflow,
        ActiveWorkflow, PreparingStages, RuntimeStages
<1>20. CASE FinishSetDelivering(s)
  BY <1>20 DEF FinishSetDelivering, FinishSetStage, RuntimeStages,
        IsCurrentStage, SetStage, GotoFinish, NoActive, PreparingWorkflow,
        ActiveWorkflow, PreparingStages, RuntimeStages
<1>21. CASE FinishSetFinalizing(s)
  BY <1>21 DEF FinishSetFinalizing, FinishSetStage, RuntimeStages,
        IsCurrentStage, SetStage, GotoFinish, NoActive, PreparingWorkflow,
        ActiveWorkflow, PreparingStages, RuntimeStages
<1>22. CASE FinishLlmAnswer(s)
  BY <1>22 DEF FinishLlmAnswer, IsCurrentStage, GotoFinish
<1>23. CASE FinishBeginCommit(s)
  BY <1>23 DEF FinishBeginCommit, BeginCommit, GotoFinish
<1>24. CASE FinishSkipCommit(s)
  BY <1>24 DEF FinishSkipCommit, GotoFinish
<1>25. CASE FinishEndCommit(s)
  BY <1>25 DEF FinishEndCommit, EndCommit, GotoFinish
<1>26. CASE FinishDelivered(s)
  BY <1>26 DEF FinishDelivered, IsCurrentStage, GotoFinish
<1>27. CASE FinishSaved(s)
  BY <1>27 DEF FinishSaved, IsCurrentStage, GotoFinish
<1>28. CASE FinishClear(s)
  BY <1>28 DEF FinishClear, ClearActive, GotoFinish, NoActive, TakeDeadline,
        DeadlineDropped, PreparingWorkflow, ActiveWorkflow, PreparingStages,
        RuntimeStages
<1>. HIDE DEF TypeInv
<1>. QED
  BY <1>1, <1>2, <1>3, <1>4, <1>5, <1>6, <1>7, <1>8, <1>9, <1>10, <1>11, <1>12,
        <1>13, <1>14, <1>15, <1>16, <1>17, <1>18, <1>19, <1>20, <1>21, <1>22,
        <1>23, <1>24, <1>25, <1>26, <1>27, <1>28 DEF FinishStep

(* A step of cancel_recording and retry_audio_cleanup keeps every type. *)
LEMMA CleanerKeepsType ==
  ASSUME TypeInv, NEW s \in Sessions, CleanerStep(s)
  PROVE  TypeInv'
<1>. USE NoSessionIsNotASession
         DEF TypeInv, TypeOK, ExitHasSubject, Subject, runtime, audio, fences,
             calls, quitLocals, StartSteps, FinishSteps, CleanerSteps,
             QuitSteps, Resources
<1>1. CASE CleanerCapture(s)
  BY <1>1 DEF CleanerCapture, Released, Kept, GotoCleaner
<1>2. CASE CleanerArtifact(s)
  BY <1>2 DEF CleanerArtifact, Released, Kept, GotoCleaner
<1>3. CASE CleanerSettle(s)
  BY <1>3 DEF CleanerSettle, ClearDebt, RecordDebt, GotoCleaner
<1>4. CASE CleanerRelease(s)
  BY <1>4 DEF CleanerRelease, ReleaseInFlight, GotoCleaner, PreparingWorkflow,
        ActiveWorkflow, PreparingStages, RuntimeStages
<1>5. CASE CleanerClose(s)
  BY <1>5 DEF CleanerClose, IsCurrentStage, RemovePreparing, GotoCleaner,
        NoPreparing, TakeDeadline, DeadlineDropped, PreparingWorkflow,
        ActiveWorkflow, PreparingStages, RuntimeStages
<1>6. CASE CleanerCancelSession(s)
  BY <1>6, AppliedIsTyped DEF CleanerCancelSession, Apply, GotoCleaner
<1>7. CASE CleanerFailSession(s)
  BY <1>7, AppliedIsTyped DEF CleanerFailSession, GotoCleaner
<1>8. CASE CleanerClear(s)
  BY <1>8 DEF CleanerClear, ClearActive, GotoCleaner, NoActive, TakeDeadline,
        DeadlineDropped, PreparingWorkflow, ActiveWorkflow, PreparingStages,
        RuntimeStages
<1>. HIDE DEF TypeInv
<1>. QED
  BY <1>1, <1>2, <1>3, <1>4, <1>5, <1>6, <1>7, <1>8 DEF CleanerStep

(* A step of the recording deadline keeps every type. *)
LEMMA TimerKeepsType ==
  ASSUME TypeInv, NEW s \in Sessions, TimerStep(s)
  PROVE  TypeInv'
<1>. USE NoSessionIsNotASession
         DEF TypeInv, TypeOK, ExitHasSubject, Subject, runtime, audio, fences,
             calls, quitLocals, StartSteps, FinishSteps, CleanerSteps,
             QuitSteps, Resources
<1>1. CASE DeadlineElapses(s)
  BY <1>1 DEF DeadlineElapses
<1>2. CASE RecordingLimitElapsed(s)
  BY <1>2 DEF RecordingLimitElapsed, RememberLimit, NoActive,
        PreparingWorkflow, ActiveWorkflow, PreparingStages, RuntimeStages
<1>3. CASE DeadlineFinish(s)
  BY <1>3, ActiveValuesTyped DEF DeadlineFinish, CanFinish, FinishClaimed,
        GotoFinish, NoActive, PreparingWorkflow, ActiveWorkflow,
        PreparingStages, RuntimeStages
<1>. HIDE DEF TypeInv
<1>. QED
  BY <1>1, <1>2, <1>3 DEF TimerStep

(* A step of the exit leader keeps every type. *)
LEMMA QuitKeepsType ==
  ASSUME TypeInv, QuitStep
  PROVE  TypeInv'
<1>. USE NoSessionIsNotASession
         DEF TypeInv, TypeOK, ExitHasSubject, Subject, runtime, audio, fences,
             calls, quitLocals, StartSteps, FinishSteps, CleanerSteps,
             QuitSteps, Resources
<1>1. CASE QuitTake
  <2>1. heldPreparing' \in PreparingWorkflow /\ heldActive' \in ActiveWorkflow
    BY <1>1, PreparingValues, ActiveValuesTyped DEF QuitTake
  <2>2. heldPreparing'.id = preparing.id /\ heldActive'.id = active.id
    BY <1>1, PreparingValues, ActiveValues DEF QuitTake
  <2>3. preparing' \in PreparingWorkflow /\ active' \in ActiveWorkflow
    BY <1>1 DEF QuitTake, NoPreparing, NoActive, PreparingWorkflow,
                ActiveWorkflow, PreparingStages, RuntimeStages
  <2>4. timer' \in [Sessions -> {"off", "armed", "elapsed", "finishing"}]
    BY <1>1 DEF QuitTake, DeadlineDropped
  <2>5. ExitHasSubject'
    BY <1>1, <2>2 DEF QuitTake, PreparingWorkflow, ActiveWorkflow
  <2>. QED
    BY <1>1, <2>1, <2>3, <2>4, <2>5 DEF QuitTake
<1>2. CASE QuitInvalidate
  BY <1>2 DEF QuitInvalidate
<1>3. CASE QuitFail
  BY <1>3, AppliedIsTyped DEF QuitFail
<1>4. CASE QuitStage
  BY <1>4 DEF QuitStage, HoldsCapture, NoActive, PreparingWorkflow,
        ActiveWorkflow, PreparingStages, RuntimeStages
<1>5. CASE QuitAsrCancel
  BY <1>5 DEF QuitAsrCancel
<1>6. CASE QuitCapture
  BY <1>6 DEF QuitCapture, Released, Kept
<1>7. CASE QuitArtifact
  BY <1>7 DEF QuitArtifact, Released, Kept
<1>8. CASE QuitSettle
  BY <1>8 DEF QuitSettle, ClearDebt, RecordDebt
<1>9. CASE QuitDrainOps
  BY <1>9 DEF QuitDrainOps, OpsQuiescent
<1>10. CASE QuitDrainCommits
  BY <1>10 DEF QuitDrainCommits
<1>11. CASE QuitSnapshot
  BY <1>11 DEF QuitSnapshot
<1>12. CASE QuitRetried
  BY <1>12 DEF QuitRetried
<1>13. CASE QuitVerdict
  BY <1>13 DEF QuitVerdict, NoPreparing, NoActive, PreparingWorkflow,
        ActiveWorkflow, PreparingStages, RuntimeStages
<1>14. ASSUME NEW s \in Sessions, NEW resource \in Resources,
             QuitRetry(s, resource)
      PROVE  TypeInv'
  BY <1>14 DEF QuitRetry, Released, Kept, ClearDebt, RecordDebt
<1>. HIDE DEF TypeInv
<1>. QED
  BY <1>1, <1>2, <1>3, <1>4, <1>5, <1>6, <1>7, <1>8, <1>9, <1>10, <1>11, <1>12,
        <1>13, <1>14 DEF QuitStep

(* The exit leader closing the operation barrier keeps every type. *)
LEMMA QuitBeginKeepsType ==
  ASSUME TypeInv, QuitBegin
  PROVE  TypeInv'
  BY DEF QuitBegin, TypeInv, TypeOK, ExitHasSubject, Subject, runtime, audio,
         fences, calls, quitLocals, QuitSteps

(* A step that changes nothing keeps every type. *)
LEMMA StutteringKeepsType ==
  ASSUME TypeInv, UNCHANGED vars
  PROVE  TypeInv'
  BY DEF vars, TypeInv, TypeOK, ExitHasSubject, Subject, runtime, audio,
         fences, calls, quitLocals

(* Every step keeps TypeInv: one case per disjunct of Next. *)
LEMMA TypeInvInductive ==
  /\ Init => TypeInv
  /\ TypeInv /\ [Next]_vars => TypeInv'
<1>1. Init => TypeInv
  <2>1. NoPreparing \in PreparingWorkflow /\ NoActive \in ActiveWorkflow
    BY DEF NoPreparing, NoActive, PreparingWorkflow, ActiveWorkflow,
           PreparingStages, RuntimeStages
  <2>. QED
    BY <2>1 DEF Init, TypeInv, TypeOK, ExitHasSubject, StartSteps, FinishSteps,
                CleanerSteps, QuitSteps
<1>2. TypeInv /\ [Next]_vars => TypeInv'
  BY RequestKeepsType, StartKeepsType, FinishKeepsType, CleanerKeepsType,
     TimerKeepsType, QuitBeginKeepsType, QuitKeepsType, StutteringKeepsType
     DEF Next, Exited
<1>. QED
  BY <1>1, <1>2

(* Every variable keeps to its type: no stage, step or debt outside the     *)
(* ones the code names, no cleanup debt of a session that never was.        *)
THEOREM TypeCorrect == Spec => []TypeOK
<1>1. TypeInv => TypeOK
  BY DEF TypeInv
<1>. QED
  BY <1>1, TypeInvInductive, PTL DEF Spec

-----------------------------------------------------------------------------
(* The exit's fence *)

(* Where the reservation, the preparation and the recording can be: one of  *)
(* them at a time, none of them in the runtime once the exit has taken      *)
(* over, and a fence open only for the session that is there.               *)
ExitInv ==
  /\ starting # NoSession =>
       ~quitting /\ preparing.id = NoSession /\ active.id = NoSession
  /\ preparing.id = NoSession \/ active.id = NoSession
  /\ heldPreparing.id = NoSession \/ heldActive.id = NoSession
  /\ quit \in {"idle", "take", "done"} =>
       heldPreparing.id = NoSession /\ heldActive.id = NoSession
  /\ quit \notin {"idle", "take"} =>
       quitting /\ preparing.id = NoSession /\ active.id = NoSession
  /\ \A s \in fence : \/ ~quitting /\ s \in {preparing.id, active.id}
                      \/ quit = "invalidate" /\ s = Subject

(* A step of the user, the shell and the outside keeps ExitInv. *)
LEMMA RequestKeepsExitInv ==
  ASSUME TypeInv, ExitInv, NEW s \in Sessions, Request(s)
  PROVE  ExitInv'
<1>. USE NoSessionIsNotASession
         DEF TypeInv, TypeOK, ExitInv, Subject, runtime, audio, fences, calls,
             quitLocals
<1>1. CASE StartEnter(s)
  BY <1>1 DEF StartEnter
<1>2. CASE StartPrepare(s)
  BY <1>2 DEF StartPrepare, NoPreparing, GiveUp, PreparingWorkflow,
        ActiveWorkflow
<1>3. CASE FinishRequest(s)
  BY <1>3, ActiveValues DEF FinishRequest, CanFinish, FinishClaimed,
        PreparingWorkflow, ActiveWorkflow
<1>4. CASE CancelRequest(s)
  <2>1. preparing'.id = preparing.id
    BY <1>4, PreparingValues DEF CancelRequest, PreparingWorkflow
  <2>2. CancellingAs(Disarmed(active), "Cancelled").id = active.id
    BY ActiveValues, ActiveValuesTyped, CancellingAsValues
  <2>3. active'.id = active.id
    BY <1>4, <2>2 DEF CancelRequest, ActiveWorkflow
  <2>. QED
    BY <1>4, <2>1, <2>3 DEF CancelRequest
<1>5. CASE RetryRequest(s)
  BY <1>5 DEF RetryRequest, Resources, PreparingWorkflow, ActiveWorkflow
<1>6. CASE FinishAsrAnswer(s)
  BY <1>6 DEF FinishAsrAnswer
<1>. HIDE DEF ExitInv
<1>. QED
  BY <1>1, <1>2, <1>3, <1>4, <1>5, <1>6 DEF Request

(* A step of start keeps ExitInv. *)
LEMMA StartKeepsExitInv ==
  ASSUME TypeInv, ExitInv, NEW s \in Sessions, StartStep(s)
  PROVE  ExitInv'
<1>. USE NoSessionIsNotASession
         DEF TypeInv, TypeOK, ExitInv, Subject, runtime, audio, fences, calls,
             quitLocals
<1>1. CASE StartReserve(s)
  BY <1>1 DEF StartReserve, HasActiveSession
<1>2. CASE StartSettings(s)
  BY <1>2 DEF StartSettings, ReservedCall, StartReservationIsCurrent, GiveUp
<1>3. CASE StartRoute(s)
  BY <1>3 DEF StartRoute, StartReservationIsCurrent
<1>4. CASE StartTarget(s)
  BY <1>4 DEF StartTarget, ReservedCall, StartReservationIsCurrent, GiveUp
<1>5. CASE StartSelection(s)
  BY <1>5 DEF StartSelection, ReservedCall, StartReservationIsCurrent, GiveUp
<1>6. CASE StartCue(s)
  BY <1>6 DEF StartCue, IsCurrentPreparingStart
<1>7. CASE StartOpen(s)
  BY <1>7 DEF StartOpen, RemovePreparing, NoPreparing, PreparingWorkflow,
        ActiveWorkflow
<1>8. CASE StartPublish(s)
  BY <1>8 DEF StartPublish, IsCurrentPreparingStart, PreparingWorkflow,
        ActiveWorkflow
<1>9. CASE StartAbandon(s)
  BY <1>9 DEF StartAbandon
<1>10. CASE StartAbandonSettle(s)
  BY <1>10 DEF StartAbandonSettle
<1>11. CASE StartDeadline(s)
  BY <1>11, PreparingValues DEF StartDeadline, ClaimOrLeave,
        IsCurrentPreparingCapture, ClaimPreparingCapture, PreparingWorkflow,
        ActiveWorkflow
<1>12. CASE StartAttach(s)
  BY <1>12 DEF StartAttach, IsCurrentPreparingCapture, PreparingWorkflow,
        ActiveWorkflow
<1>13. CASE StartShow(s)
  BY <1>13, PreparingValues DEF StartShow, IsCurrentPreparingCapture,
        ClaimOrLeave, ClaimPreparingCapture, PreparingWorkflow, ActiveWorkflow
<1>14. CASE StartJoin(s)
  BY <1>14, PreparingValues DEF StartJoin, IsCurrentPreparingCapture,
        ClaimOrLeave, ClaimPreparingCapture, PreparingWorkflow, ActiveWorkflow
<1>15. CASE StartTry(s)
  BY <1>15, PreparingValues DEF StartTry, ClaimOrLeave,
        IsCurrentPreparingCapture, ClaimPreparingCapture, PreparingWorkflow,
        ActiveWorkflow
<1>16. CASE StartUpdate(s)
  BY <1>16, PreparingValues DEF StartUpdate, IsCurrentPreparingCapture,
        ClaimPreparingCapture, PreparingWorkflow, ActiveWorkflow
<1>17. CASE StartActivate(s)
  BY <1>17, RecordingValues DEF StartActivate, NoPreparing,
        IsCurrentPreparingCapture, PreparingWorkflow, ActiveWorkflow
<1>18. CASE StartPreflight(s)
  BY <1>18 DEF StartPreflight
<1>19. CASE StartFail(s)
  BY <1>19 DEF StartFail
<1>20. CASE StartCancel(s)
  BY <1>20 DEF StartCancel
<1>21. CASE StartCancelSettle(s)
  BY <1>21 DEF StartCancelSettle
<1>22. CASE StartRelease(s)
  BY <1>22 DEF StartRelease, ReleaseInFlight, PreparingWorkflow,
        ActiveWorkflow
<1>23. CASE StartRemove(s)
  BY <1>23 DEF StartRemove, RemovePreparing, NoPreparing, PreparingWorkflow,
        ActiveWorkflow
<1>24. CASE StartReject(s)
  BY <1>24 DEF StartReject
<1>25. CASE StartLimit(s)
  BY <1>25, ActiveValues DEF StartLimit, CanFinish, FinishClaimed,
        PreparingWorkflow, ActiveWorkflow
<1>26. CASE StartAwait(s)
  BY <1>26 DEF StartAwait
<1>. HIDE DEF ExitInv
<1>. QED
  BY <1>1, <1>2, <1>3, <1>4, <1>5, <1>6, <1>7, <1>8, <1>9, <1>10, <1>11, <1>12,
        <1>13, <1>14, <1>15, <1>16, <1>17, <1>18, <1>19, <1>20, <1>21, <1>22,
        <1>23, <1>24, <1>25, <1>26 DEF StartStep

(* A step of finish_recording keeps ExitInv. *)
LEMMA FinishKeepsExitInv ==
  ASSUME TypeInv, ExitInv, NEW s \in Sessions, FinishStep(s)
  PROVE  ExitInv'
<1>. USE NoSessionIsNotASession
         DEF TypeInv, TypeOK, ExitInv, Subject, runtime, audio, fences, calls,
             quitLocals
<1>1. CASE FinishAudio(s)
  BY <1>1 DEF FinishAudio
<1>2. CASE FinishUnusable(s)
  BY <1>2, CancellingAsValues DEF FinishUnusable, IsCurrentStage,
        PreparingWorkflow, ActiveWorkflow
<1>3. CASE FinishCheck(s)
  BY <1>3 DEF FinishCheck, IsCurrentStage, PreparingWorkflow, ActiveWorkflow
<1>4. CASE FinishApply(s)
  BY <1>4 DEF FinishApply
<1>5. CASE FinishRecognize(s)
  BY <1>5, ActiveValues DEF FinishRecognize, RuntimeStages, IsCurrentStage,
        PreparingWorkflow, ActiveWorkflow
<1>6. CASE FinishSubmit(s)
  BY <1>6 DEF FinishSubmit
<1>7. CASE FinishBeginCleanup(s)
  BY <1>7, ActiveValues DEF FinishBeginCleanup, IsCurrentStage,
        PreparingWorkflow, ActiveWorkflow
<1>8. CASE FinishClean(s)
  BY <1>8 DEF FinishClean
<1>9. CASE FinishCleanSettle(s)
  BY <1>9 DEF FinishCleanSettle
<1>10. CASE FinishRelease(s)
  BY <1>10 DEF FinishRelease, ReleaseInFlight, PreparingWorkflow,
        ActiveWorkflow
<1>11. CASE FinishCompleteCleanup(s)
  BY <1>11, ActiveValues DEF FinishCompleteCleanup, IsCurrentStage,
        PreparingWorkflow, ActiveWorkflow
<1>12. CASE FinishOutcome(s)
  BY <1>12 DEF FinishOutcome, IsCurrentStage, PreparingWorkflow,
        ActiveWorkflow
<1>13. CASE FinishFail(s)
  BY <1>13 DEF FinishFail
<1>14. CASE FinishNoSpeech(s)
  BY <1>14 DEF FinishNoSpeech, FinishApplies
<1>15. CASE FinishProcess(s)
  BY <1>15 DEF FinishProcess, FinishApplies
<1>16. CASE FinishDeliver(s)
  BY <1>16 DEF FinishDeliver, FinishApplies
<1>17. CASE FinishFinalize(s)
  BY <1>17 DEF FinishFinalize, FinishApplies
<1>18. CASE FinishComplete(s)
  BY <1>18 DEF FinishComplete, FinishApplies
<1>19. CASE FinishSetProcessing(s)
  BY <1>19 DEF FinishSetProcessing, FinishSetStage, RuntimeStages,
        IsCurrentStage, SetStage, PreparingWorkflow, ActiveWorkflow
<1>20. CASE FinishSetDelivering(s)
  BY <1>20 DEF FinishSetDelivering, FinishSetStage, RuntimeStages,
        IsCurrentStage, SetStage, PreparingWorkflow, ActiveWorkflow
<1>21. CASE FinishSetFinalizing(s)
  BY <1>21 DEF FinishSetFinalizing, FinishSetStage, RuntimeStages,
        IsCurrentStage, SetStage, PreparingWorkflow, ActiveWorkflow
<1>22. CASE FinishLlmAnswer(s)
  BY <1>22 DEF FinishLlmAnswer, IsCurrentStage
<1>23. CASE FinishBeginCommit(s)
  BY <1>23 DEF FinishBeginCommit, BeginCommit
<1>24. CASE FinishSkipCommit(s)
  BY <1>24 DEF FinishSkipCommit
<1>25. CASE FinishEndCommit(s)
  BY <1>25 DEF FinishEndCommit, EndCommit
<1>26. CASE FinishDelivered(s)
  BY <1>26 DEF FinishDelivered, IsCurrentStage
<1>27. CASE FinishSaved(s)
  BY <1>27 DEF FinishSaved, IsCurrentStage
<1>28. CASE FinishClear(s)
  BY <1>28 DEF FinishClear, ClearActive, NoActive, PreparingWorkflow,
        ActiveWorkflow
<1>. HIDE DEF ExitInv
<1>. QED
  BY <1>1, <1>2, <1>3, <1>4, <1>5, <1>6, <1>7, <1>8, <1>9, <1>10, <1>11, <1>12,
        <1>13, <1>14, <1>15, <1>16, <1>17, <1>18, <1>19, <1>20, <1>21, <1>22,
        <1>23, <1>24, <1>25, <1>26, <1>27, <1>28 DEF FinishStep

(* A step of cancel_recording and retry_audio_cleanup keeps ExitInv. *)
LEMMA CleanerKeepsExitInv ==
  ASSUME TypeInv, ExitInv, NEW s \in Sessions, CleanerStep(s)
  PROVE  ExitInv'
<1>. USE NoSessionIsNotASession
         DEF TypeInv, TypeOK, ExitInv, Subject, runtime, audio, fences, calls,
             quitLocals
<1>1. CASE CleanerCapture(s)
  BY <1>1 DEF CleanerCapture
<1>2. CASE CleanerArtifact(s)
  BY <1>2 DEF CleanerArtifact
<1>3. CASE CleanerSettle(s)
  BY <1>3 DEF CleanerSettle
<1>4. CASE CleanerRelease(s)
  BY <1>4 DEF CleanerRelease, ReleaseInFlight, PreparingWorkflow,
        ActiveWorkflow
<1>5. CASE CleanerClose(s)
  BY <1>5 DEF CleanerClose, IsCurrentStage, RemovePreparing, NoPreparing,
        PreparingWorkflow, ActiveWorkflow
<1>6. CASE CleanerCancelSession(s)
  BY <1>6 DEF CleanerCancelSession
<1>7. CASE CleanerFailSession(s)
  BY <1>7 DEF CleanerFailSession
<1>8. CASE CleanerClear(s)
  BY <1>8 DEF CleanerClear, ClearActive, NoActive, PreparingWorkflow,
        ActiveWorkflow
<1>. HIDE DEF ExitInv
<1>. QED
  BY <1>1, <1>2, <1>3, <1>4, <1>5, <1>6, <1>7, <1>8 DEF CleanerStep

(* A step of the recording deadline keeps ExitInv. *)
LEMMA TimerKeepsExitInv ==
  ASSUME TypeInv, ExitInv, NEW s \in Sessions, TimerStep(s)
  PROVE  ExitInv'
<1>. USE NoSessionIsNotASession
         DEF TypeInv, TypeOK, ExitInv, Subject, runtime, audio, fences, calls,
             quitLocals
<1>1. CASE DeadlineElapses(s)
  BY <1>1 DEF DeadlineElapses
<1>2. CASE RecordingLimitElapsed(s)
  BY <1>2 DEF RecordingLimitElapsed, RememberLimit, PreparingWorkflow,
        ActiveWorkflow
<1>3. CASE DeadlineFinish(s)
  BY <1>3, ActiveValues DEF DeadlineFinish, CanFinish, FinishClaimed,
        PreparingWorkflow, ActiveWorkflow
<1>. HIDE DEF ExitInv
<1>. QED
  BY <1>1, <1>2, <1>3 DEF TimerStep

(* A step of the exit leader keeps ExitInv. *)
LEMMA QuitKeepsExitInv ==
  ASSUME TypeInv, ExitInv, QuitStep
  PROVE  ExitInv'
<1>. USE NoSessionIsNotASession
         DEF TypeInv, TypeOK, ExitInv, Subject, runtime, audio, fences, calls,
             quitLocals
<1>1. CASE QuitTake
  BY <1>1, PreparingValues, ActiveValues DEF QuitTake, NoPreparing, NoActive,
        PreparingWorkflow, ActiveWorkflow
<1>2. CASE QuitInvalidate
  BY <1>2 DEF QuitInvalidate, Subject
<1>3. CASE QuitFail
  BY <1>3 DEF QuitFail, Subject
<1>4. CASE QuitStage
  BY <1>4 DEF QuitStage, HoldsCapture, PreparingWorkflow, ActiveWorkflow
<1>5. CASE QuitAsrCancel
  BY <1>5 DEF QuitAsrCancel, Subject
<1>6. CASE QuitCapture
  BY <1>6 DEF QuitCapture, Subject
<1>7. CASE QuitArtifact
  BY <1>7 DEF QuitArtifact, Subject
<1>8. CASE QuitSettle
  BY <1>8 DEF QuitSettle, Subject
<1>9. CASE QuitDrainOps
  BY <1>9 DEF QuitDrainOps, OpsQuiescent
<1>10. CASE QuitDrainCommits
  BY <1>10 DEF QuitDrainCommits, Subject
<1>11. CASE QuitSnapshot
  BY <1>11 DEF QuitSnapshot
<1>12. CASE QuitRetried
  BY <1>12 DEF QuitRetried
<1>13. CASE QuitVerdict
  BY <1>13 DEF QuitVerdict, NoPreparing, NoActive, PreparingWorkflow,
        ActiveWorkflow
<1>14. ASSUME NEW s \in Sessions, NEW resource \in Resources,
             QuitRetry(s, resource)
      PROVE  ExitInv'
  BY <1>14 DEF QuitRetry
<1>. HIDE DEF ExitInv
<1>. QED
  BY <1>1, <1>2, <1>3, <1>4, <1>5, <1>6, <1>7, <1>8, <1>9, <1>10, <1>11, <1>12,
        <1>13, <1>14 DEF QuitStep

(* The exit leader closing the operation barrier keeps ExitInv. *)
LEMMA QuitBeginKeepsExitInv ==
  ASSUME TypeInv, ExitInv, QuitBegin
  PROVE  ExitInv'
  BY DEF QuitBegin, ExitInv, Subject, runtime, fences

(* A step that changes nothing keeps ExitInv. *)
LEMMA StutteringKeepsExitInv ==
  ASSUME ExitInv, UNCHANGED vars
  PROVE  ExitInv'
  BY DEF vars, ExitInv, Subject, runtime, fences, quitLocals

(* Every step keeps ExitInv: one case per disjunct of Next. *)
LEMMA ExitInvInductive ==
  /\ Init => ExitInv
  /\ TypeInv /\ ExitInv /\ [Next]_vars => ExitInv'
<1>1. Init => ExitInv
  BY DEF Init, ExitInv, NoPreparing, NoActive
<1>2. TypeInv /\ ExitInv /\ [Next]_vars => ExitInv'
  BY RequestKeepsExitInv, StartKeepsExitInv, FinishKeepsExitInv,
     CleanerKeepsExitInv, TimerKeepsExitInv, QuitBeginKeepsExitInv,
     QuitKeepsExitInv, StutteringKeepsExitInv
     DEF Next, Exited
<1>. QED
  BY <1>1, <1>2

(* No call but an adapter's begin_commit adds a commit guard, and that only *)
(* while the session's fence is open.                                       *)
LEMMA CommitNeedsFence ==
  ASSUME Next
  PROVE  commit' \subseteq commit \cup fence
<1>1. ASSUME NEW s \in Sessions, Request(s) PROVE commit' = commit
  BY <1>1 DEF Request, StartEnter, StartPrepare, FinishRequest, CancelRequest,
        RetryRequest, FinishAsrAnswer, fences
<1>2. ASSUME NEW s \in Sessions, StartStep(s) PROVE commit' = commit
  BY <1>2 DEF StartStep, StartReserve, StartSettings, ReservedCall, StartRoute,
        StartTarget, StartSelection, StartCue, StartOpen, StartPublish,
        StartAbandon, StartAbandonSettle, StartDeadline, StartAttach,
        StartShow, StartJoin, StartTry, StartUpdate, StartActivate,
        StartPreflight, StartFail, StartCancel, StartCancelSettle,
        StartRelease, StartRemove, StartReject, StartLimit, StartAwait, fences
<1>3. ASSUME NEW s \in Sessions, FinishStep(s)
      PROVE  commit' \subseteq commit \cup fence
  BY <1>3 DEF FinishStep, FinishAudio, FinishUnusable, FinishCheck,
        FinishApply, FinishRecognize, FinishSubmit, FinishBeginCleanup,
        FinishClean, FinishCleanSettle, FinishRelease, FinishCompleteCleanup,
        FinishOutcome, FinishFail, FinishNoSpeech, FinishApplies,
        FinishProcess, FinishDeliver, FinishFinalize, FinishComplete,
        FinishSetProcessing, FinishSetStage, FinishSetDelivering,
        FinishSetFinalizing, FinishLlmAnswer, FinishBeginCommit,
        FinishSkipCommit, FinishEndCommit, FinishDelivered, FinishSaved,
        FinishClear, BeginCommit, EndCommit, fences
<1>4. ASSUME NEW s \in Sessions, CleanerStep(s) PROVE commit' = commit
  BY <1>4 DEF CleanerStep, CleanerCapture, CleanerArtifact, CleanerSettle,
        CleanerRelease, CleanerClose, CleanerCancelSession, CleanerFailSession,
        CleanerClear, fences
<1>5. ASSUME NEW s \in Sessions, TimerStep(s) PROVE commit' = commit
  BY <1>5 DEF TimerStep, DeadlineElapses, RecordingLimitElapsed,
        DeadlineFinish, fences
<1>6. ASSUME QuitStep PROVE commit' = commit
  BY <1>6 DEF QuitStep, QuitTake, QuitInvalidate, QuitFail, QuitStage,
        QuitAsrCancel, QuitCapture, QuitArtifact, QuitSettle, QuitDrainOps,
        QuitDrainCommits, QuitSnapshot, QuitRetried, QuitVerdict, QuitRetry,
        fences
<1>7. ASSUME QuitBegin \/ Exited PROVE commit' = commit
  BY <1>7 DEF QuitBegin, Exited, vars, fences
<1>. QED
  BY <1>1, <1>2, <1>3, <1>4, <1>5, <1>6, <1>7 DEF Next

(* No irreversible write begins after the exit has invalidated the fence,   *)
(* for any set of sessions.  TypeInv and ExitInv place every open fence.    *)
THEOREM NoCommitAfterInvalidationHolds == Spec => NoCommitAfterInvalidation
<1>1. ASSUME TypeInv, ExitInv, [Next]_vars
      PROVE  [commit' \subseteq commit \/ ~quitting \/ quit = "invalidate"]_vars
  <2>1. CASE Next
    <3>1. fence = {} \/ ~quitting \/ quit = "invalidate"
      BY <1>1 DEF ExitInv
    <3>. QED
      BY <2>1, <3>1, CommitNeedsFence
  <2>2. CASE UNCHANGED vars
    BY <2>2
  <2>. QED
    BY <1>1, <2>1, <2>2
<1>. QED
  BY <1>1, TypeInvInductive, ExitInvInductive, PTL
     DEF Spec, NoCommitAfterInvalidation

-----------------------------------------------------------------------------
(* The open microphone: somebody will always close it *)

(* Before the microphone opens nobody else knows the session, and its       *)
(* preparation is still at its first stage.                                 *)
NotYetOpen == {"idle", "gate", "settings", "route", "target", "selection",
               "microphone", "cue", "open"}

Unopened(s) ==
  /\ s \notin capture
  /\ finish[s] = "idle" /\ cleaner[s] = "idle"
  /\ s \notin {active.id, heldActive.id}
  /\ preparing.id = s => preparing.stage = "StartingAudio"
  /\ heldPreparing.id = s => heldPreparing.stage = "StartingAudio"
  /\ \A resource \in Resources : <<s, resource>> \notin debts \cup retrying

(* Where a call has seen the capture closed. *)
SeenClosed(s) ==
  \/ start[s] \in {"abandoned", "cancelled", "remove"}
  \/ finish[s] \notin {"idle", "audio", "failed", "empty", "done"}
  \/ cleaner[s] \in {"captureGone", "close", "cancelSession", "failSession",
                     "clear", "artifact", "artifactGone", "artifactKept"}
  \/ \E a \in {active, heldActive} :
       a.id = s /\ a.stage \notin {"Recording", "FinishingAudio", "Cancelling"}
  \/ <<s, "artifact">> \in debts \cup retrying
  \/ quit = "captureGone" /\ Subject = s

(* A cancellation that leaves the capture open has recorded it as a debt,   *)
(* or is about to.                                                          *)
Indebted(s) == <<s, "capture">> \in debts

Cancels(s) ==
  \/ start[s] \in {"cancel", "cancelFailed"}
  \/ cleaner[s] \in {"capture", "captureKept"}

CancelledWorkflow(s) ==
  \/ \E p \in {preparing, heldPreparing} : p.id = s /\ p.stage = "Cancelling"
  \/ \E a \in {active, heldActive} : a.id = s /\ a.stage = "Cancelling"

(* The exit leaves its own cancel step with the capture closed or indebted. *)
ExitCancelled(s) ==
  \/ heldPreparing.id = s /\ heldPreparing.stage = "Capturing"
  \/ heldActive.id = s /\ heldActive.stage \in {"Recording", "FinishingAudio"}

Drained == {"drainCommits", "snapshot", "retry", "verdict", "done"}

CaptureInvOf(s) ==
  /\ start[s] \in NotYetOpen => Unopened(s)
  /\ SeenClosed(s) => s \notin capture
  /\ s \in capture /\ CancelledWorkflow(s) => Indebted(s) \/ Cancels(s)
  /\ s \in capture /\ ExitCancelled(s) /\ quit = "drainOps" => Indebted(s)
  /\ s \in capture /\ quit \in Drained => Indebted(s)

CaptureInv ==
  /\ CaptureOwned
  /\ \A s \in Sessions : CaptureInvOf(s)
  /\ quit \in {"capture", "captureGone", "captureKept"} =>
       \/ heldActive.id # NoSession
          /\ heldActive.stage \in {"Recording", "FinishingAudio"}
       \/ heldActive.id = NoSession
          /\ heldPreparing.stage \in {"Capturing", "Cancelling"}
  /\ quit \in {"asrCancel", "artifact", "artifactGone", "artifactKept"} =>
       heldActive.id # NoSession /\ heldActive.stage = "Recognizing"
  /\ quit \in Drained => OpsQuiescent
  /\ quit # "idle" => ~opsOpen

(* What a step that records or pays a capture debt leaves of it. *)
LEMMA CaptureDebtValues ==
  ASSUME NEW s \in Sessions,
         ClearDebt(s, "capture") \/ RecordDebt(s, "capture")
  PROVE  /\ ClearDebt(s, "capture") => <<s, "capture">> \notin debts'
         /\ RecordDebt(s, "capture") => <<s, "capture">> \in debts'
         /\ \A t \in Sessions : t # s =>
              (<<t, "capture">> \in debts' <=> <<t, "capture">> \in debts)
         /\ \A t \in Sessions :
              <<t, "artifact">> \in debts' <=> <<t, "artifact">> \in debts
  BY DEF ClearDebt, RecordDebt

(* What a step that records or pays an artifact debt leaves of it. *)
LEMMA ArtifactDebtValues ==
  ASSUME NEW s \in Sessions,
         ClearDebt(s, "artifact") \/ RecordDebt(s, "artifact")
  PROVE  /\ ClearDebt(s, "artifact") => <<s, "artifact">> \notin debts'
         /\ RecordDebt(s, "artifact") => <<s, "artifact">> \in debts'
         /\ \A t \in Sessions : t # s =>
              (<<t, "artifact">> \in debts' <=> <<t, "artifact">> \in debts)
         /\ \A t \in Sessions :
              <<t, "capture">> \in debts' <=> <<t, "capture">> \in debts
  BY DEF ClearDebt, RecordDebt

(* What removing a preparation leaves. *)
LEMMA RemovePreparingValues ==
  ASSUME NEW s \in Sessions, RemovePreparing(s)
  PROVE  /\ preparing.id = s => preparing'.id = NoSession
         /\ preparing.id # s => preparing' = preparing
  BY DEF RemovePreparing, NoPreparing

(* What clearing the active workflow leaves. *)
LEMMA ClearActiveValues ==
  ASSUME NEW s \in Sessions, ClearActive(s)
  PROVE  /\ active.id = s => active'.id = NoSession
         /\ active.id # s => active' = active
  BY DEF ClearActive, NoActive

(* A step of the user, the shell and the outside keeps CaptureInv. *)
LEMMA RequestKeepsCaptureInv ==
  ASSUME TypeInv, TypeInv', ExitInv, CaptureInv,
         NEW s \in Sessions, Request(s)
  PROVE  CaptureInv'
<1>. USE NoSessionIsNotASession
         DEF TypeInv, TypeOK, ExitInv, CaptureInv, CaptureInvOf,
             CaptureOwned, CaptureHeld, Unopened, NotYetOpen, SeenClosed,
             Indebted, Cancels, CancelledWorkflow, ExitCancelled, Drained,
             OpsQuiescent, Subject, Resources, runtime, audio, fences, calls,
             quitLocals, StartSteps, FinishSteps, CleanerSteps, QuitSteps
<1>1. CASE StartEnter(s)
  BY <1>1 DEF StartEnter, GotoStart
<1>2. CASE StartPrepare(s)
  BY <1>2 DEF StartPrepare, NoPreparing, GotoStart, GiveUp, PreparingWorkflow,
        ActiveWorkflow
<1>3. CASE FinishRequest(s)
  BY <1>3, ActiveValues DEF FinishRequest, CanFinish, FinishClaimed,
        GotoFinish, PreparingWorkflow, ActiveWorkflow
<1>4. CASE CancelRequest(s)
  <2>1. CASE preparing.id = s
    <3>1. active' = active
      BY <1>4, <2>1 DEF CancelRequest
    <3>2. preparing'.id = s /\ preparing'.stage = "Cancelling"
      BY <1>4, <2>1, PreparingValues DEF CancelRequest, PreparingWorkflow
    <3>. QED
      BY <1>4, <2>1, <3>1, <3>2 DEF CancelRequest, GotoCleaner
  <2>2. CASE active.id = s
    <3>1. preparing' = preparing
      BY <1>4, <2>2 DEF CancelRequest
    <3>0. Disarmed(active) \in ActiveWorkflow /\ Disarmed(active).id = s
      BY <2>2, ActiveValues, ActiveValuesTyped
    <3>2. /\ CancellingAs(Disarmed(active), "Cancelled").id = s
          /\ CancellingAs(Disarmed(active), "Cancelled").stage = "Cancelling"
      BY <3>0, CancellingAsValues
    <3>3. active'.id = s /\ active'.stage = "Cancelling"
      BY <1>4, <2>2, <3>2 DEF CancelRequest, ActiveWorkflow
    <3>. QED
      BY <1>4, <2>2, <3>1, <3>3 DEF CancelRequest, GotoCleaner
  <2>. QED
    BY <1>4, <2>1, <2>2 DEF CancelRequest
<1>5. CASE RetryRequest(s)
  BY <1>5 DEF RetryRequest, GotoCleaner, PreparingWorkflow, ActiveWorkflow
<1>6. CASE FinishAsrAnswer(s)
  BY <1>6 DEF FinishAsrAnswer, GotoFinish
<1>. HIDE DEF CaptureInv
<1>. QED
  BY <1>1, <1>2, <1>3, <1>4, <1>5, <1>6 DEF Request

(* A step of start keeps CaptureInv. *)
LEMMA StartKeepsCaptureInv ==
  ASSUME TypeInv, TypeInv', ExitInv, CaptureInv,
         NEW s \in Sessions, StartStep(s)
  PROVE  CaptureInv'
<1>. USE NoSessionIsNotASession
         DEF TypeInv, TypeOK, ExitInv, CaptureInv, CaptureInvOf,
             CaptureOwned, CaptureHeld, Unopened, NotYetOpen, SeenClosed,
             Indebted, Cancels, CancelledWorkflow, ExitCancelled, Drained,
             OpsQuiescent, Subject, Resources, runtime, audio, fences, calls,
             quitLocals, StartSteps, FinishSteps, CleanerSteps, QuitSteps
<1>1. CASE StartReserve(s)
  BY <1>1 DEF StartReserve, HasActiveSession, GotoStart
<1>2. CASE StartSettings(s)
  BY <1>2 DEF StartSettings, ReservedCall, StartReservationIsCurrent,
        GotoStart, GiveUp
<1>3. CASE StartRoute(s)
  BY <1>3 DEF StartRoute, StartReservationIsCurrent, GotoStart
<1>4. CASE StartTarget(s)
  BY <1>4 DEF StartTarget, ReservedCall, StartReservationIsCurrent, GotoStart,
        GiveUp
<1>5. CASE StartSelection(s)
  BY <1>5 DEF StartSelection, ReservedCall, StartReservationIsCurrent,
        GotoStart, GiveUp
<1>6. CASE StartCue(s)
  BY <1>6 DEF StartCue, IsCurrentPreparingStart, GotoStart
<1>7. CASE StartOpen(s)
  <2>1. \/ preparing' = preparing /\ capture' = capture \cup {s}
           /\ start'[s] = "publish"
        \/ RemovePreparing(s) /\ UNCHANGED capture /\ start'[s] = "done"
    BY <1>7 DEF StartOpen, GotoStart
  <2>2. \A t \in Sessions : t # s => start'[t] = start[t]
    BY <1>7 DEF StartOpen, GotoStart
  <2>3. ASSUME NEW t \in capture' PROVE CaptureHeld(t)'
    <3>1. CASE t = s
      <4>1. start'[s] = "publish"
        BY <1>7, <2>1, <2>3, <3>1 DEF StartOpen
      <4>. QED
        BY <3>1, <4>1
    <3>2. CASE t # s
      <4>1. t \in capture /\ t \in Sessions
        BY <1>7, <2>3, <3>2 DEF StartOpen
      <4>2. preparing.id = t => preparing' = preparing
        BY <1>7, <2>1, <3>2, RemovePreparingValues DEF StartOpen
      <4>. QED
        BY <1>7, <2>2, <3>2, <4>1, <4>2 DEF StartOpen
    <3>. QED
      BY <3>1, <3>2
  <2>4. ASSUME NEW t \in Sessions, t # s PROVE CaptureInvOf(t)'
    BY <1>7, <2>1, <2>2, <2>4, RemovePreparingValues DEF StartOpen
  <2>5. CaptureInvOf(s)'
    BY <1>7, <2>1, RemovePreparingValues DEF StartOpen, GotoStart
  <2>. QED
    BY <1>7, <2>3, <2>4, <2>5 DEF StartOpen
<1>8. CASE StartPublish(s)
  BY <1>8 DEF StartPublish, IsCurrentPreparingStart, GotoStart,
        PreparingWorkflow, ActiveWorkflow
<1>9. CASE StartAbandon(s)
  BY <1>9 DEF StartAbandon, Released, Kept, GotoStart
<1>10. CASE StartAbandonSettle(s)
  <2>1. ClearDebt(s, "capture") \/ RecordDebt(s, "capture")
    BY <1>10 DEF StartAbandonSettle
  <2>6. start'[s] \in {"done"}
    BY <1>10 DEF StartAbandonSettle, GotoStart
  <2>2. \A t \in Sessions : t # s => start'[t] = start[t]
    BY <1>10 DEF StartAbandonSettle, GotoStart
  <2>3. CaptureOwned'
    BY <1>10, <2>1, <2>2, CaptureDebtValues DEF StartAbandonSettle, GotoStart
  <2>4. ASSUME NEW t \in Sessions, t # s PROVE CaptureInvOf(t)'
    BY <1>10, <2>1, <2>2, <2>4, CaptureDebtValues DEF StartAbandonSettle
  <2>5. CaptureInvOf(s)'
    BY <1>10, <2>1, <2>6, CaptureDebtValues DEF StartAbandonSettle
  <2>. QED
    BY <1>10, <2>3, <2>4, <2>5 DEF StartAbandonSettle
<1>11. CASE StartDeadline(s)
  BY <1>11, PreparingValues DEF StartDeadline, GotoStart, ClaimOrLeave,
        IsCurrentPreparingCapture, ClaimPreparingCapture, PreparingWorkflow,
        ActiveWorkflow
<1>12. CASE StartAttach(s)
  BY <1>12 DEF StartAttach, IsCurrentPreparingCapture, GotoStart,
        PreparingWorkflow, ActiveWorkflow
<1>13. CASE StartShow(s)
  BY <1>13, PreparingValues DEF StartShow, IsCurrentPreparingCapture,
        GotoStart, ClaimOrLeave, ClaimPreparingCapture, PreparingWorkflow,
        ActiveWorkflow
<1>14. CASE StartJoin(s)
  BY <1>14, PreparingValues DEF StartJoin, IsCurrentPreparingCapture,
        GotoStart, ClaimOrLeave, ClaimPreparingCapture, PreparingWorkflow,
        ActiveWorkflow
<1>15. CASE StartTry(s)
  BY <1>15, PreparingValues DEF StartTry, GotoStart, ClaimOrLeave,
        IsCurrentPreparingCapture, ClaimPreparingCapture, PreparingWorkflow,
        ActiveWorkflow
<1>16. CASE StartUpdate(s)
  BY <1>16, PreparingValues DEF StartUpdate, IsCurrentPreparingCapture,
        ClaimPreparingCapture, GotoStart, PreparingWorkflow, ActiveWorkflow
<1>17. CASE StartActivate(s)
  BY <1>17, RecordingValues DEF StartActivate, NoPreparing,
        IsCurrentPreparingCapture, GotoStart, NoActive, PreparingWorkflow,
        ActiveWorkflow
<1>18. CASE StartPreflight(s)
  BY <1>18 DEF StartPreflight, GotoStart
<1>19. CASE StartFail(s)
  BY <1>19 DEF StartFail, GotoStart
<1>20. CASE StartCancel(s)
  BY <1>20 DEF StartCancel, Released, Kept, GotoStart
<1>21. CASE StartCancelSettle(s)
  <2>1. ClearDebt(s, "capture") \/ RecordDebt(s, "capture")
    BY <1>21 DEF StartCancelSettle
  <2>6. start'[s] \in {"remove", "release"}
    BY <1>21 DEF StartCancelSettle, GotoStart
  <2>2. \A t \in Sessions : t # s => start'[t] = start[t]
    BY <1>21 DEF StartCancelSettle, GotoStart
  <2>3. CaptureOwned'
    BY <1>21, <2>1, <2>2, CaptureDebtValues DEF StartCancelSettle, GotoStart
  <2>4. ASSUME NEW t \in Sessions, t # s PROVE CaptureInvOf(t)'
    BY <1>21, <2>1, <2>2, <2>4, CaptureDebtValues DEF StartCancelSettle
  <2>5. CaptureInvOf(s)'
    <3>1. CASE start[s] = "cancelled" /\ ClearDebt(s, "capture")
      BY <1>21, <3>1, <2>6, CaptureDebtValues DEF StartCancelSettle
    <3>2. CASE start[s] = "cancelFailed" /\ RecordDebt(s, "capture")
      <4>1. start'[s] = "release"
        BY <1>21, <3>2 DEF StartCancelSettle, GotoStart
      <4>. QED
        BY <1>21, <3>2, <4>1, CaptureDebtValues DEF StartCancelSettle
    <3>. QED
      BY <1>21, <3>1, <3>2 DEF StartCancelSettle
  <2>. QED
    BY <1>21, <2>3, <2>4, <2>5 DEF StartCancelSettle
<1>22. CASE StartRelease(s)
  BY <1>22 DEF StartRelease, ReleaseInFlight, GotoStart, PreparingWorkflow,
        ActiveWorkflow
<1>23. CASE StartRemove(s)
  <2>1. s \notin capture
    BY <1>23 DEF StartRemove
  <2>. QED
    BY <1>23, <2>1, RemovePreparingValues DEF StartRemove, GotoStart
<1>24. CASE StartReject(s)
  BY <1>24 DEF StartReject, GotoStart
<1>25. CASE StartLimit(s)
  BY <1>25, ActiveValues DEF StartLimit, GotoStart, CanFinish, FinishClaimed,
        GotoFinish, PreparingWorkflow, ActiveWorkflow
<1>26. CASE StartAwait(s)
  BY <1>26 DEF StartAwait, GotoStart
<1>. HIDE DEF CaptureInv
<1>. QED
  BY <1>1, <1>2, <1>3, <1>4, <1>5, <1>6, <1>7, <1>8, <1>9, <1>10, <1>11, <1>12,
        <1>13, <1>14, <1>15, <1>16, <1>17, <1>18, <1>19, <1>20, <1>21, <1>22,
        <1>23, <1>24, <1>25, <1>26 DEF StartStep

(* A step of finish_recording keeps CaptureInv. *)
LEMMA FinishKeepsCaptureInv ==
  ASSUME TypeInv, TypeInv', ExitInv, CaptureInv,
         NEW s \in Sessions, FinishStep(s)
  PROVE  CaptureInv'
<1>. USE NoSessionIsNotASession
         DEF TypeInv, TypeOK, ExitInv, CaptureInv, CaptureInvOf,
             CaptureOwned, CaptureHeld, Unopened, NotYetOpen, SeenClosed,
             Indebted, Cancels, CancelledWorkflow, ExitCancelled, Drained,
             OpsQuiescent, Subject, Resources, runtime, audio, fences, calls,
             quitLocals, StartSteps, FinishSteps, CleanerSteps, QuitSteps
<1>1. CASE FinishAudio(s)
  BY <1>1 DEF FinishAudio, GotoFinish
<1>2. CASE FinishUnusable(s)
  BY <1>2, CancellingAsValues DEF FinishUnusable, IsCurrentStage, GotoFinish,
        GotoCleaner, PreparingWorkflow, ActiveWorkflow
<1>3. CASE FinishCheck(s)
  BY <1>3 DEF FinishCheck, IsCurrentStage, GotoFinish, PreparingWorkflow,
        ActiveWorkflow
<1>4. CASE FinishApply(s)
  BY <1>4 DEF FinishApply, ApplyOr, GotoFinish
<1>5. CASE FinishRecognize(s)
  <2>1. s \notin capture
    BY <1>5 DEF FinishRecognize
  <2>2. active' = active \/ (active.id = s /\ active'.id = s)
    BY <1>5, ActiveValues DEF FinishRecognize, IsCurrentStage
  <2>. QED
    BY <1>5, <2>1, <2>2 DEF FinishRecognize, GotoFinish
<1>6. CASE FinishSubmit(s)
  BY <1>6 DEF FinishSubmit, GotoFinish
<1>7. CASE FinishBeginCleanup(s)
  BY <1>7, ActiveValues DEF FinishBeginCleanup, IsCurrentStage, GotoFinish,
        PreparingWorkflow, ActiveWorkflow
<1>8. CASE FinishClean(s)
  BY <1>8 DEF FinishClean, Released, Kept, GotoFinish
<1>9. CASE FinishCleanSettle(s)
  BY <1>9 DEF FinishCleanSettle, ClearDebt, RecordDebt, GotoFinish
<1>10. CASE FinishRelease(s)
  BY <1>10 DEF FinishRelease, ReleaseInFlight, GotoFinish, PreparingWorkflow,
        ActiveWorkflow
<1>11. CASE FinishCompleteCleanup(s)
  BY <1>11, ActiveValues DEF FinishCompleteCleanup, IsCurrentStage,
        GotoFinish, PreparingWorkflow, ActiveWorkflow
<1>12. CASE FinishOutcome(s)
  BY <1>12 DEF FinishOutcome, IsCurrentStage, GotoFinish, PreparingWorkflow,
        ActiveWorkflow
<1>13. CASE FinishFail(s)
  BY <1>13 DEF FinishFail, GotoFinish
<1>14. CASE FinishNoSpeech(s)
  BY <1>14 DEF FinishNoSpeech, FinishApplies, ApplyOr, GotoFinish
<1>15. CASE FinishProcess(s)
  BY <1>15 DEF FinishProcess, FinishApplies, ApplyOr, GotoFinish
<1>16. CASE FinishDeliver(s)
  BY <1>16 DEF FinishDeliver, FinishApplies, ApplyOr, GotoFinish
<1>17. CASE FinishFinalize(s)
  BY <1>17 DEF FinishFinalize, FinishApplies, ApplyOr, GotoFinish
<1>18. CASE FinishComplete(s)
  BY <1>18 DEF FinishComplete, FinishApplies, ApplyOr, GotoFinish
<1>19. CASE FinishSetProcessing(s)
  <2>1. s \notin capture
    BY <1>19 DEF FinishSetProcessing, FinishSetStage
  <2>2. active' = active \/ (active.id = s /\ active'.id = s)
    BY <1>19 DEF FinishSetProcessing, FinishSetStage, IsCurrentStage, SetStage,
                ActiveWorkflow
  <2>. QED
    BY <1>19, <2>1, <2>2 DEF FinishSetProcessing, FinishSetStage, GotoFinish
<1>20. CASE FinishSetDelivering(s)
  <2>1. s \notin capture
    BY <1>20 DEF FinishSetDelivering, FinishSetStage
  <2>2. active' = active \/ (active.id = s /\ active'.id = s)
    BY <1>20 DEF FinishSetDelivering, FinishSetStage, IsCurrentStage, SetStage,
                ActiveWorkflow
  <2>. QED
    BY <1>20, <2>1, <2>2 DEF FinishSetDelivering, FinishSetStage, GotoFinish
<1>21. CASE FinishSetFinalizing(s)
  <2>1. s \notin capture
    BY <1>21 DEF FinishSetFinalizing, FinishSetStage
  <2>2. active' = active \/ (active.id = s /\ active'.id = s)
    BY <1>21 DEF FinishSetFinalizing, FinishSetStage, IsCurrentStage, SetStage,
                ActiveWorkflow
  <2>. QED
    BY <1>21, <2>1, <2>2 DEF FinishSetFinalizing, FinishSetStage, GotoFinish
<1>22. CASE FinishLlmAnswer(s)
  BY <1>22 DEF FinishLlmAnswer, IsCurrentStage, GotoFinish
<1>23. CASE FinishBeginCommit(s)
  BY <1>23 DEF FinishBeginCommit, BeginCommit, GotoFinish
<1>24. CASE FinishSkipCommit(s)
  BY <1>24 DEF FinishSkipCommit, GotoFinish
<1>25. CASE FinishEndCommit(s)
  BY <1>25 DEF FinishEndCommit, EndCommit, GotoFinish
<1>26. CASE FinishDelivered(s)
  BY <1>26 DEF FinishDelivered, IsCurrentStage, GotoFinish
<1>27. CASE FinishSaved(s)
  BY <1>27 DEF FinishSaved, IsCurrentStage, GotoFinish
<1>28. CASE FinishClear(s)
  <2>1. s \notin capture
    BY <1>28 DEF FinishClear
  <2>. QED
    BY <1>28, <2>1, ClearActiveValues DEF FinishClear, GotoFinish
<1>. HIDE DEF CaptureInv
<1>. QED
  BY <1>1, <1>2, <1>3, <1>4, <1>5, <1>6, <1>7, <1>8, <1>9, <1>10, <1>11, <1>12,
        <1>13, <1>14, <1>15, <1>16, <1>17, <1>18, <1>19, <1>20, <1>21, <1>22,
        <1>23, <1>24, <1>25, <1>26, <1>27, <1>28 DEF FinishStep

(* A step of cancel_recording and retry_audio_cleanup keeps CaptureInv. *)
LEMMA CleanerKeepsCaptureInv ==
  ASSUME TypeInv, TypeInv', ExitInv, CaptureInv,
         NEW s \in Sessions, CleanerStep(s)
  PROVE  CaptureInv'
<1>. USE NoSessionIsNotASession
         DEF TypeInv, TypeOK, ExitInv, CaptureInv, CaptureInvOf,
             CaptureOwned, CaptureHeld, Unopened, NotYetOpen, SeenClosed,
             Indebted, Cancels, CancelledWorkflow, ExitCancelled, Drained,
             OpsQuiescent, Subject, Resources, runtime, audio, fences, calls,
             quitLocals, StartSteps, FinishSteps, CleanerSteps, QuitSteps
<1>1. CASE CleanerCapture(s)
  BY <1>1 DEF CleanerCapture, Released, Kept, GotoCleaner
<1>2. CASE CleanerArtifact(s)
  BY <1>2 DEF CleanerArtifact, Released, Kept, GotoCleaner
<1>3. CASE CleanerSettle(s)
  <2>1. CASE /\ cleaner[s] \in {"captureGone", "captureKept"}
             /\ ClearDebt(s, "capture") \/ RecordDebt(s, "capture")
    <3>2. \A t \in Sessions : t # s => cleaner'[t] = cleaner[t]
      BY <1>3, <2>1 DEF CleanerSettle, GotoCleaner
    <3>3. CaptureOwned'
      BY <1>3, <2>1, <3>2, CaptureDebtValues DEF CleanerSettle, GotoCleaner
    <3>4. ASSUME NEW t \in Sessions, t # s PROVE CaptureInvOf(t)'
      BY <1>3, <2>1, <3>2, <3>4, CaptureDebtValues DEF CleanerSettle
    <3>5. CaptureInvOf(s)'
      <4>1. CASE cleaner[s] = "captureGone" /\ ClearDebt(s, "capture")
        <5>1. cleaner'[s] = "close"
          BY <1>3, <4>1 DEF CleanerSettle, GotoCleaner
        <5>. QED
          BY <1>3, <4>1, <5>1, CaptureDebtValues DEF CleanerSettle
      <4>2. CASE cleaner[s] = "captureKept" /\ RecordDebt(s, "capture")
        <5>1. cleaner'[s] = "release"
          BY <1>3, <4>2 DEF CleanerSettle, GotoCleaner
        <5>. QED
          BY <1>3, <4>2, <5>1, CaptureDebtValues DEF CleanerSettle
      <4>. QED
        BY <1>3, <2>1, <4>1, <4>2 DEF CleanerSettle
    <3>. QED
      BY <1>3, <2>1, <3>3, <3>4, <3>5 DEF CleanerSettle
  <2>2. CASE /\ cleaner[s] \in {"artifactGone", "artifactKept"}
             /\ ClearDebt(s, "artifact") \/ RecordDebt(s, "artifact")
    <3>2. \A t \in Sessions : t # s => cleaner'[t] = cleaner[t]
      BY <1>3, <2>2 DEF CleanerSettle, GotoCleaner
    <3>3. CaptureOwned'
      BY <1>3, <2>2, <3>2, ArtifactDebtValues DEF CleanerSettle, GotoCleaner
    <3>4. ASSUME NEW t \in Sessions, t # s PROVE CaptureInvOf(t)'
      BY <1>3, <2>2, <3>2, <3>4, ArtifactDebtValues DEF CleanerSettle
    <3>5. CaptureInvOf(s)'
      BY <1>3, <2>2, ArtifactDebtValues DEF CleanerSettle, GotoCleaner
    <3>. QED
      BY <1>3, <2>2, <3>3, <3>4, <3>5 DEF CleanerSettle
  <2>. QED
    BY <1>3, <2>1, <2>2 DEF CleanerSettle
<1>4. CASE CleanerRelease(s)
  BY <1>4 DEF CleanerRelease, ReleaseInFlight, GotoCleaner, PreparingWorkflow,
        ActiveWorkflow
<1>5. CASE CleanerClose(s)
  <2>1. s \notin capture
    BY <1>5 DEF CleanerClose
  <2>. QED
    BY <1>5, <2>1, RemovePreparingValues DEF CleanerClose, GotoCleaner
<1>6. CASE CleanerCancelSession(s)
  BY <1>6 DEF CleanerCancelSession, GotoCleaner
<1>7. CASE CleanerFailSession(s)
  BY <1>7 DEF CleanerFailSession, GotoCleaner
<1>8. CASE CleanerClear(s)
  <2>1. s \notin capture
    BY <1>8 DEF CleanerClear
  <2>. QED
    BY <1>8, <2>1, ClearActiveValues DEF CleanerClear, GotoCleaner
<1>. HIDE DEF CaptureInv
<1>. QED
  BY <1>1, <1>2, <1>3, <1>4, <1>5, <1>6, <1>7, <1>8 DEF CleanerStep

(* A step of the recording deadline keeps CaptureInv. *)
LEMMA TimerKeepsCaptureInv ==
  ASSUME TypeInv, TypeInv', ExitInv, CaptureInv,
         NEW s \in Sessions, TimerStep(s)
  PROVE  CaptureInv'
<1>. USE NoSessionIsNotASession
         DEF TypeInv, TypeOK, ExitInv, CaptureInv, CaptureInvOf,
             CaptureOwned, CaptureHeld, Unopened, NotYetOpen, SeenClosed,
             Indebted, Cancels, CancelledWorkflow, ExitCancelled, Drained,
             OpsQuiescent, Subject, Resources, runtime, audio, fences, calls,
             quitLocals, StartSteps, FinishSteps, CleanerSteps, QuitSteps
<1>1. CASE DeadlineElapses(s)
  BY <1>1 DEF DeadlineElapses
<1>2. CASE RecordingLimitElapsed(s)
  BY <1>2 DEF RecordingLimitElapsed, RememberLimit, PreparingWorkflow,
        ActiveWorkflow
<1>3. CASE DeadlineFinish(s)
  BY <1>3, ActiveValues DEF DeadlineFinish, CanFinish, FinishClaimed,
        GotoFinish, PreparingWorkflow, ActiveWorkflow
<1>. HIDE DEF CaptureInv
<1>. QED
  BY <1>1, <1>2, <1>3 DEF TimerStep

(* A step of the exit leader keeps CaptureInv. *)
LEMMA QuitKeepsCaptureInv ==
  ASSUME TypeInv, TypeInv', ExitInv, CaptureInv,
         QuitStep
  PROVE  CaptureInv'
<1>. USE NoSessionIsNotASession
         DEF TypeInv, TypeOK, ExitInv, CaptureInv, CaptureInvOf,
             CaptureOwned, CaptureHeld, Unopened, NotYetOpen, SeenClosed,
             Indebted, Cancels, CancelledWorkflow, ExitCancelled, Drained,
             OpsQuiescent, Subject, Resources, runtime, audio, fences, calls,
             quitLocals, StartSteps, FinishSteps, CleanerSteps, QuitSteps
<1>1. CASE QuitTake
  BY <1>1, PreparingValues, ActiveValues DEF QuitTake, NoPreparing, NoActive,
        PreparingWorkflow, ActiveWorkflow
<1>2. CASE QuitInvalidate
  BY <1>2 DEF QuitInvalidate
<1>3. CASE QuitFail
  BY <1>3 DEF QuitFail
<1>4. CASE QuitStage
  BY <1>4 DEF QuitStage, HoldsCapture, PreparingWorkflow, ActiveWorkflow
<1>5. CASE QuitAsrCancel
  BY <1>5 DEF QuitAsrCancel
<1>6. CASE QuitCapture
  BY <1>6 DEF QuitCapture, Released, Kept
<1>7. CASE QuitArtifact
  BY <1>7 DEF QuitArtifact, Released, Kept
<1>8. CASE QuitSettle
  BY <1>8 DEF QuitSettle, ClearDebt, RecordDebt
<1>9. CASE QuitDrainOps
  BY <1>9 DEF QuitDrainOps
<1>10. CASE QuitDrainCommits
  BY <1>10 DEF QuitDrainCommits
<1>11. CASE QuitSnapshot
  BY <1>11 DEF QuitSnapshot
<1>12. CASE QuitRetried
  BY <1>12 DEF QuitRetried
<1>13. CASE QuitVerdict
  <2>1. CASE debts = {}
    <3>1. capture = {}
      BY <1>13, <2>1 DEF QuitVerdict
    <3>2. heldPreparing'.id = NoSession /\ heldActive'.id = NoSession
      BY <1>13 DEF QuitVerdict, NoPreparing, NoActive
    <3>3. UNCHANGED <<preparing, active>> /\ quit' = "done"
      BY <1>13, <2>1 DEF QuitVerdict
    <3>. QED
      BY <1>13, <3>1, <3>2, <3>3 DEF QuitVerdict
  <2>2. CASE debts # {}
    <3>1. preparing' = heldPreparing /\ active' = heldActive
      BY <1>13, <2>2 DEF QuitVerdict
    <3>2. heldPreparing'.id = NoSession /\ heldActive'.id = NoSession
      BY <1>13 DEF QuitVerdict, NoPreparing, NoActive
    <3>. QED
      BY <1>13, <2>2, <3>1, <3>2 DEF QuitVerdict
  <2>. QED
    BY <2>1, <2>2
<1>14. ASSUME NEW s \in Sessions, NEW resource \in Resources,
             QuitRetry(s, resource)
      PROVE  CaptureInv'
  BY <1>14 DEF QuitRetry, Released, Kept, ClearDebt, RecordDebt
<1>. HIDE DEF CaptureInv
<1>. QED
  BY <1>1, <1>2, <1>3, <1>4, <1>5, <1>6, <1>7, <1>8, <1>9, <1>10, <1>11, <1>12,
        <1>13, <1>14 DEF QuitStep

(* The exit leader closing the operation barrier keeps CaptureInv. *)
LEMMA QuitBeginKeepsCaptureInv ==
  ASSUME CaptureInv, QuitBegin
  PROVE  CaptureInv'
  BY DEF QuitBegin, CaptureInv, CaptureInvOf, CaptureOwned, CaptureHeld,
         Unopened, SeenClosed, Indebted, Cancels, CancelledWorkflow,
         ExitCancelled, Drained, OpsQuiescent,
         Subject, runtime, audio, fences, calls

(* A step that changes nothing keeps CaptureInv. *)
LEMMA StutteringKeepsCaptureInv ==
  ASSUME CaptureInv, UNCHANGED vars
  PROVE  CaptureInv'
  BY DEF vars, CaptureInv, CaptureInvOf, CaptureOwned, CaptureHeld, Unopened,
         SeenClosed, Indebted, Cancels, CancelledWorkflow,
         ExitCancelled, OpsQuiescent, Subject,
         runtime, audio, fences, calls, quitLocals

(* CaptureInv is inductive relative to TypeInv and ExitInv. *)
LEMMA CaptureInvariant == Spec => []CaptureInv
<1>1. Init => CaptureInv
  BY NoSessionIsNotASession
     DEF Init, CaptureInv, CaptureInvOf, CaptureOwned, CaptureHeld, Unopened,
         SeenClosed, CancelledWorkflow, ExitCancelled, Drained, NoPreparing,
         NoActive
<1>2. TypeInv /\ TypeInv' /\ ExitInv /\ CaptureInv /\ [Next]_vars
      => CaptureInv'
  BY RequestKeepsCaptureInv, StartKeepsCaptureInv, FinishKeepsCaptureInv,
     CleanerKeepsCaptureInv, TimerKeepsCaptureInv, QuitBeginKeepsCaptureInv,
     QuitKeepsCaptureInv, StutteringKeepsCaptureInv
     DEF Next, Exited
<1>. QED
  BY <1>1, <1>2, TypeInvInductive, ExitInvInductive, PTL DEF Spec

(* The microphone is never left open with nobody to close it. *)
THEOREM CaptureOwnedHolds == Spec => []CaptureOwned
<1>1. CaptureInv => CaptureOwned
  BY DEF CaptureInv
<1>. QED
  BY <1>1, CaptureInvariant, PTL

-----------------------------------------------------------------------------
(* Where each call stands, against the one workflow there is *)

(* The stretches of a start call, by what it holds: the reservation, the     *)
(* preparation, nothing it would still need, or the claim to cancel.         *)
Reserving == {"settings", "route", "target", "selection", "microphone"}
Opening == {"cue", "open", "publish", "abandon", "abandoned", "abandonFailed"}
Preflight ==
  {"deadline", "attach", "show", "join", "try", "update", "activate", "fail",
   "reject"}
StartClaims == {"cancel", "cancelled", "cancelFailed", "remove", "release"}
Preflighted == {"preflight", "preflightLimited"}

(* The stretches of finish_recording, and the stage each is in. *)
FinishClosing == {"audio", "failed", "empty", "finished", "apply", "recognize"}
FinishDiscarding == {"discard", "discarded", "discardFailed"}
FinishClaims == {"clean", "cleaned", "cleanFailed", "cleanedUp", "release"}
FinishRecognizing ==
  {"submit", "asr", "asrCancelled", "answered", "outcome", "noSpeech",
   "process", "processing"}
FinishDelivering ==
  {"insert", "committing", "delivered", "finalize", "finalizing"}
FinishFinalizing == {"save", "saving", "saved", "complete"}

(* The workflow of a session, in the runtime or with the exit leader. *)
Prepared(s, stages) ==
  \/ preparing.id = s /\ preparing.stage \in stages
  \/ heldPreparing.id = s /\ heldPreparing.stage \in stages
Activated(s, stages) ==
  \/ active.id = s /\ active.stage \in stages
  \/ heldActive.id = s /\ heldActive.stage \in stages
InFlight(s) ==
  \/ preparing.id = s /\ preparing.cleanup = "inFlight"
  \/ heldPreparing.id = s /\ heldPreparing.cleanup = "inFlight"
  \/ active.id = s /\ active.cleanup = "inFlight"
  \/ heldActive.id = s /\ heldActive.cleanup = "inFlight"

StartPlace(s) ==
  /\ start[s] \in Reserving /\ ~quitting => starting = s
  /\ starting = s => start[s] \in Reserving
  /\ start[s] \in {"idle", "gate"} \cup Reserving =>
       s \notin {preparing.id, heldPreparing.id}
  /\ start[s] \in Opening => Prepared(s, {"StartingAudio"})
  /\ start[s] \in {"abandon", "abandoned", "abandonFailed"} => quitting
  /\ start[s] \in StartClaims => Prepared(s, {"Cancelling"}) /\ InFlight(s)
  /\ start[s] \in {"idle", "gate"} \cup Reserving \cup Opening \cup Preflight
                    \cup StartClaims =>
       finish[s] = "idle" /\ s \notin {active.id, heldActive.id}
  /\ start[s] \in {"idle", "gate"} \cup Reserving \cup Opening
                    \cup StartClaims => cleaner[s] = "idle"
  /\ start[s] \in Preflighted =>
       /\ finish[s] \in (FinishClosing \ {"recognize"}) \cup FinishDiscarding
                          \cup {"idle", "done"}
       /\ ~Activated(s, RuntimeStages \ {"Recording", "FinishingAudio",
                                         "Cancelling"})

WorkflowPlace(s) ==
  /\ s \in {preparing.id, heldPreparing.id} => finish[s] = "idle"
  /\ Prepared(s, {"StartingAudio", "Capturing"}) => cleaner[s] = "idle"
  /\ Activated(s, {"Recording"}) => finish[s] = "idle" /\ cleaner[s] = "idle"

FinishPlace(s) ==
  /\ finish[s] \notin {"idle", "done"} => cleaner[s] = "idle"
  /\ finish[s] \in FinishClosing \cup FinishDiscarding =>
       Activated(s, {"FinishingAudio"})
  /\ finish[s] \in FinishDiscarding => quitting
  /\ finish[s] \in FinishRecognizing => Activated(s, {"Recognizing"})
  /\ finish[s] \in FinishClaims =>
       Activated(s, {"CleaningAudio"}) /\ InFlight(s)
  /\ finish[s] = "llm" => Activated(s, {"Processing"})
  /\ finish[s] \in {"deliver", "delivering"} =>
       Activated(s, {"Recognizing", "Processing"})
  /\ finish[s] \in FinishDelivering => Activated(s, {"Delivering"})
  /\ finish[s] \in FinishFinalizing => Activated(s, {"Finalizing"})
  /\ finish[s] = "failSession" => Activated(s, {"Recognizing", "Delivering"})
  /\ finish[s] = "clear" =>
       Activated(s, {"Recognizing", "Delivering", "Finalizing"})

CleanerPlace(s) ==
  /\ cleaner[s] # "idle" =>
       /\ InFlight(s)
       /\ \/ Prepared(s, {"Cancelling"})
          \/ Activated(s, {"Cancelling", "CleaningAudio"})
  /\ cleaner[s] \in {"capture", "captureGone", "captureKept"} =>
       ~Activated(s, {"CleaningAudio"})
  /\ cleaner[s] \in {"artifact", "artifactGone", "artifactKept"} =>
       Activated(s, {"CleaningAudio"})
  /\ cleaner[s] \in {"cancelSession", "failSession", "clear"} =>
       s \in {active.id, heldActive.id}
  /\ cleaner[s] = "cancelSession" =>
       \A w \in {active, heldActive} :
         w.id = s => w.stage = "Cancelling" /\ w.completion = "Cancelled"

(* The exit cancels a capture whose cancel nobody runs, and no request is    *)
(* taken after it has begun.                                                 *)
QuitPlace ==
  /\ quit = "capture" /\ heldActive.id = NoSession =>
       HoldsCapture(heldPreparing)
  /\ quit = "fail" => heldActive.id # NoSession
  /\ quitting => ~opsOpen

PlaceInv ==
  /\ \A s \in Sessions : /\ StartPlace(s) /\ WorkflowPlace(s)
                         /\ FinishPlace(s) /\ CleanerPlace(s)
  /\ QuitPlace

(* A debt is one the cleanup retry reaches, and a workflow is only dropped   *)
(* after its debts have been paid.                                           *)
LedgerInv ==
  /\ DebtIsRetryable
  /\ ~quitting => \A s \in Sessions :
       \/ start[s] = "remove"
       \/ cleaner[s] \in {"close", "cancelSession", "failSession", "clear"}
       \/ finish[s] = "cleanedUp"
       => <<s, "capture">> \notin debts /\ <<s, "artifact">> \notin debts

(* The coordinator has the session of a start from try_start on, and not a   *)
(* later phase of it than the start has brought about.                       *)
SlotInv ==
  \A s \in Sessions :
    /\ start[s] \in {"update", "activate"} => slot.id = s
    /\ start[s] \in {"update", "activate"} \cup Preflighted /\ slot.id = s =>
         slot.phase = "Preparing"

(* The domain refuses an event of a session only after its activation, and   *)
(* the call that is refused is its last.                                     *)
RefusalInv ==
  \A s \in refused :
    /\ finish[s] \in {"idle", "done"}
    /\ start[s] \in Preflighted \cup {"limit", "await", "done"}
    /\ ~Activated(s, {"Recording"})

FlowInv ==
  /\ PlaceInv /\ LedgerInv /\ SlotInv /\ RefusalInv
  /\ InFlightIsServedUnlessRefused /\ StageMatchesPhase

(* What the workflow values are, field by field. *)
LEMMA WorkflowValues ==
  /\ \A w \in PreparingWorkflow :
       /\ Cancelling(w).id = w.id /\ Cancelling(w).stage = "Cancelling"
       /\ Cancelling(w).cleanup = "inFlight"
       /\ Disarmed(w).id = w.id /\ Disarmed(w).stage = w.stage
       /\ Disarmed(w).cleanup = w.cleanup /\ Disarmed(w) \in PreparingWorkflow
  /\ \A w \in ActiveWorkflow :
       /\ Disarmed(w).id = w.id /\ Disarmed(w).stage = w.stage
       /\ Disarmed(w).cleanup = w.cleanup /\ Disarmed(w).audio = w.audio
       /\ Disarmed(w).completion = w.completion
       /\ Disarmed(w) \in ActiveWorkflow
       /\ FinishingAudio(w).id = w.id
       /\ FinishingAudio(w).stage = "FinishingAudio"
       /\ FinishingAudio(w).cleanup = w.cleanup
       /\ FinishingAudio(w).audio = w.audio
       /\ Recognizing(w).id = w.id /\ Recognizing(w).stage = "Recognizing"
       /\ Recognizing(w).cleanup = w.cleanup /\ Recognizing(w).audio = "file"
       /\ CleaningAudio(w).id = w.id
       /\ CleaningAudio(w).stage = "CleaningAudio"
       /\ CleaningAudio(w).cleanup = "inFlight"
       /\ CleanedUp(w).id = w.id /\ CleanedUp(w).stage = "Recognizing"
       /\ CleanedUp(w).cleanup = "idle" /\ CleanedUp(w).audio = "none"
       /\ \A c \in {"Cancelled", "FailAudio"} :
            /\ CancellingAs(w, c).id = w.id
            /\ CancellingAs(w, c).stage = "Cancelling"
            /\ CancellingAs(w, c).cleanup = "inFlight"
  /\ \A s \in Sessions, d \in {"none", "guard"} :
       /\ Recording(s, d).id = s /\ Recording(s, d).stage = "Recording"
       /\ Recording(s, d).cleanup = "idle" /\ Recording(s, d).audio = "none"
  BY DEF Cancelling, Disarmed, FinishingAudio, Recognizing, CleaningAudio,
         CleanedUp, CancellingAs, Recording, NoActive, PreparingWorkflow,
         ActiveWorkflow

(* A step of the user, the shell and the outside keeps PlaceInv. *)
LEMMA RequestKeepsPlace ==
  ASSUME TypeInv, TypeInv', ExitInv, CaptureInv, FlowInv,
         NEW s \in Sessions, Request(s)
  PROVE  PlaceInv'
<1>. USE NoSessionIsNotASession DEF TypeInv, TypeOK, ExitInv, Subject,
         Resources, runtime, audio, fences, calls, quitLocals,
         PreparingWorkflow, ActiveWorkflow, PreparingStages, RuntimeStages,
         PlaceInv, StartPlace, WorkflowPlace, FinishPlace, CleanerPlace,
         QuitPlace, Prepared, Activated, InFlight, Reserving, Opening,
         Preflight, StartClaims, Preflighted, FinishClosing, FinishDiscarding,
         FinishClaims, FinishRecognizing, FinishDelivering, FinishFinalizing,
         HoldsCapture, CaptureInv, Drained, OpsQuiescent, FlowInv, LedgerInv,
         DebtIsRetryable
<1>1. CASE StartEnter(s)
  BY <1>1, WorkflowValues DEF StartEnter, GotoStart
<1>2. CASE StartPrepare(s)
  BY <1>2, WorkflowValues DEF StartPrepare, NoPreparing, GotoStart, GiveUp
<1>3. CASE FinishRequest(s)
  BY <1>3, WorkflowValues DEF FinishRequest, CanFinish, FinishClaimed,
        GotoFinish
<1>4. CASE CancelRequest(s)
  <2>1. CASE preparing.id = s
    <3>1. active' = active /\ active.id = NoSession
      BY <1>4, <2>1 DEF CancelRequest
    <3>2. /\ preparing'.id = s /\ preparing'.stage = "Cancelling"
          /\ preparing'.cleanup = "inFlight"
      BY <1>4, <2>1, WorkflowValues DEF CancelRequest
    <3>. QED
      BY <1>4, <2>1, <3>1, <3>2 DEF CancelRequest, GotoCleaner
  <2>2. CASE active.id = s
    <3>1. preparing' = preparing
      BY <1>4, <2>2 DEF CancelRequest
    <3>2. /\ active'.id = s /\ active'.stage = "Cancelling"
          /\ active'.cleanup = "inFlight"
      BY <1>4, <2>2, WorkflowValues DEF CancelRequest
    <3>3. /\ UNCHANGED <<start, finish, quitting, opsOpen, starting, debts>>
          /\ UNCHANGED <<quit, heldPreparing, heldActive>> /\ ~quitting
          /\ cleaner' = [cleaner EXCEPT ![s] = "capture"]
      BY <1>4, <2>2 DEF CancelRequest, GotoCleaner
    <3>4. /\ preparing.id = NoSession /\ heldPreparing.id = NoSession
          /\ heldActive.id = NoSession
      BY <2>2, <3>3
    <3>5. active.stage \in {"Recording", "Cancelling"}
      BY <1>4, <2>2, <3>4 DEF CancelRequest
    <3>6. finish[s] \in {"idle", "done"}
      BY <2>2, <3>4, <3>5 DEF FinishSteps
    <3>7. ASSUME NEW t \in Sessions PROVE StartPlace(t)'
      BY <2>2, <3>1, <3>2, <3>3, <3>4, <3>5
    <3>8. ASSUME NEW t \in Sessions
          PROVE  WorkflowPlace(t)' /\ FinishPlace(t)'
      BY <2>2, <3>1, <3>2, <3>3, <3>4, <3>5, <3>6
    <3>9. ASSUME NEW t \in Sessions PROVE CleanerPlace(t)'
      BY <2>2, <3>1, <3>2, <3>3, <3>4, <3>5
    <3>10. QuitPlace'
      BY <3>3
    <3>. QED
      BY <3>7, <3>8, <3>9, <3>10
  <2>. QED
    BY <1>4, <2>1, <2>2 DEF CancelRequest
<1>5. CASE RetryRequest(s)
  <2>1. ~quitting /\ ~quitting'
    BY <1>5 DEF RetryRequest
  <2>2. CASE preparing.id = s /\ preparing.stage = "Cancelling"
    <3>1. /\ preparing'.id = s /\ preparing'.stage = "Cancelling"
          /\ preparing'.cleanup = "inFlight" /\ active' = active
          /\ active.id = NoSession
      BY <1>5, <2>2 DEF RetryRequest
    <3>2. <<s, "artifact">> \notin debts
      BY <2>1, <3>1
    <3>3. cleaner' = [cleaner EXCEPT ![s] = "capture"]
      BY <1>5, <3>2 DEF RetryRequest, GotoCleaner
    <3>. QED
      BY <1>5, <2>1, <2>2, <3>1, <3>3 DEF RetryRequest
  <2>3. CASE active.id = s /\ active.stage \in {"Cancelling", "CleaningAudio"}
    <3>1. /\ active'.id = s /\ active'.stage = active.stage
          /\ active'.cleanup = "inFlight" /\ preparing' = preparing
          /\ preparing.id = NoSession /\ active.cleanup = "idle"
      BY <1>5, <2>3 DEF RetryRequest
    <3>2. /\ <<s, "artifact">> \in debts => active.stage = "CleaningAudio"
          /\ <<s, "capture">> \in debts => active.stage = "Cancelling"
      BY <2>1, <3>1
    <3>3. \/ cleaner' = [cleaner EXCEPT ![s] = "capture"]
             /\ active.stage = "Cancelling"
          \/ cleaner' = [cleaner EXCEPT ![s] = "artifact"]
             /\ active.stage = "CleaningAudio"
      BY <1>5, <3>2 DEF RetryRequest, GotoCleaner
    <3>4. finish[s] \in {"idle", "done"}
      BY <2>3, <3>1 DEF FinishSteps
    <3>5. /\ UNCHANGED <<start, finish, quitting, opsOpen, starting, debts>>
          /\ UNCHANGED <<quit, heldPreparing, heldActive>>
      BY <1>5 DEF RetryRequest
    <3>6. ASSUME NEW t \in Sessions PROVE StartPlace(t)'
      BY <2>1, <2>3, <3>1, <3>3, <3>5
    <3>7. ASSUME NEW t \in Sessions
          PROVE  WorkflowPlace(t)' /\ FinishPlace(t)'
      BY <2>1, <2>3, <3>1, <3>3, <3>4, <3>5
    <3>8. ASSUME NEW t \in Sessions PROVE CleanerPlace(t)'
      BY <2>1, <2>3, <3>1, <3>3, <3>5
    <3>. QED
      BY <3>5, <3>6, <3>7, <3>8
  <2>. QED
    BY <1>5, <2>2, <2>3 DEF RetryRequest
<1>6. CASE FinishAsrAnswer(s)
  BY <1>6, WorkflowValues DEF FinishAsrAnswer, GotoFinish
<1>. HIDE DEF PlaceInv
<1>. QED BY <1>1, <1>2, <1>3, <1>4, <1>5, <1>6 DEF Request

(* A step of start keeps PlaceInv. *)
LEMMA StartKeepsPlace ==
  ASSUME TypeInv, TypeInv', ExitInv, CaptureInv, FlowInv,
         NEW s \in Sessions, StartStep(s)
  PROVE  PlaceInv'
<1>. USE NoSessionIsNotASession DEF TypeInv, TypeOK, ExitInv, Subject,
         Resources, runtime, audio, fences, calls, quitLocals,
         PreparingWorkflow, ActiveWorkflow, PreparingStages, RuntimeStages,
         PlaceInv, StartPlace, WorkflowPlace, FinishPlace, CleanerPlace,
         QuitPlace, Prepared, Activated, InFlight, Reserving, Opening,
         Preflight, StartClaims, Preflighted, FinishClosing, FinishDiscarding,
         FinishClaims, FinishRecognizing, FinishDelivering, FinishFinalizing,
         HoldsCapture, CaptureInv, Drained, OpsQuiescent, FlowInv, LedgerInv,
         DebtIsRetryable
<1>1. CASE StartReserve(s)
  BY <1>1, WorkflowValues DEF StartReserve, HasActiveSession, GotoStart
<1>2. CASE StartSettings(s)
  BY <1>2, WorkflowValues DEF StartSettings, ReservedCall,
        StartReservationIsCurrent, GotoStart, GiveUp
<1>3. CASE StartRoute(s)
  BY <1>3, WorkflowValues DEF StartRoute, StartReservationIsCurrent, GotoStart
<1>4. CASE StartTarget(s)
  BY <1>4, WorkflowValues DEF StartTarget, ReservedCall,
        StartReservationIsCurrent, GotoStart, GiveUp
<1>5. CASE StartSelection(s)
  BY <1>5, WorkflowValues DEF StartSelection, ReservedCall,
        StartReservationIsCurrent, GotoStart, GiveUp
<1>6. CASE StartCue(s)
  BY <1>6, WorkflowValues DEF StartCue, IsCurrentPreparingStart, GotoStart
<1>7. CASE StartOpen(s)
  BY <1>7, WorkflowValues DEF StartOpen, GotoStart, RemovePreparing,
        NoPreparing
<1>8. CASE StartPublish(s)
  BY <1>8, WorkflowValues DEF StartPublish, IsCurrentPreparingStart, GotoStart
<1>9. CASE StartAbandon(s)
  BY <1>9, WorkflowValues DEF StartAbandon, Released, Kept, GotoStart
<1>10. CASE StartAbandonSettle(s)
  BY <1>10, WorkflowValues DEF StartAbandonSettle, GotoStart, ClearDebt,
        RecordDebt
<1>11. CASE StartDeadline(s)
  BY <1>11, WorkflowValues DEF StartDeadline, GotoStart, ClaimOrLeave,
        IsCurrentPreparingCapture, ClaimPreparingCapture
<1>12. CASE StartAttach(s)
  BY <1>12, WorkflowValues DEF StartAttach, IsCurrentPreparingCapture,
        GotoStart
<1>13. CASE StartShow(s)
  BY <1>13, WorkflowValues DEF StartShow, IsCurrentPreparingCapture, GotoStart,
        ClaimOrLeave, ClaimPreparingCapture
<1>14. CASE StartJoin(s)
  BY <1>14, WorkflowValues DEF StartJoin, IsCurrentPreparingCapture, GotoStart,
        ClaimOrLeave, ClaimPreparingCapture
<1>15. CASE StartTry(s)
  BY <1>15, WorkflowValues DEF StartTry, GotoStart, ClaimOrLeave,
        IsCurrentPreparingCapture, ClaimPreparingCapture
<1>16. CASE StartUpdate(s)
  BY <1>16, WorkflowValues DEF StartUpdate, IsCurrentPreparingCapture,
        ClaimPreparingCapture, GotoStart
<1>17. CASE StartActivate(s)
  BY <1>17, WorkflowValues DEF StartActivate, NoPreparing,
        IsCurrentPreparingCapture, GotoStart, NoActive
<1>18. CASE StartPreflight(s)
  BY <1>18, WorkflowValues DEF StartPreflight, GotoStart
<1>19. CASE StartFail(s)
  BY <1>19, WorkflowValues DEF StartFail, GotoStart
<1>20. CASE StartCancel(s)
  BY <1>20, WorkflowValues DEF StartCancel, Released, Kept, GotoStart
<1>21. CASE StartCancelSettle(s)
  BY <1>21, WorkflowValues DEF StartCancelSettle, GotoStart, ClearDebt,
        RecordDebt
<1>22. CASE StartRelease(s)
  BY <1>22, WorkflowValues DEF StartRelease, ReleaseInFlight, GotoStart
<1>23. CASE StartRemove(s)
  BY <1>23, WorkflowValues DEF StartRemove, GotoStart, RemovePreparing,
        NoPreparing
<1>24. CASE StartReject(s)
  BY <1>24, WorkflowValues DEF StartReject, GotoStart
<1>25. CASE StartLimit(s)
  BY <1>25, WorkflowValues DEF StartLimit, GotoStart, CanFinish, FinishClaimed,
        GotoFinish
<1>26. CASE StartAwait(s)
  BY <1>26, WorkflowValues DEF StartAwait, GotoStart
<1>. HIDE DEF PlaceInv
<1>. QED BY <1>1, <1>2, <1>3, <1>4, <1>5, <1>6, <1>7, <1>8, <1>9, <1>10, <1>11,
      <1>12, <1>13, <1>14, <1>15, <1>16, <1>17, <1>18, <1>19, <1>20, <1>21,
      <1>22, <1>23, <1>24, <1>25, <1>26 DEF StartStep

(* A step of finish_recording keeps PlaceInv. *)
LEMMA FinishKeepsPlace ==
  ASSUME TypeInv, TypeInv', ExitInv, CaptureInv, FlowInv,
         NEW s \in Sessions, FinishStep(s)
  PROVE  PlaceInv'
<1>. USE NoSessionIsNotASession DEF TypeInv, TypeOK, ExitInv, Subject,
         Resources, runtime, audio, fences, calls, quitLocals,
         PreparingWorkflow, ActiveWorkflow, PreparingStages, RuntimeStages,
         PlaceInv, StartPlace, WorkflowPlace, FinishPlace, CleanerPlace,
         QuitPlace, Prepared, Activated, InFlight, Reserving, Opening,
         Preflight, StartClaims, Preflighted, FinishClosing, FinishDiscarding,
         FinishClaims, FinishRecognizing, FinishDelivering, FinishFinalizing,
         HoldsCapture, CaptureInv, Drained, OpsQuiescent, FlowInv, LedgerInv,
         DebtIsRetryable
<1>1. CASE FinishAudio(s)
  BY <1>1, WorkflowValues DEF FinishAudio, GotoFinish
<1>2. CASE FinishUnusable(s)
  BY <1>2, WorkflowValues DEF FinishUnusable, IsCurrentStage, GotoFinish,
        GotoCleaner
<1>3. CASE FinishCheck(s)
  BY <1>3, WorkflowValues DEF FinishCheck, IsCurrentStage, GotoFinish
<1>4. CASE FinishApply(s)
  <2>1. \/ finish'[s] = "recognize" /\ slot.id = s /\ slot.phase # "Preparing"
        \/ finish'[s] = "discard" /\ slot.id # s
        \/ finish'[s] = "done"
    BY <1>4 DEF FinishApply, ApplyOr, GotoFinish, Answer, Successor
  <2>2. finish'[s] = "recognize" => start[s] \notin Preflighted
    BY <2>1 DEF SlotInv
  <2>3. Activated(s, {"FinishingAudio"})
    BY <1>4 DEF FinishApply
  <2>4. finish'[s] = "discard" => quitting
    <3>1. ASSUME ~quitting, slot.id # s PROVE FALSE
      <4>1. active.id = s /\ finish[s] = "apply" /\ cleaner[s] = "idle"
        BY <1>4, <2>3, <3>1 DEF FinishApply
      <4>. QED
        BY <3>1, <4>1 DEF StageMatchesPhase
    <3>. QED BY <2>1, <3>1
  <2>5. /\ finish' = [finish EXCEPT ![s] = finish'[s]]
        /\ UNCHANGED <<quitting, starting, preparing, active, start, cleaner>>
        /\ UNCHANGED <<quit, heldPreparing, heldActive, opsOpen>>
    BY <1>4 DEF FinishApply, ApplyOr, GotoFinish
  <2>. QED
    BY <1>4, <2>1, <2>2, <2>3, <2>4, <2>5 DEF FinishApply
<1>5. CASE FinishRecognize(s)
  BY <1>5, WorkflowValues DEF FinishRecognize, IsCurrentStage, GotoFinish
<1>6. CASE FinishSubmit(s)
  BY <1>6, WorkflowValues DEF FinishSubmit, GotoFinish
<1>7. CASE FinishBeginCleanup(s)
  BY <1>7, WorkflowValues DEF FinishBeginCleanup, IsCurrentStage, GotoFinish
<1>8. CASE FinishClean(s)
  BY <1>8, WorkflowValues DEF FinishClean, Released, Kept, GotoFinish
<1>9. CASE FinishCleanSettle(s)
  BY <1>9, WorkflowValues DEF FinishCleanSettle, ClearDebt, RecordDebt,
        GotoFinish
<1>10. CASE FinishRelease(s)
  BY <1>10, WorkflowValues DEF FinishRelease, ReleaseInFlight, GotoFinish
<1>11. CASE FinishCompleteCleanup(s)
  BY <1>11, WorkflowValues DEF FinishCompleteCleanup, IsCurrentStage,
        GotoFinish
<1>12. CASE FinishOutcome(s)
  BY <1>12, WorkflowValues DEF FinishOutcome, IsCurrentStage, GotoFinish
<1>13. CASE FinishFail(s)
  BY <1>13, WorkflowValues DEF FinishFail, GotoFinish
<1>14. CASE FinishNoSpeech(s)
  BY <1>14, WorkflowValues DEF FinishNoSpeech, FinishApplies, ApplyOr,
        GotoFinish
<1>15. CASE FinishProcess(s)
  BY <1>15, WorkflowValues DEF FinishProcess, FinishApplies, ApplyOr,
        GotoFinish
<1>16. CASE FinishDeliver(s)
  BY <1>16, WorkflowValues DEF FinishDeliver, FinishApplies, ApplyOr,
        GotoFinish
<1>17. CASE FinishFinalize(s)
  BY <1>17, WorkflowValues DEF FinishFinalize, FinishApplies, ApplyOr,
        GotoFinish
<1>18. CASE FinishComplete(s)
  BY <1>18, WorkflowValues DEF FinishComplete, FinishApplies, ApplyOr,
        GotoFinish
<1>19. CASE FinishSetProcessing(s)
  BY <1>19, WorkflowValues DEF FinishSetProcessing, FinishSetStage,
        IsCurrentStage, SetStage, GotoFinish
<1>20. CASE FinishSetDelivering(s)
  BY <1>20, WorkflowValues DEF FinishSetDelivering, FinishSetStage,
        IsCurrentStage, SetStage, GotoFinish
<1>21. CASE FinishSetFinalizing(s)
  BY <1>21, WorkflowValues DEF FinishSetFinalizing, FinishSetStage,
        IsCurrentStage, SetStage, GotoFinish
<1>22. CASE FinishLlmAnswer(s)
  BY <1>22, WorkflowValues DEF FinishLlmAnswer, IsCurrentStage, GotoFinish
<1>23. CASE FinishBeginCommit(s)
  BY <1>23, WorkflowValues DEF FinishBeginCommit, BeginCommit, GotoFinish
<1>24. CASE FinishSkipCommit(s)
  BY <1>24, WorkflowValues DEF FinishSkipCommit, GotoFinish
<1>25. CASE FinishEndCommit(s)
  BY <1>25, WorkflowValues DEF FinishEndCommit, EndCommit, GotoFinish
<1>26. CASE FinishDelivered(s)
  BY <1>26, WorkflowValues DEF FinishDelivered, IsCurrentStage, GotoFinish
<1>27. CASE FinishSaved(s)
  BY <1>27, WorkflowValues DEF FinishSaved, IsCurrentStage, GotoFinish
<1>28. CASE FinishClear(s)
  BY <1>28, WorkflowValues DEF FinishClear, GotoFinish, ClearActive, NoActive
<1>. HIDE DEF PlaceInv
<1>. QED BY <1>1, <1>2, <1>3, <1>4, <1>5, <1>6, <1>7, <1>8, <1>9, <1>10, <1>11,
      <1>12, <1>13, <1>14, <1>15, <1>16, <1>17, <1>18, <1>19, <1>20, <1>21,
      <1>22, <1>23, <1>24, <1>25, <1>26, <1>27, <1>28 DEF FinishStep

(* A step of a cancel or a cleanup retry keeps PlaceInv. *)
LEMMA CleanerKeepsPlace ==
  ASSUME TypeInv, TypeInv', ExitInv, CaptureInv, FlowInv,
         NEW s \in Sessions, CleanerStep(s)
  PROVE  PlaceInv'
<1>. USE NoSessionIsNotASession DEF TypeInv, TypeOK, ExitInv, Subject,
         Resources, runtime, audio, fences, calls, quitLocals,
         PreparingWorkflow, ActiveWorkflow, PreparingStages, RuntimeStages,
         PlaceInv, StartPlace, WorkflowPlace, FinishPlace, CleanerPlace,
         QuitPlace, Prepared, Activated, InFlight, Reserving, Opening,
         Preflight, StartClaims, Preflighted, FinishClosing, FinishDiscarding,
         FinishClaims, FinishRecognizing, FinishDelivering, FinishFinalizing,
         HoldsCapture, CaptureInv, Drained, OpsQuiescent, FlowInv, LedgerInv,
         DebtIsRetryable
<1>1. CASE CleanerCapture(s)
  BY <1>1, WorkflowValues DEF CleanerCapture, Released, Kept, GotoCleaner
<1>2. CASE CleanerArtifact(s)
  BY <1>2, WorkflowValues DEF CleanerArtifact, Released, Kept, GotoCleaner
<1>3. CASE CleanerSettle(s)
  BY <1>3, WorkflowValues DEF CleanerSettle, GotoCleaner, ClearDebt, RecordDebt
<1>4. CASE CleanerRelease(s)
  BY <1>4, WorkflowValues DEF CleanerRelease, ReleaseInFlight, GotoCleaner
<1>5. CASE CleanerClose(s)
  BY <1>5, WorkflowValues DEF CleanerClose, GotoCleaner, RemovePreparing,
        NoPreparing, IsCurrentStage
<1>6. CASE CleanerCancelSession(s)
  BY <1>6, WorkflowValues DEF CleanerCancelSession, GotoCleaner
<1>7. CASE CleanerFailSession(s)
  BY <1>7, WorkflowValues DEF CleanerFailSession, GotoCleaner
<1>8. CASE CleanerClear(s)
  BY <1>8, WorkflowValues DEF CleanerClear, GotoCleaner, ClearActive, NoActive
<1>. HIDE DEF PlaceInv
<1>. QED BY <1>1, <1>2, <1>3, <1>4, <1>5, <1>6, <1>7, <1>8 DEF CleanerStep

(* A step of the recording deadline keeps PlaceInv. *)
LEMMA TimerKeepsPlace ==
  ASSUME TypeInv, TypeInv', ExitInv, CaptureInv, FlowInv,
         NEW s \in Sessions, TimerStep(s)
  PROVE  PlaceInv'
<1>. USE NoSessionIsNotASession DEF TypeInv, TypeOK, ExitInv, Subject,
         Resources, runtime, audio, fences, calls, quitLocals,
         PreparingWorkflow, ActiveWorkflow, PreparingStages, RuntimeStages,
         PlaceInv, StartPlace, WorkflowPlace, FinishPlace, CleanerPlace,
         QuitPlace, Prepared, Activated, InFlight, Reserving, Opening,
         Preflight, StartClaims, Preflighted, FinishClosing, FinishDiscarding,
         FinishClaims, FinishRecognizing, FinishDelivering, FinishFinalizing,
         HoldsCapture, CaptureInv, Drained, OpsQuiescent, FlowInv, LedgerInv,
         DebtIsRetryable
<1>1. CASE DeadlineElapses(s)
  BY <1>1, WorkflowValues DEF DeadlineElapses
<1>2. CASE RecordingLimitElapsed(s)
  BY <1>2, WorkflowValues DEF RecordingLimitElapsed, RememberLimit
<1>3. CASE DeadlineFinish(s)
  BY <1>3, WorkflowValues DEF DeadlineFinish, CanFinish, FinishClaimed,
        GotoFinish
<1>. HIDE DEF PlaceInv
<1>. QED BY <1>1, <1>2, <1>3 DEF TimerStep

(* A step of the exit leader keeps PlaceInv. *)
LEMMA QuitKeepsPlace ==
  ASSUME TypeInv, TypeInv', ExitInv, CaptureInv, FlowInv,
         QuitStep
  PROVE  PlaceInv'
<1>. USE NoSessionIsNotASession DEF TypeInv, TypeOK, ExitInv, Subject,
         Resources, runtime, audio, fences, calls, quitLocals,
         PreparingWorkflow, ActiveWorkflow, PreparingStages, RuntimeStages,
         PlaceInv, StartPlace, WorkflowPlace, FinishPlace, CleanerPlace,
         QuitPlace, Prepared, Activated, InFlight, Reserving, Opening,
         Preflight, StartClaims, Preflighted, FinishClosing, FinishDiscarding,
         FinishClaims, FinishRecognizing, FinishDelivering, FinishFinalizing,
         HoldsCapture, CaptureInv, Drained, OpsQuiescent, FlowInv, LedgerInv,
         DebtIsRetryable
<1>1. CASE QuitTake
  BY <1>1, WorkflowValues DEF QuitTake, NoPreparing, NoActive
<1>2. CASE QuitInvalidate
  BY <1>2, WorkflowValues DEF QuitInvalidate
<1>3. CASE QuitFail
  BY <1>3, WorkflowValues DEF QuitFail
<1>4. CASE QuitStage
  BY <1>4, WorkflowValues DEF QuitStage, HoldsCapture
<1>5. CASE QuitAsrCancel
  BY <1>5, WorkflowValues DEF QuitAsrCancel
<1>6. CASE QuitCapture
  BY <1>6, WorkflowValues DEF QuitCapture, Released, Kept
<1>7. CASE QuitArtifact
  BY <1>7, WorkflowValues DEF QuitArtifact, Released, Kept
<1>8. CASE QuitSettle
  BY <1>8, WorkflowValues DEF QuitSettle, ClearDebt, RecordDebt
<1>9. CASE QuitDrainOps
  BY <1>9, WorkflowValues DEF QuitDrainOps
<1>10. CASE QuitDrainCommits
  BY <1>10, WorkflowValues DEF QuitDrainCommits
<1>11. CASE QuitSnapshot
  BY <1>11, WorkflowValues DEF QuitSnapshot
<1>12. CASE QuitRetried
  BY <1>12, WorkflowValues DEF QuitRetried
<1>13. CASE QuitVerdict
  <2>1. CASE debts = {}
    <3>1. OpsQuiescent
      BY <1>13 DEF QuitVerdict, Drained
    <3>2. /\ heldPreparing'.id = NoSession /\ heldActive'.id = NoSession
          /\ UNCHANGED <<preparing, active, start, finish, cleaner, starting>>
          /\ quit' = "done" /\ UNCHANGED <<quitting, opsOpen>>
      BY <1>13, <2>1 DEF QuitVerdict, NoPreparing, NoActive
    <3>. QED
      BY <1>13, <3>1, <3>2
  <2>2. CASE debts # {}
    <3>1. preparing' = heldPreparing /\ active' = heldActive /\ quit' = "idle"
      BY <1>13, <2>2 DEF QuitVerdict
    <3>2. heldPreparing'.id = NoSession /\ heldActive'.id = NoSession
      BY <1>13 DEF QuitVerdict, NoPreparing, NoActive
    <3>. QED
      BY <1>13, <2>2, <3>1, <3>2 DEF QuitVerdict
  <2>. QED
    BY <2>1, <2>2
<1>14. ASSUME NEW s \in Sessions, NEW resource \in Resources,
             QuitRetry(s, resource)
      PROVE  PlaceInv'
  BY <1>14, WorkflowValues DEF QuitRetry, Released, Kept, ClearDebt, RecordDebt
<1>. HIDE DEF PlaceInv
<1>. QED BY <1>1, <1>2, <1>3, <1>4, <1>5, <1>6, <1>7, <1>8, <1>9, <1>10, <1>11,
      <1>12, <1>13, <1>14 DEF QuitStep

(* A step of the user, the shell and the outside keeps LedgerInv. *)
LEMMA RequestKeepsLedger ==
  ASSUME TypeInv, TypeInv', ExitInv, CaptureInv, FlowInv,
         NEW s \in Sessions, Request(s)
  PROVE  LedgerInv'
<1>. USE NoSessionIsNotASession DEF TypeInv, TypeOK, ExitInv, Subject,
         Resources, runtime, audio, fences, calls, quitLocals,
         PreparingWorkflow, ActiveWorkflow, PreparingStages, RuntimeStages,
         PlaceInv, StartPlace, WorkflowPlace, FinishPlace, CleanerPlace,
         QuitPlace, Prepared, Activated, InFlight, Reserving, Opening,
         Preflight, StartClaims, Preflighted, FinishClosing, FinishDiscarding,
         FinishClaims, FinishRecognizing, FinishDelivering, FinishFinalizing,
         HoldsCapture, FlowInv, LedgerInv, DebtIsRetryable, CaptureInv,
         OpsQuiescent
<1>1. CASE StartEnter(s)
  BY <1>1, WorkflowValues DEF StartEnter, GotoStart
<1>2. CASE StartPrepare(s)
  BY <1>2, WorkflowValues DEF StartPrepare, NoPreparing, GotoStart, GiveUp
<1>3. CASE FinishRequest(s)
  BY <1>3, WorkflowValues DEF FinishRequest, CanFinish, FinishClaimed,
        GotoFinish
<1>4. CASE CancelRequest(s)
  <2>1. CASE preparing.id = s
    <3>1. active' = active /\ active.id = NoSession
      BY <1>4, <2>1 DEF CancelRequest
    <3>2. /\ preparing'.id = s /\ preparing'.stage = "Cancelling"
          /\ preparing'.cleanup = "inFlight"
      BY <1>4, <2>1, WorkflowValues DEF CancelRequest
    <3>. QED
      BY <1>4, <2>1, <3>1, <3>2 DEF CancelRequest, GotoCleaner
  <2>2. CASE active.id = s
    <3>1. preparing' = preparing
      BY <1>4, <2>2 DEF CancelRequest
    <3>2. /\ active'.id = s /\ active'.stage = "Cancelling"
          /\ active'.cleanup = "inFlight"
      BY <1>4, <2>2, WorkflowValues DEF CancelRequest
    <3>. QED
      BY <1>4, <2>2, <3>1, <3>2 DEF CancelRequest, GotoCleaner
  <2>. QED
    BY <1>4, <2>1, <2>2 DEF CancelRequest
<1>5. CASE RetryRequest(s)
  BY <1>5, WorkflowValues DEF RetryRequest, GotoCleaner
<1>6. CASE FinishAsrAnswer(s)
  BY <1>6, WorkflowValues DEF FinishAsrAnswer, GotoFinish
<1>. HIDE DEF LedgerInv
<1>. QED BY <1>1, <1>2, <1>3, <1>4, <1>5, <1>6 DEF Request

(* A step of start keeps LedgerInv. *)
LEMMA StartKeepsLedger ==
  ASSUME TypeInv, TypeInv', ExitInv, CaptureInv, FlowInv,
         NEW s \in Sessions, StartStep(s)
  PROVE  LedgerInv'
<1>. USE NoSessionIsNotASession DEF TypeInv, TypeOK, ExitInv, Subject,
         Resources, runtime, audio, fences, calls, quitLocals,
         PreparingWorkflow, ActiveWorkflow, PreparingStages, RuntimeStages,
         PlaceInv, StartPlace, WorkflowPlace, FinishPlace, CleanerPlace,
         QuitPlace, Prepared, Activated, InFlight, Reserving, Opening,
         Preflight, StartClaims, Preflighted, FinishClosing, FinishDiscarding,
         FinishClaims, FinishRecognizing, FinishDelivering, FinishFinalizing,
         HoldsCapture, FlowInv, LedgerInv, DebtIsRetryable, CaptureInv,
         OpsQuiescent
<1>1. CASE StartReserve(s)
  BY <1>1, WorkflowValues DEF StartReserve, HasActiveSession, GotoStart
<1>2. CASE StartSettings(s)
  BY <1>2, WorkflowValues DEF StartSettings, ReservedCall,
        StartReservationIsCurrent, GotoStart, GiveUp
<1>3. CASE StartRoute(s)
  BY <1>3, WorkflowValues DEF StartRoute, StartReservationIsCurrent, GotoStart
<1>4. CASE StartTarget(s)
  BY <1>4, WorkflowValues DEF StartTarget, ReservedCall,
        StartReservationIsCurrent, GotoStart, GiveUp
<1>5. CASE StartSelection(s)
  BY <1>5, WorkflowValues DEF StartSelection, ReservedCall,
        StartReservationIsCurrent, GotoStart, GiveUp
<1>6. CASE StartCue(s)
  BY <1>6, WorkflowValues DEF StartCue, IsCurrentPreparingStart, GotoStart
<1>7. CASE StartOpen(s)
  BY <1>7, WorkflowValues DEF StartOpen, GotoStart, RemovePreparing,
        NoPreparing
<1>8. CASE StartPublish(s)
  BY <1>8, WorkflowValues DEF StartPublish, IsCurrentPreparingStart, GotoStart
<1>9. CASE StartAbandon(s)
  BY <1>9, WorkflowValues DEF StartAbandon, Released, Kept, GotoStart
<1>10. CASE StartAbandonSettle(s)
  BY <1>10, WorkflowValues DEF StartAbandonSettle, GotoStart, ClearDebt,
        RecordDebt
<1>11. CASE StartDeadline(s)
  BY <1>11, WorkflowValues DEF StartDeadline, GotoStart, ClaimOrLeave,
        IsCurrentPreparingCapture, ClaimPreparingCapture
<1>12. CASE StartAttach(s)
  BY <1>12, WorkflowValues DEF StartAttach, IsCurrentPreparingCapture,
        GotoStart
<1>13. CASE StartShow(s)
  BY <1>13, WorkflowValues DEF StartShow, IsCurrentPreparingCapture, GotoStart,
        ClaimOrLeave, ClaimPreparingCapture
<1>14. CASE StartJoin(s)
  BY <1>14, WorkflowValues DEF StartJoin, IsCurrentPreparingCapture, GotoStart,
        ClaimOrLeave, ClaimPreparingCapture
<1>15. CASE StartTry(s)
  BY <1>15, WorkflowValues DEF StartTry, GotoStart, ClaimOrLeave,
        IsCurrentPreparingCapture, ClaimPreparingCapture
<1>16. CASE StartUpdate(s)
  BY <1>16, WorkflowValues DEF StartUpdate, IsCurrentPreparingCapture,
        ClaimPreparingCapture, GotoStart
<1>17. CASE StartActivate(s)
  BY <1>17, WorkflowValues DEF StartActivate, NoPreparing,
        IsCurrentPreparingCapture, GotoStart, NoActive
<1>18. CASE StartPreflight(s)
  BY <1>18, WorkflowValues DEF StartPreflight, GotoStart
<1>19. CASE StartFail(s)
  BY <1>19, WorkflowValues DEF StartFail, GotoStart
<1>20. CASE StartCancel(s)
  BY <1>20, WorkflowValues DEF StartCancel, Released, Kept, GotoStart
<1>21. CASE StartCancelSettle(s)
  BY <1>21, WorkflowValues DEF StartCancelSettle, GotoStart, ClearDebt,
        RecordDebt
<1>22. CASE StartRelease(s)
  BY <1>22, WorkflowValues DEF StartRelease, ReleaseInFlight, GotoStart
<1>23. CASE StartRemove(s)
  BY <1>23, WorkflowValues DEF StartRemove, GotoStart, RemovePreparing,
        NoPreparing
<1>24. CASE StartReject(s)
  BY <1>24, WorkflowValues DEF StartReject, GotoStart
<1>25. CASE StartLimit(s)
  BY <1>25, WorkflowValues DEF StartLimit, GotoStart, CanFinish, FinishClaimed,
        GotoFinish
<1>26. CASE StartAwait(s)
  BY <1>26, WorkflowValues DEF StartAwait, GotoStart
<1>. HIDE DEF LedgerInv
<1>. QED BY <1>1, <1>2, <1>3, <1>4, <1>5, <1>6, <1>7, <1>8, <1>9, <1>10, <1>11,
      <1>12, <1>13, <1>14, <1>15, <1>16, <1>17, <1>18, <1>19, <1>20, <1>21,
      <1>22, <1>23, <1>24, <1>25, <1>26 DEF StartStep

(* A step of finish_recording keeps LedgerInv. *)
LEMMA FinishKeepsLedger ==
  ASSUME TypeInv, TypeInv', ExitInv, CaptureInv, FlowInv,
         NEW s \in Sessions, FinishStep(s)
  PROVE  LedgerInv'
<1>. USE NoSessionIsNotASession DEF TypeInv, TypeOK, ExitInv, Subject,
         Resources, runtime, audio, fences, calls, quitLocals,
         PreparingWorkflow, ActiveWorkflow, PreparingStages, RuntimeStages,
         PlaceInv, StartPlace, WorkflowPlace, FinishPlace, CleanerPlace,
         QuitPlace, Prepared, Activated, InFlight, Reserving, Opening,
         Preflight, StartClaims, Preflighted, FinishClosing, FinishDiscarding,
         FinishClaims, FinishRecognizing, FinishDelivering, FinishFinalizing,
         HoldsCapture, FlowInv, LedgerInv, DebtIsRetryable, CaptureInv,
         OpsQuiescent
<1>1. CASE FinishAudio(s)
  BY <1>1, WorkflowValues DEF FinishAudio, GotoFinish
<1>2. CASE FinishUnusable(s)
  BY <1>2, WorkflowValues DEF FinishUnusable, IsCurrentStage, GotoFinish,
        GotoCleaner
<1>3. CASE FinishCheck(s)
  BY <1>3, WorkflowValues DEF FinishCheck, IsCurrentStage, GotoFinish
<1>4. CASE FinishApply(s)
  BY <1>4, WorkflowValues DEF FinishApply, ApplyOr, GotoFinish
<1>5. CASE FinishRecognize(s)
  BY <1>5, WorkflowValues DEF FinishRecognize, IsCurrentStage, GotoFinish
<1>6. CASE FinishSubmit(s)
  BY <1>6, WorkflowValues DEF FinishSubmit, GotoFinish
<1>7. CASE FinishBeginCleanup(s)
  BY <1>7, WorkflowValues DEF FinishBeginCleanup, IsCurrentStage, GotoFinish
<1>8. CASE FinishClean(s)
  BY <1>8, WorkflowValues DEF FinishClean, Released, Kept, GotoFinish
<1>9. CASE FinishCleanSettle(s)
  BY <1>9, WorkflowValues DEF FinishCleanSettle, ClearDebt, RecordDebt,
        GotoFinish
<1>10. CASE FinishRelease(s)
  BY <1>10, WorkflowValues DEF FinishRelease, ReleaseInFlight, GotoFinish
<1>11. CASE FinishCompleteCleanup(s)
  BY <1>11, WorkflowValues DEF FinishCompleteCleanup, IsCurrentStage,
        GotoFinish
<1>12. CASE FinishOutcome(s)
  BY <1>12, WorkflowValues DEF FinishOutcome, IsCurrentStage, GotoFinish
<1>13. CASE FinishFail(s)
  BY <1>13, WorkflowValues DEF FinishFail, GotoFinish
<1>14. CASE FinishNoSpeech(s)
  BY <1>14, WorkflowValues DEF FinishNoSpeech, FinishApplies, ApplyOr,
        GotoFinish
<1>15. CASE FinishProcess(s)
  BY <1>15, WorkflowValues DEF FinishProcess, FinishApplies, ApplyOr,
        GotoFinish
<1>16. CASE FinishDeliver(s)
  BY <1>16, WorkflowValues DEF FinishDeliver, FinishApplies, ApplyOr,
        GotoFinish
<1>17. CASE FinishFinalize(s)
  BY <1>17, WorkflowValues DEF FinishFinalize, FinishApplies, ApplyOr,
        GotoFinish
<1>18. CASE FinishComplete(s)
  BY <1>18, WorkflowValues DEF FinishComplete, FinishApplies, ApplyOr,
        GotoFinish
<1>19. CASE FinishSetProcessing(s)
  BY <1>19, WorkflowValues DEF FinishSetProcessing, FinishSetStage,
        IsCurrentStage, SetStage, GotoFinish
<1>20. CASE FinishSetDelivering(s)
  BY <1>20, WorkflowValues DEF FinishSetDelivering, FinishSetStage,
        IsCurrentStage, SetStage, GotoFinish
<1>21. CASE FinishSetFinalizing(s)
  BY <1>21, WorkflowValues DEF FinishSetFinalizing, FinishSetStage,
        IsCurrentStage, SetStage, GotoFinish
<1>22. CASE FinishLlmAnswer(s)
  BY <1>22, WorkflowValues DEF FinishLlmAnswer, IsCurrentStage, GotoFinish
<1>23. CASE FinishBeginCommit(s)
  BY <1>23, WorkflowValues DEF FinishBeginCommit, BeginCommit, GotoFinish
<1>24. CASE FinishSkipCommit(s)
  BY <1>24, WorkflowValues DEF FinishSkipCommit, GotoFinish
<1>25. CASE FinishEndCommit(s)
  BY <1>25, WorkflowValues DEF FinishEndCommit, EndCommit, GotoFinish
<1>26. CASE FinishDelivered(s)
  BY <1>26, WorkflowValues DEF FinishDelivered, IsCurrentStage, GotoFinish
<1>27. CASE FinishSaved(s)
  BY <1>27, WorkflowValues DEF FinishSaved, IsCurrentStage, GotoFinish
<1>28. CASE FinishClear(s)
  BY <1>28, WorkflowValues DEF FinishClear, GotoFinish, ClearActive, NoActive
<1>. HIDE DEF LedgerInv
<1>. QED BY <1>1, <1>2, <1>3, <1>4, <1>5, <1>6, <1>7, <1>8, <1>9, <1>10, <1>11,
      <1>12, <1>13, <1>14, <1>15, <1>16, <1>17, <1>18, <1>19, <1>20, <1>21,
      <1>22, <1>23, <1>24, <1>25, <1>26, <1>27, <1>28 DEF FinishStep

(* A step of a cancel or a cleanup retry keeps LedgerInv. *)
LEMMA CleanerKeepsLedger ==
  ASSUME TypeInv, TypeInv', ExitInv, CaptureInv, FlowInv,
         NEW s \in Sessions, CleanerStep(s)
  PROVE  LedgerInv'
<1>. USE NoSessionIsNotASession DEF TypeInv, TypeOK, ExitInv, Subject,
         Resources, runtime, audio, fences, calls, quitLocals,
         PreparingWorkflow, ActiveWorkflow, PreparingStages, RuntimeStages,
         PlaceInv, StartPlace, WorkflowPlace, FinishPlace, CleanerPlace,
         QuitPlace, Prepared, Activated, InFlight, Reserving, Opening,
         Preflight, StartClaims, Preflighted, FinishClosing, FinishDiscarding,
         FinishClaims, FinishRecognizing, FinishDelivering, FinishFinalizing,
         HoldsCapture, FlowInv, LedgerInv, DebtIsRetryable, CaptureInv,
         OpsQuiescent
<1>1. CASE CleanerCapture(s)
  BY <1>1, WorkflowValues DEF CleanerCapture, Released, Kept, GotoCleaner
<1>2. CASE CleanerArtifact(s)
  BY <1>2, WorkflowValues DEF CleanerArtifact, Released, Kept, GotoCleaner
<1>3. CASE CleanerSettle(s)
  BY <1>3, WorkflowValues DEF CleanerSettle, GotoCleaner, ClearDebt, RecordDebt
<1>4. CASE CleanerRelease(s)
  BY <1>4, WorkflowValues DEF CleanerRelease, ReleaseInFlight, GotoCleaner
<1>5. CASE CleanerClose(s)
  BY <1>5, WorkflowValues DEF CleanerClose, GotoCleaner, RemovePreparing,
        NoPreparing, IsCurrentStage
<1>6. CASE CleanerCancelSession(s)
  BY <1>6, WorkflowValues DEF CleanerCancelSession, GotoCleaner
<1>7. CASE CleanerFailSession(s)
  BY <1>7, WorkflowValues DEF CleanerFailSession, GotoCleaner
<1>8. CASE CleanerClear(s)
  BY <1>8, WorkflowValues DEF CleanerClear, GotoCleaner, ClearActive, NoActive
<1>. HIDE DEF LedgerInv
<1>. QED BY <1>1, <1>2, <1>3, <1>4, <1>5, <1>6, <1>7, <1>8 DEF CleanerStep

(* A step of the recording deadline keeps LedgerInv. *)
LEMMA TimerKeepsLedger ==
  ASSUME TypeInv, TypeInv', ExitInv, CaptureInv, FlowInv,
         NEW s \in Sessions, TimerStep(s)
  PROVE  LedgerInv'
<1>. USE NoSessionIsNotASession DEF TypeInv, TypeOK, ExitInv, Subject,
         Resources, runtime, audio, fences, calls, quitLocals,
         PreparingWorkflow, ActiveWorkflow, PreparingStages, RuntimeStages,
         PlaceInv, StartPlace, WorkflowPlace, FinishPlace, CleanerPlace,
         QuitPlace, Prepared, Activated, InFlight, Reserving, Opening,
         Preflight, StartClaims, Preflighted, FinishClosing, FinishDiscarding,
         FinishClaims, FinishRecognizing, FinishDelivering, FinishFinalizing,
         HoldsCapture, FlowInv, LedgerInv, DebtIsRetryable, CaptureInv,
         OpsQuiescent
<1>1. CASE DeadlineElapses(s)
  BY <1>1, WorkflowValues DEF DeadlineElapses
<1>2. CASE RecordingLimitElapsed(s)
  BY <1>2, WorkflowValues DEF RecordingLimitElapsed, RememberLimit
<1>3. CASE DeadlineFinish(s)
  BY <1>3, WorkflowValues DEF DeadlineFinish, CanFinish, FinishClaimed,
        GotoFinish
<1>. HIDE DEF LedgerInv
<1>. QED BY <1>1, <1>2, <1>3 DEF TimerStep

(* A step of the exit leader keeps LedgerInv. *)
LEMMA QuitKeepsLedger ==
  ASSUME TypeInv, TypeInv', ExitInv, CaptureInv, FlowInv,
         QuitStep
  PROVE  LedgerInv'
<1>. USE NoSessionIsNotASession DEF TypeInv, TypeOK, ExitInv, Subject,
         Resources, runtime, audio, fences, calls, quitLocals,
         PreparingWorkflow, ActiveWorkflow, PreparingStages, RuntimeStages,
         PlaceInv, StartPlace, WorkflowPlace, FinishPlace, CleanerPlace,
         QuitPlace, Prepared, Activated, InFlight, Reserving, Opening,
         Preflight, StartClaims, Preflighted, FinishClosing, FinishDiscarding,
         FinishClaims, FinishRecognizing, FinishDelivering, FinishFinalizing,
         HoldsCapture, FlowInv, LedgerInv, DebtIsRetryable, CaptureInv,
         OpsQuiescent
<1>1. CASE QuitTake
  BY <1>1, WorkflowValues DEF QuitTake, NoPreparing, NoActive
<1>2. CASE QuitInvalidate
  BY <1>2, WorkflowValues DEF QuitInvalidate
<1>3. CASE QuitFail
  BY <1>3, WorkflowValues DEF QuitFail
<1>4. CASE QuitStage
  BY <1>4, WorkflowValues DEF QuitStage, HoldsCapture
<1>5. CASE QuitAsrCancel
  BY <1>5, WorkflowValues DEF QuitAsrCancel
<1>6. CASE QuitCapture
  BY <1>6, WorkflowValues DEF QuitCapture, Released, Kept
<1>7. CASE QuitArtifact
  BY <1>7, WorkflowValues DEF QuitArtifact, Released, Kept
<1>8. CASE QuitSettle
  BY <1>8, WorkflowValues DEF QuitSettle, ClearDebt, RecordDebt
<1>9. CASE QuitDrainOps
  BY <1>9, WorkflowValues DEF QuitDrainOps
<1>10. CASE QuitDrainCommits
  BY <1>10, WorkflowValues DEF QuitDrainCommits
<1>11. CASE QuitSnapshot
  BY <1>11, WorkflowValues DEF QuitSnapshot
<1>12. CASE QuitRetried
  BY <1>12, WorkflowValues DEF QuitRetried
<1>13. CASE QuitVerdict
  BY <1>13, WorkflowValues DEF QuitVerdict, NoPreparing, NoActive
<1>14. ASSUME NEW s \in Sessions, NEW resource \in Resources,
             QuitRetry(s, resource)
      PROVE  LedgerInv'
  BY <1>14, WorkflowValues DEF QuitRetry, Released, Kept, ClearDebt, RecordDebt
<1>. HIDE DEF LedgerInv
<1>. QED BY <1>1, <1>2, <1>3, <1>4, <1>5, <1>6, <1>7, <1>8, <1>9, <1>10, <1>11,
      <1>12, <1>13, <1>14 DEF QuitStep

(* A step of the user, the shell and the outside keeps SlotInv. *)
LEMMA RequestKeepsSlot ==
  ASSUME TypeInv, TypeInv', ExitInv, CaptureInv, FlowInv,
         NEW s \in Sessions, Request(s)
  PROVE  SlotInv'
<1>. USE NoSessionIsNotASession DEF TypeInv, TypeOK, ExitInv, Subject,
         Resources, runtime, audio, fences, calls, quitLocals,
         PreparingWorkflow, ActiveWorkflow, PreparingStages, RuntimeStages,
         PlaceInv, StartPlace, WorkflowPlace, FinishPlace, CleanerPlace,
         QuitPlace, Prepared, Activated, InFlight, Reserving, Opening,
         Preflight, StartClaims, Preflighted, FinishClosing, FinishDiscarding,
         FinishClaims, FinishRecognizing, FinishDelivering, FinishFinalizing,
         HoldsCapture, FlowInv, SlotInv, Slots, EmptySlot, Occupied, Applied,
         Answer, Successor, LivePhases, Apply
<1>1. CASE StartEnter(s)
  BY <1>1, WorkflowValues DEF StartEnter, GotoStart
<1>2. CASE StartPrepare(s)
  BY <1>2, WorkflowValues DEF StartPrepare, NoPreparing, GotoStart, GiveUp
<1>3. CASE FinishRequest(s)
  BY <1>3, WorkflowValues DEF FinishRequest, CanFinish, FinishClaimed,
        GotoFinish
<1>4. CASE CancelRequest(s)
  BY <1>4, WorkflowValues DEF CancelRequest, GotoCleaner
<1>5. CASE RetryRequest(s)
  BY <1>5, WorkflowValues DEF RetryRequest, GotoCleaner
<1>6. CASE FinishAsrAnswer(s)
  BY <1>6, WorkflowValues DEF FinishAsrAnswer, GotoFinish
<1>. HIDE DEF SlotInv
<1>. QED BY <1>1, <1>2, <1>3, <1>4, <1>5, <1>6 DEF Request

(* A step of start keeps SlotInv. *)
LEMMA StartKeepsSlot ==
  ASSUME TypeInv, TypeInv', ExitInv, CaptureInv, FlowInv,
         NEW s \in Sessions, StartStep(s)
  PROVE  SlotInv'
<1>. USE NoSessionIsNotASession DEF TypeInv, TypeOK, ExitInv, Subject,
         Resources, runtime, audio, fences, calls, quitLocals,
         PreparingWorkflow, ActiveWorkflow, PreparingStages, RuntimeStages,
         PlaceInv, StartPlace, WorkflowPlace, FinishPlace, CleanerPlace,
         QuitPlace, Prepared, Activated, InFlight, Reserving, Opening,
         Preflight, StartClaims, Preflighted, FinishClosing, FinishDiscarding,
         FinishClaims, FinishRecognizing, FinishDelivering, FinishFinalizing,
         HoldsCapture, FlowInv, SlotInv, Slots, EmptySlot, Occupied, Applied,
         Answer, Successor, LivePhases, Apply
<1>1. CASE StartReserve(s)
  BY <1>1, WorkflowValues DEF StartReserve, HasActiveSession, GotoStart
<1>2. CASE StartSettings(s)
  BY <1>2, WorkflowValues DEF StartSettings, ReservedCall,
        StartReservationIsCurrent, GotoStart, GiveUp
<1>3. CASE StartRoute(s)
  BY <1>3, WorkflowValues DEF StartRoute, StartReservationIsCurrent, GotoStart
<1>4. CASE StartTarget(s)
  BY <1>4, WorkflowValues DEF StartTarget, ReservedCall,
        StartReservationIsCurrent, GotoStart, GiveUp
<1>5. CASE StartSelection(s)
  BY <1>5, WorkflowValues DEF StartSelection, ReservedCall,
        StartReservationIsCurrent, GotoStart, GiveUp
<1>6. CASE StartCue(s)
  BY <1>6, WorkflowValues DEF StartCue, IsCurrentPreparingStart, GotoStart
<1>7. CASE StartOpen(s)
  BY <1>7, WorkflowValues DEF StartOpen, GotoStart, RemovePreparing,
        NoPreparing
<1>8. CASE StartPublish(s)
  BY <1>8, WorkflowValues DEF StartPublish, IsCurrentPreparingStart, GotoStart
<1>9. CASE StartAbandon(s)
  BY <1>9, WorkflowValues DEF StartAbandon, Released, Kept, GotoStart
<1>10. CASE StartAbandonSettle(s)
  BY <1>10, WorkflowValues DEF StartAbandonSettle, GotoStart, ClearDebt,
        RecordDebt
<1>11. CASE StartDeadline(s)
  BY <1>11, WorkflowValues DEF StartDeadline, GotoStart, ClaimOrLeave,
        IsCurrentPreparingCapture, ClaimPreparingCapture
<1>12. CASE StartAttach(s)
  BY <1>12, WorkflowValues DEF StartAttach, IsCurrentPreparingCapture,
        GotoStart
<1>13. CASE StartShow(s)
  BY <1>13, WorkflowValues DEF StartShow, IsCurrentPreparingCapture, GotoStart,
        ClaimOrLeave, ClaimPreparingCapture
<1>14. CASE StartJoin(s)
  BY <1>14, WorkflowValues DEF StartJoin, IsCurrentPreparingCapture, GotoStart,
        ClaimOrLeave, ClaimPreparingCapture
<1>15. CASE StartTry(s)
  BY <1>15, WorkflowValues DEF StartTry, GotoStart, ClaimOrLeave,
        IsCurrentPreparingCapture, ClaimPreparingCapture
<1>16. CASE StartUpdate(s)
  BY <1>16, WorkflowValues DEF StartUpdate, IsCurrentPreparingCapture,
        ClaimPreparingCapture, GotoStart
<1>17. CASE StartActivate(s)
  BY <1>17, WorkflowValues DEF StartActivate, NoPreparing,
        IsCurrentPreparingCapture, GotoStart, NoActive
<1>18. CASE StartPreflight(s)
  BY <1>18, WorkflowValues DEF StartPreflight, GotoStart
<1>19. CASE StartFail(s)
  BY <1>19, WorkflowValues DEF StartFail, GotoStart
<1>20. CASE StartCancel(s)
  BY <1>20, WorkflowValues DEF StartCancel, Released, Kept, GotoStart
<1>21. CASE StartCancelSettle(s)
  BY <1>21, WorkflowValues DEF StartCancelSettle, GotoStart, ClearDebt,
        RecordDebt
<1>22. CASE StartRelease(s)
  BY <1>22, WorkflowValues DEF StartRelease, ReleaseInFlight, GotoStart
<1>23. CASE StartRemove(s)
  BY <1>23, WorkflowValues DEF StartRemove, GotoStart, RemovePreparing,
        NoPreparing
<1>24. CASE StartReject(s)
  BY <1>24, WorkflowValues DEF StartReject, GotoStart
<1>25. CASE StartLimit(s)
  BY <1>25, WorkflowValues DEF StartLimit, GotoStart, CanFinish, FinishClaimed,
        GotoFinish
<1>26. CASE StartAwait(s)
  BY <1>26, WorkflowValues DEF StartAwait, GotoStart
<1>. HIDE DEF SlotInv
<1>. QED BY <1>1, <1>2, <1>3, <1>4, <1>5, <1>6, <1>7, <1>8, <1>9, <1>10, <1>11,
      <1>12, <1>13, <1>14, <1>15, <1>16, <1>17, <1>18, <1>19, <1>20, <1>21,
      <1>22, <1>23, <1>24, <1>25, <1>26 DEF StartStep

(* A step of finish_recording keeps SlotInv. *)
LEMMA FinishKeepsSlot ==
  ASSUME TypeInv, TypeInv', ExitInv, CaptureInv, FlowInv,
         NEW s \in Sessions, FinishStep(s)
  PROVE  SlotInv'
<1>. USE NoSessionIsNotASession DEF TypeInv, TypeOK, ExitInv, Subject,
         Resources, runtime, audio, fences, calls, quitLocals,
         PreparingWorkflow, ActiveWorkflow, PreparingStages, RuntimeStages,
         PlaceInv, StartPlace, WorkflowPlace, FinishPlace, CleanerPlace,
         QuitPlace, Prepared, Activated, InFlight, Reserving, Opening,
         Preflight, StartClaims, Preflighted, FinishClosing, FinishDiscarding,
         FinishClaims, FinishRecognizing, FinishDelivering, FinishFinalizing,
         HoldsCapture, FlowInv, SlotInv, Slots, EmptySlot, Occupied, Applied,
         Answer, Successor, LivePhases, Apply
<1>1. CASE FinishAudio(s)
  BY <1>1, WorkflowValues DEF FinishAudio, GotoFinish
<1>2. CASE FinishUnusable(s)
  BY <1>2, WorkflowValues DEF FinishUnusable, IsCurrentStage, GotoFinish,
        GotoCleaner
<1>3. CASE FinishCheck(s)
  BY <1>3, WorkflowValues DEF FinishCheck, IsCurrentStage, GotoFinish
<1>4. CASE FinishApply(s)
  BY <1>4, WorkflowValues DEF FinishApply, ApplyOr, GotoFinish
<1>5. CASE FinishRecognize(s)
  BY <1>5, WorkflowValues DEF FinishRecognize, IsCurrentStage, GotoFinish
<1>6. CASE FinishSubmit(s)
  BY <1>6, WorkflowValues DEF FinishSubmit, GotoFinish
<1>7. CASE FinishBeginCleanup(s)
  BY <1>7, WorkflowValues DEF FinishBeginCleanup, IsCurrentStage, GotoFinish
<1>8. CASE FinishClean(s)
  BY <1>8, WorkflowValues DEF FinishClean, Released, Kept, GotoFinish
<1>9. CASE FinishCleanSettle(s)
  BY <1>9, WorkflowValues DEF FinishCleanSettle, ClearDebt, RecordDebt,
        GotoFinish
<1>10. CASE FinishRelease(s)
  BY <1>10, WorkflowValues DEF FinishRelease, ReleaseInFlight, GotoFinish
<1>11. CASE FinishCompleteCleanup(s)
  BY <1>11, WorkflowValues DEF FinishCompleteCleanup, IsCurrentStage,
        GotoFinish
<1>12. CASE FinishOutcome(s)
  BY <1>12, WorkflowValues DEF FinishOutcome, IsCurrentStage, GotoFinish
<1>13. CASE FinishFail(s)
  BY <1>13, WorkflowValues DEF FinishFail, GotoFinish
<1>14. CASE FinishNoSpeech(s)
  BY <1>14, WorkflowValues DEF FinishNoSpeech, FinishApplies, ApplyOr,
        GotoFinish
<1>15. CASE FinishProcess(s)
  BY <1>15, WorkflowValues DEF FinishProcess, FinishApplies, ApplyOr,
        GotoFinish
<1>16. CASE FinishDeliver(s)
  BY <1>16, WorkflowValues DEF FinishDeliver, FinishApplies, ApplyOr,
        GotoFinish
<1>17. CASE FinishFinalize(s)
  BY <1>17, WorkflowValues DEF FinishFinalize, FinishApplies, ApplyOr,
        GotoFinish
<1>18. CASE FinishComplete(s)
  BY <1>18, WorkflowValues DEF FinishComplete, FinishApplies, ApplyOr,
        GotoFinish
<1>19. CASE FinishSetProcessing(s)
  BY <1>19, WorkflowValues DEF FinishSetProcessing, FinishSetStage,
        IsCurrentStage, SetStage, GotoFinish
<1>20. CASE FinishSetDelivering(s)
  BY <1>20, WorkflowValues DEF FinishSetDelivering, FinishSetStage,
        IsCurrentStage, SetStage, GotoFinish
<1>21. CASE FinishSetFinalizing(s)
  BY <1>21, WorkflowValues DEF FinishSetFinalizing, FinishSetStage,
        IsCurrentStage, SetStage, GotoFinish
<1>22. CASE FinishLlmAnswer(s)
  BY <1>22, WorkflowValues DEF FinishLlmAnswer, IsCurrentStage, GotoFinish
<1>23. CASE FinishBeginCommit(s)
  BY <1>23, WorkflowValues DEF FinishBeginCommit, BeginCommit, GotoFinish
<1>24. CASE FinishSkipCommit(s)
  BY <1>24, WorkflowValues DEF FinishSkipCommit, GotoFinish
<1>25. CASE FinishEndCommit(s)
  BY <1>25, WorkflowValues DEF FinishEndCommit, EndCommit, GotoFinish
<1>26. CASE FinishDelivered(s)
  BY <1>26, WorkflowValues DEF FinishDelivered, IsCurrentStage, GotoFinish
<1>27. CASE FinishSaved(s)
  BY <1>27, WorkflowValues DEF FinishSaved, IsCurrentStage, GotoFinish
<1>28. CASE FinishClear(s)
  BY <1>28, WorkflowValues DEF FinishClear, GotoFinish, ClearActive, NoActive
<1>. HIDE DEF SlotInv
<1>. QED BY <1>1, <1>2, <1>3, <1>4, <1>5, <1>6, <1>7, <1>8, <1>9, <1>10, <1>11,
      <1>12, <1>13, <1>14, <1>15, <1>16, <1>17, <1>18, <1>19, <1>20, <1>21,
      <1>22, <1>23, <1>24, <1>25, <1>26, <1>27, <1>28 DEF FinishStep

(* A step of a cancel or a cleanup retry keeps SlotInv. *)
LEMMA CleanerKeepsSlot ==
  ASSUME TypeInv, TypeInv', ExitInv, CaptureInv, FlowInv,
         NEW s \in Sessions, CleanerStep(s)
  PROVE  SlotInv'
<1>. USE NoSessionIsNotASession DEF TypeInv, TypeOK, ExitInv, Subject,
         Resources, runtime, audio, fences, calls, quitLocals,
         PreparingWorkflow, ActiveWorkflow, PreparingStages, RuntimeStages,
         PlaceInv, StartPlace, WorkflowPlace, FinishPlace, CleanerPlace,
         QuitPlace, Prepared, Activated, InFlight, Reserving, Opening,
         Preflight, StartClaims, Preflighted, FinishClosing, FinishDiscarding,
         FinishClaims, FinishRecognizing, FinishDelivering, FinishFinalizing,
         HoldsCapture, FlowInv, SlotInv, Slots, EmptySlot, Occupied, Applied,
         Answer, Successor, LivePhases, Apply
<1>1. CASE CleanerCapture(s)
  BY <1>1, WorkflowValues DEF CleanerCapture, Released, Kept, GotoCleaner
<1>2. CASE CleanerArtifact(s)
  BY <1>2, WorkflowValues DEF CleanerArtifact, Released, Kept, GotoCleaner
<1>3. CASE CleanerSettle(s)
  BY <1>3, WorkflowValues DEF CleanerSettle, GotoCleaner, ClearDebt, RecordDebt
<1>4. CASE CleanerRelease(s)
  BY <1>4, WorkflowValues DEF CleanerRelease, ReleaseInFlight, GotoCleaner
<1>5. CASE CleanerClose(s)
  BY <1>5, WorkflowValues DEF CleanerClose, GotoCleaner, RemovePreparing,
        NoPreparing, IsCurrentStage
<1>6. CASE CleanerCancelSession(s)
  BY <1>6, WorkflowValues DEF CleanerCancelSession, GotoCleaner
<1>7. CASE CleanerFailSession(s)
  BY <1>7, WorkflowValues DEF CleanerFailSession, GotoCleaner
<1>8. CASE CleanerClear(s)
  BY <1>8, WorkflowValues DEF CleanerClear, GotoCleaner, ClearActive, NoActive
<1>. HIDE DEF SlotInv
<1>. QED BY <1>1, <1>2, <1>3, <1>4, <1>5, <1>6, <1>7, <1>8 DEF CleanerStep

(* A step of the recording deadline keeps SlotInv. *)
LEMMA TimerKeepsSlot ==
  ASSUME TypeInv, TypeInv', ExitInv, CaptureInv, FlowInv,
         NEW s \in Sessions, TimerStep(s)
  PROVE  SlotInv'
<1>. USE NoSessionIsNotASession DEF TypeInv, TypeOK, ExitInv, Subject,
         Resources, runtime, audio, fences, calls, quitLocals,
         PreparingWorkflow, ActiveWorkflow, PreparingStages, RuntimeStages,
         PlaceInv, StartPlace, WorkflowPlace, FinishPlace, CleanerPlace,
         QuitPlace, Prepared, Activated, InFlight, Reserving, Opening,
         Preflight, StartClaims, Preflighted, FinishClosing, FinishDiscarding,
         FinishClaims, FinishRecognizing, FinishDelivering, FinishFinalizing,
         HoldsCapture, FlowInv, SlotInv, Slots, EmptySlot, Occupied, Applied,
         Answer, Successor, LivePhases, Apply
<1>1. CASE DeadlineElapses(s)
  BY <1>1, WorkflowValues DEF DeadlineElapses
<1>2. CASE RecordingLimitElapsed(s)
  BY <1>2, WorkflowValues DEF RecordingLimitElapsed, RememberLimit
<1>3. CASE DeadlineFinish(s)
  BY <1>3, WorkflowValues DEF DeadlineFinish, CanFinish, FinishClaimed,
        GotoFinish
<1>. HIDE DEF SlotInv
<1>. QED BY <1>1, <1>2, <1>3 DEF TimerStep

(* A step of the exit leader keeps SlotInv. *)
LEMMA QuitKeepsSlot ==
  ASSUME TypeInv, TypeInv', ExitInv, CaptureInv, FlowInv,
         QuitStep
  PROVE  SlotInv'
<1>. USE NoSessionIsNotASession DEF TypeInv, TypeOK, ExitInv, Subject,
         Resources, runtime, audio, fences, calls, quitLocals,
         PreparingWorkflow, ActiveWorkflow, PreparingStages, RuntimeStages,
         PlaceInv, StartPlace, WorkflowPlace, FinishPlace, CleanerPlace,
         QuitPlace, Prepared, Activated, InFlight, Reserving, Opening,
         Preflight, StartClaims, Preflighted, FinishClosing, FinishDiscarding,
         FinishClaims, FinishRecognizing, FinishDelivering, FinishFinalizing,
         HoldsCapture, FlowInv, SlotInv, Slots, EmptySlot, Occupied, Applied,
         Answer, Successor, LivePhases, Apply
<1>1. CASE QuitTake
  BY <1>1, WorkflowValues DEF QuitTake, NoPreparing, NoActive
<1>2. CASE QuitInvalidate
  BY <1>2, WorkflowValues DEF QuitInvalidate
<1>3. CASE QuitFail
  <2>1. Subject \in Sessions /\ heldActive.id = Subject
    BY <1>3 DEF QuitFail
  <2>2. \A t \in Sessions : start[t] \in {"update", "activate"} => t # Subject
    BY <2>1
  <2>3. slot' = slot \/ slot.id = Subject
    BY <1>3 DEF QuitFail
  <2>4. slot.id = Subject => slot'.id = NoSession
    BY <1>3 DEF QuitFail
  <2>. QED
    BY <1>3, <2>1, <2>2, <2>3, <2>4 DEF QuitFail
<1>4. CASE QuitStage
  BY <1>4, WorkflowValues DEF QuitStage, HoldsCapture
<1>5. CASE QuitAsrCancel
  BY <1>5, WorkflowValues DEF QuitAsrCancel
<1>6. CASE QuitCapture
  BY <1>6, WorkflowValues DEF QuitCapture, Released, Kept
<1>7. CASE QuitArtifact
  BY <1>7, WorkflowValues DEF QuitArtifact, Released, Kept
<1>8. CASE QuitSettle
  BY <1>8, WorkflowValues DEF QuitSettle, ClearDebt, RecordDebt
<1>9. CASE QuitDrainOps
  BY <1>9, WorkflowValues DEF QuitDrainOps
<1>10. CASE QuitDrainCommits
  BY <1>10, WorkflowValues DEF QuitDrainCommits
<1>11. CASE QuitSnapshot
  BY <1>11, WorkflowValues DEF QuitSnapshot
<1>12. CASE QuitRetried
  BY <1>12, WorkflowValues DEF QuitRetried
<1>13. CASE QuitVerdict
  BY <1>13, WorkflowValues DEF QuitVerdict, NoPreparing, NoActive
<1>14. ASSUME NEW s \in Sessions, NEW resource \in Resources,
             QuitRetry(s, resource)
      PROVE  SlotInv'
  BY <1>14, WorkflowValues DEF QuitRetry, Released, Kept, ClearDebt, RecordDebt
<1>. HIDE DEF SlotInv
<1>. QED BY <1>1, <1>2, <1>3, <1>4, <1>5, <1>6, <1>7, <1>8, <1>9, <1>10, <1>11,
      <1>12, <1>13, <1>14 DEF QuitStep

(* A step of the user, the shell and the outside keeps RefusalInv. *)
LEMMA RequestKeepsRefusal ==
  ASSUME TypeInv, TypeInv', ExitInv, CaptureInv, FlowInv,
         NEW s \in Sessions, Request(s)
  PROVE  RefusalInv'
<1>. USE NoSessionIsNotASession DEF TypeInv, TypeOK, ExitInv, Subject,
         Resources, runtime, audio, fences, calls, quitLocals,
         PreparingWorkflow, ActiveWorkflow, PreparingStages, RuntimeStages,
         PlaceInv, StartPlace, WorkflowPlace, FinishPlace, CleanerPlace,
         QuitPlace, Prepared, Activated, InFlight, Reserving, Opening,
         Preflight, StartClaims, Preflighted, FinishClosing, FinishDiscarding,
         FinishClaims, FinishRecognizing, FinishDelivering, FinishFinalizing,
         HoldsCapture, FlowInv, RefusalInv, SlotInv, StartSteps
<1>1. CASE StartEnter(s)
  BY <1>1, WorkflowValues DEF StartEnter, GotoStart
<1>2. CASE StartPrepare(s)
  BY <1>2, WorkflowValues DEF StartPrepare, NoPreparing, GotoStart, GiveUp
<1>3. CASE FinishRequest(s)
  BY <1>3, WorkflowValues DEF FinishRequest, CanFinish, FinishClaimed,
        GotoFinish
<1>4. CASE CancelRequest(s)
  <2>1. CASE preparing.id = s
    <3>1. active' = active /\ active.id = NoSession
      BY <1>4, <2>1 DEF CancelRequest
    <3>2. /\ preparing'.id = s /\ preparing'.stage = "Cancelling"
          /\ preparing'.cleanup = "inFlight"
      BY <1>4, <2>1, WorkflowValues DEF CancelRequest
    <3>. QED
      BY <1>4, <2>1, <3>1, <3>2 DEF CancelRequest, GotoCleaner
  <2>2. CASE active.id = s
    <3>1. preparing' = preparing
      BY <1>4, <2>2 DEF CancelRequest
    <3>2. /\ active'.id = s /\ active'.stage = "Cancelling"
          /\ active'.cleanup = "inFlight"
      BY <1>4, <2>2, WorkflowValues DEF CancelRequest
    <3>. QED
      BY <1>4, <2>2, <3>1, <3>2 DEF CancelRequest, GotoCleaner
  <2>. QED
    BY <1>4, <2>1, <2>2 DEF CancelRequest
<1>5. CASE RetryRequest(s)
  BY <1>5, WorkflowValues DEF RetryRequest, GotoCleaner
<1>6. CASE FinishAsrAnswer(s)
  BY <1>6, WorkflowValues DEF FinishAsrAnswer, GotoFinish
<1>. HIDE DEF RefusalInv
<1>. QED BY <1>1, <1>2, <1>3, <1>4, <1>5, <1>6 DEF Request

(* A step of start keeps RefusalInv. *)
LEMMA StartKeepsRefusal ==
  ASSUME TypeInv, TypeInv', ExitInv, CaptureInv, FlowInv,
         NEW s \in Sessions, StartStep(s)
  PROVE  RefusalInv'
<1>. USE NoSessionIsNotASession DEF TypeInv, TypeOK, ExitInv, Subject,
         Resources, runtime, audio, fences, calls, quitLocals,
         PreparingWorkflow, ActiveWorkflow, PreparingStages, RuntimeStages,
         PlaceInv, StartPlace, WorkflowPlace, FinishPlace, CleanerPlace,
         QuitPlace, Prepared, Activated, InFlight, Reserving, Opening,
         Preflight, StartClaims, Preflighted, FinishClosing, FinishDiscarding,
         FinishClaims, FinishRecognizing, FinishDelivering, FinishFinalizing,
         HoldsCapture, FlowInv, RefusalInv, SlotInv, StartSteps
<1>1. CASE StartReserve(s)
  BY <1>1, WorkflowValues DEF StartReserve, HasActiveSession, GotoStart
<1>2. CASE StartSettings(s)
  BY <1>2, WorkflowValues DEF StartSettings, ReservedCall,
        StartReservationIsCurrent, GotoStart, GiveUp
<1>3. CASE StartRoute(s)
  BY <1>3, WorkflowValues DEF StartRoute, StartReservationIsCurrent, GotoStart
<1>4. CASE StartTarget(s)
  BY <1>4, WorkflowValues DEF StartTarget, ReservedCall,
        StartReservationIsCurrent, GotoStart, GiveUp
<1>5. CASE StartSelection(s)
  BY <1>5, WorkflowValues DEF StartSelection, ReservedCall,
        StartReservationIsCurrent, GotoStart, GiveUp
<1>6. CASE StartCue(s)
  BY <1>6, WorkflowValues DEF StartCue, IsCurrentPreparingStart, GotoStart
<1>7. CASE StartOpen(s)
  BY <1>7, WorkflowValues DEF StartOpen, GotoStart, RemovePreparing,
        NoPreparing
<1>8. CASE StartPublish(s)
  BY <1>8, WorkflowValues DEF StartPublish, IsCurrentPreparingStart, GotoStart
<1>9. CASE StartAbandon(s)
  BY <1>9, WorkflowValues DEF StartAbandon, Released, Kept, GotoStart
<1>10. CASE StartAbandonSettle(s)
  BY <1>10, WorkflowValues DEF StartAbandonSettle, GotoStart, ClearDebt,
        RecordDebt
<1>11. CASE StartDeadline(s)
  BY <1>11, WorkflowValues DEF StartDeadline, GotoStart, ClaimOrLeave,
        IsCurrentPreparingCapture, ClaimPreparingCapture
<1>12. CASE StartAttach(s)
  BY <1>12, WorkflowValues DEF StartAttach, IsCurrentPreparingCapture,
        GotoStart
<1>13. CASE StartShow(s)
  BY <1>13, WorkflowValues DEF StartShow, IsCurrentPreparingCapture, GotoStart,
        ClaimOrLeave, ClaimPreparingCapture
<1>14. CASE StartJoin(s)
  BY <1>14, WorkflowValues DEF StartJoin, IsCurrentPreparingCapture, GotoStart,
        ClaimOrLeave, ClaimPreparingCapture
<1>15. CASE StartTry(s)
  BY <1>15, WorkflowValues DEF StartTry, GotoStart, ClaimOrLeave,
        IsCurrentPreparingCapture, ClaimPreparingCapture
<1>16. CASE StartUpdate(s)
  BY <1>16, WorkflowValues DEF StartUpdate, IsCurrentPreparingCapture,
        ClaimPreparingCapture, GotoStart
<1>17. CASE StartActivate(s)
  BY <1>17, WorkflowValues DEF StartActivate, NoPreparing,
        IsCurrentPreparingCapture, GotoStart, NoActive
<1>18. CASE StartPreflight(s)
  BY <1>18, WorkflowValues DEF StartPreflight, GotoStart, Apply, Answer,
        Successor, ApplyOr
<1>19. CASE StartFail(s)
  BY <1>19, WorkflowValues DEF StartFail, GotoStart
<1>20. CASE StartCancel(s)
  BY <1>20, WorkflowValues DEF StartCancel, Released, Kept, GotoStart
<1>21. CASE StartCancelSettle(s)
  BY <1>21, WorkflowValues DEF StartCancelSettle, GotoStart, ClearDebt,
        RecordDebt
<1>22. CASE StartRelease(s)
  BY <1>22, WorkflowValues DEF StartRelease, ReleaseInFlight, GotoStart
<1>23. CASE StartRemove(s)
  BY <1>23, WorkflowValues DEF StartRemove, GotoStart, RemovePreparing,
        NoPreparing
<1>24. CASE StartReject(s)
  BY <1>24, WorkflowValues DEF StartReject, GotoStart
<1>25. CASE StartLimit(s)
  BY <1>25, WorkflowValues DEF StartLimit, GotoStart, CanFinish, FinishClaimed,
        GotoFinish
<1>26. CASE StartAwait(s)
  BY <1>26, WorkflowValues DEF StartAwait, GotoStart
<1>. HIDE DEF RefusalInv
<1>. QED BY <1>1, <1>2, <1>3, <1>4, <1>5, <1>6, <1>7, <1>8, <1>9, <1>10, <1>11,
      <1>12, <1>13, <1>14, <1>15, <1>16, <1>17, <1>18, <1>19, <1>20, <1>21,
      <1>22, <1>23, <1>24, <1>25, <1>26 DEF StartStep

(* A step of finish_recording keeps RefusalInv. *)
LEMMA FinishKeepsRefusal ==
  ASSUME TypeInv, TypeInv', ExitInv, CaptureInv, FlowInv,
         NEW s \in Sessions, FinishStep(s)
  PROVE  RefusalInv'
<1>. USE NoSessionIsNotASession DEF TypeInv, TypeOK, ExitInv, Subject,
         Resources, runtime, audio, fences, calls, quitLocals,
         PreparingWorkflow, ActiveWorkflow, PreparingStages, RuntimeStages,
         PlaceInv, StartPlace, WorkflowPlace, FinishPlace, CleanerPlace,
         QuitPlace, Prepared, Activated, InFlight, Reserving, Opening,
         Preflight, StartClaims, Preflighted, FinishClosing, FinishDiscarding,
         FinishClaims, FinishRecognizing, FinishDelivering, FinishFinalizing,
         HoldsCapture, FlowInv, RefusalInv, SlotInv, StartSteps
<1>1. CASE FinishAudio(s)
  BY <1>1, WorkflowValues DEF FinishAudio, GotoFinish
<1>2. CASE FinishUnusable(s)
  BY <1>2, WorkflowValues DEF FinishUnusable, IsCurrentStage, GotoFinish,
        GotoCleaner
<1>3. CASE FinishCheck(s)
  BY <1>3, WorkflowValues DEF FinishCheck, IsCurrentStage, GotoFinish
<1>4. CASE FinishApply(s)
  BY <1>4, WorkflowValues DEF FinishApply, ApplyOr, GotoFinish, Apply, Answer,
        Successor, ApplyOr
<1>5. CASE FinishRecognize(s)
  BY <1>5, WorkflowValues DEF FinishRecognize, IsCurrentStage, GotoFinish
<1>6. CASE FinishSubmit(s)
  BY <1>6, WorkflowValues DEF FinishSubmit, GotoFinish
<1>7. CASE FinishBeginCleanup(s)
  BY <1>7, WorkflowValues DEF FinishBeginCleanup, IsCurrentStage, GotoFinish
<1>8. CASE FinishClean(s)
  BY <1>8, WorkflowValues DEF FinishClean, Released, Kept, GotoFinish
<1>9. CASE FinishCleanSettle(s)
  BY <1>9, WorkflowValues DEF FinishCleanSettle, ClearDebt, RecordDebt,
        GotoFinish
<1>10. CASE FinishRelease(s)
  BY <1>10, WorkflowValues DEF FinishRelease, ReleaseInFlight, GotoFinish
<1>11. CASE FinishCompleteCleanup(s)
  BY <1>11, WorkflowValues DEF FinishCompleteCleanup, IsCurrentStage,
        GotoFinish
<1>12. CASE FinishOutcome(s)
  BY <1>12, WorkflowValues DEF FinishOutcome, IsCurrentStage, GotoFinish
<1>13. CASE FinishFail(s)
  BY <1>13, WorkflowValues DEF FinishFail, GotoFinish
<1>14. CASE FinishNoSpeech(s)
  BY <1>14, WorkflowValues DEF FinishNoSpeech, FinishApplies, ApplyOr,
        GotoFinish, Apply, Answer, Successor, ApplyOr
<1>15. CASE FinishProcess(s)
  BY <1>15, WorkflowValues DEF FinishProcess, FinishApplies, ApplyOr,
        GotoFinish, Apply, Answer, Successor, ApplyOr
<1>16. CASE FinishDeliver(s)
  BY <1>16, WorkflowValues DEF FinishDeliver, FinishApplies, ApplyOr,
        GotoFinish, Apply, Answer, Successor, ApplyOr
<1>17. CASE FinishFinalize(s)
  BY <1>17, WorkflowValues DEF FinishFinalize, FinishApplies, ApplyOr,
        GotoFinish, Apply, Answer, Successor, ApplyOr
<1>18. CASE FinishComplete(s)
  BY <1>18, WorkflowValues DEF FinishComplete, FinishApplies, ApplyOr,
        GotoFinish, Apply, Answer, Successor, ApplyOr
<1>19. CASE FinishSetProcessing(s)
  BY <1>19, WorkflowValues DEF FinishSetProcessing, FinishSetStage,
        IsCurrentStage, SetStage, GotoFinish
<1>20. CASE FinishSetDelivering(s)
  BY <1>20, WorkflowValues DEF FinishSetDelivering, FinishSetStage,
        IsCurrentStage, SetStage, GotoFinish
<1>21. CASE FinishSetFinalizing(s)
  BY <1>21, WorkflowValues DEF FinishSetFinalizing, FinishSetStage,
        IsCurrentStage, SetStage, GotoFinish
<1>22. CASE FinishLlmAnswer(s)
  BY <1>22, WorkflowValues DEF FinishLlmAnswer, IsCurrentStage, GotoFinish
<1>23. CASE FinishBeginCommit(s)
  BY <1>23, WorkflowValues DEF FinishBeginCommit, BeginCommit, GotoFinish
<1>24. CASE FinishSkipCommit(s)
  BY <1>24, WorkflowValues DEF FinishSkipCommit, GotoFinish
<1>25. CASE FinishEndCommit(s)
  BY <1>25, WorkflowValues DEF FinishEndCommit, EndCommit, GotoFinish
<1>26. CASE FinishDelivered(s)
  BY <1>26, WorkflowValues DEF FinishDelivered, IsCurrentStage, GotoFinish
<1>27. CASE FinishSaved(s)
  BY <1>27, WorkflowValues DEF FinishSaved, IsCurrentStage, GotoFinish
<1>28. CASE FinishClear(s)
  BY <1>28, WorkflowValues DEF FinishClear, GotoFinish, ClearActive, NoActive
<1>. HIDE DEF RefusalInv
<1>. QED BY <1>1, <1>2, <1>3, <1>4, <1>5, <1>6, <1>7, <1>8, <1>9, <1>10, <1>11,
      <1>12, <1>13, <1>14, <1>15, <1>16, <1>17, <1>18, <1>19, <1>20, <1>21,
      <1>22, <1>23, <1>24, <1>25, <1>26, <1>27, <1>28 DEF FinishStep

(* A step of a cancel or a cleanup retry keeps RefusalInv. *)
LEMMA CleanerKeepsRefusal ==
  ASSUME TypeInv, TypeInv', ExitInv, CaptureInv, FlowInv,
         NEW s \in Sessions, CleanerStep(s)
  PROVE  RefusalInv'
<1>. USE NoSessionIsNotASession DEF TypeInv, TypeOK, ExitInv, Subject,
         Resources, runtime, audio, fences, calls, quitLocals,
         PreparingWorkflow, ActiveWorkflow, PreparingStages, RuntimeStages,
         PlaceInv, StartPlace, WorkflowPlace, FinishPlace, CleanerPlace,
         QuitPlace, Prepared, Activated, InFlight, Reserving, Opening,
         Preflight, StartClaims, Preflighted, FinishClosing, FinishDiscarding,
         FinishClaims, FinishRecognizing, FinishDelivering, FinishFinalizing,
         HoldsCapture, FlowInv, RefusalInv, SlotInv, StartSteps
<1>1. CASE CleanerCapture(s)
  BY <1>1, WorkflowValues DEF CleanerCapture, Released, Kept, GotoCleaner
<1>2. CASE CleanerArtifact(s)
  BY <1>2, WorkflowValues DEF CleanerArtifact, Released, Kept, GotoCleaner
<1>3. CASE CleanerSettle(s)
  BY <1>3, WorkflowValues DEF CleanerSettle, GotoCleaner, ClearDebt, RecordDebt
<1>4. CASE CleanerRelease(s)
  BY <1>4, WorkflowValues DEF CleanerRelease, ReleaseInFlight, GotoCleaner
<1>5. CASE CleanerClose(s)
  BY <1>5, WorkflowValues DEF CleanerClose, GotoCleaner, RemovePreparing,
        NoPreparing, IsCurrentStage
<1>6. CASE CleanerCancelSession(s)
  BY <1>6, WorkflowValues DEF CleanerCancelSession, GotoCleaner, Apply
<1>7. CASE CleanerFailSession(s)
  BY <1>7, WorkflowValues DEF CleanerFailSession, GotoCleaner
<1>8. CASE CleanerClear(s)
  BY <1>8, WorkflowValues DEF CleanerClear, GotoCleaner, ClearActive, NoActive
<1>. HIDE DEF RefusalInv
<1>. QED BY <1>1, <1>2, <1>3, <1>4, <1>5, <1>6, <1>7, <1>8 DEF CleanerStep

(* A step of the recording deadline keeps RefusalInv. *)
LEMMA TimerKeepsRefusal ==
  ASSUME TypeInv, TypeInv', ExitInv, CaptureInv, FlowInv,
         NEW s \in Sessions, TimerStep(s)
  PROVE  RefusalInv'
<1>. USE NoSessionIsNotASession DEF TypeInv, TypeOK, ExitInv, Subject,
         Resources, runtime, audio, fences, calls, quitLocals,
         PreparingWorkflow, ActiveWorkflow, PreparingStages, RuntimeStages,
         PlaceInv, StartPlace, WorkflowPlace, FinishPlace, CleanerPlace,
         QuitPlace, Prepared, Activated, InFlight, Reserving, Opening,
         Preflight, StartClaims, Preflighted, FinishClosing, FinishDiscarding,
         FinishClaims, FinishRecognizing, FinishDelivering, FinishFinalizing,
         HoldsCapture, FlowInv, RefusalInv, SlotInv, StartSteps
<1>1. CASE DeadlineElapses(s)
  BY <1>1, WorkflowValues DEF DeadlineElapses
<1>2. CASE RecordingLimitElapsed(s)
  BY <1>2, WorkflowValues DEF RecordingLimitElapsed, RememberLimit
<1>3. CASE DeadlineFinish(s)
  BY <1>3, WorkflowValues DEF DeadlineFinish, CanFinish, FinishClaimed,
        GotoFinish
<1>. HIDE DEF RefusalInv
<1>. QED BY <1>1, <1>2, <1>3 DEF TimerStep

(* A step of the exit leader keeps RefusalInv. *)
LEMMA QuitKeepsRefusal ==
  ASSUME TypeInv, TypeInv', ExitInv, CaptureInv, FlowInv,
         QuitStep
  PROVE  RefusalInv'
<1>. USE NoSessionIsNotASession DEF TypeInv, TypeOK, ExitInv, Subject,
         Resources, runtime, audio, fences, calls, quitLocals,
         PreparingWorkflow, ActiveWorkflow, PreparingStages, RuntimeStages,
         PlaceInv, StartPlace, WorkflowPlace, FinishPlace, CleanerPlace,
         QuitPlace, Prepared, Activated, InFlight, Reserving, Opening,
         Preflight, StartClaims, Preflighted, FinishClosing, FinishDiscarding,
         FinishClaims, FinishRecognizing, FinishDelivering, FinishFinalizing,
         HoldsCapture, FlowInv, RefusalInv, SlotInv, StartSteps
<1>1. CASE QuitTake
  BY <1>1, WorkflowValues DEF QuitTake, NoPreparing, NoActive
<1>2. CASE QuitInvalidate
  BY <1>2, WorkflowValues DEF QuitInvalidate
<1>3. CASE QuitFail
  BY <1>3, WorkflowValues DEF QuitFail
<1>4. CASE QuitStage
  BY <1>4, WorkflowValues DEF QuitStage, HoldsCapture
<1>5. CASE QuitAsrCancel
  BY <1>5, WorkflowValues DEF QuitAsrCancel
<1>6. CASE QuitCapture
  BY <1>6, WorkflowValues DEF QuitCapture, Released, Kept
<1>7. CASE QuitArtifact
  BY <1>7, WorkflowValues DEF QuitArtifact, Released, Kept
<1>8. CASE QuitSettle
  BY <1>8, WorkflowValues DEF QuitSettle, ClearDebt, RecordDebt
<1>9. CASE QuitDrainOps
  BY <1>9, WorkflowValues DEF QuitDrainOps
<1>10. CASE QuitDrainCommits
  BY <1>10, WorkflowValues DEF QuitDrainCommits
<1>11. CASE QuitSnapshot
  BY <1>11, WorkflowValues DEF QuitSnapshot
<1>12. CASE QuitRetried
  BY <1>12, WorkflowValues DEF QuitRetried
<1>13. CASE QuitVerdict
  BY <1>13, WorkflowValues DEF QuitVerdict, NoPreparing, NoActive
<1>14. ASSUME NEW s \in Sessions, NEW resource \in Resources,
             QuitRetry(s, resource)
      PROVE  RefusalInv'
  BY <1>14, WorkflowValues DEF QuitRetry, Released, Kept, ClearDebt, RecordDebt
<1>. HIDE DEF RefusalInv
<1>. QED BY <1>1, <1>2, <1>3, <1>4, <1>5, <1>6, <1>7, <1>8, <1>9, <1>10, <1>11,
      <1>12, <1>13, <1>14 DEF QuitStep
=============================================================================
