------------------------ MODULE OrchestratorFlowProofs ------------------------
(***************************************************************************)
(* That the bookkeeping of the one workflow is coherent, that cleanups     *)
(* exclude one another, and that nothing outlives its session or the       *)
(* exit: of the recordings on disk, the irreversible writes and the one    *)
(* session they all belong to, for every set of session ids.               *)
(***************************************************************************)
EXTENDS OrchestratorProofs

(* A step of the user, the shell and the outside keeps the served part. *)
LEMMA RequestKeepsServed ==
  ASSUME TypeInv, TypeInv', ExitInv, CaptureInv, FlowInv,
         NEW s \in Sessions, Request(s)
  PROVE  InFlightIsServedUnlessRefused'
<1>. USE NoSessionIsNotASession DEF TypeInv, TypeOK, ExitInv, Subject,
         Resources, runtime, audio, fences, calls, quitLocals,
         PreparingWorkflow, ActiveWorkflow, PreparingStages, RuntimeStages,
         PlaceInv, StartPlace, WorkflowPlace, FinishPlace, CleanerPlace,
         QuitPlace, Prepared, Activated, InFlight, Reserving, Opening,
         Preflight, StartClaims, Preflighted, FinishClosing, FinishDiscarding,
         FinishClaims, FinishRecognizing, FinishDelivering, FinishFinalizing,
         HoldsCapture, FlowInv, InFlightIsServedUnlessRefused,
         CancelWasRefused, PreparationIsServed, ActivityIsServed, StartCleans,
         FinishCleans
<1>1. CASE StartEnter(s)
  BY <1>1, WorkflowValues DEF StartEnter, GotoStart
<1>2. CASE StartPrepare(s)
  BY <1>2, WorkflowValues DEF StartPrepare, NoPreparing, GotoStart, GiveUp
<1>3. CASE FinishRequest(s)
  BY <1>3, WorkflowValues DEF FinishRequest, CanFinish, FinishClaimed,
        GotoFinish
<1>4. CASE CancelRequest(s)
  <2>1. CASE preparing.id = s
    <3>1. active' = active /\ active.id = NoSession
      BY <1>4, <2>1 DEF CancelRequest
    <3>2. /\ preparing'.id = s /\ preparing'.stage = "Cancelling"
          /\ preparing'.cleanup = "inFlight"
      BY <1>4, <2>1, WorkflowValues DEF CancelRequest
    <3>. QED
      BY <1>4, <2>1, <3>1, <3>2 DEF CancelRequest, GotoCleaner
  <2>2. CASE active.id = s
    <3>1. preparing' = preparing
      BY <1>4, <2>2 DEF CancelRequest
    <3>2. /\ active'.id = s /\ active'.stage = "Cancelling"
          /\ active'.cleanup = "inFlight"
      BY <1>4, <2>2, WorkflowValues DEF CancelRequest
    <3>. QED
      BY <1>4, <2>2, <3>1, <3>2 DEF CancelRequest, GotoCleaner
  <2>. QED
    BY <1>4, <2>1, <2>2 DEF CancelRequest
<1>5. CASE RetryRequest(s)
  BY <1>5, WorkflowValues DEF RetryRequest, GotoCleaner
<1>6. CASE FinishAsrAnswer(s)
  BY <1>6, WorkflowValues DEF FinishAsrAnswer, GotoFinish
<1>. HIDE DEF InFlightIsServedUnlessRefused
<1>. QED BY <1>1, <1>2, <1>3, <1>4, <1>5, <1>6 DEF Request

(* A step of start keeps the served part. *)
LEMMA StartKeepsServed ==
  ASSUME TypeInv, TypeInv', ExitInv, CaptureInv, FlowInv,
         NEW s \in Sessions, StartStep(s)
  PROVE  InFlightIsServedUnlessRefused'
<1>. USE NoSessionIsNotASession DEF TypeInv, TypeOK, ExitInv, Subject,
         Resources, runtime, audio, fences, calls, quitLocals,
         PreparingWorkflow, ActiveWorkflow, PreparingStages, RuntimeStages,
         PlaceInv, StartPlace, WorkflowPlace, FinishPlace, CleanerPlace,
         QuitPlace, Prepared, Activated, InFlight, Reserving, Opening,
         Preflight, StartClaims, Preflighted, FinishClosing, FinishDiscarding,
         FinishClaims, FinishRecognizing, FinishDelivering, FinishFinalizing,
         HoldsCapture, FlowInv, InFlightIsServedUnlessRefused,
         CancelWasRefused, PreparationIsServed, ActivityIsServed, StartCleans,
         FinishCleans
<1>1. CASE StartReserve(s)
  BY <1>1, WorkflowValues DEF StartReserve, HasActiveSession, GotoStart
<1>2. CASE StartSettings(s)
  BY <1>2, WorkflowValues DEF StartSettings, ReservedCall,
        StartReservationIsCurrent, GotoStart, GiveUp
<1>3. CASE StartRoute(s)
  BY <1>3, WorkflowValues DEF StartRoute, StartReservationIsCurrent, GotoStart
<1>4. CASE StartTarget(s)
  BY <1>4, WorkflowValues DEF StartTarget, ReservedCall,
        StartReservationIsCurrent, GotoStart, GiveUp
<1>5. CASE StartSelection(s)
  BY <1>5, WorkflowValues DEF StartSelection, ReservedCall,
        StartReservationIsCurrent, GotoStart, GiveUp
<1>6. CASE StartCue(s)
  BY <1>6, WorkflowValues DEF StartCue, IsCurrentPreparingStart, GotoStart
<1>7. CASE StartOpen(s)
  BY <1>7, WorkflowValues DEF StartOpen, GotoStart, RemovePreparing,
        NoPreparing
<1>8. CASE StartPublish(s)
  BY <1>8, WorkflowValues DEF StartPublish, IsCurrentPreparingStart, GotoStart
<1>9. CASE StartAbandon(s)
  BY <1>9, WorkflowValues DEF StartAbandon, Released, Kept, GotoStart
<1>10. CASE StartAbandonSettle(s)
  BY <1>10, WorkflowValues DEF StartAbandonSettle, GotoStart, ClearDebt,
        RecordDebt
<1>11. CASE StartDeadline(s)
  BY <1>11, WorkflowValues DEF StartDeadline, GotoStart, ClaimOrLeave,
        IsCurrentPreparingCapture, ClaimPreparingCapture
<1>12. CASE StartAttach(s)
  BY <1>12, WorkflowValues DEF StartAttach, IsCurrentPreparingCapture,
        GotoStart
<1>13. CASE StartShow(s)
  BY <1>13, WorkflowValues DEF StartShow, IsCurrentPreparingCapture, GotoStart,
        ClaimOrLeave, ClaimPreparingCapture
<1>14. CASE StartJoin(s)
  BY <1>14, WorkflowValues DEF StartJoin, IsCurrentPreparingCapture, GotoStart,
        ClaimOrLeave, ClaimPreparingCapture
<1>15. CASE StartTry(s)
  BY <1>15, WorkflowValues DEF StartTry, GotoStart, ClaimOrLeave,
        IsCurrentPreparingCapture, ClaimPreparingCapture
<1>16. CASE StartUpdate(s)
  BY <1>16, WorkflowValues DEF StartUpdate, IsCurrentPreparingCapture,
        ClaimPreparingCapture, GotoStart
<1>17. CASE StartActivate(s)
  BY <1>17, WorkflowValues DEF StartActivate, NoPreparing,
        IsCurrentPreparingCapture, GotoStart, NoActive
<1>18. CASE StartPreflight(s)
  BY <1>18, WorkflowValues DEF StartPreflight, GotoStart, Apply
<1>19. CASE StartFail(s)
  BY <1>19, WorkflowValues DEF StartFail, GotoStart
<1>20. CASE StartCancel(s)
  BY <1>20, WorkflowValues DEF StartCancel, Released, Kept, GotoStart
<1>21. CASE StartCancelSettle(s)
  BY <1>21, WorkflowValues DEF StartCancelSettle, GotoStart, ClearDebt,
        RecordDebt
<1>22. CASE StartRelease(s)
  BY <1>22, WorkflowValues DEF StartRelease, ReleaseInFlight, GotoStart
<1>23. CASE StartRemove(s)
  BY <1>23, WorkflowValues DEF StartRemove, GotoStart, RemovePreparing,
        NoPreparing
<1>24. CASE StartReject(s)
  BY <1>24, WorkflowValues DEF StartReject, GotoStart
<1>25. CASE StartLimit(s)
  BY <1>25, WorkflowValues DEF StartLimit, GotoStart, CanFinish, FinishClaimed,
        GotoFinish
<1>26. CASE StartAwait(s)
  BY <1>26, WorkflowValues DEF StartAwait, GotoStart
<1>. HIDE DEF InFlightIsServedUnlessRefused
<1>. QED BY <1>1, <1>2, <1>3, <1>4, <1>5, <1>6, <1>7, <1>8, <1>9, <1>10, <1>11,
      <1>12, <1>13, <1>14, <1>15, <1>16, <1>17, <1>18, <1>19, <1>20, <1>21,
      <1>22, <1>23, <1>24, <1>25, <1>26 DEF StartStep

(* A step of finish_recording keeps the served part. *)
LEMMA FinishKeepsServed ==
  ASSUME TypeInv, TypeInv', ExitInv, CaptureInv, FlowInv,
         NEW s \in Sessions, FinishStep(s)
  PROVE  InFlightIsServedUnlessRefused'
<1>. USE NoSessionIsNotASession DEF TypeInv, TypeOK, ExitInv, Subject,
         Resources, runtime, audio, fences, calls, quitLocals,
         PreparingWorkflow, ActiveWorkflow, PreparingStages, RuntimeStages,
         PlaceInv, StartPlace, WorkflowPlace, FinishPlace, CleanerPlace,
         QuitPlace, Prepared, Activated, InFlight, Reserving, Opening,
         Preflight, StartClaims, Preflighted, FinishClosing, FinishDiscarding,
         FinishClaims, FinishRecognizing, FinishDelivering, FinishFinalizing,
         HoldsCapture, FlowInv, InFlightIsServedUnlessRefused,
         CancelWasRefused, PreparationIsServed, ActivityIsServed, StartCleans,
         FinishCleans
<1>1. CASE FinishAudio(s)
  BY <1>1, WorkflowValues DEF FinishAudio, GotoFinish
<1>2. CASE FinishUnusable(s)
  BY <1>2, WorkflowValues DEF FinishUnusable, IsCurrentStage, GotoFinish,
        GotoCleaner
<1>3. CASE FinishCheck(s)
  BY <1>3, WorkflowValues DEF FinishCheck, IsCurrentStage, GotoFinish
<1>4. CASE FinishApply(s)
  BY <1>4, WorkflowValues DEF FinishApply, ApplyOr, GotoFinish, Apply
<1>5. CASE FinishRecognize(s)
  BY <1>5, WorkflowValues DEF FinishRecognize, IsCurrentStage, GotoFinish
<1>6. CASE FinishSubmit(s)
  BY <1>6, WorkflowValues DEF FinishSubmit, GotoFinish
<1>7. CASE FinishBeginCleanup(s)
  BY <1>7, WorkflowValues DEF FinishBeginCleanup, IsCurrentStage, GotoFinish
<1>8. CASE FinishClean(s)
  BY <1>8, WorkflowValues DEF FinishClean, Released, Kept, GotoFinish
<1>9. CASE FinishCleanSettle(s)
  BY <1>9, WorkflowValues DEF FinishCleanSettle, ClearDebt, RecordDebt,
        GotoFinish
<1>10. CASE FinishRelease(s)
  BY <1>10, WorkflowValues DEF FinishRelease, ReleaseInFlight, GotoFinish
<1>11. CASE FinishCompleteCleanup(s)
  BY <1>11, WorkflowValues DEF FinishCompleteCleanup, IsCurrentStage,
        GotoFinish
<1>12. CASE FinishOutcome(s)
  BY <1>12, WorkflowValues DEF FinishOutcome, IsCurrentStage, GotoFinish
<1>13. CASE FinishFail(s)
  BY <1>13, WorkflowValues DEF FinishFail, GotoFinish
<1>14. CASE FinishNoSpeech(s)
  BY <1>14, WorkflowValues DEF FinishNoSpeech, FinishApplies, ApplyOr,
        GotoFinish, Apply
<1>15. CASE FinishProcess(s)
  BY <1>15, WorkflowValues DEF FinishProcess, FinishApplies, ApplyOr,
        GotoFinish, Apply
<1>16. CASE FinishDeliver(s)
  BY <1>16, WorkflowValues DEF FinishDeliver, FinishApplies, ApplyOr,
        GotoFinish, Apply
<1>17. CASE FinishFinalize(s)
  BY <1>17, WorkflowValues DEF FinishFinalize, FinishApplies, ApplyOr,
        GotoFinish, Apply
<1>18. CASE FinishComplete(s)
  BY <1>18, WorkflowValues DEF FinishComplete, FinishApplies, ApplyOr,
        GotoFinish, Apply
<1>19. CASE FinishSetProcessing(s)
  BY <1>19, WorkflowValues DEF FinishSetProcessing, FinishSetStage,
        IsCurrentStage, SetStage, GotoFinish
<1>20. CASE FinishSetDelivering(s)
  BY <1>20, WorkflowValues DEF FinishSetDelivering, FinishSetStage,
        IsCurrentStage, SetStage, GotoFinish
<1>21. CASE FinishSetFinalizing(s)
  BY <1>21, WorkflowValues DEF FinishSetFinalizing, FinishSetStage,
        IsCurrentStage, SetStage, GotoFinish
<1>22. CASE FinishLlmAnswer(s)
  BY <1>22, WorkflowValues DEF FinishLlmAnswer, IsCurrentStage, GotoFinish
<1>23. CASE FinishBeginCommit(s)
  BY <1>23, WorkflowValues DEF FinishBeginCommit, BeginCommit, GotoFinish
<1>24. CASE FinishSkipCommit(s)
  BY <1>24, WorkflowValues DEF FinishSkipCommit, GotoFinish
<1>25. CASE FinishEndCommit(s)
  BY <1>25, WorkflowValues DEF FinishEndCommit, EndCommit, GotoFinish
<1>26. CASE FinishDelivered(s)
  BY <1>26, WorkflowValues DEF FinishDelivered, IsCurrentStage, GotoFinish
<1>27. CASE FinishSaved(s)
  BY <1>27, WorkflowValues DEF FinishSaved, IsCurrentStage, GotoFinish
<1>28. CASE FinishClear(s)
  BY <1>28, WorkflowValues DEF FinishClear, GotoFinish, ClearActive, NoActive
<1>. HIDE DEF InFlightIsServedUnlessRefused
<1>. QED BY <1>1, <1>2, <1>3, <1>4, <1>5, <1>6, <1>7, <1>8, <1>9, <1>10, <1>11,
      <1>12, <1>13, <1>14, <1>15, <1>16, <1>17, <1>18, <1>19, <1>20, <1>21,
      <1>22, <1>23, <1>24, <1>25, <1>26, <1>27, <1>28 DEF FinishStep

(* A step of a cancel or a cleanup retry keeps the served part. *)
LEMMA CleanerKeepsServed ==
  ASSUME TypeInv, TypeInv', ExitInv, CaptureInv, FlowInv,
         NEW s \in Sessions, CleanerStep(s)
  PROVE  InFlightIsServedUnlessRefused'
<1>. USE NoSessionIsNotASession DEF TypeInv, TypeOK, ExitInv, Subject,
         Resources, runtime, audio, fences, calls, quitLocals,
         PreparingWorkflow, ActiveWorkflow, PreparingStages, RuntimeStages,
         PlaceInv, StartPlace, WorkflowPlace, FinishPlace, CleanerPlace,
         QuitPlace, Prepared, Activated, InFlight, Reserving, Opening,
         Preflight, StartClaims, Preflighted, FinishClosing, FinishDiscarding,
         FinishClaims, FinishRecognizing, FinishDelivering, FinishFinalizing,
         HoldsCapture, FlowInv, InFlightIsServedUnlessRefused,
         CancelWasRefused, PreparationIsServed, ActivityIsServed, StartCleans,
         FinishCleans
<1>1. CASE CleanerCapture(s)
  BY <1>1, WorkflowValues DEF CleanerCapture, Released, Kept, GotoCleaner
<1>2. CASE CleanerArtifact(s)
  BY <1>2, WorkflowValues DEF CleanerArtifact, Released, Kept, GotoCleaner
<1>3. CASE CleanerSettle(s)
  BY <1>3, WorkflowValues DEF CleanerSettle, GotoCleaner, ClearDebt, RecordDebt
<1>4. CASE CleanerRelease(s)
  BY <1>4, WorkflowValues DEF CleanerRelease, ReleaseInFlight, GotoCleaner
<1>5. CASE CleanerClose(s)
  BY <1>5, WorkflowValues DEF CleanerClose, GotoCleaner, RemovePreparing,
        NoPreparing, IsCurrentStage
<1>6. CASE CleanerCancelSession(s)
  <2>1. Answer(slot, s, "CancelRecording") \in {"Ok", "NotFound", "Invalid"}
    BY DEF Answer
  <2>2. CASE Answer(slot, s, "CancelRecording") = "Ok"
    BY <1>6, <2>2 DEF CleanerCancelSession, Apply, GotoCleaner
  <2>3. CASE Answer(slot, s, "CancelRecording") = "Invalid"
    BY <1>6, <2>3 DEF CleanerCancelSession, Apply, GotoCleaner
  <2>4. CASE Answer(slot, s, "CancelRecording") = "NotFound"
    <3>1. slot.id # s
      BY <2>4 DEF Answer
    <3>2. active.id = s => quitting
      BY <1>6, <3>1 DEF CleanerCancelSession, StageMatchesPhase, PhasesOf
    <3>3. refused \subseteq refused'
      BY <1>6 DEF CleanerCancelSession, Apply
    <3>. QED
      BY <1>6, <3>2, <3>3 DEF CleanerCancelSession, GotoCleaner
  <2>. QED
    BY <2>1, <2>2, <2>3, <2>4
<1>7. CASE CleanerFailSession(s)
  BY <1>7, WorkflowValues DEF CleanerFailSession, GotoCleaner
<1>8. CASE CleanerClear(s)
  BY <1>8, WorkflowValues DEF CleanerClear, GotoCleaner, ClearActive, NoActive
<1>. HIDE DEF InFlightIsServedUnlessRefused
<1>. QED BY <1>1, <1>2, <1>3, <1>4, <1>5, <1>6, <1>7, <1>8 DEF CleanerStep

(* A step of the recording deadline keeps the served part. *)
LEMMA TimerKeepsServed ==
  ASSUME TypeInv, TypeInv', ExitInv, CaptureInv, FlowInv,
         NEW s \in Sessions, TimerStep(s)
  PROVE  InFlightIsServedUnlessRefused'
<1>. USE NoSessionIsNotASession DEF TypeInv, TypeOK, ExitInv, Subject,
         Resources, runtime, audio, fences, calls, quitLocals,
         PreparingWorkflow, ActiveWorkflow, PreparingStages, RuntimeStages,
         PlaceInv, StartPlace, WorkflowPlace, FinishPlace, CleanerPlace,
         QuitPlace, Prepared, Activated, InFlight, Reserving, Opening,
         Preflight, StartClaims, Preflighted, FinishClosing, FinishDiscarding,
         FinishClaims, FinishRecognizing, FinishDelivering, FinishFinalizing,
         HoldsCapture, FlowInv, InFlightIsServedUnlessRefused,
         CancelWasRefused, PreparationIsServed, ActivityIsServed, StartCleans,
         FinishCleans
<1>1. CASE DeadlineElapses(s)
  BY <1>1, WorkflowValues DEF DeadlineElapses
<1>2. CASE RecordingLimitElapsed(s)
  BY <1>2, WorkflowValues DEF RecordingLimitElapsed, RememberLimit
<1>3. CASE DeadlineFinish(s)
  BY <1>3, WorkflowValues DEF DeadlineFinish, CanFinish, FinishClaimed,
        GotoFinish
<1>. HIDE DEF InFlightIsServedUnlessRefused
<1>. QED BY <1>1, <1>2, <1>3 DEF TimerStep

(* A step of the exit leader keeps the served part. *)
LEMMA QuitKeepsServed ==
  ASSUME TypeInv, TypeInv', ExitInv, CaptureInv, FlowInv,
         QuitStep
  PROVE  InFlightIsServedUnlessRefused'
<1>. USE NoSessionIsNotASession DEF TypeInv, TypeOK, ExitInv, Subject,
         Resources, runtime, audio, fences, calls, quitLocals,
         PreparingWorkflow, ActiveWorkflow, PreparingStages, RuntimeStages,
         PlaceInv, StartPlace, WorkflowPlace, FinishPlace, CleanerPlace,
         QuitPlace, Prepared, Activated, InFlight, Reserving, Opening,
         Preflight, StartClaims, Preflighted, FinishClosing, FinishDiscarding,
         FinishClaims, FinishRecognizing, FinishDelivering, FinishFinalizing,
         HoldsCapture, FlowInv, InFlightIsServedUnlessRefused,
         CancelWasRefused, PreparationIsServed, ActivityIsServed, StartCleans,
         FinishCleans
<1>1. CASE QuitTake
  BY <1>1, WorkflowValues DEF QuitTake, NoPreparing, NoActive
<1>2. CASE QuitInvalidate
  BY <1>2, WorkflowValues DEF QuitInvalidate
<1>3. CASE QuitFail
  BY <1>3, WorkflowValues DEF QuitFail
<1>4. CASE QuitStage
  BY <1>4, WorkflowValues DEF QuitStage, HoldsCapture
<1>5. CASE QuitAsrCancel
  BY <1>5, WorkflowValues DEF QuitAsrCancel
<1>6. CASE QuitCapture
  BY <1>6, WorkflowValues DEF QuitCapture, Released, Kept
<1>7. CASE QuitArtifact
  BY <1>7, WorkflowValues DEF QuitArtifact, Released, Kept
<1>8. CASE QuitSettle
  BY <1>8, WorkflowValues DEF QuitSettle, ClearDebt, RecordDebt
<1>9. CASE QuitDrainOps
  BY <1>9, WorkflowValues DEF QuitDrainOps
<1>10. CASE QuitDrainCommits
  BY <1>10, WorkflowValues DEF QuitDrainCommits
<1>11. CASE QuitSnapshot
  BY <1>11, WorkflowValues DEF QuitSnapshot
<1>12. CASE QuitRetried
  BY <1>12, WorkflowValues DEF QuitRetried
<1>13. CASE QuitVerdict
  BY <1>13, WorkflowValues DEF QuitVerdict, NoPreparing, NoActive
<1>14. ASSUME NEW s \in Sessions, NEW resource \in Resources,
             QuitRetry(s, resource)
      PROVE  InFlightIsServedUnlessRefused'
  BY <1>14, WorkflowValues DEF QuitRetry, Released, Kept, ClearDebt, RecordDebt
<1>. HIDE DEF InFlightIsServedUnlessRefused
<1>. QED BY <1>1, <1>2, <1>3, <1>4, <1>5, <1>6, <1>7, <1>8, <1>9, <1>10, <1>11,
      <1>12, <1>13, <1>14 DEF QuitStep

(* A step of the user, the shell and the outside keeps StageMatchesPhase. *)
LEMMA RequestKeepsPhase ==
  ASSUME TypeInv, TypeInv', ExitInv, CaptureInv, FlowInv,
         NEW s \in Sessions, Request(s)
  PROVE  StageMatchesPhase'
<1>. USE NoSessionIsNotASession DEF TypeInv, TypeOK, ExitInv, Subject,
         Resources, runtime, audio, fences, calls, quitLocals,
         PreparingWorkflow, ActiveWorkflow, PreparingStages, RuntimeStages,
         PlaceInv, StartPlace, WorkflowPlace, FinishPlace, CleanerPlace,
         QuitPlace, Prepared, Activated, InFlight, Reserving, Opening,
         Preflight, StartClaims, Preflighted, FinishClosing, FinishDiscarding,
         FinishClaims, FinishRecognizing, FinishDelivering, FinishFinalizing,
         HoldsCapture, FlowInv, SlotInv, Slots, EmptySlot, Occupied, Applied,
         Answer, Successor, LivePhases, Apply, StageMatchesPhase, PhasesOf
<1>1. CASE StartEnter(s)
  BY <1>1, WorkflowValues DEF StartEnter, GotoStart
<1>2. CASE StartPrepare(s)
  BY <1>2, WorkflowValues DEF StartPrepare, NoPreparing, GotoStart, GiveUp
<1>3. CASE FinishRequest(s)
  BY <1>3, WorkflowValues DEF FinishRequest, CanFinish, FinishClaimed,
        GotoFinish
<1>4. CASE CancelRequest(s)
  <2>1. CASE preparing.id = s
    <3>1. active' = active /\ active.id = NoSession
      BY <1>4, <2>1 DEF CancelRequest
    <3>2. /\ preparing'.id = s /\ preparing'.stage = "Cancelling"
          /\ preparing'.cleanup = "inFlight"
      BY <1>4, <2>1, WorkflowValues DEF CancelRequest
    <3>. QED
      BY <1>4, <2>1, <3>1, <3>2 DEF CancelRequest, GotoCleaner
  <2>2. CASE active.id = s
    <3>1. preparing' = preparing
      BY <1>4, <2>2 DEF CancelRequest
    <3>2. /\ active'.id = s /\ active'.stage = "Cancelling"
          /\ active'.cleanup = "inFlight"
      BY <1>4, <2>2, WorkflowValues DEF CancelRequest
    <3>. QED
      BY <1>4, <2>2, <3>1, <3>2 DEF CancelRequest, GotoCleaner
  <2>. QED
    BY <1>4, <2>1, <2>2 DEF CancelRequest
<1>5. CASE RetryRequest(s)
  BY <1>5, WorkflowValues DEF RetryRequest, GotoCleaner
<1>6. CASE FinishAsrAnswer(s)
  BY <1>6, WorkflowValues DEF FinishAsrAnswer, GotoFinish
<1>. HIDE DEF StageMatchesPhase
<1>. QED BY <1>1, <1>2, <1>3, <1>4, <1>5, <1>6 DEF Request

(* A step of start keeps StageMatchesPhase. *)
LEMMA StartKeepsPhase ==
  ASSUME TypeInv, TypeInv', ExitInv, CaptureInv, FlowInv,
         NEW s \in Sessions, StartStep(s)
  PROVE  StageMatchesPhase'
<1>. USE NoSessionIsNotASession DEF TypeInv, TypeOK, ExitInv, Subject,
         Resources, runtime, audio, fences, calls, quitLocals,
         PreparingWorkflow, ActiveWorkflow, PreparingStages, RuntimeStages,
         PlaceInv, StartPlace, WorkflowPlace, FinishPlace, CleanerPlace,
         QuitPlace, Prepared, Activated, InFlight, Reserving, Opening,
         Preflight, StartClaims, Preflighted, FinishClosing, FinishDiscarding,
         FinishClaims, FinishRecognizing, FinishDelivering, FinishFinalizing,
         HoldsCapture, FlowInv, SlotInv, Slots, EmptySlot, Occupied, Applied,
         Answer, Successor, LivePhases, Apply, StageMatchesPhase, PhasesOf
<1>1. CASE StartReserve(s)
  BY <1>1, WorkflowValues DEF StartReserve, HasActiveSession, GotoStart
<1>2. CASE StartSettings(s)
  BY <1>2, WorkflowValues DEF StartSettings, ReservedCall,
        StartReservationIsCurrent, GotoStart, GiveUp
<1>3. CASE StartRoute(s)
  BY <1>3, WorkflowValues DEF StartRoute, StartReservationIsCurrent, GotoStart
<1>4. CASE StartTarget(s)
  BY <1>4, WorkflowValues DEF StartTarget, ReservedCall,
        StartReservationIsCurrent, GotoStart, GiveUp
<1>5. CASE StartSelection(s)
  BY <1>5, WorkflowValues DEF StartSelection, ReservedCall,
        StartReservationIsCurrent, GotoStart, GiveUp
<1>6. CASE StartCue(s)
  BY <1>6, WorkflowValues DEF StartCue, IsCurrentPreparingStart, GotoStart
<1>7. CASE StartOpen(s)
  BY <1>7, WorkflowValues DEF StartOpen, GotoStart, RemovePreparing,
        NoPreparing
<1>8. CASE StartPublish(s)
  BY <1>8, WorkflowValues DEF StartPublish, IsCurrentPreparingStart, GotoStart
<1>9. CASE StartAbandon(s)
  BY <1>9, WorkflowValues DEF StartAbandon, Released, Kept, GotoStart
<1>10. CASE StartAbandonSettle(s)
  BY <1>10, WorkflowValues DEF StartAbandonSettle, GotoStart, ClearDebt,
        RecordDebt
<1>11. CASE StartDeadline(s)
  BY <1>11, WorkflowValues DEF StartDeadline, GotoStart, ClaimOrLeave,
        IsCurrentPreparingCapture, ClaimPreparingCapture
<1>12. CASE StartAttach(s)
  BY <1>12, WorkflowValues DEF StartAttach, IsCurrentPreparingCapture,
        GotoStart
<1>13. CASE StartShow(s)
  BY <1>13, WorkflowValues DEF StartShow, IsCurrentPreparingCapture, GotoStart,
        ClaimOrLeave, ClaimPreparingCapture
<1>14. CASE StartJoin(s)
  BY <1>14, WorkflowValues DEF StartJoin, IsCurrentPreparingCapture, GotoStart,
        ClaimOrLeave, ClaimPreparingCapture
<1>15. CASE StartTry(s)
  BY <1>15, WorkflowValues DEF StartTry, GotoStart, ClaimOrLeave,
        IsCurrentPreparingCapture, ClaimPreparingCapture
<1>16. CASE StartUpdate(s)
  BY <1>16, WorkflowValues DEF StartUpdate, IsCurrentPreparingCapture,
        ClaimPreparingCapture, GotoStart
<1>17. CASE StartActivate(s)
  BY <1>17, WorkflowValues DEF StartActivate, NoPreparing,
        IsCurrentPreparingCapture, GotoStart, NoActive
<1>18. CASE StartPreflight(s)
  BY <1>18, WorkflowValues DEF StartPreflight, GotoStart
<1>19. CASE StartFail(s)
  BY <1>19, WorkflowValues DEF StartFail, GotoStart
<1>20. CASE StartCancel(s)
  BY <1>20, WorkflowValues DEF StartCancel, Released, Kept, GotoStart
<1>21. CASE StartCancelSettle(s)
  BY <1>21, WorkflowValues DEF StartCancelSettle, GotoStart, ClearDebt,
        RecordDebt
<1>22. CASE StartRelease(s)
  BY <1>22, WorkflowValues DEF StartRelease, ReleaseInFlight, GotoStart
<1>23. CASE StartRemove(s)
  BY <1>23, WorkflowValues DEF StartRemove, GotoStart, RemovePreparing,
        NoPreparing
<1>24. CASE StartReject(s)
  BY <1>24, WorkflowValues DEF StartReject, GotoStart
<1>25. CASE StartLimit(s)
  BY <1>25, WorkflowValues DEF StartLimit, GotoStart, CanFinish, FinishClaimed,
        GotoFinish
<1>26. CASE StartAwait(s)
  BY <1>26, WorkflowValues DEF StartAwait, GotoStart
<1>. HIDE DEF StageMatchesPhase
<1>. QED BY <1>1, <1>2, <1>3, <1>4, <1>5, <1>6, <1>7, <1>8, <1>9, <1>10, <1>11,
      <1>12, <1>13, <1>14, <1>15, <1>16, <1>17, <1>18, <1>19, <1>20, <1>21,
      <1>22, <1>23, <1>24, <1>25, <1>26 DEF StartStep

(* A step of finish_recording keeps StageMatchesPhase. *)
LEMMA FinishKeepsPhase ==
  ASSUME TypeInv, TypeInv', ExitInv, CaptureInv, FlowInv,
         NEW s \in Sessions, FinishStep(s)
  PROVE  StageMatchesPhase'
<1>. USE NoSessionIsNotASession DEF TypeInv, TypeOK, ExitInv, Subject,
         Resources, runtime, audio, fences, calls, quitLocals,
         PreparingWorkflow, ActiveWorkflow, PreparingStages, RuntimeStages,
         PlaceInv, StartPlace, WorkflowPlace, FinishPlace, CleanerPlace,
         QuitPlace, Prepared, Activated, InFlight, Reserving, Opening,
         Preflight, StartClaims, Preflighted, FinishClosing, FinishDiscarding,
         FinishClaims, FinishRecognizing, FinishDelivering, FinishFinalizing,
         HoldsCapture, FlowInv, SlotInv, Slots, EmptySlot, Occupied, Applied,
         Answer, Successor, LivePhases, Apply, StageMatchesPhase, PhasesOf
<1>1. CASE FinishAudio(s)
  BY <1>1, WorkflowValues DEF FinishAudio, GotoFinish
<1>2. CASE FinishUnusable(s)
  BY <1>2, WorkflowValues DEF FinishUnusable, IsCurrentStage, GotoFinish,
        GotoCleaner
<1>3. CASE FinishCheck(s)
  BY <1>3, WorkflowValues DEF FinishCheck, IsCurrentStage, GotoFinish
<1>4. CASE FinishApply(s)
  BY <1>4, WorkflowValues DEF FinishApply, ApplyOr, GotoFinish
<1>5. CASE FinishRecognize(s)
  BY <1>5, WorkflowValues DEF FinishRecognize, IsCurrentStage, GotoFinish
<1>6. CASE FinishSubmit(s)
  BY <1>6, WorkflowValues DEF FinishSubmit, GotoFinish
<1>7. CASE FinishBeginCleanup(s)
  BY <1>7, WorkflowValues DEF FinishBeginCleanup, IsCurrentStage, GotoFinish
<1>8. CASE FinishClean(s)
  BY <1>8, WorkflowValues DEF FinishClean, Released, Kept, GotoFinish
<1>9. CASE FinishCleanSettle(s)
  BY <1>9, WorkflowValues DEF FinishCleanSettle, ClearDebt, RecordDebt,
        GotoFinish
<1>10. CASE FinishRelease(s)
  BY <1>10, WorkflowValues DEF FinishRelease, ReleaseInFlight, GotoFinish
<1>11. CASE FinishCompleteCleanup(s)
  BY <1>11, WorkflowValues DEF FinishCompleteCleanup, IsCurrentStage,
        GotoFinish
<1>12. CASE FinishOutcome(s)
  BY <1>12, WorkflowValues DEF FinishOutcome, IsCurrentStage, GotoFinish
<1>13. CASE FinishFail(s)
  BY <1>13, WorkflowValues DEF FinishFail, GotoFinish
<1>14. CASE FinishNoSpeech(s)
  BY <1>14, WorkflowValues DEF FinishNoSpeech, FinishApplies, ApplyOr,
        GotoFinish
<1>15. CASE FinishProcess(s)
  BY <1>15, WorkflowValues DEF FinishProcess, FinishApplies, ApplyOr,
        GotoFinish
<1>16. CASE FinishDeliver(s)
  BY <1>16, WorkflowValues DEF FinishDeliver, FinishApplies, ApplyOr,
        GotoFinish
<1>17. CASE FinishFinalize(s)
  BY <1>17, WorkflowValues DEF FinishFinalize, FinishApplies, ApplyOr,
        GotoFinish
<1>18. CASE FinishComplete(s)
  BY <1>18, WorkflowValues DEF FinishComplete, FinishApplies, ApplyOr,
        GotoFinish
<1>19. CASE FinishSetProcessing(s)
  BY <1>19, WorkflowValues DEF FinishSetProcessing, FinishSetStage,
        IsCurrentStage, SetStage, GotoFinish
<1>20. CASE FinishSetDelivering(s)
  BY <1>20, WorkflowValues DEF FinishSetDelivering, FinishSetStage,
        IsCurrentStage, SetStage, GotoFinish
<1>21. CASE FinishSetFinalizing(s)
  BY <1>21, WorkflowValues DEF FinishSetFinalizing, FinishSetStage,
        IsCurrentStage, SetStage, GotoFinish
<1>22. CASE FinishLlmAnswer(s)
  BY <1>22, WorkflowValues DEF FinishLlmAnswer, IsCurrentStage, GotoFinish
<1>23. CASE FinishBeginCommit(s)
  BY <1>23, WorkflowValues DEF FinishBeginCommit, BeginCommit, GotoFinish
<1>24. CASE FinishSkipCommit(s)
  BY <1>24, WorkflowValues DEF FinishSkipCommit, GotoFinish
<1>25. CASE FinishEndCommit(s)
  BY <1>25, WorkflowValues DEF FinishEndCommit, EndCommit, GotoFinish
<1>26. CASE FinishDelivered(s)
  BY <1>26, WorkflowValues DEF FinishDelivered, IsCurrentStage, GotoFinish
<1>27. CASE FinishSaved(s)
  BY <1>27, WorkflowValues DEF FinishSaved, IsCurrentStage, GotoFinish
<1>28. CASE FinishClear(s)
  BY <1>28, WorkflowValues DEF FinishClear, GotoFinish, ClearActive, NoActive
<1>. HIDE DEF StageMatchesPhase
<1>. QED BY <1>1, <1>2, <1>3, <1>4, <1>5, <1>6, <1>7, <1>8, <1>9, <1>10, <1>11,
      <1>12, <1>13, <1>14, <1>15, <1>16, <1>17, <1>18, <1>19, <1>20, <1>21,
      <1>22, <1>23, <1>24, <1>25, <1>26, <1>27, <1>28 DEF FinishStep

(* A step of a cancel or a cleanup retry keeps StageMatchesPhase. *)
LEMMA CleanerKeepsPhase ==
  ASSUME TypeInv, TypeInv', ExitInv, CaptureInv, FlowInv,
         NEW s \in Sessions, CleanerStep(s)
  PROVE  StageMatchesPhase'
<1>. USE NoSessionIsNotASession DEF TypeInv, TypeOK, ExitInv, Subject,
         Resources, runtime, audio, fences, calls, quitLocals,
         PreparingWorkflow, ActiveWorkflow, PreparingStages, RuntimeStages,
         PlaceInv, StartPlace, WorkflowPlace, FinishPlace, CleanerPlace,
         QuitPlace, Prepared, Activated, InFlight, Reserving, Opening,
         Preflight, StartClaims, Preflighted, FinishClosing, FinishDiscarding,
         FinishClaims, FinishRecognizing, FinishDelivering, FinishFinalizing,
         HoldsCapture, FlowInv, SlotInv, Slots, EmptySlot, Occupied, Applied,
         Answer, Successor, LivePhases, Apply, StageMatchesPhase, PhasesOf
<1>1. CASE CleanerCapture(s)
  BY <1>1, WorkflowValues DEF CleanerCapture, Released, Kept, GotoCleaner
<1>2. CASE CleanerArtifact(s)
  BY <1>2, WorkflowValues DEF CleanerArtifact, Released, Kept, GotoCleaner
<1>3. CASE CleanerSettle(s)
  BY <1>3, WorkflowValues DEF CleanerSettle, GotoCleaner, ClearDebt, RecordDebt
<1>4. CASE CleanerRelease(s)
  BY <1>4, WorkflowValues DEF CleanerRelease, ReleaseInFlight, GotoCleaner
<1>5. CASE CleanerClose(s)
  BY <1>5, WorkflowValues DEF CleanerClose, GotoCleaner, RemovePreparing,
        NoPreparing, IsCurrentStage
<1>6. CASE CleanerCancelSession(s)
  BY <1>6, WorkflowValues DEF CleanerCancelSession, GotoCleaner
<1>7. CASE CleanerFailSession(s)
  BY <1>7, WorkflowValues DEF CleanerFailSession, GotoCleaner
<1>8. CASE CleanerClear(s)
  BY <1>8, WorkflowValues DEF CleanerClear, GotoCleaner, ClearActive, NoActive
<1>. HIDE DEF StageMatchesPhase
<1>. QED BY <1>1, <1>2, <1>3, <1>4, <1>5, <1>6, <1>7, <1>8 DEF CleanerStep

(* A step of the recording deadline keeps StageMatchesPhase. *)
LEMMA TimerKeepsPhase ==
  ASSUME TypeInv, TypeInv', ExitInv, CaptureInv, FlowInv,
         NEW s \in Sessions, TimerStep(s)
  PROVE  StageMatchesPhase'
<1>. USE NoSessionIsNotASession DEF TypeInv, TypeOK, ExitInv, Subject,
         Resources, runtime, audio, fences, calls, quitLocals,
         PreparingWorkflow, ActiveWorkflow, PreparingStages, RuntimeStages,
         PlaceInv, StartPlace, WorkflowPlace, FinishPlace, CleanerPlace,
         QuitPlace, Prepared, Activated, InFlight, Reserving, Opening,
         Preflight, StartClaims, Preflighted, FinishClosing, FinishDiscarding,
         FinishClaims, FinishRecognizing, FinishDelivering, FinishFinalizing,
         HoldsCapture, FlowInv, SlotInv, Slots, EmptySlot, Occupied, Applied,
         Answer, Successor, LivePhases, Apply, StageMatchesPhase, PhasesOf
<1>1. CASE DeadlineElapses(s)
  BY <1>1, WorkflowValues DEF DeadlineElapses
<1>2. CASE RecordingLimitElapsed(s)
  BY <1>2, WorkflowValues DEF RecordingLimitElapsed, RememberLimit
<1>3. CASE DeadlineFinish(s)
  BY <1>3, WorkflowValues DEF DeadlineFinish, CanFinish, FinishClaimed,
        GotoFinish
<1>. HIDE DEF StageMatchesPhase
<1>. QED BY <1>1, <1>2, <1>3 DEF TimerStep

(* A step of the exit leader keeps StageMatchesPhase. *)
LEMMA QuitKeepsPhase ==
  ASSUME TypeInv, TypeInv', ExitInv, CaptureInv, FlowInv,
         QuitStep
  PROVE  StageMatchesPhase'
<1>. USE NoSessionIsNotASession DEF TypeInv, TypeOK, ExitInv, Subject,
         Resources, runtime, audio, fences, calls, quitLocals,
         PreparingWorkflow, ActiveWorkflow, PreparingStages, RuntimeStages,
         PlaceInv, StartPlace, WorkflowPlace, FinishPlace, CleanerPlace,
         QuitPlace, Prepared, Activated, InFlight, Reserving, Opening,
         Preflight, StartClaims, Preflighted, FinishClosing, FinishDiscarding,
         FinishClaims, FinishRecognizing, FinishDelivering, FinishFinalizing,
         HoldsCapture, FlowInv, SlotInv, Slots, EmptySlot, Occupied, Applied,
         Answer, Successor, LivePhases, Apply, StageMatchesPhase, PhasesOf
<1>1. CASE QuitTake
  BY <1>1, WorkflowValues DEF QuitTake, NoPreparing, NoActive
<1>2. CASE QuitInvalidate
  BY <1>2, WorkflowValues DEF QuitInvalidate
<1>3. CASE QuitFail
  BY <1>3, WorkflowValues DEF QuitFail
<1>4. CASE QuitStage
  BY <1>4, WorkflowValues DEF QuitStage, HoldsCapture
<1>5. CASE QuitAsrCancel
  BY <1>5, WorkflowValues DEF QuitAsrCancel
<1>6. CASE QuitCapture
  BY <1>6, WorkflowValues DEF QuitCapture, Released, Kept
<1>7. CASE QuitArtifact
  BY <1>7, WorkflowValues DEF QuitArtifact, Released, Kept
<1>8. CASE QuitSettle
  BY <1>8, WorkflowValues DEF QuitSettle, ClearDebt, RecordDebt
<1>9. CASE QuitDrainOps
  BY <1>9, WorkflowValues DEF QuitDrainOps
<1>10. CASE QuitDrainCommits
  BY <1>10, WorkflowValues DEF QuitDrainCommits
<1>11. CASE QuitSnapshot
  BY <1>11, WorkflowValues DEF QuitSnapshot
<1>12. CASE QuitRetried
  BY <1>12, WorkflowValues DEF QuitRetried
<1>13. CASE QuitVerdict
  BY <1>13, WorkflowValues DEF QuitVerdict, NoPreparing, NoActive
<1>14. ASSUME NEW s \in Sessions, NEW resource \in Resources,
             QuitRetry(s, resource)
      PROVE  StageMatchesPhase'
  BY <1>14, WorkflowValues DEF QuitRetry, Released, Kept, ClearDebt, RecordDebt
<1>. HIDE DEF StageMatchesPhase
<1>. QED BY <1>1, <1>2, <1>3, <1>4, <1>5, <1>6, <1>7, <1>8, <1>9, <1>10, <1>11,
      <1>12, <1>13, <1>14 DEF QuitStep

(* The exit leader closing the operation barrier keeps FlowInv. *)
LEMMA QuitBeginKeepsFlow ==
  ASSUME TypeInv, ExitInv, FlowInv, QuitBegin
  PROVE  FlowInv'
<1>. USE NoSessionIsNotASession DEF QuitBegin, runtime, audio, fences, calls,
         ExitInv, TypeInv,
           TypeOK
<1>1. PlaceInv'
  BY DEF FlowInv, PlaceInv, StartPlace, WorkflowPlace, FinishPlace,
         CleanerPlace, QuitPlace, Prepared, Activated, InFlight,
         HoldsCapture
<1>2. LedgerInv'
  BY DEF FlowInv, LedgerInv, DebtIsRetryable
<1>3. SlotInv'
  BY DEF FlowInv, SlotInv
<1>4. RefusalInv'
  BY DEF FlowInv, RefusalInv, Activated
<1>5. InFlightIsServedUnlessRefused'
  BY DEF FlowInv, InFlightIsServedUnlessRefused,
         CancelWasRefused, PreparationIsServed, ActivityIsServed, StartCleans,
         FinishCleans
<1>6. StageMatchesPhase'
  BY DEF FlowInv, StageMatchesPhase, PhasesOf
<1>. QED
  BY <1>1, <1>2, <1>3, <1>4, <1>5, <1>6 DEF FlowInv

(* A step that changes nothing keeps FlowInv. *)
LEMMA StutteringKeepsFlow ==
  ASSUME FlowInv, UNCHANGED vars
  PROVE  FlowInv'
<1>. USE DEF vars, quitLocals, runtime, audio, fences, calls
<1>1. PlaceInv'
  BY DEF FlowInv, PlaceInv, StartPlace, WorkflowPlace, FinishPlace,
         CleanerPlace, QuitPlace, Prepared, Activated, InFlight,
         HoldsCapture
<1>2. LedgerInv'
  BY DEF FlowInv, LedgerInv, DebtIsRetryable
<1>3. SlotInv'
  BY DEF FlowInv, SlotInv
<1>4. RefusalInv'
  BY DEF FlowInv, RefusalInv, Activated
<1>5. InFlightIsServedUnlessRefused'
  BY DEF FlowInv, InFlightIsServedUnlessRefused,
         CancelWasRefused, PreparationIsServed, ActivityIsServed, StartCleans,
         FinishCleans
<1>6. StageMatchesPhase'
  BY DEF FlowInv, StageMatchesPhase, PhasesOf
<1>. QED
  BY <1>1, <1>2, <1>3, <1>4, <1>5, <1>6 DEF FlowInv

(* A step of a call keeps FlowInv, part by part. *)
LEMMA CallKeepsFlow ==
  ASSUME TypeInv, TypeInv', ExitInv, CaptureInv, FlowInv,
         NEW s \in Sessions,
         \/ Request(s) \/ StartStep(s) \/ FinishStep(s)
         \/ CleanerStep(s) \/ TimerStep(s)
  PROVE  FlowInv'
<1>1. PlaceInv'
  BY RequestKeepsPlace, StartKeepsPlace, FinishKeepsPlace, CleanerKeepsPlace,
        TimerKeepsPlace
<1>2. LedgerInv'
  BY RequestKeepsLedger, StartKeepsLedger, FinishKeepsLedger,
        CleanerKeepsLedger, TimerKeepsLedger
<1>3. SlotInv'
  BY RequestKeepsSlot, StartKeepsSlot, FinishKeepsSlot, CleanerKeepsSlot,
        TimerKeepsSlot
<1>4. RefusalInv'
  BY RequestKeepsRefusal, StartKeepsRefusal, FinishKeepsRefusal,
        CleanerKeepsRefusal, TimerKeepsRefusal
<1>5. InFlightIsServedUnlessRefused'
  BY RequestKeepsServed, StartKeepsServed, FinishKeepsServed,
        CleanerKeepsServed, TimerKeepsServed
<1>6. StageMatchesPhase'
  BY RequestKeepsPhase, StartKeepsPhase, FinishKeepsPhase, CleanerKeepsPhase,
        TimerKeepsPhase
<1>. QED
  BY <1>1, <1>2, <1>3, <1>4, <1>5, <1>6 DEF FlowInv

(* FlowInv is inductive relative to TypeInv, ExitInv and CaptureInv. *)
LEMMA FlowInvariant == Spec => []FlowInv
<1>1. Init => FlowInv
  BY NoSessionIsNotASession
     DEF Init, NoPreparing, NoActive, EmptySlot, FlowInv, PlaceInv, StartPlace,
         WorkflowPlace, FinishPlace, CleanerPlace, QuitPlace,
         Prepared, Activated, InFlight, Reserving, Opening, Preflight,
         StartClaims, Preflighted, FinishClosing, FinishDiscarding,
         FinishClaims, FinishRecognizing, FinishDelivering,
         FinishFinalizing, LedgerInv, DebtIsRetryable, SlotInv,
         RefusalInv, InFlightIsServedUnlessRefused,
         CancelWasRefused, PreparationIsServed, ActivityIsServed,
         StageMatchesPhase
<1>2. ASSUME TypeInv, TypeInv', ExitInv, CaptureInv, FlowInv, QuitStep
      PROVE  FlowInv'
  BY <1>2, QuitKeepsPlace, QuitKeepsLedger, QuitKeepsSlot, QuitKeepsRefusal,
        QuitKeepsServed, QuitKeepsPhase DEF FlowInv
<1>3. /\ TypeInv /\ TypeInv' /\ ExitInv /\ CaptureInv /\ FlowInv
      /\ [Next]_vars
      => FlowInv'
  BY <1>2, CallKeepsFlow, QuitBeginKeepsFlow, StutteringKeepsFlow
     DEF Next, Exited
<1>. QED
  BY <1>1, <1>3, TypeInvInductive, ExitInvInductive, CaptureInvariant, PTL
     DEF Spec

(* A cleanup under way has its call, unless that call was a cancel whose     *)
(* event was refused while the session was still preparing (finding 4 of the *)
(* README: the code leaves that one without a call); a failed cleanup has a  *)
(* retry that reaches it; and the runtime's stage and the session's phase    *)
(* agree, refused or not.                                                    *)
THEOREM WorkflowIsCoherentUnlessRefusedHolds ==
  Spec => []WorkflowIsCoherentUnlessRefused
<1>1. FlowInv => WorkflowIsCoherentUnlessRefused
  BY DEF FlowInv, LedgerInv, WorkflowIsCoherentUnlessRefused
<1>. QED
  BY <1>1, FlowInvariant, PTL

(* Whoever is cancelling a capture or cleaning an artifact is alone at it:   *)
(* the claims of start, finish, a retry and the exit exclude one another.    *)
LEMMA ClaimsExclude ==
  ASSUME TypeInv, ExitInv, CaptureInv, FlowInv
  PROVE  CleanupExclusive
<1>. USE NoSessionIsNotASession DEF TypeInv, TypeOK, ExitInv, Subject, FlowInv,
         PlaceInv, StartPlace, WorkflowPlace, FinishPlace, CleanerPlace,
         QuitPlace, Prepared, Activated, InFlight, Opening, Preflight,
         StartClaims, FinishClosing, FinishDiscarding, FinishClaims,
         HoldsCapture, PreparingWorkflow, ActiveWorkflow
<1>. SUFFICES ASSUME NEW s \in Sessions
              PROVE  /\ \A c, d \in CapturesBeingCancelled(s) : c = d
                     /\ \A c, d \in ArtifactsBeingCleaned(s) : c = d
  BY DEF CleanupExclusive
<1>1. ~(start[s] \in {"abandon", "cancel"} /\ cleaner[s] = "capture")
  OBVIOUS
<1>2. ~(start[s] \in {"abandon", "cancel"} /\ quit = "capture" /\ Subject = s)
  BY DEF CaptureInv
<1>3. ~(cleaner[s] = "capture" /\ quit = "capture" /\ Subject = s)
  BY DEF CaptureInv
<1>4. ~(finish[s] \in {"clean", "discard"} /\ cleaner[s] = "artifact")
  OBVIOUS
<1>5. ~(finish[s] \in {"clean", "discard"} /\ quit = "artifact" /\ Subject = s)
  BY DEF CaptureInv
<1>6. ~(cleaner[s] = "artifact" /\ quit = "artifact" /\ Subject = s)
  BY DEF CaptureInv
<1>. HIDE DEF FlowInv, PlaceInv
<1>7. \A c, d \in CapturesBeingCancelled(s) : c = d
  BY <1>1, <1>2, <1>3 DEF CapturesBeingCancelled
<1>8. \A c, d \in ArtifactsBeingCleaned(s) : c = d
  BY <1>4, <1>5, <1>6 DEF ArtifactsBeingCleaned
<1>. QED
  BY <1>7, <1>8

(* No two calls are ever in the same cancel or cleanup. *)
THEOREM CleanupExclusiveHolds == Spec => []CleanupExclusive
<1>1. TypeInv /\ ExitInv /\ CaptureInv /\ FlowInv => CleanupExclusive
  BY ClaimsExclude
<1>. QED
  BY <1>1, TypeInvInductive, ExitInvInductive, CaptureInvariant, FlowInvariant,
     PTL DEF Spec

-----------------------------------------------------------------------------
(* The recordings on disk *)

(* Where a call has seen the finalized recording deleted, or it is not there *)
(* yet.                                                                      *)
Discarded(s) ==
  \/ finish[s] \in {"idle", "audio", "failed", "empty", "cleaned", "cleanedUp",
                    "discarded", "failSession", "noSpeech", "process",
                    "processing", "llm", "deliver", "delivering", "clear"}
                   \cup FinishDelivering \cup FinishFinalizing
  \/ finish[s] = "outcome" /\ ~quitting
  \/ cleaner[s] \in {"artifactGone", "close", "cancelSession", "failSession",
                     "clear"}
  \/ quit = "artifactGone" /\ Subject = s
  \/ Activated(s, {"Recording", "Cancelling", "Processing", "Delivering",
                   "Finalizing"})
  \/ Prepared(s, PreparingStages)

Owed(s) == <<s, "artifact">> \in debts

Deletes(s) ==
  \/ finish[s] \in {"clean", "cleanFailed"}
  \/ cleaner[s] \in {"artifact", "artifactKept"}

(* Whoever leaves a recording behind has entered it as a debt.               *)
ArtifactInvOf(s) ==
  /\ Discarded(s) => s \notin artifact
  /\ s \in artifact /\ Activated(s, {"CleaningAudio"}) => Owed(s) \/ Deletes(s)
  /\ s \in artifact /\ Activated(s, {"Recognizing"}) =>
       \A a \in {active, heldActive} : a.id = s => a.audio = "file"
  /\ /\ s \in artifact /\ Activated(s, {"Recognizing"})
     /\ quit \in {"drainOps"} \cup Drained
     => Owed(s)
  /\ s \in artifact /\ quit \in Drained => Owed(s) \/ s \in refused
  /\ s \in artifact => \/ s \in {active.id, heldActive.id}
                       \/ quit = "done" \/ Owed(s)
  /\ s \in artifact /\ ~quitting => active.id = s

ArtifactInv ==
  /\ \A s \in Sessions : ArtifactInvOf(s)
  /\ ArtifactOwnedUnlessRefused
  /\ quit = "done" => debts = {}
  /\ \A s \in commit : finish[s] \in {"committing", "saving"}

(* The one session there is: the reservation, the workflow, the resources,   *)
(* the writes and the debts are all its.                                     *)
Known(s) ==
  \/ s \in {starting, preparing.id, active.id, heldPreparing.id, heldActive.id}
  \/ s \in capture \cup artifact \cup commit
  \/ \E r \in Resources : <<s, r>> \in debts \cup retrying

SoleInv ==
  /\ \A s, t \in Sessions : Known(s) /\ Known(t) => s = t
  /\ ~quitting => retrying = {}

(* A step of the user, the shell and the outside keeps ArtifactInv. *)
LEMMA RequestKeepsArtifact ==
  ASSUME TypeInv, TypeInv', ExitInv, CaptureInv, FlowInv, ArtifactInv,
         NEW s \in Sessions, Request(s)
  PROVE  ArtifactInv'
<1>. USE NoSessionIsNotASession DEF TypeInv, TypeOK, ExitInv, Subject,
         Resources, runtime, audio, fences, calls, quitLocals,
         PreparingWorkflow, ActiveWorkflow, PreparingStages, RuntimeStages,
         PlaceInv, StartPlace, WorkflowPlace, FinishPlace, CleanerPlace,
         QuitPlace, Prepared, Activated, InFlight, Reserving, Opening,
         Preflight, StartClaims, Preflighted, FinishClosing, FinishDiscarding,
         FinishClaims, FinishRecognizing, FinishDelivering, FinishFinalizing,
         HoldsCapture, ArtifactInv, ArtifactInvOf, Discarded, Owed, Deletes,
         ArtifactOwnedUnlessRefused, ArtifactHeld, CaptureInv, Drained,
         OpsQuiescent, FlowInv, LedgerInv
<1>1. CASE StartEnter(s)
  BY <1>1, WorkflowValues DEF StartEnter, GotoStart
<1>2. CASE StartPrepare(s)
  BY <1>2, WorkflowValues DEF StartPrepare, NoPreparing, GotoStart, GiveUp
<1>3. CASE FinishRequest(s)
  BY <1>3, WorkflowValues DEF FinishRequest, CanFinish, FinishClaimed,
        GotoFinish
<1>4. CASE CancelRequest(s)
  <2>1. CASE preparing.id = s
    <3>1. active' = active /\ active.id = NoSession
      BY <1>4, <2>1 DEF CancelRequest
    <3>2. /\ preparing'.id = s /\ preparing'.stage = "Cancelling"
          /\ preparing'.cleanup = "inFlight"
      BY <1>4, <2>1, WorkflowValues DEF CancelRequest
    <3>. QED
      BY <1>4, <2>1, <3>1, <3>2 DEF CancelRequest, GotoCleaner
  <2>2. CASE active.id = s
    <3>1. preparing' = preparing
      BY <1>4, <2>2 DEF CancelRequest
    <3>2. /\ active'.id = s /\ active'.stage = "Cancelling"
          /\ active'.cleanup = "inFlight"
      BY <1>4, <2>2, WorkflowValues DEF CancelRequest
    <3>. QED
      BY <1>4, <2>2, <3>1, <3>2 DEF CancelRequest, GotoCleaner
  <2>. QED
    BY <1>4, <2>1, <2>2 DEF CancelRequest
<1>5. CASE RetryRequest(s)
  BY <1>5, WorkflowValues DEF RetryRequest, GotoCleaner
<1>6. CASE FinishAsrAnswer(s)
  BY <1>6, WorkflowValues DEF FinishAsrAnswer, GotoFinish
<1>. HIDE DEF ArtifactInv
<1>. QED BY <1>1, <1>2, <1>3, <1>4, <1>5, <1>6 DEF Request

(* A step of start keeps ArtifactInv. *)
LEMMA StartKeepsArtifact ==
  ASSUME TypeInv, TypeInv', ExitInv, CaptureInv, FlowInv, ArtifactInv,
         NEW s \in Sessions, StartStep(s)
  PROVE  ArtifactInv'
<1>. USE NoSessionIsNotASession DEF TypeInv, TypeOK, ExitInv, Subject,
         Resources, runtime, audio, fences, calls, quitLocals,
         PreparingWorkflow, ActiveWorkflow, PreparingStages, RuntimeStages,
         PlaceInv, StartPlace, WorkflowPlace, FinishPlace, CleanerPlace,
         QuitPlace, Prepared, Activated, InFlight, Reserving, Opening,
         Preflight, StartClaims, Preflighted, FinishClosing, FinishDiscarding,
         FinishClaims, FinishRecognizing, FinishDelivering, FinishFinalizing,
         HoldsCapture, ArtifactInv, ArtifactInvOf, Discarded, Owed, Deletes,
         ArtifactOwnedUnlessRefused, ArtifactHeld, CaptureInv, Drained,
         OpsQuiescent, FlowInv, LedgerInv
<1>1. CASE StartReserve(s)
  BY <1>1, WorkflowValues DEF StartReserve, HasActiveSession, GotoStart
<1>2. CASE StartSettings(s)
  BY <1>2, WorkflowValues DEF StartSettings, ReservedCall,
        StartReservationIsCurrent, GotoStart, GiveUp
<1>3. CASE StartRoute(s)
  BY <1>3, WorkflowValues DEF StartRoute, StartReservationIsCurrent, GotoStart
<1>4. CASE StartTarget(s)
  BY <1>4, WorkflowValues DEF StartTarget, ReservedCall,
        StartReservationIsCurrent, GotoStart, GiveUp
<1>5. CASE StartSelection(s)
  BY <1>5, WorkflowValues DEF StartSelection, ReservedCall,
        StartReservationIsCurrent, GotoStart, GiveUp
<1>6. CASE StartCue(s)
  BY <1>6, WorkflowValues DEF StartCue, IsCurrentPreparingStart, GotoStart
<1>7. CASE StartOpen(s)
  BY <1>7, WorkflowValues DEF StartOpen, GotoStart, RemovePreparing,
        NoPreparing
<1>8. CASE StartPublish(s)
  BY <1>8, WorkflowValues DEF StartPublish, IsCurrentPreparingStart, GotoStart
<1>9. CASE StartAbandon(s)
  BY <1>9, WorkflowValues DEF StartAbandon, Released, Kept, GotoStart
<1>10. CASE StartAbandonSettle(s)
  BY <1>10, WorkflowValues DEF StartAbandonSettle, GotoStart, ClearDebt,
        RecordDebt
<1>11. CASE StartDeadline(s)
  BY <1>11, WorkflowValues DEF StartDeadline, GotoStart, ClaimOrLeave,
        IsCurrentPreparingCapture, ClaimPreparingCapture
<1>12. CASE StartAttach(s)
  BY <1>12, WorkflowValues DEF StartAttach, IsCurrentPreparingCapture,
        GotoStart
<1>13. CASE StartShow(s)
  BY <1>13, WorkflowValues DEF StartShow, IsCurrentPreparingCapture, GotoStart,
        ClaimOrLeave, ClaimPreparingCapture
<1>14. CASE StartJoin(s)
  BY <1>14, WorkflowValues DEF StartJoin, IsCurrentPreparingCapture, GotoStart,
        ClaimOrLeave, ClaimPreparingCapture
<1>15. CASE StartTry(s)
  BY <1>15, WorkflowValues DEF StartTry, GotoStart, ClaimOrLeave,
        IsCurrentPreparingCapture, ClaimPreparingCapture
<1>16. CASE StartUpdate(s)
  BY <1>16, WorkflowValues DEF StartUpdate, IsCurrentPreparingCapture,
        ClaimPreparingCapture, GotoStart
<1>17. CASE StartActivate(s)
  BY <1>17, WorkflowValues DEF StartActivate, NoPreparing,
        IsCurrentPreparingCapture, GotoStart, NoActive
<1>18. CASE StartPreflight(s)
  BY <1>18, WorkflowValues DEF StartPreflight, GotoStart, Apply
<1>19. CASE StartFail(s)
  BY <1>19, WorkflowValues DEF StartFail, GotoStart
<1>20. CASE StartCancel(s)
  BY <1>20, WorkflowValues DEF StartCancel, Released, Kept, GotoStart
<1>21. CASE StartCancelSettle(s)
  BY <1>21, WorkflowValues DEF StartCancelSettle, GotoStart, ClearDebt,
        RecordDebt
<1>22. CASE StartRelease(s)
  BY <1>22, WorkflowValues DEF StartRelease, ReleaseInFlight, GotoStart
<1>23. CASE StartRemove(s)
  BY <1>23, WorkflowValues DEF StartRemove, GotoStart, RemovePreparing,
        NoPreparing
<1>24. CASE StartReject(s)
  BY <1>24, WorkflowValues DEF StartReject, GotoStart
<1>25. CASE StartLimit(s)
  BY <1>25, WorkflowValues DEF StartLimit, GotoStart, CanFinish, FinishClaimed,
        GotoFinish
<1>26. CASE StartAwait(s)
  BY <1>26, WorkflowValues DEF StartAwait, GotoStart
<1>. HIDE DEF ArtifactInv
<1>. QED BY <1>1, <1>2, <1>3, <1>4, <1>5, <1>6, <1>7, <1>8, <1>9, <1>10, <1>11,
      <1>12, <1>13, <1>14, <1>15, <1>16, <1>17, <1>18, <1>19, <1>20, <1>21,
      <1>22, <1>23, <1>24, <1>25, <1>26 DEF StartStep

(* A step of finish_recording keeps ArtifactInv. *)
LEMMA FinishKeepsArtifact ==
  ASSUME TypeInv, TypeInv', ExitInv, CaptureInv, FlowInv, ArtifactInv,
         NEW s \in Sessions, FinishStep(s)
  PROVE  ArtifactInv'
<1>. USE NoSessionIsNotASession DEF TypeInv, TypeOK, ExitInv, Subject,
         Resources, runtime, audio, fences, calls, quitLocals,
         PreparingWorkflow, ActiveWorkflow, PreparingStages, RuntimeStages,
         PlaceInv, StartPlace, WorkflowPlace, FinishPlace, CleanerPlace,
         QuitPlace, Prepared, Activated, InFlight, Reserving, Opening,
         Preflight, StartClaims, Preflighted, FinishClosing, FinishDiscarding,
         FinishClaims, FinishRecognizing, FinishDelivering, FinishFinalizing,
         HoldsCapture, ArtifactInv, ArtifactInvOf, Discarded, Owed, Deletes,
         ArtifactOwnedUnlessRefused, ArtifactHeld, CaptureInv, Drained,
         OpsQuiescent, FlowInv, LedgerInv
<1>1. CASE FinishAudio(s)
  BY <1>1, WorkflowValues DEF FinishAudio, GotoFinish
<1>2. CASE FinishUnusable(s)
  BY <1>2, WorkflowValues DEF FinishUnusable, IsCurrentStage, GotoFinish,
        GotoCleaner
<1>3. CASE FinishCheck(s)
  BY <1>3, WorkflowValues DEF FinishCheck, IsCurrentStage, GotoFinish
<1>4. CASE FinishApply(s)
  <2>1. \/ finish'[s] \in {"recognize", "discard"}
        \/ finish'[s] = "done" /\ s \in refused'
    BY <1>4 DEF FinishApply, ApplyOr, GotoFinish, Apply, Answer
  <2>2. /\ finish' = [finish EXCEPT ![s] = finish'[s]]
        /\ refused \subseteq refused'
    BY <1>4 DEF FinishApply, ApplyOr, GotoFinish, Apply
  <2>. QED
    BY <1>4, <2>1, <2>2 DEF FinishApply
<1>5. CASE FinishRecognize(s)
  BY <1>5, WorkflowValues DEF FinishRecognize, IsCurrentStage, GotoFinish
<1>6. CASE FinishSubmit(s)
  BY <1>6, WorkflowValues DEF FinishSubmit, GotoFinish
<1>7. CASE FinishBeginCleanup(s)
  BY <1>7, WorkflowValues DEF FinishBeginCleanup, IsCurrentStage, GotoFinish
<1>8. CASE FinishClean(s)
  BY <1>8, WorkflowValues DEF FinishClean, Released, Kept, GotoFinish
<1>9. CASE FinishCleanSettle(s)
  BY <1>9, WorkflowValues DEF FinishCleanSettle, ClearDebt, RecordDebt,
        GotoFinish
<1>10. CASE FinishRelease(s)
  BY <1>10, WorkflowValues DEF FinishRelease, ReleaseInFlight, GotoFinish
<1>11. CASE FinishCompleteCleanup(s)
  BY <1>11, WorkflowValues DEF FinishCompleteCleanup, IsCurrentStage,
        GotoFinish
<1>12. CASE FinishOutcome(s)
  BY <1>12, WorkflowValues DEF FinishOutcome, IsCurrentStage, GotoFinish
<1>13. CASE FinishFail(s)
  BY <1>13, WorkflowValues DEF FinishFail, GotoFinish
<1>14. CASE FinishNoSpeech(s)
  BY <1>14, WorkflowValues DEF FinishNoSpeech, FinishApplies, ApplyOr,
        GotoFinish, Apply
<1>15. CASE FinishProcess(s)
  BY <1>15, WorkflowValues DEF FinishProcess, FinishApplies, ApplyOr,
        GotoFinish, Apply
<1>16. CASE FinishDeliver(s)
  BY <1>16, WorkflowValues DEF FinishDeliver, FinishApplies, ApplyOr,
        GotoFinish, Apply
<1>17. CASE FinishFinalize(s)
  BY <1>17, WorkflowValues DEF FinishFinalize, FinishApplies, ApplyOr,
        GotoFinish, Apply
<1>18. CASE FinishComplete(s)
  BY <1>18, WorkflowValues DEF FinishComplete, FinishApplies, ApplyOr,
        GotoFinish, Apply
<1>19. CASE FinishSetProcessing(s)
  BY <1>19, WorkflowValues DEF FinishSetProcessing, FinishSetStage,
        IsCurrentStage, SetStage, GotoFinish
<1>20. CASE FinishSetDelivering(s)
  BY <1>20, WorkflowValues DEF FinishSetDelivering, FinishSetStage,
        IsCurrentStage, SetStage, GotoFinish
<1>21. CASE FinishSetFinalizing(s)
  BY <1>21, WorkflowValues DEF FinishSetFinalizing, FinishSetStage,
        IsCurrentStage, SetStage, GotoFinish
<1>22. CASE FinishLlmAnswer(s)
  BY <1>22, WorkflowValues DEF FinishLlmAnswer, IsCurrentStage, GotoFinish
<1>23. CASE FinishBeginCommit(s)
  BY <1>23, WorkflowValues DEF FinishBeginCommit, BeginCommit, GotoFinish
<1>24. CASE FinishSkipCommit(s)
  BY <1>24, WorkflowValues DEF FinishSkipCommit, GotoFinish
<1>25. CASE FinishEndCommit(s)
  BY <1>25, WorkflowValues DEF FinishEndCommit, EndCommit, GotoFinish
<1>26. CASE FinishDelivered(s)
  BY <1>26, WorkflowValues DEF FinishDelivered, IsCurrentStage, GotoFinish
<1>27. CASE FinishSaved(s)
  BY <1>27, WorkflowValues DEF FinishSaved, IsCurrentStage, GotoFinish
<1>28. CASE FinishClear(s)
  BY <1>28, WorkflowValues DEF FinishClear, GotoFinish, ClearActive, NoActive
<1>. HIDE DEF ArtifactInv
<1>. QED BY <1>1, <1>2, <1>3, <1>4, <1>5, <1>6, <1>7, <1>8, <1>9, <1>10, <1>11,
      <1>12, <1>13, <1>14, <1>15, <1>16, <1>17, <1>18, <1>19, <1>20, <1>21,
      <1>22, <1>23, <1>24, <1>25, <1>26, <1>27, <1>28 DEF FinishStep

(* A step of a cancel or a cleanup retry keeps ArtifactInv. *)
LEMMA CleanerKeepsArtifact ==
  ASSUME TypeInv, TypeInv', ExitInv, CaptureInv, FlowInv, ArtifactInv,
         NEW s \in Sessions, CleanerStep(s)
  PROVE  ArtifactInv'
<1>. USE NoSessionIsNotASession DEF TypeInv, TypeOK, ExitInv, Subject,
         Resources, runtime, audio, fences, calls, quitLocals,
         PreparingWorkflow, ActiveWorkflow, PreparingStages, RuntimeStages,
         PlaceInv, StartPlace, WorkflowPlace, FinishPlace, CleanerPlace,
         QuitPlace, Prepared, Activated, InFlight, Reserving, Opening,
         Preflight, StartClaims, Preflighted, FinishClosing, FinishDiscarding,
         FinishClaims, FinishRecognizing, FinishDelivering, FinishFinalizing,
         HoldsCapture, ArtifactInv, ArtifactInvOf, Discarded, Owed, Deletes,
         ArtifactOwnedUnlessRefused, ArtifactHeld, CaptureInv, Drained,
         OpsQuiescent, FlowInv, LedgerInv
<1>1. CASE CleanerCapture(s)
  BY <1>1, WorkflowValues DEF CleanerCapture, Released, Kept, GotoCleaner
<1>2. CASE CleanerArtifact(s)
  BY <1>2, WorkflowValues DEF CleanerArtifact, Released, Kept, GotoCleaner
<1>3. CASE CleanerSettle(s)
  BY <1>3, WorkflowValues DEF CleanerSettle, GotoCleaner, ClearDebt, RecordDebt
<1>4. CASE CleanerRelease(s)
  BY <1>4, WorkflowValues DEF CleanerRelease, ReleaseInFlight, GotoCleaner
<1>5. CASE CleanerClose(s)
  BY <1>5, WorkflowValues DEF CleanerClose, GotoCleaner, RemovePreparing,
        NoPreparing, IsCurrentStage
<1>6. CASE CleanerCancelSession(s)
  BY <1>6, WorkflowValues DEF CleanerCancelSession, GotoCleaner
<1>7. CASE CleanerFailSession(s)
  BY <1>7, WorkflowValues DEF CleanerFailSession, GotoCleaner
<1>8. CASE CleanerClear(s)
  BY <1>8, WorkflowValues DEF CleanerClear, GotoCleaner, ClearActive, NoActive
<1>. HIDE DEF ArtifactInv
<1>. QED BY <1>1, <1>2, <1>3, <1>4, <1>5, <1>6, <1>7, <1>8 DEF CleanerStep

(* A step of the recording deadline keeps ArtifactInv. *)
LEMMA TimerKeepsArtifact ==
  ASSUME TypeInv, TypeInv', ExitInv, CaptureInv, FlowInv, ArtifactInv,
         NEW s \in Sessions, TimerStep(s)
  PROVE  ArtifactInv'
<1>. USE NoSessionIsNotASession DEF TypeInv, TypeOK, ExitInv, Subject,
         Resources, runtime, audio, fences, calls, quitLocals,
         PreparingWorkflow, ActiveWorkflow, PreparingStages, RuntimeStages,
         PlaceInv, StartPlace, WorkflowPlace, FinishPlace, CleanerPlace,
         QuitPlace, Prepared, Activated, InFlight, Reserving, Opening,
         Preflight, StartClaims, Preflighted, FinishClosing, FinishDiscarding,
         FinishClaims, FinishRecognizing, FinishDelivering, FinishFinalizing,
         HoldsCapture, ArtifactInv, ArtifactInvOf, Discarded, Owed, Deletes,
         ArtifactOwnedUnlessRefused, ArtifactHeld, CaptureInv, Drained,
         OpsQuiescent, FlowInv, LedgerInv
<1>1. CASE DeadlineElapses(s)
  BY <1>1, WorkflowValues DEF DeadlineElapses
<1>2. CASE RecordingLimitElapsed(s)
  BY <1>2, WorkflowValues DEF RecordingLimitElapsed, RememberLimit
<1>3. CASE DeadlineFinish(s)
  BY <1>3, WorkflowValues DEF DeadlineFinish, CanFinish, FinishClaimed,
        GotoFinish
<1>. HIDE DEF ArtifactInv
<1>. QED BY <1>1, <1>2, <1>3 DEF TimerStep

(* A step of the exit leader keeps ArtifactInv. *)
LEMMA QuitKeepsArtifact ==
  ASSUME TypeInv, TypeInv', ExitInv, CaptureInv, FlowInv, ArtifactInv,
         QuitStep
  PROVE  ArtifactInv'
<1>. USE NoSessionIsNotASession DEF TypeInv, TypeOK, ExitInv, Subject,
         Resources, runtime, audio, fences, calls, quitLocals,
         PreparingWorkflow, ActiveWorkflow, PreparingStages, RuntimeStages,
         PlaceInv, StartPlace, WorkflowPlace, FinishPlace, CleanerPlace,
         QuitPlace, Prepared, Activated, InFlight, Reserving, Opening,
         Preflight, StartClaims, Preflighted, FinishClosing, FinishDiscarding,
         FinishClaims, FinishRecognizing, FinishDelivering, FinishFinalizing,
         HoldsCapture, ArtifactInv, ArtifactInvOf, Discarded, Owed, Deletes,
         ArtifactOwnedUnlessRefused, ArtifactHeld, CaptureInv, Drained,
         OpsQuiescent, FlowInv, LedgerInv
<1>1. CASE QuitTake
  BY <1>1, WorkflowValues DEF QuitTake, NoPreparing, NoActive
<1>2. CASE QuitInvalidate
  BY <1>2, WorkflowValues DEF QuitInvalidate
<1>3. CASE QuitFail
  BY <1>3, WorkflowValues DEF QuitFail
<1>4. CASE QuitStage
  BY <1>4, WorkflowValues DEF QuitStage, HoldsCapture
<1>5. CASE QuitAsrCancel
  BY <1>5, WorkflowValues DEF QuitAsrCancel
<1>6. CASE QuitCapture
  BY <1>6, WorkflowValues DEF QuitCapture, Released, Kept
<1>7. CASE QuitArtifact
  BY <1>7, WorkflowValues DEF QuitArtifact, Released, Kept
<1>8. CASE QuitSettle
  BY <1>8, WorkflowValues DEF QuitSettle, ClearDebt, RecordDebt
<1>9. CASE QuitDrainOps
  BY <1>9, WorkflowValues DEF QuitDrainOps
<1>10. CASE QuitDrainCommits
  BY <1>10, WorkflowValues DEF QuitDrainCommits
<1>11. CASE QuitSnapshot
  BY <1>11, WorkflowValues DEF QuitSnapshot
<1>12. CASE QuitRetried
  BY <1>12, WorkflowValues DEF QuitRetried
<1>13. CASE QuitVerdict
  BY <1>13, WorkflowValues DEF QuitVerdict, NoPreparing, NoActive
<1>14. ASSUME NEW s \in Sessions, NEW resource \in Resources,
             QuitRetry(s, resource)
      PROVE  ArtifactInv'
  BY <1>14, WorkflowValues DEF QuitRetry, Released, Kept, ClearDebt, RecordDebt
<1>. HIDE DEF ArtifactInv
<1>. QED BY <1>1, <1>2, <1>3, <1>4, <1>5, <1>6, <1>7, <1>8, <1>9, <1>10, <1>11,
      <1>12, <1>13, <1>14 DEF QuitStep

(* The exit leader closing the operation barrier keeps ArtifactInv. *)
LEMMA QuitBeginKeepsArtifact ==
  ASSUME TypeInv, ExitInv, ArtifactInv, QuitBegin
  PROVE  ArtifactInv'
  BY DEF QuitBegin, Activated, Prepared, ArtifactInv, ArtifactInvOf, Discarded,
         Owed, Deletes, ArtifactOwnedUnlessRefused, ArtifactHeld,
         Drained, Subject, runtime, audio, fences, calls

(* A step that changes nothing keeps ArtifactInv. *)
LEMMA StutteringKeepsArtifact ==
  ASSUME ArtifactInv, UNCHANGED vars
  PROVE  ArtifactInv'
  BY DEF vars, quitLocals, Activated, Prepared, ArtifactInv, ArtifactInvOf,
         Discarded, Owed, Deletes, ArtifactOwnedUnlessRefused,
         ArtifactHeld, Drained, Subject, runtime, audio, fences, calls

(* ArtifactInv is inductive relative to FlowInv and what that rests on. *)
LEMMA ArtifactInvariant == Spec => []ArtifactInv
<1>1. Init => ArtifactInv
  BY DEF Init, ArtifactInv, ArtifactInvOf, ArtifactOwnedUnlessRefused
<1>2. /\ TypeInv /\ TypeInv' /\ ExitInv /\ CaptureInv /\ FlowInv
      /\ ArtifactInv /\ [Next]_vars
      => ArtifactInv'
  BY RequestKeepsArtifact, StartKeepsArtifact, FinishKeepsArtifact,
        CleanerKeepsArtifact, TimerKeepsArtifact, QuitKeepsArtifact,
        QuitBeginKeepsArtifact, StutteringKeepsArtifact DEF Next, Exited
<1>. QED
  BY <1>1, <1>2, TypeInvInductive, ExitInvInductive, CaptureInvariant,
     FlowInvariant, PTL DEF Spec

(* A recording on disk always has somebody who is about to delete it, unless *)
(* its session met the activation race.                                      *)
THEOREM ArtifactOwnedUnlessRefusedHolds == Spec => []ArtifactOwnedUnlessRefused
<1>1. ArtifactInv => ArtifactOwnedUnlessRefused
  BY DEF ArtifactInv
<1>. QED
  BY <1>1, ArtifactInvariant, PTL

(* A successful exit leaves no open microphone, no call, no write and no     *)
(* debt behind, and no recording but one of the activation race.             *)
THEOREM ExitIsCleanHolds == Spec => []ExitIsClean
<1>1. ASSUME TypeInv, CaptureInv, ArtifactInv PROVE ExitIsClean
  <2>. SUFFICES ASSUME quit = "done"
                PROVE  /\ OpsQuiescent /\ debts = {} /\ capture = {}
                       /\ commit = {} /\ artifact \subseteq refused
    BY DEF ExitIsClean
  <2>1. OpsQuiescent /\ debts = {}
    BY <1>1 DEF CaptureInv, Drained, ArtifactInv
  <2>2. capture = {}
    BY <1>1, <2>1 DEF TypeInv, TypeOK, CaptureInv, CaptureInvOf, Drained,
                      Indebted
  <2>3. commit = {}
    BY <1>1, <2>1 DEF TypeInv, TypeOK, OpsQuiescent, ArtifactInv
  <2>4. artifact \subseteq refused
    BY <1>1, <2>1 DEF TypeInv, TypeOK, ArtifactInv, ArtifactInvOf, Drained,
                      Owed
  <2>. QED
    BY <2>1, <2>2, <2>3, <2>4
<1>. QED
  BY <1>1, TypeInvInductive, CaptureInvariant, ArtifactInvariant, PTL DEF Spec

(* A step of the user, the shell and the outside keeps SoleInv. *)
LEMMA RequestKeepsSole ==
  ASSUME TypeInv, TypeInv', ExitInv, CaptureInv, FlowInv, ArtifactInv, SoleInv,
         NEW s \in Sessions, Request(s)
  PROVE  SoleInv'
<1>. USE NoSessionIsNotASession DEF TypeInv, TypeOK, ExitInv, Subject,
         Resources, runtime, audio, fences, calls, quitLocals,
         PreparingWorkflow, ActiveWorkflow, PreparingStages, RuntimeStages,
         PlaceInv, StartPlace, WorkflowPlace, FinishPlace, CleanerPlace,
         QuitPlace, Prepared, Activated, InFlight, Reserving, Opening,
         Preflight, StartClaims, Preflighted, FinishClosing, FinishDiscarding,
         FinishClaims, FinishRecognizing, FinishDelivering, FinishFinalizing,
         HoldsCapture, SoleInv, Known, ArtifactInv, ArtifactInvOf, Owed,
         Deletes, CaptureInv, CaptureOwned, CaptureHeld, FlowInv
<1>1. CASE StartEnter(s)
  BY <1>1, WorkflowValues DEF StartEnter, GotoStart
<1>2. CASE StartPrepare(s)
  BY <1>2, WorkflowValues DEF StartPrepare, NoPreparing, GotoStart, GiveUp
<1>3. CASE FinishRequest(s)
  BY <1>3, WorkflowValues DEF FinishRequest, CanFinish, FinishClaimed,
        GotoFinish
<1>4. CASE CancelRequest(s)
  BY <1>4, WorkflowValues DEF CancelRequest, GotoCleaner
<1>5. CASE RetryRequest(s)
  BY <1>5, WorkflowValues DEF RetryRequest, GotoCleaner
<1>6. CASE FinishAsrAnswer(s)
  BY <1>6, WorkflowValues DEF FinishAsrAnswer, GotoFinish
<1>. HIDE DEF SoleInv
<1>. QED BY <1>1, <1>2, <1>3, <1>4, <1>5, <1>6 DEF Request

(* A step of start keeps SoleInv. *)
LEMMA StartKeepsSole ==
  ASSUME TypeInv, TypeInv', ExitInv, CaptureInv, FlowInv, ArtifactInv, SoleInv,
         NEW s \in Sessions, StartStep(s)
  PROVE  SoleInv'
<1>. USE NoSessionIsNotASession DEF TypeInv, TypeOK, ExitInv, Subject,
         Resources, runtime, audio, fences, calls, quitLocals,
         PreparingWorkflow, ActiveWorkflow, PreparingStages, RuntimeStages,
         PlaceInv, StartPlace, WorkflowPlace, FinishPlace, CleanerPlace,
         QuitPlace, Prepared, Activated, InFlight, Reserving, Opening,
         Preflight, StartClaims, Preflighted, FinishClosing, FinishDiscarding,
         FinishClaims, FinishRecognizing, FinishDelivering, FinishFinalizing,
         HoldsCapture, SoleInv, Known, ArtifactInv, ArtifactInvOf, Owed,
         Deletes, CaptureInv, CaptureOwned, CaptureHeld, FlowInv
<1>1. CASE StartReserve(s)
  BY <1>1, WorkflowValues DEF StartReserve, HasActiveSession, GotoStart
<1>2. CASE StartSettings(s)
  BY <1>2, WorkflowValues DEF StartSettings, ReservedCall,
        StartReservationIsCurrent, GotoStart, GiveUp
<1>3. CASE StartRoute(s)
  BY <1>3, WorkflowValues DEF StartRoute, StartReservationIsCurrent, GotoStart
<1>4. CASE StartTarget(s)
  BY <1>4, WorkflowValues DEF StartTarget, ReservedCall,
        StartReservationIsCurrent, GotoStart, GiveUp
<1>5. CASE StartSelection(s)
  BY <1>5, WorkflowValues DEF StartSelection, ReservedCall,
        StartReservationIsCurrent, GotoStart, GiveUp
<1>6. CASE StartCue(s)
  BY <1>6, WorkflowValues DEF StartCue, IsCurrentPreparingStart, GotoStart
<1>7. CASE StartOpen(s)
  BY <1>7, WorkflowValues DEF StartOpen, GotoStart, RemovePreparing,
        NoPreparing
<1>8. CASE StartPublish(s)
  BY <1>8, WorkflowValues DEF StartPublish, IsCurrentPreparingStart, GotoStart
<1>9. CASE StartAbandon(s)
  BY <1>9, WorkflowValues DEF StartAbandon, Released, Kept, GotoStart
<1>10. CASE StartAbandonSettle(s)
  BY <1>10, WorkflowValues DEF StartAbandonSettle, GotoStart, ClearDebt,
        RecordDebt
<1>11. CASE StartDeadline(s)
  BY <1>11, WorkflowValues DEF StartDeadline, GotoStart, ClaimOrLeave,
        IsCurrentPreparingCapture, ClaimPreparingCapture
<1>12. CASE StartAttach(s)
  BY <1>12, WorkflowValues DEF StartAttach, IsCurrentPreparingCapture,
        GotoStart
<1>13. CASE StartShow(s)
  BY <1>13, WorkflowValues DEF StartShow, IsCurrentPreparingCapture, GotoStart,
        ClaimOrLeave, ClaimPreparingCapture
<1>14. CASE StartJoin(s)
  BY <1>14, WorkflowValues DEF StartJoin, IsCurrentPreparingCapture, GotoStart,
        ClaimOrLeave, ClaimPreparingCapture
<1>15. CASE StartTry(s)
  BY <1>15, WorkflowValues DEF StartTry, GotoStart, ClaimOrLeave,
        IsCurrentPreparingCapture, ClaimPreparingCapture
<1>16. CASE StartUpdate(s)
  BY <1>16, WorkflowValues DEF StartUpdate, IsCurrentPreparingCapture,
        ClaimPreparingCapture, GotoStart
<1>17. CASE StartActivate(s)
  BY <1>17, WorkflowValues DEF StartActivate, NoPreparing,
        IsCurrentPreparingCapture, GotoStart, NoActive
<1>18. CASE StartPreflight(s)
  BY <1>18, WorkflowValues DEF StartPreflight, GotoStart
<1>19. CASE StartFail(s)
  BY <1>19, WorkflowValues DEF StartFail, GotoStart
<1>20. CASE StartCancel(s)
  BY <1>20, WorkflowValues DEF StartCancel, Released, Kept, GotoStart
<1>21. CASE StartCancelSettle(s)
  BY <1>21, WorkflowValues DEF StartCancelSettle, GotoStart, ClearDebt,
        RecordDebt
<1>22. CASE StartRelease(s)
  BY <1>22, WorkflowValues DEF StartRelease, ReleaseInFlight, GotoStart
<1>23. CASE StartRemove(s)
  BY <1>23, WorkflowValues DEF StartRemove, GotoStart, RemovePreparing,
        NoPreparing
<1>24. CASE StartReject(s)
  BY <1>24, WorkflowValues DEF StartReject, GotoStart
<1>25. CASE StartLimit(s)
  BY <1>25, WorkflowValues DEF StartLimit, GotoStart, CanFinish, FinishClaimed,
        GotoFinish
<1>26. CASE StartAwait(s)
  BY <1>26, WorkflowValues DEF StartAwait, GotoStart
<1>. HIDE DEF SoleInv
<1>. QED BY <1>1, <1>2, <1>3, <1>4, <1>5, <1>6, <1>7, <1>8, <1>9, <1>10, <1>11,
      <1>12, <1>13, <1>14, <1>15, <1>16, <1>17, <1>18, <1>19, <1>20, <1>21,
      <1>22, <1>23, <1>24, <1>25, <1>26 DEF StartStep

(* A step of finish_recording keeps SoleInv. *)
LEMMA FinishKeepsSole ==
  ASSUME TypeInv, TypeInv', ExitInv, CaptureInv, FlowInv, ArtifactInv, SoleInv,
         NEW s \in Sessions, FinishStep(s)
  PROVE  SoleInv'
<1>. USE NoSessionIsNotASession DEF TypeInv, TypeOK, ExitInv, Subject,
         Resources, runtime, audio, fences, calls, quitLocals,
         PreparingWorkflow, ActiveWorkflow, PreparingStages, RuntimeStages,
         PlaceInv, StartPlace, WorkflowPlace, FinishPlace, CleanerPlace,
         QuitPlace, Prepared, Activated, InFlight, Reserving, Opening,
         Preflight, StartClaims, Preflighted, FinishClosing, FinishDiscarding,
         FinishClaims, FinishRecognizing, FinishDelivering, FinishFinalizing,
         HoldsCapture, SoleInv, Known, ArtifactInv, ArtifactInvOf, Owed,
         Deletes, CaptureInv, CaptureOwned, CaptureHeld, FlowInv
<1>1. CASE FinishAudio(s)
  BY <1>1, WorkflowValues DEF FinishAudio, GotoFinish
<1>2. CASE FinishUnusable(s)
  BY <1>2, WorkflowValues DEF FinishUnusable, IsCurrentStage, GotoFinish,
        GotoCleaner
<1>3. CASE FinishCheck(s)
  BY <1>3, WorkflowValues DEF FinishCheck, IsCurrentStage, GotoFinish
<1>4. CASE FinishApply(s)
  BY <1>4, WorkflowValues DEF FinishApply, ApplyOr, GotoFinish
<1>5. CASE FinishRecognize(s)
  BY <1>5, WorkflowValues DEF FinishRecognize, IsCurrentStage, GotoFinish
<1>6. CASE FinishSubmit(s)
  BY <1>6, WorkflowValues DEF FinishSubmit, GotoFinish
<1>7. CASE FinishBeginCleanup(s)
  BY <1>7, WorkflowValues DEF FinishBeginCleanup, IsCurrentStage, GotoFinish
<1>8. CASE FinishClean(s)
  BY <1>8, WorkflowValues DEF FinishClean, Released, Kept, GotoFinish
<1>9. CASE FinishCleanSettle(s)
  BY <1>9, WorkflowValues DEF FinishCleanSettle, ClearDebt, RecordDebt,
        GotoFinish
<1>10. CASE FinishRelease(s)
  BY <1>10, WorkflowValues DEF FinishRelease, ReleaseInFlight, GotoFinish
<1>11. CASE FinishCompleteCleanup(s)
  BY <1>11, WorkflowValues DEF FinishCompleteCleanup, IsCurrentStage,
        GotoFinish
<1>12. CASE FinishOutcome(s)
  BY <1>12, WorkflowValues DEF FinishOutcome, IsCurrentStage, GotoFinish
<1>13. CASE FinishFail(s)
  BY <1>13, WorkflowValues DEF FinishFail, GotoFinish
<1>14. CASE FinishNoSpeech(s)
  BY <1>14, WorkflowValues DEF FinishNoSpeech, FinishApplies, ApplyOr,
        GotoFinish
<1>15. CASE FinishProcess(s)
  BY <1>15, WorkflowValues DEF FinishProcess, FinishApplies, ApplyOr,
        GotoFinish
<1>16. CASE FinishDeliver(s)
  BY <1>16, WorkflowValues DEF FinishDeliver, FinishApplies, ApplyOr,
        GotoFinish
<1>17. CASE FinishFinalize(s)
  BY <1>17, WorkflowValues DEF FinishFinalize, FinishApplies, ApplyOr,
        GotoFinish
<1>18. CASE FinishComplete(s)
  BY <1>18, WorkflowValues DEF FinishComplete, FinishApplies, ApplyOr,
        GotoFinish
<1>19. CASE FinishSetProcessing(s)
  BY <1>19, WorkflowValues DEF FinishSetProcessing, FinishSetStage,
        IsCurrentStage, SetStage, GotoFinish
<1>20. CASE FinishSetDelivering(s)
  BY <1>20, WorkflowValues DEF FinishSetDelivering, FinishSetStage,
        IsCurrentStage, SetStage, GotoFinish
<1>21. CASE FinishSetFinalizing(s)
  BY <1>21, WorkflowValues DEF FinishSetFinalizing, FinishSetStage,
        IsCurrentStage, SetStage, GotoFinish
<1>22. CASE FinishLlmAnswer(s)
  BY <1>22, WorkflowValues DEF FinishLlmAnswer, IsCurrentStage, GotoFinish
<1>23. CASE FinishBeginCommit(s)
  BY <1>23, WorkflowValues DEF FinishBeginCommit, BeginCommit, GotoFinish
<1>24. CASE FinishSkipCommit(s)
  BY <1>24, WorkflowValues DEF FinishSkipCommit, GotoFinish
<1>25. CASE FinishEndCommit(s)
  BY <1>25, WorkflowValues DEF FinishEndCommit, EndCommit, GotoFinish
<1>26. CASE FinishDelivered(s)
  BY <1>26, WorkflowValues DEF FinishDelivered, IsCurrentStage, GotoFinish
<1>27. CASE FinishSaved(s)
  BY <1>27, WorkflowValues DEF FinishSaved, IsCurrentStage, GotoFinish
<1>28. CASE FinishClear(s)
  BY <1>28, WorkflowValues DEF FinishClear, GotoFinish, ClearActive, NoActive
<1>. HIDE DEF SoleInv
<1>. QED BY <1>1, <1>2, <1>3, <1>4, <1>5, <1>6, <1>7, <1>8, <1>9, <1>10, <1>11,
      <1>12, <1>13, <1>14, <1>15, <1>16, <1>17, <1>18, <1>19, <1>20, <1>21,
      <1>22, <1>23, <1>24, <1>25, <1>26, <1>27, <1>28 DEF FinishStep

(* A step of a cancel or a cleanup retry keeps SoleInv. *)
LEMMA CleanerKeepsSole ==
  ASSUME TypeInv, TypeInv', ExitInv, CaptureInv, FlowInv, ArtifactInv, SoleInv,
         NEW s \in Sessions, CleanerStep(s)
  PROVE  SoleInv'
<1>. USE NoSessionIsNotASession DEF TypeInv, TypeOK, ExitInv, Subject,
         Resources, runtime, audio, fences, calls, quitLocals,
         PreparingWorkflow, ActiveWorkflow, PreparingStages, RuntimeStages,
         PlaceInv, StartPlace, WorkflowPlace, FinishPlace, CleanerPlace,
         QuitPlace, Prepared, Activated, InFlight, Reserving, Opening,
         Preflight, StartClaims, Preflighted, FinishClosing, FinishDiscarding,
         FinishClaims, FinishRecognizing, FinishDelivering, FinishFinalizing,
         HoldsCapture, SoleInv, Known, ArtifactInv, ArtifactInvOf, Owed,
         Deletes, CaptureInv, CaptureOwned, CaptureHeld, FlowInv
<1>1. CASE CleanerCapture(s)
  BY <1>1, WorkflowValues DEF CleanerCapture, Released, Kept, GotoCleaner
<1>2. CASE CleanerArtifact(s)
  BY <1>2, WorkflowValues DEF CleanerArtifact, Released, Kept, GotoCleaner
<1>3. CASE CleanerSettle(s)
  BY <1>3, WorkflowValues DEF CleanerSettle, GotoCleaner, ClearDebt, RecordDebt
<1>4. CASE CleanerRelease(s)
  BY <1>4, WorkflowValues DEF CleanerRelease, ReleaseInFlight, GotoCleaner
<1>5. CASE CleanerClose(s)
  BY <1>5, WorkflowValues DEF CleanerClose, GotoCleaner, RemovePreparing,
        NoPreparing, IsCurrentStage
<1>6. CASE CleanerCancelSession(s)
  BY <1>6, WorkflowValues DEF CleanerCancelSession, GotoCleaner
<1>7. CASE CleanerFailSession(s)
  BY <1>7, WorkflowValues DEF CleanerFailSession, GotoCleaner
<1>8. CASE CleanerClear(s)
  BY <1>8, WorkflowValues DEF CleanerClear, GotoCleaner, ClearActive, NoActive
<1>. HIDE DEF SoleInv
<1>. QED BY <1>1, <1>2, <1>3, <1>4, <1>5, <1>6, <1>7, <1>8 DEF CleanerStep

(* A step of the recording deadline keeps SoleInv. *)
LEMMA TimerKeepsSole ==
  ASSUME TypeInv, TypeInv', ExitInv, CaptureInv, FlowInv, ArtifactInv, SoleInv,
         NEW s \in Sessions, TimerStep(s)
  PROVE  SoleInv'
<1>. USE NoSessionIsNotASession DEF TypeInv, TypeOK, ExitInv, Subject,
         Resources, runtime, audio, fences, calls, quitLocals,
         PreparingWorkflow, ActiveWorkflow, PreparingStages, RuntimeStages,
         PlaceInv, StartPlace, WorkflowPlace, FinishPlace, CleanerPlace,
         QuitPlace, Prepared, Activated, InFlight, Reserving, Opening,
         Preflight, StartClaims, Preflighted, FinishClosing, FinishDiscarding,
         FinishClaims, FinishRecognizing, FinishDelivering, FinishFinalizing,
         HoldsCapture, SoleInv, Known, ArtifactInv, ArtifactInvOf, Owed,
         Deletes, CaptureInv, CaptureOwned, CaptureHeld, FlowInv
<1>1. CASE DeadlineElapses(s)
  BY <1>1, WorkflowValues DEF DeadlineElapses
<1>2. CASE RecordingLimitElapsed(s)
  BY <1>2, WorkflowValues DEF RecordingLimitElapsed, RememberLimit
<1>3. CASE DeadlineFinish(s)
  BY <1>3, WorkflowValues DEF DeadlineFinish, CanFinish, FinishClaimed,
        GotoFinish
<1>. HIDE DEF SoleInv
<1>. QED BY <1>1, <1>2, <1>3 DEF TimerStep

(* A step of the exit leader keeps SoleInv. *)
LEMMA QuitKeepsSole ==
  ASSUME TypeInv, TypeInv', ExitInv, CaptureInv, FlowInv, ArtifactInv, SoleInv,
         QuitStep
  PROVE  SoleInv'
<1>. USE NoSessionIsNotASession DEF TypeInv, TypeOK, ExitInv, Subject,
         Resources, runtime, audio, fences, calls, quitLocals,
         PreparingWorkflow, ActiveWorkflow, PreparingStages, RuntimeStages,
         PlaceInv, StartPlace, WorkflowPlace, FinishPlace, CleanerPlace,
         QuitPlace, Prepared, Activated, InFlight, Reserving, Opening,
         Preflight, StartClaims, Preflighted, FinishClosing, FinishDiscarding,
         FinishClaims, FinishRecognizing, FinishDelivering, FinishFinalizing,
         HoldsCapture, SoleInv, Known, ArtifactInv, ArtifactInvOf, Owed,
         Deletes, CaptureInv, CaptureOwned, CaptureHeld, FlowInv
<1>1. CASE QuitTake
  BY <1>1, WorkflowValues DEF QuitTake, NoPreparing, NoActive
<1>2. CASE QuitInvalidate
  BY <1>2, WorkflowValues DEF QuitInvalidate
<1>3. CASE QuitFail
  BY <1>3, WorkflowValues DEF QuitFail
<1>4. CASE QuitStage
  BY <1>4, WorkflowValues DEF QuitStage, HoldsCapture
<1>5. CASE QuitAsrCancel
  BY <1>5, WorkflowValues DEF QuitAsrCancel
<1>6. CASE QuitCapture
  BY <1>6, WorkflowValues DEF QuitCapture, Released, Kept
<1>7. CASE QuitArtifact
  BY <1>7, WorkflowValues DEF QuitArtifact, Released, Kept
<1>8. CASE QuitSettle
  BY <1>8, WorkflowValues DEF QuitSettle, ClearDebt, RecordDebt
<1>9. CASE QuitDrainOps
  BY <1>9, WorkflowValues DEF QuitDrainOps
<1>10. CASE QuitDrainCommits
  BY <1>10, WorkflowValues DEF QuitDrainCommits
<1>11. CASE QuitSnapshot
  BY <1>11, WorkflowValues DEF QuitSnapshot
<1>12. CASE QuitRetried
  BY <1>12, WorkflowValues DEF QuitRetried
<1>13. CASE QuitVerdict
  BY <1>13, WorkflowValues DEF QuitVerdict, NoPreparing, NoActive
<1>14. ASSUME NEW s \in Sessions, NEW resource \in Resources,
             QuitRetry(s, resource)
      PROVE  SoleInv'
  BY <1>14, WorkflowValues DEF QuitRetry, Released, Kept, ClearDebt, RecordDebt
<1>. HIDE DEF SoleInv
<1>. QED BY <1>1, <1>2, <1>3, <1>4, <1>5, <1>6, <1>7, <1>8, <1>9, <1>10, <1>11,
      <1>12, <1>13, <1>14 DEF QuitStep

(* The exit leader closing the operation barrier keeps SoleInv. *)
LEMMA QuitBeginKeepsSole ==
  ASSUME TypeInv, ExitInv, SoleInv, QuitBegin
  PROVE  SoleInv'
  BY DEF QuitBegin, SoleInv, Known, runtime, audio, fences, calls

(* A step that changes nothing keeps SoleInv. *)
LEMMA StutteringKeepsSole ==
  ASSUME SoleInv, UNCHANGED vars
  PROVE  SoleInv'
  BY DEF vars, quitLocals, SoleInv, Known, runtime, audio, fences, calls

(* SoleInv is inductive relative to ArtifactInv and what that rests on. *)
LEMMA SoleInvariant == Spec => []SoleInv
<1>1. Init => SoleInv
  BY NoSessionIsNotASession DEF Init, SoleInv, Known, NoPreparing, NoActive
<1>2. /\ TypeInv /\ TypeInv' /\ ExitInv /\ CaptureInv /\ FlowInv
      /\ ArtifactInv /\ SoleInv /\ [Next]_vars
      => SoleInv'
  BY RequestKeepsSole, StartKeepsSole, FinishKeepsSole, CleanerKeepsSole,
        TimerKeepsSole, QuitKeepsSole, QuitBeginKeepsSole, StutteringKeepsSole
        DEF Next, Exited
<1>. QED
  BY <1>1, <1>2, TypeInvInductive, ExitInvInductive, CaptureInvariant,
     FlowInvariant, ArtifactInvariant, PTL DEF Spec

(* Never two sessions with an open microphone, a recording on disk or a      *)
(* write under way, whatever stages the calls of the older one are in.       *)
THEOREM SingleFlightHolds == Spec => []SingleFlight
<1>1. TypeInv /\ SoleInv => SingleFlight
  BY DEF TypeInv, TypeOK, SoleInv, Known, SingleFlight
<1>. QED
  BY <1>1, TypeInvInductive, SoleInvariant, PTL DEF Spec
=============================================================================
