------------------------ MODULE TranscriptionSession ------------------------
(***************************************************************************)
(* The domain aggregate of one transcription (remtene-domain/session.rs)   *)
(* and the slot in which the coordinator keeps the only live one           *)
(* (remtene-application/session_coordinator.rs).  Pure operators: the      *)
(* modules that own the slot variable apply them under its mutex.          *)
(***************************************************************************)

CONSTANTS
  Sessions,   \* the session ids the program may draw
  NoSession   \* absence of a session id

ASSUME NoSessionIsNotASession == NoSession \notin Sessions

LivePhases ==
  {"Preparing", "Recording", "Recognizing", "Processing", "Delivering",
   "Finalizing"}

SessionEvents ==
  {"PreflightPassed", "Reject", "FinishRecording", "CancelRecording",
   "NoSpeech", "BeginProcessing", "BeginDelivery", "BeginFinalizing",
   "Complete", "Fail"}

(***************************************************************************)
(* TranscriptionSession::apply.  "Terminated" ends the session, "Refused"  *)
(* is the TransitionError; a repeated FinishRecording is ignored.          *)
(***************************************************************************)
Successor(phase, event) ==
  CASE event = "Fail" -> "Terminated"
    [] phase = "Preparing" /\ event = "PreflightPassed" -> "Recording"
    [] phase = "Preparing" /\ event = "Reject" -> "Terminated"
    [] phase = "Recording" /\ event = "FinishRecording" -> "Recognizing"
    [] phase = "Recording" /\ event = "CancelRecording" -> "Terminated"
    [] phase = "Recognizing" /\ event = "FinishRecording" -> "Recognizing"
    [] phase = "Recognizing" /\ event = "NoSpeech" -> "Terminated"
    [] phase = "Recognizing" /\ event = "BeginProcessing" -> "Processing"
    [] phase \in {"Recognizing", "Processing"} /\ event = "BeginDelivery" ->
         "Delivering"
    [] phase = "Delivering" /\ event = "BeginFinalizing" -> "Finalizing"
    [] phase = "Finalizing" /\ event = "Complete" -> "Terminated"
    [] OTHER -> "Refused"

(* The coordinator's slot: Mutex<Option<ActiveSession>>. *)
Slots == [id : Sessions, phase : LivePhases]
EmptySlot == [id |-> NoSession, phase |-> "Preparing"]
Occupied(s) == [id |-> s, phase |-> "Preparing"]

(***************************************************************************)
(* SessionCoordinator::apply: "NotFound" when the slot is empty or holds   *)
(* another session, "Invalid" when the domain refuses the event; the slot  *)
(* is released in the step that makes the session terminal.                *)
(***************************************************************************)
Answer(slot, s, event) ==
  IF slot.id # s THEN "NotFound"
  ELSE IF Successor(slot.phase, event) = "Refused" THEN "Invalid"
  ELSE "Ok"

Applied(slot, s, event) ==
  IF Answer(slot, s, event) # "Ok" THEN slot
  ELSE IF Successor(slot.phase, event) = "Terminated" THEN EmptySlot
  ELSE [slot EXCEPT !.phase = Successor(slot.phase, event)]
=============================================================================
