--------------------------- MODULE SessionFeedback ---------------------------
(***************************************************************************)
(* SessionFeedbackController: the one notice that offers a way out of a    *)
(* failure, and its window, which is built when needed.  Raising, acting   *)
(* and dismissing exclude one another (operation_lock); the window goes    *)
(* after the notice has been cleared, if it goes.                          *)
(***************************************************************************)
CONSTANTS
  Notices,   \* session and kind of a notice
  NoNotice

ASSUME FeedbackAssumption == NoNotice \notin Notices

VARIABLES
  notice,     \* pending: the notice that may be acted on
  feedback,   \* its window
  fate        \* history: of each notice, what became of its last raise

feedbackVars == <<notice, feedback, fate>>

FeedbackTypeOK ==
  /\ notice \in Notices \cup {NoNotice}
  /\ feedback \in {"none", "hidden", "shown", "closing"}
  /\ fate \in [Notices -> {"none", "pending", "over", "acted", "revived"}]

FeedbackInit ==
  /\ notice = NoNotice /\ feedback = "none"
  /\ fate = [n \in Notices |-> "none"]

Over == [n \in Notices |-> IF fate[n] = "pending" THEN "over" ELSE fate[n]]

(* raise: the notice is pending even if its window cannot be built or      *)
(* shown; one that is closing is found, and goes all the same.             *)
Raise(n) ==
  /\ notice' = n /\ fate' = [Over EXCEPT ![n] = "pending"]
  /\ feedback' \in CASE feedback = "none" -> {"none", "hidden", "shown"}
                     [] feedback = "hidden" -> {"hidden", "shown"}
                     [] OTHER -> {feedback}

(* What destroy, and hide when destroy fails, make of the window: it goes, *)
(* it is hidden, or both fail, nobody is told and it stays as it was.      *)
WithoutNotice ==
  IF feedback \in {"shown", "hidden"} THEN {"closing", "hidden", feedback} ELSE {feedback}

(* An action of requested has run, which should have been pending.         *)
Acted(requested) ==
  fate' = [fate EXCEPT ![requested] = IF @ = "pending" THEN "acted" ELSE "revived"]

(* Mutant: the notice goes with its window. *)
ActThenForget(requested) ==
  /\ requested = notice
  /\ \/ UNCHANGED feedbackVars
     \/ /\ Acted(requested) /\ feedback' \in WithoutNotice
        /\ notice' = IF feedback' = "closing" THEN NoNotice ELSE notice

(* apply_action, by a click that may come late or again: the action first, *)
(* then the notice, then the window.  An action that fails leaves both.    *)
Act(requested) ==
  /\ requested = notice
  /\ \/ UNCHANGED feedbackVars
     \/ Acted(requested) /\ notice' = NoNotice /\ feedback' \in WithoutNotice

(* The user closes the window: clear_pending_after_user_close. *)
UserCloses ==
  /\ feedback = "shown"
  /\ feedback' = "closing" /\ notice' = NoNotice /\ fate' = Over

WindowGoes == feedback = "closing" /\ feedback' = "none" /\ UNCHANGED <<notice, fate>>

=============================================================================
