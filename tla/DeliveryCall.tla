---------------------------- MODULE DeliveryCall ----------------------------
(***************************************************************************)
(* The one chain of calls that delivers a text - one recording at a time,  *)
(* each port call a step or a few - and the LifecycleFence its commits     *)
(* pass through: a counter of the commits under way that a quit closes.    *)
(***************************************************************************)
EXTENDS FocusedTarget

VARIABLES
  current,   \* the delivery under way, or the last one
  at,        \* where its chain of calls is
  answer,    \* what the last port call answered
  open,      \* LifecycleFenceState.open of its session
  commits    \* LifecycleFenceState.in_flight of its session

callVars == <<current, at, answer, open, commits>>

Answers ==
  {"none", "Valid", "Invalid", "Indeterminate", "Inserted", "NotInserted",
   "Dispatched", "Ok", "Err"}

CallInit ==
  /\ current = Nobody
  /\ at = "idle" /\ answer = "none"
  /\ open = TRUE /\ commits = 0

(* The call goes on to a step, with the fence as it is. *)
Goto(step) ==
  /\ at' = step /\ answer' = "none"
  /\ UNCHANGED <<current, open, commits>>

(* A port call returns to the step that asked for it. *)
Return(step, result) ==
  /\ at' = step /\ answer' = result
  /\ UNCHANGED <<current, open, commits>>

(* begin_commit: refused once the fence is closed. *)
BeginCommit(step, refusedStep, refusal) ==
  IF open
  THEN /\ commits' = commits + 1
       /\ at' = step /\ answer' = "none"
       /\ UNCHANGED <<current, open>>
  ELSE Return(refusedStep, refusal)

(* A port call returns and drops its CommitGuard. *)
EndCommit(step, result) ==
  /\ commits' = commits - 1
  /\ at' = step /\ answer' = result
  /\ UNCHANGED <<current, open>>

(* invalidate; wait_quiescent resolves when Quiescent holds. *)
Invalidate ==
  /\ open' = FALSE
  /\ UNCHANGED <<current, at, answer, commits>>

Quiescent == commits = 0
=============================================================================
