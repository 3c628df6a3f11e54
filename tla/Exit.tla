-------------------------------- MODULE Exit --------------------------------
(***************************************************************************)
(* ExitCompletion: however many callers ask for an exit, one of them leads *)
(* it (run_leader_quit of Orchestrator) and the others wait for its result *)
(* by a waker.  An attempt that fails is told to all who waited for it and *)
(* opens the way for another; one that succeeds is remembered for ever.    *)
(***************************************************************************)
EXTENDS Orchestrator

CONSTANTS
  Callers,    \* callers of quit
  Attempts,   \* ExitAttempt, by its pointer: one that is dropped may be used again
  NoAttempt

ASSUME ExitAssumption == NoAttempt \notin Attempts

VARIABLES
  state,     \* ExitState
  current,   \* the attempt of ExitState::Running
  result,    \* ExitAttemptState.result of each attempt
  waiters,   \* ExitAttemptState.waiters
  caller     \* where each call is, its attempt, and its last answer

completion == <<state, current, result, waiters>>
exitVars == <<vars, completion, caller>>

At(c, at) == caller[c].at = at
Goes(c, at) == caller' = [caller EXCEPT ![c].at = at]
Returns(c, answer) ==
  caller' = [caller EXCEPT ![c] = [at |-> "idle", attempt |-> NoAttempt, answer |-> answer]]

ExitInit ==
  /\ Init
  /\ state = "open" /\ current = NoAttempt
  /\ result = [n \in Attempts |-> "none"] /\ waiters = [n \in Attempts |-> {}]
  /\ caller = [c \in Callers |-> [at |-> "idle", attempt |-> NoAttempt, answer |-> "none"]]

(* begin, under the lock of the state: lead, follow or be told. *)
Joins(c, at, n) == caller' = [caller EXCEPT ![c] = [at |-> at, attempt |-> n, answer |-> "none"]]

Dropped(n) == \A c \in Callers : caller[c].attempt # n

Begin(c) ==
  /\ At(c, "idle")
  /\ \/ /\ state = "open" /\ state' = "running"
        /\ \E n \in Attempts : Dropped(n)
        /\ current' = CHOOSE n \in Attempts : Dropped(n)
        /\ result' = [result EXCEPT ![current'] = "none"]
        /\ Joins(c, "leads", current')
     \/ /\ state = "running" /\ UNCHANGED <<state, current, result>>
        /\ Joins(c, "polls", current)
     \/ /\ state = "complete" /\ UNCHANGED <<state, current, result>>
        /\ Returns(c, "ok")
  /\ UNCHANGED <<vars, waiters>>

(* The leader's call, to the verdict on the debts that are left. *)
Lead(c) ==
  /\ At(c, "leads") /\ QuitBegin /\ Goes(c, "quits")
  /\ UNCHANGED completion

Quits(c) ==
  /\ At(c, "quits") /\ QuitStep
  /\ IF quit # "verdict" THEN UNCHANGED caller
     ELSE caller' = [caller EXCEPT ![c].at = "tells",
                                   ![c].answer = IF debts = {} THEN "ok" ELSE "failed"]
  /\ UNCHANGED completion

(* ExitAttempt::complete: the result is there before anybody is woken. *)
Tell(c) ==
  /\ At(c, "tells")
  /\ LET n == caller[c].attempt IN
       /\ result' = [result EXCEPT ![n] = caller[c].answer]
       /\ waiters' = [waiters EXCEPT ![n] = {}]
       /\ caller' = [d \in Callers |->
            CASE d = c -> [caller[d] EXCEPT !.at = "ends"]
              [] d \in waiters[n] -> [caller[d] EXCEPT !.at = "polls"]
              [] OTHER -> caller[d]]
  /\ UNCHANGED <<vars, state, current>>

(* The rest of complete, under the lock of the state.  Who called in       *)
(* between still follows this attempt, and finds its result.               *)
End(c) ==
  /\ At(c, "ends")
  /\ IF caller[c].attempt # current THEN UNCHANGED <<state, current>>
     ELSE state' = (IF caller[c].answer = "ok" THEN "complete" ELSE "open") /\ current' = NoAttempt
  /\ Returns(c, caller[c].answer)
  /\ UNCHANGED <<vars, result, waiters>>

(* Mutant: the lock is let go between the look and the registration. *)
PollApart(c) ==
  /\ LET n == caller[c].attempt IN
       \/ /\ At(c, "polls") /\ UNCHANGED waiters
          /\ IF result[n] # "none" THEN Returns(c, result[n]) ELSE Goes(c, "registers")
       \/ /\ At(c, "registers") /\ Goes(c, "waits")
          /\ waiters' = [waiters EXCEPT ![n] = @ \cup {c}]
  /\ UNCHANGED <<vars, state, current, result>>

(* ExitWaiter::poll: the look at the result and the registration are one.  *)
Poll(c) ==
  /\ At(c, "polls")
  /\ LET n == caller[c].attempt IN
       IF result[n] # "none"
       THEN Returns(c, result[n]) /\ UNCHANGED waiters
       ELSE Goes(c, "waits") /\ waiters' = [waiters EXCEPT ![n] = @ \cup {c}]
  /\ UNCHANGED <<vars, state, current, result>>

Workflow ==
  \E s \in Sessions :
    Request(s) \/ StartStep(s) \/ FinishStep(s) \/ CleanerStep(s) \/ TimerStep(s)

Polled(c) == Lead(c) \/ Tell(c) \/ End(c) \/ Poll(c)

ExitNext ==
  \/ Workflow /\ UNCHANGED <<completion, caller>>
  \/ \E c \in Callers : Begin(c) \/ Quits(c) \/ Polled(c)

ExitSpec == ExitInit /\ [][ExitNext]_exitVars

(* The futures of the callers are polled too, when they have been woken. *)
ExitFairSpec ==
  ExitSpec /\ Fairness /\ \A c \in Callers : WF_exitVars(Polled(c))

-----------------------------------------------------------------------------
(* Who is told that the exit succeeded, the leader, a follower or a later  *)
(* caller, finds a clean one: the microphone is closed, nothing is owed,   *)
(* no write and no call is left, and no call has begun since.              *)
ToldTheTruth ==
  \A c \in Callers : caller[c].answer = "ok" /\ At(c, "idle") => quit = "done" /\ ExitIsClean

(* One exit at a time, whatever became of the attempts before.             *)
OneLeader ==
  \A c, d \in Callers : {caller[c].at, caller[d].at} \subseteq {"leads", "quits", "tells", "ends"} => c = d

(* Only the outside can hold up an exit: a permission prompt that nobody   *)
(* answers, or a transcription that was submitted after the exit's cancel  *)
(* and runs on without a deadline.                                         *)
HeldUp == \E s \in Sessions : <>[](start[s] = "microphone" \/ finish[s] = "asr")

(* Every caller of quit gets an answer, and a true one: a follower is not  *)
(* forgotten, though it may register its waker while the leader is just    *)
(* telling the result, and though the attempt may fail and the next begin  *)
(* before it is polled again.                                              *)
EveryQuitReturns ==
  /\ [](ToldTheTruth /\ OneLeader)
  /\ HeldUp \/ \A c \in Callers : []<>At(c, "idle")
=============================================================================
