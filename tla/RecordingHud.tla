---------------------------- MODULE RecordingHud ----------------------------
(***************************************************************************)
(* RecordingHudController: the panel of the session of the moment.  Its    *)
(* state changes under one mutex; a hide ends the session at once, lets    *)
(* the panel play its exit without the mutex, and hides the native window  *)
(* only if nothing was shown since, which the generation tells.  The       *)
(* orchestrator frees the slot of a session before it calls hide, so that  *)
(* the next session may come first.                                        *)
(***************************************************************************)
EXTENDS Integers

CONSTANTS
  MaxSessions,   \* bound: sessions of one run of the process
  Requests       \* identities of the commands that the panel sends

ASSUME HudAssumption == MaxSessions \in Nat

VARIABLES
  hud,      \* current, with its pending intent
  generation,
  window,   \* the native window is shown
  hides,    \* the calls of hide
  marred    \* history: a call has failed and left the window as it was

hudVars == <<hud, generation, window, hides, marred>>

Sessions == 1..MaxSessions
Nobody == 0
Phases == 0..3      \* preparing, recording, processing in its stages, completed
Recording == 1
Completed == 3
Kinds == {"finish", "cancel"}
NoIntent == [kind |-> "none", request |-> 0]

(* dispatched: history, the intents of the session handed to the use case. *)
NoHud == [session |-> Nobody, phase |-> 0, pending |-> NoIntent, dispatched |-> 0]
NoHide == [step |-> "none", generation |-> 0]

HudTypeOK ==
  /\ hud \in [session : Sessions \cup {Nobody}, phase : Phases, dispatched : 0..2,
              pending : [kind : Kinds \cup {"none"}, request : Requests \cup {0}]]
  /\ generation \in 0..2 * MaxSessions /\ window \in BOOLEAN /\ marred \in BOOLEAN
  /\ hides \in [Sessions -> [step : {"none", "called", "hold", "leave"}, generation : 0..2 * MaxSessions]]

HudInit ==
  /\ hud = NoHud /\ generation = 0 /\ window = FALSE /\ marred = FALSE
  /\ hides = [s \in Sessions |-> NoHide]

(* show_state: the generation and the session come first, then the panel   *)
(* is told, then the window is shown; either may fail.                     *)
Show(s, result) ==
  \/ /\ result = "failed" /\ UNCHANGED <<hud, generation, window, marred>>
  \/ /\ hud.session = Nobody /\ generation' = generation + 1
     /\ \/ /\ result = "ok" /\ window' = TRUE
           /\ hud' = [NoHud EXCEPT !.session = s]
           /\ marred' = FALSE
        \/ /\ result = "failed" /\ marred' = TRUE
           /\ UNCHANGED <<hud, window>>

(* A recording that has begun does not forget what was asked before. *)
KeepsIntent(phase) == phase <= Recording

(* update_state: stale sessions and steps back are refused. *)
Update(s, phase) ==
  /\ \/ UNCHANGED hud
     \/ /\ hud.session = s /\ phase >= hud.phase
        /\ hud' = [hud EXCEPT !.phase = phase,
                     !.pending = IF KeepsIntent(phase) THEN @ ELSE NoIntent]
  /\ UNCHANGED <<generation, window, hides, marred>>

(* hide_session up to its first await. *)
Hide(s) ==
  /\ hides[s].step = "called"
  /\ IF hud.session # s
     THEN /\ hides' = [hides EXCEPT ![s] = NoHide]
          /\ UNCHANGED <<hud, generation, marred>>
     ELSE /\ generation' = generation + 1 /\ hud' = NoHud
          /\ hides' = [hides EXCEPT ![s] =
               [step |-> IF hud.phase = Completed THEN "hold" ELSE "leave",
                generation |-> generation + 1]]
          /\ UNCHANGED marred
  /\ UNCHANGED window

(* As MayHide, but a late hide does not look. *)
MayHideAnyway(g) == g \in Nat

(* native_hide_is_current *)
MayHide(g) == hud.session = Nobody /\ generation = g

(* The completed text has been on show for long enough. *)
EndHold(s) ==
  /\ hides[s].step = "hold"
  /\ hides' = [hides EXCEPT ![s] = IF MayHide(@.generation) THEN [@ EXCEPT !.step = "leave"] ELSE NoHide]
  /\ UNCHANGED <<hud, generation, window, marred>>

(* The exit has been played: the check and the native hide are one step.   *)
EndLeave(s) ==
  /\ hides[s].step = "leave"
  /\ hides' = [hides EXCEPT ![s] = NoHide]
  /\ window' = (window /\ ~MayHide(hides[s].generation))
  /\ UNCHANGED <<hud, generation, marred>>

(* The wait, the window or the native hide fails. *)
HideFails(s) ==
  /\ hides[s].step \in {"hold", "leave"}
  /\ hides' = [hides EXCEPT ![s] = NoHide]
  /\ marred' = (marred \/ MayHide(hides[s].generation))
  /\ UNCHANGED <<hud, generation, window>>

(* accept_runtime_intent: the first of an identity is dispatched, a retry  *)
(* of it is accepted, any other is refused.                                *)
Accept(kind, request) ==
  LET intent == [kind |-> kind, request |-> request] IN
  /\ hud.session # Nobody
  /\ IF kind = "finish" THEN hud.phase = Recording ELSE hud.phase <= Recording
  /\ hud.pending = NoIntent
  /\ hud' = [hud EXCEPT !.pending = intent, !.dispatched = @ + 1]
  /\ UNCHANGED <<generation, window, hides, marred>>

=============================================================================
