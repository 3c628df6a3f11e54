------------------------------- MODULE Desktop -------------------------------
(***************************************************************************)
(* The desktop process around a session: its start (the takeover of the    *)
(* old brand's storage, the models, the shortcut, the first check of the   *)
(* models), the settings page and the history, the panel and the notices   *)
(* of a session, its keys, and its exit.  These parts meet only where they *)
(* share state, so a behaviour exercises one page of them, chosen at its   *)
(* start; the rest stays as the start left it.                             *)
(***************************************************************************)
EXTENDS LocalAsr, RecordingHud, SessionFeedback, BrandMigration

CONSTANTS
  Pages,      \* the pages that behaviours exercise
  Variants,   \* of each engine: what may stand where its package belongs
  MaxDeaths   \* bound: times that the process or the machine dies

ASSUME DesktopAssumption ==
  /\ Pages \subseteq {"history", "shortcut", "choices", "engine", "worker", "hud", "notice", "start"}
  /\ Variants \in [Engines -> SUBSET PackageSet] /\ MaxDeaths \in Nat

VARIABLES
  page,
  run,     \* the process: down (not set up yet), up
  exit,    \* ExitCompletion: open, running, complete
  shell,   \* AppRuntime: shutdown_started
  live,    \* the session that holds the slot of the orchestrator
  asked,   \* it has been asked to finish or to stop
  stage,   \* what the workflow of each session does with the panel
  last,    \* sessions so far
  key,     \* a key that went down or up, and the session its handler found
  deaths

exitVars == <<exit, shell>>
callers == <<live, asked, stage, last, key>>
shellVars == <<page, run, exitVars, deaths>>
vars == <<prefVars, asrVars, hudVars, feedbackVars, migrationVars, callers, shellVars>>

NoKey == [kind |-> "none", session |-> Nobody]
NoStages == [s \in Sessions |-> "none"]

TypeOK ==
  /\ PreferencesTypeOK /\ LocalAsrTypeOK /\ HudTypeOK /\ FeedbackTypeOK /\ MigrationTypeOK
  /\ page \in Pages /\ run \in {"down", "up"} /\ deaths \in 0..MaxDeaths
  /\ exit \in {"open", "running", "complete"} /\ shell \in BOOLEAN
  /\ live \in Sessions \cup {Nobody} /\ asked \in BOOLEAN /\ last \in 0..MaxSessions
  /\ stage \in [Sessions -> {"none", "showing", "shown"}]
  /\ key \in [kind : {"none", "press", "release"}, session : Sessions \cup {Nobody}]

(* Packages matter on the page of the engines only; the worker's has what  *)
(* can be launched and what cannot be found.                               *)
FoundAtStart(e) ==
  CASE page = "engine" -> Variants[e]
    [] page = "worker" -> {p \in Variants[e] : Verified(p) = PathValid(e, p)}
    [] OTHER -> {Sound(e, 1)}

Init ==
  /\ page \in Pages /\ run = "down" /\ exit = "open" /\ shell = FALSE /\ deaths = 0
  /\ SettingsInit /\ HistoryInit /\ ShortcutInit /\ ControlInit
  /\ RuntimeInit /\ LocalAsrInit
  /\ packages \in [Engines -> UNION {FoundAtStart(e) : e \in Engines}]
  /\ \A e \in Engines : packages[e] \in FoundAtStart(e)
  /\ IF page = "worker" THEN FolderFound ELSE FolderInit
  /\ page \notin {"choices", "hud"} => settings.schema = "absent"
  /\ HudInit /\ FeedbackInit
  /\ live = Nobody /\ asked = FALSE /\ stage = NoStages /\ last = 0 /\ key = NoKey
  /\ IF page = "start" THEN MigrationInit ELSE MigrationDone

On(p) == page = p /\ run = "up"

-----------------------------------------------------------------------------
(* The start: first the storage of the old brand. *)
TakeOver ==
  /\ run = "down" /\ MigrationStep
  /\ UNCHANGED <<prefVars, asrVars, hudVars, feedbackVars, callers, shellVars>>

(* Then the composition, which needs the settings; the scan of the models; *)
(* the shortcut, which may be refused; and the first check of the models.  *)
Boot ==
  /\ run = "down" /\ step.at = "done"
  /\ \/ Load("failed") /\ UNCHANGED <<registered, runtimeVars, control, run>>
     \/ /\ Load("ok") /\ run' = "up"
        /\ Started /\ (page \notin {"engine", "worker"} => ~stub')
        /\ RegisterFirst(Value.shortcut)
        /\ astray' = (registered' # {Value.shortcut} \ {NoShortcut})
        /\ sink' = Value.diagnostics
        /\ ops' = IF page \notin {"engine", "worker"} THEN ops
                  ELSE [ops EXCEPT !["model"] = [NoOp EXCEPT !.name = "check", !.step = "gate"]]
        /\ UNCHANGED <<gate, session, quitting>>
  /\ UNCHANGED <<historyVars, asrVars, hudVars, feedbackVars, migrationVars, callers, page, exitVars, deaths>>

-----------------------------------------------------------------------------
(* What the user and the clock do on a page. *)
Commands ==
  \/ /\ On("history")
     /\ \/ \E on \in BOOLEAN : SetHistoryEnabled(on)
        \/ \E n \in Limits, ack \in BOOLEAN : SetHistoryLimit(n, ack)
        \/ \E d \in Days \cup {Forever}, ack \in BOOLEAN : SetHistoryRetention(d, ack)
        \/ ListHistory \/ CopyRecord \/ ClearHistory
  \/ /\ On("shortcut")
     /\ \E s \in Shortcuts \cup {NoShortcut} : SetRecordingShortcut(s)
  \/ /\ On("choices")
     /\ \/ \E m \in {"toggle", "pushToTalk"} : SetRecordingPreferences(m)
        \/ \E on \in BOOLEAN : SetAutoCopy(on) \/ SetLocalDiagnostics(on)
  \/ /\ On("engine") \/ On("worker")
     /\ CheckModel \/ \E e \in Engines : SwitchEngine(e)

Pass ==
  \/ On("history") /\ Tick /\ UNCHANGED <<settings, registered, runtimeVars, control>>
  \/ /\ On("engine") /\ \E e \in Engines : \E p \in Variants[e] : ChangePackage(e, p)
     /\ UNCHANGED <<settings, historyVars, registered, control>>

SettingsPage ==
  /\ page # "worker" /\ run = "up"
  /\ \/ Commands \/ Pass \/ ControllerStep
     \/ page \notin {"hud", "notice", "start"} /\ (SessionStep \/ Probes)
  /\ UNCHANGED <<asrVars, hudVars, feedbackVars, migrationVars, callers, shellVars>>

(* The same with the worker process: a probe waits for its answer, and so  *)
(* does the end of a session that transcribes.                             *)
WorkerPage ==
  /\ On("worker")
  /\ \/ Commands /\ UNCHANGED asrVars
     \/ ControllerStep /\ Replaced
     \/ (StartSession \/ LoadForSession \/ (sup.at = "idle" /\ EndSession)) /\ UNCHANGED asrVars
     \/ SupervisorStep \/ WorkerStep
  /\ UNCHANGED <<hudVars, feedbackVars, migrationVars, callers, shellVars>>

-----------------------------------------------------------------------------
(* A workflow frees the slot of its session, and calls hide after that.    *)
Called(s) == [hides EXCEPT ![s] = IF @ = NoHide THEN [@ EXCEPT !.step = "called"] ELSE @]

MayStart == live = Nobody /\ ~quitting /\ last < MaxSessions

StartRecording ==
  /\ MayStart
  /\ last' = last + 1 /\ live' = last + 1 /\ asked' = FALSE
  /\ stage' = [stage EXCEPT ![last + 1] = "showing"]
  /\ UNCHANGED hudVars

(* prepare_recording from its show on: without a panel, or when the        *)
(* session has been taken meanwhile, the session goes.                     *)
ShowPanel(s) ==
  /\ stage[s] = "showing"
  /\ \E result \in {"ok", "failed"} :
       /\ Show(s, result)
       /\ IF result = "ok" /\ live = s
          THEN stage' = [stage EXCEPT ![s] = "shown"] /\ UNCHANGED <<live, hides>>
          ELSE /\ stage' = [stage EXCEPT ![s] = "none"] /\ hides' = Called(s)
               /\ live' = IF live = s THEN Nobody ELSE live
  /\ UNCHANGED <<asked, last, key>>

(* Recording, then processing once it was asked to finish, then completed. *)
UpdatePanel ==
  /\ live # Nobody /\ stage[live] = "shown"
  /\ \E phase \in Phases :
       /\ phase > hud.phase /\ (phase > Recording => asked)
       /\ Update(live, phase)
  /\ UNCHANGED callers

FreeSlot ==
  /\ live # Nobody /\ asked
  /\ live' = Nobody /\ hides' = Called(live)
  /\ stage' = [stage EXCEPT ![live] = IF @ = "shown" THEN "none" ELSE @]
  /\ UNCHANGED <<hud, generation, window, marred, asked, last, key>>

(* The limit of the recording, or a failure. *)
LimitElapses ==
  /\ live # Nobody /\ asked' = TRUE
  /\ UNCHANGED <<hudVars, live, stage, last, key>>

(* A command of the panel: recording_finish and recording_cancel. *)
PanelCommand ==
  /\ \E kind \in Kinds, request \in Requests : Accept(kind, request)
  /\ asked' = (asked \/ hud.session = live)
  /\ UNCHANGED <<live, stage, last, key>>

(* finishable_session, when the key goes down or up. *)
Finishable == IF hud.session # Nobody /\ hud.phase = Recording THEN hud.session ELSE Nobody

KeyMoves ==
  /\ key = NoKey
  /\ \E kind \in {"press", "release"} :
       /\ kind = "release" => Finishable # Nobody
       /\ key' = [kind |-> kind, session |-> Finishable]
  /\ UNCHANGED <<hudVars, live, asked, stage, last>>

(* handle_press and handle_release after the mode has been read: toggling  *)
(* ends at the next press, push-to-talk at the release.                    *)
Finishes == key.kind = IF Value.mode = "toggle" THEN "press" ELSE "release"

HandleKey ==
  /\ key # NoKey /\ key' = NoKey
  /\ \/ /\ key.session # Nobody
        /\ \E read \in BOOLEAN : asked' = (asked \/ (read /\ Finishes /\ key.session = live))
        /\ UNCHANGED <<hudVars, live, stage, last>>
     \/ key.session = Nobody /\ StartRecording
     \/ /\ key.session = Nobody /\ ~MayStart
        /\ UNCHANGED <<hudVars, live, asked, stage, last>>

HudPage ==
  /\ On("hud")
  /\ \/ StartRecording /\ UNCHANGED key
     \/ \E s \in Sessions : ShowPanel(s)
     \/ UpdatePanel \/ FreeSlot \/ LimitElapses \/ PanelCommand \/ KeyMoves \/ HandleKey
     \/ \E s \in Sessions : (Hide(s) \/ EndHold(s) \/ EndLeave(s) \/ HideFails(s)) /\ UNCHANGED callers
  /\ UNCHANGED <<prefVars, asrVars, feedbackVars, migrationVars, shellVars>>

NoticePage ==
  /\ On("notice")
  /\ (\E n \in Notices : Raise(n) \/ Act(n)) \/ UserCloses \/ WindowGoes
  /\ UNCHANGED <<prefVars, asrVars, hudVars, migrationVars, callers, shellVars>>

-----------------------------------------------------------------------------
(* ExitRequested and the leader's first step: the barrier closes, and what *)
(* the runtime holds is taken out of it.                                   *)
BeginExit ==
  /\ page \in {"history", "engine", "hud"} /\ run = "up" /\ exit = "open" /\ ~shell
  /\ shell' = TRUE /\ exit' = "running" /\ quitting' = TRUE
  /\ session' = IF ActiveWork THEN [session EXCEPT !.step = "taken"] ELSE session
  /\ IF live = Nobody THEN UNCHANGED <<live, stage, hides>>
     ELSE /\ live' = Nobody /\ hides' = Called(live)
          /\ stage' = [stage EXCEPT ![live] = IF @ = "shown" THEN "none" ELSE @]
  /\ UNCHANGED <<settings, historyVars, registered, runtimeVars, gate, ops, sink, astray,
                 asrVars, hud, generation, window, marred, asked, last, key,
                 feedbackVars, migrationVars, page, run, deaths>>

(* As Entered, but a listing of the history does not count. *)
EnteredButLists(c) == ops[c] # NoOp /\ ops[c].name # "list"

(* Who is inside the barrier. *)
Entered(c) == ops[c] # NoOp

Quiescent ==
  /\ \A c \in Barred : ~Entered(c)
  /\ session.step \in {"idle", "debt"}
  /\ \A s \in Sessions : stage[s] # "showing" /\ hides[s].step = "none"

(* What cannot be cleaned up is put back; another exit may try again.      *)
EndExit ==
  /\ exit = "running" /\ Quiescent
  /\ \/ exit' = "complete" /\ UNCHANGED <<shell, session>>
     \/ /\ exit' = "open" /\ shell' = FALSE
        /\ \/ UNCHANGED session
           \/ session' = [session EXCEPT !.step = "debt"]
  /\ UNCHANGED <<settings, historyVars, registered, runtimeVars, gate, ops, quitting, sink, astray,
                 asrVars, hudVars, feedbackVars, migrationVars, callers, page, run, deaths>>

(* The process ends, by its exit or anyhow, or the machine dies.  Files    *)
(* stay, memory goes.                                                      *)
Die ==
  /\ page \in {"shortcut", "choices", "start"} /\ deaths < MaxDeaths /\ deaths' = deaths + 1
  /\ run' = "down" /\ exit' = "open" /\ shell' = FALSE
  /\ registered' = {} /\ gate' = "free" /\ ops' = NoOps /\ session' = NoSession
  /\ quitting' = FALSE /\ sink' = FALSE /\ astray' = FALSE
  /\ hud' = NoHud /\ generation' = 0 /\ window' = FALSE /\ marred' = FALSE
  /\ hides' = [s \in Sessions |-> NoHide]
  /\ notice' = NoNotice /\ feedback' = "none" /\ fate' = [n \in Notices |-> "none"]
  /\ live' = Nobody /\ asked' = FALSE /\ stage' = NoStages /\ last' = 0 /\ key' = NoKey
  /\ IF page = "start" THEN ProcessDies \/ PowerFails ELSE UNCHANGED migrationVars
  /\ UNCHANGED <<settings, historyVars, runtimeVars, asrVars, page>>

Next == TakeOver \/ Boot \/ SettingsPage \/ WorkerPage \/ HudPage \/ NoticePage \/ BeginExit \/ EndExit \/ Die

Spec == Init /\ [][Next]_vars

-----------------------------------------------------------------------------
(* Once an exit has completed nobody touches the history any more: every   *)
(* command that may have, the listing included, was let finish first, and  *)
(* none can begin.                                                         *)
HistoryStill == exit = "complete" /\ exit' = "complete" => records' = records
HistoryIsStillAfterExit == [][HistoryStill]_vars

(* Outside a command, the keys that fire are the shortcut of the settings  *)
(* file and the diagnostics are written as it says, whatever failed in     *)
(* between - unless the code has reported a failure that it could not take *)
(* back: a store that had committed, a shortcut the system did not give    *)
(* back.                                                                   *)
EffectsFollowSettings ==
  run = "up" /\ ~astray /\ ops["recording"] = NoOp /\ ops["system"] = NoOp =>
    registered = {Value.shortcut} \ {NoShortcut} /\ sink = Value.diagnostics

(* Under a session neither the worker nor the settings it started with     *)
(* change; and the engine changes only to one that was found healthy.      *)
Settled ==
  /\ session.step = "active" /\ session'.step = "active" =>
       worker' = worker /\ settings'.value = session.with
  /\ settings'.value.engine # Value.engine => health[settings'.value.engine] = "healthy"
SessionIsSettled == [][Settled]_vars

(* A transcription in flight still has its recording in the folder, though *)
(* every supervisor that starts sweeps it; the engine that works on it has *)
(* its model in memory, though idle models are dropped and the loop may    *)
(* ask for another one; never are both models in memory; and the loop,     *)
(* which has to read the cancel, does not wait for the work of the engine. *)
InFlightIsWhole ==
  /\ sup.at \in {"transcribe", "cancelling"} => "held" \in grants
  /\ inference.at = "run" => memory[inference.engine].resident
  /\ Cardinality({e \in Engines : memory[e].resident}) <= 1
  /\ host.at = "health" => lock # "inference"

(* The panel of the current session is on the screen, whichever hide of an *)
(* earlier session comes late; without a session it is there only until    *)
(* its hide comes, or because a call has failed.  A session is given at    *)
(* most one intent of its panel.                                           *)
PanelFollowsSession ==
  /\ hud.session # Nobody => window
  /\ window /\ hud.session = Nobody /\ ~marred =>
       \E s \in Sessions : hides[s].step \in {"hold", "leave"} /\ MayHide(hides[s].generation)
  /\ hud.dispatched <= 1

(* A notice acts at most once for every time it is raised, and not after   *)
(* it was dismissed or another one took its place: though its window may   *)
(* stay on the screen, because neither destroy nor hide worked, and clicks *)
(* in it come late or again (the comments of apply_action and of           *)
(* clear_pending_after_user_close).  That the pending notice is seen is    *)
(* not promised: a raise that finds the window closing loses it.           *)
NoticeActsOnce == \A n \in Notices : fate[n] # "revived"

=============================================================================
