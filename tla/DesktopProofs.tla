----------------------------- MODULE DesktopProofs -----------------------------
(***************************************************************************)
(* What the parts around a session keep, for any number of entries,        *)
(* sessions, records and commands, whatever fails and whenever the process *)
(* dies: nothing of the old storage is lost, the panel follows the         *)
(* session, a notice acts once, what the commands do follows the settings  *)
(* file, a session and what an exit has closed are left alone, and a       *)
(* transcription in flight has what it needs.                              *)
(***************************************************************************)
EXTENDS Desktop, FiniteSetTheorems, TLAPS

-----------------------------------------------------------------------------
(* The inductive invariants *)

Intents == [kind : Kinds \cup {"none"}, request : Requests \cup {0}]

(* The panel: an intent counts only once, and a panel without a session is   *)
(* there for a hide that has not come yet.                                   *)
PanelInv ==
  /\ hud \in [session : Sessions \cup {Nobody}, phase : Phases,
              dispatched : {0, 1}, pending : Intents]
  /\ generation \in Nat
  /\ hud.phase <= Recording /\ hud.pending = NoIntent => hud.dispatched = 0
  /\ DOMAIN hides = Sessions
  /\ live \in Sessions \cup {Nobody} /\ last \in Nat
  /\ PanelFollowsSession

(* The notice: its history says what is pending, and none is revived.        *)
NoticeInv ==
  /\ fate \in [Notices -> {"none", "pending", "over", "acted"}]
  /\ \A n \in Notices : fate[n] = "pending" <=> notice = n

(* The commands that change something hold the gate from their admission     *)
(* on; a session that is at work keeps them away.                            *)
Working(op) == op.step \notin {"none", "gate", "load"} /\ op.name # "list"
Writing(op) == op.step \in {"count", "bind", "store", "prepare", "probe"}

Names(c) ==
  CASE c = "recording" -> {"preferences", "shortcut"}
    [] c = "system" -> {"autoCopy", "diagnostics"}
    [] c = "policy" -> {"enabled", "limit", "retention"}
    [] c = "history" -> {"list", "copy", "clear"}
    [] c = "model" -> {"check", "switch"}

StepsOf(name) ==
  CASE name = "none" -> {"none"}
    [] name = "shortcut" -> {"gate", "bind", "store", "undo"}
    [] name \in {"preferences", "autoCopy", "diagnostics", "enabled"} -> {"gate", "store"}
    [] name \in {"limit", "retention"} -> {"gate", "count", "store", "enforce"}
    [] name = "list" -> {"load", "enforce"}
    [] name = "copy" -> {"gate"}
    [] name = "clear" -> {"gate", "clear"}
    [] name \in {"check", "switch"} ->
         {"gate", "prepare", "probe", "store", "restore", "reprobe"}

OpNames ==
  {"none", "preferences", "shortcut", "autoCopy", "diagnostics", "enabled",
   "limit", "retention", "list", "copy", "clear", "check", "switch"}
OpSteps ==
  {"none", "gate", "load", "count", "bind", "store", "undo", "enforce", "clear",
   "prepare", "probe", "restore", "reprobe"}
Ops ==
  [name : OpNames, step : OpSteps, to : Choices, version : Nat, ack : BOOLEAN,
   trim : BOOLEAN, from : Shortcuts \cup {NoShortcut} \cup Engines]
OpTypeOK(op, names) ==
  /\ op \in Ops
  /\ op = NoOp \/ op.name \in names
  /\ op.name # "none" => op.step # "none"
  /\ op.step \in StepsOf(op.name)

CommandTypeOK ==
  /\ settings.version \in Nat /\ Value \in Choices
  /\ DOMAIN ops = Controllers /\ DOMAIN health = Engines
  /\ \A c \in Controllers : OpTypeOK(ops[c], Names(c))
  /\ session \in [step : {"idle", "loading", "active", "taken", "debt"},
                  with : Choices]

(* What a command is going to store differs from the file in nothing but     *)
(* what it is about: while it waits, if it was made for this version; and    *)
(* from its admission on.                                                    *)
About(op) ==
  /\ op.name # "shortcut" => op.to.shortcut = Value.shortcut
  /\ op.name # "diagnostics" => op.to.diagnostics = Value.diagnostics
  /\ op.name # "switch" => op.to.engine = Value.engine

Versioned == {"recording", "system", "policy"}
RequestInv ==
  \A c \in Versioned :
    /\ ops[c].version <= settings.version
    /\ At(c, "gate") /\ ops[c].version = settings.version => About(ops[c])

GateInv ==
  /\ \A c \in Controllers : Working(ops[c]) => gate = c
  /\ session.step = "loading" => gate = "session"
  /\ session.step = "active" =>
       gate # "session" /\ \A c \in Controllers : ~Working(ops[c])

Undoes(op) ==
  /\ op.step \in {"bind", "store"} => op.from = Value.shortcut
  /\ op.step = "undo" /\ ~astray => op.from = Value.shortcut
FoundHealthy(op) == op.step = "store" => health[op.to.engine] = "healthy"
ChoicesInv ==
  /\ \A c \in Controllers : Writing(ops[c]) => About(ops[c])
  /\ Undoes(ops["recording"]) /\ FoundHealthy(ops["model"])
  /\ session.step = "active" => session.with = Value

(* The shortcut that fires: what the command on its way has registered, or   *)
(* what the file says.                                                       *)
FiredUnder(op) ==
  IF op.name = "shortcut" /\ op.step \in {"store", "undo"}
  THEN op.to.shortcut ELSE Value.shortcut
EffectsInv ==
  /\ run \in {"down", "up"}
  /\ run = "down" =>
       ops = NoOps /\ registered = {} /\ session.step = "idle" /\ exit = "open"
  /\ run = "up" /\ ~astray =>
       /\ registered = {FiredUnder(ops["recording"])} \ {NoShortcut}
       /\ sink = Value.diagnostics

(* After the exit. *)
StillInv ==
  /\ exit \in {"running", "complete"} => quitting
  /\ exit = "complete" =>
       session.step \in {"idle", "debt"} /\ \A c \in Barred : ops[c] = NoOp

PreferencesInv ==
  CommandTypeOK /\ RequestInv /\ GateInv /\ ChoicesInv /\ EffectsInv /\ StillInv

(* Who works has an engine to work with, and a greeting is for a request.    *)
WorkerTypeOK ==
  /\ LocalAsrTypeOK
  /\ \/ inference = NoInference
     \/ inference.at # "none" /\ inference.engine \in Engines
  /\ host.at \in {"health", "load"} => host.engine \in Engines
  /\ sup.at = "handshake" => sup.use \in {"health", "transcribe"}

(* The engines: the mutex belongs to who works, nobody else's model is in    *)
(* memory, and a lease is that of the inference that runs.                   *)
MemoryInv ==
  /\ lock = "inference" <=> inference.at \in {"load", "lease", "run"}
  /\ lock = "inference" => active = inference.engine
  /\ lock = "loop" <=> host.at = "load"
  /\ lock = "loop" => active = host.engine
  /\ \A e \in Engines : memory[e].resident => e = active
  /\ \A e \in Engines :
       memory[e].inFlight = IF inference.at = "run" /\ e = inference.engine THEN 1 ELSE 0
  /\ inference.at = "run" => memory[inference.engine].resident

(* The request of the supervisor is in one place at the most: asked for in   *)
(* the input of the process, at work in it, or answered in its output.  A    *)
(* late cancel may precede it.                                               *)
Asked == {i \in 1..Len(inbox) : inbox[i].kind # "cancel"}
AtWork == host.at \in {"health", "load"} \/ inference # NoInference
RequestPlaceInv ==
  /\ \A i \in Asked : ~AtWork /\ outbox = <<>> /\ \A j \in Asked : i = j
  /\ AtWork => outbox = <<>>
  /\ host.at \in {"health", "load"} => inference = NoInference
  /\ Len(outbox) <= 1

(* Where it is tells what the supervisor waits for.                          *)
KindInv ==
  /\ \A i \in Asked :
       \/ inbox[i].kind = "hello" /\ sup.at = "handshake"
       \/ inbox[i].kind = "health" /\ sup.at = "health"
       \/ inbox[i].kind = "transcribe" /\ sup.at \in {"transcribe", "cancelling"}
  /\ inference # NoInference => sup.at \in {"transcribe", "cancelling"}
  /\ host.at \in {"health", "load"} => sup.at = "health"
  /\ sup.at = "idle" => outbox = <<>>

(* A transcription belongs to an active session, under which no worker is    *)
(* replaced and no grant is swept.                                           *)
GrantInv ==
  /\ sup.at \in {"transcribe", "cancelling"} => "held" \in grants /\ sup.use = "transcribe"
  /\ sup.use = "transcribe" => session.step = "active" /\ sup.at # "idle"
  /\ page # "worker" => sup = NoRequest

HostInv == MemoryInv /\ RequestPlaceInv /\ KindInv
WorkerInv == WorkerTypeOK /\ HostInv /\ GrantInv

-----------------------------------------------------------------------------
(* The takeover of the old brand's storage *)

(* What the copy loop has passed is there; from the sync of the            *)
(* destination to the end of the removal everything is there durably.      *)
Progress ==
  /\ step.at = "copy" => \A e \in Entries : e < step.entry => current[e] # "none"
  /\ step.at = "flush" => \A e \in Entries : current[e] # "none"
  /\ step.at \in {"revalidate", "remove", "retire"} => \A e \in Entries : current[e] = "durable"

MigrationInv == MigrationTypeOK /\ NothingIsLost /\ Progress

(* A step is at a place and at an entry, and so is the one after it. *)
LEMMA Moves ==
  ASSUME NEW s \in Steps, step \in [at : Steps, entry : Entries]
  PROVE  /\ Goto(s) => /\ step' \in [at : Steps, entry : Entries]
                       /\ step'.at = s /\ step'.entry = 1
         /\ Onward(s) => \/ /\ step.entry < MaxEntries /\ step'.at = step.at
                            /\ step'.entry = step.entry + 1
                            /\ step' \in [at : Steps, entry : Entries]
                         \/ /\ step.entry = MaxEntries /\ step'.at = s /\ step'.entry = 1
                            /\ step' \in [at : Steps, entry : Entries]
<1> USE MigrationAssumption DEF Entries
<1>1. Goto(s) => step' \in [at : Steps, entry : Entries] /\ step'.at = s /\ step'.entry = 1
  BY DEF Goto
<1>2. ASSUME Onward(s), step.entry < MaxEntries
      PROVE  /\ step'.at = step.at /\ step'.entry = step.entry + 1
             /\ step' \in [at : Steps, entry : Entries]
  <2>1. step' = [step EXCEPT !.entry = step.entry + 1]
    BY <1>2 DEF Onward
  <2>2. step.entry + 1 \in Entries /\ step.at \in Steps
    BY <1>2
  <2> QED
    BY <2>1, <2>2
<1>3. ASSUME Onward(s), ~(step.entry < MaxEntries) PROVE Goto(s) /\ step.entry = MaxEntries
  BY <1>3 DEF Onward
<1> QED
  BY <1>1, <1>2, <1>3

(* The state of a first attempt, and of any later one. *)
LEMMA MigrationStarts == MigrationInit => MigrationInv
<1> SUFFICES ASSUME MigrationInit PROVE MigrationInv
  OBVIOUS
<1> USE MigrationAssumption
<1>1. step = [at |-> "lock", entry |-> 1]
  BY DEF MigrationInit, AtStep
<1>2. step.at = "lock" /\ step \in [at : Steps, entry : Entries]
  BY <1>1 DEF Steps, Entries
<1>3. legacy \in [Entries -> {"here", "removed", "gone"}]
  BY DEF MigrationInit
<1>4. current \in [Entries -> {"none", "volatile", "durable"}]
  BY DEF MigrationInit
<1>5. login \in [old : BOOLEAN, new : BOOLEAN]
  <2>1. login = [old |-> TRUE, new |-> FALSE] \/ login = [old |-> FALSE, new |-> FALSE]
    BY DEF MigrationInit
  <2>2. [old |-> TRUE, new |-> FALSE] \in [old : BOOLEAN, new : BOOLEAN]
    OBVIOUS
  <2>3. [old |-> FALSE, new |-> FALSE] \in [old : BOOLEAN, new : BOOLEAN]
    OBVIOUS
  <2> QED
    BY <2>1, <2>2, <2>3, Zenon
<1>6. models \in {"old", "new", "none"}
  BY DEF MigrationInit
<1>7. NothingIsLost
  BY <1>2, <1>3 DEF MigrationInit, NothingIsLost
<1> QED
  BY <1>2, <1>3, <1>4, <1>5, <1>6, <1>7 DEF MigrationTypeOK, MigrationInv, Progress

(* The copy loop. *)
LEMMA CopyKeeps == MigrationInv /\ (CopyEntry \/ CopyEntryHalf) => MigrationInv'
<1> SUFFICES ASSUME MigrationInv, CopyEntry \/ CopyEntryHalf PROVE MigrationInv'
  OBVIOUS
<1>1. /\ step \in [at : Steps, entry : Entries] /\ step.entry \in Entries /\ step.at = "copy"
      /\ current \in [Entries -> {"none", "volatile", "durable"}]
      /\ {"flush", "failed", "copy"} \subseteq Steps
  BY DEF MigrationInv, MigrationTypeOK, CopyEntry, CopyEntryHalf, Steps
<1>2. UNCHANGED <<legacy, login, models>>
  BY DEF CopyEntry, CopyEntryHalf
<1>3. CASE CopyEntry
  <2>1. /\ current' \in [Entries -> {"none", "volatile", "durable"}]
        /\ \A e \in Entries : current'[e] = current[e] \/ current'[e] = "durable"
        /\ current'[step.entry] # "none"
    BY <1>1, <1>3 DEF CopyEntry, MigrationInv, NothingIsLost
  <2>2. step' \in [at : Steps, entry : Entries]
        /\ \/ step'.at = "copy" /\ step'.entry = step.entry + 1
           \/ step'.at = "flush" /\ step.entry = MaxEntries
    BY <1>1, <1>3, Moves DEF CopyEntry
  <2>3. NothingIsLost'
    BY <1>2, <2>1, <2>2 DEF MigrationInv, NothingIsLost
  <2>4. \A e \in Entries : e <= step.entry => current'[e] # "none"
    BY <1>1, <2>1 DEF MigrationInv, Progress, Entries
  <2>5. Progress'
    BY <1>1, <2>2, <2>4, MigrationAssumption DEF Progress, Entries
  <2> QED
    BY <1>2, <2>1, <2>2, <2>3, <2>5 DEF MigrationInv, MigrationTypeOK
<1>4. CASE CopyEntryHalf
  <2>1. step' \in [at : Steps, entry : Entries] /\ step'.at = "failed"
    BY <1>1, <1>4, Moves DEF CopyEntryHalf
  <2>2. /\ current' \in [Entries -> {"none", "volatile", "durable"}]
        /\ \A e \in Entries : current[e] = "durable" => current'[e] = "durable"
    BY <1>1, <1>4 DEF CopyEntryHalf
  <2> QED
    BY <1>2, <2>1, <2>2 DEF MigrationInv, MigrationTypeOK, NothingIsLost, Progress
<1> QED
  BY <1>3, <1>4

(* The syncs and the removal. *)
LEMMA RemovalKeeps ==
  MigrationInv /\ (SyncDestination \/ Revalidate \/ RemoveEntry \/ SyncSource) => MigrationInv'
<1> SUFFICES ASSUME MigrationInv, SyncDestination \/ Revalidate \/ RemoveEntry \/ SyncSource
             PROVE  MigrationInv'
  OBVIOUS
<1>1. /\ step \in [at : Steps, entry : Entries] /\ step.entry \in Entries
      /\ current \in [Entries -> {"none", "volatile", "durable"}]
      /\ legacy \in [Entries -> {"here", "removed", "gone"}]
      /\ {"revalidate", "remove", "retire", "login"} \subseteq Steps
  BY DEF MigrationInv, MigrationTypeOK, Steps
<1>2. UNCHANGED <<login, models>>
  BY DEF SyncDestination, Revalidate, RemoveEntry, SyncSource
<1>3. \A e \in Entries : current'[e] = "durable"
  <2>1. CASE SyncDestination
    BY <1>1, <2>1 DEF SyncDestination, Synced, MigrationInv, Progress
  <2>2. CASE Revalidate \/ RemoveEntry \/ SyncSource
    BY <2>2 DEF Revalidate, RemoveEntry, SyncSource, MigrationInv, Progress
  <2> QED
    BY <2>1, <2>2
<1>4. current' \in [Entries -> {"none", "volatile", "durable"}]
  BY <1>1 DEF SyncDestination, Synced, Revalidate, RemoveEntry, SyncSource
<1>5. legacy' \in [Entries -> {"here", "removed", "gone"}]
  BY <1>1 DEF SyncDestination, Revalidate, RemoveEntry, SyncSource
<1>6. step' \in [at : Steps, entry : Entries] /\ step'.at \in {"revalidate", "remove", "retire", "login"}
  BY <1>1, Moves DEF SyncDestination, Revalidate, RemoveEntry, SyncSource
<1> QED
  BY <1>2, <1>3, <1>4, <1>5, <1>6 DEF MigrationInv, MigrationTypeOK, NothingIsLost, Progress

(* The steps that touch neither storage, and a death of the process. *)
LEMMA RestKeeps ==
  MigrationInv /\ (LockLegacy \/ MoveLogin \/ RetireLogin \/ MoveModels \/ MigrationFails \/ ProcessDies)
    => MigrationInv'
<1> SUFFICES ASSUME MigrationInv,
                    LockLegacy \/ MoveLogin \/ RetireLogin \/ MoveModels \/ MigrationFails \/ ProcessDies
             PROVE  MigrationInv'
  OBVIOUS
<1>1. /\ step \in [at : Steps, entry : Entries]
      /\ login \in [old : BOOLEAN, new : BOOLEAN] /\ models \in {"old", "new", "none"}
      /\ {"lock", "copy", "login", "verify", "models", "done", "failed"} \subseteq Steps
  BY DEF MigrationInv, MigrationTypeOK, Steps
<1>2. UNCHANGED <<legacy, current>>
  BY DEF LockLegacy, MoveLogin, RetireLogin, MoveModels, MigrationFails, ProcessDies
<1>3. /\ step' \in [at : Steps, entry : Entries] /\ step'.entry = 1
      /\ step'.at \in {"lock", "copy", "login", "verify", "models", "done", "failed"}
  BY <1>1, Moves DEF LockLegacy, MoveLogin, RetireLogin, MoveModels, MigrationFails, ProcessDies
<1>4. login' \in [old : BOOLEAN, new : BOOLEAN] /\ models' \in {"old", "new", "none"}
  BY <1>1 DEF LockLegacy, MoveLogin, RetireLogin, MoveModels, MigrationFails, ProcessDies
<1>5. step'.at = "verify" => login'.new
  BY <1>1, Moves DEF LockLegacy, MoveLogin, RetireLogin, MoveModels, MigrationFails, ProcessDies
<1>6. Progress'
  BY <1>3 DEF Progress, Entries
<1> QED
  BY <1>2, <1>3, <1>4, <1>5, <1>6 DEF MigrationInv, MigrationTypeOK, NothingIsLost

(* A loss of power takes only what was not durable. *)
LEMMA PowerKeeps == MigrationInv /\ PowerFails => MigrationInv'
<1> SUFFICES ASSUME MigrationInv, PowerFails PROVE MigrationInv'
  OBVIOUS
<1>1. step' \in [at : Steps, entry : Entries] /\ step'.at = "lock"
  <2>1. step \in [at : Steps, entry : Entries] /\ "lock" \in Steps
    BY DEF MigrationInv, MigrationTypeOK, Steps
  <2> QED
    BY <2>1, Moves DEF PowerFails
<1>2. \A e \in Entries : legacy'[e] # "here" => current'[e] = "durable"
  <2> SUFFICES ASSUME NEW e \in Entries, legacy'[e] # "here" PROVE current'[e] = "durable"
    OBVIOUS
  <2>1. legacy[e] # "here"
    BY DEF PowerFails
  <2> QED
    BY <2>1 DEF PowerFails, MigrationInv, NothingIsLost
<1>3. MigrationTypeOK'
  BY <1>1 DEF PowerFails, MigrationInv, MigrationTypeOK
<1> QED
  BY <1>1, <1>2, <1>3 DEF MigrationInv, NothingIsLost, Progress

(* Every step of the takeover keeps it. *)
LEMMA MigrationKept == MigrationInv /\ [MigrationNext]_migrationVars => MigrationInv'
<1> SUFFICES ASSUME MigrationInv, [MigrationNext]_migrationVars PROVE MigrationInv'
  OBVIOUS
<1>1. CASE MigrationNext
  BY <1>1, CopyKeeps, RemovalKeeps, RestKeeps, PowerKeeps DEF MigrationNext, MigrationStep
<1>2. CASE UNCHANGED migrationVars
  BY <1>2 DEF migrationVars, MigrationInv, MigrationTypeOK, NothingIsLost, Progress
<1> QED
  BY <1>1, <1>2

(* Whatever fails or dies at whatever step of the takeover, and however    *)
(* many entries there are, an old entry goes only after its successor is   *)
(* durable: identity_migration's order of copies, syncs and removals.      *)
THEOREM MigrationLosesNothing == MigrationSpec => []NothingIsLost
<1>1. MigrationInv => NothingIsLost
  BY DEF MigrationInv
<1> QED
  BY <1>1, MigrationStarts, MigrationKept, PTL DEF MigrationSpec

(* The page of the start is the takeover of BrandMigration; the others leave *)
(* its storage alone.                                                        *)
LEMMA DesktopMigrates == Next => [MigrationNext]_migrationVars
<1>. SUFFICES ASSUME Next PROVE [MigrationNext]_migrationVars
  OBVIOUS
<1>1. CASE TakeOver
  BY <1>1 DEF TakeOver, MigrationNext
<1>2. CASE Die
  BY <1>2 DEF Die, MigrationNext
<1>3. CASE Boot \/ BeginExit \/ EndExit
  BY <1>3 DEF Boot, BeginExit, EndExit
<1>4. CASE SettingsPage \/ WorkerPage \/ HudPage \/ NoticePage
  BY <1>4 DEF SettingsPage, WorkerPage, HudPage, NoticePage
<1>. QED
  BY <1>1, <1>2, <1>3, <1>4 DEF Next

(* A storage that has been taken over. *)
LEMMA DoneIsSafe == MigrationDone => MigrationInv
<1>. SUFFICES ASSUME MigrationDone PROVE MigrationInv
  OBVIOUS
<1>1. /\ step = [at |-> "done", entry |-> 1]
      /\ legacy = [e \in Entries |-> "gone"]
      /\ current = [e \in Entries |-> "durable"]
      /\ login = [old |-> FALSE, new |-> FALSE] /\ models = "new"
  BY DEF MigrationDone, AtStep
<1>2. 1 \in Entries
  BY MigrationAssumption DEF Entries
<1>3. step.at = "done" /\ step \in [at : Steps, entry : Entries]
  BY <1>1, <1>2 DEF Steps
<1>4. /\ legacy \in [Entries -> {"here", "removed", "gone"}]
      /\ current \in [Entries -> {"none", "volatile", "durable"}]
      /\ \A e \in Entries : current[e] = "durable"
  BY <1>1
<1>5. login \in [old : BOOLEAN, new : BOOLEAN]
  <2>1. [old |-> FALSE, new |-> FALSE] \in [old : BOOLEAN, new : BOOLEAN]
    OBVIOUS
  <2>. QED
    BY <1>1, <2>1
<1>6. MigrationTypeOK
  BY <1>1, <1>3, <1>4, <1>5 DEF MigrationTypeOK
<1>7. NothingIsLost /\ Progress
  BY <1>1, <1>3, <1>4 DEF NothingIsLost, Progress
<1>. QED
  BY <1>6, <1>7 DEF MigrationInv

(* The same of the process whose start it is, with its own deaths.           *)
THEOREM NothingIsLostHolds == Spec => []NothingIsLost
<1>1. Init => MigrationInv
  BY MigrationStarts, DoneIsSafe DEF Init
<1>2. MigrationInv /\ [Next]_vars => MigrationInv'
  <2>1. UNCHANGED vars => UNCHANGED migrationVars
    BY DEF vars
  <2>. QED
    BY <2>1, DesktopMigrates, MigrationKept
<1>3. MigrationInv => NothingIsLost
  BY DEF MigrationInv
<1>. QED
  BY <1>1, <1>2, <1>3, PTL DEF Spec

-----------------------------------------------------------------------------
(* The panel *)

(* A hide that is called is none that could already take the panel away. *)
LEMMA CallingKeepsHides ==
  ASSUME NEW s \in Sessions, DOMAIN hides = Sessions, hides' = Called(s)
  PROVE  /\ DOMAIN hides' = Sessions
         /\ \A t \in Sessions :
              hides[t].step \in {"hold", "leave"} => hides'[t] = hides[t]
  BY DEF Called, NoHide

(* A show comes with a new generation, or changes nothing. *)
LEMMA ShowKeepsPanel ==
  ASSUME PanelInv, NEW s \in Sessions, ShowPanel(s)
  PROVE  PanelInv'
<1>1. PICK result \in {"ok", "failed"} :
        /\ Show(s, result)
        /\ IF result = "ok" /\ live = s
           THEN UNCHANGED <<live, hides>>
           ELSE hides' = Called(s) /\ live' = IF live = s THEN Nobody ELSE live
  BY DEF ShowPanel
<1>2. /\ DOMAIN hides' = Sessions
      /\ \A t \in Sessions :
           hides[t].step \in {"hold", "leave"} => hides'[t] = hides[t]
      /\ live' \in Sessions \cup {Nobody} /\ last' = last
  BY <1>1, CallingKeepsHides DEF PanelInv, ShowPanel
<1>3. CASE UNCHANGED <<hud, generation, window, marred>>
  BY <1>2, <1>3 DEF PanelInv, PanelFollowsSession, MayHide
<1>4. CASE /\ hud.session = Nobody /\ generation' = generation + 1
           /\ window' = TRUE /\ hud' = [NoHud EXCEPT !.session = s]
           /\ marred' = FALSE
  <2>1. /\ hud' \in [session : Sessions \cup {Nobody}, phase : Phases,
                     dispatched : {0, 1}, pending : Intents]
        /\ hud'.session = s /\ hud'.dispatched = 0 /\ s # Nobody
    BY <1>4 DEF NoHud, NoIntent, Intents, Phases, Sessions, Nobody
  <2>2. generation' \in Nat
    BY <1>4 DEF PanelInv
  <2>. QED
    BY <1>2, <1>4, <2>1, <2>2 DEF PanelInv, PanelFollowsSession
<1>5. CASE /\ hud.session = Nobody /\ generation' = generation + 1
           /\ marred' = TRUE /\ UNCHANGED <<hud, window>>
  BY <1>2, <1>5 DEF PanelInv, PanelFollowsSession, MayHide
<1>. QED
  BY <1>1, <1>3, <1>4, <1>5 DEF Show

(* The steps of a session that show it in the panel or take its intents. *)
LEMMA IntentsKeepPanel ==
  ASSUME PanelInv, UpdatePanel \/ PanelCommand
  PROVE  PanelInv'
<1>. USE DEF PanelInv, PanelFollowsSession, MayHide, Phases,
             Recording, NoIntent
<1>1. CASE UpdatePanel
  <2>1. PICK phase \in Phases : Update(live, phase)
    BY <1>1 DEF UpdatePanel
  <2>2. UNCHANGED <<live, last, generation, window, hides, marred>>
    BY <1>1, <2>1 DEF UpdatePanel, Update, callers
  <2>3. CASE UNCHANGED hud
    BY <2>2, <2>3
  <2>4. CASE /\ hud.session = live /\ phase >= hud.phase
             /\ hud' = [hud EXCEPT !.phase = phase,
                          !.pending = IF KeepsIntent(phase) THEN @ ELSE NoIntent]
    <3>. DEFINE kept == IF KeepsIntent(phase) THEN hud.pending ELSE NoIntent
    <3>1. hud' = [hud EXCEPT !.phase = phase, !.pending = kept]
      BY <2>4
    <3>2. kept \in Intents
      BY DEF Intents
    <3>3. phase <= Recording => kept = hud.pending
      BY DEF KeepsIntent
    <3>. HIDE DEF kept
    <3>4. hud' \in [session : Sessions \cup {Nobody}, phase : Phases,
                   dispatched : {0, 1}, pending : Intents]
      BY <3>1, <3>2
    <3>5. /\ hud'.session = hud.session /\ hud'.dispatched = hud.dispatched
          /\ hud'.phase = phase /\ hud'.pending = kept
      BY <3>1, <3>2
    <3>6. hud'.phase <= Recording /\ hud'.pending = NoIntent =>
            hud.phase <= Recording /\ hud.pending = NoIntent
      BY <2>4, <3>3, <3>5
    <3>. QED
      BY <2>2, <3>4, <3>5, <3>6
  <2>. QED
    BY <2>1, <2>3, <2>4 DEF Update
<1>2. CASE PanelCommand
  <2>1. PICK kind \in Kinds, request \in Requests : Accept(kind, request)
    BY <1>2 DEF PanelCommand
  <2>2. UNCHANGED <<live, last, generation, window, hides, marred>>
    BY <1>2, <2>1 DEF PanelCommand, Accept
  <2>3. hud.phase <= Recording /\ hud.pending = NoIntent /\ hud.session # Nobody
    BY <2>1 DEF Accept
  <2>. DEFINE intent == [kind |-> kind, request |-> request]
  <2>4. hud' = [hud EXCEPT !.pending = intent, !.dispatched = @ + 1]
    BY <2>1 DEF Accept
  <2>5. intent # NoIntent /\ intent \in Intents
    BY DEF Kinds, Intents
  <2>. HIDE DEF intent
  <2>6. hud.dispatched = 0
    BY <2>3
  <2>7. hud' = [hud EXCEPT !.pending = intent, !.dispatched = 1]
    BY <2>4, <2>6
  <2>8. /\ hud'.session = hud.session /\ hud'.pending = intent
        /\ hud'.dispatched = 1
    BY <2>7
  <2>9. hud' \in [session : Sessions \cup {Nobody}, phase : Phases,
                 dispatched : {0, 1}, pending : Intents]
    BY <2>5, <2>7
  <2>. QED
    BY <2>2, <2>3, <2>5, <2>8, <2>9
<1>. QED
  BY <1>1, <1>2

(* The hide of a session is the one that the panel waits for, or another     *)
(* one is, or it comes too late to matter.                                   *)
LEMMA HidesKeepPanel ==
  ASSUME PanelInv, NEW s \in Sessions,
         Hide(s) \/ EndHold(s) \/ EndLeave(s) \/ HideFails(s),
         UNCHANGED <<live, last>>
  PROVE  PanelInv'
<1>. USE DEF PanelInv, PanelFollowsSession, MayHide, Phases,
             Recording, NoHide
<1>1. CASE Hide(s)
  <2>1. CASE hud.session # s
    <3>1. /\ hides' = [hides EXCEPT ![s] = NoHide] /\ hides[s].step = "called"
          /\ UNCHANGED <<hud, generation, window, marred>>
      BY <1>1, <2>1 DEF Hide
    <3>. QED
      BY <3>1
  <2>2. CASE hud.session = s
    <3>. DEFINE end == IF hud.phase = Completed THEN "hold" ELSE "leave"
    <3>1. /\ generation' = generation + 1 /\ hud' = NoHud
          /\ hides' = [hides EXCEPT ![s] =
                         [step |-> end, generation |-> generation + 1]]
          /\ UNCHANGED <<window, marred>>
      BY <1>1, <2>2 DEF Hide
    <3>2. hides'[s].step \in {"hold", "leave"} /\ hides'[s].generation = generation'
      BY <3>1
    <3>3. /\ hud' \in [session : Sessions \cup {Nobody}, phase : Phases,
                       dispatched : {0, 1}, pending : Intents]
          /\ hud'.session = Nobody /\ hud'.dispatched = 0
      BY <3>1 DEF NoHud, NoIntent, Intents
    <3>4. generation' \in Nat /\ DOMAIN hides' = Sessions
      BY <3>1
    <3>. QED
      BY <3>1, <3>2, <3>3, <3>4
  <2>. QED
    BY <2>1, <2>2
<1>2. CASE EndHold(s)
  <2>1. /\ UNCHANGED <<hud, generation, window, marred>> /\ DOMAIN hides' = Sessions
        /\ \A t \in Sessions : t # s => hides'[t] = hides[t]
        /\ MayHide(hides[s].generation) =>
             hides'[s].step = "leave" /\ hides'[s].generation = hides[s].generation
    BY <1>2 DEF EndHold
  <2>. QED
    BY <2>1
<1>3. CASE EndLeave(s)
  <2>1. /\ UNCHANGED <<hud, generation, marred>> /\ DOMAIN hides' = Sessions
        /\ \A t \in Sessions : t # s => hides'[t] = hides[t]
        /\ window' = (window /\ ~MayHide(hides[s].generation))
    BY <1>3 DEF EndLeave
  <2>. QED
    BY <2>1
<1>4. CASE HideFails(s)
  <2>1. /\ UNCHANGED <<hud, generation, window>> /\ DOMAIN hides' = Sessions
        /\ \A t \in Sessions : t # s => hides'[t] = hides[t]
        /\ marred' = (marred \/ MayHide(hides[s].generation))
    BY <1>4 DEF HideFails
  <2>. QED
    BY <2>1
<1>. QED
  BY <1>1, <1>2, <1>3, <1>4

(* A step that leaves the panel alone, and calls at most the hide of the     *)
(* session that goes.                                                        *)
LEMMA CallsKeepPanel ==
  ASSUME PanelInv, live' \in Sessions \cup {Nobody}, last' \in Nat,
         UNCHANGED <<hud, generation, window, marred>>,
         \/ UNCHANGED hides
         \/ \E s \in Sessions : hides' = Called(s)
  PROVE  PanelInv'
<1>1. /\ DOMAIN hides' = Sessions
      /\ \A t \in Sessions :
           hides[t].step \in {"hold", "leave"} => hides'[t] = hides[t]
  BY CallingKeepsHides DEF PanelInv
<1>. QED
  BY <1>1 DEF PanelInv, PanelFollowsSession, MayHide

(* The calls of workflows, keys and the panel, in any order. *)
LEMMA HudPageKeepsPanel ==
  ASSUME PanelInv, HudPage
  PROVE  PanelInv'
<1>1. live \in Sessions \cup {Nobody} /\ last \in Nat
  BY DEF PanelInv
<1>2. CASE StartRecording \/ LimitElapses \/ KeyMoves \/ HandleKey
  <2>1. UNCHANGED hudVars /\ live' \in {live, last + 1} /\ last' \in {last, last + 1}
    BY <1>2 DEF StartRecording, LimitElapses, KeyMoves, HandleKey
  <2>2. live' # live => last < MaxSessions
    BY <1>2 DEF StartRecording, LimitElapses, KeyMoves, HandleKey, MayStart
  <2>3. live' \in Sessions \cup {Nobody} /\ last' \in Nat
    BY <1>1, <2>1, <2>2, HudAssumption DEF Sessions
  <2>. QED
    BY <1>1, <2>1, <2>3, CallsKeepPanel DEF hudVars
<1>3. CASE FreeSlot
  BY <1>1, <1>3, CallsKeepPanel DEF FreeSlot
<1>4. CASE \E s \in Sessions : ShowPanel(s)
  BY <1>1, <1>4, ShowKeepsPanel
<1>5. CASE UpdatePanel \/ PanelCommand
  BY <1>1, <1>5, IntentsKeepPanel
<1>6. CASE \E s \in Sessions :
             /\ Hide(s) \/ EndHold(s) \/ EndLeave(s) \/ HideFails(s)
             /\ UNCHANGED callers
  BY <1>1, <1>6, HidesKeepPanel DEF callers
<1>. QED
  BY <1>2, <1>3, <1>4, <1>5, <1>6 DEF HudPage

(* The other pages leave the panel alone; an exit hides it, a death ends it. *)
LEMMA RestKeepsPanel ==
  ASSUME PanelInv, TakeOver \/ Boot \/ SettingsPage \/ WorkerPage \/ NoticePage
                   \/ BeginExit \/ EndExit \/ Die
  PROVE  PanelInv'
<1>. USE DEF hudVars, callers
<1>1. CASE TakeOver \/ Boot \/ SettingsPage \/ WorkerPage \/ NoticePage
           \/ EndExit
  <2>1. UNCHANGED <<hudVars, live, last>>
    BY <1>1 DEF TakeOver, Boot, SettingsPage, WorkerPage, NoticePage, EndExit
  <2>. QED
    BY <2>1, CallsKeepPanel DEF PanelInv
<1>2. CASE BeginExit
  BY <1>2, CallsKeepPanel DEF BeginExit, PanelInv
<1>3. CASE Die
  <2>1. /\ hud' = NoHud /\ generation' = 0 /\ window' = FALSE /\ marred' = FALSE
        /\ hides' = [s \in Sessions |-> NoHide]
        /\ live' = Nobody /\ last' = 0
    BY <1>3 DEF Die
  <2>2. /\ hud' \in [session : Sessions \cup {Nobody}, phase : Phases,
                     dispatched : {0, 1}, pending : Intents]
        /\ hud'.session = Nobody /\ hud'.dispatched = 0
    BY <2>1 DEF NoHud, NoIntent, Intents, Phases
  <2>. QED
    BY <2>1, <2>2 DEF PanelInv, PanelFollowsSession
<1>. QED
  BY <1>1, <1>2, <1>3

(* The panel on the screen belongs to the session that is recorded or just   *)
(* went, and a session is given one intent of its panel: show_state,         *)
(* update_state, hide_session and accept_runtime_intent in whatever order    *)
(* their calls come.                                                         *)
THEOREM PanelFollowsSessionHolds == Spec => []PanelFollowsSession
<1>1. Init => PanelInv
  <2>1. NoHud \in [session : Sessions \cup {Nobody}, phase : Phases,
                   dispatched : {0, 1}, pending : Intents]
        /\ NoHud.session = Nobody /\ NoHud.dispatched = 0
    BY DEF NoHud, NoIntent, Intents, Phases
  <2>. QED
    BY <2>1 DEF Init, HudInit, FeedbackInit, PanelInv, PanelFollowsSession
<1>2. PanelInv /\ [Next]_vars => PanelInv'
  <2>. SUFFICES ASSUME PanelInv, [Next]_vars PROVE PanelInv'
    OBVIOUS
  <2>1. CASE Next
    BY <2>1, HudPageKeepsPanel, RestKeepsPanel DEF Next
  <2>2. CASE UNCHANGED vars
    <3>1. UNCHANGED <<hudVars, live, last>>
      BY <2>2 DEF vars, callers
    <3>. QED
      BY <3>1, CallsKeepPanel DEF PanelInv, hudVars
  <2>. QED
    BY <2>1, <2>2
<1>3. PanelInv => PanelFollowsSession
  BY DEF PanelInv
<1>. QED
  BY <1>1, <1>2, <1>3, PTL DEF Spec

-----------------------------------------------------------------------------
(* The notice *)

(* A step of the notice's page keeps its history. *)
LEMMA NoticeStepKeepsNotice ==
  ASSUME NoticeInv, NoticePage
  PROVE  NoticeInv'
<1>1. CASE \E n \in Notices : Raise(n)
  <2>1. PICK n \in Notices : Raise(n)
    BY <1>1
  <2>2. \A m \in Notices :
          fate'[m] = IF m = n THEN "pending"
                     ELSE IF fate[m] = "pending" THEN "over" ELSE fate[m]
    BY <2>1 DEF Raise, Over
  <2>. QED
    BY <2>1, <2>2 DEF Raise, Over, NoticeInv
<1>2. CASE \E n \in Notices : Act(n)
  <2>1. PICK n \in Notices : Act(n)
    BY <1>2
  <2>2. CASE UNCHANGED feedbackVars
    BY <2>2 DEF NoticeInv, feedbackVars
  <2>3. CASE Acted(n) /\ notice' = NoNotice
    BY <2>1, <2>3, FeedbackAssumption DEF Act, Acted, NoticeInv
  <2>. QED
    BY <2>1, <2>2, <2>3 DEF Act
<1>3. CASE UserCloses
  BY <1>3, FeedbackAssumption DEF UserCloses, Over, NoticeInv
<1>4. CASE WindowGoes
  BY <1>4 DEF WindowGoes, NoticeInv
<1>. QED
  BY <1>1, <1>2, <1>3, <1>4 DEF NoticePage

(* However often a notice is raised, clicked, replaced and closed, and       *)
(* whatever becomes of its window: raise, apply_action and                   *)
(* clear_pending_after_user_close let it act once for each time it is        *)
(* raised, and not when it is no longer pending.                             *)
THEOREM NoticeActsOnceHolds == Spec => []NoticeActsOnce
<1>1. Init => NoticeInv
  BY FeedbackAssumption DEF Init, FeedbackInit, NoticeInv
<1>2. NoticeInv /\ [Next]_vars => NoticeInv'
  <2>. SUFFICES ASSUME NoticeInv, [Next]_vars PROVE NoticeInv'
    OBVIOUS
  <2>1. CASE NoticePage
    BY <2>1, NoticeStepKeepsNotice
  <2>2. CASE Die
    BY <2>2, FeedbackAssumption DEF Die, NoticeInv
  <2>3. CASE UNCHANGED feedbackVars
    BY <2>3 DEF feedbackVars, NoticeInv
  <2>4. \/ TakeOver \/ Boot \/ SettingsPage \/ WorkerPage \/ HudPage
        \/ BeginExit \/ EndExit \/ UNCHANGED vars
        => UNCHANGED feedbackVars
    BY DEF TakeOver, Boot, SettingsPage, WorkerPage, HudPage, BeginExit,
           EndExit, vars
  <2>. QED
    BY <2>1, <2>2, <2>3, <2>4 DEF Next
<1>3. NoticeInv => NoticeActsOnce
  BY DEF NoticeInv, NoticeActsOnce
<1>. QED
  BY <1>1, <1>2, <1>3, PTL DEF Spec

-----------------------------------------------------------------------------
(* The commands of the settings page *)

SettingsKept ==
  settings'.version = settings.version /\ settings'.value = settings.value

(* Reading the file may migrate it, which keeps what it says. *)
LEMMA LoadKeeps ==
  ASSUME NEW result, Load(result)
  PROVE  SettingsKept
  BY DEF Load, Migrated, Commit, SettingsKept

(* No command is one that keeps all its promises. *)
LEMMA NoOpIsOne ==
  /\ \A c \in Controllers : OpTypeOK(NoOp, Names(c))
  /\ NoOp.name = "none" /\ NoOp.step = "none" /\ NoOp.version = 0
  /\ ~Working(NoOp) /\ ~Writing(NoOp)
<1>1. Default \in Choices
  BY SettingsAssumption, ChoicesAssumption
<1>2. /\ NoOp.name = "none" /\ NoOp.step = "none" /\ NoOp.version = 0
      /\ NoOp \in Ops
  BY <1>1 DEF NoOp, Ops, OpNames, OpSteps
<1>. QED
  BY <1>1, <1>2 DEF OpTypeOK, StepsOf, Working, Writing

(* What a step of controller c may make of its command.                      *)
Allowed(c, op) ==
  /\ OpTypeOK(op, Names(c))
  /\ c \in Versioned =>
       /\ op.version <= settings.version
       /\ op.step = "gate" /\ op.version = settings.version => About(op)
  /\ Writing(op) => About(op)
  /\ c = "recording" =>
       /\ op.step \in {"bind", "store"} => op.from = Value.shortcut
       /\ op.step = "undo" /\ ~astray' => op.from = Value.shortcut
       /\ ~astray' => registered' = {FiredUnder(op)} \ {NoShortcut}
  /\ c # "recording" => UNCHANGED registered
  /\ c = "model" /\ op.step = "store" => health'[op.to.engine] = "healthy"
  /\ Working(op) => gate' = c /\ session.step \notin {"loading", "active"}
  /\ op = NoOp \/ ops[c] # NoOp \/ (c \in Barred => ~quitting)

(* A step of a controller that leaves the settings alone.                    *)
LEMMA CommandStep ==
  ASSUME PreferencesInv, run = "up",
         NEW c \in Controllers, NEW op, ops' = [ops EXCEPT ![c] = op],
         Allowed(c, op), SettingsKept,
         UNCHANGED <<session, quitting, run, exit>>,
         c # "model" => UNCHANGED health,
         DOMAIN health' = Engines,
         astray => astray', sink' \in {sink, Value.diagnostics},
         gate' = gate \/ (gate \in {c, "free"} /\ gate' \in {c, "free"})
  PROVE  PreferencesInv'
<1>. USE DEF PreferencesInv
<1>1. /\ ops'[c] = op /\ DOMAIN ops' = Controllers
      /\ \A d \in Controllers : d # c => ops'[d] = ops[d]
  BY DEF CommandTypeOK
<1>2. CommandTypeOK'
  BY <1>1 DEF CommandTypeOK, Allowed, SettingsKept, Value
<1>3. RequestInv'
  BY <1>1 DEF RequestInv, Allowed, SettingsKept, Value, About, At, Versioned,
              Controllers
<1>4. GateInv'
  BY <1>1 DEF GateInv, Allowed, Working, Controllers
<1>5. ChoicesInv'
  <2>1. \A d \in Controllers : (Writing(ops[d]) => About(ops[d]))'
    BY <1>1 DEF ChoicesInv, Allowed, SettingsKept, Value, About, Writing
  <2>2. Undoes(ops["recording"])' /\ FoundHealthy(ops["model"])'
    BY <1>1 DEF ChoicesInv, Allowed, SettingsKept, Value, Undoes, FoundHealthy,
                Controllers
  <2>. QED
    BY <2>1, <2>2 DEF ChoicesInv, SettingsKept, Value, Writing, About
<1>6. EffectsInv'
  BY <1>1 DEF EffectsInv, Allowed, SettingsKept, Value, FiredUnder, Controllers
<1>7. StillInv'
  BY <1>1 DEF StillInv, Allowed, Barred, Controllers
<1>. QED
  BY <1>2, <1>3, <1>4, <1>5, <1>6, <1>7

(* A command ends, and lets go of the gate. *)
LEMMA ReplyStep ==
  ASSUME PreferencesInv, run = "up", NEW c \in Controllers, Reply(c),
         SettingsKept, UNCHANGED <<session, quitting, run, exit>>,
         c # "model" => UNCHANGED health, DOMAIN health' = Engines,
         astray => astray', sink' \in {sink, Value.diagnostics},
         c # "recording" => UNCHANGED registered,
         c = "recording" /\ ~astray' =>
           registered' = {Value.shortcut} \ {NoShortcut}
  PROVE  PreferencesInv'
<1>1. ops' = [ops EXCEPT ![c] = NoOp] /\ gate' \in {gate, "free"}
      /\ (gate' = gate \/ gate = c)
  BY DEF Reply
<1>2. Allowed(c, NoOp)
  BY NoOpIsOne DEF Allowed, PreferencesInv, CommandTypeOK, FiredUnder
<1>. QED
  BY <1>1, <1>2, CommandStep

(* A step that leaves the commands and what they are about alone.            *)
LEMMA QuietStep ==
  ASSUME PreferencesInv, SettingsKept,
         UNCHANGED <<ops, gate, session, registered, sink, astray, run, exit,
                     quitting>>,
         UNCHANGED health \/ ops["model"].step # "store",
         DOMAIN health' = Engines
  PROVE  PreferencesInv'
<1>. USE DEF PreferencesInv
<1>1. CommandTypeOK' /\ RequestInv'
  BY DEF CommandTypeOK, RequestInv, SettingsKept, Value, About, At,
         Versioned, Controllers
<1>2. GateInv' /\ StillInv'
  BY DEF GateInv, StillInv, Working
<1>3. ChoicesInv'
  BY DEF ChoicesInv, SettingsKept, Value, About, Writing, Undoes, FoundHealthy
<1>4. EffectsInv'
  BY DEF EffectsInv, SettingsKept, Value, FiredUnder
<1>. QED
  BY <1>1, <1>2, <1>3, <1>4

(* What is left alone while the settings page and its commands work.         *)
Still == UNCHANGED <<session, quitting, run, exit>>

(* A change of one choice is about nothing else. *)
LEMMA ChangesOfOneChoice ==
  ASSUME CommandTypeOK
  PROVE  /\ \A m \in {"toggle", "pushToTalk"} :
              LET v == [Value EXCEPT !.mode = m] IN
              /\ v \in Choices /\ v.shortcut = Value.shortcut
              /\ v.diagnostics = Value.diagnostics /\ v.engine = Value.engine
         /\ \A s \in Shortcuts \cup {NoShortcut} :
              LET v == [Value EXCEPT !.shortcut = s] IN
              /\ v \in Choices /\ v.shortcut = s
              /\ v.diagnostics = Value.diagnostics /\ v.engine = Value.engine
         /\ \A on \in BOOLEAN :
              LET v == [Value EXCEPT !.autoCopy = on] IN
              /\ v \in Choices /\ v.shortcut = Value.shortcut
              /\ v.diagnostics = Value.diagnostics /\ v.engine = Value.engine
         /\ \A on \in BOOLEAN :
              LET v == [Value EXCEPT !.diagnostics = on] IN
              /\ v \in Choices /\ v.shortcut = Value.shortcut
              /\ v.engine = Value.engine
         /\ \A on \in BOOLEAN :
              LET v == [Value EXCEPT !.enabled = on] IN
              /\ v \in Choices /\ v.shortcut = Value.shortcut
              /\ v.diagnostics = Value.diagnostics /\ v.engine = Value.engine
         /\ \A n \in Limits :
              LET v == [Value EXCEPT !.limit = n] IN
              /\ v \in Choices /\ v.shortcut = Value.shortcut
              /\ v.diagnostics = Value.diagnostics /\ v.engine = Value.engine
         /\ \A d \in Days \cup {Forever} :
              LET v == [Value EXCEPT !.days = d] IN
              /\ v \in Choices /\ v.shortcut = Value.shortcut
              /\ v.diagnostics = Value.diagnostics /\ v.engine = Value.engine
         /\ \A e \in Engines :
              LET v == [Value EXCEPT !.engine = e] IN
              /\ v \in Choices /\ v.shortcut = Value.shortcut
              /\ v.diagnostics = Value.diagnostics /\ v.engine = e
  BY DEF CommandTypeOK, Choices

(* A command that is submitted changes one choice of what the page saw.      *)
LEMMA SubmitStep ==
  ASSUME PreferencesInv, run = "up", Still,
         NEW c \in Controllers, NEW name \in Names(c), NEW to \in Choices,
         NEW ack \in BOOLEAN, Submit(c, name, to, ack),
         c \in Versioned =>
           /\ name # "shortcut" => to.shortcut = Value.shortcut
           /\ name # "diagnostics" => to.diagnostics = Value.diagnostics
           /\ to.engine = Value.engine
  PROVE  PreferencesInv'
<1>. DEFINE op == [NoOp EXCEPT !.name = name, !.to = to, !.ack = ack,
                     !.version = IF c \in {"history", "model"}
                                 THEN 0 ELSE settings.version,
                     !.step = IF name = "list" THEN "load" ELSE "gate"]
<1>1. /\ ops' = [ops EXCEPT ![c] = op] /\ (c \in Barred => ~quitting)
      /\ UNCHANGED <<settings, registered, health, gate, sink, astray>>
      /\ ops[c] = NoOp
  BY DEF Submit, runtimeVars
<1>2. /\ op.name = name /\ op.to = to
      /\ op.version = IF c \in {"history", "model"} THEN 0 ELSE settings.version
      /\ op.step = IF name = "list" THEN "load" ELSE "gate"
      /\ settings.version \in Nat => op \in Ops
  <2>1. NoOp \in Ops /\ name \in OpNames
    BY NoOpIsOne DEF OpTypeOK, Names, Controllers, OpNames
  <2>. QED
    BY <2>1 DEF Ops, OpSteps
<1>. HIDE DEF op
<1>3. settings.version \in Nat /\ DOMAIN health = Engines
  BY DEF PreferencesInv, CommandTypeOK
<1>4. OpTypeOK(op, Names(c)) /\ ~Working(op) /\ ~Writing(op)
  BY <1>2, <1>3 DEF OpTypeOK, Names, StepsOf, Working, Writing, Controllers
<1>5. c \in Versioned =>
        op.version = settings.version /\ About(op) /\ op.step = "gate"
  BY <1>2 DEF Versioned, Names, About
<1>6. c = "recording" /\ ~astray =>
        registered = {Value.shortcut} \ {NoShortcut}
  BY <1>1, NoOpIsOne DEF PreferencesInv, EffectsInv, FiredUnder
<1>7. FiredUnder(op) = Value.shortcut
  BY <1>2 DEF FiredUnder
<1>8. Allowed(c, op)
  BY <1>1, <1>2, <1>3, <1>4, <1>5, <1>6, <1>7 DEF Allowed, Versioned
<1>. QED
  BY <1>1, <1>3, <1>8, CommandStep DEF Still, SettingsKept

(* Every command that the user may give. *)
LEMMA CommandsKeepPreferences ==
  ASSUME PreferencesInv, Commands, Still, run = "up"
  PROVE  PreferencesInv'
<1>1. CommandTypeOK /\ Default \in Choices
  BY SettingsAssumption, ChoicesAssumption DEF PreferencesInv
<1>2. \A e \in Engines : [Default EXCEPT !.engine = e] \in Choices
  BY <1>1 DEF Choices
<1>3. Value \in Choices
  BY <1>1 DEF CommandTypeOK
<1>4. CASE \/ \E on \in BOOLEAN : SetHistoryEnabled(on)
           \/ \E n \in Limits, ack \in BOOLEAN : SetHistoryLimit(n, ack)
           \/ \E d \in Days \cup {Forever}, ack \in BOOLEAN :
                SetHistoryRetention(d, ack)
  BY <1>1, <1>4, ChangesOfOneChoice, SubmitStep
     DEF SetHistoryEnabled, SetHistoryLimit, SetHistoryRetention, Names,
         Controllers
<1>5. CASE ListHistory \/ CopyRecord \/ ClearHistory
  BY <1>1, <1>5, SubmitStep
     DEF ListHistory, CopyRecord, ClearHistory, Names, Controllers, Versioned
<1>6. CASE \E s \in Shortcuts \cup {NoShortcut} : SetRecordingShortcut(s)
  BY <1>1, <1>6, ChangesOfOneChoice, SubmitStep
     DEF SetRecordingShortcut, Names, Controllers
<1>7. CASE \E m \in {"toggle", "pushToTalk"} : SetRecordingPreferences(m)
  BY <1>1, <1>7, ChangesOfOneChoice, SubmitStep
     DEF SetRecordingPreferences, Names, Controllers
<1>8. CASE \E on \in BOOLEAN : SetAutoCopy(on) \/ SetLocalDiagnostics(on)
  BY <1>1, <1>8, ChangesOfOneChoice, SubmitStep
     DEF SetAutoCopy, SetLocalDiagnostics, Names, Controllers
<1>9. CASE CheckModel \/ \E e \in Engines : SwitchEngine(e)
  BY <1>1, <1>2, <1>9, SubmitStep
     DEF CheckModel, SwitchEngine, Names, Controllers, Versioned
<1>. QED
  BY <1>4, <1>5, <1>6, <1>7, <1>8, <1>9 DEF Commands

(* What fires and what the file says, where no command on the shortcut is    *)
(* past its binding.                                                         *)
LEMMA FiredWhileWaiting ==
  ASSUME PreferencesInv, run = "up", ~astray
  PROVE  /\ sink = Value.diagnostics
         /\ registered = {FiredUnder(ops["recording"])} \ {NoShortcut}
         /\ ops["recording"].step \notin {"store", "undo"} =>
              registered = {Value.shortcut} \ {NoShortcut}
  BY DEF PreferencesInv, EffectsInv, FiredUnder

(* What becomes of the shortcut that fires.                                  *)
LEMMA Rebinds ==
  ASSUME NEW old \in Shortcuts \cup {NoShortcut},
         NEW next \in Shortcuts \cup {NoShortcut}, NEW result,
         registered = {old} \ {NoShortcut}, Rebind(old, next, result)
  PROVE  /\ result = "ok" => registered' = {next} \ {NoShortcut}
         /\ old = next => registered' = {next} \ {NoShortcut}
<1>1. PICK r \in Rebinding(old, next) :
        result = r.result /\ registered' = r.set
  BY DEF Rebind
<1>2. CASE next = NoShortcut /\ old = NoShortcut
  BY <1>1, <1>2 DEF Rebinding
<1>3. CASE Direct(old, next) /\ old # NoShortcut
  <2>1. next # NoShortcut /\ Registered(next, registered) = {next}
    BY <1>3, ShortcutAssumption
       DEF Direct, Registered, Monitored, Shortcuts
  <2>2. \/ r.set = {next}
        \/ next \notin registered /\ r.result = "failed"
    BY <1>1, <1>3, <2>1 DEF Rebinding
  <2>. QED
    BY <1>1, <1>3, <2>1, <2>2
<1>4. CASE ~Direct(old, next)
  <2>. DEFINE without == IF old = NoShortcut THEN registered
                         ELSE Unregistered(old, registered)
  <2>1. without = {}
    BY DEF Unregistered
  <2>2. Registered(next, {}) = {next}
    BY DEF Registered, Monitored
  <2>3. r.result = "ok" =>
          r.set = IF next = NoShortcut THEN without
                  ELSE Registered(next, without)
    BY <1>1, <1>4 DEF Rebinding, Direct
  <2>. QED
    BY <1>1, <1>4, <2>1, <2>2, <2>3 DEF Direct
<1>. QED
  BY <1>2, <1>3, <1>4, ShortcutAssumption DEF Direct

(* A command that is admitted gets the gate and sets out to do what it is    *)
(* about.                                                                    *)
LEMMA AdmittedStep ==
  ASSUME PreferencesInv, run = "up", Still, NEW c \in Controllers,
         At(c, "gate"), gate = "free", ~Refused(c), Admitted(c), SettingsKept,
         UNCHANGED <<health, astray>>, ops[c].name # "copy",
         c \in Versioned => ops[c].version = settings.version
  PROVE  PreferencesInv'
<1>. DEFINE op == ops[c]
            from == IF c = "model" THEN Value.engine ELSE Value.shortcut
            to == IF op.name = "check" THEN Value
                  ELSE IF op.name = "switch"
                       THEN [Value EXCEPT !.engine = op.to.engine] ELSE op.to
            new == [op EXCEPT !.from = from, !.to = to,
                      !.version = settings.version, !.step = FirstStep(op)]
<1>1. gate' = c /\ ops' = [ops EXCEPT ![c] = new]
      /\ UNCHANGED <<registered, sink>>
  BY DEF Admitted
<1>2. OpTypeOK(op, Names(c)) /\ CommandTypeOK /\ op.step = "gate"
  BY DEF PreferencesInv, CommandTypeOK, At
<1>3. op.name \in Names(c) /\ op # NoOp
  BY <1>2, NoOpIsOne DEF OpTypeOK
<1>4. to \in Choices
  <2>1. op.to \in Choices /\ op.to.engine \in Engines /\ Value \in Choices
    BY <1>2 DEF OpTypeOK, CommandTypeOK, Choices, Ops
  <2>. QED
    BY <1>2, <2>1, ChangesOfOneChoice
<1>5. c \in Versioned => op.name \notin {"check", "switch"} /\ About(op)
  BY <1>2, <1>3 DEF PreferencesInv, RequestInv, Names, Versioned
<1>. HIDE DEF to
<1>6. /\ to.shortcut = Value.shortcut \/ c \notin {"system", "policy", "model"}
                                      \/ op.name = "shortcut"
      /\ c \in Versioned => to = op.to
      /\ c = "model" => /\ to.shortcut = Value.shortcut
                        /\ to.diagnostics = Value.diagnostics
                        /\ op.name # "switch" => to.engine = Value.engine
  <2>1. CASE c = "model"
    <3>1. op.name \in {"check", "switch"} /\ op.to.engine \in Engines
      BY <1>2, <1>3, <2>1 DEF Names, OpTypeOK, Choices, Ops
    <3>2. CASE op.name = "check"
      BY <2>1, <3>2 DEF to, Versioned
    <3>3. CASE op.name = "switch"
      <4>. DEFINE e == op.to.engine
      <4>1. to = [Value EXCEPT !.engine = e]
        BY <3>3 DEF to
      <4>. HIDE DEF e
      <4>2. e \in Engines
        BY <3>1 DEF e
      <4>. QED
        BY <1>2, <2>1, <3>3, <4>1, <4>2, ChangesOfOneChoice DEF Versioned
    <3>. QED
      BY <3>1, <3>2, <3>3
  <2>2. CASE c # "model"
    BY <1>3, <1>5, <2>2 DEF to, About, Versioned, Names, Controllers
  <2>. QED
    BY <2>1, <2>2
<1>7. /\ new.name = op.name /\ new.to = to /\ new.from = from
      /\ new.version = settings.version /\ new.step = FirstStep(op)
      /\ new \in Ops
  <2>1. op \in Ops /\ FirstStep(op) \in OpSteps /\ settings.version \in Nat
        /\ from \in Shortcuts \cup {NoShortcut} \cup Engines
    BY <1>2 DEF OpTypeOK, FirstStep, CommandTypeOK, Choices, OpSteps
  <2>. HIDE DEF from, op
  <2>. QED
    BY <1>4, <2>1 DEF Ops
<1>. HIDE DEF new, from
<1>8. OpTypeOK(new, Names(c))
  BY <1>2, <1>3, <1>7 DEF OpTypeOK, FirstStep, StepsOf, Names, Controllers
<1>9. Writing(new) => About(new)
  <2>1. CASE c \in Versioned
    BY <1>5, <1>6, <1>7, <2>1 DEF About
  <2>2. CASE c = "model"
    BY <1>3, <1>6, <1>7, <2>2 DEF About, Names
  <2>3. CASE c = "history"
    <3>1. op.name \in {"list", "copy", "clear"} /\ op.step # "load"
      BY <1>2, <1>3, <2>3 DEF Names
    <3>2. op.name # "list"
      BY <1>2 DEF OpTypeOK, StepsOf
    <3>. QED
      BY <1>7, <3>1, <3>2 DEF Writing, FirstStep
  <2>. QED
    BY <2>1, <2>2, <2>3 DEF Controllers, Versioned
<1>10. c = "recording" =>
         /\ new.from = Value.shortcut
         /\ ~astray' => registered' = {FiredUnder(new)} \ {NoShortcut}
  <2>. SUFFICES ASSUME c = "recording"
                PROVE  /\ from = Value.shortcut
                       /\ ~astray' => registered' = {FiredUnder(new)} \ {NoShortcut}
    BY <1>7
  <2>1. FiredUnder(new) = Value.shortcut
    BY <1>3, <1>7 DEF FiredUnder, FirstStep
  <2>2. ~astray => registered = {Value.shortcut} \ {NoShortcut}
    BY <1>2, FiredWhileWaiting
  <2>. QED
    BY <1>1, <2>1, <2>2 DEF from
<1>11. Allowed(c, new)
  <2>1. session.step \notin {"loading", "active"}
    BY DEF Refused, ActiveWork
  <2>2. new.step # "gate" /\ ~(c = "model" /\ new.step = "store") /\ new.step # "undo"
    BY <1>3, <1>7 DEF FirstStep, Names, Controllers
  <2>3. settings.version \in Nat
    BY <1>2 DEF CommandTypeOK
  <2>. QED
    BY <1>1, <1>3, <1>7, <1>8, <1>9, <1>10, <2>1, <2>2, <2>3 DEF Allowed
<1>. QED
  BY <1>1, <1>2, <1>11, CommandStep DEF Still, CommandTypeOK

(* What a waiting command turns into: an answer, or a command at work.       *)
LEMMA AdmitStep ==
  ASSUME PreferencesInv, run = "up", Still, NEW c \in Controllers, Admit(c)
  PROVE  PreferencesInv'
<1>1. /\ At(c, "gate") /\ gate = "free"
      /\ UNCHANGED <<health, astray>> /\ DOMAIN health = Engines
      /\ OpTypeOK(ops[c], Names(c))
  BY DEF Admit, runtimeVars, PreferencesInv, CommandTypeOK
<1>2. ~astray => /\ c = "recording" =>
                      registered = {Value.shortcut} \ {NoShortcut}
                 /\ sink = Value.diagnostics
  BY <1>1, FiredWhileWaiting DEF At
<1>3. CASE Reply(c) /\ SettingsKept /\ UNCHANGED <<registered, sink>>
  BY <1>1, <1>2, <1>3, ReplyStep DEF Still
<1>4. CASE /\ SettingsKept /\ ~Refused(c) /\ ops[c].name # "copy"
           /\ c \in Versioned => ops[c].version = settings.version
           /\ Admitted(c)
  BY <1>1, <1>4, AdmittedStep
<1>5. CASE /\ SettingsKept /\ c # "model" /\ Unchanged(c)
           /\ ops[c].name # "clear"
  <2>1. Reply(c) /\ sink' \in {sink, Value.diagnostics}
    BY <1>5 DEF Unchanged
  <2>2. CASE ops[c].name = "shortcut"
    <3>1. c = "recording"
      BY <1>1, <2>2, NoOpIsOne DEF OpTypeOK, Names, Controllers
    <3>2. PICK result \in {"ok", "failed"} :
            Rebind(Value.shortcut, Value.shortcut, result)
      BY <1>5, <2>2 DEF Unchanged
    <3>3. Value.shortcut \in Shortcuts \cup {NoShortcut}
      BY DEF PreferencesInv, CommandTypeOK, Choices
    <3>4. ~astray => registered' = {Value.shortcut} \ {NoShortcut}
      BY <1>2, <3>1, <3>2, <3>3, Rebinds
    <3>. QED
      BY <1>1, <1>5, <2>1, <3>1, <3>4, ReplyStep DEF Still
  <2>3. CASE ops[c].name # "shortcut"
    <3>1. UNCHANGED registered
      BY <1>5, <2>3 DEF Unchanged
    <3>. QED
      BY <1>1, <1>2, <1>5, <2>1, <3>1, ReplyStep DEF Still
  <2>. QED
    BY <2>2, <2>3
<1>6. UNCHANGED settings => SettingsKept
  BY DEF SettingsKept
<1>7. CASE Refused(c) \/ ops[c].name = "copy"
  BY <1>3, <1>6, <1>7 DEF Admit
<1>8. CASE ~Refused(c) /\ ops[c].name = "clear"
  <2>1. c \notin Versioned
    BY <1>1, <1>8, NoOpIsOne DEF OpTypeOK, Names, Versioned
  <2>. QED
    BY <1>4, <1>6, <1>8, <2>1 DEF Admit
<1>9. CASE ~Refused(c) /\ ops[c].name \notin {"copy", "clear"}
  <2>1. CASE Load("failed") /\ Reply(c) /\ UNCHANGED <<registered, sink>>
    BY <1>3, <2>1, LoadKeeps
  <2>2. CASE Load("ok") /\ c # "model" /\ ops[c].version # settings.version
    BY <1>3, <1>9, <2>1, <2>2, LoadKeeps DEF Admit
  <2>3. CASE /\ Load("ok")
             /\ ~(c # "model" /\ ops[c].version # settings.version)
    <3>1. SettingsKept
      BY <2>3, LoadKeeps
    <3>2. c \in Versioned => ops[c].version = settings.version
      BY <2>3 DEF Versioned
    <3>3. \/ Load("failed") /\ Reply(c) /\ UNCHANGED <<registered, sink>>
          \/ c # "model" /\ Unchanged(c)
          \/ Admitted(c)
      BY <1>9, <2>3 DEF Admit
    <3>. QED
      BY <1>4, <1>5, <1>9, <2>1, <3>1, <3>2, <3>3
  <2>. QED
    BY <1>9, <2>1, <2>2, <2>3 DEF Admit
<1>. QED
  BY <1>7, <1>8, <1>9

(* A command at work keeps sessions and other commands away.                 *)
LEMMA AtWorkAlone ==
  ASSUME PreferencesInv, NEW c \in Controllers, Working(ops[c])
  PROVE  /\ gate = c /\ session.step \notin {"loading", "active"}
         /\ ops[c] # NoOp
         /\ \A d \in Controllers : Working(ops[d]) => d = c
  BY NoOpIsOne DEF PreferencesInv, GateInv, Controllers

(* A command goes on to a step of its own.                                   *)
LEMMA ThenStep ==
  ASSUME PreferencesInv, run = "up", Still, SettingsKept,
         NEW c \in Controllers, Working(ops[c]),
         NEW new, ops' = [ops EXCEPT ![c] = new], new \in Ops,
         new.name = ops[c].name, new.to = ops[c].to, new.from = ops[c].from,
         new.version = ops[c].version,
         new.step \in StepsOf(new.name) \ {"none", "gate", "load"},
         Writing(new) => Writing(ops[c]), gate' = gate,
         c # "model" => UNCHANGED health, DOMAIN health' = Engines,
         astray => astray', UNCHANGED sink,
         c # "recording" => UNCHANGED registered,
         c = "recording" =>
           /\ ~astray' => registered' = {FiredUnder(new)} \ {NoShortcut}
           /\ new.step # "bind"
           /\ ops[c].step \in {"bind", "store"},
         c = "model" /\ new.step = "store" => health'[new.to.engine] = "healthy"
  PROVE  PreferencesInv'
<1>1. /\ OpTypeOK(ops[c], Names(c)) /\ ops[c] # NoOp /\ gate = c
      /\ session.step \notin {"loading", "active"}
  BY AtWorkAlone DEF PreferencesInv, CommandTypeOK
<1>2. OpTypeOK(new, Names(c))
  BY <1>1 DEF OpTypeOK
<1>3. Writing(new) => About(new)
  BY DEF PreferencesInv, ChoicesInv, About
<1>4. c \in Versioned => new.version <= settings.version
  BY DEF PreferencesInv, RequestInv
<1>5. c = "recording" => new.from = Value.shortcut
  BY DEF PreferencesInv, ChoicesInv, Undoes
<1>6. Allowed(c, new)
  BY <1>1, <1>2, <1>3, <1>4, <1>5 DEF Allowed
<1>. QED
  BY <1>6, CommandStep DEF Still

(* What the steps of a command at work have in common.                       *)
LEMMA WorkingOps ==
  ASSUME PreferencesInv, NEW c \in Controllers
  PROVE  /\ OpTypeOK(ops[c], Names(c)) /\ ops[c] \in Ops
         /\ DOMAIN health = Engines
         /\ ops[c].to.engine \in Engines
         /\ ops[c].to.shortcut \in Shortcuts \cup {NoShortcut}
         /\ ops[c].step \notin {"none", "gate", "load", "enforce"} => Working(ops[c])
<1>1. /\ OpTypeOK(ops[c], Names(c)) /\ ops[c] \in Ops
      /\ DOMAIN health = Engines
  BY DEF PreferencesInv, CommandTypeOK, OpTypeOK
<1>2. ops[c].to \in Choices
  BY <1>1 DEF Ops
<1>3. /\ ops[c].to.engine \in Engines
      /\ ops[c].to.shortcut \in Shortcuts \cup {NoShortcut}
  BY <1>2 DEF Choices
<1>4. ops[c].name = "list" => ops[c].step \in {"load", "enforce"}
  BY <1>1 DEF OpTypeOK, StepsOf
<1>. QED
  BY <1>1, <1>3, <1>4 DEF Working

(* The policy counts what it would remove, and goes on if the user agreed.   *)
LEMMA CountStep ==
  ASSUME PreferencesInv, run = "up", Still, Count("policy"),
         IsFiniteSet(records)
  PROVE  PreferencesInv'
<1>. DEFINE c == "policy"
<1>1. /\ c \in Controllers /\ ops[c].step = "count" /\ SettingsKept
      /\ UNCHANGED <<registered, health, sink, astray>>
  BY DEF Count, At, runtimeVars, SettingsKept, Controllers
<1>2. /\ OpTypeOK(ops[c], Names(c)) /\ Working(ops[c]) /\ ops[c] \in Ops
      /\ DOMAIN health = Engines
  BY <1>1, WorkingOps
<1>3. CASE Reply(c)
  BY <1>1, <1>2, <1>3, ReplyStep DEF Still
<1>4. CASE /\ ops' = [ops EXCEPT ![c].step = "store", ![c].trim = Trims(ops[c])]
           /\ UNCHANGED gate
  <2>. DEFINE trim == Trims(ops[c])
              new == [ops[c] EXCEPT !.step = "store", !.trim = trim]
  <2>1. trim \in BOOLEAN
    <3>1. Cardinality(records) \in Nat /\ ops[c].to.limit \in Nat
      BY <1>2, FS_CardinalityType, HistoryAssumption DEF Ops, Choices
    <3>2. (Cardinality(records) > ops[c].to.limit) \in BOOLEAN
      BY <3>1
    <3>3. (Expired(ops[c].to.days, records) # {}) \in BOOLEAN
      BY Zenon
    <3>. QED
      BY <3>2, <3>3, Zenon DEF Trims
  <2>2. ops' = [ops EXCEPT ![c] = new]
    BY <1>1, <1>4 DEF PreferencesInv, CommandTypeOK
  <2>. HIDE DEF trim
  <2>3. /\ new \in Ops /\ new.name = ops[c].name /\ new.to = ops[c].to
        /\ new.from = ops[c].from /\ new.version = ops[c].version
        /\ new.step = "store"
    BY <1>2, <2>1 DEF Ops, OpSteps
  <2>4. new.name \in {"limit", "retention"}
    BY <1>1, <1>2, <2>3 DEF OpTypeOK, StepsOf, OpNames, Ops
  <2>. HIDE DEF new
  <2>. QED
    BY <1>1, <1>2, <1>4, <2>2, <2>3, <2>4, ThenStep DEF StepsOf, Writing
<1>. QED
  BY <1>3, <1>4 DEF Count

(* A command of controller c that goes on to a step of its own, by Then.     *)
LEMMA Thens ==
  ASSUME PreferencesInv, NEW c \in Controllers, NEW step_ \in OpSteps,
         Then(c, step_)
  PROVE  LET new == [ops[c] EXCEPT !.step = step_] IN
         /\ ops' = [ops EXCEPT ![c] = new] /\ new \in Ops
         /\ new.name = ops[c].name /\ new.to = ops[c].to
         /\ new.from = ops[c].from /\ new.version = ops[c].version
         /\ new.step = step_ /\ gate' = gate
<1>1. ops[c] \in Ops /\ DOMAIN ops = Controllers
  BY WorkingOps DEF PreferencesInv, CommandTypeOK
<1>. QED
  BY <1>1 DEF Then, Ops

(* The new shortcut is bound before it is stored; what fails is said.        *)
LEMMA BindStep ==
  ASSUME PreferencesInv, run = "up", Still, Bind("recording")
  PROVE  PreferencesInv'
<1>. DEFINE c == "recording"
<1>1. /\ c \in Controllers /\ ops[c].step = "bind" /\ SettingsKept
      /\ UNCHANGED <<health, sink>>
  BY DEF Bind, At, runtimeVars, SettingsKept, Controllers
<1>2. /\ OpTypeOK(ops[c], Names(c)) /\ Working(ops[c]) /\ ops[c] \in Ops
      /\ DOMAIN health = Engines
      /\ ops[c].to.shortcut \in Shortcuts \cup {NoShortcut}
  BY <1>1, WorkingOps
<1>3. /\ ops[c].name = "shortcut" /\ ops[c].from = Value.shortcut
      /\ Value.shortcut \in Shortcuts \cup {NoShortcut}
  BY <1>1, <1>2 DEF OpTypeOK, StepsOf, OpNames, Ops, PreferencesInv, ChoicesInv,
                    Undoes, CommandTypeOK, Choices
<1>4. ~astray => registered = {Value.shortcut} \ {NoShortcut}
  BY <1>1, FiredWhileWaiting
<1>5. CASE /\ Rebind(ops[c].from, ops[c].to.shortcut, "ok")
           /\ Then(c, "store") /\ UNCHANGED astray
  <2>. DEFINE new == [ops[c] EXCEPT !.step = "store"]
  <2>1. /\ ops' = [ops EXCEPT ![c] = new] /\ new \in Ops
        /\ new.name = ops[c].name /\ new.to = ops[c].to
        /\ new.from = ops[c].from /\ new.version = ops[c].version
        /\ new.step = "store" /\ gate' = gate
    BY <1>1, <1>5, Thens DEF OpSteps
  <2>2. ~astray => registered' = {ops[c].to.shortcut} \ {NoShortcut}
    BY <1>2, <1>3, <1>4, <1>5, Rebinds
  <2>. HIDE DEF new
  <2>3. ~astray => registered' = {FiredUnder(new)} \ {NoShortcut}
    BY <1>3, <2>1, <2>2 DEF FiredUnder
  <2>. QED
    BY <1>1, <1>2, <1>3, <1>5, <2>1, <2>3, ThenStep DEF StepsOf, Writing
<1>6. CASE /\ Rebind(ops[c].from, ops[c].to.shortcut, "failed") /\ Reply(c)
           /\ astray' = (astray \/ registered' # registered)
  BY <1>1, <1>2, <1>4, <1>6, ReplyStep DEF Still
<1>. QED
  BY <1>5, <1>6 DEF Bind

(* The old shortcut comes back, or the code says that it does not.           *)
LEMMA UndoStep ==
  ASSUME PreferencesInv, run = "up", Still, Undo("recording")
  PROVE  PreferencesInv'
<1>. DEFINE c == "recording"
<1>1. /\ c \in Controllers /\ ops[c].step = "undo" /\ SettingsKept /\ Reply(c)
      /\ UNCHANGED <<health, sink>>
  BY DEF Undo, At, runtimeVars, SettingsKept, Controllers
<1>2. /\ OpTypeOK(ops[c], Names(c)) /\ ops[c] \in Ops
      /\ DOMAIN health = Engines
      /\ ops[c].to.shortcut \in Shortcuts \cup {NoShortcut}
  BY <1>1, WorkingOps
<1>3. PICK result \in {"ok", "failed"} :
        /\ Rebind(ops[c].to.shortcut, ops[c].from, result)
        /\ astray' = (astray \/ result = "failed")
  BY DEF Undo
<1>4. ASSUME ~astray' PROVE registered' = {Value.shortcut} \ {NoShortcut}
  <2>1. result = "ok" /\ ~astray
    BY <1>3, <1>4
  <2>2. ops[c].name = "shortcut"
    BY <1>1, <1>2 DEF OpTypeOK, StepsOf, OpNames, Ops
  <2>3. registered = {ops[c].to.shortcut} \ {NoShortcut}
    BY <1>1, <2>1, <2>2, FiredWhileWaiting DEF FiredUnder
  <2>4. ops[c].from = Value.shortcut
    BY <1>1, <2>1 DEF PreferencesInv, ChoicesInv, Undoes
  <2>5. Value.shortcut \in Shortcuts \cup {NoShortcut}
    BY DEF PreferencesInv, CommandTypeOK, Choices
  <2>. QED
    BY <1>2, <1>3, <2>1, <2>3, <2>4, <2>5, Rebinds
<1>. QED
  BY <1>1, <1>2, <1>3, <1>4, ReplyStep DEF Still

(* Steps that only answer. *)
LEMMA AnswerStep ==
  ASSUME PreferencesInv, run = "up", Still, NEW c \in Controllers \ {"recording"},
         Reply(c), UNCHANGED <<settings, registered, sink, astray>>,
         c # "model" => UNCHANGED health, DOMAIN health' = Engines
  PROVE  PreferencesInv'
  BY ReplyStep DEF Still, SettingsKept

(* The commands on the history leave the settings alone.                     *)
LEMMA HistorySteps ==
  ASSUME PreferencesInv, run = "up", Still,
         \/ \E c \in {"policy", "history"} : EnforcePolicy(c)
         \/ Clear("history") \/ LoadForList("history")
  PROVE  PreferencesInv'
<1>1. DOMAIN health = Engines
  BY DEF PreferencesInv, CommandTypeOK
<1>2. CASE Clear("history") \/ \E c \in {"policy", "history"} : EnforcePolicy(c)
  BY <1>1, <1>2, AnswerStep DEF EnforcePolicy, Clear, runtimeVars, Controllers
<1>3. CASE LoadForList("history")
  <2>. DEFINE c == "history"
  <2>1. /\ ops[c].step = "load" /\ c \in Controllers
        /\ UNCHANGED <<registered, health, sink, astray>>
    BY <1>3 DEF LoadForList, At, runtimeVars, Controllers
  <2>2. CASE Load("failed") /\ Reply(c)
    BY <1>1, <2>1, <2>2, LoadKeeps, ReplyStep, FiredWhileWaiting DEF Still
  <2>3. CASE /\ Load("ok") /\ UNCHANGED gate
             /\ ops' = [ops EXCEPT ![c].to = Value, ![c].step = "enforce"]
    <3>. DEFINE new == [ops[c] EXCEPT !.to = Value, !.step = "enforce"]
    <3>1. /\ ops' = [ops EXCEPT ![c] = new] /\ Value \in Choices
          /\ OpTypeOK(ops[c], Names(c))
      BY <2>1, <2>3 DEF PreferencesInv, CommandTypeOK
    <3>2. new \in Ops /\ new.name = ops[c].name /\ new.step = "enforce"
      BY <3>1 DEF OpTypeOK, Ops, OpSteps
    <3>3. ops[c].name = "list" /\ ops[c] # NoOp
      BY <2>1, <3>1, NoOpIsOne DEF OpTypeOK, StepsOf, Ops, OpNames
    <3>. HIDE DEF new
    <3>4. Allowed(c, new)
      BY <2>1, <3>2, <3>3 DEF Allowed, OpTypeOK, StepsOf, Names, Working, Writing,
                              Versioned
    <3>. QED
      BY <1>1, <2>1, <2>3, <3>1, <3>4, LoadKeeps, CommandStep DEF Still
  <2>. QED
    BY <1>3, <2>2, <2>3 DEF LoadForList
<1>. QED
  BY <1>2, <1>3

(* Who writes the history, who the settings, and who replaces the worker.    *)
Changes ==
  /\ \/ UNCHANGED records
     \/ \E c \in {"policy", "history"} : EnforcePolicy(c)
     \/ Clear("history") \/ SaveText
  /\ \/ Value' = Value
     \/ \E c \in {"recording", "system", "policy", "model"} : Store(c)
  /\ \/ UNCHANGED worker
     \/ Boot \/ PrepareEngine("model") \/ RestoreEngine("model")

(* Nobody else does. *)
LEMMA OnlyTheseChange ==
  ASSUME [Next]_vars
  PROVE  Changes
<1>0. ASSUME NEW result, Load(result) PROVE Value' = Value
  BY <1>0, LoadKeeps DEF SettingsKept, Value
<1>1. CASE UNCHANGED <<records, settings, worker>>
  BY <1>1 DEF Changes, Value
<1>2. CASE Commands
  BY <1>1, <1>2 DEF Commands, SetHistoryEnabled, SetHistoryLimit,
     SetHistoryRetention, ListHistory, CopyRecord, ClearHistory,
     SetRecordingShortcut, SetRecordingPreferences, SetAutoCopy,
     SetLocalDiagnostics, CheckModel, SwitchEngine, Submit, historyVars,
     runtimeVars
<1>3. CASE ControllerStep
  <2>1. ASSUME NEW c \in Controllers, Admit(c)
        PROVE  UNCHANGED <<records, worker>> /\ Value' = Value
    BY <1>0, <2>1 DEF Admit, historyVars, runtimeVars, Value
  <2>2. CASE \/ Count("policy") \/ Bind("recording") \/ Undo("recording")
    BY <2>2, <1>1 DEF Count, Bind, Undo, historyVars, runtimeVars
  <2>3. CASE \E c \in {"recording", "system", "policy", "model"} : Store(c)
    BY <2>3 DEF Changes, Store, historyVars, runtimeVars
  <2>4. CASE Clear("history") \/ \E c \in {"policy", "history"} : EnforcePolicy(c)
    BY <2>4 DEF Changes, EnforcePolicy, Clear, runtimeVars, Value
  <2>5. CASE LoadForList("history")
    BY <1>0, <2>5 DEF Changes, LoadForList, historyVars, runtimeVars
  <2>6. CASE PrepareEngine("model") \/ RestoreEngine("model")
    BY <2>6 DEF Changes, PrepareEngine, RestoreEngine, historyVars, Value
  <2>. QED
    BY <1>3, <2>1, <2>2, <2>3, <2>4, <2>5, <2>6 DEF ControllerStep, Changes
<1>4. CASE Probes
  BY <1>1, <1>4 DEF Probes, ProbeEngine, ReprobeEngine, ProbeForSession,
     historyVars
<1>5. CASE SessionStep
  <2>1. CASE StartSession \/ EndSession
    BY <1>1, <2>1 DEF StartSession, EndSession, historyVars, runtimeVars
  <2>2. CASE LoadForSession
    BY <1>0, <2>2 DEF Changes, LoadForSession, historyVars, runtimeVars
  <2>3. CASE SaveText
    BY <2>3 DEF Changes, SaveText, runtimeVars, Value
  <2>. QED
    BY <1>5, <2>1, <2>2, <2>3 DEF SessionStep
<1>6. CASE SettingsPage
  <2>1. CASE Pass
    BY <1>1, <2>1 DEF Pass, Tick, ChangePackage, historyVars, runtimeVars
  <2>. QED
    BY <1>2, <1>3, <1>4, <1>5, <1>6, <2>1 DEF SettingsPage
<1>7. CASE WorkerPage
  <2>1. CASE SupervisorStep \/ WorkerStep
    <3>1. ASSUME UNCHANGED prefVars \/ OnlyGrants PROVE Changes
      BY <1>1, <3>1 DEF prefVars, historyVars, runtimeVars, OnlyGrants
    <3>2. CASE \/ Greeted \/ AnswerArrives \/ CancelAsr \/ WorkerStep
               \/ \E use \in {"health", "transcribe"}, e \in Engines :
                    Launch(use, e) \/ Request(use, e)
      BY <3>1, <3>2
         DEF Greeted, AnswerArrives, CancelAsr, WorkerStep, Launch, Request
    <3>3. CASE AnswerStub \/ HealthArrives \/ Fails
      BY <1>4, <3>1, <3>3 DEF AnswerStub, HealthArrives, Fails, Tell
    <3>. QED
      BY <2>1, <3>2, <3>3 DEF SupervisorStep
  <2>. QED
    BY <1>2, <1>3, <1>5, <1>7, <2>1 DEF WorkerPage, SessionStep
<1>8. CASE Boot
  <2>1. UNCHANGED records /\ Value' = Value
    BY <1>0, <1>8 DEF Boot, historyVars
  <2>. QED
    BY <1>8, <2>1 DEF Changes
<1>9. CASE \/ TakeOver \/ HudPage \/ NoticePage \/ BeginExit \/ EndExit \/ Die
           \/ UNCHANGED vars
  BY <1>1, <1>9 DEF TakeOver, HudPage, NoticePage, BeginExit, EndExit, Die,
     vars, prefVars, historyVars, runtimeVars
<1>. QED
  BY <1>6, <1>7, <1>8, <1>9 DEF Next

(* The history stays a finite set. *)
LEMMA RecordsStayFinite ==
  ASSUME IsFiniteSet(records), [Next]_vars
  PROVE  IsFiniteSet(records')
<1>1. ASSUME NEW rs, IsFiniteSet(rs), NEW policy
      PROVE  IsFiniteSet(Retained(policy, rs))
  <2>1. Retained(policy, rs) \subseteq rs
    BY DEF Retained, Newest
  <2>. QED
    BY <1>1, <2>1, FS_Subset
<1>2. CASE \E c \in {"policy", "history"} : EnforcePolicy(c)
  BY <1>1, <1>2 DEF EnforcePolicy, Enforce, Write
<1>3. CASE Clear("history")
  BY <1>3, FS_EmptySet DEF Clear, ClearAll, Write
<1>4. CASE SaveText
  <2>1. PICK id \in Ids, open \in BOOLEAN, result \in {"ok", "failed"} :
          Save(id, session.with, open, result)
    BY <1>4 DEF SaveText
  <2>2. IsFiniteSet(records \cup {[id |-> id, born |-> now]})
    BY FS_AddElement
  <2>. QED
    BY <1>1, <2>1, <2>2 DEF Save, Write
<1>. QED
  BY <1>2, <1>3, <1>4, OnlyTheseChange DEF Changes

(* A store that has not reached the file.                                    *)
LEMMA StoreKeeps ==
  ASSUME PreferencesInv, run = "up", Still,
         NEW c \in Controllers \ {"history"}, Store(c), UNCHANGED settings
  PROVE  PreferencesInv'
<1>1. /\ ops[c].step = "store" /\ SettingsKept
      /\ UNCHANGED <<registered, health>>
  BY DEF Store, At, runtimeVars, SettingsKept
<1>2. /\ OpTypeOK(ops[c], Names(c)) /\ ops[c] \in Ops /\ Working(ops[c])
      /\ DOMAIN health = Engines
  BY <1>1, WorkingOps
<1>3. PICK result \in {"ok", "failed"} :
        LET next == IF result = "ok" THEN AfterStore(ops[c])
                    ELSE AfterFailure(ops[c])
        IN /\ Replace(ops[c].version, ops[c].to, result)
           /\ IF next = "none" THEN Reply(c) ELSE Then(c, next)
           /\ sink' = IF result = "ok" /\ ops[c].name = "diagnostics"
                      THEN ops[c].to.diagnostics ELSE sink
           /\ astray' = (astray \/ (result = "failed" /\ settings' # settings))
  BY DEF Store
<1>4. result = "failed"
  <2>1. SUFFICES ASSUME Commit(ops[c].version + 1, ops[c].to),
                        ops[c].version = settings.version PROVE FALSE
    BY <1>3 DEF Replace
  <2>2. settings'.version = settings.version + 1
    BY <2>1 DEF Commit
  <2>. QED
    BY <2>2 DEF PreferencesInv, CommandTypeOK
<1>5. sink' = sink /\ (~astray' => ~astray) /\ (astray => astray')
  BY <1>3, <1>4
<1>. DEFINE next == AfterFailure(ops[c])
            new == [ops[c] EXCEPT !.step = next]
<1>6. CASE next = "none"
  <2>1. Reply(c) /\ ops[c].name # "shortcut"
    BY <1>3, <1>4, <1>6 DEF AfterFailure
  <2>2. c = "recording" /\ ~astray' =>
          registered' = {Value.shortcut} \ {NoShortcut}
    BY <1>1, <1>5, <2>1, FiredWhileWaiting DEF FiredUnder
  <2>. QED
    BY <1>1, <1>2, <1>5, <2>1, <2>2, ReplyStep DEF Still
<1>7. CASE next # "none"
  <2>1. next = IF ops[c].name = "shortcut" THEN "undo" ELSE "restore"
    BY <1>7 DEF AfterFailure
  <2>2. ops[c].name \in {"shortcut", "switch"} /\ next \in OpSteps
    BY <1>7, <2>1 DEF AfterFailure, OpSteps
  <2>3. Then(c, next)
    BY <1>3, <1>4, <1>7
  <2>. HIDE DEF next
  <2>4. /\ ops' = [ops EXCEPT ![c] = new] /\ new \in Ops
        /\ new.name = ops[c].name /\ new.to = ops[c].to
        /\ new.from = ops[c].from /\ new.version = ops[c].version
        /\ new.step = next /\ gate' = gate
    BY <2>2, <2>3, Thens
  <2>. HIDE DEF new
  <2>5. c = "recording" <=> ops[c].name = "shortcut"
    BY <1>2, <2>2, NoOpIsOne, <1>1 DEF OpTypeOK, Names, Controllers
  <2>6. c = "recording" /\ ~astray' =>
          registered' = {FiredUnder(new)} \ {NoShortcut}
    BY <1>1, <1>5, <2>1, <2>4, <2>5, FiredWhileWaiting DEF FiredUnder
  <2>7. new.step \in StepsOf(new.name) \ {"none", "gate", "load"}
    BY <2>1, <2>2, <2>4 DEF StepsOf
  <2>8. ~Writing(new) /\ new.step \notin {"bind", "store"}
    BY <2>1, <2>4 DEF Writing
  <2>. QED
    BY <1>1, <1>2, <1>5, <2>4, <2>6, <2>7, <2>8, ThenStep
<1>. QED
  BY <1>6, <1>7

(* A store that has: what the command was about is what the file says now.   *)
LEMMA StoreCommits ==
  ASSUME PreferencesInv, run = "up", Still,
         NEW c \in Controllers \ {"history"}, Store(c), ~ UNCHANGED settings
  PROVE  PreferencesInv'
<1>1. ops[c].step = "store" /\ UNCHANGED <<registered, health>>
  BY DEF Store, At, runtimeVars
<1>2. /\ OpTypeOK(ops[c], Names(c)) /\ ops[c] \in Ops /\ Working(ops[c])
      /\ DOMAIN health = Engines
  BY <1>1, WorkingOps
<1>3. PICK result \in {"ok", "failed"} :
        LET next == IF result = "ok" THEN AfterStore(ops[c])
                    ELSE AfterFailure(ops[c])
        IN /\ Replace(ops[c].version, ops[c].to, result)
           /\ IF next = "none" THEN Reply(c) ELSE Then(c, next)
           /\ sink' = IF result = "ok" /\ ops[c].name = "diagnostics"
                      THEN ops[c].to.diagnostics ELSE sink
           /\ astray' = (astray \/ (result = "failed" /\ settings' # settings))
  BY DEF Store
<1>4. /\ settings'.version = settings.version + 1 /\ Value' = ops[c].to
      /\ settings.version \in Nat /\ ops[c].version = settings.version
  <2>1. /\ Commit(ops[c].version + 1, ops[c].to)
        /\ ops[c].version = settings.version
    BY <1>3 DEF Replace
  <2>. QED
    BY <2>1 DEF Commit, Value, PreferencesInv, CommandTypeOK
<1>5. /\ gate = c /\ session.step \notin {"loading", "active"}
      /\ \A d \in Controllers : Working(ops[d]) => d = c
  BY <1>2, AtWorkAlone
<1>6. About(ops[c]) /\ (c # "recording" => ops[c].name # "shortcut")
  <2>1. About(ops[c])
    BY <1>1 DEF PreferencesInv, ChoicesInv, Writing
  <2>. QED
    BY <1>1, <1>2, <2>1, NoOpIsOne DEF OpTypeOK, Names, Controllers
<1>. DEFINE new == ops'[c]
<1>7. /\ DOMAIN ops' = Controllers
      /\ \A d \in Controllers : d # c => ops'[d] = ops[d]
      /\ OpTypeOK(new, Names(c)) /\ new.step \in {"none", "enforce", "undo", "restore"}
      /\ new.step = "undo" => astray'
      /\ new.version <= settings.version
      /\ gate' = IF new.step = "none" THEN "free" ELSE c
  <2>. DEFINE next == IF result = "ok" THEN AfterStore(ops[c])
                      ELSE AfterFailure(ops[c])
  <2>0. /\ DOMAIN ops = Controllers
        /\ next = "none" => ops' = [ops EXCEPT ![c] = NoOp]
        /\ next # "none" => ops' = [ops EXCEPT ![c].step = next]
        /\ gate' = IF next = "none" THEN "free" ELSE c
    BY <1>3, <1>5 DEF PreferencesInv, CommandTypeOK, Reply, Then
  <2>1. CASE next = "none"
    BY <1>4, <2>0, <2>1, NoOpIsOne
  <2>2. CASE next # "none"
    <3>1. /\ next \in StepsOf(ops[c].name)
          /\ next \in {"enforce", "undo", "restore"} /\ next \in OpSteps
          /\ next = "undo" => result = "failed"
      BY <2>2 DEF AfterStore, AfterFailure, StepsOf, OpSteps
    <3>2. next = "undo" => astray'
      BY <1>3, <3>1
    <3>. HIDE DEF next
    <3>3. /\ new \in Ops /\ new.step = next /\ new.name = ops[c].name
          /\ new.version = ops[c].version
      BY <1>2, <2>0, <2>2, <3>1 DEF Ops
    <3>4. OpTypeOK(new, Names(c))
      BY <1>1, <1>2, <3>1, <3>3, NoOpIsOne DEF OpTypeOK
    <3>. QED
      BY <1>4, <2>0, <2>2, <3>1, <3>2, <3>3, <3>4
  <2>. QED
    BY <2>1, <2>2
<1>. HIDE DEF new
<1>8. CommandTypeOK'
  BY <1>1, <1>2, <1>4, <1>7
     DEF new, PreferencesInv, CommandTypeOK, Ops, Value, Still
<1>9. RequestInv'
  <2>. SUFFICES ASSUME NEW d \in Versioned
                PROVE  (/\ ops[d].version <= settings.version
                        /\ At(d, "gate") /\ ops[d].version = settings.version
                             => About(ops[d]))'
    BY DEF RequestInv
  <2>1. d \in Controllers /\ ops[d].version <= settings.version
    BY DEF PreferencesInv, RequestInv, Versioned, Controllers
  <2>2. ops'[d].version \in Nat /\ ops[d].version \in Nat
    BY <1>8, <2>1 DEF CommandTypeOK, PreferencesInv, OpTypeOK, Ops
  <2>3. ops'[d].version <= settings.version
    BY <1>7, <2>1 DEF new
  <2>. QED
    BY <1>4, <2>2, <2>3
<1>10. GateInv'
  BY <1>5, <1>7 DEF new, GateInv, Working, Still
<1>11. \A d \in Controllers : d # c =>
         ~Writing(ops[d]) /\ ops[d].step \notin {"bind", "store", "undo"}
  <2>. SUFFICES ASSUME NEW d \in Controllers, d # c
                PROVE  ~Writing(ops[d]) /\ ops[d].step \notin {"bind", "store", "undo"}
    OBVIOUS
  <2>1. ~Working(ops[d]) /\ OpTypeOK(ops[d], Names(d)) /\ ops[d] \in Ops
    BY <1>5, WorkingOps
  <2>. QED
    BY <2>1, WorkingOps DEF Writing
<1>12. ChoicesInv'
  BY <1>5, <1>7, <1>11
     DEF new, ChoicesInv, Writing, Undoes, FoundHealthy, Still, Controllers
<1>13. EffectsInv'
  <2>. SUFFICES ASSUME ~astray'
                PROVE  /\ registered' = {FiredUnder(ops["recording"])'} \ {NoShortcut}
                       /\ sink' = Value'.diagnostics
    BY DEF EffectsInv, Still
  <2>1. result = "ok" /\ ~astray
    BY <1>3
  <2>2. /\ sink = Value.diagnostics
        /\ registered = {FiredUnder(ops["recording"])} \ {NoShortcut}
    BY <2>1, FiredWhileWaiting
  <2>3. sink' = Value'.diagnostics
    BY <1>3, <1>4, <1>6, <2>1, <2>2 DEF About
  <2>4. FiredUnder(ops["recording"]) = Value'.shortcut
    BY <1>1, <1>4, <1>6, <1>11 DEF FiredUnder, About, Controllers
  <2>5. FiredUnder(ops["recording"])' = Value'.shortcut
    BY <1>7, <1>11 DEF new, FiredUnder, Controllers
  <2>. QED
    BY <1>1, <2>2, <2>3, <2>4, <2>5
<1>14. StillInv'
  BY <1>1, <1>7, NoOpIsOne DEF PreferencesInv, StillInv, Still, Barred, Controllers
<1>. QED
  BY <1>8, <1>9, <1>10, <1>12, <1>13, <1>14 DEF PreferencesInv

(* A store, whatever becomes of it. *)
LEMMA StoreStep ==
  ASSUME PreferencesInv, run = "up", Still,
         NEW c \in Controllers \ {"history"}, Store(c)
  PROVE  PreferencesInv'
BY StoreKeeps, StoreCommits

(* The steps of a command on the models. *)
LEMMA EngineSteps ==
  ASSUME PreferencesInv, run = "up", Still,
         \/ PrepareEngine("model") \/ RestoreEngine("model")
         \/ ProbeEngine("model") \/ ReprobeEngine("model")
  PROVE  PreferencesInv'
<1>. DEFINE c == "model"
            e == ops[c].to.engine
<1>0. /\ c \in Controllers \ {"recording"} /\ DOMAIN health = Engines
      /\ OpTypeOK(ops[c], Names(c)) /\ e \in Engines
  BY WorkingOps DEF Controllers
<1>1. CASE RestoreEngine(c) \/ ReprobeEngine(c)
  <2>1. /\ UNCHANGED <<settings, registered, sink, astray>>
        /\ DOMAIN health' = Engines
    BY <1>0, <1>1 DEF RestoreEngine, ReprobeEngine, Probe
  <2>2. CASE Reply(c)
    BY <1>0, <2>1, <2>2, AnswerStep
  <2>3. CASE RestoreEngine(c) /\ Then(c, "reprobe")
    <3>. DEFINE new == [ops[c] EXCEPT !.step = "reprobe"]
    <3>1. /\ ops' = [ops EXCEPT ![c] = new] /\ new \in Ops
          /\ new.name = ops[c].name /\ new.to = ops[c].to
          /\ new.from = ops[c].from /\ new.version = ops[c].version
          /\ new.step = "reprobe" /\ gate' = gate
      BY <1>0, <2>3, Thens DEF OpSteps
    <3>2. ops[c].step = "restore"
      BY <2>3 DEF RestoreEngine, At
    <3>3. Working(ops[c]) /\ ops[c].name \in {"check", "switch"}
      BY <1>0, <3>2, WorkingOps DEF OpTypeOK, StepsOf, Names, Ops, OpNames
    <3>. HIDE DEF new
    <3>. QED
      BY <1>0, <2>1, <3>1, <3>3, ThenStep
         DEF StepsOf, Writing, SettingsKept
  <2>. QED
    BY <1>1, <2>2, <2>3 DEF RestoreEngine, ReprobeEngine
<1>2. CASE PrepareEngine(c)
  <2>1. /\ UNCHANGED <<settings, registered, sink, astray>>
        /\ ops[c].step = "prepare" /\ DOMAIN health' = Engines
    BY <1>0, <1>2 DEF PrepareEngine, At
  <2>2. CASE Reply(c)
    BY <1>0, <2>1, <2>2, AnswerStep
  <2>3. CASE Then(c, "probe")
    <3>. DEFINE new == [ops[c] EXCEPT !.step = "probe"]
    <3>1. /\ ops' = [ops EXCEPT ![c] = new] /\ new \in Ops
          /\ new.name = ops[c].name /\ new.to = ops[c].to
          /\ new.from = ops[c].from /\ new.version = ops[c].version
          /\ new.step = "probe" /\ gate' = gate
      BY <1>0, <2>3, Thens DEF OpSteps
    <3>2. Working(ops[c]) /\ ops[c].name \in {"check", "switch"}
      BY <1>0, <2>1, WorkingOps DEF OpTypeOK, StepsOf, Names, Ops, OpNames
    <3>. HIDE DEF new
    <3>. QED
      BY <1>0, <2>1, <3>1, <3>2, ThenStep
         DEF StepsOf, Writing, SettingsKept
  <2>. QED
    BY <1>2, <2>2, <2>3 DEF PrepareEngine
<1>3. CASE ProbeEngine(c)
  <2>1. /\ UNCHANGED <<settings, registered, sink, astray>>
        /\ ops[c].step = "probe"
    BY <1>3 DEF ProbeEngine, At
  <2>2. PICK h \in Healths :
          /\ Probe(ops[c].to.engine, h)
          /\ CASE ops[c].name = "check" -> Reply(c)
               [] ops[c].name = "switch" /\ ~Fit(h) -> Then(c, "restore")
               [] OTHER -> IF ops[c].to = Value THEN Reply(c) ELSE Then(c, "store")
    BY <1>3 DEF ProbeEngine
  <2>3. health' = [health EXCEPT ![e] = h] /\ DOMAIN health' = Engines
    BY <1>0, <2>2 DEF Probe
  <2>4. Working(ops[c]) /\ ops[c].name \in {"check", "switch"}
    BY <1>0, <2>1, WorkingOps DEF OpTypeOK, StepsOf, Names, Ops, OpNames
  <2>5. CASE Reply(c)
    BY <1>0, <2>1, <2>3, <2>5, AnswerStep
  <2>6. CASE Then(c, "restore")
    <3>. DEFINE new == [ops[c] EXCEPT !.step = "restore"]
    <3>1. /\ ops' = [ops EXCEPT ![c] = new] /\ new \in Ops
          /\ new.name = ops[c].name /\ new.to = ops[c].to
          /\ new.from = ops[c].from /\ new.version = ops[c].version
          /\ new.step = "restore" /\ gate' = gate
      BY <1>0, <2>6, Thens DEF OpSteps
    <3>. HIDE DEF new
    <3>. QED
      BY <1>0, <2>1, <2>3, <2>4, <3>1, ThenStep
         DEF StepsOf, Writing, SettingsKept
  <2>7. CASE Then(c, "store") /\ h = "healthy"
    <3>. DEFINE new == [ops[c] EXCEPT !.step = "store"]
    <3>1. /\ ops' = [ops EXCEPT ![c] = new] /\ new \in Ops
          /\ new.name = ops[c].name /\ new.to = ops[c].to
          /\ new.from = ops[c].from /\ new.version = ops[c].version
          /\ new.step = "store" /\ gate' = gate
      BY <1>0, <2>7, Thens DEF OpSteps
    <3>2. health'[new.to.engine] = "healthy" /\ Writing(ops[c])
      BY <1>0, <2>1, <2>3, <2>7, <3>1 DEF Writing
    <3>. HIDE DEF new
    <3>. QED
      BY <1>0, <2>1, <2>3, <2>4, <3>1, <3>2, ThenStep
         DEF StepsOf, Writing, SettingsKept
  <2>. QED
    BY <2>2, <2>4, <2>5, <2>6, <2>7 DEF Fit
<1>. QED
  BY <1>1, <1>2, <1>3

(* A step of the session or of the exit, which leaves the commands alone.    *)
LEMMA SessionMoves ==
  ASSUME PreferencesInv, run = "up", run' = run, SettingsKept,
         UNCHANGED <<ops, registered, health, sink, astray>>,
         session' \in [step : {"idle", "loading", "active", "taken", "debt"},
                       with : Choices],
         GateInv', StillInv', session'.step = "active" => session'.with = Value
  PROVE  PreferencesInv'
<1>. USE DEF PreferencesInv
<1>1. CommandTypeOK' /\ RequestInv'
  BY DEF CommandTypeOK, RequestInv, SettingsKept, Value, About, At,
         Versioned, Controllers
<1>2. ChoicesInv'
  BY DEF ChoicesInv, SettingsKept, Value, About, Writing, Undoes, FoundHealthy
<1>3. EffectsInv'
  BY DEF EffectsInv, SettingsKept, Value, FiredUnder
<1>. QED
  BY <1>1, <1>2, <1>3

(* A session starts, is loaded and ends. *)
LEMMA SessionSteps ==
  ASSUME PreferencesInv, run = "up", UNCHANGED <<run, exit>>, SessionStep
  PROVE  PreferencesInv'
<1>1. NoSession \in [step : {"idle", "loading", "active", "taken", "debt"},
                     with : Choices] /\ NoSession.step = "idle"
  BY SettingsAssumption, ChoicesAssumption DEF NoSession
<1>2. /\ session \in [step : {"idle", "loading", "active", "taken", "debt"},
                      with : Choices]
      /\ Value \in Choices
  BY DEF PreferencesInv, CommandTypeOK
<1>3. GateInv /\ StillInv /\ \A c \in Controllers : c # "session" /\ c # "free"
  BY DEF PreferencesInv, Controllers
<1>4. CASE StartSession
  <2>1. /\ session' = [session EXCEPT !.step = "loading"] /\ gate' = "session"
        /\ gate = "free" /\ ~quitting
        /\ UNCHANGED <<settings, ops, quitting, registered, health, sink, astray>>
    BY <1>4 DEF StartSession, runtimeVars
  <2>2. session'.step = "loading"
        /\ session' \in [step : {"idle", "loading", "active", "taken", "debt"},
                         with : Choices]
    BY <1>2, <2>1
  <2>3. GateInv' /\ StillInv'
    BY <1>3, <2>1, <2>2 DEF GateInv, StillInv, Working
  <2>. QED
    BY <2>1, <2>2, <2>3, SessionMoves DEF SettingsKept
<1>5. CASE LoadForSession
  <2>1. /\ gate = "session" /\ gate' = "free" /\ SettingsKept
        /\ \/ session' = NoSession
           \/ session' = [step |-> "active", with |-> Value]
              /\ session.step = "loading"
        /\ UNCHANGED <<ops, quitting, registered, health, sink, astray>>
    BY <1>5, LoadKeeps DEF LoadForSession, runtimeVars
  <2>2. session' \in [step : {"idle", "loading", "active", "taken", "debt"},
                      with : Choices]
    BY <1>1, <1>2, <2>1
  <2>3. GateInv' /\ StillInv'
    BY <1>1, <1>3, <2>1 DEF GateInv, StillInv, Working
  <2>. QED
    BY <1>1, <2>1, <2>2, <2>3, SessionMoves
<1>6. CASE SaveText \/ EndSession
  <2>1. /\ gate # "session" /\ session' = NoSession
        /\ UNCHANGED <<settings, gate, ops, quitting, registered, health, sink, astray>>
    BY <1>6 DEF SaveText, EndSession, runtimeVars
  <2>2. GateInv' /\ StillInv'
    BY <1>1, <1>3, <2>1 DEF GateInv, StillInv, Working
  <2>. QED
    BY <1>1, <2>1, <2>2, SessionMoves DEF SettingsKept
<1>. QED
  BY <1>4, <1>5, <1>6 DEF SessionStep

(* An exit takes the session and waits for the commands. *)
LEMMA ExitSteps ==
  ASSUME PreferencesInv, BeginExit \/ EndExit
  PROVE  PreferencesInv'
<1>1. /\ session \in [step : {"idle", "loading", "active", "taken", "debt"},
                      with : Choices]
      /\ GateInv /\ StillInv
      /\ run = "down" => exit = "open"
  BY DEF PreferencesInv, CommandTypeOK, EffectsInv
<1>2. CASE BeginExit
  <2>1. /\ run = "up" /\ exit' = "running" /\ quitting'
        /\ session' = IF ActiveWork THEN [session EXCEPT !.step = "taken"] ELSE session
        /\ UNCHANGED <<run, settings, gate, ops, registered, health, sink, astray>>
    BY <1>2 DEF BeginExit, runtimeVars
  <2>2. /\ session' \in [step : {"idle", "loading", "active", "taken", "debt"},
                         with : Choices]
        /\ session'.step \notin {"loading", "active"}
    BY <1>1, <2>1 DEF ActiveWork
  <2>3. GateInv' /\ StillInv'
    BY <1>1, <2>1, <2>2 DEF GateInv, StillInv, Working
  <2>. QED
    BY <2>1, <2>2, <2>3, SessionMoves DEF SettingsKept
<1>3. CASE EndExit
  <2>1. /\ exit = "running" /\ Quiescent /\ exit' \in {"complete", "open"}
        /\ session' = session \/ session' = [session EXCEPT !.step = "debt"]
        /\ exit' = "complete" => session' = session
        /\ UNCHANGED <<run, settings, gate, ops, quitting, registered, health,
                       sink, astray>>
    BY <1>3 DEF EndExit, runtimeVars
  <2>2. /\ session' \in [step : {"idle", "loading", "active", "taken", "debt"},
                         with : Choices]
        /\ session'.step \in {"idle", "debt"}
    BY <1>1, <2>1 DEF Quiescent
  <2>3. run = "up"
    BY <1>1, <2>1 DEF PreferencesInv, EffectsInv
  <2>4. GateInv' /\ StillInv'
    BY <1>1, <2>1, <2>2 DEF GateInv, StillInv, Working, Quiescent, Entered
  <2>. QED
    BY <2>1, <2>2, <2>3, <2>4, SessionMoves DEF SettingsKept
<1>. QED
  BY <1>2, <1>3

(* The start of the process: the effects are those of the file, or it says so. *)
LEMMA BootStep ==
  ASSUME PreferencesInv, Boot
  PROVE  PreferencesInv'
<1>1. /\ run = "down" /\ ops = NoOps /\ registered = {} /\ session.step = "idle"
      /\ exit = "open" /\ exit' = "open"
  BY DEF Boot, exitVars, PreferencesInv, EffectsInv
<1>2. CASE Load("failed") /\ UNCHANGED <<registered, runtimeVars, control, run>>
  BY <1>1, <1>2, LoadKeeps, QuietStep
     DEF runtimeVars, control, PreferencesInv, CommandTypeOK
<1>3. CASE /\ Load("ok") /\ run' = "up" /\ Started
           /\ RegisterFirst(Value.shortcut)
           /\ astray' = (registered' # {Value.shortcut} \ {NoShortcut})
           /\ sink' = Value.diagnostics
           /\ ops' = IF page \notin {"engine", "worker"} THEN ops
                     ELSE [ops EXCEPT !["model"] =
                             [NoOp EXCEPT !.name = "check", !.step = "gate"]]
           /\ UNCHANGED <<gate, session, quitting>>
  <2>. DEFINE first == [NoOp EXCEPT !.name = "check", !.step = "gate"]
  <2>1. SettingsKept /\ DOMAIN health' = Engines
    BY <1>3, LoadKeeps DEF Started
  <2>2. /\ first.step = "gate" /\ first.name = "check" /\ first \in Ops
        /\ OpTypeOK(first, Names("model"))
    <3>1. NoOp \in Ops
      BY NoOpIsOne DEF OpTypeOK, Controllers
    <3>2. /\ first.step = "gate" /\ first.name = "check" /\ first \in Ops
      BY <3>1 DEF Ops, OpNames, OpSteps
    <3>. HIDE DEF first
    <3>. QED
      BY <3>2 DEF OpTypeOK, Names, StepsOf
  <2>3. /\ DOMAIN ops' = Controllers
        /\ \A c \in Controllers \ {"model"} : ops'[c] = NoOp
        /\ ops'["model"] \in {NoOp, first}
    BY <1>1, <1>3 DEF NoOps, Controllers
  <2>. HIDE DEF first
  <2>4. \A c \in Controllers : ops'[c] = NoOp \/ ops'[c] = first
    BY <2>3
  <2>5. CommandTypeOK'
    BY <1>3, <2>1, <2>2, <2>3, NoOpIsOne
       DEF PreferencesInv, CommandTypeOK, SettingsKept, Value
  <2>6. RequestInv' /\ GateInv'
    BY <1>1, <1>3, <2>1, <2>2, <2>3, <2>4, <2>5, NoOpIsOne
       DEF RequestInv, GateInv, At, Versioned, Controllers, Working, CommandTypeOK
  <2>7. ChoicesInv'
    BY <1>1, <1>3, <2>2, <2>3, <2>4, NoOpIsOne
       DEF ChoicesInv, Writing, Undoes, FoundHealthy, Controllers
  <2>8. EffectsInv'
    BY <1>3, <2>1, <2>3, NoOpIsOne
       DEF EffectsInv, FiredUnder, SettingsKept, Value, Controllers
  <2>9. StillInv'
    BY <1>1 DEF StillInv
  <2>. QED
    BY <2>5, <2>6, <2>7, <2>8, <2>9 DEF PreferencesInv
<1>. QED
  BY <1>1, <1>2, <1>3 DEF Boot

(* The process dies: what it had in memory goes with it. *)
LEMMA DieStep ==
  ASSUME PreferencesInv, Die
  PROVE  PreferencesInv'
<1>1. /\ run' = "down" /\ exit' = "open" /\ registered' = {} /\ ops' = NoOps
      /\ session' = NoSession /\ quitting' = FALSE
      /\ UNCHANGED <<settings, health>>
  BY DEF Die, runtimeVars
<1>2. \A c \in Controllers : ops'[c] = NoOp
  BY <1>1 DEF NoOps
<1>3. NoSession \in [step : {"idle", "loading", "active", "taken", "debt"},
                     with : Choices] /\ NoSession.step = "idle"
  BY SettingsAssumption, ChoicesAssumption DEF NoSession
<1>4. CommandTypeOK'
  BY <1>1, <1>2, <1>3, NoOpIsOne DEF PreferencesInv, CommandTypeOK, NoOps, Value
<1>5. RequestInv' /\ GateInv' /\ ChoicesInv'
  BY <1>1, <1>2, <1>3, <1>4, NoOpIsOne
     DEF RequestInv, GateInv, ChoicesInv, At, Versioned, Controllers,
         Undoes, FoundHealthy, CommandTypeOK
<1>6. EffectsInv' /\ StillInv'
  BY <1>1, <1>3 DEF EffectsInv, StillInv
<1>. QED
  BY <1>4, <1>5, <1>6 DEF PreferencesInv

(* The answers to health checks. *)
LEMMA ProbesStep ==
  ASSUME PreferencesInv, run = "up", UNCHANGED <<run, exit>>, Probes
  PROVE  PreferencesInv'
<1>1. CASE ProbeEngine("model") \/ ReprobeEngine("model")
  BY <1>1, EngineSteps DEF ProbeEngine, ReprobeEngine, Still
<1>2. CASE ProbeForSession
  <2>1. /\ session.step = "active" /\ DOMAIN health' = Engines
        /\ UNCHANGED <<settings, registered, control>>
    BY <1>2 DEF ProbeForSession, Probe, PreferencesInv, CommandTypeOK
  <2>2. ops["model"].step # "store"
    BY <2>1, WorkingOps DEF PreferencesInv, GateInv, Controllers
  <2>. QED
    BY <2>1, <2>2, QuietStep DEF SettingsKept, control
<1>. QED
  BY <1>1, <1>2 DEF Probes

(* Steps that leave the settings page alone.                                 *)
LEMMA ElsewhereStep ==
  ASSUME PreferencesInv, UNCHANGED <<settings, registered, health, control, run, exit>>
  PROVE  PreferencesInv'
<1>1. DOMAIN health = Engines
  BY DEF PreferencesInv, CommandTypeOK
<1>. QED
  BY <1>1, QuietStep DEF SettingsKept, control

(* Every step of a command. *)
LEMMA ControllerKeepsPreferences ==
  ASSUME PreferencesInv, IsFiniteSet(records), run = "up",
         UNCHANGED <<run, exit>>, ControllerStep
  PROVE  PreferencesInv'
<1>1. ASSUME NEW c \in Controllers, Admit(c)
      PROVE  PreferencesInv'
  BY <1>1, AdmitStep DEF Admit, Still
<1>2. CASE Count("policy") \/ Bind("recording") \/ Undo("recording")
  BY <1>2, CountStep, BindStep, UndoStep DEF Count, Bind, Undo, Still
<1>3. CASE \E c \in {"recording", "system", "policy", "model"} : Store(c)
  BY <1>3, StoreStep DEF Store, Still, Controllers
<1>4. CASE \/ \E c \in {"policy", "history"} : EnforcePolicy(c)
           \/ Clear("history") \/ LoadForList("history")
  BY <1>4, HistorySteps DEF EnforcePolicy, Clear, LoadForList, Still
<1>5. CASE PrepareEngine("model") \/ RestoreEngine("model")
  BY <1>5, EngineSteps DEF PrepareEngine, RestoreEngine, Still
<1>. QED
  BY <1>1, <1>2, <1>3, <1>4, <1>5 DEF ControllerStep

(* Every step of the process. *)
LEMMA PreferencesKept ==
  ASSUME PreferencesInv, IsFiniteSet(records), [Next]_vars
  PROVE  PreferencesInv'
<1>1. ASSUME run = "up", UNCHANGED <<run, exit>>, Commands
      PROVE  PreferencesInv'
  <2>1. Still
    BY <1>1 DEF Commands, SetHistoryEnabled, SetHistoryLimit,
       SetHistoryRetention, ListHistory, CopyRecord, ClearHistory,
       SetRecordingShortcut, SetRecordingPreferences, SetAutoCopy,
       SetLocalDiagnostics, CheckModel, SwitchEngine, Submit, Still
  <2>. QED
    BY <1>1, <2>1, CommandsKeepPreferences
<1>2. CASE SettingsPage
  <2>1. run = "up" /\ UNCHANGED <<run, exit>>
    BY <1>2 DEF SettingsPage, shellVars, exitVars
  <2>2. CASE Pass
    BY <2>1, <2>2, ElsewhereStep
       DEF Pass, Tick, ChangePackage, runtimeVars
  <2>. QED
    BY <1>1, <1>2, <2>1, <2>2, ControllerKeepsPreferences, SessionSteps, ProbesStep
       DEF SettingsPage
<1>3. CASE WorkerPage
  <2>1. run = "up" /\ UNCHANGED <<run, exit>>
    BY <1>3 DEF WorkerPage, On, shellVars, exitVars
  <2>2. CASE SupervisorStep \/ WorkerStep
    <3>1. ASSUME UNCHANGED prefVars \/ OnlyGrants PROVE PreferencesInv'
      BY <2>1, <3>1, ElsewhereStep DEF prefVars, runtimeVars, OnlyGrants
    <3>2. CASE AnswerStub \/ HealthArrives
      BY <2>1, <3>2, ProbesStep DEF AnswerStub, HealthArrives, Tell
    <3>3. CASE Fails
      BY <2>1, <3>1, <3>3, ProbesStep DEF Fails, Tell
    <3>4. CASE \/ Greeted \/ AnswerArrives \/ CancelAsr \/ WorkerStep
               \/ \E use \in {"health", "transcribe"}, e \in Engines :
                    Launch(use, e) \/ Request(use, e)
      BY <3>1, <3>4
         DEF Greeted, AnswerArrives, CancelAsr, WorkerStep, Launch, Request
    <3>. QED
      BY <2>2, <3>2, <3>3, <3>4 DEF SupervisorStep
  <2>. QED
    BY <1>1, <1>3, <2>1, <2>2, ControllerKeepsPreferences, SessionSteps
       DEF WorkerPage, SessionStep
<1>4. CASE TakeOver \/ HudPage \/ NoticePage \/ UNCHANGED vars
  BY <1>4, ElsewhereStep
     DEF TakeOver, HudPage, NoticePage, vars, prefVars, runtimeVars, shellVars,
         exitVars
<1>. QED
  BY <1>2, <1>3, <1>4, BootStep, DieStep, ExitSteps DEF Next

(* Before the first start nothing runs. *)
LEMMA PreferencesStart == Init => PreferencesInv /\ IsFiniteSet(records)
<1>. SUFFICES ASSUME Init PROVE PreferencesInv /\ IsFiniteSet(records)
  OBVIOUS
<1>1. /\ run = "down" /\ exit = "open" /\ registered = {}
      /\ ops = NoOps /\ session = NoSession /\ quitting = FALSE /\ records = {}
      /\ DOMAIN health = Engines
  BY DEF Init, ShortcutInit, ControlInit, RuntimeInit, HistoryInit
<1>2. settings.version = 0 /\ Value \in Choices
  BY SettingsAssumption, ChoicesAssumption DEF Init, SettingsInit, Value
<1>3. \A c \in Controllers : ops[c] = NoOp
  BY <1>1 DEF NoOps
<1>4. NoSession \in [step : {"idle", "loading", "active", "taken", "debt"},
                     with : Choices] /\ NoSession.step = "idle"
  BY SettingsAssumption, ChoicesAssumption DEF NoSession
<1>5. CommandTypeOK
  BY <1>1, <1>2, <1>3, <1>4, NoOpIsOne DEF CommandTypeOK, NoOps
<1>6. RequestInv /\ GateInv /\ ChoicesInv
  BY <1>1, <1>2, <1>3, <1>4, NoOpIsOne
     DEF RequestInv, GateInv, ChoicesInv, At, Versioned, Controllers,
         Undoes, FoundHealthy
<1>7. EffectsInv /\ StillInv
  BY <1>1, <1>4 DEF EffectsInv, StillInv
<1>. QED
  BY <1>1, <1>5, <1>6, <1>7, FS_EmptySet DEF PreferencesInv

(* The commands of the settings page keep their promises.                    *)
LEMMA PreferencesHold == Spec => [](PreferencesInv /\ IsFiniteSet(records))
<1>1. PreferencesInv /\ IsFiniteSet(records) /\ [Next]_vars =>
        (PreferencesInv /\ IsFiniteSet(records))'
  BY PreferencesKept, RecordsStayFinite
<1>. QED
  BY <1>1, PreferencesStart, PTL DEF Spec

(* Outside a command, the keys that fire and the diagnostics that are        *)
(* written are those of the settings file, unless the code has said that     *)
(* they are not (RecordingSettingsController, SystemSettingsController).     *)
THEOREM EffectsFollowSettingsHolds == Spec => []EffectsFollowSettings
<1>1. PreferencesInv => EffectsFollowSettings
  BY NoOpIsOne DEF PreferencesInv, EffectsInv, EffectsFollowSettings, FiredUnder
<1>. QED
  BY <1>1, PreferencesHold, PTL

(* Under a session neither the worker nor its settings change, and the       *)
(* engine of the settings changes only to one that was found healthy: a      *)
(* command stores and replaces while it holds the gate and no session is at  *)
(* work, and a switch stores what its probe has found.                       *)
THEOREM SessionIsSettledHolds == Spec => SessionIsSettled
<1>1. ASSUME PreferencesInv, [Next]_vars
      PROVE  [Settled]_vars
  <2>1. session.step = "active" => Value' = session.with /\ UNCHANGED worker
    <3>1. ASSUME session.step = "active", NEW c \in Controllers, NEW s,
                 s \in {"store", "prepare", "restore"}, At(c, s)
          PROVE  FALSE
      <4>1. Working(ops[c])
        BY <1>1, <3>1, WorkingOps DEF At
      <4>. QED
        BY <1>1, <3>1, <4>1 DEF PreferencesInv, GateInv
    <3>2. session.step = "active" => Value = session.with /\ run # "down"
      BY <1>1 DEF PreferencesInv, ChoicesInv, EffectsInv
    <3>. QED
      BY <1>1, <3>1, <3>2, OnlyTheseChange
         DEF Changes, Store, PrepareEngine, RestoreEngine, Boot, Controllers
  <2>2. Value'.engine # Value.engine => health[Value'.engine] = "healthy"
    <3>1. SUFFICES ASSUME Value'.engine # Value.engine
                   PROVE  health[Value'.engine] = "healthy"
      OBVIOUS
    <3>2. PICK c \in {"recording", "system", "policy", "model"} : Store(c)
      BY <1>1, <3>1, OnlyTheseChange DEF Changes
    <3>3. ops[c].step = "store" /\ Value' = ops[c].to
      BY <3>1, <3>2 DEF Store, Replace, Commit, At, Value
    <3>4. ops[c].name = "switch"
      BY <1>1, <3>1, <3>2, <3>3
         DEF PreferencesInv, ChoicesInv, Writing, About, Controllers
    <3>5. c = "model"
      BY <1>1, <3>4, NoOpIsOne, WorkingOps DEF OpTypeOK, Names, Controllers
    <3>. QED
      BY <1>1, <3>3, <3>5 DEF PreferencesInv, ChoicesInv, FoundHealthy
  <2>. QED
    BY <2>1, <2>2 DEF Settled, Value
<1>. QED
  BY <1>1, PreferencesHold, PTL DEF Spec, SessionIsSettled

(* Once an exit has completed nobody writes the history any more: the        *)
(* barrier has let every command finish, and the sessions are over.          *)
THEOREM HistoryIsStillHolds == Spec => HistoryIsStillAfterExit
<1>1. ASSUME PreferencesInv, [Next]_vars
      PROVE  [HistoryStill]_vars
  <2>1. SUFFICES ASSUME exit = "complete" PROVE records' = records
    BY DEF HistoryStill
  <2>2. /\ ops["policy"] = NoOp /\ ops["history"] = NoOp
        /\ session.step \in {"idle", "debt"}
    BY <1>1, <2>1 DEF PreferencesInv, StillInv, Barred
  <2>. QED
    BY <1>1, <2>2, NoOpIsOne, OnlyTheseChange
       DEF Changes, EnforcePolicy, Clear, SaveText, At
<1>. QED
  BY <1>1, PreferencesHold, PTL DEF Spec, HistoryIsStillAfterExit

-----------------------------------------------------------------------------
(* The worker process *)

Sups ==
  [at : {"idle", "handshake", "health", "transcribe", "cancelling"},
   use : {"none", "health", "transcribe"},
   engine : Engines \cup {NoEngine}, process : BOOLEAN]

(* What happens to the requests in the input when one is read,               *)
LEMMA AskedWhenRead ==
  ASSUME inbox \in Seq(Inputs), inbox # <<>>, inbox' = Tail(inbox)
  PROVE  /\ Head(inbox) \in Inputs /\ inbox' \in Seq(Inputs)
         /\ Head(inbox).kind # "cancel" => 1 \in Asked /\ inbox[1] = Head(inbox)
         /\ \A i \in Asked' : /\ i + 1 \in Asked /\ i + 1 # 1
                              /\ inbox'[i] = inbox[i + 1]
  BY DEF Asked

(* and when another one is written.                                          *)
LEMMA AskedWhenWritten ==
  ASSUME inbox \in Seq(Inputs), NEW m \in Inputs, inbox' = Append(inbox, m)
  PROVE  /\ inbox' \in Seq(Inputs)
         /\ Asked \subseteq 1..Len(inbox)
         /\ \A i \in Asked : inbox'[i] = inbox[i]
         /\ m.kind = "cancel" => Asked' = Asked
         /\ m.kind # "cancel" => Asked' = Asked \cup {Len(inbox) + 1}
         /\ inbox'[Len(inbox) + 1] = m
<1>1. /\ Len(inbox') = Len(inbox) + 1 /\ inbox' \in Seq(Inputs)
      /\ \A i \in 1..Len(inbox) : inbox'[i] = inbox[i]
      /\ inbox'[Len(inbox) + 1] = m /\ Len(inbox) \in Nat
  OBVIOUS
<1>. QED
  BY <1>1 DEF Asked

(* An empty input asks for nothing, *)
LEMMA NothingAsked ==
  ASSUME inbox = <<>>
  PROVE  Asked = {}
  BY DEF Asked

(* and that of a new process for its greeting. *)
LEMMA HelloAsked ==
  ASSUME inbox' = <<HostMessage("hello", NoEngine)>>
  PROVE  inbox' \in Seq(Inputs) /\ Asked' = {1} /\ inbox'[1].kind = "hello"
  BY DEF Asked, Inputs, HostMessage

(* A process that is gone has nothing in memory and no request in its input. *)
LEMMA GoneStep ==
  ASSUME WorkerInv, HostGone,
         \/ sup' = NoRequest /\ outbox' = <<>>
         \/ UNCHANGED <<sup, outbox, session, grants>>,
         page' = page
  PROVE  WorkerInv'
<1>1. /\ host' = NoHost /\ inbox' = <<>> /\ inference' = NoInference
      /\ lock' = "free" /\ active' = NoEngine
      /\ memory' = [e \in Engines |-> Unloaded]
  BY DEF HostGone
<1>2. Asked' = {} /\ inbox' \in Seq(Inputs) /\ <<>> \in Seq(Outputs)
  BY <1>1 DEF Asked
<1>3. sup' = sup \/ sup' = NoRequest
  OBVIOUS
<1>4. WorkerTypeOK'
  <2>1. /\ NoHost \in [at : {"gone", "new", "idle", "health", "load"},
                      engine : Engines \cup {NoEngine}, has : SUBSET Engines]
        /\ NoInference \in [at : {"none", "enter", "load", "lease", "run", "done", "lost"},
                            engine : Engines \cup {NoEngine}, cancelled : BOOLEAN]
        /\ NoHost.at = "gone"
    BY DEF NoHost, NoInference
  <2>2. memory' \in [Engines -> [resident : BOOLEAN, inFlight : 0..1]]
    BY <1>1 DEF Unloaded
  <2>3. outbox' \in Seq(Outputs)
    BY <1>2 DEF WorkerInv, WorkerTypeOK, LocalAsrTypeOK, HostTypeOK
  <2>4. HostTypeOK'
    BY <1>1, <1>2, <2>1, <2>2, <2>3 DEF HostTypeOK
  <2>5. /\ NoRequest \in Sups /\ NoRequest.at = "idle" /\ sup \in Sups
        /\ sup.at = "handshake" => sup.use \in {"health", "transcribe"}
    BY DEF Sups, NoRequest, WorkerInv, WorkerTypeOK, LocalAsrTypeOK
  <2>6. sup' \in Sups /\ (sup'.at = "handshake" => sup'.use \in {"health", "transcribe"})
    BY <1>3, <2>5
  <2>. QED
    BY <1>1, <2>1, <2>4, <2>6 DEF WorkerTypeOK, LocalAsrTypeOK, Sups
<1>5. MemoryInv'
  BY <1>1 DEF MemoryInv, NoHost, NoInference, Unloaded
<1>6. RequestPlaceInv'
  <2>1. ~AtWork' /\ host'.at = "gone"
    BY <1>1 DEF AtWork, NoHost
  <2>2. Len(outbox') <= 1
    BY DEF WorkerInv, HostInv, RequestPlaceInv
  <2>. QED
    BY <1>2, <2>1, <2>2 DEF RequestPlaceInv
<1>7. KindInv'
  BY <1>1, <1>2
     DEF WorkerInv, HostInv, KindInv, NoHost, NoInference, NoRequest
<1>8. GrantInv'
  BY DEF WorkerInv, GrantInv, NoRequest
<1>. QED
  BY <1>4, <1>5, <1>6, <1>7, <1>8 DEF WorkerInv, HostInv

(* Steps outside the worker's page, and those of the controllers.            *)
LEMMA WorkerFrame ==
  ASSUME WorkerInv, UNCHANGED <<asrVars, page>>,
         sup.use = "transcribe" => UNCHANGED <<session, grants>>
  PROVE  WorkerInv'
<1>1. WorkerTypeOK' /\ HostInv'
  BY DEF WorkerInv, WorkerTypeOK, HostInv, MemoryInv, RequestPlaceInv, KindInv,
         AtWork, Asked, LocalAsrTypeOK, HostTypeOK, asrVars, hostVars
<1>2. GrantInv'
  BY DEF WorkerInv, GrantInv, asrVars
<1>. QED
  BY <1>1, <1>2 DEF WorkerInv

(* The input of an idle supervisor asks for nothing.                         *)
LEMMA Unasked ==
  ASSUME WorkerInv
  PROVE  /\ sup.at = "idle" => Asked = {} /\ ~AtWork /\ outbox = <<>>
         /\ outbox # <<>> => Asked = {} /\ ~AtWork /\ Tail(outbox) = <<>>
         /\ AtWork => Asked = {} /\ outbox = <<>>
         /\ sup.at = "handshake" => ~AtWork
         /\ ~AtWork => /\ host.at \notin {"health", "load"}
                       /\ inference = NoInference /\ lock = "free"
                       /\ \A e \in Engines : memory[e].inFlight = 0
<1>. USE DEF WorkerInv, HostInv, RequestPlaceInv, KindInv
<1>1. sup.at = "idle" => Asked = {} /\ ~AtWork /\ outbox = <<>>
  BY DEF AtWork
<1>2. outbox # <<>> => Asked = {} /\ ~AtWork /\ Tail(outbox) = <<>>
  <2>1. outbox \in Seq(Outputs)
    BY DEF WorkerTypeOK, LocalAsrTypeOK, HostTypeOK
  <2>. QED
    BY <2>1
<1>3. AtWork => Asked = {} /\ outbox = <<>>
  OBVIOUS
<1>4. sup.at = "handshake" => ~AtWork
  BY DEF AtWork
<1>5. ~AtWork => /\ host.at \notin {"health", "load"}
                 /\ inference = NoInference /\ lock = "free"
                 /\ \A e \in Engines : memory[e].inFlight = 0
  BY DEF AtWork, MemoryInv, NoInference, WorkerTypeOK, LocalAsrTypeOK, HostTypeOK
<1>. QED
  BY <1>1, <1>2, <1>3, <1>4, <1>5

Hosts ==
  [at : {"gone", "new", "idle", "health", "load"},
   engine : Engines \cup {NoEngine}, has : SUBSET Engines]
Inferences ==
  [at : {"none", "enter", "load", "lease", "run", "done", "lost"},
   engine : Engines \cup {NoEngine}, cancelled : BOOLEAN]
Memories == [Engines -> [resident : BOOLEAN, inFlight : 0..1]]

(* The types, by name. *)
LEMMA WorkerTypes ==
  ASSUME WorkerInv
  PROVE  /\ host \in Hosts /\ inference \in Inferences /\ memory \in Memories
         /\ inbox \in Seq(Inputs) /\ outbox \in Seq(Outputs) /\ sup \in Sups
         /\ lock \in {"free", "loop", "inference"}
         /\ active \in Engines \cup {NoEngine}
  BY DEF WorkerInv, WorkerTypeOK, LocalAsrTypeOK, HostTypeOK, Hosts, Inferences,
         Memories, Sups

(* What a step of the process leaves as it should be.                        *)
LEMMA HostTyped ==
  ASSUME WorkerInv, sup' = sup,
         host' \in Hosts, inference' \in Inferences, memory' \in Memories,
         inbox' \in Seq(Inputs), outbox' \in Seq(Outputs),
         lock' \in {"free", "loop", "inference"},
         active' \in Engines \cup {NoEngine},
         host'.at \in {"health", "load"} => host'.engine \in Engines,
         \/ inference' = NoInference
         \/ inference'.at # "none" /\ inference'.engine \in Engines
  PROVE  WorkerTypeOK'
  BY DEF WorkerInv, WorkerTypeOK, LocalAsrTypeOK, HostTypeOK, Hosts, Inferences,
         Memories

(* An answer to the request that has been read, or that is done with.        *)
LEMMA Emits ==
  ASSUME NEW output \in Outputs, Emit(output), outbox = <<>>
  PROVE  outbox' \in Seq(Outputs) /\ Len(outbox') = 1
  BY DEF Emit

(* All that the process writes. *)
LEMMA OutputsAre ==
  /\ "ready" \in Outputs /\ "healthy" \in Outputs /\ "unfit" \in Outputs
  /\ "answer" \in Outputs /\ "cancelled" \in Outputs
  BY DEF Outputs

(* A request that the loop reads is the only one.                            *)
LEMMA RequestRead ==
  ASSUME WorkerInv, NEW kind, kind # "cancel", Reads(kind)
  PROVE  /\ Head(inbox) \in Inputs /\ inbox' \in Seq(Inputs)
         /\ Asked' = {} /\ ~AtWork /\ outbox = <<>>
         /\ kind = "hello" => sup.at = "handshake"
         /\ kind = "health" => sup.at = "health"
         /\ kind = "transcribe" => sup.at \in {"transcribe", "cancelling"}
<1>1. inbox \in Seq(Inputs) /\ inbox # <<>> /\ inbox' = Tail(inbox)
      /\ Head(inbox).kind = kind
  BY WorkerTypes DEF Reads
<1>2. 1 \in Asked /\ inbox[1] = Head(inbox)
  BY <1>1, AskedWhenRead
<1>3. Asked' = {}
  <2>1. \A i \in Asked' : i + 1 \in Asked /\ i + 1 # 1
    BY <1>1, AskedWhenRead
  <2>. QED
    BY <1>2, <2>1 DEF WorkerInv, HostInv, RequestPlaceInv
<1>4. ~AtWork /\ outbox = <<>>
  BY <1>2 DEF WorkerInv, HostInv, RequestPlaceInv
<1>5. \/ kind = "hello" /\ sup.at = "handshake"
      \/ kind = "health" /\ sup.at = "health"
      \/ kind = "transcribe" /\ sup.at \in {"transcribe", "cancelling"}
  BY <1>1, <1>2 DEF WorkerInv, HostInv, KindInv
<1>. QED
  BY <1>1, <1>3, <1>4, <1>5, AskedWhenRead

(* The steps of the loop. *)
LEMMA LoopReads ==
  ASSUME WorkerInv, UNCHANGED <<sup, session, grants, page>>,
         \/ ReadHello \/ ReadHealthCheck
         \/ \E readable : ReadTranscribe(readable)
  PROVE  WorkerInv'
<1>0. GrantInv'
  BY DEF WorkerInv, GrantInv
<1>1. CASE ReadHello
  <2>1. /\ Reads("hello") /\ Emit("ready")
        /\ host' = [host EXCEPT !.at = "idle"]
        /\ UNCHANGED <<inference, lock, active, memory>>
    BY <1>1 DEF ReadHello
  <2>2. /\ inbox' \in Seq(Inputs) /\ Asked' = {} /\ ~AtWork /\ outbox = <<>>
        /\ sup.at = "handshake"
    BY <2>1, RequestRead
  <2>3. outbox' \in Seq(Outputs) /\ Len(outbox') = 1
    BY <2>1, <2>2, Emits, OutputsAre
  <2>4. host' \in Hosts /\ host'.at = "idle"
    BY <2>1, WorkerTypes DEF Hosts
  <2>5. WorkerTypeOK'
    BY <2>1, <2>2, <2>3, <2>4, WorkerTypes, HostTyped DEF WorkerInv, WorkerTypeOK
  <2>6. /\ inference = NoInference /\ lock = "free"
        /\ host.at \notin {"health", "load"}
    BY <2>2, Unasked
  <2>7. HostInv'
    BY <2>1, <2>2, <2>3, <2>4, <2>6
       DEF WorkerInv, HostInv, MemoryInv, RequestPlaceInv, KindInv, AtWork
  <2>. QED
    BY <1>0, <2>5, <2>7 DEF WorkerInv
<1>2. CASE ReadHealthCheck
  <2>. DEFINE e == Head(inbox).engine
  <2>1. /\ Reads("health")
        /\ \/ /\ e \in host.has /\ UNCHANGED outbox
              /\ host' = [host EXCEPT !.at = "health", !.engine = e]
           \/ Emit("unfit") /\ UNCHANGED host
        /\ UNCHANGED <<inference, lock, active, memory>>
    BY <1>2 DEF ReadHealthCheck, HasBackend
  <2>2. /\ inbox' \in Seq(Inputs) /\ Asked' = {} /\ ~AtWork /\ outbox = <<>>
        /\ sup.at = "health"
    BY <2>1, RequestRead
  <2>. HIDE DEF e
  <2>3. CASE Emit("unfit") /\ UNCHANGED host
    <3>1. outbox' \in Seq(Outputs) /\ Len(outbox') = 1
      BY <2>2, <2>3, Emits, OutputsAre
    <3>2. WorkerTypeOK'
      BY <2>1, <2>2, <2>3, <3>1, WorkerTypes, HostTyped DEF WorkerInv, WorkerTypeOK
    <3>3. HostInv'
      BY <2>1, <2>2, <2>3, <3>1
         DEF WorkerInv, HostInv, MemoryInv, RequestPlaceInv, KindInv, AtWork
    <3>. QED
      BY <1>0, <3>2, <3>3 DEF WorkerInv
  <2>4. CASE /\ e \in host.has /\ UNCHANGED outbox
             /\ host' = [host EXCEPT !.at = "health", !.engine = e]
    <3>1. host' \in Hosts /\ host'.at = "health" /\ host'.engine \in Engines
      BY <2>4, WorkerTypes DEF Hosts
    <3>2. WorkerTypeOK'
      BY <2>1, <2>2, <2>4, <3>1, WorkerTypes, HostTyped DEF WorkerInv, WorkerTypeOK
    <3>3. /\ inference = NoInference /\ lock = "free"
          /\ host.at \notin {"health", "load"}
      BY <2>2, Unasked
    <3>4. HostInv'
      BY <2>1, <2>2, <2>4, <3>1, <3>3
         DEF WorkerInv, HostInv, MemoryInv, RequestPlaceInv, KindInv, AtWork
    <3>. QED
      BY <1>0, <3>2, <3>4 DEF WorkerInv
  <2>. QED
    BY <2>1, <2>3, <2>4
<1>3. CASE \E readable : ReadTranscribe(readable)
  <2>. DEFINE e == Head(inbox).engine
  <2>1. /\ Reads("transcribe")
        /\ \/ /\ e \in host.has /\ UNCHANGED outbox
              /\ inference' = [at |-> "enter", engine |-> e, cancelled |-> FALSE]
           \/ Emit("answer") /\ UNCHANGED inference
        /\ UNCHANGED <<host, lock, active, memory>>
    BY <1>3 DEF ReadTranscribe, HasBackend
  <2>2. /\ inbox' \in Seq(Inputs) /\ Asked' = {} /\ ~AtWork /\ outbox = <<>>
        /\ sup.at \in {"transcribe", "cancelling"}
    BY <2>1, RequestRead
  <2>3. /\ inference = NoInference /\ lock = "free"
        /\ host.at \notin {"health", "load"}
        /\ \A d \in Engines : memory[d].inFlight = 0
    BY <2>2, Unasked
  <2>. HIDE DEF e
  <2>4. CASE Emit("answer") /\ UNCHANGED inference
    <3>1. outbox' \in Seq(Outputs) /\ Len(outbox') = 1
      BY <2>2, <2>4, Emits, OutputsAre
    <3>2. WorkerTypeOK'
      BY <2>1, <2>2, <2>4, <3>1, WorkerTypes, HostTyped DEF WorkerInv, WorkerTypeOK
    <3>3. HostInv'
      BY <2>1, <2>2, <2>4, <3>1
         DEF WorkerInv, HostInv, MemoryInv, RequestPlaceInv, KindInv, AtWork
    <3>. QED
      BY <1>0, <3>2, <3>3 DEF WorkerInv
  <2>5. CASE /\ e \in host.has /\ UNCHANGED outbox
             /\ inference' = [at |-> "enter", engine |-> e, cancelled |-> FALSE]
    <3>1. e \in Engines
      BY <2>5, WorkerTypes DEF Hosts
    <3>2. /\ inference' \in Inferences /\ inference'.at = "enter"
          /\ inference'.engine \in Engines
      BY <2>5, <3>1 DEF Inferences
    <3>3. WorkerTypeOK'
      BY <2>1, <2>2, <2>5, <3>2, WorkerTypes, HostTyped DEF WorkerInv, WorkerTypeOK
    <3>4. MemoryInv'
      BY <2>1, <2>3, <3>2 DEF WorkerInv, HostInv, MemoryInv
    <3>5. RequestPlaceInv' /\ KindInv'
      BY <2>1, <2>2, <2>3, <2>5
         DEF WorkerInv, HostInv, RequestPlaceInv, KindInv, AtWork
    <3>. QED
      BY <1>0, <3>3, <3>4, <3>5 DEF WorkerInv, HostInv
  <2>. QED
    BY <2>1, <2>4, <2>5
<1>. QED
  BY <1>1, <1>2, <1>3

(* An engine that is taken up has the memory to itself.                      *)
LEMMA EngagedAlone ==
  ASSUME WorkerInv, NEW holder, NEW e \in Engines, Engaged(holder, e)
  PROVE  /\ lock = "free" /\ lock' = holder /\ active' = e
         /\ host.at # "load" /\ inference.at \notin {"load", "lease", "run"}
         /\ memory' \in Memories
         /\ \A d \in Engines : memory'[d].inFlight = 0
         /\ \A d \in Engines : memory'[d].resident => d = e
<1>1. /\ lock = "free" /\ lock' = holder /\ active' = e
      /\ memory' = IF active \in Engines \ {e}
                   THEN [memory EXCEPT ![active] = Unload(active)] ELSE memory
  BY DEF Engaged
<1>2. /\ host.at # "load" /\ inference.at \notin {"load", "lease", "run"}
      /\ \A d \in Engines : memory[d].inFlight = 0
      /\ \A d \in Engines : memory[d].resident => d = active
  BY <1>1 DEF WorkerInv, HostInv, MemoryInv
<1>3. memory \in Memories
  BY WorkerTypes
<1>4. CASE active \in Engines \ {e}
  <2>1. memory' = [memory EXCEPT ![active] = Unloaded]
    BY <1>1, <1>2, <1>4 DEF Unload
  <2>2. Unloaded.resident = FALSE /\ Unloaded.inFlight = 0
        /\ Unloaded \in [resident : BOOLEAN, inFlight : 0..1]
    BY DEF Unloaded
  <2>. QED
    BY <1>1, <1>2, <1>3, <2>1, <2>2 DEF Memories
<1>5. CASE active \notin Engines \ {e}
  BY <1>1, <1>2, <1>3, <1>5
<1>. QED
  BY <1>1, <1>2, <1>4, <1>5

(* A load touches the model of its engine only. *)
LEMMA EnsureLoads ==
  ASSUME WorkerInv, NEW e \in Engines, NEW result, EnsureLoaded(e, result)
  PROVE  /\ memory' \in Memories
         /\ \A d \in Engines : memory'[d].inFlight = memory[d].inFlight
         /\ \A d \in Engines : memory'[d].resident => memory[d].resident \/ d = e
         /\ result = "ok" => memory'[e].resident
         /\ \A d \in Engines : memory[d].resident => memory'[d].resident
<1>1. memory \in Memories
  BY WorkerTypes
<1>. QED
  BY <1>1 DEF EnsureLoaded, Memories

(* The loop works on a health check itself. *)
LEMMA HealthCheckSteps ==
  ASSUME WorkerInv, UNCHANGED <<sup, session, grants, page>>,
         EnterHealthCheck \/ LoadForHealthCheck
  PROVE  WorkerInv'
<1>0. GrantInv'
  BY DEF WorkerInv, GrantInv
<1>1. /\ UNCHANGED inbox /\ Asked' = Asked
      /\ host.engine \in Engines /\ AtWork
      /\ host.at \in {"health", "load"}
  BY DEF EnterHealthCheck, LoadForHealthCheck, Asked, AtWork, WorkerInv,
         WorkerTypeOK
<1>2. /\ Asked = {} /\ outbox = <<>> /\ inference = NoInference
      /\ sup.at = "health" /\ inference.at = "none"
  BY <1>1, Unasked
     DEF WorkerInv, HostInv, RequestPlaceInv, KindInv, NoInference
<1>3. CASE EnterHealthCheck
  <2>. DEFINE e == host.engine
  <2>1. /\ Engaged("loop", e) /\ host' = [host EXCEPT !.at = "load"]
        /\ UNCHANGED <<inbox, outbox, inference>>
    BY <1>3 DEF EnterHealthCheck
  <2>2. /\ lock' = "loop" /\ active' = e /\ memory' \in Memories
        /\ \A d \in Engines : memory'[d].inFlight = 0
        /\ \A d \in Engines : memory'[d].resident => d = e
    BY <1>1, <2>1, EngagedAlone
  <2>3. host' \in Hosts /\ host'.at = "load" /\ host'.engine = e
    BY <2>1, WorkerTypes DEF Hosts
  <2>. HIDE DEF e
  <2>4. e \in Engines
    BY <1>1 DEF e
  <2>5. WorkerTypeOK'
    BY <1>2, <2>1, <2>2, <2>3, <2>4, WorkerTypes, HostTyped
  <2>6. MemoryInv'
    BY <1>2, <2>1, <2>2, <2>3 DEF MemoryInv
  <2>7. RequestPlaceInv' /\ KindInv'
    BY <1>1, <1>2, <2>1, <2>3
       DEF WorkerInv, HostInv, RequestPlaceInv, KindInv, AtWork
  <2>. QED
    BY <1>0, <2>5, <2>6, <2>7 DEF WorkerInv, HostInv
<1>4. CASE LoadForHealthCheck
  <2>. DEFINE e == host.engine
  <2>1. /\ host.at = "load" /\ lock' = "free"
        /\ host' = [host EXCEPT !.at = "idle", !.engine = NoEngine]
        /\ UNCHANGED <<inbox, inference, active>>
        /\ Emit("healthy") \/ Emit("unfit")
        /\ \/ \E result \in {"ok", "failed"} : EnsureLoaded(e, result)
           \/ UNCHANGED memory
    BY <1>4 DEF LoadForHealthCheck
  <2>2. /\ memory' \in Memories
        /\ \A d \in Engines : memory'[d].inFlight = memory[d].inFlight
        /\ \A d \in Engines : memory'[d].resident => memory[d].resident \/ d = e
    BY <1>1, <2>1, EnsureLoads, WorkerTypes
  <2>3. outbox' \in Seq(Outputs) /\ Len(outbox') = 1
    BY <1>2, <2>1, Emits, OutputsAre
  <2>4. host' \in Hosts /\ host'.at = "idle"
    BY <2>1, WorkerTypes DEF Hosts
  <2>5. WorkerTypeOK'
    BY <1>2, <2>1, <2>2, <2>3, <2>4, WorkerTypes, HostTyped
  <2>6. MemoryInv'
    BY <1>2, <2>1, <2>2, <2>4 DEF WorkerInv, HostInv, MemoryInv
  <2>7. RequestPlaceInv' /\ KindInv'
    BY <1>1, <1>2, <2>1, <2>3, <2>4
       DEF WorkerInv, HostInv, RequestPlaceInv, KindInv, AtWork
  <2>. QED
    BY <1>0, <2>5, <2>6, <2>7 DEF WorkerInv, HostInv
<1>. QED
  BY <1>3, <1>4

(* The thread of the inference. *)
LEMMA ThreadMoves ==
  ASSUME WorkerInv, UNCHANGED <<sup, session, grants, page, host, inbox, outbox>>,
         inference # NoInference, inference' \in Inferences,
         inference'.at # "none", inference'.engine = inference.engine,
         memory' \in Memories, lock' \in {"free", "loop", "inference"},
         active' \in Engines \cup {NoEngine}, MemoryInv'
  PROVE  WorkerInv'
<1>1. inference.engine \in Engines /\ inference' # NoInference /\ Asked' = Asked
  BY DEF WorkerInv, WorkerTypeOK, NoInference, Asked
<1>2. WorkerTypeOK'
  BY <1>1, WorkerTypes, HostTyped DEF WorkerInv, WorkerTypeOK
<1>3. RequestPlaceInv' /\ KindInv'
  BY <1>1 DEF WorkerInv, HostInv, RequestPlaceInv, KindInv, AtWork
<1>4. GrantInv'
  BY DEF WorkerInv, GrantInv
<1>. QED
  BY <1>2, <1>3, <1>4 DEF WorkerInv, HostInv

(* The thread enters the engine, loads its model, leases it and runs. *)
LEMMA InferenceSteps ==
  ASSUME WorkerInv, UNCHANGED <<sup, session, grants, page>>,
         EnterInference \/ LoadForInference \/ Lease \/ InferenceEnds
  PROVE  WorkerInv'
<1>. DEFINE e == inference.engine
<1>1. /\ inference # NoInference /\ e \in Engines
      /\ UNCHANGED <<host, inbox, outbox>>
  BY DEF EnterInference, LoadForInference, Lease, InferenceEnds, NoInference,
         WorkerInv, WorkerTypeOK
<1>2. inference \in Inferences /\ memory \in Memories /\ active \in Engines \cup {NoEngine}
      /\ lock \in {"free", "loop", "inference"}
  BY WorkerTypes
<1>3. host.at \notin {"health", "load"} /\ MemoryInv
  BY <1>1 DEF WorkerInv, HostInv, RequestPlaceInv
<1>4. \A at \in {"load", "lease", "run", "done", "lost"} :
        LET next == [inference EXCEPT !.at = at] IN
        next \in Inferences /\ next.at = at /\ next.engine = e
  BY <1>2 DEF Inferences
<1>5. CASE EnterInference
  <2>1. /\ Engaged("inference", e) /\ inference.at = "enter"
        /\ inference' = [inference EXCEPT !.at = "load"]
    BY <1>5 DEF EnterInference
  <2>2. /\ lock' = "inference" /\ active' = e /\ memory' \in Memories
        /\ \A d \in Engines : memory'[d].inFlight = 0
        /\ \A d \in Engines : memory'[d].resident => d = e
    BY <1>1, <2>1, EngagedAlone
  <2>3. /\ inference' \in Inferences /\ inference'.at = "load"
        /\ inference'.engine = e
    BY <1>4, <2>1
  <2>. HIDE DEF e
  <2>4. MemoryInv'
    BY <1>1, <1>3, <2>2, <2>3 DEF MemoryInv
  <2>. QED
    BY <1>1, <2>2, <2>3, <2>4, ThreadMoves DEF e
<1>6. CASE LoadForInference
  <2>1. /\ inference.at = "load" /\ active' = active
        /\ \/ /\ GivesUp
              /\ UNCHANGED memory \/ EnsureLoaded(e, "failed")
           \/ /\ EnsureLoaded(e, "ok") /\ UNCHANGED lock
              /\ inference' = [inference EXCEPT !.at = "lease"]
    BY <1>6 DEF LoadForInference
  <2>2. /\ memory' \in Memories
        /\ \A d \in Engines : memory'[d].inFlight = memory[d].inFlight
        /\ \A d \in Engines : memory'[d].resident => memory[d].resident \/ d = e
    BY <1>1, <1>2, <2>1, EnsureLoads
  <2>3. /\ inference' \in Inferences /\ inference'.engine = e
        /\ \/ inference'.at = "done" /\ lock' = "free"
           \/ inference'.at = "lease" /\ lock' = lock
    BY <1>4, <2>1 DEF GivesUp
  <2>. HIDE DEF e
  <2>4. MemoryInv'
    BY <1>1, <1>3, <2>1, <2>2, <2>3 DEF MemoryInv, e
  <2>. QED
    BY <1>1, <1>2, <2>1, <2>2, <2>3, <2>4, ThreadMoves DEF e
<1>7. CASE Lease
  <2>1. /\ inference.at = "lease" /\ active' = active
        /\ \/ /\ memory[e].resident /\ UNCHANGED lock
              /\ memory' = [memory EXCEPT ![e].inFlight = 1]
              /\ inference' = [inference EXCEPT !.at = "run"]
           \/ GivesUp /\ UNCHANGED memory
    BY <1>7 DEF Lease
  <2>2. /\ inference' \in Inferences /\ inference'.engine = e
        /\ \/ inference'.at = "done" /\ lock' = "free" /\ UNCHANGED memory
           \/ /\ inference'.at = "run" /\ lock' = lock /\ memory[e].resident
              /\ memory' = [memory EXCEPT ![e].inFlight = 1]
    BY <1>4, <2>1 DEF GivesUp
  <2>. HIDE DEF e
  <2>3. /\ memory' \in Memories
        /\ \A d \in Engines : memory'[d].resident = memory[d].resident
    BY <1>1, <1>2, <2>2 DEF Memories
  <2>4. MemoryInv'
    <3>1. \A d \in Engines : memory'[d].inFlight =
            IF inference'.at = "run" /\ d = e THEN 1 ELSE 0
      BY <1>1, <1>2, <1>3, <2>1, <2>2 DEF MemoryInv, Memories
    <3>. QED
      BY <1>1, <1>3, <2>1, <2>2, <2>3, <3>1 DEF MemoryInv, e
  <2>. QED
    BY <1>1, <1>2, <2>1, <2>2, <2>3, <2>4, ThreadMoves DEF e
<1>8. CASE InferenceEnds
  <2>1. /\ inference.at = "run" /\ active' = active /\ lock' = "free"
        /\ memory' = [memory EXCEPT ![e].inFlight = 0]
        /\ \E at \in {"done", "lost"} : inference' = [inference EXCEPT !.at = at]
    BY <1>8 DEF InferenceEnds
  <2>2. /\ inference' \in Inferences /\ inference'.engine = e
        /\ inference'.at \in {"done", "lost"}
    BY <1>4, <2>1
  <2>. HIDE DEF e
  <2>3. /\ memory' \in Memories
        /\ \A d \in Engines : memory'[d].resident = memory[d].resident
        /\ \A d \in Engines : memory'[d].inFlight = IF d = e THEN 0 ELSE memory[d].inFlight
    BY <1>1, <1>2, <2>1 DEF Memories
  <2>4. MemoryInv'
    BY <1>1, <1>3, <2>1, <2>2, <2>3 DEF MemoryInv, e
  <2>. QED
    BY <1>1, <1>2, <2>1, <2>2, <2>3, <2>4, ThreadMoves DEF e
<1>. QED
  BY <1>5, <1>6, <1>7, <1>8

(* A cancel is read, a result is passed on, an idle model is dropped, and    *)
(* the process ends. *)
LEMMA RemainingHostSteps ==
  ASSUME WorkerInv, UNCHANGED <<sup, session, grants, page>>,
         \/ ReadCancel \/ ReadFinished \/ \E e \in Engines : Reap(e)
         \/ RefuseArguments \/ HostCrashes
  PROVE  WorkerInv'
<1>0. GrantInv'
  BY DEF WorkerInv, GrantInv
<1>1. CASE HostGone /\ UNCHANGED outbox
  BY <1>1, GoneStep
<1>2. CASE ReadCancel /\ inference # NoInference
  <2>1. /\ inbox # <<>> /\ Head(inbox).kind = "cancel" /\ inbox' = Tail(inbox)
        /\ inference' = [inference EXCEPT !.cancelled = TRUE]
        /\ UNCHANGED <<host, outbox, lock, active, memory>>
    BY <1>2 DEF ReadCancel
  <2>2. AtWork /\ Asked = {} /\ outbox = <<>>
    BY <1>2, Unasked DEF AtWork
  <2>3. inbox' \in Seq(Inputs) /\ Asked' = {}
    BY <2>1, <2>2, AskedWhenRead, WorkerTypes
  <2>4. /\ inference' \in Inferences /\ inference'.at = inference.at
        /\ inference'.engine = inference.engine
    BY <2>1, WorkerTypes DEF Inferences
  <2>5. inference.at # "none" /\ inference.engine \in Engines
    BY <1>2 DEF WorkerInv, WorkerTypeOK
  <2>6. WorkerTypeOK'
    BY <2>1, <2>3, <2>4, <2>5, WorkerTypes, HostTyped DEF WorkerInv, WorkerTypeOK
  <2>7. MemoryInv'
    BY <2>1, <2>4 DEF WorkerInv, HostInv, MemoryInv
  <2>8. inference' # NoInference
    BY <2>4, <2>5 DEF NoInference
  <2>9. RequestPlaceInv' /\ KindInv'
    BY <1>2, <2>1, <2>3, <2>8
       DEF WorkerInv, HostInv, RequestPlaceInv, KindInv, AtWork
  <2>. QED
    BY <1>0, <2>6, <2>7, <2>9 DEF WorkerInv, HostInv
<1>3. CASE ReadFinished
  <2>1. /\ host.at = "idle" /\ inference.at = "done" /\ inference' = NoInference
        /\ Emit("cancelled") \/ Emit("answer")
        /\ UNCHANGED <<host, inbox, lock, active, memory>>
    BY <1>3 DEF ReadFinished
  <2>2. inference # NoInference /\ AtWork
    BY <2>1 DEF NoInference, AtWork
  <2>3. Asked = {} /\ outbox = <<>> /\ Asked' = Asked
        /\ sup.at \in {"transcribe", "cancelling"}
    BY <2>1, <2>2, Unasked DEF Asked, WorkerInv, HostInv, KindInv
  <2>4. outbox' \in Seq(Outputs) /\ Len(outbox') = 1
    BY <2>1, <2>3, Emits, OutputsAre
  <2>5. NoInference \in Inferences /\ NoInference.at = "none"
    BY DEF NoInference, Inferences
  <2>6. WorkerTypeOK'
    BY <2>1, <2>4, <2>5, WorkerTypes, HostTyped
  <2>7. MemoryInv'
    BY <2>1, <2>5 DEF WorkerInv, HostInv, MemoryInv
  <2>8. RequestPlaceInv' /\ KindInv'
    BY <2>1, <2>3, <2>4 DEF RequestPlaceInv, KindInv, AtWork
  <2>. QED
    BY <1>0, <2>6, <2>7, <2>8 DEF WorkerInv, HostInv
<1>4. ASSUME NEW e \in Engines, Reap(e) PROVE WorkerInv'
  <2>1. /\ memory[e].inFlight = 0 /\ memory' = [memory EXCEPT ![e] = Unloaded]
        /\ UNCHANGED <<host, inbox, outbox, inference, lock, active>>
    BY <1>4 DEF Reap
  <2>2. /\ Unloaded.resident = FALSE /\ Unloaded.inFlight = 0
        /\ Unloaded \in [resident : BOOLEAN, inFlight : 0..1]
    BY DEF Unloaded
  <2>3. /\ memory' \in Memories /\ memory'[e] = Unloaded
        /\ \A d \in Engines \ {e} : memory'[d] = memory[d]
    BY <2>1, <2>2, WorkerTypes DEF Memories
  <2>4. WorkerTypeOK'
    BY <2>1, <2>3, WorkerTypes, HostTyped DEF WorkerInv, WorkerTypeOK
  <2>5. MemoryInv'
    <3>1. ~(inference.at = "run" /\ e = inference.engine)
      BY <2>1 DEF WorkerInv, HostInv, MemoryInv
    <3>2. inference.at = "run" => inference.engine \in Engines
      BY DEF WorkerInv, WorkerTypeOK, NoInference
    <3>. QED
      BY <2>1, <2>2, <2>3, <3>1, <3>2 DEF WorkerInv, HostInv, MemoryInv
  <2>6. RequestPlaceInv' /\ KindInv'
    BY <2>1 DEF WorkerInv, HostInv, RequestPlaceInv, KindInv, AtWork, Asked
  <2>. QED
    BY <1>0, <2>4, <2>5, <2>6 DEF WorkerInv, HostInv
<1>. QED
  BY <1>1, <1>2, <1>3, <1>4 DEF ReadCancel, RefuseArguments, HostCrashes

(* The supervisor has its answer.                                            *)
LEMMA DoneStep ==
  ASSUME WorkerInv, Done, Asked = {}, ~AtWork, outbox' = <<>>, page = "worker",
         UNCHANGED <<host, inbox, inference, lock, active, memory, page>>
  PROVE  WorkerInv'
<1>1. /\ sup' \in Sups /\ sup'.at = "idle" /\ sup'.use = "none"
      /\ <<>> \in Seq(Outputs) /\ Asked' = {}
  <2>1. NoRequest \in Sups /\ NoRequest.at = "idle" /\ NoRequest.use = "none"
    BY DEF NoRequest, Sups
  <2>2. sup' \in Sups /\ sup'.at = "idle" /\ sup'.use = "none"
    BY <2>1 DEF Done, Sups
  <2>. QED
    BY <2>2 DEF Asked
<1>2. WorkerTypeOK'
  BY <1>1, WorkerTypes
     DEF WorkerInv, WorkerTypeOK, LocalAsrTypeOK, HostTypeOK, Sups
<1>3. HostInv'
  BY <1>1 DEF WorkerInv, HostInv, MemoryInv, RequestPlaceInv, KindInv, AtWork
<1>4. GrantInv'
  BY <1>1 DEF WorkerInv, GrantInv
<1>. QED
  BY <1>2, <1>3, <1>4 DEF WorkerInv

(* A request is sent, a transcription with its grant. *)
LEMMA ServeStep ==
  ASSUME WorkerInv, NEW use \in {"health", "transcribe"},
         NEW e \in Engines \cup {NoEngine}, Serve(use, e),
         Asked = {}, ~AtWork, outbox' = <<>>, page = "worker",
         use = "transcribe" => session.step = "active",
         UNCHANGED <<host, inference, lock, active, memory, session, page>>
  PROVE  WorkerInv'
<1>1. CASE Done /\ UNCHANGED inbox
  BY <1>1, DoneStep
<1>2. CASE /\ IF use = "transcribe" THEN CreateGrant("ok") ELSE UNCHANGED grants
           /\ sup' = [at |-> use, use |-> use, engine |-> e, process |-> TRUE]
           /\ inbox' = Append(inbox, HostMessage(use, e))
  <2>. DEFINE m == HostMessage(use, e)
  <2>1. m \in Inputs /\ m.kind = use /\ m.kind # "cancel"
    BY DEF HostMessage, Inputs
  <2>2. inbox \in Seq(Inputs)
    BY WorkerTypes
  <2>. HIDE DEF m
  <2>3. /\ inbox' \in Seq(Inputs) /\ Asked' = {Len(inbox) + 1}
        /\ inbox'[Len(inbox) + 1] = m
    BY <1>2, <2>1, <2>2, AskedWhenWritten DEF m
  <2>4. /\ sup' \in Sups /\ sup'.at = use /\ sup'.use = use
        /\ <<>> \in Seq(Outputs)
    BY <1>2 DEF Sups
  <2>5. WorkerTypeOK'
    BY <2>3, <2>4, WorkerTypes
       DEF WorkerInv, WorkerTypeOK, LocalAsrTypeOK, HostTypeOK, Sups
  <2>6. MemoryInv' /\ ~AtWork' /\ Len(outbox') <= 1
    BY DEF WorkerInv, HostInv, MemoryInv, AtWork
  <2>7. RequestPlaceInv'
    BY <2>3, <2>6 DEF RequestPlaceInv, AtWork
  <2>8. KindInv'
    BY <2>1, <2>3, <2>4, <2>6 DEF KindInv, AtWork
  <2>9. use = "transcribe" => "held" \in grants'
    BY <1>2 DEF CreateGrant
  <2>10. GrantInv'
    BY <2>4, <2>9 DEF GrantInv
  <2>. QED
    BY <2>5, <2>6, <2>7, <2>8, <2>10 DEF WorkerInv, HostInv
<1>. QED
  BY <1>1, <1>2 DEF Serve

(* A process is launched for a request of somebody who may ask. *)
LEMMA LaunchStep ==
  ASSUME WorkerInv, NEW use \in {"health", "transcribe"}, NEW e \in Engines,
         Launch(use, e), page = "worker", page' = page
  PROVE  WorkerInv'
<1>1. /\ sup.at = "idle" /\ Asks(use, e)
      /\ sup' = [at |-> "handshake", use |-> use, engine |-> e, process |-> TRUE]
      /\ Arguments({m \in Engines : worker[m] # Missing})
      /\ inbox' = <<HostMessage("hello", NoEngine)>>
      /\ UNCHANGED <<outbox, inference, lock, active, memory, session, grants>>
  BY DEF Launch, prefVars, control, runtimeVars, folderVars
<1>2. /\ Asked = {} /\ ~AtWork /\ outbox = <<>>
      /\ host.at \notin {"health", "load"} /\ inference = NoInference
      /\ lock = "free"
  BY <1>1, Unasked
<1>3. /\ host' \in Hosts /\ host'.at = "new"
  BY <1>1 DEF Arguments, NoHost, Hosts
<1>4. sup' \in Sups /\ sup'.at = "handshake" /\ sup'.use = use
  BY <1>1 DEF Sups
<1>5. inbox' \in Seq(Inputs) /\ Asked' = {1} /\ inbox'[1].kind = "hello"
  BY <1>1, HelloAsked
<1>6. WorkerTypeOK'
  BY <1>1, <1>3, <1>4, <1>5, WorkerTypes
     DEF WorkerInv, WorkerTypeOK, LocalAsrTypeOK, HostTypeOK, Sups, Hosts
<1>7. MemoryInv'
  BY <1>1, <1>2, <1>3 DEF WorkerInv, HostInv, MemoryInv
<1>8. RequestPlaceInv'
  BY <1>1, <1>2, <1>3, <1>5
     DEF WorkerInv, HostInv, RequestPlaceInv, AtWork
<1>9. KindInv'
  BY <1>1, <1>2, <1>3, <1>4, <1>5 DEF KindInv
<1>10. GrantInv'
  BY <1>1, <1>4 DEF GrantInv, Asks
<1>. QED
  BY <1>6, <1>7, <1>8, <1>9, <1>10 DEF WorkerInv, HostInv

(* What a probe leaves alone. *)
LEMMA ProbesKeep ==
  ASSUME Probes
  PROVE  UNCHANGED <<session, grants>>
  BY DEF Probes, ProbeEngine, ReprobeEngine, ProbeForSession, control, folderVars

(* Every step of the supervisor. *)
LEMMA SupervisorKeepsWorker ==
  ASSUME WorkerInv, SupervisorStep, page = "worker", page' = page
  PROVE  WorkerInv'
<1>1. CASE AnswerStub
  BY <1>1, ProbesKeep, WorkerFrame DEF AnswerStub
<1>2. ASSUME NEW use \in {"health", "transcribe"}, NEW e \in Engines,
             Launch(use, e) \/ Request(use, e)
      PROVE  WorkerInv'
  <2>1. CASE Request(use, e)
    <3>1. /\ sup.at = "idle" /\ Asks(use, e) /\ Serve(use, e)
          /\ UNCHANGED <<host, outbox, inference, lock, active, memory, session>>
      BY <2>1 DEF Request, OnlyGrants, control
    <3>2. Asked = {} /\ ~AtWork /\ outbox = <<>>
      BY <3>1, Unasked
    <3>3. use = "transcribe" => session.step = "active"
      BY <3>1 DEF Asks
    <3>. QED
      BY <3>1, <3>2, <3>3, ServeStep
  <2>. QED
    BY <1>2, <2>1, LaunchStep
<1>3. CASE Greeted
  <2>1. /\ sup.at = "handshake" /\ outbox # <<>> /\ outbox' = Tail(outbox)
        /\ Serve(sup.use, sup.engine)
        /\ UNCHANGED <<host, inference, lock, active, memory, session>>
    BY <1>3 DEF Greeted, OnlyGrants, control
  <2>2. Asked = {} /\ ~AtWork /\ outbox' = <<>>
    BY <2>1, Unasked
  <2>3. /\ sup.use \in {"health", "transcribe"}
        /\ sup.engine \in Engines \cup {NoEngine}
        /\ sup.use = "transcribe" => session.step = "active"
    BY <2>1, WorkerTypes DEF WorkerInv, WorkerTypeOK, GrantInv, Sups
  <2>. QED
    BY <2>1, <2>2, <2>3, ServeStep
<1>4. CASE HealthArrives
  <2>1. /\ outbox # <<>> /\ outbox' = Tail(outbox) /\ Done
        /\ UNCHANGED <<host, inbox, inference, lock, active, memory>>
    BY <1>4 DEF HealthArrives
  <2>. QED
    BY <2>1, Unasked, DoneStep
<1>5. CASE AnswerArrives
  <2>1. CASE /\ Done /\ outbox' = Tail(outbox) /\ outbox # <<>>
             /\ UNCHANGED <<host, inbox, inference, lock, active, memory>>
    BY <2>1, Unasked, DoneStep
  <2>2. CASE Killed
    BY <2>2, GoneStep DEF Killed
  <2>. QED
    BY <1>5, <2>1, <2>2 DEF AnswerArrives
<1>6. CASE Fails
  BY <1>6, GoneStep DEF Fails, Killed
<1>7. CASE CancelAsr
  <2>. DEFINE m == HostMessage("cancel", sup.engine)
  <2>1. /\ sup.at = "transcribe" /\ sup' = [sup EXCEPT !.at = "cancelling"]
        /\ inbox' = Append(inbox, m)
        /\ UNCHANGED <<host, outbox, inference, lock, active, memory, session, grants>>
    BY <1>7 DEF CancelAsr, prefVars, control, runtimeVars, folderVars
  <2>2. m \in Inputs /\ m.kind = "cancel" /\ inbox \in Seq(Inputs)
    BY WorkerTypes DEF HostMessage, Inputs, Sups
  <2>. HIDE DEF m
  <2>3. /\ inbox' \in Seq(Inputs) /\ Asked' = Asked
        /\ \A i \in Asked : inbox'[i] = inbox[i]
    BY <2>1, <2>2, AskedWhenWritten
  <2>4. sup' \in Sups /\ sup'.at = "cancelling" /\ sup'.use = sup.use
    BY <2>1, WorkerTypes DEF Sups
  <2>5. WorkerTypeOK'
    BY <2>1, <2>3, <2>4, WorkerTypes
       DEF WorkerInv, WorkerTypeOK, LocalAsrTypeOK, HostTypeOK, Sups
  <2>6. MemoryInv' /\ RequestPlaceInv'
    BY <2>1, <2>3 DEF WorkerInv, HostInv, MemoryInv, RequestPlaceInv, AtWork
  <2>7. KindInv'
    BY <2>1, <2>3, <2>4 DEF WorkerInv, HostInv, KindInv
  <2>8. GrantInv'
    BY <2>1, <2>4 DEF WorkerInv, GrantInv
  <2>. QED
    BY <2>5, <2>6, <2>7, <2>8 DEF WorkerInv, HostInv
<1>. QED
  BY <1>1, <1>2, <1>3, <1>4, <1>5, <1>6, <1>7 DEF SupervisorStep

(* Every step of the process. *)
LEMMA ProcessKeepsWorker ==
  ASSUME WorkerInv, WorkerStep, page' = page
  PROVE  WorkerInv'
<1>1. UNCHANGED <<sup, session, grants, page>>
  BY DEF WorkerStep, prefVars, control, runtimeVars, folderVars
<1>2. CASE ReadTranscribe("held" \in grants)
  BY <1>1, <1>2, LoopReads
<1>3. CASE HostStep
  BY <1>1, <1>3, LoopReads, HealthCheckSteps, InferenceSteps,
     RemainingHostSteps DEF HostStep
<1>. QED
  BY <1>2, <1>3 DEF WorkerStep

(* What the settings page does under a transcription leaves its session and  *)
(* its grant alone: it belongs to a session at work, and that keeps the      *)
(* commands that replace the worker away.                                    *)
LEMMA ControllersKeepGrant ==
  ASSUME PreferencesInv, ControllerStep
  PROVE  /\ UNCHANGED session
         /\ session.step = "active" => UNCHANGED grants
<1>1. UNCHANGED session
  BY DEF ControllerStep, Admit, Count, Bind, Undo, Store, EnforcePolicy, Clear,
         LoadForList, PrepareEngine, RestoreEngine
<1>2. CASE PrepareEngine("model") \/ RestoreEngine("model")
  <2>1. Working(ops["model"])
    BY <1>2, WorkingOps DEF PrepareEngine, RestoreEngine, At, Controllers
  <2>. QED
    BY <1>1, <2>1 DEF PreferencesInv, GateInv, Controllers
<1>3. CASE UNCHANGED grants
  BY <1>1, <1>3
<1>4. UNCHANGED runtimeVars => UNCHANGED grants
  BY DEF runtimeVars, folderVars
<1>5. CASE \E c \in Controllers : Admit(c)
  BY <1>3, <1>4, <1>5 DEF Admit
<1>. QED
  BY <1>2, <1>3, <1>4, <1>5 DEF ControllerStep, Count, Bind, Undo, Store,
     EnforcePolicy, Clear, LoadForList

(* Every step of the desktop. *)
LEMMA WorkerKept ==
  ASSUME PreferencesInv, WorkerInv, [Next]_vars
  PROVE  WorkerInv'
<1>1. /\ sup.use = "transcribe" =>
           session.step = "active" /\ sup.at # "idle" /\ page = "worker"
      /\ page # "worker" => sup.use # "transcribe"
  BY DEF WorkerInv, GrantInv, NoRequest
<1>2. session.step = "active" => run # "down" /\ gate # "session"
  BY DEF PreferencesInv, EffectsInv, GateInv
<1>3. CASE SettingsPage \/ HudPage \/ NoticePage
  <2>1. UNCHANGED <<asrVars, page>>
    BY <1>3 DEF SettingsPage, HudPage, NoticePage, shellVars
  <2>2. UNCHANGED <<session, grants>> \/ page # "worker"
    BY <1>3 DEF SettingsPage, HudPage, NoticePage, prefVars, control,
       runtimeVars, folderVars
  <2>. QED
    BY <1>1, <2>1, <2>2, WorkerFrame
<1>4. CASE WorkerPage
  <2>1. page = "worker" /\ page' = page
    BY <1>4 DEF WorkerPage, On, shellVars
  <2>2. CASE Commands /\ UNCHANGED asrVars
    <3>1. UNCHANGED <<session, grants>>
      BY <2>1, <2>2 DEF Commands, On, SetHistoryEnabled, SetHistoryLimit,
         SetHistoryRetention, ListHistory, CopyRecord, ClearHistory,
         SetRecordingShortcut, SetRecordingPreferences, SetAutoCopy,
         SetLocalDiagnostics, CheckModel, SwitchEngine, Submit, runtimeVars,
         folderVars
    <3>. QED
      BY <2>1, <2>2, <3>1, WorkerFrame
  <2>3. CASE ControllerStep /\ Replaced
    <3>1. CASE UNCHANGED asrVars
      BY <1>1, <2>1, <2>3, <3>1, ControllersKeepGrant, WorkerFrame
    <3>2. CASE Killed
      BY <2>1, <3>2, GoneStep DEF Killed
    <3>. QED
      BY <2>3, <3>1, <3>2 DEF Replaced
  <2>4. CASE /\ StartSession \/ LoadForSession \/ (sup.at = "idle" /\ EndSession)
             /\ UNCHANGED asrVars
    <3>1. sup.use # "transcribe"
      BY <1>1, <1>2, <2>4 DEF StartSession, LoadForSession
    <3>. QED
      BY <2>1, <2>4, <3>1, WorkerFrame
  <2>. QED
    BY <1>4, <2>1, <2>2, <2>3, <2>4, SupervisorKeepsWorker, ProcessKeepsWorker
       DEF WorkerPage
<1>5. CASE Boot
  <2>1. sup.use # "transcribe"
    BY <1>1, <1>2, <1>5 DEF Boot
  <2>. QED
    BY <1>5, <2>1, WorkerFrame DEF Boot
<1>6. CASE TakeOver \/ UNCHANGED vars
  <2>1. UNCHANGED <<asrVars, page, session, grants>>
    BY <1>6 DEF TakeOver, vars, prefVars, control, runtimeVars, folderVars,
       shellVars
  <2>. QED
    BY <2>1, WorkerFrame
<1>7. CASE BeginExit \/ EndExit \/ Die
  <2>1. UNCHANGED <<asrVars, page>>
    BY <1>7 DEF BeginExit, EndExit, Die
  <2>2. page # "worker" \/ session.step # "active"
    BY <1>7 DEF BeginExit, EndExit, Die, Quiescent
  <2>. QED
    BY <1>1, <2>1, <2>2, WorkerFrame
<1>. QED
  BY <1>3, <1>4, <1>5, <1>6, <1>7 DEF Next

(* Before the first launch there is nothing in memory. *)
LEMMA WorkerStart == Init => WorkerInv
<1>. SUFFICES ASSUME Init PROVE WorkerInv
  OBVIOUS
<1>1. /\ sup = NoRequest /\ host = NoHost /\ inbox = <<>> /\ outbox = <<>>
      /\ inference = NoInference /\ lock = "free" /\ active = NoEngine
      /\ memory = [e \in Engines |-> Unloaded]
  BY DEF Init, LocalAsrInit, HostInit
<1>2. /\ NoHost \in Hosts /\ NoHost.at = "gone" /\ NoInference \in Inferences
      /\ NoInference.at = "none" /\ NoRequest \in Sups
      /\ NoRequest.at = "idle" /\ NoRequest.use = "none"
      /\ <<>> \in Seq(Outputs) /\ <<>> \in Seq(Inputs) /\ Asked = {}
      /\ Len(outbox) = 0
  <2>1. NoHost \in Hosts /\ NoHost.at = "gone"
    BY DEF NoHost, Hosts
  <2>2. NoInference \in Inferences /\ NoInference.at = "none"
    BY DEF NoInference, Inferences
  <2>3. NoRequest \in Sups /\ NoRequest.at = "idle" /\ NoRequest.use = "none"
    BY DEF NoRequest, Sups
  <2>. QED
    BY <1>1, <2>1, <2>2, <2>3, NothingAsked
<1>3. /\ memory \in Memories
      /\ \A e \in Engines : memory[e].inFlight = 0 /\ ~memory[e].resident
  BY <1>1 DEF Unloaded, Memories
<1>4. WorkerTypeOK
  BY <1>1, <1>2, <1>3
     DEF WorkerTypeOK, LocalAsrTypeOK, HostTypeOK, Hosts, Inferences, Memories,
         Sups
<1>5. HostInv
  BY <1>1, <1>2, <1>3 DEF HostInv, MemoryInv, RequestPlaceInv, KindInv, AtWork
<1>6. GrantInv
  BY <1>1, <1>2 DEF GrantInv
<1>. QED
  BY <1>4, <1>5, <1>6 DEF WorkerInv

(* A transcription in flight has its recording in the folder and its model   *)
(* in memory, and it alone; the loop, which reads its cancel, never waits    *)
(* for the engine (local_asr, native_engines, composite_engine).             *)
THEOREM InFlightIsWholeHolds == Spec => []InFlightIsWhole
<1>1. PreferencesInv /\ IsFiniteSet(records) /\ WorkerInv /\ [Next]_vars => WorkerInv'
  BY WorkerKept
<1>2. WorkerInv => InFlightIsWhole
  <2>. SUFFICES ASSUME WorkerInv PROVE InFlightIsWhole
    OBVIOUS
  <2>1. Cardinality({e \in Engines : memory[e].resident}) <= 1
    <3>. DEFINE R == {e \in Engines : memory[e].resident}
    <3>1. R \subseteq {active}
      BY DEF WorkerInv, HostInv, MemoryInv
    <3>2. IsFiniteSet({active}) /\ Cardinality({active}) = 1
      BY FS_Singleton
    <3>3. Cardinality(R) <= Cardinality({active})
      BY <3>1, <3>2, FS_Subset
    <3>. QED
      BY <3>2, <3>3
  <2>2. host.at = "health" => lock # "inference"
    BY DEF WorkerInv, HostInv, MemoryInv, RequestPlaceInv, NoInference
  <2>. QED
    BY <2>1, <2>2 DEF InFlightIsWhole, WorkerInv, HostInv, MemoryInv, GrantInv
<1>. QED
  BY <1>1, <1>2, WorkerStart, PreferencesHold, PTL DEF Spec

=============================================================================
