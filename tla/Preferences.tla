----------------------------- MODULE Preferences -----------------------------
(***************************************************************************)
(* The controllers behind the settings page: recording, system, history    *)
(* and model settings, and the history itself.  Each runs one command at a *)
(* time.  All but the listing hold the configuration gate, which a start   *)
(* of a session takes too, and are refused while a session is at work;     *)
(* those that touch the history or the models also enter the barrier that  *)
(* an exit closes and waits for.                                           *)
(***************************************************************************)
EXTENDS SettingsStore, HistoryStore, RecordingShortcut, AsrRuntime

(* SettingsSnapshot, as far as these controllers look at it. *)
Choices ==
  [enabled : BOOLEAN, limit : Limits, days : Days \cup {Forever},
   shortcut : Shortcuts \cup {NoShortcut}, engine : Engines,
   mode : {"toggle", "pushToTalk"}, autoCopy : BOOLEAN, diagnostics : BOOLEAN]

ASSUME ChoicesAssumption == Values \subseteq Choices

VARIABLES
  gate,       \* who holds the configuration gate
  ops,        \* the command that each controller runs
  session,    \* the session, and the settings it started with
  quitting,   \* the barrier is closed
  sink,       \* whether local diagnostics are written
  astray      \* history: an effect and the settings file have parted, and the code said so

control == <<gate, ops, session, quitting, sink, astray>>
prefVars == <<settings, historyVars, registered, runtimeVars, control>>

(* RecordingSettings, SystemSettings, HistorySettings, History and AsrHealth. *)
Controllers == {"recording", "system", "policy", "history", "model"}
Barred == {"policy", "history", "model"}

NoOp == [name |-> "none", step |-> "none", to |-> Default, version |-> 0,
         ack |-> FALSE, trim |-> FALSE, from |-> NoShortcut]
NoSession == [step |-> "idle", with |-> Default]

PreferencesTypeOK ==
  /\ SettingsTypeOK /\ HistoryTypeOK /\ ShortcutTypeOK /\ RuntimeTypeOK
  /\ gate \in {"free", "session"} \cup Controllers
  /\ \A c \in Controllers :
       /\ ops[c].to \in Values /\ ops[c].version \in 0..MaxVersion
       /\ (ops[c].step = "none") <=> (ops[c] = NoOp)
  /\ session \in [step : {"idle", "loading", "active", "taken", "debt"}, with : Values]
  /\ quitting \in BOOLEAN /\ sink \in BOOLEAN /\ astray \in BOOLEAN

(* Before the start of the process. *)
NoOps == [c \in Controllers |-> NoOp]
ControlInit ==
  /\ gate = "free" /\ ops = NoOps /\ session = NoSession
  /\ quitting = FALSE /\ sink = FALSE /\ astray = FALSE

Value == settings.value
At(c, step) == ops[c].step = step

(* has_active_work: what an exit has taken out of the runtime is none, what *)
(* it has put back for lack of a cleanup is.                                *)
ActiveWork == session.step \in {"loading", "active", "debt"}

Then(c, step) == ops' = [ops EXCEPT ![c].step = step] /\ UNCHANGED gate
Reply(c) == ops' = [ops EXCEPT ![c] = NoOp] /\ gate' = IF gate = c THEN "free" ELSE gate

-----------------------------------------------------------------------------
(* A command of the settings page.  Some change one choice of the version  *)
(* that the page has seen last; a switch of the engine starts from what it *)
(* finds, and the others change nothing there.                             *)
Submit(c, name, to, ack) ==
  /\ ops[c] = NoOp /\ (c \in Barred => ~quitting)
  /\ ops' = [ops EXCEPT ![c] = [NoOp EXCEPT !.name = name, !.to = to, !.ack = ack,
               !.version = IF c \in {"history", "model"} THEN 0 ELSE settings.version,
               !.step = IF name = "list" THEN "load" ELSE "gate"]]
  /\ UNCHANGED <<settings, historyVars, registered, runtimeVars,
                 gate, session, quitting, sink, astray>>

SetRecordingPreferences(mode) == Submit("recording", "preferences", [Value EXCEPT !.mode = mode], FALSE)
SetRecordingShortcut(s) == Submit("recording", "shortcut", [Value EXCEPT !.shortcut = s], FALSE)
SetAutoCopy(on) == Submit("system", "autoCopy", [Value EXCEPT !.autoCopy = on], FALSE)
SetLocalDiagnostics(on) == Submit("system", "diagnostics", [Value EXCEPT !.diagnostics = on], FALSE)
SetHistoryEnabled(on) == Submit("policy", "enabled", [Value EXCEPT !.enabled = on], FALSE)
SetHistoryLimit(n, ack) == Submit("policy", "limit", [Value EXCEPT !.limit = n], ack)
SetHistoryRetention(d, ack) == Submit("policy", "retention", [Value EXCEPT !.days = d], ack)
ListHistory == Submit("history", "list", Default, FALSE)
CopyRecord == Submit("history", "copy", Default, FALSE)
ClearHistory == Submit("history", "clear", Default, TRUE)
CheckModel == Submit("model", "check", Default, FALSE)
SwitchEngine(e) == Submit("model", "switch", [Default EXCEPT !.engine = e], FALSE)

-----------------------------------------------------------------------------
(* As Refused, but a session is no reason. *)
RefusedByExit(c) == c = "model" /\ quitting

(* ensure_idle; the model commands also look whether the exit has begun.   *)
Refused(c) == ActiveWork \/ (c = "model" /\ quitting)

(* Nothing to store.  The shortcut is registered again and the sink set    *)
(* again all the same.                                                     *)
Unchanged(c) ==
  /\ IF ops[c].name = "shortcut"
     THEN \E result \in {"ok", "failed"} : Rebind(Value.shortcut, Value.shortcut, result)
     ELSE UNCHANGED registered
  /\ sink' = IF ops[c].name = "diagnostics" THEN Value.diagnostics ELSE sink
  /\ Reply(c)

FirstStep(op) ==
  CASE op.name = "shortcut" -> "bind"
    [] op.name = "limit" /\ op.to.enabled -> "count"
    [] op.name = "retention" /\ op.to.enabled /\ op.to.days # Forever -> "count"
    [] op.name = "clear" -> "clear"
    [] op.name \in {"check", "switch"} -> "prepare"
    [] OTHER -> "store"

(* The command holds the gate from here on, and has loaded the settings. *)
Admitted(c) ==
  LET op == ops[c]
      from == IF c = "model" THEN Value.engine ELSE Value.shortcut
      to == IF op.name = "check" THEN Value
            ELSE IF op.name = "switch" THEN [Value EXCEPT !.engine = op.to.engine] ELSE op.to
  IN /\ gate' = c
     /\ ops' = [ops EXCEPT ![c] = [op EXCEPT !.from = from, !.to = to,
                  !.version = settings.version, !.step = FirstStep(op)]]
     /\ UNCHANGED <<registered, sink>>

Admit(c) ==
  /\ At(c, "gate") /\ gate = "free"
  /\ \/ Refused(c) /\ Reply(c) /\ UNCHANGED <<settings, registered, sink>>
     \/ /\ ~Refused(c) /\ ops[c].name = "copy"        \* it writes the clipboard only
        /\ Reply(c) /\ UNCHANGED <<settings, registered, sink>>
     \/ /\ ~Refused(c) /\ ops[c].name = "clear"
        /\ Admitted(c) /\ UNCHANGED settings
     \/ /\ ~Refused(c) /\ ops[c].name \notin {"copy", "clear"}
        /\ \/ Load("failed") /\ Reply(c) /\ UNCHANGED <<registered, sink>>
           \/ /\ Load("ok")
              /\ IF c # "model" /\ ops[c].version # settings.version
                 THEN Reply(c) /\ UNCHANGED <<registered, sink>>
                 ELSE IF c # "model" /\ ops[c].to = Value THEN Unchanged(c) ELSE Admitted(c)
  /\ UNCHANGED <<historyVars, runtimeVars, session, quitting, astray>>

-----------------------------------------------------------------------------
(* Would the new policy remove anything?  Then the user must have agreed. *)
Trims(op) ==
  IF op.name = "limit" THEN Cardinality(records) > op.to.limit
  ELSE Expired(op.to.days, records) # {}

Count(c) ==
  /\ At(c, "count")
  /\ \/ Reply(c)                                        \* the list cannot be read
     \/ Trims(ops[c]) /\ ~ops[c].ack /\ Reply(c)
     \/ /\ Trims(ops[c]) => ops[c].ack
        /\ ops' = [ops EXCEPT ![c].step = "store", ![c].trim = Trims(ops[c])]
        /\ UNCHANGED gate
  /\ UNCHANGED <<settings, historyVars, registered, runtimeVars, session, quitting, sink, astray>>

Bind(c) ==
  /\ At(c, "bind")
  /\ \/ Rebind(ops[c].from, ops[c].to.shortcut, "ok") /\ Then(c, "store")
        /\ UNCHANGED astray
     \/ Rebind(ops[c].from, ops[c].to.shortcut, "failed") /\ Reply(c)
        /\ astray' = (astray \/ registered' # registered)
  /\ UNCHANGED <<settings, historyVars, runtimeVars, session, quitting, sink>>

AfterStore(op) ==
  CASE op.name = "limit" /\ op.trim -> "enforce"
    [] op.name = "retention" /\ op.to.enabled /\ op.to.days # Forever -> "enforce"
    [] OTHER -> "none"

(* As AfterFailure, but the shortcut is left as it was bound. *)
AfterFailureUnbound(op) == IF op.name = "switch" THEN "restore" ELSE "none"

(* What a failed store takes back. *)
AfterFailure(op) ==
  CASE op.name = "shortcut" -> "undo" [] op.name = "switch" -> "restore" [] OTHER -> "none"

Store(c) ==
  /\ At(c, "store")
  /\ \E result \in {"ok", "failed"} :
       LET next == IF result = "ok" THEN AfterStore(ops[c]) ELSE AfterFailure(ops[c])
       IN /\ Replace(ops[c].version, ops[c].to, result)
          /\ IF next = "none" THEN Reply(c) ELSE Then(c, next)
          /\ sink' = IF result = "ok" /\ ops[c].name = "diagnostics"
                     THEN ops[c].to.diagnostics ELSE sink
          /\ astray' = (astray \/ (result = "failed" /\ settings' # settings))
  /\ UNCHANGED <<historyVars, registered, runtimeVars, session, quitting>>

(* The old shortcut comes back; that may fail as well. *)
Undo(c) ==
  /\ At(c, "undo")
  /\ \E result \in {"ok", "failed"} :
       /\ Rebind(ops[c].to.shortcut, ops[c].from, result)
       /\ astray' = (astray \/ result = "failed")
  /\ Reply(c)
  /\ UNCHANGED <<settings, historyVars, runtimeVars, session, quitting, sink>>

EnforcePolicy(c) ==
  /\ At(c, "enforce")
  /\ \E result \in {"ok", "failed"} : Enforce(ops[c].to, result)
  /\ Reply(c)
  /\ UNCHANGED <<settings, now, registered, runtimeVars, session, quitting, sink, astray>>

Clear(c) ==
  /\ At(c, "clear")
  /\ \E result \in {"ok", "failed"} : ClearAll(result)
  /\ Reply(c)
  /\ UNCHANGED <<settings, now, registered, runtimeVars, session, quitting, sink, astray>>

(* The listing loads the settings and applies the policy it found, without *)
(* the gate; then it reads.                                                *)
LoadForList(c) ==
  /\ At(c, "load")
  /\ \/ Load("failed") /\ Reply(c)
     \/ /\ Load("ok")
        /\ ops' = [ops EXCEPT ![c].to = Value, ![c].step = "enforce"]
        /\ UNCHANGED gate
  /\ UNCHANGED <<historyVars, registered, runtimeVars, session, quitting, sink, astray>>

-----------------------------------------------------------------------------
(* What a switch asks of the engine it switches to. *)
Fit(h) == h = "healthy"

(* The package of the engine is verified, and a worker for it replaces the *)
(* one of the moment if it differs.                                        *)
PrepareEngine(c) ==
  /\ At(c, "prepare")
  /\ \E result \in {"ok", "failed"} :
       /\ Prepare(ops[c].to.engine, result)
       /\ IF result = "ok" THEN Then(c, "probe") ELSE Reply(c)
       /\ health' = IF result = "failed" /\ ops[c].name = "check"
                    THEN [health EXCEPT ![ops[c].to.engine] = "unfit"] ELSE health
  /\ UNCHANGED <<settings, historyVars, registered, session, quitting, sink, astray>>

(* The probe warms the engine up; a switch goes on when it is healthy. *)
ProbeEngine(c) ==
  /\ At(c, "probe")
  /\ \E h \in Healths :
       /\ Probe(ops[c].to.engine, h)
       /\ CASE ops[c].name = "check" -> Reply(c)
            [] ops[c].name = "switch" /\ ~Fit(h) -> Then(c, "restore")
            [] OTHER -> IF ops[c].to = Value THEN Reply(c) ELSE Then(c, "store")
  /\ UNCHANGED <<settings, historyVars, registered, folderVars, packages, scan, worker,
                 stub, session, quitting, sink, astray>>

(* restore_previous *)
RestoreEngine(c) ==
  /\ At(c, "restore")
  /\ \E result \in {"ok", "failed"} :
       /\ Prepare(ops[c].from, result)
       /\ IF result = "ok" THEN Then(c, "reprobe") ELSE Reply(c)
  /\ UNCHANGED <<settings, historyVars, registered, health, session, quitting, sink, astray>>

ReprobeEngine(c) ==
  /\ At(c, "reprobe")
  /\ \E h \in Healths : Probe(ops[c].from, h)
  /\ Reply(c)
  /\ UNCHANGED <<settings, historyVars, registered, folderVars, packages, scan, worker,
                 stub, session, quitting, sink, astray>>

ControllerStep ==
  \/ \E c \in Controllers : Admit(c)
  \/ Count("policy") \/ Bind("recording") \/ Undo("recording")
  \/ \E c \in {"recording", "system", "policy", "model"} : Store(c)
  \/ \E c \in {"policy", "history"} : EnforcePolicy(c)
  \/ Clear("history") \/ LoadForList("history")
  \/ PrepareEngine("model") \/ RestoreEngine("model")

-----------------------------------------------------------------------------
(* A start waits for the gate before it publishes the session, and keeps   *)
(* it until the settings are loaded and the route is resolved.             *)
StartSession ==
  /\ session.step = "idle" /\ gate = "free" /\ ~quitting
  /\ gate' = "session" /\ session' = [session EXCEPT !.step = "loading"]
  /\ UNCHANGED <<settings, historyVars, registered, runtimeVars, ops, quitting, sink, astray>>

LoadForSession ==
  /\ gate = "session" /\ gate' = "free"
  /\ \/ Load("failed") /\ session' = NoSession
     \/ /\ Load("ok")
        /\ session' = IF session.step = "loading" THEN [step |-> "active", with |-> Value]
                      ELSE NoSession
  /\ UNCHANGED <<historyVars, registered, runtimeVars, ops, quitting, sink, astray>>

(* Its route asks the engine it started with, and the orchestrator does    *)
(* not prepare any: what the controllers prepared has to do.               *)
ProbeForSession ==
  /\ session.step = "active"
  /\ \E h \in Healths : Probe(session.with.engine, h)
  /\ UNCHANGED <<settings, historyVars, registered, folderVars, packages, scan, worker,
                 stub, control>>

(* Its text is saved under the policy it started with.  An exit may have   *)
(* taken the session but not yet closed its fence.                         *)
SaveText ==
  /\ session.step \in {"active", "taken"} /\ gate # "session"
  /\ \E id \in Ids : \E open \in BOOLEAN : \E result \in {"ok", "failed"} :
       /\ \A r \in records : r.id # id
       /\ session.step = "active" => open
       /\ Save(id, session.with, open, result)
  /\ session' = NoSession
  /\ UNCHANGED <<settings, now, registered, runtimeVars, gate, ops, quitting, sink, astray>>

EndSession ==
  /\ session.step \in {"active", "taken"} /\ gate # "session"
  /\ session' = NoSession
  /\ UNCHANGED <<settings, historyVars, registered, runtimeVars, gate, ops, quitting, sink, astray>>

SessionStep == StartSession \/ LoadForSession \/ SaveText \/ EndSession

(* The answers to health checks. *)
Probes == ProbeEngine("model") \/ ReprobeEngine("model") \/ ProbeForSession

=============================================================================
