-------------------------- MODULE LlmConfiguration --------------------------
(***************************************************************************)
(* LlmConfigurationController over the settings file, the secret store and *)
(* the provider, beside the sessions that use what it configures.  Its     *)
(* operations exclude each other; each of them holds the configuration     *)
(* gate, which a start takes too, from before it looks for active work to  *)
(* its end - the connection test gives it up before the request.  Every    *)
(* port call is a step: it may fail, the application may crash before the  *)
(* next, and another process may use the same two files in between.        *)
(***************************************************************************)
EXTENDS LlmProvider

(* A snapshot of the settings has an endpoint or none, and takes any other. *)
ASSUME ValuesHaveAnEndpoint ==
  \A v \in Values :
    /\ v.llm \in Endpoints \cup {None}
    /\ \A e \in Endpoints \cup {None} :
         LET w == [v EXCEPT !.llm = e] IN w \in Values /\ w.llm = e

VARIABLES
  stay,       \* history: changes of the endpoint in the settings file so far
  gate,       \* who holds the configuration gate
  op,         \* the operation of the controller under way
  session     \* the session: its place in a start or in the runtime, its route

control == <<stay, gate, op, session>>
vars == <<settings, secretVars, req, control>>

Names == {"llm", "bridge", "key", "reveal", "delete", "reset", "probe", "status"}
NoOp == [name |-> "none", step |-> "none", to |-> None, from |-> None, version |-> 0]
Steps == {"none", "gate", "load", "mutable", "oldRoute", "newRoute", "delete", "replace",
          "deleteOld", "begin", "commit", "inspect", "read", "inspectStore", "destroy",
          "verify", "resolve", "request"}
NoSession == [step |-> "idle", endpoint |-> None, stay |-> 0]

TypeOK ==
  /\ SettingsTypeOK /\ SecretsTypeOK /\ ProviderTypeOK
  /\ stay \in 0..MaxVersion /\ gate \in {"free", "op", "start"}
  /\ op \in [name : Names \cup {"none"}, step : Steps, to : Endpoints \cup {None},
             from : Endpoints \cup {None}, version : 0..MaxVersion]
  /\ session \in [step : {"idle", "load", "resolve", "running", "processing", "taken"},
                  endpoint : Endpoints \cup {None}, stay : 0..MaxVersion]

Init ==
  /\ SettingsInit /\ SecretsInit /\ ProviderInit
  /\ stay = 0 /\ gate = "free" /\ op = NoOp /\ session = NoSession

Endpoint == settings.value.llm
Route(e) == [step |-> "running", endpoint |-> e, stay |-> stay]

(* ensure_idle reads the runtime: a session that is in it. *)
ActiveWork == session.step \in {"load", "resolve", "running", "processing"}

-----------------------------------------------------------------------------
(* A step of the operation: the next port call, or the reply.  The reply   *)
(* releases the gate and the mutex.                                        *)
At(step) == op.step = step
Then(step) == op' = [op EXCEPT !.step = step] /\ UNCHANGED gate
Reply == op' = NoOp /\ gate' = "free"
If(result, good, step) == IF result \in good THEN Then(step) ELSE Reply

(* A command from the settings page: the version is the one it shows. *)
Submit ==
  /\ op = NoOp
  /\ \E n \in Names, e \in Endpoints \cup {None} :
       op' = IF n = "llm"
             THEN [NoOp EXCEPT !.name = n, !.step = "gate", !.to = e, !.version = settings.version]
             ELSE [NoOp EXCEPT !.name = n, !.step = "gate"]
  /\ UNCHANGED <<settings, secretVars, req, stay, gate, session>>

FirstStep ==
  CASE op.name = "delete" -> "inspectStore" [] op.name = "reset" -> "inspectStore"
    [] OTHER -> "load"

(* As Refused, but without the look at active work. *)
RefusedNever == FALSE

(* All but the bridge switch, the reveal and the status are refused while  *)
(* there is active work.                                                   *)
Refused == ActiveWork /\ op.name \notin {"bridge", "reveal", "status"}

TakeGate ==
  /\ At("gate") /\ gate = "free"
  /\ IF Refused THEN Reply
     ELSE gate' = "op" /\ op' = [op EXCEPT !.step = FirstStep]
  /\ UNCHANGED <<settings, secretVars, req, stay, session>>

(* The settings, their version, and whether there is anything to do. *)
LoadSettings ==
  /\ At("load")
  /\ \E result \in {"ok", "failed"} :
       /\ Load(result)
       /\ IF result = "failed" THEN Reply
          ELSE CASE op.name = "llm" ->
                      IF op.version # settings.version \/ op.to = Endpoint
                      THEN Reply ELSE Then("mutable")
                 [] op.name = "bridge" ->
                      /\ op' = [op EXCEPT !.step = "replace", !.version = settings.version]
                      /\ UNCHANGED gate
                 [] op.name \in {"key", "reveal"} ->
                      IF Endpoint = None THEN Reply
                      ELSE /\ op' = [op EXCEPT !.to = Endpoint,
                                      !.step = IF op.name = "key" THEN "mutable" ELSE "inspect"]
                           /\ UNCHANGED gate
                 [] op.name = "status" -> Then("inspectStore")
                 [] op.name = "probe" -> Then("resolve")
  /\ UNCHANGED <<secretVars, req, stay, session>>

(* ensure_secret_store_mutable *)
EnsureMutable ==
  /\ At("mutable")
  /\ \E m \in {"Configured", "NotConfigured", "RecoveryRequired", "error"} :
       /\ InspectStore(m)
       /\ If(m, {"Configured", "NotConfigured"}, IF op.name = "llm" THEN "oldRoute" ELSE "begin")
  /\ UNCHANGED <<settings, req, stay, session>>

(* validated_route: what the secret store says does not matter to it. *)
ResolveOldRoute ==
  /\ At("oldRoute")
  /\ \E r \in {"NoConfiguration", "Ready", "MissingSecret", "Unavailable"} : Resolution(Endpoint, r)
  /\ op' = [op EXCEPT !.step = "newRoute", !.from = Endpoint]
  /\ UNCHANGED <<settings, req, stay, gate, session>>

ResolveNewRoute ==
  /\ At("newRoute")
  /\ \E r \in {"NoConfiguration", "Ready", "MissingSecret", "Unavailable"} : Resolution(op.to, r)
  /\ Then(IF op.to # None THEN "delete" ELSE "replace")
  /\ UNCHANGED <<settings, req, stay, session>>

(* As DeleteAtNew, but best effort, like the deletion at the old endpoint. *)
DeleteAtNewBestEffort ==
  /\ At("delete")
  /\ \E result \in {"ok", "error"} : Delete(App, op.to, result) /\ Then("replace")
  /\ UNCHANGED <<settings, req, stay, session>>

(* A key left at the new endpoint goes before the endpoint becomes current. *)
DeleteAtNew ==
  /\ At("delete")
  /\ \E result \in {"ok", "error"} :
       Delete(App, op.to, result) /\ If(result, {"ok"}, "replace")
  /\ UNCHANGED <<settings, req, stay, session>>

ReplaceSettings ==
  /\ At("replace")
  /\ LET value == IF op.name = "llm" THEN [settings.value EXCEPT !.llm = op.to]
                  ELSE settings.value      \* the switch is not among the Values
     IN  \E result \in {"ok", "failed"} :
           /\ Replace(op.version, value, result)
           /\ If(result, IF op.from # None THEN {"ok"} ELSE {}, "deleteOld")
  /\ stay' = IF settings'.value.llm # Endpoint THEN stay + 1 ELSE stay
  /\ UNCHANGED <<secretVars, req, session>>

(* The key of the old endpoint goes last; a failure is ignored. *)
DeleteAtOld ==
  /\ At("deleteOld")
  /\ \E result \in {"ok", "error"} : Delete(App, op.from, result)
  /\ Reply
  /\ UNCHANGED <<settings, req, stay, session>>

Entered == [for |-> Endpoint, stay |-> stay]     \* the key the user types now

BeginKey ==
  /\ At("begin")
  /\ \E result \in {"ok", "error"} : BeginWrite(App, result) /\ If(result, {"ok"}, "commit")
  /\ UNCHANGED <<settings, req, stay, session>>

CommitKey ==
  /\ At("commit")
  /\ \E result \in {"ok", "error"} :
       /\ CommitWrite(App, op.to, Entered, result)
       /\ If(result, {"ok"}, "inspect")
  /\ UNCHANGED <<settings, req, stay, session>>

(* The verification of a new key, and the first look of a reveal. *)
InspectKey ==
  /\ At("inspect")
  /\ \E m \in {"Configured", "NotConfigured", "RecoveryRequired", "error"} :
       /\ Inspect(op.to, m)
       /\ If(m, IF op.name = "reveal" THEN {"Configured"} ELSE {}, "read")
  /\ UNCHANGED <<settings, req, stay, session>>

RevealKey ==
  /\ At("read")
  /\ \E result \in Secrets \cup {None, Failed} : Read(op.to, result)
  /\ Reply
  /\ UNCHANGED <<settings, req, stay, session>>

(* delete_api_key goes on when the store is healthy, the reset when it is  *)
(* not, the status in either case.                                         *)
InspectBefore ==
  /\ At("inspectStore")
  /\ \E m \in {"Configured", "NotConfigured", "RecoveryRequired", "error"} :
       /\ InspectStore(m)
       /\ CASE op.name = "delete" -> If(m, {"Configured"}, "destroy")
            [] op.name = "reset" -> If(m, {"RecoveryRequired"}, "destroy")
            [] op.name = "status" -> If(m, {"Configured", "NotConfigured"}, "resolve")
  /\ UNCHANGED <<settings, req, stay, session>>

Destroy ==
  /\ At("destroy")
  /\ \E result \in {"ok", "error"} :
       IF op.name = "delete"
       THEN DeleteNamespace(App, result) /\ Reply
       ELSE ResetUnrecoverable(App, result) /\ If(result, {"ok"}, "verify")
  /\ UNCHANGED <<settings, req, stay, session>>

VerifyReset ==
  /\ At("verify")
  /\ \E m \in {"Configured", "NotConfigured", "RecoveryRequired", "error"} : InspectStore(m)
  /\ Reply
  /\ UNCHANGED <<settings, req, stay, session>>

(* The connection test freezes a ready route and drops the gate before its *)
(* request.                                                                *)
ResolveForOp ==
  /\ At("resolve")
  /\ \E r \in {"NoConfiguration", "Ready", "MissingSecret", "Unavailable"} :
       /\ Resolution(Endpoint, r)
       /\ IF r = "Ready" /\ op.name = "probe"
          THEN /\ op' = [op EXCEPT !.step = "request"] /\ gate' = "free"
               /\ Process("probe", Endpoint, stay)
          ELSE Reply /\ UNCHANGED req
  /\ UNCHANGED <<settings, stay, session>>

ProbeReturns ==
  /\ At("request") /\ ~Waiting("probe")
  /\ op' = NoOp
  /\ UNCHANGED <<settings, secretVars, req, stay, gate, session>>

OperationStep ==
  \/ TakeGate \/ LoadSettings \/ EnsureMutable \/ ResolveOldRoute \/ ResolveNewRoute
  \/ DeleteAtNew \/ ReplaceSettings \/ DeleteAtOld \/ BeginKey \/ CommitKey
  \/ InspectKey \/ RevealKey \/ InspectBefore \/ Destroy \/ VerifyReset
  \/ ResolveForOp \/ ProbeReturns

-----------------------------------------------------------------------------
(* A start takes the gate, publishes itself in the runtime, loads the      *)
(* settings and resolves its route; then it lets the gate go.              *)
StartSession ==
  /\ session.step = "idle" /\ gate = "free"
  /\ gate' = "start" /\ session' = [NoSession EXCEPT !.step = "load"]
  /\ UNCHANGED <<settings, secretVars, req, stay, op>>

LoadForSession ==
  /\ session.step = "load"
  /\ \E result \in {"ok", "failed"} :
       /\ Load(result)
       /\ IF result = "ok" THEN session' = [session EXCEPT !.step = "resolve"] /\ UNCHANGED gate
          ELSE session' = NoSession /\ gate' = "free"
  /\ UNCHANGED <<secretVars, req, stay, op>>

(* Without a ready route the text is delivered as transcribed: such a      *)
(* session is of no more interest here than one that has ended.            *)
ResolveForSession ==
  /\ session.step = "resolve" /\ gate' = "free"
  /\ \E r \in {"NoConfiguration", "Ready", "MissingSecret", "Unavailable"} :
       /\ Resolution(Endpoint, r)
       /\ session' = IF r = "Ready" THEN Route(Endpoint) ELSE NoSession
  /\ UNCHANGED <<settings, req, stay, op>>

ProcessText ==
  /\ session.step = "running"
  /\ Process("session", session.endpoint, session.stay)
  /\ session' = [session EXCEPT !.step = "processing"]
  /\ UNCHANGED <<settings, secretVars, stay, gate, op>>

EndSession ==
  /\ session.step \in {"running", "processing", "taken"}
  /\ ~Waiting("session")
  /\ session' = NoSession
  /\ UNCHANGED <<settings, secretVars, req, stay, gate, op>>

(* A quit takes a processing session out of the runtime and then cancels   *)
(* its request: from there on the session is no active work any more.      *)
TakeSession ==
  /\ session.step = "processing"
  /\ session' = [session EXCEPT !.step = "taken"]
  /\ UNCHANGED <<settings, secretVars, req, stay, gate, op>>

CancelTaken ==
  /\ session.step = "taken" /\ Waiting("session") /\ ~req["session"].cancelled
  /\ CancelRequest("session")
  /\ UNCHANGED <<settings, secretVars, stay, gate, op, session>>

SessionStep ==
  \/ StartSession \/ LoadForSession \/ ResolveForSession \/ ProcessText \/ EndSession \/ TakeSession
  \/ CancelTaken

Provider == ProviderStep /\ UNCHANGED <<settings, control>>

-----------------------------------------------------------------------------
(* The other process enters or removes a key; while a compare-and-set is   *)
(* under way here it may save settings of its own.                         *)
OtherProcess ==
  \/ /\ \E result \in {"ok", "error"} : Endpoint # None /\ BeginWrite(Other, result)
     /\ UNCHANGED <<settings, req, control>>
  \/ /\ Endpoint # None
     /\ \E result \in {"ok", "error"} : CommitWrite(Other, Endpoint, Entered, result)
     /\ UNCHANGED <<settings, req, control>>
  \/ /\ \E result \in {"ok", "error"} : DeleteNamespace(Other, result)
     /\ UNCHANGED <<settings, req, control>>
  \/ /\ op.name = "llm" /\ Replace(settings.version, settings.value, "ok")
     /\ UNCHANGED <<secretVars, req, control>>

Damage == DamageKeyFile /\ UNCHANGED <<settings, req, control>>

(* The application dies between any two steps and starts again. *)
Crash ==
  /\ Reopen
  /\ req' = [c \in Callers |-> NoRequest]
  /\ op' = NoOp /\ gate' = "free" /\ session' = NoSession
  /\ UNCHANGED <<settings, stay>>

Next == Submit \/ OperationStep \/ SessionStep \/ Provider \/ OtherProcess \/ Damage \/ Crash

Spec == Init /\ [][Next]_vars

-----------------------------------------------------------------------------
(* A request carries a key the user entered for its endpoint, and not      *)
(* before the settings came to that endpoint the last time: a key left     *)
(* behind by a failed deletion, a failed update or a crash never comes     *)
(* back to life with its endpoint.                                         *)
KeyFitsRoute ==
  \A c \in Callers : req[c].key # None =>
    req[c].key.for = req[c].endpoint /\ req[c].key.stay >= req[c].stay

(* The key that goes out is the one the database holds at that moment,     *)
(* under the key file that is installed at that moment: no copy that a     *)
(* process keeps of either outlives the original.                          *)
KeyIsStored ==
  \A c \in Callers : req'[c].key \notin {req[c].key, None} =>
    Readable(req[c].endpoint) /\ db[req[c].endpoint].value = req'[c].key
SentKeyIsStored == [][KeyIsStored]_vars

(* Between the start of a session and its end no configuration command of  *)
(* this process takes its endpoint out of force or its key away: that      *)
(* takes the other process, or somebody at the key file.                   *)
Undisturbed ==
  op' # op /\ session.step \in {"running", "processing"} =>
    /\ settings'.value.llm = Endpoint
    /\ \A e \in {session.endpoint} : Readable(e) => Readable(e)'
SessionIsUndisturbed == [][Undisturbed]_vars

(* A key is lost only by what is meant to lose it.  One that can be read   *)
(* goes by being deleted or replaced, or with its endpoint; one that       *)
(* cannot be read now, which a repair of the key file may yet restore,     *)
(* goes by the reset alone, which the user confirms - and what was         *)
(* repaired before the reset got to it is kept.                            *)
Kept(e) == db'[e] # db[e] =>
  IF Readable(e) THEN op.name # "reset" \/ op' = op
  ELSE db[e] = None \/ (op.name = "reset" /\ op' # op)
KeysAreKept == [][\A e \in Endpoints : Kept(e)]_vars

=============================================================================
