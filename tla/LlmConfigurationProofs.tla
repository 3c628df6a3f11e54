----------------------- MODULE LlmConfigurationProofs -----------------------
(***************************************************************************)
(* Proofs about LlmConfiguration, for any number of endpoints, settings,   *)
(* master keys and outside changes of the key file.  The invariant has     *)
(* three parts beside the types: what the secret store holds (StoreInv),   *)
(* where the operation under way stands and what it relies on              *)
(* (OperationInv), and how old the keys and the frozen routes are          *)
(* (RouteInv).  A step is looked at three times: what its calls leave of   *)
(* the store, what it does to the settings, the session and the requests,  *)
(* and where it takes the operation.                                       *)
(***************************************************************************)
EXTENDS LlmConfiguration, TLAPS

(* The store: one record at a time; whoever writes keeps the key it has      *)
(* verified, which opens that record; a plaintext that can be served was     *)
(* decrypted under the copy of the key that goes with it.                    *)
StoreInv ==
  /\ \A e, f \in Stored : e = f
  /\ writer.by = None => writer = NoWriter
  /\ writer.by # None =>
       writer.key \in Keys /\ \A e \in Stored : db[e].key = writer.key
  /\ writer.by = App => master = writer.key
  /\ \A e \in Endpoints :
       cache[e] # None /\ cache[e] = db[e] => cache[e].key = master

(* Which operation can be at which step. *)
StepOf(name) ==
  CASE name = "none" -> {"none"}
    [] name = "llm" -> {"gate", "load", "mutable", "oldRoute", "newRoute",
                        "delete", "replace", "deleteOld"}
    [] name = "bridge" -> {"gate", "load", "replace"}
    [] name = "key" -> {"gate", "load", "mutable", "begin", "commit",
                        "inspect"}
    [] name = "reveal" -> {"gate", "load", "inspect", "read"}
    [] name = "delete" -> {"gate", "inspectStore", "destroy"}
    [] name = "reset" -> {"gate", "inspectStore", "destroy", "verify"}
    [] name = "probe" -> {"gate", "load", "resolve", "request"}
    [] name = "status" -> {"gate", "load", "inspectStore", "resolve"}

(* The endpoint an operation works on, from its load of the settings to the  *)
(* last step that relies on it; and the gate that keeps a start away.        *)
OperationInv ==
  /\ op.step \in StepOf(op.name) /\ (op.name = "none" => op = NoOp)
  /\ op.name # "llm" => op.from = None
  /\ op.name = "llm" /\ op.step \notin {"gate", "load", "deleteOld"} =>
       op.to # Endpoint
  /\ op.step = "delete" => op.to # None
  /\ op.step = "deleteOld" => op.from # None
  /\ op.name = "llm" /\ op.step = "replace" /\ op.to # None =>
       db[op.to] = None
  /\ op.name \in {"key", "reveal"} /\ op.step \notin {"gate", "load"} =>
       op.to = Endpoint /\ Endpoint # None
  /\ gate = "op" <=> op.step \notin {"none", "gate", "request"}
  /\ gate = "start" <=> session.step \in {"load", "resolve"}
  /\ /\ session.step \in {"load", "resolve", "running", "processing"}
     /\ op.name \in {"llm", "key", "delete", "reset"}
     => op.step = "gate"

(* No stored key is older than a route frozen for its endpoint.              *)
NotOlder(e, n) ==
  e \in Endpoints /\ n <= stay /\ (db[e] # None => n <= db[e].value.stay)

RecordsInv ==
  \A e \in Endpoints : db[e] # None =>
    /\ db[e].value.for = e /\ db[e].value.stay <= stay
    /\ e = Endpoint => db[e].value.stay = stay

RouteInv ==
  /\ stay <= settings.version
  /\ RecordsInv
  /\ session.step \in {"running", "processing", "taken"} =>
       NotOlder(session.endpoint, session.stay)
  /\ \A c \in Callers : Waiting(c) => NotOlder(req[c].endpoint, req[c].stay)
  /\ KeyFitsRoute

-----------------------------------------------------------------------------
(* What the material of the whole store says of its records.                 *)
LEMMA StoreMaterialValues ==
  /\ StoreMaterial = "Configured" => \A e \in Stored : Readable(e)
  /\ StoreMaterial = "NotConfigured" => Stored = {}
  /\ StoreMaterial = "RecoveryRequired" => \E e \in Stored : ~Readable(e)
<1>. DEFINE found == {Material(e) : e \in Stored}
<1>1. \A e \in Stored :
        /\ Material(e) \in {"Configured", "RecoveryRequired", "error"}
        /\ Material(e) = "Configured" <=> Readable(e)
  BY DEF Material, Stored
<1>2. \A e \in Stored : Material(e) \in found
  OBVIOUS
<1>3. \A m \in found : \E e \in Stored : m = Material(e)
  OBVIOUS
<1>4. found = {} => Stored = {}
  OBVIOUS
<1>5. StoreMaterial = IF found = {} THEN "NotConfigured"
                      ELSE IF "error" \in found THEN "error"
                      ELSE IF "RecoveryRequired" \in found
                           THEN "RecoveryRequired" ELSE "Configured"
  BY DEF StoreMaterial
<1>. HIDE DEF found
<1>6. StoreMaterial = "Configured" =>
        "error" \notin found /\ "RecoveryRequired" \notin found
  BY <1>5
<1>7. StoreMaterial = "NotConfigured" => found = {}
  BY <1>5
<1>8. StoreMaterial = "RecoveryRequired" => "RecoveryRequired" \in found
  BY <1>5
<1>9. StoreMaterial = "Configured" => \A e \in Stored : Readable(e)
  BY <1>1, <1>2, <1>6
<1>10. StoreMaterial = "RecoveryRequired" => \E e \in Stored : ~Readable(e)
  BY <1>1, <1>3, <1>8
<1>. QED
  BY <1>4, <1>7, <1>9, <1>10

(* What a call of the store that writes no record leaves: the records, and   *)
(* no reservation that was not there.                                        *)
LEMMA LooksKeepStore ==
  ASSUME SecretsTypeOK, StoreInv, NEW e \in Endpoints, NEW result,
         Inspect(e, result) \/ InspectStore(result) \/ Read(e, result)
  PROVE  SecretsTypeOK' /\ StoreInv' /\ UNCHANGED <<db, keyFile, writer>>
<1>. USE SecretsAssumption
         DEF SecretsTypeOK, StoreInv, Unlocked, ClearCache, ReloadKey, Forget,
             Empty, Stored, KeyStates, NotKeys, Keys
<1>1. CASE Inspect(e, result)
  BY <1>1 DEF Inspect, Material, Readable, Opens
<1>2. CASE InspectStore(result)
  BY <1>2, StoreMaterialValues DEF InspectStore, Readable, Opens
<1>3. CASE Read(e, result)
  BY <1>3 DEF Read, Verified, CacheHit, Opens
<1>. QED
  BY <1>1, <1>2, <1>3

(* A write takes the reservation with a key that opens every record.         *)
LEMMA BeginWriteKeepsStore ==
  ASSUME SecretsTypeOK, StoreInv, NEW p \in {App, Other}, NEW result,
         BeginWrite(p, result)
  PROVE  SecretsTypeOK' /\ StoreInv' /\ db' = db
<1>. DEFINE Fits == /\ KeyFits
                    /\ writer' = [by |-> p, key |-> keyFile]
                    /\ ReloadKey(p) /\ UNCHANGED <<keyFile, fresh>>
            Makes == /\ MayMakeKey /\ fresh \in Keys
                     /\ keyFile' = fresh /\ fresh' = fresh + 1
                     /\ master' = IF p = App THEN fresh ELSE master
                     /\ \/ writer' = [by |-> p, key |-> fresh]
                        \/ UNCHANGED writer
            Fails == /\ UNCHANGED <<keyFile, fresh, writer>>
                     /\ ReloadKey(p) \/ UNCHANGED master
<1>1. Fits \/ Makes \/ Fails
  BY DEF BeginWrite
<1>2. writer = NoWriter /\ ClearCache(p) /\ UNCHANGED <<db, damage>>
  BY DEF BeginWrite
<1>3. db' = db
  BY <1>2
<1>. USE SecretsAssumption
         DEF SecretsTypeOK, StoreInv, ClearCache, ReloadKey, Empty, Stored,
             NoWriter
<1>4. CASE Fits
  BY <1>2, <1>4 DEF KeyFits, Opens
<1>5. CASE Makes
  <2>1. fresh \in Keys /\ keyFile' \in KeyStates /\ master' \in KeyStates
        /\ fresh' \in 1..(MaxKeys + 1)
    BY <1>5 DEF Keys, KeyStates
  <2>2. Stored = {} /\ cache' \in [Endpoints -> Records \cup {None}]
    BY <1>2, <1>5 DEF MayMakeKey
  <2>3. CASE writer' = [by |-> p, key |-> fresh]
    BY <1>2, <1>5, <2>1, <2>2, <2>3
  <2>4. CASE UNCHANGED writer
    BY <1>2, <1>5, <2>1, <2>2, <2>4
  <2>. QED
    BY <1>5, <2>3, <2>4
<1>6. CASE Fails
  BY <1>2, <1>6
<1>. HIDE DEF SecretsTypeOK, StoreInv, Fits, Makes, Fails
<1>. QED
  BY <1>1, <1>3, <1>4, <1>5, <1>6

(* A commit leaves the records as they were or the new one alone, and then   *)
(* every record there was could be read.                                     *)
LEMMA CommitWriteKeepsStore ==
  ASSUME SecretsTypeOK, StoreInv, NEW p \in {App, Other}, NEW e \in Endpoints,
         NEW value \in Secrets, NEW result, CommitWrite(p, e, value, result)
  PROVE  /\ SecretsTypeOK' /\ StoreInv'
         /\ \/ db' = db
            \/ /\ db'[e].value = value
               /\ \A f \in Endpoints \ {e} : db'[f] = None
               /\ \A f \in Stored : Readable(f)
<1>. USE SecretsAssumption
         DEF SecretsTypeOK, StoreInv, ClearCache, ReloadKey, Empty, Stored,
             KeyStates, NotKeys, Keys, NoWriter, Verified
<1>. DEFINE record == [key |-> writer.key, value |-> value,
                       nonce |-> FreshNonce(e)]
<1>1. CASE /\ Verified(writer.key) /\ result = "ok"
           /\ db' = [Empty EXCEPT ![e] = record]
           /\ cache' = IF p = App THEN [cache EXCEPT ![e] = record] ELSE cache
           /\ writer.by = p /\ writer' = NoWriter
           /\ UNCHANGED <<master, keyFile, fresh, damage>>
  <2>1. /\ FreshNonce(e) \in {0, 1}
        /\ cache[e] # None => FreshNonce(e) # cache[e].nonce
    BY DEF FreshNonce, Records
  <2>2. record \in Records /\ record.key = writer.key /\ record.value = value
        /\ record.nonce = FreshNonce(e)
    BY <1>1, <2>1 DEF Records
  <2>. HIDE DEF record
  <2>3. db'[e] = record /\ \A f \in Endpoints \ {e} : db'[f] = None
    BY <1>1
  <2>4. db' \in [Endpoints -> Records \cup {None}]
    BY <1>1, <2>2
  <2>5. cache' \in [Endpoints -> Records \cup {None}]
    BY <1>1, <2>2
  <2>6. \A f \in Stored : Readable(f)
    BY <1>1 DEF Readable, Opens
  <2>7. SecretsTypeOK'
    BY <1>1, <2>4, <2>5
  <2>8. \A f \in Endpoints : cache'[f] # None /\ cache'[f] = db'[f] =>
          cache'[f].key = master'
    BY <1>1, <2>1, <2>2, <2>3
  <2>. QED
    BY <1>1, <2>2, <2>3, <2>6, <2>7, <2>8
<1>2. CASE /\ result = "error" /\ UNCHANGED db /\ ClearCache(p)
           /\ (IF Verified(writer.key) THEN UNCHANGED master ELSE ReloadKey(p))
           /\ writer.by = p /\ writer' = NoWriter
           /\ UNCHANGED <<keyFile, fresh, damage>>
  BY <1>2
<1>. QED
  BY <1>1, <1>2 DEF CommitWrite

(* A deletion only takes records away, and only when it is allowed.          *)
LEMMA RemoveKeepsStore ==
  ASSUME SecretsTypeOK, StoreInv, NEW p \in {App, Other},
         NEW gone \in SUBSET Endpoints, NEW allowed \in BOOLEAN, NEW result,
         Remove(p, gone, allowed, result)
  PROVE  /\ SecretsTypeOK' /\ StoreInv' /\ keyFile' = keyFile
         /\ \/ db' = db
            \/ allowed /\ result = "ok"
               /\ \A e \in Endpoints :
                    db'[e] = IF e \in gone THEN None ELSE db[e]
         /\ result = "ok" => \A e \in gone : db'[e] = None
<1>. USE SecretsAssumption
         DEF SecretsTypeOK, StoreInv, ClearCache, ReloadKey, Empty, Stored,
             KeyStates, NotKeys, Keys, NoWriter, Remove
<1>1. CASE result = "ok" /\ allowed
           /\ db' = [e \in Endpoints |-> IF e \in gone THEN None ELSE db[e]]
  BY <1>1
<1>2. CASE result = "error" /\ UNCHANGED db
  BY <1>2
<1>. QED
  BY <1>1, <1>2

(* What happens to the key file and the application outside of any call.     *)
LEMMA OutsideKeepsStore ==
  ASSUME SecretsTypeOK, StoreInv, DamageKeyFile \/ Reopen
  PROVE  SecretsTypeOK' /\ StoreInv' /\ db' = db
  BY SecretsAssumption
     DEF SecretsTypeOK, StoreInv, DamageKeyFile, Reopen, Empty, Stored,
         KeyStates, NotKeys, Keys, NoWriter, Missing, Newer, Special

-----------------------------------------------------------------------------
(* A route is resolved without a change to the records, and it is ready only *)
(* for an endpoint.                                                          *)
LEMMA ResolutionKeepsStore ==
  ASSUME SecretsTypeOK, StoreInv, NEW e \in Endpoints \cup {None}, NEW result,
         Resolution(e, result)
  PROVE  /\ SecretsTypeOK' /\ StoreInv' /\ UNCHANGED <<db, keyFile, writer>>
         /\ result = "Ready" => e \in Endpoints
<1>1. CASE e = None
  <2>1. UNCHANGED secretVars /\ result # "Ready"
    BY <1>1 DEF Resolution
  <2>. QED
    BY <2>1 DEF secretVars, SecretsTypeOK, StoreInv, Stored
<1>2. CASE e # None
  <2>1. e \in Endpoints
    BY <1>2
  <2>2. \E m : Inspect(e, m)
    BY <1>2 DEF Resolution
  <2>. QED
    BY <2>1, <2>2, LooksKeepStore
<1>. QED
  BY <1>1, <1>2

(* The records a step may leave: those there were or fewer, or the one key   *)
(* that is being entered for the endpoint in force.                          *)
Shrinks == \A e \in Endpoints : db'[e] \in {db[e], None}
Enters ==
  /\ Endpoint \in Endpoints /\ db'[Endpoint].value = Entered
  /\ \A e \in Endpoints \ {Endpoint} : db'[e] = None
  /\ \A e \in Stored : Readable(e)

(* A key is deleted, all of them are, or the store is reset.                 *)
LEMMA DeletionsKeepStore ==
  ASSUME SecretsTypeOK, StoreInv, NEW p \in {App, Other}, NEW result,
         \/ \E e \in Endpoints : Delete(p, e, result)
         \/ DeleteNamespace(p, result)
         \/ ResetUnrecoverable(p, result)
  PROVE  SecretsTypeOK' /\ StoreInv' /\ Shrinks /\ keyFile' = keyFile
<1>1. ASSUME NEW e \in Endpoints, Delete(p, e, result)
      PROVE  SecretsTypeOK' /\ StoreInv' /\ Shrinks /\ keyFile' = keyFile
  <2>. DEFINE allowed == Material(e) \in {"NotConfigured", "Configured"}
  <2>1. allowed \in BOOLEAN /\ {e} \in SUBSET Endpoints
    OBVIOUS
  <2>2. Remove(p, {e}, allowed, result)
    BY <1>1 DEF Delete
  <2>. HIDE DEF allowed
  <2>. QED
    BY <2>1, <2>2, RemoveKeepsStore DEF Shrinks
<1>2. CASE DeleteNamespace(p, result)
  <2>. DEFINE allowed == StoreMaterial \in {"NotConfigured", "Configured"}
  <2>1. allowed \in BOOLEAN /\ Remove(p, Endpoints, allowed, result)
    BY <1>2 DEF DeleteNamespace
  <2>. HIDE DEF allowed
  <2>. QED
    BY <2>1, RemoveKeepsStore DEF Shrinks
<1>3. CASE ResetUnrecoverable(p, result)
  <2>. DEFINE allowed == StoreMaterial = "RecoveryRequired"
  <2>1. allowed \in BOOLEAN /\ Remove(p, Endpoints, allowed, result)
    BY <1>3 DEF ResetUnrecoverable
  <2>. HIDE DEF allowed
  <2>. QED
    BY <2>1, RemoveKeepsStore DEF Shrinks
<1>. QED
  BY <1>1, <1>2, <1>3

(* A load migrates the file at most; a replacement is the value under the    *)
(* next version or nothing.                                                  *)
LEMMA SettingsCalls ==
  ASSUME SettingsTypeOK
  PROVE  /\ \A result : Load(result) =>
              /\ SettingsTypeOK' /\ settings'.value = settings.value
              /\ settings'.version = settings.version
         /\ \A expected \in 0..MaxVersion, value \in Values : \A result :
              Replace(expected, value, result) =>
                /\ SettingsTypeOK'
                /\ \/ settings' = settings
                   \/ /\ settings'.value = value
                      /\ settings'.version = settings.version + 1
  BY SettingsAssumption
     DEF SettingsTypeOK, Load, Migrated, Commit, Replace, Schemas

(* The store's part of a step: its calls keep the store as StoreInv says.    *)
StoreSteps ==
  /\ SecretsTypeOK' /\ StoreInv'
  /\ \/ Shrinks
     \/ Enters /\ UNCHANGED <<settings, stay>>

(* A step that does not call the store. *)
LEMMA NoCallKeepsStore ==
  ASSUME SecretsTypeOK, StoreInv, UNCHANGED secretVars
  PROVE  StoreSteps
  BY DEF secretVars, SecretsTypeOK, StoreInv, Stored, StoreSteps, Shrinks

(* What the user enters is a key for the endpoint in force. *)
LEMMA EnteredTyped ==
  ASSUME TypeOK, Endpoint \in Endpoints PROVE Entered \in Secrets
  BY DEF TypeOK, Entered, Secrets

(* A step of a configuration command calls the store as StoreSteps says.     *)
LEMMA OperationCallsStore ==
  ASSUME TypeOK, StoreInv, OperationInv, OperationStep
  PROVE  StoreSteps
<1>. USE DEF StoreSteps
<1>a. SecretsTypeOK /\ Endpoint \in Endpoints \cup {None}
      /\ op.to \in Endpoints \cup {None} /\ op.from \in Endpoints \cup {None}
  BY ValuesHaveAnEndpoint DEF TypeOK, SettingsTypeOK, Endpoint
<1>b. /\ op.step = "delete" => op.to \in Endpoints
      /\ op.step = "deleteOld" => op.from \in Endpoints
      /\ op.step = "commit" => op.to = Endpoint
      /\ op.step \in {"commit", "inspect", "read"} => op.to \in Endpoints
  BY <1>a DEF OperationInv, StepOf, TypeOK, Names
<1>c. db' = db => Shrinks
  BY DEF Shrinks
<1>1. CASE TakeGate \/ LoadSettings \/ ReplaceSettings \/ ProbeReturns
  <2>1. UNCHANGED secretVars
    BY <1>1 DEF TakeGate, LoadSettings, ReplaceSettings, ProbeReturns
  <2>. QED
    BY <1>a, <2>1, NoCallKeepsStore
<1>2. CASE EnsureMutable \/ InspectBefore \/ VerifyReset
  <2>1. \E m : InspectStore(m)
    BY <1>2 DEF EnsureMutable, InspectBefore, VerifyReset
  <2>2. CASE Endpoints = {}
    <3>1. UNCHANGED db
      BY <2>1 DEF InspectStore
    <3>2. SecretsTypeOK' /\ StoreInv'
      BY <1>a, <2>1, <2>2, StoreMaterialValues, SecretsAssumption
         DEF InspectStore, SecretsTypeOK, StoreInv, Unlocked, ClearCache,
             ReloadKey, Empty, Stored, KeyStates, NotKeys, Keys
    <3>. QED
      BY <1>c, <3>1, <3>2
  <2>3. CASE \E e : e \in Endpoints
    BY <1>a, <1>c, <2>1, <2>3, LooksKeepStore
  <2>. QED
    BY <2>2, <2>3
<1>3. CASE ResolveOldRoute \/ ResolveNewRoute \/ ResolveForOp
  <2>1. \E e \in Endpoints \cup {None} : \E r : Resolution(e, r)
    BY <1>a, <1>3 DEF ResolveOldRoute, ResolveNewRoute, ResolveForOp
  <2>. QED
    BY <1>a, <1>c, <2>1, ResolutionKeepsStore
<1>4. CASE DeleteAtNew \/ DeleteAtOld \/ Destroy
  <2>1. \E result : \/ \E e \in Endpoints : Delete(App, e, result)
                    \/ DeleteNamespace(App, result)
                    \/ ResetUnrecoverable(App, result)
    BY <1>b, <1>4 DEF DeleteAtNew, DeleteAtOld, Destroy, At
  <2>. QED
    BY <1>a, <2>1, DeletionsKeepStore
<1>5. CASE BeginKey
  <2>1. \E result : BeginWrite(App, result)
    BY <1>5 DEF BeginKey
  <2>. QED
    BY <1>a, <1>c, <2>1, BeginWriteKeepsStore
<1>6. CASE CommitKey
  <2>1. \E result : CommitWrite(App, Endpoint, Entered, result)
    BY <1>b, <1>6 DEF CommitKey, At
  <2>2. Endpoint \in Endpoints /\ UNCHANGED <<settings, stay>>
    BY <1>b, <1>6 DEF CommitKey, At
  <2>3. Entered \in Secrets
    BY <2>2, EnteredTyped
  <2>. HIDE DEF Endpoint, Entered
  <2>. QED
    BY <1>a, <1>c, <2>1, <2>2, <2>3, CommitWriteKeepsStore DEF Enters
<1>7. CASE InspectKey \/ RevealKey
  <2>1. \E r : Inspect(op.to, r) \/ Read(op.to, r)
    BY <1>7 DEF InspectKey, RevealKey
  <2>2. op.to \in Endpoints
    BY <1>b, <1>7 DEF InspectKey, RevealKey, At
  <2>. QED
    BY <1>a, <1>c, <2>1, <2>2, LooksKeepStore
<1>. QED
  BY <1>1, <1>2, <1>3, <1>4, <1>5, <1>6, <1>7 DEF OperationStep

(* So does a step of the session, the provider, another process or nobody.   *)
LEMMA OthersCallStore ==
  ASSUME TypeOK, StoreInv, RouteInv,
         \/ SessionStep \/ Provider \/ OtherProcess \/ Damage \/ Crash
         \/ Submit
  PROVE  StoreSteps
<1>. USE DEF StoreSteps
<1>a. SecretsTypeOK /\ Endpoint \in Endpoints \cup {None}
  BY ValuesHaveAnEndpoint DEF TypeOK, SettingsTypeOK, Endpoint
<1>c. db' = db => Shrinks
  BY DEF Shrinks
<1>1. CASE SessionStep
  <2>1. CASE ResolveForSession
    <3>1. \E e \in Endpoints \cup {None} : \E r : Resolution(e, r)
      BY <1>a, <2>1 DEF ResolveForSession
    <3>. QED
      BY <1>a, <1>c, <3>1, ResolutionKeepsStore
  <2>2. CASE ~ResolveForSession
    <3>1. UNCHANGED secretVars
      BY <1>1, <2>2 DEF SessionStep, StartSession, LoadForSession, ProcessText,
                        EndSession, TakeSession, CancelTaken
    <3>. QED
      BY <1>a, <3>1, NoCallKeepsStore
  <2>. QED
    BY <2>1, <2>2
<1>2. CASE Provider
  <2>1. PICK c \in Callers : SendRequest(c) \/ Answered(c) \/ WakeCancelled(c)
    BY <1>2 DEF Provider, ProviderStep
  <2>2. CASE SendRequest(c)
    <3>1. req[c].endpoint \in Endpoints
      BY <2>2 DEF SendRequest, RouteInv, Waiting, NotOlder
    <3>2. \E r : Read(req[c].endpoint, r)
      BY <2>2 DEF SendRequest
    <3>. QED
      BY <1>a, <1>c, <3>1, <3>2, LooksKeepStore
  <2>3. CASE Answered(c) \/ WakeCancelled(c)
    BY <1>a, <2>3, NoCallKeepsStore DEF Answered, WakeCancelled
  <2>. QED
    BY <2>1, <2>2, <2>3
<1>3. CASE OtherProcess
  <2>1. CASE \E result : BeginWrite(Other, result)
    BY <1>a, <1>c, <2>1, BeginWriteKeepsStore
  <2>2. CASE /\ \E result : CommitWrite(Other, Endpoint, Entered, result)
             /\ Endpoint # None /\ UNCHANGED <<settings, stay>>
    <3>1. Endpoint \in Endpoints /\ UNCHANGED <<settings, stay>>
      BY <1>a, <2>2
    <3>2. Entered \in Secrets
      BY <3>1, EnteredTyped
    <3>. HIDE DEF Endpoint, Entered
    <3>. QED
      BY <1>a, <1>c, <2>2, <3>1, <3>2, CommitWriteKeepsStore DEF Enters
  <2>3. CASE \E result : DeleteNamespace(Other, result)
    BY <1>a, <2>3, DeletionsKeepStore
  <2>4. CASE UNCHANGED secretVars
    BY <1>a, <2>4, NoCallKeepsStore
  <2>. QED
    BY <1>3, <2>1, <2>2, <2>3, <2>4 DEF OtherProcess, control
<1>4. CASE Damage \/ Crash
  BY <1>a, <1>c, <1>4, OutsideKeepsStore DEF Damage, Crash
<1>5. CASE Submit
  BY <1>a, <1>5, NoCallKeepsStore DEF Submit
<1>. QED
  BY <1>1, <1>2, <1>3, <1>4, <1>5

-----------------------------------------------------------------------------
(* The values of the steps of an operation, and the names they go with.      *)
LEMMA OperationSteps ==
  ASSUME TypeOK, OperationInv
  PROVE  /\ op.step = "replace" => op.name \in {"llm", "bridge"}
         /\ op.step \in {"mutable", "begin", "commit"} =>
              op.name \in {"llm", "key"}
         /\ op.step \in {"delete", "deleteOld"} => op.name = "llm"
         /\ op.step \in {"begin", "commit"} => op.name = "key"
         /\ op.step = "destroy" => op.name \in {"delete", "reset"}
         /\ op.step \in {"inspect", "read"} => op.name \in {"key", "reveal"}
         /\ op.step = "request" => op.name = "probe"
  BY DEF TypeOK, Names, OperationInv, StepOf

(* What ReplaceSettings may do. *)
LEMMA ReplaceValues ==
  ASSUME TypeOK, OperationInv, ReplaceSettings
  PROVE  /\ SettingsTypeOK' /\ UNCHANGED <<secretVars, req, session>>
         /\ \/ UNCHANGED <<settings, stay>>
            \/ /\ op.name = "bridge" /\ Endpoint' = Endpoint /\ stay' = stay
               /\ settings'.version = settings.version + 1
            \/ /\ op.name = "llm" /\ op.to \in Endpoints \cup {None}
               /\ op.to # Endpoint /\ Endpoint' = op.to
               /\ stay' = stay + 1
               /\ settings'.version = settings.version + 1
<1>. DEFINE value == IF op.name = "llm"
                     THEN [settings.value EXCEPT !.llm = op.to]
                     ELSE settings.value
<1>1. /\ settings.value \in Values /\ op.version \in 0..MaxVersion
      /\ op.to \in Endpoints \cup {None} /\ SettingsTypeOK
  BY DEF TypeOK, SettingsTypeOK
<1>2. /\ value \in Values
      /\ value.llm = IF op.name = "llm" THEN op.to ELSE settings.value.llm
  BY <1>1, ValuesHaveAnEndpoint
<1>3. /\ \E result : Replace(op.version, value, result)
      /\ stay' = IF settings'.value.llm # Endpoint THEN stay + 1 ELSE stay
      /\ UNCHANGED <<secretVars, req, session>> /\ op.step = "replace"
  BY DEF ReplaceSettings, At
<1>4. /\ op.name \in {"llm", "bridge"}
      /\ op.name = "llm" => op.to # Endpoint
  BY <1>3, OperationSteps DEF OperationInv
<1>. HIDE DEF value
<1>5. /\ SettingsTypeOK'
      /\ \/ settings' = settings
         \/ /\ settings'.value = value
            /\ settings'.version = settings.version + 1
  BY <1>1, <1>2, <1>3, SettingsCalls
<1>6. op.to \in Endpoints \cup {None} /\ stay + 1 # stay
      /\ Endpoint = settings.value.llm /\ Endpoint' = settings'.value.llm
  BY <1>1 DEF Endpoint, TypeOK
<1>7. CASE settings' = settings
  BY <1>3, <1>5, <1>6, <1>7
<1>8. CASE settings' # settings /\ op.name = "llm"
  <2>1. /\ settings'.value = value
        /\ settings'.version = settings.version + 1
    BY <1>5, <1>8
  <2>2. Endpoint' = op.to
    BY <1>2, <1>6, <1>8, <2>1
  <2>3. op.to # Endpoint
    BY <1>4, <1>8
  <2>4. stay' = stay + 1
    BY <1>3, <1>6, <2>2, <2>3
  <2>. QED
    BY <1>3, <1>5, <1>6, <1>8, <2>1, <2>2, <2>3, <2>4
<1>9. CASE settings' # settings /\ op.name # "llm"
  <2>1. /\ settings'.value = value
        /\ settings'.version = settings.version + 1
        /\ op.name = "bridge"
    BY <1>4, <1>5, <1>9
  <2>2. Endpoint' = Endpoint
    BY <1>2, <1>6, <1>9, <2>1
  <2>3. stay' = stay
    BY <1>3, <1>6, <2>2
  <2>. QED
    BY <1>3, <1>5, <2>1, <2>2, <2>3
<1>. QED
  BY <1>7, <1>8, <1>9

(* The records stay no older than the routes frozen for their endpoints.     *)
LEMMA RecordsStayFresh ==
  ASSUME TypeOK, OperationInv, RecordsInv, StoreSteps,
         \/ Endpoint' = Endpoint /\ stay' = stay
         \/ ReplaceSettings
  PROVE  /\ RecordsInv'
         /\ \A e, n : n \in 0..MaxVersion /\ NotOlder(e, n) => NotOlder(e, n)'
<1>1. /\ stay \in Nat
      /\ \A e \in Endpoints : db[e] # None => db[e].value.stay \in Nat
  BY DEF TypeOK, SecretsTypeOK, Records, Secrets
<1>2. CASE Endpoint' = Endpoint /\ stay' = stay /\ Shrinks
  BY <1>2 DEF RecordsInv, Shrinks, NotOlder
<1>3. CASE Endpoint' = Endpoint /\ stay' = stay /\ Enters
  <2>1. /\ Endpoint \in Endpoints /\ db'[Endpoint].value.for = Endpoint
        /\ db'[Endpoint].value.stay = stay
        /\ \A e \in Endpoints \ {Endpoint} : db'[e] = None
    BY <1>3 DEF Enters, Entered
  <2>2. RecordsInv'
    BY <1>1, <1>3, <2>1 DEF RecordsInv
  <2>3. ASSUME NEW e, NEW n \in 0..MaxVersion, NotOlder(e, n)
        PROVE  NotOlder(e, n)'
    BY <1>1, <1>3, <2>1, <2>3 DEF NotOlder
  <2>. QED
    BY <2>2, <2>3
<1>4. CASE ReplaceSettings
  <2>1. db' = db
    BY <1>4, ReplaceValues DEF secretVars
  <2>2. op.step = "replace"
    BY <1>4 DEF ReplaceSettings, At
  <2>3. op.name = "llm" /\ op.to # None => db[op.to] = None
    BY <2>2 DEF OperationInv
  <2>4. \/ Endpoint' = Endpoint /\ stay' = stay
        \/ /\ stay' = stay + 1 /\ Endpoint' # Endpoint
           /\ Endpoint' \in Endpoints => db[Endpoint'] = None
    BY <1>4, <2>3, ReplaceValues, SecretsAssumption DEF Endpoint
  <2>. QED
    BY <1>1, <2>1, <2>4 DEF RecordsInv, NotOlder
<1>. QED
  BY <1>2, <1>3, <1>4 DEF StoreSteps, ReplaceSettings

(* Whoever freezes a ready route for the endpoint in force has no older key  *)
(* than the one that is stored for it.                                       *)
LEMMA RouteIsFresh ==
  ASSUME TypeOK, RecordsInv, Endpoint \in Endpoints
  PROVE  NotOlder(Endpoint, stay)
  BY DEF TypeOK, SecretsTypeOK, Records, Secrets, RecordsInv, NotOlder

-----------------------------------------------------------------------------
(* What a read gives away is the record of the database, and it is readable. *)
LEMMA ReadGivesTheStored ==
  ASSUME SecretsTypeOK, StoreInv, NEW e \in Endpoints, NEW result,
         Read(e, result), result \notin {None, Failed}
  PROVE  Readable(e) /\ db[e] # None /\ result = db[e].value
  BY DEF SecretsTypeOK, StoreInv, Read, CacheHit, Verified, Readable, Opens

(* What a step does to the settings and to the endpoint in force.            *)
LEMMA SettingsSteps ==
  ASSUME TypeOK, OperationInv, stay <= settings.version, [Next]_vars
  PROVE  /\ SettingsTypeOK' /\ stay' \in 0..MaxVersion
         /\ stay' <= settings'.version
         /\ \/ Endpoint' = Endpoint /\ stay' = stay
            \/ ReplaceSettings
<1>a. /\ SettingsTypeOK /\ stay \in 0..MaxVersion
      /\ settings.value \in Values /\ settings.version \in 0..MaxVersion
  BY DEF TypeOK, SettingsTypeOK
<1>1. CASE ReplaceSettings
  <2>1. /\ SettingsTypeOK' /\ settings'.version \in 0..MaxVersion
        /\ \/ settings'.version = settings.version /\ stay' = stay
           \/ /\ settings'.version = settings.version + 1
              /\ stay' \in {stay, stay + 1}
    BY <1>1, ReplaceValues DEF SettingsTypeOK
  <2>2. stay' \in 0..MaxVersion /\ stay' <= settings'.version
    BY <1>a, <2>1, SettingsAssumption
  <2>. QED
    BY <1>1, <2>1, <2>2
<1>2. CASE /\ \/ UNCHANGED settings
              \/ \E result : Load(result)
              \/ Replace(settings.version, settings.value, "ok")
           /\ stay' = stay
  <2>1. /\ SettingsTypeOK' /\ settings'.value = settings.value
        /\ \/ settings'.version = settings.version
           \/ settings'.version = settings.version + 1
    BY <1>a, <1>2, SettingsCalls DEF SettingsTypeOK
  <2>. QED
    BY <1>a, <1>2, <2>1 DEF Endpoint
<1>3. CASE ~ReplaceSettings
  <2>1. CASE Submit \/ SessionStep \/ Provider \/ Damage \/ Crash
    BY <1>2, <2>1 DEF Submit, SessionStep, StartSession, LoadForSession,
      ResolveForSession, ProcessText, EndSession, TakeSession, CancelTaken,
      Provider, Damage, Crash, control
  <2>2. CASE OperationStep
    BY <1>2, <1>3, <2>2 DEF OperationStep, TakeGate, LoadSettings,
      EnsureMutable, ResolveOldRoute, ResolveNewRoute, DeleteAtNew,
      DeleteAtOld, BeginKey, CommitKey, InspectKey, RevealKey, InspectBefore,
      Destroy, VerifyReset, ResolveForOp, ProbeReturns
  <2>3. CASE OtherProcess
    BY <1>2, <2>3 DEF OtherProcess, control
  <2>4. CASE UNCHANGED vars
    BY <1>2, <2>4 DEF vars, control
  <2>. QED
    BY <2>1, <2>2, <2>3, <2>4 DEF Next
<1>. QED
  BY <1>1, <1>3

(* A session keeps its route, or freezes the one of the endpoint in force.   *)
RouteKept ==
  /\ session.step \in {"running", "processing", "taken"}
  /\ session'.endpoint = session.endpoint /\ session'.stay = session.stay
RouteFrozen ==
  /\ Endpoint \in Endpoints /\ Endpoint' = Endpoint /\ stay' = stay
  /\ session'.endpoint = Endpoint /\ session'.stay = stay

(* What a step does to the session: a route it has after the step it had     *)
(* before, or it has frozen it now.                                          *)
LEMMA SessionSteps ==
  ASSUME TypeOK, StoreInv, [Next]_vars
  PROVE  /\ session' \in [step : {"idle", "load", "resolve", "running",
                                  "processing", "taken"},
                          endpoint : Endpoints \cup {None},
                          stay : 0..MaxVersion]
         /\ session'.step \in {"running", "processing", "taken"} =>
              RouteKept \/ RouteFrozen
<1>a. /\ SecretsTypeOK /\ stay \in 0..MaxVersion
      /\ Endpoint \in Endpoints \cup {None}
  BY ValuesHaveAnEndpoint DEF TypeOK, SettingsTypeOK, Endpoint
<1>b. NoSession \in [step : {"idle", "load", "resolve", "running",
                             "processing", "taken"},
                     endpoint : Endpoints \cup {None}, stay : 0..MaxVersion]
  BY <1>a, SettingsAssumption DEF NoSession
<1>1. CASE SessionStep
  <2>1. CASE ResolveForSession
    <3>1. PICK r : /\ Resolution(Endpoint, r) /\ UNCHANGED <<settings, stay>>
                   /\ session' = IF r = "Ready" THEN Route(Endpoint)
                                 ELSE NoSession
      BY <2>1 DEF ResolveForSession
    <3>2. r = "Ready" => Endpoint \in Endpoints
      BY <1>a, <3>1, ResolutionKeepsStore
    <3>. QED
      BY <1>a, <1>b, <3>1, <3>2 DEF Route, NoSession, RouteFrozen, Endpoint
  <2>2. CASE StartSession \/ LoadForSession \/ ProcessText \/ EndSession
             \/ TakeSession \/ CancelTaken
    BY <1>b, <2>2 DEF StartSession, LoadForSession, ProcessText, EndSession,
      TakeSession, CancelTaken, NoSession, RouteKept, TypeOK
  <2>. QED
    BY <1>1, <2>1, <2>2 DEF SessionStep
<1>2. CASE Crash
  BY <1>b, <1>2 DEF Crash, NoSession
<1>3. CASE session' = session
  BY <1>3 DEF RouteKept, TypeOK
<1>. QED
  BY <1>1, <1>2, <1>3 DEF Next, vars, control, Submit, OperationStep, TakeGate,
      LoadSettings, ReplaceSettings,
      EnsureMutable, ResolveOldRoute, ResolveNewRoute, DeleteAtNew,
      DeleteAtOld, BeginKey, CommitKey, InspectKey, RevealKey, InspectBefore,
      Destroy, VerifyReset, ResolveForOp, ProbeReturns, Provider,
      OtherProcess, Damage

-----------------------------------------------------------------------------
(* What a step does to a request: it registers one with the route of its     *)
(* session or of the endpoint in force, sends one with the stored key, or    *)
(* lets it be, cancels it or ends it.                                        *)
RequestKept(c) ==
  /\ Waiting(c) /\ req'[c].endpoint = req[c].endpoint
  /\ req'[c].stay = req[c].stay /\ req'[c].key = req[c].key
RequestSent(c) ==
  /\ Waiting(c) /\ req'[c].endpoint = req[c].endpoint
  /\ req'[c].stay = req[c].stay
  /\ Readable(req[c].endpoint) /\ req'[c].key = db[req[c].endpoint].value
RequestRegistered(c) ==
  /\ req'[c].key = None
  /\ \/ /\ session.step = "running" /\ req'[c].endpoint = session.endpoint
        /\ req'[c].stay = session.stay
     \/ /\ Endpoint \in Endpoints /\ Endpoint' = Endpoint /\ stay' = stay
        /\ req'[c].endpoint = Endpoint /\ req'[c].stay = stay
RequestGone(c) == req'[c] = NoRequest
RequestSteps == \A c \in Callers :
  \/ req'[c] = req[c] \/ RequestKept(c) \/ RequestSent(c)
  \/ RequestRegistered(c) \/ RequestGone(c)

(* The provider's own steps. *)
LEMMA ProviderCalls ==
  ASSUME TypeOK, StoreInv, RouteInv, ProviderStep
  PROVE  ProviderTypeOK' /\ RequestSteps
<1>. USE DEF ProviderTypeOK, NoRequest
<1>a. SecretsTypeOK /\ ProviderTypeOK /\ MaxVersion \in Nat
  BY SettingsAssumption DEF TypeOK
<1>b. NoRequest \in [step : {"none", "registered", "sent"},
                     endpoint : Endpoints \cup {None}, stay : 0..MaxVersion,
                     key : Secrets \cup {None}, cancelled : BOOLEAN]
  BY <1>a
<1>1. PICK c \in Callers : SendRequest(c) \/ Answered(c) \/ WakeCancelled(c)
  BY DEF ProviderStep
<1>2. CASE Return(c)
  BY <1>a, <1>b, <1>2 DEF Return, RequestSteps, RequestGone
<1>3. CASE SendRequest(c) /\ ~Return(c)
  <2>1. PICK r \in Secrets \cup {None, Failed} :
          /\ Read(req[c].endpoint, r) /\ r \notin {None, Failed}
          /\ req' = [req EXCEPT ![c].step = "sent", ![c].key = r]
    BY <1>3 DEF SendRequest
  <2>2. Waiting(c) /\ req[c].endpoint \in Endpoints
    BY <1>3 DEF SendRequest, Waiting, RouteInv, NotOlder
  <2>3. /\ Readable(req[c].endpoint) /\ db[req[c].endpoint] # None
        /\ r = db[req[c].endpoint].value /\ r \in Secrets
    BY <1>a, <2>1, <2>2, ReadGivesTheStored
  <2>4. /\ req'[c] = [req[c] EXCEPT !.step = "sent", !.key = r]
        /\ \A d \in Callers \ {c} : req'[d] = req[d]
        /\ ProviderTypeOK'
    BY <1>a, <2>1, <2>3
  <2>5. RequestSent(c)
    BY <1>a, <2>2, <2>3, <2>4 DEF RequestSent
  <2>. QED
    BY <2>4, <2>5 DEF RequestSteps
<1>. QED
  BY <1>1, <1>2, <1>3 DEF Answered, WakeCancelled

(* Every step does one of those to a request.                                *)
LEMMA RequestsOfAStep ==
  ASSUME TypeOK, StoreInv, RouteInv, [Next]_vars
  PROVE  ProviderTypeOK' /\ RequestSteps
<1>a. /\ SecretsTypeOK /\ ProviderTypeOK /\ stay \in 0..MaxVersion
      /\ Endpoint \in Endpoints \cup {None} /\ MaxVersion \in Nat
  BY ValuesHaveAnEndpoint, SettingsAssumption
     DEF TypeOK, SettingsTypeOK, Endpoint
<1>1. CASE req' = req
  BY <1>a, <1>1 DEF ProviderTypeOK, RequestSteps
<1>2. CASE Provider
  BY <1>2, ProviderCalls DEF Provider
<1>3. CASE Crash
  BY <1>a, <1>3 DEF Crash, ProviderTypeOK, NoRequest, RequestSteps,
                    RequestGone
<1>4. ASSUME NEW c \in Callers, NEW e \in Endpoints, NEW n \in 0..MaxVersion,
             Process(c, e, n)
      PROVE  /\ ProviderTypeOK' /\ req'[c].key = None
             /\ req'[c].endpoint = e /\ req'[c].stay = n
             /\ \A d \in Callers \ {c} : req'[d] = req[d]
  BY <1>a, <1>4 DEF ProviderTypeOK, NoRequest, Process
<1>5. CASE ProcessText
  <2>1. /\ session.step = "running"
        /\ Process("session", session.endpoint, session.stay)
    BY <1>5 DEF ProcessText
  <2>2. session.endpoint \in Endpoints /\ session.stay \in 0..MaxVersion
    BY <2>1 DEF RouteInv, NotOlder, TypeOK
  <2>3. RequestRegistered("session")
    BY <1>4, <2>1, <2>2 DEF RequestRegistered, Callers
  <2>. QED
    BY <1>4, <2>1, <2>2, <2>3 DEF RequestSteps, Callers
<1>6. CASE CancelTaken
  <2>1. Waiting("session") /\ CancelRequest("session")
    BY <1>6 DEF CancelTaken
  <2>2. /\ req' = [req EXCEPT !["session"].cancelled = TRUE]
        /\ "session" \in Callers
    BY <2>1 DEF CancelRequest, Callers
  <2>3. ProviderTypeOK'
    BY <1>a, <2>2 DEF ProviderTypeOK
  <2>4. RequestKept("session")
    BY <1>a, <2>1, <2>2 DEF RequestKept, ProviderTypeOK
  <2>5. \A d \in Callers \ {"session"} : req'[d] = req[d]
    BY <1>a, <2>2 DEF ProviderTypeOK
  <2>. QED
    BY <2>3, <2>4, <2>5 DEF RequestSteps
<1>7. CASE ResolveForOp /\ req' # req
  <2>1. PICK r : /\ Resolution(Endpoint, r) /\ r = "Ready"
                 /\ Process("probe", Endpoint, stay)
                 /\ UNCHANGED <<settings, stay>>
    BY <1>7 DEF ResolveForOp
  <2>2. Endpoint \in Endpoints /\ Endpoint' = Endpoint
    BY <1>a, <2>1, ResolutionKeepsStore DEF Endpoint
  <2>. HIDE DEF Endpoint
  <2>3. RequestRegistered("probe")
    BY <1>a, <1>4, <2>1, <2>2 DEF RequestRegistered, Callers
  <2>. QED
    BY <1>a, <1>4, <2>1, <2>2, <2>3 DEF RequestSteps, Callers
<1>. QED
  BY <1>1, <1>2, <1>3, <1>5, <1>6, <1>7
     DEF Next, vars, control, Submit, OperationStep, TakeGate, LoadSettings,
      ReplaceSettings, EnsureMutable, ResolveOldRoute, ResolveNewRoute,
      DeleteAtNew, DeleteAtOld, BeginKey, CommitKey, InspectKey, RevealKey,
      InspectBefore, Destroy, VerifyReset, ProbeReturns, SessionStep,
      StartSession, LoadForSession, ResolveForSession, EndSession,
      TakeSession, OtherProcess, Damage

(* NotOlder after the step, of a route as it was before or is after it.      *)
StaysNotOlder(e, n) ==
  e \in Endpoints /\ n <= stay' /\ (db'[e] # None => n <= db'[e].value.stay)

(* The routes stay as RouteInv says.                                         *)
LEMMA RoutesStayFresh ==
  ASSUME TypeOK, StoreInv, OperationInv, RouteInv, [Next]_vars, StoreSteps
  PROVE  RouteInv'
<1>a. /\ ProviderTypeOK /\ stay \in 0..MaxVersion /\ stay <= settings.version
      /\ RecordsInv /\ KeyFitsRoute
      /\ session.stay \in 0..MaxVersion
      /\ \A c \in Callers : req[c].stay \in 0..MaxVersion
  BY DEF TypeOK, RouteInv, ProviderTypeOK
<1>1. /\ stay' <= settings'.version
      /\ RecordsInv'
      /\ \A e, n : n \in 0..MaxVersion /\ NotOlder(e, n) => NotOlder(e, n)'
  BY <1>a, SettingsSteps, RecordsStayFresh
<1>2. \A e, n : n \in 0..MaxVersion /\ NotOlder(e, n) => StaysNotOlder(e, n)
  BY <1>1 DEF NotOlder, StaysNotOlder
<1>3. Endpoint \in Endpoints => StaysNotOlder(Endpoint, stay)
  BY <1>a, <1>2, RouteIsFresh
<1>4. session.step \in {"running", "processing", "taken"} =>
        StaysNotOlder(session.endpoint, session.stay)
  BY <1>a, <1>2 DEF RouteInv
<1>5. \A c \in Callers :
        Waiting(c) => StaysNotOlder(req[c].endpoint, req[c].stay)
  BY <1>a, <1>2 DEF RouteInv
<1>. HIDE DEF Endpoint
<1>6. session'.step \in {"running", "processing", "taken"} =>
        StaysNotOlder(session'.endpoint, session'.stay)
  BY <1>3, <1>4, SessionSteps DEF RouteKept, RouteFrozen
<1>7. ASSUME NEW c \in Callers
      PROVE  /\ req'[c].step # "none" =>
                  StaysNotOlder(req'[c].endpoint, req'[c].stay)
             /\ req'[c].key # None => req'[c].key.for = req'[c].endpoint
                                      /\ req'[c].key.stay >= req'[c].stay
  <2>1. \/ req'[c] = req[c] \/ RequestKept(c) \/ RequestSent(c)
        \/ RequestRegistered(c) \/ RequestGone(c)
    BY RequestsOfAStep DEF RequestSteps
  <2>2. req[c].key # None => req[c].key.for = req[c].endpoint
                             /\ req[c].key.stay >= req[c].stay
    BY <1>a DEF KeyFitsRoute
  <2>3. CASE req'[c] = req[c] \/ RequestKept(c)
    BY <1>5, <2>2, <2>3 DEF RequestKept, Waiting
  <2>4. CASE RequestSent(c)
    <3>1. NotOlder(req[c].endpoint, req[c].stay)
      BY <2>4 DEF RequestSent, RouteInv
    <3>2. /\ req[c].endpoint \in Endpoints /\ db[req[c].endpoint] # None
          /\ req[c].stay <= db[req[c].endpoint].value.stay
          /\ db[req[c].endpoint].value.stay \in Nat
      BY <2>4, <3>1 DEF NotOlder, RequestSent, Readable, Opens, TypeOK,
                        SecretsTypeOK, Records, Secrets
    <3>. QED
      BY <1>a, <1>5, <2>4, <3>2 DEF RequestSent, RecordsInv
  <2>5. CASE RequestRegistered(c)
    BY <1>3, <1>4, <2>5 DEF RequestRegistered
  <2>6. CASE RequestGone(c)
    BY <2>6 DEF RequestGone, NoRequest
  <2>. QED
    BY <2>1, <2>3, <2>4, <2>5, <2>6
<1>8. (\A c \in Callers :
         Waiting(c) => NotOlder(req[c].endpoint, req[c].stay))'
  BY <1>7 DEF Waiting, NotOlder, StaysNotOlder
<1>9. KeyFitsRoute'
  BY <1>7 DEF KeyFitsRoute
<1>. QED
  BY <1>1, <1>6, <1>8, <1>9 DEF RouteInv, NotOlder, StaysNotOlder

-----------------------------------------------------------------------------
(* The types of the operation under way and of the gate.                     *)
Ops == [name : Names \cup {"none"}, step : Steps, to : Endpoints \cup {None},
        from : Endpoints \cup {None}, version : 0..MaxVersion]
Gates == {"free", "op", "start"}

(* The part of OperationInv that ties the gate to who holds it, and the part *)
(* that is about the endpoint of the operation.                              *)
GateInv ==
  /\ gate = "op" <=> op.step \notin {"none", "gate", "request"}
  /\ gate = "start" <=> session.step \in {"load", "resolve"}
  /\ /\ session.step \in {"load", "resolve", "running", "processing"}
     /\ op.name \in {"llm", "key", "delete", "reset"}
     => op.step = "gate"
NameInv ==
  /\ op.step \in StepOf(op.name) /\ (op.name = "none" => op = NoOp)
  /\ op.name # "llm" => op.from = None
TargetInv ==
  /\ op.name = "llm" /\ op.step \notin {"gate", "load", "deleteOld"} =>
       op.to # Endpoint
  /\ op.step = "delete" => op.to # None
  /\ op.step = "deleteOld" => op.from # None
  /\ op.name = "llm" /\ op.step = "replace" /\ op.to # None =>
       db[op.to] = None
  /\ op.name \in {"key", "reveal"} /\ op.step \notin {"gate", "load"} =>
       op.to = Endpoint /\ Endpoint # None

(* These are the parts of OperationInv.                                      *)
LEMMA PartsOfOperationInv == OperationInv <=> NameInv /\ GateInv /\ TargetInv
  BY DEF OperationInv, NameInv, GateInv, TargetInv

(* Which step comes after the load of the settings.                          *)
LEMMA LoadedOperation ==
  ASSUME TypeOK, OperationInv, LoadSettings
  PROVE  /\ op.step = "load" /\ session' = session /\ Endpoint' = Endpoint
         /\ \/ Reply
            \/ /\ op' \in Ops /\ op'.name = op.name /\ op'.from = op.from
               /\ gate' = gate
               /\ \/ /\ op.name = "llm" /\ op'.step = "mutable"
                     /\ op'.to = op.to /\ op.to # Endpoint
                  \/ op.name = "bridge" /\ op'.step = "replace"
                  \/ /\ op.name = "key" /\ op'.step = "mutable"
                     /\ op'.to = Endpoint /\ Endpoint # None
                  \/ /\ op.name = "reveal" /\ op'.step = "inspect"
                     /\ op'.to = Endpoint /\ Endpoint # None
                  \/ op.name = "status" /\ op'.step = "inspectStore"
                  \/ op.name = "probe" /\ op'.step = "resolve"
<1>a. /\ op \in Ops /\ settings.version \in 0..MaxVersion
      /\ Endpoint \in Endpoints \cup {None}
      /\ op.step = "load" /\ session' = session /\ SettingsTypeOK
  BY ValuesHaveAnEndpoint
     DEF TypeOK, SettingsTypeOK, Endpoint, Ops, LoadSettings, At
<1>b. Endpoint' = Endpoint
  BY <1>a, SettingsCalls DEF LoadSettings, Endpoint
<1>. HIDE DEF Endpoint
<1>c. op.name \in {"llm", "bridge", "key", "reveal", "status", "probe"}
  BY <1>a DEF OperationInv, StepOf, Ops, Names
<1>. USE DEF Then, Ops, Steps, LoadSettings
<1>1. CASE op.name = "llm"
  BY <1>1, <1>a, <1>b
<1>2. CASE op.name = "bridge"
  BY <1>2, <1>a, <1>b
<1>3. CASE op.name \in {"key", "reveal"}
  BY <1>3, <1>a, <1>b
<1>4. CASE op.name \in {"status", "probe"}
  BY <1>4, <1>a, <1>b
<1>. QED
  BY <1>c, <1>1, <1>2, <1>3, <1>4

(* What a step of an operation leaves of the operation and the gate.         *)
LEMMA OperationsAreTyped ==
  ASSUME TypeOK, OperationInv, OperationStep
  PROVE  op' \in Ops /\ gate' \in Gates /\ NameInv' /\ GateInv'
<1>. USE DEF Ops, Gates, NameInv, GateInv, At, Then, Reply, If
<1>a. /\ op \in Ops /\ gate \in Gates /\ NameInv /\ GateInv
      /\ settings.version \in 0..MaxVersion
      /\ Endpoint \in Endpoints \cup {None}
      /\ MaxVersion \in Nat
      /\ session.step \in {"idle", "load", "resolve", "running", "processing",
                           "taken"}
  BY PartsOfOperationInv, ValuesHaveAnEndpoint, SettingsAssumption
     DEF TypeOK, SettingsTypeOK, Endpoint
<1>b. NoOp \in Ops
  BY <1>a DEF NoOp, Steps, Names
<1>. HIDE DEF Endpoint
<1>. USE DEF NoOp, Steps, Names, StepOf
<1>1. CASE TakeGate
  BY <1>a, <1>b, <1>1 DEF TakeGate, Refused, ActiveWork, FirstStep
<1>2. CASE LoadSettings
  <2>1. op' \in Ops /\ gate' \in Gates
    BY <1>a, <1>b, <1>2, LoadedOperation
  <2>2. NameInv'
    BY <1>a, <1>2, LoadedOperation
  <2>3. GateInv'
    BY <1>a, <1>2, LoadedOperation
  <2>. QED
    BY <2>1, <2>2, <2>3
<1>3. CASE EnsureMutable
  <2>1. op.name \in {"llm", "key"}
    BY <1>3, OperationSteps DEF EnsureMutable
  <2>. QED
    BY <1>a, <1>b, <1>3, <2>1 DEF EnsureMutable
<1>10. CASE ResolveOldRoute
  <2>1. op.step = "oldRoute" /\ op.name = "llm"
    BY <1>10, <1>a DEF ResolveOldRoute
  <2>. QED
    BY <1>a, <1>b, <1>10, <2>1 DEF ResolveOldRoute
<1>11. CASE ResolveNewRoute
  <2>1. op.step = "newRoute" /\ op.name = "llm"
    BY <1>11, <1>a DEF ResolveNewRoute
  <2>. QED
    BY <1>a, <1>b, <1>11, <2>1 DEF ResolveNewRoute
<1>4. CASE DeleteAtNew \/ DeleteAtOld
  BY <1>a, <1>b, <1>4 DEF DeleteAtNew, DeleteAtOld
<1>5. CASE ReplaceSettings
  <2>1. op.step = "replace" /\ op.name \in {"llm", "bridge"}
    BY <1>5, OperationSteps DEF ReplaceSettings
  <2>. QED
    BY <1>a, <1>b, <1>5, <2>1 DEF ReplaceSettings
<1>6. CASE BeginKey \/ CommitKey \/ InspectKey \/ RevealKey
  BY <1>a, <1>b, <1>6 DEF BeginKey, CommitKey, InspectKey, RevealKey
<1>7. CASE InspectBefore
  <2>1. op.step = "inspectStore" /\ op.name \in {"delete", "reset", "status"}
    BY <1>7, <1>a DEF InspectBefore
  <2>2. session' = session
    BY <1>7 DEF InspectBefore
  <2>3. CASE op.name = "delete"
    <3>1. Reply \/ Then("destroy")
      BY <1>7, <2>3 DEF InspectBefore
    <3>. QED
      BY <1>a, <1>b, <2>1, <2>2, <2>3, <3>1
  <2>4. CASE op.name = "reset"
    <3>1. Reply \/ Then("destroy")
      BY <1>7, <2>4 DEF InspectBefore
    <3>. QED
      BY <1>a, <1>b, <2>1, <2>2, <2>4, <3>1
  <2>5. CASE op.name = "status"
    <3>1. Reply \/ Then("resolve")
      BY <1>7, <2>5 DEF InspectBefore
    <3>. QED
      BY <1>a, <1>b, <2>1, <2>2, <2>5, <3>1
  <2>. QED
    BY <2>1, <2>3, <2>4, <2>5
<1>8. CASE Destroy \/ VerifyReset
  BY <1>a, <1>b, <1>8 DEF Destroy, VerifyReset
<1>9. CASE ResolveForOp \/ ProbeReturns
  BY <1>a, <1>b, <1>9 DEF ResolveForOp, ProbeReturns
<1>. QED
  BY <1>1, <1>2, <1>3, <1>4, <1>5, <1>6, <1>7, <1>8, <1>9, <1>10, <1>11
     DEF OperationStep

(* Nobody else touches the operation, but to submit one and to crash.        *)
LEMMA OthersKeepTheGate ==
  ASSUME TypeOK, OperationInv,
         \/ Submit \/ SessionStep \/ Provider \/ OtherProcess \/ Damage
         \/ Crash \/ UNCHANGED vars
  PROVE  /\ op' \in Ops /\ gate' \in Gates /\ NameInv' /\ GateInv'
         /\ op' = op \/ op' = NoOp \/ op'.step = "gate"
<1>. USE DEF Ops, Gates, NameInv, GateInv
<1>a. /\ op \in Ops /\ gate \in Gates /\ NameInv /\ GateInv
      /\ settings.version \in 0..MaxVersion /\ MaxVersion \in Nat
      /\ session \in [step : {"idle", "load", "resolve", "running",
                              "processing", "taken"},
                      endpoint : Endpoints \cup {None}, stay : 0..MaxVersion]
  BY PartsOfOperationInv, SettingsAssumption DEF TypeOK, SettingsTypeOK
<1>c. op.name \in {"llm", "key", "delete", "reset"}
      /\ op.step \in {"none", "gate", "request"}
      => op.step = "gate"
  BY <1>a DEF StepOf
<1>b. NoOp \in Ops
  BY <1>a DEF NoOp, Steps, Names
<1>1. CASE Submit
  <2>1. /\ op = NoOp /\ UNCHANGED <<gate, session>>
        /\ op'.name \in Names /\ op'.step = "gate" /\ op'.from = None
    BY <1>1 DEF Submit, NoOp
  <2>2. op' \in Ops
    <3>1. PICK n \in Names, e \in Endpoints \cup {None} :
            op' = IF n = "llm"
                  THEN [NoOp EXCEPT !.name = n, !.step = "gate", !.to = e,
                                    !.version = settings.version]
                  ELSE [NoOp EXCEPT !.name = n, !.step = "gate"]
      BY <1>1 DEF Submit
    <3>2. /\ "gate" \in Steps /\ n \in Names \cup {"none"}
          /\ None \in Endpoints \cup {None} /\ 0 \in 0..MaxVersion
      BY <1>a DEF Steps
    <3>3. CASE n = "llm"
      <4>1. op' = [name |-> n, step |-> "gate", to |-> e, from |-> None,
                   version |-> settings.version]
        BY <3>1, <3>3 DEF NoOp
      <4>. QED
        BY <1>a, <3>2, <4>1
    <3>4. CASE n # "llm"
      <4>1. op' = [name |-> n, step |-> "gate", to |-> None, from |-> None,
                   version |-> 0]
        BY <3>1, <3>4 DEF NoOp
      <4>. QED
        BY <3>2, <4>1
    <3>. QED
      BY <3>3, <3>4
  <2>3. NameInv'
    BY <2>1 DEF Names, StepOf
  <2>4. GateInv' /\ gate' \in Gates
    BY <1>a, <2>1 DEF NoOp
  <2>. QED
    BY <2>1, <2>2, <2>3, <2>4
<1>2. CASE SessionStep
  <2>1. op' = op
    BY <1>2 DEF SessionStep, StartSession, LoadForSession,
         ResolveForSession, ProcessText, EndSession, TakeSession, CancelTaken
  <2>2. NameInv' /\ op' \in Ops
    BY <1>a, <2>1 DEF StepOf, NoOp, Names
  <2>3. CASE StartSession
    BY <1>a, <1>c, <2>1, <2>2, <2>3 DEF StartSession, NoSession
  <2>4. CASE LoadForSession
    <3>1. /\ session.step = "load" /\ gate = "start"
          /\ \/ session'.step = "resolve" /\ gate' = gate
             \/ session'.step = "idle" /\ gate' = "free"
      BY <1>a, <2>4 DEF LoadForSession, NoSession
    <3>. QED
      BY <1>a, <2>1, <2>2, <3>1
  <2>5. CASE ResolveForSession
    <3>1. gate = "start" /\ gate' = "free"
      BY <1>a, <2>5 DEF ResolveForSession
    <3>2. session'.step \in {"idle", "running"}
      BY <2>5 DEF ResolveForSession, Route, NoSession
    <3>3. session.step = "resolve"
      BY <2>5 DEF ResolveForSession
    <3>. QED
      BY <1>a, <2>1, <2>2, <3>1, <3>2, <3>3
  <2>6. CASE ProcessText \/ EndSession \/ TakeSession \/ CancelTaken
    <3>1. /\ session.step \in {"running", "processing", "taken"}
          /\ session'.step \in {"idle", "processing", "taken"}
          /\ session'.step = "processing" =>
               session.step \in {"running", "processing"}
          /\ gate' = gate
      BY <1>a, <2>6
         DEF ProcessText, EndSession, TakeSession, CancelTaken, NoSession
    <3>. QED
      BY <1>a, <2>1, <2>2, <3>1
  <2>. QED
    BY <1>2, <2>3, <2>4, <2>5, <2>6 DEF SessionStep
<1>3. CASE Crash
  BY <1>a, <1>b, <1>3 DEF Crash, NoOp, NoSession, StepOf
<1>4. CASE UNCHANGED <<op, gate, session>>
  BY <1>a, <1>4 DEF NoOp
<1>. QED
  BY <1>1, <1>2, <1>3, <1>4 DEF Provider, OtherProcess, Damage, control, vars

-----------------------------------------------------------------------------
(* A deletion that succeeds leaves nothing at its endpoint. *)
LEMMA DeleteLeavesNothing ==
  ASSUME SecretsTypeOK, StoreInv, NEW e \in Endpoints, Delete(App, e, "ok")
  PROVE  db'[e] = None
<1>. DEFINE allowed == Material(e) \in {"NotConfigured", "Configured"}
<1>1. allowed \in BOOLEAN /\ {e} \in SUBSET Endpoints
      /\ Remove(App, {e}, allowed, "ok")
  BY DEF Delete
<1>. HIDE DEF allowed
<1>. QED
  BY <1>1, RemoveKeepsStore

(* The operation keeps working on the endpoint it has loaded or compared.    *)
LEMMA TargetOfAStep ==
  ASSUME TypeOK, StoreInv, OperationInv, OperationStep
  PROVE  TargetInv'
<1>. USE DEF TargetInv, At, Then, Reply, If, NoOp
<1>a. /\ op \in Ops /\ TargetInv /\ NameInv
      /\ Endpoint \in Endpoints \cup {None} /\ SecretsTypeOK
      /\ SettingsTypeOK
  BY PartsOfOperationInv, ValuesHaveAnEndpoint
     DEF TypeOK, SettingsTypeOK, Endpoint, Ops
<1>b. settings'.value = settings.value => Endpoint' = Endpoint
  BY DEF Endpoint
<1>c. op' = NoOp => TargetInv'
  BY DEF NoOp
<1>. HIDE DEF Endpoint
<1>. USE <1>a DEF NameInv, Ops, Names, StepOf
<1>1. CASE TakeGate
  BY <1>1 DEF TakeGate, FirstStep
<1>2. CASE LoadSettings
  <2>. HIDE DEF NameInv, StepOf
  <2>. QED
    BY <1>2, <1>c, LoadedOperation
<1>3. CASE EnsureMutable
  <2>1. Endpoint' = Endpoint
    BY <1>3, <1>b DEF EnsureMutable
  <2>2. op.name \in {"llm", "key"} /\ op.step = "mutable"
    BY <1>3, OperationSteps DEF EnsureMutable
  <2>. HIDE DEF NameInv, StepOf
  <2>. QED
    BY <1>3, <1>c, <2>1, <2>2 DEF EnsureMutable
<1>8. CASE ResolveOldRoute
  <2>1. Endpoint' = Endpoint
    BY <1>8, <1>b DEF ResolveOldRoute
  <2>2. op.name = "llm" /\ op.step = "oldRoute"
    BY <1>8 DEF ResolveOldRoute
  <2>. HIDE DEF NameInv, StepOf
  <2>. QED
    BY <1>8, <2>1, <2>2 DEF ResolveOldRoute
<1>9. CASE ResolveNewRoute
  <2>1. Endpoint' = Endpoint
    BY <1>9, <1>b DEF ResolveNewRoute
  <2>2. op.name = "llm" /\ op.step = "newRoute"
    BY <1>9 DEF ResolveNewRoute
  <2>. HIDE DEF NameInv, StepOf
  <2>. QED
    BY <1>9, <2>1, <2>2 DEF ResolveNewRoute
<1>4. CASE DeleteAtNew
  <2>1. Endpoint' = Endpoint
    BY <1>4, <1>b DEF DeleteAtNew
  <2>2. op.to \in Endpoints
    BY <1>4 DEF DeleteAtNew
  <2>3. PICK result \in {"ok", "error"} :
          Delete(App, op.to, result) /\ If(result, {"ok"}, "replace")
    BY <1>4 DEF DeleteAtNew
  <2>4. op'.step = "replace" => result = "ok"
    BY <2>3
  <2>5. op'.step = "replace" => db'[op.to] = None
    BY <2>2, <2>3, <2>4, DeleteLeavesNothing
  <2>6. op.name = "llm" /\ op.step = "delete" /\ op.to # Endpoint
    BY <1>4, OperationSteps DEF DeleteAtNew
  <2>. HIDE DEF NameInv, StepOf
  <2>. QED
    BY <1>c, <2>1, <2>3, <2>5, <2>6
<1>5. CASE ReplaceSettings
  BY <1>5 DEF ReplaceSettings
<1>6. CASE DeleteAtOld \/ RevealKey \/ VerifyReset \/ ProbeReturns
  BY <1>6, <1>c DEF DeleteAtOld, RevealKey, VerifyReset, ProbeReturns
<1>10. CASE ResolveForOp \/ InspectBefore \/ Destroy
  <2>1. op.step \in {"resolve", "inspectStore", "destroy"}
    BY <1>10 DEF ResolveForOp, InspectBefore, Destroy
  <2>2. op.name \in {"probe", "status", "delete", "reset"}
    BY <2>1
  <2>3. op' = NoOp \/ op'.name = op.name
    BY <1>10 DEF ResolveForOp, InspectBefore, Destroy
  <2>4. op' = NoOp \/ op'.step \in {"request", "destroy", "resolve", "verify"}
    BY <1>10 DEF ResolveForOp, InspectBefore, Destroy
  <2>. HIDE DEF NameInv, StepOf
  <2>. QED
    BY <1>c, <2>2, <2>3, <2>4
<1>7. CASE BeginKey \/ CommitKey \/ InspectKey
  <2>1. Endpoint' = Endpoint
    BY <1>7, <1>b DEF BeginKey, CommitKey, InspectKey
  <2>. QED
    BY <1>7, <2>1 DEF BeginKey, CommitKey, InspectKey
<1>. QED
  BY <1>1, <1>2, <1>3, <1>4, <1>5, <1>6, <1>7, <1>8, <1>9, <1>10
     DEF OperationStep

(* Nobody else moves the endpoint in force, or brings a key to another one.  *)
LEMMA OthersKeepTheTarget ==
  ASSUME TypeOK, StoreInv, OperationInv, RouteInv, StoreSteps,
         \/ Submit \/ SessionStep \/ Provider \/ OtherProcess \/ Damage
         \/ Crash \/ UNCHANGED vars
  PROVE  TargetInv'
<1>a. /\ op \in Ops /\ TargetInv /\ SecretsTypeOK
      /\ op' = op \/ op' = NoOp \/ op'.step = "gate"
      /\ Endpoint \in Endpoints \cup {None}
  BY PartsOfOperationInv, OthersKeepTheGate, ValuesHaveAnEndpoint
     DEF TypeOK, SettingsTypeOK, Endpoint, Ops
<1>b. [Next]_vars
  BY DEF Next
<1>1. CASE op' = NoOp \/ op'.step = "gate"
  BY <1>1 DEF TargetInv, NoOp
<1>2. CASE op' = op /\ Endpoint' = Endpoint
  <2>1. \A e \in Endpoints : e # Endpoint /\ db[e] = None => db'[e] = None
    BY DEF StoreSteps, Shrinks, Enters
  <2>. HIDE DEF Endpoint
  <2>. QED
    BY <1>a, <1>2, <2>1 DEF TargetInv, Ops
<1>3. CASE op' = op /\ ReplaceSettings
  <2>1. op'.step # "replace" /\ op.step = "replace"
    BY <1>3, <1>a DEF ReplaceSettings, Then, Reply, If, At, NoOp, Ops
  <2>. QED
    BY <1>3, <2>1
<1>. QED
  BY <1>a, <1>b, <1>1, <1>2, <1>3, SettingsSteps DEF RouteInv

-----------------------------------------------------------------------------
(* The inductive invariant. *)
LlmInv == TypeOK /\ StoreInv /\ OperationInv /\ RouteInv

(* It holds at the start. *)
LEMMA LlmInvInit ==
  Init => LlmInv
<1>. SUFFICES ASSUME Init PROVE LlmInv
  OBVIOUS
<1>. USE SettingsAssumption, SecretsAssumption
     DEF Init, SecretsInit, Empty, NoWriter, NoOp, NoSession, ProviderInit,
         NoRequest
<1>1. SettingsTypeOK
  BY DEF SettingsInit, SettingsTypeOK, Schemas
<1>2. SecretsTypeOK /\ StoreInv
  BY DEF SecretsTypeOK, StoreInv, KeyStates, NotKeys, Keys, Stored
<1>3. ProviderTypeOK
  BY DEF ProviderTypeOK
<1>4. TypeOK
  BY <1>1, <1>2, <1>3 DEF TypeOK, Names, Steps
<1>5. OperationInv
  BY DEF OperationInv, StepOf
<1>6. RouteInv
  BY <1>1 DEF RouteInv, RecordsInv, KeyFitsRoute, Waiting, SettingsInit,
              SettingsTypeOK
<1>. QED
  BY <1>2, <1>4, <1>5, <1>6 DEF LlmInv

(* Every step keeps it, and calls the store as StoreSteps says.              *)
LEMMA LlmInvNext ==
  ASSUME LlmInv, [Next]_vars PROVE LlmInv' /\ StoreSteps
<1>a. TypeOK /\ StoreInv /\ OperationInv /\ RouteInv /\ SecretsTypeOK
  BY DEF LlmInv, TypeOK
<1>. DEFINE Others == \/ Submit \/ SessionStep \/ Provider \/ OtherProcess
                      \/ Damage \/ Crash \/ UNCHANGED vars
<1>b. OperationStep \/ Others
  BY DEF Next
<1>1. StoreSteps
  <2>1. CASE UNCHANGED vars
    BY <1>a, <2>1, NoCallKeepsStore DEF vars
  <2>2. CASE OperationStep
    BY <1>a, <2>2, OperationCallsStore
  <2>3. CASE Others /\ ~UNCHANGED vars
    BY <1>a, <2>3, OthersCallStore
  <2>. QED
    BY <1>b, <2>1, <2>2, <2>3
<1>2. SecretsTypeOK' /\ StoreInv'
  BY <1>1 DEF StoreSteps
<1>3. RouteInv'
  BY <1>a, <1>1, RoutesStayFresh
<1>4. op' \in Ops /\ gate' \in Gates /\ NameInv' /\ GateInv'
  BY <1>a, <1>b, OperationsAreTyped, OthersKeepTheGate
<1>5. TargetInv'
  BY <1>a, <1>b, <1>1, TargetOfAStep, OthersKeepTheTarget
<1>6. OperationInv'
  BY <1>4, <1>5 DEF OperationInv, NameInv, GateInv, TargetInv
<1>7. SettingsTypeOK' /\ stay' \in 0..MaxVersion
  BY <1>a, SettingsSteps DEF RouteInv
<1>8. ProviderTypeOK'
  BY <1>a, RequestsOfAStep
<1>9. TypeOK'
  BY <1>a, <1>2, <1>4, <1>7, <1>8, SessionSteps DEF TypeOK, Ops, Gates
<1>. QED
  BY <1>1, <1>2, <1>3, <1>6, <1>9 DEF LlmInv

(* Hence it is an invariant.                                                 *)
LEMMA LlmInvariant == Spec => []LlmInv
<1>. HIDE DEF LlmInv, Init, Next, vars
<1>. QED
  BY LlmInvInit, LlmInvNext, PTL DEF Spec

(* Every variable keeps its type.                                            *)
THEOREM TypeCorrect == Spec => []TypeOK
<1>1. LlmInv => TypeOK
  BY DEF LlmInv
<1>. QED
  BY <1>1, LlmInvariant, PTL

(* A request carries a key that was entered for its endpoint, and not before *)
(* the settings came to that endpoint the last time.                         *)
THEOREM KeyFitsRouteHolds == Spec => []KeyFitsRoute
<1>1. LlmInv => KeyFitsRoute
  BY DEF LlmInv, RouteInv
<1>. QED
  BY <1>1, LlmInvariant, PTL

(* The key that goes out is the one the database holds at that moment, under *)
(* the key file that is installed at that moment.                            *)
THEOREM SentKeyIsStoredHolds == Spec => SentKeyIsStored
<1>1. LlmInv /\ [Next]_vars => [KeyIsStored]_vars
  <2>. SUFFICES ASSUME LlmInv, [Next]_vars,
                       NEW c \in Callers, req'[c].key \notin {req[c].key, None}
                PROVE  /\ Readable(req[c].endpoint)
                       /\ db[req[c].endpoint].value = req'[c].key
    BY DEF KeyIsStored
  <2>1. TypeOK /\ StoreInv /\ RouteInv
    BY DEF LlmInv
  <2>2. RequestSent(c)
    BY <2>1, RequestsOfAStep
       DEF RequestSteps, RequestKept, RequestRegistered, RequestGone, NoRequest
  <2>. QED
    BY <2>2 DEF RequestSent
<1>. QED
  BY <1>1, LlmInvariant, PTL DEF Spec, SentKeyIsStored

(* A step that reaches the database with a session under way is none of the  *)
(* commands that could take its endpoint or its key away.                    *)
LEMMA CommandsLeaveTheSession ==
  ASSUME LlmInv, OperationStep, session.step \in {"running", "processing"}
  PROVE  Endpoint' = Endpoint /\ UNCHANGED <<db, keyFile>>
<1>a. TypeOK /\ OperationInv /\ StoreInv /\ SecretsTypeOK /\ SettingsTypeOK
      /\ RouteInv
      /\ op.to \in Endpoints \cup {None}
      /\ Endpoint \in Endpoints \cup {None}
  BY ValuesHaveAnEndpoint
     DEF LlmInv, TypeOK, SettingsTypeOK, Endpoint
<1>b. op.name \in {"llm", "key", "delete", "reset"} => op.step = "gate"
  BY <1>a DEF OperationInv
<1>c. settings'.value = settings.value => Endpoint' = Endpoint
  BY DEF Endpoint
<1>d. ASSUME NEW m, InspectStore(m) PROVE UNCHANGED <<db, keyFile>>
  BY <1>d DEF InspectStore
<1>e. ASSUME NEW e \in Endpoints \cup {None}, NEW r, Resolution(e, r)
      PROVE  UNCHANGED <<db, keyFile>>
  BY <1>a, <1>e, ResolutionKeepsStore
<1>f. ASSUME NEW e, NEW r, Inspect(e, r) \/ Read(e, r)
      PROVE  UNCHANGED <<db, keyFile>>
  BY <1>f DEF Inspect, Read
<1>. HIDE DEF Endpoint
<1>1. CASE TakeGate \/ ProbeReturns
  BY <1>1, <1>c DEF TakeGate, ProbeReturns, secretVars
<1>2. CASE LoadSettings
  BY <1>2, <1>a, <1>c, SettingsCalls DEF LoadSettings, secretVars
<1>3. CASE EnsureMutable \/ InspectBefore \/ VerifyReset
  BY <1>3, <1>c, <1>d DEF EnsureMutable, InspectBefore, VerifyReset
<1>4. CASE ResolveOldRoute \/ ResolveNewRoute \/ ResolveForOp
  BY <1>4, <1>a, <1>c, <1>e
     DEF ResolveOldRoute, ResolveNewRoute, ResolveForOp
<1>5. CASE DeleteAtNew \/ DeleteAtOld \/ BeginKey \/ CommitKey \/ Destroy
  BY <1>5, <1>a, <1>b, OperationSteps
     DEF DeleteAtNew, DeleteAtOld, BeginKey, CommitKey, Destroy, At
<1>6. CASE InspectKey \/ RevealKey
  BY <1>6, <1>c, <1>f DEF InspectKey, RevealKey
<1>7. CASE ReplaceSettings
  <2>1. op.step = "replace"
    BY <1>7 DEF ReplaceSettings, At
  <2>2. op.name # "llm"
    BY <2>1, <1>b
  <2>. QED
    BY <1>7, <1>a, <1>c, <2>2, ReplaceValues DEF secretVars
<1>. QED
  BY <1>1, <1>2, <1>3, <1>4, <1>5, <1>6, <1>7 DEF OperationStep

(* Between the start of a session and its end no configuration command of    *)
(* this process takes its endpoint out of force or its key away.             *)
THEOREM SessionIsUndisturbedHolds == Spec => SessionIsUndisturbed
<1>1. LlmInv /\ [Next]_vars => [Undisturbed]_vars
  <2>. SUFFICES ASSUME LlmInv, Next, op' # op,
                       session.step \in {"running", "processing"}
                PROVE  /\ settings'.value.llm = Endpoint
                       /\ \A e \in {session.endpoint} :
                            Readable(e) => Readable(e)'
    BY DEF Undisturbed
  <2>1. CASE OperationStep
    <3>1. Endpoint' = Endpoint /\ UNCHANGED <<db, keyFile>>
      BY <2>1, CommandsLeaveTheSession
    <3>. QED
      BY <3>1 DEF Readable, Opens, Endpoint
  <2>2. CASE Submit
    BY <2>2 DEF Submit, secretVars, Endpoint, Readable, Opens
  <2>3. CASE Crash
    BY <2>3 DEF Crash, Reopen, Endpoint, Readable, Opens
  <2>4. CASE SessionStep \/ Provider \/ OtherProcess \/ Damage
    BY <2>4 DEF SessionStep, StartSession, LoadForSession, ResolveForSession,
                ProcessText, EndSession, TakeSession, CancelTaken, Provider,
                OtherProcess, Damage, control
  <2>. QED
    BY <2>1, <2>2, <2>3, <2>4 DEF Next
<1>. QED
  BY <1>1, LlmInvariant, PTL DEF Spec, SessionIsUndisturbed

-----------------------------------------------------------------------------
(* What a deletion or a write takes away could be read.                      *)
LEMMA TakenWasReadable ==
  ASSUME SecretsTypeOK, StoreInv, NEW p \in {App, Other}, NEW result,
         \/ \E f \in Endpoints : Delete(p, f, result)
         \/ DeleteNamespace(p, result)
         \/ \E f \in Endpoints, v \in Secrets : CommitWrite(p, f, v, result),
         NEW e \in Endpoints, db'[e] # db[e]
  PROVE  db[e] = None \/ Readable(e)
<1>1. ASSUME NEW f \in Endpoints, Delete(p, f, result)
      PROVE  db[e] = None \/ Readable(e)
  <2>. DEFINE allowed == Material(f) \in {"NotConfigured", "Configured"}
  <2>1. allowed \in BOOLEAN /\ {f} \in SUBSET Endpoints
        /\ Remove(p, {f}, allowed, result)
    BY <1>1 DEF Delete
  <2>2. allowed => db[f] = None \/ Readable(f)
    BY DEF Material
  <2>. HIDE DEF allowed
  <2>3. allowed /\ db'[e] = IF e \in {f} THEN None ELSE db[e]
    BY <2>1, RemoveKeepsStore
  <2>. QED
    BY <2>2, <2>3
<1>2. CASE DeleteNamespace(p, result)
  <2>. DEFINE allowed == StoreMaterial \in {"NotConfigured", "Configured"}
  <2>1. allowed \in BOOLEAN /\ Remove(p, Endpoints, allowed, result)
    BY <1>2 DEF DeleteNamespace
  <2>2. allowed => \A f \in Stored : Readable(f)
    BY StoreMaterialValues
  <2>. HIDE DEF allowed
  <2>3. allowed
    BY <2>1, RemoveKeepsStore
  <2>. QED
    BY <2>2, <2>3 DEF Stored
<1>3. ASSUME NEW f \in Endpoints, NEW v \in Secrets,
             CommitWrite(p, f, v, result)
      PROVE  db[e] = None \/ Readable(e)
  BY <1>3, CommitWriteKeepsStore DEF Stored
<1>. QED
  BY <1>1, <1>2, <1>3

(* A reset takes away what could not be read. *)
LEMMA ResetTakesTheUnreadable ==
  ASSUME SecretsTypeOK, StoreInv, NEW result, ResetUnrecoverable(App, result),
         NEW e \in Endpoints, db'[e] # db[e]
  PROVE  ~Readable(e)
<1>. DEFINE allowed == StoreMaterial = "RecoveryRequired"
<1>1. allowed \in BOOLEAN /\ Remove(App, Endpoints, allowed, result)
  BY DEF ResetUnrecoverable
<1>2. allowed => \E f \in Stored : ~Readable(f)
  BY StoreMaterialValues
<1>. HIDE DEF allowed
<1>3. allowed /\ db'[e] = None
  BY <1>1, RemoveKeepsStore
<1>. QED
  BY <1>2, <1>3 DEF StoreInv, Stored

(* A key that can be read goes by a deletion or a replacement; one that      *)
(* cannot be read now goes by the reset alone, and the reset takes no other. *)
THEOREM KeysAreKeptHolds == Spec => KeysAreKept
<1>1. LlmInv /\ [Next]_vars => [\A e \in Endpoints : Kept(e)]_vars
  <2>. SUFFICES ASSUME LlmInv, Next, NEW e \in Endpoints, db'[e] # db[e]
                PROVE  IF Readable(e) THEN op.name # "reset" \/ op' = op
                       ELSE db[e] = None \/ (op.name = "reset" /\ op' # op)
    BY DEF Kept
  <2>a. TypeOK /\ OperationInv /\ StoreInv /\ SecretsTypeOK /\ SettingsTypeOK
        /\ RouteInv /\ op.to \in Endpoints \cup {None}
        /\ op.from \in Endpoints \cup {None}
        /\ Endpoint \in Endpoints \cup {None}
    BY ValuesHaveAnEndpoint DEF LlmInv, TypeOK, SettingsTypeOK, Endpoint
  <2>b. /\ op.step = "delete" => op.to \in Endpoints /\ op.name = "llm"
        /\ op.step = "deleteOld" => op.from \in Endpoints /\ op.name = "llm"
        /\ op.step = "commit" =>
             op.to = Endpoint /\ Endpoint \in Endpoints /\ op.name = "key"
        /\ op.step = "destroy" => op.name \in {"delete", "reset"}
    BY <2>a, OperationSteps DEF OperationInv
  <2>c. UNCHANGED db => FALSE
    OBVIOUS
  <2>1. CASE DeleteAtNew \/ DeleteAtOld
    <3>1. op.name = "llm"
          /\ \E f \in Endpoints : \E result : Delete(App, f, result)
      BY <2>1, <2>b DEF DeleteAtNew, DeleteAtOld, At
    <3>. QED
      BY <2>a, <3>1, TakenWasReadable
  <2>2. CASE CommitKey
    <3>1. op.name = "key" /\ Endpoint \in Endpoints
          /\ \E result : CommitWrite(App, Endpoint, Entered, result)
      BY <2>2, <2>b DEF CommitKey, At
    <3>2. Entered \in Secrets
      BY <2>a, <3>1, EnteredTyped
    <3>. HIDE DEF Endpoint, Entered
    <3>. QED
      BY <2>a, <3>1, <3>2, TakenWasReadable
  <2>3. CASE Destroy /\ op.name = "delete"
    <3>1. \E result : DeleteNamespace(App, result)
      BY <2>3 DEF Destroy
    <3>. QED
      BY <2>a, <2>3, <3>1, TakenWasReadable
  <2>4. CASE Destroy /\ op.name # "delete"
    <3>1. op.step = "destroy" /\ op.name = "reset"
      BY <2>4, <2>b DEF Destroy, At
    <3>2. \E result : ResetUnrecoverable(App, result)
      BY <2>4 DEF Destroy
    <3>3. op' # op
      BY <2>4, <3>1, <2>a
         DEF Destroy, If, Then, Reply, NoOp, TypeOK
    <3>. QED
      BY <2>a, <3>1, <3>2, <3>3, ResetTakesTheUnreadable
  <2>5. CASE OtherProcess
    <3>1. op' = op
      BY <2>5 DEF OtherProcess, control
    <3>2. \/ \E result : DeleteNamespace(Other, result)
          \/ \E result : /\ CommitWrite(Other, Endpoint, Entered, result)
                         /\ Endpoint # None
      BY <2>5 DEF OtherProcess, secretVars, BeginWrite
    <3>3. Endpoint # None => Endpoint \in Endpoints /\ Entered \in Secrets
      BY <2>a, EnteredTyped
    <3>. HIDE DEF Endpoint, Entered
    <3>. QED
      BY <2>a, <3>1, <3>2, <3>3, TakenWasReadable
  <2>6. CASE OperationStep /\ ~DeleteAtNew /\ ~DeleteAtOld /\ ~CommitKey
             /\ ~Destroy
    <3>1. ASSUME NEW f \in Endpoints \cup {None}, NEW r, Resolution(f, r)
          PROVE  UNCHANGED db
      BY <2>a, <3>1, ResolutionKeepsStore
    <3>2. CASE ResolveOldRoute \/ ResolveNewRoute \/ ResolveForOp
      <4>1. \E f \in Endpoints \cup {None} : \E r : Resolution(f, r)
        BY <2>a, <3>2 DEF ResolveOldRoute, ResolveNewRoute, ResolveForOp
      <4>. QED
        BY <3>1, <4>1
    <3>. QED
      BY <2>6, <3>2 DEF OperationStep, TakeGate, LoadSettings, EnsureMutable,
         ReplaceSettings, BeginKey, InspectKey, RevealKey, InspectBefore,
         VerifyReset, ProbeReturns, secretVars, Inspect, InspectStore, Read,
         BeginWrite
  <2>7. CASE SessionStep
    <3>1. CASE ResolveForSession
      <4>1. \E r : Resolution(Endpoint, r)
        BY <3>1 DEF ResolveForSession
      <4>. QED
        BY <2>a, <4>1, ResolutionKeepsStore
    <3>. QED
      BY <2>7, <3>1 DEF SessionStep, StartSession, LoadForSession, ProcessText,
         EndSession, TakeSession, CancelTaken, secretVars
  <2>8. CASE Submit \/ Provider \/ Damage \/ Crash
    BY <2>8 DEF Submit, Provider, ProviderStep, SendRequest, Answered,
       WakeCancelled, Read, Damage, DamageKeyFile, Crash, Reopen, secretVars
  <2>. QED
    BY <2>1, <2>2, <2>3, <2>4, <2>5, <2>6, <2>7, <2>8 DEF Next
<1>. QED
  BY <1>1, LlmInvariant, PTL DEF Spec, KeysAreKept

=============================================================================
