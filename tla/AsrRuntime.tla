------------------------------ MODULE AsrRuntime ------------------------------
(***************************************************************************)
(* MacAsrRuntime: the worker of the moment, with the models it is          *)
(* configured for.  A package is trusted after its manifest and every hash *)
(* have been checked; the check is repeated whenever an engine is          *)
(* prepared - but for the first time, which uses what the start found.  A  *)
(* launch looks at the paths of all its models again.                      *)
(***************************************************************************)
EXTENDS ModelPackage, GrantFolder

VARIABLES
  packages,   \* models/active: what stands there for each engine
  scan,       \* initial_scan: what the start made of them, until it is used
  worker,     \* the revisions it is configured for; another worker has others
  stub,       \* the start found no way to launch a worker, and nobody tries again
  health      \* AsrRuntimeStatus: the last health found of each engine

runtimeVars == <<folderVars, packages, scan, worker, stub, health>>

Packages == {Missing} \cup Revisions
Healths == {"healthy", "unfit"}     \* unfit: missing, incompatible or unhealthy

RuntimeTypeOK ==
  /\ FolderTypeOK
  /\ packages \in [Engines -> PackageSet]
  /\ scan \in [used : BOOLEAN, found : [Engines -> Packages]]
  /\ worker \in [Engines -> Packages] /\ stub \in BOOLEAN
  /\ health \in [Engines -> Healths \cup {"unknown"}]

(* resolve_model. *)
Resolved(e) == IF Verified(packages[e]) THEN packages[e].revision ELSE Missing

(* The scan of the start is of no interest once it has been used. *)
Scan(used, found) ==
  [used |-> used, found |-> [e \in Engines |-> IF used THEN Missing ELSE found[e]]]

Nothing == [e \in Engines |-> Missing]

RuntimeInit ==
  /\ scan = Scan(FALSE, Nothing) /\ worker = Nothing /\ stub = FALSE
  /\ health = [e \in Engines |-> "unknown"]

(* WorkerLaunchConfig::validate *)
PathsValid(models) == \A e \in Engines : models[e] # Missing => PathValid(e, packages[e])

(* WorkerLaunchConfig::new_sandboxed and AsrWorkerAdapter::start: the       *)
(* grants that nobody holds any more go, then the paths of all the models  *)
(* are looked at.                                                          *)
StartWorker(models, result) ==
  \E swept \in {"ok", "failed"} :
    /\ RemoveStaleGrants(swept)
    /\ result = "ok" <=> swept = "ok" /\ PathsValid(models)

(* initialize_macos_worker.  Without a container or a worker that can be   *)
(* started the engines are stubs until the next start of the process.      *)
Started ==
  LET found == [e \in Engines |-> Resolved(e)] IN
  /\ health' = [e \in Engines |-> "unknown"] /\ UNCHANGED <<packages, stray>>
  /\ \/ /\ PrepareLayout("failed") /\ UNCHANGED grants
        /\ stub' = TRUE
     \/ /\ PrepareLayout("ok")
        /\ \E result \in {"ok", "failed"} :
             StartWorker(found, result) /\ stub' = (result = "failed")
  /\ scan' = Scan(FALSE, IF stub' THEN Nothing ELSE found)
  /\ worker' = IF stub' THEN Nothing ELSE found

(* prepare_model.  The first one of the process takes the word of the      *)
(* start for it.  A worker for other models replaces the current one once  *)
(* that has released what it holds, which may fail.                        *)
Prepare(e, result) ==
  LET models == [worker EXCEPT ![e] = Resolved(e)]
      same == Resolved(e) # Missing /\ worker = models
  IN /\ UNCHANGED <<group, stray, packages, stub>>
     /\ \/ /\ stub /\ result = "failed" /\ UNCHANGED <<grants, scan, worker>>
        \/ /\ ~stub /\ ~scan.used
           /\ scan' = Scan(TRUE, scan.found) /\ UNCHANGED <<grants, worker>>
           /\ result = IF scan.found[e] = Missing THEN "failed" ELSE "ok"
        \/ /\ ~stub /\ scan.used /\ (same \/ Resolved(e) = Missing)
           /\ result = (IF same THEN "ok" ELSE "failed") /\ UNCHANGED <<grants, scan, worker>>
        \/ /\ ~stub /\ scan.used /\ ~same /\ Resolved(e) # Missing /\ UNCHANGED scan
           /\ \E started \in {"ok", "failed"} : \E released \in BOOLEAN :
                /\ StartWorker(models, started)
                /\ result = IF started = "ok" /\ released THEN "ok" ELSE "failed"
                /\ worker' = IF result = "ok" THEN models ELSE worker

(* ObservedAsrEngine::health: a probe that fails counts as unhealthy. *)
Probe(e, h) ==
  /\ h \in (IF worker[e] = Missing THEN {"unfit"} ELSE Healths)
  /\ health' = [health EXCEPT ![e] = h]

(* The user adds, replaces, damages or removes a package. *)
ChangePackage(e, p) ==
  /\ p # packages[e] /\ packages' = [packages EXCEPT ![e] = p]
  /\ UNCHANGED <<folderVars, scan, worker, stub, health>>

=============================================================================
