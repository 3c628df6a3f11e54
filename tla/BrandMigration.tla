--------------------------- MODULE BrandMigration ---------------------------
(***************************************************************************)
(* identity_migration: at the start the application takes over the storage *)
(* of its earlier brand.  Every entry is copied under a temporary name,    *)
(* synced and renamed, unless the current brand has one of that name; then *)
(* the destination is synced, and only then are the old entries removed.   *)
(* Any step may fail, which ends the start; the process or the machine may *)
(* die anywhere, and what had not been synced is then lost or not.  The    *)
(* old login item and the old models move in much the same way.            *)
(***************************************************************************)
EXTENDS Integers

CONSTANT MaxEntries   \* bound: entries of the old storage, copied in order

ASSUME MigrationAssumption == MaxEntries \in Nat \ {0}

VARIABLES
  step,      \* where the migration is, and at which entry
  legacy,    \* the old entries: here, removed (not yet durably), gone
  current,   \* those of the current brand: none, volatile, durable
  login,     \* login items: the old one and the current one are there
  models     \* the brand whose models directory is there

migrationVars == <<step, legacy, current, login, models>>

Entries == 1..MaxEntries
Steps == {"lock", "copy", "flush", "revalidate", "remove", "retire", "login", "verify", "models",
          "done", "failed"}

MigrationTypeOK ==
  /\ step \in [at : Steps, entry : Entries]
  /\ legacy \in [Entries -> {"here", "removed", "gone"}]
  /\ current \in [Entries -> {"none", "volatile", "durable"}]
  /\ login \in [old : BOOLEAN, new : BOOLEAN] /\ models \in {"old", "new", "none"}

AtStep(s) == step = [at |-> s, entry |-> 1]

(* Any earlier attempt may have got anywhere; the current brand may have   *)
(* entries of its own, which the application synced when it wrote them.    *)
MigrationInit ==
  /\ AtStep("lock")
  /\ legacy \in [Entries -> {"here", "gone"}]
  /\ current \in [Entries -> {"none", "durable"}]
  /\ \A e \in Entries : legacy[e] = "gone" => current[e] = "durable"
  /\ login \in {[old |-> TRUE, new |-> FALSE], [old |-> FALSE, new |-> FALSE]}
  /\ models \in {"old", "new", "none"}

(* For a start with nothing to take over. *)
MigrationDone ==
  /\ AtStep("done")
  /\ legacy = [e \in Entries |-> "gone"] /\ current = [e \in Entries |-> "durable"]
  /\ login = [old |-> FALSE, new |-> FALSE] /\ models = "new"

Goto(s) == step' = [at |-> s, entry |-> 1]
Onward(s) ==
  IF step.entry < MaxEntries THEN step' = [step EXCEPT !.entry = @ + 1] ELSE Goto(s)

(* The lease of the old brand, and a tree of nothing but files and         *)
(* directories; without old storage there is nothing to copy.              *)
LockLegacy ==
  /\ step.at = "lock"
  /\ Goto(IF \A e \in Entries : legacy[e] = "gone" THEN "login" ELSE "copy")
  /\ UNCHANGED <<legacy, current, login, models>>

(* An entry of the current brand wins; its contents are synced before the  *)
(* old one may go, its name with the destination.  A copy is synced before *)
(* its rename, and its parent after it.                                    *)
CopyEntry ==
  /\ step.at = "copy"
  /\ current' = [current EXCEPT ![step.entry] =
       IF legacy[step.entry] # "gone" /\ @ = "none" THEN "durable" ELSE @]
  /\ Onward("flush")
  /\ UNCHANGED <<legacy, login, models>>

(* The rename is done and the sync after it fails or never comes. *)
CopyEntryHalf ==
  /\ step.at = "copy" /\ legacy[step.entry] # "gone"
  /\ current' = [current EXCEPT ![step.entry] = IF @ = "none" THEN "volatile" ELSE @]
  /\ Goto("failed")
  /\ UNCHANGED <<legacy, login, models>>

(* As Synced, but the destination is not synced: each entry was. *)
SyncedEach(c) == [e \in Entries |-> c[e]]

(* sync_directory(destination) *)
Synced(c) == [e \in Entries |-> IF c[e] = "volatile" THEN "durable" ELSE c[e]]

SyncDestination ==
  /\ step.at = "flush" /\ Goto("revalidate") /\ current' = Synced(current)
  /\ UNCHANGED <<legacy, login, models>>

Revalidate ==
  /\ step.at = "revalidate" /\ Goto("remove")
  /\ UNCHANGED <<legacy, current, login, models>>

RemoveEntry ==
  /\ step.at = "remove" /\ Onward("retire")
  /\ legacy' = [legacy EXCEPT ![step.entry] = IF @ = "here" THEN "removed" ELSE @]
  /\ UNCHANGED <<current, login, models>>

(* The old root is synced; then its cache goes, and the lease of the       *)
(* current brand is taken.                                                 *)
SyncSource ==
  /\ step.at = "retire" /\ Goto("login")
  /\ legacy' = [e \in Entries |-> IF legacy[e] = "removed" THEN "gone" ELSE legacy[e]]
  /\ UNCHANGED <<current, login, models>>

(* migrate_legacy_autostart_entry, whose failures do not end the start:    *)
(* the current item is made and verified before the old one goes.          *)
MoveLogin ==
  /\ step.at = "login"
  /\ \/ Goto("models") /\ UNCHANGED login
     \/ login.old /\ login' = [login EXCEPT !.new = TRUE] /\ (Goto("verify") \/ Goto("models"))
  /\ UNCHANGED <<legacy, current, models>>

RetireLogin ==
  /\ step.at = "verify" /\ Goto("models")
  /\ (login' = [login EXCEPT !.old = FALSE] \/ UNCHANGED login)
  /\ UNCHANGED <<legacy, current, models>>

(* migrate_legacy_brand_directory: one rename, and none if there are       *)
(* models of the current brand.  Its failure leaves the application        *)
(* without a worker.                                                       *)
MoveModels ==
  /\ step.at = "models" /\ Goto("done")
  /\ \/ models' = IF models = "old" THEN "new" ELSE models
     \/ UNCHANGED models
  /\ UNCHANGED <<legacy, current, login>>

(* Validation, a copy, a sync or a removal fails: the start ends. *)
MigrationFails ==
  /\ step.at \in {"lock", "copy", "flush", "revalidate", "remove", "retire"}
  /\ Goto("failed")
  /\ UNCHANGED <<legacy, current, login, models>>

MigrationStep ==
  \/ LockLegacy \/ CopyEntry \/ CopyEntryHalf \/ SyncDestination \/ Revalidate \/ RemoveEntry
  \/ SyncSource \/ MoveLogin \/ RetireLogin \/ MoveModels \/ MigrationFails

(* The process dies: everything is as it was left. *)
ProcessDies == Goto("lock") /\ UNCHANGED <<legacy, current, login, models>>

(* The machine dies: of what had not been synced, any part is lost. *)
PowerFails ==
  /\ Goto("lock")
  /\ current' \in [Entries -> {"none", "durable"}]
  /\ \A e \in Entries : current[e] # "volatile" => current'[e] = current[e]
  /\ legacy' \in [Entries -> {"here", "gone"}]
  /\ \A e \in Entries : legacy[e] # "removed" => legacy'[e] = legacy[e]
  /\ UNCHANGED <<login, models>>

MigrationNext == MigrationStep \/ ProcessDies \/ PowerFails
MigrationSpec == MigrationInit /\ [][MigrationNext]_migrationVars

(* An entry of the old storage goes only when the current brand holds its  *)
(* own durably, wherever the process or the machine dies; nor does the     *)
(* login item go without a successor.                                      *)
NothingIsLost ==
  /\ \A e \in Entries : legacy[e] # "here" => current[e] = "durable"
  /\ step.at = "verify" => login.new

=============================================================================
