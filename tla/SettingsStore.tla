---------------------------- MODULE SettingsStore ----------------------------
(***************************************************************************)
(* FileSettingsStore: one JSON file, replaced as a whole under a process   *)
(* lock by compare-and-set of its version.  Load and Replace are atomic to *)
(* one another, across processes too; what remains visible is how each     *)
(* call ends.  The rename commits a new snapshot: a failure to sync the    *)
(* directory after it is reported as an error although the snapshot is in  *)
(* force.                                                                  *)
(***************************************************************************)
EXTENDS Integers, FiniteSets

CONSTANTS
  Values,       \* what a snapshot holds beside its version
  Legacy,       \* the values that a file of an earlier release may hold
  Default,      \* the value seeded when there is no file
  MaxVersion    \* bound: replacements in a behaviour

ASSUME SettingsAssumption ==
  Default \in Values /\ Legacy \subseteq Values /\ MaxVersion \in Nat

VARIABLE settings   \* the file: schema (of this release or older), version, value

Schemas == {"absent", "older", "current"}

SettingsTypeOK == settings \in [schema : Schemas, version : 0..MaxVersion, value : Values]

(* No file yet, or one of an earlier release: schemas 1 to 3 carry the     *)
(* same choices (1 none of the LLM).  A file of this release is what the   *)
(* first load makes of either.                                             *)
SettingsInit ==
  \/ settings = [schema |-> "absent", version |-> 0, value |-> Default]
  \/ settings \in [schema : {"older"}, version : {0}, value : Legacy]

(* What read_snapshot decodes; an absent file is the defaults. *)
Snapshot == [version |-> settings.version, value |-> settings.value]

(* write_snapshot up to the rename. *)
Commit(version, value) ==
  settings' = [schema |-> "current", version |-> version, value |-> value]

(* Reading migrates an older file in place; the read fails when that write *)
(* does, and the file may be the migrated one already.                     *)
Migrated == Commit(settings.version, settings.value)

Load(result) ==
  IF settings.schema = "older"
  THEN \/ result = "ok" /\ Migrated
       \/ result = "failed" /\ (Migrated \/ UNCHANGED settings)
  ELSE result \in {"ok", "failed"} /\ UNCHANGED settings

(* A replacement whose expected version is not the file's changes nothing. *)
(* Its callers have loaded before: the file is no older one any more.      *)
Replace(expected, value, result) ==
  \/ /\ expected = settings.version /\ settings.version < MaxVersion
     /\ result \in {"ok", "failed"}
     /\ Commit(expected + 1, value)
  \/ /\ result = "failed" /\ UNCHANGED settings

=============================================================================
