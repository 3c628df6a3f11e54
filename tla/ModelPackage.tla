----------------------------- MODULE ModelPackage -----------------------------
(***************************************************************************)
(* What stands in models/active under the id of an engine, and how the     *)
(* registry decides whether it is the package that its manifest describes. *)
(* A manifest gives one hash for a single file, or one for every file of a *)
(* directory.  "weights" stands for the files that a manifest lists.       *)
(***************************************************************************)
EXTENDS Naturals

CONSTANTS
  Engines,      \* each has one package, under the id of its model
  Directories,  \* the engines whose model is a directory: Qwen; the others have a file
  MaxPackages   \* bound: revisions of a package

ASSUME PackageAssumption == Directories \subseteq Engines /\ MaxPackages \in Nat \ {0}

Missing == 0
Revisions == 1..MaxPackages

(* broken: it cannot be read, or validate refuses it; foreign: of another  *)
(* model or another engine; file, directory: what it describes.            *)
Manifests == {"absent", "broken", "foreign", "file", "directory"}
Shapes == {"absent", "file", "directory"}
Contents == {"absent", "right", "wrong"}

(* linked: the file - in a directory one of its files - is a symbolic link; *)
(* more: the directory holds something that the manifest does not list.    *)
PackageSet ==
  [revision : Revisions, manifest : Manifests, shape : Shapes, weights : Contents,
   linked : BOOLEAN, more : BOOLEAN]

Kind(e) == IF e \in Directories THEN "directory" ELSE "file"

(* The package that the user is meant to install.                          *)
Sound(e, revision) ==
  [revision |-> revision, manifest |-> Kind(e), shape |-> Kind(e), weights |-> "right",
   linked |-> FALSE, more |-> FALSE]

-----------------------------------------------------------------------------
(* ModelManifest::load_from_file, and the identity that load_model expects. *)
Fitting(p) == p.manifest \in {"file", "directory"}

(* find_package_path: the manifest says what to look for.                  *)
FoundPackage(p) ==
  IF p.manifest = "directory" THEN p.shape = "directory" ELSE p.shape # "absent"

(* A link to a file is followed. *)
SingleFileVerified(p) == p.shape = "file" /\ p.weights = "right"

(* Every listed file is there, itself and unchanged, and nothing else is.  *)
DirectoryVerified(p) == p.weights = "right" /\ ~p.linked /\ ~p.more

(* ModelRegistry::load_model with its hashes. *)
Verified(p) ==
  /\ Fitting(p) /\ FoundPackage(p)
  /\ IF p.manifest = "directory" THEN DirectoryVerified(p) ELSE SingleFileVerified(p)

(* What the launch asks of the path of a model: what the engine needs      *)
(* stands there, and no link leads to it.                                  *)
PathValid(e, p) == p.shape = Kind(e) /\ (p.shape = "file" => ~p.linked)

=============================================================================
