----------------------------- MODULE GrantFolder -----------------------------
(***************************************************************************)
(* The App Group container that the app and its worker share: its layout,  *)
(* and the folder of grants, the copies of recordings that a worker may    *)
(* read.  A copy lasts as long as the request it was made for.             *)
(***************************************************************************)

VARIABLES
  group,    \* whose directory the container holds
  grants,   \* held: the copy of the request in flight; left: copies without a request
  stray     \* something that no supervisor made lies in the folder of grants

folderVars == <<group, grants, stray>>

(* both: the old brand's was not taken over, and a new one exists; foreign: *)
(* something else than a directory has the name.                           *)
Groups == {"none", "old", "new", "both", "foreign"}

FolderTypeOK == group \in Groups /\ grants \subseteq {"held", "left"} /\ stray \in BOOLEAN

(* What the next process finds, also when the last one died with a grant.  *)
FolderFound == group \in Groups /\ grants \in {{}, {"left"}} /\ stray \in BOOLEAN
FolderInit == group = "new" /\ grants = {} /\ stray = FALSE

(* resolve_macos_app_group: the old brand's directory is renamed when there *)
(* is no new one; what is missing of the layout is made.                   *)
PrepareLayout(result) ==
  \/ result = "failed" /\ group' \in {group, IF group = "old" THEN "new" ELSE group}
  \/ /\ result = "ok" /\ group # "foreign"
     /\ group' = IF group = "both" THEN "both" ELSE "new"

(* remove_stale_grants looks at every name before it removes any file.     *)
RemoveStaleGrants(result) ==
  \/ result = "ok" /\ ~stray /\ grants' = {}
  \/ result = "failed" /\ grants' \in {grants, grants \ {"left"}, grants \ {"held"}}
     /\ (stray => grants' = grants)

(* ArtifactGrant::create: a copy that fails halfway is taken back, or that *)
(* fails too.                                                              *)
CreateGrant(result) ==
  \/ result = "ok" /\ grants' = grants \cup {"held"}
  \/ result = "failed" /\ grants' \in {grants, grants \cup {"left"}}

(* ArtifactGrant::revoke and its drop. *)
RevokeGrant ==
  \/ grants' = grants \ {"held"}
  \/ "held" \in grants /\ grants' = (grants \ {"held"}) \cup {"left"}

=============================================================================
