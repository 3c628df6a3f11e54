--------------------------- MODULE TargetContext ---------------------------
(***************************************************************************)
(* SafeTargetContext over the macOS accessibility backend: the snapshot a  *)
(* recording captures, the short-lived capability a revalidation mints,    *)
(* and the insertion that consumes it, writes once and proves what it did. *)
(*                                                                         *)
(* A step is one observation of the target or one call that changes it;    *)
(* the user and the target move between any two.  A setter whose text is   *)
(* not in the control when it returns never applies it later: that is what *)
(* verify_insert concludes from ten unchanged polls, and assumed here.     *)
(***************************************************************************)
EXTENDS DeliveryCall

VARIABLES
  snapshot,    \* the snapshot of the current recording
  capability,  \* the validated capability minted from it
  consumed     \* the current delivery is in consumed_deliveries

registry == <<snapshot, capability, consumed>>

(* A snapshot is Safe with the caret it captured, Unsafe, or expired; the  *)
(* capability carries the snapshot's caret and expires on its own.         *)
Snapshots == {"selected", "anchor", "unsafe", "expired"}

RegistryTypeOK ==
  /\ snapshot \in Snapshots
  /\ capability \in {"none", "selected", "anchor"}
  /\ consumed \in BOOLEAN

RegistryInit ==
  /\ snapshot = "expired" /\ capability = "none" /\ consumed = FALSE

(* capture_sync: the control the user is in becomes the captured one, with *)
(* its caret in front of nothing of this delivery, whose id is fresh.      *)
Capture ==
  \E caret \in {"selected", "anchor"}, safe \in BOOLEAN :
    /\ field' = [caret |-> caret, count |-> "same", holds |-> Nobody]
    /\ focus' = IF safe THEN "target" ELSE "unknown"
    /\ snapshot' = IF safe THEN caret ELSE "unsafe"
    /\ capability' = "none" /\ consumed' = FALSE /\ landed' = 0
    /\ UNCHANGED <<keys, pasteboard, moves, foreign>>

(* The two seconds of the capability, or the fifteen minutes of the        *)
(* snapshot and of the capabilities minted from it, run out; an insertion  *)
(* that holds its own copy of the capability is done long before that.     *)
ExpireCapability ==
  /\ capability # "none" /\ capability' = "none"
  /\ UNCHANGED <<snapshot, consumed, targetVars, callVars>>

ExpireSnapshot ==
  /\ snapshot # "expired" /\ snapshot' = "expired"
  /\ at \in {"revalidate", "insert", "rebind"}
  /\ capability' = "none"
  /\ UNCHANGED <<consumed, targetVars, callVars>>

(* revalidate_sync *)
RevalidationOf ==
  IF snapshot = "expired" THEN "Indeterminate" ELSE Disposition(snapshot)

Revalidate(next) ==
  /\ capability' = IF RevalidationOf = "Valid" THEN snapshot ELSE capability
  /\ Return(next, RevalidationOf)
  /\ UNCHANGED <<snapshot, consumed, targetVars>>

(* clipboard_insert_status: the captured caret, or the one a collapse      *)
(* before this left behind.                                                *)
ClipboardStatus ==
  IF capability = "none" THEN "Indeterminate"
  ELSE IF Disposition(capability) = "Invalid" THEN Disposition("anchor")
  ELSE Disposition(capability)

-----------------------------------------------------------------------------
(* read_selected_text_sync: the target is looked at, and the backend looks *)
(* again before and after it reads the selection; any difference is an     *)
(* error, and so is a control that does not give its text away.            *)

LookAtSelection ==
  /\ at = "select"
  /\ IF Disposition(snapshot) = "Valid" THEN Goto("selectRead")
     ELSE Return("selected", "Err")
  /\ UNCHANGED <<registry, targetVars>>

StillSelected == SameControl /\ Security = "Safe" /\ field.caret = "selected"

ReadSelection ==
  /\ at = "selectRead"
  /\ \/ StillSelected /\ Goto("selectCheck")
     \/ Return("selected", "Err")
  /\ UNCHANGED <<registry, targetVars>>

CheckSelection ==
  /\ at = "selectCheck"
  /\ Return("selected", IF StillSelected THEN "Ok" ELSE "Err")
  /\ UNCHANGED <<registry, targetVars>>

SelectStep == LookAtSelection \/ ReadSelection \/ CheckSelection

-----------------------------------------------------------------------------
(* insert_sync *)

InsertTake ==
  /\ at = "insert"
  /\ capability' = "none"
  /\ IF capability = "none" \/ consumed
     THEN Return("inserted", "NotInserted") /\ UNCHANGED consumed
     ELSE Goto("insertPrecommit") /\ consumed' = TRUE
  /\ UNCHANGED <<snapshot, targetVars>>

(* The capability the insertion took carries the snapshot's caret. *)
InsertPrecommit ==
  /\ at = "insertPrecommit"
  /\ IF Disposition(snapshot) = "Valid"
     THEN BeginCommit(IF snapshot = "selected" THEN "insertCollapse"
                      ELSE "insertDispatch", "inserted", "NotInserted")
     ELSE Return("inserted", "NotInserted")
  /\ UNCHANGED <<registry, targetVars>>

(* collapse_selection may fail before or after it has moved the caret. *)
InsertCollapse ==
  /\ at = "insertCollapse"
  /\ \/ /\ Disposition("selected") = "Valid"
        /\ field' = [field EXCEPT !.caret = "anchor"]
        /\ \/ Goto("insertCollapsed")
           \/ EndCommit("inserted", "NotInserted")
     \/ UNCHANGED field /\ EndCommit("inserted", "NotInserted")
  /\ UNCHANGED <<registry, focus, keys, pasteboard, landed, moves, foreign>>

InsertCollapsed ==
  /\ at = "insertCollapsed"
  /\ IF Disposition("anchor") = "Valid" THEN Goto("insertDispatch")
     ELSE EndCommit("inserted", "NotInserted")
  /\ UNCHANGED <<registry, targetVars>>

(* dispatch_insert up to the setter: the control may refuse the text, and  *)
(* two observations must still find the caret at the anchor.               *)
InsertDispatch ==
  /\ at = "insertDispatch"
  /\ \/ Disposition("anchor") = "Valid" /\ Goto("insertSet")
     \/ EndCommit("inserted", "NotInserted")
  /\ UNCHANGED <<registry, targetVars>>

(* The setter: an error proves nothing about the control. *)
InsertSet ==
  /\ at = "insertSet"
  /\ SetSelectedText(current)
  /\ \/ Goto("insertVerify")
     \/ EndCommit("inserted", "Indeterminate")
  /\ UNCHANGED registry

(* verify_insert: unchanged markers are polled again, and prove that       *)
(* nothing was inserted when they are unchanged to the end.                *)
(* Mutants: an unverified text counts as not inserted; a timeout as        *)
(* inserted.                                                               *)
InsertOutcomeRetried(found) ==
  IF found = "Verified" THEN "Inserted" ELSE "NotInserted"
InsertOutcomeTrusted(found) ==
  IF found \in {"Verified", "Pending"} THEN "Inserted" ELSE "Indeterminate"

InsertOutcomeOf(found) ==
  CASE found = "Verified" -> "Inserted"
    [] found = "Pending"  -> "NotInserted"
    [] OTHER -> "Indeterminate"

InsertVerify ==
  /\ at = "insertVerify"
  /\ \E found \in PollMayFind(current, "Both") :
       EndCommit("inserted", InsertOutcomeOf(found))
  /\ UNCHANGED <<registry, targetVars>>

InsertStep ==
  \/ InsertTake
  \/ InsertPrecommit
  \/ InsertCollapse
  \/ InsertCollapsed
  \/ InsertDispatch
  \/ InsertSet
  \/ InsertVerify
=============================================================================
