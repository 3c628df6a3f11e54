-------------------------- MODULE ClipboardBridge --------------------------
(***************************************************************************)
(* AuthorizedClipboardBridge over the macOS pasteboard: the transaction    *)
(* that saves the pasteboard, stages the text, pastes it with a shortcut   *)
(* and restores what it saved.  A bound transaction pastes into the        *)
(* validated target and verifies; a user directed one posts the shortcut   *)
(* to whatever has the focus.  A third kind would copy a selection, which  *)
(* macOS declines to do.  The transaction lock spans all of it.            *)
(***************************************************************************)
EXTENDS TargetContext

VARIABLES
  txn,       \* the transaction under way
  ledger     \* delivery_outcomes: the current delivery's entry

bridge == <<txn, ledger>>

(* saved is the snapshot; outcome what the paste came to; clean is         *)
(* history: nobody else has written since the snapshot, no restore failed. *)
NoTxn == [kind |-> "none", saved |-> "empty", outcome |-> "none",
          clean |-> FALSE]

BridgeTypeOK ==
  /\ txn \in [kind : {"none", "bound", "user", "selection"}, saved : Contents, outcome : Answers,
              clean : BOOLEAN]
  /\ ledger \in Answers

BridgeInit == txn = NoTxn /\ ledger = "none"

Busy == txn.kind # "none"      \* the transaction lock is held

OutcomeIs(result) == txn' = [txn EXCEPT !.outcome = result]

(* The call returns: the lock is released, the outcome recorded unless the *)
(* transaction ends in an error.                                           *)
Record(result) ==
  /\ ledger' = IF ledger = "none" THEN result ELSE ledger
  /\ txn' = NoTxn

Pasted == "pasted"
Caller == IF txn.kind = "selection" THEN "copied" ELSE Pasted

(* Lock and ledger lookup; a hit of the other kind is indeterminate. *)
LedgerAnswer(kind) ==
  IF (ledger = "Dispatched") = (kind = "user")
  THEN ledger ELSE "Indeterminate"

BeginTransaction(kind, step) ==
  /\ at = step /\ ~Busy
  /\ IF ledger # "none"
     THEN /\ Return(Pasted, LedgerAnswer(kind))
          /\ UNCHANGED <<txn, pasteboard>>
     ELSE /\ Goto("txnSnapshot")
          /\ txn' = [NoTxn EXCEPT !.kind = kind, !.clean = TRUE]
          /\ pasteboard' = [pasteboard EXCEPT !.changes = 0]
  /\ UNCHANGED <<ledger, registry, focus, field, keys, landed, moves, foreign>>

(* read_selected_text_sync: the lock and a snapshot, no ledger. *)
BeginSelection ==
  /\ at = "copy" /\ ~Busy
  /\ Goto("txnSnapshot")
  /\ txn' = [NoTxn EXCEPT !.kind = "selection", !.clean = TRUE]
  /\ pasteboard' = [pasteboard EXCEPT !.changes = 0]
  /\ UNCHANGED <<ledger, registry, focus, field, keys, landed, moves, foreign>>

(* snapshot reads changeCount first and the contents after it; a lazy or   *)
(* oversized item fails before anything is changed.                        *)
ReadContents ==
  /\ at = "txnSnapshot"
  /\ \/ /\ txn' = [txn EXCEPT !.saved = pasteboard.content]
        /\ Goto(CASE txn.kind = "bound" -> "txnValidate"
                  [] txn.kind = "user" -> "txnCommit"
                  [] txn.kind = "selection" -> "txnSelection")
     \/ txn' = NoTxn /\ Return(Caller, "Err")
  /\ UNCHANGED <<ledger, registry, targetVars>>

(* clipboard_selection_status *)
ValidateSelectionTarget ==
  /\ at = "txnSelection"
  /\ IF Disposition(snapshot) = "Valid" THEN Goto("txnCopy") /\ UNCHANGED txn
     ELSE Return("copied", "Err") /\ txn' = NoTxn
  /\ UNCHANGED <<ledger, registry, targetVars>>

(* copy_selection answers NotCopied and leaves the pasteboard alone; the   *)
(* transaction restores it all the same.                                   *)
CopySelection ==
  /\ at = "txnCopy"
  /\ Goto("txnRestore") /\ OutcomeIs("Err")
  /\ UNCHANGED <<ledger, registry, targetVars>>

ValidateInsertTarget ==
  /\ at = "txnValidate"
  /\ CASE ClipboardStatus = "Valid" -> Goto("txnCommit") /\ UNCHANGED bridge
       [] ClipboardStatus = "Invalid" ->
            Record("NotInserted") /\ Return(Pasted, "NotInserted")
       [] OTHER -> Record("Indeterminate") /\ Return(Pasted, "Indeterminate")
  /\ UNCHANGED <<registry, targetVars>>

CommitTransaction ==
  /\ at = "txnCommit"
  /\ BeginCommit("txnStage", Pasted, "Err")
  /\ txn' = IF open THEN txn ELSE NoTxn
  /\ UNCHANGED <<ledger, registry, targetVars>>

(* stage_text: from here on no error may escape as NotInserted. *)
StageText ==
  /\ at = "txnStage"
  /\ \/ /\ WritePasteboard(current, TRUE)
        /\ UNCHANGED txn
        /\ Goto(IF txn.kind = "bound" THEN "txnRecheck" ELSE "txnPost")
     \/ /\ WritePasteboard(current, FALSE)
        /\ OutcomeIs("Indeterminate")
        /\ Goto("txnRestore")
  /\ UNCHANGED <<ledger, registry, focus, field, keys, landed, moves, foreign>>

(* paste and dispatch_and_verify_clipboard_insert check the target once    *)
(* more, and that no secure input would swallow the shortcut.              *)
RecheckTarget ==
  /\ at = "txnRecheck"
  /\ IF ClipboardStatus = "Valid" THEN Goto("txnPost") /\ UNCHANGED txn
     ELSE /\ OutcomeIs(IF ClipboardStatus = "Invalid" THEN "NotInserted"
                       ELSE "Indeterminate")
          /\ Goto("txnRestore")
  /\ UNCHANGED <<ledger, registry, targetVars>>

(* post_command_v may fail with the key-down already posted. *)
PostShortcut ==
  /\ at = "txnPost"
  /\ \/ /\ PostPaste(current)
        /\ IF txn.kind = "bound"
           THEN Goto("txnVerify") /\ UNCHANGED txn
           ELSE Goto("txnRestore") /\ OutcomeIs("Dispatched")
     \/ /\ PostPaste(current) \/ UNCHANGED keys
        /\ Goto("txnRestore") /\ OutcomeIs("Indeterminate")
  /\ UNCHANGED <<ledger, registry, focus, field, pasteboard, landed, moves,
                 foreign>>

(* poll_clipboard_insert_effect: only a verified text is an insertion; the *)
(* end of the polls proves nothing of a shortcut that is still queued.     *)
(* Mutant: the end of the polls proves that nothing was pasted. *)
PastedAsProven(found) == IF found = "Verified" THEN "Inserted" ELSE "NotInserted"

PastedAs(found) == IF found = "Verified" THEN "Inserted" ELSE "Indeterminate"

VerifyPaste ==
  /\ at = "txnVerify"
  /\ \E found \in PollMayFind(current, "Any") : OutcomeIs(PastedAs(found))
  /\ Goto("txnRestore")
  /\ UNCHANGED <<ledger, registry, targetVars>>

(* restore: only a pasteboard nobody has written to since the staging is   *)
(* written back; materialize_items may fail before it is cleared.          *)
(* Mutant: the staging itself counts as another program's write. *)
OursUnstaged == pasteboard.changes = 0

Ours == pasteboard.changes = 1

CheckOurs ==
  /\ at = "txnRestore"
  /\ Goto(IF Ours THEN "txnWriteBack" ELSE "txnRecord")
  /\ UNCHANGED <<bridge, registry, targetVars>>

(* A restoration that fails makes the outcome indeterminate, except that   *)
(* of a shortcut already dispatched for the user.                          *)
RestoreFailed ==
  txn' = [txn EXCEPT !.clean = FALSE,
                     !.outcome = IF @ = "Dispatched" THEN @ ELSE "Indeterminate"]

WriteBack ==
  /\ at = "txnWriteBack"
  /\ \/ WritePasteboard(txn.saved, TRUE) /\ UNCHANGED txn
     \/ WritePasteboard(txn.saved, FALSE) /\ RestoreFailed
     \/ UNCHANGED pasteboard /\ RestoreFailed
  /\ Goto("txnRecord")
  /\ UNCHANGED <<ledger, registry, focus, field, keys, landed, moves, foreign>>

RecordOutcome ==
  /\ at = "txnRecord" /\ txn.kind # "selection"
  /\ Record(txn.outcome) /\ EndCommit(Pasted, txn.outcome)
  /\ pasteboard' = [pasteboard EXCEPT !.changes = Uncounted]
  /\ UNCHANGED <<registry, focus, field, keys, landed, moves, foreign>>

(* The reading of a selection holds no commit and has no entry. *)
EndSelection ==
  /\ at = "txnRecord" /\ txn.kind = "selection"
  /\ Return("copied", "Err") /\ txn' = NoTxn
  /\ pasteboard' = [pasteboard EXCEPT !.changes = Uncounted]
  /\ UNCHANGED <<ledger, registry, focus, field, keys, landed, moves, foreign>>

(* Another application writes while the transaction runs. *)
ForeignWriteSeen ==
  /\ Busy /\ ForeignWrite
  /\ txn' = [txn EXCEPT !.clean = FALSE]
  /\ UNCHANGED <<ledger, registry, callVars>>

TransactionStep ==
  \/ BeginTransaction("bound", "bind")
  \/ BeginTransaction("user", "paste")
  \/ BeginSelection
  \/ ReadContents
  \/ ValidateSelectionTarget
  \/ CopySelection
  \/ ValidateInsertTarget
  \/ CommitTransaction
  \/ StageText
  \/ RecheckTarget
  \/ PostShortcut
  \/ VerifyPaste
  \/ CheckOurs
  \/ WriteBack
  \/ RecordOutcome
  \/ EndSelection
=============================================================================
