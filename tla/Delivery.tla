------------------------------ MODULE Delivery ------------------------------
(***************************************************************************)
(* The delivery of a text: TranscriptionOrchestrator::deliver and its      *)
(* routes - the insertion into the captured control, the paste bound to    *)
(* it, the paste into whatever has the focus, the temporary text window -  *)
(* composed with the components they call, the user, the other             *)
(* applications and a quit at any moment.                                  *)
(*                                                                         *)
(* The chain begins with the start of the recording, which may read the    *)
(* selected text.  It reads the runtime between any two port calls: the    *)
(* start is reserved, and the delivery expected, until a quit takes the    *)
(* session out of it.                                                      *)
(***************************************************************************)
EXTENDS TemporaryText

VARIABLES
  waiting,   \* deliveries that have not started
  fate,      \* how the current delivery ends
  fallback,  \* the status a temporary text of the current delivery will show
  saved,     \* history: the store has the current delivery's record
  quit       \* where the quit is

session == <<waiting, fate, fallback, saved, quit>>
ports == <<temporary, bridge, registry, targetVars>>
vars == <<session, callVars, ports>>

Fates ==
  {"none", "inserted", "pasted", "boxed", "failed", "discarded", "rejected"}

TypeOK ==
  /\ TargetTypeOK /\ RegistryTypeOK /\ BridgeTypeOK /\ TemporaryTypeOK
  /\ current \in Deliveries \cup {Nobody} /\ answer \in Answers
  /\ open \in BOOLEAN /\ commits \in 0..1
  /\ waiting \subseteq Deliveries /\ fate \in Fates
  /\ fallback \in Statuses
  /\ saved \in BOOLEAN
  /\ quit \in {"idle", "invalidate", "drain", "done"}

Init ==
  /\ TargetInit /\ CallInit /\ RegistryInit /\ BridgeInit /\ TemporaryInit
  /\ waiting = Deliveries /\ fate = "none"
  /\ fallback = "none" /\ saved = FALSE /\ quit = "idle"

(* is_expected_delivery and is_expected_finalization: a quit has not taken *)
(* the session out of the runtime.                                         *)
Expected == quit = "idle"

(* The chain ends; the session is cleared. *)
EndAs(result) ==
  /\ fate' = result /\ fallback' = "none"
  /\ Goto("idle")
  /\ UNCHANGED <<waiting, saved, quit>>

Go(step) == Goto(step) /\ UNCHANGED session

(* The next port call, unless the delivery is no longer expected. *)
IfExpected(step) == IF Expected THEN Go(step) ELSE EndAs("discarded")

(* The temporary window will show the text for this reason. *)
ShowAs(reason) ==
  /\ Goto("show") /\ fallback' = reason
  /\ UNCHANGED <<waiting, fate, saved, quit>>

-----------------------------------------------------------------------------
(* A recording starts: its target is captured, its fence is new.  The      *)
(* shortcuts of an earlier delivery have been consumed by then: a          *)
(* recording and its recognition lie between.                              *)
StartDelivery(d) ==
  /\ at = "idle" /\ Expected /\ keys = Nobody /\ d \in waiting
  /\ Capture
  /\ current' = d /\ open' = TRUE /\ answer' = "none"
  /\ waiting' = waiting \ {d} /\ fate' = "none"
  /\ saved' = FALSE /\ gone' = FALSE /\ ledger' = "none"
  /\ \/ at' = "show" /\ fallback' = "llm_fallback"
     \/ at' = "route" /\ fallback' = "none"
     \/ snapshot' = "selected" /\ at' = "select" /\ fallback' = "none"
  /\ UNCHANGED <<commits, quit, txn, pending, status, box,
                 dismissing>>

(* start: the selected text goes with a text that an LLM will process.     *)
(* Without clipboard_bridge_allowed an error rejects the start at once; a  *)
(* selection over the limit does so too.                                   *)
ChooseAfterSelection ==
  /\ at = "selected"
  /\ CASE ~Expected -> EndAs("discarded")
       [] answer = "Ok" ->
            Go("route") \/ ShowAs("llm_fallback") \/ EndAs("rejected")
       [] OTHER -> Go("copy") \/ EndAs("rejected")
  /\ UNCHANGED ports

ChooseAfterCopy ==
  /\ at = "copied"
  /\ EndAs(IF Expected THEN "rejected" ELSE "discarded")
  /\ UNCHANGED ports

(* deliver: a target that was not safe goes to the user's own focus. *)
Route ==
  /\ at = "route"
  /\ IF snapshot = "unsafe" THEN Go("userDirected") ELSE Go("revalidate")
  /\ UNCHANGED ports

RevalidateFirst ==
  /\ at = "revalidate"
  /\ Revalidate("revalidated")
  /\ UNCHANGED <<session, bridge, temporary>>

ChooseInsert ==
  /\ at = "revalidated"
  /\ IfExpected(IF answer = "Valid" THEN "insert" ELSE "userDirected")
  /\ UNCHANGED ports

(* Only a proven "not inserted" may try the clipboard: an indeterminate    *)
(* insertion may already be in the document.                               *)
ChooseAfterInsert ==
  /\ at = "inserted"
  /\ CASE answer = "Inserted" -> Go("finalizeInserted")
       [] ~Expected -> EndAs("discarded")
       [] answer = "NotInserted" -> Go("clipboard")
       [] OTHER -> ShowAs("indeterminate")
  /\ UNCHANGED ports

-----------------------------------------------------------------------------
(* try_clipboard_or_temporary and try_user_directed_or_temporary *)

(* Without clipboard_bridge_allowed there is only the window. *)
TryClipboard ==
  /\ at = "clipboard"
  /\ \/ Go("rebind")
     \/ ShowAs("not_inserted")
  /\ UNCHANGED ports

RevalidateAgain ==
  /\ at = "rebind"
  /\ Revalidate("rebound")
  /\ UNCHANGED <<session, bridge, temporary>>

ChooseBound ==
  /\ at = "rebound"
  /\ IfExpected(IF answer = "Valid" THEN "bind" ELSE "paste")
  /\ UNCHANGED ports

TryUserDirected ==
  /\ at = "userDirected"
  /\ \/ IfExpected("paste")
     \/ ShowAs("not_inserted")
  /\ UNCHANGED ports

ChooseAfterPaste ==
  /\ at = "pasted"
  /\ CASE answer \in {"Inserted", "Dispatched"} -> Go("finalizePasted")
       [] ~Expected -> EndAs("discarded")
       [] answer = "Indeterminate" -> ShowAs("indeterminate")
       [] OTHER -> ShowAs("not_inserted")
  /\ UNCHANGED ports

(* show_temporary_text: a window that cannot be shown fails the session. *)
ChooseAfterShow ==
  /\ at = "shown"
  /\ CASE ~Expected -> EndAs("discarded")
       [] answer = "Ok" -> Go("finalizeBoxed")
       [] OTHER -> EndAs("failed")
  /\ UNCHANGED ports

-----------------------------------------------------------------------------
(* Finalizing: automatic copy, history, completion *)

Finals == [finalizeInserted |-> "inserted", finalizePasted |-> "pasted",
           finalizeBoxed |-> "boxed"]

(* BeginFinalizing and the two optional steps after it; fate already tells *)
(* how the text was delivered.                                             *)
BeginFinalizing ==
  /\ at \in DOMAIN Finals
  /\ IF ~Expected THEN EndAs("discarded")
     ELSE /\ fate' = Finals[at]
          /\ \E step \in {"autoCopy", "history", "complete"} : Goto(step)
          /\ UNCHANGED <<waiting, fallback, saved, quit>>
  /\ UNCHANGED ports

(* write_text of the automatic copy: outside the fence. *)
AutoCopy ==
  /\ at = "autoCopy" /\ ~Busy
  /\ \E ok \in BOOLEAN : WritePasteboard(current, ok)
  /\ \/ IfExpected("history")
     \/ IfExpected("complete")
  /\ UNCHANGED <<temporary, bridge, registry, focus, field, keys, landed,
                 moves, foreign>>

(* save_with_policy commits under the fence, and may fail. *)
OpenHistory ==
  /\ at = "history"
  /\ BeginCommit("saveHistory", "complete", "none")
  /\ UNCHANGED <<session, ports>>

SaveHistory ==
  /\ at = "saveHistory"
  /\ saved' \in BOOLEAN
  /\ EndCommit("complete", "none")
  /\ UNCHANGED <<waiting, fate, fallback, quit, ports>>

Complete ==
  /\ at = "complete"
  /\ EndAs(IF Expected THEN fate ELSE "discarded")
  /\ UNCHANGED ports

DeliverStep ==
  \/ Route \/ RevalidateFirst \/ ChooseInsert \/ ChooseAfterInsert
  \/ TryClipboard \/ RevalidateAgain \/ ChooseBound \/ TryUserDirected
  \/ ChooseAfterPaste \/ ChooseAfterShow
  \/ BeginFinalizing \/ AutoCopy
  \/ OpenHistory \/ SaveHistory \/ Complete
  \/ ChooseAfterSelection \/ ChooseAfterCopy
  \/ (SelectStep /\ UNCHANGED <<session, bridge, temporary>>)
  \/ (InsertStep /\ UNCHANGED <<session, bridge, temporary>>)
  \/ (TransactionStep /\ UNCHANGED <<session, temporary>>)
  \/ (ShowStep(fallback) /\ UNCHANGED session)

-----------------------------------------------------------------------------
(* run_leader_quit: the runtime first, then the fence; a delivery under    *)
(* way is not called off but waited for, its call before its commits.      *)
QuitTake ==
  /\ quit = "idle" /\ quit' = "invalidate"
  /\ UNCHANGED <<callVars, waiting, fate, fallback, saved>>

QuitInvalidate ==
  /\ quit = "invalidate" /\ quit' = "drain"
  /\ Invalidate
  /\ UNCHANGED <<waiting, fate, fallback, saved>>

(* Mutant: the quit waits for the commits only. *)
QuitDrainCommitsOnly ==
  /\ quit = "drain" /\ Quiescent
  /\ quit' = "done"
  /\ UNCHANGED <<callVars, waiting, fate, fallback, saved>>

QuitDrain ==
  /\ quit = "drain" /\ at = "idle" /\ Quiescent
  /\ quit' = "done"
  /\ UNCHANGED <<callVars, waiting, fate, fallback, saved>>

QuitStep ==
  /\ QuitTake \/ QuitInvalidate \/ QuitDrain
  /\ UNCHANGED ports

(* The user clicks in the window until the process is gone. *)
UserStep ==
  /\ quit # "done" /\ WindowStep
  /\ UNCHANGED session

(* A move of the user, or an expiry, matters while the chain still looks   *)
(* at the target; a shortcut is consumed at any time after it was posted.  *)
Watched ==
  at \notin {"idle", "route", "show", "showWindow", "shown", "autoCopy",
             "history", "saveHistory", "complete"}

EnvironmentStep ==
  /\ \/ ConsumePaste /\ UNCHANGED <<callVars, registry, bridge>>
     \/ Watched /\ UserMoves /\ UNCHANGED <<callVars, registry, bridge>>
     \/ ForeignWriteSeen
     \/ Watched /\ (ExpireCapability \/ ExpireSnapshot) /\ UNCHANGED bridge
  /\ UNCHANGED <<session, temporary>>

Over == quit = "done" /\ keys = Nobody /\ UNCHANGED vars

Next ==
  \/ \E d \in Deliveries : StartDelivery(d)
  \/ DeliverStep \/ QuitStep \/ UserStep \/ EnvironmentStep \/ Over

Spec == Init /\ [][Next]_vars

-----------------------------------------------------------------------------
(* Properties *)

(* A text enters a document at most once, whatever the target, the focus,  *)
(* the pasteboard and the expiries do on the way from the insertion to the *)
(* paste: only a proven refusal goes on to the next way of writing.        *)
LandsAtMostOnce == landed <= 1

(* The window says "not inserted" or "model fallback" only of a text that  *)
(* is in no document and that no shortcut will still put there.            *)
StatusIsHonest ==
  (pending = current /\ status \in {"not_inserted", "llm_fallback"})
     => landed = 0 /\ keys # current

(* A delivery reported as inserted is in a document. *)
InsertedIsTrue ==
  fate = "inserted" => landed = 1

(* A transaction that nobody disturbed and whose restoration succeeded     *)
(* leaves the pasteboard with what the user had there; and one that finds  *)
(* that another program has written after it staged its text does not set  *)
(* out to restore over it.                                                 *)
ClipboardIsSettled ==
  /\ [](at = "txnRecord" /\ txn.clean => pasteboard.content = txn.saved)
  /\ [][at = "txnRestore" /\ at' = "txnWriteBack" /\ txn.kind # "selection"
           => pasteboard.content # "foreign"]_vars

(* Once the quit has returned the application changes nothing any more: no *)
(* text is staged, no shortcut posted, no record saved, no window filled.  *)
NothingAfterExit ==
  [][quit = "done" =>
       /\ keys' \in {keys, Nobody} /\ saved' = saved /\ pending' = pending
       /\ pasteboard'.content \in {pasteboard.content, "foreign"}]_vars
=============================================================================
