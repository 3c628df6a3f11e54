--------------------------- MODULE TemporaryText ---------------------------
(***************************************************************************)
(* TemporaryTextBoxController: the one-time window that holds a text no    *)
(* application took.  deliver stores the text, then builds or reuses the   *)
(* window; the webview shows what it pulls when it mounts or what the      *)
(* event brings; dismissing clears the text and destroys the window.       *)
(***************************************************************************)
EXTENDS ClipboardBridge

VARIABLES
  pending,   \* the text kept for the window: its delivery
  status,    \* the status code the pending text carries
  box,       \* the window: whether it exists and what it displays
  dismissing,\* a dismissal is between clearing the text and the window
  gone       \* history: the user dismissed the current text when it showed

temporary == <<pending, status, box, dismissing, gone>>

Statuses == {"none", "not_inserted", "indeterminate", "llm_fallback"}
Loading == "loading"      \* the webview has not mounted
NoBox == [exists |-> FALSE, shows |-> Nobody]
NewBox == [exists |-> TRUE, shows |-> Loading]

TemporaryTypeOK ==
  /\ pending \in Deliveries \cup {Nobody}
  /\ status \in Statuses
  /\ box \in [exists : BOOLEAN, shows : Deliveries \cup {Nobody, Loading}]
  /\ dismissing \in BOOLEAN
  /\ gone \in BOOLEAN

TemporaryInit ==
  /\ pending = Nobody /\ status = "none" /\ box = NoBox
  /\ dismissing = FALSE /\ gone = FALSE

-----------------------------------------------------------------------------
(* deliver *)

(* The fence, then pending: not under build_lock. *)
ShowText(reason) ==
  /\ at = "show"
  /\ BeginCommit("showWindow", "shown", "Err")
  /\ IF open THEN pending' = current /\ status' = reason
     ELSE UNCHANGED <<pending, status>>
  /\ UNCHANGED <<box, dismissing, gone, bridge, registry, targetVars>>

(* window(): under build_lock, a dismissal has ended; building may fail.   *)
(* The event reaches the webview of a window that was there already.       *)
ShowWindow ==
  /\ at = "showWindow" /\ ~dismissing
  /\ \/ /\ box' = IF ~box.exists THEN NewBox
                  ELSE IF box.shows = Loading THEN box
                  ELSE [box EXCEPT !.shows = current]
        /\ \E result \in {"Ok", "Err"} : EndCommit("shown", result)
     \/ ~box.exists /\ EndCommit("shown", "Err") /\ UNCHANGED box
  /\ UNCHANGED <<pending, status, dismissing, gone, bridge, registry,
                 targetVars>>

ShowStep(reason) == ShowText(reason) \/ ShowWindow

-----------------------------------------------------------------------------
(* The window's own commands *)

(* temporary_text_get_pending: the webview mounts and pulls the text. *)
Mount ==
  /\ box.exists /\ box.shows = Loading
  /\ box' = [box EXCEPT !.shows = pending]
  /\ UNCHANGED <<pending, status, dismissing, gone, callVars, bridge,
                 registry, targetVars>>

(* dismiss: the text is cleared, then the window is destroyed, if it can   *)
(* be; build_lock is held over both.                                       *)
Dismiss ==
  /\ box.exists /\ box.shows # Loading /\ ~dismissing
  /\ pending' = Nobody /\ status' = "none"
  /\ dismissing' = TRUE
  /\ gone' = (gone \/ box.shows = current)
  /\ UNCHANGED <<box, callVars, bridge, registry, targetVars>>

DestroyWindow ==
  /\ dismissing /\ dismissing' = FALSE
  /\ box' \in {box, NoBox}
  /\ UNCHANGED <<pending, status, gone, callVars, bridge, registry,
                 targetVars>>

(* temporary_text_copy_all: the text of the delivery the window displays   *)
(* is cloned, and written once no transaction holds the clipboard.         *)
CopyAll ==
  /\ box.exists /\ pending # Nobody /\ box.shows = pending
  /\ ~Busy
  /\ \E ok \in BOOLEAN : WritePasteboard(pending, ok)
  /\ UNCHANGED <<temporary, callVars, bridge, registry, focus, field, keys,
                 landed, moves, foreign>>

(* show_pending: the user reopens the text from a feedback window. *)
ShowPending ==
  /\ pending # Nobody /\ ~box.exists /\ ~dismissing
  /\ box' = NewBox
  /\ UNCHANGED <<pending, status, dismissing, gone, callVars, bridge,
                 registry, targetVars>>

WindowStep == Mount \/ Dismiss \/ DestroyWindow \/ CopyAll \/ ShowPending
=============================================================================
