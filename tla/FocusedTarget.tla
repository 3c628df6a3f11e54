--------------------------- MODULE FocusedTarget ---------------------------
(***************************************************************************)
(* What a delivery acts on and does not own: the keyboard focus, the text  *)
(* control captured at the start of the recording, the shortcuts posted    *)
(* and not yet consumed, and the system pasteboard.  The user, the other   *)
(* applications and the target's own run loop move them at any time.       *)
(*                                                                         *)
(* A control is what the accessibility calls of target_context/macos.rs    *)
(* tell apart: where its caret is relative to the anchor, whether its      *)
(* character count still is the one before the delivery, and the delivery  *)
(* whose text can be read back at the anchor.                              *)
(***************************************************************************)
EXTENDS Naturals

CONSTANTS
  Deliveries,   \* deliveries, one per recording
  Nobody,       \* no delivery
  MaxMoves,     \* bound: moves of the user (focus, caret or an edit)
  MaxForeign    \* bound: pasteboard writes of other applications

(* A delivery is a text of its own: nobody's and no other program's. *)
ASSUME DeliveriesAreOwn ==
  Deliveries \cap {Nobody, "user", "foreign", "empty"} = {}

ASSUME BoundsAreNatural == MaxMoves \in Nat /\ MaxForeign \in Nat

VARIABLES
  focus,        \* what the keyboard focus is on
  field,        \* the captured control
  keys,         \* the delivery whose posted shortcut is not yet consumed
  pasteboard,   \* general pasteboard: its contents and its changes
  landed,       \* how often the current delivery's text entered a document
  moves,        \* moves the user has made
  foreign       \* pasteboard writes other applications have made

targetVars == <<focus, field, keys, pasteboard, landed, moves, foreign>>

Foci == {"target", "other", "secure", "unknown"}
Carets == {"selected", "anchor", "after", "away"}
Counts == {"same", "plus", "edited"}
Fields == [caret : Carets, count : Counts, holds : Deliveries \cup {Nobody}]

(* changeCount is only ever compared with one taken before: changes counts *)
(* the writes since then as far as the comparison tells them apart.        *)
Uncounted == 3
Contents == Deliveries \cup {"user", "foreign", "empty"}

TargetTypeOK ==
  /\ focus \in Foci
  /\ field \in Fields
  /\ keys \in Deliveries \cup {Nobody}
  /\ pasteboard \in [content : Contents, changes : 0..Uncounted]
  /\ landed \in Nat
  /\ moves \in 0..MaxMoves /\ foreign \in 0..MaxForeign

TargetInit ==
  /\ focus = "target"
  /\ field = [caret |-> "anchor", count |-> "same", holds |-> Nobody]
  /\ keys = Nobody
  /\ pasteboard = [content |-> "user", changes |-> Uncounted]
  /\ landed = 0
  /\ moves = 0 /\ foreign = 0

-----------------------------------------------------------------------------
(* What the application observes *)

(* classify_security: what the probes of the focused control come to; a   *)
(* secure input anywhere, or a probe that fails, makes it unusable.        *)
Security ==
  CASE focus = "secure"  -> "SecureInput"
    [] focus = "unknown" -> "Unknown"
    [] OTHER -> "Safe"

(* compare_identities: process, window and element are the captured ones. *)
SameControl == focus = "target"

(* The comparisons every check of the target makes, in this order: its     *)
(* security, its identity, and the caret it looks for.                     *)
Disposition(expected) ==
  CASE Security = "SecureInput" -> "Invalid"
    [] Security = "Unknown" -> "Indeterminate"
    [] SameControl /\ field.caret = expected -> "Valid"
    [] OTHER -> "Invalid"

(* insertion_length_observation and read_inserted_text together: what a    *)
(* poll may find.  An element-bound insertion wants both markers, a paste  *)
(* accepts either one and reads the range again when it cannot be read.    *)
Markers(caretMoved, countMoved, policy) ==
  IF policy = "Both" THEN caretMoved /\ countMoved ELSE caretMoved \/ countMoved

(* read_inserted_text: the range behind the anchor holds the text. *)
ReadBack(d) == IF field.holds = d THEN "Verified" ELSE "Unverified"

PollMayFind(d, policy) ==
  IF ~SameControl THEN {"Unverified"}
  ELSE IF field.caret = "anchor" /\ field.count = "same" THEN {"Pending"}
  ELSE IF ~Markers(field.caret = "after", field.count = "plus", policy)
       THEN {"Unverified"}
  ELSE {ReadBack(d),
        IF policy = "Both" THEN "Unverified" ELSE "ReadbackPending"}

-----------------------------------------------------------------------------
(* What the application does to them *)

(* The text enters the captured control at its caret. *)
FieldWith(d) ==
  IF field.caret = "anchor"
  THEN [caret |-> "after", count |-> "plus", holds |-> d]
  ELSE [caret |-> "away", count |-> "plus", holds |-> Nobody]

Lands(d) ==
  /\ field' = FieldWith(d)
  /\ landed' = landed + 1

(* The setter of AXSelectedText: the control accepts the text or silently  *)
(* discards it, whatever the call returns.                                 *)
SetSelectedText(d) ==
  /\ \/ Lands(d)
     \/ UNCHANGED <<field, landed>>
  /\ UNCHANGED <<focus, keys, pasteboard, moves, foreign>>

(* clearContents and the write that follows it: one new changeCount, and   *)
(* an empty pasteboard when the second call fails.                         *)
WritePasteboard(content, ok) ==
  pasteboard' = [content |-> IF ok THEN content ELSE "empty",
                 changes |-> IF pasteboard.changes < 2
                             THEN pasteboard.changes + 1
                             ELSE pasteboard.changes]

(* post_command_v: the key-down and the key-up. *)
PostPaste(d) == keys' = d

-----------------------------------------------------------------------------
(* What the others do *)

Edited == [caret |-> "away", count |-> "edited", holds |-> Nobody]

(* The application with the focus consumes the shortcut: it inserts what   *)
(* the pasteboard holds by now, or ignores it; a secure input swallows it. *)
(* Anything but the delivery's own text is an edit like the user's.        *)
ConsumePaste ==
  /\ keys # Nobody /\ keys' = Nobody
  /\ \/ /\ focus # "secure"
        /\ IF pasteboard.content = keys
           THEN /\ landed' = landed + 1
                /\ field' = IF focus = "target" THEN FieldWith(keys) ELSE field
           ELSE /\ field' = IF focus = "target" THEN Edited ELSE field
                /\ UNCHANGED landed
     \/ UNCHANGED <<field, landed>>
  /\ UNCHANGED <<focus, pasteboard, moves, foreign>>

UserMoves ==
  /\ moves < MaxMoves /\ moves' = moves + 1
  /\ \/ \E f \in Foci \ {focus} : focus' = f /\ UNCHANGED field
     \/ /\ focus = "target"
        /\ \/ field' = [field EXCEPT !.caret = "away"]
           \/ field' = Edited
        /\ UNCHANGED focus
  /\ UNCHANGED <<keys, pasteboard, landed, foreign>>

ForeignWrite ==
  /\ foreign < MaxForeign /\ foreign' = foreign + 1
  /\ WritePasteboard("foreign", TRUE)
  /\ UNCHANGED <<focus, field, keys, landed, moves>>
=============================================================================
