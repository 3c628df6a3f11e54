-------------------------- MODULE RecordingShortcut --------------------------
(***************************************************************************)
(* The global recording shortcut: key combinations registered with the     *)
(* system and a monitor of one modifier key, which is replaced as a whole. *)
(* replace_registered_binding runs without interruption; the system may    *)
(* refuse each of its calls.                                               *)
(***************************************************************************)
EXTENDS Integers, FiniteSets

CONSTANTS
  Combinations,   \* shortcuts of several keys, registered with the system
  Modifiers,      \* shortcuts of one modifier key
  NoShortcut      \* none is chosen

ASSUME ShortcutAssumption ==
  /\ Combinations \cap Modifiers = {}
  /\ NoShortcut \notin Combinations \cup Modifiers

VARIABLE registered   \* the shortcuts that fire, the monitored modifier included

Shortcuts == Combinations \cup Modifiers

ShortcutTypeOK ==
  registered \subseteq Shortcuts /\ Cardinality(registered \cap Modifiers) <= 1

ShortcutInit == registered = {}

(* replace_mac_modifier_shortcut: the new monitor first, then the old goes.*)
Monitored(s, rs) == (rs \ Modifiers) \cup {s}

(* What register_binding makes of rs when the system lets it; a            *)
(* combination may be refused because it is registered already.            *)
Registered(s, rs) == IF s \in Modifiers THEN Monitored(s, rs) ELSE rs \cup {s}

(* Unregistering a modifier ends whatever is monitored. *)
Unregistered(s, rs) == IF s \in Modifiers THEN rs \ Modifiers ELSE rs \ {s}

(* ensure_registered, and the one replacement that needs no gap. *)
Direct(current, next) ==
  \/ current = next
  \/ current \in Modifiers /\ next \in Modifiers

(* replace_registered_binding: which shortcuts fire after it, and how it   *)
(* ends.  When the new one is refused the old one is registered again, and *)
(* that may be refused too.                                                *)
Rebinding(current, next) ==
  LET without == IF current = NoShortcut THEN registered ELSE Unregistered(current, registered)
      nothing == [set |-> registered, result |-> "failed"]
  IN IF next = NoShortcut /\ current = NoShortcut
     THEN {[set |-> registered, result |-> "ok"]}
     ELSE IF Direct(current, next)
     THEN {[set |-> Registered(next, registered), result |-> "ok"]}
          \cup (IF next \in registered THEN {} ELSE {nothing})
     ELSE (IF current = NoShortcut THEN {} ELSE {nothing})
          \cup (IF next = NoShortcut THEN {[set |-> without, result |-> "ok"]}
                ELSE {[set |-> Registered(next, without), result |-> "ok"],
                      [set |-> without, result |-> "failed"]}
                     \cup (IF current = NoShortcut THEN {}
                           ELSE {[set |-> Registered(current, without), result |-> "failed"]}))

Rebind(current, next, result) ==
  \E r \in Rebinding(current, next) : result = r.result /\ registered' = r.set

(* register_recording_shortcut, at startup. *)
RegisterFirst(s) ==
  \/ UNCHANGED registered
  \/ s # NoShortcut /\ registered' = Registered(s, registered)

=============================================================================
