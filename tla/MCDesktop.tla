----------------------------- MODULE MCDesktop -----------------------------
(* Desktop with the choices of the settings file that its parts look at. *)
EXTENDS Desktop, TLC

MCValues == Choices
MCDefault ==
  [enabled |-> TRUE, limit |-> 2, days |-> Forever, shortcut |-> NoShortcut,
   engine |-> CHOOSE e \in Engines : TRUE, mode |-> "toggle", autoCopy |-> FALSE, diagnostics |-> FALSE]
MCLegacy == {[MCDefault EXCEPT !.mode = "pushToTalk"]}
MCVariants ==
  [e \in Engines |-> LET sound == Sound(e, 1) IN
     IF e \in Directories
     THEN {sound, [sound EXCEPT !.more = TRUE], [sound EXCEPT !.manifest = "file", !.shape = "file"]}
     ELSE {sound, [sound EXCEPT !.shape = "absent"], [sound EXCEPT !.linked = TRUE]}]
Symmetry == Permutations(Modifiers) \cup Permutations(Notices)
=============================================================================
