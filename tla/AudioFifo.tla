------------------------------ MODULE AudioFifo ------------------------------
(***************************************************************************)
(* What the recording pipeline promises: while the disk works, the samples *)
(* it accepts reach the file in order and once each, no more than Capacity *)
(* of them are on the way, and the file is completed only with every one   *)
(* of them in it.  The i-th accepted sample is the number i.               *)
(***************************************************************************)
EXTENDS Naturals, Sequences

CONSTANT Capacity  \* the samples the ring has room for

VARIABLES
  sent,  \* the number of samples accepted so far
  file,  \* the samples in the file
  phase  \* the file is open, complete or given up

Init == sent = 0 /\ file = <<>> /\ phase = "open"

Accept ==
  /\ phase # "complete"
  /\ sent' > sent
  /\ phase = "open" => sent' <= Len(file) + Capacity
  /\ UNCHANGED <<file, phase>>

Write ==
  /\ phase = "open"
  /\ Len(file') > Len(file) /\ Len(file') <= sent
  /\ file' = [i \in 1..Len(file') |-> i]
  /\ UNCHANGED <<sent, phase>>

Complete ==
  /\ phase = "open"
  /\ Len(file) = sent
  /\ phase' = "complete"
  /\ UNCHANGED <<sent, file>>

GiveUp ==
  /\ phase = "open"
  /\ phase' = "failed"
  /\ UNCHANGED <<sent, file>>

Next == Accept \/ Write \/ Complete \/ GiveUp

Spec == Init /\ [][Next]_<<sent, file, phase>>
=============================================================================
