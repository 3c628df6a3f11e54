----------------------------- MODULE AsrProtocol -----------------------------
(***************************************************************************)
(* The protocol between the Core and the ASR worker process                *)
(* (remtene-contracts/worker.rs): the messages, and the state machine that *)
(* both sides keep a copy of and consult on every message they send or     *)
(* receive.  The copies start Ready here: a supervisor waits for the Hello *)
(* and Ready exchange before it does anything else with a worker.          *)
(***************************************************************************)

CONSTANTS
  Transcriptions,  \* the transcription requests ever made
  HealthChecks,    \* the health checks ever made
  Nobody           \* absence of a request or command

Message(kind, request) == [kind |-> kind, request |-> request]

CoreKinds == {"healthCheck", "transcribe", "cancel", "shutdown"}

(* "failed", "timedOut" and "graceElapsed" are Errors correlated to a       *)
(* request; the last is fatal, and so is the uncorrelated "rejected".       *)
Answers == {"transcript", "cancelled", "failed", "timedOut", "graceElapsed"}
Fatal == {"graceElapsed", "rejected"}
WorkerKinds == Answers \cup {"healthResult", "rejected", "shutdownComplete"}

Protocols ==
  [phase : {"Ready", "ShuttingDown", "Closed"}, active : SUBSET Transcriptions]

Ready == [phase |-> "Ready", active |-> {}]

(* observe_core: whether the message is legal now, and the state after it. *)
CoreMay(protocol, message) ==
  /\ protocol.phase = "Ready"
  /\ message.kind = "transcribe" => message.request \notin protocol.active
  /\ message.kind = "cancel" => message.request \in protocol.active

AfterCore(protocol, message) ==
  [phase |-> IF message.kind = "shutdown" THEN "ShuttingDown"
             ELSE protocol.phase,
   active |-> IF message.kind = "transcribe"
              THEN protocol.active \cup {message.request}
              ELSE protocol.active]

(* observe_worker *)
WorkerMay(protocol, message) ==
  /\ protocol.phase # "Closed"
  /\ message.kind \in {"healthResult", "transcript"} =>
       protocol.phase = "Ready"
  /\ message.kind = "shutdownComplete" => protocol.phase = "ShuttingDown"
  /\ message.kind \in Answers => message.request \in protocol.active

(* Mutant: an answered request stays active. *)
AfterWorkerKeepsActive(protocol, message) ==
  IF message.kind \in Fatal \cup {"shutdownComplete"}
  THEN [phase |-> "Closed", active |-> {}]
  ELSE protocol

AfterWorker(protocol, message) ==
  IF message.kind \in Fatal \cup {"shutdownComplete"}
  THEN [phase |-> "Closed", active |-> {}]
  ELSE [protocol EXCEPT !.active = @ \ {message.request}]
=============================================================================
