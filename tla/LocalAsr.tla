------------------------------- MODULE LocalAsr -------------------------------
(***************************************************************************)
(* The worker process of the desktop as the settings page and a session    *)
(* meet it: the supervisor of the moment launches it when it is needed,    *)
(* greets it, and serves one request at a time, a health check or a        *)
(* transcription with its grant; it kills a process that breaks the        *)
(* protocol or is late.  AsrSupervisor has the queue of the commands and   *)
(* their answers; here it is the two processes, the folder they share and  *)
(* the memory of the engines.                                              *)
(***************************************************************************)
EXTENDS Preferences, EngineHost

VARIABLES
  sup    \* AsrSupervisor: what it waits for, for which request, and whether it has a process

NoRequest == [at |-> "idle", use |-> "none", engine |-> NoEngine, process |-> FALSE]

LocalAsrTypeOK ==
  /\ HostTypeOK
  /\ sup \in [at : {"idle", "handshake", "health", "transcribe", "cancelling"},
              use : {"none", "health", "transcribe"},
              engine : Engines \cup {NoEngine}, process : BOOLEAN]

LocalAsrInit == sup = NoRequest /\ HostInit

asrVars == <<sup, hostVars>>

(* The answer ends the request; the process stays for the next one, or     *)
(* terminate has killed it.                                                *)
Done == sup' = [NoRequest EXCEPT !.process = TRUE]
Killed == sup' = NoRequest /\ HostGone /\ outbox' = <<>>

(* After a command prepared an engine: a worker for other models may have  *)
(* taken the place of this one.                                            *)
Replaced == IF worker' = worker THEN UNCHANGED asrVars ELSE Killed

-----------------------------------------------------------------------------
(* Who asks: a command that has prepared its engine, or the route of the   *)
(* session and then its transcription.                                     *)
Asks(use, e) ==
  \/ use = "health" /\ At("model", "probe") /\ e = ops["model"].to.engine
  \/ use = "health" /\ At("model", "reprobe") /\ e = ops["model"].from
  \/ session.step = "active" /\ e = session.with.engine

(* A health check is answered to whoever asked. *)
Tell(e, h) == Probes /\ health'[e] = h

(* A stub knows its answer. *)
AnswerStub == stub /\ Probes /\ UNCHANGED asrVars

OnlyGrants ==
  UNCHANGED <<settings, historyVars, registered, group, stray, packages, scan, worker, stub,
              health, control>>

(* ensure_worker: launch a process and greet it. *)
Launch(use, e) ==
  /\ sup.at = "idle" /\ ~sup.process /\ ~stub /\ Asks(use, e)
  /\ sup' = [at |-> "handshake", use |-> use, engine |-> e, process |-> TRUE]
  /\ Arguments({m \in Engines : worker[m] # Missing})
  /\ inbox' = <<HostMessage("hello", NoEngine)>>
  /\ UNCHANGED <<outbox, inference, lock, active, memory, prefVars>>

(* start_health and start_transcription with a worker that is there.  A    *)
(* recording that is gone or cannot be copied ends the transcription.      *)
Serve(use, e) ==
  \/ use = "transcribe" /\ CreateGrant("failed") /\ Done /\ UNCHANGED inbox
  \/ /\ IF use = "transcribe" THEN CreateGrant("ok") ELSE UNCHANGED grants
     /\ sup' = [at |-> use, use |-> use, engine |-> e, process |-> TRUE]
     /\ inbox' = Append(inbox, HostMessage(use, e))

Request(use, e) ==
  /\ sup.at = "idle" /\ sup.process /\ host.at # "gone" /\ Asks(use, e)
  /\ Serve(use, e) /\ OnlyGrants
  /\ UNCHANGED <<host, outbox, inference, lock, active, memory>>

Greeted ==
  /\ sup.at = "handshake" /\ outbox # <<>> /\ outbox' = Tail(outbox)
  /\ Serve(sup.use, sup.engine) /\ OnlyGrants
  /\ UNCHANGED <<host, inference, lock, active, memory>>

-----------------------------------------------------------------------------
(* complete_health *)
HealthArrives ==
  /\ sup.at = "health" /\ outbox # <<>>
  /\ Tell(sup.engine, Head(outbox)) /\ outbox' = Tail(outbox) /\ Done
  /\ UNCHANGED <<host, inbox, inference, lock, active, memory>>

(* complete_transcription, complete_cancelled and complete_worker_error: a *)
(* text after a cancel breaks the protocol.                                *)
AnswerArrives ==
  /\ sup.at \in {"transcribe", "cancelling"} /\ outbox # <<>>
  /\ RevokeGrant /\ OnlyGrants
  /\ \/ /\ Done /\ outbox' = Tail(outbox)
        /\ UNCHANGED <<host, inbox, inference, lock, active, memory>>
     \/ sup.at = "cancelling" /\ Head(outbox) = "answer" /\ Killed

(* cancel_transcription *)
CancelAsr ==
  /\ sup.at = "transcribe" /\ host.at # "gone"
  /\ sup' = [sup EXCEPT !.at = "cancelling"]
  /\ inbox' = Append(inbox, HostMessage("cancel", sup.engine))
  /\ UNCHANGED <<host, outbox, inference, lock, active, memory, prefVars>>

(* fail_process: the answer is late - but to a transcription that nobody   *)
(* cancels there is no limit - or the process is gone, as its output or a  *)
(* write to it tells.                                                      *)
Fails ==
  /\ sup.process
  /\ sup.at \in {"handshake", "health", "cancelling"} \/ host.at = "gone"
  /\ \/ sup.use \in {"none", "health"} /\ \E e \in Engines : Asks("health", e) /\ Tell(e, "unfit")
     \/ sup.use = "none" /\ UNCHANGED prefVars
     \/ sup.use = "none" /\ (\E e \in Engines : Asks("transcribe", e))
        /\ CreateGrant("failed") /\ OnlyGrants
     \/ sup.use = "transcribe" /\ RevokeGrant /\ OnlyGrants
  /\ Killed

SupervisorStep ==
  \/ AnswerStub \/ Greeted \/ HealthArrives \/ AnswerArrives \/ CancelAsr \/ Fails
  \/ \E use \in {"health", "transcribe"}, e \in Engines : Launch(use, e) \/ Request(use, e)

WorkerStep == (ReadTranscribe("held" \in grants) \/ HostStep) /\ UNCHANGED <<sup, prefVars>>

=============================================================================
