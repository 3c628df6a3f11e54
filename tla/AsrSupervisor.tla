---------------------------- MODULE AsrSupervisor ----------------------------
(***************************************************************************)
(* AsrWorkerAdapter: the supervisor thread that owns the ASR worker        *)
(* process, the process itself and the two pipes between them              *)
(* (remtene-adapters/asr_worker.rs, remtene-asr-worker/lib.rs).            *)
(*                                                                         *)
(* A command is an ordinary call of the adapter; it is queued for the      *)
(* thread, and its future is the command's answer here.  The thread's loop *)
(* drains what the worker wrote, looks at its deadlines and takes one      *)
(* command; a step is one of these.  Time is not modelled: an armed        *)
(* deadline may have passed whenever the thread looks.  Spawning a worker  *)
(* and its handshake block the thread and are part of the command that     *)
(* needs the worker.                                                       *)
(***************************************************************************)
EXTENDS AsrProtocol, Sequences

CONSTANTS
  Cancels,   \* the cancel commands ever made
  Releases,  \* release_idle_resources: shut the worker down if it is idle
  Closes,    \* shutdown: shut the worker and the supervisor down
  Bounded    \* the transcriptions that have a finite deadline

Commands == Transcriptions \cup HealthChecks \cup Cancels \cup Releases
              \cup Closes

ASSUME CommandsAreDistinct ==
  /\ Nobody \notin Commands
  /\ Bounded \subseteq Transcriptions
  /\ Transcriptions \cap HealthChecks = {}
  /\ (Transcriptions \cup HealthChecks) \cap (Cancels \cup Releases) = {}
  /\ Cancels \cap Releases = {}
  /\ (Transcriptions \cup HealthChecks \cup Cancels \cup Releases) \cap Closes
       = {}

VARIABLES
  connected,      \* somebody still holds the adapter
  queue,          \* the mpsc channel of commands
  answer,         \* per command: what its future has been completed with
  target,         \* the transcription a cancel names
  pc,             \* where the thread's loop is
  closed,         \* SupervisorActor.closed
  health,         \* pending_health
  transcription,  \* pending_transcription
  reason,         \* its terminal_error, set together with its cancel_deadline
  canceller,      \* its cancel_response
  shutdown,       \* pending_shutdown
  grants,         \* the audio copies on disk
  protocol,       \* the Core's copy of the protocol state
  worker,         \* the process the supervisor holds
  toWorker,       \* its stdin
  fromWorker      \* its stdout and the channel of its reader thread

client == <<connected, answer, target>>
pending == <<health, transcription, reason, canceller, shutdown>>
process == <<protocol, worker, toWorker, fromWorker>>
vars == <<client, queue, pc, closed, pending, grants, process>>

(* "failed" stands for every error nobody tells apart: busy, closed,        *)
(* crashed, protocol_rejected; "cleanup" is audio_grant_cleanup_failed.     *)
Outcomes == {"ok", "failed", "cancelled", "timeout", "cleanup"}

Workers ==
  [state : {"none", "alive", "exited"}, protocol : Protocols,
   active : Transcriptions \cup {Nobody}, cancelRequested : BOOLEAN,
   timedOut : BOOLEAN, shutdownRequested : BOOLEAN]

FreshWorker ==
  [state |-> "alive", protocol |-> Ready, active |-> Nobody,
   cancelRequested |-> FALSE, timedOut |-> FALSE, shutdownRequested |-> FALSE]
NoWorker == [FreshWorker EXCEPT !.state = "none"]

Eof == Message("eof", Nobody)

TypeOK ==
  /\ connected \in BOOLEAN /\ closed \in BOOLEAN
  /\ queue \in Seq(Commands)
  /\ answer \in [Commands -> {"unsent", "sent"} \cup Outcomes]
  /\ target \in [Cancels -> Transcriptions \cup {Nobody}]
  /\ pc \in {"drain", "deadlines", "command", "stopping", "stopped"}
  /\ health \in HealthChecks \cup {Nobody}
  /\ transcription \in Transcriptions \cup {Nobody}
  /\ reason \in {"none", "cancelled", "timeout", "failed"}
  /\ canceller \in Cancels \cup {Nobody}
  /\ shutdown \in Releases \cup Closes \cup {Nobody}
  /\ grants \subseteq Transcriptions
  /\ protocol \in Protocols
  /\ worker \in Workers
  /\ toWorker \in Seq([kind : CoreKinds,
                       request : Transcriptions \cup HealthChecks \cup {Nobody}])
  /\ fromWorker \in Seq([kind : WorkerKinds \cup {"eof"},
                         request : Transcriptions \cup HealthChecks \cup {Nobody}])
  /\ transcription = Nobody => reason = "none"
  /\ canceller # Nobody => reason # "none"
  /\ worker.state = "none" => process = <<Ready, NoWorker, <<>>, <<>>>>

Init ==
  /\ connected = TRUE /\ closed = FALSE
  /\ queue = <<>>
  /\ answer = [c \in Commands |-> "unsent"]
  /\ target = [c \in Cancels |-> Nobody]
  /\ pc = "drain"
  /\ health = Nobody /\ transcription = Nobody /\ reason = "none"
  /\ canceller = Nobody /\ shutdown = Nobody
  /\ grants = {}
  /\ protocol = Ready /\ worker = NoWorker
  /\ toWorker = <<>> /\ fromWorker = <<>>

-----------------------------------------------------------------------------
(* The clients *)

Submit(c) ==
  /\ connected
  /\ answer[c] = "unsent"
  /\ IF c \in Cancels
     THEN \E t \in Transcriptions : target' = [target EXCEPT ![c] = t]
     ELSE UNCHANGED target
  /\ IF pc = "stopped"
     THEN answer' = [answer EXCEPT ![c] = "failed"] /\ UNCHANGED queue
     ELSE answer' = [answer EXCEPT ![c] = "sent"] /\ queue' = Append(queue, c)
  /\ UNCHANGED <<connected, pc, closed, pending, grants, process>>

DropAdapter ==
  /\ connected
  /\ connected' = FALSE
  /\ UNCHANGED <<answer, target, queue, pc, closed, pending, grants, process>>

-----------------------------------------------------------------------------
(* What the supervisor's handlers share *)

Complete(commands, outcome) ==
  [c \in Commands |-> IF c \in commands THEN outcome ELSE answer[c]]

(* ArtifactGrant::revoke; a failed one is tried again when it is dropped. *)
Revoked(t) == grants' = grants \ {t}
RevokeFails(t) == grants' \in {grants, grants \ {t}}

Terminate ==
  /\ worker' = NoWorker /\ protocol' = Ready
  /\ toWorker' = <<>> /\ fromWorker' = <<>>

(* The pending transcription ends: its grant goes first, and a grant that   *)
(* cannot be removed is what the caller is told.                            *)
EndTranscription(outcome, cancelOutcome) ==
  /\ \/ /\ Revoked(transcription)
        /\ answer' = [Complete({canceller}, cancelOutcome)
                        EXCEPT ![transcription] = outcome]
     \/ /\ RevokeFails(transcription)
        /\ answer' = Complete({transcription, canceller}, "cleanup")
  /\ transcription' = Nobody /\ reason' = "none" /\ canceller' = Nobody

(* Mutant: the cancel that waits is forgotten. *)
FailAllButCancel(outcome, also) ==
  /\ \/ /\ Revoked(transcription)
        /\ answer' = Complete({health, transcription, shutdown} \cup also,
                              outcome)
     \/ /\ transcription # Nobody
        /\ RevokeFails(transcription)
        /\ answer' = [c \in Commands |->
                        IF c = transcription THEN "cleanup"
                        ELSE Complete({health, shutdown} \cup also, outcome)[c]]
  /\ health' = Nobody /\ transcription' = Nobody /\ reason' = "none"
  /\ canceller' = Nobody /\ shutdown' = Nobody

(* fail_all: every pending command is answered with the error. *)
FailAll(outcome, also) ==
  /\ \/ /\ Revoked(transcription)
        /\ answer' = Complete({health, transcription, canceller, shutdown}
                                \cup also, outcome)
     \/ /\ transcription # Nobody
        /\ RevokeFails(transcription)
        /\ answer' = [c \in Commands |->
                        IF c \in {transcription, canceller} THEN "cleanup"
                        ELSE Complete({health, shutdown} \cup also, outcome)[c]]
  /\ health' = Nobody /\ transcription' = Nobody /\ reason' = "none"
  /\ canceller' = Nobody /\ shutdown' = Nobody

(* fail_process *)
FailProcess(outcome, also) ==
  /\ FailAll(outcome, also)
  /\ Terminate
  /\ closed' = (closed \/ shutdown \in Closes)
  /\ UNCHANGED <<connected, target>>

(* WorkerProcess::send: the protocol allows the message and the pipe works. *)
CanSend(w, message) == w.state = "alive" /\ CoreMay(protocol, message)

Send(w, message) ==
  /\ worker' = w
  /\ protocol' = AfterCore(protocol, message)
  /\ toWorker' = Append(toWorker, message)
  /\ UNCHANGED fromWorker

Idle == health = Nobody /\ transcription = Nobody

(* ensure_worker: the worker held, or a new one if it can be launched. *)
EnsuredWorker == IF worker.state = "none" THEN FreshWorker ELSE worker

Answer(c, outcome) == answer' = [answer EXCEPT ![c] = outcome]

-----------------------------------------------------------------------------
(* drain_worker_output: one message the worker wrote *)

(* Mutant: the transcript of a request being cancelled is delivered. *)
TranscriptFitsDespiteCancel(message) == message.request = transcription

TranscriptFits(message) ==
  message.request = transcription /\ canceller = Nobody

CompleteHealth(message) ==
  /\ message.kind = "healthResult"
  /\ health # Nobody /\ message.request = health
  /\ Answer(health, "ok")
  /\ health' = Nobody
  /\ UNCHANGED <<transcription, reason, canceller, shutdown, closed, grants,
                 worker>>

CompleteTranscription(message) ==
  /\ message.kind = "transcript"
  /\ TranscriptFits(message)
  /\ EndTranscription("ok", "ok")
  /\ UNCHANGED <<health, shutdown, closed, worker>>

CompleteCancelled(message) ==
  /\ message.kind = "cancelled"
  /\ message.request = transcription
  /\ EndTranscription(IF reason = "none" THEN "cancelled" ELSE reason, "ok")
  /\ UNCHANGED <<health, shutdown, closed, worker>>

(* complete_worker_error, an error that is not fatal *)
CompleteError(message) ==
  /\ message.kind \in {"failed", "timedOut"}
  /\ message.request = transcription
  /\ LET mapped == IF message.kind = "timedOut" THEN "timeout" ELSE "failed"
     IN EndTranscription(IF reason = "none" THEN mapped ELSE reason, mapped)
  /\ UNCHANGED <<health, shutdown, closed, worker>>

(* Everything else ends the process: the end of its output, a message the   *)
(* protocol does not allow, a fatal error, one that nobody waits for.       *)
Handled(message) ==
  \/ message.kind = "healthResult" /\ health # Nobody
       /\ message.request = health
  \/ message.kind = "transcript" /\ TranscriptFits(message)
  \/ message.kind \in {"cancelled", "failed", "timedOut"}
       /\ message.request = transcription
  \/ message.kind = "shutdownComplete" /\ shutdown # Nobody

Observed(message) ==
  /\ protocol' = AfterWorker(protocol, message)
  /\ fromWorker' = Tail(fromWorker)
  /\ UNCHANGED toWorker

CompleteShutdown(message) ==
  /\ message.kind = "shutdownComplete"
  /\ shutdown # Nobody
  /\ \/ /\ Revoked(transcription)
        /\ answer' = [c \in Commands |->
                        IF c = transcription THEN "failed"
                        ELSE Complete({canceller, shutdown}, "ok")[c]]
     \/ /\ transcription # Nobody
        /\ RevokeFails(transcription)
        /\ answer' = [c \in Commands |->
                        IF c \in {transcription, canceller} THEN "cleanup"
                        ELSE Complete({shutdown}, "ok")[c]]
  /\ transcription' = Nobody /\ reason' = "none" /\ canceller' = Nobody
  /\ shutdown' = Nobody
  /\ closed' = (shutdown \in Closes)
  /\ Terminate
  /\ UNCHANGED health

DrainMessage ==
  /\ pc = "drain"
  /\ fromWorker # <<>>
  /\ LET message == Head(fromWorker)
         legal == message # Eof /\ WorkerMay(protocol, message)
     IN \/ /\ legal
           /\ \/ CompleteHealth(message) \/ CompleteTranscription(message)
              \/ CompleteCancelled(message) \/ CompleteError(message)
           /\ Observed(message)
           /\ UNCHANGED <<connected, target>>
        \/ legal /\ CompleteShutdown(message) /\ UNCHANGED <<connected, target>>
        \/ ~(legal /\ Handled(message)) /\ FailProcess("failed", {})
  /\ UNCHANGED <<queue, pc>>

Drained ==
  /\ pc = "drain"
  /\ fromWorker = <<>>
  /\ pc' = IF closed THEN "stopping" ELSE "deadlines"
  /\ UNCHANGED <<client, queue, closed, pending, grants, process>>

-----------------------------------------------------------------------------
(* enforce_deadlines *)

HealthExpires ==
  /\ pc = "deadlines"
  /\ health # Nobody
  /\ FailProcess("timeout", {})
  /\ pc' = "command"
  /\ UNCHANGED queue

(* cancel_for_deadline *)
RequestExpires ==
  /\ pc = "deadlines"
  /\ transcription \in Bounded /\ reason = "none"
  /\ LET message == Message("cancel", transcription)
     IN \/ /\ CanSend(worker, message)
           /\ Send(worker, message)
           /\ reason' = "timeout"
           /\ UNCHANGED <<client, closed, health, transcription, canceller,
                          shutdown, grants>>
        \/ ~CanSend(worker, message) /\ FailProcess("failed", {})
  /\ pc' = "command"
  /\ UNCHANGED queue

CancelExpires ==
  /\ pc = "deadlines"
  /\ transcription # Nobody /\ reason # "none"
  /\ FailProcess("timeout", {})
  /\ pc' = "command"
  /\ UNCHANGED queue

ShutdownExpires ==
  /\ pc = "deadlines"
  /\ shutdown # Nobody
  /\ FailProcess("timeout", {})
  /\ pc' = "command"
  /\ UNCHANGED queue

NothingExpires ==
  /\ pc = "deadlines"
  /\ pc' = "command"
  /\ UNCHANGED <<client, queue, closed, pending, grants, process>>

-----------------------------------------------------------------------------
(* handle_command *)

(* Takes the command c from the queue; the loop goes on unless c stops it. *)
Take(c) ==
  /\ pc = "command"
  /\ queue # <<>> /\ c = Head(queue)
  /\ queue' = Tail(queue)
  /\ UNCHANGED <<connected, target>>

(* The command is answered at once. *)
Return(c, outcome) ==
  /\ Answer(c, outcome)
  /\ UNCHANGED <<closed, pending, grants, process>>

StartHealth(c) ==
  /\ c \in HealthChecks
  /\ Take(c)
  /\ pc' = "drain"
  /\ LET message == Message("healthCheck", c)
     IN \/ (shutdown # Nobody \/ ~Idle) /\ Return(c, "failed")
        \/ worker.state = "none" /\ Return(c, "failed")  \* cannot be launched
        \/ /\ shutdown = Nobody /\ Idle
           /\ CanSend(EnsuredWorker, message)
           /\ Send(EnsuredWorker, message)
           /\ health' = c
           /\ UNCHANGED <<answer, closed, transcription, reason, canceller,
                          shutdown, grants>>
        \/ /\ shutdown = Nobody /\ Idle
           /\ ~CanSend(EnsuredWorker, message)
           /\ FailProcess("failed", {c})

StartTranscription(c) ==
  /\ c \in Transcriptions
  /\ Take(c)
  /\ pc' = "drain"
  /\ LET message == Message("transcribe", c)
     IN \/ (shutdown # Nobody \/ ~Idle) /\ Return(c, "failed")
        \/ worker.state = "none" /\ Return(c, "failed")
        \/ /\ shutdown = Nobody /\ Idle       \* no source, or no grant of it
           /\ \/ Answer(c, "failed") /\ UNCHANGED grants
              \/ Answer(c, "cleanup") /\ grants' \in {grants, grants \cup {c}}
           /\ worker' = EnsuredWorker
           /\ UNCHANGED <<closed, pending, protocol, toWorker, fromWorker>>
        \/ /\ shutdown = Nobody /\ Idle
           /\ CanSend(EnsuredWorker, message)
           /\ Send(EnsuredWorker, message)
           /\ transcription' = c
           /\ grants' = grants \cup {c}
           /\ UNCHANGED <<answer, closed, health, reason, canceller, shutdown>>
        \/ /\ shutdown = Nobody /\ Idle
           /\ ~CanSend(EnsuredWorker, message)
           /\ \/ Answer(c, "failed") /\ UNCHANGED grants
              \/ Answer(c, "cleanup") /\ grants' \in {grants, grants \cup {c}}
           /\ Terminate
           /\ UNCHANGED <<closed, pending>>

(* Mutants: confirmed when it is sent; its deadline is not armed. *)
ConfirmCancelWhenSent(c) ==
  Answer(c, "ok") /\ reason' = "cancelled" /\ UNCHANGED canceller
AwaitCancelForever(c) ==
  canceller' = c /\ UNCHANGED <<answer, reason>>

(* A cancel waits for the end of its request, with a deadline of its own. *)
AwaitCancel(c) ==
  canceller' = c /\ reason' = "cancelled" /\ UNCHANGED answer

CancelTranscription(c) ==
  /\ c \in Cancels
  /\ Take(c)
  /\ pc' = "drain"
  /\ LET current == transcription # Nobody /\ transcription = target[c]
         message == Message("cancel", transcription)
     IN \/ ~current /\ Return(c, "ok")
        \/ current /\ canceller # Nobody /\ Return(c, "failed")
        \/ /\ current /\ canceller = Nobody
           /\ CanSend(worker, message)
           /\ Send(worker, message)
           /\ AwaitCancel(c)
           /\ UNCHANGED <<closed, health, transcription, shutdown, grants>>
        \/ /\ current /\ canceller = Nobody
           /\ ~CanSend(worker, message)
           /\ FailProcess("failed", {c})

(* Mutant: a release does not ask whether the worker is busy. *)
ShutdownRefusedUnlessBusy(c) == shutdown # Nobody

ShutdownRefused(c) ==
  shutdown # Nobody \/ (c \in Releases /\ ~Idle)

StartShutdown(c) ==
  /\ c \in Releases \cup Closes
  /\ Take(c)
  /\ LET message == Message("shutdown", Nobody)
         closing == IF c \in Closes THEN "stopping" ELSE "drain"
     IN \/ ShutdownRefused(c) /\ Return(c, "failed") /\ pc' = "drain"
        \/ /\ ~ShutdownRefused(c)
           /\ worker.state = "none"
           /\ Return(c, "ok")
           /\ pc' = closing
        \/ /\ ~ShutdownRefused(c)
           /\ CanSend(worker, message)
           /\ Send(worker, message)
           /\ answer' = Complete({health}, "failed")
           /\ health' = Nobody
           /\ reason' = IF transcription = Nobody THEN reason ELSE "failed"
           /\ shutdown' = c
           /\ pc' = "drain"
           /\ UNCHANGED <<closed, transcription, canceller, grants>>
        \/ /\ ~ShutdownRefused(c)
           /\ worker.state # "none" /\ ~CanSend(worker, message)
           /\ FailProcess("failed", {c})
           /\ pc' = closing

(* recv_timeout without a command *)
NoCommand ==
  /\ pc = "command"
  /\ queue = <<>> /\ connected
  /\ pc' = "drain"
  /\ UNCHANGED <<client, queue, closed, pending, grants, process>>

Disconnected ==
  /\ pc = "command"
  /\ queue = <<>> /\ ~connected
  /\ FailProcess("failed", {})
  /\ pc' = "stopped"
  /\ UNCHANGED queue

(* The loop has ended: the process is killed, and what is still queued or   *)
(* pending is dropped with the actor, its ResponseSender not completed.     *)
Stop ==
  /\ pc = "stopping"
  /\ pc' = "stopped"
  /\ queue' = <<>>
  /\ Terminate
  /\ health' = Nobody /\ transcription' = Nobody /\ reason' = "none"
  /\ canceller' = Nobody /\ shutdown' = Nobody
  /\ \/ Revoked(transcription)
     \/ transcription # Nobody /\ UNCHANGED grants
  /\ UNCHANGED <<client, closed>>

-----------------------------------------------------------------------------
(* run_worker, the event loop of the process *)

supervisor == <<client, queue, pc, closed, pending, grants, protocol>>

Emit(w, message) ==
  /\ worker' = [w EXCEPT !.protocol = AfterWorker(w.protocol, message)]
  /\ fromWorker' = Append(fromWorker, message)

(* The worker writes a last message, if any, and exits. *)
Exit(messages) ==
  /\ worker' = [NoWorker EXCEPT !.state = "exited"]
  /\ toWorker' = <<>>
  /\ fromWorker' = fromWorker \o Append(messages, Eof)

ReadHealthCheck(message) ==
  /\ message.kind = "healthCheck"
  /\ Emit([worker EXCEPT !.protocol = AfterCore(@, message)],
          Message("healthResult", message.request))

(* A request while another is active, or whose audio is not there, fails. *)
ReadTranscribe(message) ==
  LET observed == [worker EXCEPT !.protocol = AfterCore(@, message)]
  IN /\ message.kind = "transcribe"
     /\ \/ Emit(observed, Message("failed", message.request))
        \/ /\ worker.active = Nobody /\ message.request \in grants
           /\ worker' = [observed EXCEPT !.active = message.request,
                                         !.cancelRequested = FALSE,
                                         !.timedOut = FALSE]
           /\ UNCHANGED fromWorker

ReadCancel(message) ==
  /\ message.kind = "cancel"
  /\ worker' = [worker EXCEPT !.cancelRequested = TRUE]
  /\ UNCHANGED fromWorker

ReadShutdown(message) ==
  /\ message.kind = "shutdown"
  /\ worker' = [worker EXCEPT !.protocol = AfterCore(@, message),
                              !.cancelRequested = TRUE,
                              !.shutdownRequested = TRUE]
  /\ UNCHANGED fromWorker

WorkerReads ==
  /\ worker.state = "alive"
  /\ toWorker # <<>>
  /\ LET message == Head(toWorker)
     IN \/ /\ CoreMay(worker.protocol, message)
           /\ \/ ReadHealthCheck(message) \/ ReadTranscribe(message)
              \/ ReadCancel(message)
              \/ ReadShutdown(message) /\ worker.active # Nobody
           /\ toWorker' = Tail(toWorker)
        \/ /\ CoreMay(worker.protocol, message)
           /\ message.kind = "shutdown" /\ worker.active = Nobody
           /\ Exit(<<Message("shutdownComplete", Nobody)>>)
        \/ /\ ~CoreMay(worker.protocol, message)
           /\ Exit(<<Message("rejected", Nobody)>>)
  /\ UNCHANGED supervisor

(* InferenceFinished: with its own result, or as it was told to end. *)
InferenceResults ==
  IF worker.cancelRequested THEN {"cancelled"}
  ELSE IF worker.timedOut THEN {"timedOut"} ELSE {"transcript", "failed"}

InferenceFinished ==
  /\ worker.state = "alive" /\ worker.active # Nobody
  /\ \E kind \in InferenceResults :
       LET message == Message(kind, worker.active)
       IN IF worker.shutdownRequested
          THEN Exit(<<message, Message("shutdownComplete", Nobody)>>)
          ELSE /\ Emit([worker EXCEPT !.active = Nobody], message)
               /\ UNCHANGED toWorker
  /\ UNCHANGED supervisor

RequestDeadline ==
  /\ worker.state = "alive"
  /\ worker.active \in Bounded /\ ~worker.timedOut
  /\ worker' = [worker EXCEPT !.timedOut = TRUE]
  /\ UNCHANGED <<supervisor, toWorker, fromWorker>>

ShutdownDeadline ==
  /\ worker.state = "alive" /\ worker.shutdownRequested
  /\ Exit(<<Message("graceElapsed", worker.active)>>)
  /\ UNCHANGED supervisor

Crash ==
  /\ worker.state = "alive"
  /\ Exit(<<>>)
  /\ UNCHANGED supervisor

-----------------------------------------------------------------------------
HandleCommand ==
  \E c \in Commands : \/ StartHealth(c) \/ StartTranscription(c)
                      \/ CancelTranscription(c) \/ StartShutdown(c)

SupervisorStep ==
  \/ DrainMessage \/ Drained \/ NothingExpires \/ HandleCommand \/ NoCommand
  \/ Disconnected \/ Stop

DeadlineExpires ==
  \/ HealthExpires \/ RequestExpires \/ CancelExpires \/ ShutdownExpires

WorkerStep ==
  \/ WorkerReads \/ InferenceFinished \/ RequestDeadline \/ ShutdownDeadline
  \/ Crash

Stopped == pc = "stopped" /\ UNCHANGED vars

Next ==
  \/ \E c \in Commands : Submit(c)
  \/ DropAdapter
  \/ SupervisorStep
  \/ DeadlineExpires
  \/ WorkerStep
  \/ Stopped

Spec == Init /\ [][Next]_vars

(* The thread runs, and a deadline that stays armed is seen to have passed. *)
(* Nothing is assumed of the worker: it may hang for ever.                  *)
Fairness ==
  /\ WF_vars(SupervisorStep \/ DeadlineExpires)
  /\ SF_vars(HealthExpires)
  /\ SF_vars(RequestExpires)
  /\ SF_vars(CancelExpires)
  /\ SF_vars(ShutdownExpires)

FairSpec == Spec /\ Fairness

-----------------------------------------------------------------------------
(* Properties *)

InQueue == {queue[i] : i \in DOMAIN queue}
Pending == {health, transcription, canceller, shutdown} \ {Nobody}

(* No command is lost while the supervisor runs: an unanswered one is in    *)
(* the queue or in exactly the slot that will answer it, and a slot never   *)
(* holds a command that has been answered.                                  *)
UnansweredIsHeld ==
  pc # "stopped" =>
    /\ {c \in Commands : answer[c] = "sent"} = InQueue \cup Pending
    /\ InQueue \cap Pending = {}

(* The worker never transcribes for nobody: a request it works on, or that  *)
(* is on its way to it, is the one the supervisor waits for.  It is what    *)
(* lets the supervisor answer busy without asking the worker.               *)
WorkIsAwaited ==
  worker.state = "alive" =>
    /\ worker.active \in {Nobody, transcription}
    /\ \A i \in DOMAIN toWorker :
         toWorker[i].kind = "transcribe" =>
           toWorker[i].request = transcription

(* The copy of a recording that was granted to the worker is gone when its  *)
(* request is answered, or the answer says that it could not be removed.    *)
GrantIsReported ==
  pc # "stopped" =>
    \A t \in grants : t = transcription \/ answer[t] = "cleanup"

(* Nothing is under way for nobody: every unanswered command, every request *)
(* in the worker and every granted copy of a recording has the supervisor's *)
(* slot that will answer, await or remove it.                               *)
WorkIsAccountedFor == UnansweredIsHeld /\ WorkIsAwaited /\ GrantIsReported

(* The worker accepts a cancel only for the request it is working on (the   *)
(* expect in run_worker's Cancel arm).                                      *)
CancelFindsItsRequest ==
  worker.state = "alive" => worker.protocol.active = {worker.active} \ {Nobody}

(* A cancel that is confirmed has ended its request: the supervisor does    *)
(* not wait for it any more and the worker does not work on it.             *)
CancelConfirmed ==
  [][\A c \in Cancels :
       answer[c] = "sent" /\ answer'[c] = "ok" =>
         /\ transcription' # target[c]
         /\ worker'.state = "alive" => worker'.active # target[c]]_vars

(* Once the supervisor has taken a cancel for it, a transcription is never  *)
(* answered with a transcript, even if one was already in the pipe.         *)
NoTextAfterCancel ==
  [][\A t \in Transcriptions :
       answer[t] = "sent" /\ answer'[t] = "ok" => canceller = Nobody]_vars

(* Releasing idle resources never takes the worker away from a request or a *)
(* health check.                                                            *)
ReleaseIsIdle == shutdown \in Releases => Idle

(* Every command is answered, even by a worker that hangs or dies, unless   *)
(* the supervisor is closed under it; a transcription without a deadline    *)
(* only if it is cancelled.                                                 *)
EveryCommandIsAnswered ==
  \A c \in Commands \ (Transcriptions \ Bounded) :
    answer[c] = "sent" ~> answer[c] # "sent" \/ pc = "stopped"

(* A cancel that the supervisor has taken ends its transcription, one       *)
(* without a deadline and in a worker that hangs included; the exit of the  *)
(* orchestrator counts on it.                                               *)
CancelEndsTranscription ==
  \A t \in Transcriptions :
    transcription = t /\ canceller # Nobody ~>
      answer[t] # "sent" \/ pc = "stopped"
=============================================================================
