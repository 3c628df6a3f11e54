------------------------ MODULE AsrSupervisorProofs ------------------------
(***************************************************************************)
(* Proofs about the ASR worker supervisor.                                 *)
(*                                                                         *)
(* Three inductive invariants carry the results.  CommandInv says where    *)
(* every command is: an unanswered one is once in the queue or in one      *)
(* slot, and nothing answered is in either; so an answer is given once.    *)
(* PipeInv follows the request of the pending transcription as a token     *)
(* that is in one place at the most - asked for in the worker's input, at  *)
(* work in it, or answered in its output - and says that no other request  *)
(* is in any; so a cancel finds its request and a confirmed one has ended  *)
(* it.  TypeOK carries the two, with what ties the slots to each other.    *)
(***************************************************************************)
EXTENDS AsrSupervisor, Integers, TLAPS

-----------------------------------------------------------------------------
(* Sequences *)

(* What the sequence operators of the pipes and the queue do.                *)
LEMMA Appending ==
  ASSUME NEW S, NEW q \in Seq(S), NEW e \in S
  PROVE  /\ Append(q, e) \in Seq(S) /\ Len(Append(q, e)) = Len(q) + 1
         /\ Len(q) \in Nat
         /\ \A i \in 1..Len(q) : Append(q, e)[i] = q[i]
         /\ Append(q, e)[Len(q) + 1] = e
  OBVIOUS

(* Taking the head of one. *)
LEMMA Taking ==
  ASSUME NEW S, NEW q \in Seq(S), q # <<>>
  PROVE  /\ Tail(q) \in Seq(S) /\ Len(Tail(q)) = Len(q) - 1
         /\ Len(q) \in Nat \ {0}
         /\ Head(q) = q[1] /\ q[1] \in S
         /\ \A i \in 1..(Len(q) - 1) : Tail(q)[i] = q[i + 1]
  OBVIOUS

(* Joining two. *)
LEMMA Joining ==
  ASSUME NEW S, NEW q \in Seq(S), NEW r \in Seq(S)
  PROVE  /\ q \o r \in Seq(S) /\ Len(q \o r) = Len(q) + Len(r)
         /\ Len(q) \in Nat /\ Len(r) \in Nat
         /\ \A i \in 1..Len(q) : (q \o r)[i] = q[i]
         /\ \A i \in 1..Len(r) : (q \o r)[Len(q) + i] = r[i]
  OBVIOUS

-----------------------------------------------------------------------------
(* The invariants *)

(* The commands: an unanswered one is in the queue, once, or in a slot, and  *)
(* the cancel that waits names the pending transcription.                    *)
QueuedOnce ==
  \A i, j \in 1..Len(queue) : queue[i] = queue[j] => i = j
Held == InQueue \cup Pending
CancelInv ==
  canceller # Nobody =>
    transcription # Nobody /\ target[canceller] = transcription
CommandInv ==
  /\ QueuedOnce
  /\ \A c \in Held : answer[c] = "sent"
  /\ InQueue \cap Pending = {}
  /\ pc # "stopped" =>
       \A c \in Commands : answer[c] = "sent" => c \in Held
  /\ pc = "stopped" => Held = {}
  /\ \A c \in Cancels : answer[c] # "unsent" => target[c] # Nobody
  /\ CancelInv

(* The pipes: the request of the pending transcription is in one place at    *)
(* the most - asked for, in work or answered - and no other is in any.       *)
Asked == {i \in 1..Len(toWorker) : toWorker[i].kind = "transcribe"}
Answered == {i \in 1..Len(fromWorker) :
               fromWorker[i].kind \in Answers /\ fromWorker[i].request # Nobody}
AskInv ==
  /\ \A i, j \in Asked : i = j
  /\ \A i \in Asked :
       toWorker[i].request = transcription /\ transcription # Nobody
  /\ \A i \in 1..Len(toWorker) :
       toWorker[i].kind = "healthCheck" => toWorker[i].request \in HealthChecks
AnswerInv ==
  /\ \A i, j \in Answered : i = j
  /\ \A i \in Answered : fromWorker[i].request = transcription
PlaceInv ==
  /\ protocol.active = {transcription} \ {Nobody}
  /\ worker.protocol.active = {worker.active} \ {Nobody}
  /\ worker.active # Nobody =>
       /\ worker.state = "alive" /\ worker.active = transcription
       /\ Asked = {} /\ Answered = {}
  /\ Asked = {} \/ Answered = {}
PipeInv == AskInv /\ AnswerInv /\ PlaceInv

-----------------------------------------------------------------------------
(* Type correctness *)

(* The messages that can be in the pipes. *)
Requests == Transcriptions \cup HealthChecks \cup {Nobody}
ToWorker == [kind : CoreKinds, request : Requests]
FromWorker == [kind : WorkerKinds \cup {"eof"}, request : Requests]

(* The protocol's operators keep its state one. *)
LEMMA ProtocolStays ==
  ASSUME NEW p \in Protocols, NEW message,
         message.kind = "transcribe" => message.request \in Transcriptions
  PROVE  /\ AfterCore(p, message) \in Protocols
         /\ AfterWorker(p, message) \in Protocols
  BY DEF Protocols, AfterCore, AfterWorker

(* What the end of the pending transcription does.                           *)
LEMMA EndTranscriptionDoes ==
  ASSUME TypeOK, NEW outcome \in Outcomes, NEW cancelOutcome \in Outcomes,
         transcription # Nobody, EndTranscription(outcome, cancelOutcome)
  PROVE  /\ answer' \in [Commands -> {"unsent", "sent"} \cup Outcomes]
         /\ \A c \in Commands \ {transcription, canceller} :
              answer'[c] = answer[c]
         /\ answer'[transcription] \in {outcome, "cleanup"}
         /\ canceller # Nobody =>
              answer'[canceller] \in {cancelOutcome, "cleanup"}
         /\ grants' \subseteq grants
         /\ transcription \in grants' => answer'[transcription] = "cleanup"
         /\ transcription' = Nobody /\ reason' = "none" /\ canceller' = Nobody
<1>. DEFINE D(cs, o) == [c \in Commands |-> IF c \in cs THEN o ELSE answer[c]]
<1>1. /\ transcription \in Transcriptions /\ transcription \in Commands
      /\ canceller \in Cancels \cup {Nobody} /\ transcription # canceller
      /\ answer \in [Commands -> {"unsent", "sent"} \cup Outcomes]
  BY CommandsAreDistinct DEF TypeOK, Commands
<1>2. CASE /\ Revoked(transcription)
           /\ answer' = [Complete({canceller}, cancelOutcome)
                           EXCEPT ![transcription] = outcome]
  BY <1>1, <1>2, CommandsAreDistinct
     DEF EndTranscription, Revoked, Complete, Commands
<1>3. CASE /\ RevokeFails(transcription)
           /\ answer' = Complete({transcription, canceller}, "cleanup")
  BY <1>1, <1>3, CommandsAreDistinct
     DEF EndTranscription, RevokeFails, Complete, Commands, Outcomes
<1>. QED
  BY <1>2, <1>3 DEF EndTranscription

(* What fail_all does. *)
LEMMA FailAllDoes ==
  ASSUME TypeOK, NEW outcome \in Outcomes, NEW also \in SUBSET Commands,
         FailAll(outcome, also)
  PROVE  /\ answer' \in [Commands -> {"unsent", "sent"} \cup Outcomes]
         /\ \A c \in Commands \ (Pending \cup also) : answer'[c] = answer[c]
         /\ \A c \in Pending \cup also : answer'[c] \in {outcome, "cleanup"}
         /\ grants' \subseteq grants
         /\ transcription \in grants' => answer'[transcription] = "cleanup"
         /\ health' = Nobody /\ transcription' = Nobody /\ reason' = "none"
         /\ canceller' = Nobody /\ shutdown' = Nobody
<1>1. /\ transcription \in Transcriptions \cup {Nobody}
      /\ canceller \in Cancels \cup {Nobody} /\ Nobody \notin Commands
      /\ answer \in [Commands -> {"unsent", "sent"} \cup Outcomes]
      /\ grants \subseteq Transcriptions /\ Nobody \notin grants
      /\ Transcriptions \subseteq Commands /\ Pending \subseteq Commands
  BY CommandsAreDistinct DEF TypeOK, Commands, Pending
<1>2. CASE /\ Revoked(transcription)
           /\ answer' = Complete({health, transcription, canceller, shutdown}
                                   \cup also, outcome)
  BY <1>1, <1>2 DEF FailAll, Revoked, Complete, Pending
<1>3. CASE /\ transcription # Nobody /\ RevokeFails(transcription)
           /\ answer' = [c \in Commands |->
                           IF c \in {transcription, canceller} THEN "cleanup"
                           ELSE Complete({health, shutdown} \cup also,
                                         outcome)[c]]
  BY <1>1, <1>3 DEF FailAll, RevokeFails, Complete, Pending, Outcomes
<1>. QED
  BY <1>2, <1>3 DEF FailAll

(* The parts of TypeOK: the commands and slots, and the process.             *)
ClientTypeOK ==
  /\ connected \in BOOLEAN /\ closed \in BOOLEAN
  /\ queue \in Seq(Commands)
  /\ answer \in [Commands -> {"unsent", "sent"} \cup Outcomes]
  /\ target \in [Cancels -> Transcriptions \cup {Nobody}]
  /\ pc \in {"drain", "deadlines", "command", "stopping", "stopped"}
  /\ health \in HealthChecks \cup {Nobody}
  /\ transcription \in Transcriptions \cup {Nobody}
  /\ reason \in {"none", "cancelled", "timeout", "failed"}
  /\ canceller \in Cancels \cup {Nobody}
  /\ shutdown \in Releases \cup Closes \cup {Nobody}
  /\ grants \subseteq Transcriptions
  /\ transcription = Nobody => reason = "none"
  /\ canceller # Nobody => reason # "none"
ProcessTypeOK ==
  /\ protocol \in Protocols /\ worker \in Workers
  /\ toWorker \in Seq(ToWorker) /\ fromWorker \in Seq(FromWorker)
  /\ worker.state = "none" => process = <<Ready, NoWorker, <<>>, <<>>>>

(* They are TypeOK, before a step and after it. *)
LEMMA PartsOfTypeOK ==
  /\ TypeOK <=> ClientTypeOK /\ ProcessTypeOK
  /\ ClientTypeOK' /\ ProcessTypeOK' => TypeOK'
  BY DEF TypeOK, ClientTypeOK, ProcessTypeOK, ToWorker, FromWorker, Requests

(* A process that is gone, a new one, and one that has been sent a message.  *)
LEMMA ProcessesAreTyped ==
  /\ Ready \in Protocols /\ NoWorker \in Workers /\ FreshWorker \in Workers
  /\ Eof \in FromWorker
  /\ Terminate => ProcessTypeOK'
<1>1. Ready \in Protocols
  BY DEF Ready, Protocols
<1>2. NoWorker \in Workers /\ FreshWorker \in Workers
  BY <1>1 DEF NoWorker, FreshWorker, Workers
<1>3. Eof \in FromWorker
  BY DEF Eof, Message, FromWorker, Requests
<1>4. ASSUME Terminate PROVE ProcessTypeOK'
  <2>1. <<>> \in Seq(ToWorker) /\ <<>> \in Seq(FromWorker)
    OBVIOUS
  <2>. QED
    BY <1>1, <1>2, <1>4, <2>1 DEF Terminate, ProcessTypeOK, process
<1>. QED
  BY <1>1, <1>2, <1>3, <1>4

(* fail_process keeps the types. *)
LEMMA FailProcessIsTyped ==
  ASSUME TypeOK, NEW outcome \in Outcomes, NEW also \in SUBSET Commands,
         FailProcess(outcome, also), queue' \in Seq(Commands),
         pc' \in {"drain", "deadlines", "command", "stopping", "stopped"}
  PROVE  TypeOK'
<1>1. ProcessTypeOK'
  BY ProcessesAreTyped DEF FailProcess
<1>2. ClientTypeOK'
  BY FailAllDoes, PartsOfTypeOK DEF FailProcess, ClientTypeOK
<1>. QED
  BY <1>1, <1>2, PartsOfTypeOK

(* A message that is sent leaves the process as one.                         *)
LEMMA SendingIsTyped ==
  ASSUME TypeOK, NEW w \in Workers, w.state = "alive",
         NEW message \in ToWorker,
         message.kind = "transcribe" => message.request \in Transcriptions,
         Send(w, message)
  PROVE  ProcessTypeOK'
<1>1. protocol \in Protocols /\ toWorker \in Seq(ToWorker)
      /\ fromWorker \in Seq(FromWorker)
  BY PartsOfTypeOK DEF ProcessTypeOK
<1>2. Append(toWorker, message) \in Seq(ToWorker)
  BY <1>1, Appending
<1>3. AfterCore(protocol, message) \in Protocols
  BY <1>1, ProtocolStays
<1>. QED
  BY <1>1, <1>2, <1>3 DEF Send, ProcessTypeOK

(* A message that is taken from the pipe leaves the process as one.          *)
LEMMA ObservingIsTyped ==
  ASSUME TypeOK, fromWorker # <<>>, Observed(Head(fromWorker)),
         UNCHANGED worker
  PROVE  ProcessTypeOK'
<1>1. /\ protocol \in Protocols /\ worker \in Workers
      /\ toWorker \in Seq(ToWorker) /\ fromWorker \in Seq(FromWorker)
      /\ worker.state = "none" => fromWorker = <<>>
  BY PartsOfTypeOK DEF ProcessTypeOK, process
<1>2. Tail(fromWorker) \in Seq(FromWorker)
  BY <1>1, Taking
<1>3. AfterWorker(protocol, Head(fromWorker)) \in Protocols
  BY <1>1 DEF AfterWorker, Protocols
<1>. QED
  BY <1>1, <1>2, <1>3 DEF Observed, ProcessTypeOK

(* What the supervisor does with a message keeps the types. *)
LEMMA DrainingIsTyped ==
  ASSUME TypeOK, DrainMessage PROVE TypeOK'
<1>. DEFINE message == Head(fromWorker)
            legal == message # Eof /\ WorkerMay(protocol, message)
            completes == \/ CompleteHealth(message)
                         \/ CompleteTranscription(message)
                         \/ CompleteCancelled(message)
                         \/ CompleteError(message)
<1>a. /\ fromWorker # <<>> /\ pc = "drain" /\ UNCHANGED <<queue, pc>>
      /\ \/ /\ legal /\ completes /\ Observed(message)
            /\ UNCHANGED <<connected, target>>
         \/ /\ legal /\ CompleteShutdown(message)
            /\ UNCHANGED <<connected, target>>
         \/ FailProcess("failed", {})
  BY DEF DrainMessage
<1>. HIDE DEF message, legal
<1>b. /\ ClientTypeOK /\ ProcessTypeOK
      /\ protocol.active \subseteq Transcriptions
      /\ {} \in SUBSET Commands
      /\ "failed" \in Outcomes /\ "ok" \in Outcomes /\ "cancelled" \in Outcomes
      /\ "timeout" \in Outcomes /\ "cleanup" \in Outcomes
  BY PartsOfTypeOK DEF ProcessTypeOK, Protocols, Outcomes
<1>1. CASE FailProcess("failed", {})
  BY <1>a, <1>b, <1>1, FailProcessIsTyped DEF ClientTypeOK
<1>2. CASE legal /\ CompleteShutdown(message) /\ UNCHANGED <<connected, target>>
  <2>1. Terminate /\ ProcessTypeOK'
    BY <1>2, ProcessesAreTyped DEF CompleteShutdown
  <2>2. answer' \in [Commands -> {"unsent", "sent"} \cup Outcomes]
    BY <1>2, <1>b DEF CompleteShutdown, Complete, ClientTypeOK
  <2>3. grants' \subseteq Transcriptions
    BY <1>2, <1>b DEF CompleteShutdown, Revoked, RevokeFails, ClientTypeOK
  <2>4. ClientTypeOK'
    BY <1>2, <1>a, <1>b, <2>2, <2>3 DEF CompleteShutdown, ClientTypeOK
  <2>. QED
    BY <2>1, <2>4, PartsOfTypeOK
<1>3. CASE legal /\ completes /\ Observed(message)
           /\ UNCHANGED <<connected, target>>
  <2>1. UNCHANGED <<worker, closed, shutdown>>
    BY <1>3 DEF CompleteHealth, CompleteTranscription, CompleteCancelled,
                CompleteError
  <2>2. ProcessTypeOK'
    BY <1>3, <1>a, <2>1, ObservingIsTyped DEF message
  <2>3. CASE CompleteHealth(message)
    BY <1>3, <1>a, <1>b, <2>1, <2>2, <2>3, PartsOfTypeOK
       DEF CompleteHealth, ClientTypeOK, Answer
  <2>4. ASSUME NEW o \in Outcomes, NEW co \in Outcomes,
               EndTranscription(o, co), transcription # Nobody,
               UNCHANGED health
        PROVE  TypeOK'
    BY <1>3, <1>a, <1>b, <2>1, <2>2, <2>4, PartsOfTypeOK,
       EndTranscriptionDoes DEF ClientTypeOK
  <2>5. message.kind \in Answers => message.request \in Transcriptions
    BY <1>3, <1>b DEF legal, WorkerMay
  <2>6. CASE CompleteTranscription(message)
    BY <1>b, <2>4, <2>5, <2>6, CommandsAreDistinct
       DEF CompleteTranscription, TranscriptFits, Answers, Commands
  <2>7. CASE CompleteCancelled(message)
    <3>1. (IF reason = "none" THEN "cancelled" ELSE reason) \in Outcomes
      BY <1>b DEF ClientTypeOK, Outcomes
    <3>. QED
      BY <1>b, <2>4, <2>5, <2>7, <3>1, CommandsAreDistinct
         DEF CompleteCancelled, Answers, Commands
  <2>8. CASE CompleteError(message)
    <3>. DEFINE mapped == IF message.kind = "timedOut" THEN "timeout"
                          ELSE "failed"
    <3>1. mapped \in Outcomes
          /\ (IF reason = "none" THEN mapped ELSE reason) \in Outcomes
      BY <1>b DEF ClientTypeOK, Outcomes
    <3>2. EndTranscription(IF reason = "none" THEN mapped ELSE reason, mapped)
          /\ message.request = transcription /\ message.kind \in Answers
          /\ UNCHANGED health
      BY <2>8 DEF CompleteError, Answers
    <3>. HIDE DEF mapped
    <3>. QED
      BY <1>b, <2>4, <2>5, <3>1, <3>2, CommandsAreDistinct DEF Commands
  <2>. QED
    BY <1>3, <2>3, <2>6, <2>7, <2>8
<1>. QED
  BY <1>a, <1>1, <1>2, <1>3

(* What the thread does when it looks at its deadlines keeps the types.      *)
LEMMA DeadlinesAreTyped ==
  ASSUME TypeOK, DeadlineExpires PROVE TypeOK'
<1>a. /\ ClientTypeOK /\ ProcessTypeOK /\ {} \in SUBSET Commands
      /\ "failed" \in Outcomes /\ "timeout" \in Outcomes
  BY PartsOfTypeOK DEF Outcomes
<1>1. ASSUME NEW outcome \in {"failed", "timeout"}, FailProcess(outcome, {}),
             queue' = queue, pc' = "command"
      PROVE  TypeOK'
  BY <1>a, <1>1, FailProcessIsTyped DEF ClientTypeOK
<1>2. CASE RequestExpires /\ CanSend(worker, Message("cancel", transcription))
           /\ Send(worker, Message("cancel", transcription))
           /\ reason' = "timeout"
           /\ UNCHANGED <<client, closed, health, transcription, canceller,
                          shutdown, grants>>
  <2>1. /\ transcription \in Transcriptions
        /\ queue' = queue /\ pc' = "command"
    BY <1>2, CommandsAreDistinct DEF RequestExpires
  <2>2. Message("cancel", transcription) \in ToWorker
        /\ Message("cancel", transcription).kind # "transcribe"
    BY <2>1 DEF Message, ToWorker, CoreKinds, Requests
  <2>3. worker \in Workers /\ worker.state = "alive"
    BY <1>a, <1>2 DEF CanSend, ProcessTypeOK
  <2>4. ProcessTypeOK'
    BY <1>2, <2>2, <2>3, SendingIsTyped
  <2>5. ClientTypeOK'
    BY <1>a, <1>2, <2>1, CommandsAreDistinct
       DEF ClientTypeOK, client, Commands
  <2>. QED
    BY <2>4, <2>5, PartsOfTypeOK
<1>. QED
  BY <1>1, <1>2 DEF DeadlineExpires, HealthExpires, RequestExpires,
     CancelExpires, ShutdownExpires

(* Taking the command at the head of the queue. *)
LEMMA TakingACommand ==
  ASSUME ClientTypeOK, NEW c \in Commands, Take(c)
  PROVE  /\ queue' \in Seq(Commands) /\ queue # <<>> /\ c = queue[1]
         /\ queue' = Tail(queue) /\ UNCHANGED <<connected, target>>
         /\ pc = "command"
  BY Taking DEF Take, ClientTypeOK

(* A worker that can be sent to is held or launched now. *)
LEMMA EnsuredWorkerIsTyped ==
  ASSUME ProcessTypeOK
  PROVE  /\ EnsuredWorker \in Workers /\ worker \in Workers
         /\ EnsuredWorker.state # "none"
  BY ProcessesAreTyped
     DEF EnsuredWorker, ProcessTypeOK, FreshWorker

(* A health check or a transcription that is taken keeps the types.          *)
LEMMA RequestsAreTyped ==
  ASSUME TypeOK, NEW c \in Commands, StartHealth(c) \/ StartTranscription(c)
  PROVE  TypeOK'
<1>a. /\ ClientTypeOK /\ ProcessTypeOK /\ {c} \in SUBSET Commands
      /\ "failed" \in Outcomes /\ "cleanup" \in Outcomes
      /\ EnsuredWorker \in Workers /\ EnsuredWorker.state # "none"
  BY PartsOfTypeOK, EnsuredWorkerIsTyped DEF Outcomes
<1>b. /\ queue' \in Seq(Commands) /\ UNCHANGED <<connected, target>>
      /\ pc' = "drain"
  BY <1>a, TakingACommand DEF StartHealth, StartTranscription
<1>c. ASSUME NEW o \in Outcomes, Answer(c, o)
      PROVE  answer' \in [Commands -> {"unsent", "sent"} \cup Outcomes]
  BY <1>a, <1>c DEF Answer, ClientTypeOK
<1>1. ASSUME NEW o \in Outcomes, Return(c, o) PROVE TypeOK'
  <2>1. ClientTypeOK'
    BY <1>a, <1>b, <1>c, <1>1 DEF Return, ClientTypeOK, pending
  <2>2. ProcessTypeOK'
    BY <1>a, <1>1 DEF Return, ProcessTypeOK, process
  <2>. QED
    BY <2>1, <2>2, PartsOfTypeOK
<1>2. CASE FailProcess("failed", {c})
  BY <1>a, <1>b, <1>2, FailProcessIsTyped
<1>3. ASSUME NEW message \in ToWorker,
             message.kind = "transcribe" => message.request \in Transcriptions,
             CanSend(EnsuredWorker, message), Send(EnsuredWorker, message)
      PROVE  ProcessTypeOK'
  BY <1>a, <1>3, SendingIsTyped DEF CanSend
<1>4. CASE StartHealth(c)
  <2>1. c \in HealthChecks
    BY <1>4 DEF StartHealth
  <2>. DEFINE message == Message("healthCheck", c)
  <2>2. message \in ToWorker /\ message.kind # "transcribe"
    BY <2>1 DEF Message, ToWorker, CoreKinds, Requests
  <2>3. CASE /\ CanSend(EnsuredWorker, message)
             /\ Send(EnsuredWorker, message) /\ health' = c
             /\ UNCHANGED <<answer, closed, transcription, reason, canceller,
                            shutdown, grants>>
    <3>1. ProcessTypeOK'
      BY <1>3, <2>2, <2>3
    <3>2. ClientTypeOK'
      BY <1>a, <1>b, <2>1, <2>3 DEF ClientTypeOK
    <3>. QED
      BY <3>1, <3>2, PartsOfTypeOK
  <2>. QED
    BY <1>a, <1>1, <1>2, <1>4, <2>3 DEF StartHealth
<1>5. CASE StartTranscription(c)
  <2>1. c \in Transcriptions /\ c # Nobody
    BY <1>5, CommandsAreDistinct DEF StartTranscription
  <2>. DEFINE message == Message("transcribe", c)
              refused == \/ Answer(c, "failed") /\ UNCHANGED grants
                         \/ Answer(c, "cleanup")
                            /\ grants' \in {grants, grants \cup {c}}
  <2>2. message \in ToWorker /\ message.request \in Transcriptions
    BY <2>1 DEF Message, ToWorker, CoreKinds, Requests
  <2>3. CASE /\ CanSend(EnsuredWorker, message)
             /\ Send(EnsuredWorker, message)
             /\ transcription' = c /\ grants' = grants \cup {c} /\ Idle
             /\ UNCHANGED <<answer, closed, health, reason, canceller,
                            shutdown>>
    <3>1. ProcessTypeOK'
      BY <1>3, <2>2, <2>3
    <3>2. ClientTypeOK'
      BY <1>a, <1>b, <2>1, <2>3 DEF ClientTypeOK, Idle
    <3>. QED
      BY <3>1, <3>2, PartsOfTypeOK
  <2>4. refused /\ UNCHANGED <<closed, pending>> => ClientTypeOK'
    BY <1>a, <1>b, <1>c, <2>1 DEF ClientTypeOK, pending
  <2>5. CASE /\ refused /\ worker' = EnsuredWorker
             /\ UNCHANGED <<closed, pending, protocol, toWorker, fromWorker>>
    <3>1. ProcessTypeOK'
      BY <1>a, <2>5 DEF ProcessTypeOK
    <3>. QED
      BY <2>4, <2>5, <3>1, PartsOfTypeOK
  <2>6. CASE refused /\ Terminate /\ UNCHANGED <<closed, pending>>
    BY <2>4, <2>6, PartsOfTypeOK, ProcessesAreTyped
  <2>. QED
    BY <1>a, <1>1, <1>5, <2>3, <2>5, <2>6 DEF StartTranscription
<1>. QED
  BY <1>4, <1>5

(* So does a cancel or a shutdown.                                           *)
LEMMA EndingsAreTyped ==
  ASSUME TypeOK, NEW c \in Commands, CancelTranscription(c) \/ StartShutdown(c)
  PROVE  TypeOK'
<1>a. /\ ClientTypeOK /\ ProcessTypeOK /\ {c} \in SUBSET Commands
      /\ "failed" \in Outcomes /\ "ok" \in Outcomes
      /\ worker \in Workers
  BY PartsOfTypeOK DEF Outcomes, ProcessTypeOK
<1>b. /\ queue' \in Seq(Commands) /\ UNCHANGED <<connected, target>>
      /\ pc' \in {"drain", "stopping"}
  BY <1>a, TakingACommand DEF CancelTranscription, StartShutdown
<1>1. ASSUME NEW o \in Outcomes, Return(c, o) PROVE TypeOK'
  <2>1. ClientTypeOK'
    BY <1>a, <1>b, <1>1 DEF Return, Answer, ClientTypeOK, pending
  <2>2. ProcessTypeOK'
    BY <1>a, <1>1 DEF Return, ProcessTypeOK, process
  <2>. QED
    BY <2>1, <2>2, PartsOfTypeOK
<1>2. CASE FailProcess("failed", {c})
  BY <1>a, <1>b, <1>2, FailProcessIsTyped
<1>3. CASE CancelTranscription(c)
  <2>. DEFINE message == Message("cancel", transcription)
  <2>1. CASE /\ transcription # Nobody
             /\ CanSend(worker, message) /\ Send(worker, message)
             /\ AwaitCancel(c) /\ c \in Cancels
             /\ UNCHANGED <<closed, health, transcription, shutdown, grants>>
    <3>1. message \in ToWorker /\ message.kind # "transcribe"
      BY <1>a DEF Message, ToWorker, CoreKinds, Requests, ClientTypeOK
    <3>2. ProcessTypeOK'
      BY <1>a, <2>1, <3>1, SendingIsTyped DEF CanSend
    <3>3. ClientTypeOK'
      BY <1>a, <1>b, <2>1 DEF ClientTypeOK, AwaitCancel
    <3>. QED
      BY <3>2, <3>3, PartsOfTypeOK
  <2>. QED
    BY <1>a, <1>1, <1>2, <1>3, <2>1 DEF CancelTranscription
<1>4. CASE StartShutdown(c)
  <2>. DEFINE message == Message("shutdown", Nobody)
  <2>1. CASE /\ CanSend(worker, message) /\ Send(worker, message)
             /\ answer' = Complete({health}, "failed")
             /\ health' = Nobody
             /\ reason' = IF transcription = Nobody THEN reason ELSE "failed"
             /\ shutdown' = c /\ c \in Releases \cup Closes
             /\ UNCHANGED <<closed, transcription, canceller, grants>>
    <3>1. message \in ToWorker /\ message.kind # "transcribe"
      BY DEF Message, ToWorker, CoreKinds, Requests
    <3>2. ProcessTypeOK'
      BY <1>a, <2>1, <3>1, SendingIsTyped DEF CanSend
    <3>3. answer' \in [Commands -> {"unsent", "sent"} \cup Outcomes]
      BY <1>a, <2>1 DEF Complete, ClientTypeOK
    <3>4. ClientTypeOK'
      BY <1>a, <1>b, <2>1, <3>3 DEF ClientTypeOK
    <3>. QED
      BY <3>2, <3>4, PartsOfTypeOK
  <2>. QED
    BY <1>a, <1>1, <1>2, <1>4, <2>1 DEF StartShutdown
<1>. QED
  BY <1>3, <1>4

(* The steps of the clients and the rest of the thread's loop.               *)
LEMMA LoopIsTyped ==
  ASSUME TypeOK,
         \/ \E c \in Commands : Submit(c)
         \/ DropAdapter \/ Drained \/ NothingExpires \/ NoCommand
         \/ Disconnected \/ Stop \/ UNCHANGED vars
  PROVE  TypeOK'
<1>a. ClientTypeOK /\ ProcessTypeOK /\ {} \in SUBSET Commands
      /\ "failed" \in Outcomes
  BY PartsOfTypeOK DEF Outcomes
<1>1. ASSUME NEW c \in Commands, Submit(c) PROVE TypeOK'
  <2>1. target' \in [Cancels -> Transcriptions \cup {Nobody}]
    BY <1>a, <1>1 DEF Submit, ClientTypeOK
  <2>2. answer' \in [Commands -> {"unsent", "sent"} \cup Outcomes]
    BY <1>a, <1>1 DEF Submit, ClientTypeOK
  <2>3. queue' \in Seq(Commands)
    BY <1>a, <1>1, Appending DEF Submit, ClientTypeOK
  <2>4. ClientTypeOK'
    BY <1>a, <1>1, <2>1, <2>2, <2>3 DEF Submit, ClientTypeOK, pending
  <2>5. ProcessTypeOK'
    BY <1>a, <1>1 DEF Submit, ProcessTypeOK, process
  <2>. QED
    BY <2>4, <2>5, PartsOfTypeOK
<1>2. CASE Disconnected
  BY <1>a, <1>2, FailProcessIsTyped DEF Disconnected, ClientTypeOK
<1>3. CASE Stop
  <2>1. ClientTypeOK'
    BY <1>a, <1>3 DEF Stop, ClientTypeOK, client, Revoked
  <2>. QED
    BY <1>3, <2>1, PartsOfTypeOK, ProcessesAreTyped DEF Stop
<1>4. CASE DropAdapter \/ Drained \/ NothingExpires \/ NoCommand
           \/ UNCHANGED vars
  <2>1. ClientTypeOK'
    BY <1>a, <1>4 DEF DropAdapter, Drained, NothingExpires, NoCommand, vars,
       ClientTypeOK, client, pending
  <2>2. ProcessTypeOK'
    BY <1>a, <1>4 DEF DropAdapter, Drained, NothingExpires, NoCommand, vars,
       ProcessTypeOK, process
  <2>. QED
    BY <2>1, <2>2, PartsOfTypeOK
<1>. QED
  BY <1>1, <1>2, <1>3, <1>4

(* The process writes and exits. *)
LEMMA ExitingIsTyped ==
  ASSUME ProcessTypeOK, NEW messages \in Seq(FromWorker), Exit(messages),
         protocol' = protocol
  PROVE  ProcessTypeOK'
<1>1. Append(messages, Eof) \in Seq(FromWorker)
  BY ProcessesAreTyped, Appending
<1>2. fromWorker' \in Seq(FromWorker)
  BY <1>1, Joining DEF Exit, ProcessTypeOK
<1>3. /\ worker' = [NoWorker EXCEPT !.state = "exited"]
      /\ worker' \in Workers /\ worker'.state = "exited"
  BY ProcessesAreTyped DEF Exit, NoWorker, FreshWorker, Workers
<1>4. toWorker' \in Seq(ToWorker)
  BY DEF Exit
<1>. QED
  BY <1>2, <1>3, <1>4 DEF ProcessTypeOK

(* A step of the process keeps the types.                                    *)
LEMMA WorkerIsTyped ==
  ASSUME TypeOK, WorkerStep PROVE TypeOK'
<1>a. ClientTypeOK /\ ProcessTypeOK /\ UNCHANGED supervisor
  BY PartsOfTypeOK
     DEF WorkerStep, WorkerReads, InferenceFinished, RequestDeadline,
         ShutdownDeadline, Crash
<1>b. ClientTypeOK' /\ protocol' = protocol
  BY <1>a DEF supervisor, ClientTypeOK, client, pending
<1>c. ProcessTypeOK' => TypeOK'
  BY <1>b, PartsOfTypeOK
<1>d. /\ worker \in Workers /\ worker.protocol \in Protocols
      /\ worker.active \in Transcriptions \cup {Nobody}
      /\ toWorker \in Seq(ToWorker) /\ fromWorker \in Seq(FromWorker)
      /\ protocol \in Protocols
  BY <1>a DEF ProcessTypeOK, Workers
<1>e. ASSUME NEW w \in Workers, w.state = "alive", NEW message \in FromWorker,
             Emit(w, message), toWorker' \in Seq(ToWorker)
      PROVE  ProcessTypeOK'
  <2>1. AfterWorker(w.protocol, message) \in Protocols
    BY <1>e DEF AfterWorker, Protocols, Workers
  <2>2. worker' \in Workers /\ worker'.state = "alive"
    BY <1>e, <2>1 DEF Emit, Workers
  <2>3. fromWorker' \in Seq(FromWorker)
    BY <1>d, <1>e, Appending DEF Emit
  <2>. QED
    BY <1>b, <1>d, <1>e, <2>2, <2>3 DEF ProcessTypeOK
<1>f. ASSUME NEW kind \in WorkerKinds, NEW r \in Requests
      PROVE  Message(kind, r) \in FromWorker
  BY DEF Message, FromWorker
<1>g. ASSUME NEW w \in Workers, w.state = "alive", worker' = w,
             UNCHANGED fromWorker, toWorker' \in Seq(ToWorker)
      PROVE  ProcessTypeOK'
  BY <1>b, <1>d, <1>g DEF ProcessTypeOK
<1>1. CASE WorkerReads
  <2>. DEFINE message == Head(toWorker)
  <2>1. /\ worker.state = "alive" /\ toWorker # <<>> /\ message \in ToWorker
        /\ Tail(toWorker) \in Seq(ToWorker)
    BY <1>1, <1>d, Taking DEF WorkerReads
  <2>2. message.request \in Requests
    BY <2>1 DEF ToWorker
  <2>. HIDE DEF message
  <2>3. CASE ReadHealthCheck(message) /\ toWorker' = Tail(toWorker)
    <3>. DEFINE w == [worker EXCEPT !.protocol = AfterCore(@, message)]
    <3>1. AfterCore(worker.protocol, message) \in Protocols
      BY <2>3, <1>d, ProtocolStays DEF ReadHealthCheck
    <3>2. w \in Workers /\ w.state = "alive"
      BY <1>d, <2>1, <3>1 DEF Workers
    <3>3. Emit(w, Message("healthResult", message.request))
      BY <2>3 DEF ReadHealthCheck
    <3>4. Message("healthResult", message.request) \in FromWorker
      BY <1>f, <2>2 DEF WorkerKinds
    <3>. HIDE DEF w
    <3>. QED
      BY <1>c, <1>e, <2>1, <2>3, <3>2, <3>3, <3>4
  <2>4. CASE ReadTranscribe(message) /\ toWorker' = Tail(toWorker)
    <3>. DEFINE w == [worker EXCEPT !.protocol = AfterCore(@, message)]
    <3>1. CASE Emit(w, Message("failed", message.request))
      <4>1. /\ w.protocol.phase = worker.protocol.phase
            /\ w.protocol.active = worker.protocol.active \cup {message.request}
            /\ w = [worker EXCEPT !.protocol = w.protocol]
            /\ w.state = "alive"
        BY <1>d, <2>1, <2>4 DEF ReadTranscribe, AfterCore, Workers
      <4>2. AfterWorker(w.protocol, Message("failed", message.request))
              \in Protocols
        BY <1>d, <4>1
           DEF AfterWorker, Message, Fatal, Protocols, AfterCore
      <4>3. worker' \in Workers /\ worker'.state = "alive"
        BY <1>d, <3>1, <4>1, <4>2 DEF Emit, Workers
      <4>4. fromWorker' \in Seq(FromWorker)
        BY <1>d, <1>f, <2>2, <3>1, Appending
           DEF Emit, WorkerKinds, Answers
      <4>. QED
        BY <1>b, <1>c, <1>d, <2>1, <2>4, <4>3, <4>4 DEF ProcessTypeOK
    <3>2. CASE ~Emit(w, Message("failed", message.request))
      <4>1. /\ message.request \in grants /\ UNCHANGED fromWorker
            /\ worker' = [w EXCEPT !.active = message.request,
                                   !.cancelRequested = FALSE,
                                   !.timedOut = FALSE]
        BY <2>4, <3>2 DEF ReadTranscribe
      <4>2. message.request \in Transcriptions
        BY <1>a, <4>1 DEF ClientTypeOK
      <4>3. AfterCore(worker.protocol, message) \in Protocols
        BY <1>d, <4>2, ProtocolStays
      <4>4. w \in Workers /\ w.state = "alive"
        BY <1>d, <2>1, <4>3 DEF Workers
      <4>. HIDE DEF w
      <4>5. worker' \in Workers /\ worker'.state = "alive"
        BY <4>1, <4>2, <4>4 DEF Workers
      <4>. QED
        BY <1>c, <1>g, <2>1, <2>4, <4>1, <4>5
    <3>. QED
      BY <3>1, <3>2
  <2>5. CASE ReadCancel(message) /\ toWorker' = Tail(toWorker)
    <3>1. worker' \in Workers /\ worker'.state = "alive"
          /\ UNCHANGED fromWorker
      BY <1>d, <2>1, <2>5 DEF ReadCancel, Workers
    <3>. QED
      BY <1>c, <1>g, <2>1, <2>5, <3>1
  <2>6. CASE ReadShutdown(message) /\ toWorker' = Tail(toWorker)
    <3>1. AfterCore(worker.protocol, message) \in Protocols
      BY <1>d, <2>6, ProtocolStays DEF ReadShutdown
    <3>2. worker' \in Workers /\ worker'.state = "alive"
          /\ UNCHANGED fromWorker
      BY <1>d, <2>1, <2>6, <3>1 DEF ReadShutdown, Workers
    <3>. QED
      BY <1>c, <1>g, <2>1, <2>6, <3>2
  <2>7. CASE \/ Exit(<<Message("shutdownComplete", Nobody)>>)
             \/ Exit(<<Message("rejected", Nobody)>>)
    <3>1. /\ Message("shutdownComplete", Nobody) \in FromWorker
          /\ Message("rejected", Nobody) \in FromWorker
      BY <1>f DEF WorkerKinds, Fatal, Requests
    <3>2. /\ <<Message("shutdownComplete", Nobody)>> \in Seq(FromWorker)
          /\ <<Message("rejected", Nobody)>> \in Seq(FromWorker)
      BY <3>1
    <3>. QED
      BY <1>a, <1>b, <1>c, <2>7, <3>2, ExitingIsTyped
  <2>. QED
    BY <1>1, <2>3, <2>4, <2>5, <2>6, <2>7 DEF WorkerReads, message
<1>2. CASE InferenceFinished
  <2>1. PICK kind \in InferenceResults :
          LET message == Message(kind, worker.active)
          IN IF worker.shutdownRequested
             THEN Exit(<<message, Message("shutdownComplete", Nobody)>>)
             ELSE /\ Emit([worker EXCEPT !.active = Nobody], message)
                  /\ UNCHANGED toWorker
    BY <1>2 DEF InferenceFinished
  <2>2. /\ Message(kind, worker.active) \in FromWorker
        /\ Message("shutdownComplete", Nobody) \in FromWorker
    BY <1>d, <1>f DEF InferenceResults, WorkerKinds, Answers, Requests
  <2>3. CASE worker.shutdownRequested
    <3>1. <<Message(kind, worker.active), Message("shutdownComplete", Nobody)>>
            \in Seq(FromWorker)
      BY <2>2
    <3>. QED
      BY <1>a, <1>b, <1>c, <2>1, <2>3, <3>1, ExitingIsTyped
  <2>4. CASE ~worker.shutdownRequested
    <3>1. /\ [worker EXCEPT !.active = Nobody] \in Workers
          /\ [worker EXCEPT !.active = Nobody].state = "alive"
      BY <1>d, <1>2 DEF InferenceFinished, Workers
    <3>. QED
      BY <1>c, <1>d, <1>e, <2>1, <2>2, <2>4, <3>1
  <2>. QED
    BY <2>3, <2>4
<1>3. CASE RequestDeadline
  <2>1. worker' \in Workers /\ worker'.state = "alive"
        /\ UNCHANGED <<toWorker, fromWorker>>
    BY <1>d, <1>3 DEF RequestDeadline, Workers
  <2>. QED
    BY <1>c, <1>d, <1>g, <2>1
<1>4. CASE ShutdownDeadline
  <2>1. Message("graceElapsed", worker.active) \in FromWorker
    BY <1>d, <1>f DEF WorkerKinds, Answers, Requests
  <2>2. <<Message("graceElapsed", worker.active)>> \in Seq(FromWorker)
    BY <2>1
  <2>. QED
    BY <1>a, <1>b, <1>c, <1>4, <2>2, ExitingIsTyped DEF ShutdownDeadline
<1>5. CASE Crash
  <2>1. <<>> \in Seq(FromWorker)
    OBVIOUS
  <2>. QED
    BY <1>a, <1>b, <1>c, <1>5, <2>1, ExitingIsTyped DEF Crash
<1>. QED
  BY <1>1, <1>2, <1>3, <1>4, <1>5 DEF WorkerStep

(* Every step keeps the types. *)
LEMMA StepIsTyped ==
  ASSUME TypeOK, [Next]_vars PROVE TypeOK'
  BY DrainingIsTyped, DeadlinesAreTyped, RequestsAreTyped, EndingsAreTyped,
     LoopIsTyped, WorkerIsTyped
     DEF Next, SupervisorStep, HandleCommand, Stopped

(* Every variable keeps its type, a cancel waits only for a transcription     *)
(* that is ending, and without a process the pipes are empty.                *)
THEOREM TypeCorrect == Spec => []TypeOK
<1>1. Init => TypeOK
  <2>. SUFFICES ASSUME Init PROVE TypeOK
    OBVIOUS
  <2>1. Ready \in Protocols /\ NoWorker \in Workers
    BY ProcessesAreTyped
  <2>2. ProcessTypeOK
    BY <2>1 DEF Init, ProcessTypeOK, process
  <2>3. ClientTypeOK
    <3>1. <<>> \in Seq(Commands)
      OBVIOUS
    <3>2. answer \in [Commands -> {"unsent", "sent"} \cup Outcomes]
      BY DEF Init
    <3>3. target \in [Cancels -> Transcriptions \cup {Nobody}]
      BY DEF Init
    <3>. QED
      BY <3>1, <3>2, <3>3 DEF Init, ClientTypeOK
  <2>. QED
    BY <2>2, <2>3, PartsOfTypeOK
<1>. QED
  BY <1>1, StepIsTyped, PTL DEF Spec

-----------------------------------------------------------------------------
(* Releases, and the text of a cancelled transcription *)

(* A release that is under way leaves the thread without a request: none is  *)
(* taken while it is, and it is not taken while there is one.                *)
LEMMA ReleaseStaysIdle ==
  ASSUME TypeOK, ReleaseIsIdle, [Next]_vars PROVE ReleaseIsIdle'
<1>a. /\ shutdown \in Releases \cup Closes \cup {Nobody}
      /\ Releases \cap Closes = {} /\ Nobody \notin Releases
  BY CommandsAreDistinct DEF TypeOK, Commands
<1>1. ASSUME NEW o, NEW also, FailProcess(o, also) PROVE ReleaseIsIdle'
  BY <1>1, <1>a DEF FailProcess, FailAll, ReleaseIsIdle
<1>2. ASSUME NEW o, NEW co, EndTranscription(o, co),
             UNCHANGED <<health, shutdown>>
      PROVE  ReleaseIsIdle'
  BY <1>2 DEF EndTranscription, ReleaseIsIdle, Idle
<1>3. ASSUME UNCHANGED <<health, transcription, shutdown>> PROVE ReleaseIsIdle'
  BY <1>3 DEF ReleaseIsIdle, Idle
<1>4. CASE DrainMessage
  BY <1>1, <1>2, <1>4, <1>a
     DEF DrainMessage, CompleteHealth, CompleteTranscription, CompleteCancelled,
         CompleteError, CompleteShutdown, ReleaseIsIdle, Idle
<1>5. CASE DeadlineExpires
  BY <1>1, <1>3, <1>5 DEF DeadlineExpires, HealthExpires, RequestExpires,
     CancelExpires, ShutdownExpires
<1>6. ASSUME NEW c \in Commands, StartHealth(c) \/ StartTranscription(c)
      PROVE  ReleaseIsIdle'
  BY <1>1, <1>3, <1>6, <1>a DEF StartHealth, StartTranscription, Return,
     pending, ReleaseIsIdle
<1>7. ASSUME NEW c \in Commands, CancelTranscription(c)
      PROVE  ReleaseIsIdle'
  BY <1>1, <1>3, <1>7 DEF CancelTranscription, Return, pending
<1>8. ASSUME NEW c \in Commands, StartShutdown(c)
      PROVE  ReleaseIsIdle'
  BY <1>1, <1>3, <1>8, <1>a DEF StartShutdown, ShutdownRefused, Return,
     pending, ReleaseIsIdle, Idle
<1>9. CASE Disconnected \/ Stop
  BY <1>1, <1>9, <1>a DEF Disconnected, Stop, ReleaseIsIdle
<1>10. CASE WorkerStep
  BY <1>3, <1>10 DEF WorkerStep, WorkerReads, InferenceFinished,
     RequestDeadline, ShutdownDeadline, Crash, supervisor, pending
<1>11. CASE (\E c \in Commands : Submit(c)) \/ DropAdapter \/ Drained
            \/ NothingExpires \/ NoCommand \/ Stopped \/ UNCHANGED vars
  BY <1>3, <1>11 DEF Submit, DropAdapter, Drained, NothingExpires, NoCommand,
     Stopped, vars, pending
<1>. QED
  BY <1>4, <1>5, <1>6, <1>7, <1>8, <1>9, <1>10, <1>11
     DEF Next, SupervisorStep, HandleCommand

(* release_idle_resources never takes the worker away from a request or a    *)
(* health check that the supervisor has accepted.                            *)
THEOREM ReleaseIsIdleHolds == Spec => []ReleaseIsIdle
<1>1. Init => ReleaseIsIdle
  BY DEF Init, ReleaseIsIdle, Idle
<1>. QED
  BY <1>1, ReleaseStaysIdle, TypeCorrect, PTL DEF Spec

(* Only a transcript answers a transcription with success.                   *)
LEMMA TextOnlyUncancelled ==
  ASSUME TypeOK, Next, NEW t \in Transcriptions,
         answer[t] = "sent", answer'[t] = "ok"
  PROVE  canceller = Nobody
<1>a. /\ answer \in [Commands -> {"unsent", "sent"} \cup Outcomes]
      /\ transcription \in Transcriptions \cup {Nobody}
      /\ canceller \in Cancels \cup {Nobody}
      /\ health \in HealthChecks \cup {Nobody}
      /\ shutdown \in Releases \cup Closes \cup {Nobody}
      /\ reason \in {"none", "cancelled", "timeout", "failed"}
      /\ t \in Commands /\ t # Nobody
      /\ t \notin HealthChecks \cup Cancels \cup Releases \cup Closes
  BY CommandsAreDistinct DEF TypeOK, Commands
<1>1. ASSUME NEW o \in {"failed", "timeout"}, NEW also \in SUBSET Commands,
             FailProcess(o, also)
      PROVE  FALSE
  <2>1. answer'[t] \in {answer[t], o, "cleanup"}
    BY <1>1, FailAllDoes, <1>a DEF FailProcess, Outcomes
  <2>. QED
    BY <2>1
<1>2. ASSUME NEW o \in Outcomes \ {"ok"}, NEW co \in Outcomes,
             transcription # Nobody, EndTranscription(o, co)
      PROVE  FALSE
  BY <1>2, <1>a, EndTranscriptionDoes
<1>3. ASSUME UNCHANGED answer PROVE FALSE
  BY <1>3
<1>4. ASSUME NEW c \in Commands, NEW o, Answer(c, o), o # "ok" \/ c # t
      PROVE  FALSE
  BY <1>4, <1>a DEF Answer
<1>5. CASE DrainMessage
  <2>. DEFINE message == Head(fromWorker)
              legal == message # Eof /\ WorkerMay(protocol, message)
  <2>1. CASE CompleteHealth(message)
    BY <2>1, <1>a, <1>4 DEF CompleteHealth, Commands
  <2>2. CASE CompleteTranscription(message)
    BY <2>2 DEF CompleteTranscription, TranscriptFits
  <2>a. legal /\ message.kind \in Answers => message.request # Nobody
    BY CommandsAreDistinct DEF WorkerMay, TypeOK, Protocols, Commands
  <2>3. CASE legal /\ CompleteCancelled(message)
    <3>1. (IF reason = "none" THEN "cancelled" ELSE reason)
            \in Outcomes \ {"ok"}
      BY <1>a DEF Outcomes
    <3>. QED
      BY <2>a, <2>3, <3>1, <1>2 DEF CompleteCancelled, Answers, Outcomes
  <2>4. CASE legal /\ CompleteError(message)
    <3>. DEFINE mapped == IF message.kind = "timedOut" THEN "timeout"
                          ELSE "failed"
    <3>1. mapped \in Outcomes
          /\ (IF reason = "none" THEN mapped ELSE reason) \in Outcomes \ {"ok"}
      BY <1>a DEF Outcomes
    <3>2. EndTranscription(IF reason = "none" THEN mapped ELSE reason, mapped)
          /\ transcription # Nobody
      BY <2>4, <2>a DEF CompleteError, Answers
    <3>. HIDE DEF mapped
    <3>. QED
      BY <3>1, <3>2, <1>2
  <2>5. CASE CompleteShutdown(message)
    BY <2>5, <1>a DEF CompleteShutdown, Complete
  <2>. QED
    BY <1>1, <1>5, <2>1, <2>2, <2>3, <2>4, <2>5 DEF DrainMessage
<1>6. CASE DeadlineExpires
  BY <1>1, <1>3, <1>6 DEF DeadlineExpires, HealthExpires, RequestExpires,
     CancelExpires, ShutdownExpires, client
<1>7. ASSUME NEW c \in Commands, StartHealth(c) \/ StartTranscription(c)
      PROVE  FALSE
  BY <1>1, <1>3, <1>4, <1>7 DEF StartHealth, StartTranscription, Return
<1>8. ASSUME NEW c \in Commands, CancelTranscription(c)
      PROVE  FALSE
  BY <1>1, <1>3, <1>4, <1>8, <1>a DEF CancelTranscription, Return, AwaitCancel
<1>9. ASSUME NEW c \in Commands, StartShutdown(c)
      PROVE  FALSE
  BY <1>1, <1>3, <1>4, <1>9, <1>a DEF StartShutdown, Return, Complete
<1>10. CASE Disconnected
  BY <1>1, <1>10 DEF Disconnected
<1>11. CASE WorkerStep
  BY <1>3, <1>11 DEF WorkerStep, WorkerReads, InferenceFinished,
     RequestDeadline, ShutdownDeadline, Crash, supervisor, client
<1>12. ASSUME NEW c \in Commands, Submit(c) PROVE FALSE
  BY <1>12, <1>a DEF Submit
<1>13. CASE DropAdapter \/ Drained \/ NothingExpires \/ NoCommand \/ Stop
            \/ Stopped
  BY <1>3, <1>13 DEF DropAdapter, Drained, NothingExpires, NoCommand, Stop,
     Stopped, vars, client
<1>. QED
  BY <1>5, <1>6, <1>7, <1>8, <1>9, <1>10, <1>11, <1>12, <1>13
     DEF Next, SupervisorStep, HandleCommand

(* Once the supervisor has taken a cancel for it, a transcription is never   *)
(* answered with a transcript, even with one already in the pipe.            *)
THEOREM NoTextAfterCancelHolds == Spec => NoTextAfterCancel
<1>1. ASSUME TypeOK, [Next]_vars
      PROVE  [\A t \in Transcriptions :
                answer[t] = "sent" /\ answer'[t] = "ok"
                  => canceller = Nobody]_vars
  BY <1>1, TextOnlyUncancelled
<1>. QED
  BY <1>1, TypeCorrect, PTL
     DEF Spec, NoTextAfterCancel

-----------------------------------------------------------------------------
(* The commands *)

(* An answer, once given, stays. *)
AnswersStay ==
  \A c \in Commands : answer[c] \in Outcomes => answer'[c] = answer[c]

(* The slots hold commands, each its own kind. *)
LEMMA SlotsDiffer ==
  ASSUME TypeOK
  PROVE  /\ Pending \subseteq Commands /\ InQueue \subseteq Commands
         /\ Nobody \notin Commands
         /\ answer \in [Commands -> {"unsent", "sent"} \cup Outcomes]
         /\ health # Nobody =>
              health \notin {transcription, canceller, shutdown}
         /\ transcription # Nobody =>
              transcription \notin {health, canceller, shutdown}
         /\ canceller # Nobody =>
              canceller \notin {health, transcription, shutdown}
         /\ shutdown # Nobody =>
              shutdown \notin {health, transcription, canceller}
<1>1. /\ health \in HealthChecks \cup {Nobody}
      /\ transcription \in Transcriptions \cup {Nobody}
      /\ canceller \in Cancels \cup {Nobody}
      /\ shutdown \in Releases \cup Closes \cup {Nobody}
      /\ queue \in Seq(Commands)
      /\ answer \in [Commands -> {"unsent", "sent"} \cup Outcomes]
  BY DEF TypeOK
<1>2. InQueue \subseteq Commands
  BY <1>1 DEF InQueue
<1>3. Pending \subseteq Commands
  BY <1>1 DEF Pending, Commands
<1>. QED
  BY <1>1, <1>2, <1>3, CommandsAreDistinct DEF Commands

(* The command that is taken leaves the queue and was unanswered. *)
LEMMA TakingFromTheQueue ==
  ASSUME TypeOK, CommandInv, NEW c \in Commands, Take(c)
  PROVE  /\ c \in InQueue /\ InQueue' = InQueue \ {c} /\ QueuedOnce'
         /\ c \notin Pending /\ answer[c] = "sent" /\ pc = "command"
         /\ UNCHANGED <<connected, target>>
<1>1. /\ queue \in Seq(Commands) /\ queue # <<>> /\ c = queue[1]
      /\ queue' = Tail(queue) /\ UNCHANGED <<connected, target>>
      /\ pc = "command"
  BY TakingACommand, PartsOfTypeOK DEF ClientTypeOK
<1>2. /\ Len(queue') = Len(queue) - 1 /\ Len(queue) \in Nat \ {0}
      /\ \A i \in 1..(Len(queue) - 1) : queue'[i] = queue[i + 1]
      /\ DOMAIN queue = 1..Len(queue) /\ DOMAIN queue' = 1..Len(queue')
  BY <1>1, Taking
<1>3. \A i, j \in 1..Len(queue) : queue[i] = queue[j] => i = j
  BY DEF CommandInv, QueuedOnce
<1>4. QueuedOnce'
  BY <1>2, <1>3 DEF QueuedOnce
<1>5. c \in InQueue
  BY <1>1, <1>2 DEF InQueue
<1>6. ASSUME NEW d \in InQueue' PROVE d \in InQueue \ {c}
  <2>1. PICK i \in 1..(Len(queue) - 1) : d = queue[i + 1]
    BY <1>2, <1>6 DEF InQueue
  <2>. QED
    BY <1>1, <1>2, <1>3, <2>1 DEF InQueue
<1>7. ASSUME NEW d \in InQueue \ {c} PROVE d \in InQueue'
  <2>1. PICK i \in 1..Len(queue) : d = queue[i]
    BY <1>2, <1>7 DEF InQueue
  <2>2. i - 1 \in 1..(Len(queue) - 1) /\ queue'[i - 1] = d
    BY <1>1, <1>2, <1>7, <2>1
  <2>. QED
    BY <1>2, <2>2 DEF InQueue
<1>. QED
  BY <1>1, <1>4, <1>5, <1>6, <1>7 DEF CommandInv, Held

(* A step of the thread that answers the commands of done, and holds the     *)
(* others as before.                                                         *)
LEMMA SettlingKeeps ==
  ASSUME TypeOK, CommandInv, pc # "stopped", pc' # "stopped" \/ Held' = {},
         NEW done \in SUBSET Held,
         \A c \in Commands \ done : answer'[c] = answer[c],
         \A c \in done : answer'[c] \in Outcomes,
         QueuedOnce', Held' = Held \ done, InQueue' \cap Pending' = {},
         UNCHANGED target, CancelInv'
  PROVE  CommandInv' /\ AnswersStay
<1>1. Held \subseteq Commands /\ Cancels \subseteq Commands
  BY SlotsDiffer DEF Held, Commands
<1>2. \A c \in Held : answer[c] = "sent" /\ answer[c] \notin Outcomes
  BY DEF CommandInv, Outcomes
<1>3. \A c \in Held' : answer'[c] = "sent"
  BY <1>1, <1>2
<1>4. \A c \in Commands : answer'[c] = "sent" => c \in Held'
  BY <1>1, <1>2 DEF CommandInv, Outcomes
<1>5. \A c \in Cancels : answer'[c] # "unsent" => target'[c] # Nobody
  BY <1>1, <1>2 DEF CommandInv
<1>6. CommandInv'
  BY <1>3, <1>4, <1>5 DEF CommandInv
<1>7. AnswersStay
  BY <1>1, <1>2 DEF AnswersStay
<1>. QED
  BY <1>6, <1>7

(* The end of the process answers everything that waited.                    *)
LEMMA FailingSettles ==
  ASSUME TypeOK, CommandInv, NEW outcome \in Outcomes,
         NEW also \in SUBSET InQueue, FailProcess(outcome, also),
         pc # "stopped", pc' # "stopped" \/ InQueue' = {},
         QueuedOnce', InQueue' = InQueue \ also
  PROVE  CommandInv' /\ AnswersStay
<1>1. /\ also \in SUBSET Commands /\ FailAll(outcome, also)
      /\ UNCHANGED target
  BY SlotsDiffer DEF FailProcess
<1>2. /\ \A c \in Commands \ (Pending \cup also) : answer'[c] = answer[c]
      /\ \A c \in Pending \cup also : answer'[c] \in Outcomes
      /\ Pending' = {} /\ canceller' = Nobody
  BY <1>1, FailAllDoes DEF Outcomes, Pending
<1>3. Held' = Held \ (Pending \cup also) /\ Pending \cup also \in SUBSET Held
  BY <1>2 DEF Held, CommandInv
<1>4. CancelInv' /\ InQueue' \cap Pending' = {}
  BY <1>2 DEF CancelInv
<1>5. pc' # "stopped" \/ Held' = {}
  BY <1>2, <1>3 DEF Held
<1>. QED
  BY <1>1, <1>2, <1>3, <1>4, <1>5, SettlingKeeps

(* An answer at once settles the command it is of.                           *)
LEMMA ReturningSettles ==
  ASSUME TypeOK, CommandInv, NEW c \in Commands, Take(c),
         NEW o \in Outcomes, Answer(c, o), UNCHANGED pending,
         pc' # "stopped"
  PROVE  CommandInv' /\ AnswersStay
<1>1. /\ c \in InQueue /\ InQueue' = InQueue \ {c} /\ QueuedOnce'
      /\ c \notin Pending /\ pc = "command" /\ UNCHANGED target
  BY TakingFromTheQueue
<1>2. Pending' = Pending /\ CancelInv'
  BY <1>1 DEF Pending, pending, CommandInv, CancelInv
<1>3. Held' = Held \ {c} /\ {c} \in SUBSET Held /\ InQueue' \cap Pending' = {}
  BY <1>1, <1>2 DEF Held, CommandInv
<1>4. /\ \A d \in Commands \ {c} : answer'[d] = answer[d]
      /\ answer'[c] = o
  BY SlotsDiffer DEF Answer
<1>. QED
  BY <1>1, <1>2, <1>3, <1>4, SettlingKeeps

(* What the process wrote settles what it is the answer of.                  *)
LEMMA DrainingSettles ==
  ASSUME TypeOK, CommandInv, DrainMessage PROVE CommandInv' /\ AnswersStay
<1>. DEFINE message == Head(fromWorker)
            legal == message # Eof /\ WorkerMay(protocol, message)
<1>a. /\ pc = "drain" /\ pc' = "drain" /\ InQueue' = InQueue /\ QueuedOnce'
      /\ UNCHANGED target
  BY DEF DrainMessage, InQueue, CommandInv, QueuedOnce, FailProcess
<1>b. /\ InQueue \cap Pending = {} /\ CancelInv
      /\ {} \in SUBSET InQueue
      /\ "failed" \in Outcomes /\ "ok" \in Outcomes /\ "cleanup" \in Outcomes
  BY DEF CommandInv, Outcomes
<1>. HIDE DEF message
<1>1. CASE FailProcess("failed", {})
  BY <1>1, <1>a, <1>b, FailingSettles
<1>2. CASE CompleteHealth(message)
  <2>1. /\ Pending' = Pending \ {health} /\ {health} \in SUBSET Pending
        /\ UNCHANGED <<transcription, canceller>>
        /\ \A c \in Commands \ {health} : answer'[c] = answer[c]
        /\ answer'[health] = "ok"
    BY <1>2, SlotsDiffer DEF CompleteHealth, Pending, Answer
  <2>2. Held' = Held \ {health} /\ {health} \in SUBSET Held
        /\ InQueue' \cap Pending' = {} /\ CancelInv'
    BY <1>a, <1>b, <2>1 DEF Held, CancelInv
  <2>. QED
    BY <1>a, <1>b, <2>1, <2>2, SettlingKeeps
<1>3. ASSUME NEW o \in Outcomes, NEW co \in Outcomes, EndTranscription(o, co),
             transcription # Nobody, UNCHANGED <<health, shutdown>>
      PROVE  CommandInv' /\ AnswersStay
  <2>. DEFINE done == {transcription, canceller} \ {Nobody}
  <2>1. /\ transcription' = Nobody /\ canceller' = Nobody
        /\ \A c \in Commands \ {transcription, canceller} :
             answer'[c] = answer[c]
        /\ answer'[transcription] \in {o, "cleanup"}
        /\ canceller # Nobody => answer'[canceller] \in {co, "cleanup"}
    BY <1>3, EndTranscriptionDoes
  <2>2. Pending' = Pending \ done /\ done \in SUBSET Pending
    BY <1>3, <2>1, SlotsDiffer DEF Pending
  <2>3. /\ \A c \in Commands \ done : answer'[c] = answer[c]
        /\ \A c \in done : answer'[c] \in Outcomes
    BY <1>3, <1>b, <2>1, SlotsDiffer
  <2>. HIDE DEF done
  <2>4. Held' = Held \ done /\ done \in SUBSET Held
        /\ InQueue' \cap Pending' = {} /\ CancelInv'
    BY <1>a, <1>b, <2>1, <2>2 DEF Held, CancelInv
  <2>. QED
    BY <1>a, <1>b, <2>3, <2>4, SettlingKeeps
<1>4. CASE CompleteShutdown(message)
  <2>. DEFINE done == {transcription, canceller, shutdown} \ {Nobody}
  <2>1. /\ transcription' = Nobody /\ canceller' = Nobody /\ shutdown' = Nobody
        /\ UNCHANGED health
    BY <1>4 DEF CompleteShutdown
  <2>2. Pending' = Pending \ done /\ done \in SUBSET Pending
    BY <2>1, SlotsDiffer DEF Pending
  <2>3. /\ \A c \in Commands \ done : answer'[c] = answer[c]
        /\ \A c \in done : answer'[c] \in Outcomes
    BY <1>4, <1>b, SlotsDiffer DEF CompleteShutdown, Complete, Pending
  <2>. HIDE DEF done
  <2>4. Held' = Held \ done /\ done \in SUBSET Held
        /\ InQueue' \cap Pending' = {} /\ CancelInv'
    BY <1>a, <1>b, <2>1, <2>2 DEF Held, CancelInv
  <2>. QED
    BY <1>a, <1>b, <2>3, <2>4, SettlingKeeps
<1>5. legal /\ message.kind \in Answers => message.request # Nobody
  BY CommandsAreDistinct DEF WorkerMay, TypeOK, Protocols, Commands
<1>6. CASE legal /\ CompleteTranscription(message)
  BY <1>b, <1>3, <1>5, <1>6 DEF CompleteTranscription, TranscriptFits, Answers
<1>7. CASE legal /\ CompleteCancelled(message)
  <2>1. (IF reason = "none" THEN "cancelled" ELSE reason) \in Outcomes
    BY DEF TypeOK, Outcomes
  <2>. QED
    BY <1>b, <1>3, <1>5, <1>7, <2>1 DEF CompleteCancelled, Answers
<1>8. CASE legal /\ CompleteError(message)
  <2>. DEFINE mapped == IF message.kind = "timedOut" THEN "timeout"
                        ELSE "failed"
  <2>1. mapped \in Outcomes
        /\ (IF reason = "none" THEN mapped ELSE reason) \in Outcomes
    BY DEF TypeOK, Outcomes
  <2>2. EndTranscription(IF reason = "none" THEN mapped ELSE reason, mapped)
        /\ transcription # Nobody /\ UNCHANGED <<health, shutdown>>
    BY <1>5, <1>8 DEF CompleteError, Answers
  <2>. HIDE DEF mapped
  <2>. QED
    BY <1>3, <2>1, <2>2
<1>. QED
  BY <1>1, <1>2, <1>4, <1>6, <1>7, <1>8 DEF DrainMessage, message

(* What the deadlines settle. *)
LEMMA DeadlinesSettle ==
  ASSUME TypeOK, CommandInv, DeadlineExpires PROVE CommandInv' /\ AnswersStay
<1>a. /\ {} \in SUBSET InQueue
      /\ "failed" \in Outcomes /\ "timeout" \in Outcomes
  BY DEF Outcomes
<1>1. ASSUME NEW o \in {"failed", "timeout"}, FailProcess(o, {}),
             pc = "deadlines", pc' = "command", UNCHANGED queue
      PROVE  CommandInv' /\ AnswersStay
  <2>1. InQueue' = InQueue \ {} /\ QueuedOnce'
    BY <1>1 DEF InQueue, CommandInv, QueuedOnce
  <2>. QED
    BY <1>1, <1>a, <2>1, FailingSettles
<1>2. CASE /\ pc = "deadlines" /\ pc' = "command" /\ UNCHANGED queue
           /\ UNCHANGED <<client, closed, health, transcription, canceller,
                          shutdown, grants>>
  <2>1. /\ Held' = Held /\ InQueue' = InQueue /\ Pending' = Pending
        /\ QueuedOnce' /\ CancelInv' /\ UNCHANGED <<answer, target>>
    BY <1>2 DEF Held, InQueue, Pending, client, CommandInv, QueuedOnce,
       CancelInv
  <2>. QED
    BY <1>2, <2>1 DEF CommandInv, AnswersStay
<1>. QED
  BY <1>1, <1>2 DEF DeadlineExpires, HealthExpires, RequestExpires,
     CancelExpires, ShutdownExpires

(* A request that is taken is answered at once or holds its slot.            *)
LEMMA RequestsSettle ==
  ASSUME TypeOK, CommandInv, NEW c \in Commands,
         StartHealth(c) \/ StartTranscription(c)
  PROVE  CommandInv' /\ AnswersStay
<1>a. /\ Take(c) /\ pc' = "drain"
      /\ c \in InQueue /\ InQueue' = InQueue \ {c} /\ QueuedOnce'
      /\ c \notin Pending /\ answer[c] = "sent" /\ pc = "command"
      /\ UNCHANGED target
      /\ "failed" \in Outcomes /\ "cleanup" \in Outcomes
  BY TakingFromTheQueue DEF StartHealth, StartTranscription, Outcomes
<1>b. InQueue \cap Pending = {} /\ CancelInv /\ c # Nobody
  BY SlotsDiffer DEF CommandInv
<1>1. ASSUME NEW o \in Outcomes, Answer(c, o), UNCHANGED pending
      PROVE  CommandInv' /\ AnswersStay
  BY <1>1, <1>a, ReturningSettles
<1>2. CASE FailProcess("failed", {c})
  BY <1>2, <1>a, FailingSettles
<1>3. ASSUME Pending' = Pending \cup {c}, UNCHANGED answer, CancelInv'
      PROVE  CommandInv' /\ AnswersStay
  <2>1. Held' = Held \ {} /\ {} \in SUBSET Held /\ InQueue' \cap Pending' = {}
    BY <1>a, <1>b, <1>3 DEF Held
  <2>. QED
    BY <1>a, <1>3, <2>1, SettlingKeeps
<1>4. CASE /\ health' = c /\ Idle
           /\ UNCHANGED <<answer, closed, transcription, reason, canceller,
                          shutdown, grants>>
  BY <1>a, <1>b, <1>3, <1>4 DEF Idle, Pending, CancelInv
<1>5. CASE /\ transcription' = c /\ Idle
           /\ UNCHANGED <<answer, closed, health, reason, canceller, shutdown>>
  BY <1>a, <1>b, <1>3, <1>5 DEF Idle, Pending, CancelInv
<1>. QED
  BY <1>a, <1>1, <1>2, <1>4, <1>5 DEF StartHealth, StartTranscription, Return

(* So is a cancel, and a shutdown, which fails the health check.             *)
LEMMA EndingsSettle ==
  ASSUME TypeOK, CommandInv, NEW c \in Commands,
         CancelTranscription(c) \/ StartShutdown(c)
  PROVE  CommandInv' /\ AnswersStay
<1>a. /\ Take(c) /\ pc' # "stopped"
      /\ c \in InQueue /\ InQueue' = InQueue \ {c} /\ QueuedOnce'
      /\ c \notin Pending /\ answer[c] = "sent" /\ pc = "command"
      /\ UNCHANGED target
      /\ "failed" \in Outcomes /\ "ok" \in Outcomes
  BY TakingFromTheQueue DEF CancelTranscription, StartShutdown, Outcomes
<1>b. InQueue \cap Pending = {} /\ CancelInv /\ c # Nobody
  BY SlotsDiffer DEF CommandInv
<1>1. ASSUME NEW o \in Outcomes, Return(c, o)
      PROVE  CommandInv' /\ AnswersStay
  BY <1>1, <1>a, ReturningSettles DEF Return
<1>2. CASE FailProcess("failed", {c})
  BY <1>2, <1>a, FailingSettles
<1>3. CASE /\ transcription # Nobody /\ transcription = target[c]
           /\ canceller = Nobody /\ AwaitCancel(c)
           /\ UNCHANGED <<closed, health, transcription, shutdown, grants>>
  <2>1. Pending' = Pending \cup {c} /\ UNCHANGED answer /\ CancelInv'
    BY <1>a, <1>b, <1>3 DEF AwaitCancel, Pending, CancelInv
  <2>2. Held' = Held \ {} /\ {} \in SUBSET Held /\ InQueue' \cap Pending' = {}
    BY <1>a, <1>b, <2>1 DEF Held
  <2>. QED
    BY <1>a, <2>1, <2>2, SettlingKeeps
<1>4. CASE /\ ~ShutdownRefused(c)
           /\ answer' = Complete({health}, "failed") /\ health' = Nobody
           /\ shutdown' = c
           /\ UNCHANGED <<closed, transcription, canceller, grants>>
  <2>. DEFINE done == {health} \ {Nobody}
  <2>1. shutdown = Nobody
    BY <1>4 DEF ShutdownRefused
  <2>2. Pending' = (Pending \ done) \cup {c} /\ done \in SUBSET Pending
    BY <1>4, <1>b, <2>1, SlotsDiffer DEF Pending
  <2>3. /\ \A d \in Commands \ done : answer'[d] = answer[d]
        /\ \A d \in done : answer'[d] \in Outcomes
    BY <1>4, <1>a, SlotsDiffer DEF Complete, Pending
  <2>4. CancelInv'
    BY <1>a, <1>b, <1>4 DEF CancelInv
  <2>. HIDE DEF done
  <2>5. /\ Held' = Held \ done /\ done \in SUBSET Held
        /\ InQueue' \cap Pending' = {}
    BY <1>a, <1>b, <2>2 DEF Held
  <2>. QED
    BY <1>a, <2>3, <2>4, <2>5, SettlingKeeps
<1>5. CASE CancelTranscription(c)
  BY <1>a, <1>1, <1>2, <1>3, <1>5 DEF CancelTranscription
<1>6. CASE StartShutdown(c)
  BY <1>a, <1>1, <1>2, <1>4, <1>6 DEF StartShutdown
<1>. QED
  BY <1>5, <1>6

(* A command that is made waits in the queue, and after the end fails.       *)
LEMMA SubmittingKeeps ==
  ASSUME TypeOK, CommandInv, NEW c \in Commands, Submit(c)
  PROVE  CommandInv' /\ AnswersStay
<1>a. /\ answer[c] = "unsent" /\ c \notin Held /\ UNCHANGED <<pc, pending>>
      /\ answer \in [Commands -> {"unsent", "sent"} \cup Outcomes]
      /\ target \in [Cancels -> Transcriptions \cup {Nobody}]
      /\ queue \in Seq(Commands)
      /\ Held \subseteq Commands /\ Nobody \notin Transcriptions
  BY SlotsDiffer, CommandsAreDistinct
     DEF Submit, CommandInv, Held, TypeOK, Commands
<1>b. /\ \A d \in Cancels \ {c} : target'[d] = target[d]
      /\ c \in Cancels => target'[c] # Nobody
  BY <1>a DEF Submit
<1>c. /\ Pending' = Pending /\ canceller' = canceller
      /\ transcription' = transcription
  BY <1>a DEF Pending, pending
<1>1. CancelInv'
  <2>1. canceller # Nobody => canceller \in Held /\ canceller \in Cancels
    BY DEF Held, Pending, TypeOK
  <2>. QED
    BY <1>a, <1>b, <1>c, <2>1 DEF CommandInv, CancelInv
<1>2. CASE pc = "stopped"
  <2>1. /\ \A d \in Commands \ {c} : answer'[d] = answer[d]
        /\ answer'[c] = "failed" /\ UNCHANGED queue
    BY <1>a, <1>2 DEF Submit
  <2>2. InQueue' = InQueue /\ Held' = Held /\ QueuedOnce'
    BY <1>c, <2>1 DEF InQueue, Held, CommandInv, QueuedOnce
  <2>3. \A d \in Cancels : answer'[d] # "unsent" => target'[d] # Nobody
    BY <1>a, <1>b, <2>1 DEF CommandInv, Commands
  <2>. QED
    BY <1>a, <1>c, <1>1, <1>2, <2>1, <2>2, <2>3
       DEF CommandInv, AnswersStay, Outcomes
<1>3. CASE pc # "stopped"
  <2>1. /\ \A d \in Commands \ {c} : answer'[d] = answer[d]
        /\ answer'[c] = "sent" /\ queue' = Append(queue, c)
    BY <1>a, <1>3 DEF Submit
  <2>2. /\ Len(queue) \in Nat /\ Len(queue') = Len(queue) + 1
        /\ \A i \in 1..Len(queue) : queue'[i] = queue[i]
        /\ queue'[Len(queue) + 1] = c
        /\ DOMAIN queue = 1..Len(queue) /\ DOMAIN queue' = 1..Len(queue')
    BY <1>a, <2>1, Appending
  <2>3. InQueue' = InQueue \cup {c}
    <3>1. ASSUME NEW d \in InQueue' PROVE d \in InQueue \cup {c}
      <4>1. PICK i \in 1..(Len(queue) + 1) : d = queue'[i]
        BY <2>2, <3>1 DEF InQueue
      <4>2. i \in 1..Len(queue) \/ i = Len(queue) + 1
        BY <2>2
      <4>. QED
        BY <2>2, <4>1, <4>2 DEF InQueue
    <3>2. ASSUME NEW d \in InQueue \cup {c} PROVE d \in InQueue'
      <4>1. CASE d \in InQueue
        <5>1. PICK i \in 1..Len(queue) : d = queue[i]
          BY <2>2, <4>1 DEF InQueue
        <5>2. i \in 1..(Len(queue) + 1) /\ queue'[i] = d
          BY <2>2, <5>1
        <5>. QED
          BY <2>2, <5>2 DEF InQueue
      <4>2. CASE d = c
        BY <2>2, <4>2 DEF InQueue
      <4>. QED
        BY <3>2, <4>1, <4>2
    <3>. QED
      BY <3>1, <3>2
  <2>4. QueuedOnce'
    <3>. SUFFICES ASSUME NEW i \in 1..(Len(queue) + 1),
                         NEW j \in 1..(Len(queue) + 1), queue'[i] = queue'[j]
                  PROVE  i = j
      BY <2>2 DEF QueuedOnce
    <3>1. \A k \in 1..Len(queue) : queue[k] # c
      BY <1>a, <2>2 DEF Held, InQueue
    <3>2. /\ i \in 1..Len(queue) \/ i = Len(queue) + 1
          /\ j \in 1..Len(queue) \/ j = Len(queue) + 1
      BY <2>2
    <3>. QED
      BY <2>2, <3>1, <3>2 DEF CommandInv, QueuedOnce
  <2>5. \A d \in Cancels : answer'[d] # "unsent" => target'[d] # Nobody
    BY <1>a, <1>b, <2>1 DEF CommandInv, Commands
  <2>6. Held' = Held \cup {c} /\ InQueue' \cap Pending' = {}
    BY <1>a, <1>c, <2>3 DEF Held, CommandInv
  <2>7. /\ \A d \in Held' : answer'[d] = "sent"
        /\ \A d \in Commands : answer'[d] = "sent" => d \in Held'
        /\ AnswersStay
    BY <1>a, <1>3, <2>1, <2>6 DEF CommandInv, AnswersStay, Outcomes
  <2>. QED
    BY <1>a, <1>1, <1>3, <2>4, <2>5, <2>6, <2>7 DEF CommandInv
<1>. QED
  BY <1>2, <1>3

(* The rest of the steps. *)
LEMMA LoopSettles ==
  ASSUME TypeOK, CommandInv,
         \/ DropAdapter \/ Drained \/ NothingExpires \/ NoCommand
         \/ Disconnected \/ Stop \/ WorkerStep \/ UNCHANGED vars
  PROVE  CommandInv' /\ AnswersStay
<1>1. CASE UNCHANGED <<answer, target, queue, pending>>
           /\ (pc = "stopped" <=> pc' = "stopped")
  <2>1. InQueue' = InQueue /\ Pending' = Pending /\ Held' = Held
    BY <1>1 DEF InQueue, Pending, pending, Held
  <2>2. QueuedOnce' /\ CancelInv'
    BY <1>1 DEF CommandInv, QueuedOnce, CancelInv, pending
  <2>. QED
    BY <1>1, <2>1, <2>2 DEF CommandInv, AnswersStay
<1>2. CASE DropAdapter \/ Drained \/ NothingExpires \/ NoCommand
           \/ WorkerStep \/ UNCHANGED vars
  BY <1>1, <1>2 DEF DropAdapter, Drained, NothingExpires, NoCommand, WorkerStep,
     WorkerReads, InferenceFinished, RequestDeadline, ShutdownDeadline, Crash,
     supervisor, vars, client
<1>3. CASE Disconnected
  <2>1. /\ InQueue = {} /\ InQueue' = {} /\ QueuedOnce'
        /\ {} \in SUBSET InQueue /\ "failed" \in Outcomes
    BY <1>3 DEF Disconnected, InQueue, CommandInv, QueuedOnce, Outcomes
  <2>2. pc # "stopped" /\ FailProcess("failed", {})
    BY <1>3 DEF Disconnected
  <2>. QED
    BY <2>1, <2>2, FailingSettles
<1>4. CASE Stop
  <2>1. /\ Held' = {} /\ InQueue' = {} /\ Pending' = {} /\ QueuedOnce'
        /\ CancelInv' /\ UNCHANGED <<answer, target>> /\ pc' = "stopped"
    BY <1>4 DEF Stop, Held, InQueue, Pending, QueuedOnce, CancelInv, client
  <2>. QED
    BY <2>1 DEF CommandInv, AnswersStay
<1>. QED
  BY <1>2, <1>3, <1>4

(* Every step keeps the commands accounted for and the answers as they are.  *)
LEMMA StepSettles ==
  ASSUME TypeOK, CommandInv, [Next]_vars PROVE CommandInv' /\ AnswersStay
  BY DrainingSettles, DeadlinesSettle, RequestsSettle, EndingsSettle,
     SubmittingKeeps, LoopSettles
     DEF Next, SupervisorStep, HandleCommand, Stopped

(* So the commands are accounted for in every state. *)
LEMMA CommandsAreHeld == Spec => []CommandInv
<1>1. Init => CommandInv
  BY SlotsDiffer DEF Init, CommandInv, QueuedOnce, Held, InQueue, Pending,
     CancelInv, Outcomes, Commands
<1>. QED
  BY <1>1, StepSettles, TypeCorrect, PTL DEF Spec

-----------------------------------------------------------------------------
(* The pipes *)

(* What is asked for when the supervisor sends a message.                    *)
LEMMA AskingMore ==
  ASSUME TypeOK, NEW message \in ToWorker,
         toWorker' = Append(toWorker, message)
  PROVE  /\ message.kind # "transcribe" => Asked' = Asked
         /\ message.kind = "transcribe" =>
              /\ Asked' = Asked \cup {Len(toWorker) + 1}
              /\ toWorker'[Len(toWorker) + 1] = message
         /\ \A i \in 1..Len(toWorker) : toWorker'[i] = toWorker[i]
         /\ toWorker'[Len(toWorker) + 1] = message
         /\ \A i \in 1..Len(toWorker') :
              i \in 1..Len(toWorker) \/ i = Len(toWorker) + 1
<1>1. toWorker \in Seq(ToWorker)
  BY PartsOfTypeOK DEF ProcessTypeOK
<1>2. /\ Len(toWorker) \in Nat /\ Len(toWorker') = Len(toWorker) + 1
      /\ \A i \in 1..Len(toWorker) : toWorker'[i] = toWorker[i]
      /\ toWorker'[Len(toWorker) + 1] = message
  BY <1>1, Appending
<1>3. \A i \in 1..Len(toWorker') :
        i \in 1..Len(toWorker) \/ i = Len(toWorker) + 1
  BY <1>2
<1>4. \A i \in 1..Len(toWorker) : i \in 1..Len(toWorker')
  BY <1>2
<1>5. Len(toWorker) + 1 \in 1..Len(toWorker')
  BY <1>2
<1>. QED
  BY <1>2, <1>3, <1>4, <1>5 DEF Asked

(* What is still asked for when the worker reads a message. *)
LEMMA ReadingOne ==
  ASSUME TypeOK, toWorker # <<>>, toWorker' = Tail(toWorker)
  PROVE  /\ \A i \in 1..Len(toWorker') :
              /\ i \in Nat \ {0} /\ i + 1 \in 1..Len(toWorker)
              /\ toWorker'[i] = toWorker[i + 1]
         /\ \A i \in Asked' : i + 1 \in Asked /\ i \in Nat \ {0}
         /\ Head(toWorker) = toWorker[1] /\ 1 \in 1..Len(toWorker)
         /\ Head(toWorker).kind = "transcribe" => 1 \in Asked
<1>1. toWorker \in Seq(ToWorker)
  BY PartsOfTypeOK DEF ProcessTypeOK
<1>2. /\ Len(toWorker') = Len(toWorker) - 1 /\ Len(toWorker) \in Nat \ {0}
      /\ \A i \in 1..(Len(toWorker) - 1) : toWorker'[i] = toWorker[i + 1]
      /\ Head(toWorker) = toWorker[1]
  BY <1>1, Taking
<1>3. 1 \in 1..Len(toWorker)
  BY <1>2
<1>4. \A i \in 1..Len(toWorker') :
        /\ i \in Nat \ {0} /\ i + 1 \in 1..Len(toWorker)
        /\ toWorker'[i] = toWorker[i + 1]
  BY <1>2
<1>. QED
  BY <1>2, <1>3, <1>4 DEF Asked

(* What is answered when the worker writes a message.                        *)
LEMMA AnsweringMore ==
  ASSUME TypeOK, NEW message \in FromWorker,
         fromWorker' = Append(fromWorker, message)
  PROVE  /\ ~(message.kind \in Answers /\ message.request # Nobody) =>
              Answered' = Answered
         /\ message.kind \in Answers /\ message.request # Nobody =>
              Answered' = Answered \cup {Len(fromWorker) + 1}
         /\ \A i \in Answered : fromWorker'[i] = fromWorker[i]
         /\ fromWorker'[Len(fromWorker) + 1] = message
<1>1. fromWorker \in Seq(FromWorker)
  BY PartsOfTypeOK DEF ProcessTypeOK
<1>2. /\ Len(fromWorker) \in Nat /\ Len(fromWorker') = Len(fromWorker) + 1
      /\ \A i \in 1..Len(fromWorker) : fromWorker'[i] = fromWorker[i]
      /\ fromWorker'[Len(fromWorker) + 1] = message
  BY <1>1, Appending
<1>3. \A i \in 1..Len(fromWorker') :
        i \in 1..Len(fromWorker) \/ i = Len(fromWorker) + 1
  BY <1>2
<1>4. \A i \in 1..Len(fromWorker) : i \in 1..Len(fromWorker')
  BY <1>2
<1>5. Len(fromWorker) + 1 \in 1..Len(fromWorker')
  BY <1>2
<1>. QED
  BY <1>2, <1>3, <1>4, <1>5 DEF Answered

(* What is still answered when the supervisor takes a message. *)
LEMMA TakingOne ==
  ASSUME TypeOK, fromWorker # <<>>, fromWorker' = Tail(fromWorker)
  PROVE  /\ \A i \in Answered' :
              /\ i \in Nat \ {0} /\ i + 1 \in Answered
              /\ fromWorker'[i] = fromWorker[i + 1]
         /\ Head(fromWorker).kind \in Answers
              /\ Head(fromWorker).request # Nobody => 1 \in Answered
<1>1. fromWorker \in Seq(FromWorker)
  BY PartsOfTypeOK DEF ProcessTypeOK
<1>2. /\ Len(fromWorker') = Len(fromWorker) - 1 /\ Len(fromWorker) \in Nat \ {0}
      /\ \A i \in 1..(Len(fromWorker) - 1) : fromWorker'[i] = fromWorker[i + 1]
      /\ Head(fromWorker) = fromWorker[1]
  BY <1>1, Taking
<1>3. 1 \in 1..Len(fromWorker)
  BY <1>2
<1>4. \A i \in 1..Len(fromWorker') :
        /\ i \in Nat \ {0} /\ i + 1 \in 1..Len(fromWorker)
        /\ fromWorker'[i] = fromWorker[i + 1]
  BY <1>2
<1>. QED
  BY <1>2, <1>3, <1>4 DEF Answered

(* The last words of the process.                                            *)
LEMMA LastWords ==
  ASSUME TypeOK, NEW messages \in Seq(FromWorker), Exit(messages)
  PROVE  /\ Asked' = {} /\ toWorker' = <<>>
         /\ \A i \in Answered' :
              \/ i \in Answered /\ fromWorker'[i] = fromWorker[i]
              \/ \E j \in 1..Len(messages) :
                   /\ i = Len(fromWorker) + j /\ fromWorker'[i] = messages[j]
                   /\ messages[j].kind \in Answers
                   /\ messages[j].request # Nobody
<1>1. /\ fromWorker \in Seq(FromWorker)
      /\ Append(messages, Eof) \in Seq(FromWorker)
  BY PartsOfTypeOK, ProcessesAreTyped, Appending DEF ProcessTypeOK
<1>. DEFINE said == Append(messages, Eof)
<1>2. /\ Len(fromWorker) \in Nat /\ Len(messages) \in Nat
      /\ Len(said) = Len(messages) + 1
      /\ \A j \in 1..Len(messages) : said[j] = messages[j]
      /\ said[Len(messages) + 1] = Eof
  BY <1>1, ProcessesAreTyped, Appending
<1>. HIDE DEF said
<1>3. fromWorker' = fromWorker \o said /\ said \in Seq(FromWorker)
  BY <1>1 DEF Exit, said
<1>4. /\ Len(fromWorker') = Len(fromWorker) + Len(said)
      /\ \A i \in 1..Len(fromWorker) : fromWorker'[i] = fromWorker[i]
      /\ \A j \in 1..Len(said) : fromWorker'[Len(fromWorker) + j] = said[j]
  BY <1>1, <1>3, Joining
<1>5. ASSUME NEW i \in Answered'
      PROVE  \/ i \in Answered /\ fromWorker'[i] = fromWorker[i]
             \/ \E j \in 1..Len(messages) :
                  /\ i = Len(fromWorker) + j /\ fromWorker'[i] = messages[j]
                  /\ messages[j].kind \in Answers
                  /\ messages[j].request # Nobody
  <2>1. /\ i \in 1..Len(fromWorker') /\ fromWorker'[i].kind \in Answers
        /\ fromWorker'[i].request # Nobody
    BY DEF Answered
  <2>2. CASE i \in 1..Len(fromWorker)
    BY <1>4, <2>1, <2>2 DEF Answered
  <2>3. CASE i \notin 1..Len(fromWorker)
    <3>. DEFINE j == i - Len(fromWorker)
    <3>1. j \in 1..(Len(messages) + 1) /\ i = Len(fromWorker) + j
      BY <1>2, <1>4, <2>1, <2>3
    <3>. HIDE DEF j
    <3>2. fromWorker'[i] = said[j]
      BY <1>2, <1>4, <3>1
    <3>3. j # Len(messages) + 1
      BY <1>2, <2>1, <3>2 DEF Eof, Message, Answers
    <3>4. j \in 1..Len(messages)
      BY <1>2, <3>1, <3>3
    <3>. QED
      BY <1>2, <2>1, <3>1, <3>2, <3>4
  <2>. QED
    BY <2>2, <2>3
<1>6. Asked' = {} /\ toWorker' = <<>>
  BY DEF Exit, Asked
<1>. QED
  BY <1>5, <1>6

(* Without a process nothing is asked for or answered.                       *)
LEMMA TerminatingEmptiesPipes ==
  ASSUME TypeOK, Terminate, transcription' = Nobody PROVE PipeInv'
<1>1. Asked' = {} /\ Answered' = {} /\ Len(toWorker') = 0
  BY DEF Terminate, Asked, Answered
<1>2. AskInv' /\ AnswerInv'
  BY <1>1 DEF AskInv, AnswerInv
<1>3. PlaceInv'
  BY <1>1 DEF PlaceInv, Terminate, Ready, NoWorker, FreshWorker
<1>. QED
  BY <1>2, <1>3 DEF PipeInv

(* fail_process ends the process and the pending transcription. *)
LEMMA FailingEmptiesPipes ==
  ASSUME TypeOK, NEW o, NEW also, FailProcess(o, also) PROVE PipeInv'
  BY TerminatingEmptiesPipes DEF FailProcess, FailAll

(* The worker that a request is sent to: the one held, or one like none.     *)
LEMMA EnsuredIsAlike ==
  ASSUME TypeOK
  PROVE  /\ EnsuredWorker.protocol = worker.protocol
         /\ EnsuredWorker.active = worker.active
         /\ worker.state = "alive" => EnsuredWorker.state = "alive"
<1>1. worker.state = "none" => worker = NoWorker
  BY DEF TypeOK, process
<1>. QED
  BY <1>1 DEF EnsuredWorker, NoWorker, FreshWorker

(* A message that asks for no transcription.                                 *)
LEMMA SendingOthers ==
  ASSUME TypeOK, PipeInv, NEW w, w \in {worker, EnsuredWorker},
         NEW message \in ToWorker, message.kind # "transcribe",
         message.kind = "healthCheck" => message.request \in HealthChecks,
         Send(w, message), UNCHANGED transcription
  PROVE  PipeInv'
<1>1. /\ Asked' = Asked /\ Asked \subseteq 1..Len(toWorker)
      /\ \A i \in 1..Len(toWorker) : toWorker'[i] = toWorker[i]
      /\ toWorker'[Len(toWorker) + 1] = message
      /\ \A i \in 1..Len(toWorker') :
           i \in 1..Len(toWorker) \/ i = Len(toWorker) + 1
  BY AskingMore DEF Send, Asked
<1>2. AskInv'
  BY <1>1 DEF PipeInv, AskInv
<1>3. Answered' = Answered /\ AnswerInv'
  BY DEF Send, Answered, PipeInv, AnswerInv
<1>4. /\ worker'.protocol = worker.protocol /\ worker'.active = worker.active
      /\ worker.state = "alive" => worker'.state = "alive"
      /\ protocol'.active = protocol.active
  BY EnsuredIsAlike DEF Send, AfterCore
<1>5. PlaceInv'
  BY <1>1, <1>3, <1>4 DEF PipeInv, PlaceInv
<1>. QED
  BY <1>2, <1>3, <1>5 DEF PipeInv

(* The message that asks for the transcription the supervisor now awaits.    *)
LEMMA SendingRequest ==
  ASSUME TypeOK, PipeInv, NEW c \in Transcriptions, transcription = Nobody,
         Send(EnsuredWorker, Message("transcribe", c)), transcription' = c
  PROVE  PipeInv'
<1>. DEFINE message == Message("transcribe", c)
<1>1. /\ message \in ToWorker /\ message.kind = "transcribe"
      /\ message.request = c /\ c # Nobody
  BY CommandsAreDistinct DEF Message, ToWorker, CoreKinds, Requests, Commands
<1>. HIDE DEF message
<1>2. Asked = {} /\ worker.active = Nobody
  BY CommandsAreDistinct DEF PipeInv, AskInv, PlaceInv
<1>3. Answered = {}
  BY DEF PipeInv, AnswerInv, Answered
<1>4. /\ Asked' = {Len(toWorker) + 1} /\ toWorker'[Len(toWorker) + 1] = message
      /\ \A i \in 1..Len(toWorker) : toWorker'[i] = toWorker[i]
      /\ \A i \in 1..Len(toWorker') :
           i \in 1..Len(toWorker) \/ i = Len(toWorker) + 1
  BY <1>1, <1>2, AskingMore DEF Send, message
<1>5. AskInv'
  BY <1>1, <1>4 DEF PipeInv, AskInv
<1>6. Answered' = {} /\ AnswerInv'
  BY <1>3 DEF Send, Answered, AnswerInv
<1>7. /\ worker'.protocol = worker.protocol /\ worker'.active = Nobody
      /\ protocol'.active = {c}
  BY <1>1, <1>2, EnsuredIsAlike DEF Send, AfterCore, PipeInv, PlaceInv, message
<1>8. PlaceInv'
  BY <1>1, <1>2, <1>6, <1>7 DEF PipeInv, PlaceInv
<1>. QED
  BY <1>5, <1>6, <1>8 DEF PipeInv

(* What the supervisor takes from the pipe.                                  *)
LEMMA DrainingKeepsPipes ==
  ASSUME TypeOK, PipeInv, DrainMessage PROVE PipeInv'
<1>. DEFINE message == Head(fromWorker)
            legal == message # Eof /\ WorkerMay(protocol, message)
<1>1. CASE FailProcess("failed", {})
  BY <1>1, FailingEmptiesPipes
<1>2. CASE CompleteShutdown(message)
  BY <1>2, TerminatingEmptiesPipes DEF CompleteShutdown
<1>3. CASE CompleteHealth(message) /\ Observed(message) /\ fromWorker # <<>>
  <2>1. /\ message.kind = "healthResult" /\ message.request \in HealthChecks
        /\ UNCHANGED <<transcription, worker, toWorker>>
        /\ fromWorker' = Tail(fromWorker)
    BY <1>3 DEF CompleteHealth, Observed, TypeOK
  <2>2. \A i \in Answered' : /\ i \in Nat \ {0} /\ i + 1 \in Answered
                             /\ fromWorker'[i] = fromWorker[i + 1]
    BY <1>3, <2>1, TakingOne
  <2>3. protocol'.active = protocol.active \ {message.request}
    BY <1>3, <2>1 DEF Observed, AfterWorker, Fatal, TypeOK, Protocols
  <2>4. protocol'.active = protocol.active
    BY <2>1, <2>3, CommandsAreDistinct DEF TypeOK, Protocols
  <2>5. Asked' = Asked /\ AskInv'
    BY <2>1 DEF Asked, PipeInv, AskInv
  <2>6. AnswerInv'
    <3>1. \A i \in Answered' : fromWorker'[i].request = transcription'
      BY <2>1, <2>2 DEF PipeInv, AnswerInv
    <3>2. ASSUME NEW i \in Answered', NEW j \in Answered' PROVE i = j
      <4>1. i \in Nat /\ j \in Nat /\ i + 1 = j + 1
        BY <2>2 DEF PipeInv, AnswerInv
      <4>. QED
        BY <4>1
    <3>. QED
      BY <3>1, <3>2 DEF AnswerInv
  <2>7. Answered = {} => Answered' = {}
    BY <2>2
  <2>8. PlaceInv'
    BY <2>1, <2>4, <2>5, <2>7 DEF PipeInv, PlaceInv
  <2>. QED
    BY <2>5, <2>6, <2>8 DEF PipeInv
<1>4. ASSUME legal,
             message.kind \in {"transcript", "cancelled", "failed", "timedOut"},
             message.request = transcription, transcription' = Nobody,
             UNCHANGED worker, Observed(message), fromWorker # <<>>
      PROVE  PipeInv'
  <2>1. /\ message.kind \in Answers /\ transcription # Nobody
        /\ transcription \in protocol.active
    BY <1>4, CommandsAreDistinct
       DEF Answers, WorkerMay, TypeOK, Protocols, Commands
  <2>2. /\ \A i \in Answered' : i \in Nat \ {0} /\ i + 1 \in Answered
        /\ 1 \in Answered
    BY <1>4, <2>1, TakingOne DEF Observed
  <2>3. \A i, j \in Answered : i = j
    BY DEF PipeInv, AnswerInv
  <2>4. \A i \in Nat \ {0} : i + 1 # 1
    OBVIOUS
  <2>5. Answered' = {} /\ Asked = {} /\ worker.active = Nobody
    BY <2>2, <2>3, <2>4 DEF PipeInv, PlaceInv
  <2>6. Asked' = Asked /\ UNCHANGED toWorker
    BY <1>4 DEF Observed, Asked
  <2>7. AskInv' /\ AnswerInv'
    BY <2>5, <2>6 DEF PipeInv, AskInv, AnswerInv
  <2>8. protocol'.active = {}
    BY <1>4 DEF Observed, AfterWorker, Fatal, PipeInv, PlaceInv, TypeOK,
                Protocols
  <2>9. PlaceInv'
    BY <1>4, <2>5, <2>6, <2>8 DEF PipeInv, PlaceInv
  <2>. QED
    BY <2>7, <2>9 DEF PipeInv
<1>5. CASE /\ legal /\ Observed(message) /\ fromWorker # <<>>
           /\ \/ CompleteTranscription(message) \/ CompleteCancelled(message)
              \/ CompleteError(message)
  BY <1>4, <1>5 DEF CompleteTranscription, CompleteCancelled, CompleteError,
     TranscriptFits, EndTranscription
<1>. QED
  BY <1>1, <1>2, <1>3, <1>5 DEF DrainMessage

(* What the supervisor does at its deadlines, and with a command.            *)
LEMMA SupervisingKeepsPipes ==
  ASSUME TypeOK, PipeInv, DeadlineExpires \/ HandleCommand PROVE PipeInv'
<1>1. ASSUME NEW o, NEW also, FailProcess(o, also) PROVE PipeInv'
  BY <1>1, FailingEmptiesPipes
<1>2. ASSUME NEW w, w \in {worker, EnsuredWorker}, NEW message \in ToWorker,
             message.kind # "transcribe",
             message.kind = "healthCheck" => message.request \in HealthChecks,
             Send(w, message), UNCHANGED transcription
      PROVE  PipeInv'
  BY <1>2, SendingOthers
<1>3. ASSUME worker' = EnsuredWorker \/ UNCHANGED worker,
             UNCHANGED <<transcription, protocol, toWorker, fromWorker>>
      PROVE  PipeInv'
  <2>1. AskInv' /\ AnswerInv' /\ Asked' = Asked /\ Answered' = Answered
    BY <1>3 DEF PipeInv, AskInv, AnswerInv, Asked, Answered
  <2>2. /\ worker'.protocol = worker.protocol /\ worker'.active = worker.active
        /\ worker.state = "alive" => worker'.state = "alive"
    BY <1>3, EnsuredIsAlike
  <2>. QED
    BY <1>3, <2>1, <2>2 DEF PipeInv, PlaceInv
<1>4. transcription \in Requests
  BY DEF TypeOK, Requests
<1>5. /\ Message("cancel", transcription) \in ToWorker
      /\ Message("cancel", transcription).kind = "cancel"
      /\ Message("shutdown", Nobody) \in ToWorker
      /\ Message("shutdown", Nobody).kind = "shutdown"
  BY <1>4 DEF Message, ToWorker, CoreKinds, Requests
<1>6. CASE DeadlineExpires
  BY <1>1, <1>2, <1>5, <1>6 DEF DeadlineExpires, HealthExpires, RequestExpires,
     CancelExpires, ShutdownExpires
<1>7. ASSUME NEW c \in Commands, NEW o, Return(c, o) PROVE PipeInv'
  BY <1>3, <1>7 DEF Return, process, pending
<1>8. ASSUME NEW c \in Commands, StartHealth(c) PROVE PipeInv'
  <2>1. /\ Message("healthCheck", c) \in ToWorker
        /\ Message("healthCheck", c).kind = "healthCheck"
        /\ Message("healthCheck", c).request \in HealthChecks
    BY <1>8 DEF StartHealth, Message, ToWorker, CoreKinds, Requests
  <2>2. Message("healthCheck", c).kind # "transcribe"
    BY <2>1
  <2>. QED
    BY <1>1, <1>2, <1>7, <1>8, <2>1, <2>2 DEF StartHealth
<1>9. ASSUME NEW c \in Commands, StartTranscription(c) PROVE PipeInv'
  <2>1. CASE /\ Idle /\ Send(EnsuredWorker, Message("transcribe", c))
             /\ transcription' = c
    BY <1>9, <2>1, SendingRequest DEF StartTranscription, Idle
  <2>2. CASE Idle /\ Terminate /\ UNCHANGED pending
    BY <2>2, TerminatingEmptiesPipes DEF Idle, pending
  <2>3. CASE /\ worker' = EnsuredWorker
             /\ UNCHANGED <<closed, pending, protocol, toWorker, fromWorker>>
    BY <1>3, <2>3 DEF pending
  <2>. QED
    BY <1>7, <1>9, <2>1, <2>2, <2>3 DEF StartTranscription
<1>10. ASSUME NEW c \in Commands, CancelTranscription(c) PROVE PipeInv'
  BY <1>1, <1>2, <1>5, <1>7, <1>10 DEF CancelTranscription
<1>11. ASSUME NEW c \in Commands, StartShutdown(c) PROVE PipeInv'
  BY <1>1, <1>2, <1>5, <1>7, <1>11 DEF StartShutdown
<1>. QED
  BY <1>6, <1>8, <1>9, <1>10, <1>11 DEF HandleCommand

(* What the process reads.                                                   *)
LEMMA ReadingKeepsPipes ==
  ASSUME TypeOK, PipeInv, WorkerReads PROVE PipeInv'
<1>. DEFINE message == Head(toWorker)
<1>a. /\ worker.state = "alive" /\ toWorker # <<>>
      /\ UNCHANGED <<protocol, transcription>>
      /\ worker \in Workers /\ toWorker \in Seq(ToWorker)
      /\ worker.protocol \in Protocols
  BY PartsOfTypeOK
     DEF WorkerReads, supervisor, pending, ProcessTypeOK, Workers
<1>b. message \in ToWorker /\ message.request \in Requests
  <2>1. message \in ToWorker
    BY <1>a, Taking
  <2>. QED
    BY <2>1 DEF ToWorker
<1>c. ASSUME toWorker' = Tail(toWorker)
      PROVE  /\ AskInv'
             /\ Asked = {} => Asked' = {}
             /\ message.kind = "transcribe" =>
                  /\ Asked # {} /\ Asked' = {}
                  /\ message.request = transcription /\ transcription # Nobody
             /\ message.kind = "healthCheck" => message.request \in HealthChecks
  <2>1. /\ \A i \in 1..Len(toWorker') :
             /\ i \in Nat \ {0} /\ i + 1 \in 1..Len(toWorker)
             /\ toWorker'[i] = toWorker[i + 1]
        /\ \A i \in Asked' : i + 1 \in Asked /\ i \in Nat \ {0}
        /\ message = toWorker[1] /\ 1 \in 1..Len(toWorker)
        /\ message.kind = "transcribe" => 1 \in Asked
    BY <1>a, <1>c, ReadingOne
  <2>. HIDE DEF message
  <2>2. /\ \A i, j \in Asked : i = j
        /\ \A i \in Asked :
             toWorker[i].request = transcription /\ transcription # Nobody
        /\ \A i \in 1..Len(toWorker) :
             toWorker[i].kind = "healthCheck" =>
               toWorker[i].request \in HealthChecks
    BY DEF PipeInv, AskInv
  <2>3. ASSUME NEW i \in Asked', NEW j \in Asked' PROVE i = j
    <3>1. i \in Nat /\ j \in Nat /\ i + 1 = j + 1
      BY <2>1, <2>2
    <3>. QED
      BY <3>1
  <2>4. \A i \in Nat \ {0} : i + 1 # 1
    OBVIOUS
  <2>5. message.kind = "transcribe" => Asked' = {}
    BY <2>1, <2>2, <2>4
  <2>6. \A i \in Asked' :
          toWorker'[i].request = transcription /\ transcription # Nobody
    BY <2>1, <2>2 DEF Asked
  <2>7. AskInv'
    BY <1>a, <2>1, <2>2, <2>3, <2>6 DEF AskInv
  <2>. QED
    BY <2>1, <2>2, <2>5, <2>7
<1>d. ASSUME UNCHANGED fromWorker
      PROVE  Answered' = Answered /\ AnswerInv'
  BY <1>a, <1>d DEF Answered, AnswerInv, PipeInv
<1>. HIDE DEF message
<1>1. CASE ReadHealthCheck(message) /\ toWorker' = Tail(toWorker)
  <2>1. /\ message.kind = "healthCheck" /\ message.request \in HealthChecks
        /\ fromWorker' = Append(fromWorker,
                                Message("healthResult", message.request))
        /\ Message("healthResult", message.request) \in FromWorker
        /\ Message("healthResult", message.request).kind \notin Answers
    BY <1>1, <1>b, <1>c
       DEF ReadHealthCheck, Emit, Message, FromWorker, WorkerKinds, Answers
  <2>2. Answered' = Answered /\ AnswerInv'
    BY <1>a, <2>1, AnsweringMore DEF PipeInv, AnswerInv
  <2>3. /\ worker'.active = worker.active /\ worker'.state = worker.state
        /\ worker'.protocol.active = worker.protocol.active \ {message.request}
    BY <1>1, <1>a, <2>1 DEF ReadHealthCheck, Emit, AfterCore, AfterWorker,
       Message, Fatal, Workers, Protocols
  <2>4. worker'.protocol.active = worker.protocol.active
    BY <1>a, <2>1, <2>3, CommandsAreDistinct DEF Protocols
  <2>5. PlaceInv'
    BY <1>1, <1>a, <1>c, <2>2, <2>3, <2>4 DEF PipeInv, PlaceInv
  <2>. QED
    BY <1>1, <1>c, <2>2, <2>5 DEF PipeInv
<1>2. CASE ReadTranscribe(message) /\ toWorker' = Tail(toWorker)
  <2>. DEFINE w == [worker EXCEPT !.protocol = AfterCore(@, message)]
  <2>1. /\ message.kind = "transcribe" /\ message.request = transcription
        /\ transcription # Nobody /\ Asked # {} /\ Asked' = {} /\ AskInv'
    BY <1>2, <1>c DEF ReadTranscribe
  <2>2. worker.active = Nobody /\ Answered = {} /\ worker.protocol.active = {}
    BY <2>1 DEF PipeInv, PlaceInv
  <2>3. /\ w.protocol.active = {transcription} /\ w.active = Nobody
        /\ w.state = "alive"
        /\ w.protocol \in [phase : {"Ready", "ShuttingDown", "Closed"},
                           active : SUBSET {transcription}]
    BY <1>a, <2>1, <2>2 DEF AfterCore, Workers, Protocols
  <2>4. CASE Emit(w, Message("failed", message.request))
    <3>1. /\ Message("failed", message.request) \in FromWorker
          /\ Message("failed", message.request).kind \in Answers
          /\ Message("failed", message.request).request = transcription
      BY <1>b, <2>1 DEF Message, FromWorker, WorkerKinds, Answers
    <3>2. /\ Answered' = {Len(fromWorker) + 1}
          /\ fromWorker'[Len(fromWorker) + 1]
               = Message("failed", message.request)
      BY <2>1, <2>2, <2>4, <3>1, AnsweringMore DEF Emit
    <3>3. AnswerInv'
      BY <1>a, <3>1, <3>2 DEF AnswerInv
    <3>4. worker'.active = Nobody /\ worker'.protocol.active = {}
      BY <1>a, <2>1, <2>3, <2>4 DEF Emit, AfterWorker, Message, Fatal, Workers
    <3>5. PlaceInv'
      BY <1>a, <2>1, <3>4 DEF PipeInv, PlaceInv
    <3>. QED
      BY <2>1, <3>3, <3>5 DEF PipeInv
  <2>5. CASE ~Emit(w, Message("failed", message.request))
    <3>1. /\ worker' = [w EXCEPT !.active = message.request,
                                 !.cancelRequested = FALSE,
                                 !.timedOut = FALSE]
          /\ UNCHANGED fromWorker
      BY <1>2, <2>5 DEF ReadTranscribe
    <3>2. /\ worker'.active = transcription /\ worker'.state = "alive"
          /\ worker'.protocol.active = {transcription}
      BY <1>a, <2>1, <2>3, <3>1 DEF Workers
    <3>3. PlaceInv'
      BY <1>a, <1>d, <2>1, <2>2, <3>1, <3>2 DEF PipeInv, PlaceInv
    <3>. QED
      BY <1>d, <2>1, <3>1, <3>3 DEF PipeInv
  <2>. QED
    BY <2>4, <2>5
<1>3. CASE (ReadCancel(message) \/ ReadShutdown(message))
           /\ toWorker' = Tail(toWorker)
  <2>1. /\ worker'.active = worker.active /\ worker'.state = worker.state
        /\ worker'.protocol.active = worker.protocol.active
        /\ UNCHANGED fromWorker
    <3>1. CASE ReadCancel(message)
      BY <1>a, <3>1 DEF ReadCancel, Workers
    <3>2. CASE ReadShutdown(message)
      <4>1. AfterCore(worker.protocol, message).active = worker.protocol.active
        BY <3>2 DEF ReadShutdown, AfterCore
      <4>2. worker' = [worker EXCEPT !.protocol = AfterCore(worker.protocol,
                                                            message),
                                     !.cancelRequested = TRUE,
                                     !.shutdownRequested = TRUE]
            /\ UNCHANGED fromWorker
        BY <3>2 DEF ReadShutdown
      <4>. QED
        BY <1>a, <4>1, <4>2 DEF Workers
    <3>. QED
      BY <1>3, <3>1, <3>2
  <2>2. PlaceInv'
    BY <1>3, <1>a, <1>c, <1>d, <2>1 DEF PipeInv, PlaceInv
  <2>. QED
    BY <1>3, <1>c, <1>d, <2>1, <2>2 DEF PipeInv
<1>4. ASSUME NEW kind \in {"shutdownComplete", "rejected"},
             Exit(<<Message(kind, Nobody)>>)
      PROVE  PipeInv'
  <2>. DEFINE messages == <<Message(kind, Nobody)>>
  <2>1. Message(kind, Nobody) \in FromWorker
        /\ Message(kind, Nobody).request = Nobody
    BY DEF Message, FromWorker, WorkerKinds, Fatal, Requests
  <2>2. /\ messages \in Seq(FromWorker) /\ Len(messages) = 1
        /\ \A j \in 1..Len(messages) : messages[j] = Message(kind, Nobody)
    BY <2>1
  <2>. HIDE DEF messages
  <2>3. Exit(messages)
    BY <1>4 DEF messages
  <2>4. /\ Asked' = {} /\ toWorker' = <<>>
        /\ \A i \in Answered' : i \in Answered /\ fromWorker'[i] = fromWorker[i]
    BY <2>1, <2>2, <2>3, LastWords
  <2>5. AskInv'
    BY <2>4 DEF AskInv
  <2>6. AnswerInv'
    BY <1>a, <2>4 DEF PipeInv, AnswerInv
  <2>7. worker'.active = Nobody /\ worker'.protocol.active = {}
    BY <1>4 DEF Exit, NoWorker, FreshWorker, Ready
  <2>8. PlaceInv'
    BY <1>a, <2>4, <2>7 DEF PipeInv, PlaceInv
  <2>. QED
    BY <2>5, <2>6, <2>8 DEF PipeInv
<1>. QED
  BY <1>1, <1>2, <1>3, <1>4 DEF WorkerReads, message

(* What the process does of its own.                                         *)
LEMMA WorkingKeepsPipes ==
  ASSUME TypeOK, PipeInv, WorkerStep PROVE PipeInv'
<1>a. /\ worker.state = "alive" /\ UNCHANGED <<protocol, transcription>>
      /\ worker \in Workers /\ fromWorker \in Seq(FromWorker)
      /\ worker.protocol \in Protocols
      /\ worker.active \in Transcriptions \cup {Nobody}
  BY PartsOfTypeOK
     DEF WorkerStep, WorkerReads, InferenceFinished, RequestDeadline,
         ShutdownDeadline, Crash, supervisor, pending, ProcessTypeOK, Workers
<1>1. CASE WorkerReads
  BY <1>1, ReadingKeepsPipes
<1>2. ASSUME NEW messages \in Seq(FromWorker), Exit(messages),
             Len(messages) \in Nat,
             \A j \in 1..Len(messages) :
               messages[j].kind \in Answers =>
                 j = 1 /\ messages[1].request = worker.active
      PROVE  PipeInv'
  <2>1. /\ Asked' = {} /\ toWorker' = <<>>
        /\ \A i \in Answered' :
             \/ i \in Answered /\ fromWorker'[i] = fromWorker[i]
             \/ /\ i = Len(fromWorker) + 1 /\ fromWorker'[i] = messages[1]
                /\ messages[1].request = worker.active
                /\ worker.active # Nobody
    BY <1>2, LastWords
  <2>2. AskInv'
    BY <2>1 DEF AskInv
  <2>3. AnswerInv'
    <3>1. worker.active # Nobody =>
            Answered = {} /\ worker.active = transcription
      BY DEF PipeInv, PlaceInv
    <3>2. CASE worker.active = Nobody
      BY <1>a, <2>1, <3>2 DEF PipeInv, AnswerInv
    <3>3. CASE worker.active # Nobody
      BY <1>a, <2>1, <3>1, <3>3 DEF AnswerInv
    <3>. QED
      BY <3>2, <3>3
  <2>4. worker'.active = Nobody /\ worker'.protocol.active = {}
    BY <1>2 DEF Exit, NoWorker, FreshWorker, Ready
  <2>5. PlaceInv'
    BY <1>a, <2>1, <2>4 DEF PipeInv, PlaceInv
  <2>. QED
    BY <2>2, <2>3, <2>5 DEF PipeInv
<1>3. ASSUME NEW kind \in WorkerKinds, NEW r \in Requests
      PROVE  /\ Message(kind, r) \in FromWorker
             /\ Message(kind, r).kind = kind /\ Message(kind, r).request = r
  BY DEF Message, FromWorker
<1>4. CASE InferenceFinished
  <2>1. PICK kind \in InferenceResults :
          LET message == Message(kind, worker.active)
          IN IF worker.shutdownRequested
             THEN Exit(<<message, Message("shutdownComplete", Nobody)>>)
             ELSE /\ Emit([worker EXCEPT !.active = Nobody], message)
                  /\ UNCHANGED toWorker
    BY <1>4 DEF InferenceFinished
  <2>2. /\ kind \in WorkerKinds /\ kind \in Answers /\ kind \notin Fatal
        /\ kind # "shutdownComplete" /\ kind # "healthResult"
        /\ worker.active \in Requests /\ worker.active # Nobody
    BY <1>a, <1>4 DEF InferenceFinished, InferenceResults, WorkerKinds, Answers,
                      Fatal, Requests
  <2>. DEFINE message == Message(kind, worker.active)
              done == Message("shutdownComplete", Nobody)
  <2>3. /\ message \in FromWorker /\ message.kind = kind
        /\ message.request = worker.active
    BY <1>3, <2>2
  <2>4. /\ done \in FromWorker /\ done.kind = "shutdownComplete"
        /\ done.kind \notin Answers
    BY DEF WorkerKinds, Requests, Message, FromWorker, Answers
  <2>5. CASE worker.shutdownRequested
    <3>1. Exit(<<message, done>>)
      BY <2>1, <2>5
    <3>. HIDE DEF message, done
    <3>. DEFINE messages == <<message, done>>
    <3>2. /\ messages \in Seq(FromWorker) /\ Len(messages) = 2
          /\ messages[1] = message /\ messages[2] = done
      BY <2>3, <2>4
    <3>. HIDE DEF messages
    <3>3. \A j \in 1..Len(messages) :
            messages[j].kind \in Answers =>
              j = 1 /\ messages[1].request = worker.active
      <4>1. \A j \in 1..2 : j = 1 \/ j = 2
        OBVIOUS
      <4>. QED
        BY <2>3, <2>4, <3>2, <4>1
    <3>. QED
      BY <1>2, <3>1, <3>2, <3>3 DEF messages
  <2>6. CASE ~worker.shutdownRequested
    <3>1. /\ Emit([worker EXCEPT !.active = Nobody], message)
          /\ UNCHANGED toWorker
      BY <2>1, <2>6
    <3>2. /\ worker'.active = Nobody
          /\ worker'.protocol.active = worker.protocol.active \ {worker.active}
      BY <1>a, <2>2, <2>3, <3>1 DEF Emit, AfterWorker, Workers, Protocols
    <3>. HIDE DEF message
    <3>3. Answered = {} /\ Asked = {} /\ worker.active = transcription
      BY <2>2 DEF PipeInv, PlaceInv
    <3>4. fromWorker' = Append(fromWorker, message)
      BY <3>1 DEF Emit
    <3>5. /\ Answered' = {Len(fromWorker) + 1}
          /\ fromWorker'[Len(fromWorker) + 1] = message
      BY <2>2, <2>3, <3>3, <3>4, AnsweringMore
    <3>6. AnswerInv'
      BY <1>a, <2>3, <3>3, <3>5 DEF AnswerInv
    <3>7. Asked' = {} /\ AskInv'
      BY <1>a, <3>1, <3>3 DEF Asked, PipeInv, AskInv
    <3>8. PlaceInv'
      BY <1>a, <3>2, <3>7 DEF PipeInv, PlaceInv
    <3>. QED
      BY <3>6, <3>7, <3>8 DEF PipeInv
  <2>. QED
    BY <2>5, <2>6
<1>5. CASE RequestDeadline
  <2>1. /\ worker'.active = worker.active /\ worker'.state = worker.state
        /\ worker'.protocol = worker.protocol
        /\ UNCHANGED <<toWorker, fromWorker>>
    BY <1>a, <1>5 DEF RequestDeadline, Workers
  <2>2. Asked' = Asked /\ Answered' = Answered /\ AskInv' /\ AnswerInv'
    BY <1>a, <2>1 DEF Asked, Answered, PipeInv, AskInv, AnswerInv
  <2>. QED
    BY <1>a, <2>1, <2>2 DEF PipeInv, PlaceInv
<1>6. CASE ShutdownDeadline
  <2>. DEFINE message == Message("graceElapsed", worker.active)
  <2>1. message \in FromWorker /\ message.request = worker.active
    BY <1>a, <1>3 DEF WorkerKinds, Answers, Requests
  <2>2. Exit(<<message>>)
    BY <1>6 DEF ShutdownDeadline
  <2>. HIDE DEF message
  <2>. DEFINE messages == <<message>>
  <2>3. /\ messages \in Seq(FromWorker) /\ Len(messages) = 1
        /\ \A j \in 1..Len(messages) : j = 1 /\ messages[1] = message
    BY <2>1
  <2>. HIDE DEF messages
  <2>. QED
    BY <1>2, <2>1, <2>2, <2>3 DEF messages
<1>7. CASE Crash
  <2>. DEFINE messages == <<>>
  <2>1. Exit(messages)
    BY <1>7 DEF Crash
  <2>2. /\ messages \in Seq(FromWorker) /\ Len(messages) = 0
        /\ Len(messages) \in Nat
    OBVIOUS
  <2>. HIDE DEF messages
  <2>3. \A j \in 1..Len(messages) :
          messages[j].kind \in Answers =>
            j = 1 /\ messages[1].request = worker.active
    BY <2>2
  <2>. QED
    BY <1>2, <2>1, <2>2, <2>3
<1>. QED
  BY <1>1, <1>4, <1>5, <1>6, <1>7 DEF WorkerStep

(* Every step keeps the request in one place.                                *)
LEMMA StepKeepsPipes ==
  ASSUME TypeOK, PipeInv, [Next]_vars PROVE PipeInv'
<1>1. CASE UNCHANGED <<transcription, process>>
  BY <1>1 DEF process, PipeInv, AskInv, AnswerInv, PlaceInv, Asked, Answered
<1>2. CASE Stop
  BY <1>2, TerminatingEmptiesPipes DEF Stop
<1>3. CASE Disconnected
  BY <1>3, FailingEmptiesPipes DEF Disconnected
<1>4. CASE \/ \E c \in Commands : Submit(c)
           \/ DropAdapter \/ Drained \/ NothingExpires \/ NoCommand
           \/ Stopped \/ UNCHANGED vars
  BY <1>1, <1>4 DEF Submit, DropAdapter, Drained, NothingExpires, NoCommand,
     Stopped, vars, pending
<1>. QED
  BY <1>2, <1>3, <1>4, DrainingKeepsPipes, SupervisingKeepsPipes,
     WorkingKeepsPipes DEF Next, SupervisorStep

(* So the request is in one place in every state. *)
LEMMA RequestIsInOnePlace == Spec => []PipeInv
<1>1. Init => PipeInv
  <2>. SUFFICES ASSUME Init PROVE PipeInv
    OBVIOUS
  <2>1. Asked = {} /\ Answered = {} /\ Len(toWorker) = 0
    BY DEF Init, Asked, Answered
  <2>. QED
    BY <2>1 DEF Init, PipeInv, AskInv, AnswerInv, PlaceInv, Ready, NoWorker,
       FreshWorker
<1>. QED
  BY <1>1, StepKeepsPipes, TypeCorrect, PTL DEF Spec

(* The worker accepts a cancel only for the request it works on, as the      *)
(* expect in its Cancel arm says.                                            *)
THEOREM CancelFindsItsRequestHolds == Spec => []CancelFindsItsRequest
<1>1. PipeInv => CancelFindsItsRequest
  BY DEF PipeInv, PlaceInv, CancelFindsItsRequest
<1>. QED
  BY <1>1, RequestIsInOnePlace, PTL

-----------------------------------------------------------------------------
(* What the invariants give *)

(* A copy of a recording outlives its request only when that is reported.    *)
LEMMA GrantStaysReported ==
  ASSUME TypeOK, CommandInv, GrantIsReported, [Next]_vars
  PROVE  GrantIsReported'
<1>a. /\ AnswersStay /\ "cleanup" \in Outcomes /\ grants \subseteq Commands
      /\ transcription \in Transcriptions \cup {Nobody}
      /\ Nobody \notin grants
  BY StepSettles, CommandsAreDistinct DEF Outcomes, TypeOK, Commands
<1>b. \A t \in grants : answer[t] = "cleanup" => answer'[t] = "cleanup"
  BY <1>a DEF AnswersStay
<1>1. ASSUME pc # "stopped", grants' \subseteq grants,
             \/ transcription' = transcription
             \/ transcription \in grants' => answer'[transcription] = "cleanup"
      PROVE  GrantIsReported'
  BY <1>b, <1>1 DEF GrantIsReported
<1>2. CASE pc' = "stopped"
  BY <1>2 DEF GrantIsReported
<1>3. ASSUME NEW o \in Outcomes, NEW also \in SUBSET Commands,
             FailProcess(o, also), pc # "stopped"
      PROVE  GrantIsReported'
  BY <1>1, <1>3, FailAllDoes DEF FailProcess
<1>o. /\ "failed" \in Outcomes /\ "timeout" \in Outcomes /\ "ok" \in Outcomes
      /\ {} \in SUBSET Commands
  BY DEF Outcomes
<1>4. CASE DrainMessage
  <2>. DEFINE message == Head(fromWorker)
              legal == message # Eof /\ WorkerMay(protocol, message)
  <2>a. pc # "stopped"
    BY <1>4 DEF DrainMessage
  <2>1. CASE CompleteHealth(message)
    BY <1>1, <2>a, <2>1 DEF CompleteHealth
  <2>2. ASSUME NEW o \in Outcomes, NEW co \in Outcomes,
               EndTranscription(o, co), transcription # Nobody
        PROVE  GrantIsReported'
    BY <1>1, <2>a, <2>2, EndTranscriptionDoes
  <2>3. legal /\ message.kind \in Answers => message.request # Nobody
    BY CommandsAreDistinct DEF WorkerMay, TypeOK, Protocols, Commands
  <2>4. CASE legal /\ CompleteTranscription(message)
    BY <1>o, <2>2, <2>3, <2>4
       DEF CompleteTranscription, TranscriptFits, Answers
  <2>5. CASE legal /\ CompleteCancelled(message)
    <3>1. (IF reason = "none" THEN "cancelled" ELSE reason) \in Outcomes
      BY DEF TypeOK, Outcomes
    <3>. QED
      BY <1>o, <2>2, <2>3, <2>5, <3>1 DEF CompleteCancelled, Answers
  <2>6. CASE legal /\ CompleteError(message)
    <3>. DEFINE mapped == IF message.kind = "timedOut" THEN "timeout"
                          ELSE "failed"
    <3>1. mapped \in Outcomes
          /\ (IF reason = "none" THEN mapped ELSE reason) \in Outcomes
      BY DEF TypeOK, Outcomes
    <3>2. EndTranscription(IF reason = "none" THEN mapped ELSE reason, mapped)
          /\ transcription # Nobody
      BY <2>3, <2>6 DEF CompleteError, Answers
    <3>. HIDE DEF mapped
    <3>. QED
      BY <2>2, <3>1, <3>2
  <2>7. CASE CompleteShutdown(message)
    <3>1. /\ grants' \subseteq grants /\ transcription' = Nobody
          /\ \/ transcription \notin grants'
             \/ /\ transcription # Nobody
                /\ answer' = [c \in Commands |->
                                IF c \in {transcription, canceller}
                                THEN "cleanup"
                                ELSE Complete({shutdown}, "ok")[c]]
      BY <1>a, <2>7 DEF CompleteShutdown, Revoked, RevokeFails
    <3>2. transcription \in grants' => answer'[transcription] = "cleanup"
      BY <1>a, <3>1
    <3>. QED
      BY <1>1, <2>a, <3>1, <3>2
  <2>. QED
    BY <1>3, <1>4, <1>o, <2>1, <2>4, <2>5, <2>6, <2>7 DEF DrainMessage
<1>5. CASE DeadlineExpires
  BY <1>1, <1>3, <1>5, <1>o DEF DeadlineExpires, HealthExpires, RequestExpires,
     CancelExpires, ShutdownExpires
<1>6. ASSUME NEW c \in Commands, StartHealth(c) \/ StartTranscription(c)
      PROVE  GrantIsReported'
  <2>1. pc # "stopped" /\ {c} \in SUBSET Commands
    BY <1>6 DEF StartHealth, StartTranscription, Take
  <2>2. CASE grants' = grants /\ transcription' = transcription
    BY <1>1, <2>1, <2>2
  <2>3. CASE FailProcess("failed", {c})
    BY <1>3, <1>o, <2>1, <2>3
  <2>4. CASE /\ Answer(c, "cleanup") /\ grants' \in {grants, grants \cup {c}}
             /\ UNCHANGED pending
    <3>1. answer'[c] = "cleanup" /\ transcription' = transcription
      BY <2>4 DEF Answer, TypeOK, pending
    <3>. QED
      BY <1>b, <2>1, <2>4, <3>1 DEF GrantIsReported
  <2>5. CASE transcription' = c /\ grants' = grants \cup {c} /\ Idle
    BY <1>a, <1>b, <2>1, <2>5 DEF GrantIsReported, Idle
  <2>. QED
    BY <1>6, <2>2, <2>3, <2>4, <2>5
       DEF StartHealth, StartTranscription, Return, pending
<1>7. ASSUME NEW c \in Commands, CancelTranscription(c) \/ StartShutdown(c)
      PROVE  GrantIsReported'
  <2>1. pc # "stopped" /\ {c} \in SUBSET Commands
    BY <1>7 DEF CancelTranscription, StartShutdown, Take
  <2>2. CASE grants' = grants /\ transcription' = transcription
    BY <1>1, <2>1, <2>2
  <2>3. CASE FailProcess("failed", {c})
    BY <1>3, <1>o, <2>1, <2>3
  <2>. QED
    BY <1>7, <2>2, <2>3 DEF CancelTranscription, StartShutdown, Return, pending
<1>8. CASE WorkerStep
  <2>1. UNCHANGED <<pc, grants, transcription>>
    BY <1>8 DEF WorkerStep, WorkerReads, InferenceFinished, RequestDeadline,
       ShutdownDeadline, Crash, supervisor, pending
  <2>. QED
    BY <1>b, <2>1 DEF GrantIsReported
<1>9. CASE \/ \E c \in Commands : Submit(c)
           \/ DropAdapter \/ Drained \/ NothingExpires \/ NoCommand
           \/ Stopped \/ UNCHANGED vars
  <2>1. /\ UNCHANGED <<grants, transcription>>
        /\ pc = "stopped" => pc' = "stopped"
    BY <1>9 DEF Submit, DropAdapter, Drained, NothingExpires, NoCommand,
       Stopped, vars, pending
  <2>. QED
    BY <1>b, <2>1 DEF GrantIsReported
<1>10. CASE Stop \/ Disconnected
  BY <1>2, <1>10 DEF Stop, Disconnected
<1>. QED
  BY <1>4, <1>5, <1>6, <1>7, <1>8, <1>9, <1>10
     DEF Next, SupervisorStep, HandleCommand

(* Nothing is under way for nobody: every unanswered command, every request  *)
(* in the worker and every granted copy of a recording has the slot of the   *)
(* supervisor that will answer, await or remove it.                          *)
THEOREM WorkIsAccountedForHolds == Spec => []WorkIsAccountedFor
<1>1. TypeOK /\ CommandInv => UnansweredIsHeld
  BY SlotsDiffer DEF CommandInv, Held, UnansweredIsHeld
<1>2. TypeOK /\ PipeInv => WorkIsAwaited
  <2>. SUFFICES ASSUME TypeOK, PipeInv PROVE WorkIsAwaited
    OBVIOUS
  <2>1. toWorker \in Seq(ToWorker)
    BY PartsOfTypeOK DEF ProcessTypeOK
  <2>2. \A i \in DOMAIN toWorker :
          toWorker[i].kind = "transcribe" => i \in Asked
    BY <2>1 DEF Asked
  <2>. QED
    BY <2>2 DEF PipeInv, PlaceInv, AskInv, WorkIsAwaited
<1>3. Init => GrantIsReported
  BY DEF Init, GrantIsReported
<1>4. Spec => []GrantIsReported
  BY <1>3, GrantStaysReported, TypeCorrect, CommandsAreHeld, PTL DEF Spec
<1>5. UnansweredIsHeld /\ WorkIsAwaited /\ GrantIsReported
        => WorkIsAccountedFor
  BY DEF WorkIsAccountedFor
<1>. QED
  BY <1>1, <1>2, <1>4, <1>5, TypeCorrect, CommandsAreHeld, RequestIsInOnePlace,
     PTL

(* A cancel is confirmed only when its request has ended.                    *)
LEMMA ConfirmedHasEnded ==
  ASSUME TypeOK, CommandInv, PipeInv, Next, NEW c \in Cancels,
         answer[c] = "sent", answer'[c] = "ok"
  PROVE  /\ transcription' # target[c]
         /\ worker'.state = "alive" => worker'.active # target[c]
<1>a. /\ answer \in [Commands -> {"unsent", "sent"} \cup Outcomes]
      /\ transcription \in Transcriptions \cup {Nobody}
      /\ canceller \in Cancels \cup {Nobody}
      /\ health \in HealthChecks \cup {Nobody}
      /\ shutdown \in Releases \cup Closes \cup {Nobody}
      /\ c \in Commands /\ c # Nobody
      /\ c \notin HealthChecks \cup Transcriptions \cup Releases \cup Closes
      /\ target[c] # Nobody
  BY CommandsAreDistinct DEF TypeOK, Commands, CommandInv
<1>b. worker.active \in {Nobody, transcription}
  BY DEF PipeInv, PlaceInv
<1>1. ASSUME NEW o \in {"failed", "timeout"}, NEW also \in SUBSET Commands,
             FailProcess(o, also)
      PROVE  FALSE
  <2>1. answer'[c] \in {answer[c], o, "cleanup"}
    BY <1>1, FailAllDoes, <1>a DEF FailProcess, Outcomes
  <2>. QED
    BY <2>1
<1>3. ASSUME UNCHANGED answer PROVE FALSE
  BY <1>3
<1>4. ASSUME NEW d \in Commands, NEW o, Answer(d, o), o # "ok" \/ d # c
      PROVE  FALSE
  BY <1>4, <1>a DEF Answer
<1>5. CASE DrainMessage
  <2>. DEFINE message == Head(fromWorker)
              legal == message # Eof /\ WorkerMay(protocol, message)
  <2>1. CASE CompleteHealth(message)
    BY <2>1, <1>a, <1>4 DEF CompleteHealth, Commands
  <2>2. legal /\ message.kind \in Answers => message.request # Nobody
    BY CommandsAreDistinct DEF WorkerMay, TypeOK, Protocols, Commands
  <2>3. ASSUME NEW o \in Outcomes, NEW co \in Outcomes,
               EndTranscription(o, co), transcription # Nobody
        PROVE  c = canceller /\ co = "ok" /\ transcription' = Nobody
    BY <2>3, <1>a, EndTranscriptionDoes
  <2>4. CASE legal /\ CompleteTranscription(message)
    <3>1. transcription # Nobody /\ canceller = Nobody
          /\ EndTranscription("ok", "ok")
      BY <2>2, <2>4 DEF CompleteTranscription, TranscriptFits, Answers
    <3>2. c = canceller
      BY <2>3, <3>1 DEF Outcomes
    <3>. QED
      BY <1>a, <3>1, <3>2
  <2>5. CASE /\ legal /\ CompleteCancelled(message) /\ Observed(message)
             /\ fromWorker # <<>>
    <3>1. (IF reason = "none" THEN "cancelled" ELSE reason) \in Outcomes
      BY DEF TypeOK, Outcomes
    <3>2. /\ transcription # Nobody /\ message.request = transcription
          /\ message.kind \in Answers
          /\ EndTranscription(IF reason = "none" THEN "cancelled" ELSE reason,
                              "ok")
          /\ UNCHANGED worker
      BY <2>2, <2>5 DEF CompleteCancelled, Answers
    <3>3. transcription' = Nobody
      BY <2>3, <3>1, <3>2 DEF Outcomes
    <3>4. 1 \in Answered
      BY <2>5, <3>2, TakingOne DEF Observed
    <3>5. worker.active = Nobody
      BY <3>4 DEF PipeInv, PlaceInv
    <3>. QED
      BY <1>a, <3>2, <3>3, <3>5
  <2>6. CASE legal /\ CompleteError(message)
    <3>. DEFINE mapped == IF message.kind = "timedOut" THEN "timeout"
                          ELSE "failed"
    <3>1. mapped \in Outcomes /\ mapped # "ok"
          /\ (IF reason = "none" THEN mapped ELSE reason) \in Outcomes
      BY DEF TypeOK, Outcomes
    <3>2. EndTranscription(IF reason = "none" THEN mapped ELSE reason, mapped)
          /\ transcription # Nobody
      BY <2>2, <2>6 DEF CompleteError, Answers
    <3>. HIDE DEF mapped
    <3>. QED
      BY <2>3, <3>1, <3>2
  <2>7. CASE CompleteShutdown(message)
    <3>1. transcription' = Nobody /\ worker' = NoWorker
      BY <2>7 DEF CompleteShutdown, Terminate
    <3>2. worker'.state # "alive"
      BY <3>1 DEF NoWorker, FreshWorker
    <3>. QED
      BY <1>a, <3>1, <3>2
  <2>. QED
    BY <1>1, <1>5, <2>1, <2>4, <2>5, <2>6, <2>7 DEF DrainMessage
<1>6. CASE DeadlineExpires
  BY <1>1, <1>3, <1>6 DEF DeadlineExpires, HealthExpires, RequestExpires,
     CancelExpires, ShutdownExpires, client
<1>7. ASSUME NEW d \in Commands, StartHealth(d) \/ StartTranscription(d)
      PROVE  FALSE
  BY <1>1, <1>3, <1>4, <1>7 DEF StartHealth, StartTranscription, Return
<1>8. ASSUME NEW d \in Commands, CancelTranscription(d)
      PROVE  /\ transcription' # target[c]
             /\ worker'.state = "alive" => worker'.active # target[c]
  <2>1. CASE /\ ~(transcription # Nobody /\ transcription = target[d])
             /\ Return(d, "ok")
    <3>1. d = c
      BY <1>4, <2>1 DEF Return
    <3>2. UNCHANGED <<transcription, worker>>
      BY <2>1 DEF Return, pending, process
    <3>. QED
      BY <1>a, <1>b, <2>1, <3>1, <3>2
  <2>. QED
    BY <1>1, <1>3, <1>4, <1>8, <2>1 DEF CancelTranscription, Return, AwaitCancel
<1>9. ASSUME NEW d \in Commands, StartShutdown(d)
      PROVE  FALSE
  BY <1>1, <1>3, <1>4, <1>9, <1>a DEF StartShutdown, Return, Complete
<1>10. CASE Disconnected
  BY <1>1, <1>10 DEF Disconnected
<1>11. CASE WorkerStep
  BY <1>3, <1>11 DEF WorkerStep, WorkerReads, InferenceFinished,
     RequestDeadline, ShutdownDeadline, Crash, supervisor, client
<1>12. ASSUME NEW d \in Commands, Submit(d) PROVE FALSE
  BY <1>12, <1>a DEF Submit
<1>13. CASE DropAdapter \/ Drained \/ NothingExpires \/ NoCommand \/ Stop
            \/ Stopped
  BY <1>3, <1>13 DEF DropAdapter, Drained, NothingExpires, NoCommand, Stop,
     Stopped, vars, client
<1>. QED
  BY <1>5, <1>6, <1>7, <1>8, <1>9, <1>10, <1>11, <1>12, <1>13
     DEF Next, SupervisorStep, HandleCommand

(* A cancel that is confirmed has ended its request: the supervisor does not *)
(* wait for it any more and the worker does not work on it.                  *)
THEOREM CancelConfirmedHolds == Spec => CancelConfirmed
<1>1. ASSUME TypeOK, CommandInv, PipeInv, [Next]_vars
      PROVE  [\A c \in Cancels :
                answer[c] = "sent" /\ answer'[c] = "ok" =>
                  /\ transcription' # target[c]
                  /\ worker'.state = "alive" => worker'.active # target[c]]_vars
  BY <1>1, ConfirmedHasEnded
<1>. QED
  BY <1>1, TypeCorrect, CommandsAreHeld, RequestIsInOnePlace, PTL
     DEF Spec, CancelConfirmed
=============================================================================
