------------------------------ MODULE EngineHost ------------------------------
(***************************************************************************)
(* The ASR worker process from the inside: the loop that reads messages,   *)
(* the thread of an inference, and the two engines behind the composite,   *)
(* whose mutex is held for as long as an engine works.  An engine keeps    *)
(* its model in memory until the other one is wanted or nobody has used it *)
(* for a while.  A health check loads the model on the loop itself.        *)
(***************************************************************************)
EXTENDS ModelPackage, Sequences

CONSTANTS NoEngine

ASSUME HostAssumption == NoEngine \notin Engines

VARIABLES
  host,       \* the loop: what it does, for which engine, and which engines have a model
  inbox,      \* messages of the supervisor, in order
  outbox,     \* messages to it
  inference,  \* the request of the loop, where its thread is, and whether it is cancelled
  lock,       \* active_engine: the holder of the mutex
  active,     \* active_engine: the engine used last
  memory      \* of each engine: whether its model is in memory, and in_flight

hostVars == <<host, inbox, outbox, inference, lock, active, memory>>

HostMessage(kind, engine) == [kind |-> kind, engine |-> engine]
Inputs == [kind : {"hello", "health", "transcribe", "cancel"}, engine : Engines \cup {NoEngine}]
Outputs == {"ready", "healthy", "unfit", "answer", "cancelled"}

NoHost == [at |-> "gone", engine |-> NoEngine, has |-> {}]
NoInference == [at |-> "none", engine |-> NoEngine, cancelled |-> FALSE]
Unloaded == [resident |-> FALSE, inFlight |-> 0]

HostTypeOK ==
  /\ host \in [at : {"gone", "new", "idle", "health", "load"},
               engine : Engines \cup {NoEngine}, has : SUBSET Engines]
  /\ inbox \in Seq(Inputs) /\ outbox \in Seq(Outputs)
  /\ inference \in [at : {"none", "enter", "load", "lease", "run", "done", "lost"},
                    engine : Engines \cup {NoEngine}, cancelled : BOOLEAN]
  /\ lock \in {"free", "loop", "inference"} /\ active \in Engines \cup {NoEngine}
  /\ memory \in [Engines -> [resident : BOOLEAN, inFlight : 0..1]]

HostInit ==
  /\ host = NoHost /\ inbox = <<>> /\ outbox = <<>> /\ inference = NoInference
  /\ lock = "free" /\ active = NoEngine /\ memory = [e \in Engines |-> Unloaded]

(* What the process has written can still be read. *)
HostGone ==
  /\ host' = NoHost /\ inbox' = <<>> /\ inference' = NoInference
  /\ lock' = "free" /\ active' = NoEngine /\ memory' = [e \in Engines |-> Unloaded]

(* parse_args *)
Arguments(has) == host' = [NoHost EXCEPT !.at = "new", !.has = has]

(* select_backend: an engine without a model among the arguments has none. *)
HasBackend(e) == e \in host.has

(* apply_shared_root: the process looks at its folders and models itself,  *)
(* which may have changed since.                                           *)
RefuseArguments == host.at = "new" /\ HostGone /\ UNCHANGED outbox

-----------------------------------------------------------------------------
Reads(kind) == inbox # <<>> /\ Head(inbox).kind = kind /\ inbox' = Tail(inbox)
Emit(output) == outbox' = Append(outbox, output)

ReadHello ==
  /\ host.at = "new" /\ Reads("hello") /\ Emit("ready")
  /\ host' = [host EXCEPT !.at = "idle"]
  /\ UNCHANGED <<inference, lock, active, memory>>

ReadHealthCheck ==
  /\ host.at = "idle" /\ Reads("health")
  /\ LET e == Head(inbox).engine IN
       IF HasBackend(e)
       THEN host' = [host EXCEPT !.at = "health", !.engine = e] /\ UNCHANGED outbox
       ELSE Emit("unfit") /\ UNCHANGED host
  /\ UNCHANGED <<inference, lock, active, memory>>

(* with_backend, as far as the work of the engine: as Engaged, but the     *)
(* engine used before keeps its model.                                     *)
EngagedKeeping(holder, e) ==
  /\ lock = "free" /\ lock' = holder /\ active' = e
  /\ UNCHANGED memory

(* unload_now: not under a lease. *)
Unload(e) == IF memory[e].inFlight = 0 THEN Unloaded ELSE memory[e]

(* with_backend, as far as the work of the engine: it waits for the mutex, *)
(* and unloads the engine used before if that is another one.              *)
Engaged(holder, e) ==
  /\ lock = "free" /\ lock' = holder /\ active' = e
  /\ memory' = IF active \in Engines \ {e} THEN [memory EXCEPT ![active] = Unload(active)] ELSE memory

EnterHealthCheck ==
  /\ host.at = "health" /\ Engaged("loop", host.engine)
  /\ host' = [host EXCEPT !.at = "load"]
  /\ UNCHANGED <<inbox, outbox, inference>>

(* ensure_loaded.  A model in memory needs no file; the check of a missing *)
(* one fails before, and loading may fail.                                 *)
EnsureLoaded(e, result) ==
  \/ result = "ok" /\ memory' = [memory EXCEPT ![e].resident = TRUE]
  \/ result = "failed" /\ ~memory[e].resident /\ UNCHANGED memory

LoadForHealthCheck ==
  /\ host.at = "load"
  /\ \/ EnsureLoaded(host.engine, "ok") /\ Emit("healthy")
     \/ EnsureLoaded(host.engine, "failed") /\ Emit("unfit")
     \/ UNCHANGED memory /\ Emit("unfit")                 \* its files are not there
  /\ lock' = "free" /\ host' = [host EXCEPT !.at = "idle", !.engine = NoEngine]
  /\ UNCHANGED <<inbox, inference, active>>

-----------------------------------------------------------------------------
(* A request that is refused at once is answered at once: busy, without a  *)
(* recording, or for an engine without a backend.                          *)
ReadTranscribe(readable) ==
  /\ host.at = "idle" /\ Reads("transcribe")
  /\ LET e == Head(inbox).engine IN
       IF inference = NoInference /\ readable /\ HasBackend(e)
       THEN inference' = [at |-> "enter", engine |-> e, cancelled |-> FALSE] /\ UNCHANGED outbox
       ELSE Emit("answer") /\ UNCHANGED inference
  /\ UNCHANGED <<host, lock, active, memory>>

(* A cancel for a request that has been answered breaks the protocol, and  *)
(* the process ends.                                                       *)
ReadCancel ==
  /\ host.at = "idle" /\ inbox # <<>> /\ Head(inbox).kind = "cancel"
  /\ IF inference = NoInference THEN HostGone
     ELSE /\ inbox' = Tail(inbox) /\ inference' = [inference EXCEPT !.cancelled = TRUE]
          /\ UNCHANGED <<host, lock, active, memory>>
  /\ UNCHANGED outbox

(* The thread of the inference gives up, with the mutex. *)
GivesUp == inference' = [inference EXCEPT !.at = "done"] /\ lock' = "free"

EnterInference ==
  /\ inference.at = "enter" /\ Engaged("inference", inference.engine)
  /\ inference' = [inference EXCEPT !.at = "load"]
  /\ UNCHANGED <<host, inbox, outbox>>

(* acquire_model loads, lets go of the engine's state, and takes it again  *)
(* for its lease.  A cancelled request or a bad recording ends here.       *)
LoadForInference ==
  /\ inference.at = "load"
  /\ \/ GivesUp /\ UNCHANGED memory
     \/ EnsureLoaded(inference.engine, "failed") /\ GivesUp
     \/ /\ ~inference.cancelled /\ EnsureLoaded(inference.engine, "ok")
        /\ inference' = [inference EXCEPT !.at = "lease"] /\ UNCHANGED lock
  /\ UNCHANGED <<host, inbox, outbox, active>>

Lease ==
  /\ inference.at = "lease"
  /\ IF memory[inference.engine].resident
     THEN /\ memory' = [memory EXCEPT ![inference.engine].inFlight = 1]
          /\ inference' = [inference EXCEPT !.at = "run"] /\ UNCHANGED lock
     ELSE GivesUp /\ UNCHANGED memory
  /\ UNCHANGED <<host, inbox, outbox, active>>

(* Its lease ends with the engine's work, also when that panics; then      *)
(* nobody tells the loop.                                                  *)
InferenceEnds ==
  /\ inference.at = "run" /\ lock' = "free"
  /\ memory' = [memory EXCEPT ![inference.engine].inFlight = 0]
  /\ \E at \in {"done", "lost"} : inference' = [inference EXCEPT !.at = at]
  /\ UNCHANGED <<host, inbox, outbox, active>>

ReadFinished ==
  /\ host.at = "idle" /\ inference.at = "done" /\ inference' = NoInference
  /\ Emit(IF inference.cancelled THEN "cancelled" ELSE "answer")
  /\ UNCHANGED <<host, inbox, lock, active, memory>>

(* unload_if_idle, of the engine's reaper: nobody has used the model for a *)
(* while.                                                                  *)
Reap(e) ==
  /\ memory[e].resident /\ memory[e].inFlight = 0
  /\ memory' = [memory EXCEPT ![e] = Unloaded]
  /\ UNCHANGED <<host, inbox, outbox, inference, lock, active>>

(* Native code aborts, or the system ends the process. *)
HostCrashes == host.at # "gone" /\ HostGone /\ UNCHANGED outbox

HostStep ==
  \/ RefuseArguments \/ ReadHello \/ ReadHealthCheck \/ EnterHealthCheck \/ LoadForHealthCheck
  \/ ReadCancel \/ EnterInference \/ LoadForInference \/ Lease \/ InferenceEnds \/ ReadFinished
  \/ \E e \in Engines : Reap(e)
  \/ HostCrashes

=============================================================================
