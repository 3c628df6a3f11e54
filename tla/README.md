# RemTene: specifications, model checking and proofs

RemTene is a desktop dictation program: a shortcut starts a recording, a second
one ends it, a local worker process transcribes it, an LLM may rewrite the text,
and the text is inserted into the program that had the focus or handed over by
the clipboard or a small window.  The recording is deleted afterwards.  These
modules model the parts of the program where that promise is hard to keep: the
orchestrator of sessions, cancels, deadlines and the exit; the supervisor of the
worker process; the audio capture with its ring, files and CoreAudio units; the
delivery of a text into a document that moves; the LLM configuration with its
encrypted key; and the desktop process around them.

Paths below are relative to the repository.  `app/` stands for
`crates/remtene-application/src/`, `adapters/` for `crates/remtene-adapters/src/`,
`platform/` for `crates/remtene-platform/src/`, `desktop/` for
`apps/desktop/src-tauri/src/`.

## 1. The system

### Components

| Component | State | Operations | Talks to | What makes it correct |
|---|---|---|---|---|
| Session and coordinator (`crates/remtene-domain/src/session.rs`, `app/session_coordinator.rs`) | one slot with the active session's phase | create, apply event | called under its mutex by the orchestrator | one session at a time; no event applied out of order |
| Transcription orchestrator (`app/transcription_orchestrator.rs`) | `RuntimeState`: quitting, starting, preparing, active, cleanup debts | start, prepare, finish, cancel, retry of a cleanup, recording limit, quit | every port: audio, ASR, LLM, output, HUD, history, settings | microphone and recording are always owned; cleanup exclusive; an exit is clean |
| Lifecycle fence, operation barrier, exit completion (`app/ports.rs`, orchestrator) | open/closed, number of commits and of operations, one exit attempt with its waiters | begin commit, invalidate, drain; enter, close, drain; lead, follow | orchestrator, output adapter, quit | no irreversible write begins after the exit invalidated its session; every caller of quit is answered, and truthfully |
| Recording deadline (`desktop/recording_deadline.rs`) | one timer per recording | schedule, drop, expire | orchestrator | a recording past its limit ends |
| ASR supervisor (`adapters/asr_worker.rs`) | command channel, four pending slots, deadlines, worker process, audio grants | transcribe, cancel, health, release, shutdown | worker process by two pipes | every command answered once; no transcript after a cancel; no grant left |
| ASR worker (`crates/remtene-asr-worker/src/`) | active request, models in memory, deadline threads | event loop, inference, health check, unloading | supervisor | its guard agrees with its work; one model at a time; a cancel is always read |
| Worker protocol (`crates/remtene-contracts/src/worker.rs`) | lifecycle guard of both ends | observe a message | supervisor, worker | a message out of order is refused |
| Safe audio capture (`platform/audio.rs`) | registry of captures, artifacts, orphans | start, finish, cancel, cleanup | backend, writer, file system; called by the orchestrator | every file and every CoreAudio unit has an owner that will release it |
| CoreAudio backend and WAV writer (`platform/audio/macos_coreaudio.rs`) | ring, callback, writer thread, unit | push, drain, close, cancel, join | device, file | a finished recording is whole; joining ends |
| Delivery of text (orchestrator, `app/text_route.rs`, `adapters/output_adapter.rs`) | where the text is on its routes | insert, paste, show, copy, record | target context, clipboard, temporary text, history | a text lands at most once and is called what it is |
| Target context (`platform/target_context.rs`, `target_context/macos.rs`) | snapshot, short-lived capability | capture, revalidate, read the selection, insert, verify | accessibility of the focused program | "inserted" is read back; "refused" is proven |
| Clipboard bridge (`platform/clipboard/`, `adapters/clipboard_*.rs`) | one transaction, ledger of outcomes | snapshot, stage, paste, verify, restore | system pasteboard and keyboard | the user's clipboard comes back unless somebody else wrote it |
| Temporary text window (`desktop/temporary_text.rs`) | pending text, window | deliver, pull, copy, dismiss | delivery, user | the text can be reached until it is dismissed |
| LLM configuration (`app/llm_configuration_controller.rs`) | settings and key in two stores | set settings, set/delete/reveal/reset key, test | settings store, secret store, provider, configuration gate | a key is only used for the endpoint it was given for |
| Secret store (`adapters/local_encrypted_secret_store.rs`) | SQLite records, key file, copies of both in memory | read, replace, delete, inspect, reset | file system, other processes | no copy outlives its original; no key is lost by accident |
| LLM provider (`adapters/llm.rs`) | registered requests | resolve, process, cancel | secret store, network | a request carries the key of its own route |
| Settings store and controllers (`adapters/file_settings_store.rs`, `app/*_settings_controller.rs`) | versioned snapshot; shortcut, diagnostics | load, replace; every command of the settings page | file system, system services, configuration gate | what is in effect is what the file says |
| History store and controller (`adapters/file_history_store.rs`, `app/history_controller.rs`) | records | save, list, copy, clear, trim | settings, barrier, gate | no record changes after the exit |
| ASR runtime, status, health (`desktop/asr_runtime.rs`, `asr_status.rs`, `app/asr_health_controller.rs`) | the current supervisor, readiness | scan, prepare, replace, probe | supervisor, packages, gate | no session on a supervisor that is being replaced |
| Model registry and manifest, shared data (`platform/model_*.rs`, `asr_shared_data.rs`) | packages on the disk, App Group folder | verify, resolve | runtime, worker | what is launched is what was verified |
| HUD and session feedback (`desktop/recording_hud.rs`, `session_feedback.rs`) | panel with generation, one notice | show, update, hide; raise, act, close | orchestrator, windows | the panel is of the current session; a notice acts once |
| Desktop shell (`desktop/lib.rs`, `shortcuts.rs`) | shutdown flag, registered shortcut | boot, keys, exit and its retry | all | the exit ends once, cleanly |
| Identity migration (`desktop/identity_migration.rs`) | two storage directories | copy, sync, rename, remove | file system | nothing is lost, wherever it stops |

The rest (engines' inference, diagnostics log, permission prompts, cues, menu and
tray, frontend) is named in section 6; `PROJECT.json` lists every component.

### What is hard

* **Interleaving.** The orchestrator's calls are futures.  They share two
  mutexes that are never held across an await; every await is a point where a
  cancel, the recording limit or the exit may change the state that was just read.
* **Partial failure.** Starting and ending a recording take many fallible calls,
  and each early return must leave the microphone and the file owned.  A settings
  command writes a file, changes a system service and takes one back when the
  other fails.
* **The exit.** It takes a session over at any stage, must not race the call it
  took it from, waits for operations and commits to drain, and may fail and be
  asked again.
* **Foreign actors.** The ASR worker may hang, crash or answer late.  The focused
  program applies a paste when it likes, other programs write the clipboard,
  another process writes the key store, and packages change on the disk.
* **Threads.** The audio callback must not block; it shares a ring with the writer
  thread, which is joined under the registry's lock.  The worker's loop must read a
  cancel while an inference holds the models.
* **Crashes.** Recordings, grants, settings, keys and a half-done migration outlive
  the process.

`PROJECT.json` lists these hazards at their lines, with the properties that cover
them.

## 2. The modules

### Orchestrator (with TranscriptionSession) and Exit

`TranscriptionSession` is the domain's phase machine and the coordinator's slot as
operators: `Successor` is the transition table, `Answer` what `apply` returns,
`Applied` what it leaves.

`Orchestrator` has one variable per piece of shared state: `quitting`, `starting`,
`preparing`, `active` and `debts` are the fields of `RuntimeState`; `slot` the
coordinator; `gate` the holder of the configuration gate; `fence` and `commit` the
lifecycle fences; `opsOpen` the barrier; `capture` and `artifact` what the audio
adapter holds; `timer` the deadline.  `start`, `finish`, `cleaner` and `quit` are
program counters of the calls in progress, `heldPreparing`, `heldActive` and
`retrying` the locals of `run_leader_quit`.  A step is one section under a mutex
or one port call with its answer; the actions carry the names of the calls
(`StartPublish`, `FinishRecognize`, `QuitDrainOps`, ...).  The barrier's count of
operations is the number of calls whose counter is neither idle nor done.
Each port call may fail; the failure of HUD, cue and diagnostics calls is left out
where the code ignores it.  Delivery's port calls are one representative commit;
`Delivery` has them all.

`Exit` EXTENDS it by `ExitCompletion`: callers of `quit` become the leader of an
attempt, follow the one that runs, or get the remembered success.  Telling the
result and resetting the state are two sections, as in `complete`; a follower looks
and registers its waker in one.  An attempt is its pointer, reused when nobody
refers to it any more, so that attempts need no bound.

### AsrSupervisor (with AsrProtocol)

`AsrProtocol` is the lifecycle guard of `worker.rs` from Ready on, which each end
keeps separately.  `AsrSupervisor` is the supervisor's thread, the worker process
and the two pipes.  `queue` is the command channel; `health`, `transcription`,
`canceller` and `shutdown` are the pending slots; `answer` is what each command's
future was completed with.  One turn of the loop is three kinds of step: drain a
message, look at the deadlines, take a command.  The worker reads a message,
finishes an inference with any result, reaches a deadline, or crashes, at any time.

### PcmRing and AudioFifo

`PcmRing` is the pipeline of one recording, one access to shared memory per step:
the callback loads the indices, stores samples one by one and publishes; the writer
thread checks for a cancel, loads, copies one by one, advances, and decides whether
the stream has ended; the owner stops the device, looks at the fault, closes, joins
or cancels.  The sequentially consistent order of steps is justified by the
release/acquire pairs on the two indices, which order the relaxed accesses to the
slots.  `AudioFifo` is the abstract specification: accepted samples reach the file
in order and once each, at most `Capacity` of them are on the way, and the file is
completed with every one of them in it.  `PcmRing!ImplementsFifo` is the refinement.

### SafeAudioCapture

The registry with the files and the CoreAudio units it stands for.  Each operation
holds the registry's lock from `Enter` to its return; between, a step is one call of
the backend, the writer or the file system, and each may fail.  `unit` is how far a
CoreAudio unit is set up; a failed stop takes it down by some levels and leaves the
rest.  The device may report a fault whenever it runs.  A crash empties everything
but the files; `Initialize` removes them and refuses to start if it cannot.  An
operation that panics poisons the registry's mutex (`FinalizePanics`), and every
later one is refused (`Refuse`).  `Finalize` follows the trait's contract, by which
a finalize that failed may be retried and succeed.

### Delivery: FocusedTarget, DeliveryCall, TargetContext, ClipboardBridge, TemporaryText, Delivery

Each EXTENDS the one before.  `FocusedTarget` is what the program does not own: the
focus, the captured control, posted shortcuts, the pasteboard with its change
count, and the user, the target and other programs that move them.  A control is
what the accessibility calls tell apart: where its caret is relative to the anchor,
whether its character count is the old one, and whose text is read back at the
anchor.  `landed` counts how often the text has entered a document.

`DeliveryCall` is the chain of calls (`at`, `answer`) with the fence.
`TargetContext` captures, revalidates into a capability that expires, reads the
selected text and inserts: a setter may fail and have written, or succeed and have
not.  `ClipboardBridge` has the three transactions (`bound`, `user`, `selection`)
step by step, with the restore that recognizes its own write by the change count.
`TemporaryText` is the window: text first, window second, pulled or sent, dismissed
in two steps.  `Delivery` is `deliver` itself: its routes, the automatic copy
outside the fence, the record in the history, and a quit at any moment.

### LLM: SettingsStore, SecretStore, LlmProvider, LlmConfiguration

`SettingsStore` is compare-and-set on one file whose rename may be in force and
reported as failed.  `SecretStore` adds the database, the master key file and, per
process, the copies of both in memory; the key file may be lost, damaged or put
back, and another process may write.  `LlmProvider` is a request from its
registration to its answer.  `LlmConfiguration` runs the controller's operations,
one port call per step, beside a session and a connection test, with a crash
between any two steps.  A key is a record of the endpoint it was entered for and of
the `stay` of that endpoint in the settings.

### The desktop: Preferences, LocalAsr, RecordingHud, SessionFeedback, BrandMigration, Desktop

`HistoryStore`, `RecordingShortcut`, `ModelPackage` and `GrantFolder` are the
stores and services; `AsrRuntime` the supervisor of the moment with its models, and
the scan, preparation and launch that decide on them.  `Preferences` has the
controllers: `ops` is the command each one runs, step by step, with the gate, the
barrier and the side effects and rollbacks of each.  `EngineHost` is the worker
from inside (loop, inference thread, composite mutex, models in memory) and
`LocalAsr` the supervisor and worker over the shared folder of grants.
`RecordingHud`, `SessionFeedback` and `BrandMigration` stand alone.

`Desktop` composes them: boot, keys, sessions, exit and death.  These parts meet
only where they share state, so a behaviour exercises one *page*, chosen at its
start (`history`, `shortcut`, `choices`, `engine`, `worker`, `hud`, `notice`,
`start`); the rest stays as the start left it.

### How they fit together

The modules meet at the ports.  `Orchestrator` assumes of the audio adapter that a
cancel or cleanup that returns success has released the microphone or deleted the
file: `SafeAudioCapture!CancelReleases` is that promise, and `ArtifactIsSound` the
one behind the recording a finish hands out.  `SafeAudioCapture` assumes that
finalize and abort return: `PcmRing!JoinReturns`.  `Orchestrator` assumes under its
fairness that a transcription that was cancelled is answered
(`CancelledAsrAnswers`): `AsrSupervisor!CancelEndsTranscription`.  Its one commit
stands for the routes of `Delivery`, where `NothingAfterExit` is the same promise
at every write; its gate is the one that `LlmConfiguration` and `Preferences` take
before they look for active work.  These correspondences are argued here and not
machine-checked.

## 3. The runs

| Run | States | What it shows |
|---|---|---|
| `orchestrator` | about 400,000 | two sessions, all interleavings: the safety properties of sessions and exit |
| `exit` | about 64,000 | one session and two callers of quit under fairness: `EveryQuitReturns`, `LimitEnforced` |
| `orchestrator_race` | violation | finding 1 |
| `orchestrator_stranded` | violation | finding 2 |
| `asr_supervisor` | about 4.5 million | two transcriptions, a health check, a cancel, a release, a shutdown in any order |
| `asr_supervisor_liveness` | about 99,000 | `EveryCommandIsAnswered`, `CancelEndsTranscription` |
| `pcm_ring` | about 18,000 | refinement of `AudioFifo`, complete recordings, joining ends |
| `safe_audio_capture` | about 1.1 million | three sessions, every call failing at will, crashes: ownership of files and units |
| `safe_audio_capture_panic` | violation | finding 3 |
| `delivery` | about 1.4 million | one text on all its routes while the target, the user, another program and a quit act |
| `llm_configuration` | about 2.0 million | two endpoints, every command, a session, a test, a second process, crashes, a damaged key file |
| `desktop` | about 1.3 million | the eight pages of the desktop process, with failures, an exit, and deaths |

**Orchestrator.** `CaptureOwned` and `ArtifactOwnedUnlessRefused`: an open capture
or a finalized recording always has a call, a workflow or a recorded debt that will
release it.  `SingleFlight`: never two sessions with audio or a commit under way.
`CleanupExclusive`: never two calls in the same cancel or cleanup.
`WorkflowIsCoherentUnlessRefused`: a set in-flight flag has a call behind it, a debt
can be paid without leaving the program, and runtime and domain agree outside the
call that moves both.  Two properties end in `UnlessRefused` because the code breaks
them without: a recording may lose its owner to a finish whose event the domain
refuses (`ArtifactOwned`, finding 1), and an in-flight flag its call to a cancel
whose event is refused (`InFlightIsServed`, finding 4).  The second exemption is
`CancelWasRefused`, of the in-flight part only: debts, stages and phases are checked
for refused sessions as for all.  `ExitIsClean`: a successful quit leaves no microphone, recording,
commit or call.  `NoCommitAfterInvalidation`: no irreversible write begins after
the exit invalidated the fence.

**Exit.** `EveryQuitReturns`: each caller is answered, though its waker may be
registered while the result is being told; who is told of a success finds a clean
exit; and no two lead at once.  `LimitEnforced`: an elapsed limit closes the
recording.

**AsrSupervisor.** `WorkIsAccountedFor`: an unanswered command is in the queue or
in exactly one slot, the worker never works for nobody, and a granted copy is gone
when its request is answered, or the answer says it is not.  `NoTextAfterCancel` and
`CancelConfirmed` are action properties about late messages.  That a future is
completed once is not among them: `ResponseSender::complete` consumes the sender.
`CancelFindsItsRequest`: the `expect` in the worker's cancel arm cannot fail.
`ReleaseIsIdle`: releasing idle resources never takes the worker from a request.

**PcmRing.** `FinishedIsComplete`: a recording that is handed out holds everything
the microphone delivered; one that lost a sample is refused.

**SafeAudioCapture.** `FilesAreOwned`, `UnitsAreOwned`: no file and no unit without
a record that will release it, and one orphan at most.  `ArtifactIsSound`: a
registered recording has its file, no microphone and no fault.  `CancelReleases`: a
confirmed cancel left nothing.

**Delivery.** `LandsAtMostOnce`: one document, once, over all routes.
`InsertedIsTrue` and `StatusIsHonest`: "inserted" is in a document; "not inserted"
is in none and no shortcut on its way will change that.  `ClipboardIsSettled`: an
undisturbed transaction gives back what it saved, and one that finds a newer write
does not restore over it.  `NothingAfterExit`: the automatic copy included.

**LlmConfiguration.** `KeyFitsRoute`: a request carries a key that was entered for
its endpoint since the settings last came to it, so that no leftover comes to life.
`SentKeyIsStored`: no copy in memory outlives its original.  `SessionIsUndisturbed`:
no command of this process changes what a running session uses.  `KeysAreKept`: a
key is lost only by what is meant to lose it.

**Desktop.** `HistoryIsStillAfterExit`; `EffectsFollowSettings`: registered
shortcut and diagnostics are those of the file outside a command, unless a failure
was reported that could not be taken back; `SessionIsSettled`: no replacement of
worker or of the settings in `Choices` under a session, and only a healthy engine is
chosen (the switch of the clipboard bridge, an operation of `LlmConfiguration`, is
written under a session too; a session uses what it has loaded);
`InFlightIsWhole`: the recording and the model of a transcription stay, one model
is in memory at a time, and the loop stays free to read a cancel; `NothingIsLost`:
the migration; `PanelFollowsSession`: the panel belongs to the session it shows;
`NoticeActsOnce`: a notice acts once for each time it is raised, and not when it was
dismissed or replaced, whatever becomes of its window and however late its clicks
come.

Every property of a passing run has a mutant in `PROJECT.json`: a definition of the
model changed the way a plausible bug would, under which TLC finds it violated.

### Bounds

* *Sessions.* A session id is used once.  Two make every state the first leaves
  behind, debts and stranded slots included, meet a second start; the properties
  relate at most two sessions.  `safe_audio_capture` has three, so that a capture,
  an artifact and an orphan exist at once.  `exit` has one session, and two callers
  with three attempts: one a follower still refers to, one that runs, one spare.
* *ASR commands.* Two transcriptions make one queue behind the other and behind a
  cancel; one of them is bounded, one not.  The liveness run drops the health check
  and the release, whose answers it need not tell apart from those of a cancel.
* *Ring.* Three slots, batches of one or two, and seven samples wrap the ring twice
  at every offset, with batches that straddle the end.  Indices are naturals: the
  code's wrap at 2^64 samples.
* *Delivery.* One delivery, one move of the user (`MaxMoves`), one foreign write
  (`MaxForeign`).  The routes are sequential and each property is violated by one
  interference; the ledger's eviction at 256 deliveries is not reached.
* *LLM.* Two endpoints to leave and return to, under symmetry; two settings
  versions beyond the first (`MaxVersion`), one key each (`MaxKeys`), two events at
  the key file (`MaxDamage`: lose it and put it back).
* *Desktop.* Two records, limits and revisions; a retention of one day and three
  days, so that a record is younger than it, as old and older; three sessions of the panel (a late
  hide, the current session and the next); three entries to migrate; one death.
  The modifier keys and the notices are symmetric.
* *Time* is not modelled, except days of retention.  An armed deadline may have
  passed at any step after it was armed, which covers every length.

### Assumptions of the environment

* Delivery: the user moves and capabilities expire while the chain still looks at
  the target.  A new recording starts when an earlier paste shortcut has been
  consumed.  A setter whose text is not in the control when it returns never applies
  it later, which is what the ten unchanged polls of `verify_insert` conclude.
* LLM: the digest that names an endpoint's record is injective, fresh keys are new,
  a missing and a malformed key file are one state, and another process enters keys
  for the endpoint in force.
* Desktop: deaths only on the pages where something durable is half done; the
  settings file is absent at the start except on the pages that vary it; health is
  healthy or unfit; a worker whose supervisor died ends by itself; the new data
  directory itself becomes durable with the first sync beneath it.

### Fairness

* *Exit*: every call that has begun is polled, timers fire, callers are polled when
  woken, and every port answers, except two: the permission prompt, which waits for
  a person, and a transcription that was not cancelled, which has no deadline.
  Nothing obliges anyone to start, finish, cancel or quit.
* *AsrSupervisor*: weak fairness of the thread's loop, which polls every few
  milliseconds, and strong fairness of each deadline, since an armed deadline is
  looked at in every turn and passes in the end.  Nothing at all is assumed of the
  worker.
* *PcmRing*: both threads run and the owner joins.  Nobody has to stop a recording.

`CHECK_DEADLOCK` is off for `desktop` only: a page whose exit has completed, or
whose bounded sessions are over, has nothing left to do.

## 4. Findings

Checked by a run:

1. **A finish before PreflightPassed loses the recording** (`orchestrator_race`).
   `start` publishes the active recording before it applies `PreflightPassed`
   (`app/transcription_orchestrator.rs:341-383`).  A finish in between finalizes the
   audio, has its event refused (line 738) and returns an error; the recording is
   neither deleted nor made a debt.  The README promises that the audio is deleted
   after every session.
2. **A start whose HUD update and cancellation both fail strands its session**
   (`orchestrator_stranded`).  The `?` at line 330 returns before the session is
   rejected; a later retry pays the debt but never closes the session, so every
   later start is refused as busy.
3. **A finish after a cancel that failed half-way panics**
   (`safe_audio_capture_panic`).  A cancel that aborted the writer and then cannot
   remove the file keeps the capture with no writer; a finish of it meets an
   `expect` (`platform/audio.rs:453`), and the panic poisons the registry for good,
   the exit's retry of the cleanup included.  The orchestrator reaches that order
   when `quit` cancels a session whose `finish_recording` has entered
   `FinishingAudio` and not yet called the adapter.

Checked by a run up to the exemption that names it:

4. **A cancel before PreflightPassed is never ended** (`orchestrator`).  The same
   window as in finding 1: a `cancel_recording` between the publication of the active
   recording and `PreflightPassed` (`app/transcription_orchestrator.rs:341-383`) sets
   `Cancelling { in_flight: true }` and closes the capture; then `CancelRecording` is
   refused, because the session is still preparing, and the `?` at line 606 returns
   with the flag set.  No call is left to clear it.  Every later cancel is answered
   `CleanupInProgress` (560-562), there is no debt to retry, and every start finds the
   runtime busy until the program is left.  A finish that found nothing recorded gets
   there too.  The comment in `quit` (1069-1071) rests on the contrary: "The in-flight
   cancellation operation owns cleanup".
   `InFlightIsServed` is the claim without the exemption.  Put among the invariants of
   `MCOrchestrator.cfg` it is violated after 22 states: the steps of a start up to
   `StartUpdate`, `StartActivate`, then `CancelRequest`, `CleanerCapture`,
   `CleanerSettle`, `CleanerClose` and `CleanerCancelSession`, whose event is refused
   while the start stands before `StartPreflight`.

Seen while modelling, and checked by no run:

* *A notice may be pending and unseen* (`desktop/session_feedback.rs:66`): a raise
  that finds the window closing is content with it, and the window goes.  And `raise`
  reads the scale and the size of its window, which the main thread answers, with
  `operation_lock` held; `apply_action` and the close handler wait for that lock on
  the main thread.  Whether they can wait for each other depends on Tauri's event
  loop, and the main thread is not modelled, here as for the panel's commands.

* *Both ends enforce one deadline* (`adapters/asr_worker.rs:916`): a worker that has
  just answered `deadline_exceeded` rejects the supervisor's cancel for it and
  exits.  Latent: the application passes an unbounded deadline.
* *The reading of a selection may restore over a newer write*
  (`platform/clipboard/macos.rs:195`): `restore` expects one write of its own, and a
  selection that was not copied makes none, so exactly one foreign write in between
  passes for it.  The comment there says that this must not happen.
  `ClipboardIsSettled` therefore excludes this transaction.
* *A spare package may disable every model*: `desktop/asr_runtime.rs:401` says that
  an invalid package cannot.  Verification follows a link and accepts a single file
  where the launch does not (`platform/model_manifest.rs:311`); such a package fails
  the launch, and the run goes on with a stub.  A stray object in the folder of
  grants does the same through `remove_stale_grants`.
* *A dismissal may clear the next text* (`desktop/temporary_text.rs:161`): `deliver`
  stores it before it waits for the lock that the dismissal holds.
* *A push-to-talk key let go before its recording can be finished is ignored*
  (`desktop/shortcuts.rs:308`); the recording goes on until the key is pressed
  and let go again, or its limit.
* *A new data directory is not synced into its parent* before old entries are
  removed (`desktop/identity_migration.rs:64`).

## 5. The proofs

TLAPS proves, for every value of the constants:

| Module | Theorem | Says |
|---|---|---|
| `OrchestratorProofs` | `TypeCorrect` | `TypeOK` is invariant, for any set of session ids |
| | `NoCommitAfterInvalidationHolds` | no irreversible write begins once the exit has invalidated the fence |
| | `CaptureOwnedHolds` | a running capture has a call, a workflow or a debt that will close it |
| `OrchestratorFlowProofs` | `WorkflowIsCoherentUnlessRefusedHolds` | in-flight flags have their call, but for the cancel of finding 4; debts have their retry; runtime and domain agree |
| | `CleanupExclusiveHolds` | never two calls in one cancel or cleanup |
| | `ArtifactOwnedUnlessRefusedHolds` | a recording has an owner, but for the race of finding 1 |
| | `ExitIsCleanHolds` | a successful quit leaves nothing behind |
| | `SingleFlightHolds` | never two sessions with audio or a write under way |
| `AsrSupervisorProofs` | `TypeCorrect` | its `TypeOK`, which ties the slots to each other, is invariant |
| | `WorkIsAccountedForHolds` | every unanswered command, request and granted copy has one slot |
| | `NoTextAfterCancelHolds` | no transcript once a cancel is taken |
| | `CancelConfirmedHolds` | a confirmed cancel has ended the request on both sides |
| | `CancelFindsItsRequestHolds` | the worker's `expect` in its Cancel arm cannot fail |
| | `ReleaseIsIdleHolds` | a release never takes the worker from a request |
| `PcmRingProofs` | `TypeCorrect` | for any capacity, batch, chunk and length |
| | `FinishedIsCompleteHolds` | what is handed out is complete |
| | `RingImplementsFifo` | the ring refines `AudioFifo` |
| `SafeAudioCaptureProofs` | `TypeCorrect` | its types, for any set of sessions |
| | `FilesAreOwnedHolds` | no file is ever without an owner |
| | `UnitsAreOwnedHolds` | no CoreAudio unit is, and there is one orphan at most |
| | `ArtifactIsSoundHolds` | a registered recording is sound |
| | `CancelReleasesHolds` | a confirmed cancel left nothing |
| `DeliveryProofs` | `TypeCorrect` | its types, for any number of deliveries |
| | `LandsAtMostOnceHolds` | one document, once, over all routes |
| | `InsertedIsTrueHolds`, `StatusIsHonestHolds` | what is told of a text is so |
| | `ClipboardIsSettledHolds` | the pasteboard is given back, and not over a newer write |
| | `NothingAfterExitHolds` | nothing changes once the quit has returned |
| `LlmConfigurationProofs` | `TypeCorrect` | its types, for any endpoints, values and master keys |
| | `KeyFitsRouteHolds` | a request carries a key of its endpoint and of this stay there |
| | `SentKeyIsStoredHolds` | what goes out is what the database holds |
| | `SessionIsUndisturbedHolds` | no command changes what a session uses |
| | `KeysAreKeptHolds` | a key is lost only by what is meant to lose it |
| `DesktopProofs` | `MigrationLosesNothing`, `NothingIsLostHolds` | no failure and no death loses an entry, for any number of them |
| | `PanelFollowsSessionHolds` | the panel is the session's, whatever hide comes late |
| | `NoticeActsOnceHolds` | a notice acts once, whatever becomes of its window |
| | `EffectsFollowSettingsHolds` | keys and diagnostics are the file's, or the code has said otherwise |
| | `SessionIsSettledHolds` | no command changes the worker or the settings under a session |
| | `HistoryIsStillHolds` | after an exit nobody writes the history |
| | `InFlightIsWholeHolds` | a transcription has its copy and its model, and the loop is free |

The assumptions are the modules' own, named where the constants are declared, and
TLC evaluates them on every run.  The stand-ins for "none" (`NoSession`, `Nobody`,
`None`) are not members of the sets they are beside (`NoSessionIsNotASession`,
`NobodyIsNoSession`, `DeliveriesAreOwn`, `SecretsAssumption`); a command has one kind
and only transcriptions are bounded (`CommandsAreDistinct`); sizes are positive
(`SizesArePositive`, `MigrationAssumption`) and bounds are naturals
(`BoundsAreNatural`, `SecretsAssumption`, `SettingsAssumption`); and a settings value
names an endpoint or none, which a command may change (`ValuesHaveAnEndpoint`,
`SettingsAssumption`).  What the settings page stores is a record of its choices
(`ChoicesAssumption`, `HistoryAssumption`), a combination is no modifier key and
neither is "none" (`ShortcutAssumption`), and the default is one of the values and so
is what an earlier release has written (`SettingsAssumption`).  The bounds of the guards (`MaxKeys`, `MaxHeard`, ...) are
arbitrary, so no theorem depends on one.

### Orchestrator

`TypeOK` is not inductive: the exit records a debt of the session it terminates, so
`TypeInv` adds that there is one (`ExitHasSubject`).

`ExitInv` says where a session can be: reserved, preparing or active, only one of
these at a time; in the exit's hands and not in the runtime while an exit runs; and
that a fence is open only for the session that is there, or for the one the exit is
about to invalidate.  A commit needs an open fence: *NoCommitAfterInvalidation*.

`CaptureInv` strengthens *CaptureOwned* by what each call may still rely on: a start
that has not opened its capture has none; whoever saw its capture closed finds it
closed; a cancelled workflow with an open capture is being cancelled or indebted; and
when the exit has drained the operations, an open capture is a debt.

`FlowInv` is the argument for the rest.  `PlaceInv` says of each stretch of each call
which stage the workflow is in meanwhile - a start that claims a cancel finds it
"Cancelling" and in flight, a finish past the recording finds it "Recognizing" - and
which other calls of the session are out of play; this is what excludes two
cleanups.  `LedgerInv` says that a workflow is dropped only after its debts are paid,
`SlotInv` that the coordinator's phase is no later than what the start has brought
about, and `RefusalInv` that the domain refuses an event only after the activation
and that the refused call is the last.  `CleanerPlace` adds that whoever is about to
tell the coordinator of a cancel has a workflow that was cancelled, which makes the
exemption of *WorkflowIsCoherentUnlessRefused* as narrow as it is.  `ArtifactInv` goes on from there for the
recordings on disk, with `refused` as the one way out (finding 1), and `SoleInv`
says that whatever is reserved, prepared, active, open, written or owed is all of one
session.

The proofs go by the groups of actions (requests, start, finish, cleanup, timer,
exit), a lemma each, with a case for each action.

### AsrSupervisor

`CommandInv`: each unanswered command is once in the queue or in one slot, and
nothing answered is in either.  Every step of the loop *settles* a set of commands,
which the lemmas state once for all steps: what it settles was held and is not any
more, and all else is as before.  `NoTextAfterCancel` follows.

`PipeInv` follows the request of the pending transcription as a token: asked for in
the worker's input, at work, or answered in its output, in one place at most, and no
other request is in any.  It needs the two protocol guards, which agree with it on
both ends.  A cancel that the worker accepts therefore meets its own request, and
when the confirmation is read, the request is nowhere.

### PcmRing

`RingInv`: from the read index to the last sample stored, each slot holds the sample
of its number.  It is kept because indices less than `Capacity` apart have different
slots (`SlotsAreDistinct`, from the quotients), so that a store overwrites nothing
unread.  `WriterInv` says that the file is what was read, `OwnerInv` that the
callback is out when the owner closes, and together that a writer which finds a
closed and empty ring has everything.

The refinement follows, step by step: a publication is `Accept`, the advance after a
copied chunk is `Write`, the completion of the file `Complete`, the steps into failure
`GiveUp`, and every other step stutters.

### SafeAudioCapture

*FilesAreOwned* is inductive given the types: each step that creates, renames or
deletes a file changes the record that owns it in the same step.

*ArtifactIsSound* is not.  `CallInv` says what the steps of the current operation
have settled (a finish past its stop has no unit, past its fault check no fault), and
`UnitInv` that a capture without a handle has no unit, so that a stop that finds no
handle is not a lie.

`OwnershipInv` carries *UnitsAreOwned* and *CancelReleases*: a record is dropped only
after its handle is gone (`ReleaseInv`), a start goes on only without an orphan
(`SoleOrphanInv`), and `openHandles` counts the handles (`CountInv`).

### Delivery

`OnceInv`: at every step before a write the text is nowhere (`Untouched`), and what a
paste or an insertion answers claims no more and no less than what is so (`Claims`);
the chain goes on to another route only on an answer that claims the text is nowhere.
`WindowInv` ties the window to the current delivery: its text is of a delivery whose
chain writes nowhere any more.  `TransactionInv` counts the changes of the
pasteboard: an undisturbed transaction has made as many as it knows, and only another
program's write makes one more.  `CommitInv`: commits are open exactly at the steps
that hold a guard, so a drained fence finds the chain outside all of them.

### LlmConfiguration

`StoreInv`: there is one record; who writes holds the master key it verified, under
which that record opens; and a plaintext in memory that may be served was decrypted
under the master key in memory.  `OperationInv` says which endpoint an operation
relies on at which step, and that the gate keeps a session away meanwhile.  `RouteInv`
says that no stored key is older than a route frozen for its endpoint (`NotOlder`):
a command that comes to an endpoint first deletes what was left there.

The attempt to prove *SentKeyIsStored* corrected the model twice.  The store's state
mutex is held over all of `replace_namespace`, so that no read of this process falls
between the reload of the master key and the commit (`Unlocked`); and each
encryption has a fresh nonce, so that a copy in memory is not taken for a record that
was written since (`FreshNonce`).  Without them the property fails as soon as there
are two master keys, one more than the run has.

### Desktop

One theorem per part, each with an invariant of its own, because the parts share so
little.

*The migration.*  `Progress` adds to *NothingIsLost* what the loops have passed:
behind the copy loop every entry is there, and from the sync of the destination to
the end of the removal every entry is there durably, so that a removal takes nothing
that has not got a durable successor.  An accident puts the step back to the start
and may lose what was volatile, which *NothingIsLost* does not count on.  Every step
of `Desktop` is one of `BrandMigration` or leaves it alone (`DesktopMigrates`).

*The panel.*  `PanelInv` is the property with its types and the intent that is
pending: a hide in its wait takes the panel away only if no later call has touched
it, which the generation tells.

*The notice.*  `NoticeInv` says that the history calls pending exactly the notice
that is, so that a click which passes the comparison of `apply_action` is the first.

*The commands.*  `PreferencesInv` follows a command from the click to its reply.  A
command that was made for the version in force differs from the file in what it is
about and nothing else (`RequestInv`, `About`); from its admission on it holds the
gate, and no session is loading or active (`GateInv`), so that nobody else stores and
that difference stays true up to its store (`ChoicesInv`).  The shortcut that fires
is the one that the command has bound so far or else the file's (`FiredUnder`,
`EffectsInv`); `Rebinds` says what a binding leaves registered, however it ends.  The
session theorem needs `OnlyTheseChange`, who writes what; the history theorem that
after the exit the barrier has no command left (`StillInv`).

*The worker.*  `WorkerInv` has three parts.  `RequestPlaceInv` and `KindInv` follow
the supervisor's one request through input, work and output, as in `AsrSupervisor`
but through greeting, health check and transcription; a request is read only by a
process that is not at work.  `MemoryInv` says that the mutex of the engines belongs
to who works, that only the engine used last can have a model in memory, and that a
lease is that of the inference that runs, so that neither the reaper nor the other
engine can take its model.  `GrantInv` ties a transcription to an active session;
`GateInv` then keeps away the commands that would start another supervisor, which
sweeps the grants.

### Only model-checked

* `EveryQuitReturns`, `LimitEnforced`, `EveryCommandIsAnswered`,
  `CancelEndsTranscription`, `JoinReturns`: liveness needs fairness and ENABLED, which
  are out of the prover's reach.

Every invariant and action property that a passing run checks is also stated by a
theorem; the properties without one are the five liveness properties
(`EveryQuitReturns`, `LimitEnforced`, `EveryCommandIsAnswered`,
`CancelEndsTranscription` and `JoinReturns`).

## 6. Not modelled

* HTTP, prompts and the parsing of answers of the LLM provider; encodings, sample
  rates, formats, hashing and encryption as computations; what an inference
  computes: data.
* The roles and attributes of accessibility elements, beyond what the code concludes
  from them.
* Launch configuration, sandboxing and the resolution of the worker's executable;
  the codec of the two pipes.
* The menu, the tray, the main window, the snapshot for the front end and the front
  end itself, which project state and hold no authority over a session.
* The permission prompt's waker, cues, the diagnostics log: operating system I/O;
  their failures appear where they change control flow.
* The supervisor's command queue and the worker's inside are two models
  (`AsrSupervisor`, `LocalAsr` with `EngineHost`): the launch and greeting, and the
  exchange that replaces a worker, are atomic in the first.
* A brand's old application that runs during the migration; the instance lock
  excludes it.
* `AsrSupervisor` lets commands still queued when the supervisor stops go
  unanswered, as the code does; the application never stops it that way.

## 7. Plan

1. *AsrPort*: an abstract transcription port that `AsrSupervisor` implements and
   `Orchestrator` uses, which makes the correspondence of section 2 checked; with it
   the case of a cancel that overtakes a queued transcription.
2. *Delivery* with two deliveries, for the dismissal that meets the next text.
3. A theorem that `Exit` steps as `Orchestrator` where it does not tell results, so
   that the orchestrator's theorems hold with any number of callers of quit.
