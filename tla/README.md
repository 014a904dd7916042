# OpenAirCast: a TLA+ verification project

OpenAirCast sends the audio a Windows machine plays to one or several AirPlay
receivers. This directory models its core: the backend that decides when a
session exists and who is in it, the services beside it, the client library
that talks to the receivers, and the windows that show and drive all of it. It
checks the models with TLC on small instances and proves the main safety
properties of seventeen components with TLAPS for every value of their constants.

All paths below are relative to the repository's sources: `backend/` stands for
`apps/openaircast/src/backend/`, `app/`, `backend_bridge/`, `diagnostics/`,
`platform/` and `ui/` for the directories beside it, and `airplay-x/` for
`crates/airplay-x/src/`.

## 1. The system and its parts

| Part | Code | State it keeps | Operations | Hard behaviour |
|---|---|---|---|---|
| Session supervisor | `backend/session.rs` | generation gate, start attempt, adopted transport, retained parameters, health | reconcile, volume, probe, network change, suspend, resume, shutdown | starts that finish late, requests during activation, coalescing, bounded queues |
| Backend controller | `backend/controller.rs` | published snapshot, desired set, run intent, receiver rows, suspend gate, timers | command batches, session updates, discovery and capture updates, timers | edges of an older generation, commands during a suspend, retries against commands |
| Receiver lifecycle | `backend/recovery.rs` | one state machine per receiver | the permitted transitions, operations that re-anchor a row | rows driven by three sources in any order |
| Retry ladder, rejoin limiter | `backend/recovery.rs` | attempts, deadlines, stability and restart stamps | note failure, note streaming, may rejoin | timer arm and firing path must agree, spacing of restarts |
| Transport adapter, volumes, health | `backend/transport.rs`, `backend/session.rs` | prepared or active group, effective levels, feed of failed sends, streaks | start, activate, probe, set volume, stop | levels saved while the start runs, a feed that never ends |
| Discovery | `backend/discovery.rs`, `airplay-discovery/browser.rs` | browse generation, known receivers, service index | browse events, restart, backoff | late events, full queue, reused names |
| Capture | `backend/capture.rs` | endpoint, worker, generation, PCM bridge, tone, endpoint list | select, fail over, suspend, resume, tone | device loss during a switch, edges that overwrite each other |
| Network monitor | `backend/network.rs` | binding fingerprint, settle window | pulses | a pulse at the deadline, shutdown with a full queue |
| Persistence | `backend/persistence.rs` | state file, temporary file, quarantine | load, save, migrate | crash between write and replace |
| Command queue | `backend/command.rs` | bounded queue, receipts | send, batch, commit, confirm | a save that fails inside a batch, receipts of skipped commands |
| Application shell | `app/`, `backend_bridge/`, `ui/presentation.rs` | reducer state, pending intents, projected rows | events, effects, projection | a snapshot older than the intent |
| Settings, hotkey, exit | `preferences.rs`, `platform/hotkey.rs`, `app/mod.rs` | settings file, debounce, registration | edit, write, register, flush | crash between steps, failed replacement, bounded exit |
| Diagnostics | `diagnostics/`, `airplay-client/diagnostics.rs` | sinks, feed, registry, ring | record, drain, page, export | eviction while draining, late sessions |
| AirPlay client | `airplay-client/`, `airplay-rtsp/` | group, connections, request channel | connect, stream, disconnect | partial failure, late answers, calls given up |
| Pairing | `airplay-pairing/` | stage of the session and of its machine | setup, verify, transient, FairPlay | answers twice, out of order, after a failure |
| Timing | `airplay-timing/` | clock offset, master, ring of measurements | sync, follow up, delay exchange, announce | two sockets in any order, a clock that changes |
| Audio | `airplay-audio/`, `airplay-resampler/` | streamer states, packet history, live queue, meters | decode, encode, pace, resend | three threads and one channel, sequence wrap |
| Terminal client | `airplay-tui/` | action queue, client behind a mutex, capture threads | keys, timer, spawned jobs | jobs that answer late, threads to be joined |

How they interact. The controller and its supervisors are tasks of one
current-thread runtime. The shell sends commands into a bounded queue; a turn of
the controller drains it into one batch and ends with at most one reconcile. The
controller talks to the session supervisor only through a bounded request queue
(`try_send`, whose `Busy` is ignored) and hears from it only through a bounded
update queue (`push_update`, which drops what does not fit). Discovery, capture
and network updates reach the controller the same way; control edges go out on
watch channels, of which only the newest is seen. The supervisor spawns one start
task at a time and hears of its end through a oneshot channel; the start task
uses the client library, whose streamer runs a task and a sender thread of its
own. A bridge thread polls the controller's snapshot, turns it into shell events
and settles the shell's pending operations; the shell's actor thread reduces
events and executes effects; settings, hotkey and diagnostics have one thread
each.

What makes each part correct, in a sentence each:

- supervisor: one session at a time, of the newest generation; no finished
  transport lost; edges that tell the truth in order; every start concluded;
- controller: the published session is the one that exists; Stop and suspend end
  it; the two generation counters never cross; nothing asked is forgotten;
- services: what is stored survives, what is on the network is listed, what is
  told to stop stops, a level is heard before the first packet, a dark receiver
  is found out;
- client: no connection is left open that nobody knows of, everyone plays one
  stream by one clock, an answer belongs to its request;
- shell: a press is never answered by the past, and at rest the window shows what
  the backend holds.

## 2. The modules

| Module | Models |
|---|---|
| `SessionContract` | the abstract specification: what the supervisor's lifecycle edges promise |
| `SessionSupervisor` | `session.rs`: the supervisor and the most general client of its handle |
| `ReceiverMachine` | `recovery.rs`: the receiver machine as operators on a record |
| `Backend` | `controller.rs` composed with the supervisor and the receiver machines |
| `RetryTimers` | the recovery policy on a clock, with the controller's two timer arms; extends `ReceiverMachine` |
| `StateStore` | the state file across crashes, failed saves and foreign damage |
| `CommandBatch` | command queue, coalescing, durable commits, receipts |
| `CaptureSupervisor`, `EndpointScanner`, `PcmBridge` | the capture worker, the enumeration thread, the bridge with its tone |
| `ServiceIndex`, `Discovery` | the mDNS index; the browse generations with the controller's mirror |
| `NetworkMonitor` | pulses, settle window, edge |
| `NetworkView` | index, discovery, monitor and scanner side by side: what the backend sees of the world, and the properties that join their parts |
| `VolumeBarrier`, `HealthProbe` | the transport adapter's volume passes and its release; feed, probes and streaks |
| `ClockSync`, `TimingClient` | the timing workers; the clients with their ring of measurements |
| `Diagnostics` | sinks, feed, registry worker, ring, readers, export |
| `GroupConnect` | `connect_group_best_effort` |
| `ReceiverConnection`, `RaopConnection` | one connection to an AirPlay 2 and to an AirPlay 1 receiver |
| `Sessions` | the two kinds of connection side by side, and the property that joins theirs |
| `Pairing` | the pairing machines and the session that drives them |
| `Streamer`, `RtpFanout`, `LiveQueue` | streaming task and sender thread; one frame for all targets; the live PCM queue |
| `AudioPath`, `AudioMeters` | the samples' way through decoder, buffer and encoder; the counters and their snapshots |
| `ShellSession`, `ShellWindow`, `ShellSettings` | start, stop and hearing test; what is drawn and enabled; settings, hotkey and exit |
| `TerminalClient` | the event loop of the terminal client |
| `MCSessionSupervisor`, `MCBackend`, `MCServices`, `MCClient`, `MCShell` | the instances for TLC |
| `SessionSupervisorProofs`, `BackendProofs`, `ServicesProofs` (volume passes, health feed, state file, network view, retry timers, tones and capture), `CommandBatchProofs`, `ConnectProofs` (group connect and pairing), `SessionsProofs`, `AudioProofs` (fan-out and streamer), `FrontEndProofs` (session window, settings and terminal client) | the theorems |

Composition. `Backend` runs controller and supervisor against each other; the
shell's modules contain what they see of the backend. The services, the parts of
the client and the front ends share no state with each other, so `MCServices`,
`MCClient` and `MCShell` let one component run in a behaviour (`part`) while the
others rest, and one run explores each of their state spaces. Their properties
are conjunctions of the components' named properties, each under `part`'s guard
where it would otherwise speak of a resting component.

Definitions whose comment starts with *Faulty* are plausible bugs of the code
next to the correct definition. No specification uses them; replacing the
correct definition by one of them makes TLC report the property named for it in
`PROJECT.json`.

### SessionSupervisor

The variables are the locals of `run_supervisor`: `gate`, `inFlight` with its
`outcome`, `active`, `retained`, and `failed` out of `HealthState`. Three of
them stand for positions in the code: `activating` is the await inside
`activate_prepared`, `inline` and `newest` are the batch `coalesce` returned
and the loop is working through. `aborting`, `torn` and `discarded` record what
became of each generation's start task and transport; `asked` and `announced`
are history variables for the properties.

The actions are the arms of the select loop (`AdoptFailure`, `AdoptSuccess`,
`Receive`, `ProbeDue`, `Shutdown`), the arms of `activate_prepared`, one action
per inline request, `StartGeneration`, and the start task (`StartCompletes`,
`AbortedTaskEnds`). The guards keep the `biased` order of the select: a
finished start is adopted before a request is received. A handler is atomic:
nothing else changes supervisor state while it awaits a bounded stop, and the
requests that queue up meanwhile are the ones the next `Receive` finds.

Abstractions. A device is its identity; latency, calibration and the preferred
primary travel with a reconcile and are payload. A start succeeds with any
non-empty subset of the desired set, with or without a primary, or fails. A
probe cycle reports any members it has not reported yet, in any order (the
streak rule only narrows this). The watch channel for diagnostics is left out.
A panic of the start task is not modelled.

`SendReconcile`, `SendInline`, `TakeUpdate` and `RequestShutdown` are the most
general client: it mints increasing generations, adopts the supervisor's, and
otherwise does what it likes.

### ReceiverMachine

Each operation returns the machine it leaves behind and whether its transition
was permitted. `begin_generation`, `fail`, `leave_session` and `release` set the
state outright, as in the code; the others go through `Transition`. Attempt
numbers, deadlines and error texts are payload.

### Backend

Adds the controller's state: `desired`, `intent`, `castable` (what discovery
and the feature check leave of a receiver), `machines`, `pending_desired`,
`members`, `primary`, `phase`, `live`, `suspended`, `resume_at`,
`auto_connect`. One action is one turn of the actor: a batch of commands
(`Batch`, `ReconfigureBatch`, `ChangeLevels`, `RetryReceiver`, `BeginSuspend`,
`BeginResume`, `NetworkChange`), a timer (`FinishResume`, `FireDueRetries`,
`StartupAutoConnect`), a discovery change (`ServiceChanges`), or a session
update (`Take...`). `RequestReconcile` runs last in its handler, so it reads the
primed variables. Time is abstracted: an armed timer may fire at any moment, so
delays, jitter, the two-second stability and the thirty-second spacing only
remove behaviours from the model.

A save that fails leaves the state as it was, which is a stuttering step here.
The controller of this commit never sends `Probe`, `NetworkChanged` or `Resume`
to the supervisor; `SupervisorStep` leaves those actions out, and
`supervisor_rebuilds` covers them with the general client.

### RetryTimers, StateStore, CommandBatch

`RetryTimers` keeps instants relative to now: a deadline is the time left, a
window the time since, both moved by `Elapse`. Its actions are the two timer arms
(`FireDueRetries`, the auto-connect arm), session edges, retries by hand, flaps
of the service and sleeps. The hash behind the jitter is any number of its range.

`StateStore` has one action per step of a write (create, fill, replace,
acknowledge), of a launch and of a migration. `Crash` may happen between any two;
a call may fail; a foreign program may replace the file. `acked` and `limbo` are
history: what was acknowledged last and what was being written.

`CommandBatch` processes one command per step, because the actor awaits the disk
in each while the shell goes on sending. `shown` is the published and `stored`
the persisted value; a save may fail at every command. `unready` are the receivers
`request_reconcile` leaves out, because they are not castable or serve a backoff;
`built` is the newest attempt: the selection it was made for and who was left out of
it. What is handed down, `pending_desired`, is the difference of the two and may be
empty for an app that runs. Between batches receivers come and go
(`ReceiversChange`), and the controller builds again unasked (`RebuildUnasked`: a due
retry, a moved binding, a failed primary). Whether `active` is empty when a stopped
app reconciles is left open. `FloorAnswersStart` therefore says of a group start
that is answered with the current generation that the attempt was made for exactly
the selection shown, not that it carries all of it: who was left out is brought in
by `fire_due_retries`, whose progress is `BackoffEnds` of `RetryTimers`. The startup
auto-connect is in `RetryTimers` and `Backend` only.

### CaptureSupervisor, EndpointScanner, PcmBridge

Supervisor and controller are tasks of one thread, so a step between two awaits
is one action; worker threads run freely beside it. `control` is the watch
channel: its value and whether it was seen. `PcmBridge` has one action per turn
of the bridge thread; `authorised` and `revoked` record the tone's token.

### ServiceIndex, Discovery, NetworkMonitor

`ServiceIndex` applies resolutions and removals of advertised instances and folds
the resulting events as its consumers do. `Discovery` runs browse generations,
each of which reports everything again; its timers fire eventually.
`NetworkMonitor` compares fingerprints for equality only.

### VolumeBarrier, HealthProbe

`VolumeBarrier` follows one start through its passes to the release. A version is
compared for equality only, so `current` says whether a level changed since the
snapshot was taken. `HealthProbe` lets the audio thread publish failed sends at
any time, also while the supervisor drains; a receiver may go dark for good.

### ClockSync, TimingClient, Diagnostics

Time is a count of ticks and a remote clock is ahead of ours by a constant for
each grandmaster. `ClockSync` has one action per datagram, read from either
socket in any order or lost. It assumes that each socket is first-in-first-out,
that announcements are not lost, and that a receiver announces a new clock before
it uses it. `TimingClient` computes the exchange's arithmetic as the code does
and compares it with the constant. `Diagnostics` numbers events in the order of
recording; producers never wait, and evict the oldest entry of a full queue.
Draining takes one sink after the other, while the connections go on recording,
merges them, and puts what exceeds its limit back. An entry may be a warning, which
raises the registry's attention flag as the feed's Degraded does.

### GroupConnect, ReceiverConnection, RaopConnection, Pairing

`GroupConnect` is one call from request to report: parallel establishments, the
choice of a primary, its critical sequence with one fallback, the others one
after the other, and the survivor's reconnect. Any request may fail.
`ReceiverConnection` treats a call as a plan, the sequence of its requests; an
answer may be late, an error or never come, and a call may be given up at any
await. An answer carries its request's kind and number, which the caller does not
compare: every field of the answer to phase 1 has a default, so phase 1 takes any
dictionary for its answer, that of another request or of a refusal, and goes on with
ports 0 (`Verdicts`, `FirstPorts`). `RaopConnection` pairs each request with the receiver's state, which
advances also when the answer is lost. `Pairing` is symbolic: a secret is what
went into it, a proof the secret it was made with.

### Streamer, RtpFanout, LiveQueue, AudioPath, AudioMeters

`Streamer` keeps `inner.state` and `state_cache` apart, because `stop` writes
them at two different times (the loop's own test of the state and the lock region
after it are one step, `Round`), and represents every holder of a channel sender,
because the thread ends by disconnection only when the last is gone. `RtpFanout`
prepares one frame for all targets; sequence numbers wrap at `SeqSpace`, and the
history is a ring that divides it. `LiveQueue` splits `try_send_latest` into its
failed send, its eviction and its retry. `AudioMeters` splits every reading into
the loads it consists of.

### ShellSession, ShellWindow, ShellSettings, TerminalClient

In `ShellSession` a send and the recording of its generation are two steps of the
actor, a projection and the poll of the receipts two of the bridge; the backend is
what `Backend` shows of it. `ShellWindow` compares what `presentation.rs` draws
and enables with what the reducer does with a click. `ShellSettings` lets the
process die between the steps of a write, and registration of a chord fail.
`TerminalClient` distinguishes handlers that lock the client inline from spawned
jobs that lock it later. `menu`, `habit`, `taste` and `hand` fix what the user of
a behaviour does.

## 3. The runs

| Run | Instance | Properties |
|---|---|---|
| `supervisor_safety` | 2 receivers, 2 generations, 2 controls (volume, suspend), request queue of 3 | `TypeOK`, `OneSession`, `NothingLost`, `ReportsHonest`, `ContractKept` |
| `supervisor_rebuilds` | 1 receiver, 2 client generations and those of the rebuilds, 2 controls (volume, probe, network change, resume), request queue of 2 | `FreshStarts`, `RequestsConcluded` |
| `backend_safety` | 2 receivers, 2 generations, 2 commands | `ControllerTypeOK`, `ShownIsHeld` |
| `backend_suspend` | 1 receiver, 2 generations and the one after a suspend, 1 command, 1 suspend (which may carry a batch of its own) | `CatchesUp`, `GateOpensAgain` |
| `backend_stop` | 1 receiver, 3 generations, 2 commands, 1 discovery change | `StopIsObeyed` |
| `services_safety` | each service alone: 2 receivers, queues of 1 or 2, 2 saves and faults, 3 capture generations, 2 tones, 3 sent commands and 1 change of a flaky receiver, 2 client targets whose sinks hold 2 and are drained 1 at a time | `TimersSafe`, `ArmsDoNotSpin`, `StoreSafe`, `BatchHonest`, `AnswersFit`, `CaptureSafe`, `BridgeSafe`, `InventoryTrue`, `WatchersMissNothing`, `ReleasedAtSavedLevel`, `BarrierSafe`, `HealthSafe`, `ClocksTrue`, `DiagnosticsSafe` |
| `services_progress` | the same with fairness, smaller, but 2 receivers with a delay of 1 to 3 against a rejoin spacing of 2, and 2 outside events | `ServicesSettle`, `ServicesStop`, `TroubleIsNoticed` |
| `client` | 3 devices, 6 requests, 3 frames, 3 targets, 2 clocks, 2 decoders, 2 pairing flows, 5 kinds of AirPlay 1 receiver | `GroupSafe`, `StreamSafe`, `FanSafe`, `FanStepsSound`, `AudioSafe`, `SessionsSafe`, `PairingSafe`, `ClientSettles` |
| `shell` | 4 menus, 8 habits, 4 tastes, 5 hands of keys | `ShellHonest`, `NoSnapBack`, `TerminalSafe` |

Most of these are conjunctions; the modules define and comment every part:

- `ReportsHonest` = `UpdatesOrdered`, `AnnouncedIsTrue`, `FailuresReportedOnce`,
  `NewestReconcileWins`; `RequestsConcluded` = `ReconcilesAnswered`,
  `StartsConcluded`; `ShownIsHeld` = `LiveSessionIsShown`, `StoppedMeansSilent`;
  `CatchesUp` = `CountersAligned`, `BuildsWhatWasAsked`.
- `StoreSafe`: `AckedSurvives`, `MemoryIsDurable`, `EvidenceKept`. `BatchHonest`:
  `ShownIsStored`, `NewestIntentWins`, `ReceiptsSettled`. `AnswersFit`:
  `FloorAnswersStart`, `CalibrationFitsSelection`.
- `CaptureSafe`: `OneLiveWorker`, `CapturesTheChoice`, `SourceShownTruly`,
  `ParkedMeansAsleep`, `PeakIsCurrent`. `BridgeSafe`: `ToneUnmixed`,
  `ToneFlagExact`, `ToneIsAuthorised`, `DropsAccounted`.
- `InventoryTrue`: `NoOrphanRecords`, `CastableIsListed`, `NobodyMissed`,
  `PhaseShownTruly`, `TableIsMirrored`. `WatchersMissNothing`: `NoMoveLost`,
  `AnsweredFresh`.
- `BarrierSafe`: `LevelsArrive`. `HealthSafe`: `GapIsTrue`. `TimersSafe`:
  `WaitingHasDeadline`, bounded deadlines.
- `ClocksTrue`: `ClockIsCoherent`, `StampsUsedOnce`, `GroupKeepsTime`,
  `NtpIsBounded` of the workers; `RingInOrder`, `MeasuresTrue`, `OneMath`,
  `DriftTrue`, `StaleIsLate`, `ConversionsTrue`, `SignalsParse` of the clients.
- `DiagnosticsSafe`: `RingIsExact`, `ReaderMissesNothing`, `ClientEventsOnce`,
  `RegistryAgrees`, `LossesAreOfTheSession`, `AttentionIsKept`, `LagIsCounted`,
  `ExportIsWhole`.
- `GroupSafe`: `NoLeakedLink`, `EveryoneAccounted`, `OneClock`,
  `PeersKnowEachOther`, `PreferenceHonoured`. `StreamSafe`: `WireInOrder`,
  `GateHolds`, `TailIsBounded`. `FanSafe`: `OneSharedStream`, `OwnPacketsOnly`,
  `NoTornSync`. `FanStepsSound`: `NewMasterRestartsSync`, `SyncRecovers`,
  `RetransmitIsTruthful`.
- `AudioSafe`: `EveryFrameAccounted`, `CaptureOrderKept`, `NoSampleLost` of the
  live queue; `NothingSkipped`, `PacketsCount`, `TimesRun`, `FiltersFollow`,
  `SamplesKeepOrder` of the path; `CountersTrue`, `SeenIsBounded`, `StillIsExact`
  of the meters.
- `SessionsSafe`: `OneTeardown`, `SessionIsSealed`, `SetupIsMatched`,
  `LagHasACause`, `PlaybackFitsSession`, `IdentityIsKnown`, `ClosedIsReleased` of
  a connection; `HeardByReceiver`, `PortsAnswer`, `PlaybackFollowsSession`,
  `VolumeArrives`, `NothingLeft`, `BestIsChosen` of an AirPlay 1 one.
  `PairingSafe`: `SecretIsAgreed`, `OnlyTheRightPin`, `StageFollowsMachine`,
  `KeysHaveASource`, `OrderIsLearned`.
- `ShellHonest`: `WindowTellsTruth`, `OperationsSettle`, `HeardIsClean`;
  `NoDeadControl`, `OneFilledAction`, `RouteHonest`, `NoticesTrue`, `DraftHonest`,
  `WindowSettles`, `ClicksLand`; `FileWhole`, `NewestOnDisk`, `SavedOrTold`,
  `FailureNoticeTrue`, `NoLostWake`, `HotkeyShown`, `ExitSaves`. `TerminalSafe`:
  `ConnectingHasACause`, `ConnectionShown`, `NoThreadLost`, `WaitsEnd`.
- `ServicesSettle`: `BackoffEnds`, `FlappingIsReported`, `StartEnds`.
  `ServicesStop`: `SuspendHonoured`, `ShutdownHonoured`, `HandleReleased`,
  `ThreadIsFreed`, `RegistryCloses`. `TroubleIsNoticed`: `DarkIsNoticed`,
  `EventsDelivered`. `ClientSettles`: `CallEnds`, `StreamDrains`,
  `LatestIsPlaced`, `DisconnectEnds` in one formula.

Action properties are `FreshStarts`, `ArmsDoNotSpin`, `AnswersFit`,
`ReleasedAtSavedLevel`, `FanStepsSound` and `NoSnapBack`; `ContractKept` is a
refinement of `SessionContract`; liveness properties are `RequestsConcluded`,
`StopIsObeyed`, `GateOpensAgain`, `ServicesSettle`, `ServicesStop`,
`TroubleIsNoticed` and `ClientSettles`.

### Why the bounds are enough

Two generations are one session and the one that supersedes it, at every stage of
the first: starting, finished, activating, adopted, failed. Two controls let one
arrive before and one after the event they race with. Two receivers give a
primary and a secondary, and so partial failures, role changes and loss of the
primary; where no property distinguishes members, one is enough. Three devices of
a group leave a primary, a fallback and a survivor. Queues of one, two or three
get full in the service and client runs, and the request queue in the supervisor's;
the queues of the backend runs are as large as the bounded number of steps can fill,
as 256 is in the program. The supervisor's update queue of 12 never overflows:
`push_update` then drops lifecycle edges, after which the last edge no longer says
what is held and a start may stay unclosed, so `AnnouncedIsTrue` and
`StartsConcluded` do not hold with a shorter one. What does hold of a queue of any
length, drops included, is proved (`KeepsContract`, `ReportsInOrder`). Two sinks of
two entries, drained one at a time, make `drain_events` merge across sinks, restore
a remainder into one while the other goes on, and evict behind it. The feed of that
run reports lost frames only; phases and member failures are ingested in the progress
run. One change of a flaky receiver, or one rebuild nobody asked for, is enough for an
attempt that carries only part of the selection. Two receivers of
the progress run let one fail and restart the group while the other waits, with a
delay shorter or longer than the spacing. `SeqSpace = 4` with a ring of 2 wraps twice within five frames.
Receivers of the supervisor and the backend are symmetric: no definition orders
them.

Names that start with `Max` bound an instance and appear in guards only; so do
`LastTick`, `FanFrames` and the counts of `habit` and `taste`. Deadlock is not
checked: once the bounds are used up the system really rests.

To keep every run within minutes some instances stay small, and this is what they
leave out. `services_safety`: one timing tick, one outside event of the timers, one dropped frame and two measurements in the
ring. `client`: three frames of the streamer, three targets of which one has no
control port and one no socket, two clocks; a connection starts either over NTP
with an old identity or over PTP with none. `shell`: a user of one behaviour
presses from one menu, habit, taste or hand; the pairs were chosen so that the
operations that touch each other's state meet.

### Fairness

`FairSpec` assumes weak fairness of the supervisor's loop and of the end of a
start. The loop is a task of a live runtime that is woken by its queues; every
connect, pairing and SETUP exchange has a timeout, so a start ends; the
activation has a deadline of four seconds. Nothing is assumed of the client.
`BackendFairSpec` adds that the controller takes queued updates and that the
resume timer fires. No fairness is assumed of retries, auto-connect, commands or
discovery.

`MCServices` and `MCClient` assume weak fairness of each service's own task or
thread and of its timers: a woken task is polled, a timer fires, an enumeration
or a connect attempt returns because the code gives it a timeout or because it is
local. Strong fairness is assumed of `OnControl` in `Discovery`: its supervisor
selects over the control edge at every await, so an edge that stays set is seen
however often the browse stream wins; and of the controller's draining of the
update queue, because it takes everything that is queued in one turn. Users,
networks, foreign programs and failures get no fairness. The front ends are
checked for safety only.

### Where the code and its documentation disagree

Each of these runs is expected to end in a counterexample; the quotations are in
`PROJECT.json` under `findings`.

| Run | Property | What happens |
|---|---|---|
| `suspend_overtakes_start` | `AsleepMeansNoSession` | `coalesce` applies a Suspend before the Reconcile queued ahead of it: the session is built on the suspended backend. A Stop given during that sleep is then lost too, because a suspended controller sends nothing and a resume reconciles only a running app. |
| `ghost_receivers` | `NoGhosts` | The controller's inventory outlives the browse generation: a receiver that leaves between two generations is never reported gone. |
| `disconnected_thread_spins` | `DisconnectEndsThread` | The pause loop of the sender thread takes every receive error for a timeout and goes on after its channel is disconnected. |

### Observations without a run of their own

Met while reading and modelling; the models follow the code in each case, and a
property names what it exempts because of it.

Backend. A suspend during `activate_prepared` stops the prepared group, then
finds no session and reports nothing, so the start is never closed
(`supervisor_rebuilds`, which checks `StartsConcluded`, has no suspend). Start with
nothing castable, then Stop: the Stop is skipped as having nothing to do and the
phase stays Restarting. A start that fails as a whole leaves its rows Connecting
and arms no retry. An Active of the previous generation is compared with the
pending set of the next one. Deselecting the last receiver ends the session but
leaves its members published. A row still Streaming from an older session vetoes
its new role.

Window. A failed session sets the stream Stopped, so the header offers Start and
not Retry, and the notice's Retry stays enabled where the reducer refuses it
(`ui/presentation.rs:68-74`). The advanced "Available" tile shows a count measured
before the first inventory. A discovery notice can also come from the event feed
and is then never retracted, contrary to `app/reducer.rs:706-716`. With a clean
draft and a failed apply both Apply and Start are filled. A closed channel leaves
discovery "Discovering".

Settings. A failed registration at start-up is dropped; when a replacement fails
after the hotkey was switched off, the disabled chord is registered again. A Busy
`try_reconfigure` has already raised the generation, so answers to queued commands
are ignored. A full queue at exit gives up the flush with a log line. A failure
notice can be hidden by a later one. A corrupt settings file is overwritten without
a backup.

Diagnostics. `drain_events` calls itself "strictly FIFO across all registered
connections" (`airplay-client/diagnostics.rs:668-669`), but it empties one sink after
the other while they fill, so an event of the first may be older than one handed on
before it; and `restore` appends the remainder behind newer events, so a later
eviction drops the newer ones first. `client_events_dropped_total`
is said to have no drop site although `EventSink` evicts. The gap of
`events_since` counts one too many. A snapshot of the audio meters concurrent with
`record_jitter` may read a slot that was claimed and not yet written, although
"every value stays a real recorded sample"; relaxed loads can show more read than
written. Retransmit totals miss a send of zero bytes.

Timing. The header of `airplay-timing/diagnostics.rs` gives the offset the opposite
sign of its value; NTP's offset is remote minus local where PTP's is local minus
remote; `ClockOffset.rtt_ns` holds a one-way delay for PTP. The clients never
compare sequence numbers, and the older slave and the two-way master do not match
them. `peers_heard` counts announcements. A Delay_Resp on the event port may
overtake an announcement (`ClockIsCoherent` exempts it).

Audio. `decode_resampled` loses the residual it had taken when a read fails; a
frame's time stamp is the end of what was decoded; `encoder.flush` is never called
(the encoder keeps nothing back); a failed seek has already flushed the buffer.

AirPlay 1. A 401 whose challenge cannot be answered is taken for accepted. A SETUP
that failed after ANNOUNCE cannot be retried on the same connection. After `stop`,
`start_streaming` replaces the timing server and the control socket the receiver
knows before it fails. Resume without a streamer says Playing. A setup after a
disconnect opens a timing server nobody closes (`NothingLeft`'s `late`).

Connections. A response timeout leaves the late answer in the stream, and a CSeq
that differs is only logged. Phase 1 takes a late answer or the dictionary of a
refusal for its own; phase 2 then reads the answer to phase 1, which lacks its ports,
and the session stays in SetupPhase1, where every later `setup` fails. `stop` leaves the session Playing, so a restart on the
same connection fails. A failed first clock leaves the state Ready. Pause and
resume that fail half way leave streamer and playback out of step. A disconnect
that was given up is not resumed.

Terminal client. The timer's reaping branch is dead, so `streaming` stays true
after a capture thread ended on an error. `Disconnected` is ignored while
connecting, so a failed group connect leaves the old device shown
(`ConnectionShown`'s `missed`). `BluetoothDisconnected` clears the source without
stopping its thread. A scan drops selections. The thirty seconds of a connect
include the wait for the lock. A partly connected group is shown as an error. Any
job's error ends the "connecting" display of another.

## 4. What is proved

Each theorem module proves its component's properties for every value of the
constants that meets the component's named assumption (`...Assumption`), and for
the component's own specification, `Init /\ [][Next]_vars` (of
`StreamSpec` the fairness is not used). The `MC` modules run
that specification beside resting components, so a run checks a small instance of
what the theorem states. None of the proofs uses fairness.

| Theorem | States | Inductive invariant |
|---|---|---|
| `TypeCorrect`, `OwnsOneSession`, `LosesNothing`, `StartsAreFresh`, `KeepsContract` | `TypeOK`, `OneSession`, `NothingLost`, `FreshStarts`, `ContractKept` | `SupervisorInv` |
| `ReportsInOrder`, `HonestReports` | `ReportsHonest` and its parts | `OnceInv`, `AnnouncedInv`, `NewestInv` |
| `BackendSafe`, `TasksCatchUp` | `CatchesUp` and the supervisor's invariants in the composition | `BackendInv`, `BuildsInv` |
| `ControllerTypeCorrect`, `ShowsWhatIsHeld` | `ControllerTypeOK`, `ShownIsHeld` | `ShownInv`, `OwnedWanted`, `StopInv` |
| `GateOpensAtSavedLevel`, `LevelsAreKept` | `ReleasedAtSavedLevel`, `BarrierSafe` | `BarrierInv` |
| `FeedIsHonest` | `HealthSafe` | `HealthInv` |
| `StoreSurvives` | `StoreSafe` | `StoreInv` |
| `InventoryIsTrue` | `InventoryTrue` | `IndexSafe` itself, `DiscoveryInv` |
| `WatchersReport` | `WatchersMissNothing` | `MonitorInv`, `ScannerInv` |
| `GroupCallSound` | `GroupSafe` | `GroupInv` |
| `TonesStayApart` | `BridgeSafe` | `BridgeInv` |
| `OneTrueCapture` | `CaptureSafe` | `CaptureInv` |
| `BatchStaysHonest`, `AnswersAlwaysFit` | `BatchHonest`, `AnswersFit` | `BatchInv` |
| `DeadlinesBounded`, `ArmsMakeProgress` | `TimersSafe`, `ArmsDoNotSpin` | `TimersSafe` itself |
| `OneStreamForAll`, `SyncAndResendTruthful` | `FanSafe`, `FanStepsSound` | `FanInv` |
| `FramesInOrder` | `StreamSafe` | `StreamInv` |
| `PairingAgrees` | `PairingSafe` | `PairInv` |
| `TerminalKeepsUp` | `TerminalSafe` | `TerminalInv` |
| `NothingSnapsBack` | `NoSnapBack` | `EchoInv` |
| `SettingsAreKept` | `SettingsSafe`, the settings' part of `ShellHonest` | `SettingsInv` |
| `SessionsStaySafe` (`ConnectionStaysSafe`, `RaopStaysSafe`) | `SessionsSafe` | `ConnInv`, `RaopInv` |

All proofs have the same shape: the invariant holds initially, one step per action
shows that it is preserved, and a last lemma derives the property; a temporal
theorem combines the three. What the invariants add, and why they are needed:

- **`SupervisorInv`.** Neither `OneSession` nor `NothingLost` is inductive. It adds
  that everything torn down, aborted or discarded belongs to a generation not above
  the gate, so that a newly admitted one is none of them; that the retained
  parameters belong to the current generation, so that a platform rebuild mints a
  fresh one; that a start which has ended, or an activation, sees no batch in
  progress, which makes the drop of a ready outcome impossible; and what the last
  announced edge can be for each stage of its generation, which carries the
  refinement, also when the update queue overflows.
- **`OnceInv`** says where a queued report of the current generation can come from:
  a session that is still in hand, whose `failed` names the member, or one that is
  over. **`AnnouncedInv`** is `AnnouncedIsTrue` at every moment and not only when the
  loop waits. **`NewestInv`** follows the last accepted reconcile from the queue
  through the coalesced slot into the retained parameters; that
  `NewestReconcile` finds it needs the queue to be in order of generations.
- **`BackendInv`** is the conjunction of the supervisor's invariants with the types
  of the controller. Every turn of the controller is first reduced to what it means
  to the supervisor (`LeavesSupervisor`, `Sends`): it takes at most one update and
  sends one reconcile of the next generation, a suspend, some levels, or nothing.
  The counter alignment of `apply_session_update` turns out to be without effect,
  because an update never names a generation above the gate (`HeadIsOld`).
- **`BuildsInv`.** The set the controller counts on is the one named by its last
  reconcile, wherever that is. **`OwnedWanted`** and **`StopInv`**: whatever the
  supervisor owns was asked for, and a stopped application asks for nobody.
- **`ShownInv`** relates three places: what the window shows, what is still queued,
  and what the supervisor holds. There is a position of the queue (0 is the window
  now) that shows the session in hand and after which only losses follow, and those
  are exactly the members that have failed (`Sees`). `HonestFlags` says that the
  loss of a primary shown at that point is reported as one, which is why the window
  never publishes a primary that is no member.
- **`BarrierInv`.** `LevelsArrive` speaks of an empty queue, the release of one
  step. `PassIsFaithful` says what a pass has set so far, and that an undisturbed
  pass works from the newest levels; `LevelsUnderWay` that a level which is not
  heard yet is queued, or known to be lost. That `ToSet` of the queue loses nothing
  but its head when the head is taken is a lemma.
- **`HealthInv`** only adds that the feed is a sequence of members.
- **`StoreInv`.** `AckedSurvives` must hold for a reader at any moment, so the
  invariant follows the one write under way: what its temporary file holds by the
  time it replaces, that a calibration save carries the acknowledged preferences,
  and that bytes nobody can use stay where they are until a launch moves them.
- **`DiscoveryInv`, `MonitorInv`.** `NobodyMissed`, `PhaseShownTruly` and `NoMoveLost`
  speak of an empty queue. The invariants say the same of a full one: either the
  value is right and nothing under way changes it, or its last change under way makes
  it right (`Arrives`). Four lemmas about that operator, for a silent and a telling
  message put at the end, a head taken and an empty queue, serve both. That no update
  is of a generation to come (`NoneAhead`) is what makes the mirror believe it.
- **`ScannerInv`** says of each place a scan can be at, in the thread or in the slot,
  that it began after the newest request, as long as no request waits.
- **`GroupInv`** has one conjunct for each phase of the call. What carries the
  proof is that from the choice of a primary on, a link is open or its member has
  been blamed, once; and, while the members join, that each of them is queued, has
  joined on the primary's clock, or has been blamed.
- **`BridgeInv`.** Two frames of one tone stay adjacent because a run in the queue
  is open while its tone plays, and because a tone not yet played has no frame
  there (`RunStaysOpen`, `TonesNumbered`); the flag is exact because claimed,
  waiting and playing exclude each other (`OneTone`).
- **`CaptureInv`.** `CapturesTheChoice` and `SourceShownTruly` speak of moments at
  rest. The invariant says what is on its way meanwhile: an attempt opened with
  another preference has an unseen edge that will restart it, the last queued
  update says what the supervisor does, and a parked supervisor of a woken machine
  has an edge to come.
- **`BatchInv`.** `NewestIntentWins` and `ReceiptsSettled` speak of the end of a batch.
  `IntentUnderWay` says of the middle what the rest of the batch will make of the
  intent: a group start still to run means Running, else a waiting `SetRunIntent`
  carries the newest word, else it is in force. `Accounted` names who still answers
  each open receipt: a waiting command with its id, or `floors`. `Sound` keeps what a
  calibration's author saw true until the revision moves on, the guard of
  `CalibrationFitsSelection`; and in a running, awake app that owes no reconcile the
  newest attempt was made for what is selected, through retries, resumes and rebuilds
  nobody asked for, which makes the floor of a group start right. The long part is `Drain`,
  which takes a whole queue into slots and edges at once. `EdgesKept` collects the
  edges by a recursive function; what it holds is proved by induction over the
  naturals. The library's induction theorems take an operator no prover here can
  instantiate, so the lemma `NatSets` derives induction over a set of naturals from the
  pigeonhole principle of finite sets.
- **`TimersSafe`** is inductive with lemmas about the policy's operators: every
  operation of the receiver machine returns a machine, no attempt number and no
  hash takes a delay outside zero and its cap, and a failure leaves a deadline.
- **`FanInv`.** A slot of the ring holds the newest frame of its residue class and
  nothing older than the ring is long. That a sequence number finds its own slot
  again needs `SeqSpace` to be a multiple of `HistorySize`, as 65536 is of 512,
  and lemmas about quotients and remainders.
- **`StreamInv`.** The wire alone says nothing about the next frame on it. The wire,
  the packets of the queue, the send the task is blocked in, the buffer and the
  source are one rising line (`InLine`): decoding appends at its end, dispatching
  moves a frame forward, and everything else a step does to the queue only thins it
  (`PartOf`): its head is taken, a control message joins it, or it is emptied.
  `TailAccounted` adds what may still leave, the queue and the one send under way, to
  what has left since the stop; `Gated` keeps a task that waits for its release away
  from both.
- **`PairInv`.** What the caller hands in may be any of the last answers, so the
  invariant says what an answer vouches for (`ReplyOK`): an M4 carries a proof the
  receiver has agreed to, and such a proof was made with the code it shows. A
  machine past M4 therefore holds its own pin's proof and an agreed one, which are
  the same, and its pin is the right one (`SetupOK`). That the receiver accepts a
  proof only after it chose a key is `LetterOK`; that two answers are never mixed up
  between flows is in the protocol each names. `FlowOK` ties the session's stage to
  its machine's, of which only a failed one may lag.
- **`TerminalInv`.** `TerminalSafe` speaks of a screen at rest. The invariant says what
  is under way meanwhile: the last connection event in the queue, or of an operation
  that still runs, names the device the client has; with none under way the screen
  names it, unless one fell into an attempt (`missed`). For that every client
  operation must announce what it does to the device (`Announces`). `ThreadsKept` says
  in whose hands each capture thread is: one that was told to stop and is still held
  exists only while the loop joins it. So the sweep in `HandleTick` never meets an
  ended thread it had not been told of.
- **`EchoInv`.** `NoSnapBack` is about one step, the window taking an event; what keeps
  that event from being a wrong one was decided four queues earlier. The invariant
  follows a press: no command, edge, slot or event is of a generation above the
  window's (`NothingFromTheFuture`), the commands not yet recorded will be recorded in
  the order of their generations (`EdgesRise`), and the edge of the newest press is of
  its kind (`EdgeFits`), so `AnsweredBy` lets only the awaited phase out first. From
  there to the window `AnswersInTurn` keeps the order: while a press is waited for,
  the phase that settles it precedes any that would take it back. `SlotsFit` keeps a
  late group or tone receipt from breaking that; a refused edge stays refused because
  the slot it was recorded with was never sent.
- **`SettingsInv`.** `SavedOrTold` and `NewestOnDisk` speak of a worker at rest. Until
  then the newest generation is somewhere: in the queue, pending or being written
  (`NewestUnderWay`), and a save with the newest generation carries the newest value
  (`SaveTrue`). Saves travel in the order of their generations (`QueueRising`,
  `JobsRising`), so an older value is never written over it. An outcome nobody has
  seen yet is in the actor's queue (`ToBeTold`), and `ReportTrue` keeps a report of an
  older write from being taken for it. `ExitInv` says why an acknowledged flush is a
  promise kept: it is the last the exit queues, and what stands behind it is newer
  than what was due. For the hotkey, the answer to the newest command says what the
  engine holds (`AnswerTrue`), and until it is heard the command or the answer is
  under way (`KeyShown`); `ChordHeld` ties the engine to Windows.
- **`ConnInv`.** `SetupIsMatched` says that a session is ready only on the answers to
  its own two set-up requests, although no number is ever compared and phase 1
  accepts what is not its answer. It needs to know which answer is read next.
  `ChannelFits` counts it: answers and owed requests carry consecutive numbers that
  end at the last one sent, and `LastRead` is the number of the last answer taken.
  A late answer therefore shifts every later one, for which `LagHasACause` names the
  fault. `AnswersAreOwn` carries the argument over phase 1: phase 2 is asked at most
  once, so the only answer it accepts is its own, and if phase 1 took another's, its
  own is still unread and phase 2 meets that one first. The rest follows a call
  through its plan. `Planned` says which step may
  come after which, whatever remains of the plan; `StagesAgree` and `StepsAgree` say
  what each step finds of session, streamer and workers, so a record finds a set-up
  session and a join finds cancelled workers; `TeardownIsLast` keeps the one TEARDOWN
  at the end of the only plan that sends it.
- **`RaopInv`** says the same of an AirPlay 1 session, whose calls are shorter: where
  a call stands says what the receiver knows and which sockets are open
  (`SetupAgrees`, `SocketsAgree`, `StreamAgrees`), and the goodbye is said once
  (`GoodbyeOnce`).

Some theorems hold of behaviours with a hypothesis, which stands in the statement:

| Hypothesis | Used by | Why it is needed |
|---|---|---|
| `[]Room`, `[]UpdateRoom`: the update queue has room for what one step reports | `HonestReports`, `ControllerTypeCorrect`, `ShowsWhatIsHeld` | `push_update` drops what a full queue of 256 does not take; then the window really differs from the session until the next edge |
| `[]RequestRoom`: the request queue has room for one more | `TasksCatchUp`, `ShowsWhatIsHeld` | a refused reconcile is not repeated, and `pending_desired` has changed all the same |
| no platform edge (`NoPlatformEdge`) | `HonestReports` | a rebuild mints a generation of its own, and a reconcile queued meanwhile may be dropped as stale; the controller of `Backend` never sends one, so `BackendSafe` does without |
| no suspend (`~BeginSuspend`) | `ShowsWhatIsHeld` | `suspend_overtakes_start` shows that the promise fails with one |

The runs of the backend are instances of these hypotheses: their queues are as large
as the bounded number of steps can fill, and the run of `ShownIsHeld` has no suspend.

Assumptions beyond types and positive bounds: the value for "no receiver" is not a
receiver; `Receivers`, `Speakers` and `Devices` are finite; a rejoin is spaced by a positive
time; a jitter is below one hundred percent; `Default` and `Legacy` are documents;
`HistorySize` divides `SeqSpace`; the PIN the receiver shows is one a user may
type, and there is a first signing order to try; the terminal's receivers
(`Rooms`) are positive numbers, so that "nobody" is none of them. Each is a fact of the code's constants or of a
finite machine. TLC evaluates them in the runs.

Only model-checked:

- liveness (`RequestsConcluded`, `StopIsObeyed`, `GateOpensAgain`,
  `ServicesSettle`, `ServicesStop`, `TroubleIsNoticed`, `ClientSettles`): fairness
  and ENABLED are out of the prover's reach;
- what needs induction over data: `NoSampleLost` of the live queue and the sample
  order of the audio path concatenate sequences of any length, and the drift and
  the percentiles of the meters sum and sort;
- what is not proved yet: see the plan.

## 5. What is not modelled

`PROJECT.json` lists every part with its reason. In short: signal processing,
codecs, ciphers and measurement arithmetic (numeric code without protocol state);
rendering, layout, translation, themes, tray and operating-system glue; the older
device service the backend replaced; the Bluetooth crate beyond its capture thread;
the receiving half of RTP; pairing variants that only examples use. Within the
modelled parts: commands that save and delete several groups; the controller's own
shutdown sequence; a panic of a start task; futures of an AirPlay 1 call dropped
half way; equalizer, help, list cursors and file browser of the terminal client;
the levels and diagnostics tiles of the window; the capacity of the bridge's outbox.

## 6. Reading order

`SessionContract`, `SessionSupervisor` (actions, then properties),
`ReceiverMachine`, `Backend`; then any service or client module, which stands
alone; then its proofs. `MCServices`, `MCClient` and `MCShell` last.

## 7. Plan

Done: every component of section 1 is modelled, in whole or in the part its table
row in `PROJECT.json` names; the theorems of section 4.

What the proofs have left, in this order: the parts of `ClocksTrue` (the clients'
drift is a fold over samples); `DiagnosticsSafe`, whose exports and ring are sorted
and folded sequences of events; the rest of `AudioSafe`; the windows' parts
of `ShellHonest` (`WindowHonest`, `WindowSafe`). A property of an `MC` module guards its components by `part`; the
theorem states the component's own.
