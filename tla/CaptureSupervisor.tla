-------------------------- MODULE CaptureSupervisor --------------------------
(***************************************************************************)
(* The capture supervisor (apps/openaircast/src/backend/capture.rs): one   *)
(* worker thread per capture generation, a watch channel of controls in    *)
(* which only the newest survives, a bounded update queue, the retry       *)
(* ladder, the input meter shared with the worker threads, and what the    *)
(* controller shows of it (backend/controller.rs).                         *)
(*                                                                         *)
(* Supervisor and controller are tasks of one thread, so each step between *)
(* two awaits is one action; the worker threads run freely.                *)
(***************************************************************************)
EXTENDS Naturals, Sequences

CONSTANTS Endpoints,       \* render endpoints of the machine
          SystemDefault,   \* AudioEndpointPreference::SystemDefault
          NoEndpoint,
          LadderLength,    \* CAPTURE_RETRY_LADDER.len()
          CaptureCapacity, \* SUPERVISOR_CAPACITY
          MaxCaptures,     \* bound: capture generations
          MaxControls      \* bound: control edges

ASSUME CaptureAssumption ==
  /\ Endpoints # {} /\ SystemDefault \notin Endpoints /\ NoEndpoint \notin Endpoints
  /\ LadderLength \in Nat \ {0} /\ CaptureCapacity \in Nat \ {0}
  /\ MaxCaptures \in Nat /\ MaxControls \in Nat

VARIABLES
  control,      \* [value, changed]: the watch channel and its unseen mark
  controls,     \* control edges sent, for the bound
  system_asleep,       \* suspended, of the controller
  phase,        \* where run_supervisor awaits
  captured,     \* CaptureState: [generation, state, endpoint]
  preference,   \* CaptureState.preference
  opening,      \* the preference the attempt under way was opened with
  ladder,       \* ladder_index
  worker,       \* worker threads by capture generation
  metered,      \* capture_generation each worker stamps on its peaks
  meter,        \* CaptureInputWindow: [generation, peak], peak names its recorder
  feed,         \* the CaptureUpdate queue
  source        \* audio_source of the snapshot: [state, endpoint, peak]

captureVars == <<control, controls, system_asleep, phase, captured, preference, opening,
                 ladder, worker, metered, meter, feed, source>>

Captures == 1..MaxCaptures
Preferences == Endpoints \cup {SystemDefault}
Controls == {"None", "EndpointChange", "Suspend", "Resume", "Stop"}
Awaiting == {"opening", "readying", "capturing", "ladder"}
NoWindow == [generation |-> 0, peak |-> 0]

SourceStates == {"Unavailable", "Capturing", "Recovering"}
MaybeEndpoint == Endpoints \cup {NoEndpoint}

CaptureState == [generation : 0..MaxCaptures, state : SourceStates, endpoint : MaybeEndpoint]

\* What the updates make of the audio source in the snapshot.
AudioSourceSnapshot == [state : SourceStates, endpoint : MaybeEndpoint, peak : 0..MaxCaptures]

CaptureUpdate ==
  [kind : {"Started", "Ready", "Recovering", "Suspended", "Stopped"},
   generation : 0..MaxCaptures, endpoint : MaybeEndpoint]

\* The bounded update queue, which try_send never overfills.
CaptureFeed ==
  /\ Len(feed) <= CaptureCapacity
  /\ \A i \in 1..Len(feed) : feed[i] \in CaptureUpdate

\* A worker runs on a thread of its own until it sees its token cancelled.
CaptureWorker ==
  worker \in [Captures -> {"none", "starting", "running", "cancelled", "ended"}]

\* The shared peak window and the generation each worker read from it.
CaptureInputMeter ==
  /\ meter \in [generation : 0..MaxCaptures, peak : 0..MaxCaptures]
  /\ metered \in [Captures -> 0..MaxCaptures]

\* Where the supervisor is between two sends, and its place on the ladder.
Flow ==
  /\ phase \in Awaiting \cup {"next", "parked", "ended"}
  /\ ladder \in 0..LadderLength

CaptureTypeOK ==
  /\ control \in [value : Controls, changed : BOOLEAN]
  /\ system_asleep \in BOOLEAN
  /\ captured \in CaptureState
  /\ preference \in Preferences /\ opening \in Preferences
  /\ Flow /\ CaptureWorker /\ CaptureInputMeter /\ CaptureFeed
  /\ source \in AudioSourceSnapshot

gen == captured.generation

-----------------------------------------------------------------------------
(* The update queue and the worker's token.                                *)

Update(kind, endpoint) == [kind |-> kind, generation |-> gen, endpoint |-> endpoint]
Room == Len(feed) < CaptureCapacity

\* child.cancel(): the thread notices at its next turn.
Cancelled == [worker EXCEPT ![gen] =
                IF @ \in {"starting", "running"} THEN "cancelled" ELSE @]

-----------------------------------------------------------------------------
(* The supervisor task.                                                    *)

\* Faulty: the next attempt reopens what the previous one was asked for.
NextGenerationStale ==
  /\ phase = "next" /\ gen < MaxCaptures
  /\ captured' = [captured EXCEPT !.generation = gen + 1]
  /\ meter' = [generation |-> gen + 1, peak |-> 0]
  /\ IF Room
     THEN /\ feed' = Append(feed, [Update("Started", NoEndpoint)
                                     EXCEPT !.generation = gen + 1])
          /\ phase' = "opening"
     ELSE UNCHANGED <<feed, phase>>
  /\ UNCHANGED <<control, controls, system_asleep, preference, opening, ladder, worker,
                 metered, source>>

\* The head of the outer loop.  A full queue costs a generation and yields.
NextGeneration ==
  /\ phase = "next" /\ gen < MaxCaptures
  /\ captured' = [captured EXCEPT !.generation = gen + 1]
  /\ meter' = [generation |-> gen + 1, peak |-> 0]
  /\ IF Room
     THEN /\ feed' = Append(feed, [Update("Started", NoEndpoint)
                                     EXCEPT !.generation = gen + 1])
          /\ phase' = "opening" /\ opening' = preference
     ELSE UNCHANGED <<feed, phase, opening>>
  /\ UNCHANGED <<control, controls, system_asleep, preference, ladder, worker, metered, source>>

\* climb_ladder up to its sleep; a full queue retries at once.
ClimbLadder ==
  /\ captured' = [captured EXCEPT !.state = "Recovering", !.endpoint = NoEndpoint]
  /\ IF Room
     THEN /\ feed' = Append(feed, Update("Recovering", NoEndpoint))
          /\ ladder' = IF ladder < LadderLength THEN ladder + 1 ELSE ladder
          /\ phase' = "ladder"
     ELSE phase' = "next" /\ UNCHANGED <<feed, ladder>>

OpenFails ==
  /\ phase = "opening"
  /\ ClimbLadder
  /\ UNCHANGED <<control, controls, system_asleep, preference, opening, worker, metered,
                 meter, source>>

\* source.open: the worker takes the meter's generation as it finds it.
OpenSucceeds ==
  /\ phase = "opening"
  /\ phase' = "readying"
  /\ worker' = [worker EXCEPT ![gen] = "starting"]
  /\ metered' = [metered EXCEPT ![gen] = meter.generation]
  /\ UNCHANGED <<control, controls, system_asleep, captured, preference, opening, ladder,
                 meter, feed, source>>

\* An explicit endpoint is captured or nothing is; the default may be any.
Resolve(p) == IF p = SystemDefault THEN Endpoints ELSE {p}

WorkerReady ==
  /\ phase = "readying"
  /\ \E e \in Resolve(opening) :
       /\ captured' = [captured EXCEPT !.state = "Capturing", !.endpoint = e]
       /\ IF Room
          THEN /\ feed' = Append(feed, Update("Ready", e))
               /\ phase' = "capturing"
               /\ worker' = [worker EXCEPT ![gen] = "running"]
          ELSE phase' = "next" /\ worker' = Cancelled /\ UNCHANGED feed
  /\ ladder' = 0
  /\ UNCHANGED <<control, controls, system_asleep, preference, opening, metered, meter, source>>

\* The stream would not start, or a running worker's read failed.
WorkerFails ==
  /\ phase \in {"readying", "capturing"}
  /\ worker' = [worker EXCEPT ![gen] = "ended"]
  /\ ClimbLadder
  /\ UNCHANGED <<control, controls, system_asleep, preference, opening, metered, meter, source>>

LadderElapses ==
  /\ phase = "ladder"
  /\ phase' = "next"
  /\ UNCHANGED <<control, controls, system_asleep, captured, preference, opening, ladder,
                 worker, metered, meter, feed, source>>

\* next_control: the newest value, once.
Sees(value) ==
  /\ control.changed /\ control.value = value
  /\ control' = [control EXCEPT !.changed = FALSE]

\* ControlAction::Restart.
Restart ==
  /\ phase \in Awaiting
  /\ Sees("EndpointChange") \/ Sees("Resume")
  /\ phase' = "next"
  /\ worker' = Cancelled
  /\ UNCHANGED <<controls, system_asleep, captured, preference, opening, ladder, metered,
                 meter, feed, source>>

\* ControlAction::Suspend and the park; the edge is best effort.
Park ==
  /\ phase \in Awaiting
  /\ Sees("Suspend")
  /\ phase' = "parked"
  /\ worker' = Cancelled
  /\ captured' = [captured EXCEPT !.state = "Unavailable", !.endpoint = NoEndpoint]
  /\ feed' = IF Room THEN Append(feed, Update("Suspended", NoEndpoint)) ELSE feed
  /\ UNCHANGED <<controls, system_asleep, preference, opening, ladder, metered, meter, source>>

ParkedIgnores ==
  /\ phase = "parked"
  /\ Sees("EndpointChange") \/ Sees("Suspend")
  /\ UNCHANGED <<controls, system_asleep, phase, captured, preference, opening, ladder,
                 worker, metered, meter, feed, source>>

Unpark ==
  /\ phase = "parked"
  /\ Sees("Resume")
  /\ phase' = "next" /\ ladder' = 0
  /\ UNCHANGED <<controls, system_asleep, captured, preference, opening, worker, metered,
                 meter, feed, source>>

\* Stop, or every sender gone: cancel all, join the threads, one last edge.
StopCapture ==
  /\ phase \in Awaiting \cup {"parked"}
  /\ Sees("Stop")
  /\ phase' = "ended"
  /\ worker' = [g \in Captures |-> IF worker[g] = "none" THEN "none" ELSE "ended"]
  /\ feed' = IF Room THEN Append(feed, Update("Stopped", NoEndpoint)) ELSE feed
  /\ UNCHANGED <<controls, system_asleep, captured, preference, opening, ladder, metered,
                 meter, source>>

-----------------------------------------------------------------------------
(* The worker threads.                                                     *)

\* record_peak: a stale generation is turned away.
RecordPeak(g) ==
  meter' = IF meter.generation # 0 /\ meter.generation = metered[g]
           THEN [meter EXCEPT !.peak = g] ELSE meter

\* One read of the loop; a cancelled worker may still be inside of it.
WorkerReads ==
  \E g \in Captures :
    /\ worker[g] \in {"running", "cancelled"}
    /\ RecordPeak(g)
    /\ worker' = [worker EXCEPT ![g] = IF @ = "cancelled" THEN "ended" ELSE @]
    /\ UNCHANGED <<control, controls, system_asleep, phase, captured, preference, opening,
                   ladder, metered, feed, source>>

-----------------------------------------------------------------------------
(* The controller.                                                         *)

\* request_control; suspend and stop silence the meter at once.
RequestControl(value) ==
  /\ controls < MaxControls /\ control.value # "Stop"
  /\ controls' = controls + 1
  /\ control' = [value |-> value, changed |-> TRUE]
  /\ meter' = IF value \in {"Suspend", "Stop"} /\ meter.generation = gen
              THEN NoWindow ELSE meter

\* SetAudioEndpoint is durable: while it is saved the supervisor task, which
\* runs on the same thread, consumes the edge before it.
SetAudioEndpoint ==
  /\ ~control.changed
  /\ preference' \in Preferences \ {preference}
  /\ RequestControl("EndpointChange")
  /\ UNCHANGED <<system_asleep, phase, captured, opening, ladder, worker, metered, feed, source>>

BeginSuspendCapture ==
  /\ system_asleep' = TRUE
  /\ RequestControl("Suspend")
  /\ UNCHANGED <<phase, captured, preference, opening, ladder, worker, metered, feed, source>>

FinishResumeCapture ==
  /\ system_asleep /\ system_asleep' = FALSE
  /\ RequestControl("Resume")
  /\ UNCHANGED <<phase, captured, preference, opening, ladder, worker, metered, feed, source>>

ShutdownCapture ==
  /\ RequestControl("Stop")
  /\ UNCHANGED <<system_asleep, phase, captured, preference, opening, ladder, worker, metered,
                 feed, source>>

\* apply_capture_update.
Shows(u) ==
  CASE u.kind = "Ready" -> [state |-> "Capturing", endpoint |-> u.endpoint, peak |-> 0]
    [] u.kind = "Recovering" -> [state |-> "Recovering", endpoint |-> NoEndpoint, peak |-> 0]
    [] u.kind \in {"Suspended", "Stopped"} ->
         [state |-> "Unavailable", endpoint |-> NoEndpoint, peak |-> 0]
    [] u.kind = "Started" -> [source EXCEPT !.peak = 0]

ApplyCaptureUpdate ==
  /\ feed # <<>>
  /\ feed' = Tail(feed)
  /\ source' = Shows(Head(feed))
  /\ UNCHANGED <<control, controls, system_asleep, phase, captured, preference, opening,
                 ladder, worker, metered, meter>>

\* take_input_telemetry and apply_capture_telemetry.
Telemetry ==
  /\ source' = [source EXCEPT !.peak =
       IF captured.state = "Capturing" /\ meter.generation = gen THEN meter.peak ELSE 0]
  /\ meter' = IF meter.generation = gen THEN [meter EXCEPT !.peak = 0] ELSE meter
  /\ UNCHANGED <<control, controls, system_asleep, phase, captured, preference, opening,
                 ladder, worker, metered, feed>>

-----------------------------------------------------------------------------
CaptureInit ==
  /\ control = [value |-> "None", changed |-> FALSE] /\ controls = 0
  /\ system_asleep = FALSE
  /\ phase = "next"
  /\ captured = [generation |-> 0, state |-> "Unavailable", endpoint |-> NoEndpoint]
  /\ preference = SystemDefault /\ opening = SystemDefault
  /\ ladder = 0
  /\ worker = [g \in Captures |-> "none"]
  /\ metered = [g \in Captures |-> 0]
  /\ meter = NoWindow
  /\ feed = <<>>
  /\ source = [state |-> "Unavailable", endpoint |-> NoEndpoint, peak |-> 0]

SupervisorTask ==
  NextGeneration \/ OpenFails \/ OpenSucceeds \/ WorkerReady \/ WorkerFails
    \/ LadderElapses \/ Restart \/ Park \/ ParkedIgnores \/ Unpark \/ StopCapture

CaptureNext ==
  \/ SupervisorTask \/ WorkerReads
  \/ SetAudioEndpoint \/ BeginSuspendCapture \/ FinishResumeCapture \/ ShutdownCapture
  \/ ApplyCaptureUpdate \/ Telemetry

\* The runtime polls a woken task; open, readiness and the timer come back.
CaptureFairness ==
  /\ WF_captureVars(NextGeneration)
  /\ WF_captureVars(OpenFails \/ OpenSucceeds)
  /\ WF_captureVars(phase = "readying" /\ (WorkerReady \/ WorkerFails))
  /\ WF_captureVars(LadderElapses)
  /\ WF_captureVars(Restart \/ Park \/ ParkedIgnores \/ Unpark \/ StopCapture)
  /\ WF_captureVars(ApplyCaptureUpdate)

-----------------------------------------------------------------------------
(* Properties.                                                             *)

\* Two loopback streams never feed the bridge at once: a worker that has not
\* been told to stop belongs to the generation the supervisor is waiting on,
\* across swaps, overload, failures and suspends.
OneLiveWorker ==
  \A g \in Captures : worker[g] \in {"starting", "running"}
    => g = gen /\ phase \in {"readying", "capturing"}

\* The endpoint on the air is the user's newest choice: once no control is
\* unseen, the worker was opened with the stored preference, whichever edges
\* overwrote each other in the watch channel.
CapturesTheChoice ==
  phase \in {"readying", "capturing"} /\ ~control.changed => opening = preference

\* What is shown is what is captured: after the update queue is drained, the
\* snapshot names the supervisor's state although a full queue refuses edges.
SourceShownTruly ==
  feed = <<>> /\ phase \in {"capturing", "ladder"}
    => source.state = captured.state /\ source.endpoint = captured.endpoint

\* A resumed app is not left parked: with no control unseen, a parked
\* supervisor belongs to a sleeping machine.
ParkedMeansAsleep == phase = "parked" /\ ~control.changed => system_asleep

\* A suspend is answered: the supervisor parks, or a later edge takes over, or
\* it ends.
SuspendHonoured ==
  (control.value = "Suspend" /\ control.changed)
    ~> (phase \in {"parked", "ended"} \/ control.value # "Suspend"
        \/ gen = MaxCaptures)

\* The input meter shows one capture: what its window holds was recorded by
\* the newest worker, although a cancelled one may still be inside its read.
PeakIsCurrent == meter.peak # 0 => meter.peak = gen

\* One worker, the user's choice, truly shown, with its own peaks,
\* and never parked while awake.
CaptureSafe ==
  /\ CaptureTypeOK /\ OneLiveWorker /\ CapturesTheChoice
  /\ SourceShownTruly /\ ParkedMeansAsleep /\ PeakIsCurrent
=============================================================================
