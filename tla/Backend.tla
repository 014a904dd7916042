------------------------------- MODULE Backend -------------------------------
(***************************************************************************)
(* The backend controller of apps/openaircast/src/backend/controller.rs    *)
(* composed with the session supervisor: the actor that owns the desired   *)
(* set, the run intent, the receiver rows and the suspend gate, and that   *)
(* talks to the supervisor only through the request and update queues.     *)
(*                                                                         *)
(* A turn of the actor is one action: it drains the command queue into one *)
(* batch, or takes one update or timer.  Time is abstracted here: an armed *)
(* timer may fire at any moment after it is armed.  Of a level change only *)
(* the requests it puts into the queue matter here.                        *)
(***************************************************************************)
EXTENDS SessionSupervisor, ReceiverMachine

CONSTANTS MaxCommands,  \* bound: batches and platform edges the shell sends
          MaxSuspends,  \* bound: how often Windows suspends
          MaxFlaps      \* bound: discovery changes

ASSUME BackendAssumption ==
  /\ MaxCommands \in Nat /\ MaxSuspends \in Nat /\ MaxFlaps \in Nat
  /\ IsFiniteSet(Receivers)

VARIABLES
  desired,          \* snapshot.desired_members
  intent,           \* snapshot.run_intent
  castable,         \* receivers whose inventory entry is available and castable
  machines,         \* the receiver machines
  pending_desired,  \* what the last reconcile asked for
  members,          \* self.active, published as session.active
  primary,          \* self.primary
  phase,            \* session.phase
  live,             \* live_session_generation, 0 for None
  suspended,        \* the suspend gate
  resume_at,        \* "none", "watchdog" or "settle"
  auto_connect,     \* startup_auto_connect_until is armed
  commands, suspends, flaps   \* bounds only

rows    == <<machines>>
session == <<members, primary, phase>>
gates   == <<suspended, resume_at, auto_connect>>
bounds  == <<commands, suspends, flaps>>
minted  == <<session_generation, live, pending_desired>>
ctlVars == <<desired, intent, castable, machines, pending_desired, members,
             primary, phase, live, suspended, resume_at, auto_connect,
             commands, suspends, flaps>>
allVars == <<vars, ctlVars>>

-----------------------------------------------------------------------------
(* Rows.                                                                   *)

\* drive: what one operation made of the machines of some receivers.
Drive(ms, done) == [r \in Receivers |-> IF r \in DOMAIN done
                                        THEN done[r].machine ELSE ms[r]]

\* rebuild_receiver_rows: a receiver nobody wants is released, and forgotten
\* once its service is gone too; a machine that does not exist is a new one.
RebuildRows(ms, d, c) ==
  [r \in Receivers |-> IF r \in d THEN ms[r]
                       ELSE IF r \in c THEN Release(ms[r])
                       ELSE NewMachine(FALSE)]

\* note_receiver_failure.
NoteFailure(m, retryable) ==
  IF retryable THEN WaitRetry(Fail(m, TRUE).machine) ELSE Fail(m, FALSE)

\* retry_now, then release_backoff.
Retried(ms, R) == [r \in R |-> RetryNow(ms[r])]

ReleaseBackoff(ms) == Drive(ms, Retried(ms, Receivers))

RoleOf(p, ms, r) ==
  IF Cardinality(ms) <= 1 THEN "Single"
  ELSE IF r = p THEN "Primary" ELSE "Secondary"

DerivePhase(d, act, i) ==
  IF i = "Stopped" THEN "Stopped"
  ELSE IF d # {} /\ act = d THEN "Streaming"
  ELSE IF act # {} THEN "Degraded"
  ELSE "Starting"

-----------------------------------------------------------------------------
(* request_reconcile.  It runs last in its handler and so reads the state  *)
(* the handler leaves: the primed variables.                               *)

\* Faulty: a start still on its way is overlooked.
NothingToDoNow == suspended' \/ (intent' = "Stopped" /\ members' = {})

NothingToDo ==
  suspended' \/ (intent' = "Stopped" /\ members' = {} /\ pending_desired = {})

Wanted == IF intent' = "Stopped" THEN {}
          ELSE {r \in desired' \cap castable' : ~InBackoff(machines'[r])}

\* Faulty: a live generation is reused.
RequestReconcileReusing ==
  IF NothingToDo THEN UNCHANGED <<minted, queue>>
  ELSE LET g == IF live = 0 THEN session_generation + 1 ELSE session_generation
       IN  /\ session_generation' = g
           /\ live' = g
           /\ pending_desired' = Wanted
           /\ TrySend(Reconcile(g, Wanted, intent' = "Stopped"))

RequestReconcile ==
  IF NothingToDo THEN UNCHANGED <<minted, queue>>
  ELSE /\ session_generation' = session_generation + 1
       /\ live' = session_generation + 1
       /\ pending_desired' = Wanted
       /\ TrySend(Reconcile(session_generation + 1, Wanted,
                            intent' = "Stopped"))

ReconcileIf(needed) ==
  IF needed THEN RequestReconcile ELSE UNCHANGED <<minted, queue>>

\* forward_effective_volumes: one request per member, in any order, as far as
\* the queue has room.
ForwardLevels(ms) ==
  \E order \in {f \in [1..Cardinality(ms) -> ms] :
                  \A r \in ms : \E i \in DOMAIN f : f[i] = r} :
    LET room == IF running THEN RequestCapacity - Len(requests) ELSE 0
        sends == [i \in 1..Cardinality(ms) |-> SetVolume(order[i])]
    IN  /\ requests' = requests \o
              (IF Len(sends) <= room THEN sends ELSE SubSeq(sends, 1, room))
        /\ UNCHANGED asked

-----------------------------------------------------------------------------
(* Commands.  One batch holds at most one value per scalar; Unchanged is a *)
(* slot nobody filled.                                                     *)

Unchanged == "unchanged"
Command   == /\ commands < MaxCommands
             /\ commands' = commands + 1
             /\ UNCHANGED <<suspends, flaps>>

\* The scalar slots of process_batch that can restart the session.
ApplyScalars(d, i) ==
  /\ desired' = d
  /\ intent' = IF i = Unchanged THEN intent ELSE i
  /\ auto_connect' = (auto_connect /\ i = Unchanged)
  /\ machines' = IF d # desired THEN RebuildRows(machines, d, castable)
                 ELSE machines
  /\ UNCHANGED <<castable, session>>

ScalarsChanged == desired' # desired \/ intent' # intent

Batch ==
  \E d \in SUBSET Receivers, i \in {"Running", "Stopped", Unchanged} :
    /\ Command
    /\ d # desired \/ i # Unchanged
    /\ ApplyScalars(d, i)
    /\ UNCHANGED <<suspended, resume_at>>
    /\ ReconcileIf(ScalarsChanged)
    /\ UNCHANGED <<supVars, sent>>

\* A latency preset or a calibration profile was saved: same membership, new
\* generation.
ReconfigureBatch ==
  /\ Command
  /\ UNCHANGED <<desired, intent, castable, rows, session, gates>>
  /\ RequestReconcile
  /\ UNCHANGED <<supVars, sent>>

\* Master volume, mute or a receiver level.
ChangeLevels ==
  /\ Command
  /\ ForwardLevels(members)
  /\ UNCHANGED <<desired, intent, castable, rows, session, gates, minted,
                 supVars, sent>>

\* RetryReceiver.
RetryReceiver ==
  \E r \in Receivers :
    /\ Command
    /\ UNCHANGED <<desired, intent, castable, session, gates>>
    /\ machines' = RebuildRows(Drive(machines, Retried(machines, {r})), desired,
                               castable)
    /\ RequestReconcile
    /\ UNCHANGED <<supVars, sent>>

\* Faulty: the suspend counts on Windows to report the resume.
BeginSuspendUnwatched ==
  \E d \in SUBSET Receivers, i \in {"Running", "Stopped", Unchanged} :
    /\ suspends < MaxSuspends
    /\ suspends' = suspends + 1
    /\ ApplyScalars(d, i)
    /\ suspended' = TRUE
    /\ resume_at' = "none"
    /\ TrySend(Suspend)
    /\ UNCHANGED <<supVars, sent, minted, commands, flaps>>

\* begin_suspend, alone or after the scalars of the batch that carries it: the
\* batch reconciles last, and the gate is shut by then.
BeginSuspend ==
  \E d \in SUBSET Receivers, i \in {"Running", "Stopped", Unchanged} :
    /\ suspends < MaxSuspends
    /\ suspends' = suspends + 1
    /\ ApplyScalars(d, i)
    /\ suspended' = TRUE
    /\ resume_at' = "watchdog"
    /\ TrySend(Suspend)
    /\ UNCHANGED <<supVars, sent, minted, commands, flaps>>

\* begin_resume: Windows may report it without a suspend before it.
BeginResume ==
  /\ Command
  /\ resume_at' = "settle"
  /\ UNCHANGED <<desired, intent, castable, rows, session, suspended,
                 auto_connect, minted, queue, supVars, sent>>

\* apply_network_change with a moved local binding; without one, or asleep, it
\* only restarts discovery.
NetworkChange ==
  /\ Command
  /\ ~suspended /\ intent = "Running"
  /\ machines' = ReleaseBackoff(machines)
  /\ UNCHANGED <<desired, intent, castable, session, gates>>
  /\ RequestReconcile
  /\ UNCHANGED <<supVars, sent>>

-----------------------------------------------------------------------------
(* Timers.                                                                 *)

\* finish_resume, on the settle after a resume or on the suspend watchdog.
FinishResume ==
  /\ resume_at # "none"
  /\ resume_at' = "none"
  /\ suspended' = FALSE
  /\ machines' = ReleaseBackoff(machines)
  /\ UNCHANGED <<desired, intent, castable, bounds, session,
                 auto_connect>>
  /\ ReconcileIf(intent = "Running")
  /\ UNCHANGED <<supVars, sent>>

\* rejoin_candidates: whom the automatic rejoin may pull back in, once their
\* deadlines have passed.
RejoinCandidates ==
  IF suspended \/ intent # "Running" THEN {}
  ELSE {r \in desired \cap castable : AwaitingRejoin(machines[r])}

FireDueRetries ==
  \E due \in SUBSET RejoinCandidates \ {{}} :
    /\ machines' = RebuildRows(Drive(machines, Retried(machines, due)), desired,
                               castable)
    /\ UNCHANGED <<desired, intent, castable, bounds, session, gates>>
    /\ RequestReconcile
    /\ UNCHANGED <<supVars, sent>>

\* apply_startup_auto_connect, its expiry included.
StartupAutoConnect ==
  /\ auto_connect /\ ~suspended
  /\ auto_connect' = FALSE
  /\ UNCHANGED <<desired, castable, rows, bounds, session, suspended,
                 resume_at, supVars, sent>>
  /\ \/ UNCHANGED <<intent, minted, queue>>
     \/ /\ intent = "Stopped" /\ desired \cap castable # {}
        /\ intent' = "Running"
        /\ RequestReconcile

-----------------------------------------------------------------------------
(* Discovery: apply_discovery_update and refresh_receivers.                *)

\* sync_service_availability.
SyncAvailability(ms, c) ==
  [r \in Receivers |->
     IF ms[r].service_available = (r \in c) THEN ms[r]
     ELSE SetServiceAvailable(ms[r], r \in c).machine]

ServiceChanges ==
  \E r \in Receivers :
    /\ flaps < MaxFlaps /\ flaps' = flaps + 1
    /\ castable' = (castable \cup {r}) \ (castable \cap {r})
    /\ LET known == RebuildRows(machines, desired, castable')
       IN  machines' = RebuildRows(SyncAvailability(known, castable'),
                                   desired, castable')
    /\ UNCHANGED <<desired, intent, commands, suspends, session, gates, minted,
                   queue, supVars, sent>>

-----------------------------------------------------------------------------
(* apply_session_update, one action per edge.                              *)

Take(kind) ==
  /\ updates # <<>> /\ Head(updates).kind = kind
  /\ updates' = Tail(updates)
  /\ UNCHANGED <<owner, batch, tasks, retained, failed, cancelled, running,
                 announced, sent, desired, intent, castable, gates, bounds>>

\* The generation counter is aligned with what the supervisor announces.
Align(g) ==
  LET n == IF g > session_generation THEN g ELSE session_generation
  IN  session_generation' = n /\ live' = n

TakeStarting ==
  /\ Take("Starting")
  /\ Align(Head(updates).generation)
  /\ LET begun == [r \in pending_desired |-> BeginGeneration(machines[r])]
     IN  machines' = RebuildRows(Drive(machines, begun), desired, castable)
  /\ phase' = "Starting"
  /\ UNCHANGED <<members, primary, pending_desired, queue>>

\* Active: the members stream at their levels, the setup failures and every
\* receiver of the pending set that turns up in neither list go into backoff.
TakeActive ==
  /\ Take("Active")
  /\ LET u == Head(updates)
         Stream(r) == EnterStreaming(machines[r],
                                     RoleOf(u.primary, u.members, r))
         streamed == [r \in Receivers |-> IF r \in u.members
                        THEN Stream(r).machine ELSE machines[r]]
         fatal    == u.failures \cap u.fatal
         missing  == pending_desired \ (u.members \cup u.failures)
         blamed   == [r \in Receivers |->
                        IF r \in u.failures \cup missing
                        THEN NoteFailure(streamed[r], r \notin fatal).machine
                        ELSE streamed[r]]
     IN  /\ primary' = u.primary
         /\ members' = u.members
         /\ machines' = RebuildRows(blamed, desired, castable)
         /\ phase' = DerivePhase(desired, u.members, intent)
         /\ ForwardLevels(u.members)
  /\ UNCHANGED minted

\* Faulty: the lost primary is still published.
TakeMemberFailedKeepsPrimary ==
  /\ Take("MemberFailed")
  /\ LET u == Head(updates)
         noted == [r \in {u.receiver} |-> NoteFailure(machines[r], TRUE)]
     IN  /\ members' = members \ {u.receiver}
         /\ primary' = primary
         /\ machines' = RebuildRows(Drive(machines, noted), desired, castable)
         /\ phase' = DerivePhase(desired, members', intent)
         /\ ReconcileIf(u.primary)

\* Faulty: the failed member is still published.
TakeMemberFailedKeepsMember ==
  /\ Take("MemberFailed")
  /\ LET u == Head(updates)
         noted == [r \in {u.receiver} |-> NoteFailure(machines[r], TRUE)]
     IN  /\ members' = members
         /\ primary' = IF u.primary THEN NoReceiver ELSE primary
         /\ machines' = RebuildRows(Drive(machines, noted), desired, castable)
         /\ phase' = DerivePhase(desired, members', intent)
         /\ ReconcileIf(u.primary)

\* MemberFailed: the loss of the primary restarts the survivors.
TakeMemberFailed ==
  /\ Take("MemberFailed")
  /\ LET u == Head(updates)
         noted == [r \in {u.receiver} |-> NoteFailure(machines[r], TRUE)]
     IN  /\ members' = members \ {u.receiver}
         /\ primary' = IF u.primary /\ primary = u.receiver THEN NoReceiver
                       ELSE primary
         /\ machines' = RebuildRows(Drive(machines, noted), desired, castable)
         /\ phase' = DerivePhase(desired, members', intent)
         /\ ReconcileIf(u.primary)

\* MemberControlFailed is a diagnostic only.
TakeMemberControlFailed ==
  /\ Take("MemberControlFailed")
  /\ UNCHANGED <<rows, session, minted, queue>>

TakeRecovering ==
  /\ Take("Recovering")
  /\ Align(Head(updates).generation)
  /\ phase' = "Restarting"
  /\ UNCHANGED <<rows, members, primary, pending_desired, queue>>

TakeStopped ==
  /\ Take("Stopped")
  /\ live' = 0
  /\ members' = {}
  /\ primary' = NoReceiver
  /\ machines' = RebuildRows([r \in Receivers |-> LeaveSession(machines[r])],
                             desired, castable)
  /\ phase' = "Stopped"
  /\ UNCHANGED <<session_generation, pending_desired, queue>>

-----------------------------------------------------------------------------

\* Every launch starts Stopped, with the persisted selection; discovery may
\* have answered already.
BackendInit ==
  /\ SupInit
  /\ session_generation = 0 /\ sent = 0
  /\ desired \in SUBSET Receivers
  /\ intent = "Stopped"
  /\ castable \in SUBSET Receivers
  /\ machines = [r \in Receivers |-> NewMachine(r \in castable)]
  /\ pending_desired = {}
  /\ members = {} /\ primary = NoReceiver
  /\ phase = "Stopped"
  /\ live = 0
  /\ suspended = FALSE /\ resume_at = "none"
  /\ auto_connect \in BOOLEAN
  /\ commands = 0 /\ suspends = 0 /\ flaps = 0

\* What the supervisor can be made to do by this controller, which never sends
\* Probe, NetworkChanged or Resume.
SupervisorStep ==
  \/ StartGeneration \/ StartCompletes \/ AbortedTaskEnds
  \/ AdoptFailure \/ AdoptSuccess \/ Receive \/ ProbeDue
  \/ ActivationFails \/ ActivationSucceeds
  \/ ActivationConsumes \/ ActivationSuperseded
  \/ ApplySetVolume \/ ApplySuspend

TakeUpdateStep ==
  \/ TakeStarting \/ TakeActive \/ TakeMemberFailed
  \/ TakeMemberControlFailed \/ TakeRecovering \/ TakeStopped

\* The bound MaxGeneration spares the end of a suspend, which nothing but its
\* timer may hold back.
WithinGenerations == suspended \/ session_generation' <= MaxGeneration

ControllerStep ==
  /\ \/ Batch \/ ReconfigureBatch \/ ChangeLevels \/ RetryReceiver
     \/ BeginSuspend \/ BeginResume \/ NetworkChange
     \/ FinishResume \/ FireDueRetries \/ StartupAutoConnect \/ ServiceChanges
     \/ TakeUpdateStep
  /\ WithinGenerations

BackendNext == (SupervisorStep /\ UNCHANGED ctlVars) \/ ControllerStep

BackendSpec == BackendInit /\ [][BackendNext]_allVars

-----------------------------------------------------------------------------
(* Properties.                                                             *)

\* Every variable of the controller has its type, and the published primary is
\* a published member.
ControllerTypeOK ==
  /\ desired \in SUBSET Receivers /\ castable \in SUBSET Receivers
  /\ pending_desired \in SUBSET Receivers /\ members \in SUBSET Receivers
  /\ intent \in {"Running", "Stopped"}
  /\ machines \in [Receivers -> Machines]
  /\ primary \in members \cup {NoReceiver}
  /\ phase \in {"Stopped", "Starting", "Streaming", "Degraded", "Restarting"}
  /\ live \in Nat
  /\ suspended \in BOOLEAN /\ auto_connect \in BOOLEAN
  /\ resume_at \in {"none", "watchdog", "settle"}
  /\ commands \in Nat /\ suspends \in Nat /\ flaps \in Nat

\* Nothing is on its way between the two tasks: what they hold now is final
\* until the next outside event or timer.
Quiet == Idle /\ inFlight = 0 /\ requests = <<>> /\ updates = <<>>
Awake == ~suspended /\ resume_at = "none"

\* The two generation counters never cross: every reconcile on its way to the
\* supervisor is newer than its gate, so none is dropped as stale.
CountersAligned ==
  /\ gate <= session_generation
  /\ \A i \in 1..Len(requests) : IsReconcile(requests[i]) =>
        requests[i].generation \in (gate + 1)..session_generation
  /\ newest # NoReconcile =>
        newest.generation \in (gate + 1)..session_generation

\* The supervisor builds towards the set of the controller's last reconcile:
\* nothing the controller asked for is forgotten once the queue is drained.
BuildsWhatWasAsked ==
  Idle /\ requests = <<>> => pending_desired =
    IF retained = NoReconcile THEN {} ELSE retained.desired

\* A live session is shown as it is: once both queues are drained the published
\* members are the transport's members that have not failed.
LiveSessionIsShown ==
  Quiet /\ active # 0 => members = built.members \ failed

\* What Stop promises: with nothing under way and the machine awake, a stopped
\* app has no session ("none of them is a reason to put audio back on a
\* receiver the user stopped").
StoppedMeansSilent ==
  Quiet /\ Awake /\ intent = "Stopped" => active = 0

\* "A suspended backend started a session" must not happen: with everything
\* sent before the sleep served, the machine sleeps without a session.
AsleepMeansNoSession == Quiet /\ suspended => active = 0

-----------------------------------------------------------------------------
(* Fairness: both tasks are polled, starts end, and armed timers fire.     *)

BackendFairSpec ==
  /\ BackendSpec
  /\ WF_allVars(LoopStep /\ UNCHANGED ctlVars)
  /\ WF_allVars(StartCompletes /\ UNCHANGED ctlVars)
  /\ WF_allVars(TakeUpdateStep /\ WithinGenerations)
  /\ WF_allVars(FinishResume /\ WithinGenerations)

\* Stop is obeyed: if the user leaves the app stopped, what the supervisor owns
\* (a start under way included) ends for good.
StopIsObeyed == <>[](intent = "Stopped") => <>[](Owned = {})

\* The suspend gate never stays shut, whether or not Windows reports the
\* resume: "it may never depend on a broadcast that Windows is free to swallow".
GateOpensAgain == suspended ~> ~suspended

\* The window's side of the session (LiveSessionIsShown, StoppedMeansSilent): when
\* both tasks are quiet, what is published is what the supervisor holds.
ShownIsHeld == LiveSessionIsShown /\ StoppedMeansSilent

\* The two tasks stay in step (CountersAligned, BuildsWhatWasAsked): a reconcile
\* is never dropped as stale, and what is built is what was asked last.
CatchesUp == CountersAligned /\ BuildsWhatWasAsked
============================================================================
