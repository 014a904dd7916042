-------------------------- MODULE SessionSupervisor --------------------------
(***************************************************************************)
(* The session supervisor of apps/openaircast/src/backend/session.rs: the  *)
(* task that owns at most one AirPlay transport, admits reconciles through *)
(* a strictly increasing generation gate, and reports every lifecycle edge *)
(* to the controller through a bounded queue.                              *)
(*                                                                         *)
(* The supervisor, the start tasks it spawns and the controller share one  *)
(* current-thread runtime, so a handler that does not await is atomic, and *)
(* one that awaits only a teardown reads no shared state after it: every   *)
(* handler is one action.  The one await during which the supervisor still *)
(* takes requests, activate_prepared, is the state `activating'.           *)
(*                                                                         *)
(* The controller is here the most general client of the request queue;    *)
(* Backend.tla replaces it by the real one.                                *)
(*                                                                         *)
(* A definition whose comment starts with `Faulty' is a plausible bug: no  *)
(* specification uses it, it shows which property that bug would violate.  *)
(***************************************************************************)
EXTENDS Naturals, Sequences, FiniteSets

CONSTANTS Receivers,       \* stable receiver identities
          MaxGeneration,   \* bound: generations the client may mint
          MaxInline,       \* bound: non-reconcile requests a client may send
          InlineKinds,     \* the non-reconcile requests this client sends
          RequestCapacity, \* SESSION_REQUEST_CAPACITY
          UpdateCapacity   \* SUPERVISOR_CAPACITY

AllInlineKinds == {"SetVolume", "Probe", "NetworkChanged", "Suspend", "Resume"}

ASSUME SupervisorAssumption ==
  /\ MaxGeneration \in Nat
  /\ MaxInline \in Nat
  /\ InlineKinds \subseteq AllInlineKinds
  /\ RequestCapacity \in Nat \ {0}
  /\ UpdateCapacity \in Nat \ {0}
  /\ "none" \notin Receivers

VARIABLES
  gate,        \* GenerationGate.accepted
  inFlight,    \* generation of the StartAttempt, 0 for None
  outcome,     \* what the attempt's oneshot holds: "pending", "ready", "failed"
  activating,  \* generation inside activate_prepared, 0 for none
  active,      \* generation of the adopted transport, 0 for None
  built,       \* members, primary and setup failures of the owned transport;
               \* the fatal failures are the ones not retryable
  retained,    \* ReconcileParams kept for platform edges, or NoReconcile
  failed,      \* HealthState.failed: members already reported
  inline,      \* coalesced non-reconcile requests still to apply
  newest,      \* the coalesced newest reconcile still to dispatch
  aborting,    \* generations whose start task is aborted and not yet dead
  torn,        \* generations whose transport went through stop_bounded
  discarded,   \* generations whose finished transport was dropped unstopped
  cancelled,   \* the shutdown token
  running,     \* FALSE once run_supervisor returned
  requests,    \* the bounded request queue
  asked,       \* history: the last accepted request that affects the session
  updates,     \* the bounded update queue
  announced,   \* history: the last lifecycle edge that entered `updates'
  session_generation, \* the client's generation counter
  sent         \* inline requests sent so far (bound only)

owner    == <<gate, inFlight, outcome, activating, active, built>>
batch    == <<inline, newest>>
tasks    == <<aborting, torn, discarded>>
client   == <<session_generation, sent>>
supVars  == <<gate, inFlight, outcome, activating, active, built, retained,
              failed, inline, newest, aborting, torn, discarded, cancelled,
              running, updates, announced>>
queue    == <<requests, asked>>
vars     == <<supVars, queue, client>>

-----------------------------------------------------------------------------
(* Messages.                                                               *)

NoReceiver  == "none"
NoBuild     == [members |-> {}, primary |-> NoReceiver, failures |-> {},
                fatal |-> {}]
NoReconcile == [kind |-> "None"]

Reconcile(g, d, t) ==
  [kind |-> "Reconcile", generation |-> g, desired |-> d, teardown_only |-> t]

Starting(g)   == [kind |-> "Starting", generation |-> g]
Recovering(g) == [kind |-> "Recovering", generation |-> g]
Stopped(g)    == [kind |-> "Stopped", generation |-> g]
Active(g, b)  == [kind |-> "Active", generation |-> g, primary |-> b.primary,
                  members |-> b.members, failures |-> b.failures,
                  fatal |-> b.fatal]
MemberFailed(g, r, p) ==
  [kind |-> "MemberFailed", generation |-> g, receiver |-> r, primary |-> p]
MemberControlFailed(g, r) ==
  [kind |-> "MemberControlFailed", generation |-> g, receiver |-> r]

\* The edges that say where a generation stands, as opposed to one member.
Lifecycle(u) == u.kind \in {"Starting", "Recovering", "Stopped", "Active"}

\* push_update, for the edges a handler publishes in a row: a full queue drops
\* the edges it has no room for.  A handler publishes either member reports or
\* lifecycle edges, so the last one accepted tells what was announced.
Accepted(us) ==
  LET room == UpdateCapacity - Len(updates)
  IN  IF Len(us) <= room THEN us ELSE SubSeq(us, 1, room)

PushUpdates(us) ==
  LET acc == Accepted(us)
  IN  /\ updates' = updates \o acc
      /\ announced' = IF acc # <<>> /\ Lifecycle(acc[Len(acc)])
                      THEN acc[Len(acc)] ELSE announced

\* SessionSupervisorHandle::try_send: a full queue rejects with Busy, which
\* every caller ignores.
AffectsSessionGeneration(q) ==
  q.kind \in {"Reconcile", "NetworkChanged", "Suspend", "Resume"}

SetVolume(r) == [kind |-> "SetVolume", receiver |-> r]
Suspend      == [kind |-> "Suspend"]

\* Faulty: the send ignores the capacity.
TrySendUnbounded(q) ==
  /\ requests' = Append(requests, q)
  /\ asked' = IF AffectsSessionGeneration(q) THEN q ELSE asked

TrySend(q) ==
  IF running /\ Len(requests) < RequestCapacity
  THEN /\ requests' = Append(requests, q)
       /\ asked' = IF AffectsSessionGeneration(q) THEN q ELSE asked
  ELSE UNCHANGED <<requests, asked>>

-----------------------------------------------------------------------------
(* Ending what the supervisor owns.                                        *)

\* stop_bounded: the transport of generation g gets its bounded TEARDOWN.
Tear(g) == torn' = torn \cup ({g} \ {0})

\* supersede: the attempt is aborted (its task dies later, and a transport
\* already waiting in the oneshot is dropped with it), the transport stopped.
DropOutcome ==
  discarded' = IF inFlight # 0 /\ outcome = "ready"
               THEN discarded \cup {inFlight} ELSE discarded

AbortTask ==
  aborting' = IF inFlight # 0 /\ outcome = "pending"
              THEN aborting \cup {inFlight} ELSE aborting

\* Faulty: the transport in hand is left running.
SupersedeStartOnly ==
  AbortTask /\ DropOutcome /\ UNCHANGED <<torn, active>>

Supersede ==
  /\ AbortTask /\ DropOutcome
  /\ Tear(active)
  /\ active' = 0

\* start_generation, entered with the gate already passed.
Admit(p) ==
  /\ gate' = p.generation
  /\ Supersede
  /\ retained' = p
  /\ failed' = {}
  /\ built' = NoBuild
  /\ outcome' = "pending"
  /\ inFlight' = IF p.desired = {} THEN 0 ELSE p.generation

\* The edge the admitted generation owes.
AdmissionEdge(p) ==
  IF p.desired # {} THEN Starting(p.generation)
  ELSE IF p.teardown_only THEN Stopped(p.generation)
  ELSE Recovering(p.generation)

\* Faulty: the generation gate is not consulted.
StartGenerationUngated ==
  /\ running /\ inline = <<>> /\ newest # NoReconcile
  /\ newest' = NoReconcile
  /\ Admit(newest) /\ PushUpdates(<<AdmissionEdge(newest)>>)
  /\ UNCHANGED <<activating, inline, cancelled, running, queue, client>>

StartGeneration ==
  /\ running /\ inline = <<>> /\ newest # NoReconcile
  /\ newest' = NoReconcile
  /\ IF newest.generation > gate
     THEN Admit(newest) /\ PushUpdates(<<AdmissionEdge(newest)>>)
     ELSE UNCHANGED <<owner, tasks, retained, failed, updates, announced>>
  /\ UNCHANGED <<activating, inline, cancelled, running, queue, client>>

-----------------------------------------------------------------------------
(* The loop's arms, in their biased order: cancellation, the outcome of    *)
(* the start, requests, probes.                                            *)

Idle == running /\ inline = <<>> /\ newest = NoReconcile /\ activating = 0

\* The spawned start ends.  The task runs only while the supervisor awaits.
StartCompletes ==
  /\ running /\ inline = <<>> /\ newest = NoReconcile
  /\ inFlight # 0 /\ outcome = "pending"
  /\ \/ outcome' = "failed" /\ UNCHANGED built
     \/ \E m \in SUBSET retained.desired \ {{}} :
        \E p \in m \cup {NoReceiver} :
        \E f \in SUBSET (retained.desired \ m) :
          /\ outcome' = "ready"
          /\ built' = [members |-> m, primary |-> p,
                       failures |-> retained.desired \ m, fatal |-> f]
  /\ UNCHANGED <<gate, inFlight, activating, active, batch, tasks, retained,
                 failed, cancelled, running, queue, updates, announced,
                 client>>

\* A task marked by abort reaches its next yield point.
AbortedTaskEnds ==
  /\ \E g \in aborting : aborting' = aborting \ {g}
  /\ UNCHANGED <<owner, batch, torn, discarded, retained, failed, cancelled,
                 running, queue, updates, announced, client>>

\* Faulty: a failed start is only logged.
AdoptFailureSilently ==
  /\ Idle /\ ~cancelled /\ inFlight # 0 /\ outcome = "failed"
  /\ inFlight' = 0
  /\ outcome' = "pending"
  /\ UNCHANGED <<gate, activating, active, built, batch, tasks, retained,
                 failed, cancelled, running, queue, updates, announced, client>>

\* Adopt, failed start.
AdoptFailure ==
  /\ Idle /\ ~cancelled /\ inFlight # 0 /\ outcome = "failed"
  /\ inFlight' = 0
  /\ outcome' = "pending"
  /\ IF inFlight = gate THEN PushUpdates(<<Recovering(inFlight)>>)
     ELSE UNCHANGED <<updates, announced>>
  /\ UNCHANGED <<gate, activating, active, built, batch, tasks, retained,
                 failed, cancelled, running, queue, client>>

\* Adopt, finished start: into activation, or stopped as a stale completion.
AdoptSuccess ==
  /\ Idle /\ ~cancelled /\ inFlight # 0 /\ outcome = "ready"
  /\ inFlight' = 0
  /\ outcome' = "pending"
  /\ IF inFlight = gate
     THEN activating' = inFlight /\ UNCHANGED <<built, torn>>
     ELSE built' = NoBuild /\ Tear(inFlight) /\ UNCHANGED activating
  /\ UNCHANGED <<gate, active, batch, aborting, discarded, retained, failed,
                 cancelled, running, queue, updates, announced, client>>

\* coalesce: the newest reconcile wins, everything else keeps its order.
IsReconcile(q) == q.kind = "Reconcile"
IsInline(q)    == ~IsReconcile(q)

\* Faulty: the oldest queued reconcile is kept.
OldestReconcile(q) ==
  LET at == {i \in 1..Len(q) : IsReconcile(q[i])}
  IN  IF at = {} THEN NoReconcile
      ELSE q[CHOOSE i \in at : \A j \in at : i <= j]

NewestReconcile(q) ==
  LET at   == {i \in 1..Len(q) : IsReconcile(q[i])}
      best == {i \in at : \A j \in at :
                 \/ q[i].generation > q[j].generation
                 \/ q[i].generation = q[j].generation /\ i <= j}
  IN  IF best = {} THEN NoReconcile ELSE q[CHOOSE i \in best : TRUE]

Coalesce ==
  /\ inline' = SelectSeq(requests, IsInline)
  /\ newest' = NewestReconcile(requests)
  /\ requests' = <<>>
  /\ UNCHANGED asked

\* Faulty: requests are polled before the outcome of the start.
ReceiveFirst ==
  /\ Idle /\ ~cancelled /\ requests # <<>>
  /\ Coalesce
  /\ UNCHANGED <<owner, tasks, retained, failed, cancelled, running, updates,
                 announced, client>>

Receive ==
  /\ Idle /\ ~cancelled /\ requests # <<>>
  /\ inFlight # 0 => outcome = "pending"
  /\ Coalesce
  /\ UNCHANGED <<owner, tasks, retained, failed, cancelled, running, updates,
                 announced, client>>

\* run_probe_cycle, whatever its streaks decide: any members not yet reported
\* may fail, each once, in the order the transport answers.
ProbeCycle ==
  \E n \in 0..Cardinality(built.members \ failed) :
  \E report \in [1..n -> built.members \ failed] :
    /\ \A i, j \in 1..n : report[i] = report[j] => i = j
    /\ failed' = failed \cup {report[i] : i \in 1..n}
    /\ PushUpdates([i \in 1..n |->
         MemberFailed(gate, report[i], report[i] = built.primary)])

ProbeDue ==
  /\ Idle /\ ~cancelled /\ requests = <<>> /\ active # 0
  /\ ProbeCycle
  /\ UNCHANGED <<owner, batch, tasks, retained, cancelled, running, queue,
                 client>>

-----------------------------------------------------------------------------
(* activate_prepared: deadline, requests, then the activation itself.      *)

Activating == running /\ ~cancelled /\ activating # 0

\* The activation is over without a session: stop, report, stay down.
ActivationFails ==
  /\ Activating
  /\ activating' = 0
  /\ built' = NoBuild
  /\ Tear(activating)
  /\ PushUpdates(<<Recovering(activating)>>)
  /\ UNCHANGED <<gate, inFlight, outcome, active, batch, aborting, discarded,
                 retained, failed, cancelled, running, queue, client>>

\* Audio released and the transport adopted, without an await in between.  A
\* transport without a primary cannot be: ActivationFails covers that arm.
ActivationSucceeds ==
  /\ Activating /\ requests = <<>> /\ built.primary # NoReceiver
  /\ activating' = 0
  /\ active' = activating
  /\ PushUpdates(<<Active(activating, built)>>)
  /\ UNCHANGED <<gate, inFlight, outcome, built, batch, tasks, retained,
                 failed, cancelled, running, queue, client>>

ConsumedByActivation(q) ==
  \/ q.kind \in {"SetVolume", "Probe"}
  \/ IsReconcile(q) /\ q.generation <= activating

ActivationConsumes ==
  /\ Activating /\ requests # <<>> /\ ConsumedByActivation(Head(requests))
  /\ requests' = Tail(requests)
  /\ UNCHANGED <<supVars, asked, client>>

\* Anything else stops the prepared transport and is replayed through the
\* coalescing path, together with whatever queued up during the stop.
ActivationSuperseded ==
  /\ Activating /\ requests # <<>> /\ ~ConsumedByActivation(Head(requests))
  /\ activating' = 0
  /\ built' = NoBuild
  /\ Tear(activating)
  /\ Coalesce
  /\ UNCHANGED <<gate, inFlight, outcome, active, aborting, discarded,
                 retained, failed, cancelled, running, updates, announced,
                 client>>

-----------------------------------------------------------------------------
(* apply_inline_request, one action per request kind.                      *)

NextInline(kind) ==
  /\ running /\ inline # <<>> /\ Head(inline).kind = kind
  /\ inline' = Tail(inline)
  /\ UNCHANGED <<newest, cancelled, running, queue, client>>

\* A refused level is reported and changes nothing else.
ApplySetVolume ==
  /\ NextInline("SetVolume")
  /\ LET r == Head(inline).receiver
     IN  \/ /\ active # 0 /\ r \in built.members
            /\ PushUpdates(<<MemberControlFailed(gate, r)>>)
         \/ UNCHANGED <<updates, announced>>
  /\ UNCHANGED <<owner, tasks, retained, failed>>

ApplyProbe ==
  /\ NextInline("Probe")
  /\ IF active # 0 THEN ProbeCycle
     ELSE UNCHANGED <<failed, updates, announced>>
  /\ UNCHANGED <<owner, tasks, retained>>

\* rebuild_for_cause, for NetworkChanged and Resume.
Rebuild(kind) ==
  /\ NextInline(kind)
  /\ IF retained = NoReconcile
     THEN UNCHANGED <<owner, tasks, retained, failed, updates, announced>>
     ELSE LET p == [retained EXCEPT !.generation = @ + 1]
          IN  IF p.generation > gate
              THEN /\ Admit(p)
                   /\ PushUpdates(<<Recovering(gate), AdmissionEdge(p)>>)
                   /\ UNCHANGED activating
              ELSE /\ PushUpdates(<<Recovering(gate)>>)
                   /\ UNCHANGED <<owner, tasks, retained, failed>>

ApplyNetworkChanged == Rebuild("NetworkChanged")
ApplyResume         == Rebuild("Resume")

\* Faulty: the attempt is neither taken nor aborted.
ApplySuspendKeepsStart ==
  /\ NextInline("Suspend")
  /\ Tear(active)
  /\ active' = 0
  /\ failed' = {}
  /\ IF inFlight # 0 \/ active # 0 THEN PushUpdates(<<Stopped(gate)>>)
     ELSE UNCHANGED <<updates, announced>>
  /\ UNCHANGED <<gate, activating, retained, inFlight, outcome, built, aborting,
                 discarded>>

\* Suspend: abort and boundedly join the attempt, boundedly stop the
\* transport, and report Stopped only if there was one of them.
ApplySuspend ==
  /\ NextInline("Suspend")
  /\ AbortTask \/ UNCHANGED aborting  \* outlived the join budget, or dead
  /\ DropOutcome
  /\ Tear(active)
  /\ active' = 0
  /\ inFlight' = 0
  /\ outcome' = "pending"
  /\ built' = NoBuild
  /\ failed' = {}
  /\ IF inFlight # 0 \/ active # 0 THEN PushUpdates(<<Stopped(gate)>>)
     ELSE UNCHANGED <<updates, announced>>
  /\ UNCHANGED <<gate, activating, retained>>

-----------------------------------------------------------------------------
(* Shutdown: the final bounded teardown of whatever is owned.              *)

Shutdown ==
  /\ running /\ cancelled /\ inline = <<>> /\ newest = NoReconcile
  /\ running' = FALSE
  /\ AbortTask /\ DropOutcome
  /\ torn' = torn \cup ({active, activating} \ {0})
  /\ active' = 0 /\ activating' = 0 /\ inFlight' = 0
  /\ outcome' = "pending"
  /\ built' = NoBuild
  /\ UNCHANGED <<gate, batch, retained, failed, cancelled, queue, updates,
                 announced, client>>

-----------------------------------------------------------------------------
(* The most general client of the handle.                                  *)

SendReconcile ==
  \E d \in SUBSET Receivers, t \in BOOLEAN :
    /\ t => d = {}
    /\ session_generation < MaxGeneration
    /\ session_generation' = session_generation + 1
    /\ TrySend(Reconcile(session_generation + 1, d, t))
    /\ UNCHANGED <<supVars, sent>>

InlineRequests ==
  {[kind |-> k] : k \in InlineKinds \ {"SetVolume"}} \cup
  {SetVolume(r) : r \in IF "SetVolume" \in InlineKinds THEN Receivers ELSE {}}

SendInline ==
  /\ sent < MaxInline
  /\ sent' = sent + 1
  /\ \E q \in InlineRequests : TrySend(q)
  /\ UNCHANGED <<supVars, session_generation>>

\* apply_session_update's counter alignment: the client adopts a generation
\* the supervisor minted for a platform edge.
TakeUpdate ==
  /\ updates # <<>>
  /\ updates' = Tail(updates)
  /\ LET u == Head(updates)
     IN  session_generation' =
           IF u.kind \in {"Starting", "Recovering"}
              /\ u.generation > session_generation
           THEN u.generation ELSE session_generation
  /\ UNCHANGED <<owner, batch, tasks, retained, failed, cancelled, running,
                 queue, announced, sent>>

RequestShutdown ==
  /\ ~cancelled
  /\ cancelled' = TRUE
  /\ UNCHANGED <<owner, batch, tasks, retained, failed, running, queue,
                 updates, announced, client>>

-----------------------------------------------------------------------------

SupInit ==
  /\ gate = 0 /\ inFlight = 0 /\ outcome = "pending"
  /\ activating = 0 /\ active = 0
  /\ built = NoBuild
  /\ retained = NoReconcile
  /\ failed = {}
  /\ inline = <<>> /\ newest = NoReconcile
  /\ aborting = {} /\ torn = {} /\ discarded = {}
  /\ cancelled = FALSE /\ running = TRUE
  /\ requests = <<>> /\ asked = NoReconcile /\ updates = <<>>
  /\ announced = Stopped(0)

Init == SupInit /\ session_generation = 0 /\ sent = 0

SupNext ==
  \/ StartGeneration \/ StartCompletes \/ AbortedTaskEnds
  \/ AdoptFailure \/ AdoptSuccess \/ Receive \/ ProbeDue
  \/ ActivationFails \/ ActivationSucceeds
  \/ ActivationConsumes \/ ActivationSuperseded
  \/ ApplySetVolume \/ ApplyProbe \/ ApplySuspend
  \/ ApplyNetworkChanged \/ ApplyResume
  \/ Shutdown

ClientNext == SendReconcile \/ SendInline \/ TakeUpdate \/ RequestShutdown

Next == SupNext \/ ClientNext

Spec == Init /\ [][Next]_vars

\* The loop is never left unpolled, a start ends (every connect, pair and
\* SETUP exchange of the transport has a timeout), and the activation has its
\* own four-second deadline.  Nothing is assumed of the client.
LoopStep ==
  \/ StartGeneration \/ AdoptFailure \/ AdoptSuccess \/ Receive
  \/ ActivationFails \/ ActivationSucceeds
  \/ ActivationConsumes \/ ActivationSuperseded
  \/ ApplySetVolume \/ ApplyProbe \/ ApplySuspend
  \/ ApplyNetworkChanged \/ ApplyResume \/ Shutdown

Fairness == WF_vars(LoopStep) /\ WF_vars(StartCompletes)

FairSpec == Spec /\ Fairness

-----------------------------------------------------------------------------
(* Properties.                                                             *)

Generation == Nat
Builds == [members : SUBSET Receivers, primary : Receivers \cup {NoReceiver},
           failures : SUBSET Receivers, fatal : SUBSET Receivers]
Reconciles == [kind : {"Reconcile"}, generation : Generation,
               desired : SUBSET Receivers, teardown_only : BOOLEAN]
Inlines == [kind : AllInlineKinds \ {"SetVolume"}] \cup
           [kind : {"SetVolume"}, receiver : Receivers]
Edges == [kind : {"Starting", "Recovering", "Stopped"}, generation : Generation]
         \cup [kind : {"Active"}, generation : Generation,
               primary : Receivers \cup {NoReceiver},
               members : SUBSET Receivers, failures : SUBSET Receivers,
               fatal : SUBSET Receivers]
Reports == [kind : {"MemberFailed"}, generation : Generation,
            receiver : Receivers, primary : BOOLEAN]
           \cup [kind : {"MemberControlFailed"}, generation : Generation,
                 receiver : Receivers]

\* Every variable of the supervisor has its type and its two queues their
\* capacity; `inline' is a subsequence of what `requests' held.
TypeOK ==
  /\ gate \in Generation /\ inFlight \in Generation
  /\ activating \in Generation /\ active \in Generation
  /\ outcome \in {"pending", "ready", "failed"}
  /\ built \in Builds
  /\ retained \in Reconciles \cup {NoReconcile}
  /\ failed \in SUBSET Receivers
  /\ newest \in Reconciles \cup {NoReconcile}
  /\ aborting \in SUBSET Generation /\ torn \in SUBSET Generation
  /\ discarded \in SUBSET Generation
  /\ cancelled \in BOOLEAN /\ running \in BOOLEAN
  /\ requests \in Seq(Reconciles \cup Inlines)
  /\ Len(requests) <= RequestCapacity /\ Len(updates) <= UpdateCapacity
  /\ asked \in Reconciles \cup Inlines \cup {NoReconcile}
  /\ updates \in Seq(Edges \cup Reports)
  /\ announced \in Edges
  /\ session_generation \in Generation /\ sent \in Nat

Owned == {inFlight, activating, active} \ {0}

\* "One supervisor owns at most one active AirPlay transport and one in-flight
\* start": a start, an activation and an adopted transport never coexist, and
\* whichever exists belongs to the newest admitted generation, so the
\* stale-completion arms of Adopt are never taken.
OneSession ==
  /\ inFlight # 0 => activating = 0 /\ active = 0
  /\ activating # 0 => active = 0
  /\ Owned \subseteq {gate}

\* No transport that finished its start is lost while the supervisor runs: it
\* is owned or went through the bounded TEARDOWN, never merely dropped, and
\* nothing that was torn down or aborted is owned again.
NothingLost ==
  /\ running => discarded = {}
  /\ Owned \cap (torn \cup aborting \cup discarded) = {}
  /\ ~running => Owned = {}

\* The controller sees generations in order: the queued edges never go back to
\* an older generation and never name one that was not admitted.
UpdatesOrdered ==
  /\ \A i, j \in 1..Len(updates) :
        i <= j => updates[i].generation <= updates[j].generation
  /\ \A i \in 1..Len(updates) : updates[i].generation <= gate

\* What the last lifecycle edge said is what the supervisor holds whenever its
\* loop waits: Active names the transport in hand, Recovering and Stopped mean
\* that there is none, and a transport in hand was announced.
AnnouncedIsTrue ==
  Idle => /\ announced.kind = "Active" => active = announced.generation
          /\ announced.kind \in {"Recovering", "Stopped"} => Owned = {}
          /\ active # 0 => announced = Active(active, built)
          /\ inFlight # 0 => announced = Starting(inFlight)

\* A member failure is reported only for a member of the session in hand or of
\* an older one, and at most once per generation.
FailuresReportedOnce ==
  \A i, j \in 1..Len(updates) :
    /\ updates[i].kind = "MemberFailed" /\ updates[j].kind = "MemberFailed"
    /\ updates[i].generation = updates[j].generation
    /\ updates[i].receiver = updates[j].receiver
    => i = j

\* "The newest reconcile wins outright": with the queue drained, the retained
\* desired set is that of the last reconcile the queue accepted.
NewestReconcileWins ==
  Idle /\ requests = <<>> /\ asked.kind = "Reconcile" => retained = asked

\* A newly spawned start always belongs to a strictly newer generation than
\* anything admitted before, and the gate never goes back.
FreshStarts ==
  [][/\ gate' >= gate
     /\ inFlight' \notin {0, inFlight} => inFlight' > gate]_vars

Contract == INSTANCE SessionContract
              WITH generation <- announced.generation, stage <- announced.kind

\* The supervisor keeps the contract its lifecycle edges make with the
\* controller: inside one generation Active only follows Starting, and a
\* generation that ended (Recovering, Stopped) never comes back to life.
ContractKept == Contract!Spec

\* What keeps OneSession, NothingLost and the contract true from one step to the
\* next.
SupervisorInv ==
  /\ OneSession
  /\ NothingLost
  /\ torn \cup aborting \cup discarded \subseteq 0..gate
  /\ retained # NoReconcile => retained.generation = gate
  /\ inFlight # 0 => retained # NoReconcile
  /\ outcome # "pending" =>
        inFlight # 0 /\ inline = <<>> /\ newest = NoReconcile
  /\ activating # 0 => inline = <<>> /\ newest = NoReconcile
  /\ announced.generation <= gate
  /\ announced.generation = gate =>
        /\ inFlight # 0 \/ activating # 0 => announced.kind = "Starting"
        /\ active # 0 => announced.kind \in {"Starting", "Active"}

\* Every accepted reconcile is answered: its generation, or a newer one, is
\* admitted, unless the supervisor is shut down.
ReconcilesAnswered ==
  \A g \in 1..MaxGeneration :
    (\E i \in 1..Len(requests) :
       IsReconcile(requests[i]) /\ requests[i].generation = g)
    ~> (gate >= g \/ ~running)

\* Every announced start is concluded by a later edge, or by shutdown.
StartsConcluded ==
  \A g \in 1..MaxGeneration :
    announced = Starting(g) ~> (announced # Starting(g) \/ ~running)

\* What the supervisor says is true, said once and in order, and it speaks of
\* the newest wish.
ReportsHonest ==
  UpdatesOrdered /\ AnnouncedIsTrue /\ FailuresReportedOnce /\ NewestReconcileWins

\* Every accepted reconcile is answered and every announced start concluded.
RequestsConcluded == ReconcilesAnswered /\ StartsConcluded
============================================================================
