---------------------------- MODULE BackendProofs ----------------------------
(***************************************************************************)
(* Theorems about Backend.tla: the controller and the session supervisor   *)
(* composed, for every finite set of receivers and every queue capacity.   *)
(***************************************************************************)
EXTENDS Backend, SessionSupervisorProofs, FiniteSetTheorems

-----------------------------------------------------------------------------
(* The receiver machines and the rows.                                     *)

\* Every operation on a machine returns a machine.
LEMMA MachinesClosed ==
  ASSUME NEW m \in Machines
  PROVE  /\ \A a \in BOOLEAN : NewMachine(a) \in Machines
         /\ \A a \in BOOLEAN : SetServiceAvailable(m, a).machine \in Machines
         /\ BeginGeneration(m).machine \in Machines
         /\ \A f \in BOOLEAN : NoteFailure(m, f).machine \in Machines
         /\ RetryNow(m).machine \in Machines
         /\ LeaveSession(m) \in Machines
         /\ Release(m) \in Machines
<1>1. \A l \in Labels : Plain(l) \in Lifecycles
  BY DEF Plain, Lifecycles
<1>2. \A a \in BOOLEAN : AtRest(a) \in Lifecycles
  BY <1>1 DEF AtRest, Labels
<1>3. \A f \in BOOLEAN : FailedState(f) \in Lifecycles
  BY DEF FailedState, Lifecycles, Labels
<1>4. \A n \in Machines, l \in Labels :
        Transition(n, Plain(l)).machine \in Machines
  BY <1>1 DEF Transition, Machines
<1>5. \A f \in BOOLEAN : NoteFailure(m, f).machine \in Machines
  <2>1. \A f \in BOOLEAN : Fail(m, f).machine \in Machines
    BY <1>3 DEF Fail, Done, Machines
  <2>2. "RetryWaiting" \in Labels
    BY DEF Labels
  <2> QED
    BY <1>4, <2>1, <2>2 DEF NoteFailure, WaitRetry
<1>6. \A a \in BOOLEAN : SetServiceAvailable(m, a).machine \in Machines
  <2>1. ASSUME NEW a \in BOOLEAN
        PROVE  /\ [m EXCEPT !.service_available = a] \in Machines
               /\ [[m EXCEPT !.service_available = a] EXCEPT !.role = NoRole]
                    \in Machines
    BY DEF Machines
  <2>2. "Discovered" \in Labels /\ "Unavailable" \in Labels
    BY DEF Labels
  <2> QED
    BY <1>4, <2>1, <2>2 DEF SetServiceAvailable, Done
<1>7. RetryNow(m).machine \in Machines
  <2>1. "Connecting" \in Labels
    BY DEF Labels
  <2> QED
    BY <1>4, <2>1 DEF RetryNow, Done
<1>8. BeginGeneration(m).machine \in Machines
  BY <1>1 DEF BeginGeneration, Done, Machines, Labels
<1>9. LeaveSession(m) \in Machines /\ Release(m) \in Machines
  BY <1>2 DEF LeaveSession, Release, Machines
<1>10. \A a \in BOOLEAN : NewMachine(a) \in Machines
  BY <1>2 DEF NewMachine, Machines
<1> QED
  BY <1>5, <1>6, <1>7, <1>8, <1>9, <1>10

\* The walk into streaming stays among the machines.
LEMMA StreamingClosed ==
  ASSUME NEW m \in Machines, NEW role \in Roles
  PROVE  EnterStreaming(m, role).machine \in Machines
<1> DEFINE Results == [machine : Machines, ok : BOOLEAN]
           Walk(n, from, to) ==
             IF n.ok /\ n.machine.state.label = from
             THEN Transition(n.machine, InRole(to, role)) ELSE n
           anchored == IF OwnedByGeneration(m) THEN m
                       ELSE [m EXCEPT !.state = Plain("Connecting")]
           first == Walk(Done(anchored), "Connecting", "SettingUp")
           ready == Walk(first, "SettingUp", "Ready")
<1>1. \A l \in Labels : InRole(l, role) \in Lifecycles
  BY DEF InRole, Lifecycles
<1>2. \A n \in Machines, l \in Labels :
        Transition(n, InRole(l, role)) \in Results
  BY <1>1 DEF Transition, Machines
<1>3. Done(anchored) \in Results
  BY DEF Done, Plain, Machines, Lifecycles, Labels
<1>4. \A n \in Results, l \in Labels, from \in Labels :
        Walk(n, from, l) \in Results
  BY <1>2
<1>5. {"Connecting", "SettingUp", "Ready", "Streaming"} \subseteq Labels
  BY DEF Labels
<1>6. first \in Results
  BY <1>3, <1>4, <1>5
<1>7. ready \in Results
  BY <1>4, <1>5, <1>6
<1>8. [ready.machine EXCEPT !.role = role] \in Machines
  BY <1>7 DEF Machines
<1>9. EnterStreaming(m, role) =
        IF m.state = InRole("Streaming", role) THEN Done(m)
        ELSE IF ~ready.ok THEN ready
        ELSE Transition([ready.machine EXCEPT !.role = role],
                        InRole("Streaming", role))
  BY DEF EnterStreaming
<1> HIDE DEF ready
<1> QED
  BY <1>2, <1>5, <1>7, <1>8, <1>9 DEF Done

\* drive, rebuild_receiver_rows and sync_service_availability keep a machine per
\* receiver.
LEMMA RowsTyped ==
  ASSUME NEW ms \in [Receivers -> Machines]
  PROVE  /\ \A d, c \in SUBSET Receivers :
              RebuildRows(ms, d, c) \in [Receivers -> Machines]
         /\ \A c \in SUBSET Receivers :
              SyncAvailability(ms, c) \in [Receivers -> Machines]
         /\ \A R \in SUBSET Receivers :
              Drive(ms, Retried(ms, R)) \in [Receivers -> Machines]
         /\ ReleaseBackoff(ms) \in [Receivers -> Machines]
<1>1. \A r \in Receivers : ms[r] \in Machines
  OBVIOUS
<1>2. ASSUME NEW d \in SUBSET Receivers, NEW c \in SUBSET Receivers
      PROVE  RebuildRows(ms, d, c) \in [Receivers -> Machines]
  BY <1>1, MachinesClosed DEF RebuildRows
<1>3. ASSUME NEW c \in SUBSET Receivers
      PROVE  SyncAvailability(ms, c) \in [Receivers -> Machines]
  <2>1. ASSUME NEW r \in Receivers
        PROVE  SetServiceAvailable(ms[r], r \in c).machine \in Machines
    <3>1. (r \in c) \in BOOLEAN
      OBVIOUS
    <3>2. \A a \in BOOLEAN : SetServiceAvailable(ms[r], a).machine \in Machines
      BY <1>1, MachinesClosed
    <3> QED
      BY <3>1, <3>2, Zenon
  <2> QED
    BY <1>1, <2>1 DEF SyncAvailability
<1>4. ASSUME NEW R \in SUBSET Receivers
      PROVE  Drive(ms, Retried(ms, R)) \in [Receivers -> Machines]
  <2>1. \A r \in R : RetryNow(ms[r]).machine \in Machines
    BY <1>1, MachinesClosed
  <2> QED
    BY <1>1, <2>1 DEF Drive, Retried
<1> QED
  BY <1>2, <1>3, <1>4 DEF ReleaseBackoff

-----------------------------------------------------------------------------
(* What a turn of the controller does.                                     *)

\* The types of the controller's variables.
ControllerTyped ==
  /\ desired \in SUBSET Receivers /\ castable \in SUBSET Receivers
  /\ pending_desired \in SUBSET Receivers /\ members \in SUBSET Receivers
  /\ intent \in {"Running", "Stopped"}
  /\ machines \in [Receivers -> Machines]
  /\ primary \in Receivers \cup {NoReceiver}
  /\ phase \in {"Stopped", "Starting", "Streaming", "Degraded", "Restarting"}
  /\ live \in Nat
  /\ suspended \in BOOLEAN /\ auto_connect \in BOOLEAN
  /\ resume_at \in {"none", "watchdog", "settle"}
  /\ commands \in Nat /\ suspends \in Nat /\ flaps \in Nat

\* What a turn sends: nothing, one reconcile of the next generation, a suspend or
\* some levels; or it aligns its counter with the update it takes.
SendsNothing == UNCHANGED <<queue, session_generation, pending_desired>>
SendsReconcile ==
  \E q \in Reconciles :
    /\ q.generation = session_generation + 1
    /\ session_generation' = session_generation + 1
    /\ pending_desired' = q.desired
    /\ intent' = "Stopped" => q.desired = {}
    /\ TrySend(q)
SendsSuspend ==
  TrySend(Suspend) /\ UNCHANGED <<session_generation, pending_desired>>
SendsLevels ==
  /\ \E qs \in Seq(Inlines) :
        requests' = requests \o qs /\ Len(requests') <= RequestCapacity
  /\ UNCHANGED <<asked, session_generation, pending_desired>>
Aligns ==
  /\ updates # <<>>
  /\ session_generation' = IF Head(updates).generation > session_generation
                           THEN Head(updates).generation ELSE session_generation
  /\ UNCHANGED <<queue, pending_desired>>
Sends ==
  SendsNothing \/ SendsReconcile \/ SendsSuspend \/ SendsLevels \/ Aligns

\* What a turn leaves to the supervisor.
LeavesSupervisor ==
  /\ UNCHANGED <<owner, batch, tasks, retained, failed, cancelled, running,
                 announced, sent>>
  /\ \/ updates' = updates
     \/ updates # <<>> /\ updates' = Tail(updates)

\* request_reconcile sends nothing, or asks for receivers of the new selection
\* under the next generation.
LEMMA RequestReconcileSends ==
  ASSUME TypeOK, ControllerTyped, desired' \in SUBSET Receivers,
         intent' \in {"Running", "Stopped"}, RequestReconcile
  PROVE  /\ SendsNothing \/ SendsReconcile
         /\ live' \in Nat
         /\ pending_desired' \in SUBSET Receivers
<1>1. CASE NothingToDo
  BY <1>1 DEF RequestReconcile, SendsNothing, minted, queue, ControllerTyped
<1>2. CASE ~NothingToDo
  <2>1. Wanted \in SUBSET Receivers /\ (intent' = "Stopped" => Wanted = {})
    BY DEF Wanted
  <2>2. session_generation \in Nat /\ (intent' = "Stopped") \in BOOLEAN
    BY DEF TypeOK, Generation
  <2> DEFINE q == Reconcile(session_generation + 1, Wanted, intent' = "Stopped")
  <2>3. /\ session_generation' = session_generation + 1
        /\ live' = session_generation + 1
        /\ pending_desired' = Wanted
        /\ TrySend(q)
    BY <1>2 DEF RequestReconcile
  <2>4. /\ q \in Reconciles /\ q.generation = session_generation + 1
        /\ q.desired = Wanted
    BY <2>1, <2>2 DEF Reconcile, Reconciles, Generation
  <2> HIDE DEF q
  <2>5. SendsReconcile
    BY <2>1, <2>3, <2>4 DEF SendsReconcile
  <2> QED
    BY <2>1, <2>2, <2>3, <2>5
<1> QED
  BY <1>1, <1>2

\* forward_effective_volumes appends as many level requests as there is room for.
LEMMA ForwardLevelsSends ==
  ASSUME TypeOK, NEW ms, ms \in SUBSET Receivers, ForwardLevels(ms)
  PROVE  /\ \E qs \in Seq(Inlines) :
               requests' = requests \o qs /\ Len(requests') <= RequestCapacity
         /\ asked' = asked
<1> DEFINE n == Cardinality(ms)
           room == IF running THEN RequestCapacity - Len(requests) ELSE 0
<1>1. n \in Nat
  BY BackendAssumption, FS_Subset, FS_CardinalityType
<1>2. /\ requests \in Seq(Reconciles \cup Inlines) /\ Len(requests) \in Nat
      /\ Len(requests) <= RequestCapacity /\ RequestCapacity \in Nat
      /\ room \in Nat /\ Len(requests) + room <= RequestCapacity
  <2>1. requests \in Seq(Reconciles \cup Inlines)
    BY DEF TypeOK
  <2> QED
    BY <2>1, SupervisorAssumption, LenProperties DEF TypeOK
<1>3. PICK order \in [1..n -> ms] :
        LET sends == [i \in 1..n |-> SetVolume(order[i])]
        IN  /\ requests' = requests \o
                  (IF Len(sends) <= room THEN sends ELSE SubSeq(sends, 1, room))
            /\ UNCHANGED asked
  BY DEF ForwardLevels
<1> DEFINE sends == [i \in 1..n |-> SetVolume(order[i])]
           qs == IF Len(sends) <= room THEN sends ELSE SubSeq(sends, 1, room)
<1>4. \A i \in 1..n : sends[i] \in Inlines
  BY <1>3 DEF SetVolume, Inlines
<1>5. sends \in Seq(Inlines) /\ Len(sends) = n
  BY <1>1, <1>4
<1>6. requests' = requests \o qs /\ asked' = asked
  BY <1>3
<1> HIDE DEF sends
<1>7. qs \in Seq(Inlines) /\ Len(qs) \in Nat /\ Len(qs) <= room
  <2>1. CASE Len(sends) <= room
    BY <1>1, <1>5, <2>1
  <2>2. CASE ~(Len(sends) <= room)
    <3>1. \A i \in 1..room : sends[i] \in Inlines
      BY <1>1, <1>2, <1>5, <2>2, LenProperties
    <3>2. /\ SubSeq(sends, 1, room) \in Seq(Inlines)
          /\ Len(SubSeq(sends, 1, room)) = room
      BY <1>2, <3>1, SubSeqProperties
    <3> QED
      BY <1>2, <2>2, <3>2
  <2> QED
    BY <2>1, <2>2
<1> HIDE DEF qs
<1>8. qs \in Seq(Reconciles \cup Inlines)
  BY <1>7
<1>9. Len(requests \o qs) = Len(requests) + Len(qs)
  BY <1>2, <1>8, ConcatProperties
<1>10. Len(requests') <= RequestCapacity
  BY <1>2, <1>6, <1>7, <1>9
<1> QED
  BY <1>6, <1>7, <1>10

\* Commands and timers leave the supervisor alone, send at most one thing and
\* keep every type.
LEMMA CommandShape ==
  ASSUME TypeOK, ControllerTyped,
         \/ Batch \/ ReconfigureBatch \/ ChangeLevels \/ RetryReceiver
         \/ BeginSuspend \/ BeginResume \/ NetworkChange
  PROVE  LeavesSupervisor /\ Sends /\ ControllerTyped'
<1>1. ASSUME NEW d \in SUBSET Receivers,
             NEW i \in {"Running", "Stopped", Unchanged}, ApplyScalars(d, i)
      PROVE  /\ desired' = d /\ intent' \in {"Running", "Stopped"}
             /\ auto_connect' \in BOOLEAN
             /\ machines' \in [Receivers -> Machines]
             /\ UNCHANGED <<castable, session>>
  <2>1. machines' \in [Receivers -> Machines]
    BY <1>1, RowsTyped DEF ApplyScalars, ControllerTyped
  <2>2. intent' \in {"Running", "Stopped"}
    BY <1>1 DEF ApplyScalars, ControllerTyped
  <2>3. auto_connect' \in BOOLEAN
    BY <1>1 DEF ApplyScalars, ControllerTyped
  <2> QED
    BY <1>1, <2>1, <2>2, <2>3 DEF ApplyScalars
<1>2. CASE Batch
  <2>1. PICK d \in SUBSET Receivers, i \in {"Running", "Stopped", Unchanged} :
          /\ Command
          /\ ApplyScalars(d, i)
          /\ UNCHANGED <<suspended, resume_at>>
          /\ ReconcileIf(ScalarsChanged)
          /\ UNCHANGED <<supVars, sent>>
    BY <1>2 DEF Batch
  <2>2. ScalarsChanged \in BOOLEAN
    BY DEF ScalarsChanged
  <2>3. /\ SendsNothing \/ SendsReconcile
        /\ live' \in Nat
        /\ pending_desired' \in SUBSET Receivers
    <3>1. desired' \in SUBSET Receivers /\ intent' \in {"Running", "Stopped"}
      BY <1>1, <2>1
    <3>2. RequestReconcile \/ UNCHANGED <<minted, queue>>
      BY <2>1 DEF ReconcileIf
    <3> QED
      BY <3>1, <3>2, RequestReconcileSends
      DEF SendsNothing, minted, ControllerTyped
  <2>4. LeavesSupervisor
    BY <2>1 DEF LeavesSupervisor, supVars, owner, batch, tasks
  <2> QED
    BY <1>1, <2>1, <2>3, <2>4
    DEF Sends, Command, ControllerTyped, session
<1>3. CASE ReconfigureBatch
  <2>1. desired' = desired /\ intent' = intent /\ RequestReconcile
    BY <1>3 DEF ReconfigureBatch
  <2>2. /\ SendsNothing \/ SendsReconcile
        /\ live' \in Nat
        /\ pending_desired' \in SUBSET Receivers
    BY <2>1, RequestReconcileSends DEF ControllerTyped
  <2>3. LeavesSupervisor
    BY <1>3 DEF ReconfigureBatch, LeavesSupervisor, supVars, owner, batch, tasks
  <2> QED
    BY <1>3, <2>2, <2>3
    DEF ReconfigureBatch, Sends, Command, ControllerTyped, rows, session, gates
<1>4. CASE ChangeLevels
  <2>1. ForwardLevels(members) /\ members \in SUBSET Receivers
    BY <1>4 DEF ChangeLevels, ControllerTyped
  <2>2. SendsLevels
    BY <1>4, <2>1, ForwardLevelsSends DEF ChangeLevels, SendsLevels, minted
  <2>3. LeavesSupervisor
    BY <1>4 DEF ChangeLevels, LeavesSupervisor, supVars, owner, batch, tasks
  <2> QED
    BY <1>4, <2>2, <2>3
    DEF ChangeLevels, Sends, Command, ControllerTyped, rows, session, gates,
        minted
<1>5. CASE RetryReceiver
  <2>1. PICK r \in Receivers :
          /\ Command
          /\ UNCHANGED <<desired, intent, castable, session, gates>>
          /\ machines' = RebuildRows(Drive(machines, Retried(machines, {r})),
                                     desired, castable)
          /\ RequestReconcile
          /\ UNCHANGED <<supVars, sent>>
    BY <1>5 DEF RetryReceiver
  <2>2. machines' \in [Receivers -> Machines]
    <3>1. Drive(machines, Retried(machines, {r})) \in [Receivers -> Machines]
      BY RowsTyped DEF ControllerTyped
    <3> QED
      BY <2>1, <3>1, RowsTyped DEF ControllerTyped
  <2>3. /\ SendsNothing \/ SendsReconcile
        /\ live' \in Nat
        /\ pending_desired' \in SUBSET Receivers
    BY <2>1, RequestReconcileSends DEF ControllerTyped
  <2>4. LeavesSupervisor
    BY <2>1 DEF LeavesSupervisor, supVars, owner, batch, tasks
  <2> QED
    BY <2>1, <2>2, <2>3, <2>4
    DEF Sends, Command, ControllerTyped, session, gates
<1>6. CASE BeginSuspend
  <2>1. PICK d \in SUBSET Receivers, i \in {"Running", "Stopped", Unchanged} :
          /\ suspends' = suspends + 1
          /\ ApplyScalars(d, i)
          /\ suspended' = TRUE
          /\ resume_at' = "watchdog"
          /\ TrySend(Suspend)
          /\ UNCHANGED <<supVars, sent, minted, commands, flaps>>
    BY <1>6 DEF BeginSuspend
  <2>2. SendsSuspend
    BY <2>1 DEF SendsSuspend, minted
  <2>3. LeavesSupervisor
    BY <2>1 DEF LeavesSupervisor, supVars, owner, batch, tasks
  <2> QED
    BY <1>1, <2>1, <2>2, <2>3 DEF Sends, ControllerTyped, session, minted
<1>7. CASE BeginResume
  <2>1. SendsNothing
    BY <1>7 DEF BeginResume, SendsNothing, minted, queue
  <2>2. LeavesSupervisor
    BY <1>7 DEF BeginResume, LeavesSupervisor, supVars, owner, batch, tasks
  <2> QED
    BY <1>7, <2>1, <2>2
    DEF BeginResume, Sends, Command, ControllerTyped, rows, session, minted
<1>8. CASE NetworkChange
  <2>1. desired' = desired /\ intent' = intent /\ RequestReconcile
    BY <1>8 DEF NetworkChange
  <2>2. /\ SendsNothing \/ SendsReconcile
        /\ live' \in Nat
        /\ pending_desired' \in SUBSET Receivers
    BY <2>1, RequestReconcileSends DEF ControllerTyped
  <2>3. machines' \in [Receivers -> Machines]
    BY <1>8, RowsTyped DEF NetworkChange, ControllerTyped
  <2>4. LeavesSupervisor
    BY <1>8 DEF NetworkChange, LeavesSupervisor, supVars, owner, batch, tasks
  <2> QED
    BY <1>8, <2>2, <2>3, <2>4
    DEF NetworkChange, Sends, Command, ControllerTyped, session, gates
<1> QED
  BY <1>2, <1>3, <1>4, <1>5, <1>6, <1>7, <1>8
LEMMA TimerShape ==
  ASSUME TypeOK, ControllerTyped,
         FinishResume \/ FireDueRetries \/ StartupAutoConnect \/ ServiceChanges
  PROVE  LeavesSupervisor /\ Sends /\ ControllerTyped'
<1>1. CASE FinishResume
  <2>1. RequestReconcile \/ UNCHANGED <<minted, queue>>
    BY <1>1 DEF FinishResume, ReconcileIf
  <2>2. desired' \in SUBSET Receivers /\ intent' \in {"Running", "Stopped"}
    BY <1>1 DEF FinishResume, ControllerTyped
  <2>3. /\ SendsNothing \/ SendsReconcile
        /\ live' \in Nat
        /\ pending_desired' \in SUBSET Receivers
    BY <2>1, <2>2, RequestReconcileSends
    DEF SendsNothing, minted, ControllerTyped
  <2>4. machines' \in [Receivers -> Machines]
    BY <1>1, RowsTyped DEF FinishResume, ControllerTyped
  <2>5. LeavesSupervisor
    BY <1>1 DEF FinishResume, LeavesSupervisor, supVars, owner, batch, tasks
  <2> QED
    BY <1>1, <2>3, <2>4, <2>5
    DEF FinishResume, Sends, ControllerTyped, session, bounds
<1>2. CASE FireDueRetries
  <2>1. PICK due \in SUBSET Receivers :
          /\ machines' = RebuildRows(Drive(machines, Retried(machines, due)),
                                     desired, castable)
          /\ UNCHANGED <<desired, intent, castable, bounds, session, gates>>
          /\ RequestReconcile
          /\ UNCHANGED <<supVars, sent>>
    BY <1>2 DEF FireDueRetries, RejoinCandidates, ControllerTyped
  <2>2. machines' \in [Receivers -> Machines]
    <3>1. Drive(machines, Retried(machines, due)) \in [Receivers -> Machines]
      BY RowsTyped DEF ControllerTyped
    <3> QED
      BY <2>1, <3>1, RowsTyped DEF ControllerTyped
  <2>3. /\ SendsNothing \/ SendsReconcile
        /\ live' \in Nat
        /\ pending_desired' \in SUBSET Receivers
    BY <2>1, RequestReconcileSends DEF ControllerTyped
  <2>4. LeavesSupervisor
    BY <2>1 DEF LeavesSupervisor, supVars, owner, batch, tasks
  <2> QED
    BY <2>1, <2>2, <2>3, <2>4
    DEF Sends, ControllerTyped, session, gates, bounds
<1>3. CASE StartupAutoConnect
  <2>1. \/ UNCHANGED <<intent, minted, queue>>
        \/ intent' = "Running" /\ RequestReconcile
    BY <1>3 DEF StartupAutoConnect
  <2>2. desired' \in SUBSET Receivers /\ intent' \in {"Running", "Stopped"}
    BY <1>3, <2>1 DEF StartupAutoConnect, ControllerTyped
  <2>3. /\ SendsNothing \/ SendsReconcile
        /\ live' \in Nat
        /\ pending_desired' \in SUBSET Receivers
    BY <2>1, <2>2, RequestReconcileSends
    DEF SendsNothing, minted, ControllerTyped
  <2>4. LeavesSupervisor
    BY <1>3 DEF StartupAutoConnect, LeavesSupervisor, supVars, owner, batch,
                tasks
  <2> QED
    BY <1>3, <2>2, <2>3, <2>4
    DEF StartupAutoConnect, Sends, ControllerTyped, session, rows, bounds
<1>4. CASE ServiceChanges
  <2>1. PICK r \in Receivers :
          /\ flaps' = flaps + 1
          /\ castable' = (castable \cup {r}) \ (castable \cap {r})
          /\ LET known == RebuildRows(machines, desired, castable')
             IN  machines' = RebuildRows(SyncAvailability(known, castable'),
                                         desired, castable')
          /\ UNCHANGED <<desired, intent, commands, suspends, session, gates,
                         minted, queue, supVars, sent>>
    BY <1>4 DEF ServiceChanges
  <2>2. castable' \in SUBSET Receivers
    BY <2>1 DEF ControllerTyped
  <2> DEFINE known == RebuildRows(machines, desired, castable')
  <2>3. known \in [Receivers -> Machines]
    BY <2>2, RowsTyped DEF ControllerTyped
  <2>4. SyncAvailability(known, castable') \in [Receivers -> Machines]
    <3> HIDE DEF known
    <3> QED
      BY <2>2, <2>3, RowsTyped
  <2>5. machines' = RebuildRows(SyncAvailability(known, castable'),
                                desired, castable')
    BY <2>1
  <2>6. machines' \in [Receivers -> Machines]
    BY <2>2, <2>4, <2>5, RowsTyped DEF ControllerTyped
  <2>7. LeavesSupervisor /\ SendsNothing
    BY <2>1 DEF LeavesSupervisor, SendsNothing, minted, queue, supVars, owner,
                batch, tasks
  <2> QED
    BY <2>1, <2>2, <2>6, <2>7
    DEF Sends, ControllerTyped, session, gates, minted
<1> QED
  BY <1>1, <1>2, <1>3, <1>4

\* The rows after an Active edge: the members stream, the failed and the missing
\* ones wait or are given up.
StreamedRows(p, ms) ==
  [r \in Receivers |-> IF r \in ms
     THEN EnterStreaming(machines[r], RoleOf(p, ms, r)).machine
     ELSE machines[r]]
BlamedRows(streamed, blamed, fatal) ==
  [r \in Receivers |-> IF r \in blamed
     THEN NoteFailure(streamed[r], r \notin fatal).machine
     ELSE streamed[r]]

LEMMA ActiveRowsTyped ==
  ASSUME ControllerTyped, NEW p, NEW ms, NEW blamed, NEW fatal
  PROVE  BlamedRows(StreamedRows(p, ms), blamed, fatal)
           \in [Receivers -> Machines]
<1> DEFINE streamed == StreamedRows(p, ms)
<1>1. streamed \in [Receivers -> Machines]
  <2>1. \A r \in Receivers : RoleOf(p, ms, r) \in Roles
    BY DEF RoleOf, Roles
  <2>2. \A r \in Receivers :
          EnterStreaming(machines[r], RoleOf(p, ms, r)).machine \in Machines
    BY <2>1, StreamingClosed DEF ControllerTyped
  <2> QED
    BY <2>2 DEF ControllerTyped, StreamedRows
<1> HIDE DEF streamed
<1>2. ASSUME NEW r \in Receivers
      PROVE  NoteFailure(streamed[r], r \notin fatal).machine \in Machines
  <2>1. (r \notin fatal) \in BOOLEAN
    OBVIOUS
  <2>2. \A f \in BOOLEAN : NoteFailure(streamed[r], f).machine \in Machines
    BY <1>1, MachinesClosed
  <2> QED
    BY <2>1, <2>2, Zenon
<1>3. BlamedRows(streamed, blamed, fatal) \in [Receivers -> Machines]
  BY <1>1, <1>2 DEF BlamedRows
<1> QED
  BY <1>3 DEF streamed

\* An update the controller takes is the oldest message of its queue.
LEMMA TakenTyped ==
  ASSUME TypeOK, NEW kind, Take(kind)
  PROVE  /\ updates # <<>> /\ Head(updates) \in Messages
         /\ Head(updates).kind = kind /\ Head(updates).generation \in Nat
<1>1. updates # <<>> /\ Head(updates).kind = kind
  BY DEF Take
<1>2. Head(updates) \in Messages
  BY <1>1, HeadTailProperties DEF TypeOK, Messages
<1> QED
  BY <1>1, <1>2 DEF Messages, Edges, Reports, Generation

\* Taking an update leaves the supervisor alone, reconciles, sends levels or
\* aligns the counter, and keeps every type.
LEMMA TakeShape ==
  ASSUME TypeOK, ControllerTyped, TakeUpdateStep
  PROVE  LeavesSupervisor /\ Sends /\ ControllerTyped'
<1> DEFINE u == Head(updates)
<1>1. ASSUME NEW kind, Take(kind)
      PROVE  LeavesSupervisor
  BY <1>1 DEF Take, LeavesSupervisor
<1>2. CASE TakeStarting
  <2>1. Take("Starting") /\ Align(u.generation)
    BY <1>2 DEF TakeStarting
  <2>2. Head(updates).generation \in Nat /\ updates # <<>>
    BY <2>1, TakenTyped
  <2>3. Aligns /\ live' \in Nat
    BY <1>2, <2>1, <2>2 DEF Aligns, Align, TakeStarting, TypeOK, Generation
  <2>4. machines' \in [Receivers -> Machines]
    <3> DEFINE begun == [r \in pending_desired |-> BeginGeneration(machines[r])]
    <3>1. \A r \in pending_desired : begun[r].machine \in Machines
      BY MachinesClosed DEF ControllerTyped
    <3>2. Drive(machines, begun) \in [Receivers -> Machines]
      BY <3>1 DEF Drive, ControllerTyped
    <3>3. machines' = RebuildRows(Drive(machines, begun), desired, castable)
      BY <1>2 DEF TakeStarting
    <3> HIDE DEF begun
    <3> QED
      BY <3>2, <3>3, RowsTyped DEF ControllerTyped
  <2> QED
    BY <1>1, <1>2, <2>1, <2>3, <2>4
    DEF TakeStarting, Take, Sends, ControllerTyped, gates, bounds
<1>3. CASE TakeActive
  <2>1. Take("Active")
    BY <1>3 DEF TakeActive
  <2>2. u \in Messages /\ u.kind = "Active"
    BY <2>1, TakenTyped
  <2>3. u.members \in SUBSET Receivers /\ u.primary \in Receivers \cup {NoReceiver}
    BY <2>2 DEF Messages, Edges, Reports
  <2> HIDE DEF u
  <2>4. /\ primary' = u.primary /\ members' = u.members
        /\ phase' = DerivePhase(desired, u.members, intent)
        /\ ForwardLevels(u.members)
        /\ UNCHANGED minted
    BY <1>3 DEF TakeActive, u
  <2>5. SendsLevels
    BY <2>3, <2>4, ForwardLevelsSends DEF SendsLevels, minted
  <2>6. machines' \in [Receivers -> Machines]
    <3> DEFINE blamed ==
                 BlamedRows(StreamedRows(u.primary, u.members),
                            u.failures \cup
                              (pending_desired \ (u.members \cup u.failures)),
                            u.failures \cap u.fatal)
    <3>1. machines' = RebuildRows(blamed, desired, castable)
      BY <1>3 DEF TakeActive, u, BlamedRows, StreamedRows
    <3>2. blamed \in [Receivers -> Machines]
      BY ActiveRowsTyped
    <3> HIDE DEF blamed
    <3> QED
      BY <3>1, <3>2, RowsTyped DEF ControllerTyped
  <2>7. phase' \in {"Stopped", "Starting", "Streaming", "Degraded", "Restarting"}
    BY <2>4 DEF DerivePhase
  <2> QED
    BY <1>1, <2>1, <2>3, <2>4, <2>5, <2>6, <2>7
    DEF Take, Sends, ControllerTyped, gates, bounds, minted
<1>4. CASE TakeMemberFailed
  <2>1. Take("MemberFailed")
    BY <1>4 DEF TakeMemberFailed
  <2>2. u \in Messages /\ u.kind = "MemberFailed"
    BY <2>1, TakenTyped
  <2>3. u.receiver \in Receivers
    BY <2>2 DEF Messages, Edges, Reports
  <2>4. machines' \in [Receivers -> Machines]
    <3> DEFINE noted == [r \in {u.receiver} |-> NoteFailure(machines[r], TRUE)]
    <3>1. \A r \in {u.receiver} : noted[r].machine \in Machines
      BY <2>3, MachinesClosed DEF ControllerTyped
    <3>2. Drive(machines, noted) \in [Receivers -> Machines]
      BY <2>3, <3>1 DEF Drive, ControllerTyped
    <3>3. machines' = RebuildRows(Drive(machines, noted), desired, castable)
      BY <1>4 DEF TakeMemberFailed
    <3> HIDE DEF noted
    <3> QED
      BY <3>2, <3>3, RowsTyped DEF ControllerTyped
  <2>5. /\ desired' \in SUBSET Receivers /\ intent' \in {"Running", "Stopped"}
        /\ RequestReconcile \/ UNCHANGED <<minted, queue>>
    BY <1>4, <2>1 DEF TakeMemberFailed, Take, ReconcileIf, ControllerTyped
  <2>6. /\ SendsNothing \/ SendsReconcile
        /\ live' \in Nat
        /\ pending_desired' \in SUBSET Receivers
    BY <2>5, RequestReconcileSends DEF SendsNothing, minted, ControllerTyped
  <2>7. phase' \in {"Stopped", "Starting", "Streaming", "Degraded", "Restarting"}
    BY <1>4 DEF TakeMemberFailed, DerivePhase
  <2>8. /\ members' \in SUBSET Receivers
        /\ primary' \in Receivers \cup {NoReceiver}
    BY <1>4 DEF TakeMemberFailed, ControllerTyped
  <2> QED
    BY <1>1, <2>1, <2>4, <2>5, <2>6, <2>7, <2>8
    DEF Take, Sends, ControllerTyped, gates, bounds
<1>5. CASE TakeMemberControlFailed
  <2>1. Take("MemberControlFailed") /\ SendsNothing
    BY <1>5 DEF TakeMemberControlFailed, SendsNothing, minted, queue
  <2> QED
    BY <1>1, <1>5, <2>1
    DEF TakeMemberControlFailed, Take, Sends, ControllerTyped, rows, session,
        gates, bounds, minted
<1>6. CASE TakeRecovering
  <2>1. Take("Recovering") /\ Align(u.generation)
    BY <1>6 DEF TakeRecovering
  <2>2. Head(updates).generation \in Nat /\ updates # <<>>
    BY <2>1, TakenTyped
  <2>3. Aligns /\ live' \in Nat
    BY <1>6, <2>1, <2>2 DEF Aligns, Align, TakeRecovering, TypeOK, Generation
  <2> QED
    BY <1>1, <1>6, <2>1, <2>3
    DEF TakeRecovering, Take, Sends, ControllerTyped, rows, gates, bounds
<1>7. CASE TakeStopped
  <2>1. Take("Stopped") /\ SendsNothing
    BY <1>7 DEF TakeStopped, SendsNothing
  <2>2. machines' \in [Receivers -> Machines]
    <3> DEFINE left == [r \in Receivers |-> LeaveSession(machines[r])]
    <3>1. left \in [Receivers -> Machines]
      BY MachinesClosed DEF ControllerTyped
    <3>2. machines' = RebuildRows(left, desired, castable)
      BY <1>7 DEF TakeStopped
    <3> HIDE DEF left
    <3> QED
      BY <3>1, <3>2, RowsTyped DEF ControllerTyped
  <2> QED
    BY <1>1, <1>7, <2>1, <2>2
    DEF TakeStopped, Take, Sends, ControllerTyped, gates, bounds
<1> QED
  BY <1>2, <1>3, <1>4, <1>5, <1>6, <1>7 DEF TakeUpdateStep

\* A step of the controller: any of them.
LEMMA ControllerShape ==
  ASSUME TypeOK, ControllerTyped, ControllerStep
  PROVE  LeavesSupervisor /\ Sends /\ ControllerTyped'
  BY CommandShape, TimerShape, TakeShape DEF ControllerStep

\* A step of the supervisor inside the composition is one of its own steps, and
\* none of its platform edges.
LEMMA SupervisorShape ==
  ASSUME SupervisorStep, UNCHANGED ctlVars
  PROVE  OrdinaryStep /\ [Next]_vars /\ session_generation' = session_generation
<1>1. OrdinaryStep /\ SupNext
  BY DEF SupervisorStep, OrdinaryStep, SupNext
<1>2. session_generation' = session_generation
  BY DEF SupervisorStep, StartGeneration, StartCompletes, AbortedTaskEnds,
         AdoptFailure, AdoptSuccess, Receive, ProbeDue, ActivationFails,
         ActivationSucceeds, ActivationConsumes, ActivationSuperseded,
         ApplySetVolume, ApplySuspend, NextInline, client
<1> QED
  BY <1>1, <1>2 DEF Next

-----------------------------------------------------------------------------
(* The supervisor's invariants survive the composition.                    *)

\* What the controller does keeps the supervisor's types.
LEMMA TurnTyped ==
  ASSUME TypeOK, LeavesSupervisor, Sends
  PROVE  TypeOK'
<1>1. /\ session_generation' \in Generation
      /\ requests' \in Seq(Reconciles \cup Inlines)
      /\ Len(requests') <= RequestCapacity
      /\ asked' \in Reconciles \cup Inlines \cup {NoReconcile}
  <2>1. CASE SendsNothing
    BY <2>1 DEF SendsNothing, queue, TypeOK
  <2>2. CASE SendsReconcile
    BY <2>2, TrySendSafe DEF SendsReconcile, TypeOK, Generation
  <2>3. CASE SendsSuspend
    <3>1. Suspend \in Inlines
      BY DEF Suspend, Inlines, AllInlineKinds
    <3> QED
      BY <2>3, <3>1, TrySendSafe DEF SendsSuspend, TypeOK
  <2>4. CASE SendsLevels
    <3>1. PICK qs \in Seq(Inlines) :
            requests' = requests \o qs /\ Len(requests') <= RequestCapacity
      BY <2>4 DEF SendsLevels
    <3>2. requests \in Seq(Reconciles \cup Inlines)
          /\ qs \in Seq(Reconciles \cup Inlines)
      BY DEF TypeOK
    <3>3. requests \o qs \in Seq(Reconciles \cup Inlines)
      BY <3>2, ConcatProperties
    <3> QED
      BY <2>4, <3>1, <3>3 DEF SendsLevels, TypeOK
  <2>5. CASE Aligns
    <3>1. Head(updates) \in Messages
      BY <2>5, HeadTailProperties DEF Aligns, TypeOK, Messages
    <3>2. Head(updates).generation \in Nat
      BY <3>1 DEF Messages, Edges, Reports, Generation
    <3> QED
      BY <2>5, <3>2 DEF Aligns, queue, TypeOK, Generation
  <2> QED
    BY <2>1, <2>2, <2>3, <2>4, <2>5 DEF Sends
<1>2. updates' \in Seq(Edges \cup Reports) /\ Len(updates') <= UpdateCapacity
  <2>1. CASE updates' = updates
    BY <2>1 DEF TypeOK
  <2>2. CASE updates # <<>> /\ updates' = Tail(updates)
    <3>1. updates \in Seq(Edges \cup Reports) /\ Len(updates) <= UpdateCapacity
          /\ UpdateCapacity \in Nat
      BY SupervisorAssumption DEF TypeOK
    <3>2. /\ Tail(updates) \in Seq(Edges \cup Reports)
          /\ Len(Tail(updates)) = Len(updates) - 1 /\ Len(updates) \in Nat
      BY <2>2, <3>1, HeadTailProperties, LenProperties
    <3> QED
      BY <2>2, <3>1, <3>2
  <2> QED
    BY <2>1, <2>2 DEF LeavesSupervisor
<1> QED
  BY <1>1, <1>2 DEF LeavesSupervisor, owner, batch, tasks, TypeOK

\* What the controller does keeps the session and the order of the updates.
LEMMA TurnSafe ==
  ASSUME TypeOK, TypeOK', SupervisorInv, OnceInv, LeavesSupervisor
  PROVE  SupervisorInv' /\ OnceInv'
<1>1. SupervisorInv'
  BY DEF LeavesSupervisor, owner, batch, tasks, SupervisorInv, OneSession,
         NothingLost, Owned
<1>2. SessionKept
  BY DEF LeavesSupervisor, owner, SessionKept
<1>3. OnceInv'
  BY <1>2, TakeKeepsOnce DEF LeavesSupervisor
<1> QED
  BY <1>1, <1>3

\* What the controller sends keeps its last reconcile in sight of the supervisor;
\* a new one comes into sight unless the queue is full.
LEMMA TurnSight ==
  ASSUME TypeOK, OnceInv, QueueInv, LeavesSupervisor, Sends
  PROVE  \/ KeepsSight /\ pending_desired' = pending_desired
         \/ /\ QueueInv'
            /\ \E q \in Reconciles :
                 /\ pending_desired' = q.desired
                 /\ intent' = "Stopped" => q.desired = {}
                 /\ \/ LastAccepted(q)'
                    \/ ~(running /\ Len(requests) < RequestCapacity)
<1>1. UNCHANGED <<gate, retained, newest>>
  BY DEF LeavesSupervisor, owner, batch
<1>2. CASE SendsNothing
  BY <1>1, <1>2 DEF SendsNothing, queue, KeepsSight, QueueInv, LastAccepted,
                    AnyQueued
<1>3. CASE SendsReconcile
  <2>1. PICK q \in Reconciles :
          /\ q.generation = session_generation + 1
          /\ session_generation' = session_generation + 1
          /\ pending_desired' = q.desired
          /\ intent' = "Stopped" => q.desired = {}
          /\ TrySend(q)
    BY <1>3 DEF SendsReconcile
  <2>2. /\ QueueInv'
        /\ \/ LastAccepted(q)'
           \/ ~(running /\ Len(requests) < RequestCapacity)
    BY <1>1, <2>1, SendReconcileSight
  <2> QED
    BY <2>1, <2>2
<1>4. CASE SendsSuspend
  <2>1. Suspend \in Inlines
    BY DEF Suspend, Inlines, AllInlineKinds
  <2>2. KeepsSight
    BY <1>1, <1>4, <2>1, SendKeepsSight DEF SendsSuspend
  <2> QED
    BY <1>4, <2>2 DEF SendsSuspend
<1>5. CASE SendsLevels
  <2>1. PICK qs \in Seq(Inlines) : requests' = requests \o qs
    BY <1>5 DEF SendsLevels
  <2>2. KeepsSight
    BY <1>1, <1>5, <2>1, AppendKeepsSight DEF SendsLevels
  <2> QED
    BY <1>5, <2>2 DEF SendsLevels
<1>6. CASE Aligns
  <2>1. /\ Head(updates).generation \in Nat /\ Head(updates).generation <= gate
        /\ gate \in Nat /\ session_generation \in Nat
        /\ gate <= session_generation
    BY <1>6, HeadIsOld DEF Aligns, OnceInv, QueueInv, TypeOK, Generation
  <2>2. ~(Head(updates).generation > session_generation)
    BY <2>1
  <2>3. session_generation' = session_generation
    BY <1>6, <2>2 DEF Aligns
  <2> QED
    BY <1>1, <1>6, <2>3 DEF Aligns, queue, KeepsSight, QueueInv, LastAccepted,
                            AnyQueued
<1> QED
  BY <1>2, <1>3, <1>4, <1>5, <1>6 DEF Sends

\* What always holds in the composed system.  The controller never shuts the
\* supervisor down: that is the application's last step.
BackendInv ==
  /\ TypeOK /\ SupervisorInv /\ OnceInv
  /\ ControllerTyped /\ QueueInv
  /\ running

LEMMA BackendInvStep ==
  ASSUME BackendInv, [BackendNext]_allVars
  PROVE  BackendInv'
<1>1. CASE SupervisorStep /\ UNCHANGED ctlVars
  <2>1. /\ OrdinaryStep /\ [Next]_vars
        /\ session_generation' = session_generation
    BY <1>1, SupervisorShape
  <2>2. TypeOK'
    BY <2>1, TypeOKStep DEF BackendInv
  <2>3. SupervisorInv' /\ OnceInv'
    BY <2>1, <2>2, SupervisorInvStep, OnceStep DEF BackendInv
  <2>4. QueueInv'
    BY <2>1, SightStep DEF BackendInv, KeepsSight
  <2>5. ControllerTyped'
    BY <1>1 DEF BackendInv, ControllerTyped, ctlVars
  <2>6. running' = running
    BY <1>1
    DEF SupervisorStep, StartGeneration, StartCompletes, AbortedTaskEnds,
        AdoptFailure, AdoptSuccess, Receive, ProbeDue, ActivationFails,
        ActivationSucceeds, ActivationConsumes, ActivationSuperseded,
        ApplySetVolume, ApplySuspend, NextInline, supVars
  <2> QED
    BY <2>2, <2>3, <2>4, <2>5, <2>6 DEF BackendInv
<1>2. CASE ControllerStep
  <2>1. LeavesSupervisor /\ Sends /\ ControllerTyped'
    BY <1>2, ControllerShape DEF BackendInv
  <2>2. TypeOK'
    BY <2>1, TurnTyped DEF BackendInv
  <2>3. SupervisorInv' /\ OnceInv'
    BY <2>1, <2>2, TurnSafe DEF BackendInv
  <2>4. QueueInv'
    BY <2>1, TurnSight DEF BackendInv, KeepsSight
  <2> QED
    BY <2>1, <2>2, <2>3, <2>4 DEF BackendInv, LeavesSupervisor
<1>3. CASE UNCHANGED allVars
  <2>1. UNCHANGED vars /\ ControllerTyped'
    BY <1>3 DEF allVars, ctlVars, BackendInv, ControllerTyped
  <2>2. TypeOK' /\ QueueInv' /\ running'
    BY <2>1 DEF BackendInv, TypeOK, QueueInv, vars, supVars, queue, client
  <2>3. SupervisorInv' /\ OnceInv'
    BY <2>1, <2>2, SupervisorInvStep, OnceStep DEF BackendInv
  <2> QED
    BY <2>1, <2>2, <2>3 DEF BackendInv
<1> QED
  BY <1>1, <1>2, <1>3 DEF BackendNext

LEMMA BackendInitSafe ==
  ASSUME BackendInit
  PROVE  BackendInv
<1>1. Init
  BY DEF BackendInit, Init
<1>2. TypeOK /\ SupervisorInv
  BY <1>1, InitSafe
<1>3. ControllerTyped
  <2>1. [r \in Receivers |-> NewMachine(r \in castable)]
          \in [Receivers -> Machines]
    <3>1. ASSUME NEW r \in Receivers
          PROVE  NewMachine(r \in castable) \in Machines
      <4>1. (r \in castable) \in BOOLEAN
        OBVIOUS
      <4>2. \A a \in BOOLEAN : NewMachine(a) \in Machines
        <5>1. \A a \in BOOLEAN : AtRest(a) \in Lifecycles
          BY DEF AtRest, Plain, Lifecycles, Labels
        <5> QED
          BY <5>1 DEF NewMachine, Machines
      <4> QED
        BY <4>1, <4>2, Zenon
    <3> QED
      BY <3>1
  <2> QED
    BY <2>1 DEF BackendInit, ControllerTyped
<1>4. OnceInv /\ QueueInv /\ running
  BY EmptySeq
  DEF BackendInit, SupInit, OnceInv, UpdatesOrdered, FailuresReportedOnce,
      ReportedInv, QueueInv, NoReconcile
<1> QED
  BY <1>2, <1>3, <1>4 DEF BackendInv

\* With the real controller on the other side of the two queues: the supervisor
\* still owns one session and loses none, its updates come in order, and the
\* controller's counter is ahead of the gate.
THEOREM BackendSafe == BackendSpec => []BackendInv
<1>1. BackendInit => BackendInv
  BY BackendInitSafe
<1>2. BackendInv /\ [BackendNext]_allVars => BackendInv'
  BY BackendInvStep
<1> QED
  BY <1>1, <1>2, PTL DEF BackendSpec

-----------------------------------------------------------------------------
(* CatchesUp: what is built is what was asked last.                        *)

\* The request queue accepts what the controller sends next.
RequestRoom == Len(requests) < RequestCapacity

AskedFor(q) == IF q = NoReconcile THEN {} ELSE q.desired

\* The receivers the controller counts on are the ones its last reconcile names,
\* wherever that reconcile is: queued, coalesced or admitted.
BuildsInv ==
  \E q \in Reconciles \cup {NoReconcile} :
     LastAccepted(q) /\ pending_desired = AskedFor(q)

LEMMA BuildsStep ==
  ASSUME BackendInv, BuildsInv, RequestRoom, [BackendNext]_allVars
  PROVE  BuildsInv'
<1>1. PICK q \in Reconciles \cup {NoReconcile} :
        LastAccepted(q) /\ pending_desired = AskedFor(q)
  BY DEF BuildsInv
<1>2. ASSUME KeepsSight, pending_desired' = pending_desired
      PROVE  BuildsInv'
  BY <1>1, <1>2 DEF KeepsSight, BuildsInv
<1>3. CASE SupervisorStep /\ UNCHANGED ctlVars
  <2>1. OrdinaryStep /\ pending_desired' = pending_desired
    BY <1>3, SupervisorShape DEF ctlVars
  <2> QED
    BY <1>2, <2>1, SightStep DEF BackendInv
<1>4. CASE ControllerStep
  <2>1. LeavesSupervisor /\ Sends
    BY <1>4, ControllerShape DEF BackendInv
  <2>2. CASE KeepsSight /\ pending_desired' = pending_desired
    BY <1>2, <2>2
  <2>3. CASE \E p \in Reconciles :
               /\ pending_desired' = p.desired
               /\ \/ LastAccepted(p)'
                  \/ ~(running /\ Len(requests) < RequestCapacity)
    <3>1. PICK p \in Reconciles : pending_desired' = p.desired /\ LastAccepted(p)'
      BY <2>3 DEF BackendInv, RequestRoom
    <3>2. p # NoReconcile
      BY <3>1 DEF Reconciles, NoReconcile
    <3> QED
      BY <3>1, <3>2 DEF BuildsInv, AskedFor
  <2> QED
    BY <2>1, <2>2, <2>3, TurnSight DEF BackendInv
<1>5. CASE UNCHANGED allVars
  BY <1>1, <1>5 DEF allVars, ctlVars, vars, supVars, queue, BuildsInv,
                    LastAccepted, AnyQueued
<1> QED
  BY <1>3, <1>4, <1>5 DEF BackendNext

LEMMA BuiltIsAsked ==
  ASSUME BackendInv, BuildsInv
  PROVE  CatchesUp
<1>1. CountersAligned
  BY DEF BackendInv, QueueInv, CountersAligned
<1>2. BuildsWhatWasAsked
  BY EmptySeq
  DEF BuildsInv, BuildsWhatWasAsked, Idle, LastAccepted, AnyQueued, AskedFor
<1> QED
  BY <1>1, <1>2 DEF CatchesUp

LEMMA NothingAskedYet ==
  ASSUME BackendInit
  PROVE  BuildsInv
  BY EmptySeq
  DEF BackendInit, SupInit, BuildsInv, LastAccepted, AnyQueued, AskedFor,
      NoReconcile

\* No reconcile of the controller is ever dropped as stale, whatever the queues
\* hold.
THEOREM CountersStayAligned == BackendSpec => []CountersAligned
<1>1. BackendInv => CountersAligned
  BY DEF BackendInv, QueueInv, CountersAligned
<1> QED
  BY <1>1, BackendSafe, PTL

\* The two tasks stay in step: once the requests are served, the supervisor builds
\* towards the set the controller asked for last, provided that no request was
\* refused by a full queue.
THEOREM TasksCatchUp == BackendSpec /\ []RequestRoom => []CatchesUp
<1>1. BackendInit => BuildsInv
  BY NothingAskedYet
<1>2. BackendInv /\ BuildsInv /\ RequestRoom /\ [BackendNext]_allVars
      => BuildsInv'
  BY BuildsStep
<1>3. BackendInv /\ BuildsInv => CatchesUp
  BY BuiltIsAsked
<1> QED
  BY <1>1, <1>2, <1>3, BackendSafe, PTL DEF BackendSpec

-----------------------------------------------------------------------------
(* Stop.                                                                   *)

\* What is owned belongs to a reconcile that asks for receivers.
OwnedWanted ==
  Owned # {} => retained # NoReconcile /\ retained.desired # {}

\* A stopped application asks for nobody.
StopInv ==
  /\ ~suspended
  /\ intent = "Stopped" => pending_desired = {}

LEMMA OwnedWantedStep ==
  ASSUME TypeOK, SupervisorInv, QueueInv, OwnedWanted, OrdinaryStep
  PROVE  OwnedWanted'
<1>1. CASE StartGeneration
  <2>1. newest \in Reconciles /\ newest # NoReconcile
    BY <1>1 DEF StartGeneration, TypeOK
  <2>2. newest.generation > gate
    <3>1. gate \in Nat /\ session_generation \in Nat
      BY DEF TypeOK, Generation
    <3> QED
      BY <2>1, <3>1 DEF QueueInv
  <2>3. Admit(newest) /\ activating' = activating
    BY <1>1, <2>2 DEF StartGeneration
  <2>4. activating = 0
    BY <1>1 DEF SupervisorInv, StartGeneration
  <2> QED
    BY <2>1, <2>3, <2>4 DEF Admit, Supersede, OwnedWanted, Owned
<1>2. CASE \/ StartCompletes \/ AbortedTaskEnds \/ AdoptFailure \/ AdoptSuccess
           \/ Receive \/ ProbeDue \/ ActivationFails \/ ActivationSucceeds
           \/ ActivationConsumes \/ ActivationSuperseded
           \/ ApplySetVolume \/ ApplyProbe \/ ApplySuspend \/ Shutdown
  <2>1. retained' = retained /\ Owned' \subseteq Owned
    BY <1>2
    DEF StartCompletes, AbortedTaskEnds, AdoptFailure, AdoptSuccess, Receive,
        ProbeDue, ActivationFails, ActivationSucceeds, ActivationConsumes,
        ActivationSuperseded, ApplySetVolume, ApplyProbe, ApplySuspend,
        NextInline, Shutdown, owner, supVars, Owned
  <2> QED
    BY <2>1 DEF OwnedWanted
<1> QED
  BY <1>1, <1>2 DEF OrdinaryStep

\* Without a suspend the gate stays open, so whatever stops the application also
\* tells the supervisor.
LEMMA StopStep ==
  ASSUME BackendInv, StopInv, ControllerStep, ~BeginSuspend
  PROVE  StopInv'
<1>1. ASSUME RequestReconcile, suspended' = suspended
      PROVE  StopInv'
  BY <1>1 DEF RequestReconcile, NothingToDo, StopInv, minted, Wanted
<1>2. ASSUME UNCHANGED <<suspended, intent, pending_desired>>
      PROVE  StopInv'
  BY <1>2 DEF StopInv
<1>3. CASE Batch
  <2>1. PICK d \in SUBSET Receivers, i \in {"Running", "Stopped", Unchanged} :
          /\ UNCHANGED <<suspended, resume_at>>
          /\ ReconcileIf(ScalarsChanged)
    BY <1>3 DEF Batch
  <2>2. RequestReconcile \/ UNCHANGED <<intent, pending_desired>>
    BY <2>1 DEF ReconcileIf, ScalarsChanged, minted
  <2> QED
    BY <1>1, <1>2, <2>1, <2>2
<1>4. CASE \/ ReconfigureBatch \/ RetryReceiver \/ NetworkChange
           \/ FireDueRetries
  BY <1>1, <1>4
  DEF ReconfigureBatch, RetryReceiver, NetworkChange, FireDueRetries, gates
<1>5. CASE ChangeLevels \/ BeginResume \/ ServiceChanges
  BY <1>2, <1>5 DEF ChangeLevels, BeginResume, ServiceChanges, gates, minted
<1>6. CASE FinishResume
  <2>1. suspended' = FALSE /\ intent' = intent
    BY <1>6 DEF FinishResume
  <2>2. RequestReconcile \/ pending_desired' = pending_desired
    BY <1>6 DEF FinishResume, ReconcileIf, minted
  <2>3. suspended' = suspended
    BY <2>1 DEF BackendInv, ControllerTyped, StopInv
  <2> QED
    BY <1>1, <1>2, <2>1, <2>2, <2>3
<1>7. CASE StartupAutoConnect
  BY <1>1, <1>2, <1>7 DEF StartupAutoConnect, minted
<1>8. CASE TakeUpdateStep
  <2>1. UNCHANGED <<suspended, intent>>
    BY <1>8
    DEF TakeUpdateStep, TakeStarting, TakeActive, TakeMemberFailed,
        TakeMemberControlFailed, TakeRecovering, TakeStopped, Take, gates
  <2>2. RequestReconcile \/ pending_desired' = pending_desired
    BY <1>8
    DEF TakeUpdateStep, TakeStarting, TakeActive, TakeMemberFailed,
        TakeMemberControlFailed, TakeRecovering, TakeStopped, ReconcileIf,
        minted
  <2> QED
    BY <1>1, <1>2, <2>1, <2>2
<1> QED
  BY <1>3, <1>4, <1>5, <1>6, <1>7, <1>8 DEF ControllerStep

\* What Stop promises, while Windows suspends nothing and no request is refused:
\* once both tasks are quiet, a stopped application has no session.
THEOREM StopIsSilent ==
  BackendSpec /\ []RequestRoom /\ [][~BeginSuspend]_allVars
  => []StoppedMeansSilent
<1>1. BackendInit => BuildsInv /\ OwnedWanted /\ StopInv
  <2>1. BackendInit => OwnedWanted /\ StopInv
    BY DEF BackendInit, SupInit, OwnedWanted, Owned, StopInv
  <2> QED
    BY <2>1, NothingAskedYet
<1>2. BackendInv /\ BuildsInv /\ RequestRoom /\ [BackendNext]_allVars
      => BuildsInv'
  BY BuildsStep
<1>3. BackendInv /\ OwnedWanted /\ [BackendNext]_allVars => OwnedWanted'
  <2> SUFFICES ASSUME BackendInv, OwnedWanted, [BackendNext]_allVars
               PROVE  OwnedWanted'
    OBVIOUS
  <2>1. CASE SupervisorStep /\ UNCHANGED ctlVars
    BY <2>1, SupervisorShape, OwnedWantedStep DEF BackendInv
  <2>2. CASE ControllerStep
    BY <2>2, ControllerShape
    DEF BackendInv, LeavesSupervisor, owner, OwnedWanted, Owned
  <2>3. CASE UNCHANGED allVars
    BY <2>3 DEF allVars, vars, supVars, OwnedWanted, Owned
  <2> QED
    BY <2>1, <2>2, <2>3 DEF BackendNext
<1>4. /\ BackendInv /\ StopInv
      /\ [BackendNext]_allVars /\ [~BeginSuspend]_allVars
      => StopInv'
  <2> SUFFICES ASSUME BackendInv, StopInv, [BackendNext]_allVars,
                      [~BeginSuspend]_allVars
               PROVE  StopInv'
    OBVIOUS
  <2>1. CASE UNCHANGED ctlVars
    BY <2>1 DEF ctlVars, StopInv
  <2>2. CASE ControllerStep /\ ~BeginSuspend
    BY <2>2, StopStep
  <2> QED
    BY <2>1, <2>2 DEF BackendNext, allVars
<1>5. BackendInv /\ BuildsInv /\ OwnedWanted /\ StopInv => StoppedMeansSilent
  <2> SUFFICES ASSUME BackendInv, BuildsInv, OwnedWanted, StopInv,
                      Quiet, intent = "Stopped", active # 0
               PROVE  FALSE
    BY DEF StoppedMeansSilent
  <2>1. retained # NoReconcile /\ retained.desired # {}
    BY DEF OwnedWanted, Owned
  <2>2. pending_desired = {}
    BY DEF StopInv
  <2>3. BuildsWhatWasAsked
    BY BuiltIsAsked DEF CatchesUp
  <2> QED
    BY <2>1, <2>2, <2>3 DEF BuildsWhatWasAsked, Quiet
<1> QED
  BY <1>1, <1>2, <1>3, <1>4, <1>5, BackendSafe, PTL DEF BackendSpec

-----------------------------------------------------------------------------
(* ShownIsHeld: the session in the window is the one the supervisor holds. *)

\* The update queue has room for whatever one step of the supervisor reports.
UpdateRoom == Len(updates) + Cardinality(Receivers) + 1 <= UpdateCapacity

\* Position k of the update queue says which members and primary the window shows
\* once it is taken; position 0 is what it shows now.
ShownAt(k)   == k = 0 \/ updates[k].kind = "Active"
MembersAt(k) == IF k = 0 THEN members ELSE updates[k].members
PrimaryAt(k) == IF k = 0 THEN primary ELSE updates[k].primary
Fails(i, r)  == updates[i].kind = "MemberFailed" /\ updates[i].receiver = r

\* The loss of the primary shown at that point is reported as such.
HonestFlags ==
  \A i \in 1..Len(updates), k \in 0..Len(updates) :
    /\ k < i /\ ShownAt(k)
    /\ \A j \in 1..Len(updates) : k < j /\ j < i => updates[j].kind # "Active"
    /\ Fails(i, PrimaryAt(k))
    => updates[i].primary

\* After position k come only reports about members, and with them the window
\* shows exactly the members the supervisor still holds.
Sees(k) ==
  /\ ShownAt(k)
  /\ \A i \in 1..Len(updates) : i > k => ~Lifecycle(updates[i])
  /\ PrimaryAt(k) \in {built.primary, NoReceiver}
  /\ \A r \in Receivers :
       r \in built.members \ failed <=>
         r \in MembersAt(k)
         /\ \A i \in 1..Len(updates) : i > k => ~Fails(i, r)

EdgesSound ==
  \A i \in 1..Len(updates) : updates[i].kind = "Active" =>
    updates[i].primary \in updates[i].members \cup {NoReceiver}

ShownInv ==
  /\ primary \in members \cup {NoReceiver}
  /\ built.primary \in built.members \cup {NoReceiver}
  /\ active = 0 => failed = {}
  /\ EdgesSound
  /\ HonestFlags
  /\ active # 0 => \E k \in 0..Len(updates) : Sees(k)

\* With room, a handler's reports all enter the queue.
LEMMA PushedAll ==
  ASSUME TypeOK, NEW us \in Seq(Messages), PushUpdates(us),
         Len(updates) + Len(us) <= UpdateCapacity
  PROVE  /\ updates \in Seq(Messages) /\ updates' \in Seq(Messages)
         /\ Len(updates) \in Nat /\ Len(us) \in Nat
         /\ Len(updates') = Len(updates) + Len(us)
         /\ \A i \in 1..Len(updates) : updates'[i] = updates[i]
         /\ \A i \in 1..Len(updates') :
               i > Len(updates) => /\ i - Len(updates) \in 1..Len(us)
                                   /\ updates'[i] = us[i - Len(updates)]
<1>1. updates \in Seq(Messages) /\ Len(updates) \in Nat /\ Len(us) \in Nat
  BY LenProperties DEF TypeOK, Messages
<1>2. UpdateCapacity \in Nat
  BY SupervisorAssumption
<1>3. Len(us) <= UpdateCapacity - Len(updates)
  BY <1>1, <1>2
<1>4. updates' = updates \o us
  BY <1>3 DEF PushUpdates, Accepted
<1> QED
  BY <1>1, <1>4, ConcatProperties

\* Edges that bring no Active and leave no session keep the picture.
LEMMA NoSessionShown ==
  ASSUME TypeOK, ShownInv, UNCHANGED <<members, primary>>,
         active' = 0, failed' = {},
         built'.primary \in built'.members \cup {NoReceiver},
         \/ updates' = updates
         \/ \E us \in Seq(Messages) :
              /\ PushUpdates(us) /\ Len(updates) + Len(us) <= UpdateCapacity
              /\ \A i \in 1..Len(us) : us[i].kind \notin {"Active", "MemberFailed"}
  PROVE  ShownInv'
<1>1. CASE updates' = updates
  BY <1>1 DEF ShownInv, EdgesSound, HonestFlags, ShownAt, PrimaryAt, Fails
<1>2. CASE \E us \in Seq(Messages) :
             /\ PushUpdates(us) /\ Len(updates) + Len(us) <= UpdateCapacity
             /\ \A i \in 1..Len(us) :
                  us[i].kind \notin {"Active", "MemberFailed"}
  <2>1. PICK us \in Seq(Messages) :
          /\ PushUpdates(us) /\ Len(updates) + Len(us) <= UpdateCapacity
          /\ \A i \in 1..Len(us) : us[i].kind \notin {"Active", "MemberFailed"}
    BY <1>2
  <2>2. /\ Len(updates) \in Nat /\ Len(us) \in Nat
        /\ Len(updates') = Len(updates) + Len(us)
        /\ \A i \in 1..Len(updates) : updates'[i] = updates[i]
        /\ \A i \in 1..Len(updates') :
              i > Len(updates) => updates'[i].kind \notin {"Active", "MemberFailed"}
    BY <2>1, PushedAll
  <2>3. \A i \in 1..Len(updates') :
          updates'[i].kind \in {"Active", "MemberFailed"} =>
            i \in 1..Len(updates) /\ updates'[i] = updates[i]
    BY <2>2
  <2>4. EdgesSound'
    BY <2>3 DEF ShownInv, EdgesSound
  <2>5. HonestFlags'
    <3>1. SUFFICES ASSUME NEW i \in 1..Len(updates'), NEW k \in 0..Len(updates'),
                          k < i, ShownAt(k)',
                          \A j \in 1..Len(updates') :
                             k < j /\ j < i => updates'[j].kind # "Active",
                          Fails(i, PrimaryAt(k))'
                   PROVE  updates'[i].primary
      BY DEF HonestFlags
    <3>2. i \in 1..Len(updates) /\ updates'[i] = updates[i]
      BY <2>3, <3>1 DEF Fails
    <3>3. k \in 0..Len(updates) /\ (k # 0 => updates'[k] = updates[k])
      BY <2>2, <3>1, <3>2
    <3>4. ShownAt(k) /\ Fails(i, PrimaryAt(k))
      BY <3>1, <3>2, <3>3 DEF ShownAt, Fails, PrimaryAt
    <3>5. \A j \in 1..Len(updates) :
             k < j /\ j < i => updates[j].kind # "Active"
      BY <2>2, <3>1
    <3> QED
      BY <3>1, <3>2, <3>3, <3>4, <3>5 DEF ShownInv, HonestFlags
  <2> QED
    BY <2>4, <2>5 DEF ShownInv
<1> QED
  BY <1>1, <1>2

\* The Active edge of the adopted transport: from its position on the window
\* shows that transport.
LEMMA ActiveShown ==
  ASSUME TypeOK, ShownInv, UNCHANGED <<members, primary, built, failed>>,
         failed = {}, NEW g \in Generation, PushUpdates(<<Active(g, built)>>),
         Len(updates) + 1 <= UpdateCapacity, active' # 0
  PROVE  ShownInv'
<1> DEFINE e == Active(g, built)
           us == <<e>>
<1>0. PICK n \in Nat : n = Len(updates) + 1
  BY LenProperties DEF TypeOK
<1>1. e \in Messages /\ us \in Seq(Messages) /\ Len(us) = 1 /\ us[1] = e
  <2>1. e \in Messages
    BY EdgesTyped DEF TypeOK, Messages
  <2> HIDE DEF e
  <2> QED
    BY <2>1, ShortSequences
<1>2. /\ e.kind = "Active" /\ e.members = built.members
      /\ e.primary = built.primary
  BY DEF Active
<1> HIDE DEF e, us
<1>3. /\ Len(updates) \in Nat /\ Len(updates') = n
      /\ \A i \in 1..Len(updates) : updates'[i] = updates[i]
      /\ updates'[n] = e
  <2>1. PushUpdates(us)
    BY DEF e, us
  <2>2. Len(updates) + Len(us) <= UpdateCapacity
    BY <1>1
  <2>3. /\ Len(updates) \in Nat /\ Len(updates') = Len(updates) + Len(us)
        /\ \A i \in 1..Len(updates) : updates'[i] = updates[i]
        /\ \A i \in 1..Len(updates') :
              i > Len(updates) => updates'[i] = us[i - Len(updates)]
    BY <1>1, <2>1, <2>2, PushedAll
  <2> QED
    BY <1>0, <1>1, <2>3
<1>4. \A i \in 1..Len(updates') :
        i # n => i \in 1..Len(updates) /\ updates'[i] = updates[i]
  BY <1>0, <1>3
<1>5. EdgesSound'
  BY <1>2, <1>3, <1>4 DEF ShownInv, EdgesSound
<1>6. HonestFlags'
  <2>1. SUFFICES ASSUME NEW i \in 1..Len(updates'), NEW k \in 0..Len(updates'),
                        k < i, ShownAt(k)',
                        \A j \in 1..Len(updates') :
                           k < j /\ j < i => updates'[j].kind # "Active",
                        Fails(i, PrimaryAt(k))'
                 PROVE  updates'[i].primary
    BY DEF HonestFlags
  <2>2. i \in 1..Len(updates) /\ updates'[i] = updates[i]
    BY <1>2, <1>3, <1>4, <2>1 DEF Fails
  <2>3. k \in 0..Len(updates) /\ (k # 0 => updates'[k] = updates[k])
    BY <1>3, <2>1, <2>2
  <2>4. ShownAt(k) /\ Fails(i, PrimaryAt(k))
    BY <2>1, <2>2, <2>3 DEF ShownAt, Fails, PrimaryAt
  <2>5. \A j \in 1..Len(updates) :
           k < j /\ j < i => updates[j].kind # "Active"
    BY <1>3, <2>1
  <2> QED
    BY <2>1, <2>2, <2>3, <2>4, <2>5 DEF ShownInv, HonestFlags
<1>7. Sees(n)'
  <2>1. n # 0
    BY <1>0, <1>3
  <2>2. /\ ShownAt(n)' /\ PrimaryAt(n)' = built.primary
        /\ MembersAt(n)' = built.members
    BY <1>2, <1>3, <2>1 DEF ShownAt, PrimaryAt, MembersAt
  <2>3. \A i \in 1..Len(updates') : ~(i > n)
    BY <1>3
  <2> QED
    BY <2>2, <2>3 DEF Sees
<1>8. n \in 0..Len(updates')
  BY <1>0, <1>3
<1> QED
  BY <1>5, <1>6, <1>7, <1>8 DEF ShownInv

\* Reports about members: the window loses exactly the ones that failed.
LEMMA ReportsShown ==
  ASSUME TypeOK, ShownInv, active # 0,
         UNCHANGED <<members, primary, built, active>>,
         NEW us \in Seq(Reports), PushUpdates(us),
         Len(updates) + Len(us) <= UpdateCapacity,
         \A i \in 1..Len(us) :
            us[i].kind = "MemberFailed" /\ us[i].receiver = built.primary
            => us[i].primary,
         \A r \in Receivers :
            r \in failed' <=>
              \/ r \in failed
              \/ \E i \in 1..Len(us) :
                    us[i].kind = "MemberFailed" /\ us[i].receiver = r
  PROVE  ShownInv'
<1>1. us \in Seq(Messages)
  BY DEF Messages
<1>2. /\ Len(updates) \in Nat /\ Len(us) \in Nat
      /\ Len(updates') = Len(updates) + Len(us)
      /\ \A i \in 1..Len(updates) : updates'[i] = updates[i]
      /\ \A i \in 1..Len(updates') :
            i > Len(updates) => /\ i - Len(updates) \in 1..Len(us)
                                /\ updates'[i] = us[i - Len(updates)]
  BY <1>1, PushedAll
<1>3. \A i \in 1..Len(us) :
        us[i] \in Reports /\ us[i].kind # "Active" /\ ~Lifecycle(us[i])
  BY DEF Reports, Lifecycle
<1>4. \A i \in 1..Len(updates') :
        \/ i \in 1..Len(updates) /\ updates'[i] = updates[i]
        \/ /\ i > Len(updates) /\ i - Len(updates) \in 1..Len(us)
           /\ updates'[i] = us[i - Len(updates)]
           /\ updates'[i].kind # "Active" /\ ~Lifecycle(updates'[i])
  BY <1>2, <1>3
<1>5. EdgesSound'
  BY <1>4 DEF ShownInv, EdgesSound
<1>6. PICK s \in 0..Len(updates) : Sees(s)
  BY DEF ShownInv
<1>7. s # 0 => s \in 1..Len(updates) /\ updates'[s] = updates[s]
  BY <1>2, <1>6
<1>8. /\ ShownAt(s)' /\ PrimaryAt(s)' = PrimaryAt(s)
      /\ MembersAt(s)' = MembersAt(s)
  BY <1>6, <1>7 DEF Sees, ShownAt, PrimaryAt, MembersAt
<1>9. \A i \in 1..Len(updates) : i > s => updates[i].kind # "Active"
  BY <1>6 DEF Sees, Lifecycle
<1>10. HonestFlags'
  <2>1. SUFFICES ASSUME NEW i \in 1..Len(updates'), NEW k \in 0..Len(updates'),
                        k < i, ShownAt(k)',
                        \A j \in 1..Len(updates') :
                           k < j /\ j < i => updates'[j].kind # "Active",
                        Fails(i, PrimaryAt(k))'
                 PROVE  updates'[i].primary
    BY DEF HonestFlags
  <2>2. k \in 0..Len(updates) /\ (k # 0 => updates'[k] = updates[k])
    BY <1>2, <1>4, <2>1 DEF ShownAt
  <2>3. CASE i \in 1..Len(updates)
    <3>1. ShownAt(k) /\ Fails(i, PrimaryAt(k)) /\ updates'[i] = updates[i]
      BY <1>2, <2>1, <2>2, <2>3 DEF ShownAt, Fails, PrimaryAt
    <3>2. \A j \in 1..Len(updates) :
             k < j /\ j < i => updates[j].kind # "Active"
      BY <1>2, <2>1
    <3> QED
      BY <2>1, <2>2, <2>3, <3>1, <3>2 DEF ShownInv, HonestFlags
  <2>4. CASE ~(i \in 1..Len(updates))
    <3>1. i > Len(updates) /\ i - Len(updates) \in 1..Len(us)
          /\ updates'[i] = us[i - Len(updates)]
      BY <1>4, <2>4
    <3>2. ~(k < s)
      BY <1>2, <1>6, <1>7, <1>8, <2>1, <3>1 DEF ShownAt
    <3>3. ~(k > s)
      BY <1>9, <2>1, <2>2, <1>6 DEF ShownAt
    <3>4. k = s
      BY <1>6, <2>2, <3>2, <3>3
    <3>5. updates'[i].receiver \in Receivers
      BY <1>3, <3>1 DEF Reports
    <3>6. updates'[i].receiver # NoReceiver
      BY <3>5, SupervisorAssumption DEF NoReceiver
    <3>7. updates'[i].receiver = built.primary
      BY <1>6, <1>8, <2>1, <3>4, <3>6 DEF Fails, Sees
    <3> QED
      BY <2>1, <3>1, <3>7 DEF Fails
  <2> QED
    BY <2>3, <2>4
<1>11. Sees(s)'
  <2>1. \A i \in 1..Len(updates') : i > s => ~Lifecycle(updates'[i])
    BY <1>4, <1>6 DEF Sees
  <2>2. ASSUME NEW r \in Receivers
        PROVE  (\A i \in 1..Len(updates') : i > s => ~Fails(i, r)')
               <=> /\ \A i \in 1..Len(updates) : i > s => ~Fails(i, r)
                   /\ ~\E i \in 1..Len(us) :
                         us[i].kind = "MemberFailed" /\ us[i].receiver = r
    <3>1. ASSUME NEW i \in 1..Len(us), us[i].kind = "MemberFailed",
                 us[i].receiver = r
          PROVE  \E j \in 1..Len(updates') : j > s /\ Fails(j, r)'
      <4>1. PICK j \in 1..Len(updates') : j = Len(updates) + i
        BY <1>2
      <4>2. j > s /\ j > Len(updates) /\ j - Len(updates) = i
        BY <1>2, <1>6, <4>1
      <4>3. updates'[j] = us[i]
        BY <1>2, <4>2
      <4> QED
        BY <3>1, <4>2, <4>3 DEF Fails
    <3>2. ASSUME NEW i \in 1..Len(updates), i > s, Fails(i, r)
          PROVE  \E j \in 1..Len(updates') : j > s /\ Fails(j, r)'
      BY <1>2, <3>2 DEF Fails
    <3>3. ASSUME NEW j \in 1..Len(updates'), j > s, Fails(j, r)'
          PROVE  \/ \E i \in 1..Len(updates) : i > s /\ Fails(i, r)
                 \/ \E i \in 1..Len(us) :
                      us[i].kind = "MemberFailed" /\ us[i].receiver = r
      BY <1>4, <3>3 DEF Fails
    <3> QED
      BY <3>1, <3>2, <3>3
  <2>3. ASSUME NEW r \in Receivers
        PROVE  r \in built.members \ failed' <=>
                 /\ r \in MembersAt(s)
                 /\ \A i \in 1..Len(updates') : i > s => ~Fails(i, r)'
    BY <1>6, <2>2 DEF Sees
  <2> QED
    BY <1>6, <1>8, <2>1, <2>3 DEF Sees
<1>12. s \in 0..Len(updates')
  BY <1>2, <1>6
<1> QED
  BY <1>5, <1>10, <1>11, <1>12 DEF ShownInv

\* What the window makes of the update it takes.
Publishes(h) ==
  \/ h.kind = "Active" /\ members' = h.members /\ primary' = h.primary
  \/ /\ h.kind = "MemberFailed" /\ members' = members \ {h.receiver}
     /\ primary' = IF h.primary /\ primary = h.receiver THEN NoReceiver
                   ELSE primary
  \/ h.kind = "Stopped" /\ members' = {} /\ primary' = NoReceiver
  \/ /\ h.kind \in {"Starting", "Recovering", "MemberControlFailed"}
     /\ UNCHANGED <<members, primary>>

\* Taking the oldest update moves the picture by one position.
LEMMA TakenShown ==
  ASSUME TypeOK, ShownInv, updates # <<>>, updates' = Tail(updates),
         Publishes(Head(updates)), UNCHANGED <<built, active, failed>>
  PROVE  ShownInv'
<1> DEFINE h == updates[1]
<1>1. /\ Len(updates) \in Nat /\ Len(updates) >= 1 /\ h = Head(updates)
      /\ Len(updates') = Len(updates) - 1
      /\ \A i \in 1..Len(updates') : updates'[i] = updates[i + 1]
  BY HeadTailProperties, EmptySeq, LenProperties DEF TypeOK
<1>2. \A i \in 1..Len(updates) :
        /\ updates[i] \in Messages
        /\ updates[i].kind = "MemberFailed" => updates[i].receiver \in Receivers
  BY DEF TypeOK, Messages, Edges, Reports
<1>3. Publishes(h)
  BY <1>1
<1>4. NoReceiver \notin Receivers
  BY SupervisorAssumption DEF NoReceiver
<1>5. h.kind # "Active" => primary' \in {primary, NoReceiver}
  BY <1>3 DEF Publishes
<1>6. primary' \in members' \cup {NoReceiver}
  <2>1. CASE h.kind = "Active"
    BY <1>1, <1>3, <2>1 DEF Publishes, ShownInv, EdgesSound
  <2>2. CASE h.kind = "MemberFailed"
    <3>1. primary = h.receiver => h.primary
      <4>1. 1 \in 1..Len(updates) /\ 0 \in 0..Len(updates) /\ ShownAt(0)
            /\ PrimaryAt(0) = primary
        BY <1>1 DEF ShownAt, PrimaryAt
      <4>2. \A j \in 1..Len(updates) : ~(0 < j /\ j < 1)
        OBVIOUS
      <4> QED
        BY <2>2, <4>1, <4>2 DEF ShownInv, HonestFlags, Fails
    <3> QED
      BY <1>3, <2>2, <3>1 DEF Publishes, ShownInv
  <2>3. CASE h.kind \notin {"Active", "MemberFailed"}
    BY <1>3, <2>3 DEF Publishes, ShownInv
  <2> QED
    BY <2>1, <2>2, <2>3
<1>7. EdgesSound'
  BY <1>1 DEF ShownInv, EdgesSound
<1>8. HonestFlags'
  <2>1. SUFFICES ASSUME NEW i \in 1..Len(updates'), NEW k \in 0..Len(updates'),
                        k < i, ShownAt(k)',
                        \A j \in 1..Len(updates') :
                           k < j /\ j < i => updates'[j].kind # "Active",
                        Fails(i, PrimaryAt(k))'
                 PROVE  updates'[i].primary
    BY DEF HonestFlags
  <2>2. /\ i + 1 \in 1..Len(updates) /\ updates'[i] = updates[i + 1]
        /\ \A j \in 1..Len(updates) :
             k + 1 < j /\ j < i + 1 => updates[j].kind # "Active"
    <3>1. ASSUME NEW j \in 1..Len(updates), k + 1 < j, j < i + 1
          PROVE  updates[j].kind # "Active"
      <4>1. /\ j - 1 \in 1..Len(updates') /\ k < j - 1 /\ j - 1 < i
            /\ updates'[j - 1] = updates[j]
        BY <1>1, <3>1
      <4> QED
        BY <2>1, <4>1
    <3> QED
      BY <1>1, <3>1
  <2>3. CASE k # 0
    <3>1. /\ k + 1 \in 0..Len(updates) /\ k + 1 < i + 1
          /\ updates'[k] = updates[k + 1]
      BY <1>1, <2>1, <2>3
    <3>2. ShownAt(k + 1) /\ Fails(i + 1, PrimaryAt(k + 1))
      BY <2>1, <2>2, <2>3, <3>1 DEF ShownAt, Fails, PrimaryAt
    <3> QED
      BY <2>2, <3>1, <3>2 DEF ShownInv, HonestFlags
  <2>4. CASE k = 0 /\ h.kind = "Active"
    <3>1. ShownAt(1) /\ PrimaryAt(1) = primary' /\ 1 \in 0..Len(updates)
          /\ 1 < i + 1
      BY <1>1, <1>3, <2>1, <2>4 DEF ShownAt, PrimaryAt, Publishes
    <3>2. Fails(i + 1, PrimaryAt(1))
      BY <2>1, <2>2, <2>4, <3>1 DEF Fails, PrimaryAt
    <3>3. \A j \in 1..Len(updates) :
            1 < j /\ j < i + 1 => updates[j].kind # "Active"
      BY <2>2, <2>4
    <3> QED
      BY <2>2, <3>1, <3>2, <3>3 DEF ShownInv, HonestFlags
  <2>5. CASE k = 0 /\ h.kind # "Active"
    <3>1. Fails(i + 1, primary')
      BY <2>1, <2>2, <2>5 DEF Fails, PrimaryAt
    <3>2. primary' # NoReceiver
      BY <1>2, <1>4, <2>2, <3>1 DEF Fails
    <3>3. ShownAt(0) /\ Fails(i + 1, PrimaryAt(0)) /\ 0 \in 0..Len(updates)
          /\ 0 < i + 1
      BY <1>1, <1>5, <2>1, <2>5, <3>1, <3>2 DEF ShownAt, PrimaryAt
    <3>4. \A j \in 1..Len(updates) :
            0 < j /\ j < i + 1 => updates[j].kind # "Active"
      BY <2>2, <2>5
    <3> QED
      BY <2>2, <3>3, <3>4 DEF ShownInv, HonestFlags
  <2> QED
    BY <2>3, <2>4, <2>5
<1>9. ASSUME active # 0
      PROVE  \E k \in 0..Len(updates') : Sees(k)'
  <2>1. PICK k \in 0..Len(updates) : Sees(k)
    BY <1>9 DEF ShownInv
  <2>2. CASE k # 0
    <3>1. PICK l \in 0..Len(updates') : l = k - 1
      BY <1>1, <2>1, <2>2
    <3>2. PrimaryAt(l)' = PrimaryAt(k) /\ MembersAt(l)' = MembersAt(k)
          /\ ShownAt(l)'
      <4>1. CASE l = 0
        <5>1. k = 1 /\ h.kind = "Active"
          BY <2>1, <2>2, <3>1, <4>1 DEF Sees, ShownAt
        <5> QED
          BY <1>3, <4>1, <5>1 DEF Publishes, PrimaryAt, MembersAt, ShownAt
      <4>2. CASE l # 0
        <5>1. updates'[l] = updates[k]
          BY <1>1, <3>1, <4>2
        <5> QED
          BY <2>1, <2>2, <4>2, <5>1 DEF Sees, PrimaryAt, MembersAt, ShownAt
      <4> QED
        BY <4>1, <4>2
    <3>3. \A i \in 1..Len(updates') :
            i > l => /\ i + 1 \in 1..Len(updates) /\ i + 1 > k
                     /\ updates'[i] = updates[i + 1]
      BY <1>1, <2>1, <3>1
    <3>4. \A i \in 1..Len(updates') : i > l => ~Lifecycle(updates'[i])
      BY <2>1, <3>3 DEF Sees
    <3>5. ASSUME NEW r \in Receivers
          PROVE  (\A i \in 1..Len(updates') : i > l => ~Fails(i, r)')
                 <=> (\A i \in 1..Len(updates) : i > k => ~Fails(i, r))
      <4>1. ASSUME NEW i \in 1..Len(updates), i > k, Fails(i, r)
            PROVE  \E j \in 1..Len(updates') : j > l /\ Fails(j, r)'
        <5>1. PICK j \in 1..Len(updates') : j = i - 1
          BY <1>1, <2>1, <2>2, <4>1
        <5>2. j > l /\ updates'[j] = updates[i]
          BY <1>1, <2>1, <3>1, <4>1, <5>1
        <5> QED
          BY <4>1, <5>2 DEF Fails
      <4>2. ASSUME NEW j \in 1..Len(updates'), j > l, Fails(j, r)'
            PROVE  \E i \in 1..Len(updates) : i > k /\ Fails(i, r)
        BY <3>3, <4>2 DEF Fails
      <4> QED
        BY <4>1, <4>2
    <3>6. Sees(l)'
      BY <2>1, <3>2, <3>4, <3>5 DEF Sees
    <3> QED
      BY <3>6
  <2>3. CASE k = 0
    <3>1. h.kind \in {"MemberFailed", "MemberControlFailed"}
      BY <1>1, <1>3, <2>1, <2>3 DEF Sees, Lifecycle, Publishes
    <3>2. /\ PrimaryAt(0)' \in {built.primary, NoReceiver}
          /\ ShownAt(0)' /\ MembersAt(0)' = members'
          /\ MembersAt(0) = members
      BY <1>5, <2>1, <2>3, <3>1 DEF Sees, PrimaryAt, ShownAt, MembersAt
    <3>3. \A i \in 1..Len(updates') : i > 0 => ~Lifecycle(updates'[i])
      BY <1>1, <2>1, <2>3 DEF Sees
    <3>4. ASSUME NEW r \in Receivers
          PROVE  r \in members' /\ (\A i \in 1..Len(updates') :
                                      i > 0 => ~Fails(i, r)')
                 <=> r \in members /\ (\A i \in 1..Len(updates) :
                                         i > 0 => ~Fails(i, r))
      <4>1. r \in members' <=> r \in members /\ ~Fails(1, r)
        BY <1>3, <3>1 DEF Publishes, Fails
      <4>2. ASSUME NEW i \in 1..Len(updates), Fails(i, r), i # 1
            PROVE  \E j \in 1..Len(updates') : j > 0 /\ Fails(j, r)'
        <5>1. PICK j \in 1..Len(updates') : j = i - 1
          BY <1>1, <4>2
        <5>2. updates'[j] = updates[i]
          BY <1>1, <5>1
        <5> QED
          BY <4>2, <5>2 DEF Fails
      <4>3. ASSUME NEW j \in 1..Len(updates'), Fails(j, r)'
            PROVE  \E i \in 1..Len(updates) : i > 0 /\ Fails(i, r)
        <5>1. j + 1 \in 1..Len(updates) /\ updates'[j] = updates[j + 1]
          BY <1>1
        <5> QED
          BY <4>3, <5>1 DEF Fails
      <4>4. 1 \in 1..Len(updates)
        BY <1>1
      <4> QED
        BY <4>1, <4>2, <4>3, <4>4
    <3>5. Sees(0)'
      BY <2>1, <2>3, <3>2, <3>3, <3>4 DEF Sees
    <3>6. 0 \in 0..Len(updates')
      BY <1>1
    <3> QED
      BY <3>5, <3>6
  <2> QED
    BY <2>2, <2>3
<1> QED
  BY <1>6, <1>7, <1>8, <1>9 DEF ShownInv

\* A probe cycle reports members of the session in hand.
LEMMA ProbeShown ==
  ASSUME TypeOK, ShownInv, active # 0, ProbeCycle, UpdateRoom,
         UNCHANGED <<members, primary, built, active>>
  PROVE  ShownInv'
<1>0. PICK n \in 0..Cardinality(built.members \ failed) :
        \E report \in [1..n -> built.members \ failed] :
          /\ failed' = failed \cup {report[i] : i \in 1..n}
          /\ PushUpdates([i \in 1..n |->
               MemberFailed(gate, report[i], report[i] = built.primary)])
  BY DEF ProbeCycle
<1>1. PICK report \in [1..n -> built.members \ failed] :
        /\ failed' = failed \cup {report[i] : i \in 1..n}
        /\ PushUpdates([i \in 1..n |->
             MemberFailed(gate, report[i], report[i] = built.primary)])
  BY <1>0
<1>2. built.members \ failed \subseteq Receivers
  BY DEF TypeOK, Builds
<1>3. n \in Nat /\ n <= Cardinality(Receivers) /\ Cardinality(Receivers) \in Nat
  <2>1. /\ Cardinality(Receivers) \in Nat
        /\ Cardinality(built.members \ failed) \in Nat
        /\ Cardinality(built.members \ failed) <= Cardinality(Receivers)
    BY <1>2, BackendAssumption, FS_Subset, FS_CardinalityType
  <2> QED
    BY <1>1, <2>1
<1> DEFINE us == [i \in 1..n |->
                    MemberFailed(gate, report[i], report[i] = built.primary)]
<1>4. \A i \in 1..n : /\ us[i] \in Reports /\ us[i].kind = "MemberFailed"
                      /\ us[i].receiver = report[i]
                      /\ us[i].primary = (report[i] = built.primary)
                      /\ report[i] \in Receivers
  <2>1. ASSUME NEW i \in 1..n
        PROVE  us[i] \in Reports /\ report[i] \in Receivers
    <3>1. gate \in Generation /\ report[i] \in Receivers
      BY <1>1, <1>2 DEF TypeOK
    <3>2. (report[i] = built.primary) \in BOOLEAN
      OBVIOUS
    <3>3. \A p \in BOOLEAN : MemberFailed(gate, report[i], p) \in Reports
      BY <3>1, EdgesTyped
    <3>4. MemberFailed(gate, report[i], report[i] = built.primary) \in Reports
      BY <3>2, <3>3, Zenon
    <3> QED
      BY <3>1, <3>4
  <2> QED
    BY <2>1 DEF MemberFailed
<1>5. us \in Seq(Reports) /\ Len(us) = n
  BY <1>3, <1>4
<1>6. PushUpdates(us)
  BY <1>1
<1> HIDE DEF us
<1>7. Len(updates) + Len(us) <= UpdateCapacity
  <2>1. Len(updates) \in Nat /\ UpdateCapacity \in Nat
    BY SupervisorAssumption, LenProperties DEF TypeOK
  <2> QED
    BY <1>3, <1>5, <2>1 DEF UpdateRoom
<1>8. \A r \in Receivers :
         r \in failed' <=>
           \/ r \in failed
           \/ \E i \in 1..Len(us) :
                 us[i].kind = "MemberFailed" /\ us[i].receiver = r
  BY <1>1, <1>4, <1>5
<1>9. \A i \in 1..Len(us) :
         us[i].kind = "MemberFailed" /\ us[i].receiver = built.primary
         => us[i].primary
  BY <1>4, <1>5
<1> QED
  BY <1>5, <1>6, <1>7, <1>8, <1>9, ReportsShown

\* Every step of the supervisor keeps the picture.
LEMMA SupervisorShown ==
  ASSUME BackendInv, ShownInv, UpdateRoom, SupervisorStep,
         UNCHANGED <<members, primary>>
  PROVE  ShownInv'
<1>1. /\ Len(updates) \in Nat /\ UpdateCapacity \in Nat
      /\ Len(updates) + 1 <= UpdateCapacity
  <2>1. Cardinality(Receivers) \in Nat
    BY BackendAssumption, FS_CardinalityType
  <2>2. Len(updates) \in Nat /\ UpdateCapacity \in Nat
    BY SupervisorAssumption, LenProperties DEF BackendInv, TypeOK
  <2> QED
    BY <2>1, <2>2 DEF UpdateRoom
<1>2. /\ TypeOK /\ gate \in Generation
      /\ inFlight # 0 => active = 0 /\ inFlight \in Generation
      /\ activating # 0 => active = 0 /\ activating \in Generation
      /\ active = 0 => failed = {}
  BY DEF BackendInv, TypeOK, SupervisorInv, OneSession, ShownInv
<1>3. NoBuild.primary \in NoBuild.members \cup {NoReceiver}
  BY DEF NoBuild
<1>4. ASSUME NEW e \in Edges, e.kind # "Active", PushUpdates(<<e>>)
      PROVE  \E us \in Seq(Messages) :
               /\ PushUpdates(us) /\ Len(updates) + Len(us) <= UpdateCapacity
               /\ \A i \in 1..Len(us) :
                    us[i].kind \notin {"Active", "MemberFailed"}
  <2> DEFINE us == <<e>>
  <2>1. e \in Messages /\ e.kind # "MemberFailed"
    BY <1>4, EdgeIsNoFailure
  <2>2. us \in Seq(Messages) /\ Len(us) = 1 /\ us[1] = e
    BY <2>1, ShortSequences
  <2>3. PushUpdates(us)
    BY <1>4
  <2> HIDE DEF us
  <2>4. \A i \in 1..Len(us) : us[i].kind \notin {"Active", "MemberFailed"}
    BY <1>4, <2>1, <2>2
  <2>5. Len(updates) + Len(us) <= UpdateCapacity
    BY <1>1, <2>2
  <2> QED
    BY <2>2, <2>3, <2>4, <2>5
<1>5. ASSUME active' = 0, failed' = {},
             built'.primary \in built'.members \cup {NoReceiver},
             \/ updates' = updates
             \/ \E e \in Edges : e.kind # "Active" /\ PushUpdates(<<e>>)
      PROVE  ShownInv'
  BY <1>2, <1>4, <1>5, NoSessionShown
<1>6. ASSUME UNCHANGED <<built, active, failed, updates>>
      PROVE  ShownInv'
  BY <1>6 DEF ShownInv, EdgesSound, HonestFlags, Sees, ShownAt, PrimaryAt,
              MembersAt, Fails
<1>7. built.primary \in built.members \cup {NoReceiver}
  BY DEF ShownInv
<1>8. CASE StartGeneration
  <2>1. newest \in Reconciles /\ newest # NoReconcile
    BY <1>8 DEF StartGeneration, BackendInv, TypeOK
  <2>2. newest.generation > gate
    <3>1. gate \in Nat /\ session_generation \in Nat
      BY DEF BackendInv, TypeOK, Generation
    <3> QED
      BY <2>1, <3>1 DEF BackendInv, QueueInv
  <2>3. Admit(newest) /\ PushUpdates(<<AdmissionEdge(newest)>>)
    BY <1>8, <2>2 DEF StartGeneration
  <2>4. AdmissionEdge(newest) \in Edges /\ AdmissionEdge(newest).kind # "Active"
    BY <2>1, AdmissionEdgeTyped DEF AdmissionEdge, Starting, Stopped, Recovering
  <2> QED
    BY <1>3, <1>5, <2>3, <2>4 DEF Admit, Supersede
<1>9. CASE StartCompletes
  <2>1. active = 0 /\ active' = 0 /\ failed' = {} /\ updates' = updates
    BY <1>2, <1>9 DEF StartCompletes
  <2>2. built'.primary \in built'.members \cup {NoReceiver}
    BY <1>7, <1>9 DEF StartCompletes
  <2> QED
    BY <1>5, <2>1, <2>2
<1>10. CASE AbortedTaskEnds \/ Receive \/ ActivationConsumes
  <2>1. UNCHANGED <<built, active, failed, updates>>
    BY <1>10 DEF AbortedTaskEnds, Receive, ActivationConsumes, owner, supVars
  <2> QED
    BY <1>6, <2>1
<1>11. CASE AdoptFailure
  <2>1. /\ active' = 0 /\ failed' = {} /\ built' = built
        /\ \/ updates' = updates
           \/ PushUpdates(<<Recovering(inFlight)>>)
    BY <1>2, <1>11 DEF AdoptFailure
  <2>2. Recovering(inFlight) \in Edges /\ Recovering(inFlight).kind # "Active"
    BY <1>2, <1>11, EdgesTyped DEF AdoptFailure, Recovering
  <2> QED
    BY <1>5, <1>7, <2>1, <2>2
<1>12. CASE AdoptSuccess
  <2>1. /\ active' = 0 /\ failed' = {} /\ built' \in {built, NoBuild}
        /\ updates' = updates
    BY <1>2, <1>12 DEF AdoptSuccess
  <2> QED
    BY <1>3, <1>5, <1>7, <2>1
<1>13. CASE ProbeDue
  <2>1. active # 0 /\ ProbeCycle /\ UNCHANGED <<built, active>>
    BY <1>13 DEF ProbeDue, owner
  <2> QED
    BY <1>2, <2>1, ProbeShown
<1>14. CASE ActivationFails
  <2>1. /\ active' = 0 /\ failed' = {} /\ built' = NoBuild
        /\ PushUpdates(<<Recovering(activating)>>)
    BY <1>2, <1>14 DEF ActivationFails, Activating
  <2>2. Recovering(activating) \in Edges /\ Recovering(activating).kind # "Active"
    BY <1>2, <1>14, EdgesTyped DEF ActivationFails, Activating, Recovering
  <2> QED
    BY <1>3, <1>5, <2>1, <2>2
<1>15. CASE ActivationSucceeds
  <2>1. /\ active' = activating /\ activating # 0 /\ failed = {}
        /\ PushUpdates(<<Active(activating, built)>>)
        /\ activating \in Generation /\ UNCHANGED <<built, failed>>
    BY <1>2, <1>15 DEF ActivationSucceeds, Activating
  <2> QED
    BY <1>1, <1>2, <2>1, ActiveShown
<1>16. CASE ActivationSuperseded
  <2>1. /\ active' = 0 /\ failed' = {} /\ built' = NoBuild
        /\ updates' = updates
    BY <1>2, <1>16 DEF ActivationSuperseded, Activating
  <2> QED
    BY <1>3, <1>5, <2>1
<1>17. CASE ApplySetVolume
  <2>1. CASE UNCHANGED <<updates, announced>>
    BY <1>6, <1>17, <2>1 DEF ApplySetVolume, owner
  <2>2. CASE /\ active # 0
             /\ Head(inline).receiver \in built.members
             /\ PushUpdates(<<MemberControlFailed(gate, Head(inline).receiver)>>)
    <3> DEFINE e == MemberControlFailed(gate, Head(inline).receiver)
               us == <<e>>
    <3>1. Head(inline).receiver \in Receivers
      BY <1>2, <2>2 DEF TypeOK, Builds
    <3>2. e \in Reports /\ e.kind = "MemberControlFailed"
      BY <1>2, <3>1, EdgesTyped DEF MemberControlFailed
    <3>3. PushUpdates(us)
      BY <2>2
    <3> HIDE DEF e
    <3>4. us \in Seq(Reports) /\ Len(us) = 1 /\ us[1] = e
      BY <3>2
    <3> HIDE DEF us
    <3>5. Len(updates) + Len(us) <= UpdateCapacity
      BY <1>1, <3>4
    <3>6. \A i \in 1..Len(us) : us[i].kind # "MemberFailed"
      BY <3>2, <3>4
    <3>7. UNCHANGED <<built, active, failed>>
      BY <1>17 DEF ApplySetVolume, owner
    <3> QED
      BY <1>2, <2>2, <3>3, <3>4, <3>5, <3>6, <3>7, ReportsShown
  <2> QED
    BY <1>17, <2>1, <2>2 DEF ApplySetVolume
<1>18. CASE ApplySuspend
  <2>1. /\ active' = 0 /\ failed' = {} /\ built' = NoBuild
        /\ \/ updates' = updates
           \/ PushUpdates(<<Stopped(gate)>>)
    BY <1>18 DEF ApplySuspend
  <2>2. Stopped(gate) \in Edges /\ Stopped(gate).kind # "Active"
    BY <1>2, EdgesTyped DEF Stopped
  <2> QED
    BY <1>3, <1>5, <2>1, <2>2
<1> QED
  BY <1>8, <1>9, <1>10, <1>11, <1>12, <1>13, <1>14, <1>15, <1>16, <1>17, <1>18
  DEF SupervisorStep

\* The controller publishes what the update it takes says, and nothing else.
LEMMA TakePublishes ==
  ASSUME TakeUpdateStep
  PROVE  /\ updates # <<>> /\ updates' = Tail(updates)
         /\ Publishes(Head(updates))
<1>1. updates # <<>> /\ updates' = Tail(updates)
  BY DEF TakeUpdateStep, TakeStarting, TakeActive, TakeMemberFailed,
         TakeMemberControlFailed, TakeRecovering, TakeStopped, Take
<1>2. Publishes(Head(updates))
  BY DEF TakeUpdateStep, TakeStarting, TakeActive, TakeMemberFailed,
         TakeMemberControlFailed, TakeRecovering, TakeStopped, Take, Publishes,
         session
<1> QED
  BY <1>1, <1>2

LEMMA ShownStep ==
  ASSUME BackendInv, ShownInv, UpdateRoom, [BackendNext]_allVars
  PROVE  ShownInv'
<1>1. CASE SupervisorStep /\ UNCHANGED ctlVars
  BY <1>1, SupervisorShown DEF ctlVars
<1>2. CASE ControllerStep
  <2>1. UNCHANGED <<built, active, failed>>
    BY <1>2, ControllerShape DEF BackendInv, LeavesSupervisor, owner
  <2>2. CASE TakeUpdateStep
    BY <2>1, <2>2, TakePublishes, TakenShown DEF BackendInv
  <2>3. CASE UNCHANGED <<members, primary, updates>>
    BY <2>1, <2>3 DEF ShownInv, EdgesSound, HonestFlags, Sees, ShownAt,
                      PrimaryAt, MembersAt, Fails
  <2>4. ~TakeUpdateStep => UNCHANGED <<members, primary, updates>>
    BY <1>2
    DEF ControllerStep, Batch, ApplyScalars, ReconfigureBatch, ChangeLevels,
        RetryReceiver, BeginSuspend, BeginResume, NetworkChange, FinishResume,
        FireDueRetries, StartupAutoConnect, ServiceChanges, session, supVars
  <2> QED
    BY <2>2, <2>3, <2>4
<1>3. CASE UNCHANGED allVars
  BY <1>3 DEF allVars, vars, supVars, ctlVars, ShownInv, EdgesSound,
              HonestFlags, Sees, ShownAt, PrimaryAt, MembersAt, Fails
<1> QED
  BY <1>1, <1>2, <1>3 DEF BackendNext

LEMMA NothingShownYet ==
  ASSUME BackendInit
  PROVE  ShownInv
  BY EmptySeq
  DEF BackendInit, SupInit, NoBuild, ShownInv, EdgesSound, HonestFlags

\* With both queues drained, the picture is the session itself.
LEMMA ShownWhenQuiet ==
  ASSUME BackendInv, ShownInv
  PROVE  LiveSessionIsShown
<1>1. SUFFICES ASSUME Quiet, active # 0
               PROVE  members = built.members \ failed
  BY DEF LiveSessionIsShown
<1>2. Len(updates) = 0
  BY <1>1, EmptySeq DEF Quiet
<1>3. PICK k \in 0..Len(updates) : Sees(k)
  BY <1>1 DEF ShownInv
<1>4. k = 0
  BY <1>2
<1>5. \A r \in Receivers : r \in built.members \ failed <=> r \in members
  BY <1>2, <1>3, <1>4 DEF Sees, MembersAt
<1>6. members \subseteq Receivers /\ built.members \subseteq Receivers
  BY DEF BackendInv, ControllerTyped, TypeOK, Builds
<1> QED
  BY <1>5, <1>6

\* A live session is shown as it is: once both queues are drained, the window
\* shows the members the supervisor holds, and its primary is one of them.
THEOREM LiveIsShown ==
  BackendSpec /\ []UpdateRoom => [](LiveSessionIsShown /\ ControllerTypeOK)
<1>1. BackendInit => ShownInv
  BY NothingShownYet
<1>2. BackendInv /\ ShownInv /\ UpdateRoom /\ [BackendNext]_allVars => ShownInv'
  BY ShownStep
<1>3. BackendInv /\ ShownInv => LiveSessionIsShown
  BY ShownWhenQuiet
<1>4. BackendInv /\ ShownInv => ControllerTypeOK
  BY DEF BackendInv, ShownInv, ControllerTyped, ControllerTypeOK
<1> QED
  BY <1>1, <1>2, <1>3, <1>4, BackendSafe, PTL DEF BackendSpec

\* The controller's types, with the published primary a published member.
THEOREM ControllerTypeCorrect ==
  BackendSpec /\ []UpdateRoom => []ControllerTypeOK
  BY LiveIsShown, PTL

\* What the window shows is what the supervisor holds, the promise of Stop
\* included: while no queue refuses a message and Windows suspends nothing.
THEOREM ShowsWhatIsHeld ==
  BackendSpec /\ []UpdateRoom /\ []RequestRoom /\ [][~BeginSuspend]_allVars
  => []ShownIsHeld
<1>1. LiveSessionIsShown /\ StoppedMeansSilent => ShownIsHeld
  BY DEF ShownIsHeld
<1> QED
  BY <1>1, LiveIsShown, StopIsSilent, PTL
============================================================================
