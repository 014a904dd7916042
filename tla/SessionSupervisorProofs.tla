----------------------- MODULE SessionSupervisorProofs -----------------------
(***************************************************************************)
(* Theorems about SessionSupervisor.tla, for every set of receivers, every *)
(* queue capacity and every bound on the client.                           *)
(***************************************************************************)
EXTENDS SessionSupervisor, SequenceTheorems, TLAPS

Messages == Edges \cup Reports

-----------------------------------------------------------------------------
(* The constructors and the queues.                                        *)

\* Every edge and report the supervisor publishes is a message.
LEMMA EdgesTyped ==
  ASSUME NEW g \in Generation
  PROVE  /\ Starting(g) \in Edges
         /\ Recovering(g) \in Edges
         /\ Stopped(g) \in Edges
         /\ \A b \in Builds : Active(g, b) \in Edges
         /\ \A r \in Receivers : MemberControlFailed(g, r) \in Reports
         /\ \A r \in Receivers, p \in BOOLEAN :
               MemberFailed(g, r, p) \in Reports
  BY DEF Edges, Reports, Builds, Starting, Recovering, Stopped, Active,
         MemberControlFailed, MemberFailed

\* A member report is no lifecycle edge, and every edge is one.
LEMMA LifecycleIffEdge ==
  ASSUME NEW u \in Messages
  PROVE  Lifecycle(u) <=> u \in Edges
  BY DEF Messages, Edges, Reports, Lifecycle

\* A single edge and a pair of edges are sequences of messages.
LEMMA ShortSequences ==
  ASSUME NEW a \in Messages, NEW b \in Messages
  PROVE  /\ <<a>> \in Seq(Messages) /\ Len(<<a>>) = 1 /\ <<a>>[1] = a
         /\ <<a, b>> \in Seq(Messages) /\ Len(<<a, b>>) = 2
         /\ <<a, b>>[1] = a /\ <<a, b>>[2] = b
  OBVIOUS

\* push_update: the queue keeps its type and its capacity, and what is announced
\* is unchanged or is one of the edges pushed.
LEMMA PushUpdatesSafe ==
  ASSUME TypeOK, NEW us \in Seq(Messages), PushUpdates(us)
  PROVE  /\ updates' \in Seq(Messages)
         /\ Len(updates') <= UpdateCapacity
         /\ announced' \in Edges
         /\ \/ announced' = announced
            \/ \E i \in 1..Len(us) : us[i] \in Edges /\ announced' = us[i]
<1> DEFINE room == UpdateCapacity - Len(updates)
           acc  == Accepted(us)
<1>1. updates \in Seq(Messages) /\ Len(updates) \in Nat /\ room \in Nat
  BY SupervisorAssumption, LenProperties DEF TypeOK, Messages
<1>2. Len(us) \in Nat /\ us \in [1..Len(us) -> Messages]
  BY LenProperties
<1>3. /\ acc \in Seq(Messages)
      /\ Len(acc) \in Nat /\ Len(acc) <= room /\ Len(acc) <= Len(us)
      /\ \A i \in 1..Len(acc) : acc[i] = us[i]
  <2>1. CASE Len(us) <= room
    BY <1>1, <1>2, <2>1 DEF Accepted
  <2>2. CASE ~(Len(us) <= room)
    <3>1. \A i \in 1..room : us[i] \in Messages
      BY <1>1, <1>2, <2>2
    <3>2. acc = SubSeq(us, 1, room)
      BY <2>2 DEF Accepted
    <3>3. /\ SubSeq(us, 1, room) \in Seq(Messages)
          /\ Len(SubSeq(us, 1, room)) = room
          /\ \A i \in 1..room : SubSeq(us, 1, room)[i] = us[i]
      BY <1>1, <3>1, SubSeqProperties
    <3> QED
      BY <1>1, <1>2, <2>2, <3>2, <3>3
  <2> QED
    BY <2>1, <2>2
<1>4. updates' = updates \o acc
  BY DEF PushUpdates
<1>5. updates' \in Seq(Messages) /\ Len(updates') <= UpdateCapacity
  BY <1>1, <1>3, <1>4, ConcatProperties, SupervisorAssumption
<1>6. \/ announced' = announced
      \/ acc # <<>> /\ Lifecycle(acc[Len(acc)]) /\ announced' = acc[Len(acc)]
  BY DEF PushUpdates
<1>7. ASSUME acc # <<>>
      PROVE  /\ Len(acc) \in 1..Len(acc) /\ Len(acc) \in 1..Len(us)
             /\ acc[Len(acc)] = us[Len(acc)]
             /\ acc[Len(acc)] \in Messages
  BY <1>2, <1>3, <1>7, EmptySeq
<1>8. announced \in Edges
  BY DEF TypeOK
<1> QED
  BY <1>5, <1>6, <1>7, <1>8, LifecycleIffEdge

\* try_send: the queue keeps its type and its capacity.
LEMMA TrySendSafe ==
  ASSUME TypeOK, NEW q \in Reconciles \cup Inlines, TrySend(q)
  PROVE  /\ requests' \in Seq(Reconciles \cup Inlines)
         /\ Len(requests') <= RequestCapacity
         /\ asked' \in Reconciles \cup Inlines \cup {NoReconcile}
<1>1. requests \in Seq(Reconciles \cup Inlines)
  BY DEF TypeOK
<1>2. CASE running /\ Len(requests) < RequestCapacity
  <2>1. requests' = Append(requests, q)
    BY <1>2 DEF TrySend
  <2>2. asked' \in {q, asked}
    BY <1>2 DEF TrySend
  <2> QED
    BY <1>1, <1>2, <2>1, <2>2, AppendProperties, LenProperties,
       SupervisorAssumption DEF TypeOK
<1>3. CASE ~(running /\ Len(requests) < RequestCapacity)
  BY <1>3 DEF TrySend, TypeOK
<1> QED
  BY <1>2, <1>3

\* coalesce: the reconcile it keeps is one of those it found.
LEMMA NewestTyped ==
  ASSUME NEW q \in Seq(Reconciles \cup Inlines)
  PROVE  NewestReconcile(q) \in Reconciles \cup {NoReconcile}
<1> DEFINE at   == {i \in 1..Len(q) : IsReconcile(q[i])}
           best == {i \in at : \A j \in at :
                      \/ q[i].generation > q[j].generation
                      \/ q[i].generation = q[j].generation /\ i <= j}
<1>1. NewestReconcile(q) = IF best = {} THEN NoReconcile
                           ELSE q[CHOOSE i \in best : TRUE]
  BY DEF NewestReconcile
<1>2. \A i \in best : q[i] \in Reconciles
  BY LenProperties DEF IsReconcile, Inlines, Reconciles, AllInlineKinds
<1> HIDE DEF best
<1> QED
  BY <1>1, <1>2

\* The edge an admission owes is an edge of the admitted generation.
LEMMA AdmissionEdgeTyped ==
  ASSUME NEW p \in Reconciles
  PROVE  /\ p.generation \in Generation
         /\ AdmissionEdge(p) \in Edges
         /\ AdmissionEdge(p).generation = p.generation
         /\ p.desired # {} => AdmissionEdge(p).kind = "Starting"
  BY EdgesTyped DEF AdmissionEdge, Reconciles, Starting, Stopped, Recovering

-----------------------------------------------------------------------------
(* Type correctness, one lemma per group of actions.                       *)

\* Admit leaves well-typed state behind.
LEMMA AdmitTyped ==
  ASSUME TypeOK, NEW p \in Reconciles, Admit(p)
  PROVE  /\ gate' \in Generation /\ inFlight' \in Generation
         /\ active' \in Generation /\ outcome' \in {"pending", "ready", "failed"}
         /\ built' \in Builds /\ retained' \in Reconciles
         /\ failed' \in SUBSET Receivers
         /\ aborting' \in SUBSET Generation /\ torn' \in SUBSET Generation
         /\ discarded' \in SUBSET Generation
<1>1. NoBuild \in Builds
  BY DEF NoBuild, Builds
<1>2. p.generation \in Generation
  BY DEF Reconciles
<1> QED
  BY <1>1, <1>2 DEF TypeOK, Admit, Supersede, AbortTask, DropOutcome, Tear,
                    Generation

\* start_generation and the arms that end a start.
LEMMA StartsTyped ==
  ASSUME TypeOK, SupervisorInv,
         \/ StartGeneration \/ StartCompletes \/ AbortedTaskEnds
         \/ AdoptFailure \/ AdoptSuccess
  PROVE  TypeOK'
<1> USE DEF Generation
<1>0. NoBuild \in Builds
  BY DEF NoBuild, Builds
<1>1. CASE StartGeneration
  <2>1. newest \in Reconciles /\ newest' = NoReconcile
    BY <1>1 DEF StartGeneration, TypeOK
  <2>2. CASE newest.generation > gate
    <3>1. Admit(newest) /\ PushUpdates(<<AdmissionEdge(newest)>>)
      BY <1>1, <2>2 DEF StartGeneration
    <3>2. <<AdmissionEdge(newest)>> \in Seq(Messages)
      BY <2>1, AdmissionEdgeTyped, ShortSequences DEF Messages
    <3>3. updates' \in Seq(Messages) /\ announced' \in Edges
          /\ Len(updates') <= UpdateCapacity
      BY <3>1, <3>2, PushUpdatesSafe
    <3> QED
      BY <1>1, <2>1, <3>1, <3>3, AdmitTyped
      DEF StartGeneration, TypeOK, Messages, queue, client
  <2>3. CASE ~(newest.generation > gate)
    BY <1>1, <2>1, <2>3
    DEF StartGeneration, TypeOK, owner, tasks, queue, client
  <2> QED
    BY <2>2, <2>3
<1>2. CASE StartCompletes
  <2>1. retained \in Reconciles
    BY <1>2 DEF StartCompletes, SupervisorInv, TypeOK
  <2>2. retained.desired \in SUBSET Receivers
    BY <2>1 DEF Reconciles
  <2>3. built' \in Builds /\ outcome' \in {"pending", "ready", "failed"}
    BY <1>2, <2>2 DEF StartCompletes, TypeOK, Builds
  <2> QED
    BY <1>2, <2>3 DEF StartCompletes, TypeOK, batch, tasks, queue, client
<1>3. CASE AbortedTaskEnds
  BY <1>3 DEF AbortedTaskEnds, TypeOK, owner, batch, queue, client
<1>4. CASE AdoptFailure
  <2>1. updates' \in Seq(Messages) /\ announced' \in Edges
        /\ Len(updates') <= UpdateCapacity
    <3>1. CASE inFlight = gate
      <4>1. PushUpdates(<<Recovering(inFlight)>>)
        BY <1>4, <3>1 DEF AdoptFailure
      <4>2. <<Recovering(inFlight)>> \in Seq(Messages)
        BY EdgesTyped, ShortSequences DEF TypeOK, Messages
      <4> QED
        BY <4>1, <4>2, PushUpdatesSafe
    <3>2. CASE inFlight # gate
      BY <1>4, <3>2 DEF AdoptFailure, TypeOK, Messages
    <3> QED
      BY <3>1, <3>2
  <2> QED
    BY <1>4, <2>1 DEF AdoptFailure, TypeOK, Messages, batch, tasks, queue, client
<1>5. CASE AdoptSuccess
  <2>1. /\ activating' \in Generation /\ built' \in Builds
        /\ torn' \in SUBSET Generation
    BY <1>0, <1>5 DEF AdoptSuccess, TypeOK, Tear
  <2> QED
    BY <1>5, <2>1 DEF AdoptSuccess, TypeOK, batch, queue, client
<1> QED
  BY <1>1, <1>2, <1>3, <1>4, <1>5

\* coalesce empties the queue into the batch.
LEMMA CoalesceTyped ==
  ASSUME TypeOK, Coalesce
  PROVE  /\ requests' \in Seq(Reconciles \cup Inlines)
         /\ Len(requests') <= RequestCapacity
         /\ newest' \in Reconciles \cup {NoReconcile}
         /\ asked' = asked
<1>1. requests' = <<>> /\ newest' = NewestReconcile(requests) /\ asked' = asked
  BY DEF Coalesce
<1> QED
  BY <1>1, NewestTyped, EmptySeq, SupervisorAssumption DEF TypeOK

\* run_probe_cycle reports members of the session only.
LEMMA ProbeCycleTyped ==
  ASSUME TypeOK, ProbeCycle
  PROVE  /\ failed' \in SUBSET Receivers
         /\ updates' \in Seq(Messages) /\ announced' = announced
         /\ Len(updates') <= UpdateCapacity
<1>1. PICK n \in 0..Cardinality(built.members \ failed) :
        \E report \in [1..n -> built.members \ failed] :
          /\ failed' = failed \cup {report[i] : i \in 1..n}
          /\ PushUpdates([i \in 1..n |->
               MemberFailed(gate, report[i], report[i] = built.primary)])
  BY DEF ProbeCycle
<1>2. PICK report \in [1..n -> built.members \ failed] :
          /\ failed' = failed \cup {report[i] : i \in 1..n}
          /\ PushUpdates([i \in 1..n |->
               MemberFailed(gate, report[i], report[i] = built.primary)])
  BY <1>1
<1> DEFINE us == [i \in 1..n |->
                    MemberFailed(gate, report[i], report[i] = built.primary)]
<1>3. built.members \subseteq Receivers
  BY DEF TypeOK, Builds
<1>4. n \in Nat
  BY <1>1
<1>5. \A i \in 1..n : us[i] \in Reports /\ us[i].kind = "MemberFailed"
  BY <1>2, <1>3, EdgesTyped DEF TypeOK, MemberFailed
<1>6. us \in Seq(Messages) /\ Len(us) = n
  BY <1>4, <1>5 DEF Messages
<1>7. \A i \in 1..Len(us) : us[i] \notin Edges
  BY <1>5, <1>6 DEF Edges
<1> HIDE DEF us
<1>8. PushUpdates(us)
  BY <1>2 DEF us
<1>9. /\ updates' \in Seq(Messages) /\ Len(updates') <= UpdateCapacity
      /\ announced' = announced
  BY <1>6, <1>7, <1>8, PushUpdatesSafe
<1> QED
  BY <1>2, <1>3, <1>9 DEF TypeOK

\* Requests, probes and the outcomes of an activation.
LEMMA LoopTyped ==
  ASSUME TypeOK,
         \/ Receive \/ ProbeDue \/ ActivationFails \/ ActivationSucceeds
         \/ ActivationConsumes \/ ActivationSuperseded \/ Shutdown
  PROVE  TypeOK'
<1> USE DEF Generation
<1>0. NoBuild \in Builds
  BY DEF NoBuild, Builds
<1>1. CASE Receive
  <2>1. Coalesce
    BY <1>1 DEF Receive
  <2> QED
    BY <1>1, <2>1, CoalesceTyped DEF Receive, TypeOK, owner, tasks, client
<1>2. CASE ProbeDue
  <2>1. ProbeCycle
    BY <1>2 DEF ProbeDue
  <2>2. announced' \in Edges
    BY <2>1, ProbeCycleTyped DEF TypeOK
  <2> QED
    BY <1>2, <2>1, <2>2, ProbeCycleTyped
    DEF ProbeDue, TypeOK, Messages, owner, batch, tasks, queue, client
<1>3. CASE ActivationFails
  <2>1. PushUpdates(<<Recovering(activating)>>)
    BY <1>3 DEF ActivationFails
  <2>2. <<Recovering(activating)>> \in Seq(Messages)
    BY EdgesTyped, ShortSequences DEF TypeOK, Messages
  <2>3. /\ updates' \in Seq(Messages) /\ announced' \in Edges
        /\ Len(updates') <= UpdateCapacity
    BY <2>1, <2>2, PushUpdatesSafe
  <2> QED
    BY <1>0, <1>3, <2>3
    DEF ActivationFails, TypeOK, Messages, Tear, batch, queue, client
<1>4. CASE ActivationSucceeds
  <2>1. PushUpdates(<<Active(activating, built)>>)
    BY <1>4 DEF ActivationSucceeds
  <2>2. <<Active(activating, built)>> \in Seq(Messages)
    BY EdgesTyped, ShortSequences DEF TypeOK, Messages
  <2>3. /\ updates' \in Seq(Messages) /\ announced' \in Edges
        /\ Len(updates') <= UpdateCapacity
    BY <2>1, <2>2, PushUpdatesSafe
  <2> QED
    BY <1>4, <2>3
    DEF ActivationSucceeds, TypeOK, Messages, batch, tasks, queue, client
<1>5. CASE ActivationConsumes
  <2>1. requests # <<>> /\ requests' = Tail(requests)
    BY <1>5 DEF ActivationConsumes
  <2>2. requests \in Seq(Reconciles \cup Inlines)
    BY DEF TypeOK
  <2>3. /\ requests' \in Seq(Reconciles \cup Inlines)
        /\ Len(requests') <= RequestCapacity
    BY <2>1, <2>2, HeadTailProperties, LenProperties, SupervisorAssumption
    DEF TypeOK
  <2> QED
    BY <1>5, <2>3 DEF ActivationConsumes, TypeOK, supVars, client
<1>6. CASE ActivationSuperseded
  <2>1. Coalesce
    BY <1>6 DEF ActivationSuperseded
  <2> QED
    BY <1>0, <1>6, <2>1, CoalesceTyped
    DEF ActivationSuperseded, TypeOK, Tear, client
<1>7. CASE Shutdown
  BY <1>0, <1>7
  DEF Shutdown, TypeOK, AbortTask, DropOutcome, batch, queue, client
<1> QED
  BY <1>1, <1>2, <1>3, <1>4, <1>5, <1>6, <1>7

\* rebuild_for_cause replays the retained parameters one generation later; the
\* branch that finds them stale is never taken.
LEMMA RebuildStep ==
  ASSUME TypeOK, SupervisorInv, NEW kind, Rebuild(kind)
  PROVE  \/ /\ retained = NoReconcile
            /\ UNCHANGED <<owner, tasks, retained, failed, updates, announced>>
         \/ \E p \in Reconciles :
               /\ p.generation = gate + 1
               /\ Admit(p) /\ UNCHANGED activating
               /\ PushUpdates(<<Recovering(gate), AdmissionEdge(p)>>)
<1>1. CASE retained = NoReconcile
  BY <1>1 DEF Rebuild
<1>2. CASE retained # NoReconcile
  <2> DEFINE p == [retained EXCEPT !.generation = @ + 1]
  <2>1. retained \in Reconciles /\ retained.generation = gate /\ gate \in Nat
    BY <1>2 DEF TypeOK, SupervisorInv, Generation
  <2>2. p \in Reconciles /\ p.generation = gate + 1 /\ p.generation > gate
    BY <2>1 DEF Reconciles, Generation
  <2>3. IF p.generation > gate
        THEN /\ Admit(p)
             /\ PushUpdates(<<Recovering(gate), AdmissionEdge(p)>>)
             /\ UNCHANGED activating
        ELSE /\ PushUpdates(<<Recovering(gate)>>)
             /\ UNCHANGED <<owner, tasks, retained, failed>>
    BY <1>2 DEF Rebuild
  <2> QED
    BY <2>2, <2>3
<1> QED
  BY <1>1, <1>2

\* apply_inline_request.
LEMMA InlineTyped ==
  ASSUME TypeOK, SupervisorInv,
         \/ ApplySetVolume \/ ApplyProbe \/ ApplySuspend
         \/ ApplyNetworkChanged \/ ApplyResume
  PROVE  TypeOK'
<1> USE DEF Generation
<1>0. NoBuild \in Builds
  BY DEF NoBuild, Builds
<1>1. CASE ApplySetVolume
  <2>1. /\ updates' \in Seq(Messages) /\ announced' \in Edges
        /\ Len(updates') <= UpdateCapacity
    <3>1. CASE UNCHANGED <<updates, announced>>
      BY <3>1 DEF TypeOK, Messages
    <3>2. CASE /\ Head(inline).receiver \in built.members
               /\ PushUpdates(<<MemberControlFailed(gate, Head(inline).receiver)>>)
      <4>1. Head(inline).receiver \in Receivers
        BY <3>2 DEF TypeOK, Builds
      <4>2. <<MemberControlFailed(gate, Head(inline).receiver)>> \in Seq(Messages)
        BY <4>1, EdgesTyped, ShortSequences DEF TypeOK, Messages
      <4> QED
        BY <3>2, <4>2, PushUpdatesSafe
    <3> QED
      BY <1>1, <3>1, <3>2 DEF ApplySetVolume
  <2> QED
    BY <1>1, <2>1
    DEF ApplySetVolume, NextInline, TypeOK, Messages, owner, tasks, queue, client
<1>2. CASE ApplyProbe
  <2>1. /\ updates' \in Seq(Messages) /\ announced' \in Edges
        /\ Len(updates') <= UpdateCapacity /\ failed' \in SUBSET Receivers
    BY <1>2, ProbeCycleTyped DEF ApplyProbe, TypeOK, Messages
  <2> QED
    BY <1>2, <2>1
    DEF ApplyProbe, NextInline, TypeOK, Messages, owner, tasks, queue, client
<1>3. CASE ApplySuspend
  <2>1. /\ updates' \in Seq(Messages) /\ announced' \in Edges
        /\ Len(updates') <= UpdateCapacity
    <3>1. <<Stopped(gate)>> \in Seq(Messages)
      BY EdgesTyped, ShortSequences DEF TypeOK, Messages
    <3>2. PushUpdates(<<Stopped(gate)>>) \/ UNCHANGED <<updates, announced>>
      BY <1>3 DEF ApplySuspend
    <3> QED
      BY <3>1, <3>2, PushUpdatesSafe DEF TypeOK, Messages
  <2> QED
    BY <1>0, <1>3, <2>1
    DEF ApplySuspend, NextInline, TypeOK, Messages, AbortTask, DropOutcome,
        Tear, queue, client
<1>4. ASSUME NEW kind, Rebuild(kind)
      PROVE  TypeOK'
  <2>1. NextInline(kind)
    BY <1>4 DEF Rebuild
  <2>2. CASE UNCHANGED <<owner, tasks, retained, failed, updates, announced>>
    BY <2>1, <2>2 DEF NextInline, TypeOK, owner, tasks, queue, client
  <2>3. ASSUME NEW p \in Reconciles, Admit(p), UNCHANGED activating,
               PushUpdates(<<Recovering(gate), AdmissionEdge(p)>>)
        PROVE  TypeOK'
    <3>1. <<Recovering(gate), AdmissionEdge(p)>> \in Seq(Messages)
      BY EdgesTyped, AdmissionEdgeTyped, ShortSequences DEF TypeOK, Messages
    <3>2. /\ updates' \in Seq(Messages) /\ announced' \in Edges
          /\ Len(updates') <= UpdateCapacity
      BY <2>3, <3>1, PushUpdatesSafe
    <3> QED
      BY <2>1, <2>3, <3>2, AdmitTyped
      DEF NextInline, TypeOK, Messages, queue, client
  <2> QED
    BY <1>4, <2>2, <2>3, RebuildStep
<1> QED
  BY <1>1, <1>2, <1>3, <1>4 DEF ApplyNetworkChanged, ApplyResume

\* The client's operations.
LEMMA ClientTyped ==
  ASSUME TypeOK, ClientNext
  PROVE  TypeOK'
<1> USE DEF Generation
<1>1. CASE SendReconcile
  <2>1. PICK d \in SUBSET Receivers, t \in BOOLEAN :
          /\ session_generation' = session_generation + 1
          /\ TrySend(Reconcile(session_generation + 1, d, t))
          /\ UNCHANGED <<supVars, sent>>
    BY <1>1 DEF SendReconcile
  <2>2. Reconcile(session_generation + 1, d, t) \in Reconciles
    BY DEF Reconcile, Reconciles, TypeOK
  <2> QED
    BY <2>1, <2>2, TrySendSafe DEF TypeOK, supVars
<1>2. CASE SendInline
  <2>1. PICK q \in InlineRequests : TrySend(q)
    BY <1>2 DEF SendInline
  <2>2. q \in Inlines
    BY SupervisorAssumption DEF InlineRequests, Inlines, SetVolume
  <2> QED
    BY <1>2, <2>1, <2>2, TrySendSafe DEF SendInline, TypeOK, supVars
<1>3. CASE TakeUpdate
  <2>1. updates \in Seq(Messages) /\ updates # <<>> /\ updates' = Tail(updates)
    BY <1>3 DEF TakeUpdate, TypeOK, Messages
  <2>2. /\ Head(updates) \in Messages
        /\ updates' \in Seq(Messages) /\ Len(updates') <= UpdateCapacity
    BY <2>1, HeadTailProperties, LenProperties, SupervisorAssumption DEF TypeOK
  <2>3. Head(updates).generation \in Nat
    BY <2>2 DEF Messages, Edges, Reports
  <2>4. session_generation' \in Nat
    BY <1>3, <2>3 DEF TakeUpdate, TypeOK
  <2> QED
    BY <1>3, <2>2, <2>4
    DEF TakeUpdate, TypeOK, Messages, owner, batch, tasks, queue
<1>4. CASE RequestShutdown
  BY <1>4 DEF RequestShutdown, TypeOK, owner, batch, tasks, queue, client
<1> QED
  BY <1>1, <1>2, <1>3, <1>4 DEF ClientNext

-----------------------------------------------------------------------------
(* The inductive invariant.                                                *)

\* One edge, or two, pushed in a row: what is announced afterwards.
LEMMA PushedEdges ==
  ASSUME TypeOK
  PROVE  /\ \A e \in Edges : PushUpdates(<<e>>) => announced' \in {announced, e}
         /\ \A e, f \in Edges :
               PushUpdates(<<e, f>>) => announced' \in {announced, e, f}
         /\ \A e \in Reports : PushUpdates(<<e>>) => announced' = announced
<1>1. ASSUME NEW e \in Edges, PushUpdates(<<e>>)
      PROVE  announced' \in {announced, e}
  BY <1>1, PushUpdatesSafe, ShortSequences DEF Messages
<1>2. ASSUME NEW e \in Edges, NEW f \in Edges, PushUpdates(<<e, f>>)
      PROVE  announced' \in {announced, e, f}
  <2>1. e \in Messages /\ f \in Messages
    BY DEF Messages
  <2>2. /\ <<e, f>> \in Seq(Messages) /\ Len(<<e, f>>) = 2
        /\ <<e, f>>[1] = e /\ <<e, f>>[2] = f
    BY <2>1, ShortSequences
  <2>3. \/ announced' = announced
        \/ \E i \in 1..Len(<<e, f>>) : announced' = <<e, f>>[i]
    BY <1>2, <2>2, PushUpdatesSafe
  <2> QED
    BY <2>2, <2>3
<1>3. ASSUME NEW e \in Reports, PushUpdates(<<e>>)
      PROVE  announced' = announced
  <2>1. e \in Messages /\ e \notin Edges
    BY DEF Messages, Edges, Reports
  <2>2. /\ <<e>> \in Seq(Messages) /\ Len(<<e>>) = 1 /\ <<e>>[1] = e
    BY <2>1, ShortSequences
  <2>3. \/ announced' = announced
        \/ \E i \in 1..Len(<<e>>) : <<e>>[i] \in Edges
    BY <1>3, <2>2, PushUpdatesSafe
  <2> QED
    BY <2>1, <2>2, <2>3
<1> QED
  BY <1>1, <1>2, <1>3

\* An admission supersedes everything older: what was owned is aborted or torn
\* down, and the new generation was never seen before.
LEMMA AdmitSafe ==
  ASSUME TypeOK, SupervisorInv, NEW p \in Reconciles, p.generation > gate,
         Admit(p), UNCHANGED <<activating, running>>,
         running, outcome # "ready", activating = 0,
         announced' \in Edges,
         announced' \in {announced, Recovering(gate), AdmissionEdge(p)}
  PROVE  SupervisorInv'
<1> USE DEF Generation
<1>1. gate \in Nat /\ p.generation \in Nat /\ inFlight \in Nat /\ active \in Nat
  BY DEF TypeOK, Reconciles
<1>2. /\ gate' = p.generation /\ active' = 0 /\ activating' = 0
      /\ retained' = p /\ outcome' = "pending"
      /\ inFlight' = IF p.desired = {} THEN 0 ELSE p.generation
      /\ discarded' = discarded
      /\ torn' = torn \cup ({active} \ {0})
      /\ aborting' \subseteq aborting \cup ({inFlight} \ {0})
  BY DEF Admit, Supersede, AbortTask, DropOutcome, Tear
<1>3. torn' \cup aborting' \cup discarded' \subseteq 0..gate
  BY <1>1, <1>2 DEF SupervisorInv, OneSession, Owned
<1>4. p # NoReconcile
  BY DEF Reconciles, NoReconcile
<1>5. OneSession'
  BY <1>1, <1>2 DEF OneSession, Owned
<1>6. NothingLost'
  BY <1>1, <1>2, <1>3 DEF NothingLost, Owned, SupervisorInv
<1>7. /\ announced'.generation <= gate'
      /\ announced'.generation = gate' /\ p.desired # {} =>
                                             announced'.kind = "Starting"
  <2>1. CASE announced' = announced
    BY <1>1, <1>2, <2>1 DEF SupervisorInv, TypeOK, Edges
  <2>2. CASE announced' = Recovering(gate)
    BY <1>1, <1>2, <2>2 DEF Recovering
  <2>3. CASE announced' = AdmissionEdge(p)
    BY <1>1, <1>2, <2>3, AdmissionEdgeTyped
  <2> QED
    BY <2>1, <2>2, <2>3
<1>8. torn' \cup aborting' \cup discarded' \subseteq 0..gate'
  BY <1>1, <1>2, <1>3
<1> QED
  BY <1>1, <1>2, <1>4, <1>5, <1>6, <1>7, <1>8 DEF SupervisorInv

\* Every step of the supervisor and of its client preserves the invariant.
LEMMA SupervisorInvStep ==
  ASSUME TypeOK, TypeOK', SupervisorInv, [Next]_vars
  PROVE  SupervisorInv'
<1> USE DEF Generation
<1>0. /\ gate \in Nat /\ inFlight \in Nat /\ activating \in Nat
      /\ active \in Nat
      /\ announced.generation \in Nat /\ announced'.generation \in Nat
  BY DEF TypeOK, Edges
<1>1. CASE StartGeneration
  <2>1. newest \in Reconciles /\ running /\ running' = running
    BY <1>1 DEF StartGeneration, TypeOK
  <2>2. outcome = "pending" /\ activating = 0
    BY <1>1 DEF StartGeneration, SupervisorInv
  <2>3. CASE newest.generation > gate
    <3>1. Admit(newest) /\ PushUpdates(<<AdmissionEdge(newest)>>)
      BY <1>1, <2>3 DEF StartGeneration
    <3>2. announced' \in {announced, AdmissionEdge(newest)}
      BY <2>1, <3>1, PushedEdges, AdmissionEdgeTyped
    <3> QED
      BY <1>1, <2>1, <2>2, <2>3, <3>1, <3>2, AdmitSafe
      DEF StartGeneration, TypeOK
  <2>4. CASE ~(newest.generation > gate)
    BY <1>1, <2>2, <2>4
    DEF StartGeneration, SupervisorInv, OneSession, NothingLost, Owned, owner,
        tasks
  <2> QED
    BY <2>3, <2>4
<1>2. CASE StartCompletes
  BY <1>2 DEF StartCompletes, SupervisorInv, OneSession, NothingLost, Owned,
              batch, tasks
<1>3. CASE AbortedTaskEnds
  BY <1>3 DEF AbortedTaskEnds, SupervisorInv, OneSession, NothingLost, Owned,
              owner, batch
<1>4. CASE AdoptFailure
  <2>1. inFlight = gate /\ activating = 0 /\ active = 0
    BY <1>0, <1>4 DEF AdoptFailure, SupervisorInv, OneSession, Owned
  <2>2. announced' \in {announced, Recovering(inFlight)}
    BY <1>4, <2>1, EdgesTyped, PushedEdges DEF AdoptFailure, TypeOK
  <2>3. announced'.generation <= gate
    BY <1>0, <2>1, <2>2 DEF SupervisorInv, Recovering
  <2> QED
    BY <1>0, <1>4, <2>1, <2>3
    DEF AdoptFailure, SupervisorInv, OneSession, NothingLost, Owned, batch,
        tasks
<1>5. CASE AdoptSuccess
  <2>1. inFlight = gate /\ activating = 0 /\ active = 0
    BY <1>0, <1>5 DEF AdoptSuccess, SupervisorInv, OneSession, Owned
  <2> QED
    BY <1>0, <1>5, <2>1
    DEF AdoptSuccess, Idle, SupervisorInv, OneSession, NothingLost, Owned, batch
<1>6. CASE Receive
  <2>1. outcome = "pending" /\ activating = 0
    BY <1>6 DEF Receive, Idle, SupervisorInv
  <2> QED
    BY <1>6, <2>1 DEF Receive, SupervisorInv, OneSession, NothingLost, Owned,
                      owner, tasks
<1>7. CASE ProbeDue
  <2>1. announced' = announced
    BY <1>7, ProbeCycleTyped DEF ProbeDue
  <2> QED
    BY <1>7, <2>1 DEF ProbeDue, SupervisorInv, OneSession, NothingLost, Owned,
                      owner, batch, tasks
<1>8. CASE ActivationFails
  <2>1. activating = gate /\ inFlight = 0 /\ active = 0 /\ activating # 0
    BY <1>0, <1>8 DEF ActivationFails, Activating, SupervisorInv, OneSession,
                      Owned
  <2>2. announced' \in {announced, Recovering(activating)}
    BY <1>8, EdgesTyped, PushedEdges DEF ActivationFails, TypeOK
  <2>3. announced'.generation <= gate
    BY <1>0, <2>1, <2>2 DEF SupervisorInv, Recovering
  <2> QED
    BY <1>0, <1>8, <2>1, <2>3
    DEF ActivationFails, SupervisorInv, OneSession, NothingLost, Owned, Tear,
        batch
<1>9. CASE ActivationSucceeds
  <2>1. activating = gate /\ inFlight = 0 /\ active = 0 /\ activating # 0
    BY <1>0, <1>9 DEF ActivationSucceeds, Activating, SupervisorInv, OneSession,
                      Owned
  <2>2. announced' \in {announced, Active(activating, built)}
    BY <1>9, EdgesTyped, PushedEdges DEF ActivationSucceeds, TypeOK
  <2>3. /\ announced'.generation <= gate
        /\ announced'.generation = gate =>
              announced'.kind \in {"Starting", "Active"}
    BY <1>0, <2>1, <2>2 DEF SupervisorInv, Active
  <2> QED
    BY <1>0, <1>9, <2>1, <2>3
    DEF ActivationSucceeds, Activating, SupervisorInv, OneSession, NothingLost,
        Owned, batch, tasks
<1>10. CASE ActivationConsumes
  BY <1>10 DEF ActivationConsumes, supVars, SupervisorInv, OneSession,
               NothingLost, Owned
<1>11. CASE ActivationSuperseded
  <2>1. activating = gate /\ inFlight = 0 /\ active = 0 /\ activating # 0
        /\ outcome = "pending"
    BY <1>0, <1>11 DEF ActivationSuperseded, Activating, SupervisorInv,
                       OneSession, Owned
  <2> QED
    BY <1>0, <1>11, <2>1
    DEF ActivationSuperseded, SupervisorInv, OneSession, NothingLost, Owned, Tear
<1>12. CASE ApplySetVolume
  <2>1. announced' = announced
    <3>1. \A r \in built.members : MemberControlFailed(gate, r) \in Reports
      BY EdgesTyped DEF TypeOK, Builds
    <3> QED
      BY <1>12, <3>1, PushedEdges DEF ApplySetVolume
  <2> QED
    BY <1>12, <2>1 DEF ApplySetVolume, NextInline, SupervisorInv, OneSession,
                       NothingLost, Owned, owner, tasks
<1>13. CASE ApplyProbe
  <2>1. announced' = announced
    BY <1>13, ProbeCycleTyped DEF ApplyProbe
  <2> QED
    BY <1>13, <2>1 DEF ApplyProbe, NextInline, SupervisorInv, OneSession,
                       NothingLost, Owned, owner, tasks
<1>14. CASE ApplySuspend
  <2>1. running /\ activating = 0 /\ outcome = "pending"
    BY <1>14 DEF ApplySuspend, NextInline, SupervisorInv
  <2>2. announced' \in {announced, Stopped(gate)}
    BY <1>14, EdgesTyped, PushedEdges DEF ApplySuspend, TypeOK
  <2>3. announced'.generation <= gate
    BY <1>0, <2>2 DEF SupervisorInv, Stopped
  <2>4. /\ torn' \cup aborting' \cup discarded' \subseteq 0..gate
        /\ discarded' = discarded
    BY <1>0, <1>14, <2>1
    DEF ApplySuspend, AbortTask, DropOutcome, Tear, SupervisorInv, OneSession,
        Owned
  <2> QED
    BY <1>0, <1>14, <2>1, <2>3, <2>4
    DEF ApplySuspend, NextInline, SupervisorInv, OneSession, NothingLost, Owned
<1>15. ASSUME NEW kind, Rebuild(kind)
       PROVE  SupervisorInv'
  <2>1. /\ NextInline(kind) /\ running /\ running' = running
        /\ outcome = "pending" /\ activating = 0
    BY <1>15 DEF Rebuild, NextInline, SupervisorInv
  <2>2. CASE UNCHANGED <<owner, tasks, retained, failed, updates, announced>>
    BY <2>1, <2>2 DEF NextInline, SupervisorInv, OneSession, NothingLost, Owned,
                      owner, tasks
  <2>3. ASSUME NEW p \in Reconciles, p.generation = gate + 1, Admit(p),
               UNCHANGED activating,
               PushUpdates(<<Recovering(gate), AdmissionEdge(p)>>)
        PROVE  SupervisorInv'
    <3>1. announced' \in {announced, Recovering(gate), AdmissionEdge(p)}
      BY <1>0, <2>3, EdgesTyped, AdmissionEdgeTyped, PushedEdges
    <3>2. p.generation > gate
      BY <1>0, <2>3
    <3> QED
      BY <2>1, <2>3, <3>1, <3>2, AdmitSafe DEF TypeOK
  <2> QED
    BY <1>15, <2>2, <2>3, RebuildStep
<1>16. CASE Shutdown
  <2>1. /\ inFlight \in {0, gate} /\ activating \in {0, gate}
        /\ active \in {0, gate}
    BY DEF SupervisorInv, OneSession, Owned
  <2>2. torn' \cup aborting' \cup discarded' \subseteq 0..gate
    BY <1>0, <1>16, <2>1 DEF Shutdown, AbortTask, DropOutcome, SupervisorInv
  <2>3. /\ gate' = gate /\ announced' = announced /\ retained' = retained
        /\ ~running' /\ outcome' = "pending"
        /\ inFlight' = 0 /\ active' = 0 /\ activating' = 0
    BY <1>16 DEF Shutdown
  <2> QED
    BY <2>2, <2>3 DEF SupervisorInv, OneSession, NothingLost, Owned
<1>17. CASE ClientNext
  <2>1. /\ UNCHANGED <<owner, batch, tasks, retained, running>>
        /\ UNCHANGED announced
    <3>1. CASE SendReconcile
      BY <3>1 DEF SendReconcile, supVars, owner, batch, tasks
    <3>2. CASE SendInline
      BY <3>2 DEF SendInline, supVars, owner, batch, tasks
    <3>3. CASE TakeUpdate
      BY <3>3 DEF TakeUpdate
    <3>4. CASE RequestShutdown
      BY <3>4 DEF RequestShutdown
    <3> QED
      BY <1>17, <3>1, <3>2, <3>3, <3>4 DEF ClientNext
  <2> QED
    BY <2>1 DEF owner, batch, tasks, SupervisorInv, OneSession, NothingLost,
                Owned
<1>18. CASE UNCHANGED vars
  BY <1>18 DEF vars, supVars, SupervisorInv, OneSession, NothingLost, Owned
<1> QED
  BY <1>1, <1>2, <1>3, <1>4, <1>5, <1>6, <1>7, <1>8, <1>9, <1>10, <1>11, <1>12,
     <1>13, <1>14, <1>15, <1>16, <1>17, <1>18
  DEF Next, SupNext, ApplyNetworkChanged, ApplyResume

\* The invariant holds at launch.
LEMMA InitSafe ==
  ASSUME Init
  PROVE  TypeOK /\ SupervisorInv
<1>1. TypeOK
  <2>1. NoBuild \in Builds
    BY DEF NoBuild, Builds
  <2>2. Stopped(0) \in Edges
    BY EdgesTyped DEF Generation
  <2>3. /\ requests \in Seq(Reconciles \cup Inlines) /\ Len(requests) = 0
        /\ updates \in Seq(Edges \cup Reports) /\ Len(updates) = 0
    BY EmptySeq DEF Init, SupInit
  <2>4. Len(requests) <= RequestCapacity /\ Len(updates) <= UpdateCapacity
    BY <2>3, SupervisorAssumption
  <2>5. /\ gate \in Generation /\ inFlight \in Generation
        /\ activating \in Generation /\ active \in Generation
        /\ session_generation \in Generation /\ sent \in Nat
    BY DEF Init, SupInit, Generation
  <2>6. cancelled \in BOOLEAN /\ running \in BOOLEAN
    BY DEF Init, SupInit
  <2> QED
    BY <2>1, <2>2, <2>3, <2>4, <2>5, <2>6 DEF Init, SupInit, TypeOK
<1>2. SupervisorInv
  BY DEF Init, SupInit, SupervisorInv, OneSession, NothingLost, Owned, Stopped
<1> QED
  BY <1>1, <1>2

\* Every step preserves the types, given the invariant.
LEMMA TypeOKStep ==
  ASSUME TypeOK, SupervisorInv, [Next]_vars
  PROVE  TypeOK'
<1>1. CASE UNCHANGED vars
  BY <1>1 DEF vars, supVars, queue, client, TypeOK
<1> QED
  BY <1>1, StartsTyped, LoopTyped, InlineTyped, ClientTyped
  DEF Next, SupNext

\* Types and invariant together are inductive.
THEOREM SupervisorSafe == Spec => [](TypeOK /\ SupervisorInv)
<1>1. Init => TypeOK /\ SupervisorInv
  BY InitSafe
<1>2. TypeOK /\ SupervisorInv /\ [Next]_vars => (TypeOK /\ SupervisorInv)'
  BY TypeOKStep, SupervisorInvStep
<1> QED
  BY <1>1, <1>2, PTL DEF Spec

\* Type correctness of the supervisor and of its queues, capacities included.
THEOREM TypeCorrect == Spec => []TypeOK
  BY SupervisorSafe, PTL

\* The supervisor never owns two of a start, an activation and a transport, and
\* never anything of a generation other than the newest admitted one.
THEOREM OwnsOneSession == Spec => []OneSession
<1>1. SupervisorInv => OneSession
  BY DEF SupervisorInv
<1> QED
  BY <1>1, SupervisorSafe, PTL

\* No finished transport is dropped without its teardown while the supervisor
\* runs, and nothing torn down or aborted is owned again.
THEOREM LosesNothing == Spec => []NothingLost
<1>1. SupervisorInv => NothingLost
  BY DEF SupervisorInv
<1> QED
  BY <1>1, SupervisorSafe, PTL

-----------------------------------------------------------------------------
(* What a step may do.                                                     *)

\* Only an admission moves the gate or spawns a start.
LEMMA FreshStep ==
  ASSUME TypeOK, SupervisorInv, [Next]_vars
  PROVE  /\ gate' >= gate
         /\ inFlight' \notin {0, inFlight} => inFlight' > gate
<1>0. gate \in Nat
  BY DEF TypeOK, Generation
<1>1. ASSUME NEW p \in Reconciles, p.generation > gate, Admit(p)
      PROVE  /\ gate' >= gate
             /\ inFlight' \notin {0, inFlight} => inFlight' > gate
  BY <1>0, <1>1, AdmissionEdgeTyped DEF Admit, Generation
<1>2. CASE StartGeneration
  BY <1>0, <1>1, <1>2 DEF StartGeneration, TypeOK, owner
<1>3. ASSUME NEW kind, Rebuild(kind)
      PROVE  /\ gate' >= gate
             /\ inFlight' \notin {0, inFlight} => inFlight' > gate
  <2>1. \/ UNCHANGED owner
        \/ \E p \in Reconciles : p.generation = gate + 1 /\ Admit(p)
    BY <1>3, RebuildStep
  <2>2. CASE UNCHANGED owner
    BY <1>0, <2>2 DEF owner
  <2>3. ASSUME NEW p \in Reconciles, p.generation = gate + 1, Admit(p)
        PROVE  /\ gate' >= gate
               /\ inFlight' \notin {0, inFlight} => inFlight' > gate
    <3>1. p.generation > gate
      BY <1>0, <2>3
    <3> QED
      BY <1>1, <2>3, <3>1
  <2> QED
    BY <2>1, <2>2, <2>3
<1>4. ASSUME ~StartGeneration, ~ApplyNetworkChanged, ~ApplyResume
      PROVE  gate' = gate /\ inFlight' \in {0, inFlight}
  <2>1. CASE SupNext
    BY <1>4, <2>1
    DEF SupNext, StartCompletes, AbortedTaskEnds, AdoptFailure, AdoptSuccess,
        Receive, ProbeDue, ActivationFails, ActivationSucceeds,
        ActivationConsumes, ActivationSuperseded, ApplySetVolume, ApplyProbe,
        ApplySuspend, Shutdown, supVars, owner
  <2>2. CASE ClientNext
    BY <2>2 DEF ClientNext, SendReconcile, SendInline, TakeUpdate,
                RequestShutdown, supVars, owner
  <2>3. CASE UNCHANGED vars
    BY <2>3 DEF vars, supVars
  <2> QED
    BY <2>1, <2>2, <2>3 DEF Next
<1> QED
  BY <1>0, <1>2, <1>3, <1>4 DEF ApplyNetworkChanged, ApplyResume

\* Whatever the client, the starts and the platform edges do, the gate never
\* goes back and a newly spawned start is newer than everything before it.
THEOREM StartsAreFresh == Spec => FreshStarts
<1>1. TypeOK /\ SupervisorInv /\ [Next]_vars =>
        [/\ gate' >= gate
         /\ inFlight' \notin {0, inFlight} => inFlight' > gate]_vars
  BY FreshStep
<1> QED
  BY <1>1, SupervisorSafe, PTL DEF Spec, FreshStarts

\* Every step of the supervisor is a step of the contract, or leaves the last
\* announced edge alone.
LEMMA ContractStep ==
  ASSUME TypeOK, TypeOK', SupervisorInv, [Next]_vars
  PROVE  [Contract!Next]_<<announced.generation, announced.kind>>
<1> DEFINE Kept == [Contract!Next]_<<announced.generation, announced.kind>>
<1>0. /\ gate \in Nat /\ announced \in Edges /\ announced' \in Edges
      /\ announced.generation \in Nat /\ announced'.generation \in Nat
      /\ announced.generation <= gate
      /\ announced'.kind \in Contract!Stages
      /\ inFlight \in {0, gate} /\ activating \in {0, gate}
      /\ active \in {0, gate}
  BY DEF TypeOK, Generation, Edges, SupervisorInv, OneSession, Owned,
         Contract!Stages
<1>1. CASE announced' = announced
  BY <1>1
<1>2. CASE announced'.generation > announced.generation
  BY <1>0, <1>2 DEF Contract!Next, Contract!Supersede
<1>3. ASSUME NEW p \in Reconciles, p.generation > gate,
             announced' = AdmissionEdge(p)
      PROVE  announced'.generation > announced.generation
  BY <1>0, <1>3, AdmissionEdgeTyped DEF Generation
<1>4. ASSUME announced' = Recovering(gate)
      PROVE  Kept
  <2>1. announced'.kind = "Recovering" /\ announced'.generation = gate
    BY <1>4 DEF Recovering
  <2> QED
    BY <1>0, <1>2, <2>1 DEF Contract!Next, Contract!End
<1>5. CASE StartGeneration
  <2>1. newest \in Reconciles
    BY <1>5 DEF StartGeneration, TypeOK
  <2>2. \/ UNCHANGED announced
        \/ newest.generation > gate /\ PushUpdates(<<AdmissionEdge(newest)>>)
    BY <1>5 DEF StartGeneration
  <2> QED
    BY <1>1, <1>2, <1>3, <2>1, <2>2, AdmissionEdgeTyped, PushedEdges
<1>6. ASSUME NEW kind, Rebuild(kind)
      PROVE  Kept
  <2>1. ASSUME NEW p \in Reconciles, p.generation = gate + 1,
               PushUpdates(<<Recovering(gate), AdmissionEdge(p)>>)
        PROVE  Kept
    <3>1. announced' \in {announced, Recovering(gate), AdmissionEdge(p)}
      BY <1>0, <2>1, EdgesTyped, AdmissionEdgeTyped, PushedEdges DEF Generation
    <3> QED
      BY <1>0, <1>1, <1>2, <1>3, <1>4, <2>1, <3>1
  <2> QED
    BY <1>1, <1>6, <2>1, RebuildStep
<1>7. CASE AdoptFailure
  <2>1. announced' \in {announced, Recovering(gate)}
    BY <1>0, <1>7, EdgesTyped, PushedEdges DEF AdoptFailure, Generation
  <2> QED
    BY <1>1, <1>4, <2>1
<1>8. CASE ActivationFails
  <2>1. activating = gate
    BY <1>0, <1>8 DEF ActivationFails, Activating
  <2>2. announced' \in {announced, Recovering(gate)}
    BY <1>0, <1>8, <2>1, EdgesTyped, PushedEdges DEF ActivationFails, Generation
  <2> QED
    BY <1>1, <1>4, <2>2
<1>9. CASE ActivationSucceeds
  <2>1. activating = gate /\ activating # 0
    BY <1>0, <1>9 DEF ActivationSucceeds, Activating
  <2>2. announced' \in {announced, Active(gate, built)}
    BY <1>0, <1>9, <2>1, EdgesTyped, PushedEdges
    DEF ActivationSucceeds, Generation, TypeOK
  <2>3. CASE announced' = Active(gate, built)
    <3>1. announced'.kind = "Active" /\ announced'.generation = gate
      BY <2>3 DEF Active
    <3>2. announced.generation = gate => announced.kind = "Starting"
      BY <2>1 DEF SupervisorInv
    <3> QED
      BY <1>0, <1>2, <3>1, <3>2 DEF Contract!Next, Contract!Activate
  <2> QED
    BY <1>1, <2>2, <2>3
<1>10. CASE ApplySuspend
  <2>1. announced' \in {announced, Stopped(gate)}
    BY <1>0, <1>10, EdgesTyped, PushedEdges DEF ApplySuspend, Generation
  <2>2. CASE announced' = Stopped(gate) /\ (inFlight # 0 \/ active # 0)
    <3>1. announced'.kind = "Stopped" /\ announced'.generation = gate
      BY <2>2 DEF Stopped
    <3>2. announced.generation = gate => announced.kind \in {"Starting", "Active"}
      BY <2>2 DEF SupervisorInv
    <3> QED
      BY <1>0, <1>2, <3>1, <3>2 DEF Contract!Next, Contract!End
  <2>3. CASE inFlight = 0 /\ active = 0
    BY <1>1, <1>10, <2>3 DEF ApplySuspend
  <2> QED
    BY <1>1, <2>1, <2>2, <2>3
<1>11. CASE ProbeDue \/ ApplyProbe
  BY <1>1, <1>11, ProbeCycleTyped DEF ProbeDue, ApplyProbe
<1>12. CASE ApplySetVolume
  <2>1. \A r \in built.members : MemberControlFailed(gate, r) \in Reports
    BY <1>0, EdgesTyped DEF TypeOK, Builds, Generation
  <2> QED
    BY <1>1, <1>12, <2>1, PushedEdges DEF ApplySetVolume
<1>13. CASE \/ StartCompletes \/ AbortedTaskEnds \/ AdoptSuccess \/ Receive
            \/ ActivationConsumes \/ ActivationSuperseded \/ Shutdown
  BY <1>1, <1>13
  DEF StartCompletes, AbortedTaskEnds, AdoptSuccess, Receive,
      ActivationConsumes, ActivationSuperseded, Shutdown, supVars
<1>14. CASE ClientNext \/ UNCHANGED vars
  BY <1>1, <1>14
  DEF ClientNext, SendReconcile, SendInline, TakeUpdate, RequestShutdown, vars,
      supVars
<1> QED
  BY <1>5, <1>6, <1>7, <1>8, <1>9, <1>10, <1>11, <1>12, <1>13, <1>14
  DEF Next, SupNext, ApplyNetworkChanged, ApplyResume

\* The supervisor implements its contract: at launch nothing is announced, and
\* every step is a contract step or a stutter, for every capacity of the queues.
THEOREM KeepsContract == Spec => ContractKept
<1>1. Init => Contract!Init
  BY DEF Init, SupInit, Contract!Init, Stopped
<1>2. /\ TypeOK /\ SupervisorInv /\ [Next]_vars /\ TypeOK'
      => [Contract!Next]_<<announced.generation, announced.kind>>
  BY ContractStep
<1> QED
  BY <1>1, <1>2, SupervisorSafe, PTL DEF Spec, ContractKept, Contract!Spec

-----------------------------------------------------------------------------
(* The queue of updates: in order, and no failure twice.                   *)

\* push_update: what was queued stays where it was, and a prefix of what is
\* pushed follows it; all of it when there is room, and then the last edge of
\* the push is what is announced.
LEMMA PushUpdatesExtends ==
  ASSUME TypeOK, NEW us \in Seq(Messages), PushUpdates(us)
  PROVE  /\ \E k \in 0..Len(us) :
               /\ Len(updates') = Len(updates) + k
               /\ \A i \in 1..Len(updates) : updates'[i] = updates[i]
               /\ \A i \in 1..Len(updates) + k :
                     i > Len(updates) => updates'[i] = us[i - Len(updates)]
         /\ /\ Len(us) # 0 /\ Len(updates) + Len(us) <= UpdateCapacity
            /\ us[Len(us)] \in Edges
            => announced' = us[Len(us)]
<1> DEFINE room == UpdateCapacity - Len(updates)
           acc  == Accepted(us)
<1>1. updates \in Seq(Messages) /\ Len(updates) \in Nat /\ room \in Nat
  BY SupervisorAssumption, LenProperties DEF TypeOK, Messages
<1>2. Len(us) \in Nat /\ us \in [1..Len(us) -> Messages]
  BY LenProperties
<1>3. /\ acc \in Seq(Messages)
      /\ Len(acc) \in 0..Len(us)
      /\ \A i \in 1..Len(acc) : acc[i] = us[i]
      /\ Len(us) <= room => acc = us
  <2>1. CASE Len(us) <= room
    BY <1>1, <1>2, <2>1 DEF Accepted
  <2>2. CASE ~(Len(us) <= room)
    <3>1. \A i \in 1..room : us[i] \in Messages
      BY <1>1, <1>2, <2>2
    <3>2. acc = SubSeq(us, 1, room)
      BY <2>2 DEF Accepted
    <3>3. /\ SubSeq(us, 1, room) \in Seq(Messages)
          /\ Len(SubSeq(us, 1, room)) = room
          /\ \A i \in 1..room : SubSeq(us, 1, room)[i] = us[i]
      BY <1>1, <3>1, SubSeqProperties
    <3> QED
      BY <1>1, <1>2, <2>2, <3>2, <3>3
  <2> QED
    BY <2>1, <2>2
<1>4. updates' = updates \o acc
  BY DEF PushUpdates
<1>5. /\ Len(updates') = Len(updates) + Len(acc)
      /\ \A i \in 1..Len(updates) + Len(acc) :
            updates'[i] = IF i <= Len(updates) THEN updates[i]
                          ELSE acc[i - Len(updates)]
  BY <1>1, <1>3, <1>4, ConcatProperties
<1>6. \E k \in 0..Len(us) :
        /\ Len(updates') = Len(updates) + k
        /\ \A i \in 1..Len(updates) : updates'[i] = updates[i]
        /\ \A i \in 1..Len(updates) + k :
              i > Len(updates) => updates'[i] = us[i - Len(updates)]
  <2>1. \A i \in 1..Len(updates) : updates'[i] = updates[i]
    BY <1>1, <1>3, <1>5
  <2>2. ASSUME NEW i \in 1..Len(updates) + Len(acc), i > Len(updates)
        PROVE  updates'[i] = us[i - Len(updates)]
    <3>1. i - Len(updates) \in 1..Len(acc)
      BY <1>1, <1>3, <2>2
    <3> QED
      BY <1>1, <1>3, <1>5, <2>2, <3>1
  <2> QED
    BY <1>3, <1>5, <2>1, <2>2
<1>7. ASSUME Len(us) # 0, Len(us) <= room, us[Len(us)] \in Edges
      PROVE  announced' = us[Len(us)]
  <2>1. acc = us /\ acc # <<>>
    BY <1>3, <1>7, EmptySeq
  <2>2. Lifecycle(us[Len(us)])
    BY <1>7, LifecycleIffEdge DEF Messages
  <2> QED
    BY <2>1, <2>2 DEF PushUpdates
<1>8. Len(updates) + Len(us) <= UpdateCapacity => Len(us) <= room
  BY <1>1, <1>2, SupervisorAssumption
<1> QED
  BY <1>6, <1>7, <1>8

\* A member reported failed in the generation in hand belongs to a session that
\* was adopted, and is remembered as failed for as long as that session lives.
ReportedInv ==
  \A i \in 1..Len(updates) :
    updates[i].kind = "MemberFailed" /\ updates[i].generation = gate =>
      /\ inFlight = 0 /\ activating = 0
      /\ active # 0 => updates[i].receiver \in failed

\* The order of the queue, the uniqueness of its failures, and what keeps both.
OnceInv == UpdatesOrdered /\ FailuresReportedOnce /\ ReportedInv

\* No step but a probe cycle makes a failure of the generation in hand older than
\* the session it belongs to: a step either admits a newer generation, or starts
\* and activates nothing that was not already on its way.
SessionKept ==
  \/ gate' > gate
  \/ /\ gate' = gate
     /\ inFlight' \in {0, inFlight}
     /\ activating' # 0 => inFlight # 0 \/ activating # 0
     /\ active' # 0 => activating # 0 \/ (active # 0 /\ failed' = failed)

\* Pushing anything but member failures, in the order of generations.
LEMMA PushKeepsOnce ==
  ASSUME TypeOK, TypeOK', OnceInv, SessionKept,
         NEW us \in Seq(Messages), PushUpdates(us),
         \A i \in 1..Len(us) : us[i].kind # "MemberFailed",
         \A i \in 1..Len(us) : us[i].generation \in gate..gate',
         \A i, j \in 1..Len(us) :
            i <= j => us[i].generation <= us[j].generation
  PROVE  OnceInv'
<1>1. PICK k \in 0..Len(us) :
        /\ Len(updates') = Len(updates) + k
        /\ \A i \in 1..Len(updates) : updates'[i] = updates[i]
        /\ \A i \in 1..Len(updates) + k :
              i > Len(updates) => updates'[i] = us[i - Len(updates)]
  BY PushUpdatesExtends
<1> DEFINE n == Len(updates)
<1>2. /\ n \in Nat /\ Len(us) \in Nat /\ gate \in Nat /\ gate' \in Nat
      /\ gate' >= gate /\ k \in Nat
  BY LenProperties DEF TypeOK, SessionKept, Generation
<1>3. \A i \in 1..n : updates[i].generation \in Nat
  <2>1. updates \in Seq(Messages)
    BY DEF TypeOK, Messages
  <2>2. \A i \in 1..n : updates[i] \in Messages
    BY <2>1, LenProperties
  <2> QED
    BY <2>2 DEF Messages, Edges, Reports, Generation
<1>4. ASSUME NEW i \in 1..Len(updates')
      PROVE  \/ i \in 1..n /\ updates'[i] = updates[i]
             \/ /\ i > n /\ i - n \in 1..Len(us)
                /\ updates'[i] = us[i - n]
                /\ updates'[i].generation \in gate..gate'
                /\ updates'[i].kind # "MemberFailed"
  BY <1>1, <1>2, <1>4
<1>5. UpdatesOrdered'
  <2>1. ASSUME NEW i \in 1..Len(updates'), NEW j \in 1..Len(updates'), i <= j
        PROVE  updates'[i].generation <= updates'[j].generation
    <3>1. CASE j \in 1..n
      BY <1>1, <1>2, <1>4, <2>1, <3>1 DEF OnceInv, UpdatesOrdered
    <3>2. CASE j > n /\ i \in 1..n
      <4>1. updates'[i] = updates[i] /\ updates[i].generation \in Nat
        BY <1>1, <1>3, <3>2
      <4>2. updates[i].generation <= gate
        BY <3>2 DEF OnceInv, UpdatesOrdered
      <4>3. updates'[j].generation \in gate..gate'
        <5>1. j \notin 1..n
          BY <1>2, <3>2
        <5> QED
          BY <1>4, <5>1
      <4> QED
        BY <1>2, <4>1, <4>2, <4>3
    <3>3. CASE j > n /\ i > n
      <4>1. i - n <= j - n /\ i - n \in 1..Len(us) /\ j - n \in 1..Len(us)
        BY <1>1, <1>2, <1>4, <2>1, <3>3
      <4> QED
        BY <1>1, <2>1, <3>3, <4>1
    <3> QED
      BY <1>1, <1>2, <2>1, <3>1, <3>2, <3>3
  <2>2. ASSUME NEW i \in 1..Len(updates')
        PROVE  updates'[i].generation <= gate'
    BY <1>2, <1>3, <1>4, <2>2 DEF OnceInv, UpdatesOrdered
  <2> QED
    BY <2>1, <2>2 DEF UpdatesOrdered
<1>6. FailuresReportedOnce'
  BY <1>4 DEF OnceInv, FailuresReportedOnce
<1>7. ReportedInv'
  <2>1. SUFFICES ASSUME NEW i \in 1..n, updates'[i] = updates[i],
                        updates[i].kind = "MemberFailed",
                        updates[i].generation = gate'
                 PROVE  /\ inFlight' = 0 /\ activating' = 0
                        /\ active' # 0 => updates[i].receiver \in failed'
    BY <1>4 DEF ReportedInv
  <2>2. updates[i].generation <= gate
    BY <2>1 DEF OnceInv, UpdatesOrdered
  <2>3. gate' = gate
    BY <1>2, <2>1, <2>2
  <2> QED
    BY <1>2, <2>1, <2>3 DEF OnceInv, ReportedInv, SessionKept
<1> QED
  BY <1>5, <1>6, <1>7 DEF OnceInv

\* A step that leaves the queue alone, or takes its head.
LEMMA TakeKeepsOnce ==
  ASSUME TypeOK, TypeOK', OnceInv, SessionKept,
         \/ updates' = updates
         \/ updates # <<>> /\ updates' = Tail(updates)
  PROVE  OnceInv'
<1>1. PICK k \in 0..1 :
        /\ Len(updates') = Len(updates) - k
        /\ \A i \in 1..Len(updates') : updates'[i] = updates[i + k]
  <2>1. updates \in Seq(Messages)
    BY DEF TypeOK, Messages
  <2>2. CASE updates' = updates
    BY <2>1, <2>2, LenProperties
  <2>3. CASE updates # <<>> /\ updates' = Tail(updates)
    BY <2>1, <2>3, HeadTailProperties
  <2> QED
    BY <2>2, <2>3
<1>2. /\ Len(updates) \in Nat /\ gate \in Nat /\ gate' \in Nat /\ gate' >= gate
      /\ k \in {0, 1}
  BY LenProperties DEF TypeOK, SessionKept, Generation
<1>3. \A i \in 1..Len(updates') :
        /\ i + k \in 1..Len(updates) /\ updates'[i] = updates[i + k]
        /\ updates[i + k].generation \in Nat
        /\ updates[i + k].generation <= gate
  <2>1. updates \in Seq(Messages)
    BY DEF TypeOK, Messages
  <2>2. \A i \in 1..Len(updates) : updates[i].generation \in Nat
    <3>1. \A i \in 1..Len(updates) : updates[i] \in Messages
      BY <2>1, LenProperties
    <3> QED
      BY <3>1 DEF Messages, Edges, Reports, Generation
  <2>3. \A i \in 1..Len(updates') : i + k \in 1..Len(updates)
    BY <1>1, <1>2
  <2> QED
    BY <1>1, <2>2, <2>3 DEF OnceInv, UpdatesOrdered
<1>4. UpdatesOrdered'
  <2>1. ASSUME NEW i \in 1..Len(updates'), NEW j \in 1..Len(updates'), i <= j
        PROVE  updates'[i].generation <= updates'[j].generation
    <3>1. i + k <= j + k
      BY <1>2, <2>1
    <3>2. /\ i + k \in 1..Len(updates) /\ updates'[i] = updates[i + k]
          /\ j + k \in 1..Len(updates) /\ updates'[j] = updates[j + k]
      BY <1>3
    <3> QED
      BY <3>1, <3>2 DEF OnceInv, UpdatesOrdered
  <2>2. \A i \in 1..Len(updates') : updates'[i].generation <= gate'
    BY <1>2, <1>3
  <2> QED
    BY <2>1, <2>2 DEF UpdatesOrdered
<1>5. FailuresReportedOnce'
  <2>1. SUFFICES ASSUME NEW i \in 1..Len(updates'), NEW j \in 1..Len(updates'),
                        updates'[i].kind = "MemberFailed",
                        updates'[j].kind = "MemberFailed",
                        updates'[i].generation = updates'[j].generation,
                        updates'[i].receiver = updates'[j].receiver
                 PROVE  i = j
    BY DEF FailuresReportedOnce
  <2>2. i + k = j + k
    BY <1>3, <2>1 DEF OnceInv, FailuresReportedOnce
  <2> QED
    BY <1>2, <2>1, <2>2
<1>6. ReportedInv'
  <2>1. SUFFICES ASSUME NEW i \in 1..Len(updates'),
                        updates'[i].kind = "MemberFailed",
                        updates'[i].generation = gate'
                 PROVE  /\ inFlight' = 0 /\ activating' = 0
                        /\ active' # 0 => updates'[i].receiver \in failed'
    BY DEF ReportedInv
  <2>2. /\ i + k \in 1..Len(updates) /\ updates'[i] = updates[i + k]
        /\ gate' = gate
    BY <1>2, <1>3, <2>1
  <2> QED
    BY <1>2, <2>1, <2>2 DEF OnceInv, ReportedInv, SessionKept
<1> QED
  BY <1>4, <1>5, <1>6 DEF OnceInv

\* run_probe_cycle reports members that were not reported before, each once, and
\* remembers them.
LEMMA ProbeKeepsOnce ==
  ASSUME TypeOK, TypeOK', SupervisorInv, OnceInv, ProbeCycle, active # 0,
         UNCHANGED <<gate, inFlight, activating, active>>
  PROVE  OnceInv'
<1>1. PICK n \in 0..Cardinality(built.members \ failed) :
        \E report \in [1..n -> built.members \ failed] :
          /\ \A i, j \in 1..n : report[i] = report[j] => i = j
          /\ failed' = failed \cup {report[i] : i \in 1..n}
          /\ PushUpdates([i \in 1..n |->
               MemberFailed(gate, report[i], report[i] = built.primary)])
  BY DEF ProbeCycle
<1>2. PICK report \in [1..n -> built.members \ failed] :
          /\ \A i, j \in 1..n : report[i] = report[j] => i = j
          /\ failed' = failed \cup {report[i] : i \in 1..n}
          /\ PushUpdates([i \in 1..n |->
               MemberFailed(gate, report[i], report[i] = built.primary)])
  BY <1>1
<1> DEFINE us == [i \in 1..n |->
                    MemberFailed(gate, report[i], report[i] = built.primary)]
           m  == Len(updates)
<1>3. \A i \in 1..n : /\ us[i] \in Reports /\ us[i].kind = "MemberFailed"
                      /\ us[i].generation = gate /\ us[i].receiver = report[i]
                      /\ report[i] \notin failed /\ report[i] \in failed'
  <2>1. built.members \subseteq Receivers
    BY DEF TypeOK, Builds
  <2> QED
    BY <1>2, <2>1, EdgesTyped DEF TypeOK, MemberFailed
<1>4. n \in Nat /\ us \in Seq(Messages) /\ Len(us) = n
  <2>1. n \in Nat
    BY <1>1
  <2> QED
    BY <1>3, <2>1 DEF Messages
<1> HIDE DEF us
<1>5. PushUpdates(us)
  BY <1>2 DEF us
<1>6. PICK k \in 0..n :
        /\ Len(updates') = m + k
        /\ \A i \in 1..m : updates'[i] = updates[i]
        /\ \A i \in 1..m + k : i > m => updates'[i] = us[i - m]
  BY <1>4, <1>5, PushUpdatesExtends
<1>7. /\ m \in Nat /\ k \in Nat /\ gate \in Nat /\ gate' = gate
      /\ inFlight = 0 /\ activating = 0
  BY <1>4, LenProperties
  DEF TypeOK, Generation, SupervisorInv, OneSession
<1>8. ASSUME NEW i \in 1..Len(updates')
      PROVE  \/ i \in 1..m /\ updates'[i] = updates[i]
             \/ /\ i > m /\ i - m \in 1..n /\ updates'[i] = us[i - m]
                /\ updates'[i].kind = "MemberFailed"
                /\ updates'[i].generation = gate
                /\ updates'[i].receiver = report[i - m]
                /\ updates'[i].receiver \notin failed
                /\ updates'[i].receiver \in failed'
  <2>1. CASE i <= m
    BY <1>6, <1>7, <1>8, <2>1
  <2>2. CASE i > m
    <3>1. i - m \in 1..n /\ updates'[i] = us[i - m]
      BY <1>4, <1>6, <1>7, <1>8, <2>2
    <3> QED
      BY <1>3, <2>2, <3>1
  <2> QED
    BY <1>7, <2>1, <2>2
<1>9. \A i \in 1..m : updates[i].generation <= gate
  BY DEF OnceInv, UpdatesOrdered
<1>10. UpdatesOrdered'
  <2>1. ASSUME NEW i \in 1..Len(updates'), NEW j \in 1..Len(updates'), i <= j
        PROVE  updates'[i].generation <= updates'[j].generation
    <3>1. CASE j \in 1..m
      <4>1. i \in 1..m
        BY <1>6, <1>7, <2>1, <3>1
      <4> QED
        BY <1>6, <2>1, <3>1, <4>1 DEF OnceInv, UpdatesOrdered
    <3>2. CASE j \notin 1..m
      <4>1. updates'[j].generation = gate
        BY <1>8, <2>1, <3>2
      <4>2. updates'[i].generation = gate \/ updates'[i].generation <= gate
        BY <1>8, <1>9, <2>1
      <4> QED
        BY <1>7, <4>1, <4>2
    <3> QED
      BY <3>1, <3>2
  <2>2. ASSUME NEW i \in 1..Len(updates')
        PROVE  updates'[i].generation <= gate'
    BY <1>7, <1>8, <1>9, <2>2
  <2> QED
    BY <2>1, <2>2 DEF UpdatesOrdered
<1>11. FailuresReportedOnce'
  <2>1. SUFFICES ASSUME NEW i \in 1..Len(updates'), NEW j \in 1..Len(updates'),
                        updates'[i].kind = "MemberFailed",
                        updates'[j].kind = "MemberFailed",
                        updates'[i].generation = updates'[j].generation,
                        updates'[i].receiver = updates'[j].receiver
                 PROVE  i = j
    BY DEF FailuresReportedOnce
  <2>2. CASE i \in 1..m /\ j \in 1..m
    BY <1>6, <2>1, <2>2 DEF OnceInv, FailuresReportedOnce
  <2>3. ASSUME NEW a \in 1..m, NEW b \in 1..Len(updates'), b \notin 1..m,
               updates[a].kind = "MemberFailed",
               updates[a].generation = updates'[b].generation
        PROVE  updates[a].receiver # updates'[b].receiver
    <3>1. updates[a].generation = gate /\ updates'[b].receiver \notin failed
      BY <1>8, <2>3
    <3> QED
      BY <2>3, <3>1 DEF OnceInv, ReportedInv
  <2>4. CASE i \notin 1..m /\ j \notin 1..m
    <3>1. /\ i - m \in 1..n /\ j - m \in 1..n
          /\ report[i - m] = report[j - m]
      BY <1>8, <2>1, <2>4
    <3>2. i - m = j - m
      BY <1>2, <3>1
    <3> QED
      BY <1>6, <1>7, <2>1, <3>2
  <2> QED
    BY <1>6, <2>1, <2>2, <2>3, <2>4
<1>12. ReportedInv'
  <2>1. SUFFICES ASSUME NEW i \in 1..Len(updates'),
                        updates'[i].kind = "MemberFailed",
                        updates'[i].generation = gate'
                 PROVE  updates'[i].receiver \in failed'
    BY <1>7 DEF ReportedInv
  <2>2. failed \subseteq failed'
    BY <1>2
  <2> QED
    BY <1>7, <1>8, <2>1, <2>2 DEF OnceInv, ReportedInv
<1> QED
  BY <1>10, <1>11, <1>12 DEF OnceInv

\* One edge of the generation in hand, or of the one just admitted.
LEMMA PushOneKeepsOnce ==
  ASSUME TypeOK, TypeOK', OnceInv, SessionKept,
         NEW e \in Messages, PushUpdates(<<e>>), e.kind # "MemberFailed",
         e.generation \in gate..gate'
  PROVE  OnceInv'
<1>1. <<e>> \in Seq(Messages) /\ Len(<<e>>) = 1 /\ <<e>>[1] = e
  BY ShortSequences
<1>2. e.generation \in Nat
  BY DEF Messages, Edges, Reports, Generation
<1> DEFINE us == <<e>>
<1> HIDE DEF us
<1>3. \A i \in 1..Len(us) : us[i] = e
  BY <1>1 DEF us
<1>4. \A i \in 1..Len(us) : us[i].kind # "MemberFailed"
  BY <1>3
<1>5. \A i \in 1..Len(us) : us[i].generation \in gate..gate'
  BY <1>3
<1>6. \A i, j \in 1..Len(us) : i <= j => us[i].generation <= us[j].generation
  BY <1>2, <1>3
<1>7. us \in Seq(Messages) /\ PushUpdates(us)
  BY <1>1 DEF us
<1> QED
  BY <1>4, <1>5, <1>6, <1>7, PushKeepsOnce

\* The end of one generation and the start of the next.
LEMMA PushTwoKeepsOnce ==
  ASSUME TypeOK, TypeOK', OnceInv, gate' > gate,
         NEW e \in Messages, NEW f \in Messages, PushUpdates(<<e, f>>),
         e.kind # "MemberFailed", f.kind # "MemberFailed",
         e.generation = gate, f.generation = gate'
  PROVE  OnceInv'
<1> DEFINE us == <<e, f>>
<1>1. us \in Seq(Messages) /\ Len(us) = 2 /\ us[1] = e /\ us[2] = f
  BY ShortSequences
<1>2. gate \in Nat /\ gate' \in Nat /\ SessionKept
  BY DEF TypeOK, Generation, SessionKept
<1> HIDE DEF us
<1>3. \A i \in 1..Len(us) : (i = 1 /\ us[i] = e) \/ (i = 2 /\ us[i] = f)
  BY <1>1
<1>4. \A i \in 1..Len(us) : us[i].kind # "MemberFailed"
  BY <1>3
<1>5. \A i \in 1..Len(us) : us[i].generation \in gate..gate'
  BY <1>2, <1>3
<1>6. \A i, j \in 1..Len(us) : i <= j => us[i].generation <= us[j].generation
  BY <1>2, <1>3
<1>7. PushUpdates(us)
  BY DEF us
<1> QED
  BY <1>1, <1>2, <1>4, <1>5, <1>6, <1>7, PushKeepsOnce

\* No edge is a member failure.
LEMMA EdgeIsNoFailure ==
  ASSUME NEW e \in Edges
  PROVE  e \in Messages /\ e.kind # "MemberFailed" /\ e.generation \in Nat
  BY DEF Edges, Messages, Generation

\* Every step keeps the queue in order and its failures unique.
LEMMA OnceStep ==
  ASSUME TypeOK, TypeOK', SupervisorInv, OnceInv, [Next]_vars
  PROVE  OnceInv'
<1>0. /\ gate \in Nat /\ gate' \in Nat
      /\ inFlight \in {0, gate} /\ activating \in {0, gate}
      /\ active \in {0, gate}
      /\ inFlight # 0 => activating = 0 /\ active = 0
      /\ activating # 0 => active = 0
  BY DEF TypeOK, Generation, SupervisorInv, OneSession, Owned
<1>1. CASE StartGeneration
  <2>1. newest \in Reconciles
    BY <1>1 DEF StartGeneration, TypeOK
  <2>2. CASE newest.generation > gate
    <3>1. Admit(newest) /\ PushUpdates(<<AdmissionEdge(newest)>>)
      BY <1>1, <2>2 DEF StartGeneration
    <3>2. gate' = newest.generation /\ SessionKept
      BY <2>2, <3>1 DEF Admit, SessionKept
    <3>3. /\ AdmissionEdge(newest) \in Edges
          /\ AdmissionEdge(newest).generation = gate'
      BY <2>1, <3>2, AdmissionEdgeTyped
    <3>4. gate' \in gate..gate'
      BY <1>0, <2>2, <3>2
    <3> QED
      BY <3>1, <3>2, <3>3, <3>4, EdgeIsNoFailure, PushOneKeepsOnce
  <2>3. CASE ~(newest.generation > gate)
    <3>1. updates' = updates /\ SessionKept
      BY <1>1, <2>3 DEF StartGeneration, SessionKept, owner
    <3> QED
      BY <3>1, TakeKeepsOnce
  <2> QED
    BY <2>2, <2>3
<1>2. CASE StartCompletes \/ AbortedTaskEnds \/ AdoptSuccess \/ Receive
  <2>1. updates' = updates /\ SessionKept
    BY <1>2 DEF StartCompletes, AbortedTaskEnds, AdoptSuccess, Receive,
                SessionKept, owner
  <2> QED
    BY <2>1, TakeKeepsOnce
<1>3. CASE \/ ActivationConsumes \/ ActivationSuperseded \/ Shutdown
  <2>1. updates' = updates /\ SessionKept
    BY <1>3 DEF ActivationConsumes, ActivationSuperseded, Shutdown, SessionKept,
                supVars
  <2> QED
    BY <2>1, TakeKeepsOnce
<1>4. ASSUME gate' = gate, SessionKept,
             \/ UNCHANGED updates
             \/ \E e \in Edges \cup Reports :
                   /\ e.generation = gate /\ e.kind # "MemberFailed"
                   /\ PushUpdates(<<e>>)
      PROVE  OnceInv'
  <2>1. CASE UNCHANGED updates
    BY <1>4, <2>1, TakeKeepsOnce
  <2>2. ASSUME NEW e \in Messages, e.generation = gate,
               e.kind # "MemberFailed", PushUpdates(<<e>>)
        PROVE  OnceInv'
    <3>1. e.generation \in gate..gate'
      BY <1>0, <1>4, <2>2
    <3> QED
      BY <1>4, <2>2, <3>1, PushOneKeepsOnce
  <2> QED
    BY <1>4, <2>1, <2>2 DEF Messages
<1>5. CASE AdoptFailure
  <2>1. gate' = gate /\ SessionKept /\ inFlight = gate
    BY <1>0, <1>5 DEF AdoptFailure, SessionKept
  <2>2. PushUpdates(<<Recovering(gate)>>)
    BY <1>5, <2>1 DEF AdoptFailure
  <2>3. /\ Recovering(gate) \in Edges /\ Recovering(gate).generation = gate
        /\ Recovering(gate).kind # "MemberFailed"
    BY <1>0, EdgesTyped DEF Generation, Recovering
  <2> QED
    BY <1>4, <2>1, <2>2, <2>3
<1>6. CASE ActivationFails
  <2>1. gate' = gate /\ SessionKept /\ activating = gate
    BY <1>0, <1>6 DEF ActivationFails, Activating, SessionKept
  <2>2. PushUpdates(<<Recovering(gate)>>)
    BY <1>6, <2>1 DEF ActivationFails
  <2>3. /\ Recovering(gate) \in Edges /\ Recovering(gate).generation = gate
        /\ Recovering(gate).kind # "MemberFailed"
    BY <1>0, EdgesTyped DEF Generation, Recovering
  <2> QED
    BY <1>4, <2>1, <2>2, <2>3
<1>7. CASE ActivationSucceeds
  <2>1. gate' = gate /\ SessionKept /\ activating = gate
    BY <1>0, <1>7 DEF ActivationSucceeds, Activating, SessionKept
  <2>2. PushUpdates(<<Active(gate, built)>>)
    BY <1>7, <2>1 DEF ActivationSucceeds
  <2>3. /\ Active(gate, built) \in Edges /\ Active(gate, built).generation = gate
        /\ Active(gate, built).kind # "MemberFailed"
    BY <1>0, EdgesTyped DEF Generation, Active, TypeOK
  <2> QED
    BY <1>4, <2>1, <2>2, <2>3
<1>8. CASE ApplySetVolume
  <2>1. gate' = gate /\ SessionKept
    BY <1>8 DEF ApplySetVolume, SessionKept, owner
  <2>2. \/ UNCHANGED updates
        \/ \E r \in built.members : PushUpdates(<<MemberControlFailed(gate, r)>>)
    BY <1>8 DEF ApplySetVolume
  <2>3. \A r \in built.members :
          /\ MemberControlFailed(gate, r) \in Reports
          /\ MemberControlFailed(gate, r).generation = gate
          /\ MemberControlFailed(gate, r).kind # "MemberFailed"
    BY <1>0, EdgesTyped DEF Generation, MemberControlFailed, TypeOK, Builds
  <2> QED
    BY <1>4, <2>1, <2>2, <2>3
<1>9. CASE ApplySuspend
  <2>1. gate' = gate /\ SessionKept
    BY <1>9 DEF ApplySuspend, NextInline, SessionKept
  <2>2. UNCHANGED updates \/ PushUpdates(<<Stopped(gate)>>)
    BY <1>9 DEF ApplySuspend
  <2>3. /\ Stopped(gate) \in Edges /\ Stopped(gate).generation = gate
        /\ Stopped(gate).kind # "MemberFailed"
    BY <1>0, EdgesTyped DEF Generation, Stopped
  <2> QED
    BY <1>4, <2>1, <2>2, <2>3
<1>10. CASE ProbeDue
  BY <1>10, ProbeKeepsOnce DEF ProbeDue, owner
<1>11. CASE ApplyProbe
  <2>1. CASE active # 0
    BY <1>11, <2>1, ProbeKeepsOnce DEF ApplyProbe, owner
  <2>2. CASE active = 0
    <3>1. updates' = updates /\ SessionKept
      BY <1>11, <2>2 DEF ApplyProbe, SessionKept, owner
    <3> QED
      BY <3>1, TakeKeepsOnce
  <2> QED
    BY <2>1, <2>2
<1>12. ASSUME NEW kind, Rebuild(kind)
       PROVE  OnceInv'
  <2>1. CASE UNCHANGED <<owner, tasks, retained, failed, updates, announced>>
    <3>1. updates' = updates /\ SessionKept
      BY <2>1 DEF SessionKept, owner
    <3> QED
      BY <3>1, TakeKeepsOnce
  <2>2. ASSUME NEW p \in Reconciles, p.generation = gate + 1, Admit(p),
               PushUpdates(<<Recovering(gate), AdmissionEdge(p)>>)
        PROVE  OnceInv'
    <3>1. gate' = gate + 1
      BY <2>2 DEF Admit
    <3>2. gate' > gate
      BY <1>0, <3>1
    <3>3. Recovering(gate) \in Edges /\ Recovering(gate).generation = gate
      BY <1>0, EdgesTyped DEF Generation, Recovering
    <3>4. AdmissionEdge(p) \in Edges /\ AdmissionEdge(p).generation = gate'
      BY <2>2, <3>1, AdmissionEdgeTyped
    <3>5. /\ Recovering(gate) \in Messages /\ AdmissionEdge(p) \in Messages
          /\ Recovering(gate).kind # "MemberFailed"
          /\ AdmissionEdge(p).kind # "MemberFailed"
      BY <3>3, <3>4, EdgeIsNoFailure
    <3> QED
      BY <2>2, <3>2, <3>3, <3>4, <3>5, PushTwoKeepsOnce
  <2> QED
    BY <1>12, <2>1, <2>2, RebuildStep
<1>13. CASE ClientNext \/ UNCHANGED vars
  <2>1. /\ SessionKept
        /\ \/ updates' = updates
           \/ updates # <<>> /\ updates' = Tail(updates)
    BY <1>13 DEF ClientNext, SendReconcile, SendInline, TakeUpdate,
                 RequestShutdown, SessionKept, vars, supVars, owner
  <2> QED
    BY <2>1, TakeKeepsOnce
<1> QED
  BY <1>1, <1>2, <1>3, <1>5, <1>6, <1>7, <1>8, <1>9, <1>10, <1>11, <1>12, <1>13
  DEF Next, SupNext, ApplyNetworkChanged, ApplyResume

\* However small the queue and however slow the controller: what the queue holds
\* is in the order of generations and tells no member's failure twice.
THEOREM ReportsInOrder == Spec => [](UpdatesOrdered /\ FailuresReportedOnce)
<1>1. Init => OnceInv
  BY EmptySeq DEF Init, SupInit, OnceInv, UpdatesOrdered, FailuresReportedOnce,
                  ReportedInv
<1>2. /\ TypeOK /\ SupervisorInv /\ OnceInv /\ [Next]_vars /\ TypeOK'
      => OnceInv'
  BY OnceStep
<1>3. OnceInv => UpdatesOrdered /\ FailuresReportedOnce
  BY DEF OnceInv
<1> QED
  BY <1>1, <1>2, <1>3, SupervisorSafe, PTL DEF Spec

-----------------------------------------------------------------------------
(* What was announced is what is held.                                     *)

\* The two edges that one handler may publish still fit in the queue: the
\* controller keeps up with the supervisor.
Room == Len(updates) + 2 <= UpdateCapacity

\* While the supervisor runs, the last edge names what is owned, an activation
\* included; it is AnnouncedIsTrue for the states in which the loop does not wait
\* as well.
AnnouncedInv ==
  running =>
    /\ announced.kind = "Active" => active = announced.generation
    /\ announced.kind \in {"Recovering", "Stopped"} => Owned = {}
    /\ active # 0 => announced = Active(active, built)
    /\ inFlight # 0 => announced = Starting(inFlight)
    /\ activating # 0 => announced = Starting(activating)

\* With room in the queue, the last edge pushed is the one announced.
LEMMA PushedWithRoom ==
  ASSUME TypeOK, Room
  PROVE  /\ \A e \in Edges : PushUpdates(<<e>>) => announced' = e
         /\ \A e, f \in Edges : PushUpdates(<<e, f>>) => announced' = f
<1>1. Len(updates) \in Nat /\ UpdateCapacity \in Nat
  BY SupervisorAssumption, LenProperties DEF TypeOK
<1>2. ASSUME NEW e \in Edges, PushUpdates(<<e>>)
      PROVE  announced' = e
  <2>1. <<e>> \in Seq(Messages) /\ Len(<<e>>) = 1 /\ <<e>>[1] = e
    BY EdgeIsNoFailure, ShortSequences
  <2> DEFINE us == <<e>>
  <2> HIDE DEF us
  <2>2. /\ us \in Seq(Messages) /\ Len(us) = 1 /\ us[Len(us)] = e
        /\ PushUpdates(us)
    BY <1>2, <2>1 DEF us
  <2>3. Len(us) # 0 /\ Len(updates) + Len(us) <= UpdateCapacity
    BY <1>1, <2>2 DEF Room
  <2> QED
    BY <2>2, <2>3, PushUpdatesExtends
<1>3. ASSUME NEW e \in Edges, NEW f \in Edges, PushUpdates(<<e, f>>)
      PROVE  announced' = f
  <2>1. <<e, f>> \in Seq(Messages) /\ Len(<<e, f>>) = 2 /\ <<e, f>>[2] = f
    BY EdgeIsNoFailure, ShortSequences
  <2> DEFINE us == <<e, f>>
  <2> HIDE DEF us
  <2>2. /\ us \in Seq(Messages) /\ Len(us) = 2 /\ us[Len(us)] = f
        /\ PushUpdates(us)
    BY <1>3, <2>1 DEF us
  <2>3. Len(us) # 0 /\ Len(updates) + Len(us) <= UpdateCapacity
    BY <1>1, <2>2 DEF Room
  <2> QED
    BY <2>2, <2>3, PushUpdatesExtends
<1> QED
  BY <1>2, <1>3

\* An admission whose edge is announced.
LEMMA AdmitAnnounced ==
  ASSUME TypeOK, NEW p \in Reconciles, p.generation > gate, Admit(p),
         activating' = 0, announced' = AdmissionEdge(p)
  PROVE  AnnouncedInv'
<1>1. /\ active' = 0 /\ activating' = 0
      /\ inFlight' = IF p.desired = {} THEN 0 ELSE p.generation
  BY DEF Admit, Supersede
<1>2. CASE p.desired # {}
  <2>1. announced' = Starting(p.generation)
    BY <1>2 DEF AdmissionEdge
  <2> QED
    BY <1>1, <1>2, <2>1 DEF AnnouncedInv, Starting
<1>3. CASE p.desired = {}
  <2>1. announced'.kind \in {"Stopped", "Recovering"} /\ Owned' = {}
    BY <1>1, <1>3 DEF AdmissionEdge, Stopped, Recovering, Owned
  <2> QED
    BY <1>1, <1>3, <2>1 DEF AnnouncedInv
<1> QED
  BY <1>2, <1>3

\* Every step announces what it does, given room in the queue.
LEMMA AnnouncedStep ==
  ASSUME TypeOK, TypeOK', SupervisorInv, AnnouncedInv, Room, [Next]_vars
  PROVE  AnnouncedInv'
<1>0. /\ gate \in Nat
      /\ inFlight \in {0, gate} /\ activating \in {0, gate}
      /\ active \in {0, gate}
      /\ inFlight # 0 => activating = 0 /\ active = 0
      /\ activating # 0 => active = 0
      /\ inline # <<>> \/ newest # NoReconcile => activating = 0
  BY DEF TypeOK, Generation, SupervisorInv, OneSession, Owned
<1>1. CASE StartGeneration
  <2>1. newest \in Reconciles
    BY <1>1 DEF StartGeneration, TypeOK
  <2>2. CASE newest.generation > gate
    <3>1. Admit(newest) /\ PushUpdates(<<AdmissionEdge(newest)>>)
      BY <1>1, <2>2 DEF StartGeneration
    <3>2. announced' = AdmissionEdge(newest)
      BY <2>1, <3>1, AdmissionEdgeTyped, PushedWithRoom
    <3>3. activating' = 0
      BY <1>0, <1>1 DEF StartGeneration
    <3> QED
      BY <2>1, <2>2, <3>1, <3>2, <3>3, AdmitAnnounced
  <2>3. CASE ~(newest.generation > gate)
    BY <1>1, <2>3 DEF StartGeneration, AnnouncedInv, Owned, owner
  <2> QED
    BY <2>2, <2>3
<1>2. CASE StartCompletes
  BY <1>0, <1>2 DEF StartCompletes, AnnouncedInv, Owned
<1>3. CASE AbortedTaskEnds \/ Receive \/ ActivationConsumes \/ ProbeDue
  <2>1. /\ UNCHANGED owner /\ running' = running
        /\ announced' = announced
    BY <1>3, ProbeCycleTyped
    DEF AbortedTaskEnds, Receive, ActivationConsumes, ProbeDue, supVars, owner
  <2> QED
    BY <2>1 DEF AnnouncedInv, Owned, owner
<1>4. CASE AdoptFailure
  <2>1. /\ inFlight = gate /\ inFlight # 0 /\ inFlight' = 0
        /\ activating' = 0 /\ active' = 0
    BY <1>0, <1>4 DEF AdoptFailure
  <2>2. PushUpdates(<<Recovering(gate)>>)
    BY <1>4, <2>1 DEF AdoptFailure
  <2>3. announced' = Recovering(gate)
    BY <1>0, <2>2, EdgesTyped, PushedWithRoom DEF Generation
  <2> QED
    BY <2>1, <2>3 DEF AnnouncedInv, Owned, Recovering
<1>5. CASE AdoptSuccess
  <2>1. /\ inFlight = gate /\ inFlight # 0 /\ inFlight' = 0
        /\ activating' = inFlight /\ active' = 0 /\ running
        /\ announced' = announced
    BY <1>0, <1>5 DEF AdoptSuccess, Idle
  <2> QED
    BY <2>1 DEF AnnouncedInv, Owned, Starting
<1>6. CASE ActivationFails
  <2>1. /\ activating = gate /\ activating # 0 /\ activating' = 0
        /\ inFlight' = 0 /\ active' = 0
    BY <1>0, <1>6 DEF ActivationFails, Activating
  <2>2. PushUpdates(<<Recovering(gate)>>)
    BY <1>6, <2>1 DEF ActivationFails
  <2>3. announced' = Recovering(gate)
    BY <1>0, <2>2, EdgesTyped, PushedWithRoom DEF Generation
  <2> QED
    BY <2>1, <2>3 DEF AnnouncedInv, Owned, Recovering
<1>7. CASE ActivationSucceeds
  <2>1. /\ activating = gate /\ activating # 0 /\ activating' = 0
        /\ inFlight' = 0 /\ active' = gate /\ built' = built
    BY <1>0, <1>7 DEF ActivationSucceeds, Activating
  <2>2. PushUpdates(<<Active(gate, built)>>)
    BY <1>7, <2>1 DEF ActivationSucceeds
  <2>3. announced' = Active(gate, built)
    BY <1>0, <2>2, EdgesTyped, PushedWithRoom DEF Generation, TypeOK
  <2> QED
    BY <2>1, <2>3 DEF AnnouncedInv, Owned, Active
<1>8. CASE ActivationSuperseded
  <2>1. /\ activating # 0 /\ activating' = 0 /\ running
        /\ inFlight' = 0 /\ active' = 0 /\ announced' = announced
    BY <1>0, <1>8 DEF ActivationSuperseded, Activating
  <2> QED
    BY <2>1 DEF AnnouncedInv, Owned, Starting
<1>9. CASE ApplySetVolume
  <2>1. announced' = announced
    <3>1. \A r \in built.members : MemberControlFailed(gate, r) \in Reports
      BY EdgesTyped DEF TypeOK, Builds
    <3> QED
      BY <1>9, <3>1, PushedEdges DEF ApplySetVolume
  <2> QED
    BY <1>9, <2>1 DEF ApplySetVolume, NextInline, AnnouncedInv, Owned, owner
<1>10. CASE ApplyProbe
  <2>1. announced' = announced
    BY <1>10, ProbeCycleTyped DEF ApplyProbe
  <2> QED
    BY <1>10, <2>1 DEF ApplyProbe, NextInline, AnnouncedInv, Owned, owner
<1>11. CASE ApplySuspend
  <2>1. /\ inFlight' = 0 /\ active' = 0 /\ activating' = 0
        /\ running /\ activating = 0
    BY <1>0, <1>11 DEF ApplySuspend, NextInline
  <2>2. CASE inFlight # 0 \/ active # 0
    <3>1. PushUpdates(<<Stopped(gate)>>)
      BY <1>11, <2>2 DEF ApplySuspend
    <3>2. announced' = Stopped(gate)
      BY <1>0, <3>1, EdgesTyped, PushedWithRoom DEF Generation
    <3> QED
      BY <2>1, <3>2 DEF AnnouncedInv, Owned, Stopped
  <2>3. CASE inFlight = 0 /\ active = 0
    <3>1. announced' = announced
      BY <1>11, <2>3 DEF ApplySuspend
    <3> QED
      BY <2>1, <2>3, <3>1 DEF AnnouncedInv, Owned
  <2> QED
    BY <2>2, <2>3
<1>12. ASSUME NEW kind, Rebuild(kind)
       PROVE  AnnouncedInv'
  <2>1. activating = 0 /\ running' = running
    BY <1>0, <1>12 DEF Rebuild, NextInline
  <2>2. CASE UNCHANGED <<owner, tasks, retained, failed, updates, announced>>
    BY <2>1, <2>2 DEF AnnouncedInv, Owned, owner
  <2>3. ASSUME NEW p \in Reconciles, p.generation = gate + 1, Admit(p),
               UNCHANGED activating,
               PushUpdates(<<Recovering(gate), AdmissionEdge(p)>>)
        PROVE  AnnouncedInv'
    <3>1. announced' = AdmissionEdge(p)
      BY <1>0, <2>3, EdgesTyped, AdmissionEdgeTyped, PushedWithRoom
      DEF Generation
    <3>2. p.generation > gate /\ activating' = 0
      BY <1>0, <2>1, <2>3
    <3> QED
      BY <2>3, <3>1, <3>2, AdmitAnnounced
  <2> QED
    BY <1>12, <2>2, <2>3, RebuildStep
<1>13. CASE Shutdown
  BY <1>13 DEF Shutdown, AnnouncedInv
<1>14. CASE ClientNext \/ UNCHANGED vars
  <2>1. UNCHANGED <<owner, running, announced>>
    BY <1>14 DEF ClientNext, SendReconcile, SendInline, TakeUpdate,
                 RequestShutdown, vars, supVars, owner
  <2> QED
    BY <2>1 DEF AnnouncedInv, Owned, owner
<1> QED
  BY <1>1, <1>2, <1>3, <1>4, <1>5, <1>6, <1>7, <1>8, <1>9, <1>10, <1>11, <1>12,
     <1>13, <1>14
  DEF Next, SupNext, ApplyNetworkChanged, ApplyResume

\* As long as the queue has room for the edges of a handler, the last lifecycle
\* edge the controller was sent is the truth about what the supervisor holds.
\* Without room it is not: push_update drops an edge for good.
THEOREM ReportsAreTrue == Spec /\ []Room => []AnnouncedIsTrue
<1>1. Init => AnnouncedInv
  BY DEF Init, SupInit, AnnouncedInv, Stopped, Owned
<1>2. /\ TypeOK /\ SupervisorInv /\ AnnouncedInv /\ Room /\ [Next]_vars
      /\ TypeOK'
      => AnnouncedInv'
  BY AnnouncedStep
<1>3. AnnouncedInv => AnnouncedIsTrue
  BY DEF AnnouncedInv, AnnouncedIsTrue, Idle
<1> QED
  BY <1>1, <1>2, <1>3, SupervisorSafe, PTL DEF Spec

-----------------------------------------------------------------------------
(* The newest reconcile wins.                                              *)

\* The reconciles still queued are in the order of their generations, and newer
\* than anything dispatched or admitted.
QueueInv ==
  /\ gate <= session_generation
  /\ \A i \in 1..Len(requests) : IsReconcile(requests[i]) =>
        requests[i].generation \in (gate + 1)..session_generation
  /\ \A i, j \in 1..Len(requests) :
        IsReconcile(requests[i]) /\ IsReconcile(requests[j]) /\ i < j =>
          requests[i].generation < requests[j].generation
  /\ newest # NoReconcile =>
        /\ newest.generation \in (gate + 1)..session_generation
        /\ \A i \in 1..Len(requests) : IsReconcile(requests[i]) =>
              newest.generation < requests[i].generation

AnyQueued == \E i \in 1..Len(requests) : IsReconcile(requests[i])

\* q is the last reconcile the queue accepted, found where the supervisor has got
\* to with it: queued behind all others, coalesced, or kept.
LastAccepted(q) ==
  IF AnyQueued
  THEN \E i \in 1..Len(requests) :
         /\ requests[i] = q
         /\ \A j \in 1..Len(requests) : IsReconcile(requests[j]) => j <= i
  ELSE q = IF newest # NoReconcile THEN newest ELSE retained

\* A step that neither accepts a reconcile nor loses sight of the last one.
KeepsSight ==
  /\ QueueInv'
  /\ \A q \in Reconciles \cup {NoReconcile} :
        LastAccepted(q) => LastAccepted(q)'

NewestInv ==
  /\ QueueInv
  /\ asked.kind = "Reconcile" => LastAccepted(asked)

\* The requests in the queue, and what asks for a session.
LEMMA RequestTyped ==
  ASSUME TypeOK
  PROVE  /\ \A i \in 1..Len(requests) : requests[i] \in Reconciles \cup Inlines
         /\ \A q \in Reconciles \cup Inlines :
               IsReconcile(q) <=> q \in Reconciles
         /\ Len(requests) \in Nat /\ gate \in Nat /\ session_generation \in Nat
<1>1. requests \in Seq(Reconciles \cup Inlines)
  BY DEF TypeOK
<1>2. /\ Len(requests) \in Nat
      /\ \A i \in 1..Len(requests) : requests[i] \in Reconciles \cup Inlines
  BY <1>1, LenProperties
<1>3. \A q \in Reconciles \cup Inlines : IsReconcile(q) <=> q \in Reconciles
  BY DEF IsReconcile, Reconciles, Inlines, AllInlineKinds
<1> QED
  BY <1>2, <1>3 DEF TypeOK, Generation

\* What is in sight is a reconcile if there is one in the queue.
LEMMA SightTyped ==
  ASSUME TypeOK, NEW q \in Reconciles \cup {NoReconcile}, LastAccepted(q),
         AnyQueued
  PROVE  IsReconcile(q) /\ q # NoReconcile
<1>1. PICK l \in 1..Len(requests) : requests[l] = q
  BY DEF LastAccepted
<1>2. q \in Reconciles \cup Inlines
  BY <1>1, RequestTyped
<1>3. q # NoReconcile
  BY <1>2 DEF Reconciles, Inlines, AllInlineKinds, NoReconcile
<1> QED
  BY <1>3 DEF Reconciles, IsReconcile

\* coalesce keeps one of the reconciles it finds, if it finds any.
LEMMA NewestFound ==
  ASSUME NEW q
  PROVE  \/ NewestReconcile(q) = NoReconcile
         \/ \E i \in 1..Len(q) :
               IsReconcile(q[i]) /\ NewestReconcile(q) = q[i]
<1> DEFINE at   == {i \in 1..Len(q) : IsReconcile(q[i])}
           best == {i \in at : \A j \in at :
                      \/ q[i].generation > q[j].generation
                      \/ q[i].generation = q[j].generation /\ i <= j}
<1>1. NewestReconcile(q) = IF best = {} THEN NoReconcile
                           ELSE q[CHOOSE i \in best : TRUE]
  BY DEF NewestReconcile
<1>2. best # {} => (CHOOSE i \in best : TRUE) \in best
  OBVIOUS
<1>3. best \subseteq at
  OBVIOUS
<1> HIDE DEF best
<1> QED
  BY <1>1, <1>2, <1>3

\* In a queue whose reconciles are in the order of their generations, it keeps
\* the last one.
LEMMA NewestIsLast ==
  ASSUME NEW q \in Seq(Reconciles \cup Inlines), NEW l \in 1..Len(q),
         IsReconcile(q[l]),
         \A i \in 1..Len(q) : IsReconcile(q[i]) => i <= l,
         \A i, j \in 1..Len(q) :
            IsReconcile(q[i]) /\ IsReconcile(q[j]) /\ i < j =>
              q[i].generation < q[j].generation
  PROVE  NewestReconcile(q) = q[l]
<1> DEFINE at   == {i \in 1..Len(q) : IsReconcile(q[i])}
           best == {i \in at : \A j \in at :
                      \/ q[i].generation > q[j].generation
                      \/ q[i].generation = q[j].generation /\ i <= j}
<1>1. NewestReconcile(q) = IF best = {} THEN NoReconcile
                           ELSE q[CHOOSE i \in best : TRUE]
  BY DEF NewestReconcile
<1>2. l \in at /\ at \subseteq Nat
  BY LenProperties
<1>3. \A i \in at : q[i].generation \in Nat
  <2>1. \A i \in at : q[i] \in Reconciles
    BY LenProperties DEF IsReconcile, Inlines, Reconciles, AllInlineKinds
  <2> QED
    BY <2>1 DEF Reconciles, Generation
<1>4. \A j \in at : j # l => q[j].generation < q[l].generation
  <2>1. \A j \in at : j # l => j < l
    BY <1>2
  <2> QED
    BY <2>1
<1>5. l \in best
  BY <1>2, <1>3, <1>4
<1>6. \A i \in best : i = l
  BY <1>2, <1>3, <1>4
<1> HIDE DEF best, at
<1>7. best = {l}
  BY <1>5, <1>6
<1> QED
  BY <1>1, <1>7

\* coalesce: what it keeps is newer than what was admitted, and is the last
\* reconcile accepted if that one was still queued.
LEMMA CoalesceKeepsSight ==
  ASSUME TypeOK, QueueInv, Coalesce, newest = NoReconcile,
         UNCHANGED <<gate, retained, session_generation>>
  PROVE  KeepsSight
<1>1. requests' = <<>> /\ newest' = NewestReconcile(requests)
  BY DEF Coalesce
<1>2. Len(requests') = 0 /\ 1..Len(requests') = {}
  BY <1>1, EmptySeq
<1>3. newest' # NoReconcile =>
        newest'.generation \in (gate + 1)..session_generation
  BY <1>1, NewestFound DEF QueueInv
<1>4. ASSUME NEW q \in Reconciles \cup {NoReconcile}, LastAccepted(q)
      PROVE  q = IF newest' # NoReconcile THEN newest' ELSE retained
  <2>1. CASE AnyQueued
    <3>1. PICK l \in 1..Len(requests) :
            /\ requests[l] = q
            /\ \A j \in 1..Len(requests) : IsReconcile(requests[j]) => j <= l
      BY <1>4, <2>1 DEF LastAccepted
    <3>2. NewestReconcile(requests) = requests[l]
      BY <1>4, <2>1, <3>1, SightTyped, NewestIsLast DEF TypeOK, QueueInv
    <3> QED
      BY <1>1, <1>4, <2>1, <3>1, <3>2, SightTyped
  <2>2. CASE ~AnyQueued
    <3>1. newest' = NoReconcile
      BY <1>1, <2>2, NewestFound DEF AnyQueued
    <3> QED
      BY <1>4, <2>2, <3>1 DEF LastAccepted
  <2> QED
    BY <2>1, <2>2
<1>5. QueueInv'
  BY <1>2, <1>3 DEF QueueInv
<1>6. ~AnyQueued'
  BY <1>2 DEF AnyQueued
<1> QED
  BY <1>4, <1>5, <1>6 DEF KeepsSight, LastAccepted

\* Requests that are no reconciles, appended to the queue.
LEMMA AppendKeepsSight ==
  ASSUME TypeOK, QueueInv, NEW qs \in Seq(Inlines), requests' = requests \o qs,
         UNCHANGED <<gate, retained, newest, session_generation>>
  PROVE  KeepsSight
<1> DEFINE n == Len(requests)
<1>1. \A q \in Inlines : ~IsReconcile(q)
  BY DEF IsReconcile, Inlines, AllInlineKinds
<1>2. /\ n \in Nat /\ Len(qs) \in Nat /\ Len(requests') = n + Len(qs)
      /\ \A i \in 1..n : requests'[i] = requests[i]
      /\ \A i \in 1..Len(requests') : i > n => requests'[i] \in Inlines
  <2>1. requests \in Seq(Reconciles \cup Inlines)
    BY DEF TypeOK
  <2>2. qs \in Seq(Reconciles \cup Inlines)
    OBVIOUS
  <2>3. n \in Nat /\ Len(qs) \in Nat /\ \A i \in 1..Len(qs) : qs[i] \in Inlines
    BY <2>1, LenProperties
  <2>4. /\ Len(requests') = n + Len(qs)
        /\ \A i \in 1..n + Len(qs) :
              requests'[i] = IF i <= n THEN requests[i] ELSE qs[i - n]
    BY <2>1, <2>2, ConcatProperties
  <2>5. ASSUME NEW i \in 1..Len(requests'), i > n
        PROVE  requests'[i] \in Inlines
    <3>1. i - n \in 1..Len(qs) /\ requests'[i] = qs[i - n]
      BY <2>3, <2>4, <2>5
    <3> QED
      BY <2>3, <3>1
  <2>6. \A i \in 1..n : requests'[i] = requests[i]
    BY <2>3, <2>4
  <2> QED
    BY <2>3, <2>4, <2>5, <2>6
<1>3. \A i \in 1..Len(requests') : IsReconcile(requests'[i]) =>
         i \in 1..n /\ requests'[i] = requests[i]
  BY <1>1, <1>2
<1>4. \A i \in 1..n : i \in 1..Len(requests')
  BY <1>2
<1>5. AnyQueued' <=> AnyQueued
  BY <1>2, <1>3, <1>4 DEF AnyQueued
<1>6. ASSUME NEW q \in Reconciles \cup {NoReconcile}, LastAccepted(q)
      PROVE  LastAccepted(q)'
  <2>1. CASE AnyQueued
    <3>1. PICK l \in 1..n :
            /\ requests[l] = q
            /\ \A j \in 1..n : IsReconcile(requests[j]) => j <= l
      BY <1>6, <2>1 DEF LastAccepted
    <3> QED
      BY <1>2, <1>3, <1>4, <1>5, <2>1, <3>1 DEF LastAccepted
  <2>2. CASE ~AnyQueued
    BY <1>5, <1>6, <2>2 DEF LastAccepted
  <2> QED
    BY <2>1, <2>2
<1>7. QueueInv'
  BY <1>3 DEF QueueInv
<1> QED
  BY <1>6, <1>7 DEF KeepsSight

\* try_send of a request that is not a reconcile.
LEMMA SendKeepsSight ==
  ASSUME TypeOK, QueueInv, NEW q \in Inlines, TrySend(q),
         UNCHANGED <<gate, retained, newest, session_generation>>
  PROVE  KeepsSight
<1>1. requests \in Seq(Reconciles \cup Inlines)
  BY DEF TypeOK
<1>2. CASE UNCHANGED requests
  <2>1. <<>> \in Seq(Inlines) /\ requests' = requests \o <<>>
    BY <1>1, <1>2
  <2> QED
    BY <2>1, AppendKeepsSight
<1>3. CASE requests' = Append(requests, q)
  <2>1. <<q>> \in Seq(Inlines) /\ requests' = requests \o <<q>>
    BY <1>1, <1>3
  <2> QED
    BY <2>1, AppendKeepsSight
<1> QED
  BY <1>2, <1>3 DEF TrySend

\* try_send of the next reconcile: accepted, it is the last one.
LEMMA SendReconcileSight ==
  ASSUME TypeOK, QueueInv, NEW q \in Reconciles,
         q.generation = session_generation + 1,
         session_generation' = session_generation + 1, TrySend(q),
         UNCHANGED <<gate, retained, newest>>
  PROVE  /\ QueueInv'
         /\ \/ LastAccepted(q)' /\ asked' = q
            \/ /\ UNCHANGED <<requests, asked>>
               /\ ~(running /\ Len(requests) < RequestCapacity)
<1>0. /\ gate \in Nat /\ session_generation \in Nat
      /\ \A i \in 1..Len(requests) : IsReconcile(requests[i]) =>
            requests[i].generation \in Nat
      /\ newest # NoReconcile => newest.generation \in Nat
  BY RequestTyped DEF TypeOK, Reconciles, Generation
<1>1. \A g \in Nat : g \in (gate + 1)..session_generation =>
         g \in (gate' + 1)..session_generation' /\ g < q.generation
  BY <1>0
<1>2. CASE /\ UNCHANGED <<requests, asked>>
           /\ ~(running /\ Len(requests) < RequestCapacity)
  <2>1. \A i \in 1..Len(requests) : IsReconcile(requests[i]) =>
          requests[i].generation \in (gate' + 1)..session_generation'
    BY <1>0, <1>1 DEF QueueInv
  <2>2. newest # NoReconcile =>
          newest.generation \in (gate' + 1)..session_generation'
    BY <1>0, <1>1 DEF QueueInv
  <2>3. gate' <= session_generation'
    BY <1>0 DEF QueueInv
  <2> QED
    BY <1>2, <2>1, <2>2, <2>3 DEF QueueInv
<1>3. CASE requests' = Append(requests, q) /\ asked' = q
  <2> DEFINE n == Len(requests)
  <2>1. IsReconcile(q)
    BY DEF IsReconcile, Reconciles
  <2>2. /\ n \in Nat /\ Len(requests') = n + 1
        /\ \A i \in 1..n : requests'[i] = requests[i]
        /\ requests'[n + 1] = q
    BY <1>3, AppendProperties, LenProperties DEF TypeOK
  <2>3. \A i \in 1..Len(requests') :
          \/ i \in 1..n /\ requests'[i] = requests[i]
          \/ i = n + 1 /\ requests'[i] = q
    BY <2>2
  <2>4. \A i \in 1..Len(requests') : IsReconcile(requests'[i]) =>
          requests'[i].generation \in (gate' + 1)..session_generation'
    <3>1. q.generation \in (gate' + 1)..session_generation'
      BY <1>0 DEF QueueInv
    <3> QED
      BY <1>0, <1>1, <2>3, <3>1 DEF QueueInv
  <2>5. ASSUME NEW i \in 1..Len(requests'), NEW j \in 1..Len(requests'),
               IsReconcile(requests'[i]), IsReconcile(requests'[j]), i < j
        PROVE  requests'[i].generation < requests'[j].generation
    <3>1. i \in 1..n /\ requests'[i] = requests[i]
      BY <2>2, <2>3, <2>5
    <3>2. CASE j \in 1..n /\ requests'[j] = requests[j]
      BY <2>5, <3>1, <3>2 DEF QueueInv
    <3>3. CASE requests'[j] = q
      BY <1>0, <1>1, <2>5, <3>1, <3>3 DEF QueueInv
    <3> QED
      BY <2>3, <3>2, <3>3
  <2>6. newest' # NoReconcile =>
          /\ newest'.generation \in (gate' + 1)..session_generation'
          /\ \A i \in 1..Len(requests') : IsReconcile(requests'[i]) =>
                newest'.generation < requests'[i].generation
    BY <1>0, <1>1, <2>3 DEF QueueInv
  <2>7. /\ n + 1 \in 1..Len(requests') /\ requests'[n + 1] = q
        /\ IsReconcile(requests'[n + 1])
        /\ \A j \in 1..Len(requests') : IsReconcile(requests'[j]) => j <= n + 1
    BY <2>1, <2>2
  <2>8. gate' <= session_generation'
    BY <1>0 DEF QueueInv
  <2>9. LastAccepted(q)'
    BY <2>7 DEF LastAccepted, AnyQueued
  <2> QED
    BY <1>3, <2>4, <2>5, <2>6, <2>8, <2>9 DEF QueueInv
<1> QED
  BY <1>2, <1>3 DEF TrySend, AffectsSessionGeneration, Reconciles

\* activate_prepared discards the head of the queue: never a reconcile, because
\* every reconcile queued is newer than the generation being activated.
LEMMA ConsumeKeepsSight ==
  ASSUME TypeOK, QueueInv, requests # <<>>, ~IsReconcile(Head(requests)),
         requests' = Tail(requests),
         UNCHANGED <<gate, retained, newest, session_generation>>
  PROVE  KeepsSight
<1> DEFINE n == Len(requests)
<1>1. /\ n \in Nat /\ n # 0 /\ Len(requests') = n - 1
      /\ \A i \in 1..n - 1 : requests'[i] = requests[i + 1]
      /\ requests[1] = Head(requests)
  BY HeadTailProperties, EmptySeq, LenProperties DEF TypeOK
<1>2. \A i \in 1..Len(requests') :
         i \in Nat /\ i + 1 \in 1..n /\ requests'[i] = requests[i + 1]
  BY <1>1
<1>3. \A j \in 1..n : IsReconcile(requests[j]) =>
         /\ j - 1 \in 1..Len(requests') /\ requests'[j - 1] = requests[j]
  <2>1. SUFFICES ASSUME NEW j \in 1..n, IsReconcile(requests[j])
                 PROVE  /\ j - 1 \in 1..Len(requests')
                        /\ requests'[j - 1] = requests[j]
    OBVIOUS
  <2>2. j # 1
    BY <1>1, <2>1
  <2>3. j - 1 \in 1..n - 1 /\ (j - 1) + 1 = j
    BY <1>1, <2>2
  <2> QED
    BY <1>1, <2>3
<1>4. AnyQueued' <=> AnyQueued
  BY <1>2, <1>3 DEF AnyQueued
<1>5. \A i, j \in 1..Len(requests') :
         IsReconcile(requests'[i]) /\ IsReconcile(requests'[j]) /\ i < j =>
           requests'[i].generation < requests'[j].generation
  <2>1. SUFFICES ASSUME NEW i \in 1..Len(requests'), NEW j \in 1..Len(requests'),
                        IsReconcile(requests'[i]), IsReconcile(requests'[j]),
                        i < j
                 PROVE  requests'[i].generation < requests'[j].generation
    OBVIOUS
  <2>2. i + 1 < j + 1
    BY <1>2, <2>1
  <2> QED
    BY <1>2, <2>1, <2>2 DEF QueueInv
<1>6. ASSUME NEW q \in Reconciles \cup {NoReconcile}, LastAccepted(q)
      PROVE  LastAccepted(q)'
  <2>1. CASE AnyQueued
    <3>1. PICK l \in 1..n :
            /\ requests[l] = q
            /\ \A j \in 1..n : IsReconcile(requests[j]) => j <= l
      BY <1>6, <2>1 DEF LastAccepted
    <3>2. l - 1 \in 1..Len(requests') /\ requests'[l - 1] = q
      BY <1>3, <1>6, <2>1, <3>1, SightTyped
    <3>3. \A j \in 1..Len(requests') : IsReconcile(requests'[j]) => j <= l - 1
      <4>1. SUFFICES ASSUME NEW j \in 1..Len(requests'),
                            IsReconcile(requests'[j])
                     PROVE  j <= l - 1
        OBVIOUS
      <4>2. j + 1 <= l
        BY <1>2, <3>1, <4>1
      <4> QED
        BY <1>1, <1>2, <4>2
    <3> QED
      BY <1>4, <2>1, <3>2, <3>3 DEF LastAccepted
  <2>2. CASE ~AnyQueued
    BY <1>4, <1>6, <2>2 DEF LastAccepted
  <2> QED
    BY <2>1, <2>2
<1>7. \A i \in 1..Len(requests') : IsReconcile(requests'[i]) =>
         requests'[i].generation \in (gate + 1)..session_generation
  BY <1>2 DEF QueueInv
<1>8. newest # NoReconcile =>
         /\ newest.generation \in (gate + 1)..session_generation
         /\ \A i \in 1..Len(requests') : IsReconcile(requests'[i]) =>
               newest.generation < requests'[i].generation
  BY <1>2 DEF QueueInv
<1>9. QueueInv'
  BY <1>5, <1>7, <1>8 DEF QueueInv
<1> QED
  BY <1>6, <1>9 DEF KeepsSight

\* start_generation admits what was coalesced: it is always fresh.
LEMMA AdmitKeepsSight ==
  ASSUME TypeOK, QueueInv, newest # NoReconcile, newest' = NoReconcile,
         Admit(newest), UNCHANGED <<requests, session_generation>>
  PROVE  KeepsSight
<1>0. newest \in Reconciles
  BY DEF TypeOK
<1>1. gate' = newest.generation /\ retained' = newest
  BY DEF Admit
<1>2. /\ gate \in Nat /\ session_generation \in Nat
      /\ newest.generation \in Nat
      /\ \A i \in 1..Len(requests) : IsReconcile(requests[i]) =>
            requests[i].generation \in Nat
  BY <1>0, RequestTyped DEF Reconciles, Generation
<1>3. gate' <= session_generation
  BY <1>1, <1>2 DEF QueueInv
<1>4. \A i \in 1..Len(requests) : IsReconcile(requests[i]) =>
         requests[i].generation \in (gate' + 1)..session_generation
  BY <1>1, <1>2 DEF QueueInv
<1>5. QueueInv'
  BY <1>1, <1>3, <1>4 DEF QueueInv
<1> QED
  BY <1>1, <1>5 DEF KeepsSight, LastAccepted, AnyQueued

\* The update at the head of the queue never outruns the client's counter.
LEMMA HeadIsOld ==
  ASSUME TypeOK, UpdatesOrdered, updates # <<>>
  PROVE  /\ Head(updates) \in Messages /\ Head(updates).generation \in Nat
         /\ Head(updates).generation <= gate
<1>1. 1 \in 1..Len(updates) /\ updates[1] = Head(updates)
  BY HeadTailProperties, EmptySeq, LenProperties DEF TypeOK
<1>2. Head(updates) \in Messages
  BY HeadTailProperties DEF TypeOK, Messages
<1> QED
  BY <1>1, <1>2 DEF UpdatesOrdered, Messages, Edges, Reports, Generation

\* A platform edge (NetworkChanged or Resume) is not being applied.  Only such an
\* edge makes the supervisor mint a generation, and then the generations of the
\* controller's next reconciles may already be used.
NoPlatformEdge == ~ApplyNetworkChanged /\ ~ApplyResume

\* The other steps of the supervisor.
OrdinaryStep ==
  \/ StartGeneration \/ StartCompletes \/ AbortedTaskEnds
  \/ AdoptFailure \/ AdoptSuccess \/ Receive \/ ProbeDue
  \/ ActivationFails \/ ActivationSucceeds
  \/ ActivationConsumes \/ ActivationSuperseded
  \/ ApplySetVolume \/ ApplyProbe \/ ApplySuspend \/ Shutdown

\* Every step of the supervisor but a platform edge keeps the last reconcile in
\* sight.
LEMMA SightStep ==
  ASSUME TypeOK, SupervisorInv, QueueInv, OrdinaryStep
  PROVE  KeepsSight /\ asked' = asked /\ session_generation' = session_generation
<1>0. activating \in {0, gate} /\ (activating # 0 => newest = NoReconcile)
  BY DEF SupervisorInv, OneSession, Owned
<1>1. CASE StartGeneration
  <2>1. /\ newest # NoReconcile /\ newest \in Reconciles /\ newest' = NoReconcile
        /\ UNCHANGED <<requests, asked, session_generation>>
    BY <1>1 DEF StartGeneration, TypeOK, queue, client
  <2>2. newest.generation > gate
    <3>1. gate \in Nat /\ session_generation \in Nat
      BY DEF TypeOK, Generation
    <3> QED
      BY <2>1, <3>1 DEF QueueInv
  <2>3. Admit(newest)
    BY <1>1, <2>2 DEF StartGeneration
  <2> QED
    BY <2>1, <2>3, AdmitKeepsSight
<1>2. CASE Receive \/ ActivationSuperseded
  <2>1. /\ Coalesce /\ newest = NoReconcile
        /\ UNCHANGED <<gate, retained, session_generation>>
    BY <1>0, <1>2 DEF Receive, Idle, ActivationSuperseded, Activating, owner,
                      client
  <2>2. asked' = asked
    BY <2>1 DEF Coalesce
  <2> QED
    BY <2>1, <2>2, CoalesceKeepsSight
<1>3. CASE ActivationConsumes
  <2>1. /\ requests # <<>> /\ requests' = Tail(requests)
        /\ ConsumedByActivation(Head(requests)) /\ activating # 0
        /\ UNCHANGED <<gate, retained, newest, asked, session_generation>>
    BY <1>3 DEF ActivationConsumes, Activating, supVars, client
  <2>2. ~IsReconcile(Head(requests))
    <3>1. SUFFICES ASSUME IsReconcile(Head(requests))
                   PROVE  FALSE
      OBVIOUS
    <3>2. 1 \in 1..Len(requests) /\ requests[1] = Head(requests)
      BY <2>1, HeadTailProperties, EmptySeq, LenProperties DEF TypeOK
    <3>3. requests[1].generation \in (gate + 1)..session_generation
      BY <3>1, <3>2 DEF QueueInv
    <3>4. gate \in Nat /\ session_generation \in Nat
      BY DEF TypeOK, Generation
    <3>5. requests[1].generation <= gate
      BY <1>0, <2>1, <3>1, <3>2 DEF ConsumedByActivation, IsReconcile
    <3> QED
      BY <3>3, <3>4, <3>5
  <2> QED
    BY <2>1, <2>2, ConsumeKeepsSight
<1>4. CASE \/ StartCompletes \/ AbortedTaskEnds \/ AdoptFailure \/ AdoptSuccess
           \/ ProbeDue \/ ActivationFails \/ ActivationSucceeds
           \/ ApplySetVolume \/ ApplyProbe \/ ApplySuspend \/ Shutdown
  <2>1. UNCHANGED <<gate, retained, newest, requests, asked, session_generation>>
    BY <1>4
    DEF StartCompletes, AbortedTaskEnds, AdoptFailure, AdoptSuccess, ProbeDue,
        ActivationFails, ActivationSucceeds, ApplySetVolume, ApplyProbe,
        ApplySuspend, NextInline, Shutdown, owner, batch, queue, client
  <2> QED
    BY <2>1 DEF KeepsSight, QueueInv, LastAccepted, AnyQueued
<1> QED
  BY <1>1, <1>2, <1>3, <1>4 DEF OrdinaryStep

\* Every step but a platform edge keeps the newest reconcile in sight.
LEMMA NewestStep ==
  ASSUME TypeOK, SupervisorInv, OnceInv, NewestInv, [Next]_vars,
         [NoPlatformEdge]_vars
  PROVE  NewestInv'
<1>1. asked \in Reconciles \cup Inlines \cup {NoReconcile}
      /\ (asked.kind = "Reconcile" => asked \in Reconciles /\ IsReconcile(asked))
  BY DEF TypeOK, IsReconcile, Inlines, AllInlineKinds, NoReconcile
<1>2. ASSUME KeepsSight, asked' = asked
      PROVE  NewestInv'
  BY <1>1, <1>2 DEF NewestInv, KeepsSight
<1>3. ASSUME UNCHANGED <<gate, retained, newest, requests, asked,
                         session_generation>>
      PROVE  NewestInv'
  BY <1>3 DEF NewestInv, QueueInv, LastAccepted, AnyQueued
<1>4. CASE UNCHANGED vars
  BY <1>3, <1>4 DEF vars, supVars, queue, client
<1>5. CASE SupNext /\ NoPlatformEdge
  <2>1. OrdinaryStep
    BY <1>5 DEF SupNext, NoPlatformEdge, OrdinaryStep
  <2> QED
    BY <1>2, <2>1, SightStep DEF NewestInv
<1>6. CASE SendReconcile
  <2>1. PICK d \in SUBSET Receivers, t \in BOOLEAN :
          /\ session_generation' = session_generation + 1
          /\ TrySend(Reconcile(session_generation + 1, d, t))
          /\ UNCHANGED <<supVars, sent>>
    BY <1>6 DEF SendReconcile
  <2>2. PICK q \in Reconciles :
          q.generation = session_generation + 1 /\ TrySend(q)
    BY <2>1 DEF Reconcile, Reconciles, TypeOK, Generation
  <2>3. UNCHANGED <<gate, retained, newest>>
    BY <2>1 DEF supVars
  <2>4. QueueInv /\ session_generation' = session_generation + 1
    BY <2>1 DEF NewestInv
  <2>5. /\ QueueInv'
        /\ (LastAccepted(q)' /\ asked' = q) \/ UNCHANGED <<requests, asked>>
    BY <2>2, <2>3, <2>4, SendReconcileSight
  <2>6. CASE UNCHANGED <<requests, asked>>
    <3>1. asked.kind = "Reconcile" => LastAccepted(asked)'
      BY <2>3, <2>6 DEF NewestInv, LastAccepted, AnyQueued
    <3> QED
      BY <2>5, <2>6, <3>1 DEF NewestInv
  <2>7. CASE LastAccepted(q)' /\ asked' = q
    BY <2>5, <2>7 DEF NewestInv
  <2> QED
    BY <2>5, <2>6, <2>7
<1>7. CASE SendInline
  <2>1. PICK q \in InlineRequests : TrySend(q)
    BY <1>7 DEF SendInline
  <2>2. q \in Inlines /\ q.kind # "Reconcile"
    BY SupervisorAssumption
    DEF InlineRequests, Inlines, SetVolume, AllInlineKinds
  <2>3. UNCHANGED <<gate, retained, newest, session_generation>>
    BY <1>7 DEF SendInline, supVars
  <2>4. KeepsSight
    BY <2>1, <2>2, <2>3, SendKeepsSight DEF NewestInv
  <2>5. asked' \in {q, asked}
    BY <2>1 DEF TrySend
  <2> QED
    BY <1>2, <2>2, <2>4, <2>5 DEF NewestInv, KeepsSight
<1>8. CASE TakeUpdate
  <2>1. /\ Head(updates).generation <= gate /\ Head(updates).generation \in Nat
        /\ gate \in Nat /\ session_generation \in Nat
        /\ gate <= session_generation
    BY <1>8, HeadIsOld
    DEF TakeUpdate, OnceInv, TypeOK, Generation, NewestInv, QueueInv
  <2>2. ~(Head(updates).generation > session_generation)
    BY <2>1
  <2>3. session_generation' = session_generation
    BY <1>8, <2>2 DEF TakeUpdate
  <2> QED
    BY <1>3, <1>8, <2>3 DEF TakeUpdate, owner, batch, queue
<1>9. CASE RequestShutdown
  BY <1>3, <1>9 DEF RequestShutdown, owner, batch, queue, client
<1> QED
  BY <1>4, <1>5, <1>6, <1>7, <1>8, <1>9
  DEF Next, ClientNext, NoPlatformEdge, SupNext

\* Whatever is coalesced, superseded, aborted or refused: once the queue is
\* drained, the supervisor keeps the last reconcile the queue accepted, in every
\* behaviour without a platform edge.
THEOREM NewestWins ==
  Spec /\ [][NoPlatformEdge]_vars => []NewestReconcileWins
<1>1. Init => OnceInv /\ NewestInv
  BY EmptySeq
  DEF Init, SupInit, OnceInv, UpdatesOrdered, FailuresReportedOnce, ReportedInv,
      NewestInv, QueueInv, NoReconcile
<1>2. /\ TypeOK /\ SupervisorInv /\ OnceInv /\ [Next]_vars /\ TypeOK'
      => OnceInv'
  BY OnceStep
<1>3. /\ TypeOK /\ SupervisorInv /\ OnceInv /\ NewestInv /\ [Next]_vars
      /\ [NoPlatformEdge]_vars
      => NewestInv'
  BY NewestStep
<1>4. NewestInv => NewestReconcileWins
  BY EmptySeq DEF NewestInv, LastAccepted, AnyQueued, NewestReconcileWins, Idle
<1> QED
  BY <1>1, <1>2, <1>3, <1>4, SupervisorSafe, PTL DEF Spec

\* All of it: what the controller is told is true, told once and in order, and
\* about its newest wish, as long as the update queue has room and no platform
\* edge is applied.
THEOREM HonestReports ==
  Spec /\ []Room /\ [][NoPlatformEdge]_vars => []ReportsHonest
<1>1. /\ UpdatesOrdered /\ FailuresReportedOnce /\ AnnouncedIsTrue
      /\ NewestReconcileWins
      => ReportsHonest
  BY DEF ReportsHonest
<1> QED
  BY <1>1, ReportsInOrder, ReportsAreTrue, NewestWins, PTL
============================================================================
