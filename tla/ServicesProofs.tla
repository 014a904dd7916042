----------------------------- MODULE ServicesProofs ----------------------------
(***************************************************************************)
(* Theorems about the services that surround a session: the transport      *)
(* adapter (VolumeBarrier.tla and HealthProbe.tla), the state file         *)
(* (StateStore.tla), what the backend sees of the world (NetworkView.tla), *)
(* the recovery policy (RetryTimers.tla over ReceiverMachine.tla) and the  *)
(* capture of sound (PcmBridge.tla and CaptureSupervisor.tla), for every   *)
(* set of receivers, levels, documents, bindings, devices and endpoints,   *)
(* every queue capacity, ladder, jitter and length of a tone, any number   *)
(* of passes, commits, generations, commands, flaps, tones and failures    *)
(* and every streak length.                                                *)
(***************************************************************************)
EXTENDS VolumeBarrier, HealthProbe, StateStore, NetworkView, RetryTimers, PcmBridge,
        CaptureSupervisor, SequenceTheorems, FiniteSetTheorems, TLAPS

-----------------------------------------------------------------------------
(* The feed of failed sends and the probe policy.                          *)

HealthSpec == HealthInit /\ [][HealthNext]_healthVars

\* HealthSafe with the types it leaves open: the queue is a sequence of
\* members, so that its head is one.
HealthInv == HealthSafe /\ sends \in Seq(Members)

LEMMA HealthInitially == HealthInit => HealthInv
<1> SUFFICES ASSUME HealthInit PROVE HealthInv
  OBVIOUS
<1>1. sends \in Seq(Members) /\ Len(sends) = 0 /\ DOMAIN sends = {}
  BY EmptySeq DEF HealthInit
<1> QED
  BY <1>1, HealthAssumption
  DEF HealthInit, HealthInv, HealthSafe, HealthTypeOK, GroupRuntimeEventFeed, HealthState,
      GapIsTrue

\* try_publish keeps the capacity, and counts a drop wherever it makes one.
LEMMA PublishSafe ==
  ASSUME HealthInv, NEW r \in Members, TryPublish(r)
  PROVE  /\ sends' \in Seq(Members) /\ Len(sends') <= FeedCapacity
         /\ gap' \in 0..MaxLost /\ gap' = dropped'
<1> USE DEF HealthInv, HealthSafe, HealthTypeOK, GroupRuntimeEventFeed, GapIsTrue
<1>1. CASE Len(sends) < FeedCapacity
  <2>1. sends' = Append(sends, r) /\ gap' = gap /\ dropped' = dropped
    BY <1>1 DEF TryPublish
  <2>2. Len(sends') = Len(sends) + 1 /\ Len(sends) \in Nat /\ sends' \in Seq(Members)
    BY <2>1, AppendProperties, LenProperties
  <2> QED
    BY <2>1, <2>2, <1>1, HealthAssumption
<1>2. CASE ~(Len(sends) < FeedCapacity)
  BY <1>2, HealthAssumption DEF TryPublish, Saturated
<1> QED
  BY <1>1, <1>2

\* A queued sequence of members has members at all its places.
LEMMA FeedElements ==
  ASSUME NEW s \in Seq(Members) PROVE \A i \in DOMAIN s : s[i] \in Members
  BY ElementOfSeq, LenProperties

LEMMA HealthStep == HealthInv /\ [HealthNext]_healthVars => HealthInv'
<1> SUFFICES ASSUME HealthInv, [HealthNext]_healthVars PROVE HealthInv'
  OBVIOUS
<1> USE DEF HealthInv, HealthSafe, HealthTypeOK, GroupRuntimeEventFeed, GapIsTrue
<1>1. CASE GoDark
  BY <1>1 DEF GoDark, HealthState
<1>2. CASE SendFails
  <2>1. PICK r \in Members : TryPublish(r)
    BY <1>2 DEF SendFails
  <2>2. /\ sends' \in Seq(Members) /\ Len(sends') <= FeedCapacity
        /\ gap' \in 0..MaxLost /\ gap' = dropped'
    BY <2>1, PublishSafe
  <2>3. UNCHANGED <<streak, failed, urgent>>
    BY <1>2 DEF SendFails
  <2> QED
    BY <2>2, <2>3, FeedElements DEF HealthState
<1>3. CASE ProbeTick
  BY <1>3 DEF ProbeTick, HealthState
<1>4. CASE DrainStep
  <2>1. UNCHANGED <<streak, failed>>
    BY <1>4 DEF DrainStep
  <2>2. CASE sends # <<>> /\ sends' = Tail(sends) /\ urgent' = urgent \cup {Head(sends)}
             /\ UNCHANGED <<gap, dropped>>
    <3>1. Head(sends) \in Members /\ sends' \in Seq(Members) /\ Len(sends') = Len(sends) - 1
      BY <2>2, HeadTailProperties
    <3>2. Len(sends') <= FeedCapacity
      BY <3>1, LenProperties, HealthAssumption
    <3> QED
      BY <2>1, <2>2, <3>1, <3>2, FeedElements DEF HealthState
  <2>3. CASE gap' = 0 /\ dropped' = 0 /\ UNCHANGED <<sends, urgent>>
    BY <2>1, <2>3, HealthAssumption DEF HealthState
  <2>4. CASE UNCHANGED <<sends, gap, dropped, urgent>>
    BY <2>1, <2>4 DEF HealthState
  <2> QED
    BY <1>4, <2>2, <2>3, <2>4 DEF DrainStep, TryRuntimeEvent
<1>5. CASE DrainLimitReached
  BY <1>5 DEF DrainLimitReached, HealthState
<1>6. CASE ProbeCycle
  <2>1. PICK answer \in [Members -> {"Healthy", "TimedOut", "Error"}] : Classify(answer)
    BY <1>6 DEF ProbeCycle
  <2> DEFINE late == {r \in Members \ failed : answer[r] = "TimedOut"}
             over == {r \in late : streak[r] + 1 >= StreakToFail \/ r \in urgent}
             gone == over \cup {r \in Members \ failed : answer[r] = "Error"}
  <2>2. /\ failed' = failed \cup gone
        /\ streak' = [r \in Members |-> IF r \in late \ gone THEN streak[r] + 1
                                        ELSE IF r \in failed THEN streak[r] ELSE 0]
    BY <2>1 DEF Classify
  <2>3. ASSUME NEW r \in Members PROVE streak'[r] \in 0..(StreakToFail - 1)
    <3>1. streak[r] \in 0..(StreakToFail - 1)
      BY DEF HealthState
    <3>2. CASE r \in late \ gone
      <4>1. ~(streak[r] + 1 >= StreakToFail)
        BY <3>2
      <4> QED
        BY <2>2, <3>1, <3>2, <4>1, HealthAssumption
    <3> QED
      BY <2>2, <3>1, <3>2, HealthAssumption
  <2>4. failed' \subseteq Members /\ urgent' = {}
    BY <2>2, <1>6 DEF ProbeCycle, HealthState
  <2>5. UNCHANGED <<sends, gap, dropped>>
    BY <1>6 DEF ProbeCycle
  <2> QED
    BY <2>2, <2>3, <2>4, <2>5 DEF HealthState
<1>7. CASE UNCHANGED healthVars
  BY <1>7 DEF healthVars, HealthState
<1> QED
  BY <1>1, <1>2, <1>3, <1>4, <1>5, <1>6, <1>7 DEF HealthNext

\* The feed of failed sends stays within its capacity and reports each lost
\* event exactly once, whenever the audio thread publishes and wherever the
\* drain stands; and no member's streak of missed probes reaches
\* TIMEOUT_STREAK_TO_FAIL without failing the member.
THEOREM FeedIsHonest == HealthSpec => []HealthSafe
<1>1. HealthInv => HealthSafe
  BY DEF HealthInv
<1> QED
  BY <1>1, HealthInitially, HealthStep, PTL DEF HealthSpec

-----------------------------------------------------------------------------
(* The levels of a start and of the session it becomes.                    *)

BarrierSpec == BarrierInit /\ [][BarrierNext]_barrierVars

\* What the state of a start is made of, beyond BarrierTypeOK.
BarrierTyped ==
  /\ BarrierTypeOK
  /\ notices \in Seq(Speakers) /\ heard \in [Speakers -> Volumes]

\* A pass that nobody disturbed works from the newest levels, and the members
\* it is done with were set to the levels it works from.
PassIsFaithful ==
  stage \in {"setup", "activating"} =>
    /\ current => snapshot = levels
    /\ \A r \in connected \ todo : heard[r] = snapshot[r]

\* A member of the announced session plays at its newest level, or a request
\* for it is queued, or it is known that nobody will forward it.
LevelsUnderWay ==
  stage = "active" /\ announced =>
    \A r \in connected : heard[r] = levels[r] \/ r \in missed \/ r \in ToSet(notices)

\* BarrierSafe says what holds once the queue is empty; this is what holds while
\* requests are still queued and passes still run.
BarrierInv == BarrierTyped /\ PassIsFaithful /\ LevelsUnderWay

\* Announcing keeps the queue within its capacity, and every receiver it is for
\* is queued or counted as missed.
LEMMA AnnounceSafe ==
  ASSUME NEW queue \in Seq(Speakers), Len(queue) <= VolumeCapacity,
         NEW receivers \in SUBSET Speakers, Announce(queue, receivers)
  PROVE  /\ notices' \in Seq(Speakers) /\ Len(notices') <= VolumeCapacity
         /\ \A r \in receivers : r \in missed' \/ r \in ToSet(notices')
<1> DEFINE room == VolumeCapacity - Len(queue)
           cut(order) == IF room < Len(order) THEN room ELSE Len(order)
           sent(order) == SubSeq(order, 1, cut(order))
<1>1. PICK order \in SetToSeqs(receivers) :
        /\ notices' = queue \o sent(order)
        /\ missed' = (missed \ ToSet(sent(order))) \cup
                     {r \in receivers : ~Notified(queue \o sent(order), r)}
  BY DEF Announce
<1>2. Cardinality(receivers) \in Nat
  BY BarrierAssumption, FS_Subset, FS_CardinalityType
<1>3. order \in [1..Cardinality(receivers) -> Speakers]
  BY DEF SetToSeqs
<1>4. order \in Seq(Speakers) /\ Len(order) \in Nat
  BY <1>2, <1>3, IsASeq, LenProperties
<1>5. Len(queue) \in Nat /\ room \in Nat
  BY LenProperties, BarrierAssumption
<1>6. cut(order) \in Nat /\ cut(order) <= Len(order) /\ cut(order) <= room
  BY <1>4, <1>5
<1>7. sent(order) \in Seq(Speakers) /\ Len(sent(order)) = cut(order)
  BY <1>4, <1>6, SubSeqProperties
<1>8. notices' \in Seq(Speakers) /\ Len(notices') = Len(queue) + cut(order)
  BY <1>1, <1>7, ConcatProperties
<1>9. \A r \in receivers : r \in missed' \/ r \in ToSet(notices')
  BY <1>1 DEF Notified
<1> HIDE DEF cut, sent
<1> QED
  BY <1>5, <1>6, <1>8, <1>9, BarrierAssumption

\* A fresh pass over the connected members starts from the newest levels and
\* has everybody still to set.
LEMMA FreshPass ==
  ASSUME BarrierTyped, NEW members \in SUBSET Speakers, NEW n \in 1..MaxPasses,
         BeginPass(members, n), connected' = members,
         UNCHANGED <<levels, released, heard, notices>>,
         stage' \in {"setup", "activating"}, released => stage' \in {"active", "stopped"}
  PROVE  BarrierInv'
  BY BarrierAssumption
  DEF BarrierInv, BarrierTyped, BarrierTypeOK, EffectiveVolumeState, EffectiveVolumeSnapshot,
      VolumeRequests, AirPlayGroupTransport, PassIsFaithful, LevelsUnderWay, BeginPass

\* A start that leaves its pass keeps the invariant: the gate is open only in
\* the stages of a session, and nothing has been announced before.
LEMMA StartEnded ==
  ASSUME BarrierTyped, NEW s \in {"preparing", "prepared", "failed", "stopped"},
         EndStart(s), UNCHANGED <<levels, connected, released, notices>>,
         heard' \in [Speakers -> Volumes],
         released => s = "stopped"
  PROVE  BarrierInv'
  BY DEF BarrierInv, BarrierTyped, BarrierTypeOK, EffectiveVolumeState,
         EffectiveVolumeSnapshot, VolumeRequests, AirPlayGroupTransport, PassIsFaithful,
         LevelsUnderWay, EndStart, passVars

LEMMA BarrierInitially == BarrierInit => BarrierInv
<1> SUFFICES ASSUME BarrierInit PROVE BarrierInv
  OBVIOUS
<1>1. notices \in Seq(Speakers) /\ Len(notices) = 0
  BY EmptySeq DEF BarrierInit
<1> QED
  BY <1>1, BarrierAssumption
  DEF BarrierInit, BarrierInv, BarrierTyped, BarrierTypeOK, EffectiveVolumeState,
      EffectiveVolumeSnapshot, VolumeRequests, AirPlayGroupTransport, PassIsFaithful,
      LevelsUnderWay

LEMMA BarrierStep == BarrierInv /\ [BarrierNext]_barrierVars => BarrierInv'
<1> SUFFICES ASSUME BarrierInv, [BarrierNext]_barrierVars PROVE BarrierInv'
  OBVIOUS
<1> USE BarrierAssumption
<1>t. /\ BarrierTyped /\ BarrierTypeOK /\ EffectiveVolumeState /\ EffectiveVolumeSnapshot
      /\ VolumeRequests /\ AirPlayGroupTransport /\ PassIsFaithful /\ LevelsUnderWay
      /\ notices \in Seq(Speakers) /\ heard \in [Speakers -> Volumes]
  BY DEF BarrierInv, BarrierTyped, BarrierTypeOK
<1>1. CASE Connect
  <2>1. CASE EndStart("failed") /\ UNCHANGED connected
    BY <1>1, <1>t, <2>1, StartEnded DEF Connect, AirPlayGroupTransport
  <2>2. ASSUME NEW members \in SUBSET Speakers,
               connected' = members, stage' = "setup", BeginPass(members, 1)
        PROVE  BarrierInv'
    BY <1>1, <1>t, <2>2, FreshPass DEF Connect, AirPlayGroupTransport
  <2> QED
    BY <1>1, <2>1, <2>2 DEF Connect
<1>2. CASE SetMemberVolume
  <2>1. PICK r \in todo :
          \/ /\ heard' = [heard EXCEPT ![r] = snapshot[r]] /\ todo' = todo \ {r}
             /\ UNCHANGED <<stage, snapshot, current, pass>>
          \/ heard' \in {heard, [heard EXCEPT ![r] = snapshot[r]]} /\ EndStart("failed")
    BY <1>2 DEF SetMemberVolume
  <2>2. r \in Speakers /\ snapshot[r] \in Volumes
    BY <1>t DEF EffectiveVolumeSnapshot, AirPlayGroupTransport
  <2>3. /\ stage \in {"setup", "activating"} /\ ~released
        /\ UNCHANGED <<levels, connected, released, notices, announced, missed>>
    BY <1>2, <1>t DEF SetMemberVolume, AirPlayGroupTransport
  <2>4. heard' \in [Speakers -> Volumes]
    BY <1>t, <2>1, <2>2
  <2>5. CASE EndStart("failed")
    BY <1>t, <2>3, <2>4, <2>5, StartEnded
  <2>6. CASE /\ heard' = [heard EXCEPT ![r] = snapshot[r]] /\ todo' = todo \ {r}
             /\ UNCHANGED <<stage, snapshot, current, pass>>
    <3>1. PassIsFaithful'
      BY <1>t, <2>2, <2>3, <2>6 DEF PassIsFaithful, EffectiveVolumeSnapshot
    <3>2. LevelsUnderWay'
      BY <2>3, <2>6 DEF LevelsUnderWay
    <3>3. BarrierTyped'
      BY <1>t, <2>3, <2>4, <2>6
      DEF BarrierTyped, BarrierTypeOK, EffectiveVolumeState, EffectiveVolumeSnapshot,
          VolumeRequests, AirPlayGroupTransport
    <3> QED
      BY <3>1, <3>2, <3>3 DEF BarrierInv
  <2> QED
    BY <2>1, <2>5, <2>6
<1>3. CASE SetupPassEnds
  <2>1. CASE EndStart("preparing")
    BY <1>3, <1>t, <2>1, StartEnded DEF SetupPassEnds, AirPlayGroupTransport
  <2>2. CASE pass < MaxPasses /\ BeginPass(connected, pass + 1) /\ UNCHANGED stage
    <3>1. pass + 1 \in 1..MaxPasses
      BY <1>t, <2>2 DEF EffectiveVolumeSnapshot
    <3> QED
      BY <1>3, <1>t, <2>2, <3>1, FreshPass DEF SetupPassEnds, AirPlayGroupTransport
  <2>3. CASE EndStart("failed")
    BY <1>3, <1>t, <2>3, StartEnded DEF SetupPassEnds, AirPlayGroupTransport
  <2> QED
    BY <1>3, <2>1, <2>2, <2>3 DEF SetupPassEnds
<1>4. CASE PrepareAudio
  BY <1>4, <1>t, StartEnded DEF PrepareAudio, AirPlayGroupTransport
<1>5. CASE BeginActivation
  BY <1>5, <1>t, FreshPass DEF BeginActivation, AirPlayGroupTransport
<1>6. CASE ActivationPassEnds
  <2>1. CASE current /\ EndStart("active") /\ released' = TRUE
    <3>1. /\ stage = "activating" /\ todo = {} /\ stage' = "active"
          /\ UNCHANGED <<levels, connected, heard, notices, announced, missed>>
          /\ UNCHANGED <<snapshot, current, todo, pass>>
      BY <1>6, <2>1 DEF ActivationPassEnds, EndStart, passVars
    <3>2. \A r \in connected : heard[r] = levels[r]
      BY <1>t, <2>1, <3>1 DEF PassIsFaithful
    <3>3. LevelsUnderWay' /\ PassIsFaithful'
      BY <3>1, <3>2 DEF LevelsUnderWay, PassIsFaithful
    <3>4. BarrierTyped'
      BY <1>t, <2>1, <3>1
      DEF BarrierTyped, BarrierTypeOK, EffectiveVolumeState, EffectiveVolumeSnapshot,
          VolumeRequests, AirPlayGroupTransport
    <3> QED
      BY <3>3, <3>4 DEF BarrierInv
  <2>2. CASE /\ pass < MaxPasses /\ BeginPass(connected, pass + 1)
             /\ UNCHANGED <<stage, released>>
    <3>1. pass + 1 \in 1..MaxPasses
      BY <1>t, <2>2 DEF EffectiveVolumeSnapshot
    <3> QED
      BY <1>6, <1>t, <2>2, <3>1, FreshPass DEF ActivationPassEnds, AirPlayGroupTransport
  <2>3. CASE EndStart("failed") /\ UNCHANGED released
    BY <1>6, <1>t, <2>3, StartEnded DEF ActivationPassEnds, AirPlayGroupTransport
  <2> QED
    BY <1>6, <2>1, <2>2, <2>3 DEF ActivationPassEnds
<1>7. CASE StopTransport
  BY <1>7, <1>t, StartEnded DEF StopTransport, AirPlayGroupTransport
<1>8. CASE ChangeLevel
  <2>1. PICK q \in Speakers, v \in Volumes : levels' = [levels EXCEPT ![q] = v]
    BY <1>8 DEF ChangeLevel
  <2>2. /\ ~current' /\ levels' \in [Speakers -> Volumes]
        /\ UNCHANGED <<stage, connected, snapshot, todo, pass, released, heard, announced>>
    BY <1>8, <1>t, <2>1 DEF ChangeLevel, EffectiveVolumeState
  <2>3. PassIsFaithful'
    BY <1>t, <2>2 DEF PassIsFaithful
  <2>4. notices' \in Seq(Speakers) /\ Len(notices') <= VolumeCapacity /\ LevelsUnderWay'
    <3>1. CASE announced
      BY <1>8, <1>t, <2>2, <3>1, AnnounceSafe
      DEF ChangeLevel, VolumeRequests, AirPlayGroupTransport, LevelsUnderWay
    <3>2. CASE ~announced
      BY <1>8, <1>t, <2>2, <3>2 DEF ChangeLevel, VolumeRequests, LevelsUnderWay
    <3> QED
      BY <3>1, <3>2
  <2>5. BarrierTyped'
    BY <1>t, <2>2, <2>4
    DEF BarrierTyped, BarrierTypeOK, EffectiveVolumeState, EffectiveVolumeSnapshot,
        VolumeRequests, AirPlayGroupTransport
  <2> QED
    BY <2>3, <2>4, <2>5 DEF BarrierInv
<1>9. CASE TakeActiveEdge
  <2>1. /\ stage = "active" /\ Announce(notices, connected)
        /\ UNCHANGED <<levels, stage, connected, snapshot, current, todo, pass, released, heard>>
    BY <1>9 DEF TakeActiveEdge, passVars
  <2>2. /\ notices' \in Seq(Speakers) /\ Len(notices') <= VolumeCapacity
        /\ \A r \in connected : r \in missed' \/ r \in ToSet(notices')
    BY <1>t, <2>1, AnnounceSafe DEF VolumeRequests, AirPlayGroupTransport
  <2>3. LevelsUnderWay' /\ PassIsFaithful'
    BY <1>t, <2>1, <2>2 DEF LevelsUnderWay, PassIsFaithful
  <2>4. BarrierTyped'
    BY <1>t, <2>1, <2>2
    DEF BarrierTyped, BarrierTypeOK, EffectiveVolumeState, EffectiveVolumeSnapshot,
        VolumeRequests, AirPlayGroupTransport
  <2> QED
    BY <2>3, <2>4 DEF BarrierInv
<1>10. CASE ForwardLevel
  <2> DEFINE h == Head(notices)
  <2>1. /\ stage = "active" /\ notices # <<>> /\ notices' = Tail(notices)
        /\ \/ heard' = [heard EXCEPT ![h] = levels[h]] /\ UNCHANGED missed
           \/ missed' = missed \cup {h} /\ UNCHANGED heard
        /\ UNCHANGED <<levels, stage, connected, snapshot, current, todo, pass, released,
                       announced>>
    BY <1>10 DEF ForwardLevel, passVars
  <2>2. /\ h \in Speakers /\ notices' \in Seq(Speakers) /\ Len(notices') = Len(notices) - 1
        /\ \A i \in 1..Len(notices) : i = 1 \/ notices[i] = notices'[i - 1]
        /\ Len(notices) \in Nat /\ h = notices[1]
    BY <1>t, <2>1, HeadTailProperties, LenProperties
  <2>3. \A r \in ToSet(notices) : r = h \/ r \in ToSet(notices')
    <3> SUFFICES ASSUME NEW i \in 1..Len(notices), i # 1
                 PROVE  notices[i] \in ToSet(notices')
      BY <1>t, <2>2, LenProperties DEF ToSet
    <3>1. i - 1 \in 1..Len(notices') /\ DOMAIN notices' = 1..Len(notices')
      BY <2>2, LenProperties
    <3> QED
      BY <2>2, <3>1 DEF ToSet
  <2>4. levels[h] \in Volumes /\ heard' \in [Speakers -> Volumes]
    BY <1>t, <2>1, <2>2 DEF EffectiveVolumeState
  <2> HIDE DEF h
  <2>5. LevelsUnderWay' /\ PassIsFaithful'
    BY <1>t, <2>1, <2>2, <2>3 DEF LevelsUnderWay, PassIsFaithful, AirPlayGroupTransport
  <2>6. Len(notices') <= VolumeCapacity
    BY <1>t, <2>2 DEF VolumeRequests
  <2>7. BarrierTyped'
    BY <1>t, <2>1, <2>2, <2>4, <2>6
    DEF BarrierTyped, BarrierTypeOK, EffectiveVolumeState, EffectiveVolumeSnapshot,
        VolumeRequests, AirPlayGroupTransport
  <2> QED
    BY <2>5, <2>7 DEF BarrierInv
<1>11. CASE UNCHANGED barrierVars
  BY <1>11, <1>t
  DEF barrierVars, BarrierInv, BarrierTyped, BarrierTypeOK, EffectiveVolumeState,
      EffectiveVolumeSnapshot, VolumeRequests, AirPlayGroupTransport, PassIsFaithful,
      LevelsUnderWay
<1> QED
  BY <1>1, <1>2, <1>3, <1>4, <1>5, <1>6, <1>7, <1>8, <1>9, <1>10, <1>11 DEF BarrierNext

\* The passes stay within INITIAL_VOLUME_MAX_PASSES and the request queue within
\* its capacity, and once the announced session has no request left every member
\* plays at its newest level, except one whose request was refused or failed.
THEOREM LevelsAreKept == BarrierSpec => []BarrierSafe
<1>1. BarrierInv => BarrierSafe
  <2> SUFFICES ASSUME BarrierInv PROVE LevelsArrive
    BY DEF BarrierInv, BarrierTyped, BarrierSafe
  <2>1. notices = <<>> => ToSet(notices) = {}
    BY DEF ToSet
  <2> QED
    BY <2>1 DEF BarrierInv, LevelsUnderWay, LevelsArrive
<1> QED
  BY <1>1, BarrierInitially, BarrierStep, PTL DEF BarrierSpec

\* release_if_current: whatever sliders move while a start runs, the step that
\* opens the audio gate leaves every member at its newest level.
THEOREM GateOpensAtSavedLevel == BarrierSpec => ReleasedAtSavedLevel
<1>1. BarrierInv /\ [BarrierNext]_barrierVars =>
        [~released /\ released' => \A r \in connected' : heard'[r] = levels'[r]]_barrierVars
  <2> SUFFICES ASSUME BarrierInv, BarrierNext, ~released, released'
               PROVE  \A r \in connected' : heard'[r] = levels'[r]
    BY DEF barrierVars
  <2>1. ActivationPassEnds
    BY DEF BarrierNext, Connect, SetMemberVolume, SetupPassEnds, PrepareAudio,
           BeginActivation, StopTransport, ChangeLevel, TakeActiveEdge, ForwardLevel
  <2>2. /\ stage = "activating" /\ todo = {} /\ current
        /\ UNCHANGED <<levels, connected, heard>>
    BY <2>1 DEF ActivationPassEnds
  <2> QED
    BY <2>2 DEF BarrierInv, PassIsFaithful
<1> QED
  BY <1>1, BarrierInitially, BarrierStep, PTL DEF BarrierSpec, ReleasedAtSavedLevel


StoreSpec == StoreInit /\ [][StoreNext]_storeVars

-----------------------------------------------------------------------------
(* The inductive invariant.                                                *)

\* The write under way: it carries a document, belongs to a running process,
\* and the temporary file holds all of it by the time it replaces the state.
WriteInOrder ==
  \/ write = NoWrite /\ process # "migrating"
  \/ /\ write \in [stage : {"create", "fill", "replace", "ack"},
                   of : {"save", "calibration", "migration"}, doc : Documents]
     /\ process = IF write.of = "migration" THEN "migrating" ELSE "up"
     /\ write.stage = "replace" => tmp = write.doc
     /\ write.stage = "ack" => file = write.doc

\* The history variables hold a value of the preferences and one of the
\* calibration, and the state file never holds half a document.
FileWhole == file # Torn /\ acked \in Bases \X Calibrations /\ limbo \in Bases \X Calibrations

\* Bytes a launch cannot use are in the state file only until a launch meets
\* them: no write can replace them, and they were noted when they appeared.
UnusableIsNoted ==
  /\ file \in Bad => process \in {"down", "refused"} /\ file \in damaged
  /\ \A d \in damaged \ {Absent} : d \in quarantine \/ (d = file /\ d \in Bad)

\* Where the value on disk stands while the process runs: acknowledged, until
\* the replacement; the one being written, until the acknowledgement.
OnDisk ==
  damaged = {} =>
    /\ ValueOf(file) \in {acked, limbo}
    /\ process \in {"loading", "up", "migrating"} =>
         /\ (write = NoWrite => ValueOf(file) = acked /\ limbo = acked)
         /\ (write # NoWrite =>
               /\ limbo = ValueOf(write.doc)
               /\ write.stage # "ack" => ValueOf(file) = acked
               /\ write.of = "calibration" => limbo[1] = acked[1]
               /\ write.of = "migration" => limbo = acked)
         /\ persisted = acked[1]
         /\ process # "migrating" /\ file = Absent => Legacy = Default

StoreInv == FileStore /\ LoadOutcome /\ WriteInOrder /\ FileWhole /\ UnusableIsNoted /\ OnDisk

-----------------------------------------------------------------------------
(* Documents and what a launch makes of them.                              *)

\* The kinds of content are told apart by their first field.
LEMMA DocumentFacts ==
  /\ \A b \in Bases : V1(b) \in Documents /\ V1(b).base = b /\ V1(b).kind = "v1"
  /\ \A b \in Bases, c \in Calibrations :
       /\ V2(b, c) \in Documents /\ V2(b, c).base = b /\ V2(b, c).cal = c
       /\ V2(b, c).kind = "v2"
  /\ \A d \in Documents :
       d.base \in Bases /\ d.cal \in Calibrations /\ d.kind \in {"v1", "v2"}
  /\ Absent \notin Documents /\ Torn \notin Documents /\ Absent # Torn
  /\ Absent \notin Bad /\ Torn \notin Bad /\ Bad \cap Documents = {}
  /\ Invalid \in Bad
  /\ \A d \in Contents : d.kind = "v2" => d \in Documents
  /\ Documents \subseteq Contents /\ Bad \subseteq Contents
  /\ Absent \in Contents /\ Torn \in Contents
<1>0. \A b \in Bases, c \in Calibrations : V2(b, c) \in Documents
  <2> SUFFICES ASSUME NEW x \in Bases, NEW y \in Calibrations PROVE V2(x, y) \in Documents
    OBVIOUS
  <2>1. V2(x, y) \in {V2(b, c) : b \in Bases, c \in Calibrations}
    OBVIOUS
  <2> QED
    BY <2>1 DEF Documents
<1> USE StoreAssumption DEF Doc, V1, V2, Absent, Torn, Invalid
<1>1. \A b \in Bases : V1(b) \in Documents /\ V1(b).base = b /\ V1(b).kind = "v1"
  BY DEF Documents
<1>2. \A b \in Bases, c \in Calibrations :
        /\ V2(b, c) \in Documents /\ V2(b, c).base = b /\ V2(b, c).cal = c
        /\ V2(b, c).kind = "v2"
  <2>1. \A b \in Bases, c \in Calibrations :
          V2(b, c).base = b /\ V2(b, c).cal = c /\ V2(b, c).kind = "v2"
    OBVIOUS
  <2> QED
    BY <1>0, <2>1, Zenon
<1>3. \A d \in Documents :
        d.base \in Bases /\ d.cal \in Calibrations /\ d.kind \in {"v1", "v2"}
  BY DEF Documents
<1>4. \A d \in Bad : d.kind \in {"unknown_version", "malformed_v2", "unrecognizable", "invalid"}
  BY DEF Bad
<1>5. Absent.kind = "absent" /\ Torn.kind = "torn"
  OBVIOUS
<1>6. Invalid \in Bad
  BY DEF Bad
<1> HIDE DEF Doc, V1, V2, Absent, Torn, Invalid
<1>7. /\ Absent \notin Documents /\ Torn \notin Documents /\ Absent # Torn
      /\ Absent \notin Bad /\ Torn \notin Bad /\ Bad \cap Documents = {}
  BY <1>3, <1>4, <1>5
<1>8. \A d \in Contents : d.kind = "v2" => d \in Documents
  BY <1>4, <1>5 DEF Contents
<1>9. /\ Documents \subseteq Contents /\ Bad \subseteq Contents
      /\ Absent \in Contents /\ Torn \in Contents
  BY DEF Contents
<1> QED
  BY <1>1, <1>2, <1>3, <1>6, <1>7, <1>8, <1>9

\* A launch reads preferences and a calibration whatever the file holds, and
\* from a document or an absent file it reads what is there.
LEMMA ValueFacts ==
  /\ \A d \in Contents : ValueOf(d) \in Bases \X Calibrations
  /\ \A d : ValueOf(d)[1] = BaseOf(d) /\ ValueOf(d)[2] = CalOf(d)
  /\ \A d \in Documents : BaseOf(d) = d.base
  /\ ValueOf(Absent) = <<Legacy, NoCalibration>>
  /\ \A b \in Bases : ValueOf(V1(b)) = <<b, NoCalibration>>
  /\ \A b \in Bases, c \in Calibrations : ValueOf(V2(b, c)) = <<b, c>>
<1> USE StoreAssumption, DocumentFacts
<1>1. \A d \in Contents : BaseOf(d) \in Bases
  BY DEF BaseOf
<1>2. \A d \in Contents : CalOf(d) \in Calibrations
  BY DEF CalOf
<1>3. \A d \in Documents : BaseOf(d) = d.base
  BY DEF BaseOf
<1>4. BaseOf(Absent) = Legacy /\ CalOf(Absent) = NoCalibration
  BY DEF BaseOf, CalOf
<1>5. \A b \in Bases : BaseOf(V1(b)) = b /\ CalOf(V1(b)) = NoCalibration
  BY <1>3 DEF CalOf
<1>6. \A b \in Bases, c \in Calibrations : BaseOf(V2(b, c)) = b /\ CalOf(V2(b, c)) = c
  BY <1>3 DEF CalOf
<1>7. \A d : ValueOf(d) = <<BaseOf(d), CalOf(d)>>
  BY DEF ValueOf
<1>8. \A d : ValueOf(d)[1] = BaseOf(d) /\ ValueOf(d)[2] = CalOf(d)
  BY <1>7
<1> QED
  BY <1>1, <1>2, <1>3, <1>4, <1>5, <1>6, <1>7, <1>8

\* An ordinary save takes the calibration on disk along.
LEMMA CarriedFacts ==
  ASSUME file \in Contents, NEW b \in Bases
  PROVE  Carried(b) \in Documents /\ ValueOf(Carried(b)) = <<b, CalOf(file)>>
<1>1. CASE file.kind = "v2"
  <2>1. file \in Documents /\ file.cal \in Calibrations /\ CalOf(file) = file.cal
    BY <1>1, DocumentFacts DEF CalOf
  <2> QED
    BY <1>1, <2>1, DocumentFacts, ValueFacts DEF Carried
<1>2. CASE file.kind # "v2"
  BY <1>2, DocumentFacts, ValueFacts DEF Carried, CalOf
<1> QED
  BY <1>1, <1>2

\* A calibration is saved with the preferences on disk, or the defaults.
LEMMA MergeFacts ==
  ASSUME file \in Contents, NEW c \in Calibrations
  PROVE  /\ Merge(c) \in Documents
         /\ file \in Documents => ValueOf(Merge(c)) = <<BaseOf(file), c>>
         /\ file \notin Documents => ValueOf(Merge(c)) = <<Default, c>>
<1>1. CASE file \in Documents
  BY <1>1, DocumentFacts, ValueFacts DEF Merge
<1>2. CASE file \notin Documents
  BY <1>2, StoreAssumption, DocumentFacts, ValueFacts DEF Merge
<1> QED
  BY <1>1, <1>2

\* No write under way is no write, whatever a write carries.
LEMMA WriteFacts ==
  /\ NoWrite.stage = "none" /\ NoWrite.of = "nothing"
  /\ \A of \in {"save", "calibration", "migration"}, d \in Documents :
       /\ Begin(of, d) \in [stage : {"create", "fill", "replace", "ack"},
                            of : {"save", "calibration", "migration"}, doc : Documents]
       /\ Begin(of, d).stage = "create" /\ Begin(of, d).of = of /\ Begin(of, d).doc = d
       /\ Begin(of, d) # NoWrite
<1>1. NoWrite.stage = "none" /\ NoWrite.of = "nothing"
  BY DEF NoWrite
<1>2. \A of \in {"save", "calibration", "migration"}, d \in Documents :
        /\ Begin(of, d) \in [stage : {"create", "fill", "replace", "ack"},
                             of : {"save", "calibration", "migration"}, doc : Documents]
        /\ Begin(of, d).stage = "create" /\ Begin(of, d).of = of /\ Begin(of, d).doc = d
  BY DEF Begin
<1> QED
  BY <1>1, <1>2

-----------------------------------------------------------------------------
(* The invariant is one.                                                   *)

LEMMA StoreInitially == StoreInit => StoreInv
<1> SUFFICES ASSUME StoreInit PROVE StoreInv
  OBVIOUS
<1>1. acked \in Bases \X Calibrations /\ limbo = acked
  BY ValueFacts, DocumentFacts DEF StoreInit
<1> QED
  BY <1>1, StoreAssumption, DocumentFacts
  DEF StoreInit, StoreInv, FileStore, LoadOutcome, WriteInOrder, FileWhole, UnusableIsNoted,
      OnDisk

LEMMA StoreStep == StoreInv /\ [StoreNext]_storeVars => StoreInv'
<1> SUFFICES ASSUME StoreInv, [StoreNext]_storeVars PROVE StoreInv'
  OBVIOUS
<1> USE StoreAssumption, DocumentFacts, WriteFacts
<1>t. FileStore /\ LoadOutcome /\ WriteInOrder /\ FileWhole /\ UnusableIsNoted /\ OnDisk
  BY DEF StoreInv
<1>v. ValueOf(file) \in Bases \X Calibrations /\ ValueOf(Absent) \in Bases \X Calibrations
  BY <1>t, ValueFacts DEF FileStore
<1>1. CASE LoadDocument
  <2>1. FileStore' /\ LoadOutcome'
    BY <1>1, <1>t DEF LoadDocument, FileStore, LoadOutcome
  <2>2. WriteInOrder' /\ FileWhole' /\ UnusableIsNoted'
    BY <1>1, <1>t, <1>v
    DEF LoadDocument, Found, WriteInOrder, FileWhole, UnusableIsNoted
  <2>3. OnDisk'
    BY <1>1, <1>t, <1>v, ValueFacts DEF LoadDocument, Found, WriteInOrder, OnDisk
  <2> QED
    BY <2>1, <2>2, <2>3 DEF StoreInv
<1>2. CASE LoadCorrupt
  <2>1. FileStore' /\ LoadOutcome'
    BY <1>2, <1>t DEF LoadCorrupt, QuarantineCorrupt, FileStore, LoadOutcome
  <2>2. WriteInOrder' /\ FileWhole' /\ UnusableIsNoted'
    BY <1>2, <1>t, <1>v
    DEF LoadCorrupt, QuarantineCorrupt, Found, WriteInOrder, FileWhole, UnusableIsNoted
  <2>3. OnDisk'
    BY <1>2 DEF LoadCorrupt, OnDisk
  <2> QED
    BY <2>1, <2>2, <2>3 DEF StoreInv
<1>3. CASE LoadRefused
  <2>1. FileStore' /\ LoadOutcome' /\ WriteInOrder' /\ FileWhole' /\ UnusableIsNoted'
    BY <1>3, <1>t
    DEF LoadRefused, memory, history, FileStore, LoadOutcome, WriteInOrder, FileWhole,
        UnusableIsNoted
  <2>2. OnDisk'
    BY <1>3, <1>t DEF LoadRefused, memory, history, OnDisk
  <2> QED
    BY <2>1, <2>2 DEF StoreInv
<1>4. CASE LoadMissing
  <2>1. FileStore' /\ LoadOutcome'
    BY <1>4, <1>t DEF LoadMissing, FileStore, LoadOutcome
  <2>2. WriteInOrder' /\ FileWhole' /\ UnusableIsNoted'
    BY <1>4, <1>t, <1>v DEF LoadMissing, Found, WriteInOrder, FileWhole, UnusableIsNoted
  <2>3. OnDisk'
    <3>1. /\ acked' = ValueOf(Absent) /\ limbo' = ValueOf(Absent) /\ file' = Absent
          /\ persisted' = Legacy
      BY <1>4 DEF LoadMissing, Found
    <3>2. CASE Legacy = Default
      BY <1>4, <1>t, <3>1, <3>2, ValueFacts DEF LoadMissing, WriteInOrder, OnDisk
    <3>3. CASE Legacy # Default
      <4>1. process' = "migrating" /\ write' = Begin("migration", V1(Legacy))
        BY <1>4, <3>3 DEF LoadMissing
      <4>2. /\ write' # NoWrite /\ write'.stage = "create" /\ write'.of = "migration"
            /\ write'.doc = V1(Legacy)
        BY <4>1
      <4> QED
        BY <3>1, <4>1, <4>2, ValueFacts DEF OnDisk
    <3> QED
      BY <3>2, <3>3
  <2> QED
    BY <2>1, <2>2, <2>3 DEF StoreInv
<1>5. CASE LoadCalibration
  <2>1. CalOf(file) \in Calibrations
    BY <1>t DEF CalOf
  <2>2. FileStore' /\ LoadOutcome' /\ WriteInOrder' /\ FileWhole' /\ UnusableIsNoted'
    BY <1>5, <1>t, <2>1
    DEF LoadCalibration, history, FileStore, LoadOutcome, WriteInOrder, FileWhole,
        UnusableIsNoted
  <2>3. OnDisk'
    BY <1>5, <1>t DEF LoadCalibration, history, OnDisk
  <2> QED
    BY <2>2, <2>3 DEF StoreInv
<1>6. CASE Save
  <2>1. PICK b \in Bases : write' = Begin("save", Carried(b)) /\ limbo' = <<b, acked[2]>>
    BY <1>6 DEF Save
  <2>2. /\ process = "up" /\ write = NoWrite
        /\ UNCHANGED <<file, tmp, quarantine, process, persisted, calibration, acked, damaged>>
    BY <1>6 DEF Save, CanCommit, memory
  <2>3. Carried(b) \in Documents /\ ValueOf(Carried(b)) = <<b, CalOf(file)>>
    BY <1>t, CarriedFacts DEF FileStore
  <2>4. FileStore' /\ LoadOutcome' /\ WriteInOrder' /\ FileWhole' /\ UnusableIsNoted'
    BY <1>t, <2>1, <2>2, <2>3
    DEF FileStore, LoadOutcome, WriteInOrder, FileWhole, UnusableIsNoted
  <2>5. ASSUME damaged = {} PROVE limbo' = ValueOf(Carried(b))
    BY <1>t, <2>1, <2>2, <2>3, <2>5, ValueFacts DEF OnDisk
  <2>6. /\ write' # NoWrite /\ write'.stage = "create" /\ write'.of = "save"
        /\ write'.doc = Carried(b)
    BY <2>1, <2>3
  <2>7. OnDisk'
    BY <1>t, <2>2, <2>5, <2>6 DEF OnDisk
  <2> QED
    BY <2>4, <2>7 DEF StoreInv
<1>7. CASE SaveCalibration
  <2>1. PICK c \in Calibrations :
          write' = Begin("calibration", Merge(c)) /\ limbo' = <<acked[1], c>>
    BY <1>7 DEF SaveCalibration
  <2>2. /\ process = "up" /\ write = NoWrite
        /\ UNCHANGED <<file, tmp, quarantine, process, persisted, calibration, acked, damaged>>
    BY <1>7 DEF SaveCalibration, CanCommit, memory
  <2>3. /\ Merge(c) \in Documents
        /\ file \in Documents => ValueOf(Merge(c)) = <<BaseOf(file), c>>
        /\ file \notin Documents => ValueOf(Merge(c)) = <<Default, c>>
    BY <1>t, MergeFacts DEF FileStore
  <2>4. FileStore' /\ LoadOutcome' /\ WriteInOrder' /\ FileWhole' /\ UnusableIsNoted'
    BY <1>t, <2>1, <2>2, <2>3
    DEF FileStore, LoadOutcome, WriteInOrder, FileWhole, UnusableIsNoted
  <2>5. ASSUME damaged = {} PROVE limbo' = ValueOf(Merge(c))
    <3>1. acked[1] = BaseOf(file)
      BY <1>t, <2>2, <2>5, ValueFacts DEF OnDisk
    <3>2. CASE file \in Documents
      BY <2>1, <2>3, <3>1, <3>2
    <3>3. CASE file \notin Documents
      <4>1. file = Absent
        BY <1>t, <2>2, <3>3 DEF FileStore, Contents, FileWhole, UnusableIsNoted
      <4>2. BaseOf(file) = Legacy /\ Legacy = Default
        BY <1>t, <2>2, <2>5, <4>1, ValueFacts DEF OnDisk, BaseOf
      <4> QED
        BY <2>1, <2>3, <3>1, <3>3, <4>2
    <3> QED
      BY <3>2, <3>3
  <2>6. /\ write' # NoWrite /\ write'.stage = "create" /\ write'.of = "calibration"
        /\ write'.doc = Merge(c)
    BY <2>1, <2>3
  <2>7. limbo'[1] = acked[1]
    BY <2>1
  <2>8. OnDisk'
    BY <1>t, <2>2, <2>5, <2>6, <2>7 DEF OnDisk
  <2> QED
    BY <2>4, <2>8 DEF StoreInv
<1>8. CASE SaveCannotRead
  BY <1>8, <1>t
  DEF SaveCannotRead, CanCommit, memory, history, StoreInv, FileStore, LoadOutcome,
      WriteInOrder, FileWhole, UnusableIsNoted, OnDisk
<1>w. ASSUME write.stage \in {"create", "fill", "replace", "ack"}
      PROVE  /\ write # NoWrite
             /\ write \in [stage : {"create", "fill", "replace", "ack"},
                           of : {"save", "calibration", "migration"}, doc : Documents]
             /\ process = IF write.of = "migration" THEN "migrating" ELSE "up"
             /\ write.stage = "replace" => tmp = write.doc
             /\ write.stage = "ack" => file = write.doc
             /\ file \notin Bad
  BY <1>t, <1>w DEF WriteInOrder, UnusableIsNoted
<1>9. CASE CreateTemporary
  <2>1. /\ write.stage = "create" /\ write' = [write EXCEPT !.stage = "fill"]
        /\ tmp' = Torn
        /\ UNCHANGED <<file, quarantine, process, persisted, calibration, acked, limbo, damaged>>
    BY <1>9 DEF CreateTemporary, memory, history
  <2>2. /\ write' \in [stage : {"create", "fill", "replace", "ack"},
                       of : {"save", "calibration", "migration"}, doc : Documents]
        /\ write'.stage = "fill" /\ write'.of = write.of /\ write'.doc = write.doc
        /\ write' # NoWrite
    BY <1>w, <2>1
  <2>3. FileStore' /\ LoadOutcome' /\ WriteInOrder' /\ FileWhole' /\ UnusableIsNoted'
    BY <1>t, <1>w, <2>1, <2>2
    DEF FileStore, LoadOutcome, WriteInOrder, FileWhole, UnusableIsNoted
  <2>4. OnDisk'
    BY <1>t, <1>w, <2>1, <2>2 DEF OnDisk
  <2> QED
    BY <2>3, <2>4 DEF StoreInv
<1>10. CASE FillTemporary
  <2>1. /\ write.stage = "fill" /\ write' = [write EXCEPT !.stage = "replace"]
        /\ tmp' = write.doc
        /\ UNCHANGED <<file, quarantine, process, persisted, calibration, acked, limbo, damaged>>
    BY <1>10 DEF FillTemporary, memory, history
  <2>2. /\ write' \in [stage : {"create", "fill", "replace", "ack"},
                       of : {"save", "calibration", "migration"}, doc : Documents]
        /\ write'.stage = "replace" /\ write'.of = write.of /\ write'.doc = write.doc
        /\ write' # NoWrite /\ write.doc \in Documents
    BY <1>w, <2>1
  <2>3. FileStore' /\ LoadOutcome' /\ WriteInOrder' /\ FileWhole' /\ UnusableIsNoted'
    BY <1>t, <1>w, <2>1, <2>2
    DEF FileStore, LoadOutcome, WriteInOrder, FileWhole, UnusableIsNoted
  <2>4. OnDisk'
    BY <1>t, <1>w, <2>1, <2>2 DEF OnDisk
  <2> QED
    BY <2>3, <2>4 DEF StoreInv
<1>11. CASE Replace
  <2>1. /\ write.stage = "replace" /\ write' = [write EXCEPT !.stage = "ack"]
        /\ file' = tmp /\ tmp' = Absent
        /\ UNCHANGED <<quarantine, process, persisted, calibration, acked, limbo, damaged>>
    BY <1>11 DEF Replace, memory, history
  <2>2. /\ write' \in [stage : {"create", "fill", "replace", "ack"},
                       of : {"save", "calibration", "migration"}, doc : Documents]
        /\ write'.stage = "ack" /\ write'.of = write.of /\ write'.doc = write.doc
        /\ write' # NoWrite /\ write.doc \in Documents /\ file' = write.doc
    BY <1>w, <2>1
  <2>3. FileStore' /\ LoadOutcome' /\ WriteInOrder' /\ FileWhole' /\ UnusableIsNoted'
    BY <1>t, <1>w, <2>1, <2>2
    DEF FileStore, LoadOutcome, WriteInOrder, FileWhole, UnusableIsNoted
  <2>4. OnDisk'
    BY <1>t, <1>w, <2>1, <2>2 DEF OnDisk
  <2> QED
    BY <2>3, <2>4 DEF StoreInv
<1>12. CASE WriteFails
  <2>1. /\ write.stage \in {"create", "fill", "replace"}
        /\ write' = NoWrite /\ process' = AfterWrite /\ limbo' = acked
        /\ tmp' \in {Absent, tmp}
        /\ damaged' = damaged \cup (IF write.of = "migration" THEN {Absent} ELSE {})
        /\ UNCHANGED <<file, quarantine, persisted, calibration, acked>>
    BY <1>12 DEF WriteFails, memory
  <2>2. process' \in {"loading", "up"}
    BY <1>w, <2>1 DEF AfterWrite
  <2>3. FileStore' /\ LoadOutcome' /\ WriteInOrder' /\ FileWhole' /\ UnusableIsNoted'
    BY <1>t, <1>w, <2>1, <2>2
    DEF FileStore, LoadOutcome, WriteInOrder, FileWhole, UnusableIsNoted
  <2>4. OnDisk'
    <3> SUFFICES ASSUME damaged' = {} PROVE OnDisk'
      BY DEF OnDisk
    <3>1. damaged = {} /\ write.of # "migration"
      <4>1. damaged \subseteq damaged' /\ (write.of = "migration" => Absent \in damaged')
        BY <2>1
      <4> QED BY <4>1
    <3>2. process = "up" /\ process' = "up"
      BY <1>w, <2>1, <3>1 DEF AfterWrite
    <3> QED
      BY <1>t, <1>w, <2>1, <3>1, <3>2 DEF OnDisk
  <2> QED
    BY <2>3, <2>4 DEF StoreInv
<1>13. CASE Acknowledge
  <2>1. /\ write.stage = "ack" /\ write' = NoWrite /\ process' = AfterWrite
        /\ acked' = limbo
        /\ persisted' = IF write.of = "save" THEN write.doc.base ELSE persisted
        /\ calibration' = IF write.of = "calibration" THEN write.doc.cal ELSE calibration
        /\ UNCHANGED <<file, tmp, quarantine, limbo, damaged>>
    BY <1>13 DEF Acknowledge
  <2>2. process' \in {"loading", "up"}
    BY <1>w, <2>1 DEF AfterWrite
  <2>3. file = write.doc /\ write.doc \in Documents
    BY <1>w, <2>1
  <2>4. FileStore' /\ LoadOutcome' /\ WriteInOrder' /\ FileWhole' /\ UnusableIsNoted'
    BY <1>t, <1>w, <2>1, <2>2, <2>3
    DEF FileStore, LoadOutcome, WriteInOrder, FileWhole, UnusableIsNoted
  <2>5. ASSUME damaged = {} PROVE ValueOf(file) = limbo /\ persisted' = limbo[1]
    <3>1. ValueOf(file) = limbo /\ limbo[1] = write.doc.base
      BY <1>t, <1>w, <2>1, <2>3, <2>5, ValueFacts DEF OnDisk
    <3>2. write.of # "save" => limbo[1] = acked[1] /\ persisted = acked[1]
      BY <1>t, <1>w, <2>1, <2>5 DEF OnDisk
    <3> QED
      BY <2>1, <3>1, <3>2
  <2>6. OnDisk'
    BY <2>1, <2>2, <2>3, <2>5 DEF OnDisk
  <2> QED
    BY <2>4, <2>6 DEF StoreInv
<1>14. CASE Crash
  BY <1>14, <1>t
  DEF Crash, memory, history, StoreInv, FileStore, LoadOutcome, WriteInOrder, FileWhole,
      UnusableIsNoted, OnDisk
<1>15. CASE Quit
  BY <1>15, <1>t
  DEF Quit, memory, history, StoreInv, FileStore, LoadOutcome, WriteInOrder, FileWhole,
      UnusableIsNoted, OnDisk
<1>16. CASE ForeignDocument
  <2>1. PICK d \in Bad : file' = d /\ damaged' = damaged \cup {d}
    BY <1>16 DEF ForeignDocument
  <2>2. /\ process = "down" /\ file \notin Bad
        /\ UNCHANGED <<tmp, quarantine, process, persisted, calibration, write, acked, limbo>>
    BY <1>16 DEF ForeignDocument, memory, history
  <2> QED
    BY <1>t, <2>1, <2>2
    DEF StoreInv, FileStore, LoadOutcome, WriteInOrder, FileWhole, UnusableIsNoted, OnDisk
<1>17. CASE UNCHANGED storeVars
  BY <1>17, <1>t
  DEF storeVars, StoreInv, FileStore, LoadOutcome, WriteInOrder, FileWhole,
      UnusableIsNoted, OnDisk
<1> QED
  BY <1>1, <1>2, <1>3, <1>4, <1>5, <1>6, <1>7, <1>8, <1>9, <1>10, <1>11, <1>12, <1>13, <1>14,
     <1>15, <1>16, <1>17
  DEF StoreNext

\* Whatever a launch, a save, a calibration save or a migration was doing when
\* the process died or a call failed, and however often: the state file holds a
\* whole document with what was acknowledged last or was being saved then,
\* preferences and calibration both; the running process announces what is on
\* disk; and bytes a launch could not use are never overwritten or deleted.
THEOREM StoreSurvives == StoreSpec => []StoreSafe
<1>1. StoreInv => StoreSafe
  <2> SUFFICES ASSUME StoreInv PROVE AckedSurvives /\ MemoryIsDurable /\ EvidenceKept
    BY DEF StoreInv, StoreSafe
  <2>1. AckedSurvives
    BY DEF StoreInv, OnDisk, FileWhole, AckedSurvives
  <2>2. MemoryIsDurable
    BY ValueFacts DEF StoreInv, OnDisk, MemoryIsDurable
  <2>3. EvidenceKept
    BY DEF StoreInv, UnusableIsNoted, EvidenceKept
  <2> QED
    BY <2>1, <2>2, <2>3
<1> QED
  BY <1>1, StoreInitially, StoreStep, PTL DEF StoreSpec

-----------------------------------------------------------------------------
(* What is under way in a queue.  T is what changes a value, W what gives  *)
(* it the right one; the value has it now, x \in N, or its last change     *)
(* under way gives it.                                                     *)

Arrives(q, T, W, x, N) ==
  \/ x \in N /\ \A i \in 1 .. Len(q) : q[i] \notin T
  \/ \E k \in 1 .. Len(q) : q[k] \in W /\ \A j \in 1 .. Len(q) : j > k => q[j] \notin T

LEMMA ArrivesEmpty ==
  ASSUME NEW T, NEW W, NEW x, NEW N, Arrives(<<>>, T, W, x, N) PROVE x \in N
BY DEF Arrives

LEMMA ArrivesSilent ==
  ASSUME NEW S, NEW q \in Seq(S), NEW e \in S, NEW T, NEW W, NEW x, NEW N,
         Arrives(q, T, W, x, N), e \notin T
  PROVE  Arrives(Append(q, e), T, W, x, N)
<1> DEFINE n == Append(q, e)
<1>1. Len(q) \in Nat /\ Len(n) = Len(q) + 1 /\ n[Len(q) + 1] = e /\ \A i \in 1 .. Len(q) : n[i] = q[i]
  BY AppendProperties, LenProperties
<1> HIDE DEF n
<1>2. ASSUME NEW i \in 1 .. Len(n), NEW k \in 0 .. Len(q), i > k,
             \A j \in 1 .. Len(q) : j > k => q[j] \notin T
      PROVE  n[i] \notin T
  <2>1. CASE i = Len(q) + 1
    BY <1>1, <2>1
  <2>2. CASE i \in 1 .. Len(q)
    BY <1>1, <1>2, <2>2
  <2> QED
    BY <1>1, <2>1, <2>2
<1>3. CASE x \in N /\ \A i \in 1 .. Len(q) : q[i] \notin T
  <2>1. \A i \in 1 .. Len(n) : n[i] \notin T
    BY <1>1, <1>2, <1>3
  <2> QED
    BY <1>3, <2>1 DEF Arrives, n
<1>4. ASSUME NEW k \in 1 .. Len(q), q[k] \in W, \A j \in 1 .. Len(q) : j > k => q[j] \notin T
      PROVE  Arrives(n, T, W, x, N)
  <2>1. k \in 1 .. Len(n) /\ n[k] \in W
    BY <1>1, <1>4
  <2>2. \A j \in 1 .. Len(n) : j > k => n[j] \notin T
    BY <1>1, <1>2, <1>4
  <2> QED
    BY <2>1, <2>2 DEF Arrives
<1> QED
  BY <1>3, <1>4 DEF Arrives, n

LEMMA ArrivesNow ==
  ASSUME NEW S, NEW q \in Seq(S), NEW T, NEW W, NEW e \in W, NEW x, NEW N, e \in S
  PROVE  Arrives(Append(q, e), T, W, x, N)
<1> DEFINE n == Append(q, e)
<1>1. Len(q) \in Nat /\ Len(n) = Len(q) + 1 /\ n[Len(q) + 1] = e
  BY AppendProperties, LenProperties
<1> HIDE DEF n
<1>2. Len(q) + 1 \in 1 .. Len(n) /\ \A j \in 1 .. Len(n) : ~(j > Len(q) + 1)
  BY <1>1
<1>3. n[Len(q) + 1] \in W
  BY <1>1
<1> QED
  BY <1>2, <1>3 DEF Arrives, n

\* Taking the head: what it says becomes true, and a silent head leaves the value.
LEMMA ArrivesTaken ==
  ASSUME NEW S, NEW q \in Seq(S), q # <<>>, NEW T, NEW W, NEW x, NEW y, NEW N, NEW M,
         Arrives(q, T, W, x, N),
         Head(q) \in W => y \in M,
         Head(q) \notin T /\ x \in N => y \in M
  PROVE  Arrives(Tail(q), T, W, y, M)
<1> DEFINE t == Tail(q)
<1>1. /\ Len(q) \in Nat /\ Len(t) = Len(q) - 1 /\ Len(t) \in Nat /\ Head(q) = q[1]
      /\ \A i \in 1 .. Len(t) : t[i] = q[i + 1]
  BY HeadTailProperties
<1> HIDE DEF t
<1>2. \A i \in 1 .. Len(t) : i + 1 \in 1 .. Len(q) /\ t[i] = q[i + 1]
  BY <1>1
<1>3. 1 \in 1 .. Len(q)
  BY <1>1
<1>4. CASE x \in N /\ \A i \in 1 .. Len(q) : q[i] \notin T
  <2>1. y \in M /\ \A i \in 1 .. Len(t) : t[i] \notin T
    BY <1>1, <1>2, <1>3, <1>4
  <2> QED
    BY <2>1 DEF Arrives, t
<1>5. ASSUME NEW k \in 1 .. Len(q), q[k] \in W, \A j \in 1 .. Len(q) : j > k => q[j] \notin T
      PROVE  Arrives(t, T, W, y, M)
  <2>1. CASE k = 1
    <3>1. \A i \in 1 .. Len(t) : i + 1 > 1
      BY <1>1
    <3>2. y \in M /\ \A i \in 1 .. Len(t) : t[i] \notin T
      BY <1>1, <1>2, <1>5, <2>1, <3>1
    <3> QED
      BY <3>2 DEF Arrives
  <2>2. CASE k # 1
    <3>1. k - 1 \in 1 .. Len(t) /\ t[k - 1] = q[k]
      BY <1>1, <2>2
    <3>2. ASSUME NEW j \in 1 .. Len(t), j > k - 1 PROVE t[j] \notin T
      <4>1. j + 1 > k
        BY <3>2, <1>1
      <4> QED
        BY <4>1, <1>2, <1>5
    <3> QED
      BY <3>1, <3>2, <1>5 DEF Arrives
  <2> QED
    BY <2>1, <2>2
<1> QED
  BY <1>4, <1>5 DEF Arrives, t

-----------------------------------------------------------------------------
(* The service index.                                                      *)

IndexSpec == IndexInit /\ [][IndexNext]_indexVars

LEMMA IndexInitially == IndexInit => IndexSafe
BY IndexAssumption
DEF IndexInit, IndexSafe, ServiceToReceiver, ReceiverServices, InventoryEntry,
    NoOrphanRecords, CastableIsListed

LEMMA UpsertSafe ==
  ASSUME IndexSafe, NEW key \in Keys, NEW device \in Devices, Upsert(key, device)
  PROVE  IndexSafe'
<1> DEFINE previous == service_to_receiver[key]
           detached == IF previous \notin {NoDevice, device}
                       THEN Cleared(resolvers, previous, key) ELSE resolvers
           filled == [detached EXCEPT ![device] = @ \cup {KindOf(key)}]
<1> USE DEF IndexSafe, ServiceToReceiver, ReceiverServices, InventoryEntry
<1>1. KindOf(key) \in Kinds /\ previous \in Devices \cup {NoDevice}
  BY DEF Keys, KindOf
<1>2. /\ detached \in [Devices -> SUBSET Kinds]
      /\ \A d \in Devices : detached[d] \subseteq resolvers[d]
      /\ previous \in Devices /\ previous # device => KindOf(key) \notin detached[previous]
  <2>1. CASE previous \in {NoDevice, device}
    BY <2>1, IndexAssumption
  <2>2. CASE previous \notin {NoDevice, device}
    <3>1. previous \in Devices /\ detached = [resolvers EXCEPT ![previous] = @ \ {KindOf(key)}]
      BY <1>1, <2>2 DEF Cleared
    <3> HIDE DEF detached, previous
    <3>2. detached \in [Devices -> SUBSET Kinds]
      BY <3>1
    <3>3. detached[previous] = resolvers[previous] \ {KindOf(key)}
          /\ \A d \in Devices : d # previous => detached[d] = resolvers[d]
      BY <3>1
    <3> QED
      BY <3>1, <3>2, <3>3
  <2> QED
    BY <2>1, <2>2
<1> HIDE DEF detached
<1>3. /\ filled \in [Devices -> SUBSET Kinds] /\ filled[device] = detached[device] \cup {KindOf(key)}
      /\ \A d \in Devices : d # device => filled[d] = detached[d]
  BY <1>1, <1>2
<1>4. /\ service_to_receiver' = [service_to_receiver EXCEPT ![key] = device]
      /\ resolvers' = filled /\ rows' = Present(device, filled[device])
  BY DEF Upsert, detached
<1> HIDE DEF filled, previous
<1>5. /\ rows' \in [Devices -> [known : BOOLEAN, castable : BOOLEAN]]
      /\ rows'[device] = [known |-> TRUE, castable |-> "AirPlay" \in filled[device]]
      /\ \A d \in Devices : d # device => rows'[d] = rows[d]
  BY <1>4 DEF Present
<1>6. /\ service_to_receiver' \in [Keys -> Devices \cup {NoDevice}] /\ service_to_receiver'[key] = device
      /\ \A k \in Keys : k # key => service_to_receiver'[k] = service_to_receiver[k]
  BY <1>4
<1>7. ASSUME NEW d \in Devices, NEW kind \in resolvers'[d]
      PROVE  \E k \in Keys : service_to_receiver'[k] = d /\ KindOf(k) = kind
  <2>1. CASE d = device /\ kind = KindOf(key)
    BY <2>1, <1>6
  <2>2. CASE ~(d = device /\ kind = KindOf(key))
    <3>1. kind \in detached[d] /\ kind \in resolvers[d]
      BY <2>2, <1>7, <1>3, <1>4, <1>2
    <3>2. PICK k \in Keys : service_to_receiver[k] = d /\ KindOf(k) = kind
      BY <3>1 DEF NoOrphanRecords, Mapped
    <3>3. k = key => d = device
      BY <3>1, <3>2, <1>2 DEF previous
    <3> QED
      BY <3>2, <3>3, <1>6
  <2> QED
    BY <2>1, <2>2
<1>8. NoOrphanRecords'
  BY <1>7 DEF NoOrphanRecords, Mapped
<1>9. ASSUME NEW d \in Devices, "AirPlay" \in resolvers'[d] PROVE rows'[d].known /\ rows'[d].castable
  <2>1. CASE d = device
    BY <2>1, <1>4, <1>5, <1>9
  <2>2. CASE d # device
    BY <2>2, <1>2, <1>3, <1>4, <1>5, <1>9 DEF CastableIsListed
  <2> QED
    BY <2>1, <2>2
<1> QED
  BY <1>3, <1>4, <1>5, <1>6, <1>8, <1>9 DEF CastableIsListed

LEMMA RemovalSafe ==
  ASSUME IndexSafe, NEW key \in Keys, service_to_receiver[key] # NoDevice, RemovalEvent(key)
  PROVE  IndexSafe'
<1> DEFINE device == service_to_receiver[key]
           left == Cleared(resolvers, device, key)
<1> USE DEF IndexSafe, ServiceToReceiver, ReceiverServices, InventoryEntry
<1>1. device \in Devices /\ KindOf(key) \in Kinds
  BY DEF Keys, KindOf
<1>2. /\ left \in [Devices -> SUBSET Kinds] /\ left[device] = resolvers[device] \ {KindOf(key)}
      /\ \A d \in Devices : d # device => left[d] = resolvers[d]
  BY <1>1 DEF Cleared
<1>3. /\ service_to_receiver' = [service_to_receiver EXCEPT ![key] = NoDevice] /\ resolvers' = left
      /\ rows' = IF KindOf(key) = "AirPlay" THEN Removed(device)
                 ELSE IF left[device] # {} THEN Present(device, left[device]) ELSE rows
  BY DEF RemovalEvent
<1> HIDE DEF left
<1>4. /\ service_to_receiver' \in [Keys -> Devices \cup {NoDevice}]
      /\ \A k \in Keys : k # key => service_to_receiver'[k] = service_to_receiver[k]
  BY <1>3
<1>5. rows' \in [Devices -> [known : BOOLEAN, castable : BOOLEAN]]
  <2>1. Removed(device) \in [Devices -> [known : BOOLEAN, castable : BOOLEAN]]
    <3>1. [rows[device] EXCEPT !.castable = FALSE] \in [known : BOOLEAN, castable : BOOLEAN]
      BY <1>1
    <3> QED
      BY <1>1, <3>1 DEF Removed
  <2>2. Present(device, left[device]) \in [Devices -> [known : BOOLEAN, castable : BOOLEAN]]
    BY <1>1 DEF Present
  <2> QED
    BY <1>3, <2>1, <2>2
<1>6. \A d \in Devices : d # device => rows'[d] = rows[d]
  BY <1>1, <1>3 DEF Removed, Present
<1>7. "AirPlay" \in left[device] => rows'[device].known /\ rows'[device].castable
  BY <1>1, <1>2, <1>3 DEF Present, CastableIsListed
<1>8. ASSUME NEW d \in Devices, NEW kind \in resolvers'[d]
      PROVE  \E k \in Keys : service_to_receiver'[k] = d /\ KindOf(k) = kind
  <2>1. kind \in resolvers[d] /\ ~(d = device /\ kind = KindOf(key))
    BY <1>2, <1>3, <1>8
  <2>2. PICK k \in Keys : service_to_receiver[k] = d /\ KindOf(k) = kind
    BY <2>1 DEF NoOrphanRecords, Mapped
  <2> QED
    BY <2>1, <2>2, <1>4
<1>9. NoOrphanRecords'
  BY <1>8 DEF NoOrphanRecords, Mapped
<1>10. ASSUME NEW d \in Devices, "AirPlay" \in resolvers'[d] PROVE rows'[d].known /\ rows'[d].castable
  <2>1. CASE d = device
    BY <2>1, <1>3, <1>7, <1>10
  <2>2. CASE d # device
    BY <2>2, <1>2, <1>3, <1>6, <1>10 DEF CastableIsListed
  <2> QED
    BY <2>1, <2>2
<1> QED
  BY <1>2, <1>3, <1>4, <1>5, <1>9, <1>10 DEF CastableIsListed

LEMMA IndexStep == IndexSafe /\ [IndexNext]_indexVars => IndexSafe'
<1> SUFFICES ASSUME IndexSafe, [IndexNext]_indexVars PROVE IndexSafe'
  OBVIOUS
<1>1. CASE ServiceResolved
  BY <1>1, UpsertSafe DEF ServiceResolved
<1>2. CASE ServiceRemoved
  BY <1>2, RemovalSafe DEF ServiceRemoved
<1>3. CASE UNCHANGED indexVars
  BY <1>3
  DEF indexVars, IndexSafe, ServiceToReceiver, ReceiverServices, InventoryEntry,
      NoOrphanRecords, CastableIsListed, Mapped
<1> QED
  BY <1>1, <1>2, <1>3 DEF IndexNext

-----------------------------------------------------------------------------
(* The network monitor.                                                    *)

MonitorSpec == MonitorInit /\ [][MonitorNext]_monitorVars

Edges == [local_binding_changed : BOOLEAN, sampled : Fingerprints]
Moves == {e \in Edges : e.local_binding_changed}
MovedTo(p) == {e \in Moves : e.sampled = p}

\* What the task would not see yet has a callback, a pulse or an open window
\* behind it, and what it saw is told or on its way: in the queue or about to
\* be published.
MonitorInv ==
  /\ BindingFingerprint /\ PulseQueue /\ NetworkSubscription /\ edges \in Seq(Edges)
  /\ ~cancelled => registered /\ monitor_pc # "done"
  /\ ~cancelled => bindings = last \/ owed \/ pulses > 0 \/ monitor_pc \in {"boot", "settling"}
  /\ ~cancelled /\ monitor_pc = "boot" => edges = <<>>
  /\ ~cancelled /\ monitor_pc # "boot" =>
       \/ monitor_pc = "publishing" /\ edge
       \/ Arrives(edges, Moves, MovedTo(last), told, {last})

LEMMA MonitorInitially == MonitorInit => MonitorInv
<1> SUFFICES ASSUME MonitorInit PROVE MonitorInv
  OBVIOUS
<1>1. edges \in Seq(Edges) /\ Len(edges) = 0
  BY EmptySeq DEF MonitorInit
<1>2. BindingFingerprint /\ NetworkSubscription
  BY DEF MonitorInit, BindingFingerprint, NetworkSubscription
<1>3. PulseQueue
  BY <1>1, MonitorAssumption DEF MonitorInit, PulseQueue
<1>4. registered /\ monitor_pc = "boot" /\ edges = <<>>
  BY DEF MonitorInit
<1> QED
  BY <1>1, <1>2, <1>3, <1>4 DEF MonitorInv

LEMMA MonitorStep == MonitorInv /\ [MonitorNext]_monitorVars => MonitorInv'
<1> SUFFICES ASSUME MonitorInv, [MonitorNext]_monitorVars PROVE MonitorInv'
  OBVIOUS
<1> USE DEF MonitorInv, BindingFingerprint, PulseQueue, NetworkSubscription
<1> USE MonitorAssumption
<1>1. CASE InterfaceChanges
  BY <1>1 DEF InterfaceChanges
<1>2. CASE OsCallback
  <2>1. pulses' \in 0..PulseCapacity /\ pulses' > 0
    BY <1>2 DEF OsCallback
  <2>2. UNCHANGED <<bindings, monitor_pc, last, edge, edges, told, cancelled, registered>> /\ owed' = FALSE
    BY <1>2 DEF OsCallback
  <2> QED
    BY <2>1, <2>2
<1>3. CASE FirstSample
  <2>1. ~cancelled => Arrives(edges', Moves, MovedTo(last'), told', {last'})
    BY <1>3 DEF FirstSample, Arrives
  <2> QED
    BY <1>3, <2>1 DEF FirstSample
<1>4. CASE OpenWindow
  BY <1>4 DEF OpenWindow
<1>5. CASE AbsorbPulses
  BY <1>5 DEF AbsorbPulses
<1>6. CASE SettleElapsed
  <2>1. ~edge' => last' = last
    BY <1>6 DEF SettleElapsed
  <2> QED
    BY <1>6, <2>1 DEF SettleElapsed
<1>7. CASE PublishEdge
  <2> DEFINE e == [local_binding_changed |-> edge, sampled |-> last]
  <2>1. e \in Edges /\ (e \in Moves <=> edge) /\ (edge => e \in MovedTo(last))
    BY DEF Edges, Moves, MovedTo
  <2>2. /\ edges' = Append(edges, e) /\ Len(edges) < EdgeCapacity /\ ~cancelled /\ monitor_pc' = "idle"
        /\ monitor_pc = "publishing"
        /\ UNCHANGED <<bindings, owed, pulses, last, edge, told, cancelled, registered>>
    BY <1>7 DEF PublishEdge
  <2> HIDE DEF e
  <2>3. edges' \in Seq(Edges) /\ Len(edges') <= EdgeCapacity
    BY <2>1, <2>2, AppendProperties, LenProperties
  <2>4. Arrives(edges', Moves, MovedTo(last), told, {last})
    BY <2>1, <2>2, ArrivesSilent, ArrivesNow
  <2> QED
    BY <2>2, <2>3, <2>4
<1>8. CASE CancelMonitor
  BY <1>8 DEF CancelMonitor
<1>9. CASE TakeEdge
  <2>1. /\ edges # <<>> /\ ~cancelled /\ edges' = Tail(edges)
        /\ told' = IF Head(edges).local_binding_changed THEN Head(edges).sampled ELSE told
        /\ UNCHANGED <<bindings, owed, pulses, monitor_pc, last, edge, cancelled, registered>>
    BY <1>9 DEF TakeEdge
  <2>2. /\ edges' \in Seq(Edges) /\ Len(edges') <= EdgeCapacity /\ Head(edges) \in Edges
    BY <2>1, HeadTailProperties, LenProperties
  <2>3. told' \in Fingerprints
    BY <2>1, <2>2 DEF Edges
  <2>4. /\ Head(edges) \in MovedTo(last) => told' \in {last}
        /\ Head(edges) \notin Moves /\ told \in {last} => told' \in {last}
    BY <2>1, <2>2 DEF Moves, MovedTo
  <2>5. Arrives(edges, Moves, MovedTo(last), told, {last})
          => Arrives(edges', Moves, MovedTo(last), told', {last})
    BY <2>1, <2>4, ArrivesTaken
  <2> QED
    BY <2>1, <2>2, <2>3, <2>5
<1>10. CASE ShutdownMonitor
  BY <1>10 DEF ShutdownMonitor
<1>11. CASE UNCHANGED monitorVars
  BY <1>11 DEF monitorVars
<1> QED
  BY <1>1, <1>2, <1>3, <1>4, <1>5, <1>6, <1>7, <1>8, <1>9, <1>10, <1>11 DEF MonitorNext

LEMMA MonitorSafe ==
  MonitorInv => BindingFingerprint /\ PulseQueue /\ NetworkSubscription /\ NoMoveLost
<1> SUFFICES ASSUME MonitorInv PROVE BindingFingerprint /\ PulseQueue /\ NetworkSubscription /\ NoMoveLost
  OBVIOUS
<1>1. ASSUME monitor_pc = "idle", ~owed, pulses = 0, edges = <<>>, ~cancelled PROVE told = bindings
  <2>1. bindings = last /\ Arrives(<<>>, Moves, MovedTo(last), told, {last})
    BY <1>1 DEF MonitorInv
  <2>2. told \in {last}
    BY <2>1, ArrivesEmpty
  <2> QED
    BY <2>1, <2>2
<1> QED
  BY <1>1 DEF MonitorInv, NoMoveLost

-----------------------------------------------------------------------------
(* The endpoint scanner.                                                   *)

ScannerSpec == ScannerInit /\ [][ScannerNext]_scannerVars

\* An answer of an enumeration that began after the newest request.
Fresh(table) == table = NoTable \/ table \in since

\* Without a request to come, what the thread found and what lies in the slot
\* is fresh, and what is shown is once both are empty.
ScannerInv ==
  /\ ScannerSlots /\ devices \in since
  /\ open => scan_pc # "ended"
  /\ open /\ ~request /\ scan_pc = "publishing" => Fresh(scanned)
  /\ open /\ ~request /\ scan_pc = "waiting" /\ results # <<>> => Fresh(Head(results))
  /\ open /\ ~request /\ scan_pc = "waiting" /\ results = <<>> => refresh_failed \/ endpoints \in since

LEMMA ScannerInitially == ScannerInit => ScannerInv
BY DEF ScannerInit, ScannerInv, ScannerSlots

LEMMA ScannerStep == ScannerInv /\ [ScannerNext]_scannerVars => ScannerInv'
<1> SUFFICES ASSUME ScannerInv, [ScannerNext]_scannerVars PROVE ScannerInv'
  OBVIOUS
<1> USE DEF ScannerInv, ScannerSlots, Fresh
<1>1. CASE DevicesChange
  BY <1>1 DEF DevicesChange
<1>2. CASE RequestScan
  BY <1>2 DEF RequestScan
<1>3. CASE TakeRequest
  BY <1>3 DEF TakeRequest
<1>4. CASE Enumerate
  BY <1>4 DEF Enumerate
<1>5. CASE PublishScan
  <2>1. CASE open /\ results = <<>> /\ results' = <<scanned>> /\ scan_pc' = "waiting"
    <3>1. results' # <<>> /\ Head(results') = scanned /\ Len(results') = 1
      BY <2>1
    <3> QED
      BY <1>5, <2>1, <3>1 DEF PublishScan
  <2>2. CASE ~open /\ scan_pc' = "ended" /\ UNCHANGED results
    BY <1>5, <2>2 DEF PublishScan
  <2> QED
    BY <1>5, <2>1, <2>2 DEF PublishScan
<1>6. CASE ThreadEnds
  BY <1>6 DEF ThreadEnds
<1>7. CASE ApplyEndpoints
  <2>1. Len(results') <= 1 /\ results' = <<>>
    BY <1>7 DEF ApplyEndpoints
  <2> QED
    BY <1>7, <2>1 DEF ApplyEndpoints
<1>8. CASE DropScanner
  BY <1>8 DEF DropScanner
<1>9. CASE UNCHANGED scannerVars
  BY <1>9 DEF scannerVars
<1> QED
  BY <1>1, <1>2, <1>3, <1>4, <1>5, <1>6, <1>7, <1>8, <1>9 DEF ScannerNext

\* Whatever coalesced, was dropped or failed: at rest every move of the local
\* binding has been reported (network.rs), and the endpoint list is one that an
\* enumeration begun after the newest request found (EndpointScanner), for any
\* bindings, device tables and queue capacities.
THEOREM WatchersReport == MonitorSpec /\ ScannerSpec => []WatchersMissNothing
<1>1. MonitorInit => MonitorInv
  BY MonitorInitially
<1>2. MonitorInv /\ [MonitorNext]_monitorVars => MonitorInv'
  BY MonitorStep
<1>3. ScannerInit => ScannerInv
  BY ScannerInitially
<1>4. ScannerInv /\ [ScannerNext]_scannerVars => ScannerInv'
  BY ScannerStep
<1>5. MonitorInv /\ ScannerInv => WatchersMissNothing
  BY MonitorSafe DEF ScannerInv, WatchersMissNothing, AnsweredFresh
<1> QED
  BY <1>1, <1>2, <1>3, <1>4, <1>5, PTL DEF MonitorSpec, ScannerSpec

-----------------------------------------------------------------------------
(* The discovery supervisor and the controller's mirror.                   *)

DiscoveryRuns == DiscoveryInit /\ [][DiscoveryNext]_discoveryVars

Dropping(r) == {u \in DiscoveryUpdate : u.kind = "Removed" /\ u.receiver = r}
Adding(r, g) == {u \in DiscoveryUpdate : u.kind = "Added" /\ u.receiver = r /\ u.generation = g}
Phasing == {u \in DiscoveryUpdate : u.kind \in {"Started", "Failed"}}
Starting(g) == {u \in DiscoveryUpdate : u.kind = "Started" /\ u.generation = g}
Failing(g) == {u \in DiscoveryUpdate : u.kind = "Failed" /\ u.generation = g}

\* Whom the running stream reported the mirror has, or will have.
ReportsArrive ==
  browse_pc = "stream" /\ ~draining =>
    \A r \in browse_reported :
      Arrives(updates, Dropping(r), Adding(r, generation), r, inventory)

\* What the supervisor does the mirror shows, or will show.
PhaseArrives ==
  ~draining =>
    /\ browse_pc \in {"browse", "stream"} =>
         Arrives(updates, Phasing, Starting(generation), shown_phase, {"Running"})
    /\ browse_pc = "backoff" =>
         Arrives(updates, Phasing, Failing(generation), shown_phase, {"Retrying"})

\* Only the running stream's receivers are available in the shared table.
TableIsFresh ==
  /\ browse_pc = "browse" => \A r \in Advertisers : known[r] # "available"
  /\ browse_pc = "stream" => \A r \in Advertisers : known[r] = "available" => r \in browse_reported

\* No update is of a generation to come.
NoneAhead ==
  /\ seen_generation <= generation
  /\ \A i \in 1 .. Len(updates) : updates[i].generation <= generation

DiscoveryInv ==
  /\ DiscoveryTypeOK /\ updates \in Seq(DiscoveryUpdate)
  /\ NoneAhead /\ ReportsArrive /\ PhaseArrives /\ TableIsFresh

LEMMA DiscoveryInitially == DiscoveryInit => DiscoveryInv
<1> SUFFICES ASSUME DiscoveryInit PROVE DiscoveryInv
  OBVIOUS
<1>1. updates \in Seq(DiscoveryUpdate) /\ Len(updates) = 0 /\ DOMAIN updates = {}
  BY EmptySeq DEF DiscoveryInit
<1> QED
  BY <1>1, DiscoveryAssumption
  DEF DiscoveryInit, DiscoveryInv, DiscoveryTypeOK, GenerationExit, DiscoveryState, DiscoveryControl,
      DiscoverySnapshot, NoneAhead, ReportsArrive, PhaseArrives, TableIsFresh

\* The updates and their kinds.
LEMMA UpdateFacts ==
  /\ \A g \in 0..MaxGeneration :
       /\ Started(g) \in Phasing /\ Started(g) \in Starting(g) /\ Started(g).generation = g
       /\ BrowseFailed(g) \in Phasing /\ BrowseFailed(g) \in Failing(g) /\ BrowseFailed(g).generation = g
       /\ \A r \in Advertisers :
            /\ Added(g, r) \in DiscoveryUpdate \ Phasing /\ Added(g, r) \in Adding(r, g)
            /\ Added(g, r).generation = g /\ \A other : Added(g, r) \notin Dropping(other)
            /\ Removal(g, r) \in DiscoveryUpdate \ Phasing /\ Removal(g, r).generation = g
            /\ \A other : other # r => Removal(g, r) \notin Dropping(other)
  /\ \A g, r : Starting(g) \subseteq Phasing /\ Failing(g) \subseteq Phasing /\ Adding(r, g) \subseteq DiscoveryUpdate
  /\ Phasing \subseteq DiscoveryUpdate
<1> USE DEF Phasing, Starting, Failing, Adding, Dropping
<1>1. ASSUME NEW g \in 0..MaxGeneration
      PROVE  /\ Started(g) \in DiscoveryUpdate /\ Started(g).kind = "Started" /\ Started(g).generation = g
             /\ BrowseFailed(g) \in DiscoveryUpdate /\ BrowseFailed(g).kind = "Failed"
             /\ BrowseFailed(g).generation = g
  BY DEF DiscoveryUpdate, Started, BrowseFailed
<1>2. ASSUME NEW g \in 0..MaxGeneration, NEW r \in Advertisers
      PROVE  /\ Added(g, r) \in DiscoveryUpdate /\ Added(g, r).kind = "Added"
             /\ Added(g, r).generation = g /\ Added(g, r).receiver = r
             /\ Removal(g, r) \in DiscoveryUpdate /\ Removal(g, r).kind = "Removed"
             /\ Removal(g, r).generation = g /\ Removal(g, r).receiver = r
  BY DEF DiscoveryUpdate, Added, Removal
<1>3. ASSUME NEW g \in 0..MaxGeneration
      PROVE  /\ Started(g) \in Phasing /\ Started(g) \in Starting(g)
             /\ BrowseFailed(g) \in Phasing /\ BrowseFailed(g) \in Failing(g)
  BY <1>1
<1>4. ASSUME NEW g \in 0..MaxGeneration, NEW r \in Advertisers
      PROVE  /\ Added(g, r) \in DiscoveryUpdate \ Phasing /\ Added(g, r) \in Adding(r, g)
             /\ \A other : Added(g, r) \notin Dropping(other)
             /\ Removal(g, r) \in DiscoveryUpdate \ Phasing
             /\ \A other : other # r => Removal(g, r) \notin Dropping(other)
  BY <1>2
<1>5. /\ \A g, r : Starting(g) \subseteq Phasing /\ Failing(g) \subseteq Phasing /\ Adding(r, g) \subseteq DiscoveryUpdate
      /\ Phasing \subseteq DiscoveryUpdate
  OBVIOUS
<1> QED
  BY <1>1, <1>2, <1>3, <1>4, <1>5

\* What an update can be, once it is known to be one.
LEMMA UpdateKinds ==
  ASSUME NEW u \in DiscoveryUpdate
  PROVE  /\ u.kind \in {"Started", "Added", "Removed", "Failed"} /\ u.generation \in 0..MaxGeneration
         /\ u.kind \in {"Added", "Removed"} => u.receiver \in Advertisers
BY DEF DiscoveryUpdate, Started, Added, Removal, BrowseFailed

\* push_update: at the end of the queue, or the generation is given up.
LEMMA Pushed ==
  ASSUME DiscoveryInv, NEW u \in DiscoveryUpdate, NEW pc, PushUpdate(u, pc)
  PROVE  /\ updates' \in Seq(DiscoveryUpdate) /\ Len(updates') <= SupervisorCapacity
         /\ \A i \in DOMAIN updates' : updates'[i] \in DiscoveryUpdate
         /\ u.generation <= generation => \A i \in 1 .. Len(updates') : updates'[i].generation <= generation
         /\ \/ updates' = Append(updates, u) /\ browse_pc' = pc
            \/ updates' = updates /\ browse_pc' = "start"
<1> USE DEF DiscoveryInv, DiscoveryTypeOK, NoneAhead
<1>1. CASE Len(updates) < SupervisorCapacity
  <2>1. updates' = Append(updates, u) /\ browse_pc' = pc
    BY <1>1 DEF PushUpdate
  <2>2. /\ updates' \in Seq(DiscoveryUpdate) /\ Len(updates') = Len(updates) + 1 /\ Len(updates) \in Nat
        /\ \A i \in 1 .. Len(updates) : updates'[i] = updates[i]
        /\ updates'[Len(updates) + 1] = u
    BY <2>1, AppendProperties, LenProperties
  <2>3. Len(updates') <= SupervisorCapacity
    BY <1>1, <2>2, DiscoveryAssumption
  <2>4. \A i \in DOMAIN updates' : updates'[i] \in DiscoveryUpdate
    BY <2>2, ElementOfSeq, LenProperties
  <2>5. ASSUME u.generation <= generation, NEW i \in 1 .. Len(updates')
        PROVE  updates'[i].generation <= generation
    <3>1. i = Len(updates) + 1 \/ i \in 1 .. Len(updates)
      BY <2>2, <2>5
    <3> QED
      BY <2>2, <2>5, <3>1
  <2> QED
    BY <2>1, <2>2, <2>3, <2>4, <2>5
<1>2. CASE ~(Len(updates) < SupervisorCapacity)
  BY <1>2 DEF PushUpdate
<1> QED
  BY <1>1, <1>2

LEMMA StartStep == DiscoveryInv /\ StartGeneration => DiscoveryInv'
<1> SUFFICES ASSUME DiscoveryInv, StartGeneration PROVE DiscoveryInv'
  OBVIOUS
<1> DEFINE g == IF generation < MaxGeneration THEN generation + 1 ELSE generation
<1>1. /\ generation' = g /\ PushUpdate(Started(g), "browse") /\ browse_pc = "start"
      /\ known' = IF preserve_unknown
                  THEN [r \in Advertisers |-> IF known[r] = "absent" THEN "absent" ELSE "unknown"]
                  ELSE [r \in Advertisers |-> "absent"]
      /\ UNCHANGED <<worldVars, browse_reported, browse_control, mirrorVars, draining, restarts>>
  BY DEF StartGeneration, MarkAllUnknown
<1>2. g \in 0..MaxGeneration /\ generation <= g /\ seen_generation \in Nat
  BY DiscoveryAssumption DEF DiscoveryInv, DiscoveryTypeOK, DiscoveryState, DiscoverySnapshot
<1> HIDE DEF g
<1>3. Started(g) \in DiscoveryUpdate /\ Started(g) \in Starting(g) /\ Started(g).generation = g
  BY <1>2, UpdateFacts
<1>4. /\ updates' \in Seq(DiscoveryUpdate) /\ Len(updates') <= SupervisorCapacity
      /\ \A i \in DOMAIN updates' : updates'[i] \in DiscoveryUpdate
      /\ \/ updates' = Append(updates, Started(g)) /\ browse_pc' = "browse"
         \/ updates' = updates /\ browse_pc' = "start"
  BY <1>1, <1>3, Pushed
<1>5. NoneAhead'
  <2>1. \A i \in 1 .. Len(updates) : updates[i].generation \in Nat /\ updates[i].generation <= g
    <3>1. \A i \in 1 .. Len(updates) : updates[i] \in DiscoveryUpdate
      BY ElementOfSeq, LenProperties DEF DiscoveryInv
    <3>2. \A i \in 1 .. Len(updates) : updates[i].generation \in 0..MaxGeneration
      BY <3>1, UpdateKinds
    <3> QED
      BY <3>2, <1>2 DEF DiscoveryInv, NoneAhead, DiscoveryTypeOK, DiscoveryState
  <2>2. CASE updates' = Append(updates, Started(g))
    <3>1. /\ Len(updates') = Len(updates) + 1 /\ Len(updates) \in Nat /\ updates'[Len(updates) + 1] = Started(g)
          /\ \A i \in 1 .. Len(updates) : updates'[i] = updates[i]
      BY <2>2, <1>3, AppendProperties, LenProperties DEF DiscoveryInv
    <3>2. ASSUME NEW i \in 1 .. Len(updates') PROVE updates'[i].generation <= g
      <4>1. i = Len(updates) + 1 \/ i \in 1 .. Len(updates)
        BY <3>1, <3>2
      <4> QED
        BY <4>1, <3>1, <2>1, <1>2, <1>3
    <3> QED
      BY <3>2, <1>1, <1>2 DEF NoneAhead, DiscoveryInv, mirrorVars, DiscoveryTypeOK, DiscoveryState
  <2>3. CASE updates' = updates
    BY <2>1, <2>3, <1>1, <1>2 DEF NoneAhead, DiscoveryInv, mirrorVars, DiscoveryTypeOK, DiscoveryState
  <2> QED
    BY <2>2, <2>3, <1>4
<1>6. browse_pc' = "browse" => Arrives(updates', Phasing, Starting(generation'), shown_phase', {"Running"})
  <2>1. CASE browse_pc' = "browse"
    <3>1. Arrives(Append(updates, Started(g)), Phasing, Starting(g), shown_phase, {"Running"})
      BY <1>3, ArrivesNow DEF DiscoveryInv
    <3> QED
      BY <3>1, <2>1, <1>1, <1>4 DEF mirrorVars
  <2> QED
    BY <2>1
<1>7. PhaseArrives' /\ ReportsArrive'
  BY <1>4, <1>6 DEF PhaseArrives, ReportsArrive
<1>8. TableIsFresh' /\ known' \in [Advertisers -> {"absent", "unknown", "available"}]
  BY <1>1, <1>4 DEF TableIsFresh
<1>9. DiscoveryTypeOK'
  BY <1>1, <1>2, <1>4, <1>8
  DEF DiscoveryInv, DiscoveryTypeOK, GenerationExit, DiscoveryState, DiscoveryControl,
      DiscoverySnapshot, worldVars, mirrorVars
<1> QED
  BY <1>4, <1>5, <1>7, <1>8, <1>9 DEF DiscoveryInv

LEMMA StreamStep == DiscoveryInv /\ StreamEvent => DiscoveryInv'
<1> SUFFICES ASSUME DiscoveryInv, StreamEvent PROVE DiscoveryInv'
  OBVIOUS
<1> DEFINE g == generation
<1>1. /\ browse_pc = "stream"
      /\ UNCHANGED <<worldVars, generation, preserve_unknown, browse_control, mirrorVars, draining, restarts>>
  BY DEF StreamEvent
<1>2. g \in 0..MaxGeneration
  BY DEF DiscoveryInv, DiscoveryTypeOK, DiscoveryState
<1>3. PICK r \in Advertisers, u \in DiscoveryUpdate :
        /\ PushUpdate(u, "stream")
        /\ \/ /\ u = Added(g, r) /\ browse_reported' = browse_reported \cup {r}
              /\ known' = [known EXCEPT ![r] = "available"]
           \/ /\ u = Removal(g, r) /\ browse_reported' = browse_reported \ {r}
              /\ known' = [known EXCEPT ![r] = IF @ = "absent" THEN @ ELSE "unknown"]
  <2>1. CASE \E r \in present \ browse_reported :
               /\ browse_reported' = browse_reported \cup {r}
               /\ known' = [known EXCEPT ![r] = "available"]
               /\ PushUpdate(Added(generation, r), "stream")
    BY <1>2, <2>1, UpdateFacts DEF DiscoveryInv, DiscoveryTypeOK
  <2>2. CASE \E r \in browse_reported \ present :
               /\ browse_reported' = browse_reported \ {r}
               /\ known' = [known EXCEPT ![r] = IF @ = "absent" THEN @ ELSE "unknown"]
               /\ PushUpdate(Removal(generation, r), "stream")
    BY <1>2, <2>2, UpdateFacts DEF DiscoveryInv, DiscoveryTypeOK
  <2> QED
    BY <2>1, <2>2 DEF StreamEvent
<1>4. u \in DiscoveryUpdate /\ u \notin Phasing /\ u.generation = g /\ u.generation <= generation
  BY <1>3, <1>2, UpdateFacts
<1>5. /\ updates' \in Seq(DiscoveryUpdate) /\ Len(updates') <= SupervisorCapacity
      /\ \A i \in DOMAIN updates' : updates'[i] \in DiscoveryUpdate
      /\ \A i \in 1 .. Len(updates') : updates'[i].generation <= generation
      /\ \/ updates' = Append(updates, u) /\ browse_pc' = "stream"
         \/ updates' = updates /\ browse_pc' = "start"
  BY <1>3, <1>4, Pushed
<1>6. ASSUME browse_pc' = "stream", ~draining', NEW s \in browse_reported'
      PROVE  Arrives(updates', Dropping(s), Adding(s, generation'), s, inventory')
  <2>1. updates' = Append(updates, u) /\ inventory' = inventory /\ ~draining /\ generation' = g
    BY <1>1, <1>5, <1>6 DEF mirrorVars
  <2>2. CASE s = r
    <3>1. u \in Adding(s, g)
      BY <1>3, <1>2, <1>6, <2>2, UpdateFacts
    <3> QED
      BY <3>1, <2>1, <1>4, ArrivesNow DEF DiscoveryInv
  <2>3. CASE s # r
    <3>1. s \in browse_reported /\ u \notin Dropping(s)
      BY <1>3, <1>2, <1>6, <2>3, UpdateFacts
    <3>2. Arrives(updates, Dropping(s), Adding(s, g), s, inventory)
      BY <3>1, <2>1, <1>1 DEF DiscoveryInv, ReportsArrive
    <3> QED
      BY <3>1, <3>2, <2>1, <1>4, ArrivesSilent DEF DiscoveryInv
  <2> QED
    BY <2>2, <2>3
<1>7. ReportsArrive'
  BY <1>6 DEF ReportsArrive
<1>8. PhaseArrives'
  <2>1. CASE browse_pc' = "stream" /\ ~draining'
    <3>1. updates' = Append(updates, u) /\ shown_phase' = shown_phase /\ ~draining /\ generation' = g
      BY <1>1, <1>5, <2>1 DEF mirrorVars
    <3>2. Arrives(updates, Phasing, Starting(g), shown_phase, {"Running"})
      BY <3>1, <1>1 DEF DiscoveryInv, PhaseArrives
    <3>3. Arrives(updates', Phasing, Starting(generation'), shown_phase', {"Running"})
      BY <3>1, <3>2, <1>4, ArrivesSilent DEF DiscoveryInv
    <3> QED
      BY <3>3, <2>1 DEF PhaseArrives
  <2>2. CASE ~(browse_pc' = "stream" /\ ~draining')
    BY <2>2, <1>5 DEF PhaseArrives
  <2> QED
    BY <2>1, <2>2
<1>9. known \in [Advertisers -> {"absent", "unknown", "available"}]
  BY DEF DiscoveryInv, DiscoveryTypeOK, DiscoveryState
<1>10. known' \in [Advertisers -> {"absent", "unknown", "available"}]
  BY <1>3, <1>9
<1>11. TableIsFresh'
  BY <1>1, <1>3, <1>5, <1>9 DEF DiscoveryInv, TableIsFresh
<1>12. NoneAhead'
  BY <1>1, <1>5 DEF NoneAhead, mirrorVars, DiscoveryInv
<1>13. DiscoveryTypeOK'
  BY <1>1, <1>3, <1>5, <1>10
  DEF DiscoveryInv, DiscoveryTypeOK, GenerationExit, DiscoveryState, DiscoveryControl,
      DiscoverySnapshot, worldVars, mirrorVars
<1> QED
  BY <1>5, <1>7, <1>8, <1>11, <1>12, <1>13 DEF DiscoveryInv

LEMMA FailureStep == DiscoveryInv /\ ScheduleFailure => DiscoveryInv'
<1> SUFFICES ASSUME DiscoveryInv, ScheduleFailure PROVE DiscoveryInv'
  OBVIOUS
<1> DEFINE u == BrowseFailed(generation)
<1>1. /\ PushUpdate(u, "backoff")
      /\ UNCHANGED <<worldVars, browse_reported, generation, preserve_unknown, known, browse_control,
                     mirrorVars, draining, restarts>>
  BY DEF ScheduleFailure
<1>2. u \in DiscoveryUpdate /\ u \in Failing(generation) /\ u.generation <= generation
  BY UpdateFacts DEF DiscoveryInv, DiscoveryTypeOK, DiscoveryState
<1> HIDE DEF u
<1>3. /\ updates' \in Seq(DiscoveryUpdate) /\ Len(updates') <= SupervisorCapacity
      /\ \A i \in DOMAIN updates' : updates'[i] \in DiscoveryUpdate
      /\ \A i \in 1 .. Len(updates') : updates'[i].generation <= generation
      /\ \/ updates' = Append(updates, u) /\ browse_pc' = "backoff"
         \/ updates' = updates /\ browse_pc' = "start"
  BY <1>1, <1>2, Pushed
<1>4. browse_pc' = "backoff" => Arrives(updates', Phasing, Failing(generation'), shown_phase', {"Retrying"})
  <2>1. Arrives(Append(updates, u), Phasing, Failing(generation), shown_phase, {"Retrying"})
    BY <1>2, ArrivesNow DEF DiscoveryInv
  <2> QED
    BY <2>1, <1>1, <1>3 DEF mirrorVars
<1>5. ReportsArrive' /\ PhaseArrives' /\ TableIsFresh'
  BY <1>3, <1>4 DEF ReportsArrive, PhaseArrives, TableIsFresh
<1>6. NoneAhead'
  BY <1>1, <1>3 DEF NoneAhead, mirrorVars, DiscoveryInv
<1>7. DiscoveryTypeOK'
  BY <1>1, <1>3
  DEF DiscoveryInv, DiscoveryTypeOK, GenerationExit, DiscoveryState, DiscoveryControl,
      DiscoverySnapshot, worldVars, mirrorVars
<1> QED
  BY <1>3, <1>5, <1>6, <1>7 DEF DiscoveryInv

LEMMA TakeStep == DiscoveryInv /\ TakeDiscoveryUpdate => DiscoveryInv'
<1> SUFFICES ASSUME DiscoveryInv, TakeDiscoveryUpdate PROVE DiscoveryInv'
  OBVIOUS
<1> DEFINE u == Head(updates)
<1>1. /\ updates # <<>> /\ updates' = Tail(updates)
      /\ draining => UNCHANGED mirrorVars
      /\ ~draining => ApplyDiscoveryUpdate(u)
      /\ UNCHANGED <<worldVars, browse_reported, browse_pc, generation, preserve_unknown, known,
                     browse_control, draining, restarts>>
  BY DEF TakeDiscoveryUpdate
<1>2. /\ updates' \in Seq(DiscoveryUpdate) /\ Len(updates') = Len(updates) - 1 /\ Len(updates) \in Nat
      /\ u = updates[1] /\ 1 \in 1 .. Len(updates) /\ u \in DiscoveryUpdate /\ Len(updates') \in Nat
      /\ \A i \in 1 .. Len(updates') : updates'[i] = updates[i + 1]
  BY <1>1, HeadTailProperties, LenProperties DEF DiscoveryInv
<1>3. /\ u.generation \in 0..MaxGeneration /\ u.generation <= generation /\ generation \in 0..MaxGeneration
      /\ u.kind \in {"Started", "Added", "Removed", "Failed"}
      /\ u.kind \in {"Added", "Removed"} => u.receiver \in Advertisers
      /\ seen_generation \in 0..MaxGeneration /\ seen_generation <= generation
  BY <1>2, UpdateKinds DEF DiscoveryInv, NoneAhead, DiscoveryTypeOK, DiscoveryState, DiscoverySnapshot
<1> HIDE DEF u
<1>4. /\ seen_generation' \in 0..MaxGeneration /\ seen_generation' <= generation
      /\ inventory' \subseteq Advertisers /\ shown_phase' \in {"Stopped", "Running", "Retrying"}
  BY <1>1, <1>3 DEF ApplyDiscoveryUpdate, mirrorVars, DiscoveryInv, DiscoveryTypeOK, DiscoverySnapshot
<1>5. ReportsArrive'
  <2>1. ASSUME browse_pc = "stream", ~draining, NEW r \in browse_reported
        PROVE  Arrives(updates', Dropping(r), Adding(r, generation), r, inventory')
    <3>1. u \in Adding(r, generation) => r \in inventory'
      BY <1>1, <1>3, <2>1 DEF Adding, ApplyDiscoveryUpdate
    <3>2. u \notin Dropping(r) /\ r \in inventory => r \in inventory'
      BY <1>1, <1>2, <1>3, <2>1 DEF Dropping, ApplyDiscoveryUpdate
    <3>3. Arrives(updates, Dropping(r), Adding(r, generation), r, inventory)
      BY <2>1 DEF DiscoveryInv, ReportsArrive
    <3> QED
      BY <3>1, <3>2, <3>3, <1>1, ArrivesTaken DEF DiscoveryInv, u
  <2> QED
    BY <2>1, <1>1 DEF ReportsArrive
<1>6. PhaseArrives'
  <2>1. ASSUME ~draining, browse_pc \in {"browse", "stream"}
        PROVE  Arrives(updates', Phasing, Starting(generation), shown_phase', {"Running"})
    <3>1. u \in Starting(generation) => shown_phase' \in {"Running"}
      BY <1>1, <1>3, <2>1 DEF Starting, ApplyDiscoveryUpdate
    <3>2. u \notin Phasing => shown_phase' = shown_phase
      BY <1>1, <1>2, <1>3, <2>1 DEF Phasing, ApplyDiscoveryUpdate
    <3>3. Arrives(updates, Phasing, Starting(generation), shown_phase, {"Running"})
      BY <2>1 DEF DiscoveryInv, PhaseArrives
    <3> QED
      BY <3>1, <3>2, <3>3, <1>1, ArrivesTaken DEF DiscoveryInv, u
  <2>2. ASSUME ~draining, browse_pc = "backoff"
        PROVE  Arrives(updates', Phasing, Failing(generation), shown_phase', {"Retrying"})
    <3>1. u \in Failing(generation) => shown_phase' \in {"Retrying"}
      BY <1>1, <1>3, <2>2 DEF Failing, ApplyDiscoveryUpdate
    <3>2. u \notin Phasing => shown_phase' = shown_phase
      BY <1>1, <1>2, <1>3, <2>2 DEF Phasing, ApplyDiscoveryUpdate
    <3>3. Arrives(updates, Phasing, Failing(generation), shown_phase, {"Retrying"})
      BY <2>2 DEF DiscoveryInv, PhaseArrives
    <3> QED
      BY <3>1, <3>2, <3>3, <1>1, ArrivesTaken DEF DiscoveryInv, u
  <2> QED
    BY <2>1, <2>2, <1>1 DEF PhaseArrives
<1>7. NoneAhead'
  <2>1. \A i \in 1 .. Len(updates') : i + 1 \in 1 .. Len(updates)
    BY <1>2
  <2> QED
    BY <2>1, <1>1, <1>2, <1>4 DEF NoneAhead, DiscoveryInv
<1>8. TableIsFresh'
  BY <1>1 DEF TableIsFresh, DiscoveryInv
<1>9. \A i \in DOMAIN updates' : updates'[i] \in DiscoveryUpdate
  BY <1>2, ElementOfSeq, LenProperties
<1>10. Len(updates') <= SupervisorCapacity
  BY <1>2, DiscoveryAssumption DEF DiscoveryInv, DiscoveryTypeOK
<1>11. DiscoveryTypeOK'
  BY <1>1, <1>4, <1>9, <1>10
  DEF DiscoveryInv, DiscoveryTypeOK, GenerationExit, DiscoveryState, DiscoveryControl,
      DiscoverySnapshot, worldVars
<1> QED
  BY <1>2, <1>5, <1>6, <1>7, <1>8, <1>11 DEF DiscoveryInv

\* The other steps leave the queue, the generation and the mirror alone.
LEMMA AsideStep ==
  ASSUME DiscoveryInv, UNCHANGED <<generation, updates, mirrorVars>>,
         DiscoveryTypeOK', TableIsFresh',
         draining' \/ draining' = draining,
         browse_pc' \notin {"browse", "stream", "backoff"} \/ browse_pc' = browse_pc
           \/ (browse_pc = "browse" /\ browse_pc' = "stream"),
         browse_pc' = "stream" => browse_reported' = {} \/ (browse_pc = "stream" /\ browse_reported' = browse_reported)
  PROVE  DiscoveryInv'
<1>1. UNCHANGED <<seen_generation, inventory, shown_phase>>
  BY DEF mirrorVars
<1>2. ReportsArrive'
  BY <1>1 DEF DiscoveryInv, ReportsArrive
<1>3. PhaseArrives'
  BY <1>1 DEF DiscoveryInv, PhaseArrives
<1> QED
  BY <1>1, <1>2, <1>3 DEF DiscoveryInv, NoneAhead

LEMMA DiscoveryStep == DiscoveryInv /\ [DiscoveryNext]_discoveryVars => DiscoveryInv'
<1> SUFFICES ASSUME DiscoveryInv, [DiscoveryNext]_discoveryVars PROVE DiscoveryInv'
  OBVIOUS
<1>a. DiscoveryTypeOK /\ TableIsFresh /\ known \in [Advertisers -> {"absent", "unknown", "available"}]
  BY DEF DiscoveryInv, DiscoveryTypeOK, DiscoveryState
<1> USE DEF DiscoveryTypeOK, GenerationExit, DiscoveryState, DiscoveryControl, DiscoverySnapshot,
            worldVars, mirrorVars
<1>1. CASE StartGeneration
  BY <1>1, StartStep
<1>2. CASE Browse
  <2>1. DiscoveryTypeOK' /\ TableIsFresh'
    BY <1>a, <1>2 DEF Browse, TableIsFresh
  <2> QED
    BY <2>1, <1>2, AsideStep DEF Browse
<1>3. CASE StreamEvent
  BY <1>3, StreamStep
<1>4. CASE ScheduleFailure
  BY <1>4, FailureStep
<1>5. CASE BackoffElapsed
  <2>1. DiscoveryTypeOK' /\ TableIsFresh'
    BY <1>a, <1>5 DEF BackoffElapsed, TableIsFresh
  <2> QED
    BY <2>1, <1>5, AsideStep DEF BackoffElapsed
<1>6. CASE OnControl
  <2>1. known' \in [Advertisers -> {"absent", "unknown", "available"}]
    BY <1>a, <1>6 DEF OnControl, MarkAllUnknown
  <2>2. DiscoveryTypeOK' /\ TableIsFresh'
    BY <1>a, <1>6, <2>1 DEF OnControl, TableIsFresh
  <2> QED
    BY <2>2, <1>6, AsideStep DEF OnControl
<1>7. CASE Settle
  <2>1. DiscoveryTypeOK' /\ TableIsFresh'
    BY <1>a, <1>7 DEF Settle, TableIsFresh
  <2> QED
    BY <2>1, <1>7, AsideStep DEF Settle
<1>8. CASE TakeDiscoveryUpdate
  BY <1>8, TakeStep
<1>9. CASE RequestRestart
  <2>1. DiscoveryTypeOK' /\ TableIsFresh'
    BY <1>a, <1>9 DEF RequestRestart, TableIsFresh
  <2> QED
    BY <2>1, <1>9, AsideStep DEF RequestRestart
<1>10. CASE RequestShutdown
  <2>1. DiscoveryTypeOK' /\ TableIsFresh'
    BY <1>a, <1>10 DEF RequestShutdown, TableIsFresh
  <2> QED
    BY <2>1, <1>10, AsideStep DEF RequestShutdown
<1>11. CASE WorldChanges
  <2>1. present' \subseteq Advertisers
    BY <1>a, <1>11 DEF WorldChanges
  <2>2. DiscoveryTypeOK' /\ TableIsFresh'
    BY <1>a, <1>11, <2>1 DEF WorldChanges, TableIsFresh
  <2> QED
    BY <2>2, <1>11, AsideStep DEF WorldChanges
<1>12. CASE UNCHANGED discoveryVars
  <2>1. DiscoveryTypeOK' /\ TableIsFresh'
    BY <1>a, <1>12 DEF discoveryVars, TableIsFresh
  <2> QED
    BY <2>1, <1>12, AsideStep DEF discoveryVars
<1> QED
  BY <1>1, <1>2, <1>3, <1>4, <1>5, <1>6, <1>7, <1>8, <1>9, <1>10, <1>11, <1>12
  DEF DiscoveryNext, DiscoverySupervises

LEMMA DiscoveryHolds == DiscoveryInv => DiscoverySafe
<1> SUFFICES ASSUME DiscoveryInv PROVE DiscoverySafe
  OBVIOUS
<1>1. ASSUME updates = <<>>, ~draining, browse_pc = "stream" PROVE browse_reported \subseteq inventory
  <2>1. \A r \in browse_reported : Arrives(<<>>, Dropping(r), Adding(r, generation), r, inventory)
    BY <1>1 DEF DiscoveryInv, ReportsArrive
  <2> QED
    BY <2>1, ArrivesEmpty
<1>2. NobodyMissed
  BY <1>1 DEF NobodyMissed, CaughtUp
<1>3. TableIsMirrored
  BY <1>1 DEF TableIsMirrored, DiscoveryInv, TableIsFresh
<1>4. ASSUME updates = <<>>, ~draining, browse_pc \in {"browse", "stream"} PROVE shown_phase = "Running"
  <2>1. Arrives(<<>>, Phasing, Starting(generation), shown_phase, {"Running"})
    BY <1>4 DEF DiscoveryInv, PhaseArrives
  <2>2. shown_phase \in {"Running"}
    BY <2>1, ArrivesEmpty
  <2> QED
    BY <2>2
<1>5. ASSUME updates = <<>>, ~draining, browse_pc = "backoff" PROVE shown_phase = "Retrying"
  <2>1. Arrives(<<>>, Phasing, Failing(generation), shown_phase, {"Retrying"})
    BY <1>5 DEF DiscoveryInv, PhaseArrives
  <2>2. shown_phase \in {"Retrying"}
    BY <2>1, ArrivesEmpty
  <2> QED
    BY <2>2
<1> QED
  BY <1>2, <1>3, <1>4, <1>5 DEF DiscoverySafe, DiscoveryInv, PhaseShownTruly

\* The service index keeps no record without a service and hides no castable
\* receiver (browser.rs), and a mirror that caught up misses nobody and shows
\* what the supervisor does, whatever overflowed, failed or was restarted
\* (discovery.rs), for any receivers, names, queue capacity and generations.
THEOREM InventoryIsTrue == IndexSpec /\ DiscoveryRuns => []InventoryTrue
<1>1. IndexInit => IndexSafe
  BY IndexInitially
<1>2. IndexSafe /\ [IndexNext]_indexVars => IndexSafe'
  BY IndexStep
<1>3. DiscoveryInit => DiscoveryInv
  BY DiscoveryInitially
<1>4. DiscoveryInv /\ [DiscoveryNext]_discoveryVars => DiscoveryInv'
  BY DiscoveryStep
<1>5. IndexSafe /\ DiscoveryInv => InventoryTrue
  BY DiscoveryHolds DEF InventoryTrue
<1> QED
  BY <1>1, <1>2, <1>3, <1>4, <1>5, PTL DEF IndexSpec, DiscoveryRuns

-----------------------------------------------------------------------------
(* The deadlines of the recovery policy.                                   *)

TimersSpec == TimersInit /\ [][TimersNext]_timerVars

-----------------------------------------------------------------------------
(* The receiver machine.                                                   *)

\* Every operation leaves a machine behind.
LEMMA MachineTypes ==
  ASSUME NEW m \in Machines
  PROVE  /\ \A b \in BOOLEAN : NewMachine(b) \in Machines
         /\ \A b \in BOOLEAN : SetServiceAvailable(m, b).machine \in Machines
         /\ BeginGeneration(m).machine \in Machines
         /\ \A b \in BOOLEAN : Fail(m, b).machine \in Machines
         /\ RetryNow(m).machine \in Machines
         /\ LeaveSession(m) \in Machines
<1> USE DEF Machines, Lifecycles, Labels, Roles, NoRole
<1>1. \A label \in Labels : Plain(label) \in Lifecycles
  BY DEF Plain
<1>2. \A to \in Lifecycles : Transition(m, to).machine \in Machines
  BY DEF Transition
<1>3. \A b \in BOOLEAN : AtRest(b) \in Lifecycles /\ FailedState(b) \in Lifecycles
  BY DEF AtRest, Plain, FailedState
<1>4. \A b \in BOOLEAN : NewMachine(b) \in Machines
  BY <1>3 DEF NewMachine
<1>5. \A b \in BOOLEAN : SetServiceAvailable(m, b).machine \in Machines
  BY ZenonT(30) DEF SetServiceAvailable, Transition, Done, Plain
<1>6. BeginGeneration(m).machine \in Machines /\ \A b \in BOOLEAN : Fail(m, b).machine \in Machines
  BY ZenonT(30), <1>1, <1>3 DEF BeginGeneration, Fail, Done
<1>7. RetryNow(m).machine \in Machines
  BY <1>1, <1>2 DEF RetryNow, Done
<1>8. LeaveSession(m) \in Machines
  BY <1>3 DEF LeaveSession
<1> QED
  BY <1>4, <1>5, <1>6, <1>7, <1>8

\* Which operations can leave a row waiting for its retry.
LEMMA MachineWaits ==
  ASSUME NEW m \in Machines
  PROVE  /\ \A b \in BOOLEAN : SetServiceAvailable(m, b).machine.state.label = "RetryWaiting"
              => m.state.label = "RetryWaiting"
         /\ BeginGeneration(m).machine.state.label # "RetryWaiting"
         /\ RetryNow(m).machine.state.label # "RetryWaiting"
         /\ LeaveSession(m).state.label = "RetryWaiting" => m.state.label = "RetryWaiting"
<1> USE DEF Machines, Lifecycles, Labels, Roles, NoRole
<1>1. \A b \in BOOLEAN : SetServiceAvailable(m, b).machine.state.label = "RetryWaiting"
        => m.state.label = "RetryWaiting"
  BY DEF SetServiceAvailable, Transition, Done, Plain
<1>2. BeginGeneration(m).machine.state.label # "RetryWaiting"
  BY DEF BeginGeneration, Done, Plain
<1>3. RetryNow(m).machine.state.label # "RetryWaiting"
  BY DEF RetryNow, InBackoff, Transition, Permitted, Done, Plain
<1>4. LeaveSession(m).state.label = "RetryWaiting" => m.state.label = "RetryWaiting"
  BY DEF LeaveSession, AtRest, Plain
<1> QED
  BY <1>1, <1>2, <1>3, <1>4

\* The walk to Streaming ends in a machine that waits for nothing.
LEMMA StreamingWalk ==
  ASSUME NEW m \in Machines, NEW role \in Roles
  PROVE  /\ EnterStreaming(m, role).machine \in Machines
         /\ EnterStreaming(m, role).machine.state.label # "RetryWaiting"
<1> USE DEF Machines, Lifecycles, Labels, Roles, NoRole
<1> DEFINE Walk(n, from, to) ==
             IF n.ok /\ n.machine.state.label = from
             THEN Transition(n.machine, InRole(to, role)) ELSE n
           Good(n) == n.machine \in Machines /\ n.machine.state.label \in OwnedLabels
           anchored == IF OwnedByGeneration(m) THEN m
                       ELSE [m EXCEPT !.state = Plain("Connecting")]
           first == Walk(Done(anchored), "Connecting", "SettingUp")
           ready == Walk(first, "SettingUp", "Ready")
<1>1. Good(Done(anchored))
  BY DEF Done, OwnedByGeneration, OwnedLabels, Plain
<1>2. \A n \in Machines, label \in OwnedLabels :
        /\ Transition(n, InRole(label, role)).machine \in Machines
        /\ n.state.label \in OwnedLabels
             => Transition(n, InRole(label, role)).machine.state.label \in OwnedLabels
  <2> SUFFICES ASSUME NEW n \in Machines, NEW label \in OwnedLabels
               PROVE  /\ Transition(n, InRole(label, role)).machine \in Machines
                      /\ n.state.label \in OwnedLabels
                           => Transition(n, InRole(label, role)).machine.state.label \in OwnedLabels
    OBVIOUS
  <2>1. InRole(label, role) \in Lifecycles /\ InRole(label, role).label = label
    BY DEF InRole, OwnedLabels
  <2>2. /\ [n EXCEPT !.state = InRole(label, role)] \in Machines
        /\ [n EXCEPT !.state = InRole(label, role)].state = InRole(label, role)
    BY <2>1
  <2>3. Transition(n, InRole(label, role)).machine
          \in {n, [n EXCEPT !.state = InRole(label, role)]}
    BY DEF Transition
  <2> QED
    BY <2>1, <2>2, <2>3
<1>3. Good(first)
  BY <1>1, <1>2 DEF OwnedLabels
<1>4. Good(ready)
  <2>1. "Ready" \in OwnedLabels
    BY DEF OwnedLabels
  <2> HIDE DEF first, Machines
  <2>2. ASSUME first.machine.state.label = "SettingUp" PROVE Good(ready)
    <3>1. /\ Transition(first.machine, InRole("Ready", role)).machine \in Machines
          /\ Transition(first.machine, InRole("Ready", role)).machine.state.label \in OwnedLabels
      BY <1>2, <1>3, <2>1
    <3>2. ready \in {first, Transition(first.machine, InRole("Ready", role))}
      OBVIOUS
    <3> HIDE DEF ready
    <3> QED BY <1>3, <3>1, <3>2
  <2>3. ASSUME first.machine.state.label # "SettingUp" PROVE Good(ready)
    BY <1>3, <2>3
  <2> QED BY <2>2, <2>3
<1>5. [ready.machine EXCEPT !.role = role] \in Machines
      /\ [ready.machine EXCEPT !.role = role].state.label \in OwnedLabels
  BY <1>4
<1> DEFINE final == Transition([ready.machine EXCEPT !.role = role], InRole("Streaming", role))
<1>6. Good(final)
  <2>1. "Streaming" \in OwnedLabels
    BY DEF OwnedLabels
  <2> DEFINE n == [ready.machine EXCEPT !.role = role]
  <2>2. n \in Machines /\ n.state.label \in OwnedLabels
    BY <1>5
  <2> HIDE DEF n, Machines
  <2>3. /\ Transition(n, InRole("Streaming", role)).machine \in Machines
        /\ Transition(n, InRole("Streaming", role)).machine.state.label \in OwnedLabels
    BY <1>2, <2>1, <2>2
  <2> QED
    BY <2>3 DEF n
<1>7. m.state = InRole("Streaming", role) => Good(Done(m))
  BY DEF Done, InRole, OwnedLabels
<1>8. Good(EnterStreaming(m, role))
  <2>1. EnterStreaming(m, role) =
          IF m.state = InRole("Streaming", role) THEN Done(m) ELSE IF ~ready.ok THEN ready ELSE final
    BY DEF EnterStreaming
  <2> HIDE DEF ready, final, Good
  <2> QED
    BY <1>4, <1>6, <1>7, <2>1
<1> QED
  BY <1>8 DEF OwnedLabels

\* A failure leaves a failed row, and a retryable one a waiting row.
LEMMA FailureRow ==
  ASSUME NEW m \in Machines, NEW retryable \in BOOLEAN
  PROVE  /\ FailedRow(m, retryable) \in Machines
         /\ ~retryable => FailedRow(m, retryable).state.label # "RetryWaiting"
<1> USE DEF Machines, Lifecycles, Labels, Roles, NoRole
<1>1. /\ Fail(m, retryable).machine \in Machines
      /\ Fail(m, retryable).machine.state.label = "Failed"
  BY DEF Fail, Done, FailedState
<1>2. \A n \in Machines : WaitRetry(n).machine \in Machines
  BY DEF WaitRetry, Transition, Plain
<1> QED
  BY <1>1, <1>2 DEF FailedRow

-----------------------------------------------------------------------------
(* The entries of the recovery policy.                                     *)

Entries == [attempt : 0..MaxAttempt, next : 0..MaxRetryDelay \cup {Never},
            since : 0..HealthyResetAfter \cup {Never}]

\* The ladder is indexed inside its bounds for every attempt number, and no
\* hash scales a delay below zero or above its cap.
LEMMA DelayBounded ==
  ASSUME NEW n \in Nat, NEW hash \in Hashes
  PROVE  Delay(n, hash) \in 0..MaxRetryDelay
<1> USE TimersAssumption
<1> DEFINE i == AtMost(n, Len(Base) - 1) + 1
           factor == 100 + hash - JitterPercent
<1>1. i \in 1..Len(Base)
  BY DEF AtMost
<1>2. Base[i] \in Nat
  BY <1>1
<1>3. factor \in Nat
  BY DEF Hashes
<1> HIDE DEF i, factor
<1>4. Base[i] * factor \in Nat
  BY <1>2, <1>3
<1>5. (Base[i] * factor) \div 100 \in Nat
  BY <1>4
<1>6. AtMost((Base[i] * factor) \div 100, MaxRetryDelay) \in 0..MaxRetryDelay
  BY <1>5 DEF AtMost
<1> QED
  BY <1>6 DEF Delay, ScaleWithHash, i, factor

\* Every operation on an entry leaves an entry; a failure leaves a deadline.
LEMMA EntryOps ==
  ASSUME NEW e \in Entries
  PROVE  /\ NoteStreaming(e) \in Entries /\ ClearDeadline(e) \in Entries
         /\ \A hash \in Hashes :
              /\ NoteFailure(e, hash) \in Entries /\ NoteFailure(e, hash).next # Never
         /\ \A hash \in Hashes, b \in BOOLEAN :
              /\ FailedEntry(e, b, hash) \in Entries
              /\ b => FailedEntry(e, b, hash).next # Never
<1> USE TimersAssumption
<1>1. ASSUME NEW f \in Entries PROVE NoteStreaming(f) \in Entries
  <2>1. [f EXCEPT !.since = 0] \in Entries /\ [f EXCEPT !.attempt = 0, !.next = Never] \in Entries
    <3>1. 0 \in 0..HealthyResetAfter /\ 0 \in 0..MaxAttempt
      OBVIOUS
    <3> QED
      BY <3>1 DEF Entries
  <2>2. NoteStreaming(f) \in {f, [f EXCEPT !.since = 0], [f EXCEPT !.attempt = 0, !.next = Never]}
    BY DEF NoteStreaming
  <2> QED
    BY <2>1, <2>2
<1>2. ClearDeadline(e) \in Entries
  BY DEF ClearDeadline, Entries
<1>3. ASSUME NEW f \in Entries, NEW hash \in Hashes
      PROVE  NoteFailure(f, hash) \in Entries /\ NoteFailure(f, hash).next # Never
  <2> DEFINE n == AtMost(f.attempt + 1, MaxAttempt)
  <2>1. n \in 1..MaxAttempt /\ n - 1 \in Nat
    BY DEF AtMost, Entries
  <2>2. Delay(n - 1, hash) \in 0..MaxRetryDelay
    BY <2>1, DelayBounded
  <2>3. NoteFailure(f, hash) = [attempt |-> n, next |-> Delay(n - 1, hash), since |-> Never]
    BY DEF NoteFailure
  <2> HIDE DEF n
  <2> QED
    BY <2>1, <2>2, <2>3 DEF Entries, Never
<1>4. ASSUME NEW hash \in Hashes, NEW b \in BOOLEAN
      PROVE  FailedEntry(e, b, hash) \in Entries /\ (b => FailedEntry(e, b, hash).next # Never)
  BY <1>1, <1>3 DEF FailedEntry
<1> QED
  BY <1>1, <1>2, <1>3, <1>4

\* The table as a whole: SetEntries stores what it is given.
LEMMA EntriesStored ==
  ASSUME NEW after, \A r \in Receivers : after[r] \in Entries, SetEntries(after)
  PROVE  ReceiverRetryEntry' /\ \A r \in Receivers : next_retry'[r] = after[r].next
BY DEF SetEntries, ReceiverRetryEntry, Entries

\* And Entry reads it back.
LEMMA EntryTyped ==
  ASSUME ReceiverRetryEntry, NEW r \in Receivers
  PROVE  Entry(r) \in Entries /\ Entry(r).next = next_retry[r]
BY DEF ReceiverRetryEntry, Entry, Entries

\* What a reconcile does to the session's side of the state.
LEMMA ReconcileTyped ==
  ASSUME NEW table, TimersTypeOK, Reconcile(table)
  PROVE  /\ asked' \in SUBSET Receivers /\ awaited' \in {"none", "queued", "starting"}
         /\ stopping' \in BOOLEAN
<1>1. stopping' = stopping
  BY DEF Reconcile
<1>2. /\ asked' \in {asked, WantedNow(table), {}}
      /\ awaited' \in {awaited, "queued"}
  BY DEF Reconcile
<1>3. WantedNow(table) \in SUBSET Receivers
  BY DEF WantedNow
<1> QED
  BY <1>1, <1>2, <1>3 DEF TimersTypeOK

-----------------------------------------------------------------------------
(* The tables an action builds.                                            *)

\* Released rows wait for nothing, so their deadline may go.
LEMMA ReleaseKeeps ==
  ASSUME TimersSafe, NEW S \in SUBSET Receivers, SetEntries(EntryCleared(S)), row' = Released(S)
  PROVE  ReceiverRetryEntry' /\ row' \in [Receivers -> Machines] /\ WaitingHasDeadline'
<1>t. ReceiverRetryEntry /\ row \in [Receivers -> Machines] /\ WaitingHasDeadline
  BY DEF TimersSafe, TimersTypeOK
<1>1. \A r \in Receivers : EntryCleared(S)[r] \in Entries
  BY <1>t, EntryTyped, EntryOps DEF EntryCleared
<1>2. ReceiverRetryEntry' /\ \A r \in Receivers : next_retry'[r] = EntryCleared(S)[r].next
  BY <1>1, EntriesStored
<1>3. row' \in [Receivers -> Machines]
  BY <1>t, MachineTypes DEF Released
<1>4. ASSUME NEW r \in Receivers, row'[r].state.label = "RetryWaiting"
      PROVE  next_retry'[r] # Never
  <2>1. r \notin S
    BY <1>t, <1>4, MachineWaits DEF Released
  <2>2. row'[r] = row[r] /\ next_retry'[r] = next_retry[r]
    BY <1>t, <1>2, <2>1, EntryTyped DEF Released, EntryCleared
  <2> QED
    BY <1>t, <1>4, <2>2 DEF WaitingHasDeadline
<1> QED
  BY <1>2, <1>3, <1>4 DEF WaitingHasDeadline

\* Rows that move without their entries.
LEMMA RowsMove ==
  ASSUME TimersSafe, UNCHANGED entries, row' \in [Receivers -> Machines],
         \A r \in Receivers : row'[r].state.label = "RetryWaiting"
                                => row[r].state.label = "RetryWaiting"
  PROVE  ReceiverRetryEntry' /\ WaitingHasDeadline'
BY DEF entries, TimersSafe, TimersTypeOK, ReceiverRetryEntry, WaitingHasDeadline

-----------------------------------------------------------------------------
(* The invariant.  TimersSafe is inductive as it stands.                   *)

\* At the start nobody waits.
LEMMA TimersInitially == TimersInit => TimersSafe
<1> SUFFICES ASSUME TimersInit PROVE TimersSafe
  OBVIOUS
<1> USE TimersAssumption DEF TimersInit
<1>1. ReceiverRetryEntry /\ RejoinRestartLimiter
  BY DEF ReceiverRetryEntry, RejoinRestartLimiter
<1>2. /\ NewMachine(TRUE) \in Machines /\ NewMachine(TRUE).state.label = "Discovered"
  BY DEF NewMachine, AtRest, Plain, Machines, Lifecycles, Labels, Roles, NoRole
<1>3. row \in [Receivers -> Machines] /\ WaitingHasDeadline
  BY <1>2 DEF WaitingHasDeadline
<1>4. wantsRun \in BOOLEAN /\ asleep \in BOOLEAN /\ stopping \in BOOLEAN
  OBVIOUS
<1>5. /\ asked \in SUBSET Receivers /\ awaited \in {"none", "queued", "starting"}
      /\ auto_until \in 0..AutoWindow \cup {Never} /\ outside \in Nat
  OBVIOUS
<1>6. TimersTypeOK
  BY <1>1, <1>3, <1>4, <1>5 DEF TimersTypeOK
<1> QED
  BY <1>3, <1>6 DEF TimersSafe

\* One case per action.
LEMMA TimersStep == TimersSafe /\ [TimersNext]_timerVars => TimersSafe'
<1> SUFFICES ASSUME TimersSafe, [TimersNext]_timerVars PROVE TimersSafe'
  OBVIOUS
<1> USE TimersAssumption
<1>t. /\ TimersTypeOK /\ WaitingHasDeadline /\ ReceiverRetryEntry /\ RejoinRestartLimiter
      /\ row \in [Receivers -> Machines]
      /\ wantsRun \in BOOLEAN /\ asleep \in BOOLEAN /\ stopping \in BOOLEAN
      /\ asked \in SUBSET Receivers /\ awaited \in {"none", "queued", "starting"}
      /\ auto_until \in 0..AutoWindow \cup {Never} /\ outside \in Nat
  BY DEF TimersSafe, TimersTypeOK
<1>q. ASSUME ReceiverRetryEntry', RejoinRestartLimiter', row' \in [Receivers -> Machines],
             WaitingHasDeadline',
             wantsRun' \in BOOLEAN /\ asleep' \in BOOLEAN /\ stopping' \in BOOLEAN,
             asked' \in SUBSET Receivers /\ awaited' \in {"none", "queued", "starting"},
             auto_until' \in 0..AutoWindow \cup {Never} /\ outside' \in Nat
      PROVE  TimersSafe'
  BY <1>q DEF TimersSafe, TimersTypeOK
<1>o. Outside => outside' \in Nat
  BY <1>t DEF Outside
<1>l. /\ UNCHANGED limiter => RejoinRestartLimiter'
      /\ (online_since' = online_since /\ last_restart' \in {0, last_restart})
           => RejoinRestartLimiter'
  BY <1>t DEF limiter, RejoinRestartLimiter
<1>s. UNCHANGED sessionSide =>
        /\ asked' \in SUBSET Receivers /\ awaited' \in {"none", "queued", "starting"}
        /\ stopping' \in BOOLEAN
  BY <1>t DEF sessionSide
<1>e. UNCHANGED <<entries, row>> => ReceiverRetryEntry' /\ WaitingHasDeadline'
  BY <1>t DEF entries, ReceiverRetryEntry, WaitingHasDeadline
<1>1. CASE FireDueRetries
  <2>1. /\ SetEntries(EntryCleared(Due)) /\ row' = Released(Due) /\ last_restart' = 0
        /\ UNCHANGED <<online_since, wantsRun, asleep, auto_until, outside>>
        /\ Reconcile(row') /\ Due \in SUBSET Receivers
    BY <1>1 DEF FireDueRetries, Due
  <2> QED
    BY <1>t, <1>q, <1>l, <2>1, ReleaseKeeps, ReconcileTyped
<1>2. CASE AutoConnect
  <2>1. /\ auto_until' = Never /\ wantsRun' = TRUE
        /\ UNCHANGED <<entries, limiter, row, asleep, outside>>
        /\ UNCHANGED sessionSide \/ Reconcile(row)
    BY <1>2 DEF AutoConnect
  <2>2. /\ asked' \in SUBSET Receivers /\ awaited' \in {"none", "queued", "starting"}
        /\ stopping' \in BOOLEAN
    BY <1>t, <1>s, <2>1, ReconcileTyped
  <2> QED
    BY <1>t, <1>q, <1>l, <1>e, <2>1, <2>2
<1>3. CASE TakeStarting
  <2>1. /\ awaited' = "starting"
        /\ row' = [r \in Receivers |-> IF r \in asked THEN BeginGeneration(row[r]).machine
                                       ELSE row[r]]
        /\ UNCHANGED <<entries, limiter, wantsRun, asleep, asked, stopping, auto_until, outside>>
    BY <1>3 DEF TakeStarting
  <2>2. row' \in [Receivers -> Machines]
    BY <1>t, <2>1, MachineTypes
  <2>3. \A r \in Receivers : row'[r].state.label = "RetryWaiting"
                               => row[r].state.label = "RetryWaiting"
    BY <1>t, <2>1, MachineWaits
  <2> QED
    BY <1>t, <1>q, <1>l, <2>1, <2>2, <2>3, RowsMove
<1>4. CASE TakeActive
  <2>0. /\ awaited' = "none"
        /\ UNCHANGED <<limiter, wantsRun, asleep, asked, stopping, auto_until, outside>>
    BY <1>4 DEF TakeActive
  <2>1. PICK members \in SUBSET asked, hash \in [Receivers -> Hashes] :
          \E hopeless \in SUBSET (asked \ members), primary \in members :
            LET RoleIn(r) == IF members = {r} THEN "Single"
                             ELSE IF r = primary THEN "Primary" ELSE "Secondary"
            IN  /\ row' = [r \in Receivers |->
                      CASE r \in members -> EnterStreaming(row[r], RoleIn(r)).machine
                        [] r \in asked \ members -> FailedRow(row[r], r \notin hopeless)
                        [] OTHER -> row[r]]
                /\ SetEntries([r \in Receivers |->
                      CASE r \in members -> NoteStreaming(Entry(r))
                        [] r \in asked \ members ->
                             FailedEntry(Entry(r), r \notin hopeless, hash[r])
                        [] OTHER -> Entry(r)])
    BY <1>4 DEF TakeActive
  <2>2. PICK hopeless \in SUBSET (asked \ members), primary \in members :
          LET RoleIn(r) == IF members = {r} THEN "Single"
                           ELSE IF r = primary THEN "Primary" ELSE "Secondary"
          IN  /\ row' = [r \in Receivers |->
                    CASE r \in members -> EnterStreaming(row[r], RoleIn(r)).machine
                      [] r \in asked \ members -> FailedRow(row[r], r \notin hopeless)
                      [] OTHER -> row[r]]
              /\ SetEntries([r \in Receivers |->
                    CASE r \in members -> NoteStreaming(Entry(r))
                      [] r \in asked \ members ->
                           FailedEntry(Entry(r), r \notin hopeless, hash[r])
                      [] OTHER -> Entry(r)])
    BY <2>1
  <2> DEFINE RoleIn(r) == IF members = {r} THEN "Single"
                          ELSE IF r = primary THEN "Primary" ELSE "Secondary"
             after == [r \in Receivers |->
                    CASE r \in members -> NoteStreaming(Entry(r))
                      [] r \in asked \ members ->
                           FailedEntry(Entry(r), r \notin hopeless, hash[r])
                      [] OTHER -> Entry(r)]
  <2>3. /\ \A r \in members :
             row'[r] = EnterStreaming(row[r], RoleIn(r)).machine /\ RoleIn(r) \in Roles
        /\ \A r \in asked \ members : row'[r] = FailedRow(row[r], r \notin hopeless)
        /\ \A r \in Receivers \ asked : row'[r] = row[r]
        /\ DOMAIN row' = Receivers
        /\ SetEntries(after)
    BY <1>t, <2>2 DEF Roles
  <2>4. /\ \A r \in members : after[r] = NoteStreaming(Entry(r))
        /\ \A r \in asked \ members : after[r] = FailedEntry(Entry(r), r \notin hopeless, hash[r])
        /\ \A r \in Receivers \ asked : after[r] = Entry(r)
    BY <1>t
  <2> HIDE DEF after, RoleIn
  <2>5. \A r \in Receivers : r \in members \/ r \in asked \ members \/ r \in Receivers \ asked
    OBVIOUS
  <2>6. ASSUME NEW r \in Receivers
        PROVE  /\ row'[r] \in Machines /\ after[r] \in Entries
               /\ row'[r].state.label = "RetryWaiting" => after[r].next # Never
    <3>0. row[r] \in Machines /\ Entry(r) \in Entries /\ hash[r] \in Hashes
          /\ Entry(r).next = next_retry[r]
      BY <1>t, EntryTyped
    <3>1. CASE r \in members
      BY <2>3, <2>4, <3>0, <3>1, StreamingWalk, EntryOps
    <3>2. CASE r \in asked \ members
      <4>1. (r \notin hopeless) \in BOOLEAN
        OBVIOUS
      <4>2. row'[r] = FailedRow(row[r], r \notin hopeless)
            /\ after[r] = FailedEntry(Entry(r), r \notin hopeless, hash[r])
        BY <2>3, <2>4, <3>2
      <4> QED
        BY <3>0, <4>1, <4>2, FailureRow, EntryOps
    <3>3. CASE r \in Receivers \ asked
      BY <1>t, <2>3, <2>4, <3>0, <3>3 DEF WaitingHasDeadline
    <3> QED
      BY <2>5, <3>1, <3>2, <3>3
  <2>7. row' \in [Receivers -> Machines]
    <3>1. row' = [r \in Receivers |-> row'[r]]
      BY <2>2
    <3> QED
      BY <2>6, <3>1
  <2>8. ReceiverRetryEntry' /\ \A r \in Receivers : next_retry'[r] = after[r].next
    BY <2>3, <2>6, EntriesStored
  <2>9. WaitingHasDeadline'
    BY <2>6, <2>8 DEF WaitingHasDeadline
  <2> QED
    BY <1>t, <1>q, <1>l, <2>0, <2>7, <2>8, <2>9
<1>5. CASE TakeRecovering
  BY <1>5, <1>t, <1>q, <1>l, <1>e DEF TakeRecovering
<1>6. CASE TakeMemberFailed
  <2>0. /\ outside' \in Nat /\ UNCHANGED <<online_since, wantsRun, asleep, auto_until>>
    BY <1>6, <1>o DEF TakeMemberFailed
  <2>1. PICK r \in Streaming(row), hash \in Hashes :
          /\ row' = [row EXCEPT ![r] = FailedRow(@, TRUE)]
          /\ SetEntries([q \in Receivers |-> IF q = r THEN FailedEntry(Entry(q), TRUE, hash)
                                             ELSE Entry(q)])
          /\ IF row[r].role \in {"Primary", "Single"}
             THEN last_restart' = 0 /\ Reconcile(row')
             ELSE UNCHANGED <<last_restart, sessionSide>>
    BY <1>6 DEF TakeMemberFailed
  <2> DEFINE after == [q \in Receivers |-> IF q = r THEN FailedEntry(Entry(q), TRUE, hash)
                                           ELSE Entry(q)]
  <2>2. r \in Receivers
    BY DEF Streaming
  <2>3. row' \in [Receivers -> Machines]
    BY <1>t, <2>1, <2>2, FailureRow
  <2>4. \A q \in Receivers : after[q] \in Entries
    BY <1>t, EntryTyped, EntryOps
  <2>5. SetEntries(after)
    BY <2>1
  <2>6. \A q \in Receivers : after[q].next = IF q = r THEN FailedEntry(Entry(q), TRUE, hash).next
                                             ELSE Entry(q).next
    OBVIOUS
  <2> HIDE DEF after
  <2>7. ReceiverRetryEntry' /\ \A q \in Receivers : next_retry'[q] = after[q].next
    BY <2>4, <2>5, EntriesStored
  <2>8. ASSUME NEW q \in Receivers, row'[q].state.label = "RetryWaiting"
        PROVE  next_retry'[q] # Never
    <3>1. CASE q = r
      BY <1>t, <2>2, <2>6, <2>7, <3>1, EntryTyped, EntryOps
    <3>2. CASE q # r
      BY <1>t, <2>1, <2>6, <2>7, <2>8, <3>2, EntryTyped DEF WaitingHasDeadline
    <3> QED
      BY <3>1, <3>2
  <2>9. /\ last_restart' \in {0, last_restart}
        /\ Reconcile(row') \/ UNCHANGED sessionSide
    BY <2>1
  <2>10. /\ asked' \in SUBSET Receivers /\ awaited' \in {"none", "queued", "starting"}
         /\ stopping' \in BOOLEAN
    BY <1>t, <1>s, <2>9, ReconcileTyped
  <2>11. WaitingHasDeadline'
    BY <2>8 DEF WaitingHasDeadline
  <2> QED
    BY <1>t, <1>q, <1>l, <2>0, <2>3, <2>7, <2>9, <2>10, <2>11
<1>7. CASE TakeStopped
  <2>1. /\ stopping' = FALSE /\ awaited' \in {awaited, "none"}
        /\ row' = [r \in Receivers |-> LeaveSession(row[r])]
        /\ UNCHANGED <<entries, limiter, wantsRun, asleep, asked, auto_until, outside>>
    BY <1>7 DEF TakeStopped
  <2>2. row' \in [Receivers -> Machines]
    BY <1>t, <2>1, MachineTypes
  <2>3. \A r \in Receivers : row'[r].state.label = "RetryWaiting"
                               => row[r].state.label = "RetryWaiting"
    BY <1>t, <2>1, MachineWaits
  <2>4. stopping' \in BOOLEAN
    BY <2>1
  <2> QED
    BY <1>t, <1>q, <1>l, <2>1, <2>2, <2>3, <2>4, RowsMove
<1>8. CASE ServiceChanges
  <2>0. /\ outside' \in Nat
        /\ UNCHANGED <<entries, last_restart, wantsRun, asleep, sessionSide, auto_until>>
    BY <1>8, <1>o DEF ServiceChanges
  <2>1. PICK r \in Receivers :
          /\ online_since' = [online_since EXCEPT ![r] = IF online_since[r] = Never THEN 0 ELSE Never]
          /\ row' = [row EXCEPT ![r] = SetServiceAvailable(@, online_since[r] = Never).machine]
    BY <1>8 DEF ServiceChanges
  <2>2. (online_since[r] = Never) \in BOOLEAN
    OBVIOUS
  <2>3. row' \in [Receivers -> Machines]
    BY <1>t, <2>1, <2>2, MachineTypes
  <2>4. \A q \in Receivers : row'[q].state.label = "RetryWaiting"
                               => row[q].state.label = "RetryWaiting"
    BY <1>t, <2>1, <2>2, MachineWaits
  <2>5. RejoinRestartLimiter'
    BY <1>t, <2>0, <2>1 DEF RejoinRestartLimiter
  <2> QED
    BY <1>t, <1>q, <1>s, <2>0, <2>3, <2>4, <2>5, RowsMove
<1>9. CASE RunIntentChanges
  <2>1. /\ outside' \in Nat /\ auto_until' = Never /\ wantsRun' = ~wantsRun
        /\ UNCHANGED <<entries, limiter, row, asleep>> /\ Reconcile(row)
    BY <1>9, <1>o DEF RunIntentChanges
  <2>2. wantsRun' \in BOOLEAN
    BY <1>t, <2>1
  <2> QED
    BY <1>t, <1>q, <1>l, <1>e, <2>1, <2>2, ReconcileTyped
<1>10. CASE RetryReceiver
  <2>1. PICK r \in Receivers : SetEntries(EntryCleared({r})) /\ row' = Released({r})
    BY <1>10 DEF RetryReceiver
  <2>2. /\ outside' \in Nat /\ UNCHANGED <<limiter, wantsRun, asleep, auto_until>>
        /\ Reconcile(row') /\ {r} \in SUBSET Receivers
    BY <1>10, <1>o DEF RetryReceiver
  <2> QED
    BY <1>t, <1>q, <1>l, <2>1, <2>2, ReleaseKeeps, ReconcileTyped
<1>11. CASE Sleep
  <2>1. /\ outside' \in Nat /\ asleep' = TRUE /\ awaited' = "none"
        /\ stopping' = (stopping \/ awaited # "none" \/ Streaming(row) # {})
        /\ UNCHANGED <<entries, limiter, row, wantsRun, asked, auto_until>>
    BY <1>11, <1>o DEF Sleep
  <2>2. asleep' \in BOOLEAN /\ stopping' \in BOOLEAN
    BY <2>1
  <2> QED
    BY <1>t, <1>q, <1>l, <1>e, <2>1, <2>2
<1>12. CASE Rebuild
  <2>1. /\ outside' \in Nat /\ asleep' = FALSE
        /\ SetEntries(EntryCleared(Waiting)) /\ row' = Released(Waiting)
        /\ UNCHANGED <<online_since, wantsRun, auto_until>>
        /\ last_restart' \in {0, last_restart}
        /\ Reconcile(row') \/ UNCHANGED sessionSide
    BY <1>12, <1>o DEF Rebuild, ReleaseBackoff
  <2>2. Waiting \in SUBSET Receivers
    BY DEF Waiting
  <2>3. /\ asked' \in SUBSET Receivers /\ awaited' \in {"none", "queued", "starting"}
        /\ stopping' \in BOOLEAN
    BY <1>t, <1>s, <2>1, ReconcileTyped
  <2>4. asleep' \in BOOLEAN
    BY <2>1
  <2> QED
    BY <1>t, <1>q, <1>l, <2>1, <2>2, <2>3, <2>4, ReleaseKeeps
<1>13. CASE Elapse
  <2>0. /\ next_retry' = [r \in Receivers |-> Sooner(next_retry[r])]
        /\ streaming_since' = [r \in Receivers |-> Older(streaming_since[r], HealthyResetAfter)]
        /\ online_since' = [r \in Receivers |-> Older(online_since[r], StableFor)]
        /\ last_restart' = Older(last_restart, Spacing)
        /\ auto_until' = IF auto_until <= 0 THEN Never ELSE auto_until - 1
        /\ UNCHANGED <<attempt, row, wantsRun, asleep, sessionSide, outside>>
    BY <1>13 DEF Elapse
  <2>1. ASSUME NEW cap \in Nat, NEW x \in 0..cap \cup {Never}
        PROVE  /\ Sooner(x) \in 0..cap \cup {Never} /\ Older(x, cap) \in 0..cap \cup {Never}
               /\ x # Never => Sooner(x) # Never
    BY DEF Sooner, Older, AtLeast, AtMost, Never
  <2>2. ReceiverRetryEntry'
    BY <1>t, <2>0, <2>1 DEF ReceiverRetryEntry
  <2>3. RejoinRestartLimiter'
    BY <1>t, <2>0, <2>1 DEF RejoinRestartLimiter
  <2>4. auto_until' \in 0..AutoWindow \cup {Never}
    BY <1>t, <2>0 DEF Never
  <2>5. WaitingHasDeadline'
    BY <1>t, <2>0, <2>1 DEF WaitingHasDeadline, ReceiverRetryEntry
  <2> QED
    BY <1>t, <1>q, <1>s, <2>0, <2>2, <2>3, <2>4, <2>5
<1>14. CASE UNCHANGED timerVars
  <2>1. /\ UNCHANGED <<entries, row>> /\ UNCHANGED limiter /\ UNCHANGED sessionSide
        /\ UNCHANGED <<wantsRun, asleep, auto_until, outside>>
    BY <1>14 DEF timerVars, entries, limiter, sessionSide
  <2> QED
    BY <1>t, <1>q, <1>l, <1>e, <1>s, <2>1
<1> QED
  BY <1>1, <1>2, <1>3, <1>4, <1>5, <1>6, <1>7, <1>8, <1>9, <1>10, <1>11, <1>12, <1>13, <1>14
  DEF TimersNext, SessionEdge

\* Whatever fails, flaps, sleeps or is retried: every deadline is within
\* MAX_RETRY_DELAY, every window within the span it is compared with, and a row
\* shown as waiting for its retry has a deadline that will release it.
THEOREM DeadlinesBounded == TimersSpec => []TimersSafe
BY TimersInitially, TimersStep, PTL DEF TimersSpec

\* The timer arms make progress: a rejoin arm that fired finds nobody due at
\* that instant, since the restart it counted spaces the next one, and the
\* auto-connect arm disarms itself.
THEOREM ArmsMakeProgress == TimersSpec => ArmsDoNotSpin
<1>1. ASSUME TimersSafe, TimersSafe', FireDueRetries PROVE Due' = {}
  <2>1. last_restart' = 0 /\ Spacing \in Nat \ {0}
    BY <1>1, TimersAssumption DEF FireDueRetries
  <2>2. ASSUME NEW r \in Receivers PROVE RejoinIn(r)' # 0
    <3>1. /\ online_since'[r] \in 0..StableFor \cup {Never} /\ StableFor \in Nat
          /\ next_retry'[r] \in 0..MaxRetryDelay \cup {Never} /\ MaxRetryDelay \in Nat
      BY <1>1, TimersAssumption
      DEF TimersSafe, TimersTypeOK, ReceiverRetryEntry, RejoinRestartLimiter
    <3>2. GroupAllowedIn' = Spacing
      BY <2>1 DEF GroupAllowedIn, Never
    <3>3. EligibleIn(r)' \in Int /\ next_retry'[r] \in Int
      BY <3>1 DEF EligibleIn, AtMost, Never
    <3>4. \A x, y \in Int : AtLeast(AtLeast(x, y), Spacing) # 0
      BY <2>1 DEF AtLeast
    <3>5. Never # 0
      BY DEF Never
    <3> QED
      BY <3>2, <3>3, <3>4, <3>5 DEF RejoinIn
  <2> QED
    BY <2>2 DEF Due
<1>2. ASSUME AutoConnect PROVE AutoConnectIn' # 0
  <2>1. auto_until' = Never /\ 0..Never = {} /\ Never # 0
    BY <1>2 DEF AutoConnect, Never
  <2>2. AutoConnectIn' = Never
    BY <2>1 DEF AutoConnectIn
  <2> QED
    BY <2>1, <2>2
<1>3. TimersSafe /\ TimersSafe' =>
        [/\ FireDueRetries => Due' = {}
         /\ AutoConnect => AutoConnectIn' # 0]_timerVars
  BY <1>1, <1>2
<1> QED
  BY <1>3, DeadlinesBounded, PTL DEF ArmsDoNotSpin

-----------------------------------------------------------------------------
(* The listening tones and the capture generations.                         *)

BridgeSpec == BridgeInit /\ [][BridgeNext]_bridgeVars

CaptureSpec == CaptureInit /\ [][CaptureNext]_captureVars

-----------------------------------------------------------------------------
(* The bridge's inductive invariant.                                       *)

Frames == [kind : {"tone", "click", "live", "silence"}, id : 0..MaxTones]

\* Types, with the bounds the tones in the queue need.
BridgeTyped ==
  /\ live \in 0..PcmCapacity /\ clicks \in 0..PcmCapacity
  /\ decoder \in Seq(Frames) /\ Len(decoder) <= PcmCapacity
  /\ BridgeThread /\ ActiveListeningTone /\ ListeningTestGuard
  /\ tests \in 0..MaxTones
  /\ starting <= tests /\ tone_inbox <= tests /\ tone.id <= tests
  /\ tone.id # 0 => tone.left # 0
  /\ pending_drops \in Nat /\ dropped_total \in Nat /\ reported \in Nat

\* A claimed or waiting tone has no frame in the queue yet, so its first one
\* cannot join up with older ones.
TonesNumbered ==
  \A i \in 1..Len(decoder) : decoder[i].kind = "tone" =>
    /\ decoder[i].id \in 1..tests
    /\ decoder[i].id # starting /\ decoder[i].id # tone_inbox

\* The run of the playing tone is still open: nothing else was queued after it.
RunStaysOpen ==
  \A i \in 1..Len(decoder) : decoder[i].kind = "tone" /\ decoder[i].id = tone.id
    => \A j \in i..Len(decoder) : decoder[j].kind = "tone"

\* One tone at a time, and the flag says whether there is one.
OneTone ==
  /\ bridge = "ended" => tone.id = 0
  /\ bridge = "running" =>
       /\ tone_active <=> (starting # 0 \/ tone_inbox # 0 \/ tone.id # 0)
       /\ starting # 0 => tone_inbox = 0 /\ tone.id = 0
       /\ tone_inbox # 0 => tone.id = 0

\* The authorisation of a tone, from its claim to its last frame.
GuardHeld ==
  /\ starting # 0 => config # 0
  /\ bridge = "running" /\ tone_inbox # 0 /\ tone_inbox \notin revoked
       => tone_inbox = authorised /\ config # 0
  /\ ToneIsAuthorised

BridgeInv ==
  /\ BridgeTyped /\ TonesNumbered /\ RunStaysOpen /\ OneTone /\ GuardHeld
  /\ ToneUnmixed /\ DropsAccounted

-----------------------------------------------------------------------------
(* The delivery of one frame.                                              *)

\* A frame is appended and at most the oldest one makes room for it.
LEMMA ForwardQueues ==
  ASSUME NEW frame \in Frames, BridgeTyped, Forward(frame)
  PROVE  /\ decoder' \in Seq(Frames) /\ Len(decoder') <= PcmCapacity
         /\ Len(decoder') >= 1 /\ decoder'[Len(decoder')] = frame
         /\ \E k \in {0, 1} :
              /\ Len(decoder') = Len(decoder) + 1 - k
              /\ \A i \in 1..(Len(decoder') - 1) :
                   i + k \in 1..Len(decoder) /\ decoder'[i] = decoder[i + k]
<1> USE BridgeAssumption
<1>1. decoder \in Seq(Frames) /\ Len(decoder) <= PcmCapacity /\ Len(decoder) \in Nat
  BY DEF BridgeTyped
<1>2. CASE Len(decoder) < PcmCapacity
  <2>1. decoder' = Append(decoder, frame)
    BY <1>2 DEF Forward
  <2> QED
    BY <1>1, <1>2, <2>1
<1>3. CASE ~(Len(decoder) < PcmCapacity)
  <2>1. decoder' = Append(Tail(decoder), frame) /\ decoder # <<>>
    BY <1>1, <1>3 DEF Forward
  <2>2. /\ Tail(decoder) \in Seq(Frames) /\ Len(Tail(decoder)) = Len(decoder) - 1
        /\ \A i \in 1..(Len(decoder) - 1) : Tail(decoder)[i] = decoder[i + 1]
    BY <1>1, <2>1
  <2>3. /\ decoder' \in Seq(Frames) /\ Len(decoder') = Len(Tail(decoder)) + 1
        /\ decoder'[Len(decoder')] = frame
        /\ \A i \in 1..Len(Tail(decoder)) : decoder'[i] = Tail(decoder)[i]
    BY <2>1, <2>2
  <2>4. Len(decoder') = Len(decoder) /\ Len(decoder) \in Nat \ {0} /\ 1 \in {0, 1}
    BY <1>1, <1>3, <2>1, <2>2, <2>3
  <2>5. \A i \in 1..(Len(decoder') - 1) :
          i + 1 \in 1..Len(decoder) /\ decoder'[i] = decoder[i + 1]
    BY <2>2, <2>3, <2>4
  <2> QED
    BY <1>1, <2>3, <2>4, <2>5
<1> QED
  BY <1>2, <1>3

\* A flush moves what is pending to what was reported, or leaves it.
LEMMA FlushKeeps ==
  ASSUME NEW pending \in Nat, NEW total \in Nat, reported \in Nat,
         reported + pending = total, FlushDrops(pending, total)
  PROVE  pending_drops' \in Nat /\ reported' \in Nat /\ reported' + pending_drops' = total
BY DEF FlushDrops

\* Evictions stay on the books.
LEMMA ForwardCounts ==
  ASSUME NEW frame, BridgeTyped, DropsAccounted, Forward(frame)
  PROVE  /\ in_eviction_run' \in BOOLEAN
         /\ pending_drops' \in Nat /\ dropped_total' \in Nat /\ reported' \in Nat
         /\ DropsAccounted'
<1>1. /\ pending_drops \in Nat /\ dropped_total \in Nat /\ reported \in Nat
      /\ reported + pending_drops = dropped_total
  BY DEF BridgeTyped, DropsAccounted
<1>2. CASE Len(decoder) < PcmCapacity
  <2>1. /\ in_eviction_run' = FALSE /\ dropped_total' = dropped_total
        /\ \/ FlushDrops(pending_drops, dropped_total)
           \/ pending_drops' = pending_drops /\ reported' = reported
    BY <1>2 DEF Forward
  <2> QED
    BY <1>1, <2>1, FlushKeeps DEF DropsAccounted
<1>3. CASE ~(Len(decoder) < PcmCapacity)
  <2>1. /\ in_eviction_run' = TRUE /\ dropped_total' = dropped_total + 1
        /\ \/ FlushDrops(pending_drops + 1, dropped_total + 1)
           \/ pending_drops' = pending_drops + 1 /\ reported' = reported
    BY <1>3 DEF Forward
  <2>2. /\ pending_drops + 1 \in Nat /\ dropped_total + 1 \in Nat
        /\ reported + (pending_drops + 1) = dropped_total + 1
    BY <1>1
  <2> QED
    BY <1>1, <2>1, <2>2, FlushKeeps DEF DropsAccounted
<1> QED
  BY <1>2, <1>3

\* A frame that is no tone closes every run: allowed only while none plays.
LEMMA ForwardOther ==
  ASSUME BridgeInv, NEW kind \in {"click", "live", "silence"}, LiveTurn,
         Forward(Frame(kind, 0)), UNCHANGED <<bridge, toneVars, config>>,
         live' \in 0..PcmCapacity, clicks' \in 0..PcmCapacity
  PROVE  BridgeInv'
<1> USE BridgeAssumption
<1>1. Frame(kind, 0) \in Frames /\ Frame(kind, 0).kind # "tone"
  BY DEF Frame, Frames
<1>2. /\ decoder' \in Seq(Frames) /\ Len(decoder') <= PcmCapacity
      /\ Len(decoder') >= 1 /\ decoder'[Len(decoder')] = Frame(kind, 0)
  BY <1>1, ForwardQueues DEF BridgeInv
<1>3. PICK k \in {0, 1} :
        /\ Len(decoder') = Len(decoder) + 1 - k
        /\ \A i \in 1..(Len(decoder') - 1) :
             i + k \in 1..Len(decoder) /\ decoder'[i] = decoder[i + k]
  BY <1>1, ForwardQueues DEF BridgeInv
<1>4. Len(decoder) \in Nat /\ Len(decoder') \in Nat
  BY <1>2 DEF BridgeInv, BridgeTyped
<1>5. UNCHANGED <<bridge, tone, tone_inbox, tone_active, revoked, starting, tests,
                  authorised, config>>
  BY DEF toneVars
<1>6. tone.id = 0
  BY DEF LiveTurn
<1>7. BridgeTyped' /\ DropsAccounted'
  BY <1>2, <1>5, ForwardCounts
  DEF BridgeInv, BridgeTyped, BridgeThread, ActiveListeningTone, ListeningTestGuard
<1>8. OneTone' /\ GuardHeld'
  BY <1>5 DEF BridgeInv, OneTone, GuardHeld, ToneIsAuthorised
<1>9. TonesNumbered'
  <2> SUFFICES ASSUME NEW i \in 1..Len(decoder'), decoder'[i].kind = "tone"
               PROVE  /\ decoder'[i].id \in 1..tests
                      /\ decoder'[i].id # starting /\ decoder'[i].id # tone_inbox
    BY <1>5 DEF TonesNumbered
  <2>1. i \in 1..(Len(decoder') - 1)
    BY <1>1, <1>2, <1>4
  <2>2. i + k \in 1..Len(decoder) /\ decoder'[i] = decoder[i + k]
    BY <1>3, <2>1
  <2> QED
    BY <2>2 DEF BridgeInv, TonesNumbered
<1>10. RunStaysOpen'
  BY <1>5, <1>6, <1>9, <1>4 DEF RunStaysOpen, TonesNumbered, BridgeInv, BridgeTyped
<1>11. ToneUnmixed'
  <2> SUFFICES ASSUME NEW i \in 1..Len(decoder'), NEW n \in 1..Len(decoder'), i < n,
                      decoder'[i].kind = "tone", decoder'[n].kind = "tone",
                      decoder'[i].id = decoder'[n].id,
                      NEW j \in i..n
               PROVE  decoder'[j].kind = "tone"
    BY DEF ToneUnmixed
  <2>1. n < Len(decoder')
    BY <1>1, <1>2, <1>4
  <2>2. /\ i \in 1..(Len(decoder') - 1) /\ n \in 1..(Len(decoder') - 1)
        /\ j \in 1..(Len(decoder') - 1)
    BY <1>4, <2>1
  <2>3. /\ i + k \in 1..Len(decoder) /\ n + k \in 1..Len(decoder)
        /\ decoder'[i] = decoder[i + k] /\ decoder'[n] = decoder[n + k]
        /\ decoder'[j] = decoder[j + k]
    BY <1>3, <2>2
  <2>4. i + k < n + k /\ j + k \in (i + k)..(n + k)
    BY <1>3
  <2>5. /\ decoder[i + k].kind = "tone" /\ decoder[n + k].kind = "tone"
        /\ decoder[i + k].id = decoder[n + k].id
    BY <2>3
  <2>6. ToneUnmixed
    BY DEF BridgeInv
  <2>7. decoder[j + k].kind = "tone"
    BY ONLY <2>3, <2>4, <2>5, <2>6 DEF ToneUnmixed
  <2> QED
    BY <2>3, <2>7
<1> QED
  BY <1>7, <1>8, <1>9, <1>10, <1>11 DEF BridgeInv

\* A frame of the playing tone joins the run that is still open.
LEMMA ForwardTone ==
  ASSUME BridgeInv, PlayTone
  PROVE  BridgeInv'
<1> USE BridgeAssumption
<1> DEFINE f == Frame("tone", tone.id)
<1>0. /\ bridge = "running" /\ tone.id # 0 /\ tone.id \notin revoked /\ live' = 0
      /\ Forward(f)
      /\ \/ tone' = NoTone /\ tone_active' = FALSE
         \/ /\ tone.left # 1 /\ tone' = [tone EXCEPT !.left = @ - 1]
            /\ tone_active' = tone_active
      /\ UNCHANGED <<clicks, bridge, tone_inbox, revoked, starting, tests, config, authorised>>
  <2>1. /\ bridge = "running" /\ tone.id # 0 /\ tone.id \notin revoked /\ live' = 0
        /\ Forward(f)
        /\ UNCHANGED <<clicks, bridge, tone_inbox, revoked, starting, tests, config, authorised>>
    BY DEF PlayTone
  <2>2. \/ tone' = NoTone /\ tone_active' = FALSE
        \/ /\ tone.left # 1 /\ tone' = [tone EXCEPT !.left = @ - 1]
           /\ tone_active' = tone_active
    BY DEF PlayTone, EndTone
  <2> QED
    BY <2>1, <2>2
<1>1. f \in Frames /\ f.kind = "tone" /\ f.id = tone.id
  BY DEF Frame, Frames, BridgeInv, BridgeTyped, ActiveListeningTone
<1>2. /\ decoder' \in Seq(Frames) /\ Len(decoder') <= PcmCapacity
      /\ Len(decoder') >= 1 /\ decoder'[Len(decoder')] = f
  BY <1>0, <1>1, ForwardQueues DEF BridgeInv
<1>3. PICK k \in {0, 1} :
        /\ Len(decoder') = Len(decoder) + 1 - k
        /\ \A i \in 1..(Len(decoder') - 1) :
             i + k \in 1..Len(decoder) /\ decoder'[i] = decoder[i + k]
  BY <1>0, <1>1, ForwardQueues DEF BridgeInv
<1>4. Len(decoder) \in Nat /\ Len(decoder') \in Nat
  BY <1>2 DEF BridgeInv, BridgeTyped
<1>5. /\ tone.id \in 1..tests /\ tone_active /\ starting = 0 /\ tone_inbox = 0
      /\ tone.left \in 1..ToneFrames
  BY <1>0 DEF BridgeInv, BridgeTyped, ActiveListeningTone, OneTone
<1>6. /\ tone' \in [id : 0..MaxTones, left : 0..ToneFrames]
      /\ tone'.id \in {0, tone.id} /\ (tone'.id # 0 => tone'.left # 0)
  <2>1. CASE tone' = NoTone
    BY <2>1 DEF NoTone
  <2>2. CASE tone.left # 1 /\ tone' = [tone EXCEPT !.left = @ - 1]
    <3>1. tone \in [id : 0..MaxTones, left : 0..ToneFrames] /\ tone.left - 1 \in 1..ToneFrames
      BY <1>5, <2>2 DEF BridgeInv, BridgeTyped, ActiveListeningTone
    <3> QED
      BY <2>2, <3>1
  <2> QED
    BY <1>0, <2>1, <2>2
<1>7. BridgeTyped' /\ DropsAccounted'
  <2>1. /\ in_eviction_run' \in BOOLEAN
        /\ pending_drops' \in Nat /\ dropped_total' \in Nat /\ reported' \in Nat
        /\ DropsAccounted'
    BY <1>0, ForwardCounts DEF BridgeInv
  <2>2. BridgeThread' /\ ActiveListeningTone' /\ ListeningTestGuard'
    BY <1>0, <1>5, <1>6, <2>1
    DEF BridgeInv, BridgeTyped, BridgeThread, ActiveListeningTone, ListeningTestGuard
  <2> QED
    BY SMTT(40), <1>0, <1>2, <1>5, <1>6, <2>1, <2>2 DEF BridgeInv, BridgeTyped
<1>8. OneTone' /\ GuardHeld'
  <2>1. CASE tone' = NoTone /\ tone_active' = FALSE
    <3>1. tone'.id = 0
      BY <2>1 DEF NoTone
    <3> QED
      BY <1>0, <1>5, <2>1, <3>1 DEF BridgeInv, OneTone, GuardHeld, ToneIsAuthorised
  <2>2. CASE tone' = [tone EXCEPT !.left = @ - 1] /\ tone_active' = tone_active
    <3>1. tone'.id = tone.id
      BY <2>2 DEF BridgeInv, BridgeTyped, ActiveListeningTone
    <3> QED
      BY <1>0, <1>5, <2>2, <3>1 DEF BridgeInv, OneTone, GuardHeld, ToneIsAuthorised
  <2> QED
    BY <1>0, <2>1, <2>2
<1>9. TonesNumbered'
  <2> SUFFICES ASSUME NEW i \in 1..Len(decoder'), decoder'[i].kind = "tone"
               PROVE  /\ decoder'[i].id \in 1..tests
                      /\ decoder'[i].id # starting /\ decoder'[i].id # tone_inbox
    BY <1>0 DEF TonesNumbered
  <2>1. CASE i = Len(decoder')
    BY <1>1, <1>2, <1>5, <2>1
  <2>2. CASE i \in 1..(Len(decoder') - 1)
    <3>1. i + k \in 1..Len(decoder) /\ decoder'[i] = decoder[i + k]
      BY <1>3, <2>2
    <3> QED
      BY <3>1 DEF BridgeInv, TonesNumbered
  <2> QED
    BY <1>4, <2>1, <2>2
<1>10. \A i \in 1..Len(decoder') : decoder'[i].kind = "tone" /\ decoder'[i].id = tone.id
         => \A j \in i..Len(decoder') : decoder'[j].kind = "tone"
  <2> SUFFICES ASSUME NEW i \in 1..Len(decoder'), decoder'[i].kind = "tone",
                      decoder'[i].id = tone.id, NEW j \in i..Len(decoder')
               PROVE  decoder'[j].kind = "tone"
    OBVIOUS
  <2>1. CASE j = Len(decoder')
    BY <1>1, <1>2, <2>1
  <2>2. CASE j \in 1..(Len(decoder') - 1)
    <3>1. i \in 1..(Len(decoder') - 1)
      BY <1>4, <2>2
    <3>2. /\ i + k \in 1..Len(decoder) /\ decoder'[i] = decoder[i + k]
          /\ j + k \in 1..Len(decoder) /\ decoder'[j] = decoder[j + k]
      BY <1>3, <2>2, <3>1
    <3>3. j + k \in (i + k)..Len(decoder)
      BY <1>3, <1>4, <3>2
    <3> QED
      BY <3>2, <3>3 DEF BridgeInv, RunStaysOpen
  <2> QED
    BY <1>4, <2>1, <2>2
<1>11. RunStaysOpen'
  <2>1. CASE tone'.id = tone.id
    BY <1>10, <2>1 DEF RunStaysOpen
  <2>2. CASE tone'.id = 0
    BY <1>7, <1>9, <2>2 DEF RunStaysOpen, TonesNumbered, BridgeTyped
  <2> QED
    BY <1>6, <2>1, <2>2
<1>12. ToneUnmixed'
  <2> SUFFICES ASSUME NEW i \in 1..Len(decoder'), NEW n \in 1..Len(decoder'), i < n,
                      decoder'[i].kind = "tone", decoder'[n].kind = "tone",
                      decoder'[i].id = decoder'[n].id,
                      NEW j \in i..n
               PROVE  decoder'[j].kind = "tone"
    BY DEF ToneUnmixed
  <2>1. CASE n = Len(decoder')
    BY <1>1, <1>2, <1>10, <2>1
  <2>2. CASE n \in 1..(Len(decoder') - 1)
    <3>1. /\ i \in 1..(Len(decoder') - 1) /\ j \in 1..(Len(decoder') - 1)
      BY <1>4, <2>2
    <3>2. /\ i + k \in 1..Len(decoder) /\ n + k \in 1..Len(decoder)
          /\ decoder'[i] = decoder[i + k] /\ decoder'[n] = decoder[n + k]
          /\ decoder'[j] = decoder[j + k]
      BY <1>3, <2>2, <3>1
    <3>3. i + k < n + k /\ j + k \in (i + k)..(n + k)
      BY <1>3
    <3> QED
      BY <3>2, <3>3 DEF BridgeInv, ToneUnmixed
  <2> QED
    BY <1>4, <2>1, <2>2
<1> QED
  BY <1>7, <1>8, <1>9, <1>11, <1>12 DEF BridgeInv

-----------------------------------------------------------------------------
(* Every step keeps the invariant.                                         *)

\* The bridge starts empty and silent.
LEMMA BridgeInitially == BridgeInit => BridgeInv
<1> SUFFICES ASSUME BridgeInit PROVE BridgeInv
  OBVIOUS
<1> USE BridgeAssumption DEF BridgeInit
<1>1. decoder = <<>> /\ Len(decoder) = 0 /\ decoder \in Seq(Frames)
  OBVIOUS
<1>2. BridgeTyped
  <2>1. BridgeThread /\ tone_active \in BOOLEAN
    BY DEF BridgeThread
  <2>2. tone \in [id : 0..MaxTones, left : 0..ToneFrames] /\ tone.id = 0
    BY DEF NoTone
  <2>3. ActiveListeningTone /\ ListeningTestGuard
    BY <2>1, <2>2 DEF ActiveListeningTone, ListeningTestGuard
  <2> QED
    BY <1>1, <2>1, <2>2, <2>3 DEF BridgeTyped
<1>3. TonesNumbered /\ RunStaysOpen /\ ToneUnmixed
  BY <1>1 DEF TonesNumbered, RunStaysOpen, ToneUnmixed
<1> QED
  BY <1>2, <1>3
  DEF BridgeInv, OneTone, GuardHeld, ToneIsAuthorised, DropsAccounted, NoTone

\* Steps that leave the queue alone and release, hand on or claim a tone.
LEMMA QueueUntouched ==
  ASSUME BridgeInv, UNCHANGED <<decoder, dropVars>>, tests' \in tests..MaxTones,
         live' \in 0..PcmCapacity, clicks' \in 0..PcmCapacity,
         BridgeThread', ActiveListeningTone', ListeningTestGuard',
         tone'.id \in {0, tone.id, tone_inbox}, tone'.id # 0 => tone'.left # 0,
         tone_inbox' \in {0, tone_inbox, starting},
         starting' \in {0, starting} \/ (starting' = tests + 1 /\ tests' = tests + 1)
  PROVE  BridgeTyped' /\ TonesNumbered' /\ RunStaysOpen' /\ ToneUnmixed' /\ DropsAccounted'
<1> USE BridgeAssumption
<1>1. /\ tests \in Nat /\ tests' \in Nat /\ tests <= tests' /\ tests' <= MaxTones
      /\ starting \in Nat /\ tone_inbox \in Nat /\ tone.id \in Nat
      /\ starting <= tests /\ tone_inbox <= tests /\ tone.id <= tests
  BY DEF BridgeInv, BridgeTyped, ActiveListeningTone
<1>2. starting' <= tests' /\ tone_inbox' <= tests' /\ tone'.id <= tests'
  BY <1>1
<1>3. BridgeTyped'
  BY <1>1, <1>2 DEF BridgeInv, BridgeTyped, dropVars, BridgeThread
<1>4. TonesNumbered'
  BY <1>1 DEF BridgeInv, TonesNumbered
<1>5. RunStaysOpen'
  <2> SUFFICES ASSUME NEW i \in 1..Len(decoder), decoder[i].kind = "tone",
                      decoder[i].id = tone'.id, NEW j \in i..Len(decoder)
               PROVE  decoder[j].kind = "tone"
    BY DEF RunStaysOpen
  <2>1. decoder[i].id \in 1..tests /\ decoder[i].id # tone_inbox
    BY DEF BridgeInv, TonesNumbered
  <2>2. decoder[i].id = tone.id
    BY <2>1
  <2> QED
    BY <2>2 DEF BridgeInv, RunStaysOpen
<1>6. ToneUnmixed' /\ DropsAccounted'
  BY DEF BridgeInv, ToneUnmixed, DropsAccounted, dropVars
<1> QED
  BY <1>3, <1>4, <1>5, <1>6

\* One case per action of the bridge, of its feeders and of the controller.
LEMMA BridgeStep == BridgeInv /\ [BridgeNext]_bridgeVars => BridgeInv'
<1> SUFFICES ASSUME BridgeInv, [BridgeNext]_bridgeVars PROVE BridgeInv'
  OBVIOUS
<1> USE BridgeAssumption
<1>t. /\ BridgeTyped /\ BridgeThread /\ ActiveListeningTone /\ ListeningTestGuard /\ OneTone
      /\ GuardHeld
      /\ live \in 0..PcmCapacity /\ clicks \in 0..PcmCapacity
      /\ tone.id # 0 => tone.left # 0
      /\ tests \in tests..MaxTones /\ tests \in Nat
  BY DEF BridgeInv, BridgeTyped
<1>q. ASSUME BridgeTyped' /\ TonesNumbered' /\ RunStaysOpen' /\ ToneUnmixed' /\ DropsAccounted',
             OneTone', GuardHeld'
      PROVE  BridgeInv'
  BY <1>q DEF BridgeInv
<1>1. CASE TakeTone
  <2>0. /\ bridge = "running" /\ tone.id = 0 /\ tone_inbox # 0 /\ tone_inbox' = 0
        /\ UNCHANGED <<clicks, decoder, bridge, revoked, starting, tests, config, authorised,
                       dropVars>>
        /\ UNCHANGED in_eviction_run
    BY <1>1 DEF TakeTone, dropVars
  <2>1. CASE tone_inbox \in revoked
    <3>1. tone_active' = FALSE /\ tone' = tone /\ live' = live
      BY <1>1, <2>1 DEF TakeTone
    <3>2. BridgeThread' /\ ActiveListeningTone' /\ ListeningTestGuard'
      BY <1>t, <2>0, <3>1 DEF BridgeThread, ActiveListeningTone, ListeningTestGuard
    <3>3. OneTone' /\ GuardHeld'
      BY <1>t, <2>0, <3>1 DEF OneTone, GuardHeld, ToneIsAuthorised
    <3> QED
      BY <1>q, <1>t, <2>0, <3>1, <3>2, <3>3, QueueUntouched
  <2>2. CASE tone_inbox \notin revoked
    <3>1. /\ tone' = [id |-> tone_inbox, left |-> ToneFrames] /\ live' = 0
          /\ tone_active' = tone_active
      BY <1>1, <2>2 DEF TakeTone
    <3>2. BridgeThread' /\ ActiveListeningTone' /\ ListeningTestGuard'
      BY <1>t, <2>0, <3>1 DEF BridgeThread, ActiveListeningTone, ListeningTestGuard
    <3>3. OneTone' /\ GuardHeld'
      BY <1>t, <2>0, <2>2, <3>1 DEF OneTone, GuardHeld, ToneIsAuthorised
    <3> QED
      BY <1>q, <1>t, <2>0, <3>1, <3>2, <3>3, QueueUntouched
  <2> QED
    BY <2>1, <2>2
<1>2. CASE RevokeTone
  <2>0. /\ bridge = "running" /\ tone.id \in revoked /\ tone' = NoTone /\ tone_active' = FALSE
        /\ live' = 0
        /\ UNCHANGED <<clicks, decoder, bridge, tone_inbox, revoked, starting, tests, config,
                       authorised, dropVars>>
        /\ UNCHANGED in_eviction_run
    BY <1>2 DEF RevokeTone, EndTone, dropVars
  <2>1. tone'.id = 0 /\ tone' \in [id : 0..MaxTones, left : 0..ToneFrames] /\ tone.id # 0
    BY <1>t, <2>0 DEF NoTone, ActiveListeningTone, Tones
  <2>2. BridgeThread' /\ ActiveListeningTone' /\ ListeningTestGuard'
    BY <1>t, <2>0, <2>1 DEF BridgeThread, ActiveListeningTone, ListeningTestGuard
  <2>3. OneTone' /\ GuardHeld'
    BY <1>t, <2>0, <2>1 DEF OneTone, GuardHeld, ToneIsAuthorised
  <2> QED
    BY <1>q, <1>t, <2>0, <2>1, <2>2, <2>3, QueueUntouched
<1>3. CASE PlayTone
  BY <1>3, ForwardTone
<1>4. CASE ForwardClick
  <2>1. /\ LiveTurn /\ clicks' \in 0..PcmCapacity /\ live' \in 0..PcmCapacity
        /\ UNCHANGED <<bridge, toneVars, config>>
        /\ Forward(Frame("click", 0))
    BY <1>4, <1>t DEF ForwardClick, BridgeTyped
  <2> QED
    BY <2>1, ForwardOther
<1>5. CASE ForwardLive
  <2>1. /\ LiveTurn /\ clicks' \in 0..PcmCapacity /\ live' \in 0..PcmCapacity
        /\ UNCHANGED <<bridge, toneVars, config>>
        /\ Forward(Frame("live", 0))
    BY <1>5, <1>t DEF ForwardLive, BridgeTyped
  <2> QED
    BY <2>1, ForwardOther
<1>6. CASE PaceSilence
  <2>1. /\ LiveTurn /\ clicks' \in 0..PcmCapacity /\ live' \in 0..PcmCapacity
        /\ UNCHANGED <<bridge, toneVars, config>>
        /\ Forward(Frame("silence", 0))
    BY <1>6, <1>t DEF PaceSilence, BridgeTyped
  <2> QED
    BY <2>1, ForwardOther
<1>7. CASE EndBridge
  <2>0. /\ bridge' = "ended" /\ tone' = NoTone /\ tone_active' = FALSE
        /\ FlushDrops(pending_drops, dropped_total)
        /\ UNCHANGED <<live, clicks, decoder, tone_inbox, revoked, starting, tests, config,
                       authorised, in_eviction_run, dropped_total>>
    BY <1>7 DEF EndBridge
  <2>1. tone'.id = 0 /\ tone' \in [id : 0..MaxTones, left : 0..ToneFrames]
    BY <2>0 DEF NoTone
  <2>2. BridgeThread' /\ ActiveListeningTone' /\ ListeningTestGuard'
    BY <1>t, <2>0, <2>1 DEF BridgeThread, ActiveListeningTone, ListeningTestGuard
  <2>3. pending_drops' \in Nat /\ reported' \in Nat /\ DropsAccounted'
    BY <2>0, FlushKeeps DEF BridgeInv, BridgeTyped, DropsAccounted
  <2>4. BridgeTyped'
    BY <1>t, <2>0, <2>1, <2>2, <2>3 DEF BridgeTyped
  <2>5. TonesNumbered' /\ RunStaysOpen' /\ ToneUnmixed'
    BY <2>0, <2>1 DEF BridgeInv, TonesNumbered, RunStaysOpen, ToneUnmixed, BridgeTyped
  <2>6. OneTone' /\ GuardHeld'
    BY <1>t, <2>0, <2>1 DEF OneTone, GuardHeld, ToneIsAuthorised
  <2> QED
    BY <2>3, <2>4, <2>5, <2>6 DEF BridgeInv
<1>8. CASE WorkerSends \/ InjectPattern
  <2>0. /\ live' \in 0..PcmCapacity /\ clicks' \in 0..PcmCapacity
        /\ UNCHANGED <<decoder, bridge, tone, tone_inbox, tone_active, revoked, starting,
                       tests, authorised, config, dropVars>>
        /\ UNCHANGED in_eviction_run
    BY <1>8, <1>t DEF WorkerSends, InjectPattern, toneVars, dropVars, BridgeTyped
  <2>1. BridgeThread' /\ ActiveListeningTone' /\ ListeningTestGuard'
    BY <1>t, <2>0 DEF BridgeThread, ActiveListeningTone, ListeningTestGuard
  <2>2. OneTone' /\ GuardHeld'
    BY <1>t, <2>0 DEF OneTone, GuardHeld, ToneIsAuthorised
  <2> QED
    BY <1>q, <1>t, <2>0, <2>1, <2>2, QueueUntouched
<1>9. CASE DecoderReads
  <2>0. /\ decoder # <<>> /\ decoder' = Tail(decoder)
        /\ UNCHANGED <<live, clicks, bridge, tone, tone_inbox, tone_active, revoked, starting,
                       tests, authorised, config, pending_drops, in_eviction_run,
                       dropped_total, reported>>
    BY <1>9 DEF DecoderReads, toneVars, dropVars
  <2>1. decoder \in Seq(Frames) /\ Len(decoder) <= PcmCapacity
    BY <1>t DEF BridgeTyped
  <2>2. /\ decoder' \in Seq(Frames) /\ Len(decoder') = Len(decoder) - 1
        /\ Len(decoder) \in Nat /\ Len(decoder') \in Nat
        /\ \A i \in 1..Len(decoder') : decoder'[i] = decoder[i + 1]
    BY <2>0, <2>1
  <2>3. \A i \in 1..Len(decoder') : i + 1 \in 1..Len(decoder)
    BY <2>2
  <2>4. BridgeTyped'
    BY <1>t, <2>0, <2>1, <2>2
    DEF BridgeTyped, BridgeThread, ActiveListeningTone, ListeningTestGuard
  <2>5. TonesNumbered'
    <3> SUFFICES ASSUME NEW i \in 1..Len(decoder'), decoder'[i].kind = "tone"
                 PROVE  /\ decoder'[i].id \in 1..tests
                        /\ decoder'[i].id # starting /\ decoder'[i].id # tone_inbox
      BY <2>0 DEF TonesNumbered
    <3> QED
      BY <2>2, <2>3 DEF BridgeInv, TonesNumbered
  <2>6. RunStaysOpen'
    <3> SUFFICES ASSUME NEW i \in 1..Len(decoder'), decoder'[i].kind = "tone",
                        decoder'[i].id = tone.id, NEW j \in i..Len(decoder')
                 PROVE  decoder'[j].kind = "tone"
      BY <2>0 DEF RunStaysOpen
    <3>1. j \in 1..Len(decoder') /\ j + 1 \in (i + 1)..Len(decoder)
      BY <2>2
    <3> QED
      BY <2>2, <2>3, <3>1 DEF BridgeInv, RunStaysOpen
  <2>7. ToneUnmixed'
    <3> SUFFICES ASSUME NEW i \in 1..Len(decoder'), NEW n \in 1..Len(decoder'), i < n,
                        decoder'[i].kind = "tone", decoder'[n].kind = "tone",
                        decoder'[i].id = decoder'[n].id, NEW j \in i..n
                 PROVE  decoder'[j].kind = "tone"
      BY DEF ToneUnmixed
    <3>1. j \in 1..Len(decoder') /\ j + 1 \in (i + 1)..(n + 1) /\ i + 1 < n + 1
      BY <2>2
    <3> QED
      BY SMTT(40), <2>2, <2>3, <3>1 DEF BridgeInv, ToneUnmixed
  <2>8. OneTone' /\ GuardHeld' /\ DropsAccounted'
    BY <1>t, <2>0 DEF OneTone, GuardHeld, ToneIsAuthorised, DropsAccounted, BridgeInv
  <2> QED
    BY <2>4, <2>5, <2>6, <2>7, <2>8 DEF BridgeInv
<1>10. CASE ClaimTone
  <2>0. /\ config # 0 /\ tests < MaxTones /\ starting = 0 /\ tests' = tests + 1
        /\ UNCHANGED <<live, clicks, decoder, bridge, tone, tone_inbox, revoked, config,
                       authorised, dropVars>>
        /\ UNCHANGED in_eviction_run
        /\ \/ tone_active /\ tone_active' = tone_active /\ starting' = 0
           \/ ~tone_active /\ tone_active' = TRUE /\ starting' = tests + 1
    BY <1>10 DEF ClaimTone, dropVars
  <2>1. tests \in Nat /\ tests + 1 \in 1..MaxTones
    BY <1>t, <2>0 DEF BridgeTyped
  <2>2. starting' \in 0..MaxTones /\ tone_active' \in BOOLEAN
    <3>1. starting' \in 0..MaxTones
      BY <2>0, <2>1
    <3>2. tone_active' \in BOOLEAN
      BY <1>t, <2>0, Zenon DEF ActiveListeningTone
    <3> QED
      BY <3>1, <3>2
  <2>3. BridgeThread' /\ ActiveListeningTone' /\ ListeningTestGuard'
    BY <1>t, <2>0, <2>2 DEF BridgeThread, ActiveListeningTone, ListeningTestGuard
  <2>4. OneTone' /\ GuardHeld'
    BY <1>t, <2>0, <2>1 DEF OneTone, GuardHeld, ToneIsAuthorised
  <2> QED
    BY <1>q, <1>t, <2>0, <2>1, <2>3, <2>4, QueueUntouched
<1>11. CASE SendTone
  <2>0. /\ starting # 0 /\ starting' = 0
        /\ UNCHANGED <<live, clicks, decoder, bridge, tone, revoked, tests, config, dropVars>>
        /\ UNCHANGED in_eviction_run
        /\ \/ /\ bridge = "running" /\ tone_inbox = 0 /\ tone_inbox' = starting
              /\ authorised' = starting /\ tone_active' = tone_active
           \/ /\ ~(bridge = "running" /\ tone_inbox = 0) /\ tone_active' = FALSE
              /\ tone_inbox' = tone_inbox /\ authorised' = authorised
    BY <1>11 DEF SendTone, dropVars
  <2>1. BridgeThread' /\ ActiveListeningTone' /\ ListeningTestGuard'
    <3>1. tone_active' \in BOOLEAN
      BY <1>t, <2>0, Zenon DEF ActiveListeningTone
    <3>2. tone_inbox' \in 0..MaxTones /\ authorised' \in 0..MaxTones
      BY <1>t, <2>0 DEF ActiveListeningTone, ListeningTestGuard
    <3> QED
      BY <1>t, <2>0, <3>1, <3>2 DEF BridgeThread, ActiveListeningTone, ListeningTestGuard
  <2>2. OneTone' /\ GuardHeld'
    BY <1>t, <2>0 DEF OneTone, GuardHeld, ToneIsAuthorised, BridgeThread
  <2> QED
    BY <1>q, <1>t, <2>0, <2>1, <2>2, QueueUntouched
<1>12. CASE Publish
  <2>0. /\ starting = 0 /\ config' \in Configs \cup {0} /\ authorised' = 0
        /\ revoked' = IF authorised # 0 THEN revoked \cup {authorised} ELSE revoked
        /\ UNCHANGED <<live, clicks, decoder, bridge, tone, tone_inbox, tone_active, starting,
                       tests, dropVars>>
        /\ UNCHANGED in_eviction_run
    BY <1>12 DEF Publish, dropVars
  <2>1. BridgeThread' /\ ActiveListeningTone' /\ ListeningTestGuard'
    BY <1>t, <2>0 DEF BridgeThread, ActiveListeningTone, ListeningTestGuard, Tones
  <2>2. OneTone' /\ GuardHeld'
    BY <1>t, <2>0 DEF OneTone, GuardHeld, ToneIsAuthorised
  <2> QED
    BY <1>q, <1>t, <2>0, <2>1, <2>2, QueueUntouched
<1>13. CASE UNCHANGED bridgeVars
  <2>0. UNCHANGED <<live, clicks, decoder, bridge, tone, tone_inbox, tone_active, revoked,
                    starting, tests, authorised, config, pending_drops, in_eviction_run,
                    dropped_total, reported>>
    BY <1>13 DEF bridgeVars, toneVars, dropVars
  <2> QED
    BY <2>0
    DEF BridgeInv, BridgeTyped, TonesNumbered, RunStaysOpen, OneTone, GuardHeld, ToneUnmixed,
        DropsAccounted, ToneIsAuthorised, BridgeThread, ActiveListeningTone, ListeningTestGuard
<1> QED
  BY <1>1, <1>2, <1>3, <1>4, <1>5, <1>6, <1>7, <1>8, <1>9, <1>10, <1>11, <1>12, <1>13
  DEF BridgeNext, BridgeTurn

\* Whatever the order of claims, publications, evictions and the end of the
\* bridge: a tone's frames are never interleaved with music, the busy flag is
\* up exactly while one tone is claimed, waiting or playing, a tone that may
\* still sound is the one authorised for the configuration shown, and every
\* evicted frame is reported or pending.
THEOREM TonesStayApart == BridgeSpec => []BridgeSafe
<1>1. BridgeInv => BridgeSafe
  <2> SUFFICES ASSUME BridgeInv PROVE BridgeTypeOK /\ ToneFlagExact
    BY DEF BridgeInv, BridgeSafe, GuardHeld
  <2>1. BridgeTypeOK
    BY DEF BridgeInv, BridgeTyped, BridgeTypeOK, BridgeQueues
  <2>2. ToneFlagExact
    <3> SUFFICES ASSUME bridge = "running"
                 PROVE  Cardinality({starting, tone_inbox, tone.id} \ {0}) <= 1
      BY DEF BridgeInv, OneTone, ToneFlagExact
    <3>1. CASE starting # 0
      <4>1. {starting, tone_inbox, tone.id} \ {0} = {starting}
        BY <3>1 DEF BridgeInv, OneTone
      <4>2. Cardinality({starting}) = 1
        BY FS_Singleton
      <4> QED
        BY <4>1, <4>2
    <3>2. CASE starting = 0 /\ tone_inbox # 0
      <4>1. {starting, tone_inbox, tone.id} \ {0} = {tone_inbox}
        BY <3>2 DEF BridgeInv, OneTone
      <4>2. Cardinality({tone_inbox}) = 1
        BY FS_Singleton
      <4> QED
        BY <4>1, <4>2
    <3>3. CASE starting = 0 /\ tone_inbox = 0
      <4>1. \/ {starting, tone_inbox, tone.id} \ {0} = {tone.id}
            \/ {starting, tone_inbox, tone.id} \ {0} = {}
        BY <3>3
      <4>2. Cardinality({tone.id}) = 1 /\ Cardinality({}) = 0
        BY FS_Singleton, FS_EmptySet
      <4> QED
        BY <4>1, <4>2
    <3> QED
      BY <3>1, <3>2, <3>3
  <2> QED
    BY <2>1, <2>2
<1> QED
  BY <1>1, BridgeInitially, BridgeStep, PTL DEF BridgeSpec

-----------------------------------------------------------------------------
(* The capture supervisor's inductive invariant.                           *)

\* Types; outside its first turn the supervisor has minted a generation.
CaptureTyped ==
  /\ CaptureTypeOK /\ feed \in Seq(CaptureUpdate)
  /\ phase \in Awaiting => gen \in Captures

\* The attempt under way was opened with the stored preference, unless an edge
\* that will restart it is still unseen.
OpenedAsChosen ==
  phase \in {"opening", "readying", "capturing"} /\ ~control.changed => opening = preference

\* Nothing is queued after the edge of a settled phase, so that edge, or once
\* the queue is drained the snapshot, says what the supervisor does.
SettledIsAnnounced ==
  phase \in {"capturing", "ladder"} =>
    /\ captured.state = IF phase = "capturing" THEN "Capturing" ELSE "Recovering"
    /\ phase = "ladder" => captured.endpoint = NoEndpoint
    /\ IF feed = <<>>
       THEN source.state = captured.state /\ source.endpoint = captured.endpoint
       ELSE LET newest == feed[Len(feed)]
            IN  /\ newest.kind = IF phase = "capturing" THEN "Ready" ELSE "Recovering"
                /\ newest.endpoint = captured.endpoint

\* A suspend edge stands only while the machine sleeps, and a parked supervisor
\* of a woken machine has an edge to come that ends the park.
ParkIsJustified ==
  /\ control.value = "Suspend" => system_asleep
  /\ phase = "parked" =>
       system_asleep \/ (control.changed /\ control.value \in {"Resume", "Stop"})

\* The window and every worker's stamp name a generation or nothing: only the
\* newest worker can match the window.
MeterIsStamped ==
  /\ meter.generation \in {0, gen} /\ meter.peak \in {0, gen}
  /\ \A g \in Captures : metered[g] \in {0, g}

CaptureInv ==
  /\ CaptureTyped /\ OneLiveWorker /\ OpenedAsChosen /\ SettledIsAnnounced
  /\ ParkIsJustified /\ MeterIsStamped

-----------------------------------------------------------------------------
(* The pieces of a step.                                                   *)

\* try_send: what is appended is last, and only into room.
LEMMA FeedAppends ==
  ASSUME CaptureTyped, NEW u \in CaptureUpdate, Room, feed' = Append(feed, u)
  PROVE  /\ feed' \in Seq(CaptureUpdate) /\ Len(feed') <= CaptureCapacity /\ feed' # <<>>
         /\ feed'[Len(feed')] = u
<1>1. feed \in Seq(CaptureUpdate) /\ Len(feed) \in Nat /\ Len(feed) + 1 <= CaptureCapacity
  BY CaptureAssumption DEF CaptureTyped, Room
<1> QED
  BY <1>1

\* The types of the queue as CaptureTypeOK states them.
LEMMA FeedTyped ==
  ASSUME NEW s \in Seq(CaptureUpdate)
  PROVE  \A i \in 1..Len(s) : s[i] \in CaptureUpdate
OBVIOUS

\* A cancelled worker is no longer live; the others keep their state.
LEMMA CancelKeeps ==
  ASSUME CaptureWorker, gen \in 0..MaxCaptures, worker' = Cancelled
  PROVE  /\ CaptureWorker'
         /\ \A g \in Captures : worker'[g] \in {"starting", "running"} =>
              worker[g] \in {"starting", "running"} /\ g # gen
BY CaptureAssumption DEF CaptureWorker, Cancelled, Captures

\* The supervisor begins its first turn with nothing captured or queued.
LEMMA CaptureInitially == CaptureInit => CaptureInv
<1> SUFFICES ASSUME CaptureInit PROVE CaptureInv
  OBVIOUS
<1> USE CaptureAssumption DEF CaptureInit
<1>1. feed \in Seq(CaptureUpdate) /\ Len(feed) = 0
  OBVIOUS
<1>2. /\ control \in [value : Controls, changed : BOOLEAN]
      /\ control.changed = FALSE /\ control.value = "None"
  BY DEF Controls
<1>3. captured \in CaptureState /\ source \in AudioSourceSnapshot /\ gen = 0
  BY DEF CaptureState, AudioSourceSnapshot, SourceStates, MaybeEndpoint, gen
<1>4. Flow /\ CaptureWorker /\ CaptureInputMeter /\ CaptureFeed
  BY <1>1 DEF Flow, CaptureWorker, CaptureInputMeter, CaptureFeed, NoWindow
<1>5. CaptureTyped
  BY <1>1, <1>2, <1>3, <1>4 DEF CaptureTyped, CaptureTypeOK, Preferences, Awaiting
<1> QED
  BY <1>2, <1>3, <1>5
  DEF CaptureInv, OneLiveWorker, OpenedAsChosen, SettledIsAnnounced, ParkIsJustified,
      MeterIsStamped, NoWindow

\* A failed attempt: its edge is queued and the supervisor sleeps, or the full
\* queue sends it straight to the next attempt.
LEMMA ClimbKeeps ==
  ASSUME CaptureInv, phase \in {"opening", "readying", "capturing"}, ClimbLadder,
         worker' \in [Captures -> {"none", "starting", "running", "cancelled", "ended"}],
         \A g \in Captures : worker'[g] \notin {"starting", "running"},
         UNCHANGED <<control, controls, system_asleep, preference, opening, metered, meter,
                     source>>
  PROVE  CaptureInv'
<1> USE CaptureAssumption
<1>t. /\ CaptureTyped /\ CaptureTypeOK /\ gen \in Captures
      /\ captured \in CaptureState
  BY DEF CaptureInv, CaptureTyped, CaptureTypeOK, Awaiting
<1>1. captured' = [captured EXCEPT !.state = "Recovering", !.endpoint = NoEndpoint]
  BY DEF ClimbLadder
<1>2. /\ captured' \in CaptureState /\ captured'.generation = captured.generation
      /\ captured'.state = "Recovering" /\ captured'.endpoint = NoEndpoint /\ gen' = gen
  BY <1>t, <1>1 DEF CaptureState, SourceStates, MaybeEndpoint, gen
<1> DEFINE u == Update("Recovering", NoEndpoint)
<1>3. u \in CaptureUpdate /\ u.kind = "Recovering" /\ u.endpoint = NoEndpoint
  BY <1>t DEF Update, CaptureUpdate, MaybeEndpoint, Captures
<1>4. /\ phase' \in {"ladder", "next"} /\ ladder' \in 0..LadderLength
      /\ feed' \in Seq(CaptureUpdate) /\ Len(feed') <= CaptureCapacity
      /\ phase' = "ladder" => feed' # <<>> /\ feed'[Len(feed')] = u
  <2>1. CASE Room
    <3>1. /\ feed' = Append(feed, u) /\ phase' = "ladder"
          /\ ladder' = IF ladder < LadderLength THEN ladder + 1 ELSE ladder
      BY <2>1 DEF ClimbLadder
    <3>2. ladder' \in 0..LadderLength
      BY <1>t, <3>1 DEF CaptureTypeOK, Flow
    <3> QED
      BY <1>t, <1>3, <2>1, <3>1, <3>2, FeedAppends
  <2>2. CASE ~Room
    BY <1>t, <2>2 DEF ClimbLadder, CaptureTyped, CaptureTypeOK, Flow, CaptureFeed
  <2> QED
    BY <2>1, <2>2
<1>5. CaptureTyped'
  BY <1>t, <1>2, <1>4, FeedTyped
  DEF CaptureTyped, CaptureTypeOK, Flow, CaptureWorker, CaptureInputMeter, CaptureFeed, Awaiting
<1>6. OneLiveWorker' /\ OpenedAsChosen' /\ ParkIsJustified'
  BY <1>4 DEF CaptureInv, OneLiveWorker, OpenedAsChosen, ParkIsJustified
<1>7. SettledIsAnnounced'
  BY <1>2, <1>3, <1>4 DEF SettledIsAnnounced
<1>8. MeterIsStamped'
  BY <1>2 DEF CaptureInv, MeterIsStamped
<1> QED
  BY <1>5, <1>6, <1>7, <1>8 DEF CaptureInv

\* The edges that cancel the worker of the phase under way and leave what was
\* announced behind.
LEMMA LeavePhase ==
  ASSUME CaptureInv, phase \in Awaiting \cup {"parked"},
         phase' \in {"next", "parked", "ended"},
         worker' \in [Captures -> {"none", "starting", "running", "cancelled", "ended"}],
         \A g \in Captures : worker'[g] \in {"starting", "running"} =>
           worker[g] \in {"starting", "running"} /\ g # gen,
         control' = [control EXCEPT !.changed = FALSE],
         phase' = "parked" => control.value = "Suspend",
         captured' \in CaptureState, captured'.generation = captured.generation,
         feed' \in Seq(CaptureUpdate), Len(feed') <= CaptureCapacity,
         ladder' \in 0..LadderLength,
         UNCHANGED <<controls, system_asleep, preference, opening, metered, meter, source>>
  PROVE  CaptureInv'
<1> USE CaptureAssumption
<1>t. CaptureTyped /\ CaptureTypeOK
  BY DEF CaptureInv, CaptureTyped
<1>1. /\ control' \in [value : Controls, changed : BOOLEAN]
      /\ control'.changed = FALSE /\ control'.value = control.value
  BY <1>t DEF CaptureTypeOK
<1>2. gen' = gen
  BY DEF gen
<1>3. CaptureTyped'
  BY <1>t, <1>1, <1>2, FeedTyped
  DEF CaptureTyped, CaptureTypeOK, Flow, CaptureWorker, CaptureInputMeter, CaptureFeed, Awaiting
<1>4. \A g \in Captures : worker'[g] \notin {"starting", "running"}
  BY DEF CaptureInv, OneLiveWorker
<1>5. OneLiveWorker'
  BY <1>4 DEF OneLiveWorker
<1>6. OpenedAsChosen' /\ SettledIsAnnounced'
  BY DEF OpenedAsChosen, SettledIsAnnounced
<1>7. ParkIsJustified'
  BY <1>1 DEF CaptureInv, ParkIsJustified
<1>8. MeterIsStamped'
  BY <1>2 DEF CaptureInv, MeterIsStamped
<1> QED
  BY <1>3, <1>5, <1>6, <1>7, <1>8 DEF CaptureInv

\* The controller's edges: the window may be silenced, and the newest value of
\* the watch channel replaces the unseen one.
LEMMA ControlKeeps ==
  ASSUME CaptureInv, NEW value \in Controls, RequestControl(value),
         preference' \in Preferences, system_asleep' \in BOOLEAN,
         value = "Suspend" => system_asleep',
         phase = "parked" => system_asleep' \/ value \in {"Resume", "Stop"},
         UNCHANGED <<phase, captured, opening, ladder, worker, metered, feed, source>>
  PROVE  CaptureInv'
<1> USE CaptureAssumption
<1>t. CaptureTyped /\ CaptureTypeOK /\ gen' = gen
  BY DEF CaptureInv, CaptureTyped, gen
<1>1. /\ control' \in [value : Controls, changed : BOOLEAN]
      /\ control'.changed = TRUE /\ control'.value = value
  BY DEF RequestControl
<1>2. meter' = NoWindow \/ meter' = meter
  BY DEF RequestControl
<1>3. /\ meter' \in [generation : 0..MaxCaptures, peak : 0..MaxCaptures]
      /\ meter'.generation \in {0, gen} /\ meter'.peak \in {0, gen}
  BY <1>t, <1>2 DEF CaptureInv, MeterIsStamped, NoWindow, CaptureTypeOK, CaptureInputMeter
<1>4. CaptureTyped'
  BY <1>t, <1>1, <1>3
  DEF CaptureTyped, CaptureTypeOK, Flow, CaptureWorker, CaptureInputMeter, CaptureFeed
<1>5. OneLiveWorker' /\ SettledIsAnnounced'
  BY <1>t DEF CaptureInv, OneLiveWorker, SettledIsAnnounced
<1>6. OpenedAsChosen' /\ ParkIsJustified'
  BY <1>1 DEF CaptureInv, OpenedAsChosen, ParkIsJustified
<1>7. MeterIsStamped'
  BY <1>t, <1>3 DEF CaptureInv, MeterIsStamped
<1> QED
  BY <1>4, <1>5, <1>6, <1>7 DEF CaptureInv

\* One case per action of the supervisor, the workers and the controller.
LEMMA CaptureStep == CaptureInv /\ [CaptureNext]_captureVars => CaptureInv'
<1> SUFFICES ASSUME CaptureInv, [CaptureNext]_captureVars PROVE CaptureInv'
  OBVIOUS
<1> USE CaptureAssumption
<1>t. /\ CaptureTyped /\ CaptureTypeOK /\ feed \in Seq(CaptureUpdate)
      /\ Len(feed) <= CaptureCapacity /\ Len(feed) \in Nat
      /\ captured \in CaptureState /\ gen \in 0..MaxCaptures
      /\ ladder \in 0..LadderLength
      /\ worker \in [Captures -> {"none", "starting", "running", "cancelled", "ended"}]
      /\ metered \in [Captures -> 0..MaxCaptures]
      /\ meter \in [generation : 0..MaxCaptures, peak : 0..MaxCaptures]
      /\ preference \in Preferences /\ system_asleep \in BOOLEAN
  BY DEF CaptureInv, CaptureTyped, CaptureTypeOK, Flow, CaptureWorker, CaptureFeed, CaptureState,
         gen, CaptureInputMeter
<1>s. Sees("EndpointChange") \/ Sees("Resume") \/ Sees("Suspend") \/ Sees("Stop")
        => control' = [control EXCEPT !.changed = FALSE]
  BY DEF Sees
<1>1. CASE NextGeneration
  <2> DEFINE u == [Update("Started", NoEndpoint) EXCEPT !.generation = gen + 1]
  <2>0. /\ phase = "next" /\ gen < MaxCaptures
        /\ captured' = [captured EXCEPT !.generation = gen + 1]
        /\ meter' = [generation |-> gen + 1, peak |-> 0]
        /\ UNCHANGED <<control, controls, system_asleep, preference, ladder, worker, metered,
                       source>>
    BY <1>1 DEF NextGeneration
  <2>1. gen + 1 \in Captures /\ gen + 1 \in 0..MaxCaptures /\ gen + 1 # 0
    BY <1>t, <2>0 DEF Captures
  <2>2. captured' \in CaptureState /\ gen' = gen + 1
    BY <1>t, <2>0, <2>1 DEF CaptureState, gen
  <2>3. u \in CaptureUpdate
    BY <2>1, <1>t DEF Update, CaptureUpdate, MaybeEndpoint
  <2>4. /\ feed' \in Seq(CaptureUpdate) /\ Len(feed') <= CaptureCapacity
        /\ \/ phase' = "opening" /\ opening' = preference
           \/ phase' = "next" /\ opening' = opening
    <3>1. CASE Room
      BY <1>1, <1>t, <2>3, <3>1, FeedAppends DEF NextGeneration
    <3>2. CASE ~Room
      BY <1>1, <1>t, <2>0, <3>2 DEF NextGeneration
    <3> QED
      BY <3>1, <3>2
  <2>5. CaptureTyped'
    BY <1>t, <2>0, <2>1, <2>2, <2>4, FeedTyped
    DEF CaptureTyped, CaptureTypeOK, Flow, CaptureWorker, CaptureInputMeter, CaptureFeed, Awaiting
  <2>6. OneLiveWorker'
    BY <2>0 DEF CaptureInv, OneLiveWorker
  <2>7. OpenedAsChosen' /\ SettledIsAnnounced' /\ ParkIsJustified'
    BY <2>0, <2>4 DEF CaptureInv, OpenedAsChosen, SettledIsAnnounced, ParkIsJustified
  <2>8. MeterIsStamped'
    BY <2>0, <2>2 DEF CaptureInv, MeterIsStamped
  <2> QED
    BY <2>5, <2>6, <2>7, <2>8 DEF CaptureInv
<1>2. CASE OpenFails
  <2>1. \A g \in Captures : worker[g] \notin {"starting", "running"}
    BY <1>2 DEF OpenFails, CaptureInv, OneLiveWorker
  <2> QED
    BY <1>2, <1>t, <2>1, ClimbKeeps DEF OpenFails
<1>3. CASE OpenSucceeds
  <2>0. /\ phase = "opening" /\ phase' = "readying" /\ gen \in Captures /\ gen' = gen
        /\ worker' = [worker EXCEPT ![gen] = "starting"]
        /\ metered' = [metered EXCEPT ![gen] = meter.generation]
        /\ UNCHANGED <<control, controls, system_asleep, captured, preference, opening, ladder,
                       meter, feed, source>>
    BY <1>3, <1>t DEF OpenSucceeds, CaptureTyped, Awaiting, gen
  <2>1. CaptureTyped'
    BY <1>t, <2>0
    DEF CaptureTyped, CaptureTypeOK, Flow, CaptureWorker, CaptureInputMeter, CaptureFeed, Awaiting
  <2>2. OneLiveWorker'
    BY <1>t, <2>0 DEF CaptureInv, OneLiveWorker
  <2>3. OpenedAsChosen' /\ SettledIsAnnounced' /\ ParkIsJustified'
    BY <2>0 DEF CaptureInv, OpenedAsChosen, SettledIsAnnounced, ParkIsJustified
  <2>4. MeterIsStamped'
    BY <1>t, <2>0 DEF CaptureInv, MeterIsStamped
  <2> QED
    BY <2>1, <2>2, <2>3, <2>4 DEF CaptureInv
<1>4. CASE WorkerReady
  <2>0. /\ phase = "readying" /\ gen \in Captures /\ ladder' = 0
        /\ UNCHANGED <<control, controls, system_asleep, preference, opening, metered, meter,
                       source>>
    BY <1>4, <1>t DEF WorkerReady, CaptureTyped, Awaiting
  <2>1. PICK e \in Resolve(opening) :
          /\ captured' = [captured EXCEPT !.state = "Capturing", !.endpoint = e]
          /\ IF Room
             THEN /\ feed' = Append(feed, Update("Ready", e))
                  /\ phase' = "capturing"
                  /\ worker' = [worker EXCEPT ![gen] = "running"]
             ELSE phase' = "next" /\ worker' = Cancelled /\ UNCHANGED feed
    BY <1>4 DEF WorkerReady
  <2>2. e \in Endpoints
    BY <1>t DEF Resolve, CaptureTypeOK, Preferences
  <2>3. /\ captured' \in CaptureState /\ captured'.state = "Capturing"
        /\ captured'.endpoint = e /\ gen' = gen
    BY <1>t, <2>1, <2>2 DEF CaptureState, SourceStates, MaybeEndpoint, gen
  <2>4. Update("Ready", e) \in CaptureUpdate
    BY <1>t, <2>2 DEF Update, CaptureUpdate, MaybeEndpoint
  <2>5. CASE Room
    <3>1. /\ feed' \in Seq(CaptureUpdate) /\ Len(feed') <= CaptureCapacity /\ feed' # <<>>
          /\ feed'[Len(feed')] = Update("Ready", e)
      BY <1>t, <2>1, <2>4, <2>5, FeedAppends
    <3>2. phase' = "capturing" /\ worker' = [worker EXCEPT ![gen] = "running"]
      BY <2>1, <2>5
    <3>3. CaptureTyped'
      BY <1>t, <2>0, <2>3, <3>1, <3>2, FeedTyped
      DEF CaptureTyped, CaptureTypeOK, Flow, CaptureWorker, CaptureInputMeter, CaptureFeed,
          Awaiting
    <3>4. OneLiveWorker'
      BY <1>t, <2>0, <2>3, <3>2 DEF CaptureInv, OneLiveWorker
    <3>5. OpenedAsChosen' /\ ParkIsJustified'
      BY <2>0, <3>2 DEF CaptureInv, OpenedAsChosen, ParkIsJustified
    <3>6. SettledIsAnnounced'
      BY <2>3, <3>1, <3>2 DEF SettledIsAnnounced, Update
    <3>7. MeterIsStamped'
      BY <2>0, <2>3 DEF CaptureInv, MeterIsStamped
    <3> QED
      BY <3>3, <3>4, <3>5, <3>6, <3>7 DEF CaptureInv
  <2>6. CASE ~Room
    <3>1. phase' = "next" /\ worker' = Cancelled /\ feed' = feed
      BY <2>1, <2>6
    <3>2. /\ CaptureWorker'
          /\ \A g \in Captures : worker'[g] \in {"starting", "running"} =>
               worker[g] \in {"starting", "running"} /\ g # gen
      BY <1>t, <3>1, CancelKeeps DEF CaptureWorker
    <3>3. CaptureTyped'
      BY <1>t, <2>0, <2>3, <3>1, <3>2
      DEF CaptureTyped, CaptureTypeOK, Flow, CaptureInputMeter, CaptureFeed, Awaiting
    <3>4. OneLiveWorker'
      BY <3>2 DEF CaptureInv, OneLiveWorker
    <3>5. OpenedAsChosen' /\ ParkIsJustified' /\ SettledIsAnnounced'
      BY <2>0, <3>1 DEF CaptureInv, OpenedAsChosen, ParkIsJustified, SettledIsAnnounced
    <3>6. MeterIsStamped'
      BY <2>0, <2>3 DEF CaptureInv, MeterIsStamped
    <3> QED
      BY <3>3, <3>4, <3>5, <3>6 DEF CaptureInv
  <2> QED
    BY <2>5, <2>6
<1>5. CASE WorkerFails
  <2>0. /\ phase \in {"readying", "capturing"} /\ gen \in Captures
        /\ worker' = [worker EXCEPT ![gen] = "ended"]
    BY <1>5, <1>t DEF WorkerFails, CaptureTyped, Awaiting
  <2>1. \A g \in Captures : worker'[g] \notin {"starting", "running"}
    BY <1>t, <2>0 DEF CaptureInv, OneLiveWorker
  <2>2. worker' \in [Captures -> {"none", "starting", "running", "cancelled", "ended"}]
    BY <1>t, <2>0
  <2> QED
    BY <1>5, <2>0, <2>1, <2>2, ClimbKeeps DEF WorkerFails
<1>6. CASE LadderElapses
  <2>0. /\ phase = "ladder" /\ phase' = "next" /\ gen' = gen
        /\ UNCHANGED <<control, controls, system_asleep, captured, preference, opening, ladder,
                       worker, metered, meter, feed, source>>
    BY <1>6 DEF LadderElapses, gen
  <2> QED
    BY <1>t, <2>0
    DEF CaptureInv, CaptureTyped, CaptureTypeOK, Flow, CaptureWorker, CaptureInputMeter,
        CaptureFeed, Awaiting, OneLiveWorker, OpenedAsChosen, SettledIsAnnounced,
        ParkIsJustified, MeterIsStamped
<1>7. CASE Restart
  <2>1. /\ CaptureWorker'
        /\ \A g \in Captures : worker'[g] \in {"starting", "running"} =>
             worker[g] \in {"starting", "running"} /\ g # gen
    BY <1>7, <1>t, CancelKeeps DEF Restart, CaptureWorker
  <2> QED
    BY <1>7, <1>t, <1>s, <2>1, LeavePhase DEF Restart, CaptureWorker
<1>8. CASE Park
  <2>1. /\ CaptureWorker'
        /\ \A g \in Captures : worker'[g] \in {"starting", "running"} =>
             worker[g] \in {"starting", "running"} /\ g # gen
    BY <1>8, <1>t, CancelKeeps DEF Park, CaptureWorker
  <2>2. captured' \in CaptureState /\ captured'.generation = captured.generation
    BY <1>8, <1>t DEF Park, CaptureState, SourceStates, MaybeEndpoint
  <2>3. Update("Suspended", NoEndpoint) \in CaptureUpdate
    BY <1>t DEF Update, CaptureUpdate, MaybeEndpoint
  <2>4. feed' \in Seq(CaptureUpdate) /\ Len(feed') <= CaptureCapacity
    BY <1>8, <1>t, <2>3, FeedAppends DEF Park
  <2>5. control.value = "Suspend"
    BY <1>8 DEF Park, Sees
  <2> QED
    BY <1>8, <1>t, <1>s, <2>1, <2>2, <2>4, <2>5, LeavePhase DEF Park, CaptureWorker
<1>9. CASE ParkedIgnores
  <2>0. /\ phase = "parked" /\ control.changed /\ control.value \in {"EndpointChange", "Suspend"}
        /\ control' = [control EXCEPT !.changed = FALSE] /\ gen' = gen
        /\ UNCHANGED <<controls, system_asleep, phase, captured, preference, opening, ladder,
                       worker, metered, meter, feed, source>>
    BY <1>9 DEF ParkedIgnores, Sees, gen
  <2>1. /\ control' \in [value : Controls, changed : BOOLEAN]
        /\ control'.changed = FALSE /\ control'.value = control.value
    BY <1>t, <2>0 DEF CaptureTypeOK
  <2>2. system_asleep
    BY <2>0 DEF CaptureInv, ParkIsJustified
  <2>3. CaptureTyped'
    BY <1>t, <2>0, <2>1
    DEF CaptureTyped, CaptureTypeOK, Flow, CaptureWorker, CaptureInputMeter, CaptureFeed, Awaiting
  <2> QED
    BY <2>0, <2>1, <2>2, <2>3
    DEF CaptureInv, OneLiveWorker, OpenedAsChosen, SettledIsAnnounced, ParkIsJustified,
        MeterIsStamped
<1>10. CASE Unpark
  <2>1. \A g \in Captures : worker[g] \in {"starting", "running"} =>
          worker[g] \in {"starting", "running"} /\ g # gen
    BY <1>10 DEF Unpark, CaptureInv, OneLiveWorker
  <2>2. 0 \in 0..LadderLength
    OBVIOUS
  <2> QED
    BY <1>10, <1>t, <1>s, <2>1, <2>2, LeavePhase DEF Unpark
<1>11. CASE StopCapture
  <2>0. worker' = [g \in Captures |-> IF worker[g] = "none" THEN "none" ELSE "ended"]
    BY <1>11 DEF StopCapture
  <2>1. Update("Stopped", NoEndpoint) \in CaptureUpdate
    BY <1>t DEF Update, CaptureUpdate, MaybeEndpoint
  <2>2. feed' \in Seq(CaptureUpdate) /\ Len(feed') <= CaptureCapacity
    BY <1>11, <1>t, <2>1, FeedAppends DEF StopCapture
  <2>3. /\ worker' \in [Captures -> {"none", "starting", "running", "cancelled", "ended"}]
        /\ \A g \in Captures : worker'[g] \in {"starting", "running"} =>
             worker[g] \in {"starting", "running"} /\ g # gen
    BY <2>0
  <2> QED
    BY <1>11, <1>t, <1>s, <2>2, <2>3, LeavePhase DEF StopCapture
<1>12. CASE WorkerReads
  <2>0. PICK g \in Captures :
          /\ worker[g] \in {"running", "cancelled"} /\ RecordPeak(g)
          /\ worker' = [worker EXCEPT ![g] = IF @ = "cancelled" THEN "ended" ELSE @]
          /\ UNCHANGED <<control, controls, system_asleep, phase, captured, preference, opening,
                         ladder, metered, feed, source>>
    BY <1>12 DEF WorkerReads
  <2>1. /\ meter' \in [generation : 0..MaxCaptures, peak : 0..MaxCaptures]
        /\ meter'.generation \in {0, gen} /\ meter'.peak \in {0, gen}
    <3>1. meter' = meter \/ (meter.generation # 0 /\ meter.generation = metered[g]
                             /\ meter' = [meter EXCEPT !.peak = g])
      BY <2>0 DEF RecordPeak
    <3>2. meter.generation # 0 /\ meter.generation = metered[g] => g = gen
      BY <1>t DEF CaptureInv, MeterIsStamped
    <3> QED
      BY <1>t, <3>1, <3>2 DEF CaptureInv, MeterIsStamped, Captures
  <2>2. /\ worker' \in [Captures -> {"none", "starting", "running", "cancelled", "ended"}]
        /\ \A h \in Captures : worker'[h] \in {"starting", "running"}
             => worker[h] \in {"starting", "running"}
    BY <1>t, <2>0
  <2>3. gen' = gen
    BY <2>0 DEF gen
  <2>4. CaptureTyped'
    BY <1>t, <2>0, <2>1, <2>2, <2>3
    DEF CaptureTyped, CaptureTypeOK, Flow, CaptureWorker, CaptureInputMeter, CaptureFeed, Awaiting
  <2>5. OneLiveWorker'
    BY <2>0, <2>2, <2>3 DEF CaptureInv, OneLiveWorker
  <2>6. OpenedAsChosen' /\ SettledIsAnnounced' /\ ParkIsJustified' /\ MeterIsStamped'
    BY <2>0, <2>1, <2>3
    DEF CaptureInv, OpenedAsChosen, SettledIsAnnounced, ParkIsJustified, MeterIsStamped
  <2> QED
    BY <2>4, <2>5, <2>6 DEF CaptureInv
<1>13. CASE SetAudioEndpoint
  <2>1. phase = "parked" => system_asleep
    BY <1>13 DEF SetAudioEndpoint, CaptureInv, ParkIsJustified
  <2> QED
    BY <1>13, <1>t, <2>1, ControlKeeps DEF SetAudioEndpoint, Controls
<1>14. CASE BeginSuspendCapture
  BY <1>14, <1>t, ControlKeeps DEF BeginSuspendCapture, Controls
<1>15. CASE FinishResumeCapture
  BY <1>15, <1>t, ControlKeeps DEF FinishResumeCapture, Controls
<1>16. CASE ShutdownCapture
  BY <1>16, <1>t, ControlKeeps DEF ShutdownCapture, Controls
<1>17. CASE ApplyCaptureUpdate
  <2>0. /\ feed # <<>> /\ feed' = Tail(feed) /\ source' = Shows(Head(feed)) /\ gen' = gen
        /\ UNCHANGED <<control, controls, system_asleep, phase, captured, preference, opening,
                       ladder, worker, metered, meter>>
    BY <1>17 DEF ApplyCaptureUpdate, gen
  <2>1. /\ feed' \in Seq(CaptureUpdate) /\ Len(feed') = Len(feed) - 1
        /\ Head(feed) \in CaptureUpdate /\ Head(feed) = feed[1] /\ Len(feed) >= 1
        /\ \A i \in 1..Len(feed') : feed'[i] = feed[i + 1]
        /\ (feed' = <<>> <=> Len(feed) = 1)
    <3>1. Len(feed) >= 1 /\ Head(feed) = feed[1] /\ feed[1] \in CaptureUpdate
      BY <1>t, <2>0
    <3>2. /\ feed' \in Seq(CaptureUpdate) /\ Len(feed') = Len(feed) - 1
          /\ \A i \in 1..Len(feed') : feed'[i] = feed[i + 1]
      BY <1>t, <2>0
    <3>3. feed' = <<>> <=> Len(feed') = 0
      BY <3>2
    <3> QED
      BY <1>t, <3>1, <3>2, <3>3
  <2>2. source' \in AudioSourceSnapshot
    <3> DEFINE u == Head(feed)
    <3>1. /\ u.kind \in {"Started", "Ready", "Recovering", "Suspended", "Stopped"}
          /\ u.endpoint \in MaybeEndpoint /\ NoEndpoint \in MaybeEndpoint
          /\ source \in AudioSourceSnapshot
      BY <1>t, <2>1 DEF CaptureUpdate, CaptureTypeOK, MaybeEndpoint
    <3>2. CASE u.kind = "Started"
      BY <2>0, <3>1, <3>2 DEF Shows, AudioSourceSnapshot
    <3>3. CASE u.kind # "Started"
      BY <2>0, <3>1, <3>3 DEF Shows, AudioSourceSnapshot, SourceStates
    <3> QED
      BY <3>2, <3>3
  <2>3. CaptureTyped'
    BY <1>t, <2>0, <2>1, <2>2, FeedTyped
    DEF CaptureTyped, CaptureTypeOK, Flow, CaptureWorker, CaptureInputMeter, CaptureFeed, Awaiting
  <2>4. OneLiveWorker' /\ OpenedAsChosen' /\ ParkIsJustified' /\ MeterIsStamped'
    BY <2>0 DEF CaptureInv, OneLiveWorker, OpenedAsChosen, ParkIsJustified, MeterIsStamped
  <2>5. SettledIsAnnounced'
    <3> SUFFICES ASSUME phase \in {"capturing", "ladder"} PROVE SettledIsAnnounced'
      BY <2>0 DEF SettledIsAnnounced
    <3>0. /\ captured.state = IF phase = "capturing" THEN "Capturing" ELSE "Recovering"
          /\ phase = "ladder" => captured.endpoint = NoEndpoint
          /\ feed[Len(feed)].kind = IF phase = "capturing" THEN "Ready" ELSE "Recovering"
          /\ feed[Len(feed)].endpoint = captured.endpoint
      BY <2>0 DEF CaptureInv, SettledIsAnnounced
    <3>1. CASE feed' = <<>>
      <4>1. Head(feed) = feed[Len(feed)]
        BY <2>1, <3>1
      <4>2. source'.state = captured.state /\ source'.endpoint = captured.endpoint
        BY <2>0, <3>0, <4>1 DEF Shows
      <4> QED
        BY <2>0, <3>0, <3>1, <4>2 DEF SettledIsAnnounced
    <3>2. CASE feed' # <<>>
      <4>1. feed'[Len(feed')] = feed[Len(feed)]
        BY <1>t, <2>1, <3>2
      <4> QED
        BY <2>0, <3>0, <3>2, <4>1 DEF SettledIsAnnounced
    <3> QED
      BY <3>1, <3>2
  <2> QED
    BY <2>3, <2>4, <2>5 DEF CaptureInv
<1>18. CASE Telemetry
  <2>0. /\ UNCHANGED <<control, controls, system_asleep, phase, captured, preference, opening,
                       ladder, worker, metered, feed>>
        /\ gen' = gen
        /\ source' = [source EXCEPT !.peak =
             IF captured.state = "Capturing" /\ meter.generation = gen THEN meter.peak ELSE 0]
        /\ meter' = IF meter.generation = gen THEN [meter EXCEPT !.peak = 0] ELSE meter
    BY <1>18 DEF Telemetry, gen
  <2>1. /\ source' \in AudioSourceSnapshot /\ source'.state = source.state
        /\ source'.endpoint = source.endpoint
    BY <1>t, <2>0 DEF AudioSourceSnapshot, CaptureTypeOK
  <2>2. /\ meter' \in [generation : 0..MaxCaptures, peak : 0..MaxCaptures]
        /\ meter'.generation \in {0, gen} /\ meter'.peak \in {0, gen}
    BY <1>t, <2>0 DEF CaptureInv, MeterIsStamped
  <2>3. CaptureTyped'
    BY <1>t, <2>0, <2>1, <2>2
    DEF CaptureTyped, CaptureTypeOK, Flow, CaptureWorker, CaptureInputMeter, CaptureFeed, Awaiting
  <2>4. OneLiveWorker' /\ OpenedAsChosen' /\ ParkIsJustified'
    BY <2>0 DEF CaptureInv, OneLiveWorker, OpenedAsChosen, ParkIsJustified
  <2>5. SettledIsAnnounced' /\ MeterIsStamped'
    BY <2>0, <2>1, <2>2 DEF CaptureInv, SettledIsAnnounced, MeterIsStamped
  <2> QED
    BY <2>3, <2>4, <2>5 DEF CaptureInv
<1>19. CASE UNCHANGED captureVars
  <2>0. /\ UNCHANGED <<control, controls, system_asleep, phase, captured, preference, opening,
                       ladder, worker, metered, meter, feed, source>>
        /\ gen' = gen
    BY <1>19 DEF captureVars, gen
  <2> QED
    BY <2>0
    DEF CaptureInv, CaptureTyped, CaptureTypeOK, Flow, CaptureWorker, CaptureInputMeter,
        CaptureFeed, OneLiveWorker, OpenedAsChosen, SettledIsAnnounced, ParkIsJustified,
        MeterIsStamped
<1> QED
  BY <1>1, <1>2, <1>3, <1>4, <1>5, <1>6, <1>7, <1>8, <1>9, <1>10, <1>11, <1>12, <1>13, <1>14,
     <1>15, <1>16, <1>17, <1>18, <1>19
  DEF CaptureNext, SupervisorTask

\* Across swaps, failures, overload, suspends and resumes, with cancelled worker
\* threads still inside a read: one live loopback stream, opened with the newest
\* choice, truly shown once the queue is drained, metered by its own peaks, and
\* never parked while the machine is awake.
THEOREM OneTrueCapture == CaptureSpec => []CaptureSafe
<1>1. CaptureInv => CaptureSafe
  <2> SUFFICES ASSUME CaptureInv PROVE CaptureSafe
    OBVIOUS
  <2>1. CaptureTypeOK /\ OneLiveWorker /\ CapturesTheChoice /\ SourceShownTruly
    BY DEF CaptureInv, CaptureTyped, OpenedAsChosen, CapturesTheChoice, SettledIsAnnounced,
           SourceShownTruly
  <2>2. ParkedMeansAsleep /\ PeakIsCurrent
    BY DEF CaptureInv, ParkIsJustified, ParkedMeansAsleep, MeterIsStamped, PeakIsCurrent
  <2> QED
    BY <2>1, <2>2 DEF CaptureSafe
<1> QED
  BY <1>1, CaptureInitially, CaptureStep, PTL DEF CaptureSpec
=============================================================================
