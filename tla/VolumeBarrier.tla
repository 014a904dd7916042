---------------------------- MODULE VolumeBarrier ----------------------------
(***************************************************************************)
(* The transport adapter (backend/transport.rs) with the effective volumes *)
(* shared between controller, supervisor and a start under way             *)
(* (EffectiveVolumeState in backend/session.rs).                           *)
(*                                                                         *)
(* A start connects what it can of the desired set, sets every level in at *)
(* most INITIAL_VOLUME_MAX_PASSES passes, prepares the gated audio, and at *)
(* activation sets the levels again; the audio is released only under the  *)
(* lock that a level change takes.  A change is stored at once and then    *)
(* announced to the running session through a bounded queue.               *)
(*                                                                         *)
(* A snapshot's version is compared for equality only, so the model keeps  *)
(* whether a level changed since the snapshot was taken.                   *)
(***************************************************************************)
EXTENDS Naturals, FiniteSets, Sequences, SequencesExt

CONSTANTS Speakers,      \* the desired receivers
          Volumes,       \* levels
          MaxPasses,     \* INITIAL_VOLUME_MAX_PASSES
          VolumeCapacity \* SESSION_REQUEST_CAPACITY

ASSUME BarrierAssumption ==
  IsFiniteSet(Speakers) /\ MaxPasses \in Nat \ {0} /\ VolumeCapacity \in Nat \ {0}

VARIABLES
  levels,     \* EffectiveVolumeState
  stage,      \* "connecting", "setup", "preparing", "prepared", "activating",
              \* "active", "failed", "stopped"
  connected,  \* members that connected
  snapshot,   \* the levels this pass sets
  current,    \* no level changed since the snapshot
  todo,       \* members this pass has still to set
  pass,
  released,   \* the audio gate is open
  heard,      \* the level each receiver was last set to
  notices,    \* queued SetVolume requests
  announced,  \* the controller has taken the Active edge
  missed      \* receivers whose newest level nobody will forward

barrierVars == <<levels, stage, connected, snapshot, current, todo, pass, released,
                 heard, notices, announced, missed>>
passVars    == <<snapshot, current, todo, pass>>

\* The types; the request queue within its capacity, and the audio of a
\* session that never became active gated.
EffectiveVolumeState == levels \in [Speakers -> Volumes]
EffectiveVolumeSnapshot ==
  snapshot \in [Speakers -> Volumes] /\ todo \subseteq connected /\ pass \in 0..MaxPasses
VolumeRequests == Len(notices) <= VolumeCapacity
AirPlayGroupTransport ==
  /\ connected \subseteq Speakers
  /\ stage \in {"connecting", "setup", "preparing", "prepared", "activating", "active",
                "failed", "stopped"}
  /\ (released => stage \in {"active", "stopped"})

BarrierTypeOK ==
  EffectiveVolumeState /\ EffectiveVolumeSnapshot /\ VolumeRequests /\ AirPlayGroupTransport

-----------------------------------------------------------------------------
(* The start.                                                              *)

BeginPass(members, n) ==
  snapshot' = levels /\ current' = TRUE /\ todo' = members /\ pass' = n

EndStart(s) == stage' = s /\ UNCHANGED passVars

\* connect_group: refused, without a primary, or with the members it reached.
Connect ==
  /\ stage = "connecting"
  /\ \/ EndStart("failed") /\ UNCHANGED connected
     \/ \E members \in SUBSET Speakers \ {{}} :
          connected' = members /\ stage' = "setup" /\ BeginPass(members, 1)
  /\ UNCHANGED <<levels, released, heard, notices, announced, missed>>

\* One member of a pass.  A level that was not acknowledged in time may have
\* reached the receiver; the start fails either way.
SetMemberVolume ==
  /\ stage \in {"setup", "activating"}
  /\ \E r \in todo :
       \/ /\ heard' = [heard EXCEPT ![r] = snapshot[r]] /\ todo' = todo \ {r}
          /\ UNCHANGED <<stage, snapshot, current, pass>>
       \/ heard' \in {heard, [heard EXCEPT ![r] = snapshot[r]]} /\ EndStart("failed")
  /\ UNCHANGED <<levels, connected, released, notices, announced, missed>>

\* The end of a setup pass.
SetupPassEnds ==
  /\ stage = "setup" /\ todo = {}
  /\ \/ current /\ EndStart("preparing")
     \/ ~current /\ pass < MaxPasses /\ BeginPass(connected, pass + 1) /\ UNCHANGED stage
     \/ ~current /\ pass = MaxPasses /\ EndStart("failed")
  /\ UNCHANGED <<levels, connected, released, heard, notices, announced, missed>>

\* The streaming entry point of one member or of the group, which also
\* refuses a calibration it cannot normalise.
PrepareAudio ==
  /\ stage = "preparing"
  /\ EndStart("prepared") \/ EndStart("failed")
  /\ UNCHANGED <<levels, connected, released, heard, notices, announced, missed>>

\* The supervisor takes the prepared transport and activates it.
BeginActivation ==
  /\ stage = "prepared" /\ stage' = "activating" /\ BeginPass(connected, 1)
  /\ UNCHANGED <<levels, connected, released, heard, notices, announced, missed>>

\* Faulty: the gate opens without looking at the levels again.
ActivationPassEndsBlindly ==
  /\ stage = "activating" /\ todo = {}
  /\ EndStart("active") /\ released' = TRUE
  /\ UNCHANGED <<levels, connected, heard, notices, announced, missed>>

\* release_if_current: the comparison and the release are one step.
ActivationPassEnds ==
  /\ stage = "activating" /\ todo = {}
  /\ \/ current /\ EndStart("active") /\ released' = TRUE
     \/ /\ ~current /\ pass < MaxPasses /\ BeginPass(connected, pass + 1)
        /\ UNCHANGED <<stage, released>>
     \/ ~current /\ pass = MaxPasses /\ EndStart("failed") /\ UNCHANGED released
  /\ UNCHANGED <<levels, connected, heard, notices, announced, missed>>

\* Shutdown, the activation deadline or a newer request; and the end of an
\* active session.
StopTransport ==
  /\ stage \in {"activating", "active"} /\ EndStart("stopped")
  /\ UNCHANGED <<levels, connected, released, heard, notices, announced, missed>>

-----------------------------------------------------------------------------
(* Changes of a level.                                                     *)

Notified(queue, r) == r \in ToSet(queue)

\* One try_send per active receiver, in any order; a full queue refuses it,
\* which matters only when none is queued for that receiver.
Announce(queue, receivers) ==
  \E order \in SetToSeqs(receivers) :
    LET room == VolumeCapacity - Len(queue)
        sent == SubSeq(order, 1, IF room < Len(order) THEN room ELSE Len(order))
    IN  /\ notices' = queue \o sent
        /\ missed' = (missed \ ToSet(sent)) \cup
                     {r \in receivers : ~Notified(queue \o sent, r)}

\* A slider moves: remember_effective_volumes stores the level, and
\* forward_effective_volumes announces it to the members the controller knows
\* to be active.
ChangeLevel ==
  /\ \E r \in Speakers : \E v \in Volumes \ {levels[r]} :
       /\ levels' = [levels EXCEPT ![r] = v]
       /\ current' = FALSE
  /\ IF announced THEN Announce(notices, connected) ELSE UNCHANGED <<notices, missed>>
  /\ UNCHANGED <<stage, connected, snapshot, todo, pass, released, heard, announced>>

\* The controller applies the Active edge and forwards every level.
TakeActiveEdge ==
  /\ stage = "active" /\ ~announced /\ announced' = TRUE
  /\ Announce(notices, connected)
  /\ UNCHANGED <<levels, stage, connected, passVars, released, heard>>

\* Faulty: the level the start was given is sent again.
ForwardLevelStale ==
  /\ stage = "active" /\ notices # <<>> /\ notices' = Tail(notices)
  /\ heard' = [heard EXCEPT ![Head(notices)] = snapshot[Head(notices)]]
  /\ UNCHANGED <<levels, stage, connected, passVars, released, announced, missed>>

\* The supervisor handles SetVolume on the live session: it reads the newest
\* level, not the one queued; a failed request is reported and not repeated.
ForwardLevel ==
  /\ stage = "active" /\ notices # <<>> /\ notices' = Tail(notices)
  /\ LET r == Head(notices)
     IN  \/ heard' = [heard EXCEPT ![r] = levels[r]] /\ UNCHANGED missed
         \/ missed' = missed \cup {r} /\ UNCHANGED heard
  /\ UNCHANGED <<levels, stage, connected, passVars, released, announced>>

BarrierInit ==
  /\ levels \in [Speakers -> Volumes] /\ stage = "connecting" /\ connected = {}
  /\ snapshot = levels /\ current = FALSE /\ todo = {} /\ pass = 0
  /\ released = FALSE /\ heard \in [Speakers -> Volumes]
  /\ notices = <<>> /\ announced = FALSE /\ missed = {}

BarrierNext ==
  \/ Connect \/ SetMemberVolume \/ SetupPassEnds \/ PrepareAudio \/ BeginActivation
  \/ ActivationPassEnds \/ StopTransport \/ ChangeLevel \/ TakeActiveEdge \/ ForwardLevel

\* Every call of the protocol client returns or times out.
BarrierFairness ==
  /\ WF_barrierVars(Connect) /\ WF_barrierVars(SetMemberVolume)
  /\ WF_barrierVars(SetupPassEnds) /\ WF_barrierVars(PrepareAudio)
  /\ WF_barrierVars(BeginActivation) /\ WF_barrierVars(ActivationPassEnds)

-----------------------------------------------------------------------------
(* Properties.                                                             *)

\* No receiver plays at another level than the saved one: in the step that
\* opens the gate every member was last set to the newest level.
ReleasedAtSavedLevel ==
  [][~released /\ released' => \A r \in connected' : heard'[r] = levels'[r]]_barrierVars

\* A level set while the session runs arrives, also when it was changed
\* between the release and the Active edge or announced several times.
LevelsArrive ==
  stage = "active" /\ announced /\ notices = <<>> =>
    \A r \in connected \ missed : heard[r] = levels[r]

\* A slider in motion does not hold a start open for ever.
StartEnds == stage = "setup" ~> stage \in {"active", "failed", "stopped"}

\* The passes are bounded and a level set while the session runs is heard.
BarrierSafe == BarrierTypeOK /\ LevelsArrive
=============================================================================
