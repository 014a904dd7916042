------------------------------ MODULE RtpFanout ------------------------------
(***************************************************************************)
(* One encoded frame for every target: prepare_stream_frame and            *)
(* prepare_frame_for_targets (airplay-audio/src/streamer.rs) over the RTP  *)
(* senders of rtp.rs, with the clock generations the timing workers        *)
(* publish and the retransmit requests the receivers send.                 *)
(*                                                                         *)
(* Audio packets are shared: same timestamp, marker and sequence for every *)
(* target.  Only the sync packet carries a target's presentation time.     *)
(* Times are small naturals; a sequence number wraps at SeqSpace and the   *)
(* history is a ring of HistorySize, which divides it.                     *)
(***************************************************************************)
EXTENDS Integers, Sequences, FiniteSets, FiniteSetsExt

CONSTANTS Delays,       \* target_presentation_delays_ns, one per target
          Silent,       \* targets whose control port is 0
          Unbound,      \* senders without a data socket
          Lead,         \* render_delay_ns
          Clocks,       \* clock states [id, offset] a timing worker may publish
          SyncEvery,    \* frames per second of audio
          SeqSpace,     \* 2^16
          HistorySize,  \* PACKET_HISTORY_SIZE
          MaxTime,      \* u64::MAX
          FanFrames,    \* bound on frames
          MaxSteps      \* bound on clock publications and on steps back of the wall clock

ASSUME FanoutAssumption ==
  /\ Delays \in Seq(Nat) /\ Lead \in Nat /\ SyncEvery \in Nat \ {0}
  /\ Clocks \subseteq [id : Nat, offset : Int]
  /\ HistorySize \in Nat \ {0} /\ SeqSpace \in Nat \ {0} /\ SeqSpace % HistorySize = 0
  /\ Silent \subseteq DOMAIN Delays
  /\ Unbound \subseteq DOMAIN Delays
  /\ MaxTime \in Nat /\ FanFrames \in Nat /\ MaxSteps \in Nat

Targets == DOMAIN Delays
NoSync == [time |-> 0, clock |-> 0, ext |-> FALSE, seq |-> -1]
Unsynced == [id |-> 0, offset |-> 0]
Nothing == -1
\* build_send_targets: the senders that own a data socket, in their order.
Bound == Targets \ Unbound
PlaceOf(t) == Cardinality({u \in Bound : u <= t})
SendTargets == [k \in {PlaceOf(t) : t \in Bound} |-> CHOOSE t \in Bound : PlaceOf(t) = k]

VARIABLES
  mode,       \* "ntp", or "ptp" with coherent clock updates
  published,  \* what the timing worker last published
  clock,      \* ptp_clock_state (Unsynced: none); in NTP mode the measured offset
  wall,       \* the local wall clock
  frame,      \* frames prepared; the next frame's RTP timestamp
  begun,     \* first_packet_sent
  lastSync,   \* last_sync_rtp
  lastAnchor, \* last_master_anchor_ns
  sender,     \* per target: sequence, sync_sequence, first_sync_sent, packet_history
  audio,      \* per target: the audio packet of the last frame
  sync,       \* per target: its sync packet, or NoSync
  answer,     \* what the retransmit request just handled was answered; <<>> after other steps
  budget      \* publications and steps back left

fanVars == <<mode, published, clock, wall, frame, begun, lastSync, lastAnchor, sender, audio,
             sync, answer, budget>>

FreshSender == [seq |-> 0, syncSeq |-> 0, synced |-> FALSE, history |-> [i \in 0 .. HistorySize - 1 |-> Nothing]]

FanInit ==
  /\ mode \in {"ntp", "ptp"} /\ published = Unsynced /\ clock = Unsynced /\ wall = 3 /\ frame = 0
  /\ begun = FALSE /\ lastSync = 0 /\ lastAnchor = 0
  /\ sender = [t \in Targets |-> FreshSender]
  /\ audio = [t \in Targets |-> [seq |-> Nothing, ts |-> Nothing, marker |-> FALSE]]
  /\ sync = [t \in Targets |-> NoSync] /\ answer = <<>> /\ budget = MaxSteps

\* A timing worker publishes a generation, an offset, or the loss of its master.
Publish(c) ==
  /\ budget > 0 /\ budget' = budget - 1 /\ published # c /\ published' = c /\ answer' = <<>>
  /\ UNCHANGED <<mode, clock, wall, frame, begun, lastSync, lastAnchor, sender, audio, sync>>

\* master_time_for_anchor_ns: local minus offset; the local time when that is
\* not representable.
MasterTime(now, c) == IF now - c.offset \in 0 .. MaxTime THEN now - c.offset ELSE now

\* checked_presentation_time_ns.
Presentation(anchor, d) == anchor + Lead + d
Representable(anchor, d, ref) == Presentation(anchor, d) <= MaxTime /\ Presentation(anchor, d) > ref

\* Faulty: identity and offset are consumed at different times.
ConsumedTorn ==
  IF mode = "ptp" /\ published.id # clock.id
  THEN [clock |-> [id |-> published.id, offset |-> clock.offset], anchor |-> 0, sync |-> 0,
        sender |-> [t \in Targets |-> [sender[t] EXCEPT !.synced = FALSE]]]
  ELSE [clock |-> published, anchor |-> lastAnchor, sync |-> lastSync, sender |-> sender]

\* What consuming the published clock leaves: the clock, the anchor and sync
\* bookkeeping, and the senders.  A change of master starts a new generation.
Consumed ==
  IF mode = "ptp" /\ published.id # clock.id
  THEN [clock |-> published, anchor |-> 0, sync |-> 0,
        sender |-> [t \in Targets |-> [sender[t] EXCEPT !.synced = FALSE]]]
  ELSE [clock |-> published, anchor |-> lastAnchor, sync |-> lastSync, sender |-> sender]

\* prepare_ptp_sync, prepare_sync: one packet per target that has a control port.
SyncPacket(t, anchor, now, s) ==
  IF t \in Silent THEN NoSync
  ELSE [time |-> Presentation(anchor, Delays[t]), clock |-> now.clock.id,
        ext |-> ~s[t].synced, seq |-> s[t].syncSeq]

\* serialize_audio: the packet enters the history under its sequence number.
Serialized(s, isDue) ==
  [t \in Targets |->
     [seq |-> (s[t].seq + 1) % SeqSpace,
      syncSeq |-> IF isDue /\ t \notin Silent THEN (s[t].syncSeq + 1) % SeqSpace ELSE s[t].syncSeq,
      synced |-> s[t].synced \/ (isDue /\ t \notin Silent),
      history |-> [s[t].history EXCEPT ![s[t].seq % HistorySize] = frame]]]

Ready(now) == mode = "ntp" \/ now.clock # Unsynced
Due(now) == Ready(now) /\ (~begun \/ now.sync = 0 \/ frame - now.sync >= SyncEvery)

\* prepare_stream_frame: a sync is due on the first packet, on a new generation
\* and once a second; one target whose time is not valid costs everyone the
\* sync of this frame, never the audio.  The wall clock may step back.
Prepare(by) ==
  LET now == Consumed
      anchor == MasterTime(wall + by, now.clock)
      emit == Due(now) /\ \A t \in Targets : Representable(anchor, Delays[t], now.anchor)
  IN /\ frame < FanFrames /\ wall' = wall + by /\ wall' >= 0
     /\ budget' = (IF by < 0 THEN budget - 1 ELSE budget) /\ budget' >= 0
     /\ clock' = now.clock
     /\ audio' = [t \in Targets |-> [seq |-> now.sender[t].seq, ts |-> frame, marker |-> ~begun]]
     /\ sync' = [t \in Targets |-> IF emit THEN SyncPacket(t, anchor, now, now.sender) ELSE NoSync]
     /\ sender' = Serialized(now.sender, emit)
     /\ lastSync' = (IF emit THEN frame ELSE now.sync)
     /\ lastAnchor' = (IF Ready(now) THEN anchor ELSE now.anchor)
     /\ begun' = TRUE /\ frame' = frame + 1 /\ answer' = <<>> /\ UNCHANGED <<mode, published>>

\* reset_after_flush.
FlushReset ==
  /\ begun /\ begun' = FALSE /\ sender' = [t \in Targets |-> [sender[t] EXCEPT !.synced = FALSE]]
  /\ answer' = <<>>
  /\ UNCHANGED <<mode, published, clock, wall, frame, lastSync, lastAnchor, audio, sync, budget>>

\* Faulty: the slot is answered whatever packet it holds.
LookupStale(t, seq) == sender[t].history[seq % HistorySize]

\* The history entry of a sequence number, if the slot still holds it.
Lookup(t, seq) ==
  LET f == sender[t].history[seq % HistorySize]
  IN IF f # Nothing /\ f % SeqSpace = seq THEN f ELSE Nothing

\* A request names the first lost packet and how many; a response carries the
\* original sequence number and packet.
RetransmitRequest == [first : 0 .. SeqSpace - 1, count : 1 .. 2]
Response(t, seq) == [seq |-> seq, frame |-> Lookup(t, seq)]
Requested(t, r) == [i \in 1 .. r.count |-> Response(t, (r.first + i - 1) % SeqSpace)]

\* handle_retransmit_for_target: every requested slot is answered or missed.
Retransmit(t, r) ==
  /\ answer' = Requested(t, r)
  /\ UNCHANGED <<mode, published, clock, wall, frame, begun, lastSync, lastAnchor, sender, audio,
                 sync, budget>>

FanNext ==
  \/ \E c \in Clocks \cup {Unsynced} : Publish(c)
  \/ \E by \in {1, -2} : Prepare(by)
  \/ FlushReset
  \/ \E t \in Targets, r \in RetransmitRequest : Retransmit(t, r)

----------------------------------------------------------------------------
\* RtpHeader of an audio packet, and the sync packet beside it.
RtpHeader == [seq : -1 .. SeqSpace - 1, ts : -1 .. FanFrames, marker : BOOLEAN]
SyncHeader == [time : Nat, clock : Nat, ext : BOOLEAN, seq : -1 .. SeqSpace - 1]

\* RtpSender: counters in range, and a history that holds what was sent.
RtpSender ==
  \A t \in Targets :
    /\ sender[t].seq \in 0 .. SeqSpace - 1 /\ sender[t].syncSeq \in 0 .. SeqSpace - 1
    /\ \A i \in DOMAIN sender[t].history : sender[t].history[i] \in {Nothing} \cup 0 .. frame - 1

\* A prepared frame has one audio and one sync entry per sender, and what was
\* resent answers every requested slot.
PreparedFrame ==
  /\ audio \in [Targets -> RtpHeader] /\ sync \in [Targets -> SyncHeader]
  /\ \A i \in DOMAIN answer : answer[i].seq \in 0 .. SeqSpace - 1 /\ answer[i].frame < frame

\* dispatch: what the k-th socket of the sender thread puts on the wire.
PacketFor(k, packets) == packets[SendTargets[k]]

\* A socket carries its own receiver's packets, also behind a sender that has
\* none: its sync is later than the first socket's by the two delays' difference.
OwnPacketsOnly ==
  \A k, j \in DOMAIN SendTargets :
    LET a == PacketFor(k, sync) b == PacketFor(j, sync)
    IN (a # NoSync /\ b # NoSync) => a.time - b.time = PacketFor(k, Delays) - PacketFor(j, Delays)

\* Every target's audio is the same packet of one shared stream, whatever its
\* delay, control port or sync history; sync packets of one frame differ by
\* exactly the targets' delays and name one clock.
OneSharedStream ==
  /\ \A t, u \in Targets : audio[t] = audio[u] /\ sender[t].seq = frame % SeqSpace
  /\ \A t, u \in Targets \ Silent :
       /\ (sync[t] = NoSync) <=> (sync[u] = NoSync)
       /\ (sync[t] # NoSync) => /\ sync[t].time - Delays[t] = sync[u].time - Delays[u]
                                /\ sync[t].clock = sync[u].clock

\* A sync packet is never torn: one clock the timing worker published, the
\* packet's own, accounts for the master it names and the time it carries.
NoTornSync ==
  \A t \in Targets : (sync[t] # NoSync) =>
    /\ sync[t].time <= MaxTime
    /\ \E c \in Clocks \cup {Unsynced} :
         c.id = sync[t].clock /\ sync[t].time = Presentation(MasterTime(wall, c), Delays[t])

\* A receiver is told to restart its sync on the first packet of a generation:
\* when the master it was given changes, the packet has the extension bit.
NewMasterRestartsSync ==
  \A t \in Targets \ Silent :
       (sync'[t] # NoSync /\ mode = "ptp" /\ clock'.id # clock.id) => sync'[t].ext

\* One frame of a clock that stepped back may go without sync; as soon as the
\* clock advances the sync that is due is sent.
SyncRecovers ==
  (frame' = frame + 1 /\ wall' > wall /\ published = clock /\ Due(Consumed)
      /\ frame > 0 /\ MasterTime(wall', clock) > MasterTime(wall, clock)
      /\ \A t \in Targets : Presentation(MasterTime(wall', clock), Delays[t]) <= MaxTime)
     => \A t \in Targets \ Silent : sync'[t] # NoSync

\* A retransmitted packet is the latest one sent under its sequence number, and
\* every packet of the last HistorySize frames can be had again, across the
\* wrap of the sequence.
RetransmitIsTruthful ==
  answer' # answer =>
       \A i \in DOMAIN answer' :
         LET newest == {f \in 0 .. frame - 1 : f % SeqSpace = answer'[i].seq}
         IN answer'[i].frame =
              IF newest # {} /\ Max(newest) + HistorySize >= frame THEN Max(newest) ELSE Nothing

\* Every receiver plays the same stream by one published clock.
FanSafe == RtpSender /\ PreparedFrame /\ OneSharedStream /\ OwnPacketsOnly /\ NoTornSync

\* Each step of the fan-out keeps sync and retransmission truthful.
FanStepsSound ==
  [][NewMasterRestartsSync /\ SyncRecovers /\ RetransmitIsTruthful]_fanVars
=============================================================================
