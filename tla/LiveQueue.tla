------------------------------- MODULE LiveQueue -------------------------------
(***************************************************************************)
(* The live PCM queue (airplay-audio/src/live_decoder.rs): the producer's  *)
(* LiveFrameSender with its three ways to send, and the decoders attached  *)
(* to the queue, which cut the captured frames into packets.               *)
(*                                                                         *)
(* try_send_latest is not atomic against the decoders: between its failed  *)
(* send, its eviction and its retry they may receive.  A decoder of a      *)
(* session that is being torn down may still drain beside its successor.   *)
(* A frame carries FrameSize samples, a packet takes PacketSize.           *)
(***************************************************************************)
EXTENDS Naturals, Sequences, SequencesExt, FiniteSets

CONSTANTS Decoders, QueueCapacity, FrameSize, PacketSize, MaxSubmitted

ASSUME LiveQueueAssumption ==
  /\ IsFiniteSet(Decoders) /\ QueueCapacity \in Nat \ {0} /\ FrameSize \in Nat \ {0}
  /\ PacketSize \in Nat \ {0} /\ MaxSubmitted \in Nat

VARIABLES
  fifo,       \* the bounded channel
  submitted,  \* submitted_frames_total; frames are numbered by it
  pending,    \* a frame try_send_latest still has to place, 0 for none
  evictedOne, \* whether it has made its eviction
  evicted,    \* frames evicted or refused on a full queue
  orphaned,   \* frames refused because the decoder is gone
  alive,      \* decoder_alive, cleared when the pair's own decoder is dropped
  feeding,    \* whether the sender exists
  dec         \* per decoder: state, frames taken, samples collected, samples emitted, eof

liveVars == <<fifo, submitted, pending, evictedOne, evicted, orphaned, alive, feeding, dec>>

Samples(f) == [i \in 1 .. FrameSize |-> (f - 1) * FrameSize + i]
FreshDecoder == [st |-> "idle", taken |-> <<>>, held |-> <<>>, out |-> <<>>, eof |-> FALSE]

LiveInit ==
  /\ fifo = <<>> /\ submitted = 0 /\ pending = 0 /\ evictedOne = FALSE /\ evicted = {} /\ orphaned = {} /\ alive = TRUE
  /\ feeding = TRUE /\ dec = [d \in Decoders |-> FreshDecoder]

Submit == feeding /\ pending = 0 /\ submitted < MaxSubmitted /\ submitted' = submitted + 1
Full == Len(fifo) = QueueCapacity

\* Every way to send first looks at the latch.
SendOrphaned ==
  /\ Submit /\ ~alive /\ orphaned' = orphaned \cup {submitted'}
  /\ UNCHANGED <<evictedOne, fifo, pending, evicted, alive, feeding, dec>>

\* try_send, try_send_latest or send finds room.
SendQueued ==
  /\ Submit /\ alive /\ ~Full /\ fifo' = Append(fifo, submitted')
  /\ UNCHANGED <<evictedOne, pending, evicted, orphaned, alive, feeding, dec>>

\* try_send gives the new frame up when the queue is full.
TrySendFull ==
  /\ Submit /\ alive /\ Full /\ evicted' = evicted \cup {submitted'}
  /\ UNCHANGED <<evictedOne, fifo, pending, orphaned, alive, feeding, dec>>

\* try_send_latest keeps it ...
LatestFull ==
  /\ Submit /\ alive /\ Full /\ pending' = submitted'
  /\ UNCHANGED <<evictedOne, fifo, evicted, orphaned, alive, feeding, dec>>

\* ... evicts the oldest frame, if the decoders have left one ...
Evict ==
  /\ pending # 0 /\ ~evictedOne /\ evictedOne' = TRUE
  /\ IF fifo = <<>> THEN UNCHANGED <<fifo, evicted>>
     ELSE fifo' = Tail(fifo) /\ evicted' = evicted \cup {Head(fifo)}
  /\ UNCHANGED <<submitted, pending, orphaned, alive, feeding, dec>>

\* Faulty: the frame goes to the front of the queue, into the slot it freed.
PlaceInFront ==
  /\ pending # 0 /\ evictedOne /\ ~Full /\ fifo' = <<pending>> \o fifo
  /\ pending' = 0 /\ evictedOne' = FALSE
  /\ UNCHANGED <<submitted, evicted, orphaned, alive, feeding, dec>>

\* ... and sends again.
Place ==
  /\ pending # 0 /\ evictedOne /\ ~Full /\ fifo' = Append(fifo, pending)
  /\ pending' = 0 /\ evictedOne' = FALSE
  /\ UNCHANGED <<submitted, evicted, orphaned, alive, feeding, dec>>

\* The sender goes away.
CloseFeed ==
  /\ feeding /\ pending = 0 /\ feeding' = FALSE
  /\ UNCHANGED <<evictedOne, fifo, submitted, pending, evicted, orphaned, alive, dec>>

\* The pair's own decoder is dropped; attached handles never clear the latch.
DropPair ==
  /\ alive /\ alive' = FALSE
  /\ UNCHANGED <<evictedOne, fifo, submitted, pending, evicted, orphaned, feeding, dec>>

\* A session attaches a decoder, and lets go of it with what it had collected.
Attach(d) ==
  /\ dec[d].st = "idle" /\ dec' = [dec EXCEPT ![d].st = "ready"]
  /\ UNCHANGED <<evictedOne, fifo, submitted, pending, evicted, orphaned, alive, feeding>>
Detach(d) ==
  /\ dec[d].st \in {"ready", "collecting"} /\ dec' = [dec EXCEPT ![d].st = "gone"]
  /\ UNCHANGED <<evictedOne, fifo, submitted, pending, evicted, orphaned, alive, feeding>>

\* decode_resampled starts from the residual of the last call.
Decode(d) ==
  /\ dec[d].st = "ready" /\ dec' = [dec EXCEPT ![d].st = "collecting"]
  /\ UNCHANGED <<evictedOne, fifo, submitted, pending, evicted, orphaned, alive, feeding>>

\* decode_frame: a frame is received.
Receive(d) ==
  /\ dec[d].st = "collecting" /\ Len(dec[d].held) < PacketSize /\ ~dec[d].eof /\ fifo # <<>>
  /\ fifo' = Tail(fifo)
  /\ dec' = [dec EXCEPT ![d].taken = Append(@, Head(fifo)), ![d].held = @ \o Samples(Head(fifo))]
  /\ UNCHANGED <<evictedOne, submitted, pending, evicted, orphaned, alive, feeding>>

\* Nothing to receive: a timeout, or the end once the sender is gone; what was
\* collected stays for the next call.
RunDry(d) ==
  /\ dec[d].st = "collecting" /\ Len(dec[d].held) < PacketSize /\ (dec[d].eof \/ fifo = <<>>)
  /\ dec' = [dec EXCEPT ![d].st = "ready", ![d].eof = @ \/ ~feeding]
  /\ UNCHANGED <<evictedOne, fifo, submitted, pending, evicted, orphaned, alive, feeding>>

\* A full packet; the excess is the next call's residual.
Emit(d) ==
  /\ dec[d].st = "collecting" /\ Len(dec[d].held) >= PacketSize
  /\ dec' = [dec EXCEPT ![d].st = "ready", ![d].out = @ \o SubSeq(dec[d].held, 1, PacketSize),
                        ![d].held = SubSeq(@, PacketSize + 1, Len(@))]
  /\ UNCHANGED <<evictedOne, fifo, submitted, pending, evicted, orphaned, alive, feeding>>

Producing == SendOrphaned \/ SendQueued \/ TrySendFull \/ LatestFull \/ CloseFeed \/ DropPair
LiveNext ==
  \/ Producing \/ Evict \/ Place
  \/ \E d \in Decoders : Attach(d) \/ Detach(d) \/ Decode(d) \/ Receive(d) \/ RunDry(d) \/ Emit(d)

\* try_send_latest never waits for anyone.
LiveFairness == WF_liveVars(Evict \/ Place)

----------------------------------------------------------------------------
\* LiveFrameSender: what is queued fits, and at most one frame waits for room.
LiveFrameSender ==
  /\ Len(fifo) <= QueueCapacity /\ \A i \in DOMAIN fifo : fifo[i] \in 1 .. submitted
  /\ pending \in {0, submitted} /\ (evictedOne => pending # 0)

\* CaptureQueueCounters: a drop is counted as one of two kinds.
CaptureQueueCounters == evicted \cap orphaned = {} /\ evicted \cup orphaned \subseteq 1 .. submitted

\* LiveAudioDecoder: it reports the end only of a feed that ended, and keeps less
\* than a frame and a packet between two calls.
LiveAudioDecoder ==
  \A d \in Decoders : /\ dec[d].st \in {"idle", "ready", "collecting", "gone"}
                      /\ Len(dec[d].held) < FrameSize + PacketSize /\ (dec[d].eof => ~feeding)

Taken(d) == ToSet(dec[d].taken)

\* Every submitted frame is in exactly one place: waiting, queued, evicted,
\* refused, or taken by one decoder.
EveryFrameAccounted ==
  \A f \in 1 .. submitted :
    Cardinality({<<"fifo", i>> : i \in {j \in DOMAIN fifo : fifo[j] = f}}
                \cup {<<"dec", d>> : d \in {e \in Decoders : f \in Taken(e)}}
                \cup (IF f \in evicted THEN {<<"evicted", 0>>} ELSE {})
                \cup (IF f \in orphaned THEN {<<"orphaned", 0>>} ELSE {})
                \cup (IF f = pending THEN {<<"pending", 0>>} ELSE {})) = 1

\* What is queued and what a decoder takes is in the order of capture, through
\* every eviction and retry.
CaptureOrderKept ==
  /\ \A i, j \in DOMAIN fifo : i < j => fifo[i] < fifo[j]
  /\ \A d \in Decoders : \A i, j \in DOMAIN dec[d].taken : i < j => dec[d].taken[i] < dec[d].taken[j]
  /\ pending # 0 => \A i \in DOMAIN fifo : fifo[i] < pending

\* What a decoder has emitted and still holds is exactly what it took, sample
\* for sample, through timeouts and packets that do not divide the frames.
NoSampleLost ==
  \A d \in Decoders : dec[d].out \o dec[d].held = FlattenSeq([i \in DOMAIN dec[d].taken |-> Samples(dec[d].taken[i])])

\* try_send_latest places its frame: Placing ~> ~Placing.
Placing == pending # 0

\* No frame and no sample is lost, doubled or reordered.
LiveSafe ==
  /\ LiveFrameSender /\ CaptureQueueCounters /\ LiveAudioDecoder
  /\ EveryFrameAccounted /\ CaptureOrderKept /\ NoSampleLost
=============================================================================
