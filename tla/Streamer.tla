------------------------------- MODULE Streamer -------------------------------
(***************************************************************************)
(* AudioStreamer (airplay-audio/src/streamer.rs): the streaming task that  *)
(* decodes, encodes and queues frames, the sender thread that paces them   *)
(* onto the wire, the bounded channel between them, and the owner that     *)
(* starts, pauses, resumes, stops or drops the streamer.                   *)
(*                                                                         *)
(* inner.state and state_cache are two variables: stop writes the cache    *)
(* first and inner.state last, and the task reads only the latter.  Every  *)
(* holder of a channel sender is represented, because the thread ends by   *)
(* disconnection only when the last one is gone.                           *)
(***************************************************************************)
EXTENDS Naturals, Sequences, SequencesExt

CONSTANTS MaxFrames,        \* frames the source holds
          ChannelCapacity,  \* bounded(8)
          DecodeBatch,      \* frames decoded per round (3)
          LowWater,         \* the task decodes below this level (40 %)
          RecoverAbove,     \* buffering ends above this level (10 %)
          MaxPauses         \* bound on pause calls

ASSUME StreamerAssumption ==
  /\ MaxFrames \in Nat \ {0} /\ ChannelCapacity \in Nat \ {0} /\ DecodeBatch \in Nat \ {0}
  /\ LowWater \in Nat \ {0} /\ RecoverAbove \in Nat /\ RecoverAbove < LowWater /\ MaxPauses \in Nat

VARIABLES
  inner,    \* StreamerInner.state
  cache,    \* state_cache, what state() says
  task,     \* "none", "gated", "loop", "sending" (in its blocking send), "over"
  sent,     \* the message of a blocking send under way, also after an abort
  thread,   \* sender_thread_main: "none", "run", "paused", "gone"
  channel,  \* SenderMessage queue
  owner,    \* "idle", "live", "stopping", "stopped", "dropped"
  handle,   \* whether the owner holds sender_tx
  clone,    \* holder of a streamer clone: "none", "connection" or "group" listener
  gate,     \* release oneshot: "none", "armed", "released", "lost"
  supply,   \* the decoder: kind and next frame, and whether a live feed closed
  buffer,   \* AudioBuffer
  marked,   \* first_packet_sent
  wire,     \* frames dispatched, oldest first
  late,     \* packets dispatched after stop returned or the streamer was dropped
  pauses

streamVars == <<inner, cache, task, sent, thread, channel, owner, handle, clone, gate, supply,
                buffer, marked, wire, late, pauses>>

NoMessage == <<"none", 0>>
Control(c) == <<c, 0>>
Packet(f) == <<"Packet", f>>
\* A StreamerState, and what travels to the sender thread.
StreamerState == {"Idle", "Buffering", "Streaming", "Paused", "Stopped", "Error"}
SenderMessage == {Control(c) : c \in {"Pause", "Resume", "Stop"}} \cup {Packet(f) : f \in 1 .. MaxFrames}
Running == task \in {"gated", "loop", "sending"}
\* The channel is disconnected for the thread once nobody can send.
Connected == handle \/ Running \/ sent # NoMessage \/ clone # "none"
\* try_send: the message is lost when the queue is full or the thread is gone.
Offer(c, msg) == IF Len(c) < ChannelCapacity /\ thread \in {"run", "paused"} THEN Append(c, msg) ELSE c
Left == MaxFrames + 1 - supply.next
AtEof == IF supply.kind = "file" THEN Left = 0 ELSE supply.closed
\* decode_some_inner: a batch of a file, or as much of one as the live feed has.
Decodable == IF supply.kind = "file" THEN {IF Left < DecodeBatch THEN Left ELSE DecodeBatch}
             ELSE {n \in 0 .. DecodeBatch : n <= Left}
Decoded(n) == buffer \o [i \in 1 .. n |-> supply.next + i - 1]

StreamInit ==
  /\ inner = "Idle" /\ cache = "Idle" /\ task = "none" /\ sent = NoMessage /\ thread = "none"
  /\ channel = <<>> /\ owner = "idle" /\ handle = FALSE /\ clone = "none" /\ gate = "none"
  /\ supply = [kind |-> "file", next |-> 1, closed |-> FALSE] /\ buffer = <<>> /\ marked = FALSE
  /\ wire = <<>> /\ late = 0 /\ pauses = 0

\* The thread and the task are spawned; without a socket there is no thread and
\* the task sends by itself.  The caller hands a clone to its control listener.
Spawn ==
  /\ owner = "idle" /\ owner' = "live"
  /\ \/ thread' = "run" /\ handle' = TRUE
     \/ thread' = "none" /\ handle' = FALSE
  /\ clone' \in (IF handle' THEN {"none", "connection", "group"} ELSE {"none"})
  /\ UNCHANGED <<sent, channel, marked, wire, late, pauses>>

\* start: a batch primes the buffer.
Start ==
  /\ Spawn
  /\ \E n \in Decodable : buffer' = Decoded(n) /\ supply' = [supply EXCEPT !.next = @ + n]
  /\ inner' = (IF Len(buffer') > RecoverAbove THEN "Streaming" ELSE "Buffering") /\ cache' = inner'
  /\ task' = "loop" /\ UNCHANGED gate

\* start_live_gated: the feed fills the buffer until it is half full or five
\* seconds have passed; a gated task waits for its release.
StartLiveGated ==
  /\ Spawn
  /\ \E n \in {i \in 0 .. LowWater : i <= MaxFrames} :
       /\ buffer' = [i \in 1 .. n |-> i]
       /\ supply' = [kind |-> "live", next |-> n + 1, closed |-> FALSE]
  /\ \/ gate' = "none" /\ inner' = "Streaming" /\ task' = "loop"
     \/ gate' = "armed" /\ inner' = "Buffering" /\ task' = "gated"
  /\ cache' = inner'

\* The caller releases the audio or drops the release sender.
Release ==
  /\ gate = "armed" /\ gate' \in {"released", "lost"}
  /\ UNCHANGED <<inner, cache, task, sent, thread, channel, owner, handle, clone, supply, buffer,
                 marked, wire, late, pauses>>

\* The gated task wakes up; a dropped release ends it without a word.
GateOpens ==
  /\ task = "gated"
  /\ \/ gate = "released" /\ task' = "loop" /\ inner' = "Streaming" /\ cache' = "Streaming"
     \/ gate = "lost" /\ task' = "over" /\ UNCHANGED <<inner, cache>>
  /\ UNCHANGED <<sent, thread, channel, owner, handle, clone, gate, supply, buffer, marked, wire,
                 late, pauses>>

\* run_streamer sees Stopped or Error and tells the thread.
LoopEnds ==
  /\ task = "loop" /\ inner \in {"Stopped", "Error"}
  /\ task' = "over" /\ channel' = Offer(channel, Control("Stop"))
  /\ UNCHANGED <<inner, cache, sent, thread, owner, handle, clone, gate, supply, buffer, marked,
                 wire, late, pauses>>

\* What one round takes from the decoder.  run_streamer releases the lock between
\* its test of the state and this work, and here the two are one step: a stop or a
\* pause that falls between them is taken to come after the round.
Round(n) ==
  /\ task = "loop" /\ inner \in {"Buffering", "Streaming"}
  /\ n \in (IF Len(buffer) < LowWater THEN Decodable ELSE {0})
  /\ supply' = [supply EXCEPT !.next = @ + n]

\* Faulty: the end of the source is not noticed while buffering.
LoopBuffersForever(n) ==
  /\ Round(n) /\ inner = "Buffering" /\ Len(Decoded(n)) <= RecoverAbove
  /\ buffer' = Decoded(n) /\ UNCHANGED <<inner, cache, task, channel>>
  /\ UNCHANGED <<sent, thread, owner, handle, clone, gate, marked, wire, late, pauses>>

\* Still buffering: playback is complete, or the round waits for more.
LoopBuffers(n) ==
  /\ Round(n) /\ inner = "Buffering" /\ Len(Decoded(n)) <= RecoverAbove
  /\ buffer' = Decoded(n)
  /\ IF AtEof /\ buffer' = <<>>
     THEN /\ inner' = "Stopped" /\ cache' = "Stopped" /\ task' = "over"
          /\ channel' = Offer(channel, Control("Stop"))
     ELSE UNCHANGED <<inner, cache, task, channel>>
  /\ UNCHANGED <<sent, thread, owner, handle, clone, gate, marked, wire, late, pauses>>

\* Faulty: the frame is encoded without being taken out of the buffer.
LoopSendsPeeks(n) ==
  /\ Round(n) /\ Len(Decoded(n)) > (IF inner = "Buffering" THEN RecoverAbove ELSE 0)
  /\ inner' = "Streaming" /\ cache' = (IF inner = "Buffering" THEN "Streaming" ELSE cache)
  /\ buffer' = Decoded(n) /\ marked' = TRUE
  /\ IF thread = "none"
     THEN /\ wire' = Append(wire, Head(Decoded(n))) /\ UNCHANGED <<task, sent, late>>
     ELSE task' = "sending" /\ sent' = Packet(Head(Decoded(n))) /\ UNCHANGED <<wire, late>>
  /\ UNCHANGED <<thread, channel, owner, handle, clone, gate, pauses>>

\* A frame is popped, encoded and prepared, its bookkeeping done under the lock;
\* the lock is released before the blocking send.
LoopSends(n) ==
  /\ Round(n) /\ Len(Decoded(n)) > (IF inner = "Buffering" THEN RecoverAbove ELSE 0)
  /\ inner' = "Streaming" /\ cache' = (IF inner = "Buffering" THEN "Streaming" ELSE cache)
  /\ buffer' = Tail(Decoded(n)) /\ marked' = TRUE
  /\ IF thread = "none"
     THEN /\ wire' = Append(wire, Head(Decoded(n))) /\ UNCHANGED <<task, sent, late>>
     ELSE task' = "sending" /\ sent' = Packet(Head(Decoded(n))) /\ UNCHANGED <<wire, late>>
  /\ UNCHANGED <<thread, channel, owner, handle, clone, gate, pauses>>

\* The buffer is empty when a packet is due.
LoopUnderruns(n) ==
  /\ Round(n) /\ inner = "Streaming" /\ Decoded(n) = <<>>
  /\ inner' = "Buffering" /\ cache' = "Buffering" /\ buffer' = <<>>
  /\ UNCHANGED <<task, sent, thread, channel, owner, handle, clone, gate, marked, wire, late, pauses>>

\* A decoder, encoder or packet error ends the task; inner.state follows only
\* if the lock happens to be free, and the thread is not told.
LoopFails ==
  /\ task = "loop" /\ inner \in {"Buffering", "Streaming"}
  /\ task' = "over" /\ cache' = "Error" /\ inner' \in {inner, "Error"}
  /\ UNCHANGED <<sent, thread, channel, owner, handle, clone, gate, supply, buffer, marked, wire,
                 late, pauses>>

\* The blocking send ends: there is room, or the thread is gone and the task
\* gives up.  An aborted task's send runs on by itself.
SendEnds ==
  /\ sent # NoMessage /\ sent' = NoMessage
  /\ \/ /\ thread # "gone" /\ Len(channel) < ChannelCapacity
        /\ channel' = Append(channel, sent)
        /\ task' = (IF task = "sending" THEN "loop" ELSE task) /\ UNCHANGED cache
     \/ /\ thread = "gone" /\ UNCHANGED channel
        /\ IF task = "sending" THEN task' = "over" /\ cache' = "Error" ELSE UNCHANGED <<task, cache>>
  /\ UNCHANGED <<inner, thread, owner, handle, clone, gate, supply, buffer, marked, wire, late, pauses>>

\* The sender thread takes a control message; while paused it discards packets.
ThreadControl ==
  LET msg == Head(channel)
  IN /\ thread \in {"run", "paused"} /\ channel # <<>> /\ (thread = "paused" \/ msg[1] # "Packet")
     /\ thread' = (CASE msg[1] = "Stop" -> "gone" [] msg[1] = "Pause" -> "paused"
                     [] msg[1] = "Resume" -> "run" [] OTHER -> thread)
     /\ channel' = (IF thread' = "gone" THEN <<>> ELSE Tail(channel))
     /\ UNCHANGED <<inner, cache, task, sent, owner, handle, clone, gate, supply, buffer, marked,
                    wire, late, pauses>>

\* A packet waits for its deadline and goes out to every target.
ThreadPacket ==
  /\ thread = "run" /\ channel # <<>> /\ Head(channel)[1] = "Packet"
  /\ channel' = Tail(channel) /\ wire' = Append(wire, Head(channel)[2])
  /\ late' = (IF owner \in {"stopped", "dropped"} THEN late + 1 ELSE late)
  /\ UNCHANGED <<inner, cache, task, sent, thread, owner, handle, clone, gate, supply, buffer,
                 marked, pauses>>

\* The main loop of the thread notices the disconnection; the pause loop does not.
ThreadDisconnects ==
  /\ thread = "run" /\ channel = <<>> /\ ~Connected /\ thread' = "gone"
  /\ UNCHANGED <<inner, cache, task, sent, channel, owner, handle, clone, gate, supply, buffer,
                 marked, wire, late, pauses>>

\* pause, and the reset of the marker after the FLUSH that follows it.
Pause ==
  /\ owner = "live" /\ pauses < MaxPauses /\ inner = "Streaming"
  /\ pauses' = pauses + 1 /\ inner' = "Paused" /\ cache' = "Paused"
  /\ channel' = (IF handle THEN Offer(channel, Control("Pause")) ELSE channel)
  /\ UNCHANGED <<task, sent, thread, owner, handle, clone, gate, supply, buffer, marked, wire, late>>

ResetAfterFlush ==
  /\ owner \in {"live", "stopped"} /\ inner \in {"Paused", "Stopped"} /\ marked /\ marked' = FALSE
  /\ UNCHANGED <<inner, cache, task, sent, thread, channel, owner, handle, clone, gate, supply,
                 buffer, wire, late, pauses>>

Resume ==
  /\ owner = "live" /\ inner = "Paused" /\ inner' = "Streaming" /\ cache' = "Streaming"
  /\ channel' = (IF handle THEN Offer(channel, Control("Resume")) ELSE channel)
  /\ UNCHANGED <<task, sent, thread, owner, handle, clone, gate, supply, buffer, marked, wire,
                 late, pauses>>

\* stop: the cache, the Stop message, the owner's sender; then it joins the
\* thread within SENDER_THREAD_JOIN_BUDGET ...
Stop ==
  /\ owner = "live" /\ owner' = "stopping" /\ cache' = "Stopped" /\ handle' = FALSE
  /\ channel' = (IF handle THEN Offer(channel, Control("Stop")) ELSE channel)
  /\ UNCHANGED <<inner, task, sent, thread, clone, gate, supply, buffer, marked, wire, late, pauses>>

\* ... and aborts the task, sets inner.state and lets go of the decoder.
StopEnds ==
  /\ owner = "stopping" /\ owner' = "stopped" /\ inner' = "Stopped"
  /\ task' = (IF task = "none" THEN "none" ELSE "over")
  /\ buffer' = <<>> /\ supply' = [supply EXCEPT !.next = MaxFrames + 1]
  /\ UNCHANGED <<cache, sent, thread, channel, handle, clone, gate, marked, wire, late, pauses>>

\* The owner goes away, also in the middle of a stop whose budget ran out.
Drop ==
  /\ owner \in {"live", "stopping", "stopped"} /\ owner' = "dropped" /\ handle' = FALSE
  /\ IF owner = "stopped" THEN UNCHANGED <<cache, task>> ELSE cache' = "Stopped" /\ task' = "over"
  /\ UNCHANGED <<inner, sent, thread, channel, clone, gate, supply, buffer, marked, wire, late, pauses>>

\* A connection's control listener ends within one poll of the cancellation of
\* its workers; the group listener has no end.
ListenerEnds ==
  /\ clone = "connection" /\ owner \in {"stopped", "dropped"} /\ clone' = "none"
  /\ UNCHANGED <<inner, cache, task, sent, thread, channel, owner, handle, gate, supply, buffer,
                 marked, wire, late, pauses>>

\* A live feed ends.
FeedCloses ==
  /\ supply.kind = "live" /\ ~supply.closed /\ supply' = [supply EXCEPT !.closed = TRUE, !.next = MaxFrames + 1]
  /\ UNCHANGED <<inner, cache, task, sent, thread, channel, owner, handle, clone, gate, buffer,
                 marked, wire, late, pauses>>

\* One round of run_streamer.
Loop == \E n \in 0 .. DecodeBatch : LoopBuffers(n) \/ LoopSends(n) \/ LoopUnderruns(n)
StreamNext ==
  \/ Start \/ StartLiveGated \/ Release \/ GateOpens \/ LoopEnds \/ Loop \/ LoopFails \/ SendEnds
  \/ ThreadControl \/ ThreadPacket \/ ThreadDisconnects \/ Pause \/ ResetAfterFlush \/ Resume
  \/ Stop \/ StopEnds \/ Drop \/ ListenerEnds \/ FeedCloses

\* The runtime polls the task, the blocking pool completes its sends, the thread
\* runs, and stop's join has a budget.
StreamFairness ==
  /\ WF_streamVars(Loop) /\ WF_streamVars(LoopEnds) /\ WF_streamVars(SendEnds)
  /\ WF_streamVars(ThreadControl \/ ThreadPacket) /\ WF_streamVars(ThreadDisconnects) /\ WF_streamVars(GateOpens)
  /\ WF_streamVars(StopEnds)

StreamSpec == StreamInit /\ [][StreamNext]_streamVars /\ StreamFairness

----------------------------------------------------------------------------
\* StreamerInner: the state, the source and the buffer it feeds, which a round
\* overfills by one batch at most.
StreamerInner ==
  /\ inner \in StreamerState /\ supply.kind \in {"file", "live"} /\ supply.next \in 1 .. MaxFrames + 1
  /\ Len(buffer) < LowWater + DecodeBatch /\ \A i \in DOMAIN buffer : buffer[i] < supply.next

\* AudioStreamer: the cached state, the task, the thread and who can reach it.
AudioStreamer ==
  /\ cache \in StreamerState /\ owner \in {"idle", "live", "stopping", "stopped", "dropped"}
  /\ task \in {"none", "gated", "loop", "sending", "over"} /\ (task = "sending" => sent # NoMessage)
  /\ (owner = "idle" <=> task = "none") /\ (handle => owner = "live")

\* The thread's end of the channel; a thread that ended drained it.
SenderThread ==
  /\ thread \in {"none", "run", "paused", "gone"}
  /\ Len(channel) <= ChannelCapacity /\ \A i \in DOMAIN channel : channel[i] \in SenderMessage
  /\ (thread \in {"none", "gone"} => channel = <<>>)

\* The state is well formed; the queue never exceeds its capacity.
StreamTypeOK == StreamerInner /\ AudioStreamer /\ SenderThread

\* Frames reach the wire in the order of the source, each at most once, through
\* every pause, underrun and discarded queue.
WireInOrder == \A i, j \in DOMAIN wire : i < j => wire[i] < wire[j]

\* A gated start puts nothing on the wire, nor into the queue, before its
\* release; a dropped release never does.
GateHolds == (gate \in {"armed", "lost"}) => wire = <<>> /\ \A i \in DOMAIN channel : channel[i][1] # "Packet"

\* Once stop has returned, or the streamer was dropped, no more than the queue
\* and the send that was under way still reach the wire.
TailIsBounded == late <= ChannelCapacity + 1

\* A source that ended while the stream is playing brings it to its end:
\* Draining ~> Drained.
Draining == AtEof /\ inner = "Streaming" /\ task \in {"loop", "sending"}
Drained == inner \in {"Stopped", "Error", "Paused"} \/ task = "over"

\* "Drop sender_tx to disconnect the channel - guarantees the sender thread's
\* rx.recv() returns Err and exits": a thread nobody can send to ends.
DisconnectEndsThread == (thread \in {"run", "paused"} /\ ~Connected) ~> (thread = "gone")

\* What reaches the wire: in order, not before the release, not after the end.
StreamSafe == StreamTypeOK /\ WireInOrder /\ GateHolds /\ TailIsBounded
=============================================================================
