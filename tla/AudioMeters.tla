----------------------------- MODULE AudioMeters -----------------------------
(***************************************************************************)
(* The counters of the audio path (airplay-audio/src/diagnostics.rs) and   *)
(* the snapshots that are taken of them while the stream runs.  Counters   *)
(* are relaxed atomics: the stream adds to one after the other, a snapshot *)
(* loads one after the other, and nothing orders the two.                  *)
(***************************************************************************)
EXTENDS Integers, Sequences, FiniteSets, SequencesExt, FiniteSetsExt

CONSTANTS
  MeterFrames,   \* capacity of the buffer, in frames
  FrameSizes,    \* samples a frame may hold
  JitterSlots,   \* SCHEDULER_JITTER_RING_CAPACITY
  Jitters,       \* signed jitters that may be recorded
  MaxMetered,    \* bound: operations of the stream, by the meter that runs
  MaxResets      \* bound: deadline resets

ASSUME MeterAssumption ==
  /\ MeterFrames \in Nat \ {0} /\ JitterSlots \in 1..3 /\ FrameSizes \subseteq Nat \ {0}
  /\ Jitters \subseteq Int /\ Range(MaxMetered) \cup {MaxResets} \subseteq Nat

VARIABLES
  meter,    \* which meter runs
  held,     \* the truth: frames held, jitters recorded, what was tried and its size
  counter,  \* the atomics
  writer,   \* stores the stream has still to do, each [name, value]
  reader,   \* counters a snapshot has still to load
  seen,     \* what the snapshot has loaded
  still     \* the stream did nothing since the snapshot began

meterVars == <<meter, held, counter, writer, reader, seen, still>>

-----------------------------------------------------------------------------
Abs0(n) == IF n >= 0 THEN n ELSE -n
Sizes(fs) == FoldSeq(+, 0, fs)
Stores(name, value) == [name |-> name, value |-> value]
Started == held.done < MaxMetered[meter] /\ writer = <<>>

\* The stream stores, or adds to, its next counter.
StoreSample ==
  /\ writer # <<>> /\ writer' = Tail(writer)
  /\ counter' = [counter EXCEPT ![Head(writer).name] = Head(writer).value]
  /\ still' = FALSE /\ UNCHANGED <<meter, held, reader, seen>>

\* What an operation does to the truth, and the stores that follow it.
Operation(truth, stores) ==
  /\ held' = [truth EXCEPT !.done = @ + 1] /\ writer' = stores /\ still' = FALSE
  /\ UNCHANGED <<meter, counter, reader, seen>>

-----------------------------------------------------------------------------
(* AudioBuffer's SenderBufferCounters.                                     *)

PushCounted ==
  /\ meter = "buffer" /\ Started /\ Len(held.frames) < MeterFrames
  /\ \E n \in FrameSizes :
       Operation([held EXCEPT !.frames = Append(@, n), !.written = @ + n],
         <<Stores("written", counter.written + n), Stores("samples", counter.samples + n),
           Stores("frames", Len(held.frames) + 1)>>)
PopCounted ==
  /\ meter = "buffer" /\ Started /\ held.frames # <<>>
  /\ LET n == Head(held.frames)
     IN Operation([held EXCEPT !.frames = Tail(@), !.read = @ + n],
          <<Stores("read", counter.read + n), Stores("samples", counter.samples - n),
            Stores("frames", Len(held.frames) - 1)>>)
Underrun ==
  /\ meter = "buffer" /\ Started /\ held.frames = <<>>
  /\ Operation([held EXCEPT !.underruns = @ + 1], <<Stores("underruns", counter.underruns + 1)>>)

\* clear and flush: neither read nor written.
ClearCounted ==
  /\ meter = "buffer" /\ Started
  /\ Operation([held EXCEPT !.frames = <<>>, !.dropped = @ + Sizes(held.frames)],
               <<Stores("samples", 0), Stores("frames", 0)>>)

-----------------------------------------------------------------------------
(* SchedulerJitterRecorder: a slot is claimed, then written.               *)

SlotNames == <<"slot1", "slot2", "slot3">>
Slot(index) == SlotNames[(index % JitterSlots) + 1]
RecordJitter ==
  /\ meter = "jitter" /\ Started
  /\ \E j \in Jitters :
       Operation([held EXCEPT !.jitters = Append(@, j)],
         <<Stores("head", counter.head + 1), Stores(Slot(counter.head), Abs0(j)),
           Stores("last", j), Stores("count", counter.count + 1),
           Stores("events", counter.events + 1)>>)
RecordDeadlineReset ==
  /\ meter = "jitter" /\ Started /\ held.resets < MaxResets
  /\ Operation([held EXCEPT !.resets = @ + 1],
       <<Stores("resets", counter.resets + 1), Stores("events", counter.events + 1)>>)

\* The slots a snapshot reads once it knows the count and the head.
Valid(count) == Min({count, JitterSlots})
SlotsToRead(count, head) ==
  [k \in 1..Valid(count) |-> Slot(head + JitterSlots - Valid(count) + k - 1)]

\* Statistics of the values read, in order.
Sorted(values) == SortSeq(values, LAMBDA a, b : a < b)
Rank95(n) == (19 * n + 19) \div 20
Percentile95(values) == Sorted(values)[Rank95(Len(values))]
MeanOf(values) == Sizes(values) \div Len(values)
LargestOf(values) == Last(Sorted(values))

-----------------------------------------------------------------------------
(* TargetTransportCounters: an attempt, the send, its outcome.  A send that *)
(* takes nothing counts as neither.                                        *)

DataNames == <<"attempted", "accepted", "failures", "bytes">>
SyncNames == <<"sync_attempted", "sync_accepted", "sync_failures", "sync_bytes">>
Bump(names, k, by) == Stores(names[k], counter[names[k]] + by)

\* bump_attempted, then record_outcome; n is what the socket took, -1 an error.
SendCounted ==
  /\ meter = "target" /\ Started
  /\ \E names \in {DataNames, SyncNames}, n \in {-1, 0} \cup FrameSizes :
       Operation([held EXCEPT !.tried = @ + 1, !.bytes = @ + Max({n, 0})],
         <<Bump(names, 1, 1)>>
           \o (IF n > 0 THEN <<Bump(names, 2, 1), Bump(names, 4, n)>>
               ELSE IF n < 0 THEN <<Bump(names, 3, 1)>> ELSE <<>>))

-----------------------------------------------------------------------------
(* CaptureQueueCounters: every submission counts, whatever becomes of it.  *)

SubmitCounted ==
  /\ meter = "capture" /\ Started
  /\ \E n \in FrameSizes, fate \in {"sent", "full", "disconnected"} :
       Operation([held EXCEPT !.tried = @ + 1, !.bytes = @ + n],
         <<Stores("submitted", counter.submitted + 1),
           Stores("submitted_samples", counter.submitted_samples + n)>>
           \o (IF fate = "sent" THEN <<>> ELSE <<Stores(fate, counter[fate] + 1)>>))

-----------------------------------------------------------------------------
(* RetransmitCounters: a request of n slots, each served, missed or failed; *)
(* a slot whose response took no bytes is none of them.                    *)

RequestCounted ==
  /\ meter = "retransmit" /\ Started
  /\ \E n \in FrameSizes : \E served, missed, failed \in 0..n :
       /\ served + missed + failed <= n
       /\ Operation([held EXCEPT !.tried = @ + 1, !.bytes = @ + n],
            <<Stores("requests", counter.requests + 1), Stores("slots", counter.slots + n),
              Stores("served", counter.served + served), Stores("missed", counter.missed + missed),
              Stores("failed", counter.failed + failed)>>)

-----------------------------------------------------------------------------
(* AudioDiagnosticsSource::snapshot.                                       *)

LoadOrder ==
  [buffer |-> <<"frames", "samples", "written", "read", "underruns">>,
   jitter |-> <<"count", "head">>,
   target |-> DataNames \o SyncNames,
   capture |-> <<"submitted", "submitted_samples", "full", "disconnected">>,
   retransmit |-> <<"requests", "slots", "served", "missed", "failed">>]

BeginSnapshot ==
  /\ reader = <<>> /\ reader' = LoadOrder[meter] /\ seen' = <<>> /\ still' = (writer = <<>>)
  /\ UNCHANGED <<meter, held, counter, writer>>

\* The jitter's slots follow once count and head are loaded, oldest first, then
\* the events, the last jitter (None to the caller while the count was 0) and the
\* resets.
FurtherLoads(loaded) ==
  IF meter = "jitter" /\ Len(loaded) = 2
  THEN SlotsToRead(loaded[1], loaded[2]) \o <<"events", "last", "resets">> ELSE <<>>

LoadCounter ==
  /\ reader # <<>>
  /\ seen' = Append(seen, counter[Head(reader)])
  /\ reader' = Tail(reader) \o FurtherLoads(seen')
  /\ UNCHANGED <<meter, held, counter, writer, still>>

-----------------------------------------------------------------------------
CounterNames ==
  {"frames", "samples", "written", "read", "underruns", "head", "last", "count", "events",
   "resets"} \cup UNION {Range(n) : n \in {SlotNames, DataNames, SyncNames, LoadOrder.capture,
                                          LoadOrder.retransmit}}

MetersInit ==
  /\ meter \in DOMAIN MaxMetered
  /\ held = [frames |-> <<>>, written |-> 0, read |-> 0, underruns |-> 0, dropped |-> 0,
             jitters |-> <<>>, resets |-> 0, tried |-> 0, bytes |-> 0, done |-> 0]
  /\ counter = [c \in CounterNames |-> 0]
  /\ writer = <<>> /\ reader = <<>> /\ seen = <<>> /\ still = FALSE

MetersNext ==
  \/ StoreSample \/ PushCounted \/ PopCounted \/ Underrun \/ ClearCounted
  \/ RecordJitter \/ RecordDeadlineReset
  \/ SendCounted \/ SubmitCounted \/ RequestCounted
  \/ BeginSnapshot \/ LoadCounter

MetersSpec == MetersInit /\ [][MetersNext]_meterVars

-----------------------------------------------------------------------------
\* What only ever counts: the last jitter is the one with a sign.
Counts == CounterNames \ {"last"}

MetersTypeOK ==
  /\ Len(writer) <= 5 /\ Len(reader) <= 8 + JitterSlots /\ still \in BOOLEAN
  /\ \A c \in Counts : counter[c] >= 0

\* Between two operations the counters tell the truth, and what came in is what
\* went out, was dropped, or is still held.
CountersTrue ==
  writer = <<>> =>
    /\ counter.frames = Len(held.frames) /\ counter.samples = Sizes(held.frames)
    /\ counter.written = counter.read + counter.samples + held.dropped
    /\ counter.count = Len(held.jitters) /\ counter.events = counter.count + counter.resets
    /\ held.tried = counter.attempted + counter.sync_attempted + counter.submitted
                      + counter.requests
    /\ held.bytes = counter.bytes + counter.sync_bytes + counter.submitted_samples + counter.slots
    /\ counter.accepted + counter.failures <= counter.attempted
    /\ counter.sync_accepted + counter.sync_failures <= counter.sync_attempted
    /\ counter.full + counter.disconnected <= counter.submitted
    /\ counter.served + counter.missed + counter.failed <= counter.slots

\* A snapshot never claims more than the truth: no more frames than the buffer
\* holds, no bytes that were not sent, and no jitter but one recorded or the zero
\* of a slot that was claimed and not yet written.
SeenIsBounded ==
  /\ meter = "buffer" /\ seen # <<>> => seen[1] \in 0..MeterFrames
  /\ meter = "buffer" /\ Len(seen) >= 4 => seen[4] <= held.written
  /\ meter = "target" /\ Len(seen) = 8 => seen[4] + seen[8] <= held.bytes
  /\ meter = "jitter" /\ seen # <<>> => \A k \in 3..Min({Len(seen), 2 + Valid(seen[1])}) :
       seen[k] \in {0} \cup {Abs0(held.jitters[i]) : i \in DOMAIN held.jitters}

\* A snapshot nobody disturbed is exact: the newest jitters in order, with
\* nineteen of twenty at or below the 95th percentile.
StillIsExact ==
  still /\ reader = <<>> /\ seen # <<>> =>
    CASE meter = "buffer" -> /\ seen[1] = Len(held.frames) /\ seen[2] = Sizes(held.frames)
                             /\ seen[3] - seen[4] = seen[2] + held.dropped
      [] meter = "target" -> seen[2] + seen[3] <= seen[1] /\ seen[6] + seen[7] <= seen[5]
      [] meter = "capture" -> seen[3] + seen[4] <= seen[1]
      [] meter = "retransmit" -> seen[3] + seen[4] + seen[5] <= seen[2]
      [] meter = "jitter" ->
           LET n == Valid(Len(held.jitters))
               got == SubSeq(seen, 3, n + 2)
           IN /\ Len(seen) = n + 5 /\ seen[n + 3] = seen[1] + seen[n + 5]
              /\ n > 0 => seen[n + 4] = Last(held.jitters)
              /\ \A k \in 1..n : got[k] = Abs0(held.jitters[Len(held.jitters) - n + k])
              /\ n > 0 => /\ 20 * Cardinality({k \in 1..n : got[k] <= Percentile95(got)}) >= 19 * n
                          /\ MeanOf(got) <= LargestOf(got)
                          /\ Percentile95(got) <= LargestOf(got)

\* What the meters of the audio path show.
MetersSafe == MetersTypeOK /\ CountersTrue /\ SeenIsBounded /\ StillIsExact
=============================================================================
