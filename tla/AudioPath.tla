------------------------------ MODULE AudioPath ------------------------------
(***************************************************************************)
(* What happens to the samples of a file on their way to the packets       *)
(* (airplay-audio, airplay-resampler): the decoder with its residual, the  *)
(* ring buffer, the equalizer whose gains the window changes meanwhile,    *)
(* and the encoder; and the arithmetic of the sample conversions.          *)
(* The streamer calls the decoder, the buffer and the encoder under one    *)
(* lock; only the gains are shared without it.                             *)
(***************************************************************************)
EXTENDS Integers, Sequences, FiniteSets, SequencesExt, FiniteSetsExt

CONSTANTS
  SourceFiles,    \* files: sequences of [kind, n], kind as read by next_packet
  Ratios,         \* samples out for one sample in; 1 means no resampler
  PacketSamples,  \* frames_per_packet * channels
  BufferFrames,   \* AudioBuffer::capacity_frames
  GainBands,      \* bands of the equalizer, 1..n
  TopGain,        \* MAX_GAIN_DB
  Depth,          \* bits of an i16
  MaxSeeks,       \* bound: seeks
  MaxTurns        \* bound: changes of a gain or of the bypass

ASSUME PathAssumption ==
  /\ {PacketSamples, BufferFrames, TopGain, Depth} \subseteq Nat \ {0} /\ Depth % 2 = 0
  /\ Ratios \subseteq Nat \ {0} /\ {MaxSeeks, MaxTurns} \subseteq Nat

VARIABLES
  source,    \* [file, ratio]: what is played
  decoder,   \* [next, position, eof, residual, lost]
  frames,    \* AudioBuffer::frames
  sending,   \* [at, frame, band]: the frame between pop and encode
  encoder,   \* [timestamp, buffer, packets]
  gains,     \* EqParams: [band, bypass, turns]
  filters,   \* Equalizer: [left, right, cached, fresh]
  seeks      \* positions sought

pathVars == <<source, decoder, frames, sending, encoder, gains, filters, seeks>>

-----------------------------------------------------------------------------
(* Samples.  The type of a source sample is [signed, bits].                *)

SampleTypes ==
  [signed : BOOLEAN, bits : {Depth \div 2, Depth, (3 * Depth) \div 2, 2 * Depth}]
LowestOf(t) == IF t.signed THEN -(2 ^ (t.bits - 1)) ELSE 0
Lowest == -(2 ^ (Depth - 1))
Highest == 2 ^ (Depth - 1) - 1

\* audio_buffer_to_i16: unsigned samples are centred, wider ones shifted down.
ToI16(t, x) ==
  LET y == IF t.signed THEN x ELSE x - 2 ^ (t.bits - 1)
  IN IF t.bits <= Depth THEN y * 2 ^ (Depth - t.bits) ELSE y \div 2 ^ (t.bits - Depth)

Clamp(x, low, high) == Max({low, Min({high, x})})
Trunc(n, d) == IF n >= 0 THEN n \div d ELSE -((-n) \div d)

\* A float n / d; dither_to_i16 adds up to one step of noise first.
FloatToI16(n, d, noise) ==
  Clamp(Trunc((n * (Highest + 1) + noise * d) * Highest, d * (Highest + 1)), Lowest, Highest)

\* soft_clip of n / u, in parts of 3 * u^3.
SoftClip(n, u) ==
  IF n >= u THEN 2 * u * u * u ELSE IF n <= -u THEN -2 * u * u * u ELSE 3 * n * u * u - n * n * n

-----------------------------------------------------------------------------
(* AudioDecoder.  A sample is named by its packet and its place there.     *)

File == source.file
SamplesOf(j) == [k \in 1..File[j].n |-> <<j, k>>]
Audio(from, to) ==
  FlattenSeq([j \in 1..(to - from + 1) |->
                IF File[from + j - 1].kind = "audio" THEN SamplesOf(from + j - 1) ELSE <<>>])

\* Resampler::process: every sample becomes ratio samples.
Resampled(s) == FlattenSeq([i \in DOMAIN s |-> [k \in 1..source.ratio |-> s[i]]])

\* decode_frame skips other tracks, resets and packets that do not decode; the
\* loop of decode_resampled ends with enough samples, a fault, or the file.
Enough(from, to) == Len(decoder.residual) + Len(Resampled(Audio(from, to))) >= PacketSamples
StopsAt(from) ==
  Min({j \in from..Len(File) : File[j].kind = "fault" \/ Enough(from, j)} \cup {Len(File) + 1})

\* Samples beyond the packet wait for the next call.
Excess(all) == SubSeq(all, PacketSamples + 1, Len(all))

\* AudioBuffer::push and the frame a decoder hands over.
Frame(samples, time) == [samples |-> samples, timestamp |-> time]
BufferFull == Len(frames) >= BufferFrames
PushFrame(f) == frames' = Append(frames, f)

\* One round of decode_some_inner.  An error loses the residual it had taken.
DecodeResampled ==
  /\ sending.at = "idle" /\ ~BufferFull
  /\ LET from == decoder.next
         stop == IF Len(decoder.residual) >= PacketSamples THEN from - 1 ELSE StopsAt(from)
         got == Min({stop, Len(File)})
         all == decoder.residual \o Resampled(Audio(from, got))
         position == decoder.position + Len(Audio(from, got))
         ended == decoder.eof \/ stop > Len(File)
     IN IF stop \in from..Len(File) /\ File[stop].kind = "fault"
        THEN /\ decoder' = [decoder EXCEPT !.next = stop + 1, !.position = position,
                                           !.residual = <<>>, !.lost = @ + Len(all)]
             /\ UNCHANGED frames
        ELSE /\ decoder' = [decoder EXCEPT !.next = got + 1, !.position = position, !.eof = ended,
                                           !.residual = IF Len(all) > PacketSamples
                                                        THEN Excess(all) ELSE <<>>]
             /\ IF all = <<>> THEN UNCHANGED frames
                ELSE PushFrame(Frame(SubSeq(all, 1, Min({PacketSamples, Len(all)})),
                                     position * source.ratio))
  /\ UNCHANGED <<source, sending, encoder, gains, filters, seeks>>

\* Resampler::process fails: decode_resampled returns its error.
ResampleFails ==
  /\ sending.at = "idle" /\ ~BufferFull /\ source.ratio > 1
  /\ decoder.next <= Len(File) /\ Len(decoder.residual) < PacketSamples
  /\ File[decoder.next].kind = "audio"
  /\ decoder' = [decoder EXCEPT !.next = @ + 1, !.position = @ + File[decoder.next].n,
                   !.residual = <<>>,
                   !.lost = @ + Len(decoder.residual) + source.ratio * File[decoder.next].n]
  /\ UNCHANGED <<source, frames, sending, encoder, gains, filters, seeks>>

\* AudioStreamer::seek: buffer, residual and filter state are dropped; the
\* encoder goes on counting.  The packets of the stretch before are forgotten.
SeekTo ==
  /\ sending.at = "idle" /\ seeks < MaxSeeks
  /\ \E j \in 1..(Len(File) + 1) :
       decoder' = [next |-> j, position |-> Len(Audio(1, j - 1)), eof |-> FALSE,
                   residual |-> <<>>, lost |-> 0]
  /\ frames' = <<>> /\ seeks' = seeks + 1
  /\ encoder' = [encoder EXCEPT !.packets = <<>>]
  /\ UNCHANGED <<source, sending, gains, filters>>

\* The reader cannot seek: only the buffer is gone.
SeekFails ==
  /\ sending.at = "idle" /\ seeks < MaxSeeks
  /\ frames' = <<>> /\ seeks' = seeks + 1
  /\ UNCHANGED <<source, decoder, sending, encoder, gains, filters>>

-----------------------------------------------------------------------------
(* The send loop: pop, the equalizer band by band, encode.                 *)

PopFrame ==
  /\ sending.at = "idle" /\ frames # <<>>
  /\ frames' = Tail(frames)
  /\ sending' = [at |-> IF gains.bypass THEN "encode" ELSE "check", frame |-> Head(frames),
                 band |-> 1]
  /\ filters' = [filters EXCEPT !.fresh = ~gains.bypass]
  /\ UNCHANGED <<source, decoder, encoder, gains, seeks>>

LastBand == sending.band = Cardinality(GainBands)

\* update_coefficients_if_needed: the first gain that differs starts an update
\* of all bands, which reads the gains again.
CheckBand ==
  /\ sending.at = "check"
  /\ sending' = IF filters.cached[sending.band] # gains.band[sending.band]
                THEN [sending EXCEPT !.at = "update", !.band = 1]
                ELSE IF LastBand THEN [sending EXCEPT !.at = "encode"]
                     ELSE [sending EXCEPT !.band = @ + 1]
  /\ UNCHANGED <<source, decoder, frames, encoder, gains, filters, seeks>>

UpdateBand ==
  /\ sending.at = "update"
  /\ LET b == sending.band
     IN filters' = [filters EXCEPT !.left[b] = gains.band[b], !.right[b] = gains.band[b],
                                   !.cached[b] = gains.band[b]]
  /\ sending' = IF LastBand THEN [sending EXCEPT !.at = "encode"]
                ELSE [sending EXCEPT !.band = @ + 1]
  /\ UNCHANGED <<source, decoder, frames, encoder, gains, seeks>>

\* encode_frame numbers the packet by the samples before it.
Encoded(e, s) ==
  [e EXCEPT !.packets = Append(@, [samples |-> s, timestamp |-> e.timestamp]),
            !.timestamp = @ + Len(s)]

\* AudioEncoder::encode: a whole packet, or what there is.
EncodeFrame ==
  /\ sending.at = "encode" /\ sending' = [sending EXCEPT !.at = "idle"]
  /\ LET all == encoder.buffer \o sending.frame.samples
         n == IF Len(all) >= PacketSamples THEN PacketSamples ELSE Len(all)
     IN encoder' = Encoded([encoder EXCEPT !.buffer = SubSeq(all, n + 1, Len(all))],
                           SubSeq(all, 1, n))
  /\ UNCHANGED <<source, decoder, frames, gains, filters, seeks>>

-----------------------------------------------------------------------------
(* EqParams, from the window, at any time.                                 *)

Turned == gains.turns < MaxTurns /\ filters' = [filters EXCEPT !.fresh = FALSE]
SetGain ==
  /\ Turned
  /\ \E b \in GainBands, g \in {-TopGain - 1, 1, TopGain} :
       gains' = [gains EXCEPT !.band[b] = Clamp(g, -TopGain, TopGain), !.turns = @ + 1]
  /\ UNCHANGED <<source, decoder, frames, sending, encoder, seeks>>
AdjustGain ==
  /\ Turned
  /\ \E b \in GainBands, d \in {-1, 1} :
       gains' = [gains EXCEPT !.band[b] = Clamp(@ + d, -TopGain, TopGain), !.turns = @ + 1]
  /\ UNCHANGED <<source, decoder, frames, sending, encoder, seeks>>
ResetGains ==
  /\ Turned /\ gains' = [gains EXCEPT !.band = [b \in GainBands |-> 0], !.turns = @ + 1]
  /\ UNCHANGED <<source, decoder, frames, sending, encoder, seeks>>
ToggleBypass ==
  /\ Turned /\ gains' = [gains EXCEPT !.bypass = ~@, !.turns = @ + 1]
  /\ UNCHANGED <<source, decoder, frames, sending, encoder, seeks>>

-----------------------------------------------------------------------------
Flat == [b \in GainBands |-> 0]
PathInit ==
  /\ source \in [file : SourceFiles, ratio : Ratios]
  /\ decoder = [next |-> 1, position |-> 0, eof |-> FALSE, residual |-> <<>>, lost |-> 0]
  /\ frames = <<>> /\ sending = [at |-> "idle", frame |-> Frame(<<>>, 0), band |-> 1]
  /\ encoder = [timestamp |-> 0, buffer |-> <<>>, packets |-> <<>>]
  /\ gains = [band |-> Flat, bypass |-> FALSE, turns |-> 0]
  /\ filters = [left |-> Flat, right |-> Flat, cached |-> Flat, fresh |-> FALSE]
  /\ seeks = 0

PathNext ==
  \/ DecodeResampled \/ ResampleFails \/ SeekTo \/ SeekFails
  \/ PopFrame \/ CheckBand \/ UpdateBand \/ EncodeFrame
  \/ SetGain \/ AdjustGain \/ ResetGains \/ ToggleBypass

PathSpec == PathInit /\ [][PathNext]_pathVars

-----------------------------------------------------------------------------
PathTypeOK ==
  /\ Len(frames) <= BufferFrames /\ Len(decoder.residual) <= PacketSamples * Max(Ratios)
  /\ sending.at \in {"idle", "check", "update", "encode"}
  /\ \A b \in GainBands : gains.band[b] \in -TopGain..TopGain

\* Where the samples are: encoded, with the encoder, in hand, buffered, left over.
InFlight ==
  FlattenSeq([i \in DOMAIN encoder.packets |-> encoder.packets[i].samples]) \o encoder.buffer
    \o (IF sending.at = "idle" THEN <<>> ELSE sending.frame.samples)
    \o FlattenSeq([i \in DOMAIN frames |-> frames[i].samples]) \o decoder.residual

\* Without a seek every sample of the track that was read arrives once, in order,
\* save those that an error took along.
NothingSkipped ==
  seeks = 0 =>
    LET read == Resampled(Audio(1, decoder.next - 1))
    IN /\ Len(InFlight) + decoder.lost = Len(read)
       /\ decoder.lost = 0 => InFlight = read

\* Packets are numbered by the samples before them, and without errors only the
\* last packet of a file may be short.  The encoder keeps nothing back, so that
\* nobody has to flush it.
PacketsCount ==
  encoder.buffer = <<>> /\ \A i \in DOMAIN encoder.packets :
    /\ i > 1 => encoder.packets[i].timestamp = encoder.packets[i - 1].timestamp
                                               + Len(encoder.packets[i - 1].samples)
    /\ Len(encoder.packets[i].samples) < PacketSamples =>
         decoder.eof \/ decoder.lost > 0 \/ seeks > 0

\* A frame's time is that of the end of what was decoded for it: never behind
\* its first sample, and ahead by no more than the frame and what is left over.
TimesRun ==
  seeks = 0 /\ decoder.lost = 0 =>
    \A i \in DOMAIN frames :
      LET queued == [k \in 1..(Len(frames) - i + 1) |-> frames[i + k - 1].samples]
          before == Len(InFlight) - Len(decoder.residual) - Len(FlattenSeq(queued))
      IN frames[i].timestamp >= before + Len(frames[i].samples)

\* A frame filtered while nobody touched the gains is filtered with them, on
\* both channels alike, and the filters never forget a gain they were given.
FiltersFollow ==
  /\ sending.at = "encode" /\ filters.fresh => filters.left = gains.band
  /\ filters.left = filters.right /\ filters.cached = filters.left

\* Conversions keep the order of samples, full scale included, and stay in range;
\* soft clipping bends without a jump.
SamplesKeepOrder ==
  /\ \A t \in SampleTypes :
       LET span == LowestOf(t)..(LowestOf(t) + 2 ^ t.bits - 1)
       IN \A x \in span : /\ ToI16(t, x) \in Lowest..Highest
                          /\ x + 1 \in span => ToI16(t, x) <= ToI16(t, x + 1)
  /\ \A n \in -6..6, noise \in {-1, 0, 1} :
       /\ FloatToI16(n, 4, noise) \in Lowest..Highest
       /\ FloatToI16(n, 4, noise) <= FloatToI16(n + 1, 4, noise)
  /\ \A n \in -6..6 : SoftClip(n, 4) <= SoftClip(n + 1, 4) /\ SoftClip(-n, 4) = -SoftClip(n, 4)

\* The samples of a file on their way to the packets.
PathSafe ==
  /\ PathTypeOK /\ NothingSkipped /\ PacketsCount /\ TimesRun /\ FiltersFollow /\ SamplesKeepOrder
=============================================================================
