---------------------------- MODULE TimingClient ----------------------------
(***************************************************************************)
(* The timing clients of airplay-timing that a caller drives, PtpClient    *)
(* and NtpTimingClient, the ring of measurements they feed (its age,       *)
(* staleness and drift), the conversions of Clock, and the TLVs of the     *)
(* signalling messages.  Time is a count of ticks; the remote clock is     *)
(* ahead of ours by a constant.                                            *)
(***************************************************************************)
EXTENDS Integers, Sequences, FiniteSets, SequencesExt, FiniteSetsExt

CONSTANTS
  Lead,          \* their clock minus ours
  WindowSize,    \* MAX_SAMPLES
  DriftSamples,  \* MIN_DRIFT_SAMPLES
  DriftSpan,     \* MIN_DRIFT_WINDOW_NS
  StaleFloor,    \* STALENESS_FLOOR_NS
  StaleFactor,   \* STALENESS_MEDIAN_FACTOR
  Second,        \* ticks in a second
  SampleRate,    \* samples in a second
  Fraction,      \* parts of an NTP second
  NtpEpoch,      \* NTP_EPOCH_OFFSET
  LastTick,      \* bound: ticks of the clock
  MaxRecords     \* bound: measurements recorded

ASSUME TimingAssumption ==
  /\ {Lead, WindowSize, DriftSamples, DriftSpan, StaleFloor, StaleFactor, NtpEpoch, LastTick,
      MaxRecords} \subseteq Nat
  /\ {Second, SampleRate, Fraction} \subseteq Nat \ {0} /\ DriftSpan > 0 /\ WindowSize > 0

VARIABLES
  client,   \* [kind, bound, state, t, offset, unread]
  mono,     \* our clock
  measured      \* SharedSamples: [samples, next]

timingVars == <<client, mono, measured>>

-----------------------------------------------------------------------------
(* Signalling.  A cell of a message stands for a field of its wire form.   *)

OrganizationExtension == 3
Gptp == 1
Apple == 2

Tlv(org, sub, payload) == [org |-> org, sub |-> sub, payload |-> payload]
TlvCells(t) == <<OrganizationExtension, 2 + Len(t.payload), t.org, t.sub>> \o t.payload

\* MessageIntervalRequestTlv: link delay, Sync and Announce interval, flags.
IntervalRequest(sync, announce) == Tlv(Gptp, 2, <<sync, sync, announce, 2>>)
StopRequest == Tlv(Gptp, 2, <<126, 126, 126, 0>>)
FollowUpInformation == Tlv(Gptp, 1, <<0, 0, 0, 0>>)
AppleInformation(sub, first, second) == Tlv(Apple, sub, <<first, second>>)

\* send_ptp_signaling, send_mac_style_signaling, send_stop_signaling, and the
\* TLV every Follow_Up carries.
Signaling(sync, announce) ==
  <<IntervalRequest(sync, announce), AppleInformation(1, sync, announce),
    AppleInformation(5, sync, announce)>>
MacStyleSignaling ==
  <<IntervalRequest(-3, -2), AppleInformation(1, 10000, 10000),
    AppleInformation(5, 10000, 10000)>>
StopSignaling == <<StopRequest>>
Signals == {Signaling(-3, -2), MacStyleSignaling, StopSignaling, <<FollowUpInformation>>}

Body(tlvs) == FlattenSeq([i \in DOMAIN tlvs |-> TlvCells(tlvs[i])])

\* parse_tlvs: as many whole TLVs as the message holds.
ParseTlvs(data) ==
  LET from[i \in 1..(Len(data) + 1)] ==
        IF i + 1 > Len(data) \/ i + 1 + data[i + 1] > Len(data) THEN <<>>
        ELSE <<[type |-> data[i], cells |-> SubSeq(data, i + 2, i + 1 + data[i + 1])]>>
               \o from[i + 2 + data[i + 1]]
  IN from[1]

-----------------------------------------------------------------------------
(* Clock.                                                                  *)

\* Integer division rounds to zero.
ToZero(n, d) == IF n >= 0 THEN n \div d ELSE -((-n) \div d)
Magnitude(n) == IF n >= 0 THEN n ELSE -n

SamplesToNs(samples) == (samples * Second) \div SampleRate
NsToSamples(ns) == (ns * SampleRate) \div Second

\* A timestamp of NTP is a pair of seconds and a fraction.
UnixToNtp(t) ==
  [seconds |-> t \div Second + NtpEpoch, fraction |-> ((t % Second) * Fraction) \div Second]
NtpToUnix(n) ==
  LET seconds == IF n.seconds >= NtpEpoch THEN n.seconds - NtpEpoch ELSE 0
  IN seconds * Second + (n.fraction * Second) \div Fraction

\* local_to_master_ns, <<>> when there is no such time; PtpClient takes zero.
LocalToMaster(t, offset) == IF t - offset < 0 THEN <<>> ELSE <<t - offset>>
MasterToLocal(t, offset) == Max({t + offset, 0})

-----------------------------------------------------------------------------
(* SharedSamples.                                                          *)

\* ptp_measurement: nothing when a leg is impossible.
Possible(t1, t2, t3, t4) == t4 >= t1 /\ t3 >= t2 /\ t4 - t1 >= t3 - t2
Measurement(t1, t2, t3, t4) ==
  [offset |-> ToZero((t2 - t1) + (t3 - t4), 2), delay |-> ((t4 - t1) - (t3 - t2)) \div 2,
   at |-> mono]

\* The ring numbers what it takes; whole: the stamps belong to one exchange.
Push(r, m, whole) ==
  LET grown == Append(r.samples, [m |-> m, seq |-> r.next, whole |-> whole])
  IN [samples |-> IF Len(grown) > WindowSize THEN Tail(grown) ELSE grown,
      next |-> r.next + 1]

Record(t1, t2, t3, t4, whole) ==
  IF Possible(t1, t2, t3, t4)
  THEN Push(measured, Measurement(t1, t2, t3, t4), whole) ELSE measured

ObservedAt(i) == measured.samples[i].m.at
Total(f(_)) == FoldFunction(+, 0, [i \in DOMAIN measured.samples |-> f(i)])

Window == ObservedAt(Len(measured.samples)) - ObservedAt(1)
DriftKnown ==
  measured.samples # <<>> /\ Len(measured.samples) >= DriftSamples /\ Window >= DriftSpan

\* The least-squares slope, as a quotient.
Drift ==
  LET n == Len(measured.samples)
      x(i) == ObservedAt(i) - ObservedAt(1)
      y(i) == measured.samples[i].m.offset
      xx(i) == x(i) * x(i)
      xy(i) == x(i) * y(i)
  IN [over |-> n * Total(xy) - Total(x) * Total(y), under |-> n * Total(xx) - Total(x) * Total(x)]

Gaps == SortSeq([i \in 1..(Len(measured.samples) - 1) |-> ObservedAt(i + 1) - ObservedAt(i)],
                LAMBDA a, b : a < b)
StalenessThreshold ==
  IF Len(measured.samples) < 2 THEN StaleFloor
  ELSE Max({StaleFloor, StaleFactor * Gaps[Len(Gaps) \div 2 + 1]})

\* TimingDiagnosticsHandle::snapshot at time now.
SampleAge(now) == now - ObservedAt(Len(measured.samples))
Stale(now) == measured.samples # <<>> /\ SampleAge(now) > StalenessThreshold

-----------------------------------------------------------------------------
(* The clients.                                                            *)

Unsynchronized == [t1 |-> <<>>, t2 |-> <<>>, t3 |-> <<>>, t4 |-> <<>>]
NewClient(kind) ==
  [kind |-> kind, bound |-> FALSE, state |-> "Unsynchronized", t |-> Unsynchronized,
   offset |-> <<>>, unread |-> <<>>]

Is(kind) == client.kind = kind
MonoTick == mono < LastTick /\ mono' = mono + 1 /\ UNCHANGED <<client, measured>>

\* start binds the sockets, at any port if need be; stop keeps offset and stamps.
StartClient ==
  ~client.bound /\ client' = [client EXCEPT !.bound = TRUE] /\ UNCHANGED <<mono, measured>>
StopClient ==
  /\ client.bound
  /\ client' = [client EXCEPT !.bound = FALSE, !.state = "Unsynchronized"]
  /\ UNCHANGED <<mono, measured>>

ProcessSync ==
  /\ Is("ptp")
  /\ client' = [client EXCEPT !.t.t2 = <<mono>>, !.state = "Synchronizing"]
  /\ UNCHANGED <<mono, measured>>

\* The master sent its Sync at our time s.
ProcessFollowUp ==
  /\ Is("ptp") /\ \E s \in 0..mono : client' = [client EXCEPT !.t.t1 = <<s + Lead>>]
  /\ UNCHANGED <<mono, measured>>

\* send_delay_req, and the first half of sync: refused without a socket.  A
\* request's number is never compared with an answer's, so there is none here.
SendDelayReq ==
  /\ Is("ptp") /\ client.bound
  /\ client' = [client EXCEPT !.t.t3 = <<mono>>]
  /\ UNCHANGED <<mono, measured>>

Offset(t1, t2, t3, t4) ==
  LET delay == ToZero((t2 - t1) - (t3 - t4), 2)
  IN [offset |-> ToZero((t2 - t1) + (t3 - t4), 2), rtt |-> Magnitude(delay),
      error |-> Magnitude(delay) \div 2]

\* calculate_offset: the stamps of one cycle are used once.
CalculateOffset(c, r) ==
  LET t1 == c.t.t1[1]  t2 == c.t.t2[1]  t3 == c.t.t3[1]  t4 == r + Lead
  IN /\ client' = [c EXCEPT !.offset = <<Offset(t1, t2, t3, t4)>>, !.state = "Synchronized",
                            !.t = Unsynchronized]
     /\ measured' = Record(t1, t2, t3, t4, t1 - Lead <= t2 /\ t3 <= r)

\* The master took our request at our time r.
ProcessDelayResp ==
  /\ Is("ptp") /\ measured.next <= MaxRecords
  /\ \E r \in 0..mono :
       IF \A s \in {"t1", "t2", "t3"} : client.t[s] # <<>> THEN CalculateOffset(client, r)
       ELSE client' = [client EXCEPT !.t.t4 = <<r + Lead>>] /\ UNCHANGED measured
  /\ UNCHANGED mono

\* NtpTimingClient::sync sends a request and blocks for an answer, which may be
\* that of an earlier request whose wait had timed out.  The offset is computed
\* from the time the answer echoes, the measurement from this request's.
NtpRequestSent ==
  /\ Is("ntp") /\ client.bound /\ client.t.t1 = <<>>
  /\ client' = [client EXCEPT !.t.t1 = <<mono>>, !.unread = Append(@, mono)]
  /\ Len(client.unread) < 2
  /\ UNCHANGED <<mono, measured>>
NtpAnswered ==
  /\ Is("ntp") /\ client.t.t1 # <<>> /\ client.unread # <<>> /\ measured.next <= MaxRecords
  /\ LET echoed == Head(client.unread)
         asked == client.t.t1[1]
     IN \E s \in echoed..mono :
          LET t2 == s + Lead
          IN /\ client' = [client EXCEPT !.t.t1 = <<>>, !.unread = Tail(@),
                                         !.state = "Synchronized",
                                         !.offset = <<[offset |-> ToZero((t2 - echoed) + (t2 - mono), 2),
                                                       rtt |-> mono - echoed,
                                                       error |-> (mono - echoed) \div 2]>>]
             /\ measured' = Record(asked, t2, t2, mono, asked = echoed)
  /\ UNCHANGED mono
NtpTimedOut ==
  /\ Is("ntp") /\ client.t.t1 # <<>>
  /\ \E left \in {client.unread, <<>>} :
       client' = [client EXCEPT !.t.t1 = <<>>, !.unread = left]
  /\ UNCHANGED <<mono, measured>>

-----------------------------------------------------------------------------
TimingInit ==
  /\ client \in {NewClient("ptp"), NewClient("ntp")} /\ mono = 0
  /\ measured = [samples |-> <<>>, next |-> 1]

TimingNext ==
  \/ MonoTick \/ StartClient \/ StopClient
  \/ ProcessSync \/ ProcessFollowUp \/ SendDelayReq \/ ProcessDelayResp
  \/ NtpRequestSent \/ NtpAnswered \/ NtpTimedOut

TimingSpec == TimingInit /\ [][TimingNext]_timingVars

-----------------------------------------------------------------------------
TimingTypeOK ==
  /\ client.state \in {"Unsynchronized", "Synchronizing", "Synchronized"}
  /\ Len(measured.samples) <= WindowSize /\ mono \in 0..LastTick

\* The ring holds the newest measurements, numbered without a gap, in the order
\* of their times.
RingInOrder ==
  \A i \in DOMAIN measured.samples :
    /\ measured.samples[i].seq = measured.next - 1 - (Len(measured.samples) - i)
    /\ i > 1 => ObservedAt(i - 1) <= ObservedAt(i)

\* A measurement of one exchange is off by no more than the delay it states.  The
\* PTP client's is ours minus theirs, the NTP client's theirs minus ours.
MeasuresTrue ==
  LET truth == IF Is("ptp") THEN -Lead ELSE Lead
  IN \A i \in DOMAIN measured.samples :
       measured.samples[i].whole =>
         Magnitude(measured.samples[i].m.offset - truth) <= measured.samples[i].m.delay + 1

\* No Sync serves two exchanges, and whatever the answer will be, the offset the
\* client answers and the measurement of the same exchange agree, though they
\* are computed by two formulas.
OneMath ==
  LET t == client.t
  IN /\ Is("ptp") /\ client.state = "Synchronized" => client.offset # <<>> /\ t.t2 = <<>>
     /\ (\A s \in {"t1", "t2", "t3"} : t[s] # <<>>) =>
          \A t4 \in 0..(LastTick + Lead) :
            LET o == Offset(t.t1[1], t.t2[1], t.t3[1], t4)
                m == Measurement(t.t1[1], t.t2[1], t.t3[1], t4)
            IN Possible(t.t1[1], t.t2[1], t.t3[1], t4) => o.offset = m.offset /\ o.rtt = m.delay

\* A drift estimate is a finite slope, and offsets that never fall never drift down.
DriftTrue ==
  DriftKnown =>
    /\ Drift.under > 0
    /\ (\A i \in 2..Len(measured.samples) :
          measured.samples[i - 1].m.offset <= measured.samples[i].m.offset) => Drift.over >= 0

\* A fresh sample is not stale, and a source that keeps its pace never is.
StaleIsLate ==
  \A now \in mono..LastTick :
    Stale(now) => /\ SampleAge(now) > StaleFloor
                  /\ \/ Len(measured.samples) = 1
                     \/ \E i \in DOMAIN Gaps : SampleAge(now) > StaleFactor * Gaps[i]

\* Conversions there and back lose less than one unit, and keep the order.
ConversionsTrue ==
  /\ NtpToUnix(UnixToNtp(mono)) \in {mono - 1, mono}
  /\ Second >= SampleRate => NsToSamples(SamplesToNs(mono)) \in {mono - 1, mono}
  /\ client.offset # <<>> =>
       \A t \in Range(LocalToMaster(mono, client.offset[1].offset)) :
         MasterToLocal(t, client.offset[1].offset) = mono

\* Every signalling message parses back into the TLVs it was made of, and one
\* cut short into those that are whole.
SignalsParse ==
  \A s \in Signals :
    LET parsed == [i \in DOMAIN s |-> [type |-> OrganizationExtension,
                                       cells |-> <<s[i].org, s[i].sub>> \o s[i].payload]]
    IN \A n \in 0..Len(Body(s)) :
         /\ IsPrefix(ParseTlvs(SubSeq(Body(s), 1, n)), parsed)
         /\ n = Len(Body(s)) => ParseTlvs(Body(s)) = parsed

\* What the timing clients and their ring of measurements say.
TimingSafe ==
  /\ TimingTypeOK /\ RingInOrder /\ MeasuresTrue /\ OneMath /\ DriftTrue /\ StaleIsLate
  /\ ConversionsTrue /\ SignalsParse
=============================================================================
