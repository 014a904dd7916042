------------------------------ MODULE ClockSync ------------------------------
(***************************************************************************)
(* The timing workers (airplay-timing): the flow that yields to the        *)
(* receiver's clock and tracks it by generation, the older slave and the   *)
(* two-way master that keep bare time stamps, the group master, and the    *)
(* NTP exchange.  Time is a count of ticks; the receiver's clock and ours  *)
(* differ by a constant for every grandmaster.  Datagrams may be lost, the *)
(* two sockets are read in any order, and other receivers share the ports. *)
(***************************************************************************)
EXTENDS Integers, Sequences, FiniteSets

CONSTANTS
  ClockModes,    \* the workers to run, of "yield", "slave", "master", "group", "ntp"
  Grandmasters,  \* clock identities a receiver may announce
  Ahead,         \* [Grandmasters -> Int]: our clock minus theirs
  Relays,        \* port identities the receiver may speak from
  ClockPeers,    \* receivers of a group
  AnnounceEvery, \* rounds between two announcements of the group master
  MaxTicks,      \* bound: ticks of the clock
  MaxPackets,    \* bound: datagrams waiting at one socket
  MaxPairs,      \* bound: Sync pairs sent
  MaxChanges     \* bound: changes of the receiver's clock

ASSUME ClockAssumption ==
  /\ Ahead \in [Grandmasters -> Int] /\ 0 \notin Grandmasters \cup Relays
  /\ ClockPeers = 1..Cardinality(ClockPeers)
  /\ {AnnounceEvery, MaxTicks, MaxPackets, MaxPairs, MaxChanges} \subseteq Nat

VARIABLES
  flow,      \* [mode, phase]: which flow runs and how far it is
  ticks,     \* our clock
  boss,      \* [gm, relay, seq, changes]: the receiver's clock and its last Sync
  event,     \* datagrams on port 319
  general,   \* datagrams on port 320
  asks,      \* our requests on the way to the receiver
  tracker,   \* PtpMeasurementTracker, options as sequences of length 0 or 1
  stamps,    \* t1, t2, t3 of the older flows, and whether a Sync named its sender
  published, \* the clock state or offset last published, <<>> before the first
  requests,  \* delay or timing requests numbered so far
  group      \* [heard, told, since, sync, follow]: the group master's side

airVars == <<event, general, asks>>
clockVars == <<flow, ticks, boss, event, general, asks, tracker, stamps, published,
               requests, group>>

-----------------------------------------------------------------------------
(* Datagrams and clocks.                                                   *)

\* The time of grandmaster g when ours is t.
Theirs(g, t) == t - Ahead[g]

\* PtpHeader and body: kind, sequence, source port, host, clock, time stamp.
Datagram(kind, seq, at) ==
  [kind |-> kind, seq |-> seq, src |-> boss.relay, host |-> "master", gm |-> boss.gm,
   at |-> at, to |-> "us"]

EmptyTracker ==
  [announced |-> <<>>, pendingSync |-> <<>>, completedSync |-> <<>>, pendingDelay |-> <<>>,
   next |-> 1]
NoStamps == [t1 |-> <<>>, t2 |-> <<>>, t3 |-> <<>>, addr |-> FALSE]

\* The two-way offset and half the round trip; integer division rounds to zero.
Half(n) == IF n >= 0 THEN n \div 2 ELSE -((-n) \div 2)
Abs(n) == IF n >= 0 THEN n ELSE -n
TwoWay(id, t1, t2, t3, t4, via) ==
  [id |-> id, offset |-> Half((t2 - t1) + (t3 - t4)),
   rtt |-> Abs(Half((t2 - t1) - (t3 - t4))), via |-> via, at |-> ticks]

-----------------------------------------------------------------------------
(* PtpMeasurementTracker.                                                  *)

\* A new clock or relay opens a generation and forgets what was measured.
ObserveAnnounce(t, p) ==
  IF p.gm = 0 \/ p.src = 0 \/ (t.announced # <<>> /\ t.announced[1].gm = p.gm
                                                  /\ t.announced[1].relay = p.src)
  THEN t
  ELSE [announced |-> <<[gm |-> p.gm, relay |-> p.src, gen |-> t.next]>>,
        pendingSync |-> <<>>, completedSync |-> <<>>, pendingDelay |-> <<>>,
        next |-> t.next + 1]

\* Invalidate: the clock that was announced before is another one now.
Invalidates(t, p) == t.announced # <<>> /\ ObserveAnnounce(t, p) # t

ObserveSync(t, p) ==
  IF t.announced = <<>> \/ p.src # t.announced[1].relay THEN t
  ELSE [t EXCEPT !.pendingSync = <<[seq |-> p.seq, relay |-> p.src, gen |-> t.announced[1].gen,
                                    at |-> ticks]>>]

\* Faulty: any Follow_Up completes the Sync that is waiting.
AnyFollowUp(t, p) == t.announced # <<>> /\ t.pendingSync # <<>>

FollowUpFits(t, p) ==
  /\ t.announced # <<>> /\ t.pendingSync # <<>>
  /\ p.seq = t.pendingSync[1].seq
  /\ p.src = t.pendingSync[1].relay /\ p.src = t.announced[1].relay
  /\ t.pendingSync[1].gen = t.announced[1].gen

ObserveFollowUp(t, p) ==
  [t EXCEPT !.pendingSync = <<>>,
            !.completedSync = <<[gen |-> t.announced[1].gen, t1 |-> p.at,
                                 t2 |-> t.pendingSync[1].at]>>]

RecordDelayRequest(t, seq) ==
  IF t.announced = <<>> \/ t.completedSync = <<>>
     \/ t.completedSync[1].gen # t.announced[1].gen
  THEN t
  ELSE [t EXCEPT !.pendingDelay = <<[seq |-> seq, req |-> "us", gen |-> t.announced[1].gen,
                                     t3 |-> ticks, sync |-> t.completedSync[1]]>>]

DelayResponseFits(t, p) ==
  /\ t.announced # <<>> /\ t.pendingDelay # <<>>
  /\ p.seq = t.pendingDelay[1].seq /\ p.src = t.announced[1].relay
  /\ p.to = t.pendingDelay[1].req
  /\ t.pendingDelay[1].gen = t.announced[1].gen
  /\ t.pendingDelay[1].sync.gen = t.announced[1].gen

\* one_way_offset: the path delay stays in it.
OneWay(t, p) ==
  [id |-> t.announced[1].gm, offset |-> t.pendingSync[1].at - p.at, rtt |-> 0,
   via |-> "sync", at |-> ticks]

Refined(t, p, via) ==
  LET d == t.pendingDelay[1]
  IN TwoWay(t.announced[1].gm, d.sync.t1, d.sync.t2, d.t3, p.at, via)

-----------------------------------------------------------------------------
(* The receiver and the network.                                           *)

SocketRoom(q) == Len(q) < MaxPackets
WorldIdle == UNCHANGED <<flow, tracker, stamps, published, requests, group>>

Tick == ticks < MaxTicks /\ ticks' = ticks + 1 /\ UNCHANGED <<boss, airVars>> /\ WorldIdle

\* The receiver follows another clock, or speaks from another port.  It says
\* so before it uses the new clock, and DatagramLost spares announcements.
ClockChanges ==
  /\ flow.mode \in {"yield", "slave", "master"} /\ SocketRoom(general)
  /\ boss.changes < MaxChanges
  /\ \E g \in Grandmasters, r \in Relays :
       /\ <<g, r>> # <<boss.gm, boss.relay>>
       /\ boss' = [boss EXCEPT !.gm = g, !.relay = r, !.changes = @ + 1]
       /\ general' = Append(general, [Datagram("announce", 0, 0) EXCEPT !.gm = g, !.src = r])
  /\ UNCHANGED <<ticks, event, asks>> /\ WorldIdle

\* It announces its clock, or an identity of zeroes.
Announces ==
  /\ flow.mode # "ntp" /\ SocketRoom(general)
  /\ \E g \in {0, boss.gm} :
       general' = Append(general, [Datagram("announce", 0, 0) EXCEPT !.gm = g])
  /\ UNCHANGED <<ticks, boss, event, asks>> /\ WorldIdle

\* A Sync and, with the time it was sent, its Follow_Up.
Syncs ==
  /\ flow.mode \in {"yield", "slave", "master"} /\ boss.seq < MaxPairs
  /\ SocketRoom(event) /\ SocketRoom(general)
  /\ boss' = [boss EXCEPT !.seq = @ + 1]
  /\ event' = Append(event, Datagram("sync", boss.seq + 1, 0))
  /\ general' = Append(general, Datagram("follow", boss.seq + 1, Theirs(boss.gm, ticks)))
  /\ UNCHANGED <<ticks, asks>> /\ WorldIdle

\* It answers a Delay_Req, on either port.
AnswersDelay ==
  /\ flow.mode \in {"yield", "slave", "master"} /\ asks # <<>>
  /\ LET p == Datagram("resp", Head(asks).seq, Theirs(boss.gm, ticks))
     IN \/ SocketRoom(event) /\ event' = Append(event, p) /\ UNCHANGED general
        \/ SocketRoom(general) /\ general' = Append(general, p) /\ UNCHANGED event
  /\ asks' = Tail(asks)
  /\ UNCHANGED <<ticks, boss>> /\ WorldIdle

\* Another receiver's Sync arrives on the shared port.
StrangerSyncs ==
  /\ flow.mode = "yield" /\ SocketRoom(event)
  /\ event' = Append(event, [Datagram("sync", boss.seq, 0) EXCEPT !.host = "other"])
  /\ UNCHANGED <<ticks, boss, general, asks>> /\ WorldIdle

DatagramLost ==
  /\ \/ event # <<>> /\ event' = Tail(event) /\ UNCHANGED <<general, asks>>
     \/ /\ general # <<>> /\ Head(general).kind # "announce"
        /\ general' = Tail(general) /\ UNCHANGED <<event, asks>>
     \/ asks # <<>> /\ asks' = Tail(asks) /\ UNCHANGED <<event, general>>
  /\ UNCHANGED <<ticks, boss>> /\ WorldIdle

-----------------------------------------------------------------------------
(* The flow reads a datagram.                                            *)

FromEvent(kind) ==
  event # <<>> /\ Head(event).kind = kind /\ event' = Tail(event) /\ UNCHANGED general
FromGeneral(kind) ==
  general # <<>> /\ Head(general).kind = kind /\ general' = Tail(general) /\ UNCHANGED event
Ours(p) == p.host = "master"
Runs(m, at) == flow = [mode |-> m, phase |-> at]
Enter(at) == flow' = [flow EXCEPT !.phase = at]

\* Phase 1: three Syncs, two announcements, the signalling; a send that fails
\* ends the flow.
YieldOpens ==
  /\ Runs("yield", "opening") /\ \E next \in {"bmca", "failed"} : Enter(next)
  /\ UNCHANGED <<ticks, boss, airVars, tracker, stamps, published, requests, group>>

\* Phase 2: the receiver's announcement ends the wait, or three seconds do;
\* then the stop signal is sent, whose failure ends the flow.
YieldHears ==
  /\ Runs("yield", "bmca") /\ FromGeneral("announce")
  /\ tracker' = ObserveAnnounce(tracker, Head(general))
  /\ IF tracker'.announced # <<>> THEN \E next \in {"loop", "failed"} : Enter(next)
     ELSE UNCHANGED flow
  /\ UNCHANGED <<ticks, boss, asks, stamps, published, requests, group>>

YieldDeadline ==
  /\ Runs("yield", "bmca") /\ \E next \in {"loop", "failed"} : Enter(next)
  /\ UNCHANGED <<ticks, boss, airVars, tracker, stamps, published, requests, group>>

YieldDrains ==
  /\ Runs("yield", "bmca")
  /\ \/ \E k \in {"sync", "resp"} : FromEvent(k)
     \/ \E k \in {"follow", "resp"} : FromGeneral(k)
  /\ UNCHANGED <<flow, ticks, boss, asks, tracker, stamps, published, requests, group>>

\* Phase 4, one arm for each kind; what another host sent is dropped.
YieldSync ==
  /\ Runs("yield", "loop") /\ FromEvent("sync")
  /\ tracker' = IF Ours(Head(event)) THEN ObserveSync(tracker, Head(event)) ELSE tracker
  /\ UNCHANGED <<flow, ticks, boss, asks, stamps, published, requests, group>>

YieldAnnounce ==
  /\ Runs("yield", "loop") /\ FromGeneral("announce")
  /\ tracker' = ObserveAnnounce(tracker, Head(general))
  /\ published' = IF Invalidates(tracker, Head(general)) THEN <<>> ELSE published
  /\ UNCHANGED <<flow, ticks, boss, asks, stamps, requests, group>>

\* The measurement is published and a Delay_Req sent after it.
YieldFollowUp ==
  /\ Runs("yield", "loop") /\ FromGeneral("follow")
  /\ LET p == Head(general)
     IN IF FollowUpFits(tracker, p)
        THEN /\ published' = <<OneWay(tracker, p)>>
             /\ requests' = requests + 1
             /\ tracker' = RecordDelayRequest(ObserveFollowUp(tracker, p), requests + 1)
             /\ \/ asks' = asks
                \/ SocketRoom(asks) /\ asks' = Append(asks, [seq |-> requests + 1])
        ELSE UNCHANGED <<published, requests, tracker, asks>>
  /\ UNCHANGED <<flow, ticks, boss, stamps, group>>

Refine(p, via) ==
  IF DelayResponseFits(tracker, p)
  THEN /\ published' = <<Refined(tracker, p, via)>>
       /\ tracker' = [tracker EXCEPT !.pendingDelay = <<>>]
  ELSE UNCHANGED <<published, tracker>>

\* An answer belongs on the general port; the event port is read for it too.
YieldDelayResp ==
  /\ Runs("yield", "loop")
  /\ \/ FromEvent("resp") /\ Refine(Head(event), "event")
     \/ FromGeneral("resp") /\ Refine(Head(general), "general")
  /\ UNCHANGED <<flow, ticks, boss, asks, stamps, requests, group>>

-----------------------------------------------------------------------------
(* The older flows: the newest stamp of each kind, whoever it came from.   *)

OldFlow == flow.mode \in {"slave", "master"}

\* PtpMaster::start fails without the ports; run_ptp_slave takes others.
OldOpens ==
  /\ OldFlow /\ flow.phase = "opening"
  /\ \E next \in {"loop"} \cup (IF flow.mode = "master" THEN {"failed"} ELSE {}) : Enter(next)
  /\ UNCHANGED <<ticks, boss, airVars, tracker, stamps, published, requests, group>>

OldSync ==
  /\ OldFlow /\ flow.phase = "loop" /\ FromEvent("sync")
  /\ stamps' = [stamps EXCEPT !.t2 = <<ticks>>, !.addr = TRUE]
  /\ UNCHANGED <<flow, ticks, boss, asks, tracker, published, requests, group>>

\* The two-way master asks only whom it had a Sync from.
OldFollowUp ==
  /\ OldFlow /\ flow.phase = "loop" /\ FromGeneral("follow")
  /\ IF flow.mode = "slave" \/ stamps.addr
     THEN /\ stamps' = [stamps EXCEPT !.t1 = <<Head(general).at>>, !.t3 = <<ticks>>]
          /\ requests' = requests + 1
          /\ \/ asks' = asks
             \/ SocketRoom(asks) /\ asks' = Append(asks, [seq |-> requests + 1])
     ELSE /\ stamps' = [stamps EXCEPT !.t1 = <<Head(general).at>>]
          /\ UNCHANGED <<requests, asks>>
  /\ UNCHANGED <<flow, ticks, boss, tracker, published, group>>

\* The slave forgets its stamps at every answer, the master at one it used.
StampsAfter(whole) ==
  IF whole \/ flow.mode = "slave" THEN [NoStamps EXCEPT !.addr = stamps.addr] ELSE stamps

\* Only the event port is read for answers.
OldDelayResp ==
  /\ OldFlow /\ flow.phase = "loop" /\ FromEvent("resp")
  /\ LET whole == \A f \in {"t1", "t2", "t3"} : stamps[f] # <<>>
     IN /\ published' = IF whole
                        THEN <<TwoWay(0, stamps.t1[1], stamps.t2[1], stamps.t3[1],
                                      Head(event).at, "event")>>
                        ELSE published
        /\ stamps' = StampsAfter(whole)
  /\ UNCHANGED <<flow, ticks, boss, asks, tracker, requests, group>>

OldDrains ==
  /\ OldFlow /\ flow.phase = "loop" /\ \E k \in {"announce", "resp"} : FromGeneral(k)
  /\ UNCHANGED <<flow, ticks, boss, asks, tracker, stamps, published, requests, group>>

-----------------------------------------------------------------------------
(* run_ptp_group_master_flow.                                              *)

GroupOpens ==
  /\ Runs("group", "opening") /\ \E next \in {"bmca", "failed"} : Enter(next)
  /\ UNCHANGED <<ticks, boss, airVars, tracker, stamps, published, requests, group>>

\* Every announcement counts, also a second one of the same receiver.
GroupHears ==
  /\ Runs("group", "bmca") /\ FromGeneral("announce")
  /\ group.heard < Cardinality(ClockPeers)
  /\ group' = [group EXCEPT !.heard = @ + 1]
  /\ UNCHANGED <<flow, ticks, boss, asks, tracker, stamps, published, requests>>

\* All heard or the deadline: the clock identity is reported.
GroupDecides ==
  /\ Runs("group", "bmca") /\ Enter("loop")
  /\ group' = [group EXCEPT !.told = @ + 1]
  /\ UNCHANGED <<ticks, boss, airVars, tracker, stamps, published, requests>>

\* One round: a numbered pair to each receiver, then perhaps an announcement.
\* A pair that cannot be sent, or only half, takes its number all the same.
GroupRound ==
  /\ Runs("group", "loop") /\ requests + Cardinality(ClockPeers) <= 3 * MaxPairs
  /\ \E sync \in SUBSET ClockPeers : \E follow \in SUBSET sync :
       LET number(p) == requests + p
       IN group' = [group EXCEPT
            !.since = IF @ + 1 >= AnnounceEvery THEN 0 ELSE @ + 1,
            !.sync = [p \in ClockPeers |-> IF p \in sync THEN number(p) ELSE @[p]],
            !.follow = [p \in ClockPeers |-> IF p \in follow THEN number(p) ELSE @[p]]]
  /\ requests' = requests + Cardinality(ClockPeers)
  /\ UNCHANGED <<flow, ticks, boss, airVars, tracker, stamps, published>>

GroupDrains ==
  /\ Runs("group", "loop") /\ FromGeneral("announce")
  /\ UNCHANGED <<flow, ticks, boss, asks, tracker, stamps, published, requests, group>>

-----------------------------------------------------------------------------
(* NTP: a client that asks and a server that answers.                      *)

NtpAsks ==
  /\ Runs("ntp", "opening") /\ SocketRoom(asks) /\ requests < MaxPairs
  /\ Enter("waiting") /\ requests' = requests + 1
  /\ asks' = Append(asks, [seq |-> requests, at |-> ticks])
  /\ UNCHANGED <<ticks, boss, event, general, tracker, stamps, published, group>>

\* NtpTimingServer::run_loop echoes the time of the request.
NtpServes ==
  /\ flow.mode = "ntp" /\ asks # <<>> /\ SocketRoom(event)
  /\ asks' = Tail(asks)
  /\ event' = Append(event, [Datagram("time", Head(asks).seq, Head(asks).at)
                               EXCEPT !.to = Theirs(boss.gm, ticks)])
  /\ UNCHANGED <<ticks, boss, general>> /\ WorldIdle

\* clock_offset and round_trip_time, theirs minus ours here.
NtpReads ==
  /\ Runs("ntp", "waiting") /\ FromEvent("time") /\ Enter("opening")
  /\ LET p == Head(event)
     IN published' = <<[id |-> boss.gm, offset |-> Half((p.to - p.at) + (p.to - ticks)),
                        rtt |-> ticks - p.at, via |-> "event", at |-> ticks]>>
  /\ UNCHANGED <<ticks, boss, asks, tracker, stamps, requests, group>>

\* One second without an answer: the next round asks again.
NtpTimesOut ==
  /\ Runs("ntp", "waiting") /\ Enter("opening")
  /\ UNCHANGED <<ticks, boss, airVars, tracker, stamps, published, requests, group>>

-----------------------------------------------------------------------------
\* A receiver before its first Sync.
Bosses == [gm : Grandmasters, relay : Relays, seq : {0}, changes : {0}]

ClockInit ==
  /\ \E m \in ClockModes : flow = [mode |-> m, phase |-> "opening"]
  /\ ticks = 0 /\ event = <<>> /\ general = <<>> /\ asks = <<>>
  /\ boss \in Bosses
  /\ tracker = EmptyTracker /\ stamps = NoStamps /\ published = <<>> /\ requests = 0
  /\ group = [heard |-> 0, told |-> 0, since |-> 0, sync |-> [p \in ClockPeers |-> 0],
              follow |-> [p \in ClockPeers |-> 0]]

ClockNext ==
  \/ Tick \/ ClockChanges \/ Announces \/ Syncs \/ AnswersDelay \/ StrangerSyncs \/ DatagramLost
  \/ YieldOpens \/ YieldHears \/ YieldDeadline \/ YieldDrains
  \/ YieldSync \/ YieldAnnounce \/ YieldFollowUp \/ YieldDelayResp
  \/ OldOpens \/ OldSync \/ OldFollowUp \/ OldDelayResp \/ OldDrains
  \/ GroupOpens \/ GroupHears \/ GroupDecides \/ GroupRound \/ GroupDrains
  \/ NtpAsks \/ NtpServes \/ NtpReads \/ NtpTimesOut

ClockSpec == ClockInit /\ [][ClockNext]_clockVars

-----------------------------------------------------------------------------
ClockTypeOK ==
  /\ flow.phase \in {"opening", "bmca", "waiting", "loop", "failed"}
  /\ ticks \in 0..MaxTicks /\ Len(event) <= MaxPackets /\ Len(general) <= MaxPackets
  /\ Len(published) <= 1

\* An identity and an offset that are published together belong together: the
\* clock is the one last announced, a one-way offset is off by the Sync's own
\* way, and a refined one by no more than the path delay it states, rounded.
\* An answer on the event port may overtake the announcement of a new clock.
ClockIsCoherent ==
  flow.mode = "yield" /\ published # <<>> =>
    LET c == published[1]
        error == c.offset - Ahead[c.id]
    IN /\ tracker.announced # <<>> /\ c.id = tracker.announced[1].gm
       /\ c.via = "sync" => error \in 0..ticks
       /\ c.via = "general" => Abs(error) <= c.rtt + 1

\* The older flows never use a stamp for two offsets.
StampsUsedOnce ==
  OldFlow /\ published # <<>> =>
    \A f \in {"t2", "t3"} : stamps[f] # <<>> => stamps[f][1] >= published[1].at

\* The group master reports its clock once, before its first round, numbers no
\* two pairs alike and never follows up a Sync it has not sent.
GroupKeepsTime ==
  flow.mode = "group" =>
    /\ group.told = (IF flow.phase = "loop" THEN 1 ELSE 0)
    /\ group.since < AnnounceEvery
    /\ \A p \in ClockPeers : group.follow[p] <= group.sync[p]
    /\ \A p, q \in ClockPeers : p # q /\ group.sync[p] > 0 => group.sync[p] # group.sync[q]

\* A late answer to an earlier request still gives an NTP offset that is off by
\* at most half its round trip.
NtpIsBounded ==
  flow.mode = "ntp" /\ published # <<>> =>
    2 * Abs(published[1].offset + Ahead[published[1].id]) <= published[1].rtt + 1

\* What the timing workers publish.
ClockSafe ==
  /\ ClockTypeOK /\ ClockIsCoherent /\ StampsUsedOnce /\ GroupKeepsTime /\ NtpIsBounded
=============================================================================
