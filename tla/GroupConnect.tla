----------------------------- MODULE GroupConnect -----------------------------
(***************************************************************************)
(* AirPlayClient::connect_group_best_effort (airplay-client/src/client.rs) *)
(* with the types and rules of group.rs.                                   *)
(*                                                                         *)
(* The members are connected and paired in parallel, at most               *)
(* MAX_PARALLEL_SETUPS at a time; a primary is chosen among those that     *)
(* came up and runs the primary-critical sequence, with one fallback; the  *)
(* others join its PTP domain one after the other; a lone survivor leaves  *)
(* PTP and reconnects over NTP.  Any single request may fail; a failure    *)
(* tears down that member only.                                            *)
(*                                                                         *)
(* A device is its stable identity, a number; its place in the request is  *)
(* the input order.  Whether a device speaks PTP is fixed by its service   *)
(* record.  A peer list is the set of devices whose address it carries.    *)
(***************************************************************************)
EXTENDS Naturals, Sequences, SequencesExt, FiniteSets, FiniteSetsExt

CONSTANTS Devices,      \* stable identities
          Requests,     \* the device lists a caller asks for, in input order
          Sessions,     \* sessions the client may already hold, primary first
          MaxParallel   \* MAX_PARALLEL_SETUPS

ASSUME GroupAssumption ==
  /\ Devices \subseteq Nat \ {0} /\ IsFiniteSet(Devices)
  /\ Requests \subseteq Seq(Devices) /\ Sessions \subseteq Seq(Devices)
  /\ MaxParallel \in Nat \ {0}

Nobody == 0

\* The clock a member plays by.
NoClock == <<"none", Nobody>>
Ptp(p) == <<"ptp", p>>
Ntp == <<"ntp", Nobody>>

VARIABLES
  step,      \* where the call stands
  asked,     \* devices, in input order
  capable,   \* the devices that support PTP
  preferred, \* preferred_opt
  session,   \* self.connection and self.group_connections
  link,      \* "none", "flying", "open", "Connect" or "Pair" (did not come up), "closed"
  healthy,   \* members still eligible for the primary role
  failures,  \* MemberFailure records, in the order they were pushed
  primary,   \* the member in or through the primary-critical sequence
  tries,     \* primary attempts made
  peers,     \* peer_addresses
  told,      \* the peer list each member last received
  timing,    \* the clock each member plays by
  queue,     \* members that have still to join, in input order
  report     \* connected devices of the report

groupVars == <<step, asked, capable, preferred, session, link, healthy, failures, primary,
               tries, peers, told, timing, queue, report>>

Fail(d, p) == [receiver |-> d, phase |-> p]
Open == {d \in Devices : link[d] = "open"}

SetupPhase == {"Connect", "Pair", "PrimaryTiming", "RtspSetup", "SetPeers", "BuildSender",
               "StartAudio"}
MemberFailure == [receiver : Devices, phase : SetupPhase]

\* A member's link, from its first connect to its teardown.
GroupMemberLink ==
  /\ link \in [Devices -> {"none", "flying", "open", "Connect", "Pair", "closed"}]
  /\ Cardinality({d \in Devices : link[d] = "flying"}) <= MaxParallel

\* A member that failed as the primary is not tried again.
EstablishedMember == healthy \subseteq Devices /\ tries \in 0..2

\* What a member was told: the peers of its group and whose clock it follows.
GroupPrimaryTiming ==
  /\ told \in [Devices -> SUBSET Devices]
  /\ timing \in [Devices -> {NoClock, Ntp} \cup {Ptp(d) : d \in Devices}]

GroupConnectReport ==
  /\ primary \in Devices \cup {Nobody} /\ ToSet(report) \subseteq Devices
  /\ Len(failures) <= Len(asked) /\ \A i \in DOMAIN failures : failures[i] \in MemberFailure

\* build_peer_addresses: the members that hold a live link (our own address,
\* which every list ends with, aside).
BuildPeerAddresses == Open

GroupInit ==
  /\ step = "called" /\ asked \in Requests /\ capable \in SUBSET Devices
  /\ preferred \in Devices \cup {Nobody} /\ session \in Sessions
  /\ link = [d \in Devices |-> IF d \in ToSet(session) THEN "open" ELSE "none"]
  /\ healthy = {} /\ failures = <<>> /\ primary = Nobody /\ tries = 0 /\ peers = {}
  /\ told = [d \in Devices |-> {}] /\ timing = [d \in Devices |-> NoClock]
  /\ queue = <<>> /\ report = <<>>

\* An empty list and a duplicate member are refused before anything is touched.
HasDuplicate == \E i, j \in DOMAIN asked : i # j /\ asked[i] = asked[j]
Refuse ==
  /\ step = "called" /\ (asked = <<>> \/ HasDuplicate) /\ step' = "refused"
  /\ UNCHANGED <<asked, capable, preferred, session, link, healthy, failures, primary, tries,
                 peers, told, timing, queue, report>>

\* The existing session ends first: the group's connections side by side, then
\* the primary.  Every connection closes its socket; the primary's error is
\* returned, and its closed connection stays stored.
EndSession ==
  /\ step = "called" /\ asked # <<>> /\ ~HasDuplicate
  /\ link' = [d \in Devices |-> "none"]
  /\ \/ step' = "connecting" /\ session' = <<>>
     \/ step' = "error" /\ session # <<>> /\ session' = <<Head(session)>>
  /\ UNCHANGED <<asked, capable, preferred, healthy, failures, primary, tries, peers, told,
                 timing, queue, report>>

\* buffer_unordered takes the next device of the list while fewer than
\* MAX_PARALLEL_SETUPS are under way; they end in any order, up or classified.
Launch ==
  /\ step = "connecting"
  /\ Cardinality({d \in Devices : link[d] = "flying"}) < MaxParallel
  /\ \E i \in DOMAIN asked :
       /\ link[asked[i]] = "none" /\ \A j \in 1 .. i - 1 : link[asked[j]] # "none"
       /\ link' = [link EXCEPT ![asked[i]] = "flying"]
  /\ UNCHANGED <<step, asked, capable, preferred, session, healthy, failures, primary, tries,
                 peers, told, timing, queue, report>>

\* An establishment ends, up or classified.
Establish(d) ==
  /\ step = "connecting" /\ link[d] = "flying"
  /\ \E o \in {"open", "Connect", "Pair"} : link' = [link EXCEPT ![d] = o]
  /\ UNCHANGED <<step, asked, capable, preferred, session, healthy, failures, primary, tries,
                 peers, told, timing, queue, report>>

\* Some of the devices asked for, arranged in input order.
InputOrder(S) ==
  {s \in SetToSeqs(S) :
     \A i, j \in DOMAIN s : i < j =>
       \E k, l \in DOMAIN asked : k < l /\ asked[k] = s[i] /\ asked[l] = s[j]}

\* The results are sorted back into input order.
Collect ==
  /\ step = "connecting" /\ \A d \in ToSet(asked) : link[d] \notin {"none", "flying"}
  /\ step' = "choosing" /\ healthy' = Open
  /\ \E down \in InputOrder({d \in ToSet(asked) : link[d] # "open"}) :
       failures' = [i \in DOMAIN down |-> Fail(down[i], link[down[i]])]
  /\ UNCHANGED <<asked, capable, preferred, session, link, primary, tries, peers, told,
                 timing, queue, report>>

\* choose_primary: the preferred device when it is a candidate that speaks PTP,
\* else the smallest such identity.
ChoosePrimary(candidates, wish) ==
  LET ptp == candidates \cap capable
  IN IF wish \in ptp THEN wish ELSE IF ptp = {} THEN Nobody ELSE Min(ptp)

\* One round of the primary loop: the peer list names every member that holds a
\* link at this moment.
Promote ==
  LET p == ChoosePrimary(healthy \cap Open, preferred)
  IN /\ step = "choosing" /\ tries < 2 /\ p # Nobody
     /\ step' = "critical" /\ primary' = p /\ tries' = tries + 1 /\ peers' = BuildPeerAddresses
     /\ UNCHANGED <<asked, capable, preferred, session, link, healthy, failures, told, timing,
                    queue, report>>

\* run_primary_critical succeeded: SETUP, clock identity, SETPEERS.
PrimaryReady ==
  /\ step = "critical" /\ step' = "joining"
  /\ told' = [told EXCEPT ![primary] = peers] /\ timing' = [timing EXCEPT ![primary] = Ptp(primary)]
  /\ queue' \in InputOrder({d \in ToSet(asked) : d # primary /\ link[d] = "open"})
  /\ UNCHANGED <<asked, capable, preferred, session, link, healthy, failures, primary, tries,
                 peers, report>>

\* It failed in one of its phases: the candidate is torn down, the preference
\* is dropped, everyone else stays.
PrimaryFails ==
  /\ step = "critical" /\ step' = "choosing"
  /\ \E p \in {"RtspSetup", "PrimaryTiming", "SetPeers"} :
       failures' = Append(failures, Fail(primary, p))
  /\ link' = [link EXCEPT ![primary] = "closed"] /\ healthy' = healthy \ {primary}
  /\ primary' = Nobody /\ preferred' = Nobody
  /\ UNCHANGED <<asked, capable, session, tries, peers, told, timing, queue, report>>

\* Nobody is eligible, or the fallback failed too: everything is torn down.
NoPrimary ==
  /\ step = "choosing"
  /\ tries = 2 \/ ChoosePrimary(healthy \cap Open, preferred) = Nobody
  /\ step' = "done" /\ link' = [d \in Devices |-> IF link[d] = "open" THEN "closed" ELSE link[d]]
  /\ UNCHANGED <<asked, capable, preferred, session, healthy, failures, primary, tries, peers,
                 told, timing, queue, report>>

\* Faulty: a failed SETPEERS leaves the member connected.
JoinLeaks ==
  /\ step = "joining" /\ queue # <<>> /\ queue' = Tail(queue)
  /\ LET d == Head(queue)
     IN \/ /\ told' = [told EXCEPT ![d] = peers] /\ timing' = [timing EXCEPT ![d] = Ptp(primary)]
           /\ report' = Append(report, d) /\ UNCHANGED <<link, failures>>
        \/ failures' = Append(failures, Fail(d, "SetPeers")) /\ UNCHANGED <<link, told, timing, report>>
  /\ UNCHANGED <<step, asked, capable, preferred, session, healthy, primary, tries, peers>>

\* One secondary: SETUP on the primary's clock, then SETPEERS.
Join ==
  /\ step = "joining" /\ queue # <<>> /\ queue' = Tail(queue)
  /\ LET d == Head(queue)
     IN \/ /\ told' = [told EXCEPT ![d] = peers] /\ timing' = [timing EXCEPT ![d] = Ptp(primary)]
           /\ report' = Append(report, d) /\ UNCHANGED <<link, failures>>
        \/ \E p \in {"RtspSetup", "SetPeers"} :
             /\ failures' = Append(failures, Fail(d, p))
             /\ link' = [link EXCEPT ![d] = "closed"] /\ UNCHANGED <<told, timing, report>>
  /\ UNCHANGED <<step, asked, capable, preferred, session, healthy, primary, tries, peers>>

\* The live session is stored: the primary, then the survivors in input order.
Store ==
  /\ step = "joining" /\ queue = <<>> /\ report # <<>>
  /\ step' = "done" /\ report' = <<primary>> \o report /\ session' = report'
  /\ UNCHANGED <<asked, capable, preferred, link, healthy, failures, primary, tries, peers,
                 told, timing, queue>>

\* finish_single_survivor_session: the PTP link is torn down ...
LoneSurvivor ==
  /\ step = "joining" /\ queue = <<>> /\ report = <<>>
  /\ step' = "single" /\ link' = [link EXCEPT ![primary] = "closed"]
  /\ UNCHANGED <<asked, capable, preferred, session, healthy, failures, primary, tries, peers,
                 told, timing, queue, report>>

\* ... and the device is connected again and set up over NTP, or fails.
Reconnect ==
  /\ step = "single" /\ step' = "done"
  /\ \/ /\ link' = [link EXCEPT ![primary] = "open"] /\ timing' = [timing EXCEPT ![primary] = Ntp]
        /\ report' = <<primary>> /\ session' = report' /\ UNCHANGED failures
     \/ \E p \in {"Connect", "Pair", "RtspSetup"} :
          failures' = Append(failures, Fail(primary, p)) /\ UNCHANGED <<link, timing, report, session>>
  /\ UNCHANGED <<asked, capable, preferred, healthy, primary, tries, peers, told, queue>>

GroupNext ==
  \/ Refuse \/ EndSession \/ Launch \/ (\E d \in Devices : Establish(d)) \/ Collect
  \/ Promote \/ PrimaryReady \/ PrimaryFails \/ NoPrimary
  \/ Join \/ Store \/ LoneSurvivor \/ Reconnect

\* Every request the sequence awaits has a budget of its own (ten seconds for a
\* response, five for the first clock measurement), so the call goes on.
GroupFairness == WF_groupVars(GroupNext)

----------------------------------------------------------------------------
Over == step \in {"refused", "error", "done"}
Blames(d) == {i \in DOMAIN failures : failures[i].receiver = d}

\* The state is well formed, no more than MAX_PARALLEL_SETUPS establishments are
\* under way and at most two candidates were tried.
GroupTypeOK ==
  /\ step \in {"called", "refused", "error", "connecting", "choosing", "critical", "joining",
               "single", "done"}
  /\ GroupMemberLink /\ EstablishedMember /\ GroupPrimaryTiming /\ GroupConnectReport

\* When the call is over the links that are open are exactly those of the
\* session the client holds: no path, however partial, leaves a link behind
\* that nobody will tear down.
NoLeakedLink == (step \in {"refused", "done"}) => Open = ToSet(session)

\* A report with a session accounts for every requested device: it is
\* connected, or it has exactly one failure, never both.
EveryoneAccounted ==
  (step = "done" /\ report # <<>>) =>
    \A d \in ToSet(asked) :
      Cardinality(Blames(d)) = (IF d \in ToSet(report) THEN 0 ELSE 1)

\* The members of a session share one clock: the primary's PTP domain, in which
\* the primary speaks PTP, or, for a lone receiver, NTP.
OneClock ==
  (step = "done" /\ report # <<>>) =>
    IF Len(report) = 1 THEN timing[report[1]] = Ntp
    ELSE Head(report) \in capable /\ \A d \in ToSet(report) : timing[d] = Ptp(Head(report))

\* Every member of a group knows every other member as a timing peer, and no
\* peer list names a device that never came up or that failed as primary.
PeersKnowEachOther ==
  (step = "done" /\ Len(report) > 1) =>
    \A d \in ToSet(report) :
      /\ ToSet(report) \subseteq told[d]
      /\ \A f \in ToSet(failures) :
           (f.phase \in {"Connect", "Pair", "PrimaryTiming"}) => f.receiver \notin told[d]

\* A preferred device that speaks PTP, came up and did not fail is the primary
\* of the session, whatever the input order and the order of arrival.
PreferenceHonoured ==
  (step = "done" /\ report # <<>> /\ preferred \in capable /\ preferred \in ToSet(report))
    => Head(report) = preferred

\* A call that started connecting ends: CallOpen ~> Over.
CallOpen == step = "connecting"

\* What a finished best-effort connect leaves behind.
GroupSafe ==
  /\ GroupTypeOK /\ NoLeakedLink /\ EveryoneAccounted
  /\ OneClock /\ PeersKnowEachOther /\ PreferenceHonoured
=============================================================================
