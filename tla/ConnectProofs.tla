---------------------------- MODULE ConnectProofs ----------------------------
(***************************************************************************)
(* Theorems about reaching the receivers.  GroupConnect.tla: for every     *)
(* finite set of devices, every list a caller may ask for, every session   *)
(* the client may hold and every number of parallel establishments.        *)
(* Pairing.tla: for every set of codes, every signing order and any number *)
(* of sessions and flows.                                                  *)
(***************************************************************************)
EXTENDS GroupConnect, Pairing, SequenceTheorems, FiniteSetTheorems, TLAPS

GroupSpec == GroupInit /\ [][GroupNext]_groupVars

-----------------------------------------------------------------------------
(* The inductive invariant.                                                *)

Asked == ToSet(asked)
Blamed == {failures[i].receiver : i \in DOMAIN failures}
Queued == ToSet(queue)
Joined == ToSet(report)
Under == {"connecting", "choosing", "critical", "joining", "single"}

\* The variables that GroupTypeOK says nothing of.
GroupTyped ==
  /\ step \in {"called", "refused", "error", "connecting", "choosing", "critical", "joining",
               "single", "done"}
  /\ asked \in Seq(Devices) /\ session \in Seq(Devices) /\ capable \subseteq Devices
  /\ preferred \in Devices \cup {Nobody} /\ peers \subseteq Devices
  /\ queue \in Seq(Devices) /\ report \in Seq(Devices) /\ failures \in Seq(MemberFailure)
  /\ GroupMemberLink /\ EstablishedMember /\ GroupPrimaryTiming
  /\ primary \in Devices \cup {Nobody}

\* Before the call touches anything the open links are those of the old session.
NotBegun ==
  step \in {"called", "refused"} =>
    Open = ToSet(session) /\ failures = <<>> /\ report = <<>> /\ queue = <<>>

\* A call under way holds no session and was asked for different devices; a
\* device that was not asked for has no link.
Exclusive ==
  step \in Under =>
    /\ session = <<>> /\ ~HasDuplicate
    /\ \A d \in Devices \ Asked : link[d] = "none"

\* Nobody is blamed twice, and nobody who was not asked for.
BlamedOnce ==
  /\ Blamed \subseteq Asked
  /\ \A i, j \in DOMAIN failures : failures[i].receiver = failures[j].receiver => i = j

\* Nothing is decided while the establishments run.
Undecided ==
  step = "connecting" =>
    /\ failures = <<>> /\ report = <<>> /\ queue = <<>>
    /\ \A d \in Devices : link[d] # "closed"

\* From then on a link is open or its member has been blamed.
OpenOrBlamed ==
  /\ step \in {"choosing", "critical"} =>
       /\ Open \subseteq Asked /\ Blamed = Asked \ Open /\ healthy = Open
       /\ report = <<>> /\ queue = <<>>
  /\ step \in {"joining", "single"} =>
       /\ primary \in Asked /\ primary \in capable /\ primary \notin Blamed
       /\ Open \subseteq Asked

\* A member in the primary role holds a link and speaks PTP, it is the preferred
\* one if that one could be, and the peer list names every open link and nobody
\* who did not come up or failed as a primary.
PrimaryChosen ==
  /\ step = "critical" => /\ primary \in Open /\ primary \in capable
                          /\ peers = Open
  /\ step \in {"critical", "joining"} =>
       /\ preferred \in capable \cap peers => preferred = primary
       /\ \A i \in DOMAIN failures :
            failures[i].phase \in {"Connect", "Pair", "PrimaryTiming"} =>
              failures[i].receiver \notin peers

\* While the others join, each is still queued, has joined on the primary's
\* clock, or has been blamed.
JoiningInOrder ==
  step = "joining" =>
    /\ primary \in Open /\ primary \notin Queued /\ primary \notin Joined
    /\ told[primary] = peers /\ timing[primary] = Ptp(primary)
    /\ Open = {primary} \cup Queued \cup Joined /\ Open \subseteq peers
    /\ Blamed = Asked \ Open
    /\ Queued \cap Joined = {}
    /\ \A i, j \in DOMAIN queue : queue[i] = queue[j] => i = j
    /\ \A d \in Joined : told[d] = peers /\ timing[d] = Ptp(primary)

\* A lone survivor has let go of its link.
Alone == step = "single" => Open = {} /\ report = <<>> /\ Blamed = Asked \ {primary}

\* What a finished call leaves.
Finished ==
  step = "done" =>
    /\ Open = ToSet(session)
    /\ report # <<>> => Blamed = Asked \ Joined
    /\ OneClock /\ PreferenceHonoured
    /\ Len(report) > 1 =>
         \A d \in Joined :
           /\ Joined \subseteq told[d]
           /\ \A i \in DOMAIN failures :
                failures[i].phase \in {"Connect", "Pair", "PrimaryTiming"} =>
                  failures[i].receiver \notin told[d]

GroupInv ==
  /\ GroupTyped /\ NotBegun /\ Exclusive /\ BlamedOnce /\ Undecided /\ OpenOrBlamed
  /\ PrimaryChosen /\ JoiningInOrder /\ Alone /\ Finished

-----------------------------------------------------------------------------
(* Sequences, sets and the choice of a primary.                            *)

\* A set of identities has a smallest one.
LEMMA LeastMember ==
  ASSUME NEW S \in SUBSET Nat, S # {}
  PROVE  Min(S) \in S
<1> DEFINE less == {ss \in Nat \X Nat : ss[1] < ss[2]}
<1>1. IsWellFoundedOn(less, Nat)
  BY NatLessThanWellFounded DEF OpToRel
<1> HIDE DEF less
<1>2. PICK x \in S : \A y \in S : ~(<<y, x>> \in less)
  BY <1>1, WFMin
<1>3. \A y \in S : x =< y
  <2> SUFFICES ASSUME NEW y \in S, ~(x =< y) PROVE FALSE
    OBVIOUS
  <2>1. x \in Nat /\ y \in Nat /\ y < x
    OBVIOUS
  <2>2. <<y, x>> \in less
    BY <2>1 DEF less
  <2> QED
    BY <1>2, <2>2
<1> QED
  BY <1>3 DEF Min

\* The places of a sequence are finitely many.
LEMMA Places == ASSUME NEW n \in Nat PROVE IsFiniteSet(1..n) /\ Cardinality(1..n) = n
<1>1. n \in Int /\ 1 \in Int /\ (1 > n => n = 0) /\ n - 1 + 1 = n
  OBVIOUS
<1> QED
  BY <1>1, FS_Interval

\* choose_primary names a candidate that speaks PTP, and the preferred one if it
\* is such a candidate.
LEMMA ChosenPrimary ==
  ASSUME NEW candidates \in SUBSET Devices, NEW wish,
         ChoosePrimary(candidates, wish) # Nobody
  PROVE  /\ ChoosePrimary(candidates, wish) \in candidates \cap capable
         /\ wish \in candidates \cap capable => ChoosePrimary(candidates, wish) = wish
<1> DEFINE ptp == candidates \cap capable
<1>1. CASE wish \in ptp
  BY <1>1 DEF ChoosePrimary
<1>2. CASE wish \notin ptp
  <2>1. ptp # {} /\ ChoosePrimary(candidates, wish) = Min(ptp)
    BY <1>2 DEF ChoosePrimary
  <2>2. ptp \in SUBSET Nat
    BY GroupAssumption
  <2>3. Min(ptp) \in ptp
    BY <2>1, <2>2, LeastMember
  <2> QED
    BY <1>2, <2>1, <2>3
<1> QED
  BY <1>1, <1>2

\* An arrangement of a set of devices holds each of them once.
LEMMA Arranged ==
  ASSUME NEW S \in SUBSET Devices, NEW s \in InputOrder(S)
  PROVE  /\ s \in Seq(Devices) /\ ToSet(s) = S
         /\ \A i, j \in DOMAIN s : s[i] = s[j] => i = j
<1> DEFINE n == Cardinality(S)
<1>1. IsFiniteSet(S) /\ n \in Nat
  BY GroupAssumption, FS_Subset, FS_CardinalityType
<1>2. s \in [1..n -> S] /\ \A i, j \in 1..n : i # j => s[i] # s[j]
  BY DEF InputOrder, SetToSeqs
<1>3. s \in Injection(1..n, S)
  BY <1>2 DEF Injection, IsInjective
<1>4. IsFiniteSet(1..n) /\ Cardinality(1..n) = n
  BY <1>1, Places
<1>5. s \in Surjection(1..n, S)
  BY <1>1, <1>3, <1>4, FS_Injection
<1>6. ToSet(s) = S
  BY <1>2, <1>5 DEF Surjection, ToSet
<1>7. s \in Seq(Devices)
  BY <1>1, <1>2, IsASeq
<1> QED
  BY <1>2, <1>6, <1>7

\* Taking the head off a queue of different members takes that member out.
LEMMA TailRemoves ==
  ASSUME NEW q \in Seq(Devices), q # <<>>, \A i, j \in DOMAIN q : q[i] = q[j] => i = j
  PROVE  /\ Tail(q) \in Seq(Devices) /\ Head(q) \in ToSet(q)
         /\ ToSet(Tail(q)) = ToSet(q) \ {Head(q)}
         /\ \A i, j \in DOMAIN Tail(q) : Tail(q)[i] = Tail(q)[j] => i = j
<1>1. /\ Tail(q) \in Seq(Devices) /\ Len(Tail(q)) = Len(q) - 1 /\ Head(q) = q[1]
      /\ Len(q) \in Nat \ {0} /\ DOMAIN q = 1..Len(q)
      /\ DOMAIN Tail(q) = 1..(Len(q) - 1)
  BY HeadTailProperties, LenProperties, EmptySeq
<1>2. \A i \in 1..(Len(q) - 1) : Tail(q)[i] = q[i + 1]
  BY <1>1
<1>3. Head(q) \in ToSet(q)
  BY <1>1 DEF ToSet
<1>4. ToSet(Tail(q)) \subseteq ToSet(q) \ {Head(q)}
  <2> SUFFICES ASSUME NEW i \in 1..(Len(q) - 1) PROVE Tail(q)[i] \in ToSet(q) \ {Head(q)}
    BY <1>1 DEF ToSet
  <2>1. i + 1 \in DOMAIN q /\ i + 1 # 1 /\ 1 \in DOMAIN q
    BY <1>1
  <2> QED
    BY <1>1, <1>2, <2>1 DEF ToSet
<1>5. ToSet(q) \ {Head(q)} \subseteq ToSet(Tail(q))
  <2> SUFFICES ASSUME NEW i \in DOMAIN q, q[i] # Head(q) PROVE q[i] \in ToSet(Tail(q))
    BY DEF ToSet
  <2>1. i # 1 /\ i - 1 \in 1..(Len(q) - 1)
    BY <1>1
  <2>2. Tail(q)[i - 1] = q[i]
    BY <1>1, <1>2, <2>1
  <2> QED
    BY <1>1, <2>1, <2>2 DEF ToSet
<1>6. \A i, j \in DOMAIN Tail(q) : Tail(q)[i] = Tail(q)[j] => i = j
  <2> SUFFICES ASSUME NEW i \in 1..(Len(q) - 1), NEW j \in 1..(Len(q) - 1),
                      Tail(q)[i] = Tail(q)[j]
               PROVE  i = j
    BY <1>1
  <2>1. q[i + 1] = q[j + 1] /\ i + 1 \in DOMAIN q /\ j + 1 \in DOMAIN q
    BY <1>1, <1>2
  <2> QED
    BY <1>1, <2>1
<1> QED
  BY <1>1, <1>3, <1>4, <1>5, <1>6

\* Appending a member adds it to the set.
LEMMA AppendAdds ==
  ASSUME NEW s \in Seq(Devices), NEW d \in Devices
  PROVE  Append(s, d) \in Seq(Devices) /\ ToSet(Append(s, d)) = ToSet(s) \cup {d}
<1>1. /\ Append(s, d) \in Seq(Devices) /\ Len(s) \in Nat /\ DOMAIN s = 1..Len(s)
      /\ DOMAIN Append(s, d) = 1..(Len(s) + 1)
      /\ \A i \in 1..Len(s) : Append(s, d)[i] = s[i]
      /\ Append(s, d)[Len(s) + 1] = d
  BY AppendProperties, LenProperties
<1>2. ToSet(Append(s, d)) \subseteq ToSet(s) \cup {d}
  BY <1>1 DEF ToSet
<1>3. ToSet(s) \subseteq ToSet(Append(s, d))
  BY <1>1 DEF ToSet
<1>4. d \in ToSet(Append(s, d))
  BY <1>1 DEF ToSet
<1> QED
  BY <1>1, <1>2, <1>3, <1>4

\* A member that was not blamed before is blamed once after its failure.
LEMMA BlameAdds ==
  ASSUME failures \in Seq(MemberFailure), BlamedOnce, asked' = asked,
         NEW d \in Devices, d \in Asked, d \notin Blamed, NEW p \in SetupPhase,
         failures' = Append(failures, Fail(d, p))
  PROVE  /\ failures' \in Seq(MemberFailure) /\ Blamed' = Blamed \cup {d} /\ BlamedOnce'
         /\ \A i \in DOMAIN failures' :
              failures'[i] = Fail(d, p) \/ (i \in DOMAIN failures /\ failures'[i] = failures[i])
<1> DEFINE e == Fail(d, p)
<1>0. e \in MemberFailure /\ e.receiver = d
  BY DEF Fail, MemberFailure
<1> HIDE DEF e
<1>1. /\ failures' \in Seq(MemberFailure) /\ Len(failures) \in Nat
      /\ DOMAIN failures = 1..Len(failures) /\ DOMAIN failures' = 1..(Len(failures) + 1)
      /\ \A i \in 1..Len(failures) : failures'[i] = failures[i]
      /\ failures'[Len(failures) + 1] = e
  BY <1>0, AppendProperties, LenProperties DEF e
<1>2. Blamed' \subseteq Blamed \cup {d}
  BY <1>0, <1>1 DEF Blamed
<1>3. Blamed \subseteq Blamed'
  BY <1>1 DEF Blamed
<1>4. d \in Blamed'
  BY <1>0, <1>1 DEF Blamed
<1>5. ASSUME NEW i \in DOMAIN failures', NEW j \in DOMAIN failures',
             failures'[i].receiver = failures'[j].receiver
      PROVE  i = j
  BY <1>0, <1>1, <1>5 DEF Blamed, BlamedOnce
<1>6. \A i \in DOMAIN failures' :
        failures'[i] = e \/ (i \in DOMAIN failures /\ failures'[i] = failures[i])
  BY <1>1
<1> QED
  BY <1>1, <1>2, <1>3, <1>4, <1>5, <1>6 DEF BlamedOnce, Asked, e

\* Nobody is blamed twice, so there are no more failures than devices asked for.
LEMMA FewFailures ==
  ASSUME asked \in Seq(Devices), failures \in Seq(MemberFailure), BlamedOnce
  PROVE  Len(failures) <= Len(asked)
<1> DEFINE f == [i \in 1..Len(failures) |-> failures[i].receiver]
           g == [i \in 1..Len(asked) |-> asked[i]]
<1>1. /\ Len(asked) \in Nat /\ DOMAIN asked = 1..Len(asked)
      /\ Len(failures) \in Nat /\ DOMAIN failures = 1..Len(failures)
  BY LenProperties
<1>2. g \in Surjection(1..Len(asked), Asked)
  BY <1>1 DEF Surjection, Asked, ToSet
<1>3. f \in Injection(1..Len(failures), Asked)
  BY <1>1 DEF Injection, IsInjective, BlamedOnce, Blamed
<1>i. /\ IsFiniteSet(1..Len(asked)) /\ Cardinality(1..Len(asked)) = Len(asked)
      /\ Cardinality(1..Len(failures)) = Len(failures)
  BY <1>1, Places
<1> HIDE DEF f, g
<1>4. IsFiniteSet(Asked) /\ Cardinality(Asked) <= Len(asked)
  BY <1>2, <1>i, FS_Surjection
<1>5. Len(failures) <= Cardinality(Asked)
  BY <1>3, <1>4, <1>i, FS_Injection
<1> QED
  BY <1>1, <1>4, <1>5, FS_CardinalityType

\* Putting the primary in front.
LEMMA PrependAdds ==
  ASSUME NEW s \in Seq(Devices), NEW d \in Devices
  PROVE  /\ <<d>> \o s \in Seq(Devices) /\ ToSet(<<d>> \o s) = {d} \cup ToSet(s)
         /\ Head(<<d>> \o s) = d /\ Len(<<d>> \o s) = Len(s) + 1 /\ (<<d>> \o s)[1] = d
<1> DEFINE t == <<d>> \o s
<1>0. <<d>> \in Seq(Devices) /\ Len(<<d>>) = 1 /\ <<d>>[1] = d
  OBVIOUS
<1>1. /\ t \in Seq(Devices) /\ Len(s) \in Nat /\ DOMAIN s = 1..Len(s) /\ Len(t) = 1 + Len(s)
      /\ DOMAIN t = 1..(1 + Len(s)) /\ t[1] = d
      /\ \A i \in 1..(1 + Len(s)) : i # 1 => t[i] = s[i - 1]
  BY <1>0, ConcatProperties, LenProperties
<1> HIDE DEF t
<1>2. ToSet(t) \subseteq {d} \cup ToSet(s)
  <2> SUFFICES ASSUME NEW i \in 1..(1 + Len(s)), i # 1 PROVE t[i] \in ToSet(s)
    BY <1>1 DEF ToSet
  <2>1. i - 1 \in DOMAIN s /\ t[i] = s[i - 1]
    BY <1>1
  <2> QED
    BY <2>1 DEF ToSet
<1>3. d \in ToSet(t)
  BY <1>1 DEF ToSet
<1>4. ToSet(s) \subseteq ToSet(t)
  <2> SUFFICES ASSUME NEW i \in DOMAIN s PROVE s[i] \in ToSet(t)
    BY DEF ToSet
  <2>1. i + 1 \in DOMAIN t /\ t[i + 1] = s[i]
    BY <1>1
  <2> QED
    BY <2>1 DEF ToSet
<1>5. Head(t) = d
  BY <1>1, HeadTailProperties, EmptySeq
<1> QED
  BY <1>1, <1>2, <1>3, <1>4, <1>5 DEF t

\* Establishments only end, or nothing changes: the limit holds.
LEMMA FlyingShrinks ==
  ASSUME GroupMemberLink,
         link' \in [Devices -> {"none", "flying", "open", "Connect", "Pair", "closed"}],
         \A d \in Devices : link'[d] = "flying" => link[d] = "flying"
  PROVE  GroupMemberLink'
<1> DEFINE now == {d \in Devices : link[d] = "flying"}
           nxt == {d \in Devices : link'[d] = "flying"}
<1>1. IsFiniteSet(now) /\ Cardinality(now) \in Nat /\ Cardinality(now) <= MaxParallel
  BY GroupAssumption, FS_Subset, FS_CardinalityType DEF GroupMemberLink
<1>2. nxt \in SUBSET now
  OBVIOUS
<1>3. IsFiniteSet(nxt) /\ Cardinality(nxt) <= Cardinality(now) /\ Cardinality(nxt) \in Nat
  BY <1>1, <1>2, FS_Subset, FS_CardinalityType
<1> QED
  BY <1>1, <1>3, GroupAssumption DEF GroupMemberLink

\* One more establishment while fewer than the limit are under way.
LEMMA FlyingGrows ==
  ASSUME GroupMemberLink, Cardinality({d \in Devices : link[d] = "flying"}) < MaxParallel,
         NEW e \in Devices, link' = [link EXCEPT ![e] = "flying"]
  PROVE  GroupMemberLink'
<1> DEFINE now == {d \in Devices : link[d] = "flying"}
           nxt == {d \in Devices : link'[d] = "flying"}
<1>1. IsFiniteSet(now) /\ Cardinality(now) \in Nat
  BY GroupAssumption, FS_Subset, FS_CardinalityType
<1>2. nxt = now \cup {e}
  BY DEF GroupMemberLink
<1>3. Cardinality(nxt) = IF e \in now THEN Cardinality(now) ELSE Cardinality(now) + 1
  BY <1>1, <1>2, FS_AddElement
<1> HIDE DEF now, nxt
<1>4. Cardinality(nxt) <= MaxParallel
  BY <1>1, <1>3, GroupAssumption DEF now
<1> QED
  BY <1>4 DEF GroupMemberLink, nxt

\* The empty sequence holds nobody.
LEMMA EmptyHolds ==
  /\ ToSet(<<>>) = {} /\ DOMAIN <<>> = {} /\ <<>> \in Seq(Devices)
  /\ <<>> \in Seq(MemberFailure) /\ ~(Len(<<>>) > 1)
  BY DEF ToSet

\* What failures already says of a device stays while failures stays.
LEMMA BlamedKept ==
  ASSUME BlamedOnce, UNCHANGED <<failures, asked>> PROVE BlamedOnce' /\ Blamed' = Blamed
  BY DEF BlamedOnce, Blamed, Asked

-----------------------------------------------------------------------------
(* The invariant is one.                                                   *)

LEMMA GroupInitially == GroupInit => GroupInv
<1> SUFFICES ASSUME GroupInit PROVE GroupInv
  OBVIOUS
<1> USE GroupAssumption, EmptyHolds
<1>1. /\ step = "called" /\ asked \in Seq(Devices) /\ session \in Seq(Devices)
      /\ failures = <<>> /\ report = <<>> /\ queue = <<>> /\ peers = {} /\ primary = Nobody
      /\ link = [d \in Devices |-> IF d \in ToSet(session) THEN "open" ELSE "none"]
      /\ capable \subseteq Devices /\ preferred \in Devices \cup {Nobody}
  BY DEF GroupInit
<1>2. ToSet(session) \subseteq Devices
  BY <1>1, ElementOfSeq, LenProperties DEF ToSet
<1>3. Open = ToSet(session)
  BY <1>1, <1>2 DEF Open
<1>4. GroupMemberLink
  <2>1. {d \in Devices : link[d] = "flying"} = {}
    BY <1>1
  <2>2. Cardinality({d \in Devices : link[d] = "flying"}) <= MaxParallel
    BY <2>1, FS_EmptySet
  <2> QED
    BY <1>1, <2>2 DEF GroupMemberLink
<1>5. EstablishedMember /\ GroupPrimaryTiming
  BY DEF GroupInit, EstablishedMember, GroupPrimaryTiming
<1>6. GroupTyped
  BY <1>1, <1>4, <1>5 DEF GroupTyped
<1>7. BlamedOnce
  BY <1>1 DEF BlamedOnce, Blamed
<1> QED
  BY <1>1, <1>3, <1>6, <1>7
  DEF GroupInv, NotBegun, Exclusive, Under, Undecided, OpenOrBlamed, PrimaryChosen,
      JoiningInOrder, Alone, Finished

LEMMA GroupStep == GroupInv /\ [GroupNext]_groupVars => GroupInv'
<1> SUFFICES ASSUME GroupInv, [GroupNext]_groupVars PROVE GroupInv'
  OBVIOUS
<1> USE EmptyHolds
<1>n. Nobody \notin Devices
  BY GroupAssumption DEF Nobody
<1>t. /\ GroupTyped /\ NotBegun /\ Exclusive /\ BlamedOnce /\ Undecided /\ OpenOrBlamed
      /\ PrimaryChosen /\ JoiningInOrder /\ Alone /\ Finished
  BY DEF GroupInv
<1>l. link \in [Devices -> {"none", "flying", "open", "Connect", "Pair", "closed"}]
  BY <1>t DEF GroupTyped, GroupMemberLink
<1>a. Asked \subseteq Devices /\ Open \subseteq Devices /\ Queued \subseteq Devices
      /\ Joined \subseteq Devices
  BY <1>t, ElementOfSeq, LenProperties DEF GroupTyped, Asked, Open, Queued, Joined, ToSet
<1>1. CASE Refuse
  <2>1. step' = "refused" /\ step = "called"
        /\ UNCHANGED <<asked, capable, preferred, session, link, healthy, failures, primary,
                       tries, peers, told, timing, queue, report>>
    BY <1>1 DEF Refuse
  <2>2. GroupTyped' /\ BlamedOnce'
    BY <1>t, <2>1, BlamedKept
    DEF GroupTyped, GroupMemberLink, EstablishedMember, GroupPrimaryTiming
  <2>3. NotBegun'
    BY <1>t, <2>1 DEF NotBegun, Open
  <2> QED
    BY <2>1, <2>2, <2>3
    DEF GroupInv, Exclusive, Under, Undecided, OpenOrBlamed, PrimaryChosen, JoiningInOrder,
        Alone, Finished
<1>2. CASE EndSession
  <2>1. /\ step = "called" /\ ~HasDuplicate /\ link' = [d \in Devices |-> "none"]
        /\ \/ step' = "connecting" /\ session' = <<>>
           \/ step' = "error" /\ session # <<>> /\ session' = <<Head(session)>>
        /\ UNCHANGED <<asked, capable, preferred, healthy, failures, primary, tries, peers,
                       told, timing, queue, report>>
    BY <1>2 DEF EndSession
  <2>2. GroupMemberLink'
    BY <1>t, <2>1, FlyingShrinks DEF GroupTyped
  <2>3. session' \in Seq(Devices)
    <3>1. session # <<>> => Head(session) \in Devices
      BY <1>t, HeadTailProperties DEF GroupTyped
    <3>2. \A x \in Devices : <<x>> \in Seq(Devices)
      OBVIOUS
    <3> QED
      BY <2>1, <3>1, <3>2
  <2>4. GroupTyped' /\ BlamedOnce'
    BY <1>t, <2>1, <2>2, <2>3, BlamedKept
    DEF GroupTyped, EstablishedMember, GroupPrimaryTiming
  <2>5. Exclusive' /\ Undecided'
    BY <1>t, <2>1 DEF NotBegun, Exclusive, Under, Undecided, HasDuplicate
  <2> QED
    BY <2>1, <2>4, <2>5
    DEF GroupInv, NotBegun, OpenOrBlamed, PrimaryChosen, JoiningInOrder, Alone, Finished
<1>3. CASE Launch
  <2>1. PICK i \in DOMAIN asked : link' = [link EXCEPT ![asked[i]] = "flying"]
    BY <1>3 DEF Launch
  <2>2. /\ step = "connecting"
        /\ Cardinality({d \in Devices : link[d] = "flying"}) < MaxParallel
        /\ UNCHANGED <<step, asked, capable, preferred, session, healthy, failures, primary,
                       tries, peers, told, timing, queue, report>>
    BY <1>3 DEF Launch
  <2>3. asked[i] \in Asked /\ asked[i] \in Devices
    BY <1>a DEF Asked, ToSet
  <2>4. GroupMemberLink'
    BY <1>t, <2>1, <2>2, <2>3, FlyingGrows DEF GroupTyped
  <2>5. GroupTyped' /\ BlamedOnce'
    BY <1>t, <2>2, <2>4, BlamedKept DEF GroupTyped, EstablishedMember, GroupPrimaryTiming
  <2>6. Exclusive' /\ Undecided'
    BY <1>t, <1>l, <2>1, <2>2, <2>3 DEF Exclusive, Under, Undecided, HasDuplicate, Asked
  <2> QED
    BY <2>2, <2>5, <2>6
    DEF GroupInv, NotBegun, OpenOrBlamed, PrimaryChosen, JoiningInOrder, Alone, Finished
<1>4. ASSUME NEW e \in Devices, Establish(e) PROVE GroupInv'
  <2>1. PICK o \in {"open", "Connect", "Pair"} : link' = [link EXCEPT ![e] = o]
    BY <1>4 DEF Establish
  <2>2. /\ step = "connecting" /\ link[e] = "flying"
        /\ UNCHANGED <<step, asked, capable, preferred, session, healthy, failures, primary,
                       tries, peers, told, timing, queue, report>>
    BY <1>4 DEF Establish
  <2>3. e \in Asked
    BY <1>t, <2>2 DEF Exclusive, Under
  <2>4. GroupMemberLink'
    BY <1>t, <1>l, <2>1, FlyingShrinks DEF GroupTyped
  <2>5. GroupTyped' /\ BlamedOnce'
    BY <1>t, <2>2, <2>4, BlamedKept DEF GroupTyped, EstablishedMember, GroupPrimaryTiming
  <2>6. Exclusive' /\ Undecided'
    BY <1>t, <1>l, <2>1, <2>2, <2>3 DEF Exclusive, Under, Undecided, HasDuplicate, Asked
  <2> QED
    BY <2>2, <2>5, <2>6
    DEF GroupInv, NotBegun, OpenOrBlamed, PrimaryChosen, JoiningInOrder, Alone, Finished
<1>5. CASE Collect
  <2> DEFINE lost == {d \in Asked : link[d] # "open"}
  <2>1. PICK down \in InputOrder(lost) :
          failures' = [i \in DOMAIN down |-> Fail(down[i], link[down[i]])]
    BY <1>5 DEF Collect, Asked
  <2>2. /\ step = "connecting" /\ step' = "choosing" /\ healthy' = Open
        /\ \A d \in Asked : link[d] \notin {"none", "flying"}
        /\ UNCHANGED <<asked, capable, preferred, session, link, primary, tries, peers, told,
                       timing, queue, report>>
    BY <1>5 DEF Collect, Asked
  <2>3. /\ down \in Seq(Devices) /\ ToSet(down) = lost
        /\ \A i, j \in DOMAIN down : down[i] = down[j] => i = j
    BY <1>a, Arranged
  <2>4. \A i \in DOMAIN down : down[i] \in lost /\ down[i] \in Devices
    BY <1>a, <2>3 DEF ToSet
  <2>5. \A i \in DOMAIN down : link[down[i]] \in {"Connect", "Pair"}
    BY <1>t, <1>l, <2>2, <2>4 DEF Undecided
  <2>6. /\ DOMAIN failures' = DOMAIN down
        /\ \A i \in DOMAIN down : failures'[i] \in MemberFailure
                                  /\ failures'[i].receiver = down[i]
    BY <2>1, <2>4, <2>5 DEF Fail, MemberFailure, SetupPhase
  <2>7. failures' \in Seq(MemberFailure)
    <3>1. Len(down) \in Nat /\ DOMAIN down = 1..Len(down)
      BY <2>3, LenProperties
    <3>2. failures' \in [1..Len(down) -> MemberFailure]
      BY <2>1, <2>6, <3>1
    <3> QED
      BY <3>1, <3>2, IsASeq
  <2>8. Blamed' = lost
    BY <2>3, <2>6 DEF Blamed, ToSet
  <2>9. BlamedOnce'
    BY <2>2, <2>3, <2>6, <2>8 DEF BlamedOnce, Asked
  <2>10. Open \subseteq Asked /\ Open' = Open /\ lost = Asked \ Open
    BY <1>t, <1>a, <2>2 DEF Open, Exclusive, Under
  <2>11. GroupTyped'
    BY <1>t, <1>a, <2>2, <2>7
    DEF GroupTyped, GroupMemberLink, EstablishedMember, GroupPrimaryTiming
  <2>12. Exclusive'
    BY <1>t, <2>2 DEF Exclusive, Under, HasDuplicate, Asked
  <2>13. OpenOrBlamed'
    BY <1>t, <2>2, <2>8, <2>10 DEF OpenOrBlamed, Undecided, Asked
  <2> QED
    BY <2>2, <2>9, <2>11, <2>12, <2>13
    DEF GroupInv, NotBegun, Undecided, PrimaryChosen, JoiningInOrder, Alone, Finished
<1>6. CASE Promote
  <2> DEFINE p == ChoosePrimary(healthy \cap Open, preferred)
  <2>1. /\ step = "choosing" /\ tries < 2 /\ p # Nobody
        /\ step' = "critical" /\ primary' = p /\ tries' = tries + 1 /\ peers' = Open
        /\ UNCHANGED <<asked, capable, preferred, session, link, healthy, failures, told,
                       timing, queue, report>>
    BY <1>6 DEF Promote, BuildPeerAddresses
  <2>2. healthy \cap Open = Open /\ Open' = Open /\ Blamed = Asked \ Open
    BY <1>t, <2>1 DEF OpenOrBlamed, Open
  <2>3. p \in Open \cap capable /\ (preferred \in Open \cap capable => p = preferred)
    BY <1>a, <2>1, <2>2, ChosenPrimary
  <2> HIDE DEF p
  <2>4. GroupTyped' /\ BlamedOnce' /\ Blamed' = Blamed
    BY <1>t, <1>a, <2>1, <2>3, BlamedKept
    DEF GroupTyped, GroupMemberLink, EstablishedMember, GroupPrimaryTiming
  <2>5. Exclusive' /\ OpenOrBlamed'
    BY <1>t, <2>1, <2>2, <2>4 DEF Exclusive, Under, HasDuplicate, Asked, OpenOrBlamed
  <2>6. \A i \in DOMAIN failures : failures[i].receiver \notin Open
    BY <2>2 DEF Blamed
  <2>7. PrimaryChosen'
    BY <2>1, <2>2, <2>3, <2>6 DEF PrimaryChosen
  <2> QED
    BY <2>1, <2>4, <2>5, <2>7
    DEF GroupInv, NotBegun, Undecided, JoiningInOrder, Alone, Finished
<1>7. CASE PrimaryReady
  <2> DEFINE others == {d \in Asked : d # primary /\ link[d] = "open"}
  <2>1. /\ step = "critical" /\ step' = "joining"
        /\ told' = [told EXCEPT ![primary] = peers]
        /\ timing' = [timing EXCEPT ![primary] = Ptp(primary)]
        /\ queue' \in InputOrder(others)
        /\ UNCHANGED <<asked, capable, preferred, session, link, healthy, failures, primary,
                       tries, peers, report>>
    BY <1>7 DEF PrimaryReady, Asked
  <2>2. /\ queue' \in Seq(Devices) /\ Queued' = others
        /\ \A i, j \in DOMAIN queue' : queue'[i] = queue'[j] => i = j
    BY <1>a, <2>1, Arranged DEF Queued
  <2>3. /\ primary \in Open /\ primary \in capable /\ primary \in Devices /\ peers = Open
        /\ Open \subseteq Asked /\ Blamed = Asked \ Open /\ Open' = Open /\ report = <<>>
    BY <1>t, <1>a, <2>1 DEF PrimaryChosen, OpenOrBlamed, Open
  <2>4. Joined' = {} /\ Open = {primary} \cup Queued'
    BY <1>a, <2>1, <2>2, <2>3 DEF Joined, Open
  <2>5. told'[primary] = peers /\ timing'[primary] = Ptp(primary)
        /\ GroupPrimaryTiming'
    BY <1>t, <2>1, <2>3 DEF GroupTyped, GroupPrimaryTiming
  <2>6. GroupTyped' /\ BlamedOnce' /\ Blamed' = Blamed
    BY <1>t, <2>1, <2>2, <2>5, BlamedKept DEF GroupTyped, GroupMemberLink, EstablishedMember
  <2>7. Exclusive' /\ OpenOrBlamed'
    BY <1>t, <2>1, <2>3, <2>6 DEF Exclusive, Under, HasDuplicate, Asked, OpenOrBlamed
  <2>8. PrimaryChosen'
    BY <1>t, <2>1 DEF PrimaryChosen
  <2>9. primary \notin Queued'
    BY <2>2
  <2> HIDE DEF others
  <2>10. JoiningInOrder'
    BY <2>1, <2>2, <2>3, <2>4, <2>5, <2>6, <2>9 DEF JoiningInOrder, Asked
  <2> QED
    BY <2>1, <2>6, <2>7, <2>8, <2>10 DEF GroupInv, NotBegun, Undecided, Alone, Finished
<1>8. CASE PrimaryFails
  <2>1. PICK p \in {"RtspSetup", "PrimaryTiming", "SetPeers"} :
          failures' = Append(failures, Fail(primary, p))
    BY <1>8 DEF PrimaryFails
  <2>2. /\ step = "critical" /\ step' = "choosing"
        /\ link' = [link EXCEPT ![primary] = "closed"] /\ healthy' = healthy \ {primary}
        /\ primary' = Nobody /\ preferred' = Nobody
        /\ UNCHANGED <<asked, capable, session, tries, peers, told, timing, queue, report>>
    BY <1>8 DEF PrimaryFails
  <2>3. /\ primary \in Open /\ Open \subseteq Asked /\ Blamed = Asked \ Open /\ healthy = Open
        /\ primary \in Devices /\ report = <<>> /\ queue = <<>>
    BY <1>t, <1>a, <2>2 DEF PrimaryChosen, OpenOrBlamed
  <2>4. failures' \in Seq(MemberFailure) /\ Blamed' = Blamed \cup {primary} /\ BlamedOnce'
    BY <1>t, <2>1, <2>2, <2>3, BlameAdds DEF GroupTyped, SetupPhase
  <2>5. Open' = Open \ {primary}
    BY <1>l, <2>2, <2>3 DEF Open
  <2>6. GroupMemberLink'
    BY <1>t, <1>l, <2>2, FlyingShrinks DEF GroupTyped
  <2>7. GroupTyped'
    BY <1>t, <2>2, <2>4, <2>6 DEF GroupTyped, EstablishedMember, GroupPrimaryTiming
  <2>8. Exclusive'
    BY <1>t, <1>l, <2>2, <2>3 DEF Exclusive, Under, HasDuplicate, Asked
  <2>9. OpenOrBlamed'
    BY <2>2, <2>3, <2>4, <2>5 DEF OpenOrBlamed, Asked
  <2> QED
    BY <2>2, <2>4, <2>7, <2>8, <2>9
    DEF GroupInv, NotBegun, Undecided, PrimaryChosen, JoiningInOrder, Alone, Finished
<1>9. CASE NoPrimary
  <2>1. /\ step = "choosing" /\ step' = "done"
        /\ link' = [d \in Devices |-> IF link[d] = "open" THEN "closed" ELSE link[d]]
        /\ UNCHANGED <<asked, capable, preferred, session, healthy, failures, primary, tries,
                       peers, told, timing, queue, report>>
    BY <1>9 DEF NoPrimary
  <2>2. Open' = {} /\ session = <<>> /\ report = <<>>
    BY <1>t, <2>1 DEF Open, Exclusive, Under, OpenOrBlamed
  <2>3. GroupMemberLink'
    BY <1>t, <1>l, <2>1, FlyingShrinks DEF GroupTyped
  <2>4. GroupTyped' /\ BlamedOnce'
    BY <1>t, <2>1, <2>3, BlamedKept DEF GroupTyped, EstablishedMember, GroupPrimaryTiming
  <2>5. Finished'
    BY <2>1, <2>2 DEF Finished, OneClock, PreferenceHonoured
  <2> QED
    BY <2>1, <2>4, <2>5
    DEF GroupInv, NotBegun, Exclusive, Under, Undecided, OpenOrBlamed, PrimaryChosen,
        JoiningInOrder, Alone
<1>10. CASE Join
  <2> DEFINE d == Head(queue)
  <2>1. /\ step = "joining" /\ queue # <<>> /\ queue' = Tail(queue)
        /\ UNCHANGED <<step, asked, capable, preferred, session, healthy, primary, tries, peers>>
    BY <1>10 DEF Join
  <2>2. /\ primary \in Open /\ primary \notin Queued /\ primary \notin Joined
        /\ told[primary] = peers /\ timing[primary] = Ptp(primary)
        /\ Open = {primary} \cup Queued \cup Joined /\ Open \subseteq peers
        /\ Blamed = Asked \ Open /\ Queued \cap Joined = {}
        /\ \A i, j \in DOMAIN queue : queue[i] = queue[j] => i = j
        /\ \A e \in Joined : told[e] = peers /\ timing[e] = Ptp(primary)
        /\ primary \in Asked /\ primary \in capable /\ Open \subseteq Asked
    BY <1>t, <2>1 DEF JoiningInOrder, OpenOrBlamed
  <2>3. /\ queue' \in Seq(Devices) /\ d \in Queued /\ Queued' = Queued \ {d}
        /\ \A i, j \in DOMAIN queue' : queue'[i] = queue'[j] => i = j
    BY <1>t, <2>1, <2>2, TailRemoves DEF GroupTyped, Queued
  <2>4. d \in Devices /\ d \in Open /\ d \in Asked /\ d # primary /\ d \notin Joined
        /\ d \notin Blamed /\ primary \in Devices
    BY <1>a, <2>2, <2>3
  <2> HIDE DEF d
  <2>5. CASE /\ told' = [told EXCEPT ![d] = peers] /\ timing' = [timing EXCEPT ![d] = Ptp(primary)]
             /\ report' = Append(report, d) /\ UNCHANGED <<link, failures>>
    <3>1. report' \in Seq(Devices) /\ Joined' = Joined \cup {d}
      BY <1>t, <2>4, <2>5, AppendAdds DEF GroupTyped, Joined
    <3>2. GroupPrimaryTiming'
      BY <1>t, <2>4, <2>5 DEF GroupTyped, GroupPrimaryTiming
    <3>3. GroupTyped' /\ BlamedOnce' /\ Blamed' = Blamed /\ Open' = Open
      BY <1>t, <2>1, <2>3, <2>5, <3>1, <3>2, BlamedKept
      DEF GroupTyped, GroupMemberLink, EstablishedMember, Open
    <3>4. Exclusive' /\ OpenOrBlamed'
      BY <1>t, <2>1, <2>2, <2>5, <3>3 DEF Exclusive, Under, HasDuplicate, Asked, OpenOrBlamed
    <3>5. PrimaryChosen'
      BY <1>t, <2>1, <2>5 DEF PrimaryChosen
    <3>6. /\ told'[d] = peers /\ timing'[d] = Ptp(primary)
          /\ \A e \in Devices : e # d => told'[e] = told[e] /\ timing'[e] = timing[e]
      BY <1>t, <2>4, <2>5 DEF GroupTyped, GroupPrimaryTiming
    <3>7. JoiningInOrder'
      BY <1>a, <2>1, <2>2, <2>3, <2>4, <3>1, <3>3, <3>6 DEF JoiningInOrder, Asked
    <3> QED
      BY <2>1, <3>3, <3>4, <3>5, <3>7 DEF GroupInv, NotBegun, Undecided, Alone, Finished
  <2>6. ASSUME NEW p \in {"RtspSetup", "SetPeers"}, failures' = Append(failures, Fail(d, p)),
               link' = [link EXCEPT ![d] = "closed"], UNCHANGED <<told, timing, report>>
        PROVE  GroupInv'
    <3>1. /\ failures' \in Seq(MemberFailure) /\ Blamed' = Blamed \cup {d} /\ BlamedOnce'
          /\ \A i \in DOMAIN failures' :
               failures'[i] = Fail(d, p) \/ (i \in DOMAIN failures /\ failures'[i] = failures[i])
      BY <1>t, <2>1, <2>4, <2>6, BlameAdds DEF GroupTyped, SetupPhase
    <3>2. Open' = Open \ {d} /\ Joined' = Joined
      BY <1>l, <2>4, <2>6 DEF Open, Joined
    <3>3. GroupMemberLink'
      BY <1>t, <1>l, <2>6, FlyingShrinks DEF GroupTyped
    <3>4. GroupTyped'
      BY <1>t, <2>1, <2>3, <2>6, <3>1, <3>3 DEF GroupTyped, EstablishedMember, GroupPrimaryTiming
    <3>5. Exclusive'
      BY <1>t, <1>l, <2>1, <2>4, <2>6 DEF Exclusive, Under, HasDuplicate, Asked
    <3>6. OpenOrBlamed'
      BY <2>1, <2>2, <2>4, <3>1, <3>2 DEF OpenOrBlamed, Asked
    <3>7. Fail(d, p).phase \notin {"Connect", "Pair", "PrimaryTiming"}
      BY DEF Fail
    <3>8. PrimaryChosen'
      BY <1>t, <2>1, <3>1, <3>7 DEF PrimaryChosen
    <3>9. JoiningInOrder'
      BY <2>1, <2>2, <2>3, <2>4, <2>6, <3>1, <3>2 DEF JoiningInOrder, Asked
    <3> QED
      BY <2>1, <3>1, <3>4, <3>5, <3>6, <3>8, <3>9
      DEF GroupInv, NotBegun, Undecided, Alone, Finished
  <2> QED
    BY <1>10, <2>5, <2>6 DEF Join, d
<1>11. CASE Store
  <2>1. /\ step = "joining" /\ queue = <<>> /\ report # <<>>
        /\ step' = "done" /\ report' = <<primary>> \o report /\ session' = report'
        /\ UNCHANGED <<asked, capable, preferred, link, healthy, failures, primary, tries,
                       peers, told, timing, queue>>
    BY <1>11 DEF Store
  <2>2. /\ primary \in Open /\ told[primary] = peers /\ timing[primary] = Ptp(primary)
        /\ Open = {primary} \cup Joined /\ Open \subseteq peers /\ Blamed = Asked \ Open
        /\ \A e \in Joined : told[e] = peers /\ timing[e] = Ptp(primary)
        /\ primary \in capable /\ primary \in Devices
    BY <1>t, <1>a, <2>1 DEF JoiningInOrder, OpenOrBlamed, Queued
  <2>3. /\ report' \in Seq(Devices) /\ Joined' = {primary} \cup Joined
        /\ Head(report') = primary /\ Len(report') = Len(report) + 1
        /\ Len(report) \in Nat /\ Len(report) # 0
    BY <1>t, <2>1, <2>2, PrependAdds, LenProperties, EmptySeq DEF GroupTyped, Joined
  <2>4. GroupTyped' /\ BlamedOnce' /\ Blamed' = Blamed /\ Open' = Open
    BY <1>t, <2>1, <2>3, BlamedKept
    DEF GroupTyped, GroupMemberLink, EstablishedMember, GroupPrimaryTiming, Open
  <2>5. OneClock'
    BY <2>1, <2>2, <2>3 DEF OneClock, Joined
  <2>6. PreferenceHonoured'
    BY <1>t, <2>1, <2>2, <2>3 DEF PreferenceHonoured, PrimaryChosen, Joined
  <2>7. \A i \in DOMAIN failures :
          failures[i].phase \in {"Connect", "Pair", "PrimaryTiming"} =>
            failures[i].receiver \notin peers
    BY <1>t, <2>1 DEF PrimaryChosen
  <2>8. \A e \in Joined' : told[e] = peers
    BY <2>2, <2>3
  <2>9. Finished'
    BY <2>1, <2>2, <2>3, <2>4, <2>5, <2>6, <2>7, <2>8 DEF Finished, Joined, Asked
  <2> QED
    BY <2>1, <2>4, <2>9
    DEF GroupInv, NotBegun, Exclusive, Under, Undecided, OpenOrBlamed, PrimaryChosen,
        JoiningInOrder, Alone
<1>12. CASE LoneSurvivor
  <2>1. /\ step = "joining" /\ queue = <<>> /\ report = <<>>
        /\ step' = "single" /\ link' = [link EXCEPT ![primary] = "closed"]
        /\ UNCHANGED <<asked, capable, preferred, session, healthy, failures, primary, tries,
                       peers, told, timing, queue, report>>
    BY <1>12 DEF LoneSurvivor
  <2>2. /\ Open = {primary} /\ Blamed = Asked \ Open /\ primary \in Asked
        /\ primary \in capable /\ primary \notin Blamed /\ primary \in Devices
    BY <1>t, <1>a, <2>1 DEF JoiningInOrder, OpenOrBlamed, Queued, Joined
  <2>3. Open' = {}
    BY <1>l, <2>1, <2>2 DEF Open
  <2>4. GroupMemberLink'
    BY <1>t, <1>l, <2>1, FlyingShrinks DEF GroupTyped
  <2>5. GroupTyped' /\ BlamedOnce' /\ Blamed' = Blamed
    BY <1>t, <2>1, <2>4, BlamedKept DEF GroupTyped, EstablishedMember, GroupPrimaryTiming
  <2>6. Exclusive'
    BY <1>t, <1>l, <2>1, <2>2 DEF Exclusive, Under, HasDuplicate, Asked
  <2>7. OpenOrBlamed' /\ Alone'
    BY <2>1, <2>2, <2>3, <2>5 DEF OpenOrBlamed, Alone, Asked
  <2> QED
    BY <2>1, <2>5, <2>6, <2>7
    DEF GroupInv, NotBegun, Undecided, PrimaryChosen, JoiningInOrder, Finished
<1>13. CASE Reconnect
  <2>1. /\ step = "single" /\ step' = "done"
        /\ UNCHANGED <<asked, capable, preferred, healthy, primary, tries, peers, told, queue>>
    BY <1>13 DEF Reconnect
  <2>2. /\ Open = {} /\ report = <<>> /\ session = <<>> /\ Blamed = Asked \ {primary}
        /\ primary \in Asked /\ primary \notin Blamed /\ primary \in Devices
    BY <1>t, <1>a, <2>1 DEF Alone, OpenOrBlamed, Exclusive, Under
  <2>3. CASE /\ link' = [link EXCEPT ![primary] = "open"]
             /\ timing' = [timing EXCEPT ![primary] = Ntp]
             /\ report' = <<primary>> /\ session' = report' /\ UNCHANGED failures
    <3>1. /\ report' \in Seq(Devices) /\ Len(report') = 1 /\ report'[1] = primary
          /\ Head(report') = primary /\ ToSet(report') = {primary}
      BY <2>2, <2>3 DEF ToSet
    <3>2. Open' = {primary}
      BY <1>l, <2>2, <2>3 DEF Open
    <3>3. GroupMemberLink'
      BY <1>t, <1>l, <2>3, FlyingShrinks DEF GroupTyped
    <3>4. GroupPrimaryTiming' /\ timing'[primary] = Ntp
      BY <1>t, <2>1, <2>2, <2>3 DEF GroupTyped, GroupPrimaryTiming
    <3>5. GroupTyped' /\ BlamedOnce' /\ Blamed' = Blamed
      BY <1>t, <2>1, <2>3, <3>1, <3>3, <3>4, BlamedKept DEF GroupTyped, EstablishedMember
    <3>6. OneClock' /\ PreferenceHonoured'
      BY <2>1, <3>1, <3>4 DEF OneClock, PreferenceHonoured
    <3>7. Finished'
      BY <2>1, <2>2, <2>3, <3>1, <3>2, <3>5, <3>6 DEF Finished, Joined, Asked
    <3> QED
      BY <2>1, <3>5, <3>7
      DEF GroupInv, NotBegun, Exclusive, Under, Undecided, OpenOrBlamed, PrimaryChosen,
          JoiningInOrder, Alone
  <2>4. ASSUME NEW p \in {"Connect", "Pair", "RtspSetup"},
               failures' = Append(failures, Fail(primary, p)),
               UNCHANGED <<link, timing, report, session>>
        PROVE  GroupInv'
    <3>1. failures' \in Seq(MemberFailure) /\ BlamedOnce'
      BY <1>t, <2>1, <2>2, <2>4, BlameAdds DEF GroupTyped, SetupPhase
    <3>2. GroupTyped' /\ Open' = Open
      BY <1>t, <2>1, <2>4, <3>1
      DEF GroupTyped, GroupMemberLink, EstablishedMember, GroupPrimaryTiming, Open
    <3>3. Finished'
      BY <2>1, <2>2, <2>4, <3>2 DEF Finished, OneClock, PreferenceHonoured
    <3> QED
      BY <2>1, <3>1, <3>2, <3>3
      DEF GroupInv, NotBegun, Exclusive, Under, Undecided, OpenOrBlamed, PrimaryChosen,
          JoiningInOrder, Alone
  <2> QED
    BY <1>13, <2>3, <2>4 DEF Reconnect
<1>14. CASE UNCHANGED groupVars
  <2>1. UNCHANGED <<step, asked, capable, preferred, session, link, healthy, failures, primary,
                    tries, peers, told, timing, queue, report>>
    BY <1>14 DEF groupVars
  <2>2. /\ Open' = Open /\ Asked' = Asked /\ Blamed' = Blamed /\ Queued' = Queued
        /\ Joined' = Joined /\ HasDuplicate' = HasDuplicate
    BY <2>1 DEF Open, Asked, Blamed, Queued, Joined, HasDuplicate
  <2>3. GroupTyped' /\ NotBegun' /\ Exclusive' /\ BlamedOnce' /\ Undecided'
    BY <1>t, <2>1, <2>2
    DEF GroupTyped, GroupMemberLink, EstablishedMember, GroupPrimaryTiming, NotBegun,
        Exclusive, Under, BlamedOnce, Undecided
  <2>4. OpenOrBlamed' /\ PrimaryChosen' /\ JoiningInOrder' /\ Alone'
    BY <1>t, <2>1, <2>2 DEF OpenOrBlamed, PrimaryChosen, JoiningInOrder, Alone
  <2>5. Finished'
    BY <1>t, <2>1, <2>2 DEF Finished, OneClock, PreferenceHonoured
  <2> QED
    BY <2>3, <2>4, <2>5 DEF GroupInv
<1> QED
  BY <1>1, <1>2, <1>3, <1>4, <1>5, <1>6, <1>7, <1>8, <1>9, <1>10, <1>11, <1>12, <1>13, <1>14
  DEF GroupNext

-----------------------------------------------------------------------------
\* A finished call accounts for every device it was asked for.
LEMMA AllAccounted == GroupInv => EveryoneAccounted
<1> SUFFICES ASSUME GroupInv, step = "done", report # <<>>, NEW d \in ToSet(asked)
             PROVE  Cardinality(Blames(d)) = (IF d \in ToSet(report) THEN 0 ELSE 1)
  BY DEF EveryoneAccounted
<1>1. Blamed = Asked \ Joined /\ BlamedOnce
  BY DEF GroupInv, Finished
<1>2. CASE d \in ToSet(report)
  <2>1. Blames(d) = {}
    BY <1>1, <1>2 DEF Blames, Blamed, Joined
  <2> QED
    BY <1>2, <2>1, FS_EmptySet
<1>3. CASE d \notin ToSet(report)
  <2>1. PICK i \in DOMAIN failures : failures[i].receiver = d
    BY <1>1, <1>3 DEF Blamed, Asked, Joined
  <2>2. Blames(d) = {i}
    BY <1>1, <2>1 DEF Blames, BlamedOnce
  <2> QED
    BY <1>3, <2>2, FS_Singleton
<1> QED
  BY <1>2, <1>3

\* connect_group_best_effort, whatever fails and in whatever order the members
\* arrive: when the call is over the open links are those of the session it
\* leaves, every requested device joined or has one failure, the members share
\* one clock and know each other as peers, and a preferred device that can be
\* the primary is.
THEOREM GroupCallSound == GroupSpec => []GroupSafe
<1>1. GroupInv => GroupSafe
  <2> SUFFICES ASSUME GroupInv PROVE GroupSafe
    OBVIOUS
  <2>1. GroupConnectReport
    <3>1. ToSet(report) \subseteq Devices
      BY ElementOfSeq, LenProperties DEF GroupInv, GroupTyped, ToSet
    <3>2. \A i \in DOMAIN failures : failures[i] \in MemberFailure
      BY ElementOfSeq, LenProperties DEF GroupInv, GroupTyped
    <3>3. Len(failures) <= Len(asked)
      BY FewFailures DEF GroupInv, GroupTyped
    <3> QED
      BY <3>1, <3>2, <3>3 DEF GroupInv, GroupTyped, GroupConnectReport
  <2>2. GroupTypeOK
    BY <2>1 DEF GroupInv, GroupTyped, GroupTypeOK
  <2>3. NoLeakedLink
    BY DEF GroupInv, NotBegun, Finished, NoLeakedLink
  <2>4. OneClock /\ PreferenceHonoured
    BY DEF GroupInv, Finished, OneClock, PreferenceHonoured
  <2>5. PeersKnowEachOther
    BY DEF GroupInv, Finished, PeersKnowEachOther, Joined, ToSet
  <2> QED
    BY <2>2, <2>3, <2>4, <2>5, AllAccounted DEF GroupSafe
<1> QED
  BY <1>1, GroupInitially, GroupStep, PTL DEF GroupSpec

-----------------------------------------------------------------------------
(* What travels and what the machines hold.                                *)

OrderNames == {Orders[i] : i \in DOMAIN Orders}
Secrets == {<<>>} \cup (Pins \X Nat \X Nat) \cup (Nat \X Nat)
Messages == [proto : {"none", "setup", "verify", "fairplay"}, n : Nat, c : Nat, s : Nat, mac : Secrets,
             order : OrderNames \cup {"none"}]
SetupMachine == [st : PairSetupState, pin : Pins, transient : BOOLEAN, c : Nat, proof : Secrets]
VerifyMachine == [st : PairVerifyState, c : Nat, s : Nat, secret : Secrets, known : BOOLEAN, order : OrderNames]
FairPlayMachine == [st : FairPlayState]
Stages == {"NotStarted", "WaitingM2", "WaitingM4", "WaitingM6", "Complete"}

\* A failed machine leaves its session waiting; any other is where the stage says.
FailedWaits(m, stg) == m.st = "Failed" /\ stg \in {"WaitingM2", "WaitingM4", "WaitingM6"}

\* A pair-setup holds the proof of its own pin from M3 on, and past M4 one the
\* receiver agreed to.
SetupOK(f, m, stg, agreed) ==
  /\ m \in SetupMachine /\ (f = "transient" => m.transient)
  /\ \/ FailedWaits(m, stg)
     \/ stg = "WaitingM2" /\ m.st = "M1Sent"
     \/ stg = "WaitingM4" /\ m.st = "M3Sent"
     \/ stg = "WaitingM6" /\ m.st = "M5Sent"
     \/ stg = "Complete" /\ m.st = "Complete"
  /\ m.st \in {"M3Sent", "M5Sent", "Complete"} => \E s \in Nat : m.proof = SrpSecret(m.pin, m.c, s)
  /\ m.st \in {"M5Sent", "Complete"} => m.proof \in agreed /\ m.pin = RightPin

\* A pair-verify that knows the receiver signs in the receiver's order.
VerifyOK(m, stg, order) ==
  /\ m \in VerifyMachine
  /\ \/ FailedWaits(m, stg)
     \/ stg = "WaitingM2" /\ m.st = "M1Sent"
     \/ stg = "WaitingM4" /\ m.st = "M3Sent"
     \/ stg = "Complete" /\ m.st = "Complete"
  /\ m.st \in {"M3Sent", "Complete"} /\ m.known => m.order = order

FairPlayOK(m, stg) ==
  /\ m \in FairPlayMachine
  /\ \/ FailedWaits(m, stg)
     \/ stg = "WaitingM2" /\ m.st = "Phase1Sent"
     \/ stg = "WaitingM4" /\ m.st = "Phase3Sent"
     \/ stg = "Complete" /\ m.st = "Complete"

MachineOK(f, m, stg, agreed, order) ==
  /\ f \in {"setup", "transient"} => SetupOK(f, m, stg, agreed)
  /\ f = "verify" => VerifyOK(m, stg, order)
  /\ f = "fairplay" => FairPlayOK(m, stg)
FlowOK(f, m, stg, agreed, order) ==
  \/ m = NoMachine /\ stg = "NotStarted"
  \/ MachineOK(f, m, stg, agreed, order)

\* What an answer of the receiver vouches for.
ReplyOK(r, agreed, order) ==
  /\ r \in Messages
  /\ r.proto = "setup" /\ r.n = 4 => r.mac \in agreed /\ \E c, s \in Nat : r.mac = SrpSecret(RightPin, c, s)
  /\ r.proto = "verify" /\ r.n = 2 => r.order = order

\* The client's proof travels only after the receiver has chosen a key.
AnswersM1(r) == r.proto = "setup" /\ r.n = 2
CarriesProof(l) == l.proto = "setup" /\ l.n = 3
LetterOK(l, nonce) == l \in Messages /\ (CarriesProof(l) => nonce > 0)

AccessoryShape == [nonce : Nat, secret : Secrets, order : OrderNames, knows : BOOLEAN]

\* A session record, whatever the machines in it.
SessionRecord(p) ==
  /\ p = [machine |-> p.machine, stage |-> p.stage, secret |-> p.secret, keys |-> p.keys, taken |-> p.taken]
  /\ p.machine = [f \in Flows |-> p.machine[f]] /\ p.stage \in [Flows -> Stages]

PairInv ==
  /\ SessionRecord(pairing) /\ attempts \in 0 .. MaxAttempts
  /\ accessory \in AccessoryShape /\ (accessory.secret # <<>> => accessory.nonce > 0)
  /\ LetterOK(letter, accessory.nonce) /\ replies \in Seq(Messages)
  /\ \A i \in DOMAIN replies : ReplyOK(replies[i], sealed, accessory.order)
  /\ \A i \in DOMAIN replies : AnswersM1(replies[i]) => accessory.nonce > 0
  /\ \A f \in Flows : FlowOK(f, pairing.machine[f], pairing.stage[f], sealed, accessory.order)
  /\ KeysHaveASource

-----------------------------------------------------------------------------
(* The steps of the machines.                                              *)

LEMMA PairingConstants ==
  /\ MaxAttempts \in Nat /\ MaxFlows \in Nat /\ RightPin \in Pins
  /\ Blank \in Messages /\ ~CarriesProof(Blank)
BY PairingAssumption DEF Blank, Messages, Secrets, CarriesProof

\* M2 to M3: the proof is that of the typed pin.
LEMMA SetupM2 ==
  ASSUME NEW m \in SetupMachine, NEW r \in Messages
  PROVE  LET result == Then(ProcessM2(m, r), GenerateM3)
         IN /\ result.m \in SetupMachine /\ result.m.transient = m.transient /\ result.out \in Messages
            /\ result.ok \in BOOLEAN /\ (CarriesProof(result.out) => AnswersM1(r))
            /\ result.ok => /\ result.m.st = "M3Sent"
                            /\ \E s \in Nat : result.m.proof = SrpSecret(result.m.pin, result.m.c, s)
            /\ ~result.ok => result.m.st = "Failed"
<1>1. CASE m.st = "M1Sent" /\ r.proto = "setup" /\ r.n = 2
  <2> DEFINE a == [m EXCEPT !.st = "M2Received", !.proof = SrpSecret(m.pin, m.c, r.s)]
             b == [a EXCEPT !.st = "M3Sent"]
  <2>1. /\ a \in SetupMachine /\ a.st = "M2Received" /\ a.transient = m.transient /\ a.pin = m.pin /\ a.c = m.c
        /\ a.proof = SrpSecret(m.pin, m.c, r.s) /\ r.s \in Nat
    BY DEF SetupMachine, PairSetupState, Messages, Secrets, SrpSecret
  <2>2. ProcessM2(m, r) = Step(a, TRUE, Blank)
    BY <1>1 DEF ProcessM2
  <2>3. Then(ProcessM2(m, r), GenerateM3) = GenerateM3(a)
    BY <2>2 DEF Then, Step
  <2> HIDE DEF a
  <2>4. /\ b \in SetupMachine /\ b.st = "M3Sent" /\ b.transient = a.transient /\ b.pin = a.pin /\ b.c = a.c /\ b.proof = a.proof
    BY <2>1 DEF SetupMachine, PairSetupState
  <2>5. GenerateM3(a) = Step(b, TRUE, [Blank EXCEPT !.proto = "setup", !.n = 3, !.c = a.c, !.mac = a.proof])
    BY <2>1 DEF GenerateM3
  <2>6. [Blank EXCEPT !.proto = "setup", !.n = 3, !.c = a.c, !.mac = a.proof] \in Messages
    BY <2>1 DEF Blank, Messages, SetupMachine
  <2>7. AnswersM1(r)
    BY <1>1 DEF AnswersM1
  <2> HIDE DEF b
  <2> QED
    BY <2>1, <2>3, <2>4, <2>5, <2>6, <2>7 DEF Step
<1>2. CASE ~(m.st = "M1Sent" /\ r.proto = "setup" /\ r.n = 2)
  <2>1. ProcessM2(m, r) = Fails(m)
    BY <1>2 DEF ProcessM2
  <2>2. Then(ProcessM2(m, r), GenerateM3) = Fails(m)
    BY <2>1 DEF Then, Fails, Step
  <2> QED
    BY <2>2, PairingConstants DEF Fails, Step, SetupMachine, PairSetupState
<1> QED
  BY <1>1, <1>2

LEMMA SetupAfterM2 ==
  ASSUME NEW f \in {"setup", "transient"}, NEW m, NEW r \in Messages, NEW agreed, SetupOK(f, m, "WaitingM2", agreed)
  PROVE  LET result == Then(ProcessM2(m, r), GenerateM3)
         IN /\ SetupOK(f, result.m, IF result.ok THEN "WaitingM4" ELSE "WaitingM2", agreed)
            /\ result.ok \in BOOLEAN /\ result.out \in Messages /\ (CarriesProof(result.out) => AnswersM1(r))
<1> DEFINE result == Then(ProcessM2(m, r), GenerateM3)
<1>1. m \in SetupMachine /\ (f = "transient" => m.transient)
  BY DEF SetupOK
<1>2. /\ result.m \in SetupMachine /\ result.m.transient = m.transient /\ result.out \in Messages
      /\ result.ok \in BOOLEAN /\ (CarriesProof(result.out) => AnswersM1(r))
      /\ result.ok => result.m.st = "M3Sent" /\ \E s \in Nat : result.m.proof = SrpSecret(result.m.pin, result.m.c, s)
      /\ ~result.ok => result.m.st = "Failed"
  BY <1>1, SetupM2
<1> HIDE DEF result
<1> QED
  <2>1. CASE result.ok
    BY <1>1, <1>2, <2>1 DEF SetupOK, result
  <2>2. CASE ~result.ok
    BY <1>1, <1>2, <2>2 DEF SetupOK, FailedWaits, result
  <2> QED
    BY <2>1, <2>2

\* M4 carries the receiver's own proof: equal to the client's, it shows that the
\* receiver agreed to it, and so that the pin was right.
LEMMA ProofIsAgreed ==
  ASSUME NEW f \in {"setup", "transient"}, NEW m, NEW r, NEW agreed, NEW order,
         SetupOK(f, m, "WaitingM4", agreed), ReplyOK(r, agreed, order)
  PROVE  LET result == ProcessM4(m, r)
         IN \/ result = Fails(m)
            \/ /\ result = Step([m EXCEPT !.st = "M4Received"], TRUE, Blank) /\ m.st = "M3Sent"
               /\ m.proof \in agreed /\ m.pin = RightPin
<1>1. m \in SetupMachine /\ (m.st = "M3Sent" => \E s \in Nat : m.proof = SrpSecret(m.pin, m.c, s))
  BY DEF SetupOK
<1>2. CASE m.st = "M3Sent" /\ r.proto = "setup" /\ r.n = 4 /\ r.mac = m.proof
  <2>1. m.proof \in agreed /\ \E c, s \in Nat : m.proof = SrpSecret(RightPin, c, s)
    BY <1>2 DEF ReplyOK
  <2>2. m.pin = RightPin
    BY <1>1, <1>2, <2>1 DEF SrpSecret
  <2> QED
    BY <1>2, <2>1, <2>2 DEF ProcessM4
<1>3. CASE ~(m.st = "M3Sent" /\ r.proto = "setup" /\ r.n = 4 /\ r.mac = m.proof)
  BY <1>3 DEF ProcessM4
<1> QED
  BY <1>2, <1>3

\* A machine that fails keeps its session waiting.
LEMMA SetupFails ==
  ASSUME NEW f \in {"setup", "transient"}, NEW m, NEW stg \in {"WaitingM2", "WaitingM4", "WaitingM6"}, NEW agreed,
         SetupOK(f, m, stg, agreed)
  PROVE  /\ Fails(m).ok = FALSE /\ Fails(m).out = Blank /\ Fails(m).m = [m EXCEPT !.st = "Failed"]
         /\ SetupOK(f, Fails(m).m, stg, agreed)
BY DEF Fails, Step, SetupOK, FailedWaits, SetupMachine, PairSetupState

LEMMA SetupAfterM4 ==
  ASSUME NEW f \in {"setup", "transient"}, NEW m, NEW r, NEW agreed, NEW order,
         SetupOK(f, m, "WaitingM4", agreed), ReplyOK(r, agreed, order)
  PROVE  LET result == Then(ProcessM4(m, r), GenerateM5)
         IN /\ SetupOK(f, result.m, IF result.ok THEN "WaitingM6" ELSE "WaitingM4", agreed)
            /\ result.ok \in BOOLEAN /\ result.out \in Messages /\ (CarriesProof(result.out) => AnswersM1(r))
<1>1. CASE ProcessM4(m, r) = Fails(m)
  <2>1. Then(ProcessM4(m, r), GenerateM5) = Fails(m)
    BY <1>1 DEF Then, Fails, Step
  <2> QED
    BY <2>1, SetupFails, PairingConstants
<1>2. CASE /\ ProcessM4(m, r) = Step([m EXCEPT !.st = "M4Received"], TRUE, Blank) /\ m.st = "M3Sent"
           /\ m.proof \in agreed /\ m.pin = RightPin
  <2> DEFINE a == [m EXCEPT !.st = "M4Received"]
             b == [a EXCEPT !.st = "M5Sent"]
  <2>1. m \in SetupMachine /\ (f = "transient" => m.transient) /\ \E s \in Nat : m.proof = SrpSecret(m.pin, m.c, s)
    BY <1>2 DEF SetupOK
  <2>2. /\ a \in SetupMachine /\ a.st = "M4Received" /\ a.transient = m.transient /\ a.pin = m.pin /\ a.c = m.c
        /\ a.proof = m.proof
    BY <2>1 DEF SetupMachine, PairSetupState
  <2>3. Then(ProcessM4(m, r), GenerateM5) = GenerateM5(a)
    BY <1>2 DEF Then, Step
  <2> HIDE DEF a
  <2>4. /\ b \in SetupMachine /\ b.st = "M5Sent" /\ b.transient = a.transient /\ b.pin = a.pin /\ b.c = a.c /\ b.proof = a.proof
    BY <2>2 DEF SetupMachine, PairSetupState
  <2>5. GenerateM5(a) = Step(b, TRUE, [Blank EXCEPT !.proto = "setup", !.n = 5, !.mac = a.proof])
    BY <2>2 DEF GenerateM5
  <2>6. /\ [Blank EXCEPT !.proto = "setup", !.n = 5, !.mac = a.proof] \in Messages
        /\ ~CarriesProof([Blank EXCEPT !.proto = "setup", !.n = 5, !.mac = a.proof])
    <3>1. [Blank EXCEPT !.proto = "setup", !.n = 5, !.mac = a.proof].n = 5
      BY DEF Blank
    <3>2. [Blank EXCEPT !.proto = "setup", !.n = 5, !.mac = a.proof] \in Messages
      BY <2>2 DEF Blank, Messages, SetupMachine, Secrets
    <3> QED
      BY <3>1, <3>2 DEF CarriesProof
  <2> HIDE DEF b
  <2>7. SetupOK(f, b, "WaitingM6", agreed)
    BY <1>2, <2>1, <2>2, <2>4 DEF SetupOK
  <2> QED
    BY <2>3, <2>5, <2>6, <2>7 DEF Step
<1> QED
  BY <1>1, <1>2, ProofIsAgreed

LEMMA TransientAfterM4 ==
  ASSUME NEW m, NEW r, NEW agreed, NEW order, SetupOK("transient", m, "WaitingM4", agreed), ReplyOK(r, agreed, order)
  PROVE  LET result == Then(ProcessM4(m, r), CompleteTransient)
         IN /\ SetupOK("transient", result.m, IF result.ok THEN "Complete" ELSE "WaitingM4", agreed)
            /\ result.ok \in BOOLEAN
<1>1. CASE ProcessM4(m, r) = Fails(m)
  <2>1. Then(ProcessM4(m, r), CompleteTransient) = Fails(m)
    BY <1>1 DEF Then, Fails, Step
  <2> QED
    BY <2>1, SetupFails
<1>2. CASE /\ ProcessM4(m, r) = Step([m EXCEPT !.st = "M4Received"], TRUE, Blank) /\ m.st = "M3Sent"
           /\ m.proof \in agreed /\ m.pin = RightPin
  <2> DEFINE a == [m EXCEPT !.st = "M4Received"]
             b == [a EXCEPT !.st = "Complete"]
  <2>1. m \in SetupMachine /\ m.transient /\ \E s \in Nat : m.proof = SrpSecret(m.pin, m.c, s)
    BY <1>2 DEF SetupOK
  <2>2. /\ a \in SetupMachine /\ a.st = "M4Received" /\ a.transient = m.transient /\ a.pin = m.pin /\ a.c = m.c
        /\ a.proof = m.proof
    BY <2>1 DEF SetupMachine, PairSetupState
  <2>3. Then(ProcessM4(m, r), CompleteTransient) = CompleteTransient(a)
    BY <1>2 DEF Then, Step
  <2> HIDE DEF a
  <2>4. /\ b \in SetupMachine /\ b.st = "Complete" /\ b.transient = a.transient /\ b.pin = a.pin /\ b.c = a.c /\ b.proof = a.proof
    BY <2>2 DEF SetupMachine, PairSetupState
  <2>5. CompleteTransient(a) = Step(b, TRUE, Blank)
    BY <2>1, <2>2 DEF CompleteTransient
  <2> HIDE DEF b
  <2>6. SetupOK("transient", b, "Complete", agreed)
    BY <1>2, <2>1, <2>2, <2>4 DEF SetupOK
  <2> QED
    BY <2>3, <2>5, <2>6 DEF Step
<1> QED
  BY <1>1, <1>2, ProofIsAgreed

LEMMA SetupAfterM6 ==
  ASSUME NEW f \in {"setup", "transient"}, NEW m, NEW r, NEW agreed, SetupOK(f, m, "WaitingM6", agreed)
  PROVE  LET result == Then(ProcessM6(m, r), Same)
         IN /\ SetupOK(f, result.m, IF result.ok THEN "Complete" ELSE "WaitingM6", agreed)
            /\ result.ok \in BOOLEAN
<1>1. CASE m.st = "M5Sent" /\ r.proto = "setup" /\ r.n = 6 /\ r.mac = m.proof
  <2> DEFINE a == [m EXCEPT !.st = "Complete"]
  <2>1. /\ m \in SetupMachine /\ (f = "transient" => m.transient)
        /\ \E s \in Nat : m.proof = SrpSecret(m.pin, m.c, s)
        /\ m.proof \in agreed /\ m.pin = RightPin
    BY <1>1 DEF SetupOK
  <2>2. /\ a \in SetupMachine /\ a.st = "Complete" /\ a.transient = m.transient /\ a.pin = m.pin /\ a.c = m.c
        /\ a.proof = m.proof
    BY <2>1 DEF SetupMachine, PairSetupState
  <2>3. Then(ProcessM6(m, r), Same) = Step(a, TRUE, Blank)
    BY <1>1 DEF Then, Step, ProcessM6, Same
  <2> HIDE DEF a
  <2>4. SetupOK(f, a, "Complete", agreed)
    BY <2>1, <2>2 DEF SetupOK
  <2> QED
    BY <2>3, <2>4 DEF Step
<1>2. CASE ~(m.st = "M5Sent" /\ r.proto = "setup" /\ r.n = 6 /\ r.mac = m.proof)
  <2>1. Then(ProcessM6(m, r), Same) = Fails(m)
    BY <1>2 DEF Then, Fails, Step, ProcessM6
  <2> QED
    BY <2>1, SetupFails
<1> QED
  BY <1>1, <1>2

\* M2 of pair-verify: with the receiver's key the order is learned from the
\* signature; without it the first order stays.
LEMMA VerifyAfterM2 ==
  ASSUME NEW m, NEW r, NEW agreed, NEW order \in OrderNames, VerifyOK(m, "WaitingM2", order), ReplyOK(r, agreed, order)
  PROVE  LET result == Then(VerifyM2(m, r), VerifyM3)
         IN /\ VerifyOK(result.m, IF result.ok THEN "WaitingM4" ELSE "WaitingM2", order)
            /\ result.ok \in BOOLEAN /\ result.out \in Messages /\ (CarriesProof(result.out) => AnswersM1(r))
<1>1. /\ m \in VerifyMachine /\ r \in Messages /\ Blank \in Messages /\ ~CarriesProof(Blank)
      /\ r.proto = "verify" /\ r.n = 2 => r.order = order
  BY PairingConstants DEF VerifyOK, ReplyOK
<1> DEFINE secret == EcdhSecret(m.c, r.s)
           got == [m EXCEPT !.s = r.s, !.secret = secret]
<1>2. /\ got \in VerifyMachine /\ got.st = m.st /\ got.known = m.known /\ got.order = m.order
      /\ got.secret = secret /\ secret \in Secrets
  BY <1>1 DEF VerifyMachine, PairVerifyState, Messages, Secrets, EcdhSecret
<1>3. CASE m.st # "M1Sent"
  <2>1. Then(VerifyM2(m, r), VerifyM3) = Step(m, FALSE, Blank)
    BY <1>3 DEF Then, Step, VerifyM2
  <2> QED
    BY <1>1, <2>1 DEF Step
<1>4. CASE m.st = "M1Sent" /\ (r.proto # "verify" \/ r.n # 2)
  <2>1. Then(VerifyM2(m, r), VerifyM3) = Fails(m)
    BY <1>4 DEF Then, Step, VerifyM2, Fails
  <2>2. VerifyOK(Fails(m).m, "WaitingM2", order)
    BY <1>1 DEF VerifyOK, FailedWaits, Fails, Step, VerifyMachine, PairVerifyState
  <2> QED
    BY <1>1, <2>1, <2>2 DEF Fails, Step
<1>5. CASE m.st = "M1Sent" /\ r.proto = "verify" /\ r.n = 2 /\ r.mac # secret
  <2>1. Then(VerifyM2(m, r), VerifyM3) = Fails(got)
    BY <1>5 DEF Then, Step, VerifyM2, Fails
  <2> HIDE DEF got
  <2>2. VerifyOK(Fails(got).m, "WaitingM2", order)
    BY <1>2 DEF VerifyOK, FailedWaits, Fails, Step, VerifyMachine, PairVerifyState
  <2> QED
    BY <1>1, <2>1, <2>2 DEF Fails, Step
<1>6. CASE m.st = "M1Sent" /\ r.proto = "verify" /\ r.n = 2 /\ r.mac = secret
  <2> DEFINE a == [got EXCEPT !.st = "M2Received", !.order = SigningOrder(m, r)]
             b == [a EXCEPT !.st = "M3Sent"]
             out == [Blank EXCEPT !.proto = "verify", !.n = 3, !.mac = a.secret, !.order = a.order]
  <2>1. SigningOrder(m, r) \in OrderNames /\ (m.known => SigningOrder(m, r) = order)
    BY <1>1, <1>6 DEF SigningOrder, VerifyMachine
  <2>2. VerifyM2(m, r) = Step(a, TRUE, Blank)
    BY <1>6 DEF VerifyM2
  <2> HIDE DEF got
  <2>3. /\ a \in VerifyMachine /\ a.st = "M2Received" /\ a.known = m.known /\ (a.known => a.order = order)
        /\ a.secret \in Secrets /\ a.order \in OrderNames
    BY <1>2, <2>1 DEF VerifyMachine, PairVerifyState
  <2>4. Then(VerifyM2(m, r), VerifyM3) = VerifyM3(a)
    BY <2>2 DEF Then, Step
  <2> HIDE DEF a
  <2>5. VerifyM3(a) = Step(b, TRUE, out)
    BY <2>3 DEF VerifyM3
  <2>6. b \in VerifyMachine /\ b.st = "M3Sent" /\ b.known = a.known /\ b.order = a.order
    BY <2>3 DEF VerifyMachine, PairVerifyState
  <2>7. out \in Messages /\ ~CarriesProof(out)
    BY <2>3 DEF Blank, Messages, CarriesProof
  <2> HIDE DEF b, out
  <2>8. VerifyOK(b, "WaitingM4", order)
    BY <2>3, <2>6 DEF VerifyOK
  <2> QED
    BY <2>4, <2>5, <2>7, <2>8 DEF Step
<1> QED
  BY <1>3, <1>4, <1>5, <1>6

LEMMA VerifyAfterM4 ==
  ASSUME NEW m, NEW r, NEW order, VerifyOK(m, "WaitingM4", order)
  PROVE  LET result == Then(VerifyM4(m, r), Same)
         IN /\ VerifyOK(result.m, IF result.ok THEN "Complete" ELSE "WaitingM4", order)
            /\ result.ok \in BOOLEAN
<1>1. m \in VerifyMachine
  BY DEF VerifyOK
<1>2. CASE m.st # "M3Sent"
  <2>1. Then(VerifyM4(m, r), Same) = Step(m, FALSE, Blank)
    BY <1>2 DEF Then, Step, VerifyM4
  <2> QED
    BY <2>1 DEF Step
<1>3. CASE m.st = "M3Sent" /\ r.n = 4
  <2> DEFINE a == [m EXCEPT !.st = "Complete"]
  <2>1. Then(VerifyM4(m, r), Same) = Step(a, TRUE, Blank)
    BY <1>3 DEF Then, Step, VerifyM4, Same
  <2>2. a \in VerifyMachine /\ a.st = "Complete" /\ a.known = m.known /\ a.order = m.order
    BY <1>1 DEF VerifyMachine, PairVerifyState
  <2> HIDE DEF a
  <2>3. VerifyOK(a, "Complete", order)
    BY <1>3, <2>2 DEF VerifyOK
  <2> QED
    BY <2>1, <2>3 DEF Step
<1>4. CASE m.st = "M3Sent" /\ r.n # 4
  <2>1. Then(VerifyM4(m, r), Same) = Fails(m)
    BY <1>4 DEF Then, Step, VerifyM4, Fails
  <2>2. VerifyOK(Fails(m).m, "WaitingM4", order)
    BY <1>1 DEF VerifyOK, FailedWaits, Fails, Step, VerifyMachine, PairVerifyState
  <2> QED
    BY <2>1, <2>2 DEF Fails, Step
<1> QED
  BY <1>2, <1>3, <1>4

LEMMA FairPlayAfter1 ==
  ASSUME NEW m, NEW r, FairPlayOK(m, "WaitingM2")
  PROVE  LET result == Then(Phase1Response(m, r), Phase3)
         IN /\ FairPlayOK(result.m, IF result.ok THEN "WaitingM4" ELSE "WaitingM2")
            /\ result.ok \in BOOLEAN /\ result.out \in Messages /\ (CarriesProof(result.out) => AnswersM1(r))
<1>1. m \in FairPlayMachine /\ Blank \in Messages /\ ~CarriesProof(Blank)
  BY PairingConstants DEF FairPlayOK
<1>2. CASE m.st = "Phase1Sent" /\ r.proto = "fairplay" /\ r.n = 2
  <2> DEFINE a == [m EXCEPT !.st = "Phase1Complete"]
             b == [a EXCEPT !.st = "Phase3Sent"]
             out == [Blank EXCEPT !.proto = "fairplay", !.n = 3]
  <2>1. a \in FairPlayMachine /\ a.st = "Phase1Complete"
    BY <1>1 DEF FairPlayMachine, FairPlayState
  <2>2. Then(Phase1Response(m, r), Phase3) = Phase3(a)
    BY <1>2 DEF Then, Step, Phase1Response
  <2> HIDE DEF a
  <2>3. Phase3(a) = Step(b, TRUE, out)
    BY <2>1 DEF Phase3
  <2>4. b \in FairPlayMachine /\ b.st = "Phase3Sent" /\ out \in Messages /\ ~CarriesProof(out)
    BY <2>1 DEF FairPlayMachine, FairPlayState, Blank, Messages, Secrets, CarriesProof
  <2> HIDE DEF b, out
  <2> QED
    BY <2>2, <2>3, <2>4 DEF Step, FairPlayOK
<1>3. CASE ~(m.st = "Phase1Sent" /\ r.proto = "fairplay" /\ r.n = 2)
  <2>1. Then(Phase1Response(m, r), Phase3) = Fails(m)
    BY <1>3 DEF Then, Step, Phase1Response, Fails
  <2> QED
    BY <1>1, <2>1 DEF Fails, Step, FairPlayOK, FailedWaits, FairPlayMachine, FairPlayState
<1> QED
  BY <1>2, <1>3

LEMMA FairPlayAfter3 ==
  ASSUME NEW m, NEW r, FairPlayOK(m, "WaitingM4")
  PROVE  LET result == Then(Phase3Response(m, r), Same)
         IN /\ FairPlayOK(result.m, IF result.ok THEN "Complete" ELSE "WaitingM4")
            /\ result.ok \in BOOLEAN
<1>1. m \in FairPlayMachine
  BY DEF FairPlayOK
<1>2. CASE m.st = "Phase3Sent" /\ r.proto = "fairplay" /\ r.n = 4
  <2>1. Then(Phase3Response(m, r), Same) = Step([m EXCEPT !.st = "Complete"], TRUE, Blank)
    BY <1>2 DEF Then, Step, Phase3Response, Same
  <2> QED
    BY <1>1, <2>1 DEF Step, FairPlayOK, FairPlayMachine, FairPlayState
<1>3. CASE ~(m.st = "Phase3Sent" /\ r.proto = "fairplay" /\ r.n = 4)
  <2>1. Then(Phase3Response(m, r), Same) = Fails(m)
    BY <1>3 DEF Then, Step, Phase3Response, Fails
  <2> QED
    BY <1>1, <2>1 DEF Fails, Step, FairPlayOK, FailedWaits, FairPlayMachine, FairPlayState
<1> QED
  BY <1>2, <1>3

-----------------------------------------------------------------------------
(* The session and the receiver.                                           *)

\* What a step of one flow does to the session.
LEMMA Applied ==
  ASSUME PairInv, NEW f \in Flows, NEW result, NEW next \in Stages
  PROVE  LET p == Apply(f, result, next)
         IN /\ SessionRecord(p) /\ p.keys = pairing.keys
            /\ p.machine = [g \in Flows |-> IF g = f THEN result.m ELSE pairing.machine[g]]
            /\ p.stage = [g \in Flows |-> IF g = f /\ result.ok THEN next ELSE pairing.stage[g]]
<1>1. SessionRecord(pairing)
  BY DEF PairInv
<1> DEFINE a == [pairing.machine EXCEPT ![f] = result.m]
           b == [pairing.stage EXCEPT ![f] = IF result.ok THEN next ELSE @]
<1>2. Apply(f, result, next) = [pairing EXCEPT !.machine = a, !.stage = b]
  BY <1>1 DEF Apply, SessionRecord
<1>3. a = [g \in Flows |-> IF g = f THEN result.m ELSE pairing.machine[g]]
  BY <1>1 DEF SessionRecord
<1>4. b = [g \in Flows |-> IF g = f /\ result.ok THEN next ELSE pairing.stage[g]] /\ b \in [Flows -> Stages]
  BY <1>1 DEF SessionRecord
<1> HIDE DEF a, b
<1>5. Apply(f, result, next) = [machine |-> a, stage |-> b, secret |-> pairing.secret, keys |-> pairing.keys,
                                taken |-> pairing.taken]
  BY <1>1, <1>2 DEF SessionRecord
<1>6. a = [g \in Flows |-> a[g]]
  BY <1>3
<1> QED
  BY <1>3, <1>4, <1>5, <1>6 DEF SessionRecord

\* A step of one flow that keeps the flow in order keeps the session in order.
LEMMA FlowMoves ==
  ASSUME PairInv, NEW f \in Flows, NEW m, NEW stg \in Stages, pairing.stage[f] # "Complete",
         SessionRecord(pairing'),
         pairing'.machine = [g \in Flows |-> IF g = f THEN m ELSE pairing.machine[g]],
         pairing'.stage = [g \in Flows |-> IF g = f THEN stg ELSE pairing.stage[g]],
         FlowOK(f, m, stg, sealed, accessory.order),
         \/ pairing'.keys = pairing.keys
         \/ stg = "Complete" /\ f = "transient" /\ pairing'.keys = m.proof
         \/ stg = "Complete" /\ f = "verify" /\ pairing'.keys = m.secret,
         LetterOK(letter', accessory.nonce), UNCHANGED <<attempts, accessory, replies, sealed>>
  PROVE  PairInv'
<1>1. /\ attempts \in 0 .. MaxAttempts /\ accessory \in AccessoryShape /\ (accessory.secret # <<>> => accessory.nonce > 0)
      /\ replies \in Seq(Messages) /\ \A i \in DOMAIN replies : ReplyOK(replies[i], sealed, accessory.order)
      /\ \A g \in Flows : FlowOK(g, pairing.machine[g], pairing.stage[g], sealed, accessory.order)
  BY DEF PairInv
<1>2. \A g \in Flows : /\ pairing'.machine[g] = IF g = f THEN m ELSE pairing.machine[g]
                       /\ pairing'.stage[g] = IF g = f THEN stg ELSE pairing.stage[g]
  OBVIOUS
<1>3. \A g \in Flows : FlowOK(g, pairing'.machine[g], pairing'.stage[g], sealed, accessory.order)
  BY <1>1, <1>2
<1>4. KeysHaveASource'
  <2>1. "transient" \in Flows /\ "verify" \in Flows
    BY DEF Flows
  <2>2. CASE pairing'.keys = pairing.keys
    <3>1. KeysHaveASource
      BY DEF PairInv
    <3> QED
      BY <1>2, <2>1, <2>2, <3>1 DEF KeysHaveASource
  <2>3. CASE stg = "Complete" /\ f = "transient" /\ pairing'.keys = m.proof
    BY <1>2, <2>1, <2>3 DEF KeysHaveASource
  <2>4. CASE stg = "Complete" /\ f = "verify" /\ pairing'.keys = m.secret
    BY <1>2, <2>1, <2>4 DEF KeysHaveASource
  <2> QED
    BY <2>2, <2>3, <2>4
<1> QED
  BY <1>1, <1>3, <1>4 DEF PairInv

\* start_*: a fresh machine sends its first message.
LEMMA FlowStarts ==
  ASSUME PairInv, NEW f \in Flows, NEW result, StartFlow(f, result), result.ok = TRUE, result.out \in Messages, ~CarriesProof(result.out),
         MachineOK(f, result.m, "WaitingM2", sealed, accessory.order)
  PROVE  PairInv'
<1>1. /\ pairing.machine[f] = NoMachine /\ pairing' = Apply(f, result, "WaitingM2") /\ letter' = result.out
      /\ UNCHANGED <<attempts, accessory, replies, sealed>>
  BY DEF StartFlow
<1>2. pairing.stage[f] # "Complete"
  <2>1. FlowOK(f, pairing.machine[f], pairing.stage[f], sealed, accessory.order)
    BY DEF PairInv
  <2> QED
    BY <1>1, <2>1 DEF FlowOK, MachineOK, SetupOK, VerifyOK, FairPlayOK, SetupMachine, VerifyMachine, FairPlayMachine,
                      NoMachine, Flows, FailedWaits
<1>3. /\ SessionRecord(pairing') /\ pairing'.keys = pairing.keys
      /\ pairing'.machine = [g \in Flows |-> IF g = f THEN result.m ELSE pairing.machine[g]]
      /\ pairing'.stage = [g \in Flows |-> IF g = f THEN "WaitingM2" ELSE pairing.stage[g]]
  <2>1. "WaitingM2" \in Stages
    BY DEF Stages
  <2> QED
    BY <1>1, <2>1, Applied
<1>4. FlowOK(f, result.m, "WaitingM2", sealed, accessory.order)
  BY DEF FlowOK
<1>5. PICK m, stg : m = result.m /\ stg = "WaitingM2"
  OBVIOUS
<1>6. /\ pairing'.machine = [g \in Flows |-> IF g = f THEN m ELSE pairing.machine[g]]
      /\ pairing'.stage = [g \in Flows |-> IF g = f THEN stg ELSE pairing.stage[g]]
      /\ FlowOK(f, m, stg, sealed, accessory.order) /\ stg \in Stages
  BY <1>3, <1>4, <1>5 DEF Stages
<1> QED
  BY <1>1, <1>2, <1>3, <1>6, FlowMoves DEF LetterOK

LEMMA StartsKeep ==
  ASSUME PairInv, StartPairSetup \/ StartTransient \/ StartPairVerify \/ StartFairPlay
  PROVE  PairInv'
<1>1. attempts \in Nat /\ Orders[1] \in OrderNames
  BY PairingAssumption DEF PairInv, OrderNames
<1>2. ASSUME NEW pin \in Pins, NEW t \in BOOLEAN, NEW f \in {"setup", "transient"}, f = "transient" => t
      PROVE  LET result == GenerateM1(FreshSetup(pin, t))
             IN /\ result.ok = TRUE /\ result.out \in Messages /\ ~CarriesProof(result.out)
                /\ MachineOK(f, result.m, "WaitingM2", sealed, accessory.order)
  <2> DEFINE a == FreshSetup(pin, t)
             b == [a EXCEPT !.st = "M1Sent"]
             out == [Blank EXCEPT !.proto = "setup", !.n = 1]
  <2>1. a \in SetupMachine /\ a.st = "Initial" /\ a.transient = t
    BY <1>1 DEF FreshSetup, SetupMachine, PairSetupState, Secrets
  <2> HIDE DEF a
  <2>2. GenerateM1(a) = Step(b, TRUE, out)
    BY <2>1 DEF GenerateM1
  <2>3. b \in SetupMachine /\ b.st = "M1Sent" /\ b.transient = t
    BY <2>1 DEF SetupMachine, PairSetupState
  <2>4. out \in Messages /\ ~CarriesProof(out)
    <3>1. out.n = 1 /\ out \in Messages
      BY DEF Blank, Messages, Secrets
    <3> QED
      BY <3>1 DEF CarriesProof
  <2> HIDE DEF b, out
  <2>5. SetupOK(f, b, "WaitingM2", sealed)
    BY <1>2, <2>3 DEF SetupOK
  <2>6. MachineOK(f, b, "WaitingM2", sealed, accessory.order)
    BY <2>5 DEF MachineOK
  <2> QED
    BY <2>2, <2>4, <2>6 DEF Step, a
<1>3. CASE StartPairSetup
  <2>1. PICK pin \in Pins : StartFlow("setup", GenerateM1(FreshSetup(pin, FALSE)))
    BY <1>3 DEF StartPairSetup
  <2>2. PICK result : result = GenerateM1(FreshSetup(pin, FALSE))
    OBVIOUS
  <2> QED
    BY <1>2, <2>1, <2>2, FlowStarts DEF Flows
<1>4. CASE StartTransient
  <2>1. PICK pin \in Pins : StartFlow("transient", GenerateM1(FreshSetup(pin, TRUE)))
    BY <1>4 DEF StartTransient
  <2>2. PICK result : result = GenerateM1(FreshSetup(pin, TRUE))
    OBVIOUS
  <2> QED
    BY <1>2, <2>1, <2>2, FlowStarts DEF Flows
<1>5. CASE StartPairVerify
  <2>1. PICK known \in BOOLEAN : StartFlow("verify", VerifyM1(FreshVerify(known)))
    BY <1>5 DEF StartPairVerify
  <2> DEFINE a == FreshVerify(known)
             b == [a EXCEPT !.st = "M1Sent"]
             out == [Blank EXCEPT !.proto = "verify", !.n = 1, !.c = a.c]
  <2>2. a \in VerifyMachine /\ a.st = "Initial"
    BY <1>1 DEF FreshVerify, VerifyMachine, PairVerifyState, Secrets
  <2> HIDE DEF a
  <2>3. VerifyM1(a) = Step(b, TRUE, out)
    BY <2>2 DEF VerifyM1
  <2>4. b \in VerifyMachine /\ b.st = "M1Sent" /\ out \in Messages /\ ~CarriesProof(out)
    BY <2>2 DEF VerifyMachine, PairVerifyState, Blank, Messages, Secrets, CarriesProof
  <2> HIDE DEF b, out
  <2>5. MachineOK("verify", b, "WaitingM2", sealed, accessory.order)
    BY <2>4 DEF MachineOK, VerifyOK
  <2>6. PICK result : result = VerifyM1(a)
    OBVIOUS
  <2>7. result.ok = TRUE /\ result.out \in Messages /\ ~CarriesProof(result.out) /\ MachineOK("verify", result.m, "WaitingM2", sealed, accessory.order)
    BY <2>3, <2>4, <2>5, <2>6 DEF Step
  <2>8. StartFlow("verify", result)
    BY <2>1, <2>6 DEF a
  <2> QED
    BY <2>7, <2>8, FlowStarts DEF Flows
<1>6. CASE StartFairPlay
  <2>1. StartFlow("fairplay", Phase1([st |-> "Initial"]))
    BY <1>6 DEF StartFairPlay
  <2>2. PICK result : result = Phase1([st |-> "Initial"])
    OBVIOUS
  <2>3. /\ result.ok = TRUE /\ result.out = [Blank EXCEPT !.proto = "fairplay", !.n = 1]
        /\ result.m = [st |-> "Phase1Sent"]
    BY <2>2 DEF Phase1, Step
  <2>4. result.out \in Messages /\ ~CarriesProof(result.out)
    <3>1. [Blank EXCEPT !.proto = "fairplay", !.n = 1] \in Messages /\ ~CarriesProof([Blank EXCEPT !.proto = "fairplay", !.n = 1])
      BY DEF Blank, Messages, Secrets, CarriesProof
    <3> QED
      BY <2>3, <3>1
  <2>5. MachineOK("fairplay", result.m, "WaitingM2", sealed, accessory.order)
    BY <2>3 DEF MachineOK, FairPlayOK, FairPlayMachine, FairPlayState
  <2> QED
    BY <2>1, <2>2, <2>3, <2>4, <2>5, FlowStarts DEF Flows
<1> QED
  BY <1>3, <1>4, <1>5, <1>6

\* A flow that waits has a machine, which is where the stage says.
LEMMA WaitingFlow ==
  ASSUME PairInv, NEW f \in Flows, NEW stg \in {"WaitingM2", "WaitingM4", "WaitingM6"}, pairing.stage[f] = stg
  PROVE  MachineOK(f, pairing.machine[f], stg, sealed, accessory.order)
BY DEF PairInv, FlowOK

LEMMA AnswersVouch ==
  ASSUME PairInv, NEW i \in DOMAIN replies
  PROVE  replies[i] \in Messages /\ ReplyOK(replies[i], sealed, accessory.order) /\ accessory.order \in OrderNames
BY DEF PairInv, ReplyOK, AccessoryShape

\* continue_*: the result of the machine decides over the stage.
LEMMA FlowContinues ==
  ASSUME PairInv, NEW f \in Flows, NEW stg \in {"WaitingM2", "WaitingM4", "WaitingM6"}, pairing.stage[f] = stg,
         NEW next \in Stages, NEW result, result.ok \in BOOLEAN,
         MachineOK(f, result.m, IF result.ok THEN next ELSE stg, sealed, accessory.order),
         \/ pairing' = Apply(f, result, next)
         \/ result.ok /\ pairing' = KeepSecret(Apply(f, result, next), result.m)
         \/ result.ok /\ f = "transient" /\ next = "Complete" /\ pairing' = KeepKeys(Apply(f, result, next), result.m)
         \/ result.ok /\ f = "verify" /\ next = "Complete" /\ pairing' = KeepVerified(Apply(f, result, next), result.m),
         LetterOK(letter', accessory.nonce), UNCHANGED <<attempts, accessory, replies, sealed>>
  PROVE  PairInv'
<1> DEFINE q == Apply(f, result, next)
<1>1. PICK m, after : m = result.m /\ after = IF result.ok THEN next ELSE stg
  OBVIOUS
<1>2. after \in Stages
  BY <1>1 DEF Stages
<1>3. /\ SessionRecord(q) /\ q.keys = pairing.keys
      /\ q.machine = [g \in Flows |-> IF g = f THEN result.m ELSE pairing.machine[g]]
      /\ q.stage = [g \in Flows |-> IF g = f /\ result.ok THEN next ELSE pairing.stage[g]]
  BY Applied
<1>4. /\ q.machine = [g \in Flows |-> IF g = f THEN m ELSE pairing.machine[g]]
      /\ q.stage = [g \in Flows |-> IF g = f THEN after ELSE pairing.stage[g]]
  BY <1>1, <1>3
<1> HIDE DEF q
<1>5. /\ SessionRecord(pairing') /\ pairing'.machine = q.machine /\ pairing'.stage = q.stage
      /\ \/ pairing'.keys = pairing.keys
         \/ after = "Complete" /\ f = "transient" /\ pairing'.keys = m.proof
         \/ after = "Complete" /\ f = "verify" /\ pairing'.keys = m.secret
  <2>1. CASE pairing' = q
    BY <1>3, <2>1
  <2>2. CASE result.ok /\ pairing' = KeepSecret(q, result.m)
    BY <1>3, <2>2 DEF KeepSecret, SessionRecord
  <2>3. CASE result.ok /\ f = "transient" /\ next = "Complete" /\ pairing' = KeepKeys(q, result.m)
    BY <1>1, <1>3, <2>3 DEF KeepKeys, SessionRecord
  <2>4. CASE result.ok /\ f = "verify" /\ next = "Complete" /\ pairing' = KeepVerified(q, result.m)
    BY <1>1, <1>3, <2>4 DEF KeepVerified, SessionRecord
  <2> QED
    BY <2>1, <2>2, <2>3, <2>4 DEF q
<1>6. FlowOK(f, m, after, sealed, accessory.order)
  BY <1>1 DEF FlowOK
<1>7. pairing.stage[f] # "Complete"
  OBVIOUS
<1> QED
  BY <1>4, <1>5, <1>6, <1>7, <1>2, FlowMoves

LEMMA ContinuesKeep ==
  ASSUME PairInv, ContinueSetupM2 \/ ContinueSetupM4 \/ ContinueTransientM2 \/ ContinueVerifyM2 \/ ContinueFairPlay1
  PROVE  PairInv'
<1>1. CASE ContinueSetupM2
  <2>1. PICK i \in DOMAIN replies :
          LET result == Then(ProcessM2(pairing.machine["setup"], replies[i]), GenerateM3)
          IN pairing' = Apply("setup", result, "WaitingM4") /\ letter' = result.out
    BY <1>1 DEF ContinueSetupM2, Continue
  <2>2. pairing.stage["setup"] = "WaitingM2" /\ UNCHANGED <<attempts, accessory, replies, sealed>>
    BY <1>1 DEF ContinueSetupM2, Continue
  <2>3. PICK m, r : m = pairing.machine["setup"] /\ r = replies[i]
    OBVIOUS
  <2>4. PICK result : result = Then(ProcessM2(m, r), GenerateM3)
    OBVIOUS
  <2>5. SetupOK("setup", m, "WaitingM2", sealed) /\ r \in Messages
    BY <2>2, <2>3, WaitingFlow, AnswersVouch DEF MachineOK, Flows
  <2>6. /\ SetupOK("setup", result.m, IF result.ok THEN "WaitingM4" ELSE "WaitingM2", sealed)
        /\ result.ok \in BOOLEAN /\ result.out \in Messages /\ (CarriesProof(result.out) => AnswersM1(r))
    BY <2>4, <2>5, SetupAfterM2
  <2>7. MachineOK("setup", result.m, IF result.ok THEN "WaitingM4" ELSE "WaitingM2", sealed, accessory.order)
    BY <2>6 DEF MachineOK
  <2>8. pairing' = Apply("setup", result, "WaitingM4") /\ LetterOK(letter', accessory.nonce)
    BY <2>1, <2>3, <2>4, <2>6 DEF LetterOK, PairInv
  <2> QED
    BY <2>2, <2>6, <2>7, <2>8, FlowContinues DEF Flows, Stages
<1>2. CASE ContinueSetupM4
  <2>1. PICK i \in DOMAIN replies :
          LET result == Then(ProcessM4(pairing.machine["setup"], replies[i]), GenerateM5)
          IN pairing' = Apply("setup", result, "WaitingM6") /\ letter' = result.out
    BY <1>2 DEF ContinueSetupM4, Continue
  <2>2. pairing.stage["setup"] = "WaitingM4" /\ UNCHANGED <<attempts, accessory, replies, sealed>>
    BY <1>2 DEF ContinueSetupM4, Continue
  <2>3. PICK m, r : m = pairing.machine["setup"] /\ r = replies[i]
    OBVIOUS
  <2>4. PICK result : result = Then(ProcessM4(m, r), GenerateM5)
    OBVIOUS
  <2>5. SetupOK("setup", m, "WaitingM4", sealed) /\ ReplyOK(r, sealed, accessory.order)
    BY <2>2, <2>3, WaitingFlow, AnswersVouch DEF MachineOK, Flows
  <2>6. /\ SetupOK("setup", result.m, IF result.ok THEN "WaitingM6" ELSE "WaitingM4", sealed)
        /\ result.ok \in BOOLEAN /\ result.out \in Messages /\ (CarriesProof(result.out) => AnswersM1(r))
    BY <2>4, <2>5, SetupAfterM4
  <2>7. MachineOK("setup", result.m, IF result.ok THEN "WaitingM6" ELSE "WaitingM4", sealed, accessory.order)
    BY <2>6 DEF MachineOK
  <2>8. pairing' = Apply("setup", result, "WaitingM6") /\ LetterOK(letter', accessory.nonce)
    BY <2>1, <2>3, <2>4, <2>6 DEF LetterOK, PairInv
  <2> QED
    BY <2>2, <2>6, <2>7, <2>8, FlowContinues DEF Flows, Stages
<1>3. CASE ContinueTransientM2
  <2>1. PICK i \in DOMAIN replies :
          LET result == Then(ProcessM2(pairing.machine["transient"], replies[i]), GenerateM3)
          IN pairing' = Apply("transient", result, "WaitingM4") /\ letter' = result.out
    BY <1>3 DEF ContinueTransientM2, Continue
  <2>2. pairing.stage["transient"] = "WaitingM2" /\ UNCHANGED <<attempts, accessory, replies, sealed>>
    BY <1>3 DEF ContinueTransientM2, Continue
  <2>3. PICK m, r : m = pairing.machine["transient"] /\ r = replies[i]
    OBVIOUS
  <2>4. PICK result : result = Then(ProcessM2(m, r), GenerateM3)
    OBVIOUS
  <2>5. SetupOK("transient", m, "WaitingM2", sealed) /\ r \in Messages
    BY <2>2, <2>3, WaitingFlow, AnswersVouch DEF MachineOK, Flows
  <2>6. /\ SetupOK("transient", result.m, IF result.ok THEN "WaitingM4" ELSE "WaitingM2", sealed)
        /\ result.ok \in BOOLEAN /\ result.out \in Messages /\ (CarriesProof(result.out) => AnswersM1(r))
    BY <2>4, <2>5, SetupAfterM2
  <2>7. MachineOK("transient", result.m, IF result.ok THEN "WaitingM4" ELSE "WaitingM2", sealed, accessory.order)
    BY <2>6 DEF MachineOK
  <2>8. pairing' = Apply("transient", result, "WaitingM4") /\ LetterOK(letter', accessory.nonce)
    BY <2>1, <2>3, <2>4, <2>6 DEF LetterOK, PairInv
  <2> QED
    BY <2>2, <2>6, <2>7, <2>8, FlowContinues DEF Flows, Stages
<1>4. CASE ContinueVerifyM2
  <2>1. PICK i \in DOMAIN replies :
          LET result == Then(VerifyM2(pairing.machine["verify"], replies[i]), VerifyM3)
          IN pairing' = Apply("verify", result, "WaitingM4") /\ letter' = result.out
    BY <1>4 DEF ContinueVerifyM2, Continue
  <2>2. pairing.stage["verify"] = "WaitingM2" /\ UNCHANGED <<attempts, accessory, replies, sealed>>
    BY <1>4 DEF ContinueVerifyM2, Continue
  <2>3. PICK m, r : m = pairing.machine["verify"] /\ r = replies[i]
    OBVIOUS
  <2>4. PICK result : result = Then(VerifyM2(m, r), VerifyM3)
    OBVIOUS
  <2>5. VerifyOK(m, "WaitingM2", accessory.order) /\ ReplyOK(r, sealed, accessory.order) /\ accessory.order \in OrderNames
    BY <2>2, <2>3, WaitingFlow, AnswersVouch DEF MachineOK, Flows
  <2>6. /\ VerifyOK(result.m, IF result.ok THEN "WaitingM4" ELSE "WaitingM2", accessory.order)
        /\ result.ok \in BOOLEAN /\ result.out \in Messages /\ (CarriesProof(result.out) => AnswersM1(r))
    BY <2>4, <2>5, VerifyAfterM2
  <2>7. MachineOK("verify", result.m, IF result.ok THEN "WaitingM4" ELSE "WaitingM2", sealed, accessory.order)
    BY <2>6 DEF MachineOK
  <2>8. pairing' = Apply("verify", result, "WaitingM4") /\ LetterOK(letter', accessory.nonce)
    BY <2>1, <2>3, <2>4, <2>6 DEF LetterOK, PairInv
  <2> QED
    BY <2>2, <2>6, <2>7, <2>8, FlowContinues DEF Flows, Stages
<1>5. CASE ContinueFairPlay1
  <2>1. PICK i \in DOMAIN replies :
          LET result == Then(Phase1Response(pairing.machine["fairplay"], replies[i]), Phase3)
          IN pairing' = Apply("fairplay", result, "WaitingM4") /\ letter' = result.out
    BY <1>5 DEF ContinueFairPlay1, Continue
  <2>2. pairing.stage["fairplay"] = "WaitingM2" /\ UNCHANGED <<attempts, accessory, replies, sealed>>
    BY <1>5 DEF ContinueFairPlay1, Continue
  <2>3. PICK m, r : m = pairing.machine["fairplay"] /\ r = replies[i]
    OBVIOUS
  <2>4. PICK result : result = Then(Phase1Response(m, r), Phase3)
    OBVIOUS
  <2>5. FairPlayOK(m, "WaitingM2") /\ r \in Messages
    BY <2>2, <2>3, WaitingFlow, AnswersVouch DEF MachineOK, Flows
  <2>6. /\ FairPlayOK(result.m, IF result.ok THEN "WaitingM4" ELSE "WaitingM2")
        /\ result.ok \in BOOLEAN /\ result.out \in Messages /\ (CarriesProof(result.out) => AnswersM1(r))
    BY <2>4, <2>5, FairPlayAfter1
  <2>7. MachineOK("fairplay", result.m, IF result.ok THEN "WaitingM4" ELSE "WaitingM2", sealed, accessory.order)
    BY <2>6 DEF MachineOK
  <2>8. pairing' = Apply("fairplay", result, "WaitingM4") /\ LetterOK(letter', accessory.nonce)
    BY <2>1, <2>3, <2>4, <2>6 DEF LetterOK, PairInv
  <2> QED
    BY <2>2, <2>6, <2>7, <2>8, FlowContinues DEF Flows, Stages
<1> QED
  BY <1>1, <1>2, <1>3, <1>4, <1>5

\* The last answer of a flow.
LEMMA ConcludesKeep ==
  ASSUME PairInv, ContinueSetupM6 \/ ContinueTransientM4 \/ ContinueVerifyM4 \/ ContinueFairPlay3
  PROVE  PairInv'
<1>1. CASE ContinueSetupM6
  <2>1. PICK i \in DOMAIN replies :
          LET result == Then(ProcessM6(pairing.machine["setup"], replies[i]), Same)
          IN pairing' = IF result.ok THEN KeepSecret(Apply("setup", result, "Complete"), result.m)
                        ELSE Apply("setup", result, "WaitingM6")
    BY <1>1 DEF ContinueSetupM6, Conclude
  <2>2. pairing.stage["setup"] = "WaitingM6" /\ UNCHANGED <<attempts, accessory, replies, sealed, letter>>
    BY <1>1 DEF ContinueSetupM6, Conclude
  <2>3. PICK m, r : m = pairing.machine["setup"] /\ r = replies[i]
    OBVIOUS
  <2>4. PICK result : result = Then(ProcessM6(m, r), Same)
    OBVIOUS
  <2>5. SetupOK("setup", m, "WaitingM6", sealed) /\ r \in Messages
    BY <2>2, <2>3, WaitingFlow, AnswersVouch DEF MachineOK, Flows
  <2>6. /\ SetupOK("setup", result.m, IF result.ok THEN "Complete" ELSE "WaitingM6", sealed)
        /\ result.ok \in BOOLEAN
    BY <2>4, <2>5, SetupAfterM6
  <2>7. MachineOK("setup", result.m, IF result.ok THEN "Complete" ELSE "WaitingM6", sealed, accessory.order)
    BY <2>6 DEF MachineOK
  <2>8. /\ LetterOK(letter', accessory.nonce)
        /\ pairing' = IF result.ok THEN KeepSecret(Apply("setup", result, "Complete"), result.m) ELSE Apply("setup", result, "WaitingM6")
    BY <2>1, <2>2, <2>3, <2>4 DEF PairInv
  <2>9. ~result.ok => Apply("setup", result, "WaitingM6") = Apply("setup", result, "Complete")
    BY DEF Apply
  <2> QED
    BY <2>2, <2>6, <2>7, <2>8, <2>9, FlowContinues DEF Flows, Stages
<1>2. CASE ContinueTransientM4
  <2>1. PICK i \in DOMAIN replies :
          LET result == Then(ProcessM4(pairing.machine["transient"], replies[i]), CompleteTransient)
          IN pairing' = IF result.ok THEN KeepKeys(Apply("transient", result, "Complete"), result.m)
                        ELSE Apply("transient", result, "WaitingM4")
    BY <1>2 DEF ContinueTransientM4, Conclude
  <2>2. pairing.stage["transient"] = "WaitingM4" /\ UNCHANGED <<attempts, accessory, replies, sealed, letter>>
    BY <1>2 DEF ContinueTransientM4, Conclude
  <2>3. PICK m, r : m = pairing.machine["transient"] /\ r = replies[i]
    OBVIOUS
  <2>4. PICK result : result = Then(ProcessM4(m, r), CompleteTransient)
    OBVIOUS
  <2>5. SetupOK("transient", m, "WaitingM4", sealed) /\ ReplyOK(r, sealed, accessory.order)
    BY <2>2, <2>3, WaitingFlow, AnswersVouch DEF MachineOK, Flows
  <2>6. /\ SetupOK("transient", result.m, IF result.ok THEN "Complete" ELSE "WaitingM4", sealed)
        /\ result.ok \in BOOLEAN
    BY <2>4, <2>5, TransientAfterM4
  <2>7. MachineOK("transient", result.m, IF result.ok THEN "Complete" ELSE "WaitingM4", sealed, accessory.order)
    BY <2>6 DEF MachineOK
  <2>8. /\ LetterOK(letter', accessory.nonce)
        /\ pairing' = IF result.ok THEN KeepKeys(Apply("transient", result, "Complete"), result.m) ELSE Apply("transient", result, "WaitingM4")
    BY <2>1, <2>2, <2>3, <2>4 DEF PairInv
  <2>9. ~result.ok => Apply("transient", result, "WaitingM4") = Apply("transient", result, "Complete")
    BY DEF Apply
  <2> QED
    BY <2>2, <2>6, <2>7, <2>8, <2>9, FlowContinues DEF Flows, Stages
<1>3. CASE ContinueVerifyM4
  <2>1. PICK i \in DOMAIN replies :
          LET result == Then(VerifyM4(pairing.machine["verify"], replies[i]), Same)
          IN pairing' = IF result.ok THEN KeepVerified(Apply("verify", result, "Complete"), result.m)
                        ELSE Apply("verify", result, "WaitingM4")
    BY <1>3 DEF ContinueVerifyM4, Conclude
  <2>2. pairing.stage["verify"] = "WaitingM4" /\ UNCHANGED <<attempts, accessory, replies, sealed, letter>>
    BY <1>3 DEF ContinueVerifyM4, Conclude
  <2>3. PICK m, r : m = pairing.machine["verify"] /\ r = replies[i]
    OBVIOUS
  <2>4. PICK result : result = Then(VerifyM4(m, r), Same)
    OBVIOUS
  <2>5. VerifyOK(m, "WaitingM4", accessory.order) /\ r \in Messages
    BY <2>2, <2>3, WaitingFlow, AnswersVouch DEF MachineOK, Flows
  <2>6. /\ VerifyOK(result.m, IF result.ok THEN "Complete" ELSE "WaitingM4", accessory.order)
        /\ result.ok \in BOOLEAN
    BY <2>4, <2>5, VerifyAfterM4
  <2>7. MachineOK("verify", result.m, IF result.ok THEN "Complete" ELSE "WaitingM4", sealed, accessory.order)
    BY <2>6 DEF MachineOK
  <2>8. /\ LetterOK(letter', accessory.nonce)
        /\ pairing' = IF result.ok THEN KeepVerified(Apply("verify", result, "Complete"), result.m) ELSE Apply("verify", result, "WaitingM4")
    BY <2>1, <2>2, <2>3, <2>4 DEF PairInv
  <2>9. ~result.ok => Apply("verify", result, "WaitingM4") = Apply("verify", result, "Complete")
    BY DEF Apply
  <2> QED
    BY <2>2, <2>6, <2>7, <2>8, <2>9, FlowContinues DEF Flows, Stages
<1>4. CASE ContinueFairPlay3
  <2>1. PICK i \in DOMAIN replies :
          LET result == Then(Phase3Response(pairing.machine["fairplay"], replies[i]), Same)
          IN pairing' = IF result.ok THEN KeepNothing(Apply("fairplay", result, "Complete"), result.m)
                        ELSE Apply("fairplay", result, "WaitingM4")
    BY <1>4 DEF ContinueFairPlay3, Conclude
  <2>2. pairing.stage["fairplay"] = "WaitingM4" /\ UNCHANGED <<attempts, accessory, replies, sealed, letter>>
    BY <1>4 DEF ContinueFairPlay3, Conclude
  <2>3. PICK m, r : m = pairing.machine["fairplay"] /\ r = replies[i]
    OBVIOUS
  <2>4. PICK result : result = Then(Phase3Response(m, r), Same)
    OBVIOUS
  <2>5. FairPlayOK(m, "WaitingM4") /\ r \in Messages
    BY <2>2, <2>3, WaitingFlow, AnswersVouch DEF MachineOK, Flows
  <2>6. /\ FairPlayOK(result.m, IF result.ok THEN "Complete" ELSE "WaitingM4")
        /\ result.ok \in BOOLEAN
    BY <2>4, <2>5, FairPlayAfter3
  <2>7. MachineOK("fairplay", result.m, IF result.ok THEN "Complete" ELSE "WaitingM4", sealed, accessory.order)
    BY <2>6 DEF MachineOK
  <2>8. /\ LetterOK(letter', accessory.nonce)
        /\ pairing' = IF result.ok THEN KeepNothing(Apply("fairplay", result, "Complete"), result.m) ELSE Apply("fairplay", result, "WaitingM4")
    BY <2>1, <2>2, <2>3, <2>4 DEF PairInv
  <2>9. ~result.ok => Apply("fairplay", result, "WaitingM4") = Apply("fairplay", result, "Complete")
    BY DEF Apply
  <2> QED
    BY <2>2, <2>6, <2>7, <2>8, <2>9, FlowContinues DEF Flows, Stages, KeepNothing
<1> QED
  BY <1>1, <1>2, <1>3, <1>4

-----------------------------------------------------------------------------
(* The caller, the receiver and the promise.                               *)

\* What the receiver has agreed to stays agreed.
LEMMA AgreedGrows ==
  ASSUME NEW agreed, NEW more, agreed \subseteq more, NEW order
  PROVE  /\ \A f \in Flows : \A m, stg : FlowOK(f, m, stg, agreed, order) => FlowOK(f, m, stg, more, order)
         /\ \A r : ReplyOK(r, agreed, order) => ReplyOK(r, more, order)
BY DEF FlowOK, MachineOK, SetupOK, ReplyOK

\* An answer the receiver can give.
LEMMA AnswerKeeps ==
  ASSUME PairInv, NEW a \in AccessoryShape, a.order = accessory.order, a.nonce >= accessory.nonce,
         a.secret # <<>> => a.nonce > 0,
         NEW reply, Answer(a, reply), sealed \subseteq sealed', ReplyOK(reply, sealed', accessory.order),
         AnswersM1(reply) => a.nonce > 0
  PROVE  PairInv'
<1>1. /\ letter' = Blank /\ accessory' = a /\ pairing' = pairing /\ attempts' = attempts
      /\ replies' = (IF replies = <<>> THEN <<reply>> ELSE <<reply, Head(replies)>>)
  BY DEF Answer
<1>2. /\ SessionRecord(pairing) /\ attempts \in 0 .. MaxAttempts /\ accessory \in AccessoryShape
      /\ replies \in Seq(Messages) /\ KeysHaveASource
      /\ \A i \in DOMAIN replies : ReplyOK(replies[i], sealed, accessory.order)
      /\ \A i \in DOMAIN replies : AnswersM1(replies[i]) => accessory.nonce > 0
      /\ \A f \in Flows : FlowOK(f, pairing.machine[f], pairing.stage[f], sealed, accessory.order)
  BY DEF PairInv
<1>3. accessory.nonce \in Nat /\ a.nonce \in Nat
  BY <1>2 DEF AccessoryShape
<1>4. LetterOK(letter', accessory'.nonce)
  BY <1>1, PairingConstants DEF LetterOK
<1>5. \A f \in Flows : FlowOK(f, pairing.machine[f], pairing.stage[f], sealed', accessory.order)
  BY <1>2, AgreedGrows
<1>6. reply \in Messages
  BY DEF ReplyOK
<1>7. /\ replies' \in Seq(Messages)
      /\ \A i \in DOMAIN replies' : ReplyOK(replies'[i], sealed', accessory.order)
      /\ \A i \in DOMAIN replies' : AnswersM1(replies'[i]) => a.nonce > 0
  <2>1. CASE replies = <<>>
    BY <1>1, <1>6, <2>1
  <2>2. CASE replies # <<>>
    <3>1. PICK h : h = Head(replies)
      OBVIOUS
    <3>2. /\ h \in Messages /\ ReplyOK(h, sealed, accessory.order) /\ (AnswersM1(h) => a.nonce > 0)
      <4>1. 1 \in DOMAIN replies /\ h = replies[1]
        BY <1>2, <2>2, <3>1
      <4> QED
        BY <1>2, <1>3, <4>1
    <3>3. ReplyOK(h, sealed', accessory.order)
      BY <3>2, AgreedGrows
    <3>4. replies' = <<reply, h>>
      BY <1>1, <2>2, <3>1
    <3> QED
      BY <1>6, <3>2, <3>3, <3>4
  <2> QED
    BY <2>1, <2>2
<1>8. KeysHaveASource'
  BY <1>1, <1>2 DEF KeysHaveASource
<1> QED
  BY <1>1, <1>2, <1>4, <1>5, <1>7, <1>8 DEF PairInv

LEMMA ReceiverKeeps ==
  ASSUME PairInv,
         \/ AnswerSetupM1 \/ AnswerSetupM3 \/ AnswerSetupM5 \/ AnswerVerifyM1 \/ AnswerVerifyM3
         \/ AnswerFairPlay \/ RefusePairing
  PROVE  PairInv'
<1>1. /\ accessory \in AccessoryShape /\ (accessory.secret # <<>> => accessory.nonce > 0)
      /\ LetterOK(letter, accessory.nonce) /\ letter \in Messages
      /\ accessory.nonce \in Nat /\ letter.c \in Nat /\ letter.n \in Nat /\ letter.mac \in Secrets
      /\ accessory.order \in OrderNames /\ RightPin \in Pins
  BY PairingConstants DEF PairInv, LetterOK, AccessoryShape, Messages
<1>2. \A p \in {"none", "setup", "verify", "fairplay"} :
         Refusal(p) \in Messages /\ Refusal(p).n = 0
  BY PairingConstants DEF Refusal, Blank, Messages
<1>3. \A agreed : \A p \in {"none", "setup", "verify", "fairplay"} :
         ReplyOK(Refusal(p), agreed, accessory.order) /\ ~AnswersM1(Refusal(p))
  BY <1>2 DEF ReplyOK, AnswersM1
<1>4. CASE AnswerSetupM1
  <2> DEFINE a == [accessory EXCEPT !.nonce = @ + 1, !.secret = <<>>]
             r == [Blank EXCEPT !.proto = "setup", !.n = 2, !.s = accessory.nonce + 1]
  <2>1. Answer(a, r) /\ sealed' = sealed
    BY <1>4 DEF AnswerSetupM1
  <2>2. a \in AccessoryShape /\ a.order = accessory.order /\ a.nonce = accessory.nonce + 1 /\ a.secret = <<>>
    <3>1. PICK k \in Nat : k = accessory.nonce + 1
      BY <1>1
    <3>2. a = [accessory EXCEPT !.nonce = k, !.secret = <<>>]
      BY <3>1
    <3>3. [accessory EXCEPT !.nonce = k, !.secret = <<>>] \in AccessoryShape
      BY <1>1 DEF AccessoryShape, Secrets
    <3> HIDE DEF a
    <3> QED
      BY <1>1, <3>1, <3>2, <3>3 DEF AccessoryShape
  <2>3. r \in Messages /\ r.proto = "setup" /\ r.n = 2
    <3>1. PICK k \in Nat : k = accessory.nonce + 1
      BY <1>1
    <3>2. r = [Blank EXCEPT !.proto = "setup", !.n = 2, !.s = k]
      BY <3>1
    <3>3. [Blank EXCEPT !.proto = "setup", !.n = 2, !.s = k] \in Messages
      BY DEF Blank, Messages, Secrets
    <3> HIDE DEF r
    <3> QED
      BY <3>2, <3>3 DEF Blank
  <2> HIDE DEF a, r
  <2>4. ReplyOK(r, sealed', accessory.order)
    BY <2>3 DEF ReplyOK
  <2>5. PICK b, q : b = a /\ q = r
    OBVIOUS
  <2> QED
    BY <1>1, <2>1, <2>2, <2>4, <2>5, AnswerKeeps
<1>5. CASE AnswerSetupM3
  <2> DEFINE secret == VerifierSecret(letter.c, accessory.nonce)
             a == [accessory EXCEPT !.secret = secret]
             r == [Blank EXCEPT !.proto = "setup", !.n = 4, !.mac = secret]
  <2>1. Answer(a, r) /\ sealed' = sealed \cup {secret}
    BY <1>5 DEF AnswerSetupM3
  <2>2. secret \in Secrets /\ secret = SrpSecret(RightPin, letter.c, accessory.nonce)
    BY <1>1 DEF VerifierSecret, SrpSecret, Secrets
  <2>3. accessory.nonce > 0
    BY <1>1, <1>5 DEF AnswerSetupM3, LetterOK, CarriesProof
  <2> HIDE DEF secret
  <2>4. a \in AccessoryShape /\ a.order = accessory.order /\ a.nonce = accessory.nonce
    BY <1>1, <2>2 DEF AccessoryShape
  <2>5. r \in Messages /\ r.proto = "setup" /\ r.n = 4 /\ r.mac = secret
    BY <1>1, <2>2 DEF Blank, Messages
  <2> HIDE DEF a, r
  <2>6. ReplyOK(r, sealed', accessory.order) /\ ~AnswersM1(r)
    BY <1>1, <2>1, <2>2, <2>5 DEF ReplyOK, AnswersM1
  <2>7. PICK b, q : b = a /\ q = r
    OBVIOUS
  <2>8. /\ b \in AccessoryShape /\ b.order = accessory.order /\ b.nonce >= accessory.nonce /\ b.nonce > 0
        /\ Answer(b, q) /\ sealed \subseteq sealed' /\ ReplyOK(q, sealed', accessory.order) /\ ~AnswersM1(q)
    BY <1>1, <2>1, <2>3, <2>4, <2>6, <2>7
  <2> QED
    BY <2>8, AnswerKeeps
<1>6. CASE AnswerSetupM5
  <2>1. CASE letter.mac = accessory.secret
    <3> DEFINE a == [accessory EXCEPT !.knows = TRUE]
               r == [Blank EXCEPT !.proto = "setup", !.n = 6, !.mac = letter.mac]
    <3>1. Answer(a, r) /\ sealed' = sealed
      BY <1>6, <2>1 DEF AnswerSetupM5
    <3>2. a \in AccessoryShape /\ a.order = accessory.order /\ a.nonce = accessory.nonce /\ a.secret = accessory.secret
      BY <1>1 DEF AccessoryShape
    <3>3. r \in Messages /\ r.proto = "setup" /\ r.n = 6
      BY <1>1 DEF Blank, Messages
    <3> HIDE DEF a, r
    <3>4. ReplyOK(r, sealed', accessory.order) /\ ~AnswersM1(r)
      BY <3>3 DEF ReplyOK, AnswersM1
    <3>5. PICK b, q : b = a /\ q = r
      OBVIOUS
    <3> QED
      BY <1>1, <3>1, <3>2, <3>4, <3>5, AnswerKeeps
  <2>2. CASE letter.mac # accessory.secret
    <3>1. PICK b, q : b = accessory /\ q = Refusal("setup")
      OBVIOUS
    <3>2. Answer(b, q) /\ sealed' = sealed
      BY <1>6, <2>2, <3>1 DEF AnswerSetupM5
    <3> QED
      BY <1>1, <1>3, <3>1, <3>2, AnswerKeeps
  <2> QED
    BY <2>1, <2>2
<1>7. CASE AnswerVerifyM1
  <2> DEFINE secret == EcdhSecret(letter.c, accessory.nonce + 1)
             a == [accessory EXCEPT !.nonce = @ + 1, !.secret = secret]
             r == [Blank EXCEPT !.proto = "verify", !.n = 2, !.s = accessory.nonce + 1,
                                !.mac = secret, !.order = accessory.order]
  <2>1. Answer(a, r) /\ sealed' = sealed
    BY <1>7 DEF AnswerVerifyM1
  <2>2. secret \in Secrets
    BY <1>1 DEF EcdhSecret, Secrets
  <2> HIDE DEF secret
  <2>3. a \in AccessoryShape /\ a.order = accessory.order /\ a.nonce = accessory.nonce + 1
    <3>1. PICK k \in Nat : k = accessory.nonce + 1
      BY <1>1
    <3>2. a = [accessory EXCEPT !.nonce = k, !.secret = secret]
      BY <3>1
    <3>3. [accessory EXCEPT !.nonce = k, !.secret = secret] \in AccessoryShape
      BY <1>1, <2>2 DEF AccessoryShape, Secrets
    <3> HIDE DEF a
    <3> QED
      BY <1>1, <3>1, <3>2, <3>3 DEF AccessoryShape
  <2>4. r \in Messages /\ r.proto = "verify" /\ r.n = 2 /\ r.order = accessory.order
    <3>1. PICK k \in Nat : k = accessory.nonce + 1
      BY <1>1
    <3>2. r = [Blank EXCEPT !.proto = "verify", !.n = 2, !.s = k, !.mac = secret, !.order = accessory.order]
      BY <3>1
    <3>3. [Blank EXCEPT !.proto = "verify", !.n = 2, !.s = k, !.mac = secret, !.order = accessory.order] \in Messages
      BY <1>1, <2>2 DEF Blank, Messages
    <3> HIDE DEF r
    <3> QED
      BY <3>2, <3>3 DEF Blank
  <2> HIDE DEF a, r
  <2>5. ReplyOK(r, sealed', accessory.order) /\ ~AnswersM1(r)
    BY <2>4 DEF ReplyOK, AnswersM1
  <2>6. PICK b, q : b = a /\ q = r
    OBVIOUS
  <2> QED
    BY <1>1, <2>1, <2>3, <2>5, <2>6, AnswerKeeps
<1>8. CASE AnswerVerifyM3
  <2> DEFINE r == [Blank EXCEPT !.proto = "verify", !.n = 4]
  <2>1. r \in Messages /\ r.proto = "verify" /\ r.n = 4
    BY DEF Blank, Messages, Secrets
  <2>2. \/ Answer(accessory, r) /\ sealed' = sealed \cup {letter.mac}
        \/ Answer(accessory, Refusal("verify")) /\ sealed' = sealed
    BY <1>8 DEF AnswerVerifyM3
  <2> HIDE DEF r
  <2>3. \A agreed : ReplyOK(r, agreed, accessory.order) /\ ~AnswersM1(r)
    BY <2>1 DEF ReplyOK, AnswersM1
  <2>4. PICK b : b = accessory
    OBVIOUS
  <2>5. PICK q : q \in {r, Refusal("verify")} /\ Answer(b, q) /\ sealed \subseteq sealed'
    BY <2>2, <2>4
  <2> QED
    BY <1>1, <1>3, <2>3, <2>4, <2>5, AnswerKeeps
<1>9. CASE AnswerFairPlay
  <2> DEFINE r == [Blank EXCEPT !.proto = "fairplay", !.n = letter.n + 1]
  <2>1. r \in Messages /\ r.proto = "fairplay"
    <3>1. PICK k \in Nat : k = letter.n + 1
      BY <1>1
    <3>2. r = [Blank EXCEPT !.proto = "fairplay", !.n = k]
      BY <3>1
    <3>3. [Blank EXCEPT !.proto = "fairplay", !.n = k] \in Messages
      BY DEF Blank, Messages, Secrets
    <3> HIDE DEF r
    <3> QED
      BY <3>2, <3>3 DEF Blank
  <2>2. Answer(accessory, r) /\ sealed' = sealed
    BY <1>9 DEF AnswerFairPlay
  <2> HIDE DEF r
  <2>3. ReplyOK(r, sealed', accessory.order) /\ ~AnswersM1(r)
    BY <2>1 DEF ReplyOK, AnswersM1
  <2>4. PICK b, q : b = accessory /\ q = r
    OBVIOUS
  <2> QED
    BY <1>1, <2>2, <2>3, <2>4, AnswerKeeps
<1>10. CASE RefusePairing
  <2>1. letter.proto \in {"none", "setup", "verify", "fairplay"}
    BY <1>1 DEF Messages
  <2>2. PICK b, q : b = accessory /\ q = Refusal(letter.proto)
    OBVIOUS
  <2>3. Answer(b, q) /\ sealed' = sealed
    BY <1>10, <2>2 DEF RefusePairing
  <2> QED
    BY <1>1, <1>3, <2>1, <2>2, <2>3, AnswerKeeps
<1> QED
  BY <1>4, <1>5, <1>6, <1>7, <1>8, <1>9, <1>10

\* The keys are taken, a session begins anew, the receiver forgets the exchange.
LEMMA OthersKeep ==
  ASSUME PairInv, TakeSessionKeys \/ BeginSession \/ Restart \/ UNCHANGED pairingVars
  PROVE  PairInv'
<1>1. CASE TakeSessionKeys
  <2>1. pairing' = [pairing EXCEPT !.keys = <<>>, !.taken = TRUE] /\ UNCHANGED <<attempts, accessory, letter, replies, sealed>>
    BY <1>1 DEF TakeSessionKeys
  <2>2. SessionRecord(pairing') /\ pairing'.keys = <<>> /\ pairing'.machine = pairing.machine /\ pairing'.stage = pairing.stage
    BY <2>1 DEF PairInv, SessionRecord
  <2> QED
    BY <2>1, <2>2 DEF PairInv, KeysHaveASource
<1>2. CASE BeginSession
  <2>1. /\ attempts' \in 0 .. MaxAttempts /\ pairing' = NewSession /\ letter' = Blank /\ replies' = <<>>
        /\ UNCHANGED <<accessory, sealed>>
    BY <1>2, PairingConstants DEF BeginSession, PairInv
  <2>2. /\ SessionRecord(pairing') /\ pairing'.keys = <<>>
        /\ \A f \in Flows : pairing'.machine[f] = NoMachine /\ pairing'.stage[f] = "NotStarted"
    BY <2>1 DEF NewSession, SessionRecord, Stages
  <2>3. \A f \in Flows : FlowOK(f, pairing'.machine[f], pairing'.stage[f], sealed, accessory.order)
    BY <2>2 DEF FlowOK
  <2>4. replies' \in Seq(Messages) /\ DOMAIN replies' = {}
    BY <2>1
  <2>5. LetterOK(letter', accessory.nonce)
    BY <2>1, PairingConstants DEF LetterOK
  <2> QED
    BY <2>1, <2>2, <2>3, <2>4, <2>5 DEF PairInv, KeysHaveASource
<1>3. CASE Restart
  <2>1. /\ accessory' = [accessory EXCEPT !.secret = <<>>] /\ UNCHANGED <<pairing, attempts, letter, replies, sealed>>
    BY <1>3 DEF Restart
  <2>2. /\ accessory' \in AccessoryShape /\ accessory'.secret = <<>>
        /\ accessory'.nonce = accessory.nonce /\ accessory'.order = accessory.order
    BY <2>1 DEF PairInv, AccessoryShape, Secrets
  <2> QED
    BY <2>1, <2>2 DEF PairInv, KeysHaveASource
<1>4. CASE UNCHANGED pairingVars
  BY <1>4 DEF pairingVars, PairInv, KeysHaveASource
<1> QED
  BY <1>1, <1>2, <1>3, <1>4

LEMMA PairingStarts == PairingInit => PairInv
<1> SUFFICES ASSUME PairingInit PROVE PairInv
  OBVIOUS
<1>1. /\ pairing = NewSession /\ attempts = 0 /\ letter = Blank /\ replies = <<>> /\ sealed = {}
  BY DEF PairingInit
<1>2. PICK i \in DOMAIN Orders : accessory = [nonce |-> 0, secret |-> <<>>, order |-> Orders[i], knows |-> FALSE]
  BY DEF PairingInit
<1>3. accessory \in AccessoryShape /\ accessory.secret = <<>>
  BY <1>2 DEF AccessoryShape, Secrets, OrderNames
<1>4. /\ SessionRecord(pairing) /\ pairing.keys = <<>>
      /\ \A f \in Flows : pairing.machine[f] = NoMachine /\ pairing.stage[f] = "NotStarted"
  BY <1>1 DEF NewSession, SessionRecord, Stages
<1>5. \A f \in Flows : FlowOK(f, pairing.machine[f], pairing.stage[f], sealed, accessory.order)
  BY <1>4 DEF FlowOK
<1>6. replies \in Seq(Messages) /\ DOMAIN replies = {}
  BY <1>1
<1>7. LetterOK(letter, accessory.nonce) /\ attempts \in 0 .. MaxAttempts
  BY <1>1, PairingConstants DEF LetterOK
<1> QED
  BY <1>3, <1>4, <1>5, <1>6, <1>7 DEF PairInv, KeysHaveASource

LEMMA PairingSteps == PairInv /\ [PairingNext]_pairingVars => PairInv'
BY StartsKeep, ContinuesKeep, ConcludesKeep, ReceiverKeeps, OthersKeep DEF PairingNext

LEMMA PairingPromise == PairInv => PairingSafe
<1> SUFFICES ASSUME PairInv PROVE PairingSafe
  OBVIOUS
<1>1. /\ SessionRecord(pairing) /\ accessory \in AccessoryShape /\ KeysHaveASource
      /\ \A f \in Flows : FlowOK(f, pairing.machine[f], pairing.stage[f], sealed, accessory.order)
  BY DEF PairInv
<1>2. ASSUME NEW f \in {"setup", "transient"}
      PROVE  \/ pairing.machine[f] = NoMachine /\ pairing.stage[f] = "NotStarted"
             \/ SetupOK(f, pairing.machine[f], pairing.stage[f], sealed)
  BY <1>1 DEF FlowOK, MachineOK, Flows
<1>3. \/ pairing.machine["verify"] = NoMachine /\ pairing.stage["verify"] = "NotStarted"
      \/ VerifyOK(pairing.machine["verify"], pairing.stage["verify"], accessory.order)
  BY <1>1 DEF FlowOK, MachineOK, Flows
<1>4. \/ pairing.machine["fairplay"] = NoMachine /\ pairing.stage["fairplay"] = "NotStarted"
      \/ FairPlayOK(pairing.machine["fairplay"], pairing.stage["fairplay"])
  BY <1>1 DEF FlowOK, MachineOK, Flows
<1>5. SecretIsAgreed /\ OnlyTheRightPin
  BY <1>2 DEF SecretIsAgreed, OnlyTheRightPin, SetupOK, FailedWaits
<1>6. StageFollowsMachine
  <2> SUFFICES ASSUME NEW f \in Flows, pairing.machine[f].st # "Failed"
               PROVE  CASE pairing.stage[f] = "NotStarted" -> pairing.machine[f].st = "none"
                        [] pairing.stage[f] = "WaitingM2" -> pairing.machine[f].st \in {"M1Sent", "Phase1Sent"}
                        [] pairing.stage[f] = "WaitingM4" -> pairing.machine[f].st \in {"M3Sent", "Phase3Sent"}
                        [] pairing.stage[f] = "WaitingM6" -> pairing.machine[f].st = "M5Sent"
                        [] OTHER -> pairing.machine[f].st = "Complete"
    BY DEF StageFollowsMachine
  <2>1. CASE pairing.machine[f] = NoMachine /\ pairing.stage[f] = "NotStarted"
    BY <2>1 DEF NoMachine
  <2>2. CASE SetupOK(f, pairing.machine[f], pairing.stage[f], sealed)
    BY <2>2 DEF SetupOK, FailedWaits
  <2>3. CASE VerifyOK(pairing.machine[f], pairing.stage[f], accessory.order)
    BY <2>3 DEF VerifyOK, FailedWaits
  <2>4. CASE FairPlayOK(pairing.machine[f], pairing.stage[f])
    BY <2>4 DEF FairPlayOK, FailedWaits
  <2> QED
    BY <1>2, <1>3, <1>4, <2>1, <2>2, <2>3, <2>4 DEF Flows
<1>7. OrderIsLearned
  BY <1>3 DEF OrderIsLearned, VerifyOK, FailedWaits, NoMachine
<1>8. PairingSession
  <2>1. pairing.stage \in [Flows -> {"NotStarted", "WaitingM2", "WaitingM4", "WaitingM6", "Complete"}]
    BY <1>1 DEF SessionRecord, Stages
  <2>2. ASSUME NEW f \in Flows
        PROVE  IF pairing.machine[f] = NoMachine THEN pairing.stage[f] = "NotStarted"
               ELSE pairing.machine[f].st \in MachineStates[f]
    <3>1. CASE f \in {"setup", "transient"}
      BY <1>2, <3>1 DEF SetupOK, SetupMachine, NoMachine, PairSetupState, MachineStates
    <3>2. CASE f = "verify"
      BY <1>3, <3>2 DEF VerifyOK, VerifyMachine, NoMachine, PairVerifyState, MachineStates
    <3>3. CASE f = "fairplay"
      BY <1>4, <3>3 DEF FairPlayOK, FairPlayMachine, NoMachine, FairPlayState, MachineStates
    <3> QED
      BY <3>1, <3>2, <3>3 DEF Flows
  <2> QED
    BY <2>1, <2>2 DEF PairingSession
<1>9. Accessory /\ attempts \in 0 .. MaxAttempts
  BY <1>1 DEF PairInv, Accessory, AccessoryShape, OrderNames
<1> QED
  BY <1>1, <1>5, <1>6, <1>7, <1>8, <1>9 DEF PairingSafe, PairingTypeOK

\* A pairing that completed agreed on its secret with the receiver and used the
\* code it shows, whatever answers were handed in and in which order
\* (pair_setup.rs, pair_verify.rs, session.rs of airplay-pairing).
THEOREM PairingAgrees == PairingSpec => []PairingSafe
<1>1. PairingSpec => []PairInv
  BY PairingStarts, PairingSteps, PTL DEF PairingSpec
<1> QED
  BY <1>1, PairingPromise, PTL
=============================================================================
