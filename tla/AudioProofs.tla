----------------------------- MODULE AudioProofs ------------------------------
(***************************************************************************)
(* Theorems about the audio of a client.  RtpFanout.tla: for any number of *)
(* targets and any delays, control ports and sockets, any set of clocks,   *)
(* any sequence space and any ring that divides it, and any number of      *)
(* frames.  Streamer.tla: for any number of frames and pauses, any queue,  *)
(* batch and water marks.                                                  *)
(***************************************************************************)
EXTENDS RtpFanout, Streamer, WellFoundedInduction, TLAPS

-----------------------------------------------------------------------------
(* The fan-out.                                                            *)

FanSpec == FanInit /\ [][FanNext]_fanVars

-----------------------------------------------------------------------------
(* Remainders.                                                             *)

\* A positive multiple of a number is at least that number.
LEMMA Scale == \A n \in Nat \ {0}, k \in Nat \ {0} : n * k >= n
OBVIOUS

\* Quotient and remainder.
LEMMA DivDef ==
  ASSUME NEW a \in Nat, NEW n \in Nat \ {0}
  PROVE  /\ a % n \in 0..(n - 1) /\ a \div n \in Nat /\ a = n * (a \div n) + (a % n)
OBVIOUS

\* They are unique.
LEMMA DivUnique ==
  ASSUME NEW n \in Nat \ {0}, NEW q \in Nat, NEW r \in 0..(n - 1),
         NEW p \in Nat, NEW s \in 0..(n - 1), n * q + r = n * p + s
  PROVE  q = p /\ r = s
<1>1. n * (q - p) = s - r
  OBVIOUS
<1>2. q - p >= 1 => n * (q - p) >= n
  BY Scale
<1>3. p - q >= 1 => n * (p - q) >= n
  BY Scale
<1>4. n * (p - q) = r - s
  OBVIOUS
<1> QED
  BY <1>1, <1>2, <1>3, <1>4

\* So a decomposition gives the remainder.
LEMMA ModIs ==
  ASSUME NEW n \in Nat \ {0}, NEW q \in Nat, NEW r \in 0..(n - 1)
  PROVE  (n * q + r) % n = r
<1> DEFINE a == n * q + r
<1>1. a \in Nat
  OBVIOUS
<1>0. a = n * q + r
  OBVIOUS
<1> HIDE DEF a
<1> DEFINE p == a \div n
           s == a % n
<1>2. s \in 0..(n - 1) /\ p \in Nat /\ a = n * p + s
  BY <1>1, DivDef
<1> HIDE DEF p, s
<1>3. r = s
  BY <1>0, <1>2, DivUnique
<1> QED
  BY <1>3 DEF s, a

\* A wrapping counter is the remainder of the plain one.
LEMMA ModSucc ==
  ASSUME NEW a \in Nat, NEW n \in Nat \ {0}
  PROVE  ((a % n) + 1) % n = (a + 1) % n
<1> DEFINE q == a \div n
           r == a % n
<1>1. r \in 0..(n - 1) /\ q \in Nat /\ a = n * q + r
  BY DivDef
<1> HIDE DEF q, r
<1>2. CASE r + 1 < n
  <2>1. r + 1 \in 0..(n - 1) /\ a + 1 = n * q + (r + 1)
    BY <1>1, <1>2
  <2>2. (a + 1) % n = r + 1
    BY <1>1, <2>1, ModIs
  <2>3. r + 1 = n * 0 + (r + 1)
    BY <2>1
  <2>4. (r + 1) % n = r + 1
    BY <2>1, <2>3, ModIs
  <2> QED
    BY <2>2, <2>4 DEF r
<1>3. CASE r + 1 = n
  <2>1. a + 1 = n * (q + 1) + 0 /\ r + 1 = n * 1 + 0 /\ 0 \in 0..(n - 1)
    BY <1>1, <1>3
  <2>2. (a + 1) % n = 0
    BY <1>1, <2>1, ModIs
  <2>3. (r + 1) % n = 0
    BY <1>1, <2>1, ModIs
  <2> QED
    BY <2>2, <2>3 DEF r
<1> QED
  BY <1>1, <1>2, <1>3

\* A ring whose size divides the sequence space is indexed by either number.
LEMMA ModMod ==
  ASSUME NEW a \in Nat, NEW n \in Nat \ {0}, NEW m \in Nat \ {0}, n % m = 0
  PROVE  (a % n) % m = a % m
<1> DEFINE q == a \div n
           r == a % n
           k == n \div m
<1>1. r \in 0..(n - 1) /\ q \in Nat /\ a = n * q + r
  BY DivDef
<1>2. k \in Nat /\ n = m * k
  BY DivDef
<1> HIDE DEF q, r, k
<1> DEFINE p == r \div m
           s == r % m
<1>3. p \in Nat /\ s \in 0..(m - 1) /\ r = m * p + s
  <2>1. r \in Nat
    BY <1>1
  <2> QED
    BY <2>1, DivDef
<1> HIDE DEF p, s
<1>4. n * q = m * (k * q)
  <2>1. \A x, y, z \in Nat : (x * y) * z = x * (y * z)
    OBVIOUS
  <2> QED
    BY <1>1, <1>2, <2>1
<1>5. a = m * (k * q + p) + s /\ k * q + p \in Nat
  <2>1. \A x, y, z \in Nat : x * y + x * z = x * (y + z) /\ x * y \in Nat
    OBVIOUS
  <2>2. k * q \in Nat /\ m * (k * q) + m * p = m * (k * q + p)
    BY <1>1, <1>2, <1>3, <2>1
  <2> QED
    BY <1>1, <1>3, <1>4, <2>2
<1>6. a % m = s
  BY <1>3, <1>5, ModIs
<1> QED
  BY <1>6 DEF s, r

\* Two numbers of one residue class are a whole period apart.
LEMMA ModGap ==
  ASSUME NEW a \in Nat, NEW b \in Nat, NEW n \in Nat \ {0}, a % n = b % n, a > b
  PROVE  a >= b + n
<1>1. /\ a = n * (a \div n) + (a % n) /\ b = n * (b \div n) + (b % n)
      /\ a \div n \in Nat /\ b \div n \in Nat /\ a % n \in 0..(n - 1)
  BY DivDef
<1>2. a - b = n * ((a \div n) - (b \div n))
  BY <1>1
<1>3. (a \div n) - (b \div n) >= 1
  BY <1>1, <1>2
<1> QED
  BY <1>1, <1>2, <1>3, Scale

\* And one period further is the same class.
LEMMA ModShift ==
  ASSUME NEW b \in Nat, NEW n \in Nat \ {0}
  PROVE  (b + n) % n = b % n
<1>1. b = n * (b \div n) + (b % n) /\ b \div n \in Nat /\ b % n \in 0..(n - 1)
  BY DivDef
<1>2. b + n = n * ((b \div n) + 1) + (b % n)
  BY <1>1
<1> DEFINE q == (b \div n) + 1
           r == b % n
<1>3. q \in Nat /\ r \in 0..(n - 1) /\ b + n = n * q + r
  BY <1>1, <1>2
<1> HIDE DEF q, r
<1> QED
  BY <1>3, ModIs DEF r

-----------------------------------------------------------------------------
(* The inductive invariant.                                                *)

Published == Clocks \cup {Unsynced}
Slots == 0..(HistorySize - 1)
Histories == [Slots -> {Nothing} \cup Nat]
Senders == [seq : 0..(SeqSpace - 1), syncSeq : 0..(SeqSpace - 1), synced : BOOLEAN,
            history : Histories]

FanTyped ==
  /\ mode \in {"ntp", "ptp"} /\ published \in Published /\ clock \in Published
  /\ wall \in Nat /\ frame \in 0..FanFrames /\ begun \in BOOLEAN
  /\ lastSync \in Nat /\ lastAnchor \in Nat /\ budget \in Int
  /\ sender \in [Targets -> Senders]
  /\ audio \in [Targets -> RtpHeader] /\ sync \in [Targets -> SyncHeader]

\* Every sender counts the frames, and the packet last prepared was everyone's.
InStep ==
  /\ \A t \in Targets : sender[t].seq = frame % SeqSpace
  /\ \A t, u \in Targets : audio[t] = audio[u]

\* A slot holds the newest frame of its residue class, and nothing older than
\* the ring is long.
RingIsNewest ==
  \A t \in Targets, i \in Slots :
    LET f == sender[t].history[i]
    IN  /\ f = Nothing => \A g \in 0..(frame - 1) : g % HistorySize # i
        /\ f # Nothing => f \in 0..(frame - 1) /\ f % HistorySize = i /\ f + HistorySize >= frame

\* The sync packets of the last frame are all absent, or all of one clock at
\* the present wall time.
OneClock ==
  \/ \A t \in Targets : sync[t] = NoSync
  \/ \E c \in Published : \A t \in Targets :
       IF t \in Silent THEN sync[t] = NoSync
       ELSE /\ sync[t].time = Presentation(MasterTime(wall, c), Delays[t])
            /\ sync[t].time <= MaxTime /\ sync[t].clock = c.id /\ sync[t].seq # -1

\* The anchor the next frame is compared with is the last frame's.
AnchorIsLast ==
  frame > 0 /\ (mode = "ntp" \/ clock # Unsynced) => lastAnchor = MasterTime(wall, clock)

AnswersPast ==
  \A i \in DOMAIN answer : /\ answer[i].seq \in 0..(SeqSpace - 1)
                           /\ answer[i].frame \in Int /\ answer[i].frame < frame

FanInv == FanTyped /\ InStep /\ RingIsNewest /\ OneClock /\ AnchorIsLast /\ AnswersPast

-----------------------------------------------------------------------------
(* Clocks, slots and packets.                                              *)

\* A master time is a time.
LEMMA MasterTimes ==
  ASSUME NEW now \in Nat, NEW c \in Published
  PROVE  MasterTime(now, c) \in Nat /\ c.id \in Nat
<1>1. c.id \in Nat /\ c.offset \in Int
  BY FanoutAssumption DEF Published, Unsynced
<1> QED
  BY <1>1, FanoutAssumption DEF MasterTime

\* Delays are natural numbers.
LEMMA DelayTyped == \A t \in Targets : Delays[t] \in Nat
BY FanoutAssumption DEF Targets

\* What the published clock leaves of the bookkeeping.
LEMMA ConsumedTyped ==
  ASSUME FanInv
  PROVE  /\ Consumed.clock = published
         /\ Consumed.anchor \in {0, lastAnchor} /\ Consumed.sync \in {0, lastSync}
         /\ Consumed.sender \in [Targets -> Senders]
         /\ \A t \in Targets : /\ Consumed.sender[t].seq = sender[t].seq
                               /\ Consumed.sender[t].syncSeq = sender[t].syncSeq
                               /\ Consumed.sender[t].history = sender[t].history
         /\ published.id = clock.id =>
              Consumed.anchor = lastAnchor /\ Consumed.sender = sender
         /\ mode = "ptp" /\ published.id # clock.id =>
              \A t \in Targets : Consumed.sender[t].synced = FALSE
<1>t. sender \in [Targets -> Senders]
  BY DEF FanInv, FanTyped
<1> DEFINE reset == [t \in Targets |-> [sender[t] EXCEPT !.synced = FALSE]]
<1>1. /\ reset \in [Targets -> Senders]
      /\ \A t \in Targets : /\ reset[t].seq = sender[t].seq /\ reset[t].syncSeq = sender[t].syncSeq
                            /\ reset[t].history = sender[t].history /\ reset[t].synced = FALSE
  BY <1>t DEF Senders
<1>2. CASE mode = "ptp" /\ published.id # clock.id
  <2>1. Consumed = [clock |-> published, anchor |-> 0, sync |-> 0, sender |-> reset]
    BY <1>2 DEF Consumed
  <2> HIDE DEF reset
  <2> QED
    BY <1>1, <1>2, <2>1
<1>3. CASE ~(mode = "ptp" /\ published.id # clock.id)
  <2>1. Consumed = [clock |-> published, anchor |-> lastAnchor, sync |-> lastSync, sender |-> sender]
    BY <1>3 DEF Consumed
  <2> QED
    BY <1>t, <1>3, <2>1
<1> QED
  BY <1>2, <1>3

\* serialize_audio on every sender: the counters move, and the frame replaces
\* what its slot held.
LEMMA SerializedFacts ==
  ASSUME FanTyped, NEW s \in [Targets -> Senders], NEW isDue \in BOOLEAN, NEW t \in Targets
  PROVE  /\ Serialized(s, isDue)[t] \in Senders
         /\ Serialized(s, isDue)[t].seq = (s[t].seq + 1) % SeqSpace
         /\ Serialized(s, isDue)[t].history = [s[t].history EXCEPT ![s[t].seq % HistorySize] = frame]
<1>0. /\ SeqSpace \in Nat \ {0} /\ HistorySize \in Nat \ {0} /\ FanFrames \in Nat
      /\ \A a \in Nat : a % SeqSpace \in 0..(SeqSpace - 1) /\ a % HistorySize \in Slots
  BY FanoutAssumption, DivDef DEF Slots
<1>1. /\ s[t].seq \in Nat /\ s[t].syncSeq \in Nat /\ s[t].synced \in BOOLEAN
      /\ s[t].history \in Histories /\ s[t].syncSeq \in 0..(SeqSpace - 1)
  BY <1>0 DEF Senders
<1>2. (s[t].seq + 1) % SeqSpace \in 0..(SeqSpace - 1)
      /\ (s[t].syncSeq + 1) % SeqSpace \in 0..(SeqSpace - 1)
  <2>1. s[t].seq + 1 \in Nat /\ s[t].syncSeq + 1 \in Nat
    BY <1>1
  <2> QED
    BY <1>0, <2>1
<1> DEFINE h == [s[t].history EXCEPT ![s[t].seq % HistorySize] = frame]
           n == IF isDue /\ t \notin Silent THEN (s[t].syncSeq + 1) % SeqSpace ELSE s[t].syncSeq
           b == s[t].synced \/ (isDue /\ t \notin Silent)
<1>3. h \in Histories
  <2>1. frame \in {Nothing} \cup Nat /\ s[t].seq % HistorySize \in Slots
    BY <1>0, <1>1 DEF FanTyped
  <2> QED
    BY <1>1, <2>1 DEF Histories
<1>4. n \in 0..(SeqSpace - 1) /\ b \in BOOLEAN
  BY <1>1, <1>2
<1>5. Serialized(s, isDue)[t]
        = [seq |-> (s[t].seq + 1) % SeqSpace, syncSeq |-> n, synced |-> b, history |-> h]
  BY DEF Serialized
<1> HIDE DEF h, n, b
<1>6. Serialized(s, isDue)[t] \in Senders
  BY <1>2, <1>3, <1>4, <1>5 DEF Senders
<1> QED
  BY <1>5, <1>6 DEF h

\* The frame goes to its own slot, whichever counter indexes the ring.
LEMMA SlotOfFrame ==
  ASSUME FanTyped, InStep, NEW t \in Targets
  PROVE  /\ sender[t].seq % HistorySize = frame % HistorySize
         /\ (sender[t].seq + 1) % SeqSpace = (frame + 1) % SeqSpace
<1>1. /\ SeqSpace \in Nat \ {0} /\ HistorySize \in Nat \ {0} /\ SeqSpace % HistorySize = 0
      /\ frame \in Nat /\ sender[t].seq = frame % SeqSpace
  BY FanoutAssumption DEF FanTyped, InStep
<1>2. (frame % SeqSpace) % HistorySize = frame % HistorySize
  BY <1>1, ModMod
<1>3. ((frame % SeqSpace) + 1) % SeqSpace = (frame + 1) % SeqSpace
  BY <1>1, ModSucc
<1> QED
  BY <1>1, <1>2, <1>3

\* The ring stays newest when the frame is entered.
LEMMA RingAdvances ==
  ASSUME NEW n \in Nat, NEW h \in Histories, NEW i \in Slots,
         \A j \in Slots :
           /\ h[j] = Nothing => \A g \in 0..(n - 1) : g % HistorySize # j
           /\ h[j] # Nothing => h[j] \in 0..(n - 1) /\ h[j] % HistorySize = j /\ h[j] + HistorySize >= n
  PROVE  LET f == [h EXCEPT ![n % HistorySize] = n][i]
         IN  /\ f = Nothing => \A g \in 0..n : g % HistorySize # i
             /\ f # Nothing => f \in 0..n /\ f % HistorySize = i /\ f + HistorySize >= n + 1
<1>0. HistorySize \in Nat \ {0} /\ n % HistorySize \in Slots
  BY FanoutAssumption, DivDef DEF Slots
<1>1. CASE i = n % HistorySize
  <2>1. [h EXCEPT ![n % HistorySize] = n][i] = n
    BY <1>1 DEF Histories
  <2> QED
    BY <1>0, <1>1, <2>1 DEF Nothing
<1>2. CASE i # n % HistorySize
  <2>1. [h EXCEPT ![n % HistorySize] = n][i] = h[i]
    BY <1>2 DEF Histories
  <2>2. CASE h[i] = Nothing
    <3>1. \A g \in 0..n : g % HistorySize # i
      BY <1>2, <2>2
    <3> QED
      BY <2>1, <2>2, <3>1
  <2>3. CASE h[i] # Nothing
    <3>1. h[i] \in 0..(n - 1) /\ h[i] % HistorySize = i /\ h[i] + HistorySize >= n
      BY <2>3
    <3>2. h[i] + HistorySize # n
      <4>1. h[i] \in Nat
        BY <3>1
      <4>2. (h[i] + HistorySize) % HistorySize = h[i] % HistorySize
        BY <1>0, <4>1, ModShift
      <4> QED
        BY <1>2, <3>1, <4>2
    <3>3. \A x \in 0..(n - 1) : x + HistorySize >= n /\ x + HistorySize # n
            => x \in 0..n /\ x + HistorySize >= n + 1
      BY <1>0
    <3>4. h[i] \in 0..n /\ h[i] + HistorySize >= n + 1
      BY <3>1, <3>2, <3>3
    <3> QED
      BY <2>1, <2>3, <3>1, <3>4
  <2> QED
    BY <2>2, <2>3
<1> QED
  BY <1>1, <1>2

-----------------------------------------------------------------------------
(* Sockets, slots and resends.                                             *)

\* Every socket of the sender thread belongs to a target.
LEMMA SocketsOfTargets ==
  ASSUME NEW k \in DOMAIN SendTargets
  PROVE  SendTargets[k] \in Targets
<1>1. PICK t \in Bound : k = PlaceOf(t)
  BY DEF SendTargets
<1>2. SendTargets[k] = CHOOSE u \in Bound : PlaceOf(u) = k
  BY DEF SendTargets
<1> QED
  BY <1>1, <1>2 DEF Bound

\* The frames sent under a sequence number.
Newest(q) == {f \in 0..(frame - 1) : f % SeqSpace = q}

\* A set of naturals with an upper bound has the maximum Max chooses.
LEMMA MaxChosen ==
  ASSUME NEW n \in Nat, NEW S, S \subseteq 0..(n - 1), S # {}
  PROVE  Max(S) \in S /\ \A g \in S : Max(S) >= g
<1> DEFINE T == {d \in 0..(n - 1) : n - 1 - d \in S}
           Less == {p \in Nat \X Nat : p[1] < p[2]}
<1>1. PICK g \in S : g \in 0..(n - 1)
  OBVIOUS
<1>2. n - 1 - g \in T
  BY <1>1
<1>3. T \subseteq Nat /\ T # {}
  <2>1. \A d \in T : d \in Nat
    OBVIOUS
  <2>2. T # {}
    BY <1>2
  <2> HIDE DEF T
  <2> QED
    BY <2>1, <2>2
<1>l. \A x, y \in Nat : x < y => <<x, y>> \in Less
  OBVIOUS
<1>w. IsWellFoundedOn(Less, Nat)
  BY NatLessThanWellFounded DEF OpToRel
<1>4. PICK d \in T : \A e \in T : ~(<<e, d>> \in Less)
  <2> HIDE DEF T, Less
  <2> QED
    BY <1>3, <1>w, WFMin
<1>5. \A e \in T : ~(e < d)
  BY <1>3, <1>4, <1>l
<1>6. \A h \in S : n - 1 - h \in T
  OBVIOUS
<1>7. n - 1 - d \in S /\ \A h \in S : n - 1 - d >= h
  BY <1>3, <1>5, <1>6
<1> QED
  BY <1>7 DEF Max

\* The slot of a sequence number answers for every frame of that number.
LEMMA LookupIsNewest ==
  ASSUME FanInv, NEW t \in Targets, NEW q \in 0..(SeqSpace - 1)
  PROVE  Lookup(t, q) = IF Newest(q) # {} /\ Max(Newest(q)) + HistorySize >= frame
                        THEN Max(Newest(q)) ELSE Nothing
<1>a. /\ SeqSpace \in Nat \ {0} /\ HistorySize \in Nat \ {0} /\ SeqSpace % HistorySize = 0
      /\ frame \in Nat /\ q \in Nat
  BY FanoutAssumption DEF FanInv, FanTyped
<1>b. SeqSpace >= HistorySize
  <2>1. SeqSpace = HistorySize * (SeqSpace \div HistorySize) /\ SeqSpace \div HistorySize \in Nat
    BY <1>a, DivDef
  <2>2. SeqSpace \div HistorySize # 0
    BY <1>a, <2>1
  <2> QED
    BY <1>a, <2>1, <2>2, Scale
<1> DEFINE i == q % HistorySize
           f == sender[t].history[i]
<1>1. i \in Slots
  BY <1>a, DivDef DEF Slots
<1>2. /\ f = Nothing => \A g \in 0..(frame - 1) : g % HistorySize # i
      /\ f # Nothing => f \in 0..(frame - 1) /\ f % HistorySize = i /\ f + HistorySize >= frame
  BY <1>1 DEF FanInv, RingIsNewest
<1>3. Lookup(t, q) = IF f # Nothing /\ f % SeqSpace = q THEN f ELSE Nothing
  BY DEF Lookup
<1>4. \A g \in Newest(q) : g \in 0..(frame - 1) /\ g % SeqSpace = q /\ g % HistorySize = i
  <2> SUFFICES ASSUME NEW g \in Newest(q) PROVE g % HistorySize = i
    BY DEF Newest
  <2>1. g \in Nat /\ g % SeqSpace = q
    BY <1>a DEF Newest
  <2> QED
    BY <1>a, <2>1, ModMod
<1>5. Newest(q) # {} => Max(Newest(q)) \in Newest(q) /\ \A g \in Newest(q) : Max(Newest(q)) >= g
  BY <1>a, MaxChosen DEF Newest
<1> HIDE DEF i, f
<1>6. CASE f # Nothing /\ f % SeqSpace = q
  <2>1. f \in Newest(q) /\ f \in Nat
    BY <1>2, <1>6 DEF Newest
  <2>2. ASSUME NEW g \in Newest(q) PROVE ~(g > f)
    <3>1. g \in 0..(frame - 1) /\ g % SeqSpace = q
      BY <1>4
    <3>2. g \in Nat
      BY <3>1
    <3>3. g > f => g >= f + SeqSpace
      BY <1>a, <1>6, <2>1, <3>1, <3>2, ModGap
    <3>4. f + HistorySize >= frame /\ g < frame
      BY <1>a, <1>2, <1>6, <3>1
    <3> QED
      BY <1>a, <1>b, <2>1, <3>2, <3>3, <3>4
  <2> DEFINE m == Max(Newest(q))
  <2>3. m \in Newest(q) /\ m >= f /\ m \in 0..(frame - 1)
    <3>1. m \in Newest(q) /\ m >= f
      BY <1>5, <2>1
    <3> HIDE DEF m
    <3> QED
      BY <1>4, <3>1
  <2>4. ~(m > f)
    BY <2>2, <2>3
  <2>5. m = f
    <3> HIDE DEF m
    <3> QED
      BY <2>1, <2>3, <2>4
  <2> QED
    BY <1>2, <1>3, <1>6, <2>1, <2>5
<1>7. CASE ~(f # Nothing /\ f % SeqSpace = q)
  <2>1. Lookup(t, q) = Nothing
    BY <1>3, <1>7
  <2>2. ASSUME NEW g \in Newest(q) PROVE g + HistorySize < frame
    <3>1. g \in 0..(frame - 1) /\ g % SeqSpace = q /\ g % HistorySize = i
      BY <1>4
    <3>2. f # Nothing /\ f % SeqSpace # q
      BY <1>2, <1>7, <3>1
    <3>3. f \in 0..(frame - 1) /\ f % HistorySize = i /\ f + HistorySize >= frame
      BY <1>2, <3>2
    <3>4. f # g
      BY <3>1, <3>2
    <3>5. f \in Nat /\ g \in Nat /\ f < frame /\ g < frame
      BY <1>a, <3>1, <3>3
    <3>6. g > f => g >= f + HistorySize
      BY <1>a, <3>1, <3>3, <3>5, ModGap
    <3>7. f > g => f >= g + HistorySize
      BY <1>a, <3>1, <3>3, <3>5, ModGap
    <3>8. f + HistorySize >= frame
      BY <3>3
    <3> QED
      BY <1>a, <3>4, <3>5, <3>6, <3>7, <3>8
  <2>3. ~(Newest(q) # {} /\ Max(Newest(q)) + HistorySize >= frame)
    <3>1. \A g \in Newest(q) : g \in Nat
      BY <1>4
    <3> QED
      BY <1>a, <1>5, <2>2, <3>1
  <2> QED
    BY <2>1, <2>3
<1> QED
  BY <1>6, <1>7

\* What a request is answered with.
LEMMA AnswerFacts ==
  ASSUME FanInv, NEW t \in Targets, NEW r \in RetransmitRequest, NEW i \in DOMAIN Requested(t, r)
  PROVE  LET a == Requested(t, r)[i]
         IN  /\ a.seq \in 0..(SeqSpace - 1) /\ a.frame = Lookup(t, a.seq)
             /\ a.frame \in Int /\ a.frame < frame
<1>a. /\ SeqSpace \in Nat \ {0} /\ HistorySize \in Nat \ {0} /\ frame \in Nat
      /\ \A a \in Nat : a % SeqSpace \in 0..(SeqSpace - 1) /\ a % HistorySize \in Slots
  BY FanoutAssumption, DivDef DEF FanInv, FanTyped, Slots
<1>1. r.first \in 0..(SeqSpace - 1) /\ r.count \in 1..2
  BY DEF RetransmitRequest
<1>2. i \in 1..r.count
  BY DEF Requested
<1>3. r.first + i - 1 \in Nat
  BY <1>a, <1>1, <1>2
<1> DEFINE q == (r.first + i - 1) % SeqSpace
<1>4. q \in 0..(SeqSpace - 1)
  BY <1>a, <1>3
<1>5. Requested(t, r)[i] = [seq |-> q, frame |-> Lookup(t, q)]
  BY <1>2 DEF Requested, Response
<1> HIDE DEF q
<1>6. Lookup(t, q) \in Int /\ Lookup(t, q) < frame
  <2>1. q % HistorySize \in Slots
    <3>1. q \in Nat
      BY <1>4
    <3> QED
      BY <1>a, <3>1
  <2> DEFINE f == sender[t].history[q % HistorySize]
  <2>2. f # Nothing => f \in 0..(frame - 1)
    BY <2>1 DEF FanInv, RingIsNewest
  <2>3. Lookup(t, q) = f \/ Lookup(t, q) = Nothing
    BY DEF Lookup
  <2> HIDE DEF f
  <2>4. f \in Int /\ f < frame
    BY <1>a, <2>2 DEF Nothing
  <2> QED
    BY <1>a, <2>3, <2>4 DEF Nothing
<1> QED
  BY <1>4, <1>5, <1>6

-----------------------------------------------------------------------------
(* Every step keeps the invariant.                                         *)

\* No packet was sent, no slot is taken.
LEMMA FanInitially == FanInit => FanInv
<1> SUFFICES ASSUME FanInit PROVE FanInv
  OBVIOUS
<1> USE DEF FanInit
<1>a. /\ SeqSpace \in Nat \ {0} /\ HistorySize \in Nat \ {0} /\ FanFrames \in Nat /\ MaxSteps \in Nat
  BY FanoutAssumption
<1>1. FreshSender \in Senders
  BY <1>a DEF FreshSender, Senders, Histories, Slots, Nothing
<1>2. /\ sender \in [Targets -> Senders]
      /\ \A t \in Targets : sender[t].seq = 0 /\ \A i \in Slots : sender[t].history[i] = Nothing
  BY <1>1 DEF FreshSender, Slots
<1>3. audio \in [Targets -> RtpHeader] /\ sync \in [Targets -> SyncHeader]
  BY <1>a DEF RtpHeader, SyncHeader, NoSync, Nothing
<1>4. begun \in BOOLEAN
  OBVIOUS
<1>5. FanTyped
  <2>1. /\ mode \in {"ntp", "ptp"} /\ published \in Published /\ clock \in Published
        /\ wall \in Nat /\ lastSync \in Nat /\ lastAnchor \in Nat
    BY DEF Published
  <2>2. frame \in 0..FanFrames /\ budget \in Int
    BY <1>a
  <2> QED
    BY <1>2, <1>3, <1>4, <2>1, <2>2 DEF FanTyped
<1>6. 0 % SeqSpace = 0
  <2>1. 0 = SeqSpace * 0 + 0 /\ 0 \in 0..(SeqSpace - 1)
    BY <1>a
  <2> QED
    BY <1>a, <2>1, ModIs
<1>7. InStep
  BY <1>2, <1>6 DEF InStep
<1>8. RingIsNewest
  BY <1>2 DEF RingIsNewest
<1> QED
  BY <1>5, <1>7, <1>8 DEF FanInv, OneClock, AnchorIsLast, AnswersPast

\* The sync packets of one frame.
LEMMA SyncTyped ==
  ASSUME FanInv, NEW now \in Nat, NEW t \in Targets,
         \A u \in Targets : Representable(MasterTime(now, published), Delays[u], Consumed.anchor)
  PROVE  LET p == SyncPacket(t, MasterTime(now, published), Consumed, Consumed.sender)
         IN  /\ p \in SyncHeader
             /\ t \in Silent => p = NoSync
             /\ t \notin Silent =>
                  /\ p.time = Presentation(MasterTime(now, published), Delays[t])
                  /\ p.time <= MaxTime /\ p.clock = published.id /\ p.seq # -1
                  /\ p.ext = ~Consumed.sender[t].synced
<1>a. SeqSpace \in Nat \ {0} /\ Lead \in Nat /\ MaxTime \in Nat
  BY FanoutAssumption
<1>1. NoSync \in SyncHeader
  BY <1>a DEF NoSync, SyncHeader
<1> DEFINE anchor == MasterTime(now, published)
<1>2. anchor \in Nat /\ Delays[t] \in Nat /\ published.id \in Nat
  BY MasterTimes, DelayTyped DEF FanInv, FanTyped
<1>3. /\ Consumed.sender[t].synced \in BOOLEAN /\ Consumed.clock = published
      /\ Consumed.sender[t].syncSeq \in 0..(SeqSpace - 1)
  BY ConsumedTyped DEF Senders
<1> HIDE DEF anchor
<1>4. Presentation(anchor, Delays[t]) \in Nat
  BY <1>a, <1>2 DEF Presentation
<1>5. Presentation(anchor, Delays[t]) <= MaxTime
  BY DEF Representable, anchor
<1> DEFINE q == [time |-> Presentation(anchor, Delays[t]), clock |-> published.id,
                 ext |-> ~Consumed.sender[t].synced, seq |-> Consumed.sender[t].syncSeq]
<1>6. q \in SyncHeader /\ q.seq # -1
  BY <1>a, <1>2, <1>3, <1>4 DEF SyncHeader
<1>7. SyncPacket(t, anchor, Consumed, Consumed.sender) = IF t \in Silent THEN NoSync ELSE q
  BY <1>3 DEF SyncPacket
<1> QED
  BY <1>1, <1>5, <1>6, <1>7 DEF anchor

\* What a prepared frame is, once its inputs are named.
LEMMA PrepareIs ==
  ASSUME NEW by \in {1, -2}, FanInv, Prepare(by)
  PROVE  \E emit \in BOOLEAN :
           /\ emit = (Due(Consumed) /\ \A t \in Targets :
                 Representable(MasterTime(wall', published), Delays[t], Consumed.anchor))
           /\ frame < FanFrames /\ wall' = wall + by /\ wall' \in Nat /\ budget' \in Int
           /\ clock' = published
           /\ audio' = [t \in Targets |-> [seq |-> sender[t].seq, ts |-> frame, marker |-> ~begun]]
           /\ sync' = [t \in Targets |->
                IF emit THEN SyncPacket(t, MasterTime(wall', published), Consumed, Consumed.sender)
                ELSE NoSync]
           /\ sender' = Serialized(Consumed.sender, emit)
           /\ lastSync' = (IF emit THEN frame ELSE Consumed.sync)
           /\ lastAnchor' = (IF Ready(Consumed) THEN MasterTime(wall', published)
                             ELSE Consumed.anchor)
           /\ begun' = TRUE /\ frame' = frame + 1 /\ answer' = <<>> /\ UNCHANGED <<mode, published>>
<1>0. wall \in Nat /\ budget \in Int /\ wall + by \in Int
  BY DEF FanInv, FanTyped
<1>1. /\ Consumed.clock = published
      /\ \A t \in Targets : Consumed.sender[t].seq = sender[t].seq
  BY ConsumedTyped
<1> DEFINE emit == Due(Consumed) /\ \A t \in Targets :
                     Representable(MasterTime(wall + by, published), Delays[t], Consumed.anchor)
<1>2. /\ frame < FanFrames /\ wall' = wall + by /\ wall' >= 0
      /\ budget' = (IF by < 0 THEN budget - 1 ELSE budget)
      /\ clock' = published
      /\ audio' = [t \in Targets |-> [seq |-> Consumed.sender[t].seq, ts |-> frame,
                                      marker |-> ~begun]]
      /\ sync' = [t \in Targets |->
           IF emit THEN SyncPacket(t, MasterTime(wall + by, published), Consumed, Consumed.sender)
           ELSE NoSync]
      /\ sender' = Serialized(Consumed.sender, emit)
      /\ lastSync' = (IF emit THEN frame ELSE Consumed.sync)
      /\ lastAnchor' = (IF Ready(Consumed) THEN MasterTime(wall + by, published)
                        ELSE Consumed.anchor)
      /\ begun' = TRUE /\ frame' = frame + 1 /\ answer' = <<>> /\ UNCHANGED <<mode, published>>
  BY <1>1 DEF Prepare
<1>3. wall' \in Nat /\ budget' \in Int
  BY <1>0, <1>2
<1>4. audio' = [t \in Targets |-> [seq |-> sender[t].seq, ts |-> frame, marker |-> ~begun]]
  BY <1>1, <1>2
<1>5. emit \in BOOLEAN /\ emit = (Due(Consumed) /\ \A t \in Targets :
                     Representable(MasterTime(wall', published), Delays[t], Consumed.anchor))
  BY <1>2
<1> HIDE DEF emit
<1> QED
  BY <1>2, <1>3, <1>4, <1>5

\* A prepared frame.
LEMMA PrepareKeeps ==
  ASSUME NEW by \in {1, -2}, FanInv, Prepare(by)
  PROVE  FanInv'
<1>1. PICK emit \in BOOLEAN :
        /\ emit = (Due(Consumed) /\ \A t \in Targets :
              Representable(MasterTime(wall', published), Delays[t], Consumed.anchor))
        /\ frame < FanFrames /\ wall' = wall + by /\ wall' \in Nat /\ budget' \in Int
        /\ clock' = published
        /\ audio' = [t \in Targets |-> [seq |-> sender[t].seq, ts |-> frame, marker |-> ~begun]]
        /\ sync' = [t \in Targets |->
             IF emit THEN SyncPacket(t, MasterTime(wall', published), Consumed, Consumed.sender)
             ELSE NoSync]
        /\ sender' = Serialized(Consumed.sender, emit)
        /\ lastSync' = (IF emit THEN frame ELSE Consumed.sync)
        /\ lastAnchor' = (IF Ready(Consumed) THEN MasterTime(wall', published)
                          ELSE Consumed.anchor)
        /\ begun' = TRUE /\ frame' = frame + 1 /\ answer' = <<>> /\ UNCHANGED <<mode, published>>
  BY PrepareIs
<1>a. SeqSpace \in Nat \ {0} /\ HistorySize \in Nat \ {0} /\ FanFrames \in Nat
  BY FanoutAssumption
<1>2. /\ FanTyped /\ InStep /\ frame \in 0..FanFrames /\ published \in Published
      /\ begun \in BOOLEAN /\ mode \in {"ntp", "ptp"} /\ lastSync \in Nat /\ lastAnchor \in Nat
  BY DEF FanInv, FanTyped
<1>3. /\ Consumed.sender \in [Targets -> Senders]
      /\ Consumed.anchor \in Nat /\ Consumed.sync \in Nat /\ Consumed.clock = published
      /\ \A t \in Targets : /\ Consumed.sender[t].seq = sender[t].seq
                            /\ Consumed.sender[t].history = sender[t].history
  BY <1>2, ConsumedTyped
<1>4. \A t \in Targets :
        /\ sender'[t] \in Senders
        /\ sender'[t].seq = frame' % SeqSpace
        /\ sender'[t].history = [sender[t].history EXCEPT ![frame % HistorySize] = frame]
  <2> SUFFICES ASSUME NEW t \in Targets
               PROVE  /\ sender'[t] \in Senders
                      /\ sender'[t].seq = frame' % SeqSpace
                      /\ sender'[t].history = [sender[t].history EXCEPT ![frame % HistorySize] = frame]
    OBVIOUS
  <2>1. /\ sender'[t] \in Senders
        /\ sender'[t].seq = (sender[t].seq + 1) % SeqSpace
        /\ sender'[t].history
             = [sender[t].history EXCEPT ![sender[t].seq % HistorySize] = frame]
    <3> DEFINE s == Consumed.sender
    <3>1. s \in [Targets -> Senders] /\ s[t].seq = sender[t].seq
          /\ s[t].history = sender[t].history
      BY <1>3
    <3>2. sender' = Serialized(s, emit)
      BY <1>1
    <3> HIDE DEF s
    <3>3. /\ Serialized(s, emit)[t] \in Senders
          /\ Serialized(s, emit)[t].seq = (s[t].seq + 1) % SeqSpace
          /\ Serialized(s, emit)[t].history = [s[t].history EXCEPT ![s[t].seq % HistorySize] = frame]
      BY <1>2, <3>1, SerializedFacts
    <3> QED
      BY <3>1, <3>2, <3>3
  <2>2. /\ sender[t].seq % HistorySize = frame % HistorySize
        /\ (sender[t].seq + 1) % SeqSpace = (frame + 1) % SeqSpace
    BY <1>2, SlotOfFrame
  <2> QED
    BY <1>1, <2>1, <2>2
<1>5. sync' \in [Targets -> SyncHeader]
  <2>1. NoSync \in SyncHeader
    BY <1>a DEF NoSync, SyncHeader
  <2>2. CASE emit
    <3>1. \A t \in Targets :
            SyncPacket(t, MasterTime(wall', published), Consumed, Consumed.sender) \in SyncHeader
      BY <1>1, <2>2, SyncTyped
    <3> QED
      BY <1>1, <2>2, <3>1
  <2>3. CASE ~emit
    BY <1>1, <2>1, <2>3
  <2> QED
    BY <2>2, <2>3
<1>6. audio' \in [Targets -> RtpHeader]
  <2> SUFFICES ASSUME NEW t \in Targets
               PROVE  [seq |-> sender[t].seq, ts |-> frame, marker |-> ~begun] \in RtpHeader
    BY <1>1
  <2>1. sender[t].seq \in -1..(SeqSpace - 1) /\ frame \in -1..FanFrames
    BY <1>a, <1>2 DEF FanTyped, Senders
  <2>2. (~begun) \in BOOLEAN
    OBVIOUS
  <2> QED
    BY <2>1, <2>2 DEF RtpHeader
<1>7. FanTyped'
  <2>1. frame' \in 0..FanFrames /\ frame \in Nat
    <3>1. frame < FanFrames /\ frame' = frame + 1 /\ frame \in 0..FanFrames
      BY <1>1, <1>2
    <3> QED
      BY <1>a, <3>1
  <2>2. sender' \in [Targets -> Senders]
    <3>1. sender' = [t \in Targets |-> sender'[t]]
      BY <1>1 DEF Serialized
    <3> QED
      BY <1>4, <3>1
  <2>3. lastAnchor' \in Nat /\ lastSync' \in Nat
    <3>1. MasterTime(wall', published) \in Nat
      BY <1>1, <1>2, MasterTimes
    <3> QED
      BY <1>1, <1>3, <2>1, <3>1
  <2>4. /\ mode' \in {"ntp", "ptp"} /\ published' \in Published /\ clock' \in Published
        /\ wall' \in Nat /\ begun' \in BOOLEAN /\ budget' \in Int
    BY <1>1, <1>2
  <2> QED
    BY <1>5, <1>6, <2>1, <2>2, <2>3, <2>4 DEF FanTyped
<1>8. InStep'
  <2>1. \A t, u \in Targets : audio'[t] = audio'[u]
    <3>1. \A t, u \in Targets : sender[t].seq = sender[u].seq
      BY <1>2 DEF InStep
    <3> QED
      BY <1>1, <3>1
  <2> QED
    BY <1>4, <2>1 DEF InStep
<1>9. RingIsNewest'
  <2> SUFFICES ASSUME NEW t \in Targets, NEW i \in Slots
               PROVE  LET f == sender'[t].history[i]
                      IN  /\ f = Nothing => \A g \in 0..(frame' - 1) : g % HistorySize # i
                          /\ f # Nothing => /\ f \in 0..(frame' - 1) /\ f % HistorySize = i
                                            /\ f + HistorySize >= frame'
    BY DEF RingIsNewest
  <2>1. sender[t].history \in Histories /\ frame \in Nat
    BY <1>2 DEF FanTyped, Senders
  <2>2. \A j \in Slots :
          /\ sender[t].history[j] = Nothing => \A g \in 0..(frame - 1) : g % HistorySize # j
          /\ sender[t].history[j] # Nothing =>
               /\ sender[t].history[j] \in 0..(frame - 1)
               /\ sender[t].history[j] % HistorySize = j
               /\ sender[t].history[j] + HistorySize >= frame
    BY DEF FanInv, RingIsNewest
  <2>3. LET f == [sender[t].history EXCEPT ![frame % HistorySize] = frame][i]
        IN  /\ f = Nothing => \A g \in 0..frame : g % HistorySize # i
            /\ f # Nothing => /\ f \in 0..frame /\ f % HistorySize = i
                              /\ f + HistorySize >= frame + 1
    BY <2>1, <2>2, RingAdvances
  <2>4. frame' = frame + 1 /\ frame' - 1 = frame
    BY <1>1, <2>1
  <2> QED
    BY <1>4, <2>3, <2>4
<1>10. OneClock'
  <2>1. CASE emit
    <3>1. \A t \in Targets :
            IF t \in Silent THEN sync'[t] = NoSync
            ELSE /\ sync'[t].time = Presentation(MasterTime(wall', published), Delays[t])
                 /\ sync'[t].time <= MaxTime /\ sync'[t].clock = published.id /\ sync'[t].seq # -1
      BY <1>1, <2>1, SyncTyped
    <3> QED
      BY <1>2, <3>1 DEF OneClock, Published
  <2>2. CASE ~emit
    BY <1>1, <2>2 DEF OneClock
  <2> QED
    BY <2>1, <2>2
<1>11. AnchorIsLast'
  BY <1>1, <1>3 DEF AnchorIsLast, Ready
<1>12. AnswersPast'
  BY <1>1 DEF AnswersPast
<1> QED
  BY <1>7, <1>8, <1>9, <1>10, <1>11, <1>12 DEF FanInv

\* A publication changes nothing a frame is built from until it is consumed; a
\* flush only unsynchronises; a request reads the rings.
LEMMA FanStep ==
  ASSUME FanInv, [FanNext]_fanVars
  PROVE  FanInv'
<1>1. ASSUME NEW c \in Clocks \cup {Unsynced}, Publish(c) PROVE FanInv'
  <2>1. published' \in Published /\ budget' \in Int
    BY <1>1 DEF Publish, Published, FanInv, FanTyped
  <2>2. UNCHANGED <<mode, clock, wall, frame, begun, lastSync, lastAnchor, sender, audio, sync>>
        /\ answer' = <<>>
    BY <1>1 DEF Publish
  <2> QED
    BY <2>1, <2>2 DEF FanInv, FanTyped, InStep, RingIsNewest, OneClock, AnchorIsLast, AnswersPast
<1>2. ASSUME NEW by \in {1, -2}, Prepare(by) PROVE FanInv'
  BY <1>2, PrepareKeeps
<1>3. ASSUME FlushReset PROVE FanInv'
  <2>1. UNCHANGED <<mode, published, clock, wall, frame, lastSync, lastAnchor, audio, sync,
                    budget>> /\ begun' \in BOOLEAN /\ answer' = <<>>
    BY <1>3 DEF FlushReset
  <2>2. /\ sender' \in [Targets -> Senders]
        /\ \A t \in Targets : sender'[t].seq = sender[t].seq
                              /\ sender'[t].history = sender[t].history
    BY <1>3 DEF FlushReset, FanInv, FanTyped, Senders
  <2>3. FanTyped'
    BY <2>1, <2>2 DEF FanInv, FanTyped
  <2>4. InStep' /\ RingIsNewest'
    BY <2>1, <2>2 DEF FanInv, InStep, RingIsNewest
  <2>5. OneClock' /\ AnchorIsLast' /\ AnswersPast'
    BY <2>1 DEF FanInv, OneClock, AnchorIsLast, AnswersPast
  <2> QED
    BY <2>3, <2>4, <2>5 DEF FanInv
<1>4. ASSUME NEW t \in Targets, NEW r \in RetransmitRequest, Retransmit(t, r) PROVE FanInv'
  <2>1. UNCHANGED <<mode, published, clock, wall, frame, begun, lastSync, lastAnchor, sender,
                    audio, sync, budget>> /\ answer' = Requested(t, r)
    BY <1>4 DEF Retransmit
  <2>2. FanTyped' /\ InStep' /\ RingIsNewest' /\ OneClock' /\ AnchorIsLast'
    BY <2>1 DEF FanInv, FanTyped, InStep, RingIsNewest, OneClock, AnchorIsLast
  <2>3. ASSUME NEW i \in DOMAIN answer'
        PROVE  /\ answer'[i].seq \in 0..(SeqSpace - 1)
               /\ answer'[i].frame \in Int /\ answer'[i].frame < frame
    BY <1>4, <2>1, <2>3, AnswerFacts
  <2> QED
    BY <2>1, <2>2, <2>3 DEF FanInv, AnswersPast
<1>5. CASE UNCHANGED fanVars
  BY <1>5 DEF fanVars, FanInv, FanTyped, InStep, RingIsNewest, OneClock, AnchorIsLast, AnswersPast
<1> QED
  BY <1>1, <1>2, <1>3, <1>4, <1>5 DEF FanNext

-----------------------------------------------------------------------------
(* What the invariant says of the properties.                              *)

\* Counters in range and a history of what was sent; one stream; no torn sync.
LEMMA FanInvSafe == FanInv => FanSafe
<1> SUFFICES ASSUME FanInv PROVE FanSafe
  OBVIOUS
<1>a. /\ SeqSpace \in Nat \ {0} /\ Lead \in Nat /\ MaxTime \in Nat
      /\ FanTyped /\ InStep /\ OneClock /\ frame \in Nat
  BY FanoutAssumption DEF FanInv, FanTyped
<1>1. RtpSender
  <2> SUFFICES ASSUME NEW t \in Targets
               PROVE  /\ sender[t].seq \in 0..(SeqSpace - 1)
                      /\ sender[t].syncSeq \in 0..(SeqSpace - 1)
                      /\ \A i \in DOMAIN sender[t].history :
                           sender[t].history[i] \in {Nothing} \cup 0..(frame - 1)
    BY DEF RtpSender
  <2>1. sender[t] \in Senders
    BY <1>a DEF FanTyped
  <2>2. DOMAIN sender[t].history = Slots
    BY <2>1 DEF Senders, Histories
  <2>3. \A i \in Slots : sender[t].history[i] \in {Nothing} \cup 0..(frame - 1)
    BY DEF FanInv, RingIsNewest
  <2> QED
    BY <2>1, <2>2, <2>3 DEF Senders
<1>2. PreparedFrame
  BY <1>a DEF FanInv, FanTyped, AnswersPast, PreparedFrame
<1>b. \/ \A t \in Targets : sync[t] = NoSync
      \/ \E c \in Published :
           /\ MasterTime(wall, c) \in Nat
           /\ \A t \in Targets :
                IF t \in Silent THEN sync[t] = NoSync
                ELSE /\ sync[t].time = Presentation(MasterTime(wall, c), Delays[t])
                     /\ sync[t].time <= MaxTime /\ sync[t].clock = c.id /\ sync[t] # NoSync
  <2>1. \A c \in Published : MasterTime(wall, c) \in Nat
    BY <1>a, MasterTimes DEF FanTyped
  <2>2. \A t \in Targets : sync[t].seq # -1 => sync[t] # NoSync
    BY DEF NoSync
  <2> QED
    BY <1>a, <2>1, <2>2 DEF OneClock
<1>3. OneSharedStream
  <2>1. \A t, u \in Targets : audio[t] = audio[u] /\ sender[t].seq = frame % SeqSpace
    BY <1>a DEF InStep
  <2>2. ASSUME NEW t \in Targets \ Silent, NEW u \in Targets \ Silent
        PROVE  /\ (sync[t] = NoSync) <=> (sync[u] = NoSync)
               /\ (sync[t] # NoSync) => /\ sync[t].time - Delays[t] = sync[u].time - Delays[u]
                                        /\ sync[t].clock = sync[u].clock
    <3>1. Delays[t] \in Nat /\ Delays[u] \in Nat
      BY DelayTyped
    <3> QED
      BY <1>a, <1>b, <3>1 DEF Presentation
  <2> QED
    BY <2>1, <2>2 DEF OneSharedStream
<1>4. OwnPacketsOnly
  <2> SUFFICES ASSUME NEW k \in DOMAIN SendTargets, NEW j \in DOMAIN SendTargets,
                      PacketFor(k, sync) # NoSync, PacketFor(j, sync) # NoSync
               PROVE  PacketFor(k, sync).time - PacketFor(j, sync).time
                        = PacketFor(k, Delays) - PacketFor(j, Delays)
    BY DEF OwnPacketsOnly
  <2>1. SendTargets[k] \in Targets /\ SendTargets[j] \in Targets
    BY SocketsOfTargets
  <2>2. Delays[SendTargets[k]] \in Nat /\ Delays[SendTargets[j]] \in Nat
    BY <2>1, DelayTyped
  <2> QED
    BY <1>a, <1>b, <2>1, <2>2 DEF PacketFor, Presentation
<1>5. NoTornSync
  BY <1>b DEF NoTornSync, Published
<1> QED
  BY <1>1, <1>2, <1>3, <1>4, <1>5 DEF FanSafe

\* A receiver whose master changes is told to start over: consuming the new
\* identity clears first_sync_sent before the frame's packets are built.
LEMMA RestartStep ==
  ASSUME FanInv, [FanNext]_fanVars
  PROVE  NewMasterRestartsSync
<1> SUFFICES ASSUME NEW t \in Targets \ Silent,
                    sync'[t] # NoSync, mode = "ptp", clock'.id # clock.id
             PROVE  sync'[t].ext
  BY DEF NewMasterRestartsSync
<1>1. PICK by \in {1, -2} : Prepare(by)
  BY DEF FanNext, Publish, FlushReset, Retransmit, fanVars
<1>2. PICK emit \in BOOLEAN :
        /\ emit = (Due(Consumed) /\ \A u \in Targets :
              Representable(MasterTime(wall', published), Delays[u], Consumed.anchor))
        /\ wall' \in Nat /\ clock' = published
        /\ sync' = [u \in Targets |->
             IF emit THEN SyncPacket(u, MasterTime(wall', published), Consumed, Consumed.sender)
             ELSE NoSync]
  BY <1>1, PrepareIs
<1>3. emit /\ sync'[t] = SyncPacket(t, MasterTime(wall', published), Consumed, Consumed.sender)
  BY <1>2
<1>4. sync'[t].ext = ~Consumed.sender[t].synced
  BY <1>2, <1>3, SyncTyped
<1>5. Consumed.sender[t].synced = FALSE
  BY <1>2, ConsumedTyped
<1> QED
  BY <1>4, <1>5

\* Once the clock advances past the last anchor, the sync that is due is sent.
LEMMA RecoverStep ==
  ASSUME FanInv, [FanNext]_fanVars
  PROVE  SyncRecovers
<1> SUFFICES ASSUME frame' = frame + 1, published = clock, Due(Consumed), frame > 0,
                    MasterTime(wall', clock) > MasterTime(wall, clock),
                    \A t \in Targets : Presentation(MasterTime(wall', clock), Delays[t]) <= MaxTime,
                    NEW t \in Targets \ Silent
             PROVE  sync'[t] # NoSync
  BY DEF SyncRecovers
<1>a. /\ Lead \in Nat /\ frame \in Nat /\ wall \in Nat /\ clock \in Published
      /\ published \in Published
  BY FanoutAssumption DEF FanInv, FanTyped
<1>1. PICK by \in {1, -2} : Prepare(by)
  BY <1>a DEF FanNext, Publish, FlushReset, Retransmit, fanVars
<1>2. PICK emit \in BOOLEAN :
        /\ emit = (Due(Consumed) /\ \A u \in Targets :
              Representable(MasterTime(wall', published), Delays[u], Consumed.anchor))
        /\ wall' \in Nat
        /\ sync' = [u \in Targets |->
             IF emit THEN SyncPacket(u, MasterTime(wall', published), Consumed, Consumed.sender)
             ELSE NoSync]
  BY <1>1, PrepareIs
<1>3. Consumed.anchor = MasterTime(wall, clock)
  <2>1. Consumed.clock = published /\ Consumed.anchor = lastAnchor
    BY ConsumedTyped
  <2>2. mode = "ntp" \/ clock # Unsynced
    BY <2>1 DEF Due, Ready
  <2> QED
    BY <2>1, <2>2 DEF FanInv, AnchorIsLast
<1>4. MasterTime(wall', clock) \in Nat /\ MasterTime(wall, clock) \in Nat
  BY <1>a, <1>2, MasterTimes
<1>5. \A u \in Targets : Representable(MasterTime(wall', published), Delays[u], Consumed.anchor)
  <2> SUFFICES ASSUME NEW u \in Targets
               PROVE  Representable(MasterTime(wall', published), Delays[u], Consumed.anchor)
    OBVIOUS
  <2>1. Delays[u] \in Nat
    BY DelayTyped
  <2>2. Presentation(MasterTime(wall', clock), Delays[u]) > MasterTime(wall, clock)
    BY <1>a, <1>4, <2>1 DEF Presentation
  <2> QED
    BY <1>3, <2>2 DEF Representable
<1>6. emit
  BY <1>2, <1>5
<1>7. sync'[t].seq # -1
  BY <1>2, <1>5, <1>6, SyncTyped
<1> QED
  BY <1>7 DEF NoSync

\* What is resent is the newest packet of its number, and nothing is resent
\* only if the ring has passed it.
LEMMA ResendStep ==
  ASSUME FanInv, [FanNext]_fanVars
  PROVE  RetransmitIsTruthful
<1> SUFFICES ASSUME answer' # answer, NEW i \in DOMAIN answer'
             PROVE  LET newest == {f \in 0..(frame - 1) : f % SeqSpace = answer'[i].seq}
                    IN  answer'[i].frame = IF newest # {} /\ Max(newest) + HistorySize >= frame
                                           THEN Max(newest) ELSE Nothing
  BY DEF RetransmitIsTruthful
<1>0. answer' # <<>>
  OBVIOUS
<1>1. PICK t \in Targets, r \in RetransmitRequest : Retransmit(t, r)
  BY <1>0 DEF FanNext, Publish, FlushReset, Prepare, fanVars
<1>2. answer'[i].seq \in 0..(SeqSpace - 1) /\ answer'[i].frame = Lookup(t, answer'[i].seq)
  BY <1>1, AnswerFacts DEF Retransmit
<1> DEFINE q == answer'[i].seq
<1>3. q \in 0..(SeqSpace - 1)
  BY <1>2
<1> HIDE DEF q
<1>4. Lookup(t, q) = IF Newest(q) # {} /\ Max(Newest(q)) + HistorySize >= frame
                     THEN Max(Newest(q)) ELSE Nothing
  BY <1>3, LookupIsNewest
<1> QED
  BY <1>2, <1>4 DEF Newest, q

-----------------------------------------------------------------------------
(* The theorems.                                                           *)

\* FanInv in every reachable state.
LEMMA FanInvariant == FanSpec => []FanInv
<1>1. FanInit => FanInv
  BY FanInitially
<1>2. FanInv /\ [FanNext]_fanVars => FanInv'
  BY FanStep
<1> QED
  BY <1>1, <1>2, PTL DEF FanSpec

\* Every receiver plays the same stream by one published clock: packets are
\* shared, counters and rings agree, a sync packet is never torn, and a socket
\* carries its own receiver's packets.
THEOREM OneStreamForAll == FanSpec => []FanSafe
<1>1. FanInv => FanSafe
  BY FanInvSafe
<1> QED
  BY <1>1, FanInvariant, PTL

\* Each step of the fan-out keeps sync and retransmission truthful: a new
\* master restarts a receiver's sync, a due sync is sent as soon as the clock
\* advances, and a resent packet is the newest under its number.
THEOREM SyncAndResendTruthful == FanSpec => FanStepsSound
<1>1. FanInv /\ [FanNext]_fanVars
        => [NewMasterRestartsSync /\ SyncRecovers /\ RetransmitIsTruthful]_fanVars
  BY RestartStep, RecoverStep, ResendStep
<1> QED
  BY <1>1, FanInvariant, PTL DEF FanSpec, FanStepsSound

-----------------------------------------------------------------------------
(* Frames on their way: the wire, the queue, the blocking send, the buffer *)
(* and the source are one line, and a frame only moves forward in it.      *)

IsPacket(m) == m[1] = "Packet"
Rising(s) == \A i, j \in 1 .. Len(s) : i < j => s[i] < s[j]
Below(s, x) == \A i \in 1 .. Len(s) : s[i] < x
\* The same of the packets of a queue, which control messages do not disturb.
QueueRising(c) == \A i, j \in 1 .. Len(c) : (i < j /\ IsPacket(c[i]) /\ IsPacket(c[j])) => c[i][2] < c[j][2]
QueueBelow(c, x) == \A i \in 1 .. Len(c) : IsPacket(c[i]) => c[i][2] < x
QueueAfter(c, s) == \A i \in 1 .. Len(c) : IsPacket(c[i]) => Below(s, c[i][2])
NoPackets(c) == \A i \in 1 .. Len(c) : ~IsPacket(c[i])
\* Queue d holds no packet but those of c, in the places they had or one further on.
PartOf(d, c) == \E k \in {0, 1} : \A i \in 1 .. Len(d) : IsPacket(d[i]) => (i + k \in 1 .. Len(c) /\ d[i] = c[i + k])

InLine ==
  /\ Rising(wire) /\ QueueRising(channel) /\ Rising(buffer)
  /\ QueueAfter(channel, wire)
  /\ sent # NoMessage => Below(wire, sent[2]) /\ QueueBelow(channel, sent[2]) /\ sent[2] < supply.next
  /\ \A k \in 1 .. Len(buffer) :
       Below(wire, buffer[k]) /\ QueueBelow(channel, buffer[k]) /\ (sent # NoMessage => sent[2] < buffer[k])
  /\ Below(wire, supply.next) /\ QueueBelow(channel, supply.next) /\ Below(buffer, supply.next)

Frames == 1 .. MaxFrames
PlayTyped ==
  /\ buffer \in Seq(Frames) /\ wire \in Seq(Frames) /\ channel \in Seq(SenderMessage)
  /\ sent \in {Packet(f) : f \in Frames} \cup {NoMessage}
  /\ handle \in BOOLEAN /\ clone \in {"none", "connection", "group"}
  /\ gate \in {"none", "armed", "released", "lost"} /\ late \in Nat
  /\ supply \in [kind : {"file", "live"}, next : 1 .. MaxFrames + 1, closed : BOOLEAN]

\* What each stage of the task and of its owner rules out.
Stages ==
  /\ task \in {"none", "gated", "loop"} => sent = NoMessage
  /\ owner = "idle" => /\ gate = "none" /\ wire = <<>> /\ channel = <<>> /\ thread = "none"
                       /\ buffer = <<>> /\ sent = NoMessage /\ supply.next = 1 /\ supply.kind = "file"
  /\ owner \in {"stopped", "dropped"} => task = "over"
  /\ thread = "none" => sent = NoMessage

\* Until its release a gated task touches neither the queue nor the wire.
Gated ==
  /\ task = "gated" => gate # "none"
  /\ gate \in {"armed", "lost"} => task \in {"gated", "over"} /\ sent = NoMessage /\ wire = <<>> /\ NoPackets(channel)

\* What the tail may still hold: the queue and the send under way.
Pending == Len(channel) + (IF sent = NoMessage THEN 0 ELSE 1)
TailAccounted == IF owner \in {"stopped", "dropped"} THEN late + Pending <= ChannelCapacity + 1 ELSE late = 0

StreamInv == StreamTypeOK /\ PlayTyped /\ Stages /\ Gated /\ TailAccounted /\ InLine

-----------------------------------------------------------------------------
(* Messages and sequences of them.                                         *)

LEMMA MessageKinds ==
  /\ \A m \in SenderMessage : IsPacket(m) => m[2] \in Frames /\ m = Packet(m[2])
  /\ \A c \in {"Pause", "Resume", "Stop"} : Control(c) \in SenderMessage /\ ~IsPacket(Control(c))
  /\ \A f \in Frames : Packet(f) \in SenderMessage /\ IsPacket(Packet(f)) /\ Packet(f)[2] = f /\ Packet(f) # NoMessage
  /\ ~IsPacket(NoMessage)
BY DEF SenderMessage, IsPacket, Packet, Control, Frames, NoMessage

\* Leaving packets out keeps every order.
LEMMA PartKeeps ==
  ASSUME NEW c \in Seq(SenderMessage), NEW d \in Seq(SenderMessage), PartOf(d, c)
  PROVE  /\ QueueRising(c) => QueueRising(d)
         /\ \A x \in Nat : QueueBelow(c, x) => QueueBelow(d, x)
         /\ \A s \in Seq(Frames) : QueueAfter(c, s) => QueueAfter(d, s)
         /\ NoPackets(c) => NoPackets(d)
<1>1. PICK k \in {0, 1} : \A i \in 1 .. Len(d) : IsPacket(d[i]) => (i + k \in 1 .. Len(c) /\ d[i] = c[i + k])
  BY DEF PartOf
<1>2. QueueRising(c) => QueueRising(d)
  BY <1>1 DEF QueueRising
<1>3. \A x \in Nat : QueueBelow(c, x) => QueueBelow(d, x)
  BY <1>1 DEF QueueBelow
<1>4. \A s \in Seq(Frames) : QueueAfter(c, s) => QueueAfter(d, s)
  BY <1>1 DEF QueueAfter
<1>5. NoPackets(c) => NoPackets(d)
  BY <1>1 DEF NoPackets
<1> QED
  BY <1>2, <1>3, <1>4, <1>5

\* A queue, its rest, nothing, and the queue with a control message are parts of it.
LEMMA Parts ==
  ASSUME NEW c \in Seq(SenderMessage)
  PROVE  /\ PartOf(c, c) /\ PartOf(<<>>, c)
         /\ c # <<>> => PartOf(Tail(c), c) /\ Tail(c) \in Seq(SenderMessage) /\ Len(Tail(c)) = Len(c) - 1
         /\ \A m \in SenderMessage : /\ Append(c, m) \in Seq(SenderMessage) /\ Len(Append(c, m)) = Len(c) + 1
                                     /\ ~IsPacket(m) => PartOf(Append(c, m), c)
<1>1. PartOf(c, c) /\ PartOf(<<>>, c)
  BY DEF PartOf
<1>2. ASSUME c # <<>> PROVE PartOf(Tail(c), c) /\ Tail(c) \in Seq(SenderMessage) /\ Len(Tail(c)) = Len(c) - 1
  <2>1. \A i \in 1 .. Len(Tail(c)) : i + 1 \in 1 .. Len(c) /\ Tail(c)[i] = c[i + 1]
    BY <1>2
  <2> QED
    BY <2>1, <1>2 DEF PartOf
<1>3. ASSUME NEW m \in SenderMessage
      PROVE  /\ Append(c, m) \in Seq(SenderMessage) /\ Len(Append(c, m)) = Len(c) + 1
             /\ ~IsPacket(m) => PartOf(Append(c, m), c)
  <2>1. /\ Append(c, m) \in Seq(SenderMessage) /\ Len(Append(c, m)) = Len(c) + 1
        /\ \A i \in 1 .. Len(c) : Append(c, m)[i] = c[i]
        /\ Append(c, m)[Len(c) + 1] = m
    OBVIOUS
  <2>2. ASSUME ~IsPacket(m), NEW i \in 1 .. Len(Append(c, m)), IsPacket(Append(c, m)[i])
        PROVE  i + 0 \in 1 .. Len(c) /\ Append(c, m)[i] = c[i + 0]
    BY <2>1, <2>2
  <2> QED
    BY <2>1, <2>2 DEF PartOf
<1> QED
  BY <1>1, <1>2, <1>3

\* A control message is queued or lost.
LEMMA Offered ==
  ASSUME channel \in Seq(SenderMessage), Len(channel) <= ChannelCapacity, NEW m \in {"Pause", "Resume", "Stop"}
  PROVE  LET c == Offer(channel, Control(m))
         IN /\ c \in Seq(SenderMessage) /\ PartOf(c, channel) /\ Len(c) <= ChannelCapacity
            /\ Len(c) >= Len(channel) /\ Len(c) <= Len(channel) + 1
            /\ thread \notin {"run", "paused"} => c = channel
<1>1. Control(m) \in SenderMessage /\ ~IsPacket(Control(m))
  BY MessageKinds
<1>2. /\ Append(channel, Control(m)) \in Seq(SenderMessage) /\ Len(Append(channel, Control(m))) = Len(channel) + 1
      /\ PartOf(Append(channel, Control(m)), channel) /\ PartOf(channel, channel)
  BY <1>1, Parts
<1>3. ChannelCapacity \in Nat /\ Len(channel) \in Nat
  BY StreamerAssumption
<1> QED
  BY <1>2, <1>3 DEF Offer

\* One sequence after another.
LEMMA Joined ==
  ASSUME NEW b \in Seq(Frames), NEW e \in Seq(Frames)
  PROVE  /\ b \o e \in Seq(Frames) /\ Len(b \o e) = Len(b) + Len(e)
         /\ \A k \in 1 .. Len(b) : (b \o e)[k] = b[k]
         /\ \A k \in 1 .. Len(b) + Len(e) : k > Len(b) => k - Len(b) \in 1 .. Len(e) /\ (b \o e)[k] = e[k - Len(b)]
OBVIOUS

\* Decoding puts the next frames of the source behind those of the buffer.
LEMMA DecodedFrames ==
  ASSUME NEW b \in Seq(Frames), NEW x \in 1 .. MaxFrames + 1, NEW n \in Nat, x + n <= MaxFrames + 1,
         Rising(b), Below(b, x)
  PROVE  LET d == b \o [i \in 1 .. n |-> x + i - 1]
         IN /\ d \in Seq(Frames) /\ Len(d) = Len(b) + n /\ Rising(d) /\ Below(d, x + n)
            /\ \A k \in 1 .. Len(d) : d[k] >= x \/ \E l \in 1 .. Len(b) : d[k] = b[l]
<1> DEFINE e == [i \in 1 .. n |-> x + i - 1]
           d == b \o e
<1>1. MaxFrames \in Nat /\ x \in Nat
  BY StreamerAssumption
<1>2. e \in Seq(Frames) /\ Len(e) = n /\ \A i \in 1 .. n : e[i] = x + i - 1
  <2>1. \A i \in 1 .. n : x + i - 1 \in Frames
    BY <1>1 DEF Frames
  <2> QED
    BY <2>1
<1> HIDE DEF e
<1>3. /\ d \in Seq(Frames) /\ Len(d) = Len(b) + n
      /\ \A k \in 1 .. Len(b) : d[k] = b[k]
      /\ \A k \in 1 .. Len(d) : k > Len(b) => k - Len(b) \in 1 .. n /\ d[k] = e[k - Len(b)]
  <2>1. e \in Seq(Frames) /\ Len(e) = n
    BY <1>2
  <2>2. /\ d \in Seq(Frames) /\ Len(d) = Len(b) + Len(e)
        /\ \A k \in 1 .. Len(b) : d[k] = b[k]
        /\ \A k \in 1 .. Len(b) + Len(e) : k > Len(b) => k - Len(b) \in 1 .. Len(e) /\ d[k] = e[k - Len(b)]
    BY <2>1, Joined, Zenon
  <2> HIDE DEF d
  <2> QED
    BY <2>1, <2>2
<1>4. \A k \in 1 .. Len(d) : k > Len(b) => d[k] = x + (k - Len(b)) - 1
  BY <1>2, <1>3
<1>5. \A i \in 1 .. Len(b) : b[i] \in Nat
  <2>1. \A i \in 1 .. Len(b) : b[i] \in Frames
    OBVIOUS
  <2> QED
    BY <2>1, <1>1 DEF Frames
<1> HIDE DEF d
<1>6. Rising(d)
  BY <1>1, <1>3, <1>4, <1>5 DEF Rising, Below
<1>7. Below(d, x + n)
  BY <1>1, <1>3, <1>4, <1>5 DEF Below
<1>8. \A k \in 1 .. Len(d) : d[k] >= x \/ \E l \in 1 .. Len(b) : d[k] = b[l]
  BY <1>1, <1>3, <1>4
<1> QED
  BY <1>3, <1>6, <1>7, <1>8 DEF d, e

-----------------------------------------------------------------------------
(* The steps.                                                              *)

StreamTyped == StreamTypeOK /\ PlayTyped
\* All of the invariant but the order of the frames.
StreamShape == StreamTyped /\ Stages /\ Gated /\ TailAccounted

LEMMA StreamInvParts == StreamInv <=> StreamShape /\ InLine
BY DEF StreamInv, StreamShape, StreamTyped

LEMMA StreamTypeParts == StreamTypeOK <=> StreamerInner /\ AudioStreamer /\ SenderThread
BY DEF StreamTypeOK

\* A step that takes frames out of the line keeps the line.
LEMMA LineThins ==
  ASSUME StreamInv, PlayTyped', wire' = wire, PartOf(channel', channel), sent' \in {sent, NoMessage},
         buffer' \in {buffer, <<>>}, supply'.next >= supply.next
  PROVE  InLine'
<1>1. /\ channel \in Seq(SenderMessage) /\ channel' \in Seq(SenderMessage) /\ wire \in Seq(Frames)
      /\ supply.next \in Nat /\ supply'.next \in Nat /\ buffer \in Seq(Frames) /\ MaxFrames \in Nat
  BY StreamerAssumption DEF StreamInv, PlayTyped
<1>2. /\ QueueRising(channel) => QueueRising(channel')
      /\ \A x \in Nat : QueueBelow(channel, x) => QueueBelow(channel', x)
      /\ \A s \in Seq(Frames) : QueueAfter(channel, s) => QueueAfter(channel', s)
  BY <1>1, PartKeeps
<1>3. Rising(buffer') /\ Below(buffer', supply.next)
  BY <1>1 DEF StreamInv, InLine, Rising, Below
<1>4. \A s \in Seq(Frames) : Below(s, supply.next) => Below(s, supply'.next)
  <2>1. \A s \in Seq(Frames) : \A i \in 1 .. Len(s) : s[i] \in Frames
    OBVIOUS
  <2> QED
    BY <2>1, <1>1 DEF Below, Frames
<1>5. QueueBelow(channel', supply'.next)
  <2>1. \A i \in 1 .. Len(channel') : IsPacket(channel'[i]) => channel'[i][2] \in Frames
    BY <1>1, MessageKinds
  <2>2. QueueBelow(channel', supply.next)
    BY <1>1, <1>2 DEF StreamInv, InLine
  <2>3. \A f \in Frames : f < supply.next => f < supply'.next
    BY <1>1 DEF Frames
  <2> QED
    BY <2>1, <2>2, <2>3 DEF QueueBelow
<1>6. sent' # NoMessage => Below(wire', sent'[2]) /\ QueueBelow(channel', sent'[2]) /\ sent'[2] < supply'.next
  <2>1. sent # NoMessage => sent[2] \in Nat
    BY <1>1, MessageKinds DEF StreamInv, PlayTyped, Frames
  <2> QED
    BY <1>1, <1>2, <2>1 DEF StreamInv, InLine
<1>7. \A k \in 1 .. Len(buffer') :
         Below(wire', buffer'[k]) /\ QueueBelow(channel', buffer'[k]) /\ (sent' # NoMessage => sent'[2] < buffer'[k])
  <2>1. \A k \in 1 .. Len(buffer) : buffer[k] \in Nat
    BY <1>1, Frames \subseteq Nat DEF Frames
  <2> QED
    BY <1>1, <1>2, <2>1 DEF StreamInv, InLine
<1>8. Below(buffer', supply'.next) /\ Below(wire', supply'.next)
  <2>1. buffer' \in Seq(Frames) /\ wire' \in Seq(Frames)
    BY DEF PlayTyped
  <2> QED
    BY <1>3, <1>4, <2>1 DEF StreamInv, InLine
<1>9. Rising(wire') /\ QueueRising(channel') /\ QueueAfter(channel', wire')
  BY <1>1, <1>2 DEF StreamInv, InLine
<1> QED
  BY <1>3, <1>5, <1>6, <1>7, <1>8, <1>9 DEF InLine

\* A round decodes no more than the source still has, and never overfills the buffer.
LEMMA RoundDecodes ==
  ASSUME StreamInv, NEW n \in 0 .. DecodeBatch, Round(n)
  PROVE  /\ supply.next + n \in 1 .. MaxFrames + 1 /\ supply'.next = supply.next + n
         /\ supply' \in [kind : {"file", "live"}, next : 1 .. MaxFrames + 1, closed : BOOLEAN]
         /\ supply'.kind = supply.kind
         /\ Decoded(n) \in Seq(Frames) /\ Len(Decoded(n)) = Len(buffer) + n /\ Len(Decoded(n)) < LowWater + DecodeBatch
         /\ Rising(Decoded(n)) /\ Below(Decoded(n), supply.next + n)
         /\ \A k \in 1 .. Len(Decoded(n)) : Decoded(n)[k] >= supply.next \/ \E l \in 1 .. Len(buffer) : Decoded(n)[k] = buffer[l]
<1>1. /\ supply \in [kind : {"file", "live"}, next : 1 .. MaxFrames + 1, closed : BOOLEAN]
      /\ buffer \in Seq(Frames) /\ Len(buffer) < LowWater + DecodeBatch /\ Rising(buffer) /\ Below(buffer, supply.next)
  BY DEF StreamInv, PlayTyped, InLine, StreamTypeOK, StreamerInner
<1>2. n \in Nat /\ MaxFrames \in Nat /\ DecodeBatch \in Nat \ {0} /\ LowWater \in Nat
  BY StreamerAssumption
<1>3. n # 0 => Len(buffer) < LowWater /\ n \in Decodable
  BY <1>2 DEF Round
<1>4. supply.next + n <= MaxFrames + 1
  BY <1>1, <1>2, <1>3 DEF Decodable, Left
<1>5. supply' = [supply EXCEPT !.next = @ + n]
  BY DEF Round
<1>6. /\ Decoded(n) \in Seq(Frames) /\ Len(Decoded(n)) = Len(buffer) + n
      /\ Rising(Decoded(n)) /\ Below(Decoded(n), supply.next + n)
      /\ \A k \in 1 .. Len(Decoded(n)) : Decoded(n)[k] >= supply.next \/ \E l \in 1 .. Len(buffer) : Decoded(n)[k] = buffer[l]
  BY <1>1, <1>2, <1>4, DecodedFrames DEF Decoded
<1>7. Len(Decoded(n)) < LowWater + DecodeBatch
  BY <1>1, <1>2, <1>3, <1>6
<1>8. /\ supply.next + n \in 1 .. MaxFrames + 1 /\ supply'.next = supply.next + n
      /\ supply' \in [kind : {"file", "live"}, next : 1 .. MaxFrames + 1, closed : BOOLEAN]
      /\ supply'.kind = supply.kind
  BY <1>1, <1>2, <1>4, <1>5
<1> QED
  BY <1>6, <1>7, <1>8

\* The steps that leave the queue, the send and the wire alone.
LEMMA QuietSteps ==
  ASSUME StreamInv,
         \/ Release \/ GateOpens \/ LoopFails \/ ThreadDisconnects \/ ResetAfterFlush \/ ListenerEnds
         \/ FeedCloses \/ StopEnds \/ Drop
  PROVE  StreamInv'
<1>1. ChannelCapacity \in Nat /\ MaxFrames \in Nat \ {0} /\ LowWater \in Nat \ {0} /\ DecodeBatch \in Nat \ {0}
  BY StreamerAssumption
<1>2. channel' = channel /\ sent' = sent /\ wire' = wire /\ buffer' \in {buffer, <<>>} /\ late' = late
  BY DEF Release, GateOpens, LoopFails, ThreadDisconnects, ResetAfterFlush, ListenerEnds, FeedCloses, StopEnds, Drop
<1>3. supply' \in [kind : {"file", "live"}, next : 1 .. MaxFrames + 1, closed : BOOLEAN] /\ supply'.next >= supply.next
  <2>1. /\ supply \in [kind : {"file", "live"}, next : 1 .. MaxFrames + 1, closed : BOOLEAN]
        /\ supply.next <= MaxFrames + 1
    BY <1>1 DEF StreamInv, PlayTyped
  <2>2. CASE FeedCloses
    <3>1. supply' = [[supply EXCEPT !.closed = TRUE] EXCEPT !.next = MaxFrames + 1]
      BY <2>1, <2>2 DEF FeedCloses
    <3>2. [supply EXCEPT !.closed = TRUE] \in [kind : {"file", "live"}, next : 1 .. MaxFrames + 1, closed : BOOLEAN]
      BY <2>1
    <3>3. MaxFrames + 1 \in 1 .. MaxFrames + 1
      BY <1>1
    <3> QED
      BY <1>1, <2>1, <3>1, <3>2, <3>3
  <2>3. CASE StopEnds
    BY <1>1, <2>1, <2>3 DEF StopEnds
  <2>4. CASE supply' = supply
    BY <1>1, <2>1, <2>4
  <2> QED
    BY <2>2, <2>3, <2>4 DEF Release, GateOpens, LoopFails, ThreadDisconnects, ResetAfterFlush, ListenerEnds, Drop
<1>4. handle' \in BOOLEAN /\ clone' \in {"none", "connection", "group"} /\ gate' \in {"none", "armed", "released", "lost"}
  BY DEF StreamInv, PlayTyped, Release, GateOpens, LoopFails, ThreadDisconnects, ResetAfterFlush,
         ListenerEnds, FeedCloses, StopEnds, Drop
<1>5. PlayTyped'
  <2>1. buffer' \in Seq(Frames)
    <3>1. buffer \in Seq(Frames) /\ <<>> \in Seq(Frames)
      BY DEF StreamInv, PlayTyped
    <3> QED
      BY <1>2, <3>1
  <2> QED
    BY <1>2, <1>3, <1>4, <2>1 DEF StreamInv, PlayTyped
<1>6. InLine'
  <2>1. PartOf(channel', channel)
    BY <1>2, Parts DEF StreamInv, PlayTyped
  <2> QED
    BY <1>2, <1>3, <1>5, <2>1, LineThins
<1>7. StreamerInner'
  <2>1. inner' \in StreamerState
    BY DEF StreamInv, StreamTypeOK, StreamerInner, StreamerState, Release, GateOpens, LoopFails, ThreadDisconnects,
           ResetAfterFlush, ListenerEnds, FeedCloses, StopEnds, Drop
  <2>2. supply'.kind \in {"file", "live"} /\ supply'.next \in 1 .. MaxFrames + 1
    BY <1>3
  <2>3. Len(buffer') < LowWater + DecodeBatch
    BY <1>1, <1>2 DEF StreamInv, StreamTypeOK, StreamerInner
  <2>4. \A i \in DOMAIN buffer' : buffer'[i] < supply'.next
    BY <1>5, <1>6 DEF PlayTyped, InLine, Below
  <2> QED
    BY <2>1, <2>2, <2>3, <2>4 DEF StreamerInner
<1>8. AudioStreamer'
  BY <1>2 DEF StreamInv, StreamTypeOK, AudioStreamer, StreamerState, Stages, PlayTyped, Release, GateOpens, LoopFails,
         ThreadDisconnects, ResetAfterFlush, ListenerEnds, FeedCloses, StopEnds, Drop
<1>9. SenderThread'
  BY <1>2 DEF StreamInv, StreamTypeOK, SenderThread, Release, GateOpens, LoopFails,
         ThreadDisconnects, ResetAfterFlush, ListenerEnds, FeedCloses, StopEnds, Drop
<1>10. Stages'
  BY <1>2 DEF StreamInv, StreamTypeOK, AudioStreamer, Stages, Release, GateOpens, LoopFails,
         ThreadDisconnects, ResetAfterFlush, ListenerEnds, FeedCloses, StopEnds, Drop
<1>11. Gated'
  BY <1>2 DEF StreamInv, StreamTypeOK, AudioStreamer, Gated, Release, GateOpens, LoopFails,
         ThreadDisconnects, ResetAfterFlush, ListenerEnds, FeedCloses, StopEnds, Drop
<1>12. TailAccounted'
  <2>1. Len(channel) \in Nat /\ Len(channel) <= ChannelCapacity
    BY DEF StreamInv, PlayTyped, StreamTypeOK, SenderThread
  <2> QED
    BY <1>1, <1>2, <2>1 DEF StreamInv, TailAccounted, Pending, Release, GateOpens, LoopFails,
         ThreadDisconnects, ResetAfterFlush, ListenerEnds, FeedCloses, StopEnds, Drop
<1> QED
  BY <1>5, <1>6, <1>7, <1>8, <1>9, <1>10, <1>11, <1>12 DEF StreamInv, StreamTypeOK

\* The steps that offer a control message to the thread.
LEMMA OfferSteps ==
  ASSUME StreamInv, LoopEnds \/ Pause \/ Resume \/ Stop
  PROVE  StreamInv'
<1>1. ChannelCapacity \in Nat /\ MaxFrames \in Nat \ {0}
  BY StreamerAssumption
<1>2. sent' = sent /\ wire' = wire /\ buffer' = buffer /\ late' = late /\ supply' = supply /\ gate' = gate
      /\ clone' = clone /\ thread' = thread /\ handle' \in BOOLEAN
  BY DEF StreamInv, PlayTyped, LoopEnds, Pause, Resume, Stop
<1>3. PICK m \in {"Pause", "Resume", "Stop"} : channel' \in {channel, Offer(channel, Control(m))}
  BY DEF LoopEnds, Pause, Resume, Stop
<1>4. channel \in Seq(SenderMessage) /\ Len(channel) <= ChannelCapacity
  BY DEF StreamInv, PlayTyped, StreamTypeOK, SenderThread
<1>5. /\ channel' \in Seq(SenderMessage) /\ PartOf(channel', channel) /\ Len(channel') <= ChannelCapacity
      /\ thread \notin {"run", "paused"} => channel' = channel
  BY <1>1, <1>3, <1>4, Offered, Parts
<1>6. PlayTyped'
  BY <1>2, <1>5 DEF StreamInv, PlayTyped
<1>7. InLine'
  BY <1>1, <1>2, <1>5, <1>6, LineThins DEF StreamInv, PlayTyped
<1>8. StreamerInner'
  BY <1>2 DEF StreamInv, StreamTypeOK, StreamerInner, StreamerState, LoopEnds, Pause, Resume, Stop
<1>9. AudioStreamer'
  BY <1>2 DEF StreamInv, StreamTypeOK, AudioStreamer, StreamerState, Stages, PlayTyped, LoopEnds, Pause, Resume, Stop
<1>10. SenderThread'
  <2>1. \A i \in DOMAIN channel' : channel'[i] \in SenderMessage
    BY <1>5
  <2> QED
    BY <1>2, <1>5, <2>1 DEF StreamInv, StreamTypeOK, SenderThread
<1>11. Stages'
  BY <1>2, <1>5 DEF StreamInv, StreamTypeOK, AudioStreamer, Stages, LoopEnds, Pause, Resume, Stop
<1>12. Gated'
  <2>1. NoPackets(channel) => NoPackets(channel')
    BY <1>4, <1>5, PartKeeps
  <2> QED
    BY <1>2, <2>1 DEF StreamInv, Gated, LoopEnds, Pause, Resume, Stop
<1>13. TailAccounted'
  <2>1. owner' \notin {"stopped", "dropped"}
    BY DEF StreamInv, Stages, LoopEnds, Pause, Resume, Stop
  <2>2. owner \notin {"stopped", "dropped"}
    BY DEF StreamInv, Stages, LoopEnds, Pause, Resume, Stop
  <2> QED
    BY <1>2, <2>1, <2>2 DEF StreamInv, TailAccounted
<1> QED
  BY <1>6, <1>7, <1>8, <1>9, <1>10, <1>11, <1>12, <1>13 DEF StreamInv, StreamTypeOK

\* Decoded frames take their place behind all that is on its way.
LEMMA LineGrows ==
  ASSUME StreamInv, NEW n \in 0 .. DecodeBatch, Round(n)
  PROVE  /\ \A k \in 1 .. Len(Decoded(n)) :
              Below(wire, Decoded(n)[k]) /\ QueueBelow(channel, Decoded(n)[k]) /\ (sent # NoMessage => sent[2] < Decoded(n)[k])
         /\ Below(wire, supply'.next) /\ QueueBelow(channel, supply'.next)
<1> DEFINE d == Decoded(n)
<1>1. /\ d \in Seq(Frames) /\ supply'.next = supply.next + n /\ n \in Nat /\ supply.next \in Nat
      /\ \A k \in 1 .. Len(d) : d[k] >= supply.next \/ \E l \in 1 .. Len(buffer) : d[k] = buffer[l]
  BY RoundDecodes, StreamerAssumption DEF StreamInv, PlayTyped
<1> HIDE DEF d
<1>2. MaxFrames \in Nat /\ channel \in Seq(SenderMessage) /\ wire \in Seq(Frames)
  BY StreamerAssumption DEF StreamInv, PlayTyped
<1>3. /\ \A i \in 1 .. Len(wire) : wire[i] \in Nat
      /\ \A i \in 1 .. Len(channel) : IsPacket(channel[i]) => channel[i][2] \in Nat
      /\ sent # NoMessage => sent[2] \in Nat
      /\ \A k \in 1 .. Len(d) : d[k] \in Nat
  <2>1. \A f \in Frames : f \in Nat
    BY <1>2 DEF Frames
  <2>2. /\ \A i \in 1 .. Len(wire) : wire[i] \in Frames
        /\ \A i \in 1 .. Len(channel) : IsPacket(channel[i]) => channel[i][2] \in Frames
        /\ \A k \in 1 .. Len(d) : d[k] \in Frames
    BY <1>1, <1>2, MessageKinds
  <2>3. sent # NoMessage => sent[2] \in Frames
    BY MessageKinds DEF StreamInv, PlayTyped
  <2> QED
    BY <2>1, <2>2, <2>3
<1>4. Below(wire, supply.next) /\ QueueBelow(channel, supply.next) /\ (sent # NoMessage => sent[2] < supply.next)
  BY DEF StreamInv, InLine
<1>5. ASSUME NEW x \in Nat, x >= supply.next
      PROVE  Below(wire, x) /\ QueueBelow(channel, x) /\ (sent # NoMessage => sent[2] < x)
  <2>1. PICK z \in Nat : z = supply.next
    BY <1>1
  <2>2. Below(wire, x)
    BY <1>3, <1>4, <1>5, <2>1 DEF Below
  <2>3. QueueBelow(channel, x)
    BY <1>3, <1>4, <1>5, <2>1 DEF QueueBelow
  <2>4. sent # NoMessage => sent[2] < x
    BY <1>3, <1>4, <1>5, <2>1
  <2> QED
    BY <2>2, <2>3, <2>4
<1>6. \A k \in 1 .. Len(d) : Below(wire, d[k]) /\ QueueBelow(channel, d[k]) /\ (sent # NoMessage => sent[2] < d[k])
  <2> TAKE k \in 1 .. Len(d)
  <2>1. CASE d[k] >= supply.next
    BY <1>3, <1>5, <2>1
  <2>2. CASE \E l \in 1 .. Len(buffer) : d[k] = buffer[l]
    BY <2>2 DEF StreamInv, InLine
  <2> QED
    BY <1>1, <2>1, <2>2
<1>7. Below(wire, supply'.next) /\ QueueBelow(channel, supply'.next)
  BY <1>1, <1>5
<1> QED
  BY <1>6, <1>7 DEF d

\* A round that keeps its frames: buffering, the end of playback, an underrun.
LEMMA RoundKeeps ==
  ASSUME StreamInv, NEW n \in 0 .. DecodeBatch, LoopBuffers(n) \/ LoopUnderruns(n)
  PROVE  StreamInv'
<1> DEFINE d == Decoded(n)
<1>1. ChannelCapacity \in Nat /\ MaxFrames \in Nat \ {0}
  BY StreamerAssumption
<1>2. /\ Round(n) /\ buffer' = d /\ task = "loop" /\ sent' = sent /\ wire' = wire /\ late' = late /\ gate' = gate
      /\ clone' = clone /\ thread' = thread /\ handle' = handle /\ owner' = owner
  BY DEF Round, LoopBuffers, LoopUnderruns
<1>3. /\ d \in Seq(Frames) /\ Len(d) < LowWater + DecodeBatch /\ Rising(d) /\ Below(d, supply'.next)
      /\ supply' \in [kind : {"file", "live"}, next : 1 .. MaxFrames + 1, closed : BOOLEAN]
  BY <1>2, RoundDecodes
<1>4. /\ \A k \in 1 .. Len(d) : Below(wire, d[k]) /\ QueueBelow(channel, d[k]) /\ (sent # NoMessage => sent[2] < d[k])
      /\ Below(wire, supply'.next) /\ QueueBelow(channel, supply'.next)
  BY <1>2, LineGrows
<1> HIDE DEF d
<1>5. sent = NoMessage /\ owner \notin {"idle", "stopped", "dropped"}
  BY <1>2 DEF StreamInv, Stages, StreamTypeOK, AudioStreamer
<1>6. channel \in Seq(SenderMessage) /\ Len(channel) <= ChannelCapacity
  BY DEF StreamInv, PlayTyped, StreamTypeOK, SenderThread
<1>7. channel' \in {channel, Offer(channel, Control("Stop"))}
  BY DEF LoopBuffers, LoopUnderruns
<1>8. /\ channel' \in Seq(SenderMessage) /\ PartOf(channel', channel) /\ Len(channel') <= ChannelCapacity
      /\ thread \notin {"run", "paused"} => channel' = channel
  BY <1>6, <1>7, Offered, Parts
<1>9. /\ QueueRising(channel) => QueueRising(channel')
      /\ \A x \in Nat : QueueBelow(channel, x) => QueueBelow(channel', x)
      /\ QueueAfter(channel, wire) => QueueAfter(channel', wire)
      /\ NoPackets(channel) => NoPackets(channel')
  BY <1>6, <1>8, PartKeeps DEF StreamInv, PlayTyped
<1>10. PlayTyped'
  BY <1>2, <1>3, <1>8 DEF StreamInv, PlayTyped
<1>11. InLine'
  <2>1. supply'.next \in Nat /\ \A k \in 1 .. Len(d) : d[k] \in Nat
    BY <1>1, <1>3 DEF Frames
  <2>2. Rising(wire') /\ QueueRising(channel') /\ Rising(buffer') /\ QueueAfter(channel', wire')
    BY <1>2, <1>3, <1>9 DEF StreamInv, InLine
  <2>3. \A k \in 1 .. Len(buffer') : Below(wire', buffer'[k]) /\ QueueBelow(channel', buffer'[k])
    BY <1>2, <1>4, <1>9, <2>1
  <2>4. Below(wire', supply'.next) /\ QueueBelow(channel', supply'.next) /\ Below(buffer', supply'.next)
    BY <1>2, <1>3, <1>4, <1>9, <2>1
  <2> QED
    BY <1>2, <1>5, <2>2, <2>3, <2>4 DEF InLine
<1>12. StreamerInner'
  <2>1. inner' \in StreamerState
    BY DEF StreamInv, StreamTypeOK, StreamerInner, StreamerState, LoopBuffers, LoopUnderruns
  <2>2. \A i \in DOMAIN buffer' : buffer'[i] < supply'.next
    BY <1>2, <1>3 DEF Below
  <2> QED
    BY <1>2, <1>3, <2>1, <2>2 DEF StreamerInner
<1>13. AudioStreamer'
  BY <1>2, <1>5 DEF StreamInv, StreamTypeOK, AudioStreamer, StreamerState, LoopBuffers, LoopUnderruns
<1>14. SenderThread'
  <2>1. \A i \in DOMAIN channel' : channel'[i] \in SenderMessage
    BY <1>8
  <2> QED
    BY <1>2, <1>8, <2>1 DEF StreamInv, StreamTypeOK, SenderThread
<1>15. Stages' /\ TailAccounted'
  BY <1>2, <1>5 DEF StreamInv, Stages, TailAccounted
<1>16. Gated'
  BY <1>2, <1>5, <1>9 DEF StreamInv, Gated, LoopBuffers, LoopUnderruns
<1> QED
  BY <1>10, <1>11, <1>12, <1>13, <1>14, <1>15, <1>16 DEF StreamInv, StreamTypeOK

\* The first frame of a rising sequence, and the others behind it.
LEMMA HeadFirst ==
  ASSUME NEW d \in Seq(Frames), Rising(d), d # <<>>
  PROVE  /\ Head(d) \in Frames /\ Head(d) = d[1] /\ 1 \in 1 .. Len(d) /\ Tail(d) \in Seq(Frames) /\ Len(Tail(d)) = Len(d) - 1
         /\ Rising(Tail(d))
         /\ \A i \in 1 .. Len(Tail(d)) : i + 1 \in 1 .. Len(d) /\ Tail(d)[i] = d[i + 1] /\ Head(d) < Tail(d)[i]
<1>1. /\ Head(d) = d[1] /\ 1 \in 1 .. Len(d) /\ Tail(d) \in Seq(Frames) /\ Len(Tail(d)) = Len(d) - 1
      /\ \A i \in 1 .. Len(Tail(d)) : i + 1 \in 1 .. Len(d) /\ Tail(d)[i] = d[i + 1]
  OBVIOUS
<1>2. d[1] \in Frames
  BY <1>1
<1>3. Rising(Tail(d)) /\ \A i \in 1 .. Len(Tail(d)) : d[1] < Tail(d)[i]
  BY <1>1 DEF Rising
<1> QED
  BY <1>1, <1>2, <1>3

\* A frame put behind all others keeps a sequence rising.
LEMMA AppendRises ==
  ASSUME NEW w \in Seq(Frames), NEW f \in Frames, Rising(w), Below(w, f)
  PROVE  /\ Append(w, f) \in Seq(Frames) /\ Rising(Append(w, f))
         /\ \A x : (Below(w, x) /\ f < x) => Below(Append(w, f), x)
<1>1. /\ Append(w, f) \in Seq(Frames) /\ Len(Append(w, f)) = Len(w) + 1
      /\ \A i \in 1 .. Len(w) : Append(w, f)[i] = w[i]
      /\ Append(w, f)[Len(w) + 1] = f
  OBVIOUS
<1>2. Len(w) \in Nat
  OBVIOUS
<1>3. Rising(Append(w, f))
  BY <1>1, <1>2 DEF Rising, Below
<1>4. \A x : (Below(w, x) /\ f < x) => Below(Append(w, f), x)
  BY <1>1, <1>2 DEF Below
<1> QED
  BY <1>1, <1>3, <1>4

\* A round that plays: the first frame goes to the wire, or into a blocking send.
LEMMA RoundPlays ==
  ASSUME StreamInv, NEW n \in 0 .. DecodeBatch, LoopSends(n)
  PROVE  StreamInv'
<1> DEFINE d == Decoded(n)
<1>1. ChannelCapacity \in Nat /\ MaxFrames \in Nat \ {0} /\ RecoverAbove \in Nat /\ LowWater \in Nat /\ DecodeBatch \in Nat
  BY StreamerAssumption
<1>2. /\ Round(n) /\ buffer' = Tail(d) /\ task = "loop" /\ channel' = channel /\ late' = late /\ gate' = gate
      /\ clone' = clone /\ thread' = thread /\ handle' = handle /\ owner' = owner /\ Len(d) > 0
      /\ IF thread = "none" THEN wire' = Append(wire, Head(d)) /\ task' = task /\ sent' = sent
                            ELSE wire' = wire /\ task' = "sending" /\ sent' = Packet(Head(d))
  BY <1>1, RoundDecodes DEF Round, LoopSends
<1>3. /\ d \in Seq(Frames) /\ Len(d) < LowWater + DecodeBatch /\ Rising(d) /\ Below(d, supply'.next)
      /\ supply' \in [kind : {"file", "live"}, next : 1 .. MaxFrames + 1, closed : BOOLEAN]
  BY <1>2, RoundDecodes
<1>4. /\ \A k \in 1 .. Len(d) : Below(wire, d[k]) /\ QueueBelow(channel, d[k]) /\ (sent # NoMessage => sent[2] < d[k])
      /\ Below(wire, supply'.next) /\ QueueBelow(channel, supply'.next)
  BY <1>2, LineGrows
<1> HIDE DEF d
<1>5. sent = NoMessage /\ owner \notin {"idle", "stopped", "dropped"} /\ gate \notin {"armed", "lost"}
  BY <1>2 DEF StreamInv, Stages, StreamTypeOK, AudioStreamer, Gated
<1>6. d # <<>>
  BY <1>2, <1>3
<1>7. /\ Head(d) \in Frames /\ Head(d) = d[1] /\ 1 \in 1 .. Len(d) /\ Tail(d) \in Seq(Frames) /\ Len(Tail(d)) = Len(d) - 1
      /\ Rising(Tail(d))
      /\ \A i \in 1 .. Len(Tail(d)) : i + 1 \in 1 .. Len(d) /\ Tail(d)[i] = d[i + 1] /\ Head(d) < Tail(d)[i]
  BY <1>3, <1>6, HeadFirst
<1>8. PICK h \in Frames, t \in Seq(Frames) : h = Head(d) /\ t = Tail(d)
  BY <1>7
<1>9. /\ Rising(t) /\ Below(wire, h) /\ QueueBelow(channel, h) /\ h < supply'.next /\ Below(t, supply'.next)
      /\ \A k \in 1 .. Len(t) : Below(wire, t[k]) /\ QueueBelow(channel, t[k]) /\ h < t[k]
  BY <1>3, <1>4, <1>7, <1>8 DEF Below
<1>10. /\ wire \in Seq(Frames) /\ channel \in Seq(SenderMessage) /\ Rising(wire)
  BY DEF StreamInv, PlayTyped, InLine
<1>11. /\ buffer' = t /\ Packet(h) # NoMessage /\ Packet(h)[2] = h
       /\ IF thread = "none" THEN wire' = Append(wire, h) /\ sent' = NoMessage ELSE wire' = wire /\ sent' = Packet(h)
  BY <1>2, <1>5, <1>8, MessageKinds
<1>12. /\ Append(wire, h) \in Seq(Frames) /\ Rising(Append(wire, h))
       /\ \A x : (Below(wire, x) /\ h < x) => Below(Append(wire, h), x)
  BY <1>9, <1>10, AppendRises
<1>13. PlayTyped'
  BY <1>2, <1>3, <1>10, <1>11, <1>12 DEF StreamInv, PlayTyped
<1>14. InLine'
  <2>1. CASE thread = "none"
    <3>1. channel = <<>>
      BY <2>1 DEF StreamInv, StreamTypeOK, SenderThread
    <3>2. \A x : QueueBelow(channel', x) /\ QueueRising(channel') /\ QueueAfter(channel', wire')
      BY <1>2, <3>1 DEF QueueBelow, QueueRising, QueueAfter
    <3>3. Rising(wire') /\ Below(wire', supply'.next) /\ \A k \in 1 .. Len(t) : Below(wire', t[k])
      BY <1>4, <1>9, <1>11, <1>12, <2>1
    <3> QED
      BY <1>9, <1>11, <2>1, <3>2, <3>3 DEF InLine
  <2>2. CASE thread # "none"
    <3>1. QueueRising(channel') /\ QueueAfter(channel', wire')
      BY <1>2, <1>11, <2>2 DEF StreamInv, InLine
    <3> QED
      BY <1>2, <1>4, <1>9, <1>10, <1>11, <2>2, <3>1 DEF InLine
  <2> QED
    BY <2>1, <2>2
<1>15. StreamerInner'
  <2>1. inner' \in StreamerState
    BY DEF StreamerState, LoopSends
  <2>2. \A i \in DOMAIN buffer' : buffer'[i] < supply'.next
    BY <1>9, <1>11 DEF Below
  <2>3. Len(buffer') < LowWater + DecodeBatch
    BY <1>1, <1>3, <1>7, <1>8, <1>11
  <2> QED
    BY <1>3, <2>1, <2>2, <2>3 DEF StreamerInner
<1>16. AudioStreamer'
  BY <1>2, <1>5, <1>11 DEF StreamInv, StreamTypeOK, AudioStreamer, StreamerState, LoopSends
<1>17. SenderThread' /\ Stages' /\ Gated'
  BY <1>2, <1>5, <1>11 DEF StreamInv, StreamTypeOK, SenderThread, Stages, Gated
<1>18. TailAccounted'
  BY <1>2, <1>5 DEF StreamInv, TailAccounted
<1> QED
  BY <1>13, <1>14, <1>15, <1>16, <1>17, <1>18 DEF StreamInv, StreamTypeOK

\* A message put behind the packets of a queue.
LEMMA QueueAppends ==
  ASSUME NEW c \in Seq(SenderMessage), NEW m \in SenderMessage, IsPacket(m), QueueRising(c), QueueBelow(c, m[2])
  PROVE  /\ QueueRising(Append(c, m))
         /\ \A x : (QueueBelow(c, x) /\ m[2] < x) => QueueBelow(Append(c, m), x)
         /\ \A s : (QueueAfter(c, s) /\ Below(s, m[2])) => QueueAfter(Append(c, m), s)
<1>1. /\ Len(Append(c, m)) = Len(c) + 1 /\ Len(c) \in Nat
      /\ \A i \in 1 .. Len(c) : Append(c, m)[i] = c[i]
      /\ Append(c, m)[Len(c) + 1] = m
  OBVIOUS
<1>2. QueueRising(Append(c, m))
  BY <1>1 DEF QueueRising, QueueBelow
<1>3. \A x : (QueueBelow(c, x) /\ m[2] < x) => QueueBelow(Append(c, m), x)
  BY <1>1 DEF QueueBelow
<1>4. \A s : (QueueAfter(c, s) /\ Below(s, m[2])) => QueueAfter(Append(c, m), s)
  BY <1>1 DEF QueueAfter
<1> QED
  BY <1>2, <1>3, <1>4

\* The blocking send puts its packet into the queue, or finds the thread gone.
LEMMA SendSteps ==
  ASSUME StreamInv, SendEnds
  PROVE  StreamInv'
<1>1. ChannelCapacity \in Nat /\ MaxFrames \in Nat \ {0}
  BY StreamerAssumption
<1>2. /\ sent # NoMessage /\ sent' = NoMessage /\ wire' = wire /\ buffer' = buffer /\ supply' = supply /\ late' = late
      /\ gate' = gate /\ clone' = clone /\ thread' = thread /\ handle' = handle /\ owner' = owner /\ inner' = inner
      /\ thread # "none" /\ gate \notin {"armed", "lost"} /\ owner # "idle"
      /\ task \in {"sending", "over"} /\ task' \in {"loop", "over"} /\ cache' \in {cache, "Error"}
      /\ (owner \in {"stopped", "dropped"} => task' = "over")
  BY DEF StreamInv, StreamTypeOK, AudioStreamer, Stages, Gated, SendEnds
<1>3. /\ channel \in Seq(SenderMessage) /\ Len(channel) <= ChannelCapacity /\ wire \in Seq(Frames) /\ buffer \in Seq(Frames)
  BY DEF StreamInv, PlayTyped, StreamTypeOK, SenderThread
<1>4. PICK f \in Frames : sent = Packet(f)
  BY <1>2 DEF StreamInv, PlayTyped
<1>5. /\ sent \in SenderMessage /\ IsPacket(sent) /\ sent[2] = f
  BY <1>4, MessageKinds
<1>6. PICK m \in SenderMessage : m = sent
  BY <1>5
<1>7. /\ IsPacket(m) /\ m[2] = f /\ Below(wire, f) /\ QueueBelow(channel, f) /\ f < supply.next
      /\ QueueRising(channel) /\ QueueAfter(channel, wire)
      /\ \A k \in 1 .. Len(buffer) : f < buffer[k]
  BY <1>2, <1>5, <1>6 DEF StreamInv, InLine
<1>8. /\ Append(channel, m) \in Seq(SenderMessage) /\ Len(Append(channel, m)) = Len(channel) + 1
      /\ QueueRising(Append(channel, m)) /\ QueueAfter(Append(channel, m), wire)
      /\ \A x : (QueueBelow(channel, x) /\ f < x) => QueueBelow(Append(channel, m), x)
  BY <1>3, <1>7, QueueAppends, Parts
<1>9. \/ channel' = Append(channel, m) /\ thread # "gone" /\ Len(channel) < ChannelCapacity
      \/ channel' = channel
  BY <1>6 DEF SendEnds
<1>10. /\ channel' \in Seq(SenderMessage) /\ Len(channel') <= ChannelCapacity /\ Len(channel') <= Len(channel) + 1
       /\ (thread = "gone" => channel' = channel) /\ Len(channel) \in Nat /\ Len(channel') \in Nat
  <2>1. CASE channel' = channel
    BY <1>1, <1>3, <2>1
  <2>2. CASE channel' = Append(channel, m) /\ thread # "gone" /\ Len(channel) < ChannelCapacity
    BY <1>1, <1>3, <1>8, <2>2
  <2> QED
    BY <1>9, <2>1, <2>2
<1>11. PlayTyped'
  BY <1>2, <1>10 DEF StreamInv, PlayTyped
<1>12. InLine'
  <2>1. QueueRising(channel') /\ QueueAfter(channel', wire')
    BY <1>2, <1>7, <1>8, <1>9
  <2>2. QueueBelow(channel', supply'.next) /\ \A k \in 1 .. Len(buffer') : QueueBelow(channel', buffer'[k])
    BY <1>2, <1>7, <1>8, <1>9 DEF StreamInv, InLine
  <2> QED
    BY <1>2, <2>1, <2>2 DEF StreamInv, InLine
<1>13. StreamerInner'
  BY <1>2 DEF StreamInv, StreamTypeOK, StreamerInner
<1>14. AudioStreamer'
  BY <1>2 DEF StreamInv, StreamTypeOK, AudioStreamer, StreamerState
<1>15. SenderThread'
  <2>1. \A i \in DOMAIN channel' : channel'[i] \in SenderMessage
    BY <1>10
  <2> QED
    BY <1>2, <1>10, <2>1 DEF StreamInv, StreamTypeOK, SenderThread
<1>16. Stages' /\ Gated'
  BY <1>2 DEF StreamInv, Stages, Gated
<1>17. TailAccounted'
  BY <1>1, <1>2, <1>10 DEF StreamInv, TailAccounted, Pending, PlayTyped
<1> QED
  BY <1>11, <1>12, <1>13, <1>14, <1>15, <1>16, <1>17 DEF StreamInv, StreamTypeOK

\* The thread takes a message it does not send, or drains the queue and ends.
LEMMA ControlSteps ==
  ASSUME StreamInv, ThreadControl
  PROVE  StreamInv'
<1>1. ChannelCapacity \in Nat /\ MaxFrames \in Nat \ {0}
  BY StreamerAssumption
<1>2. /\ sent' = sent /\ wire' = wire /\ buffer' = buffer /\ supply' = supply /\ late' = late
      /\ gate' = gate /\ clone' = clone /\ handle' = handle /\ owner' = owner /\ inner' = inner
      /\ task' = task /\ cache' = cache /\ channel # <<>> /\ thread \in {"run", "paused"}
      /\ thread' \in {"run", "paused", "gone"} /\ channel' = IF thread' = "gone" THEN <<>> ELSE Tail(channel)
  BY DEF ThreadControl
<1>3. channel \in Seq(SenderMessage) /\ Len(channel) <= ChannelCapacity
  BY DEF StreamInv, PlayTyped, StreamTypeOK, SenderThread
<1>4. /\ channel' \in Seq(SenderMessage) /\ PartOf(channel', channel)
      /\ Len(channel') <= Len(channel) /\ Len(channel) \in Nat /\ Len(channel') \in Nat
  <2>1. /\ PartOf(<<>>, channel) /\ PartOf(Tail(channel), channel)
        /\ Tail(channel) \in Seq(SenderMessage) /\ Len(Tail(channel)) = Len(channel) - 1
    BY <1>2, <1>3, Parts
  <2>2. <<>> \in Seq(SenderMessage) /\ Len(<<>>) = 0
    OBVIOUS
  <2> QED
    BY <1>2, <1>3, <2>1, <2>2
<1>5. PlayTyped'
  BY <1>2, <1>4 DEF StreamInv, PlayTyped
<1>6. InLine'
  BY <1>1, <1>2, <1>4, <1>5, LineThins DEF StreamInv, PlayTyped
<1>7. StreamerInner' /\ AudioStreamer'
  BY <1>2 DEF StreamInv, StreamTypeOK, StreamerInner, AudioStreamer
<1>8. SenderThread'
  <2>1. \A i \in DOMAIN channel' : channel'[i] \in SenderMessage
    BY <1>4
  <2> QED
    BY <1>1, <1>2, <1>3, <1>4, <2>1 DEF SenderThread
<1>9. Stages'
  BY <1>2 DEF StreamInv, Stages
<1>10. Gated'
  BY <1>2, <1>3, <1>4, PartKeeps DEF StreamInv, Gated
<1>11. TailAccounted'
  <2>1. late \in Nat /\ TailAccounted
    BY DEF StreamInv, PlayTyped
  <2>2. CASE owner \in {"stopped", "dropped"}
    <3>1. PICK p \in {0, 1} : p = IF sent = NoMessage THEN 0 ELSE 1
      BY Zenon
    <3>2. Pending = Len(channel) + p /\ Pending' = Len(channel') + p
      BY <1>2, <3>1 DEF Pending
    <3>3. late + Pending <= ChannelCapacity + 1 /\ owner' = owner
      BY <1>2, <2>1, <2>2 DEF TailAccounted
    <3>4. late' + Pending' <= ChannelCapacity + 1
      BY <1>1, <1>2, <1>4, <2>1, <2>2, <3>2, <3>3
    <3> QED
      BY <2>2, <3>3, <3>4 DEF TailAccounted
  <2>3. CASE owner \notin {"stopped", "dropped"}
    BY <1>2, <2>1, <2>3 DEF TailAccounted
  <2> QED
    BY <2>2, <2>3
<1> QED
  BY <1>5, <1>6, <1>7, <1>8, <1>9, <1>10, <1>11 DEF StreamInv, StreamTypeOK

\* The thread sends a packet: the first of the queue becomes the last of the wire.
LEMMA PacketSteps ==
  ASSUME StreamInv, ThreadPacket
  PROVE  StreamInv'
<1>1. ChannelCapacity \in Nat /\ MaxFrames \in Nat \ {0}
  BY StreamerAssumption
<1>2. /\ sent' = sent /\ buffer' = buffer /\ supply' = supply /\ thread' = thread
      /\ gate' = gate /\ clone' = clone /\ handle' = handle /\ owner' = owner /\ inner' = inner
      /\ task' = task /\ cache' = cache /\ channel # <<>> /\ thread = "run" /\ channel' = Tail(channel)
      /\ IsPacket(Head(channel)) /\ wire' = Append(wire, Head(channel)[2])
      /\ late' = (IF owner \in {"stopped", "dropped"} THEN late + 1 ELSE late)
  BY DEF ThreadPacket, IsPacket
<1>3. channel \in Seq(SenderMessage) /\ Len(channel) <= ChannelCapacity /\ wire \in Seq(Frames) /\ buffer \in Seq(Frames)
  BY DEF StreamInv, PlayTyped, StreamTypeOK, SenderThread
<1>4. /\ channel' \in Seq(SenderMessage) /\ PartOf(channel', channel)
      /\ Len(channel') = Len(channel) - 1 /\ Len(channel) \in Nat /\ Len(channel') \in Nat
      /\ \A i \in 1 .. Len(channel') : i + 1 \in 1 .. Len(channel) /\ channel'[i] = channel[i + 1]
      /\ Head(channel) = channel[1] /\ 1 \in 1 .. Len(channel) /\ Head(channel) \in SenderMessage
  BY <1>2, <1>3, Parts
<1>5. PICK f \in Frames : f = Head(channel)[2]
  BY <1>2, <1>4, MessageKinds
<1>6. /\ QueueRising(channel) /\ QueueAfter(channel, wire) /\ Rising(wire) /\ Below(wire, f)
      /\ \A x : QueueBelow(channel, x) => f < x
  BY <1>2, <1>4, <1>5 DEF StreamInv, InLine, QueueAfter, QueueBelow
<1>7. /\ wire' \in Seq(Frames) /\ Rising(wire') /\ \A x : (Below(wire, x) /\ f < x) => Below(wire', x)
  BY <1>2, <1>3, <1>5, <1>6, AppendRises
<1>8. QueueAfter(channel', wire')
  <2> SUFFICES ASSUME NEW i \in 1 .. Len(channel'), IsPacket(channel'[i]) PROVE Below(wire', channel'[i][2])
    BY DEF QueueAfter
  <2>1. /\ i + 1 \in 1 .. Len(channel) /\ channel'[i] = channel[i + 1] /\ 1 < i + 1
    BY <1>4
  <2>2. Below(wire, channel'[i][2])
    BY <1>6, <2>1 DEF QueueAfter
  <2>3. f < channel'[i][2]
    BY <1>2, <1>4, <1>5, <1>6, <2>1 DEF QueueRising
  <2> QED
    BY <1>7, <2>2, <2>3
<1>9. \A x \in Nat : QueueBelow(channel, x) => QueueBelow(channel', x)
  BY <1>3, <1>4, PartKeeps
<1>10. QueueRising(channel')
  BY <1>3, <1>4, <1>6, PartKeeps
<1>11. /\ supply.next \in Nat /\ (sent # NoMessage => sent[2] \in Nat) /\ \A k \in 1 .. Len(buffer) : buffer[k] \in Nat
  <2>1. sent # NoMessage => sent[2] \in Frames
    BY MessageKinds DEF StreamInv, PlayTyped
  <2>2. \A k \in 1 .. Len(buffer) : buffer[k] \in Frames
    BY <1>3
  <2>3. supply.next \in 1 .. MaxFrames + 1
    BY DEF StreamInv, PlayTyped
  <2> QED
    BY <1>1, <2>1, <2>2, <2>3 DEF Frames
<1>12. PlayTyped'
  <2>1. late' \in Nat
    BY <1>2 DEF StreamInv, PlayTyped
  <2> QED
    BY <1>2, <1>4, <1>7, <2>1 DEF StreamInv, PlayTyped
<1>13. InLine'
  <2>1. sent' # NoMessage => Below(wire', sent'[2]) /\ QueueBelow(channel', sent'[2]) /\ sent'[2] < supply'.next
    BY <1>2, <1>6, <1>7, <1>9, <1>11 DEF StreamInv, InLine
  <2>2. \A k \in 1 .. Len(buffer') :
          Below(wire', buffer'[k]) /\ QueueBelow(channel', buffer'[k]) /\ (sent' # NoMessage => sent'[2] < buffer'[k])
    BY <1>2, <1>6, <1>7, <1>9, <1>11 DEF StreamInv, InLine
  <2>3. Below(wire', supply'.next) /\ QueueBelow(channel', supply'.next)
    BY <1>2, <1>6, <1>7, <1>9, <1>11 DEF StreamInv, InLine
  <2> QED
    BY <1>2, <1>7, <1>8, <1>10, <2>1, <2>2, <2>3 DEF StreamInv, InLine
<1>14. StreamerInner' /\ AudioStreamer'
  BY <1>2 DEF StreamInv, StreamTypeOK, StreamerInner, AudioStreamer
<1>15. SenderThread'
  <2>1. \A i \in DOMAIN channel' : channel'[i] \in SenderMessage
    BY <1>4
  <2> QED
    BY <1>1, <1>2, <1>3, <1>4, <2>1 DEF SenderThread
<1>16. owner # "idle" /\ gate \notin {"armed", "lost"}
  BY <1>2, <1>4 DEF StreamInv, Stages, Gated, NoPackets
<1>17. Stages' /\ Gated'
  BY <1>2, <1>16 DEF StreamInv, Stages, Gated
<1>18. TailAccounted'
  <2>1. late \in Nat /\ TailAccounted
    BY DEF StreamInv, PlayTyped
  <2>2. CASE owner \in {"stopped", "dropped"}
    <3>1. PICK p \in {0, 1} : p = IF sent = NoMessage THEN 0 ELSE 1
      BY Zenon
    <3>2. Pending = Len(channel) + p /\ Pending' = Len(channel') + p
      BY <1>2, <3>1 DEF Pending
    <3>3. late + Pending <= ChannelCapacity + 1 /\ owner' = owner
      BY <1>2, <2>1, <2>2 DEF TailAccounted
    <3>4. late' + Pending' <= ChannelCapacity + 1
      BY <1>1, <1>2, <1>4, <2>1, <2>2, <3>2, <3>3
    <3> QED
      BY <2>2, <3>3, <3>4 DEF TailAccounted
  <2>3. CASE owner \notin {"stopped", "dropped"}
    BY <1>2, <2>1, <2>3 DEF TailAccounted
  <2> QED
    BY <2>2, <2>3
<1> QED
  BY <1>12, <1>13, <1>14, <1>15, <1>17, <1>18 DEF StreamInv, StreamTypeOK

\* A start fills the buffer from an untouched source; nothing is on its way yet.
LEMMA StartSteps ==
  ASSUME StreamInv, Start \/ StartLiveGated
  PROVE  StreamInv'
<1>1. /\ MaxFrames \in Nat \ {0} /\ DecodeBatch \in Nat \ {0} /\ LowWater \in Nat \ {0} /\ ChannelCapacity \in Nat
  BY StreamerAssumption
<1>2. /\ owner = "idle" /\ owner' = "live" /\ sent' = NoMessage /\ channel' = <<>> /\ wire' = <<>> /\ late' = late
      /\ thread' \in {"run", "none"} /\ handle' \in BOOLEAN /\ clone' \in {"none", "connection", "group"}
      /\ buffer = <<>> /\ supply.next = 1 /\ gate = "none" /\ channel = <<>> /\ sent = NoMessage /\ late = 0
  BY DEF StreamInv, Stages, TailAccounted, Start, StartLiveGated, Spawn
<1>3. PICK n \in 0 .. LowWater + DecodeBatch - 1 :
        /\ n <= MaxFrames /\ buffer' = [i \in 1 .. n |-> i]
        /\ supply' \in [kind : {"file", "live"}, next : 1 .. MaxFrames + 1, closed : BOOLEAN] /\ supply'.next = n + 1
  <2>1. CASE Start
    <3>1. PICK n \in Decodable : buffer' = Decoded(n) /\ supply' = [supply EXCEPT !.next = @ + n]
      BY <2>1 DEF Start
    <3>2. n \in 0 .. DecodeBatch /\ n <= MaxFrames
      BY <1>1, <1>2 DEF Decodable, Left
    <3>3. Decoded(n) = [i \in 1 .. n |-> i]
      <4>1. Decoded(n) = <<>> \o [i \in 1 .. n |-> 1 + i - 1]
        BY <1>2 DEF Decoded
      <4>2. [i \in 1 .. n |-> 1 + i - 1] = [i \in 1 .. n |-> i]
        BY <3>2
      <4>3. [i \in 1 .. n |-> i] \in Seq(Nat)
        BY <3>2
      <4> QED
        BY <4>1, <4>2, <4>3
    <3>4. supply \in [kind : {"file", "live"}, next : 1 .. MaxFrames + 1, closed : BOOLEAN]
      BY DEF StreamInv, PlayTyped
    <3>5. /\ supply' \in [kind : {"file", "live"}, next : 1 .. MaxFrames + 1, closed : BOOLEAN] /\ supply'.next = n + 1
      BY <1>1, <1>2, <3>1, <3>2, <3>4
    <3>6. n \in 0 .. LowWater + DecodeBatch - 1
      BY <1>1, <3>2
    <3> QED
      BY <3>1, <3>2, <3>3, <3>5, <3>6
  <2>2. CASE StartLiveGated
    <3>1. PICK n \in 0 .. LowWater : /\ n <= MaxFrames /\ buffer' = [i \in 1 .. n |-> i]
                                     /\ supply' = [kind |-> "live", next |-> n + 1, closed |-> FALSE]
      BY <2>2 DEF StartLiveGated
    <3>2. n + 1 \in 1 .. MaxFrames + 1 /\ n \in 0 .. LowWater + DecodeBatch - 1
      BY <1>1, <3>1
    <3> QED
      BY <3>1, <3>2
  <2> QED
    BY <2>1, <2>2
<1>4. /\ buffer' \in Seq(Frames) /\ Len(buffer') = n /\ \A i \in 1 .. n : buffer'[i] = i
  <2>1. \A i \in 1 .. n : i \in Frames
    BY <1>1, <1>3 DEF Frames
  <2>2. n \in Nat
    BY <1>1, <1>3
  <2> QED
    BY <1>3, <2>1, <2>2
<1>5. /\ \/ inner' \in {"Streaming", "Buffering"} /\ task' = "loop" /\ gate' = "none"
         \/ inner' = "Buffering" /\ task' = "gated" /\ gate' = "armed"
      /\ cache' = inner' /\ (handle' => owner' = "live")
  BY <1>2 DEF Start, StartLiveGated
<1>6. PlayTyped'
  <2>1. channel' \in Seq(SenderMessage) /\ wire' \in Seq(Frames)
    BY <1>2
  <2>2. gate' \in {"none", "armed", "released", "lost"}
    BY <1>5
  <2>3. late' \in Nat
    BY <1>2
  <2> QED
    BY <1>2, <1>3, <1>4, <2>1, <2>2, <2>3 DEF PlayTyped
<1>7. InLine'
  <2>1. \A x : Below(wire', x) /\ QueueBelow(channel', x)
    BY <1>2 DEF Below, QueueBelow
  <2>2. Rising(wire') /\ QueueRising(channel') /\ QueueAfter(channel', wire')
    BY <1>2 DEF Rising, QueueRising, QueueAfter
  <2>3. n \in Nat
    BY <1>1, <1>3
  <2>4. Rising(buffer') /\ Below(buffer', supply'.next)
    BY <1>3, <1>4, <2>3 DEF Rising, Below
  <2> QED
    BY <1>2, <2>1, <2>2, <2>4 DEF InLine
<1>8. StreamerInner'
  <2>1. \A i \in DOMAIN buffer' : buffer'[i] < supply'.next
    BY <1>4, <1>7 DEF InLine, Below
  <2>2. Len(buffer') < LowWater + DecodeBatch
    BY <1>1, <1>3, <1>4
  <2> QED
    BY <1>3, <1>5, <2>1, <2>2 DEF StreamerInner, StreamerState
<1>9. AudioStreamer'
  BY <1>2, <1>5 DEF AudioStreamer, StreamerState
<1>10. SenderThread'
  BY <1>1, <1>2 DEF SenderThread
<1>11. Stages' /\ Gated'
  BY <1>2, <1>5 DEF Stages, Gated, NoPackets
<1>12. TailAccounted'
  BY <1>2 DEF TailAccounted
<1> QED
  BY <1>6, <1>7, <1>8, <1>9, <1>10, <1>11, <1>12 DEF StreamInv, StreamTypeOK

LEMMA StreamStarts == StreamInit => StreamInv
<1> SUFFICES ASSUME StreamInit PROVE StreamInv
  OBVIOUS
<1>1. /\ MaxFrames \in Nat \ {0} /\ DecodeBatch \in Nat \ {0} /\ LowWater \in Nat \ {0} /\ ChannelCapacity \in Nat
  BY StreamerAssumption
<1>2. PlayTyped
  <2>1. <<>> \in Seq(Frames) /\ <<>> \in Seq(SenderMessage)
    OBVIOUS
  <2>2. supply \in [kind : {"file", "live"}, next : 1 .. MaxFrames + 1, closed : BOOLEAN]
    BY <1>1 DEF StreamInit
  <2> QED
    BY <2>1, <2>2 DEF StreamInit, PlayTyped
<1>3. InLine
  BY DEF StreamInit, InLine, Rising, Below, QueueRising, QueueBelow, QueueAfter
<1>4. StreamTypeOK
  BY <1>1 DEF StreamInit, StreamTypeOK, StreamerInner, AudioStreamer, SenderThread, StreamerState
<1>5. Stages /\ Gated /\ TailAccounted
  BY DEF StreamInit, Stages, Gated, TailAccounted
<1> QED
  BY <1>2, <1>3, <1>4, <1>5 DEF StreamInv

LEMMA StreamSteps == StreamInv /\ [StreamNext]_streamVars => StreamInv'
<1> SUFFICES ASSUME StreamInv, [StreamNext]_streamVars PROVE StreamInv'
  OBVIOUS
<1>1. CASE Start \/ StartLiveGated
  BY <1>1, StartSteps
<1>2. CASE \/ Release \/ GateOpens \/ LoopFails \/ ThreadDisconnects \/ ResetAfterFlush \/ ListenerEnds
           \/ FeedCloses \/ StopEnds \/ Drop
  BY <1>2, QuietSteps
<1>3. CASE LoopEnds \/ Pause \/ Resume \/ Stop
  BY <1>3, OfferSteps
<1>4. CASE Loop
  <2>1. PICK n \in 0 .. DecodeBatch : LoopBuffers(n) \/ LoopSends(n) \/ LoopUnderruns(n)
    BY <1>4 DEF Loop
  <2> QED
    BY <2>1, RoundKeeps, RoundPlays
<1>5. CASE SendEnds
  BY <1>5, SendSteps
<1>6. CASE ThreadControl
  BY <1>6, ControlSteps
<1>7. CASE ThreadPacket
  BY <1>7, PacketSteps
<1>8. CASE UNCHANGED streamVars
  BY <1>8 DEF streamVars, StreamInv, StreamTypeOK, StreamerInner, AudioStreamer, SenderThread, PlayTyped, Stages,
              Gated, TailAccounted, Pending, InLine
<1> QED
  BY <1>1, <1>2, <1>3, <1>4, <1>5, <1>6, <1>7, <1>8 DEF StreamNext

\* The order of the line, the silence of a gate and the account of the tail are
\* what the streamer promises.
LEMMA StreamPromise == StreamInv => StreamSafe
<1> SUFFICES ASSUME StreamInv PROVE StreamSafe
  OBVIOUS
<1>1. wire \in Seq(Frames) /\ channel \in Seq(SenderMessage) /\ late \in Nat /\ Len(channel) \in Nat /\ ChannelCapacity \in Nat
  BY StreamerAssumption DEF StreamInv, PlayTyped
<1>2. WireInOrder
  BY <1>1 DEF StreamInv, InLine, Rising, WireInOrder
<1>3. GateHolds
  BY <1>1 DEF StreamInv, Gated, NoPackets, IsPacket, GateHolds
<1>4. TailIsBounded
  <2>1. CASE owner \in {"stopped", "dropped"}
    BY <1>1, <2>1 DEF StreamInv, TailAccounted, Pending, TailIsBounded
  <2>2. CASE owner \notin {"stopped", "dropped"}
    BY <1>1, <2>2 DEF StreamInv, TailAccounted, TailIsBounded
  <2> QED
    BY <2>1, <2>2
<1> QED
  BY <1>2, <1>3, <1>4 DEF StreamInv, StreamSafe

\* Frames reach the wire in the order of the source and each at most once, none
\* before its release, and no more than the queue and one send after the end
\* (streamer.rs: run_streamer, sender_thread_main, stop).
THEOREM FramesInOrder == StreamSpec => []StreamSafe
<1>1. StreamSpec => []StreamInv
  BY StreamStarts, StreamSteps, PTL DEF StreamSpec
<1> QED
  BY <1>1, StreamPromise, PTL
=============================================================================
