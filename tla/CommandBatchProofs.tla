-------------------------- MODULE CommandBatchProofs ---------------------------
(***************************************************************************)
(* Theorems about CommandBatch.tla: for every set of selections, levels    *)
(* and group members, every queue capacity and any number of commands sent *)
(* while a batch is processed, whichever of its saves fail.                *)
(*                                                                         *)
(* What a batch executes is taken from the whole queue at once, so the     *)
(* long part is what Drain puts into it: the slots of the scalars, and the *)
(* edges, which are collected by a recursion over the queue.               *)
(***************************************************************************)
EXTENDS CommandBatch, SequenceTheorems, FiniteSetTheorems, TLAPS

\* Induction over the naturals, for a set of them.
LEMMA NatSets ==
  ASSUME NEW S, 0 \in S, \A n \in Nat : n \in S => n + 1 \in S
  PROVE  \A n \in Nat : n \in S
<1>1. SUFFICES ASSUME NEW n \in Nat, n \notin S PROVE FALSE
  OBVIOUS
<1> DEFINE A == (0..n) \cap S
<1> DEFINE B == A \ {0}
<1> DEFINE f == [x \in A |-> x + 1]
<1>2. IsFiniteSet(A) /\ 0 \in A
  <2>1. IsFiniteSet(0..n)
    BY FS_Interval
  <2>2. A \subseteq 0..n
    OBVIOUS
  <2> QED BY <2>1, <2>2, FS_Subset
<1>3. IsFiniteSet(B) /\ Cardinality(B) = Cardinality(A) - 1 /\ Cardinality(A) \in Nat
  BY <1>2, FS_RemoveElement, FS_CardinalityType
<1>4. f \in [A -> B]
  BY <1>1
<1>5. \A x, y \in A : x # y => f[x] # f[y]
  OBVIOUS
<1> HIDE DEF A, B, f
<1>6. Cardinality(B) < Cardinality(A)
  <2>1. Cardinality(B) \in Nat
    BY <1>3, FS_CardinalityType
  <2> QED BY <2>1, <1>3
<1> QED BY <1>2, <1>3, <1>4, <1>5, <1>6, FS_PigeonHole

\* What is queued one by one is a sequence that exists.
Grows(f, L, P, g) ==
  f = [n \in 0..L |-> IF n = 0 THEN <<>> ELSE IF n \notin P THEN f[n - 1]
                      ELSE Append(f[n - 1], g[n])]

LEMMA GrowthExists ==
  ASSUME NEW P, NEW g
  PROVE  \A L \in Nat : \E f : Grows(f, L, P, g)
<1> DEFINE S == {L \in Nat : \E f : Grows(f, L, P, g)}
<1>1. 0 \in S
  <2>1. Grows([n \in 0..0 |-> <<>>], 0, P, g)
    BY DEF Grows
  <2> QED BY <2>1
<1>2. ASSUME NEW L \in Nat, L \in S PROVE L + 1 \in S
  <2>1. PICK f : Grows(f, L, P, g)
    BY <1>2
  <2> DEFINE h == [n \in 0..(L + 1) |-> IF n <= L THEN f[n]
                     ELSE IF n \notin P THEN f[n - 1] ELSE Append(f[n - 1], g[n])]
  <2>2. \A n \in 0..L : f[n] = IF n = 0 THEN <<>> ELSE IF n \notin P THEN f[n - 1]
                      ELSE Append(f[n - 1], g[n])
    BY <2>1 DEF Grows
  <2>3. \A n \in 0..(L + 1) : h[n] = IF n = 0 THEN <<>> ELSE IF n \notin P THEN h[n - 1]
                      ELSE Append(h[n - 1], g[n])
    <3> SUFFICES ASSUME NEW n \in 0..(L + 1)
                 PROVE h[n] = IF n = 0 THEN <<>> ELSE IF n \notin P THEN h[n - 1]
                              ELSE Append(h[n - 1], g[n])
      OBVIOUS
    <3>1. CASE n = 0
      BY <3>1, <2>2
    <3>2. CASE n # 0
      <4>1. n - 1 \in 0..L /\ h[n - 1] = f[n - 1]
        BY <3>2
      <4>2. h[n] = IF n \notin P THEN f[n - 1] ELSE Append(f[n - 1], g[n])
        <5>1. CASE n <= L
          <6>1. n \in 0..L
            BY <5>1
          <6> QED BY <6>1, <5>1, <3>2, <2>2
        <5>2. CASE ~(n <= L)
          BY <5>2
        <5> QED BY <5>1, <5>2
      <4> HIDE DEF h
      <4> QED BY <4>1, <4>2, <3>2
    <3> QED BY <3>1, <3>2
  <2>4. h = [n \in 0..(L + 1) |-> h[n]]
    OBVIOUS
  <2> HIDE DEF h
  <2>5. Grows(h, L + 1, P, g)
    BY <2>3, <2>4 DEF Grows
  <2> QED BY <2>5
<1> HIDE DEF S
<1>3. \A L \in Nat : L \in S
  BY <1>1, <1>2, NatSets
<1> QED BY <1>3 DEF S

\* It holds what it was to keep, in order and nothing else.
CollectsAt(q, n, P, g, T, m, at) ==
  /\ q \in Seq(T) /\ Len(q) = m
  /\ \A a, b \in 1..m : a < b => at[a] < at[b]
  /\ \A k \in 1..m : at[k] \in 1..n /\ q[k] = g[at[k]]
  /\ \A i \in P : i <= n => \E k \in 1..m : at[k] = i
Collects(q, n, P, g, T) ==
  \E m \in Nat : \E at \in [1..m -> P] : CollectsAt(q, n, P, g, T, m, at)

LEMMA GrowthCollects ==
  ASSUME NEW L \in Nat, NEW P, P \subseteq 1..L, NEW g, NEW T, \A i \in P : g[i] \in T,
         NEW f, Grows(f, L, P, g)
  PROVE  Collects(f[L], L, P, g, T)
<1> DEFINE S == {n \in Nat : n <= L => Collects(f[n], n, P, g, T)}
<1>1. \A n \in 0..L : f[n] = IF n = 0 THEN <<>> ELSE IF n \notin P THEN f[n - 1]
                      ELSE Append(f[n - 1], g[n])
  BY DEF Grows
<1>2. 0 \in S
  <2>1. f[0] = <<>> /\ <<>> \in Seq(T) /\ Len(<<>>) = 0
    BY <1>1
  <2>2. [k \in 1..0 |-> k] \in [1..0 -> P]
    OBVIOUS
  <2>4. \A i \in P : ~(i <= 0)
    OBVIOUS
  <2>5. 1..0 = {} /\ 0 \in Nat
    OBVIOUS
  <2>6. CollectsAt(<<>>, 0, P, g, T, 0, [k \in 1..0 |-> k])
    BY <2>1, <2>4, <2>5 DEF CollectsAt
  <2>3. Collects(<<>>, 0, P, g, T)
    BY <2>6, <2>2, <2>5 DEF Collects
  <2> QED BY <2>1, <2>3
<1>3. ASSUME NEW n \in Nat, n \in S PROVE n + 1 \in S
  <2> SUFFICES ASSUME n + 1 <= L PROVE Collects(f[n + 1], n + 1, P, g, T)
    OBVIOUS
  <2>1. Collects(f[n], n, P, g, T)
    BY <1>3
  <2>6. PICK m \in Nat : \E at \in [1..m -> P] : CollectsAt(f[n], n, P, g, T, m, at)
    BY <2>1 DEF Collects
  <2>7. PICK at \in [1..m -> P] : CollectsAt(f[n], n, P, g, T, m, at)
    BY <2>6
  <2>2. /\ f[n] \in Seq(T) /\ Len(f[n]) = m
        /\ \A a, b \in 1..m : a < b => at[a] < at[b]
        /\ \A k \in 1..m : at[k] \in 1..n /\ f[n][k] = g[at[k]]
        /\ \A i \in P : i <= n => \E k \in 1..m : at[k] = i
    BY <2>7 DEF CollectsAt
  <2>3. f[n + 1] = IF n + 1 \notin P THEN f[n] ELSE Append(f[n], g[n + 1])
    BY <1>1
  <2>4. CASE n + 1 \notin P
    <3>1. \A i \in P : i <= n + 1 => i <= n
      BY <2>4
    <3>2. f[n + 1] = f[n]
      BY <2>3, <2>4
    <3>3. \A k \in 1..m : at[k] \in 1..(n + 1)
      BY <2>2
    <3>4. CollectsAt(f[n], n + 1, P, g, T, m, at)
      BY <2>2, <3>1, <3>3 DEF CollectsAt
    <3> QED BY <3>2, <3>4 DEF Collects
  <2>5. CASE n + 1 \in P
    <3> DEFINE q == Append(f[n], g[n + 1])
    <3> DEFINE to == [k \in 1..(m + 1) |-> IF k = m + 1 THEN n + 1 ELSE at[k]]
    <3>1. f[n + 1] = q
      BY <2>3, <2>5
    <3>9. g[n + 1] \in T /\ f[n] \in Seq(T) /\ Len(f[n]) = m
      BY <2>2, <2>5
    <3>2. q \in Seq(T) /\ Len(q) = m + 1 /\ q[m + 1] = g[n + 1] /\ \A k \in 1..m : q[k] = f[n][k]
      BY <3>9, AppendProperties
    <3>3. to \in [1..(m + 1) -> P]
      BY <2>5, <2>2
    <3>4. \A a, b \in 1..(m + 1) : a < b => to[a] < to[b]
      <4> SUFFICES ASSUME NEW a \in 1..(m + 1), NEW b \in 1..(m + 1), a < b PROVE to[a] < to[b]
        OBVIOUS
      <4>1. a \in 1..m /\ to[a] = at[a] /\ at[a] \in 1..n
        BY <2>2
      <4>2. CASE b = m + 1
        BY <4>1, <4>2
      <4>3. CASE b # m + 1
        BY <4>1, <4>3, <2>2
      <4> QED BY <4>2, <4>3
    <3>5. \A k \in 1..(m + 1) : to[k] \in 1..(n + 1) /\ q[k] = g[to[k]]
      <4> SUFFICES ASSUME NEW k \in 1..(m + 1) PROVE to[k] \in 1..(n + 1) /\ q[k] = g[to[k]]
        OBVIOUS
      <4> HIDE DEF q
      <4>1. CASE k = m + 1
        BY <4>1, <3>2
      <4>2. CASE k # m + 1
        <5>1. k \in 1..m /\ to[k] = at[k]
          BY <4>2
        <5> HIDE DEF to
        <5> QED BY <5>1, <3>2, <2>2
      <4> QED BY <4>1, <4>2
    <3>6. \A i \in P : i <= n + 1 => \E k \in 1..(m + 1) : to[k] = i
      <4> SUFFICES ASSUME NEW i \in P, i <= n + 1 PROVE \E k \in 1..(m + 1) : to[k] = i
        OBVIOUS
      <4>1. CASE i = n + 1
        <5>1. m + 1 \in 1..(m + 1) /\ to[m + 1] = i
          BY <4>1
        <5> QED BY <5>1
      <4>2. CASE i # n + 1
        <5>1. i <= n
          BY <4>2
        <5>2. PICK k \in 1..m : at[k] = i
          BY <5>1, <2>2
        <5>3. k \in 1..(m + 1) /\ to[k] = i
          BY <5>2
        <5> QED BY <5>3
      <4> QED BY <4>1, <4>2
    <3>7. m + 1 \in Nat
      OBVIOUS
    <3> HIDE DEF q, to
    <3>10. CollectsAt(q, n + 1, P, g, T, m + 1, to)
      BY <3>2, <3>4, <3>5, <3>6 DEF CollectsAt
    <3>8. Collects(q, n + 1, P, g, T)
      BY <3>10, <3>3, <3>7 DEF Collects
    <3> QED BY <3>1, <3>8
  <2> QED BY <2>4, <2>5
<1> HIDE DEF S
<1>4. \A n \in Nat : n \in S
  BY <1>2, <1>3, NatSets
<1> QED BY <1>4 DEF S

\* Where EdgesKept takes its commands from.
EdgePlaces == {i \in 1..Len(inbox) : inbox[i].op \in Edges}
EdgeAt == [i \in 1..Len(inbox) |-> IF inbox[i].op = "Activate" /\ StopAfter(i)
                                   THEN [inbox[i] EXCEPT !.arg = FALSE] ELSE inbox[i]]

LEMMA EdgesCollected ==
  ASSUME NEW T, inbox \in Seq(T), \A i \in EdgePlaces : EdgeAt[i] \in T
  PROVE  Collects(EdgesKept, Len(inbox), EdgePlaces, EdgeAt, T)
<1> DEFINE L == Len(inbox)
<1> DEFINE rule(f) == [n \in 0..L |-> IF n = 0 THEN <<>>
        ELSE IF inbox[n].op \notin Edges THEN f[n - 1]
        ELSE Append(f[n - 1],
                    IF inbox[n].op = "Activate" /\ StopAfter(n)
                    THEN [inbox[n] EXCEPT !.arg = FALSE] ELSE inbox[n])]
<1> DEFINE kept == CHOOSE f : f = rule(f)
<1>1. L \in Nat /\ EdgePlaces \subseteq 1..L
  BY DEF EdgePlaces
<1>2. EdgesKept = kept[L]
  BY DEF EdgesKept
<1>3. ASSUME NEW f PROVE Grows(f, L, EdgePlaces, EdgeAt) <=> f = rule(f)
  <2>1. ASSUME NEW n \in 0..L, n # 0
        PROVE /\ n \in 1..L /\ (n \notin EdgePlaces <=> inbox[n].op \notin Edges)
              /\ EdgeAt[n] = IF inbox[n].op = "Activate" /\ StopAfter(n)
                    THEN [inbox[n] EXCEPT !.arg = FALSE] ELSE inbox[n]
    BY <2>1, <1>1 DEF EdgePlaces, EdgeAt
  <2>2. [n \in 0..L |-> IF n = 0 THEN <<>> ELSE IF n \notin EdgePlaces THEN f[n - 1]
                      ELSE Append(f[n - 1], EdgeAt[n])] = rule(f)
    BY <2>1, Zenon
  <2> HIDE DEF rule, L
  <2> QED BY <2>2 DEF Grows
<1>4. \E f : f = rule(f)
  BY <1>1, <1>3, GrowthExists
<1>5. kept = rule(kept)
  <2> HIDE DEF rule
  <2> QED BY <1>4
<1> HIDE DEF rule, kept, L
<1>6. Grows(kept, L, EdgePlaces, EdgeAt)
  BY <1>3, <1>5
<1>7. Collects(kept[L], L, EdgePlaces, EdgeAt, T)
  BY <1>1, <1>6, GrowthCollects
<1> QED BY <1>2, <1>7 DEF L

-----------------------------------------------------------------------------
BatchSpec == BatchInit /\ [][BatchNext]_batchVars

Scalars == {"SetDesired", "SetRunIntent", "SetMaster"}
Arguments == Selections \cup Levels \cup {"Running", "Stopped", Nothing} \cup BOOLEAN
CommandShape ==
  [id : Nat, op : Scalars \cup Edges, arg : Arguments, confirmed : BOOLEAN, seen : Selections,
   expected : Nat]

\* The commands of a queue or a batch.
Elements(s) == {s[i] : i \in 1..Len(s)}

\* Which commands a batch executes first.
Rank(c) == CASE c.op = "SetDesired" -> 1 [] c.op = "SetRunIntent" -> 2
             [] c.op = "SetMaster" -> 3 [] OTHER -> 4
Follows(c, d) == Rank(c) < Rank(d) \/ (Rank(c) = 4 /\ Rank(d) = 4 /\ c.id < d.id)
Ordered(s) == \A i, j \in 1..Len(s) : i < j => Follows(s[i], s[j])

\* What every command that waits says is true: who expects a receipt, what it may
\* ask for, and that a selection it has seen is shown unless the revision moved on.
Sound(c) ==
  /\ c.id < next_id
  /\ c.op \in Edges => c.confirmed
  /\ c.op \in {"SetDesired", "SetRunIntent"} => ~c.confirmed
  /\ c.op \in {"SetDesired", "Apply"} => c.arg \in Selections
  /\ c.op = "SetRunIntent" => c.arg \in {"Running", "Stopped"}
  /\ c.op = "Activate" => c.arg \in BOOLEAN
  /\ c.expected <= desired_revision
  /\ c.expected = desired_revision => c.seen = shown.desired

Starting(c) == c.op = "Activate" /\ c.arg

\* The newest intent, as what is left of the batch will leave it.
IntentUnderWay ==
  due_intent # AnyIntent =>
    /\ \A c \in Elements(work) : Starting(c) => due_intent = "Running"
    /\ \A c \in Elements(work) : c.op # "Shutdown"
    /\ (\A c \in Elements(work) : ~Starting(c)) =>
         \A c \in Elements(work) : c.op = "SetRunIntent" => c.arg = due_intent
    /\ (\A c \in Elements(work) : ~Starting(c) /\ c.op # "SetRunIntent") =>
         run_intent = due_intent

\* Who still answers an open receipt.
Accounted ==
  \A i \in 0..MaxSent :
    receipts[i].state = "open" =>
      /\ receipts[i].floor = 0
      /\ \/ \E c \in Elements(inbox) \cup Elements(work) : c.confirmed /\ c.id = i
         \/ i \in floors

BatchTyped ==
  /\ inbox \in Seq(CommandShape) /\ work \in Seq(CommandShape)
  /\ Len(inbox) <= CommandCapacity /\ next_id \in 0..MaxSent
  /\ DOMAIN stored = {"desired", "master"} /\ stored.desired \in Selections /\ shown = stored
  /\ {busy, sleeping, ended} \subseteq BOOLEAN
  /\ run_intent \in {"Running", "Stopped"}
  /\ desired_revision \in Nat /\ session_generation \in Nat
  /\ receipts \in [0..MaxSent -> CommandReceipt]

\* The inductive invariant of the batch.
BatchInv ==
  /\ BatchTyped
  /\ \A i, j \in 1..Len(inbox) : i < j => inbox[i].id < inbox[j].id
  /\ \A c \in Elements(inbox) \cup Elements(work) : Sound(c)
  /\ Ordered(work)
  /\ ~busy => work = <<>> /\ floors = {} /\ cause = Nothing
  /\ Accounted /\ IntentUnderWay
  /\ cause = Nothing /\ ~sleeping /\ run_intent = "Running" => built.for = shown.desired
  /\ floors # {} => run_intent = "Running" /\ \A c \in Elements(work) : c.op \in Edges

\* Facts about the elements of sequences.
LEMMA InElements ==
  ASSUME NEW s, NEW i \in 1..Len(s)
  PROVE  s[i] \in Elements(s)
BY DEF Elements

LEMMA ElementsOfSeq ==
  ASSUME NEW T, NEW s \in Seq(T)
  PROVE  Elements(s) \subseteq T
BY ElementOfSeq DEF Elements

LEMMA NoElements ==
  ASSUME NEW s, s = <<>>
  PROVE  Elements(s) = {} /\ Ordered(s)
<1>1. 1..Len(s) = {}
  OBVIOUS
<1> QED BY <1>1 DEF Elements, Ordered

LEMMA ElementsOfAppend ==
  ASSUME NEW T, NEW s \in Seq(T), NEW e \in T
  PROVE  Elements(Append(s, e)) = Elements(s) \cup {e}
<1> DEFINE a == Append(s, e)
<1>1. /\ Len(a) = Len(s) + 1 /\ a[Len(s) + 1] = e /\ Len(s) \in Nat
      /\ \A i \in 1..Len(s) : a[i] = s[i]
  BY AppendProperties
<1>2. 1..Len(a) = 1..Len(s) \cup {Len(s) + 1}
  BY <1>1
<1> HIDE DEF a
<1> QED BY <1>1, <1>2 DEF Elements, a

LEMMA ElementsOfConcat ==
  ASSUME NEW T, NEW s \in Seq(T), NEW t \in Seq(T)
  PROVE  /\ s \o t \in Seq(T) /\ Len(s \o t) = Len(s) + Len(t)
         /\ Elements(s \o t) = Elements(s) \cup Elements(t)
<1> DEFINE u == s \o t
<1>1. /\ u \in Seq(T) /\ Len(u) = Len(s) + Len(t)
      /\ \A i \in 1..Len(s) + Len(t) : u[i] = IF i <= Len(s) THEN s[i] ELSE t[i - Len(s)]
  BY ConcatProperties
<1>2. PICK m \in Nat : m = Len(s)
  OBVIOUS
<1>3. PICK n \in Nat : n = Len(t)
  OBVIOUS
<1> HIDE DEF u
<1>4. ASSUME NEW e \in Elements(u) PROVE e \in Elements(s) \cup Elements(t)
  <2>1. PICK i \in 1..(m + n) : e = u[i]
    BY <1>1, <1>2, <1>3 DEF Elements
  <2>2. CASE i <= m
    <3>1. i \in 1..m /\ e = s[i]
      BY <2>1, <2>2, <1>1, <1>2, <1>3
    <3> QED BY <3>1, <1>2 DEF Elements
  <2>3. CASE ~(i <= m)
    <3>1. i - m \in 1..n /\ e = t[i - m]
      BY <2>1, <2>3, <1>1, <1>2, <1>3
    <3> QED BY <3>1, <1>3 DEF Elements
  <2> QED BY <2>2, <2>3
<1>5. ASSUME NEW e \in Elements(s) PROVE e \in Elements(u)
  <2>1. PICK i \in 1..m : e = s[i]
    BY <1>2 DEF Elements
  <2>2. i \in 1..(m + n) /\ u[i] = e
    BY <2>1, <1>1, <1>2, <1>3
  <2> QED BY <2>2, <1>1, <1>2, <1>3 DEF Elements
<1>6. ASSUME NEW e \in Elements(t) PROVE e \in Elements(u)
  <2>1. PICK i \in 1..n : e = t[i]
    BY <1>3 DEF Elements
  <2>2. m + i \in 1..(m + n) /\ ~(m + i <= m) /\ (m + i) - m = i
    BY <2>1
  <2>3. u[m + i] = e
    BY <2>1, <2>2, <1>1, <1>2, <1>3
  <2> QED BY <2>2, <2>3, <1>1, <1>2, <1>3 DEF Elements
<1>7. Elements(u) = Elements(s) \cup Elements(t)
  BY <1>4, <1>5, <1>6
<1> QED BY <1>1, <1>7 DEF u

\* Two ordered parts, the first of lower rank, make an ordered whole.
LEMMA OrderedConcat ==
  ASSUME NEW T, NEW s \in Seq(T), NEW t \in Seq(T), Ordered(s), Ordered(t),
         \A c \in Elements(s), d \in Elements(t) : Rank(c) < Rank(d)
  PROVE  Ordered(s \o t)
<1> DEFINE u == s \o t
<1>1. /\ Len(u) = Len(s) + Len(t)
      /\ \A i \in 1..Len(s) + Len(t) : u[i] = IF i <= Len(s) THEN s[i] ELSE t[i - Len(s)]
  BY ConcatProperties
<1>2. PICK m \in Nat : m = Len(s)
  OBVIOUS
<1>3. PICK n \in Nat : n = Len(t)
  OBVIOUS
<1> HIDE DEF u
<1>4. ASSUME NEW i \in 1..Len(u), NEW j \in 1..Len(u), i < j PROVE Follows(u[i], u[j])
  <2>1. i \in 1..(m + n) /\ j \in 1..(m + n)
    BY <1>1, <1>2, <1>3
  <2>2. CASE j <= m
    <3>1. i \in 1..m /\ j \in 1..m /\ u[i] = s[i] /\ u[j] = s[j]
      BY <2>1, <2>2, <1>1, <1>2, <1>3, <1>4
    <3> QED BY <3>1, <1>4, <1>2 DEF Ordered
  <2>3. CASE i > m
    <3>1. i - m \in 1..n /\ j - m \in 1..n /\ i - m < j - m /\ u[i] = t[i - m] /\ u[j] = t[j - m]
      BY <2>1, <2>3, <1>1, <1>2, <1>3, <1>4
    <3> QED BY <3>1, <1>3 DEF Ordered
  <2>4. CASE i <= m /\ j > m
    <3>1. i \in 1..m /\ j - m \in 1..n /\ u[i] = s[i] /\ u[j] = t[j - m]
      BY <2>1, <2>4, <1>1, <1>2, <1>3
    <3>2. u[i] \in Elements(s) /\ u[j] \in Elements(t)
      BY <3>1, <1>2, <1>3, InElements
    <3> QED BY <3>2 DEF Follows
  <2> QED BY <2>1, <2>2, <2>3, <2>4
<1> QED BY <1>4 DEF Ordered, u

\* Taking the head.
LEMMA ElementsOfTail ==
  ASSUME NEW T, NEW s \in Seq(T), s # <<>>
  PROVE  /\ Tail(s) \in Seq(T) /\ Head(s) \in Elements(s) /\ Head(s) \in T
         /\ Elements(s) = {Head(s)} \cup Elements(Tail(s))
         /\ Ordered(s) => Ordered(Tail(s)) /\ \A c \in Elements(Tail(s)) : Follows(Head(s), c)
<1>1. /\ Head(s) = s[1] /\ Tail(s) \in Seq(T) /\ Len(Tail(s)) = Len(s) - 1
      /\ \A i \in 1..Len(Tail(s)) : Tail(s)[i] = s[i + 1]
  BY HeadTailProperties
<1>2. PICK n \in Nat : n = Len(s) /\ n > 0
  BY EmptySeq, LenProperties
<1>3. 1 \in 1..Len(s) /\ 1..Len(Tail(s)) = 1..(n - 1)
  BY <1>1, <1>2
<1>9. Elements(s) \subseteq T
  BY ElementsOfSeq
<1>4. Head(s) \in Elements(s) /\ Head(s) \in T
  BY <1>1, <1>3, <1>9, InElements
<1>5. ASSUME NEW i \in 1..Len(Tail(s)) PROVE i + 1 \in 1..Len(s) /\ Tail(s)[i] = s[i + 1] /\ 1 < i + 1
  BY <1>1, <1>2, <1>3
<1>6. Elements(Tail(s)) \subseteq Elements(s)
  BY <1>5 DEF Elements
<1>7. ASSUME NEW c \in Elements(s), c # Head(s) PROVE c \in Elements(Tail(s))
  <2>1. PICK i \in 1..Len(s) : c = s[i]
    BY DEF Elements
  <2>2. i # 1
    BY <2>1, <1>7, <1>1
  <2>3. i - 1 \in 1..Len(Tail(s)) /\ (i - 1) + 1 = i
    BY <2>1, <2>2, <1>2, <1>3
  <2>4. Tail(s)[i - 1] = c
    BY <2>1, <2>3, <1>1
  <2> QED BY <2>3, <2>4, InElements
<1>8. ASSUME Ordered(s) PROVE Ordered(Tail(s)) /\ \A c \in Elements(Tail(s)) : Follows(Head(s), c)
  <2>1. ASSUME NEW i \in 1..Len(Tail(s)), NEW j \in 1..Len(Tail(s)), i < j
        PROVE  Follows(Tail(s)[i], Tail(s)[j])
    <3>1. i \in Nat /\ j \in Nat /\ i + 1 < j + 1
      BY <2>1, <1>3
    <3> QED BY <3>1, <1>5, <1>8 DEF Ordered
  <2>2. \A i \in 1..Len(Tail(s)) : Follows(Head(s), Tail(s)[i])
    BY <1>1, <1>3, <1>5, <1>8 DEF Ordered
  <2> QED BY <2>1, <2>2 DEF Ordered, Elements
<1> QED BY <1>1, <1>4, <1>6, <1>7, <1>8

\* A non-empty set of places has a last one.
LEMMA LastPlace ==
  ASSUME NEW L \in Nat, NEW P, P \subseteq 1..L, P # {}
  PROVE  \E i \in P : \A j \in P : j <= i
<1> DEFINE S == {n \in Nat : \A Q \in SUBSET (1..n) : Q # {} => \E i \in Q : \A j \in Q : j <= i}
<1>1. 0 \in S
  <2>1. \A Q \in SUBSET (1..0) : Q = {}
    OBVIOUS
  <2> QED BY <2>1
<1>2. ASSUME NEW n \in Nat, n \in S PROVE n + 1 \in S
  <2>1. ASSUME NEW Q \in SUBSET (1..(n + 1)), Q # {} PROVE \E i \in Q : \A j \in Q : j <= i
    <3>1. CASE n + 1 \in Q
      <4>1. \A j \in Q : j <= n + 1
        OBVIOUS
      <4> QED BY <3>1, <4>1
    <3>2. CASE n + 1 \notin Q
      <4>1. Q \in SUBSET (1..n)
        BY <3>2
      <4> QED BY <4>1, <1>2, <2>1
    <3> QED BY <3>1, <3>2
  <2> QED BY <2>1
<1> HIDE DEF S
<1>3. L \in S
  BY <1>1, <1>2, NatSets
<1> QED BY <1>3 DEF S

-----------------------------------------------------------------------------
(* What a drained inbox becomes.                                           *)

\* The newest command of a kind, if there is one, is the only one of its slot.
LEMMA NewestIsOne ==
  ASSUME inbox \in Seq(CommandShape), NEW op
  PROVE  /\ (\A i \in 1..Len(inbox) : inbox[i].op # op) => Newest(op) = {}
         /\ (\E i \in 1..Len(inbox) : inbox[i].op = op) =>
              \E i \in 1..Len(inbox) : Newest(op) = {i} /\ inbox[i].op = op
<1> DEFINE P == {i \in 1..Len(inbox) : inbox[i].op = op}
<1>1. Len(inbox) \in Nat
  BY LenProperties
<1>2. ASSUME \E i \in 1..Len(inbox) : inbox[i].op = op
      PROVE  \E i \in 1..Len(inbox) : Newest(op) = {i} /\ inbox[i].op = op
  <2>1. P \subseteq 1..Len(inbox) /\ P # {}
    BY <1>2
  <2>2. \A i : i \in P <=> i \in 1..Len(inbox) /\ inbox[i].op = op
    OBVIOUS
  <2> HIDE DEF P
  <2>3. PICK i \in P : \A j \in P : j <= i
    BY <2>1, <1>1, LastPlace
  <2>4. i \in 1..Len(inbox) /\ inbox[i].op = op
    BY <2>2
  <2>5. ASSUME NEW k \in Newest(op) PROVE k = i
    <3>1. k \in P /\ k <= i /\ k \in 1..Len(inbox)
      BY <2>2, <2>3, <2>5 DEF Newest
    <3>2. k < i => i \in (k + 1)..Len(inbox)
      BY <3>1, <2>4, <1>1
    <3> QED BY <3>1, <3>2, <2>4, <2>5 DEF Newest
  <2>6. i \in Newest(op)
    <3>1. ASSUME NEW j \in (i + 1)..Len(inbox) PROVE inbox[j].op # op
      <4>1. j \in 1..Len(inbox) /\ ~(j <= i)
        BY <2>4, <1>1
      <4> QED BY <4>1, <2>2, <2>3
    <3> QED BY <3>1, <2>4 DEF Newest
  <2> QED BY <2>4, <2>5, <2>6
<1> QED BY <1>2 DEF Newest

LEMMA SlotOfOne ==
  ASSUME NEW op, NEW i, Newest(op) = {i}
  PROVE  Slot(op) = <<inbox[i]>>
<1>1. Cardinality(Newest(op)) = 1
  BY FS_Singleton
<1>2. (CHOOSE k \in Newest(op) : TRUE) = i
  OBVIOUS
<1>3. 1..1 = {1}
  OBVIOUS
<1> QED BY <1>1, <1>2, <1>3 DEF Slot

LEMMA SlotOfNone ==
  ASSUME NEW op, Newest(op) = {}
  PROVE  Slot(op) = <<>>
<1>1. Cardinality(Newest(op)) = 0
  BY FS_EmptySet
<1>2. Slot(op) = [k \in 1..0 |-> inbox[CHOOSE i \in Newest(op) : TRUE]]
  BY <1>1 DEF Slot
<1> QED BY <1>2

\* What a scalar's slot holds: the newest command of its kind.
SlotOf(s, op) ==
  /\ s \in Seq(CommandShape) /\ Ordered(s)
  /\ \A c \in Elements(s) : c.op = op /\ c \in Elements(inbox)

LEMMA OneElement ==
  ASSUME NEW T, NEW c \in T
  PROVE  <<c>> \in Seq(T) /\ Elements(<<c>>) = {c} /\ Ordered(<<c>>)
<1>1. <<c>> \in Seq(T) /\ Len(<<c>>) = 1 /\ <<c>>[1] = c /\ 1..1 = {1}
  OBVIOUS
<1> QED BY <1>1 DEF Elements, Ordered

LEMMA SlotHolds ==
  ASSUME inbox \in Seq(CommandShape), NEW op
  PROVE  /\ SlotOf(Slot(op), op)
         /\ \A i \in 1..Len(inbox) : inbox[i].op = op =>
              \E j \in 1..Len(inbox) : /\ inbox[j].op = op /\ j >= i
                                       /\ Elements(Slot(op)) = {inbox[j]}
                                       /\ \A k \in 1..Len(inbox) : inbox[k].op = op => k <= j
<1>1. CASE \A i \in 1..Len(inbox) : inbox[i].op # op
  <2>1. Slot(op) = <<>> /\ <<>> \in Seq(CommandShape)
    BY <1>1, NewestIsOne, SlotOfNone
  <2>2. Elements(Slot(op)) = {} /\ Ordered(Slot(op))
    BY <2>1, NoElements
  <2> QED BY <2>1, <2>2, <1>1 DEF SlotOf
<1>2. CASE \E i \in 1..Len(inbox) : inbox[i].op = op
  <2>1. PICK j \in 1..Len(inbox) : Newest(op) = {j} /\ inbox[j].op = op
    BY <1>2, NewestIsOne
  <2>2. Slot(op) = <<inbox[j]>>
    BY <2>1, SlotOfOne
  <2>3. inbox[j] \in CommandShape /\ inbox[j] \in Elements(inbox)
    BY ElementOfSeq, InElements
  <2>4. Slot(op) \in Seq(CommandShape) /\ Elements(Slot(op)) = {inbox[j]} /\ Ordered(Slot(op))
    BY <2>2, <2>3, OneElement
  <2>5. ASSUME NEW k \in 1..Len(inbox), inbox[k].op = op PROVE k <= j
    <3>1. ~(k \in (j + 1)..Len(inbox))
      BY <2>1, <2>5 DEF Newest
    <3> QED BY <3>1, LenProperties
  <2> QED BY <2>1, <2>3, <2>4, <2>5 DEF SlotOf
<1> QED BY <1>1, <1>2

\* Commands keep their ids apart.
Risen == \A i, j \in 1..Len(inbox) : i < j => inbox[i].id < inbox[j].id

LEMMA CommandFields ==
  ASSUME NEW c \in CommandShape
  PROVE  /\ DOMAIN c = {"id", "op", "arg", "confirmed", "seen", "expected"}
         /\ c.id \in Nat /\ c.op \in Scalars \cup Edges /\ c.arg \in Arguments
         /\ c.confirmed \in BOOLEAN /\ c.seen \in Selections /\ c.expected \in Nat
BY DEF CommandShape

LEMMA DistinctIds ==
  ASSUME inbox \in Seq(CommandShape), Risen,
         NEW i \in 1..Len(inbox), NEW j \in 1..Len(inbox), inbox[i].id = inbox[j].id
  PROVE  i = j
<1>1. inbox[i].id \in Nat /\ inbox[j].id \in Nat
  BY ElementOfSeq, CommandFields
<1>2. i \in Nat /\ j \in Nat
  OBVIOUS
<1> QED BY <1>1, <1>2 DEF Risen

\* The winning master value answers the newest confirmed request, if there is one.
MasterOf(s) ==
  /\ s \in Seq(CommandShape) /\ Ordered(s)
  /\ \A c \in Elements(s) :
       /\ c.op = "SetMaster"
       /\ \E i, j \in 1..Len(inbox) :
            /\ c.id = inbox[i].id
            /\ c.seen = inbox[j].seen /\ c.expected = inbox[j].expected

LEMMA MasterHolds ==
  ASSUME inbox \in Seq(CommandShape), Risen
  PROVE  /\ MasterOf(MasterSlot)
         /\ \A i \in 1..Len(inbox) : Confirmed(i) /\ inbox[i].id \notin Superseded =>
              \E c \in Elements(MasterSlot) : c.confirmed /\ c.id = inbox[i].id
<1> DEFINE won == {i \in 1..Len(inbox) : Confirmed(i)} \ {i \in 1..Len(inbox) :
                 inbox[i].id \in Superseded}
<1>1. CASE Newest("SetMaster") = {}
  <2>1. \A i \in 1..Len(inbox) : inbox[i].op # "SetMaster"
    BY <1>1, NewestIsOne
  <2>2. Slot("SetMaster") = <<>>
    BY <1>1, SlotOfNone
  <2>3. Len(Slot("SetMaster")) = 0
    BY <2>2
  <2>4. MasterSlot = <<>>
    <3>1. MasterSlot = [k \in 1..0 |->
             [Slot("SetMaster")[k] EXCEPT !.confirmed = (won # {}),
                !.id = IF won = {} THEN @ ELSE inbox[CHOOSE i \in won : TRUE].id]]
      BY <2>3 DEF MasterSlot
    <3> QED BY <3>1
  <2>5. Elements(MasterSlot) = {} /\ Ordered(MasterSlot) /\ MasterSlot \in Seq(CommandShape)
    BY <2>4, NoElements
  <2> QED BY <2>1, <2>5 DEF MasterOf, Confirmed
<1>2. CASE Newest("SetMaster") # {}
  <2>1. PICK j \in 1..Len(inbox) : Newest("SetMaster") = {j} /\ inbox[j].op = "SetMaster"
    BY <1>2, NewestIsOne
  <2>2. Slot("SetMaster") = <<inbox[j]>>
    BY <2>1, SlotOfOne
  <2>3. Len(Slot("SetMaster")) = 1 /\ Slot("SetMaster")[1] = inbox[j] /\ 1..1 = {1}
    BY <2>2
  <2> DEFINE c == [inbox[j] EXCEPT !.confirmed = (won # {}),
                     !.id = IF won = {} THEN @ ELSE inbox[CHOOSE i \in won : TRUE].id]
  <2>4. MasterSlot = <<c>>
    <3>1. MasterSlot = [k \in 1..1 |-> c]
      BY <2>3 DEF MasterSlot
    <3> HIDE DEF c
    <3> QED BY <3>1
  <2>5. PICK l \in 1..Len(inbox) :
          inbox[l].id = IF won = {} THEN inbox[j].id ELSE inbox[CHOOSE i \in won : TRUE].id
    <3>1. won # {} => (CHOOSE i \in won : TRUE) \in 1..Len(inbox)
      <4>1. won \subseteq 1..Len(inbox)
        OBVIOUS
      <4> HIDE DEF won
      <4> QED BY <4>1
    <3> HIDE DEF won
    <3> QED BY <3>1
  <2>6. inbox[j] \in CommandShape /\ inbox[l] \in CommandShape
    BY ElementOfSeq
  <2>7. PICK b \in BOOLEAN : b = (won # {})
    OBVIOUS
  <2>8. c = [inbox[j] EXCEPT !.confirmed = b, !.id = inbox[l].id]
    BY <2>5, <2>7
  <2> HIDE DEF c
  <2>9. /\ c \in CommandShape /\ c.op = "SetMaster" /\ c.confirmed = b /\ c.id = inbox[l].id
        /\ c.seen = inbox[j].seen /\ c.expected = inbox[j].expected
    <3>1. inbox[l].id \in Nat
      BY <2>6, CommandFields
    <3>2. DOMAIN inbox[j] = {"id", "op", "arg", "confirmed", "seen", "expected"}
      BY <2>6, CommandFields
    <3>3. c \in CommandShape
      BY <2>6, <2>8, <3>1 DEF CommandShape
    <3> QED BY <2>1, <2>8, <3>2, <3>3
  <2>10. MasterSlot \in Seq(CommandShape) /\ Elements(MasterSlot) = {c} /\ Ordered(MasterSlot)
    BY <2>4, <2>9, OneElement
  <2>11. MasterOf(MasterSlot)
    BY <2>9, <2>10 DEF MasterOf
  <2>12. ASSUME NEW i \in 1..Len(inbox), Confirmed(i), inbox[i].id \notin Superseded
         PROVE  c.confirmed /\ c.id = inbox[i].id
    <3>1. i \in won
      BY <2>12
    <3>2. ASSUME NEW k \in won PROVE k = i
      <4>1. k \in 1..Len(inbox) /\ Confirmed(k) /\ inbox[k].id \notin Superseded
        BY <3>2
      <4>2. ~(\E q \in (k + 1)..Len(inbox) : Confirmed(q))
        BY <4>1 DEF Superseded
      <4>3. ~(\E q \in (i + 1)..Len(inbox) : Confirmed(q))
        BY <2>12 DEF Superseded
      <4>4. i \notin (k + 1)..Len(inbox) /\ k \notin (i + 1)..Len(inbox)
        BY <4>1, <4>2, <4>3, <2>12
      <4> QED BY <4>1, <4>4, LenProperties
    <3>3. won = {i}
      <4> HIDE DEF won
      <4> QED BY <3>1, <3>2
    <3>4. (CHOOSE q \in won : TRUE) = i
      <4> HIDE DEF won
      <4> QED BY <3>3
    <3>5. won # {}
      BY <3>1
    <3> HIDE DEF won
    <3> QED BY <2>5, <2>7, <2>9, <3>4, <3>5
  <2> QED BY <2>10, <2>11, <2>12
<1> QED BY <1>1, <1>2

\* The edges of the batch: every edge of the queue, in its order, and unchanged
\* but for a cancelled start.
EdgesOf(s) ==
  /\ s \in Seq(CommandShape) /\ Ordered(s)
  /\ \A c \in Elements(s) :
       \E i \in 1..Len(inbox) : /\ inbox[i].op \in Edges /\ c.op = inbox[i].op
                                /\ c.id = inbox[i].id /\ c.confirmed = inbox[i].confirmed
                                /\ c.seen = inbox[i].seen /\ c.expected = inbox[i].expected
                                /\ \/ c.arg = inbox[i].arg /\ ~(c.op = "Activate" /\ StopAfter(i))
                                   \/ c.arg = FALSE /\ c.op = "Activate" /\ StopAfter(i)
  /\ \A i \in 1..Len(inbox) : inbox[i].op \in Edges =>
       \E c \in Elements(s) : /\ c.id = inbox[i].id /\ c.confirmed = inbox[i].confirmed
                              /\ c.op = inbox[i].op
                              /\ ~StopAfter(i) => c = inbox[i]

LEMMA EdgeKept ==
  ASSUME inbox \in Seq(CommandShape), NEW i \in 1..Len(inbox), inbox[i].op \in Edges
  PROVE  /\ EdgeAt[i] \in CommandShape /\ EdgeAt[i].op = inbox[i].op
         /\ EdgeAt[i].id = inbox[i].id /\ EdgeAt[i].confirmed = inbox[i].confirmed
         /\ EdgeAt[i].seen = inbox[i].seen /\ EdgeAt[i].expected = inbox[i].expected
         /\ \/ EdgeAt[i].arg = inbox[i].arg /\ ~(inbox[i].op = "Activate" /\ StopAfter(i))
            \/ EdgeAt[i].arg = FALSE /\ inbox[i].op = "Activate" /\ StopAfter(i)
         /\ ~StopAfter(i) => EdgeAt[i] = inbox[i]
<1>1. inbox[i] \in CommandShape
  BY ElementOfSeq
<1>2. /\ DOMAIN inbox[i] = {"id", "op", "arg", "confirmed", "seen", "expected"}
      /\ FALSE \in Arguments
  BY <1>1, CommandFields DEF Arguments
<1>3. EdgeAt[i] = IF inbox[i].op = "Activate" /\ StopAfter(i)
                  THEN [inbox[i] EXCEPT !.arg = FALSE] ELSE inbox[i]
  BY DEF EdgeAt
<1>4. CASE inbox[i].op = "Activate" /\ StopAfter(i)
  <2>1. EdgeAt[i] = [inbox[i] EXCEPT !.arg = FALSE]
    BY <1>3, <1>4
  <2>2. EdgeAt[i] \in CommandShape
    BY <1>1, <1>2, <2>1 DEF CommandShape
  <2> QED BY <1>2, <1>4, <2>1, <2>2
<1>5. CASE ~(inbox[i].op = "Activate" /\ StopAfter(i))
  BY <1>1, <1>3, <1>5
<1> QED BY <1>4, <1>5

LEMMA EdgesHold ==
  ASSUME inbox \in Seq(CommandShape), Risen
  PROVE  EdgesOf(EdgesKept)
<1> DEFINE q == EdgesKept
<1>1. \A i \in EdgePlaces : i \in 1..Len(inbox) /\ inbox[i].op \in Edges /\ EdgeAt[i] \in CommandShape
  BY EdgeKept DEF EdgePlaces
<1>2. Collects(q, Len(inbox), EdgePlaces, EdgeAt, CommandShape)
  BY <1>1, EdgesCollected
<1> HIDE DEF q
<1>3. PICK m \in Nat : \E at \in [1..m -> EdgePlaces] :
                         CollectsAt(q, Len(inbox), EdgePlaces, EdgeAt, CommandShape, m, at)
  BY <1>2 DEF Collects
<1>4. PICK at \in [1..m -> EdgePlaces] :
        CollectsAt(q, Len(inbox), EdgePlaces, EdgeAt, CommandShape, m, at)
  BY <1>3
<1>5. /\ q \in Seq(CommandShape) /\ Len(q) = m
      /\ \A a, b \in 1..m : a < b => at[a] < at[b]
      /\ \A k \in 1..m : at[k] \in 1..Len(inbox) /\ q[k] = EdgeAt[at[k]]
      /\ \A i \in EdgePlaces : i <= Len(inbox) => \E k \in 1..m : at[k] = i
  BY <1>4 DEF CollectsAt
<1>6. \A k \in 1..m : at[k] \in 1..Len(inbox) /\ inbox[at[k]].op \in Edges
  BY <1>1
<1>7. ASSUME NEW c \in Edges PROVE c \notin {"SetDesired", "SetRunIntent", "SetMaster"}
  BY DEF Edges
<1>8. Ordered(q)
  <2>1. ASSUME NEW a \in 1..m, NEW b \in 1..m, a < b PROVE Follows(q[a], q[b])
    <3>1. /\ at[a] \in 1..Len(inbox) /\ at[b] \in 1..Len(inbox) /\ at[a] < at[b]
          /\ inbox[at[a]].op \in Edges /\ inbox[at[b]].op \in Edges
      BY <1>5, <1>6, <2>1
    <3>2. inbox[at[a]].id < inbox[at[b]].id
      BY <3>1 DEF Risen
    <3>5. q[a] = EdgeAt[at[a]] /\ q[b] = EdgeAt[at[b]]
      BY <1>5
    <3>6. EdgeAt[at[a]].id = inbox[at[a]].id /\ EdgeAt[at[a]].op = inbox[at[a]].op
      BY <3>1, EdgeKept
    <3>7. EdgeAt[at[b]].id = inbox[at[b]].id /\ EdgeAt[at[b]].op = inbox[at[b]].op
      BY <3>1, EdgeKept
    <3>3. /\ q[a].id = inbox[at[a]].id /\ q[b].id = inbox[at[b]].id
          /\ q[a].op = inbox[at[a]].op /\ q[b].op = inbox[at[b]].op
      BY <3>5, <3>6, <3>7
    <3>4. Rank(q[a]) = 4 /\ Rank(q[b]) = 4
      BY <3>1, <3>3, <1>7 DEF Rank
    <3> QED BY <3>2, <3>3, <3>4 DEF Follows
  <2> QED BY <2>1, <1>5 DEF Ordered
<1>9. ASSUME NEW c \in Elements(q)
      PROVE  \E i \in 1..Len(inbox) :
               /\ inbox[i].op \in Edges /\ c.op = inbox[i].op
               /\ c.id = inbox[i].id /\ c.confirmed = inbox[i].confirmed
               /\ c.seen = inbox[i].seen /\ c.expected = inbox[i].expected
               /\ \/ c.arg = inbox[i].arg /\ ~(c.op = "Activate" /\ StopAfter(i))
                  \/ c.arg = FALSE /\ c.op = "Activate" /\ StopAfter(i)
  <2>1. PICK k \in 1..m : c = q[k]
    BY <1>5 DEF Elements
  <2>2. at[k] \in 1..Len(inbox) /\ inbox[at[k]].op \in Edges /\ c = EdgeAt[at[k]]
    BY <2>1, <1>5, <1>6
  <2>3. PICK i \in 1..Len(inbox) : i = at[k]
    BY <2>2
  <2>4. inbox[i].op \in Edges /\ c = EdgeAt[i]
    BY <2>2, <2>3
  <2>5. /\ c.op = inbox[i].op
        /\ c.id = inbox[i].id /\ c.confirmed = inbox[i].confirmed
        /\ c.seen = inbox[i].seen /\ c.expected = inbox[i].expected
        /\ \/ c.arg = inbox[i].arg /\ ~(inbox[i].op = "Activate" /\ StopAfter(i))
           \/ c.arg = FALSE /\ inbox[i].op = "Activate" /\ StopAfter(i)
    BY <2>4, EdgeKept
  <2> QED BY <2>4, <2>5
<1>10. ASSUME NEW i \in 1..Len(inbox), inbox[i].op \in Edges
       PROVE  \E c \in Elements(q) : /\ c.id = inbox[i].id /\ c.confirmed = inbox[i].confirmed
                                     /\ c.op = inbox[i].op
                                     /\ ~StopAfter(i) => c = inbox[i]
  <2>1. i \in EdgePlaces /\ i <= Len(inbox)
    BY <1>10 DEF EdgePlaces
  <2>2. PICK k \in 1..m : at[k] = i
    BY <2>1, <1>5
  <2>3. q[k] = EdgeAt[i] /\ q[k] \in Elements(q)
    BY <2>2, <1>5, InElements
  <2> QED BY <2>3, <1>10, EdgeKept
<1>11. EdgesOf(q)
  BY <1>5, <1>8, <1>9, <1>10 DEF EdgesOf
<1> QED BY <1>11 DEF q

\* The whole batch.
Drained == Slot("SetDesired") \o Slot("SetRunIntent") \o MasterSlot \o EdgesKept

LEMMA DrainedWork ==
  ASSUME inbox \in Seq(CommandShape), Risen, \A c \in Elements(inbox) : Sound(c)
  PROVE  /\ Drained \in Seq(CommandShape) /\ Ordered(Drained)
         /\ \A c \in Elements(Drained) : Sound(c)
         /\ Elements(Drained) = Elements(Slot("SetDesired")) \cup Elements(Slot("SetRunIntent"))
                                  \cup Elements(MasterSlot) \cup Elements(EdgesKept)
<1> DEFINE a == Slot("SetDesired")
<1> DEFINE b == Slot("SetRunIntent")
<1> DEFINE m == MasterSlot
<1> DEFINE e == EdgesKept
<1>1. SlotOf(a, "SetDesired") /\ SlotOf(b, "SetRunIntent")
  BY SlotHolds
<1>2. MasterOf(m) /\ EdgesOf(e)
  BY MasterHolds, EdgesHold
<1>3. Drained = ((a \o b) \o m) \o e
  BY DEF Drained
<1> HIDE DEF a, b, m, e
<1>4. /\ \A c \in Elements(a) : c.op = "SetDesired" /\ Rank(c) = 1
      /\ \A c \in Elements(b) : c.op = "SetRunIntent" /\ Rank(c) = 2
      /\ \A c \in Elements(m) : c.op = "SetMaster" /\ Rank(c) = 3
  BY <1>1, <1>2 DEF SlotOf, MasterOf, Rank
<1>5. \A c \in Elements(e) : c.op \in Edges /\ Rank(c) = 4
  BY <1>2 DEF EdgesOf, Rank, Edges
<1>6. /\ a \in Seq(CommandShape) /\ b \in Seq(CommandShape) /\ m \in Seq(CommandShape)
      /\ e \in Seq(CommandShape) /\ Ordered(a) /\ Ordered(b) /\ Ordered(m) /\ Ordered(e)
  BY <1>1, <1>2 DEF SlotOf, MasterOf, EdgesOf
<1>7. PICK ab : ab = a \o b
  OBVIOUS
<1>8. /\ ab \in Seq(CommandShape) /\ Elements(ab) = Elements(a) \cup Elements(b)
  BY <1>6, <1>7, ElementsOfConcat
<1>9. Ordered(ab)
  BY <1>4, <1>6, <1>7, OrderedConcat
<1>10. PICK abm : abm = ab \o m
  OBVIOUS
<1>11. /\ abm \in Seq(CommandShape) /\ Elements(abm) = Elements(ab) \cup Elements(m)
  BY <1>6, <1>8, <1>10, ElementsOfConcat
<1>12. Ordered(abm)
  <2>1. \A c \in Elements(ab), d \in Elements(m) : Rank(c) < Rank(d)
    BY <1>4, <1>8
  <2> QED BY <1>6, <1>8, <1>9, <1>10, <2>1, OrderedConcat
<1>13. PICK w : w = abm \o e
  OBVIOUS
<1>14. /\ w \in Seq(CommandShape) /\ Elements(w) = Elements(abm) \cup Elements(e)
  BY <1>6, <1>11, <1>13, ElementsOfConcat
<1>15. Ordered(w)
  <2>1. \A c \in Elements(abm), d \in Elements(e) : Rank(c) < Rank(d)
    BY <1>4, <1>5, <1>8, <1>11
  <2> QED BY <1>6, <1>11, <1>12, <1>13, <2>1, OrderedConcat
<1>16. ASSUME NEW c \in Elements(w) PROVE Sound(c)
  <2>1. CASE c \in Elements(a) \cup Elements(b)
    BY <1>1, <2>1 DEF SlotOf
  <2>2. CASE c \in Elements(m)
    <3>1. PICK i \in 1..Len(inbox), j \in 1..Len(inbox) :
            c.id = inbox[i].id /\ c.seen = inbox[j].seen /\ c.expected = inbox[j].expected
      BY <1>2, <2>2 DEF MasterOf
    <3>2. Sound(inbox[i]) /\ Sound(inbox[j])
      BY InElements
    <3>3. c.op = "SetMaster"
      BY <1>4, <2>2
    <3>4. c.op \notin Edges
      BY <3>3 DEF Edges
    <3> QED BY <3>1, <3>2, <3>3, <3>4 DEF Sound
  <2>3. CASE c \in Elements(e)
    <3>1. PICK i \in 1..Len(inbox) :
               /\ inbox[i].op \in Edges /\ c.op = inbox[i].op
               /\ c.id = inbox[i].id /\ c.confirmed = inbox[i].confirmed
               /\ c.seen = inbox[i].seen /\ c.expected = inbox[i].expected
               /\ \/ c.arg = inbox[i].arg /\ ~(c.op = "Activate" /\ StopAfter(i))
                  \/ c.arg = FALSE /\ c.op = "Activate" /\ StopAfter(i)
      BY <1>2, <2>3 DEF EdgesOf
    <3>2. Sound(inbox[i])
      BY InElements
    <3> QED BY <3>1, <3>2 DEF Sound, Edges
  <2> QED BY <1>8, <1>11, <1>14, <2>1, <2>2, <2>3
<1>17. Elements(w) = Elements(a) \cup Elements(b) \cup Elements(m) \cup Elements(e)
  BY <1>8, <1>11, <1>14
<1>18. w = Drained
  BY <1>3, <1>7, <1>10, <1>13
<1> QED BY <1>14, <1>15, <1>16, <1>17, <1>18 DEF a, b, m, e

-----------------------------------------------------------------------------
(* The invariant holds at the start and is kept by every step.             *)

LEMMA BatchInitially == BatchInit => BatchInv
<1> SUFFICES ASSUME BatchInit PROVE BatchInv
  OBVIOUS
<1>1. inbox = <<>> /\ work = <<>> /\ Len(inbox) = 0 /\ <<>> \in Seq(CommandShape)
  BY DEF BatchInit
<1>2. Elements(inbox) = {} /\ Elements(work) = {} /\ Ordered(work)
  BY <1>1, NoElements
<1>3. Lost \in CommandReceipt /\ Lost.state = "lost"
  BY DEF Lost, CommandReceipt, Nothing
<1>4. receipts \in [0..MaxSent -> CommandReceipt] /\ \A i \in 0..MaxSent : receipts[i].state # "open"
  BY <1>3 DEF BatchInit
<1>5. BatchTyped
  <2>1. DOMAIN stored = {"desired", "master"} /\ stored.desired \in Selections
    BY BatchAssumption DEF BatchInit
  <2>2. 0 <= CommandCapacity /\ 0 \in 0..MaxSent /\ 0 \in Nat
    BY BatchAssumption
  <2> QED BY <1>1, <1>4, <2>1, <2>2 DEF BatchInit, BatchTyped
<1>6. \A i, j \in 1..Len(inbox) : i < j => inbox[i].id < inbox[j].id
  BY <1>1
<1> QED BY <1>1, <1>2, <1>4, <1>5, <1>6 DEF BatchInit, BatchInv, Accounted, IntentUnderWay, Nothing

\* A receipt is a record of its three fields.
LEMMA ReceiptFields ==
  /\ Open \in CommandReceipt /\ Open.state = "open" /\ Open.floor = 0
  /\ Lost \in CommandReceipt /\ Lost.state = "lost"
  /\ \A error \in {Nothing, "Persistence", "Rejected"}, floor \in Nat :
       Answer(error, floor) \in CommandReceipt /\ Answer(error, floor).state = "done"
BY DEF Open, Lost, Answer, CommandReceipt, Nothing

LEMMA TypedFields ==
  ASSUME BatchInv
  PROVE  /\ inbox \in Seq(CommandShape) /\ work \in Seq(CommandShape) /\ Risen
         /\ Len(inbox) <= CommandCapacity /\ next_id \in 0..MaxSent /\ MaxSent \in Nat
         /\ shown = stored /\ desired_revision \in Nat
         /\ receipts \in [0..MaxSent -> CommandReceipt]
         /\ \A c \in Elements(inbox) \cup Elements(work) : Sound(c) /\ c \in CommandShape
         /\ Ordered(work)
<1>1. inbox \in Seq(CommandShape) /\ work \in Seq(CommandShape)
  BY DEF BatchInv, BatchTyped
<1>2. Elements(inbox) \subseteq CommandShape
  BY <1>1, ElementsOfSeq
<1>3. Elements(work) \subseteq CommandShape
  BY <1>1, ElementsOfSeq
<1> QED BY <1>1, <1>2, <1>3, BatchAssumption DEF BatchInv, BatchTyped, Risen

\* What a command knows stays true when the selection stays or its revision moves.
LEMMA SoundKept ==
  ASSUME NEW c \in CommandShape, Sound(c), next_id \in Nat, desired_revision \in Nat,
         next_id' = next_id \/ next_id' = next_id + 1,
         \/ desired_revision' = desired_revision /\ shown'.desired = shown.desired
         \/ desired_revision' = desired_revision + 1
  PROVE  Sound(c)'
<1>1. c.id \in Nat /\ c.expected \in Nat
  BY CommandFields
<1>2. c.id < next_id'
  BY <1>1 DEF Sound
<1>3. c.expected <= desired_revision' /\ (c.expected = desired_revision' => c.seen = shown'.desired)
  BY <1>1 DEF Sound
<1> QED BY <1>2, <1>3 DEF Sound

LEMMA SendKeeps ==
  ASSUME BatchInv, TrySend
  PROVE  BatchInv'
<1>1. /\ inbox \in Seq(CommandShape) /\ work \in Seq(CommandShape) /\ Risen
      /\ Len(inbox) <= CommandCapacity /\ next_id \in 0..MaxSent /\ MaxSent \in Nat
      /\ shown = stored /\ desired_revision \in Nat
      /\ receipts \in [0..MaxSent -> CommandReceipt]
      /\ \A c \in Elements(inbox) \cup Elements(work) : Sound(c) /\ c \in CommandShape
      /\ Ordered(work)
  BY TypedFields
<1>2. /\ next_id < MaxSent /\ next_id' = next_id + 1 /\ work' = work /\ busy' = busy
      /\ stored' = stored /\ shown' = shown /\ desired_revision' = desired_revision
      /\ run_intent' = run_intent /\ cause' = cause /\ floors' = floors
      /\ session_generation' = session_generation /\ built' = built
      /\ sleeping' = sleeping /\ ended' = ended /\ due_intent' = due_intent
  BY DEF TrySend, durable, session
<1>3. next_id' \in 0..MaxSent
  BY <1>1, <1>2
<1>4. ASSUME NEW c \in CommandShape, Sound(c) PROVE Sound(c)'
  BY <1>1, <1>2, <1>4, SoundKept
<1>5. IntentUnderWay'
  BY <1>2 DEF BatchInv, IntentUnderWay
<1>6. CASE UNCHANGED <<inbox, receipts>>
  <2>1. \A c \in Elements(inbox) \cup Elements(work) : Sound(c)'
    BY <1>1, <1>4
  <2>2. Accounted'
    BY <1>2, <1>6 DEF BatchInv, Accounted
  <2>3. BatchTyped'
    BY <1>2, <1>3, <1>6 DEF BatchInv, BatchTyped
  <2>4. \A c \in Elements(inbox') \cup Elements(work') : Sound(c)'
    BY <1>2, <1>6, <2>1
  <2> QED BY <1>2, <1>5, <1>6, <2>2, <2>3, <2>4 DEF BatchInv, Elements, Ordered, Follows, Rank
<1>7. CASE /\ Len(inbox) < CommandCapacity
           /\ \E c \in Commands :
                /\ inbox' = Append(inbox, c)
                /\ receipts' = IF c.confirmed THEN [receipts EXCEPT ![next_id] = Open] ELSE receipts
  <2>1. PICK c \in Commands :
               /\ inbox' = Append(inbox, c)
               /\ receipts' = IF c.confirmed THEN [receipts EXCEPT ![next_id] = Open] ELSE receipts
    BY <1>7
  <2>2. c \in CommandShape /\ Sound(c)' /\ c.id = next_id
    <3>1. next_id \in Nat /\ shown.desired \in Selections /\ desired_revision \in Nat
      BY <1>1 DEF BatchInv, BatchTyped
    <3>2. \E op \in Scalars \cup Edges, arg \in Arguments, b \in BOOLEAN :
            /\ c = Cmd(op, arg, b)
            /\ op \in Edges => b
            /\ op \in {"SetDesired", "SetRunIntent"} => ~b
            /\ op \in {"SetDesired", "Apply"} => arg \in Selections
            /\ op = "SetRunIntent" => arg \in {"Running", "Stopped"}
            /\ op = "Activate" => arg \in BOOLEAN
      <4> DEFINE good(op, arg, b) ==
            /\ c = Cmd(op, arg, b)
            /\ op \in Edges => b
            /\ op \in {"SetDesired", "SetRunIntent"} => ~b
            /\ op \in {"SetDesired", "Apply"} => arg \in Selections
            /\ op = "SetRunIntent" => arg \in {"Running", "Stopped"}
            /\ op = "Activate" => arg \in BOOLEAN
      <4>1. ASSUME NEW s \in Selections, c = Cmd("SetDesired", s, FALSE)
            PROVE  good("SetDesired", s, FALSE) /\ "SetDesired" \in Scalars \cup Edges /\ s \in Arguments
        BY <4>1 DEF Scalars, Edges, Arguments
      <4>2. ASSUME NEW i \in {"Running", "Stopped"}, c = Cmd("SetRunIntent", i, FALSE)
            PROVE  good("SetRunIntent", i, FALSE) /\ "SetRunIntent" \in Scalars \cup Edges /\ i \in Arguments
        BY <4>2 DEF Scalars, Edges, Arguments
      <4>3. ASSUME NEW v \in Levels, NEW b \in BOOLEAN, c = Cmd("SetMaster", v, b)
            PROVE  good("SetMaster", v, b) /\ "SetMaster" \in Scalars \cup Edges /\ v \in Arguments
        BY <4>3 DEF Scalars, Edges, Arguments
      <4>4. ASSUME NEW s \in Selections, c = Cmd("Apply", s, TRUE)
            PROVE  good("Apply", s, TRUE) /\ "Apply" \in Scalars \cup Edges /\ s \in Arguments
        BY <4>4 DEF Scalars, Edges, Arguments
      <4>5. ASSUME NEW start \in BOOLEAN, c = Cmd("Activate", start, TRUE)
            PROVE  good("Activate", start, TRUE) /\ "Activate" \in Scalars \cup Edges /\ start \in Arguments
        BY <4>5 DEF Scalars, Edges, Arguments
      <4>6. ASSUME NEW op \in {"Calibrate", "Suspend", "Shutdown"}, c = Cmd(op, Nothing, TRUE)
            PROVE  good(op, Nothing, TRUE) /\ op \in Scalars \cup Edges /\ Nothing \in Arguments
        BY <4>6 DEF Scalars, Edges, Arguments
      <4> HIDE DEF good
      <4>7. \/ \E s \in Selections : c = Cmd("SetDesired", s, FALSE)
            \/ \E i \in {"Running", "Stopped"} : c = Cmd("SetRunIntent", i, FALSE)
            \/ \E v \in Levels, b \in BOOLEAN : c = Cmd("SetMaster", v, b)
            \/ \E s \in Selections : c = Cmd("Apply", s, TRUE)
            \/ \E start \in BOOLEAN : c = Cmd("Activate", start, TRUE)
            \/ \E op \in {"Calibrate", "Suspend", "Shutdown"} : c = Cmd(op, Nothing, TRUE)
        <5> DEFINE A == {Cmd("SetDesired", s, FALSE) : s \in Selections}
        <5> DEFINE B == {Cmd("SetRunIntent", i, FALSE) : i \in {"Running", "Stopped"}}
        <5> DEFINE M == {Cmd("SetMaster", v, b) : v \in Levels, b \in BOOLEAN}
        <5> DEFINE P == {Cmd("Apply", s, TRUE) : s \in Selections}
        <5> DEFINE G == {Cmd("Activate", start, TRUE) : start \in BOOLEAN}
        <5> DEFINE K == {Cmd(op, Nothing, TRUE) : op \in {"Calibrate", "Suspend", "Shutdown"}}
        <5>1. Commands = A \cup B \cup M \cup P \cup G \cup K
          BY DEF Commands
        <5>2. c \in A => \E s \in Selections : c = Cmd("SetDesired", s, FALSE)
          BY Zenon
        <5>3. c \in B => \E i \in {"Running", "Stopped"} : c = Cmd("SetRunIntent", i, FALSE)
          BY Zenon
        <5>4. c \in M => \E v \in Levels, b \in BOOLEAN : c = Cmd("SetMaster", v, b)
          OBVIOUS
        <5>5. c \in P => \E s \in Selections : c = Cmd("Apply", s, TRUE)
          BY Zenon
        <5>6. c \in G => \E start \in BOOLEAN : c = Cmd("Activate", start, TRUE)
          BY Zenon
        <5>7. c \in K => \E op \in {"Calibrate", "Suspend", "Shutdown"} : c = Cmd(op, Nothing, TRUE)
          BY Zenon
        <5> HIDE DEF A, B, M, P, G, K
        <5>8. c \in A \cup B \cup M \cup P \cup G \cup K
          BY <2>1, <5>1
        <5> QED BY <5>2, <5>3, <5>4, <5>5, <5>6, <5>7, <5>8
      <4>8. \E op \in Scalars \cup Edges, arg \in Arguments, b \in BOOLEAN : good(op, arg, b)
        <5>1. CASE \E s \in Selections : c = Cmd("SetDesired", s, FALSE)
          BY <5>1, <4>1
        <5>2. CASE \E i \in {"Running", "Stopped"} : c = Cmd("SetRunIntent", i, FALSE)
          BY <5>2, <4>2
        <5>3. CASE \E v \in Levels, b \in BOOLEAN : c = Cmd("SetMaster", v, b)
          BY <5>3, <4>3
        <5>4. CASE \E s \in Selections : c = Cmd("Apply", s, TRUE)
          BY <5>4, <4>4
        <5>5. CASE \E start \in BOOLEAN : c = Cmd("Activate", start, TRUE)
          BY <5>5, <4>5
        <5>6. CASE \E op \in {"Calibrate", "Suspend", "Shutdown"} : c = Cmd(op, Nothing, TRUE)
          BY <5>6, <4>6
        <5> QED BY <4>7, <5>1, <5>2, <5>3, <5>4, <5>5, <5>6
      <4> QED BY <4>8 DEF good
    <3>3. PICK op \in Scalars \cup Edges, arg \in Arguments, b \in BOOLEAN :
            /\ c = Cmd(op, arg, b)
            /\ op \in Edges => b
            /\ op \in {"SetDesired", "SetRunIntent"} => ~b
            /\ op \in {"SetDesired", "Apply"} => arg \in Selections
            /\ op = "SetRunIntent" => arg \in {"Running", "Stopped"}
            /\ op = "Activate" => arg \in BOOLEAN
      BY <3>2
    <3>4. c = [id |-> next_id, op |-> op, arg |-> arg, confirmed |-> b,
               seen |-> shown.desired, expected |-> desired_revision]
      BY <3>3 DEF Cmd
    <3>5. c \in CommandShape
      BY <3>1, <3>4 DEF CommandShape
    <3>6. /\ c.id = next_id /\ c.op = op /\ c.arg = arg /\ c.confirmed = b
          /\ c.seen = shown.desired /\ c.expected = desired_revision
      BY <3>4
    <3>7. next_id < next_id' /\ desired_revision <= desired_revision
      BY <3>1, <1>2
    <3>8. Sound(c)'
      BY <1>2, <3>3, <3>6, <3>7 DEF Sound
    <3> QED BY <3>5, <3>6, <3>8
  <2>3. /\ inbox' \in Seq(CommandShape) /\ Len(inbox') = Len(inbox) + 1
        /\ inbox'[Len(inbox) + 1] = c /\ \A i \in 1..Len(inbox) : inbox'[i] = inbox[i]
    BY <2>1, <2>2, <1>1, AppendProperties
  <2>4. Elements(inbox') = Elements(inbox) \cup {c}
    BY <2>1, <2>2, <1>1, ElementsOfAppend
  <2>5. Len(inbox) \in Nat /\ Len(inbox') <= CommandCapacity
    BY <1>1, <1>7, <2>3, BatchAssumption, LenProperties
  <2>6. /\ receipts' \in [0..MaxSent -> CommandReceipt]
        /\ \A i \in 0..MaxSent : receipts'[i].state = "open" =>
             \/ receipts[i] = receipts'[i]
             \/ i = next_id /\ c.confirmed /\ receipts'[i].floor = 0
    <3>1. CASE c.confirmed
      <4>1. receipts' = [receipts EXCEPT ![next_id] = Open]
        BY <2>1, <3>1
      <4> HIDE DEF CommandReceipt
      <4> QED BY <1>1, <3>1, <4>1, ReceiptFields
    <3>2. CASE ~c.confirmed
      BY <1>1, <2>1, <3>2
    <3> QED BY <3>1, <3>2
  <2>7. BatchTyped'
    BY <1>2, <1>3, <2>3, <2>5, <2>6 DEF BatchInv, BatchTyped
  <2>8. ASSUME NEW i \in 1..Len(inbox'), NEW j \in 1..Len(inbox'), i < j
        PROVE  inbox'[i].id < inbox'[j].id
    <3>1. i \in 1..Len(inbox) /\ inbox'[i] = inbox[i]
      BY <2>3, <2>5, <2>8
    <3>2. CASE j = Len(inbox) + 1
      <4>1. inbox[i].id < next_id
        BY <3>1, <1>1, InElements DEF Sound
      <4> QED BY <3>1, <3>2, <4>1, <2>2, <2>3
    <3>3. CASE j # Len(inbox) + 1
      <4>1. j \in 1..Len(inbox) /\ inbox'[j] = inbox[j]
        BY <2>3, <2>5, <3>3
      <4> QED BY <3>1, <4>1, <2>8, <1>1 DEF Risen
    <3> QED BY <3>2, <3>3
  <2>9. \A d \in Elements(inbox') \cup Elements(work') : Sound(d)'
    <3>1. \A d \in Elements(inbox) \cup Elements(work) : Sound(d)'
      BY <1>1, <1>4
    <3> QED BY <3>1, <2>2, <2>4, <1>2
  <2>10. Accounted'
    <3>1. ASSUME NEW i \in 0..MaxSent, receipts'[i].state = "open"
          PROVE  /\ receipts'[i].floor = 0
                 /\ \/ \E d \in Elements(inbox') \cup Elements(work') : d.confirmed /\ d.id = i
                    \/ i \in floors'
      <4>1. CASE receipts[i] = receipts'[i]
        <5>1. /\ receipts[i].floor = 0
              /\ \/ \E d \in Elements(inbox) \cup Elements(work) : d.confirmed /\ d.id = i
                 \/ i \in floors
          BY <3>1, <4>1 DEF BatchInv, Accounted
        <5> QED BY <4>1, <5>1, <2>4, <1>2
      <4>2. CASE i = next_id /\ c.confirmed /\ receipts'[i].floor = 0
        BY <4>2, <2>2, <2>4
      <4> QED BY <3>1, <4>1, <4>2, <2>6
    <3> QED BY <3>1 DEF Accounted
  <2> QED BY <1>2, <1>5, <2>7, <2>8, <2>9, <2>10 DEF BatchInv, Elements, Ordered, Follows, Rank
<1> QED BY <1>6, <1>7 DEF TrySend

\* The newest command that speaks of the run intent.
LEMMA NewestSpeaks ==
  ASSUME inbox \in Seq(CommandShape), \A i \in 1..Len(inbox) : inbox[i].op # "Shutdown",
         \A i \in 1..Len(inbox) : inbox[i].op = "SetRunIntent" => inbox[i].arg \in {"Running", "Stopped"}
  PROVE  \/ /\ BatchIntent = run_intent
            /\ \A i \in 1..Len(inbox) : inbox[i].op # "SetRunIntent" /\ ~Starting(inbox[i])
         \/ \E last \in 1..Len(inbox) :
              /\ \A i \in 1..Len(inbox) :
                   inbox[i].op = "SetRunIntent" \/ Starting(inbox[i]) => i <= last
              /\ \/ Starting(inbox[last]) /\ BatchIntent = "Running"
                 \/ inbox[last].op = "SetRunIntent" /\ BatchIntent = inbox[last].arg
<1> DEFINE speaks == {i \in 1..Len(inbox) : inbox[i].op = "SetRunIntent"
                        \/ (inbox[i].op = "Activate" /\ inbox[i].arg)}
<1> DEFINE last == CHOOSE i \in speaks : \A j \in speaks : j <= i
<1>1. BatchIntent = IF speaks = {} THEN run_intent
                    ELSE IF inbox[last].op = "Activate" THEN "Running" ELSE inbox[last].arg
  BY DEF BatchIntent
<1>2. \A i : i \in speaks <=> i \in 1..Len(inbox) /\ (inbox[i].op = "SetRunIntent" \/ Starting(inbox[i]))
  BY DEF Starting
<1> HIDE DEF speaks
<1>3. CASE speaks = {}
  BY <1>1, <1>2, <1>3
<1>4. CASE speaks # {}
  <2>1. speaks \subseteq 1..Len(inbox)
    BY <1>2
  <2>2. last \in speaks /\ \A j \in speaks : j <= last
    BY <1>4, <2>1, LastPlace, LenProperties
  <2> HIDE DEF last
  <2>3. CASE inbox[last].op = "Activate"
    <3>1. Starting(inbox[last]) /\ BatchIntent = "Running"
      BY <1>1, <1>2, <1>4, <2>2, <2>3
    <3> QED BY <3>1, <1>2, <2>2
  <2>4. CASE inbox[last].op # "Activate"
    <3>1. inbox[last].op = "SetRunIntent" /\ BatchIntent = inbox[last].arg
      BY <1>1, <1>2, <1>4, <2>2, <2>4 DEF Starting
    <3> QED BY <3>1, <1>2, <2>2
  <2> QED BY <2>3, <2>4
<1> QED BY <1>3, <1>4

\* What the drained batch leaves of the intent is what its newest command asks.
LEMMA DrainedIntent ==
  ASSUME inbox \in Seq(CommandShape), Risen, \A c \in Elements(inbox) : Sound(c),
         BatchIntent # AnyIntent
  PROVE  /\ \A c \in Elements(Drained) : Starting(c) => BatchIntent = "Running"
         /\ \A c \in Elements(Drained) : c.op # "Shutdown"
         /\ (\A c \in Elements(Drained) : ~Starting(c)) =>
              \A c \in Elements(Drained) : c.op = "SetRunIntent" => c.arg = BatchIntent
         /\ (\A c \in Elements(Drained) : ~Starting(c) /\ c.op # "SetRunIntent") =>
              run_intent = BatchIntent
<1>1. Elements(Drained) = Elements(Slot("SetDesired")) \cup Elements(Slot("SetRunIntent"))
                            \cup Elements(MasterSlot) \cup Elements(EdgesKept)
  BY DrainedWork
<1>2. SlotOf(Slot("SetDesired"), "SetDesired") /\ SlotOf(Slot("SetRunIntent"), "SetRunIntent")
  BY SlotHolds
<1>3. MasterOf(MasterSlot) /\ EdgesOf(EdgesKept)
  BY MasterHolds, EdgesHold
<1>4. \A i \in 1..Len(inbox) : inbox[i].op # "Shutdown"
  BY DEF BatchIntent
<1>5. \A i \in 1..Len(inbox) : inbox[i].op = "SetRunIntent" => inbox[i].arg \in {"Running", "Stopped"}
  BY InElements DEF Sound
<1>6. /\ \A c \in Elements(Slot("SetDesired")) : c.op = "SetDesired"
      /\ \A c \in Elements(Slot("SetRunIntent")) : c.op = "SetRunIntent"
      /\ \A c \in Elements(MasterSlot) : c.op = "SetMaster"
  BY <1>2, <1>3 DEF SlotOf, MasterOf
<1>7. ASSUME NEW c \in Elements(EdgesKept)
      PROVE  \E i \in 1..Len(inbox) : /\ c.op = inbox[i].op /\ c.op \in Edges
                                      /\ Starting(c) => Starting(inbox[i]) /\ ~StopAfter(i)
  <2>1. PICK i \in 1..Len(inbox) :
           /\ inbox[i].op \in Edges /\ c.op = inbox[i].op
           /\ \/ c.arg = inbox[i].arg /\ ~(c.op = "Activate" /\ StopAfter(i))
              \/ c.arg = FALSE /\ c.op = "Activate" /\ StopAfter(i)
    BY <1>3 DEF EdgesOf
  <2> QED BY <2>1 DEF Starting
<1>8. \A c \in Elements(EdgesKept) : c.op # "Shutdown" /\ c.op # "SetRunIntent"
  BY <1>4, <1>7 DEF Edges
<1>9. \A c \in Elements(Drained) : c.op # "Shutdown"
  BY <1>1, <1>6, <1>8
<1>10. ASSUME NEW c \in Elements(Drained), Starting(c)
       PROVE  \E i \in 1..Len(inbox) : Starting(inbox[i]) /\ ~StopAfter(i)
  <2>1. c \in Elements(EdgesKept)
    BY <1>1, <1>6, <1>10 DEF Starting
  <2> QED BY <2>1, <1>7, <1>10
<1>11. ASSUME NEW i \in 1..Len(inbox), Starting(inbox[i]), ~StopAfter(i)
       PROVE  \E c \in Elements(Drained) : Starting(c)
  <2>1. inbox[i].op \in Edges
    BY <1>11 DEF Starting, Edges
  <2>2. inbox[i] \in Elements(EdgesKept)
    BY <2>1, <1>3, <1>11 DEF EdgesOf
  <2> QED BY <2>2, <1>1, <1>11
<1>12. ASSUME NEW i \in 1..Len(inbox), inbox[i].op = "SetRunIntent"
       PROVE  \E j \in 1..Len(inbox) :
                /\ inbox[j].op = "SetRunIntent" /\ j >= i
                /\ inbox[j] \in Elements(Drained)
                /\ \A c \in Elements(Drained) : c.op = "SetRunIntent" => c = inbox[j]
                /\ \A k \in 1..Len(inbox) : inbox[k].op = "SetRunIntent" => k <= j
  <2>1. PICK j \in 1..Len(inbox) :
          /\ inbox[j].op = "SetRunIntent" /\ j >= i
          /\ Elements(Slot("SetRunIntent")) = {inbox[j]}
          /\ \A k \in 1..Len(inbox) : inbox[k].op = "SetRunIntent" => k <= j
    BY <1>12, SlotHolds
  <2> QED BY <2>1, <1>1, <1>6, <1>8
<1>13. ASSUME NEW c \in Elements(Drained), c.op = "SetRunIntent"
       PROVE  \E i \in 1..Len(inbox) : inbox[i].op = "SetRunIntent"
  <2>1. c \in Elements(Slot("SetRunIntent"))
    BY <1>1, <1>6, <1>8, <1>13
  <2>2. c \in Elements(inbox)
    BY <2>1, <1>2 DEF SlotOf
  <2> QED BY <2>2, <1>13 DEF Elements
<1>14. CASE /\ BatchIntent = run_intent
            /\ \A i \in 1..Len(inbox) : inbox[i].op # "SetRunIntent" /\ ~Starting(inbox[i])
  <2>1. \A c \in Elements(Drained) : ~Starting(c) /\ c.op # "SetRunIntent"
    BY <1>14, <1>10, <1>13
  <2> QED BY <1>9, <1>14, <2>1
<1>15. ASSUME NEW last \in 1..Len(inbox),
              \A i \in 1..Len(inbox) :
                inbox[i].op = "SetRunIntent" \/ Starting(inbox[i]) => i <= last,
              \/ Starting(inbox[last]) /\ BatchIntent = "Running"
              \/ inbox[last].op = "SetRunIntent" /\ BatchIntent = inbox[last].arg
       PROVE  /\ \A c \in Elements(Drained) : Starting(c) => BatchIntent = "Running"
              /\ (\A c \in Elements(Drained) : ~Starting(c)) =>
                   \A c \in Elements(Drained) : c.op = "SetRunIntent" => c.arg = BatchIntent
              /\ (\A c \in Elements(Drained) : ~Starting(c) /\ c.op # "SetRunIntent") =>
                   run_intent = BatchIntent
  <2>2. CASE Starting(inbox[last]) /\ BatchIntent = "Running"
    <3>1. ~StopAfter(last)
      <4>1. ASSUME NEW j \in (last + 1)..Len(inbox), inbox[j].op = "SetRunIntent" PROVE FALSE
        <5>1. j \in 1..Len(inbox) /\ ~(j <= last)
          BY LenProperties
        <5> QED BY <5>1, <4>1, <1>15
      <4> QED BY <4>1 DEF StopAfter
    <3>2. \E c \in Elements(Drained) : Starting(c)
      BY <1>11, <2>2, <3>1
    <3> QED BY <2>2, <3>2
  <2>3. CASE inbox[last].op = "SetRunIntent" /\ BatchIntent = inbox[last].arg
    <3>1. PICK j \in 1..Len(inbox) :
                /\ inbox[j].op = "SetRunIntent" /\ j >= last
                /\ inbox[j] \in Elements(Drained)
                /\ \A c \in Elements(Drained) : c.op = "SetRunIntent" => c = inbox[j]
      BY <1>12, <2>3
    <3>2. j = last
      BY <3>1, <1>15
    <3>3. ASSUME NEW c \in Elements(Drained), Starting(c) PROVE BatchIntent = "Running"
      <4>1. PICK i \in 1..Len(inbox) : Starting(inbox[i]) /\ ~StopAfter(i)
        BY <1>10, <3>3
      <4>2. i <= last /\ i # last
        BY <4>1, <1>15, <2>3 DEF Starting
      <4>3. last \in (i + 1)..Len(inbox)
        BY <4>2
      <4>4. inbox[last].arg # "Stopped"
        BY <4>1, <4>3, <2>3 DEF StopAfter
      <4> QED BY <4>4, <1>5, <2>3
    <3> QED BY <3>1, <3>2, <3>3, <2>3
  <2> QED BY <1>15, <2>2, <2>3
<1> QED BY <1>4, <1>5, <1>9, <1>14, <1>15, NewestSpeaks

\* Whoever waits in the queue for an answer is in the batch, unless superseded.
LEMMA DrainedAnswers ==
  ASSUME inbox \in Seq(CommandShape), Risen, \A c \in Elements(inbox) : Sound(c),
         NEW c \in Elements(inbox), c.confirmed, c.id \notin Superseded
  PROVE  \E d \in Elements(Drained) : d.confirmed /\ d.id = c.id
<1>1. PICK i \in 1..Len(inbox) : c = inbox[i]
  BY DEF Elements
<1>2. c \in CommandShape /\ Sound(c)
  BY <1>1, ElementOfSeq
<1>3. c.op \in Scalars \cup Edges /\ c.op \notin {"SetDesired", "SetRunIntent"}
  BY <1>2, CommandFields DEF Sound
<1>4. Elements(Drained) = Elements(Slot("SetDesired")) \cup Elements(Slot("SetRunIntent"))
                            \cup Elements(MasterSlot) \cup Elements(EdgesKept)
  BY DrainedWork
<1>5. CASE c.op = "SetMaster"
  <2>1. Confirmed(i)
    BY <1>1, <1>5 DEF Confirmed
  <2>2. \E d \in Elements(MasterSlot) : d.confirmed /\ d.id = inbox[i].id
    BY <1>1, <2>1, MasterHolds
  <2> QED BY <1>1, <1>4, <2>2
<1>6. CASE c.op \in Edges
  <2>1. \E d \in Elements(EdgesKept) : d.id = inbox[i].id /\ d.confirmed = inbox[i].confirmed
    BY <1>1, <1>6, EdgesHold DEF EdgesOf
  <2> QED BY <1>1, <1>4, <2>1
<1> QED BY <1>3, <1>5, <1>6 DEF Scalars

LEMMA DrainKeeps ==
  ASSUME BatchInv, Drain
  PROVE  BatchInv'
<1>1. /\ inbox \in Seq(CommandShape) /\ work \in Seq(CommandShape) /\ Risen
      /\ Len(inbox) <= CommandCapacity /\ next_id \in 0..MaxSent /\ MaxSent \in Nat
      /\ shown = stored /\ desired_revision \in Nat
      /\ receipts \in [0..MaxSent -> CommandReceipt]
      /\ \A c \in Elements(inbox) \cup Elements(work) : Sound(c) /\ c \in CommandShape
      /\ Ordered(work)
  BY TypedFields
<1>2. /\ ~busy /\ busy' = TRUE /\ work' = Drained /\ due_intent' = BatchIntent
      /\ inbox' = <<>> /\ cause' = Nothing /\ floors' = {}
      /\ receipts' = [i \in DOMAIN receipts |-> IF i \in Superseded THEN Lost ELSE receipts[i]]
      /\ next_id' = next_id
      /\ stored' = stored /\ shown' = shown /\ desired_revision' = desired_revision
      /\ run_intent' = run_intent
      /\ session_generation' = session_generation /\ built' = built
      /\ sleeping' = sleeping /\ ended' = ended
  BY DEF Drain, durable, session, Drained
<1>3. /\ Drained \in Seq(CommandShape) /\ Ordered(Drained)
      /\ \A c \in Elements(Drained) : Sound(c)
  BY <1>1, DrainedWork
<1>4. Elements(inbox') = {} /\ Len(inbox') = 0 /\ inbox' \in Seq(CommandShape)
  BY <1>2, NoElements
<1>5. Elements(work) = {} /\ floors = {}
  BY <1>2, NoElements DEF BatchInv
<1>6. /\ receipts' \in [0..MaxSent -> CommandReceipt]
      /\ \A i \in 0..MaxSent : receipts'[i].state = "open" =>
           receipts'[i] = receipts[i] /\ i \notin Superseded
  <2> HIDE DEF CommandReceipt
  <2> QED BY <1>1, <1>2, ReceiptFields
<1>7. BatchTyped'
  <2>1. 0 <= CommandCapacity
    BY BatchAssumption
  <2> QED BY <1>2, <1>3, <1>4, <1>6, <2>1 DEF BatchInv, BatchTyped
<1>8. \A c \in Elements(inbox') \cup Elements(work') : Sound(c)'
  <2>1. ASSUME NEW c \in Elements(Drained) PROVE Sound(c)'
    <3>1. Sound(c)
      BY <1>3, <2>1
    <3> QED BY <3>1, <1>2 DEF Sound
  <2> QED BY <2>1, <1>2, <1>4
<1>9. Ordered(work')
  BY <1>2, <1>3
<1>10. Accounted'
  <2>1. ASSUME NEW i \in 0..MaxSent, receipts'[i].state = "open"
        PROVE  /\ receipts'[i].floor = 0
               /\ \E d \in Elements(work') : d.confirmed /\ d.id = i
    <3>1. receipts[i].state = "open" /\ receipts'[i] = receipts[i] /\ i \notin Superseded
      BY <1>6, <2>1
    <3>2. /\ receipts[i].floor = 0
          /\ \/ \E d \in Elements(inbox) \cup Elements(work) : d.confirmed /\ d.id = i
             \/ i \in floors
      BY <3>1 DEF BatchInv, Accounted
    <3>3. PICK c \in Elements(inbox) : c.confirmed /\ c.id = i
      BY <3>2, <1>5
    <3>4. \E d \in Elements(Drained) : d.confirmed /\ d.id = c.id
      BY <1>1, <3>1, <3>3, DrainedAnswers
    <3> QED BY <3>1, <3>2, <3>3, <3>4, <1>2
  <2> QED BY <2>1 DEF Accounted
<1>11. IntentUnderWay'
  <2>1. SUFFICES ASSUME BatchIntent # AnyIntent
                 PROVE IntentUnderWay'
    BY <1>2 DEF IntentUnderWay
  <2>2. /\ \A c \in Elements(Drained) : Starting(c) => BatchIntent = "Running"
        /\ \A c \in Elements(Drained) : c.op # "Shutdown"
        /\ (\A c \in Elements(Drained) : ~Starting(c)) =>
              \A c \in Elements(Drained) : c.op = "SetRunIntent" => c.arg = BatchIntent
        /\ (\A c \in Elements(Drained) : ~Starting(c) /\ c.op # "SetRunIntent") =>
              run_intent = BatchIntent
    BY <1>1, <2>1, DrainedIntent
  <2> QED BY <1>2, <2>2 DEF IntentUnderWay
<1>12. cause' = Nothing /\ ~sleeping' /\ run_intent' = "Running" => built'.for = shown'.desired
  BY <1>2 DEF BatchInv
<1>13. \A i, j \in 1..Len(inbox') : i < j => inbox'[i].id < inbox'[j].id
  BY <1>4
<1> QED BY <1>2, <1>7, <1>8, <1>9, <1>10, <1>11, <1>12, <1>13 DEF BatchInv, Elements, Ordered, Follows, Rank

\* What executing a command other than a shutdown means to the batch.
Executed ==
  /\ busy /\ work # <<>> /\ work' = Tail(work)
  /\ UNCHANGED <<inbox, next_id, busy, session_generation, built, ended>>

\* The selection and its revision move together.
DocumentMoves ==
  /\ DOMAIN stored' = {"desired", "master"} /\ stored'.desired \in Selections /\ shown' = stored'
  /\ \/ desired_revision' = desired_revision /\ shown'.desired = shown.desired
     \/ desired_revision' = desired_revision + 1

\* The command's own receipt is answered, the others stay.
ReceiptsMove ==
  /\ receipts' \in [0..MaxSent -> CommandReceipt]
  /\ \A i \in 0..MaxSent : receipts'[i].state = "open" =>
       /\ receipts'[i] = receipts[i]
       /\ Head(work).confirmed /\ Head(work).id = i => i \in floors'

\* The command leaves the intent to the ones behind it, or fails.
IntentMoves ==
  LET h == Head(work)
  IN \/ due_intent' = AnyIntent
     \/ /\ due_intent' = due_intent
        /\ \/ ~Starting(h) /\ h.op # "SetRunIntent" /\ run_intent' = run_intent
           \/ Starting(h) /\ run_intent' = "Running"
           \/ h.op = "SetRunIntent" /\ run_intent' = h.arg

LEMMA IntentKept ==
  ASSUME BatchInv, Executed, IntentMoves
  PROVE  IntentUnderWay'
<1> DEFINE h == Head(work)
<1>1. work \in Seq(CommandShape) /\ Ordered(work)
  BY TypedFields
<1>2. /\ Elements(work) = {h} \cup Elements(Tail(work))
      /\ \A c \in Elements(Tail(work)) : Follows(h, c)
  BY <1>1, ElementsOfTail DEF Executed
<1>3. \A c \in Elements(Tail(work)) : c \in CommandShape
  BY <1>1, <1>2, ElementsOfSeq
<1>4. work' = Tail(work)
  BY DEF Executed
<1> SUFFICES ASSUME due_intent' # AnyIntent PROVE IntentUnderWay'
  BY DEF IntentUnderWay
<1>5. due_intent' = due_intent
  BY DEF IntentMoves
<1>6. /\ \A c \in Elements(work) : Starting(c) => due_intent = "Running"
      /\ \A c \in Elements(work) : c.op # "Shutdown"
      /\ (\A c \in Elements(work) : ~Starting(c)) =>
           \A c \in Elements(work) : c.op = "SetRunIntent" => c.arg = due_intent
      /\ (\A c \in Elements(work) : ~Starting(c) /\ c.op # "SetRunIntent") =>
           run_intent = due_intent
  BY <1>5 DEF BatchInv, IntentUnderWay
<1>7. PICK rest : rest = Elements(Tail(work))
  OBVIOUS
<1>8. ASSUME h.op = "SetRunIntent" \/ Starting(h), NEW c \in rest PROVE c.op # "SetRunIntent"
  BY <1>2, <1>7, <1>8 DEF Follows, Rank, Starting
<1> HIDE DEF h
<1>9. CASE ~Starting(h) /\ h.op # "SetRunIntent" /\ run_intent' = run_intent
  <2>1. /\ (\A c \in rest : ~Starting(c)) => \A c \in Elements(work) : ~Starting(c)
        /\ (\A c \in rest : ~Starting(c) /\ c.op # "SetRunIntent") =>
             \A c \in Elements(work) : ~Starting(c) /\ c.op # "SetRunIntent"
        /\ rest \subseteq Elements(work)
    BY <1>2, <1>7, <1>9
  <2>2. /\ \A c \in rest : Starting(c) => due_intent = "Running"
        /\ \A c \in rest : c.op # "Shutdown"
        /\ (\A c \in rest : ~Starting(c)) =>
             \A c \in rest : c.op = "SetRunIntent" => c.arg = due_intent
        /\ (\A c \in rest : ~Starting(c) /\ c.op # "SetRunIntent") =>
             run_intent' = due_intent
    BY <2>1, <1>6, <1>9
  <2> QED BY <2>2, <1>4, <1>5, <1>7 DEF IntentUnderWay
<1>10. CASE Starting(h) /\ run_intent' = "Running"
  <2>1. due_intent = "Running"
    BY <1>2, <1>6, <1>10
  <2>2. rest \subseteq Elements(work) /\ \A c \in rest : c.op # "SetRunIntent"
    BY <1>2, <1>7, <1>8, <1>10
  <2> QED BY <2>1, <2>2, <1>4, <1>5, <1>6, <1>7, <1>10 DEF IntentUnderWay
<1>11. CASE h.op = "SetRunIntent" /\ run_intent' = h.arg
  <2>1. ~Starting(h) /\ rest \subseteq Elements(work) /\ \A c \in rest : c.op # "SetRunIntent"
    BY <1>2, <1>7, <1>8, <1>11 DEF Starting
  <2>2. (\A c \in rest : ~Starting(c)) => run_intent' = due_intent
    <3>1. ASSUME \A c \in rest : ~Starting(c) PROVE run_intent' = due_intent
      <4>1. \A c \in Elements(work) : ~Starting(c)
        BY <1>2, <1>7, <2>1, <3>1
      <4> QED BY <4>1, <1>2, <1>6, <1>11
    <3> QED BY <3>1
  <2> QED BY <2>1, <2>2, <1>4, <1>5, <1>6, <1>7 DEF IntentUnderWay
<1> QED BY <1>5, <1>9, <1>10, <1>11 DEF IntentMoves, h

LEMMA ExecutionKeeps ==
  ASSUME BatchInv, Executed, DocumentMoves, ReceiptsMove, IntentMoves,
         floors \subseteq floors',
         sleeping' \in BOOLEAN, run_intent' \in {"Running", "Stopped"},
         cause' = Nothing /\ ~sleeping' /\ run_intent' = "Running" => built.for = shown'.desired,
         floors' # {} => run_intent' = "Running" /\ \A c \in Elements(Tail(work)) : c.op \in Edges
  PROVE  BatchInv'
<1>1. /\ inbox \in Seq(CommandShape) /\ work \in Seq(CommandShape) /\ Risen
      /\ Len(inbox) <= CommandCapacity /\ next_id \in 0..MaxSent /\ MaxSent \in Nat
      /\ shown = stored /\ desired_revision \in Nat
      /\ receipts \in [0..MaxSent -> CommandReceipt]
      /\ \A c \in Elements(inbox) \cup Elements(work) : Sound(c) /\ c \in CommandShape
      /\ Ordered(work)
  BY TypedFields
<1>2. /\ busy /\ work # <<>> /\ work' = Tail(work) /\ inbox' = inbox /\ next_id' = next_id
      /\ busy' = busy /\ session_generation' = session_generation /\ built' = built
      /\ ended' = ended
  BY DEF Executed
<1>3. /\ Tail(work) \in Seq(CommandShape) /\ Ordered(Tail(work))
      /\ Elements(work) = {Head(work)} \cup Elements(Tail(work))
  BY <1>1, <1>2, ElementsOfTail
<1>4. desired_revision' \in Nat
  BY <1>1 DEF DocumentMoves
<1>5. BatchTyped'
  BY <1>2, <1>3, <1>4 DEF BatchInv, BatchTyped, DocumentMoves, ReceiptsMove
<1>6. \A c \in Elements(inbox') \cup Elements(work') : Sound(c)'
  <2>1. ASSUME NEW c \in CommandShape, Sound(c) PROVE Sound(c)'
    BY <1>1, <1>2, <2>1, SoundKept DEF DocumentMoves
  <2> QED BY <1>1, <1>2, <1>3, <2>1
<1>7. Accounted'
  <2>1. ASSUME NEW i \in 0..MaxSent, receipts'[i].state = "open"
        PROVE  /\ receipts'[i].floor = 0
               /\ \/ \E d \in Elements(inbox') \cup Elements(work') : d.confirmed /\ d.id = i
                  \/ i \in floors'
    <3>1. /\ receipts'[i] = receipts[i]
          /\ Head(work).confirmed /\ Head(work).id = i => i \in floors'
      BY <2>1 DEF ReceiptsMove
    <3>2. /\ receipts[i].floor = 0
          /\ \/ \E d \in Elements(inbox) \cup Elements(work) : d.confirmed /\ d.id = i
             \/ i \in floors
      BY <2>1, <3>1 DEF BatchInv, Accounted
    <3>3. CASE i \in floors
      BY <3>1, <3>2, <3>3
    <3>4. ASSUME NEW d \in Elements(inbox) \cup Elements(work), d.confirmed, d.id = i
          PROVE  \/ \E e \in Elements(inbox') \cup Elements(work') : e.confirmed /\ e.id = i
                 \/ i \in floors'
      <4>1. CASE d \in Elements(inbox) \cup Elements(Tail(work))
        BY <4>1, <3>4, <1>2
      <4>2. CASE d = Head(work)
        BY <4>2, <3>1, <3>4
      <4> QED BY <4>1, <4>2, <1>3
    <3> QED BY <3>1, <3>2, <3>3, <3>4
  <2> QED BY <2>1 DEF Accounted
<1>8. IntentUnderWay'
  BY IntentKept
<1>9. \A i, j \in 1..Len(inbox') : i < j => inbox'[i].id < inbox'[j].id
  BY <1>1, <1>2 DEF Risen
<1>10. Ordered(work')
  BY <1>2, <1>3
<1> QED BY <1>2, <1>5, <1>6, <1>7, <1>8, <1>9, <1>10 DEF BatchInv, Elements, Ordered, Follows, Rank

\* The head of the batch, and what may stand behind it.
LEMMA HeadOfWork ==
  ASSUME BatchInv, work # <<>>
  PROVE  /\ Head(work) \in CommandShape /\ Sound(Head(work)) /\ Head(work) \in Elements(work)
         /\ Elements(Tail(work)) \subseteq Elements(work)
         /\ Head(work).op \in Edges =>
              \A c \in Elements(Tail(work)) : c.op \in Edges
         /\ Head(work).op \notin Edges => floors = {}
<1>1. /\ work \in Seq(CommandShape) /\ Ordered(work)
      /\ \A c \in Elements(work) : Sound(c) /\ c \in CommandShape
  BY TypedFields
<1>2. /\ Head(work) \in Elements(work)
      /\ Elements(work) = {Head(work)} \cup Elements(Tail(work))
      /\ \A c \in Elements(Tail(work)) : Follows(Head(work), c)
  BY <1>1, ElementsOfTail
<1>3. ASSUME Head(work).op \in Edges, NEW c \in Elements(Tail(work)) PROVE c.op \in Edges
  <2>1. Rank(Head(work)) = 4
    BY <1>3 DEF Rank, Edges
  <2>2. Rank(c) \in {1, 2, 3, 4} /\ Follows(Head(work), c)
    BY <1>2 DEF Rank
  <2>3. Rank(c) = 4
    BY <2>1, <2>2 DEF Follows
  <2>4. c.op \in Scalars \cup Edges
    BY <1>1, <1>2, CommandFields
  <2> QED BY <2>3, <2>4 DEF Rank, Scalars
<1>4. Head(work).op \notin Edges => floors = {}
  BY <1>2 DEF BatchInv
<1> QED BY <1>1, <1>2, <1>3, <1>4

\* A saved candidate becomes the document, on disk and shown.
LEMMA Commits ==
  ASSUME BatchInv, NEW candidate, NEW saved \in BOOLEAN, Commit(candidate, saved),
         DOMAIN candidate = {"desired", "master"}, candidate.desired \in Selections
  PROVE  /\ DocumentMoves
         /\ saved => shown' = candidate
         /\ ~saved => shown' = shown
<1>1. /\ DOMAIN stored = {"desired", "master"} /\ stored.desired \in Selections /\ shown = stored
  BY DEF BatchInv, BatchTyped
<1>2. CASE saved
  BY <1>1, <1>2 DEF Commit, DocumentMoves
<1>3. CASE ~saved
  BY <1>1, <1>3 DEF Commit, DocumentMoves, durable
<1> QED BY <1>2, <1>3

LEMMA Confirms ==
  ASSUME BatchInv, work # <<>>, NEW error \in {Nothing, "Persistence", "Rejected"}, Confirm(error)
  PROVE  ReceiptsMove
<1>1. receipts \in [0..MaxSent -> CommandReceipt] /\ next_id \in 0..MaxSent /\ MaxSent \in Nat
  BY TypedFields
<1>2. Head(work).id \in 0..MaxSent
  <2>1. Head(work).id \in Nat /\ Head(work).id < next_id
    BY HeadOfWork, CommandFields DEF Sound
  <2> QED BY <1>1, <2>1
<1>3. Answer(error, 0) \in CommandReceipt /\ Answer(error, 0).state = "done"
  BY ReceiptFields
<1> HIDE DEF CommandReceipt
<1>4. CASE Head(work).confirmed
  <2>1. receipts' = [receipts EXCEPT ![Head(work).id] = Answer(error, 0)]
    BY <1>4 DEF Confirm
  <2> QED BY <1>1, <1>2, <1>3, <2>1 DEF ReceiptsMove
<1>5. CASE ~Head(work).confirmed
  <2>1. receipts' = receipts
    BY <1>5 DEF Confirm
  <2> QED BY <1>1, <1>5, <2>1 DEF ReceiptsMove
<1> QED BY <1>4, <1>5

\* A step that leaves the document or the receipts alone.
LEMMA DocumentRests ==
  ASSUME BatchInv, UNCHANGED durable
  PROVE  DocumentMoves
BY DEF BatchInv, BatchTyped, DocumentMoves, durable

LEMMA SelectKeeps ==
  ASSUME BatchInv, NEW op \in {"SetDesired", "Apply"}, Select(op)
  PROVE  BatchInv'
<1> DEFINE h == Head(work)
<1> DEFINE candidate == [stored EXCEPT !.desired = h.arg]
<1>1. Executed /\ h.op = op /\ run_intent' = run_intent /\ floors' = floors
      /\ sleeping' = sleeping /\ due_intent' = due_intent
  BY DEF Select, Executes, Executed, session
<1>2. PICK saved \in BOOLEAN :
        /\ Commit(candidate, saved) /\ Confirm(CommitError(saved))
        /\ cause' = IF saved /\ candidate # stored THEN "Membership" ELSE cause
  BY DEF Select, Saves
<1>3. /\ h.arg \in Selections /\ DOMAIN stored = {"desired", "master"} /\ shown = stored
      /\ work # <<>>
  BY <1>1, HeadOfWork DEF Sound, BatchInv, BatchTyped, Executed
<1>4. DOMAIN candidate = {"desired", "master"} /\ candidate.desired = h.arg
  BY <1>3
<1>5. PICK k : k = candidate
  OBVIOUS
<1>6. DocumentMoves /\ (saved => shown' = k) /\ (~saved => shown' = shown)
  <2> HIDE DEF candidate
  <2> QED BY <1>2, <1>3, <1>4, <1>5, Commits
<1>7. ReceiptsMove
  BY <1>2, <1>3, Confirms DEF CommitError
<1>8. IntentMoves
  BY <1>1 DEF IntentMoves, Starting
<1>9. cause' = Nothing => cause = Nothing /\ shown'.desired = shown.desired
  <2> HIDE DEF candidate
  <2> QED BY <1>2, <1>3, <1>5, <1>6 DEF Nothing
<1>10. cause' = Nothing /\ ~sleeping' /\ run_intent' = "Running" => built.for = shown'.desired
  BY <1>1, <1>9 DEF BatchInv
<1>11. floors' # {} => run_intent' = "Running" /\ \A c \in Elements(Tail(work)) : c.op \in Edges
  BY <1>1, <1>3, HeadOfWork DEF BatchInv
<1>12. sleeping' \in BOOLEAN /\ run_intent' \in {"Running", "Stopped"} /\ floors \subseteq floors'
  BY <1>1 DEF BatchInv, BatchTyped
<1> QED BY <1>1, <1>6, <1>7, <1>8, <1>10, <1>11, <1>12, ExecutionKeeps

LEMMA SetRunIntentKeeps ==
  ASSUME BatchInv, SetRunIntent
  PROVE  BatchInv'
<1> DEFINE h == Head(work)
<1>1. /\ Executed /\ h.op = "SetRunIntent" /\ floors' = floors /\ receipts' = receipts
      /\ sleeping' = sleeping /\ due_intent' = due_intent /\ run_intent' = h.arg
      /\ cause' = (IF run_intent' # run_intent THEN "Membership" ELSE cause)
      /\ UNCHANGED durable
  BY DEF SetRunIntent, Executes, Executed, session
<1>2. /\ work # <<>> /\ h.arg \in {"Running", "Stopped"} /\ ~h.confirmed /\ floors = {}
  BY <1>1, HeadOfWork DEF Sound, Executed, Edges
<1>3. DocumentMoves
  BY <1>1, DocumentRests
<1>4. ReceiptsMove
  <2> HIDE DEF CommandReceipt
  <2> QED BY <1>1, <1>2 DEF ReceiptsMove, BatchInv, BatchTyped
<1>5. IntentMoves
  BY <1>1 DEF IntentMoves
<1>6. cause' = Nothing /\ ~sleeping' /\ run_intent' = "Running" => built.for = shown'.desired
  <2>1. shown' = shown
    BY <1>1 DEF durable
  <2>2. cause' = Nothing => cause = Nothing /\ run_intent' = run_intent
    BY <1>1 DEF Nothing
  <2> QED BY <1>1, <2>1, <2>2 DEF BatchInv
<1>7. sleeping' \in BOOLEAN
  BY <1>1 DEF BatchInv, BatchTyped
<1> QED BY <1>1, <1>2, <1>3, <1>4, <1>5, <1>6, <1>7, ExecutionKeeps

LEMMA SetMasterKeeps ==
  ASSUME BatchInv, SetMasterVolume
  PROVE  BatchInv'
<1> DEFINE h == Head(work)
<1> DEFINE candidate == [stored EXCEPT !.master = h.arg]
<1>1. /\ Executed /\ h.op = "SetMaster" /\ floors' = floors /\ cause' = cause
      /\ sleeping' = sleeping /\ due_intent' = due_intent /\ run_intent' = run_intent
  BY DEF SetMasterVolume, Executes, Executed, session
<1>2. PICK saved \in BOOLEAN : Commit(candidate, saved) /\ Confirm(CommitError(saved))
  BY DEF SetMasterVolume, Saves
<1>3. /\ DOMAIN stored = {"desired", "master"} /\ stored.desired \in Selections /\ shown = stored
      /\ work # <<>> /\ floors = {}
  BY <1>1, HeadOfWork DEF BatchInv, BatchTyped, Executed, Edges
<1>4. DOMAIN candidate = {"desired", "master"} /\ candidate.desired = stored.desired
  BY <1>3
<1>5. PICK k : k = candidate
  OBVIOUS
<1>6. DocumentMoves /\ (saved => shown' = k) /\ (~saved => shown' = shown)
  <2> HIDE DEF candidate
  <2> QED BY <1>2, <1>3, <1>4, <1>5, Commits
<1>7. ReceiptsMove
  BY <1>2, <1>3, Confirms DEF CommitError
<1>8. IntentMoves
  BY <1>1 DEF IntentMoves, Starting
<1>9. shown'.desired = shown.desired
  <2> HIDE DEF candidate
  <2> QED BY <1>3, <1>4, <1>5, <1>6
<1>10. cause' = Nothing /\ ~sleeping' /\ run_intent' = "Running" => built.for = shown'.desired
  BY <1>1, <1>9 DEF BatchInv
<1>11. sleeping' \in BOOLEAN /\ run_intent' \in {"Running", "Stopped"} /\ floors' = {}
  BY <1>1, <1>3 DEF BatchInv, BatchTyped
<1> QED BY <1>1, <1>3, <1>6, <1>7, <1>8, <1>10, <1>11, ExecutionKeeps

LEMMA ActivateKeeps ==
  ASSUME BatchInv, ActivateSavedGroup
  PROVE  BatchInv'
<1> DEFINE h == Head(work)
<1> DEFINE candidate == [stored EXCEPT !.desired = GroupMembers]
<1>1. Executed /\ h.op = "Activate" /\ sleeping' = sleeping
  BY DEF ActivateSavedGroup, Executes, Executed, session
<1>2. PICK saved \in BOOLEAN :
        /\ Commit(candidate, saved)
        /\ run_intent' = IF h.arg /\ saved THEN "Running" ELSE run_intent
        /\ cause' = IF cause = Nothing /\ saved /\ (candidate # stored \/ run_intent' # run_intent)
                    THEN "SavedGroup" ELSE cause
        /\ IF h.arg /\ saved
           THEN floors' = floors \cup {h.id} /\ UNCHANGED receipts
           ELSE Confirm(CommitError(saved)) /\ UNCHANGED floors
        /\ due_intent' = IF saved THEN due_intent ELSE AnyIntent
  BY DEF ActivateSavedGroup, Saves
<1>3. /\ DOMAIN stored = {"desired", "master"} /\ stored.desired \in Selections /\ shown = stored
      /\ work # <<>> /\ h.arg \in BOOLEAN
      /\ \A c \in Elements(Tail(work)) : c.op \in Edges
  BY <1>1, HeadOfWork DEF BatchInv, BatchTyped, Executed, Edges, Sound
<1>4. DOMAIN candidate = {"desired", "master"} /\ candidate.desired = GroupMembers
  BY <1>3
<1>5. PICK k : k = candidate
  OBVIOUS
<1>6. DocumentMoves /\ (saved => shown' = k) /\ (~saved => shown' = shown)
  <2> HIDE DEF candidate
  <2> QED BY <1>2, <1>3, <1>4, <1>5, Commits, BatchAssumption
<1>7. ReceiptsMove
  <2>1. CASE h.arg /\ saved
    <3>1. receipts' = receipts /\ h.id \in floors'
      BY <1>2, <2>1
    <3>2. receipts \in [0..MaxSent -> CommandReceipt]
      BY TypedFields
    <3> HIDE DEF CommandReceipt
    <3> QED BY <3>1, <3>2 DEF ReceiptsMove
  <2>2. CASE ~(h.arg /\ saved)
    <3>1. Confirm(CommitError(saved))
      BY <1>2, <2>2
    <3> QED BY <3>1, <1>3, Confirms DEF CommitError
  <2> QED BY <2>1, <2>2
<1>8. IntentMoves
  <2>1. CASE h.arg /\ saved
    <3>1. Starting(h) /\ run_intent' = "Running" /\ due_intent' = due_intent
      BY <1>1, <1>2, <2>1 DEF Starting
    <3> QED BY <3>1 DEF IntentMoves
  <2>2. CASE ~h.arg /\ saved
    <3>1. ~Starting(h) /\ h.op # "SetRunIntent" /\ run_intent' = run_intent /\ due_intent' = due_intent
      BY <1>1, <1>2, <2>2 DEF Starting
    <3> QED BY <3>1 DEF IntentMoves
  <2>3. CASE ~saved
    BY <1>2, <2>3 DEF IntentMoves
  <2> QED BY <1>3, <2>1, <2>2, <2>3
<1>9. cause' = Nothing => cause = Nothing /\ run_intent' = run_intent /\ shown'.desired = shown.desired
  <2> HIDE DEF candidate
  <2> QED BY <1>2, <1>3, <1>5, <1>6 DEF Nothing
<1>10. cause' = Nothing /\ ~sleeping' /\ run_intent' = "Running" => built.for = shown'.desired
  BY <1>1, <1>9 DEF BatchInv
<1>11. /\ sleeping' \in BOOLEAN /\ run_intent' \in {"Running", "Stopped"}
       /\ floors \subseteq floors'
  BY <1>1, <1>2 DEF BatchInv, BatchTyped
<1>12. floors' # {} => run_intent' = "Running"
  BY <1>2, <1>3 DEF BatchInv
<1> QED BY <1>1, <1>3, <1>6, <1>7, <1>8, <1>10, <1>11, <1>12, ExecutionKeeps

LEMMA CalibrateKeeps ==
  ASSUME BatchInv, Calibrate
  PROVE  BatchInv'
<1> DEFINE h == Head(work)
<1>1. /\ Executed /\ h.op = "Calibrate" /\ sleeping' = sleeping /\ run_intent' = run_intent
      /\ floors' = floors /\ due_intent' = due_intent /\ UNCHANGED durable
  BY DEF Calibrate, Executes, Executed, session
<1>2. work # <<>> /\ \A c \in Elements(Tail(work)) : c.op \in Edges
  BY <1>1, HeadOfWork DEF Executed, Edges
<1>3. /\ \E error \in {Nothing, "Persistence", "Rejected"} : Confirm(error)
      /\ cause' = Nothing => cause = Nothing
  <2> DEFINE judged == h.expected = desired_revision /\ Cardinality(shown.desired) >= 2
  <2>1. PICK saved \in BOOLEAN :
           IF judged /\ saved
           THEN cause' = "Calibration" /\ Confirm(Nothing)
           ELSE Confirm(IF judged THEN "Persistence" ELSE "Rejected") /\ cause' = cause
    BY DEF Calibrate
  <2>2. CASE judged /\ saved
    BY <2>1, <2>2 DEF Nothing
  <2>3. CASE ~(judged /\ saved)
    BY <2>1, <2>3
  <2> QED BY <2>2, <2>3
<1>4. ReceiptsMove
  BY <1>2, <1>3, Confirms
<1>5. DocumentMoves
  BY <1>1, DocumentRests
<1>6. IntentMoves
  BY <1>1 DEF IntentMoves, Starting
<1>7. cause' = Nothing /\ ~sleeping' /\ run_intent' = "Running" => built.for = shown'.desired
  BY <1>1, <1>3 DEF BatchInv, durable
<1>8. /\ sleeping' \in BOOLEAN /\ run_intent' \in {"Running", "Stopped"} /\ floors \subseteq floors'
      /\ floors' # {} => run_intent' = "Running"
  BY <1>1 DEF BatchInv, BatchTyped
<1> QED BY <1>1, <1>2, <1>4, <1>5, <1>6, <1>7, <1>8, ExecutionKeeps

LEMMA SuspendKeeps ==
  ASSUME BatchInv, Suspend
  PROVE  BatchInv'
<1> DEFINE h == Head(work)
<1>1. /\ Executed /\ h.op = "Suspend" /\ sleeping' = TRUE /\ run_intent' = run_intent
      /\ floors' = floors /\ due_intent' = due_intent /\ UNCHANGED durable /\ Confirm(Nothing)
  BY DEF Suspend, Executes, Executed, session
<1>2. work # <<>> /\ \A c \in Elements(Tail(work)) : c.op \in Edges
  BY <1>1, HeadOfWork DEF Executed, Edges
<1>3. ReceiptsMove
  BY <1>1, <1>2, Confirms
<1>4. DocumentMoves
  BY <1>1, DocumentRests
<1>5. IntentMoves
  BY <1>1 DEF IntentMoves, Starting
<1>6. /\ sleeping' \in BOOLEAN /\ run_intent' \in {"Running", "Stopped"} /\ floors \subseteq floors'
      /\ floors' # {} => run_intent' = "Running"
  BY <1>1 DEF BatchInv, BatchTyped
<1> QED BY <1>1, <1>2, <1>3, <1>4, <1>5, <1>6, ExecutionKeeps

LEMMA ShutdownKeeps ==
  ASSUME BatchInv, Shutdown
  PROVE  BatchInv'
<1> DEFINE h == Head(work)
<1> DEFINE left == {work[i].id : i \in 2..Len(work)} \cup {inbox[i].id : i \in 1..Len(inbox)}
<1>1. /\ inbox \in Seq(CommandShape) /\ work \in Seq(CommandShape)
      /\ receipts \in [0..MaxSent -> CommandReceipt] /\ Ordered(work)
  BY TypedFields
<1>2. /\ busy /\ work # <<>> /\ h.op = "Shutdown" /\ work' = <<>> /\ inbox' = <<>> /\ ended' = TRUE
      /\ next_id' = next_id /\ busy' = busy
      /\ stored' = stored /\ shown' = shown /\ desired_revision' = desired_revision
      /\ run_intent' = run_intent /\ cause' = cause /\ floors' = floors
      /\ session_generation' = session_generation /\ built' = built
      /\ sleeping' = sleeping /\ due_intent' = due_intent
      /\ receipts' = [i \in DOMAIN receipts |->
           IF i = h.id THEN Answer(Nothing, 0)
           ELSE IF i \in left /\ receipts[i].state = "open" THEN Lost
           ELSE receipts[i]]
  BY DEF Shutdown, durable, session
<1>3. /\ Elements(inbox') = {} /\ Elements(work') = {} /\ Ordered(work')
      /\ inbox' \in Seq(CommandShape) /\ work' \in Seq(CommandShape) /\ Len(inbox') = 0
  BY <1>2, NoElements
<1>4. due_intent = AnyIntent
  BY <1>2, HeadOfWork DEF BatchInv, IntentUnderWay
<1>5. \A c \in Elements(inbox) \cup Elements(work) : c.id \in left \cup {h.id}
  <2>1. ASSUME NEW i \in 1..Len(work) PROVE work[i].id \in left \cup {h.id}
    <3>1. CASE i = 1
      <4>1. work[1] = h
        OBVIOUS
      <4> QED BY <3>1, <4>1
    <3>2. CASE i # 1
      <4>1. i \in 2..Len(work)
        BY <3>2
      <4> QED BY <4>1
    <3> QED BY <3>1, <3>2
  <2> QED BY <2>1 DEF Elements
<1> HIDE DEF left, h
<1>6. /\ receipts' \in [0..MaxSent -> CommandReceipt]
      /\ \A i \in 0..MaxSent : receipts'[i].state = "open" =>
           receipts'[i] = receipts[i] /\ i \notin left \cup {h.id}
  <2>1. /\ Answer(Nothing, 0) \in CommandReceipt /\ Answer(Nothing, 0).state = "done"
        /\ Lost \in CommandReceipt /\ Lost.state = "lost"
    BY ReceiptFields
  <2> HIDE DEF CommandReceipt
  <2> QED BY <1>1, <1>2, <2>1
<1>7. Accounted'
  <2>1. ASSUME NEW i \in 0..MaxSent, receipts'[i].state = "open"
        PROVE  receipts'[i].floor = 0 /\ i \in floors'
    <3>1. receipts'[i] = receipts[i] /\ i \notin left \cup {h.id}
      BY <1>6, <2>1
    <3>2. /\ receipts[i].floor = 0
          /\ \/ \E d \in Elements(inbox) \cup Elements(work) : d.confirmed /\ d.id = i
             \/ i \in floors
      BY <2>1, <3>1 DEF BatchInv, Accounted
    <3> QED BY <3>1, <3>2, <1>2, <1>5
  <2> QED BY <2>1 DEF Accounted
<1>8. BatchTyped'
  <2>1. 0 <= CommandCapacity
    BY BatchAssumption
  <2> QED BY <1>2, <1>3, <1>6, <2>1 DEF BatchInv, BatchTyped
<1>9. IntentUnderWay'
  BY <1>2, <1>4 DEF IntentUnderWay
<1>10. \A i, j \in 1..Len(inbox') : i < j => inbox'[i].id < inbox'[j].id
  BY <1>3
<1> QED BY <1>2, <1>3, <1>7, <1>8, <1>9, <1>10 DEF BatchInv, Elements, Ordered, Follows, Rank

\* The floor of a group start is never behind the newest attempt.
LEMMA FloorOfBatch ==
  ASSUME BatchInv, Finish
  PROVE  /\ session_generation' \in Nat /\ Floor \in Nat
         /\ Floor > session_generation \/ (~sleeping /\ session_generation' = session_generation
                                            /\ built' = built /\ Floor = session_generation
                                            /\ (cause = Nothing \/ run_intent # "Running"))
         /\ \/ session_generation' = session_generation /\ built' = built
            \/ /\ session_generation' = session_generation + 1
               /\ run_intent = "Running" => built'.for = shown.desired
         /\ ~sleeping /\ run_intent = "Running" => built'.for = shown.desired
<1>1. session_generation \in Nat /\ sleeping \in BOOLEAN
  BY DEF BatchInv, BatchTyped
<1>2. RequestReconcile(cause)
  BY DEF Finish
<1>3. PICK idle \in IdleSession :
        IF \/ cause = Nothing \/ sleeping
           \/ run_intent = "Stopped" /\ idle /\ pending_desired = {}
        THEN UNCHANGED session
        ELSE Mint(unready)
  BY <1>2 DEF RequestReconcile
<1> DEFINE rests == \/ cause = Nothing \/ sleeping
                    \/ run_intent = "Stopped" /\ idle /\ pending_desired = {}
<1>4. CASE rests
  <2>1. session_generation' = session_generation /\ built' = built
    BY <1>3, <1>4 DEF session
  <2>2. CASE sleeping
    <3>1. Floor = session_generation + 1
      BY <2>1, <2>2 DEF Floor
    <3> QED BY <1>1, <2>1, <2>2, <3>1
  <2>3. CASE ~sleeping
    <3>1. Floor = session_generation
      BY <2>1, <2>3 DEF Floor
    <3>2. cause = Nothing \/ run_intent # "Running"
      BY <1>4, <2>3
    <3>3. run_intent = "Running" => built.for = shown.desired
      BY <2>3, <3>2 DEF BatchInv
    <3> QED BY <1>1, <2>1, <2>3, <3>1, <3>2, <3>3
  <2> QED BY <2>2, <2>3
<1>5. CASE ~rests
  <2>1. /\ session_generation' = session_generation + 1
        /\ run_intent = "Running" => built'.for = shown.desired
    BY <1>3, <1>5 DEF Mint
  <2>2. Floor = session_generation + 1
    BY <2>1, <1>5 DEF Floor
  <2> QED BY <1>1, <2>1, <2>2
<1> QED BY <1>4, <1>5

LEMMA FinishKeeps ==
  ASSUME BatchInv, Finish
  PROVE  BatchInv'
<1>1. /\ busy /\ work = <<>> /\ busy' = FALSE /\ floors' = {} /\ cause' = Nothing
      /\ receipts' = [i \in DOMAIN receipts |->
                        IF i \in floors THEN Answer(Nothing, Floor) ELSE receipts[i]]
      /\ inbox' = inbox /\ next_id' = next_id /\ work' = work
      /\ stored' = stored /\ shown' = shown /\ desired_revision' = desired_revision
      /\ run_intent' = run_intent /\ sleeping' = sleeping /\ ended' = ended
      /\ due_intent' = due_intent
  BY DEF Finish, durable
<1>2. /\ receipts \in [0..MaxSent -> CommandReceipt]
      /\ \A c \in Elements(inbox) \cup Elements(work) : Sound(c)
  BY TypedFields
<1>3. /\ session_generation' \in Nat /\ Floor \in Nat
      /\ ~sleeping /\ run_intent = "Running" => built'.for = shown.desired
  BY FloorOfBatch
<1>4. PICK f \in Nat : f = Floor
  BY <1>3
<1>5. /\ receipts' \in [0..MaxSent -> CommandReceipt]
      /\ \A i \in 0..MaxSent : receipts'[i].state = "open" =>
           receipts'[i] = receipts[i] /\ i \notin floors
  <2>1. Answer(Nothing, f) \in CommandReceipt /\ Answer(Nothing, f).state = "done"
    BY ReceiptFields
  <2> HIDE DEF CommandReceipt
  <2> QED BY <1>1, <1>2, <1>4, <2>1
<1>6. BatchTyped'
  BY <1>1, <1>3, <1>5 DEF BatchInv, BatchTyped
<1>7. Accounted'
  BY <1>1, <1>5 DEF BatchInv, Accounted, Elements
<1>8. IntentUnderWay'
  BY <1>1 DEF BatchInv, IntentUnderWay, Elements, Starting
<1>9. \A c \in Elements(inbox') \cup Elements(work') : Sound(c)'
  <2>1. ASSUME NEW c, Sound(c) PROVE Sound(c)'
    BY <1>1, <2>1 DEF Sound
  <2> QED BY <2>1, <1>1, <1>2
<1> QED BY <1>1, <1>3, <1>6, <1>7, <1>8, <1>9 DEF BatchInv, Elements, Ordered, Follows, Rank

\* The steps of the actor outside of a batch.
BetweenBatches == FinishResume \/ ReceiversChange \/ RebuildUnasked \/ SessionActive

LEMMA ResumeKeeps ==
  ASSUME BatchInv, BetweenBatches
  PROVE  BatchInv'
<1>1. /\ inbox' = inbox /\ next_id' = next_id /\ work' = work /\ busy' = busy
      /\ stored' = stored /\ shown' = shown /\ desired_revision' = desired_revision
      /\ run_intent' = run_intent /\ cause' = cause /\ floors' = floors /\ receipts' = receipts
      /\ ended' = ended /\ due_intent' = due_intent
  BY DEF BetweenBatches, FinishResume, ReceiversChange, RebuildUnasked, SessionActive, durable
<1>2. /\ session_generation' \in Nat /\ sleeping' \in BOOLEAN
      /\ cause' = Nothing /\ ~sleeping' /\ run_intent' = "Running" => built'.for = shown'.desired
  <2>1. CASE FinishResume
    <3>1. session_generation \in Nat /\ sleeping' = FALSE /\ shown' = shown
      BY <1>1, <2>1 DEF FinishResume, BatchInv, BatchTyped
    <3>2. CASE run_intent = "Running"
      <4>1. session_generation' = session_generation + 1 /\ built'.for = shown.desired
        BY <2>1, <3>2 DEF FinishResume, Mint
      <4>2. session_generation' \in Nat
        BY <3>1, <4>1
      <4> QED BY <3>1, <4>1, <4>2
    <3>3. CASE run_intent # "Running"
      <4>1. session_generation' = session_generation
        BY <2>1, <3>3 DEF FinishResume
      <4> QED BY <1>1, <3>1, <3>3, <4>1
    <3> QED BY <3>2, <3>3
  <2>2. CASE RebuildUnasked
    <3>1. session_generation \in Nat /\ sleeping' = sleeping
      BY <2>2 DEF RebuildUnasked, BatchInv, BatchTyped
    <3>2. /\ session_generation' = session_generation + 1
          /\ run_intent = "Running" => built'.for = shown.desired
      BY <2>2 DEF RebuildUnasked, Mint
    <3> QED BY <1>1, <3>1, <3>2 DEF BatchInv, BatchTyped
  <2>3. CASE ReceiversChange \/ SessionActive
    BY <1>1, <2>3 DEF ReceiversChange, SessionActive, session, BatchInv, BatchTyped
  <2> QED BY <2>1, <2>2, <2>3 DEF BetweenBatches
<1>3. BatchTyped'
  BY <1>1, <1>2 DEF BatchInv, BatchTyped
<1>4. Accounted'
  BY <1>1 DEF BatchInv, Accounted, Elements
<1>5. IntentUnderWay'
  BY <1>1 DEF BatchInv, IntentUnderWay, Elements, Starting
<1>6. \A c \in Elements(inbox') \cup Elements(work') : Sound(c)'
  <2>1. \A c \in Elements(inbox) \cup Elements(work) : Sound(c)
    BY TypedFields
  <2>2. ASSUME NEW c, Sound(c) PROVE Sound(c)'
    BY <1>1, <2>2 DEF Sound
  <2> QED BY <2>1, <2>2, <1>1
<1> QED BY <1>1, <1>2, <1>3, <1>4, <1>5, <1>6 DEF BatchInv, Elements, Ordered, Follows, Rank

LEMMA BatchStep ==
  ASSUME BatchInv, [BatchNext]_batchVars
  PROVE  BatchInv'
<1>1. CASE TrySend
  BY <1>1, SendKeeps
<1>2. CASE Drain
  BY <1>2, DrainKeeps
<1>3. CASE SetDesiredMembers \/ ApplyDesiredMembers
  BY <1>3, SelectKeeps DEF SetDesiredMembers, ApplyDesiredMembers
<1>4. CASE SetRunIntent
  BY <1>4, SetRunIntentKeeps
<1>5. CASE SetMasterVolume
  BY <1>5, SetMasterKeeps
<1>6. CASE ActivateSavedGroup
  BY <1>6, ActivateKeeps
<1>7. CASE Calibrate
  BY <1>7, CalibrateKeeps
<1>8. CASE Suspend
  BY <1>8, SuspendKeeps
<1>9. CASE Shutdown
  BY <1>9, ShutdownKeeps
<1>10. CASE Finish
  BY <1>10, FinishKeeps
<1>11. CASE BetweenBatches
  BY <1>11, ResumeKeeps
<1>12. CASE UNCHANGED batchVars
  <2>1. /\ inbox' = inbox /\ next_id' = next_id /\ work' = work /\ busy' = busy
        /\ stored' = stored /\ shown' = shown /\ desired_revision' = desired_revision
        /\ run_intent' = run_intent /\ cause' = cause /\ floors' = floors /\ receipts' = receipts
        /\ ended' = ended /\ due_intent' = due_intent /\ sleeping' = sleeping
        /\ session_generation' = session_generation /\ built' = built
    BY <1>12 DEF batchVars, durable, session, calState
  <2> QED BY <2>1 DEF BatchInv, BatchTyped, Accounted, IntentUnderWay, Elements, Sound,
                      Ordered, Follows, Rank, Starting
<1> QED BY <1>1, <1>2, <1>3, <1>4, <1>5, <1>6, <1>7, <1>8, <1>9, <1>10, <1>11, <1>12 DEF BatchNext, BetweenBatches

LEMMA InvariantIsHonest ==
  ASSUME BatchInv
  PROVE  BatchHonest
<1>1. /\ BatchTyped /\ receipts \in [0..MaxSent -> CommandReceipt]
      /\ ~busy => work = <<>> /\ floors = {}
  BY TypedFields DEF BatchInv
<1>2. CommandQueue
  <2>1. \A i \in 1..Len(inbox) : inbox[i].id < next_id
    BY DEF BatchInv, Elements, Sound
  <2> HIDE DEF CommandShape, CommandReceipt
  <2> QED BY <1>1, <2>1 DEF CommandQueue, BatchTyped
<1>3. PendingBatch
  <2> SUFFICES ASSUME NEW i \in 1..Len(work), NEW j \in 1..Len(work), i < j
               PROVE  IF work[i].op \in Edges /\ work[j].op \in Edges
                      THEN work[i].id < work[j].id ELSE work[i].op # work[j].op
    BY <1>1 DEF PendingBatch
  <2>1. Follows(work[i], work[j])
    BY DEF BatchInv, Ordered
  <2>2. work \in Seq(CommandShape)
    BY <1>1 DEF BatchTyped
  <2>3. work[i].op \in Scalars \cup Edges /\ work[j].op \in Scalars \cup Edges
    BY <2>2, CommandFields
  <2>4. CASE work[i].op \in Edges /\ work[j].op \in Edges
    BY <2>1, <2>4 DEF Follows, Rank, Edges
  <2>5. CASE ~(work[i].op \in Edges /\ work[j].op \in Edges)
    BY <2>1, <2>3, <2>5 DEF Follows, Rank, Edges, Scalars
  <2> QED BY <2>4, <2>5
<1>4. ShownIsStored
  BY <1>1 DEF BatchTyped, ShownIsStored
<1>5. NewestIntentWins
  <2> SUFFICES ASSUME ~busy, due_intent # AnyIntent PROVE due_intent = run_intent
    BY DEF NewestIntentWins
  <2>1. Elements(work) = {}
    BY <1>1, NoElements
  <2> QED BY <2>1 DEF BatchInv, IntentUnderWay
<1>6. ReceiptsSettled
  <2> SUFFICES ASSUME ~busy, inbox = <<>>, NEW i \in DOMAIN receipts, receipts[i].state = "open"
               PROVE  FALSE
    BY DEF ReceiptsSettled
  <2>1. Elements(work) = {} /\ Elements(inbox) = {} /\ floors = {}
    BY <1>1, NoElements
  <2>2. i \in 0..MaxSent
    <3> HIDE DEF CommandReceipt
    <3> QED BY <1>1
  <2> QED BY <2>1, <2>2 DEF BatchInv, Accounted
<1> QED BY <1>2, <1>3, <1>4, <1>5, <1>6 DEF BatchHonest

\* An open receipt has no floor yet.
LEMMA OpenHasNoFloor ==
  ASSUME BatchInv
  PROVE  \A i \in DOMAIN receipts : receipts[i].state = "open" => receipts[i].floor = 0
<1>1. DOMAIN receipts = 0..MaxSent
  <2>1. receipts \in [0..MaxSent -> CommandReceipt]
    BY TypedFields
  <2> HIDE DEF CommandReceipt
  <2> QED BY <2>1
<1> QED BY <1>1 DEF BatchInv, Accounted

\* The answer of a command is no floor.
NoFloorSet ==
  \A i \in DOMAIN receipts : receipts[i].state = "open" => receipts'[i].floor = 0

LEMMA ConfirmSetsNoFloor ==
  ASSUME BatchInv, NEW error, Confirm(error)
  PROVE  NoFloorSet
<1> DEFINE a == Answer(error, 0)
<1>1. a.floor = 0
  BY DEF Answer
<1>2. receipts' = receipts \/ receipts' = [receipts EXCEPT ![Head(work).id] = a]
  BY DEF Confirm
<1> HIDE DEF a
<1> QED BY <1>1, <1>2, OpenHasNoFloor DEF NoFloorSet

LEMMA OnlyFinishSetsFloors ==
  ASSUME BatchInv, BatchNext, ~Finish
  PROVE  NoFloorSet
<1>1. CASE receipts' = receipts
  BY <1>1, OpenHasNoFloor DEF NoFloorSet
<1>2. CASE TrySend
  <2>1. receipts' = receipts \/ receipts' = [receipts EXCEPT ![next_id] = Open]
    BY <1>2 DEF TrySend
  <2>2. Open.floor = 0
    BY DEF Open
  <2> QED BY <2>1, <2>2, OpenHasNoFloor DEF NoFloorSet
<1>3. CASE Drain
  <2>1. receipts' = [i \in DOMAIN receipts |-> IF i \in Superseded THEN Lost ELSE receipts[i]]
    BY <1>3 DEF Drain
  <2>2. Lost.floor = 0
    BY DEF Lost
  <2> QED BY <2>1, <2>2, OpenHasNoFloor DEF NoFloorSet
<1>4. CASE SetDesiredMembers \/ ApplyDesiredMembers
  <2>1. \E error : Confirm(error)
    BY <1>4 DEF SetDesiredMembers, ApplyDesiredMembers, Select
  <2> QED BY <2>1, ConfirmSetsNoFloor
<1>5. CASE SetRunIntent
  BY <1>1, <1>5 DEF SetRunIntent
<1>6. CASE SetMasterVolume
  <2>1. \E error : Confirm(error)
    BY <1>6 DEF SetMasterVolume
  <2> QED BY <2>1, ConfirmSetsNoFloor
<1>7. CASE ActivateSavedGroup
  <2>1. receipts' = receipts \/ \E error : Confirm(error)
    BY <1>7 DEF ActivateSavedGroup
  <2> QED BY <1>1, <2>1, ConfirmSetsNoFloor
<1>8. CASE Calibrate
  <2>1. \E error : Confirm(error)
    BY <1>8 DEF Calibrate
  <2> QED BY <2>1, ConfirmSetsNoFloor
<1>9. CASE Suspend
  BY <1>9, ConfirmSetsNoFloor DEF Suspend
<1>10. CASE Shutdown
  <2> DEFINE left == {work[i].id : i \in 2..Len(work)} \cup {inbox[i].id : i \in 1..Len(inbox)}
  <2>1. receipts' = [i \in DOMAIN receipts |->
           IF i = Head(work).id THEN Answer(Nothing, 0)
           ELSE IF i \in left /\ receipts[i].state = "open" THEN Lost
           ELSE receipts[i]]
    BY <1>10 DEF Shutdown
  <2>2. Answer(Nothing, 0).floor = 0 /\ Lost.floor = 0
    BY DEF Answer, Lost
  <2> HIDE DEF left
  <2> QED BY <2>1, <2>2, OpenHasNoFloor DEF NoFloorSet
<1>11. CASE BetweenBatches
  BY <1>1, <1>11 DEF BetweenBatches, FinishResume, ReceiversChange, RebuildUnasked, SessionActive
<1> QED BY <1>2, <1>3, <1>4, <1>5, <1>6, <1>7, <1>8, <1>9, <1>10, <1>11 DEF BatchNext, BetweenBatches

LEMMA FloorsAnswerStarts ==
  ASSUME BatchInv, BatchNext
  PROVE  FloorAnswersStart
<1>1. CASE ~Finish
  BY <1>1, OnlyFinishSetsFloors DEF FloorAnswersStart, NoFloorSet
<1>2. CASE Finish
  <2> SUFFICES ASSUME NEW i \in DOMAIN receipts, receipts[i].state = "open",
                      receipts'[i].floor # 0
               PROVE  \/ receipts'[i].floor > session_generation
                      \/ ~sleeping' /\ built.for = shown'.desired
    BY DEF FloorAnswersStart
  <2>1. /\ receipts' = [k \in DOMAIN receipts |->
                          IF k \in floors THEN Answer(Nothing, Floor) ELSE receipts[k]]
        /\ sleeping' = sleeping /\ shown' = shown
    BY <1>2 DEF Finish, durable
  <2>2. i \in floors
    BY <2>1, OpenHasNoFloor
  <2>3. receipts'[i].floor = Floor
    BY <2>1, <2>2 DEF Answer
  <2>4. run_intent = "Running"
    BY <2>2 DEF BatchInv
  <2>5. \/ Floor > session_generation
        \/ ~sleeping /\ built' = built
    BY <1>2, FloorOfBatch
  <2>6. ~sleeping => built'.for = shown.desired
    BY <1>2, <2>4, FloorOfBatch
  <2> QED BY <2>1, <2>3, <2>5, <2>6
<1> QED BY <1>1, <1>2

LEMMA CalibrationsFit ==
  ASSUME BatchInv, BatchNext
  PROVE  CalibrationFitsSelection
<1>1. CASE profile' = profile
  BY <1>1 DEF CalibrationFitsSelection
<1>2. CASE Calibrate
  <2> DEFINE c == Head(work)
  <2> DEFINE judged == c.expected = desired_revision /\ Cardinality(shown.desired) >= 2
  <2>1. PICK saved \in BOOLEAN :
          IF judged /\ saved THEN profile' = c.seen ELSE profile' = profile
    BY <1>2 DEF Calibrate
  <2>2. work # <<>> /\ shown' = shown
    BY <1>2 DEF Calibrate, Executes, durable
  <2>3. Sound(c)
    BY <2>2, HeadOfWork
  <2>4. c.expected = desired_revision => c.seen = shown.desired
    BY <2>3 DEF Sound
  <2> QED BY <2>1, <2>2, <2>4 DEF CalibrationFitsSelection
<1>3. CASE ~Calibrate
  <2>1. profile' = profile
    BY <1>3 DEF BatchNext, TrySend, Drain, SetDesiredMembers, ApplyDesiredMembers, Select,
                SetRunIntent, SetMasterVolume, ActivateSavedGroup, Suspend, Shutdown, Finish,
                FinishResume, ReceiversChange, RebuildUnasked, SessionActive, calState
  <2> QED BY <1>1, <2>1
<1> QED BY <1>2, <1>3

LEMMA BatchAlwaysInv == BatchSpec => []BatchInv
<1>1. BatchInit => BatchInv
  BY BatchInitially
<1>2. BatchInv /\ [BatchNext]_batchVars => BatchInv'
  BY BatchStep
<1> QED BY <1>1, <1>2, PTL DEF BatchSpec

\* Whatever the shell sends while a batch is processed, and whichever saves fail, the
\* coalescing of PendingBatch and the execution of process_batch leave the user's newest
\* run intent, show nothing that is not on disk, execute at most one command of each
\* scalar slot and the edges in arrival order, and leave no receipt open.
THEOREM BatchStaysHonest == BatchSpec => []BatchHonest
<1>1. BatchInv => BatchHonest
  BY InvariantIsHonest
<1> QED BY <1>1, BatchAlwaysInv, PTL

\* What group_start_confirmations answers a group start with is an attempt still to be
\* announced, or the newest one, made for exactly the selection shown (whoever of it is
\* not castable or in backoff at that moment is left out of it); and handle_calibration
\* stores delays only for the selection their author was looking at.
THEOREM AnswersAlwaysFit == BatchSpec => AnswersFit
<1>1. BatchInv /\ [BatchNext]_batchVars => [FloorAnswersStart /\ CalibrationFitsSelection]_batchVars
  BY FloorsAnswerStarts, CalibrationsFit
<1> QED BY <1>1, BatchAlwaysInv, PTL DEF BatchSpec, AnswersFit
=============================================================================
