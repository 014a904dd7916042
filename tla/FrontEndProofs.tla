---------------------------- MODULE FrontEndProofs ----------------------------
(***************************************************************************)
(* Theorems about the front ends: the terminal client (TerminalClient.tla),*)
(* for every set of receivers, every set of keys and any number of key     *)
(* presses, jobs and capture threads, and the session window with its      *)
(* bridge to the backend (ShellSession.tla), for every user, every queue   *)
(* length and any number of presses, attempts and faults, and the settings *)
(* with their threads (ShellSettings.tla), for every user, every chord,    *)
(* every queue length and any number of edits, faults and launches.        *)
(***************************************************************************)
EXTENDS TerminalClient, ShellSession, ShellSettings, SequenceTheorems, NaturalsInduction,
        WellFoundedInduction, TLAPS

TerminalSpec == TerminalInit /\ [][TerminalNext]_terminalVars

-----------------------------------------------------------------------------
(* What travels and what is kept.                                          *)

PlaybackStates == {"Stopped", "Playing", "Paused"}
DeviceChoices == Rooms \cup {Nobody}

\* An action is its name, and four of them carry something.
Loaded == {"Connected", "PlaybackStateChanged", "DevicesScanned", "BluetoothAdapterReady"}
Plain == Actions \ Loaded
Entries ==
  {<<a>> : a \in Plain} \cup {ConnectedTo(d) : d \in Rooms}
    \cup {PlaybackStateChanged(s) : s \in PlaybackStates}
    \cup {<<"DevicesScanned", found>> : found \in SUBSET Rooms}
    \cup {<<"BluetoothAdapterReady", on>> : on \in BOOLEAN}

ReportedKinds == {"GroupConnected", "PlaybackStarted", "ShowError"}
Errands == {"init", "check", "list", "scan", "pair", "connect", "disconnect", "power on", "power off"}
\* A job waits for the client or works on it, has a result to report, or runs
\* a command of the system.
JobShape ==
  [what : {"play", "group"}, at : {"waiting", "working"}, asked : SUBSET Rooms]
    \cup [what : ReportedKinds, at : {"done"}, asked : SUBSET Rooms]
    \cup [what : Errands, at : {"helper"}, asked : {{}}]

ClientShape ==
  [device : DeviceChoices, torn : BOOLEAN, members : SUBSET Rooms, group : SUBSET Rooms,
   playback : PlaybackStates]
ScreenShape ==
  [hand : KeySets, listed : SUBSET Rooms, marked : SUBSET Rooms, linked : SUBSET Rooms,
   scanning : BOOLEAN, connecting : BOOLEAN, shown : DeviceChoices, grouped : BOOLEAN,
   playback : PlaybackStates, active : SUBSET Inputs, checked : BOOLEAN, powered : BOOLEAN,
   peer : BOOLEAN, searching : BOOLEAN, quit : BOOLEAN, keys : Nat, missed : BOOLEAN]
ScreenOK(s) == s \in ScreenShape /\ s.marked \subseteq s.listed /\ s.linked \subseteq s.listed
RadioShape == [powered : BOOLEAN, peer : BOOLEAN]
Threads(n) == Inputs \X (1 .. n)
CaptureOK(c) ==
  /\ c \in [running : SUBSET Threads(c.count), told : SUBSET Threads(c.count),
            held : [Inputs -> Nat], count : Nat]

\* What the loop is inside of, and for whom.
BusyOK(b, c) ==
  /\ b = [at |-> b.at, arg |-> b.arg]
  /\ \/ b.at \in {"select", "stopping"}
     \/ b.at \in {"connectWait", "connecting"} /\ b.arg \in Rooms
     \/ b.at \in {"join", "capture"} /\ \E i \in Inputs : b.arg = <<i>>
     \/ b.at \in {"stream", "abort"} /\ b.arg \in Threads(c.count)

-----------------------------------------------------------------------------
(* The inductive invariant.                                                *)

\* A display that says "connecting" has its end coming.
Causes == {"group"} \cup Ends
Cause(connecting, b, js, q) ==
  connecting =>
    \/ b.at \in {"connectWait", "connecting"}
    \/ \E k \in 1 .. Len(js) : js[k].what \in Causes
    \/ \E k \in 1 .. Len(q) : q[k][1] \in Ends

\* The last connection event under way says which device the client has; with
\* none under way the screen says it, or an event fell into a connection attempt.
Telling(m) == m[1] \in {"Connected", "Disconnected"}
Says(m) == IF m[1] = "Connected" THEN m[2] ELSE Nobody
LastWord(q, d) ==
  \E k \in 1 .. Len(q) :
    Telling(q[k]) /\ Says(q[k]) = d /\ \A j \in 1 .. Len(q) : j > k => ~Telling(q[j])
Silent(q) == \A k \in 1 .. Len(q) : ~Telling(q[k])
ShownDevice(s, d) == s.missed \/ s.shown = d
Word(q, s, d) == LastWord(q, d) \/ (Silent(q) /\ ShownDevice(s, d))

\* The thread an input holds, if any.
Held(c, i) == <<i, c.held[i]>>
Untold(c) == c.running \ c.told
\* No capture thread is out of everyone's hands, and who is waited for was told.
ThreadsKept(b, c) ==
  /\ \A t \in Untold(c) : c.held[t[1]] = t[2] \/ (b.at = "stream" /\ b.arg = t)
  /\ \A i \in Inputs : Held(c, i) \in c.told => b.at = "join" /\ b.arg = <<i>>
  /\ b.at = "join" => Held(c, b.arg[1]) \notin Untold(c)
  /\ b.at \in {"capture", "stream"} => c.held[b.arg[1]] = Nobody
  /\ b.at = "stream" => b.arg \notin c.told
  /\ b.at = "abort" => b.arg \notin Untold(c)

\* The client is locked by a job that works, or by a loop that connects.
LockHeld(m, b, js) ==
  /\ m \in {"free", "loop", "job"}
  /\ m = "job" => \E k \in 1 .. Len(js) : js[k].at = "working"
  /\ m = "loop" => b.at = "connecting"

TerminalInv ==
  /\ ScreenOK(screen) /\ airplay \in ClientShape /\ radio \in RadioShape
  /\ inbox \in Seq(Entries) /\ jobs \in Seq(JobShape) /\ CaptureOK(captures) /\ BusyOK(busy, captures)
  /\ Cause(screen.connecting, busy, jobs, inbox)
  /\ Word(inbox, screen, airplay.device)
  /\ ThreadsKept(busy, captures) /\ LockHeld(mutex, busy, jobs)

-----------------------------------------------------------------------------
(* Queues: what taking the head and adding events at the end keeps.        *)

\* Events say what became of the client's device, if anything did.
Announces(notices, before, after) ==
  (after = before /\ Silent(notices)) \/ LastWord(notices, after)

LEMMA Consumed ==
  ASSUME NEW q \in Seq(Entries), q # <<>>, NEW e \in Seq(Entries),
         NEW d, NEW d2, Announces(e, d, d2), NEW s, NEW s2, Word(q, s, d),
         ~Telling(Head(q)) /\ ShownDevice(s, d) => ShownDevice(s2, d),
         Telling(Head(q)) /\ Says(Head(q)) = d => ShownDevice(s2, d)
  PROVE Tail(q) \o e \in Seq(Entries) /\ Word(Tail(q) \o e, s2, d2)
<1> DEFINE t == Tail(q)
           n == t \o e
<1>1. /\ t \in Seq(Entries) /\ Len(t) = Len(q) - 1 /\ Len(t) \in Nat /\ Head(q) = q[1] /\ Len(q) \in Nat
      /\ \A i \in 1 .. Len(t) : t[i] = q[i + 1]
  BY HeadTailProperties
<1>2. /\ n \in Seq(Entries) /\ Len(n) = Len(t) + Len(e) /\ Len(e) \in Nat
      /\ \A i \in 1 .. Len(t) : n[i] = t[i]
      /\ \A i \in 1 .. Len(e) : n[Len(t) + i] = e[i]
  BY <1>1, ConcatProperties, LenProperties
<1> HIDE DEF t, n
<1>5. \A j \in 1 .. Len(t) : j + 1 \in 1 .. Len(q) /\ n[j] = q[j + 1]
  BY <1>1, <1>2
<1>3. CASE LastWord(e, d2)
  <2>1. PICK k \in 1 .. Len(e) :
          Telling(e[k]) /\ Says(e[k]) = d2 /\ \A j \in 1 .. Len(e) : j > k => ~Telling(e[j])
    BY <1>3 DEF LastWord
  <2>2. ASSUME NEW j \in 1 .. Len(n), j > Len(t) + k PROVE ~Telling(n[j])
    <3>1. j - Len(t) \in 1 .. Len(e) /\ j - Len(t) > k /\ j = Len(t) + (j - Len(t))
      BY <1>1, <1>2, <2>2
    <3> QED
      BY <3>1, <2>1, <1>2
  <2>3. Len(t) + k \in 1 .. Len(n) /\ n[Len(t) + k] = e[k]
    BY <1>1, <1>2
  <2>4. LastWord(n, d2)
    BY <2>1, <2>2, <2>3 DEF LastWord
  <2> QED
    BY <2>4, <1>2 DEF Word, n, t
<1>4. CASE d2 = d /\ Silent(e)
  <2>1. ASSUME NEW j \in 1 .. Len(n), j > Len(t) PROVE ~Telling(n[j])
    <3>1. j - Len(t) \in 1 .. Len(e) /\ j = Len(t) + (j - Len(t))
      BY <1>1, <1>2, <2>1
    <3> QED
      BY <3>1, <1>2, <1>4 DEF Silent
  <2>2. CASE Silent(q)
    <3>1. \A j \in 1 .. Len(n) : ~Telling(n[j])
      BY <2>1, <2>2, <1>5 DEF Silent
    <3>2. ~Telling(Head(q)) /\ ~LastWord(q, d)
      BY <2>2, <1>1 DEF Silent, LastWord
    <3> QED
      BY <3>1, <3>2, <1>2, <1>4 DEF Silent, Word, n, t
  <2>3. CASE LastWord(q, d)
    <3>1. PICK k \in 1 .. Len(q) :
            Telling(q[k]) /\ Says(q[k]) = d /\ \A j \in 1 .. Len(q) : j > k => ~Telling(q[j])
      BY <2>3 DEF LastWord
    <3>2. CASE k = 1
      <4>1. \A j \in 1 .. Len(n) : ~Telling(n[j])
        BY <2>1, <3>1, <3>2, <1>1, <1>2
      <4> QED
        BY <4>1, <3>1, <3>2, <1>1, <1>2, <1>4 DEF Silent, Word, n, t
    <3>3. CASE k # 1
      <4>1. k - 1 \in 1 .. Len(t) /\ n[k - 1] = q[k] /\ k - 1 \in 1 .. Len(n)
        BY <3>1, <3>3, <1>1, <1>2
      <4>2. ASSUME NEW j \in 1 .. Len(n), j > k - 1 PROVE ~Telling(n[j])
        <5>1. CASE j > Len(t)
          BY <5>1, <2>1
        <5>2. CASE j \in 1 .. Len(t)
          <6>1. j + 1 > k
            BY <4>2, <5>2, <1>1
          <6> QED
            BY <6>1, <5>2, <3>1, <1>5
        <5> QED
          BY <5>1, <5>2, <1>1, <1>2
      <4> QED
        BY <4>1, <4>2, <3>1, <1>1, <1>2, <1>4 DEF LastWord, Word, n, t
    <3> QED
      BY <3>2, <3>3
  <2> QED
    BY <2>2, <2>3 DEF Word
<1> QED
  BY <1>3, <1>4 DEF Announces

LEMMA Added ==
  ASSUME NEW q \in Seq(Entries), NEW e \in Seq(Entries),
         NEW d, NEW d2, Announces(e, d, d2), NEW s, Word(q, s, d)
  PROVE q \o e \in Seq(Entries) /\ Word(q \o e, s, d2)
<1> DEFINE n == q \o e
<1>2. /\ n \in Seq(Entries) /\ Len(n) = Len(q) + Len(e) /\ Len(e) \in Nat /\ Len(q) \in Nat
      /\ \A i \in 1 .. Len(q) : n[i] = q[i]
      /\ \A i \in 1 .. Len(e) : n[Len(q) + i] = e[i]
  BY ConcatProperties, LenProperties
<1> HIDE DEF n
<1>3. CASE LastWord(e, d2)
  <2>1. PICK k \in 1 .. Len(e) :
          Telling(e[k]) /\ Says(e[k]) = d2 /\ \A j \in 1 .. Len(e) : j > k => ~Telling(e[j])
    BY <1>3 DEF LastWord
  <2>2. ASSUME NEW j \in 1 .. Len(n), j > Len(q) + k PROVE ~Telling(n[j])
    <3>1. j - Len(q) \in 1 .. Len(e) /\ j - Len(q) > k /\ j = Len(q) + (j - Len(q))
      BY <1>2, <2>2
    <3> QED
      BY <3>1, <2>1, <1>2
  <2>3. Len(q) + k \in 1 .. Len(n) /\ n[Len(q) + k] = e[k]
    BY <1>2
  <2>4. LastWord(n, d2)
    BY <2>1, <2>2, <2>3 DEF LastWord
  <2> QED
    BY <2>4, <1>2 DEF Word, n
<1>4. CASE d2 = d /\ Silent(e)
  <2>1. ASSUME NEW j \in 1 .. Len(n), j > Len(q) PROVE ~Telling(n[j])
    <3>1. j - Len(q) \in 1 .. Len(e) /\ j = Len(q) + (j - Len(q))
      BY <1>2, <2>1
    <3> QED
      BY <3>1, <1>2, <1>4 DEF Silent
  <2>2. ASSUME Silent(q) PROVE Silent(n)
    <3>1. ASSUME NEW j \in 1 .. Len(n) PROVE ~Telling(n[j])
      <4>1. CASE j > Len(q)
        BY <4>1, <2>1
      <4>2. CASE j \in 1 .. Len(q)
        BY <4>2, <2>2, <1>2 DEF Silent
      <4> QED
        BY <4>1, <4>2, <1>2
    <3> QED
      BY <3>1 DEF Silent
  <2>3. ASSUME LastWord(q, d) PROVE LastWord(n, d)
    <3>1. PICK k \in 1 .. Len(q) :
            Telling(q[k]) /\ Says(q[k]) = d /\ \A j \in 1 .. Len(q) : j > k => ~Telling(q[j])
      BY <2>3 DEF LastWord
    <3>2. k \in 1 .. Len(n) /\ n[k] = q[k]
      BY <1>2
    <3>3. ASSUME NEW j \in 1 .. Len(n), j > k PROVE ~Telling(n[j])
      <4>1. CASE j > Len(q)
        BY <4>1, <2>1
      <4>2. CASE j \in 1 .. Len(q)
        BY <4>2, <3>3, <3>1, <1>2
      <4> QED
        BY <4>1, <4>2, <1>2
    <3> QED
      BY <3>1, <3>2, <3>3 DEF LastWord
  <2> QED
    BY <2>2, <2>3, <1>2, <1>4 DEF Word, n
<1> QED
  BY <1>3, <1>4 DEF Announces

\* A cause of "connecting" stays one, unless its end is taken from the queue.
LEMMA CauseConsumed ==
  ASSUME NEW q \in Seq(Entries), q # <<>>, NEW e \in Seq(Entries),
         NEW c, NEW b, NEW js, Cause(c, b, js, q), Head(q)[1] \notin Ends
  PROVE Cause(c, b, js, Tail(q) \o e)
<1> DEFINE t == Tail(q)
           n == t \o e
<1>1. /\ t \in Seq(Entries) /\ Len(t) = Len(q) - 1 /\ Len(t) \in Nat /\ Head(q) = q[1] /\ Len(q) \in Nat
      /\ \A i \in 1 .. Len(t) : t[i] = q[i + 1]
  BY HeadTailProperties
<1>2. /\ Len(n) = Len(t) + Len(e) /\ Len(e) \in Nat /\ \A i \in 1 .. Len(t) : n[i] = t[i]
  BY <1>1, ConcatProperties, LenProperties
<1> HIDE DEF t, n
<1>3. ASSUME NEW k \in 1 .. Len(q), q[k][1] \in Ends
      PROVE \E i \in 1 .. Len(n) : n[i][1] \in Ends
  <2>1. k - 1 \in 1 .. Len(t) /\ q[k] = t[k - 1]
    BY <1>3, <1>1
  <2> QED
    BY <2>1, <1>1, <1>2, <1>3
<1> QED
  BY <1>3 DEF Cause, n, t

LEMMA CauseAdded ==
  ASSUME NEW q \in Seq(Entries), NEW e \in Seq(Entries),
         NEW c, NEW b, NEW js, Cause(c, b, js, q)
  PROVE Cause(c, b, js, q \o e)
<1>2. /\ Len(q \o e) = Len(q) + Len(e) /\ Len(e) \in Nat /\ Len(q) \in Nat
      /\ \A i \in 1 .. Len(q) : (q \o e)[i] = q[i]
  BY ConcatProperties, LenProperties
<1> QED
  BY <1>2 DEF Cause

-----------------------------------------------------------------------------
(* The client's operations: every change of its device is announced.       *)

ResultOK(c, r) ==
  /\ r.client \in ClientShape /\ r.events \in Seq(Entries)
  /\ Announces(r.events, c.device, r.client.device)

LEMMA PlainEntries ==
  /\ \A a \in Plain : <<a>> \in Entries
  /\ \A d \in Rooms : ConnectedTo(d) \in Entries
  /\ \A s \in PlaybackStates : PlaybackStateChanged(s) \in Entries
BY DEF Entries

LEMMA NothingSaid == <<>> \in Seq(Entries) /\ Silent(<<>>)
<1>1. <<>> \in Seq(Entries) /\ Len(<<>>) = 0
  BY EmptySeq
<1> QED
  BY <1>1 DEF Silent

LEMMA OneSaid ==
  ASSUME NEW m \in Entries
  PROVE /\ <<m>> \in Seq(Entries)
        /\ ~Telling(m) => Silent(<<m>>)
        /\ Telling(m) => LastWord(<<m>>, Says(m))
<1>1. <<m>> \in Seq(Entries) /\ Len(<<m>>) = 1 /\ <<m>>[1] = m
  OBVIOUS
<1> QED
  BY <1>1 DEF Silent, LastWord

LEMMA TwoSaid ==
  ASSUME NEW m \in Entries, NEW m2 \in Entries, ~Telling(m2)
  PROVE /\ <<m, m2>> \in Seq(Entries)
        /\ ~Telling(m) => Silent(<<m, m2>>)
        /\ Telling(m) => LastWord(<<m, m2>>, Says(m))
<1>1. <<m, m2>> \in Seq(Entries) /\ Len(<<m, m2>>) = 2 /\ <<m, m2>>[1] = m /\ <<m, m2>>[2] = m2
  OBVIOUS
<1> QED
  BY <1>1 DEF Silent, LastWord

LEMMA DisconnectsOK ==
  ASSUME NEW c \in ClientShape, NEW r \in Disconnects(c)
  PROVE ResultOK(c, r) /\ r.ok \in BOOLEAN /\ (r.ok => r.client.device = Nobody)
<1>1. <<"Disconnected">> \in Entries /\ Telling(<<"Disconnected">>) /\ Says(<<"Disconnected">>) = Nobody
  BY PlainEntries DEF Plain, Actions, Loaded, Telling, Says
<1>2. <<<<"Disconnected">>>> \in Seq(Entries) /\ LastWord(<<<<"Disconnected">>>>, Nobody)
  BY <1>1, OneSaid
<1>3. CASE r = [client |-> [c EXCEPT !.device = Nobody, !.torn = FALSE, !.members = {}, !.playback = "Stopped"],
                events |-> <<<<"Disconnected">>>>, ok |-> TRUE]
  BY <1>2, <1>3 DEF ResultOK, Announces, ClientShape, DeviceChoices, PlaybackStates
<1>4. CASE \E s \in {"Stopped", c.playback} :
             r = [client |-> [c EXCEPT !.torn = TRUE, !.members = {}, !.playback = s],
                  events |-> <<>>, ok |-> FALSE]
  <2>1. PICK s \in {"Stopped", c.playback} :
             r = [client |-> [c EXCEPT !.torn = TRUE, !.members = {}, !.playback = s],
                  events |-> <<>>, ok |-> FALSE]
    BY <1>4
  <2>2. s \in PlaybackStates /\ r.ok = FALSE /\ r.events = <<>>
    BY <2>1 DEF ClientShape, PlaybackStates
  <2>3. r.client \in ClientShape /\ r.client.device = c.device
    BY <2>1, <2>2 DEF ClientShape
  <2> QED
    BY <2>2, <2>3, NothingSaid DEF ResultOK, Announces
<1> QED
  BY <1>3, <1>4 DEF Disconnects

LEMMA ConnectStartsOK ==
  ASSUME NEW c \in ClientShape, NEW r \in ConnectStarts(c)
  PROVE ResultOK(c, r) /\ r.ok \in BOOLEAN
<1>1. CASE c.device = Nobody
  <2>1. r = [client |-> c, events |-> <<>>, ok |-> TRUE]
    BY <1>1 DEF ConnectStarts
  <2> QED
    BY <2>1, NothingSaid DEF ResultOK, Announces
<1> QED
  BY <1>1, DisconnectsOK DEF ConnectStarts

LEMMA GroupEndsOK ==
  ASSUME NEW c \in ClientShape, NEW wanted \in SUBSET Rooms, NEW r \in ConnectGroupEnds(c, wanted)
  PROVE ResultOK(c, r)
<1>1. CASE r = [client |-> c, events |-> <<>>, ok |-> FALSE]
  BY <1>1, NothingSaid DEF ResultOK, Announces
<1>2. CASE \E p \in wanted, up \in SUBSET wanted :
             r = [client |-> [c EXCEPT !.device = p, !.members = up \ {p}, !.group = up],
                  events |-> <<ConnectedTo(p), <<"GroupChanged">>>>, ok |-> up = wanted]
  <2>1. PICK p \in wanted, up \in SUBSET wanted :
             r = [client |-> [c EXCEPT !.device = p, !.members = up \ {p}, !.group = up],
                  events |-> <<ConnectedTo(p), <<"GroupChanged">>>>, ok |-> up = wanted]
    BY <1>2
  <2>2. /\ ConnectedTo(p) \in Entries /\ Telling(ConnectedTo(p)) /\ Says(ConnectedTo(p)) = p
        /\ <<"GroupChanged">> \in Entries /\ ~Telling(<<"GroupChanged">>)
    BY PlainEntries DEF Plain, Actions, Loaded, ConnectedTo, Telling, Says
  <2>3. r.events \in Seq(Entries) /\ LastWord(r.events, p)
    BY <2>1, <2>2, TwoSaid
  <2> QED
    BY <2>1, <2>3 DEF ResultOK, Announces, ClientShape, DeviceChoices
<1>3. r = [client |-> c, events |-> <<>>, ok |-> FALSE] \/ \E up \in SUBSET wanted :
          r \in {[client |-> [c EXCEPT !.device = p, !.members = up \ {p}, !.group = up],
                  events |-> <<ConnectedTo(p), <<"GroupChanged">>>>, ok |-> up = wanted] : p \in up}
  BY DEF ConnectGroupEnds
<1> QED
  BY <1>1, <1>2, <1>3

LEMMA StateSaid ==
  ASSUME NEW s \in PlaybackStates
  PROVE /\ <<PlaybackStateChanged(s)>> \in Seq(Entries)
        /\ Silent(<<PlaybackStateChanged(s)>>)
<1>1. PlaybackStateChanged(s) \in Entries /\ ~Telling(PlaybackStateChanged(s))
  BY PlainEntries DEF PlaybackStateChanged, Telling
<1> QED
  BY <1>1, OneSaid

LEMMA PlaybackOK ==
  ASSUME NEW c \in ClientShape, NEW r,
         r \in PlayStarts(c) \/ \E s \in PlaybackStates : r \in PlaybackTurns(c, s)
  PROVE ResultOK(c, r) /\ r.client.device = c.device /\ Silent(r.events)
<1>1. CASE r = [client |-> c, events |-> <<>>, ok |-> FALSE]
  BY <1>1, NothingSaid DEF ResultOK, Announces
<1>2. CASE \E s \in PlaybackStates : r = [client |-> [c EXCEPT !.playback = s],
             events |-> <<PlaybackStateChanged(s)>>, ok |-> TRUE]
  BY <1>2, StateSaid DEF ResultOK, Announces, ClientShape
<1> QED
  BY <1>1, <1>2 DEF PlayStarts, PlaybackTurns, PlaybackStates

-----------------------------------------------------------------------------
(* Initially.                                                              *)

LEMMA TerminalInitially == TerminalInit => TerminalInv
<1> SUFFICES ASSUME TerminalInit PROVE TerminalInv
  OBVIOUS
<1>1. inbox = <<>> /\ jobs = <<>> /\ busy.at = "select" /\ busy = [at |-> "select", arg |-> Nobody]
  BY DEF TerminalInit
<1>2. inbox \in Seq(Entries) /\ jobs \in Seq(JobShape) /\ Len(inbox) = 0 /\ Silent(inbox)
  BY <1>1, EmptySeq DEF Silent
<1>3. ScreenOK(screen) /\ screen.connecting = FALSE /\ screen.shown = Nobody /\ radio \in RadioShape
  BY DEF TerminalInit, ScreenOK, ScreenShape, RadioShape, DeviceChoices, PlaybackStates
<1>4. airplay \in ClientShape /\ airplay.device = Nobody
  BY DEF TerminalInit, ClientShape, DeviceChoices, PlaybackStates
<1>5. CaptureOK(captures) /\ captures.running = {} /\ captures.told = {}
  BY DEF TerminalInit, CaptureOK, Threads, Nobody
<1>6. BusyOK(busy, captures) /\ ThreadsKept(busy, captures)
  BY <1>1, <1>5 DEF BusyOK, ThreadsKept, Untold
<1>7. Cause(screen.connecting, busy, jobs, inbox) /\ Word(inbox, screen, airplay.device)
  BY <1>2, <1>3, <1>4 DEF Cause, Word, ShownDevice
<1>8. LockHeld(mutex, busy, jobs)
  BY DEF TerminalInit, LockHeld
<1> QED
  BY <1>2, <1>3, <1>4, <1>5, <1>6, <1>7, <1>8 DEF TerminalInv

-----------------------------------------------------------------------------
(* The shapes of the loop's steps.                                         *)

\* The screen may forget that it connects only with an end of the attempt, and
\* its device only with the event that says so.
ComesAfter(new, m) ==
  /\ ScreenOK(new)
  /\ new.connecting => screen.connecting /\ m[1] \notin Ends
  /\ ~Telling(m) /\ ShownDevice(screen, airplay.device) => ShownDevice(new, airplay.device)
  /\ Telling(m) /\ Says(m) = airplay.device => ShownDevice(new, airplay.device)

LEMMA ShowsStep ==
  ASSUME TerminalInv, inbox # <<>>, NEW new, Shows(new), ComesAfter(new, Head(inbox))
  PROVE TerminalInv'
<1>1. /\ screen' = new /\ inbox' = Tail(inbox) \o <<>>
      /\ UNCHANGED <<busy, airplay, mutex, jobs, captures, radio>>
  BY DEF Shows, Replies
<1>2. inbox \in Seq(Entries) /\ Word(inbox, screen, airplay.device) /\ Cause(screen.connecting, busy, jobs, inbox)
  BY DEF TerminalInv
<1>3. Announces(<<>>, airplay.device, airplay.device) /\ <<>> \in Seq(Entries)
  BY NothingSaid DEF Announces
<1>4. inbox' \in Seq(Entries) /\ Word(inbox', new, airplay.device)
  BY <1>1, <1>2, <1>3, Consumed DEF ComesAfter
<1>5. Cause(new.connecting, busy, jobs, inbox')
  <2>1. CASE ~new.connecting
    BY <2>1 DEF Cause
  <2>2. CASE new.connecting
    <3>1. Head(inbox)[1] \notin Ends /\ screen.connecting
      BY <2>2 DEF ComesAfter
    <3>2. Cause(screen.connecting, busy, jobs, inbox')
      BY <3>1, <1>1, <1>2, <1>3, CauseConsumed
    <3> QED
      BY <3>1, <3>2 DEF Cause
  <2> QED
    BY <2>1, <2>2 DEF ComesAfter, ScreenOK, ScreenShape
<1> QED
  BY <1>1, <1>4, <1>5 DEF TerminalInv, ComesAfter

\* A handler whose action is no end and no connection event.
Aside(m) == m[1] \notin Ends /\ ~Telling(m)

LEMMA InlineStep ==
  ASSUME TerminalInv, inbox # <<>>, Aside(Head(inbox)), NEW results, Inline(results),
         \A r \in results : ResultOK(airplay, r)
  PROVE TerminalInv'
<1>1. PICK r \in results : airplay' = r.client /\ inbox' = Tail(inbox) \o r.events
  BY DEF Inline, Replies
<1>2. UNCHANGED <<screen, busy, mutex, jobs, captures, radio>>
  BY DEF Inline
<1>3. inbox \in Seq(Entries) /\ Word(inbox, screen, airplay.device) /\ Cause(screen.connecting, busy, jobs, inbox)
  BY DEF TerminalInv
<1>4. r.client \in ClientShape /\ r.events \in Seq(Entries) /\ Announces(r.events, airplay.device, r.client.device)
  BY DEF ResultOK
<1>5. inbox' \in Seq(Entries) /\ Word(inbox', screen, r.client.device)
  BY <1>1, <1>3, <1>4, Consumed DEF Aside
<1>6. Cause(screen.connecting, busy, jobs, inbox')
  BY <1>1, <1>3, <1>4, CauseConsumed DEF Aside
<1> QED
  BY <1>1, <1>2, <1>4, <1>5, <1>6 DEF TerminalInv

LEMMA SpawnsStep ==
  ASSUME TerminalInv, inbox # <<>>, Aside(Head(inbox)), NEW job \in JobShape, NEW new, Spawns(job, new),
         ScreenOK(new), new.shown = screen.shown, new.missed = screen.missed,
         new.connecting => screen.connecting \/ job.what \in Causes
  PROVE TerminalInv'
<1>1. /\ screen' = new /\ jobs' = Append(jobs, job) /\ inbox' = Tail(inbox) \o <<>>
      /\ UNCHANGED <<busy, airplay, mutex, captures, radio>>
  BY DEF Spawns, Replies
<1>2. /\ inbox \in Seq(Entries) /\ Word(inbox, screen, airplay.device) /\ jobs \in Seq(JobShape)
      /\ Cause(screen.connecting, busy, jobs, inbox) /\ LockHeld(mutex, busy, jobs)
  BY DEF TerminalInv
<1>3. Announces(<<>>, airplay.device, airplay.device) /\ <<>> \in Seq(Entries)
  BY NothingSaid DEF Announces
<1>4. inbox' \in Seq(Entries) /\ Word(inbox', new, airplay.device)
  BY <1>1, <1>2, <1>3, Consumed DEF Aside, ShownDevice
<1>5. /\ jobs' \in Seq(JobShape) /\ Len(jobs') = Len(jobs) + 1 /\ Len(jobs) \in Nat
      /\ jobs'[Len(jobs) + 1] = job /\ \A k \in 1 .. Len(jobs) : jobs'[k] = jobs[k]
  BY <1>1, <1>2, AppendProperties, LenProperties
<1>6. Cause(new.connecting, busy, jobs', inbox')
  <2>1. Cause(screen.connecting, busy, jobs, inbox')
    BY <1>1, <1>2, <1>3, CauseConsumed DEF Aside
  <2>2. Len(jobs) + 1 \in 1 .. Len(jobs')
    BY <1>5
  <2>3. \A k \in 1 .. Len(jobs) : k \in 1 .. Len(jobs')
    BY <1>5
  <2> QED
    BY <2>1, <2>2, <2>3, <1>5 DEF Cause
<1>7. LockHeld(mutex, busy, jobs')
  <2>1. \A k \in 1 .. Len(jobs) : k \in 1 .. Len(jobs')
    BY <1>5
  <2> QED
    BY <2>1, <1>2, <1>5 DEF LockHeld
<1> QED
  BY <1>1, <1>4, <1>5, <1>6, <1>7 DEF TerminalInv

-----------------------------------------------------------------------------
(* What the loop shows.                                                    *)

LEMMA EntryFields ==
  ASSUME NEW m \in Entries
  PROVE /\ m[1] \in Actions
        /\ m[1] = "Connected" => m[2] \in Rooms
        /\ m[1] = "PlaybackStateChanged" => m[2] \in PlaybackStates
        /\ m[1] = "DevicesScanned" => m[2] \in SUBSET Rooms
        /\ m[1] = "BluetoothAdapterReady" => m[2] \in BOOLEAN
<1>1. CASE \E a \in Plain : m = <<a>>
  BY <1>1 DEF Plain, Loaded
<1>2. CASE \E d \in Rooms : m = ConnectedTo(d)
  BY <1>2 DEF ConnectedTo, Actions
<1>3. CASE \E s \in PlaybackStates : m = PlaybackStateChanged(s)
  BY <1>3 DEF PlaybackStateChanged, Actions
<1>4. CASE \E found \in SUBSET Rooms : m = <<"DevicesScanned", found>>
  BY <1>4 DEF Actions
<1>5. CASE \E on \in BOOLEAN : m = <<"BluetoothAdapterReady", on>>
  BY <1>5 DEF Actions
<1> QED
  BY <1>1, <1>2, <1>3, <1>4, <1>5 DEF Entries

LEMMA Taken ==
  ASSUME TerminalInv, NEW a, Takes(a)
  PROVE /\ inbox # <<>> /\ Head(inbox)[1] = a /\ Head(inbox) \in Entries
        /\ a \notin Ends \cup {"Connected", "Disconnected"} => Aside(Head(inbox))
<1>1. inbox \in Seq(Entries) /\ inbox # <<>> /\ Head(inbox)[1] = a
  BY DEF TerminalInv, Takes
<1>2. Head(inbox) \in Entries
  BY <1>1, HeadTailProperties
<1> QED
  BY <1>1, <1>2 DEF Aside, Telling

\* A screen that differs in neither the device nor the attempt follows any
\* action beside those.
LEMMA FollowsAside ==
  ASSUME NEW new, NEW m, ScreenOK(new), Aside(m), new.connecting => screen.connecting,
         new.shown = screen.shown, new.missed = screen.missed
  PROVE ComesAfter(new, m)
BY DEF ComesAfter, Aside, ShownDevice

LEMMA Unchanged == ASSUME TerminalInv, NEW m, Aside(m) PROVE ComesAfter(screen, m)
BY DEF TerminalInv, ComesAfter, Aside

LEMMA QuitStep == TerminalInv /\ HandleQuit => TerminalInv'
<1> SUFFICES ASSUME TerminalInv, HandleQuit PROVE TerminalInv'
  OBVIOUS
<1> DEFINE new == [screen EXCEPT !.quit = TRUE]
<1>1. inbox # <<>> /\ Aside(Head(inbox)) /\ Shows(new)
  BY Taken DEF HandleQuit, Ends
<1>2. ScreenOK(new) /\ new.connecting = screen.connecting /\ new.shown = screen.shown /\ new.missed = screen.missed
  BY DEF TerminalInv, ScreenOK, ScreenShape
<1> QED
  BY <1>1, <1>2, FollowsAside, ShowsStep

LEMMA ToggleStep == TerminalInv /\ HandleToggleDeviceSelect => TerminalInv'
<1> SUFFICES ASSUME TerminalInv, HandleToggleDeviceSelect PROVE TerminalInv'
  OBVIOUS
<1>1. inbox # <<>> /\ Aside(Head(inbox))
  BY Taken DEF HandleToggleDeviceSelect, Ends
<1>2. CASE Shows(screen)
  BY <1>1, <1>2, Unchanged, ShowsStep
<1>3. ASSUME NEW d \in screen.listed,
             Shows([screen EXCEPT !.marked = IF d \in @ THEN @ \ {d} ELSE @ \cup {d}])
      PROVE TerminalInv'
  <2> DEFINE marks == IF d \in screen.marked THEN screen.marked \ {d} ELSE screen.marked \cup {d}
             new == [screen EXCEPT !.marked = marks]
  <2>1. ScreenOK(screen)
    BY DEF TerminalInv
  <2>2. marks \subseteq screen.listed /\ marks \in SUBSET Rooms
    BY <2>1 DEF ScreenOK, ScreenShape
  <2> HIDE DEF marks
  <2>3. ScreenOK(new) /\ new.connecting = screen.connecting /\ new.shown = screen.shown /\ new.missed = screen.missed
    BY <2>1, <2>2 DEF ScreenOK, ScreenShape
  <2>4. Shows(new)
    BY <1>3 DEF marks
  <2> QED
    BY <1>1, <2>3, <2>4, FollowsAside, ShowsStep
<1> QED
  BY <1>2, <1>3 DEF HandleToggleDeviceSelect

LEMMA ScannedStep == TerminalInv /\ HandleDevicesScanned => TerminalInv'
<1> SUFFICES ASSUME TerminalInv, HandleDevicesScanned PROVE TerminalInv'
  OBVIOUS
<1> DEFINE found == Head(inbox)[2]
           new == [screen EXCEPT !.scanning = FALSE, !.listed = found, !.marked = {},
                                 !.linked = found \cap {screen.shown}]
<1>1. inbox # <<>> /\ Aside(Head(inbox)) /\ Shows(new) /\ found \in SUBSET Rooms
  BY Taken, EntryFields DEF HandleDevicesScanned, Ends
<1> HIDE DEF found
<1>2. ScreenOK(new) /\ new.connecting = screen.connecting /\ new.shown = screen.shown /\ new.missed = screen.missed
  BY <1>1 DEF TerminalInv, ScreenOK, ScreenShape
<1> QED
  BY <1>1, <1>2, FollowsAside, ShowsStep

LEMMA ConnectedStep == TerminalInv /\ HandleConnected => TerminalInv'
<1> SUFFICES ASSUME TerminalInv, HandleConnected PROVE TerminalInv'
  OBVIOUS
<1> DEFINE d == Head(inbox)[2]
           new == [screen EXCEPT !.connecting = FALSE, !.shown = d, !.missed = FALSE,
                                 !.linked = screen.listed \cap {d}]
<1>1. inbox # <<>> /\ Head(inbox)[1] = "Connected" /\ Shows(new) /\ d \in Rooms
  BY Taken, EntryFields DEF HandleConnected
<1>2. Says(Head(inbox)) = d /\ Telling(Head(inbox))
  BY <1>1 DEF Says, Telling
<1> HIDE DEF d
<1>3. ScreenOK(new) /\ new.connecting = FALSE /\ new.shown = d /\ new.missed = FALSE
  BY <1>1 DEF TerminalInv, ScreenOK, ScreenShape, DeviceChoices
<1> HIDE DEF new
<1>4. ComesAfter(new, Head(inbox))
  BY <1>2, <1>3 DEF ComesAfter, ShownDevice
<1> QED
  BY <1>1, <1>4, ShowsStep

LEMMA DisconnectedStep == TerminalInv /\ HandleDisconnected => TerminalInv'
<1> SUFFICES ASSUME TerminalInv, HandleDisconnected PROVE TerminalInv'
  OBVIOUS
<1> DEFINE later == [screen EXCEPT !.missed = TRUE]
           new == [screen EXCEPT !.shown = Nobody, !.playback = "Stopped", !.grouped = FALSE,
                                 !.linked = {}, !.marked = {}, !.missed = FALSE]
<1>1. inbox # <<>> /\ Head(inbox)[1] = "Disconnected" /\ Shows(IF screen.connecting THEN later ELSE new)
  BY Taken DEF HandleDisconnected
<1>2. Says(Head(inbox)) = Nobody /\ Telling(Head(inbox)) /\ Head(inbox)[1] \notin Ends
  BY <1>1 DEF Says, Telling, Ends
<1>3. ScreenOK(new) /\ new.connecting = screen.connecting /\ new.shown = Nobody
  BY DEF TerminalInv, ScreenOK, ScreenShape, DeviceChoices, PlaybackStates
<1>4. ScreenOK(later) /\ later.connecting = screen.connecting /\ later.missed = TRUE
  BY DEF TerminalInv, ScreenOK, ScreenShape
<1> HIDE DEF new, later
<1>5. ComesAfter(new, Head(inbox)) /\ ComesAfter(later, Head(inbox))
  BY <1>2, <1>3, <1>4 DEF ComesAfter, ShownDevice
<1> QED
  BY <1>1, <1>5, ShowsStep

LEMMA ErrorStep == TerminalInv /\ HandleShowError => TerminalInv'
<1> SUFFICES ASSUME TerminalInv, HandleShowError PROVE TerminalInv'
  OBVIOUS
<1> DEFINE new == [screen EXCEPT !.connecting = FALSE]
<1>1. inbox # <<>> /\ Head(inbox)[1] = "ShowError" /\ Shows(new)
  BY Taken DEF HandleShowError, ShowError
<1>2. ScreenOK(new) /\ new.connecting = FALSE /\ new.shown = screen.shown /\ new.missed = screen.missed
  BY DEF TerminalInv, ScreenOK, ScreenShape
<1>3. ~Telling(Head(inbox))
  BY <1>1 DEF Telling
<1>4. ComesAfter(new, Head(inbox))
  BY <1>2, <1>3 DEF ComesAfter, ShownDevice
<1> QED
  BY <1>1, <1>4, ShowsStep

LEMMA GroupChangedStep == TerminalInv /\ HandleGroupChanged => TerminalInv'
<1> SUFFICES ASSUME TerminalInv, HandleGroupChanged PROVE TerminalInv'
  OBVIOUS
<1> DEFINE new == [screen EXCEPT !.grouped = airplay.group # {}]
<1>1. inbox # <<>> /\ Aside(Head(inbox)) /\ Shows(new)
  BY Taken DEF HandleGroupChanged, Ends
<1>2. ScreenOK(new) /\ new.connecting = screen.connecting /\ new.shown = screen.shown /\ new.missed = screen.missed
  BY DEF TerminalInv, ScreenOK, ScreenShape
<1> QED
  BY <1>1, <1>2, FollowsAside, ShowsStep

LEMMA GroupConnectedStep == TerminalInv /\ HandleGroupConnected => TerminalInv'
<1> SUFFICES ASSUME TerminalInv, HandleGroupConnected PROVE TerminalInv'
  OBVIOUS
<1> DEFINE known == airplay.device # Nobody
           shown == IF known THEN airplay.device ELSE screen.shown
           missed == screen.missed /\ ~known
           linked == screen.linked \cup (airplay.group \cap screen.listed)
           new == [screen EXCEPT !.connecting = FALSE, !.grouped = airplay.group # {},
                                 !.shown = shown, !.missed = missed, !.linked = linked]
<1>1. inbox # <<>> /\ Head(inbox)[1] = "GroupConnected" /\ Shows(new)
  BY Taken DEF HandleGroupConnected
<1>2. /\ shown \in DeviceChoices /\ missed \in BOOLEAN /\ linked \in SUBSET Rooms /\ linked \subseteq screen.listed
      /\ ShownDevice(screen, airplay.device) => missed \/ shown = airplay.device
  BY DEF TerminalInv, ScreenOK, ScreenShape, ClientShape, ShownDevice
<1> HIDE DEF shown, missed, linked
<1>3. ScreenOK(new) /\ new.connecting = FALSE /\ new.shown = shown /\ new.missed = missed
  BY <1>2, ZenonT(30) DEF TerminalInv, ScreenOK, ScreenShape
<1>4. ~Telling(Head(inbox))
  BY <1>1 DEF Telling
<1>5. ComesAfter(new, Head(inbox))
  BY <1>2, <1>3, <1>4 DEF ComesAfter, ShownDevice
<1> QED
  BY <1>1, <1>5, ShowsStep

LEMMA PlaybackShownStep == TerminalInv /\ HandlePlaybackStateChanged => TerminalInv'
<1> SUFFICES ASSUME TerminalInv, HandlePlaybackStateChanged PROVE TerminalInv'
  OBVIOUS
<1> DEFINE new == [screen EXCEPT !.playback = Head(inbox)[2]]
<1>1. inbox # <<>> /\ Aside(Head(inbox)) /\ Shows(new) /\ Head(inbox)[2] \in PlaybackStates
  BY Taken, EntryFields DEF HandlePlaybackStateChanged, Ends
<1>2. ScreenOK(new) /\ new.connecting = screen.connecting /\ new.shown = screen.shown /\ new.missed = screen.missed
  BY <1>1 DEF TerminalInv, ScreenOK, ScreenShape
<1> QED
  BY <1>1, <1>2, FollowsAside, ShowsStep

LEMMA StartedShownStep == TerminalInv /\ HandlePlaybackStarted => TerminalInv'
<1> SUFFICES ASSUME TerminalInv, HandlePlaybackStarted PROVE TerminalInv'
  OBVIOUS
<1>1. inbox # <<>> /\ Aside(Head(inbox)) /\ Shows(screen)
  BY Taken DEF HandlePlaybackStarted, Ends
<1> QED
  BY <1>1, Unchanged, ShowsStep

LEMMA BluetoothGoneStep == TerminalInv /\ HandleBluetoothDisconnected => TerminalInv'
<1> SUFFICES ASSUME TerminalInv, HandleBluetoothDisconnected PROVE TerminalInv'
  OBVIOUS
<1> DEFINE new == [screen EXCEPT !.peer = FALSE, !.active = @ \ {"bt"}]
<1>1. inbox # <<>> /\ Aside(Head(inbox)) /\ Shows(new)
  BY Taken DEF HandleBluetoothDisconnected, Ends
<1>2. ScreenOK(new) /\ new.connecting = screen.connecting /\ new.shown = screen.shown /\ new.missed = screen.missed
  BY DEF TerminalInv, ScreenOK, ScreenShape
<1> QED
  BY <1>1, <1>2, FollowsAside, ShowsStep

LEMMA BluetoothReportStep == TerminalInv /\ HandleBluetoothReport => TerminalInv'
<1> SUFFICES ASSUME TerminalInv, HandleBluetoothReport PROVE TerminalInv'
  OBVIOUS
<1> DEFINE p(on) == [screen EXCEPT !.powered = on]
           q == [screen EXCEPT !.searching = FALSE]
           r == [screen EXCEPT !.peer = TRUE]
<1>1. /\ inbox # <<>> /\ Aside(Head(inbox))
      /\ \/ Head(inbox)[2] \in BOOLEAN /\ Shows(p(Head(inbox)[2]))
         \/ Shows(q) \/ Shows(r)
  BY Taken, EntryFields DEF HandleBluetoothReport, Ends
<1>2. ASSUME NEW on \in BOOLEAN
      PROVE ScreenOK(p(on)) /\ p(on).connecting = screen.connecting /\ p(on).shown = screen.shown /\ p(on).missed = screen.missed
  BY DEF TerminalInv, ScreenOK, ScreenShape
<1>3. ScreenOK(q) /\ q.connecting = screen.connecting /\ q.shown = screen.shown /\ q.missed = screen.missed
  BY DEF TerminalInv, ScreenOK, ScreenShape
<1>4. ScreenOK(r) /\ r.connecting = screen.connecting /\ r.shown = screen.shown /\ r.missed = screen.missed
  BY DEF TerminalInv, ScreenOK, ScreenShape
<1> HIDE DEF p, q, r
<1> QED
  BY <1>1, <1>2, <1>3, <1>4, FollowsAside, ShowsStep

-----------------------------------------------------------------------------
(* What the loop asks of the client, and what it spawns.                   *)

LEMMA PlayPauseStep == TerminalInv /\ HandlePlayPause => TerminalInv'
<1> SUFFICES ASSUME TerminalInv, HandlePlayPause PROVE TerminalInv'
  OBVIOUS
<1>1. inbox # <<>> /\ Aside(Head(inbox)) /\ airplay \in ClientShape
  BY Taken DEF HandlePlayPause, Ends, TerminalInv
<1>2. \A s \in PlaybackStates : \A r \in PlaybackTurns(airplay, s) : ResultOK(airplay, r)
  BY <1>1, PlaybackOK
<1>3. CASE Shows(screen)
  BY <1>1, <1>3, Unchanged, ShowsStep
<1>4. ASSUME NEW s \in PlaybackStates, Inline(PlaybackTurns(airplay, s)) PROVE TerminalInv'
  BY <1>1, <1>2, <1>4, InlineStep
<1> QED
  BY <1>3, <1>4 DEF HandlePlayPause, PlaybackStates

LEMMA StopStep == TerminalInv /\ HandleStop => TerminalInv'
<1> SUFFICES ASSUME TerminalInv, HandleStop PROVE TerminalInv'
  OBVIOUS
<1>1. inbox # <<>> /\ Aside(Head(inbox)) /\ airplay \in ClientShape
  BY Taken DEF HandleStop, Ends, TerminalInv
<1>2. \A r \in PlaybackTurns(airplay, "Stopped") : ResultOK(airplay, r)
  BY <1>1, PlaybackOK DEF PlaybackStates
<1> QED
  BY <1>1, <1>2, InlineStep DEF HandleStop

LEMMA SeekOrVolumeStep == TerminalInv /\ HandleSeekOrVolume => TerminalInv'
<1> SUFFICES ASSUME TerminalInv, HandleSeekOrVolume PROVE TerminalInv'
  OBVIOUS
<1> DEFINE results == {[client |-> airplay, events |-> <<>>]}
<1>1. inbox # <<>> /\ Aside(Head(inbox)) /\ airplay \in ClientShape /\ Inline(results)
  BY Taken DEF HandleSeekOrVolume, Ends, TerminalInv
<1>2. ASSUME NEW r \in results PROVE ResultOK(airplay, r)
  <2>1. r.client = airplay /\ r.events = <<>>
    BY <1>2
  <2>2. Announces(<<>>, airplay.device, airplay.device)
    BY NothingSaid DEF Announces
  <2> QED
    BY <2>1, <2>2, <1>1, NothingSaid DEF ResultOK
<1> HIDE DEF results
<1> QED
  BY <1>1, <1>2, InlineStep

LEMMA SelectFileStep == TerminalInv /\ HandleSelectFile => TerminalInv'
<1> SUFFICES ASSUME TerminalInv, HandleSelectFile PROVE TerminalInv'
  OBVIOUS
<1> DEFINE job == [what |-> "play", at |-> "waiting", asked |-> {}]
<1>1. inbox # <<>> /\ Aside(Head(inbox)) /\ ScreenOK(screen)
  BY Taken DEF HandleSelectFile, Ends, TerminalInv
<1>2. CASE Shows(screen)
  BY <1>1, <1>2, Unchanged, ShowsStep
<1>3. CASE Spawns(job, screen)
  <2>1. job \in JobShape
    BY DEF JobShape
  <2> HIDE DEF job
  <2> QED
    BY <1>1, <1>3, <2>1, SpawnsStep
<1> QED
  BY <1>2, <1>3 DEF HandleSelectFile

\* A command of the system, spawned from a screen that tells nothing else.
LEMMA HelperStep ==
  ASSUME TerminalInv, inbox # <<>>, Aside(Head(inbox)), NEW e \in Errands, NEW new, Spawns(Helper(e), new),
         ScreenOK(new), new.shown = screen.shown, new.missed = screen.missed, new.connecting = screen.connecting
  PROVE TerminalInv'
<1>1. Helper(e) \in JobShape
  BY DEF Helper, JobShape
<1> QED
  BY <1>1, SpawnsStep

LEMMA BluetoothJobsStep ==
  TerminalInv /\ (HandleBluetoothInitAdapter \/ HandleBluetoothAutoInstall \/ HandleBluetoothTogglePower
                    \/ HandleBluetoothScan \/ HandleBluetoothPair \/ HandleBluetoothConnect)
    => TerminalInv'
<1> SUFFICES ASSUME TerminalInv,
                    HandleBluetoothInitAdapter \/ HandleBluetoothAutoInstall \/ HandleBluetoothTogglePower
                      \/ HandleBluetoothScan \/ HandleBluetoothPair \/ HandleBluetoothConnect
             PROVE TerminalInv'
  OBVIOUS
<1> DEFINE new == [screen EXCEPT !.searching = TRUE]
<1>4. \E a \in {"BluetoothInitAdapter", "BluetoothAutoInstall", "BluetoothTogglePower", "BluetoothScan",
              "BluetoothPair", "BluetoothConnect"} : Takes(a)
  BY DEF HandleBluetoothInitAdapter, HandleBluetoothAutoInstall, HandleBluetoothTogglePower,
    HandleBluetoothScan, HandleBluetoothPair, HandleBluetoothConnect
<1>1. inbox # <<>> /\ Aside(Head(inbox)) /\ ScreenOK(screen)
  BY <1>4, Taken DEF Ends, TerminalInv
<1>2. ScreenOK(new) /\ new.connecting = screen.connecting /\ new.shown = screen.shown /\ new.missed = screen.missed
  BY <1>1 DEF ScreenOK, ScreenShape
<1>3. \E e \in Errands : Spawns(Helper(e), screen) \/ Spawns(Helper(e), new)
  BY DEF HandleBluetoothInitAdapter, HandleBluetoothAutoInstall, HandleBluetoothTogglePower,
    HandleBluetoothScan, HandleBluetoothPair, HandleBluetoothConnect, Errands
<1> HIDE DEF new
<1> QED
  BY <1>1, <1>2, <1>3, HelperStep

\* A handler that answers with events beside the connection and leaves jobs
\* and lock alone.
LEMMA AnswersStep ==
  ASSUME TerminalInv, inbox # <<>>, Aside(Head(inbox)), busy.at = "select",
         NEW e \in Seq(Entries), Silent(e), Replies(e),
         ScreenOK(screen)', screen'.shown = screen.shown, screen'.missed = screen.missed,
         screen'.connecting = screen.connecting, airplay' \in ClientShape,
         airplay'.device = airplay.device, radio' = radio, jobs' = jobs, mutex' = mutex,
         CaptureOK(captures)', BusyOK(busy, captures)', ThreadsKept(busy, captures)'
  PROVE TerminalInv'
<1>1. /\ inbox \in Seq(Entries) /\ Word(inbox, screen, airplay.device) /\ jobs \in Seq(JobShape)
      /\ Cause(screen.connecting, busy, jobs, inbox) /\ LockHeld(mutex, busy, jobs)
  BY DEF TerminalInv
<1>2. Announces(e, airplay.device, airplay.device)
  BY DEF Announces
<1>3. ShownDevice(screen, airplay.device) => ShownDevice(screen', airplay.device)
  BY DEF ShownDevice
<1>4. inbox' \in Seq(Entries) /\ Word(inbox', screen', airplay.device)
  BY <1>1, <1>2, <1>3, Consumed DEF Aside, Replies
<1>5. Cause(screen.connecting, busy, jobs, inbox')
  BY <1>1, CauseConsumed DEF Aside, Replies
<1>6. Cause(screen'.connecting, busy', jobs', inbox')
  BY <1>5 DEF Cause
<1>7. LockHeld(mutex', busy', jobs')
  BY <1>1 DEF LockHeld
<1> QED
  BY <1>1, <1>4, <1>6, <1>7 DEF TerminalInv

-----------------------------------------------------------------------------
(* The handlers with an answer or a state of their own.                    *)

LEMMA PlainSaid ==
  ASSUME NEW a \in Plain, a # "Disconnected"
  PROVE <<<<a>>>> \in Seq(Entries) /\ Silent(<<<<a>>>>)
<1>1. <<a>> \in Entries /\ ~Telling(<<a>>)
  BY PlainEntries DEF Plain, Loaded, Telling
<1> QED
  BY <1>1, OneSaid

LEMMA ScanStep == TerminalInv /\ HandleScanDevices => TerminalInv'
<1> SUFFICES ASSUME TerminalInv, HandleScanDevices PROVE TerminalInv'
  OBVIOUS
<1> DEFINE found(d) == <<"DevicesScanned", d>>
<1>1. inbox # <<>> /\ Aside(Head(inbox)) /\ busy.at = "select"
  BY Taken DEF HandleScanDevices, Ends, Takes
<1>2. /\ screen' = [screen EXCEPT !.scanning = TRUE]
      /\ UNCHANGED <<busy, airplay, mutex, jobs, captures, radio>>
  BY DEF HandleScanDevices
<1>3. /\ ScreenOK(screen)' /\ screen'.shown = screen.shown /\ screen'.missed = screen.missed
      /\ screen'.connecting = screen.connecting
  BY <1>2 DEF TerminalInv, ScreenOK, ScreenShape
<1>4. \A d \in SUBSET Rooms : found(d) \in Entries /\ ~Telling(found(d))
  BY DEF Entries, Telling
<1>5. <<"ShowError">> \in Entries /\ ~Telling(<<"ShowError">>)
  BY PlainEntries DEF Plain, Actions, Loaded, Telling
<1>6. /\ <<found(Rooms)>> \in Seq(Entries) /\ Silent(<<found(Rooms)>>)
      /\ <<found({}), <<"ShowError">>>> \in Seq(Entries) /\ Silent(<<found({}), <<"ShowError">>>>)
  BY <1>4, <1>5, OneSaid, TwoSaid
<1>7. PICK e \in {<<found(Rooms)>>, <<found({}), <<"ShowError">>>>} : Replies(e)
  BY DEF HandleScanDevices
<1>8. e \in Seq(Entries) /\ Silent(e)
  BY <1>6, <1>7
<1>9. CaptureOK(captures)' /\ BusyOK(busy, captures)' /\ ThreadsKept(busy, captures)'
  BY <1>2 DEF TerminalInv
<1>10. airplay' \in ClientShape
  BY <1>2 DEF TerminalInv
<1> QED
  BY <1>1, <1>2, <1>3, <1>7, <1>8, <1>9, <1>10, AnswersStep

LEMMA SelectDeviceStep == TerminalInv /\ HandleSelectDevice => TerminalInv'
<1> SUFFICES ASSUME TerminalInv, HandleSelectDevice PROVE TerminalInv'
  OBVIOUS
<1> DEFINE job == [what |-> "group", at |-> "waiting", asked |-> screen.marked]
           new == [screen EXCEPT !.connecting = TRUE]
<1>1. inbox # <<>> /\ Aside(Head(inbox)) /\ busy.at = "select"
  BY Taken DEF HandleSelectDevice, Ends, Takes
<1>2. ScreenOK(new) /\ new.connecting = TRUE /\ new.shown = screen.shown /\ new.missed = screen.missed
  BY DEF TerminalInv, ScreenOK, ScreenShape
<1>3. job \in JobShape /\ job.what \in Causes
  BY DEF TerminalInv, ScreenOK, ScreenShape, JobShape, Causes
<1>4. CASE Spawns(job, new)
  <2> HIDE DEF job, new
  <2> QED
    BY <1>1, <1>2, <1>3, <1>4, SpawnsStep
<1>5. CASE Shows(screen)
  BY <1>1, <1>5, Unchanged, ShowsStep
<1>6. ASSUME screen' = new, NEW d \in screen.listed, busy' = [at |-> "connectWait", arg |-> d], Replies(<<>>),
             UNCHANGED <<airplay, mutex, jobs, captures, radio>>
      PROVE TerminalInv'
  <2>1. /\ inbox \in Seq(Entries) /\ Word(inbox, screen, airplay.device) /\ d \in Rooms
        /\ LockHeld(mutex, busy, jobs) /\ ThreadsKept(busy, captures)
    BY DEF TerminalInv, ScreenOK, ScreenShape
  <2>2. Announces(<<>>, airplay.device, airplay.device) /\ <<>> \in Seq(Entries)
    BY NothingSaid DEF Announces
  <2> HIDE DEF new
  <2>3. inbox' \in Seq(Entries) /\ Word(inbox', new, airplay.device)
    BY <1>1, <1>2, <1>6, <2>1, <2>2, Consumed DEF Aside, Replies, ShownDevice
  <2>4. Cause(new.connecting, busy', jobs, inbox') /\ BusyOK(busy', captures)
    BY <1>6, <2>1 DEF Cause, BusyOK
  <2>5. ThreadsKept(busy', captures)
    BY <1>1, <1>6, <2>1 DEF ThreadsKept
  <2>6. LockHeld(mutex, busy', jobs)
    BY <1>1, <2>1 DEF LockHeld
  <2> QED
    BY <1>2, <1>6, <2>3, <2>4, <2>5, <2>6 DEF TerminalInv
<1> QED
  BY <1>4, <1>5, <1>6 DEF HandleSelectDevice

LEMMA DisbandStep == TerminalInv /\ HandleDisbandGroup => TerminalInv'
<1> SUFFICES ASSUME TerminalInv, HandleDisbandGroup PROVE TerminalInv'
  OBVIOUS
<1>1. inbox # <<>> /\ Aside(Head(inbox)) /\ busy.at = "select"
  BY Taken DEF HandleDisbandGroup, Ends, Takes
<1>2. /\ screen' = [screen EXCEPT !.grouped = FALSE] /\ airplay' = [airplay EXCEPT !.group = {}]
      /\ Replies(<<<<"GroupChanged">>>>) /\ UNCHANGED <<busy, mutex, jobs, captures, radio>>
  BY DEF HandleDisbandGroup
<1>3. /\ ScreenOK(screen)' /\ screen'.shown = screen.shown /\ screen'.missed = screen.missed
      /\ screen'.connecting = screen.connecting
  BY <1>2 DEF TerminalInv, ScreenOK, ScreenShape
<1>4. airplay' \in ClientShape /\ airplay'.device = airplay.device
  BY <1>2 DEF TerminalInv, ClientShape
<1>5. <<<<"GroupChanged">>>> \in Seq(Entries) /\ Silent(<<<<"GroupChanged">>>>)
  BY PlainSaid DEF Plain, Actions, Loaded
<1>6. CaptureOK(captures)' /\ BusyOK(busy, captures)' /\ ThreadsKept(busy, captures)'
  BY <1>2 DEF TerminalInv
<1> QED
  BY <1>1, <1>2, <1>3, <1>4, <1>5, <1>6, AnswersStep

LEMMA CheckSetupStep == TerminalInv /\ HandleBluetoothCheckSetup => TerminalInv'
<1> SUFFICES ASSUME TerminalInv, HandleBluetoothCheckSetup PROVE TerminalInv'
  OBVIOUS
<1>1. inbox # <<>> /\ Aside(Head(inbox)) /\ busy.at = "select"
  BY Taken DEF HandleBluetoothCheckSetup, Ends, Takes
<1>2. /\ screen' = [screen EXCEPT !.checked = TRUE]
      /\ UNCHANGED <<busy, airplay, mutex, jobs, captures, radio>>
  BY DEF HandleBluetoothCheckSetup
<1>3. /\ ScreenOK(screen)' /\ screen'.shown = screen.shown /\ screen'.missed = screen.missed
      /\ screen'.connecting = screen.connecting
  BY <1>2 DEF TerminalInv, ScreenOK, ScreenShape
<1>4. <<<<"BluetoothInitAdapter">>>> \in Seq(Entries) /\ Silent(<<<<"BluetoothInitAdapter">>>>)
  BY PlainSaid DEF Plain, Actions, Loaded
<1>5. PICK e \in {<<>>, <<<<"BluetoothInitAdapter">>>>} : Replies(e)
  BY DEF HandleBluetoothCheckSetup
<1>6. e \in Seq(Entries) /\ Silent(e)
  BY <1>4, <1>5, NothingSaid
<1>7. CaptureOK(captures)' /\ BusyOK(busy, captures)' /\ ThreadsKept(busy, captures)' /\ airplay' \in ClientShape
  BY <1>2 DEF TerminalInv
<1> QED
  BY <1>1, <1>2, <1>3, <1>5, <1>6, <1>7, AnswersStep

LEMMA BluetoothDisconnectStep == TerminalInv /\ HandleBluetoothDisconnect => TerminalInv'
<1> SUFFICES ASSUME TerminalInv, HandleBluetoothDisconnect PROVE TerminalInv'
  OBVIOUS
<1>1. inbox # <<>> /\ Aside(Head(inbox)) /\ busy.at = "select"
  BY Taken DEF HandleBluetoothDisconnect, Ends, Takes
<1>2. CASE Spawns(Helper("disconnect"), screen)
  <2>1. ScreenOK(screen) /\ "disconnect" \in Errands
    BY DEF TerminalInv, Errands
  <2> QED
    BY <1>1, <1>2, <2>1, HelperStep
<1>3. CASE /\ Replies(<<<<"BluetoothDisconnected">>>>)
           /\ UNCHANGED <<screen, busy, airplay, mutex, jobs, captures, radio>>
  <2>1. <<<<"BluetoothDisconnected">>>> \in Seq(Entries) /\ Silent(<<<<"BluetoothDisconnected">>>>)
    BY PlainSaid DEF Plain, Actions, Loaded
  <2>2. /\ ScreenOK(screen)' /\ CaptureOK(captures)' /\ BusyOK(busy, captures)' /\ ThreadsKept(busy, captures)'
        /\ airplay' \in ClientShape
    BY <1>3 DEF TerminalInv
  <2> QED
    BY <1>1, <1>3, <2>1, <2>2, AnswersStep
<1> QED
  BY <1>2, <1>3 DEF HandleBluetoothDisconnect

LEMMA TickStep == TerminalInv /\ HandleTick => TerminalInv'
<1> SUFFICES ASSUME TerminalInv, HandleTick PROVE TerminalInv'
  OBVIOUS
<1> DEFINE over == {i \in screen.active : /\ <<i, captures.held[i]>> \in captures.told
                                          /\ <<i, captures.held[i]>> \notin captures.running}
           played == IF mutex = "free" THEN airplay.playback ELSE screen.playback
           left == screen.active \ over
           new == [screen EXCEPT !.active = left, !.playback = played]
           held == [i \in Inputs |-> IF i \in over THEN Nobody ELSE captures.held[i]]
<1>1. inbox # <<>> /\ Aside(Head(inbox)) /\ busy.at = "select"
  BY Taken DEF HandleTick, Ends, Takes
<1>2. /\ screen' = new /\ captures' = [captures EXCEPT !.held = held] /\ Replies(<<>>)
      /\ UNCHANGED <<busy, airplay, mutex, jobs, radio>>
  BY DEF HandleTick
<1>3. /\ ScreenOK(screen) /\ airplay \in ClientShape /\ CaptureOK(captures) /\ BusyOK(busy, captures)
      /\ ThreadsKept(busy, captures)
  BY DEF TerminalInv
<1>4. played \in PlaybackStates /\ left \in SUBSET Inputs
  BY <1>3 DEF ScreenOK, ScreenShape, ClientShape
<1>5. held = captures.held
  <2>1. \A i \in Inputs : i \notin over
    BY <1>1, <1>3 DEF ThreadsKept, Held
  <2> QED
    BY <2>1, <1>3 DEF CaptureOK
<1> HIDE DEF played, left, held
<1>6. captures' = captures
  BY <1>2, <1>3, <1>5 DEF CaptureOK
<1>7. /\ ScreenOK(new) /\ new.shown = screen.shown /\ new.missed = screen.missed
      /\ new.connecting = screen.connecting
  BY <1>3, <1>4 DEF ScreenOK, ScreenShape
<1>8. CaptureOK(captures)' /\ BusyOK(busy, captures)' /\ ThreadsKept(busy, captures)'
  BY <1>2, <1>3, <1>6
<1> QED
  BY <1>1, <1>2, <1>3, <1>7, <1>8, NothingSaid, AnswersStep

-----------------------------------------------------------------------------
(* Connecting one device.                                                  *)

\* The end of an attempt that failed.
LEMMA AttemptOver ==
  ASSUME TerminalInv, busy.at \in {"connectWait", "connecting"}, ConnectOver(FALSE),
         inbox' \in Seq(Entries), airplay' \in ClientShape, Word(inbox', screen, airplay'.device),
         LockHeld(mutex', [at |-> "select"], jobs), UNCHANGED <<jobs, captures, radio>>
  PROVE TerminalInv'
<1> DEFINE new == [screen EXCEPT !.connecting = FALSE]
<1>1. screen' = new /\ busy' = [at |-> "select", arg |-> Nobody]
  BY DEF ConnectOver
<1>2. ScreenOK(new) /\ new.connecting = FALSE /\ new.shown = screen.shown /\ new.missed = screen.missed
  BY DEF TerminalInv, ScreenOK, ScreenShape
<1> HIDE DEF new
<1>3. Word(inbox', new, airplay'.device)
  BY <1>2 DEF Word, ShownDevice
<1>4. Cause(new.connecting, busy', jobs', inbox')
  BY <1>2 DEF Cause
<1>5. BusyOK(busy', captures') /\ ThreadsKept(busy', captures')
  BY <1>1 DEF BusyOK, ThreadsKept, TerminalInv
<1>6. LockHeld(mutex', busy', jobs')
  BY <1>1 DEF LockHeld
<1> QED
  BY <1>1, <1>2, <1>3, <1>4, <1>5, <1>6 DEF TerminalInv

LEMMA BeginsStep == TerminalInv /\ ConnectBegins => TerminalInv'
<1> SUFFICES ASSUME TerminalInv, ConnectBegins PROVE TerminalInv'
  OBVIOUS
<1>1. PICK r \in ConnectStarts(airplay) :
        /\ airplay' = r.client /\ inbox' = inbox \o r.events
        /\ IF r.ok
           THEN /\ mutex' = "loop" /\ busy' = [busy EXCEPT !.at = "connecting"]
                /\ UNCHANGED screen
           ELSE UNCHANGED mutex /\ ConnectOver(FALSE)
  BY DEF ConnectBegins
<1>2. busy.at = "connectWait" /\ mutex = "free" /\ UNCHANGED <<jobs, captures, radio>>
  BY DEF ConnectBegins
<1>3. /\ inbox \in Seq(Entries) /\ Word(inbox, screen, airplay.device) /\ airplay \in ClientShape
      /\ BusyOK(busy, captures) /\ ThreadsKept(busy, captures) /\ ScreenOK(screen)
  BY DEF TerminalInv
<1>4. ResultOK(airplay, r)
  BY <1>3, ConnectStartsOK
<1>5. inbox' \in Seq(Entries) /\ Word(inbox', screen, airplay'.device) /\ airplay' \in ClientShape
  BY <1>1, <1>3, <1>4, Added DEF ResultOK
<1>6. CASE r.ok
  <2>1. busy'.at = "connecting" /\ busy'.arg = busy.arg /\ busy' = [at |-> "connecting", arg |-> busy.arg]
    BY <1>1, <1>3, <1>6 DEF BusyOK
  <2>2. BusyOK(busy', captures) /\ ThreadsKept(busy', captures)
    BY <2>1, <1>2, <1>3 DEF BusyOK, ThreadsKept
  <2>3. Cause(screen.connecting, busy', jobs, inbox') /\ LockHeld(mutex', busy', jobs)
    BY <2>1, <1>1, <1>6 DEF Cause, LockHeld
  <2> QED
    BY <1>1, <1>2, <1>5, <1>6, <2>2, <2>3 DEF TerminalInv
<1>7. CASE ~r.ok
  <2>1. mutex' = "free" /\ ConnectOver(FALSE)
    BY <1>1, <1>2, <1>7
  <2>2. LockHeld(mutex', [at |-> "select"], jobs)
    BY <2>1 DEF LockHeld
  <2> QED
    BY <1>2, <1>5, <2>1, <2>2, AttemptOver
<1> QED
  BY <1>6, <1>7

LEMMA ConnectFailsStep == TerminalInv /\ ConnectFails => TerminalInv'
<1> SUFFICES ASSUME TerminalInv, ConnectFails PROVE TerminalInv'
  OBVIOUS
<1>1. busy.at \in {"connectWait", "connecting"} /\ ConnectOver(FALSE) /\ UNCHANGED <<inbox, airplay, jobs, captures, radio>>
  BY DEF ConnectFails
<1>2. inbox' \in Seq(Entries) /\ airplay' \in ClientShape /\ Word(inbox', screen, airplay'.device)
  BY <1>1 DEF TerminalInv
<1>3. mutex' = "free" \/ (mutex' = "job" /\ mutex = "job")
  BY DEF ConnectFails
<1>4. LockHeld(mutex', [at |-> "select"], jobs)
  BY <1>3 DEF TerminalInv, LockHeld
<1> QED
  BY <1>1, <1>2, <1>4, AttemptOver

LEMMA EndsStep == TerminalInv /\ ConnectEnds => TerminalInv'
<1> SUFFICES ASSUME TerminalInv, ConnectEnds PROVE TerminalInv'
  OBVIOUS
<1> DEFINE d == busy.arg
           m == ConnectedTo(d)
<1>1. /\ busy.at = "connecting" /\ airplay' = [airplay EXCEPT !.device = d]
      /\ inbox' = Append(inbox, m) /\ mutex' = "free" /\ screen' = screen
      /\ busy' = [at |-> "select", arg |-> Nobody] /\ UNCHANGED <<jobs, captures, radio>>
  BY DEF ConnectEnds, ConnectOver
<1>2. /\ inbox \in Seq(Entries) /\ Word(inbox, screen, airplay.device) /\ airplay \in ClientShape
      /\ BusyOK(busy, captures) /\ ThreadsKept(busy, captures) /\ d \in Rooms
  BY <1>1 DEF TerminalInv, BusyOK
<1>3. m \in Entries /\ Telling(m) /\ Says(m) = d /\ m[1] \in Ends
  BY <1>2, PlainEntries DEF Telling, Says, ConnectedTo, Ends
<1> HIDE DEF d, m
<1>4. <<m>> \in Seq(Entries) /\ Announces(<<m>>, airplay.device, d)
  BY <1>3, OneSaid DEF Announces
<1>5. /\ inbox' = inbox \o <<m>> /\ Len(inbox') = Len(inbox) + 1 /\ inbox'[Len(inbox) + 1] = m /\ Len(inbox) \in Nat
  BY <1>1, <1>2, <1>3, AppendProperties, LenProperties
<1>6. airplay' \in ClientShape /\ airplay'.device = d
  BY <1>1, <1>2 DEF ClientShape, DeviceChoices
<1>7. inbox' \in Seq(Entries) /\ Word(inbox', screen, airplay'.device)
  BY <1>2, <1>4, <1>5, <1>6, Added
<1>8. Cause(screen.connecting, busy', jobs, inbox')
  <2>1. Len(inbox) + 1 \in 1 .. Len(inbox')
    BY <1>5
  <2> QED
    BY <2>1, <1>3, <1>5 DEF Cause
<1>9. BusyOK(busy', captures) /\ ThreadsKept(busy', captures)
  BY <1>1, <1>2 DEF BusyOK, ThreadsKept
<1>10. LockHeld(mutex', busy', jobs)
  BY <1>1 DEF LockHeld
<1> QED
  BY <1>1, <1>6, <1>7, <1>8, <1>9, <1>10 DEF TerminalInv

-----------------------------------------------------------------------------
(* The capture threads.                                                    *)

\* A step of the loop between two of its waits, or of a thread: only who runs
\* and what the loop is inside of change.
LEMMA CaptureStep ==
  ASSUME TerminalInv, UNCHANGED <<screen, inbox, airplay, mutex, jobs, radio>>,
         busy' = busy \/ busy.at \notin {"connectWait", "connecting"},
         CaptureOK(captures)', BusyOK(busy, captures)', ThreadsKept(busy, captures)'
  PROVE TerminalInv'
<1>1. Cause(screen.connecting, busy', jobs, inbox) /\ LockHeld(mutex, busy', jobs)
  BY DEF TerminalInv, Cause, LockHeld
<1> QED
  BY <1>1 DEF TerminalInv

LEMMA NobodyIsNoThread == ASSUME NEW i, NEW n \in Nat PROVE <<i, Nobody>> \notin Threads(n)
BY DEF Threads, Nobody

\* Telling a thread to stop takes it out of those nobody has told.
LEMMA TellsOK ==
  ASSUME CaptureOK(captures), NEW i \in Inputs
  PROVE /\ CaptureOK(Tells(i)) /\ Tells(i).held = captures.held /\ Tells(i).running = captures.running
        /\ Tells(i).count = captures.count
        /\ Tells(i).told = captures.told \cup ({Held(captures, i)} \cap captures.running)
BY DEF CaptureOK, Tells, Held

LEMMA SourceStartStep ==
  ASSUME TerminalInv, NEW a \in {"UsbAudioStartSource", "BluetoothStartSource"}, Takes(a),
         NEW i \in Inputs, StartSource(i)
  PROVE TerminalInv'
<1>1. inbox # <<>> /\ Aside(Head(inbox)) /\ busy.at = "select"
  BY Taken DEF Takes, Ends
<1>2. CASE Shows(screen)
  BY <1>1, <1>2, Unchanged, ShowsStep
<1>3. CASE /\ captures' = Tells(i) /\ busy' = [at |-> "join", arg |-> <<i>>]
           /\ Replies(<<>>) /\ UNCHANGED <<screen, airplay, mutex, jobs, radio>>
  <2>1. CaptureOK(captures) /\ ThreadsKept(busy, captures) /\ ScreenOK(screen) /\ airplay \in ClientShape
    BY DEF TerminalInv
  <2>2. /\ CaptureOK(captures') /\ captures'.held = captures.held /\ captures'.running = captures.running
        /\ captures'.told = captures.told \cup ({Held(captures, i)} \cap captures.running)
    BY <1>3, <2>1, TellsOK
  <2>3. BusyOK(busy', captures')
    BY <1>3 DEF BusyOK
  <2>4. \A j \in Inputs : Held(captures', j) = Held(captures, j)
    BY <2>2 DEF Held
  <2>5. \A j \in Inputs : Held(captures', j) \in captures'.told => j = i
    BY <1>1, <2>1, <2>2, <2>4 DEF ThreadsKept, Held
  <2>6. Untold(captures') \subseteq Untold(captures)
    BY <2>2 DEF Untold
  <2>7. Held(captures', i) \notin Untold(captures')
    BY <2>2, <2>4 DEF Untold
  <2>8. ThreadsKept(busy', captures')
    BY <1>1, <1>3, <2>1, <2>2, <2>5, <2>6, <2>7 DEF ThreadsKept
  <2> QED
    BY <1>1, <1>3, <2>1, <2>2, <2>3, <2>8, NothingSaid, AnswersStep
<1> QED
  BY <1>2, <1>3 DEF StartSource

LEMMA StartSourceStep == TerminalInv /\ (UsbAudioStartSource \/ BluetoothStartSource) => TerminalInv'
<1> SUFFICES ASSUME TerminalInv, UsbAudioStartSource \/ BluetoothStartSource PROVE TerminalInv'
  OBVIOUS
<1>1. CASE UsbAudioStartSource
  BY <1>1, SourceStartStep DEF UsbAudioStartSource, Inputs
<1>2. CASE BluetoothStartSource
  <2>1. inbox # <<>> /\ Aside(Head(inbox))
    BY <1>2, Taken DEF BluetoothStartSource, Ends
  <2>2. CASE Shows(screen)
    BY <2>1, <2>2, Unchanged, ShowsStep
  <2> QED
    BY <1>2, <2>2, SourceStartStep DEF BluetoothStartSource, Inputs
<1> QED
  BY <1>1, <1>2

LEMMA StopSourceStep == TerminalInv /\ HandleStopSource => TerminalInv'
<1> SUFFICES ASSUME TerminalInv, HandleStopSource PROVE TerminalInv'
  OBVIOUS
<1>1. inbox # <<>> /\ Aside(Head(inbox)) /\ busy.at = "select"
  BY Taken DEF HandleStopSource, Takes, Ends
<1>2. /\ captures' = [Tells("usb") EXCEPT !.held["usb"] = Nobody]
      /\ busy' = [at |-> "stopping", arg |-> Nobody] /\ Replies(<<>>)
      /\ UNCHANGED <<screen, airplay, mutex, jobs, radio>>
  BY DEF HandleStopSource
<1>3. CaptureOK(captures) /\ ThreadsKept(busy, captures) /\ ScreenOK(screen) /\ airplay \in ClientShape
  BY DEF TerminalInv
<1> DEFINE c == Tells("usb")
<1>4. /\ CaptureOK(c) /\ c.held = captures.held /\ c.running = captures.running /\ c.count = captures.count
      /\ c.told = captures.told \cup ({Held(captures, "usb")} \cap captures.running)
  BY <1>3, TellsOK DEF Inputs
<1> HIDE DEF c
<1>5. captures' = [c EXCEPT !.held["usb"] = Nobody]
  BY <1>2 DEF c
<1>6. /\ CaptureOK(captures') /\ captures'.running = captures.running /\ captures'.told = c.told
      /\ captures'.held = [captures.held EXCEPT !["usb"] = Nobody] /\ captures.held \in [Inputs -> Nat]
      /\ captures'.told \subseteq Threads(captures'.count) /\ captures'.count \in Nat
  BY <1>3, <1>4, <1>5 DEF CaptureOK, Inputs, Nobody
<1>7. \A j \in Inputs : Held(captures', j) \notin captures'.told
  <2>1. Held(captures', "usb") = <<"usb", Nobody>>
    BY <1>6 DEF Held, Inputs
  <2>2. \A j \in Inputs \ {"usb"} : Held(captures', j) = Held(captures, j)
    BY <1>6 DEF Held
  <2>3. \A j \in Inputs \ {"usb"} : Held(captures, j) # Held(captures, "usb")
    BY DEF Held
  <2>4. \A j \in Inputs : Held(captures, j) \notin captures.told
    BY <1>1, <1>3 DEF ThreadsKept
  <2> QED
    BY <2>1, <2>2, <2>3, <2>4, <1>4, <1>6, NobodyIsNoThread
<1>8. ASSUME NEW t \in Untold(captures') PROVE captures'.held[t[1]] = t[2]
  <2>1. t \in Untold(captures) /\ t # Held(captures, "usb") /\ t \in Inputs \X (1 .. captures.count)
    BY <1>8, <1>3, <1>4, <1>6 DEF Untold, CaptureOK, Threads
  <2>2. captures.held[t[1]] = t[2] /\ t = <<t[1], t[2]>> /\ t[1] \in Inputs
    BY <2>1, <1>1, <1>3 DEF ThreadsKept
  <2>3. t[1] # "usb"
    BY <2>1, <2>2 DEF Held
  <2> QED
    BY <2>2, <2>3, <1>6
<1>9. ThreadsKept(busy', captures') /\ BusyOK(busy', captures')
  BY <1>2, <1>7, <1>8 DEF ThreadsKept, BusyOK
<1> QED
  BY <1>1, <1>2, <1>3, <1>6, <1>9, NothingSaid, AnswersStep

LEMMA JoinsStep == TerminalInv /\ Joins => TerminalInv'
<1> SUFFICES ASSUME TerminalInv, Joins PROVE TerminalInv'
  OBVIOUS
<1>1. CaptureOK(captures) /\ BusyOK(busy, captures) /\ ThreadsKept(busy, captures) /\ busy.at = "join"
  BY DEF TerminalInv, Joins
<1>2. PICK i \in Inputs : busy.arg = <<i>>
  BY <1>1 DEF BusyOK
<1>3. /\ Held(captures, i) \notin captures.running
      /\ captures' = [captures EXCEPT !.held[i] = Nobody] /\ busy' = [busy EXCEPT !.at = "capture"]
      /\ UNCHANGED <<screen, inbox, airplay, mutex, jobs, radio>>
  BY <1>2 DEF Joins, Held
<1>4. busy' = [at |-> "capture", arg |-> <<i>>]
  BY <1>1, <1>2, <1>3 DEF BusyOK
<1>5. /\ CaptureOK(captures') /\ captures'.running = captures.running /\ captures'.told = captures.told
      /\ captures'.held = [captures.held EXCEPT ![i] = Nobody] /\ captures.held \in [Inputs -> Nat]
      /\ captures'.told \subseteq Threads(captures'.count) /\ captures'.count \in Nat
  BY <1>1, <1>3 DEF CaptureOK, Nobody
<1>6. \A j \in Inputs : Held(captures', j) \notin captures'.told
  <2>1. Held(captures', i) = <<i, Nobody>>
    BY <1>5 DEF Held
  <2>2. \A j \in Inputs \ {i} : Held(captures', j) = Held(captures, j)
    BY <1>5 DEF Held
  <2>3. \A j \in Inputs \ {i} : Held(captures, j) \notin captures.told
    BY <1>1, <1>2 DEF ThreadsKept
  <2> QED
    BY <2>1, <2>2, <2>3, <1>5, NobodyIsNoThread
<1>7. ASSUME NEW t \in Untold(captures') PROVE captures'.held[t[1]] = t[2]
  <2>1. t \in Untold(captures) /\ t # Held(captures, i) /\ t \in Inputs \X (1 .. captures.count)
    BY <1>7, <1>1, <1>3, <1>5 DEF Untold, CaptureOK, Threads
  <2>2. captures.held[t[1]] = t[2] /\ t = <<t[1], t[2]>> /\ t[1] \in Inputs
    BY <2>1, <1>1 DEF ThreadsKept
  <2>3. t[1] # i
    BY <2>1, <2>2 DEF Held
  <2> QED
    BY <2>2, <2>3, <1>5
<1>8. captures'.held[busy'.arg[1]] = Nobody
  BY <1>4, <1>5
<1>9. ThreadsKept(busy', captures') /\ BusyOK(busy', captures')
  BY <1>4, <1>6, <1>7, <1>8 DEF ThreadsKept, BusyOK
<1> QED
  BY <1>1, <1>3, <1>5, <1>9, CaptureStep

\* A step that only adds events and is no end of an attempt.
LEMMA AddedStep ==
  ASSUME TerminalInv, busy' = busy \/ busy.at \notin {"connectWait", "connecting"},
         NEW e \in Seq(Entries), inbox' = inbox \o e, Announces(e, airplay.device, airplay'.device),
         airplay' \in ClientShape, ScreenOK(screen'), screen'.shown = screen.shown,
         screen'.missed = screen.missed, screen'.connecting = screen.connecting,
         UNCHANGED <<mutex, jobs, radio>>,
         CaptureOK(captures'), BusyOK(busy', captures'), ThreadsKept(busy', captures')
  PROVE TerminalInv'
<1>1. /\ inbox \in Seq(Entries) /\ Word(inbox, screen, airplay.device)
      /\ Cause(screen.connecting, busy, jobs, inbox) /\ LockHeld(mutex, busy, jobs)
  BY DEF TerminalInv
<1>2. inbox' \in Seq(Entries) /\ Word(inbox', screen, airplay'.device)
  BY <1>1, Added
<1>3. Word(inbox', screen', airplay'.device)
  BY <1>2 DEF Word, ShownDevice
<1>4. Cause(screen.connecting, busy, jobs, inbox')
  BY <1>1, CauseAdded
<1>5. Cause(screen'.connecting, busy', jobs, inbox') /\ LockHeld(mutex, busy', jobs)
  BY <1>1, <1>4 DEF Cause, LockHeld
<1> QED
  BY <1>2, <1>3, <1>5 DEF TerminalInv

LEMMA PressStep == TerminalInv /\ (\E a \in KeyActions \cap screen.hand : Press(a)) => TerminalInv'
<1> SUFFICES ASSUME TerminalInv, NEW a \in KeyActions \cap screen.hand, Press(a) PROVE TerminalInv'
  OBVIOUS
<1>1. a \in Plain /\ a # "Disconnected"
  BY DEF KeyActions, Plain, Actions, Loaded
<1>2. <<<<a>>>> \in Seq(Entries) /\ Silent(<<<<a>>>>) /\ <<a>> \in Entries
  BY <1>1, PlainSaid, PlainEntries
<1>3. /\ screen' = [screen EXCEPT !.keys = @ + 1] /\ inbox' = Append(inbox, <<a>>)
      /\ UNCHANGED <<busy, airplay, mutex, jobs, captures, radio>>
  BY DEF Press
<1>4. inbox' = inbox \o <<<<a>>>>
  BY <1>2, <1>3, AppendIsConcat DEF TerminalInv
<1>5. PICK k \in Nat : screen.keys = k
  BY DEF TerminalInv, ScreenOK, ScreenShape
<1>6. k + 1 \in Nat /\ screen' = [screen EXCEPT !.keys = k + 1]
  BY <1>3, <1>5
<1>7. /\ ScreenOK(screen') /\ screen'.shown = screen.shown /\ screen'.missed = screen.missed
      /\ screen'.connecting = screen.connecting
  BY <1>6 DEF TerminalInv, ScreenOK, ScreenShape
<1>8. /\ CaptureOK(captures') /\ BusyOK(busy', captures') /\ ThreadsKept(busy', captures') /\ airplay' \in ClientShape
      /\ Announces(<<<<a>>>>, airplay.device, airplay'.device)
  BY <1>2, <1>3 DEF TerminalInv, Announces
<1> QED
  BY <1>2, <1>3, <1>4, <1>7, <1>8, AddedStep

LEMMA TickFiresStep == TerminalInv /\ TickFires => TerminalInv'
<1> SUFFICES ASSUME TerminalInv, TickFires PROVE TerminalInv'
  OBVIOUS
<1>1. <<<<"Tick">>>> \in Seq(Entries) /\ Silent(<<<<"Tick">>>>) /\ <<"Tick">> \in Entries
  BY PlainSaid, PlainEntries DEF Plain, Actions, Loaded
<1>2. inbox' = Append(inbox, <<"Tick">>) /\ UNCHANGED <<screen, busy, airplay, mutex, jobs, captures, radio>>
  BY DEF TickFires
<1>3. inbox' = inbox \o <<<<"Tick">>>>
  BY <1>1, <1>2, AppendIsConcat DEF TerminalInv
<1>4. /\ CaptureOK(captures') /\ BusyOK(busy', captures') /\ ThreadsKept(busy', captures') /\ airplay' \in ClientShape
      /\ ScreenOK(screen') /\ Announces(<<<<"Tick">>>>, airplay.device, airplay'.device)
  BY <1>1, <1>2 DEF TerminalInv, Announces
<1> QED
  BY <1>1, <1>2, <1>3, <1>4, AddedStep

LEMMA StopsClientStep == TerminalInv /\ StopsClient => TerminalInv'
<1> SUFFICES ASSUME TerminalInv, StopsClient PROVE TerminalInv'
  OBVIOUS
<1> DEFINE left == screen.active \ {"usb"}
<1>1. PICK r \in PlaybackTurns(airplay, "Stopped") : airplay' = r.client /\ inbox' = inbox \o r.events
  BY DEF StopsClient
<1>2. /\ busy.at = "stopping" /\ busy' = [at |-> "select", arg |-> Nobody]
      /\ screen' = [screen EXCEPT !.active = left] /\ UNCHANGED <<mutex, jobs, captures, radio>>
  BY DEF StopsClient
<1>3. airplay \in ClientShape /\ ScreenOK(screen) /\ CaptureOK(captures) /\ ThreadsKept(busy, captures)
  BY DEF TerminalInv
<1>4. ResultOK(airplay, r)
  BY <1>3, PlaybackOK DEF PlaybackStates
<1>5. left \in SUBSET Inputs
  BY <1>3 DEF ScreenOK, ScreenShape
<1> HIDE DEF left
<1>6. /\ ScreenOK(screen') /\ screen'.shown = screen.shown /\ screen'.missed = screen.missed
      /\ screen'.connecting = screen.connecting
  BY <1>2, <1>3, <1>5 DEF ScreenOK, ScreenShape
<1>7. BusyOK(busy', captures') /\ ThreadsKept(busy', captures') /\ CaptureOK(captures')
  BY <1>2, <1>3 DEF BusyOK, ThreadsKept
<1> QED
  BY <1>1, <1>2, <1>4, <1>6, <1>7, AddedStep DEF ResultOK

\* A thread just started is held by nobody yet, and nobody has told it to stop.
LEMMA CaptureStartStep == TerminalInv /\ (StartUsbCapture \/ StartCapture) => TerminalInv'
<1> SUFFICES ASSUME TerminalInv, NEW i \in Inputs, StartsCapture(i) PROVE TerminalInv'
  BY DEF StartUsbCapture, StartCapture, Inputs
<1>1. /\ busy.at = "capture" /\ busy.arg = <<i>> /\ UNCHANGED <<screen, inbox, airplay, mutex, jobs, radio>>
      /\ CaptureOK(captures) /\ ThreadsKept(busy, captures)
  BY DEF StartsCapture, TerminalInv
<1>2. CASE busy' = [at |-> "select", arg |-> Nobody] /\ captures' = captures
  <2>1. BusyOK(busy', captures') /\ ThreadsKept(busy', captures')
    BY <1>1, <1>2 DEF BusyOK, ThreadsKept
  <2> QED
    BY <1>1, <1>2, <2>1, CaptureStep
<1>3. CASE /\ captures' = [captures EXCEPT !.count = captures.count + 1,
                                           !.running = captures.running \cup {<<i, captures.count + 1>>}]
           /\ busy' = [at |-> "stream", arg |-> <<i, captures.count + 1>>]
  <2>1. PICK n \in Nat : n = captures.count
    BY <1>1 DEF CaptureOK
  <2> DEFINE t == <<i, n + 1>>
             up == captures.running \cup {t}
  <2>2. captures' = [captures EXCEPT !.count = n + 1, !.running = up] /\ busy' = [at |-> "stream", arg |-> t]
    BY <1>3, <2>1
  <2>3. /\ captures.told \in SUBSET Threads(n) /\ captures.running \in SUBSET Threads(n)
        /\ Threads(n) \subseteq Threads(n + 1) /\ t \in Threads(n + 1) /\ t \notin Threads(n) /\ n + 1 \in Nat
    BY <1>1, <2>1 DEF CaptureOK, Threads
  <2>4. up \in SUBSET Threads(n + 1) /\ captures.told \in SUBSET Threads(n + 1) /\ t \notin captures.told
    BY <2>3
  <2>5. t[1] = i /\ t[2] = n + 1
    OBVIOUS
  <2>6. up \ captures.told \subseteq Untold(captures) \cup {t}
    BY DEF Untold
  <2> HIDE DEF t, up
  <2>7. PICK m \in Nat : m = n + 1
    BY <2>3
  <2>8. /\ CaptureOK(captures') /\ captures'.held = captures.held /\ captures'.running = up
        /\ captures'.told = captures.told /\ captures'.count = m
    BY <1>1, <2>2, <2>4, <2>7 DEF CaptureOK
  <2>9. BusyOK(busy', captures')
    BY <2>2, <2>3, <2>7, <2>8 DEF BusyOK
  <2>10. Untold(captures') \subseteq Untold(captures) \cup {t}
    BY <2>6, <2>8 DEF Untold
  <2>11. captures.held[i] = Nobody
    BY <1>1 DEF ThreadsKept
  <2>12. \A j \in Inputs : Held(captures', j) \notin captures'.told
    BY <1>1, <2>8 DEF ThreadsKept, Held
  <2>13. ThreadsKept(busy', captures')
    BY <1>1, <2>2, <2>4, <2>5, <2>8, <2>10, <2>11, <2>12 DEF ThreadsKept
  <2> QED
    BY <1>1, <2>8, <2>9, <2>13, CaptureStep
<1> QED
  BY <1>2, <1>3 DEF StartsCapture

LEMMA StreamStep == TerminalInv /\ StartsStream => TerminalInv'
<1> SUFFICES ASSUME TerminalInv, StartsStream PROVE TerminalInv'
  OBVIOUS
<1> DEFINE t == busy.arg
           i == t[1]
           live == screen.active \cup {i}
           told == captures.told \cup ({t} \cap captures.running)
<1>1. PICK r \in PlayStarts(airplay) :
        /\ airplay' = r.client /\ inbox' = inbox \o r.events
        /\ IF r.ok
           THEN /\ captures' = [captures EXCEPT !.held[i] = t[2]]
                /\ screen' = [screen EXCEPT !.active = live]
                /\ busy' = [at |-> "select", arg |-> Nobody]
           ELSE /\ captures' = [captures EXCEPT !.told = told]
                /\ busy' = [busy EXCEPT !.at = "abort"]
                /\ UNCHANGED screen
  BY DEF StartsStream
<1>2. /\ busy.at = "stream" /\ UNCHANGED <<mutex, jobs, radio>> /\ airplay \in ClientShape /\ ScreenOK(screen)
      /\ CaptureOK(captures) /\ BusyOK(busy, captures) /\ ThreadsKept(busy, captures)
  BY DEF StartsStream, TerminalInv
<1>3. t \in Inputs \X (1 .. captures.count)
  BY <1>2 DEF BusyOK, Threads
<1>4. PICK n \in Nat : t[2] = n
  BY <1>2, <1>3 DEF CaptureOK
<1>5. i \in Inputs /\ t = <<i, n>>
  BY <1>3, <1>4
<1>6. ResultOK(airplay, r)
  BY <1>2, PlaybackOK
<1>7. live \in SUBSET Inputs
  BY <1>2, <1>5 DEF ScreenOK, ScreenShape
<1>8. told \in SUBSET Threads(captures.count) /\ captures.told \subseteq told /\ told \subseteq captures.told \cup {t}
  BY <1>2 DEF CaptureOK
<1>9. t \in captures.running => t \in told
  OBVIOUS
<1> HIDE DEF t, i, live, told
<1>10. CASE r.ok
  <2>1. /\ CaptureOK(captures') /\ captures'.running = captures.running /\ captures'.told = captures.told
        /\ captures'.held = [captures.held EXCEPT ![i] = n] /\ captures.held \in [Inputs -> Nat]
    <3>1. PICK h : h = [captures.held EXCEPT ![i] = n]
      OBVIOUS
    <3>2. captures' = [captures EXCEPT !.held = h]
      BY <1>1, <1>4, <1>10, <3>1
    <3>3. h \in [Inputs -> Nat] /\ captures.held \in [Inputs -> Nat]
      BY <1>2, <1>5, <3>1 DEF CaptureOK
    <3> QED
      BY <1>2, <3>1, <3>2, <3>3 DEF CaptureOK
  <2>2. /\ ScreenOK(screen') /\ screen'.shown = screen.shown /\ screen'.missed = screen.missed
        /\ screen'.connecting = screen.connecting
    BY <1>1, <1>2, <1>7, <1>10 DEF ScreenOK, ScreenShape
  <2>3. \A j \in Inputs : Held(captures', j) \notin captures'.told
    <3>1. Held(captures', i) = t
      BY <1>5, <2>1 DEF Held
    <3>2. \A j \in Inputs \ {i} : Held(captures', j) = Held(captures, j)
      BY <2>1 DEF Held
    <3> QED
      BY <1>2, <2>1, <3>1, <3>2 DEF ThreadsKept, t
  <2>4. ASSUME NEW u \in Untold(captures') PROVE captures'.held[u[1]] = u[2]
    <3>1. u \in Untold(captures) /\ u \in Inputs \X (1 .. captures.count)
      BY <1>2, <2>1, <2>4 DEF Untold, CaptureOK, Threads
    <3>2. u[1] \in Inputs /\ u = <<u[1], u[2]>> /\ (captures.held[u[1]] = u[2] \/ u = t)
      BY <1>2, <3>1 DEF ThreadsKept, t
    <3>3. CASE u = t
      BY <3>3, <1>5, <2>1
    <3>4. CASE u[1] = i /\ captures.held[u[1]] = u[2]
      <4>1. captures.held[i] = Nobody
        BY <1>2 DEF ThreadsKept, i, t
      <4> QED
        BY <3>1, <3>4, <4>1, <1>2 DEF Nobody, CaptureOK
    <3> QED
      BY <3>2, <3>3, <3>4, <2>1
  <2>5. BusyOK(busy', captures') /\ ThreadsKept(busy', captures')
    BY <1>1, <1>10, <2>3, <2>4 DEF BusyOK, ThreadsKept
  <2> QED
    BY <1>1, <1>2, <1>6, <2>1, <2>2, <2>5, AddedStep DEF ResultOK
<1>11. CASE ~r.ok
  <2>1. /\ CaptureOK(captures') /\ captures'.running = captures.running /\ captures'.told = told
        /\ captures'.held = captures.held /\ captures'.count = captures.count
    BY <1>1, <1>2, <1>8, <1>11 DEF CaptureOK
  <2>2. busy' = [at |-> "abort", arg |-> t]
    BY <1>1, <1>2, <1>11 DEF BusyOK, t
  <2>3. \A j \in Inputs : Held(captures', j) \notin captures'.told
    <3>1. captures.held[i] = Nobody
      BY <1>2 DEF ThreadsKept, i, t
    <3>2. \A j \in Inputs : Held(captures', j) = Held(captures, j) /\ Held(captures, j) \notin captures.told
      BY <1>2, <2>1 DEF Held, ThreadsKept
    <3>3. n # Nobody
      BY <1>3, <1>4, <1>2 DEF Nobody, CaptureOK
    <3>4. \A j \in Inputs : Held(captures, j) # t
      BY <1>5, <3>1, <3>3 DEF Held
    <3> QED
      BY <1>8, <2>1, <3>2, <3>4
  <2>4. Untold(captures') \subseteq Untold(captures) \ {t}
    BY <1>8, <1>9, <2>1 DEF Untold
  <2>5. \A u \in Untold(captures') : captures'.held[u[1]] = u[2]
    BY <1>2, <2>1, <2>4 DEF ThreadsKept, t
  <2>6. BusyOK(busy', captures') /\ ThreadsKept(busy', captures')
    BY <1>2, <1>3, <2>1, <2>2, <2>3, <2>4, <2>5 DEF BusyOK, ThreadsKept, Threads
  <2> QED
    BY <1>1, <1>2, <1>6, <1>11, <2>1, <2>2, <2>6, AddedStep DEF ResultOK
<1> QED
  BY <1>10, <1>11

LEMMA AbortJoinsStep == TerminalInv /\ AbortJoins => TerminalInv'
<1> SUFFICES ASSUME TerminalInv, AbortJoins PROVE TerminalInv'
  OBVIOUS
<1>1. /\ busy.at = "abort" /\ busy' = [at |-> "select", arg |-> Nobody]
      /\ UNCHANGED <<screen, inbox, airplay, mutex, jobs, captures, radio>>
  BY DEF AbortJoins
<1>2. CaptureOK(captures') /\ BusyOK(busy', captures') /\ ThreadsKept(busy', captures')
  BY <1>1 DEF TerminalInv, BusyOK, ThreadsKept
<1> QED
  BY <1>1, <1>2, CaptureStep

LEMMA ThreadEndsStep == TerminalInv /\ (UsbThreadEnds \/ BluetoothThreadEnds) => TerminalInv'
<1> SUFFICES ASSUME TerminalInv, NEW t \in captures.running, ThreadEnds(t) PROVE TerminalInv'
  BY DEF UsbThreadEnds, BluetoothThreadEnds
<1> DEFINE left == captures.running \ {t}
<1>1. captures' = [captures EXCEPT !.running = left] /\ UNCHANGED <<screen, inbox, busy, airplay, mutex, jobs, radio>>
  BY DEF ThreadEnds
<1>2. CaptureOK(captures) /\ BusyOK(busy, captures) /\ ThreadsKept(busy, captures)
  BY DEF TerminalInv
<1>3. left \in SUBSET Threads(captures.count) /\ left \subseteq captures.running
  BY <1>2 DEF CaptureOK
<1> HIDE DEF left
<1>4. /\ CaptureOK(captures') /\ captures'.running = left /\ captures'.told = captures.told
      /\ captures'.held = captures.held /\ captures'.count = captures.count
  BY <1>1, <1>2, <1>3 DEF CaptureOK
<1>5. Untold(captures') \subseteq Untold(captures)
  BY <1>3, <1>4 DEF Untold
<1>6. \A j : Held(captures', j) = Held(captures, j)
  BY <1>4 DEF Held
<1>7. ThreadsKept(busy', captures') /\ BusyOK(busy', captures')
  BY <1>1, <1>2, <1>4, <1>5, <1>6 DEF ThreadsKept, BusyOK
<1> QED
  BY <1>1, <1>4, <1>7, CaptureStep

-----------------------------------------------------------------------------
(* The jobs.                                                               *)

LEMMA Removed ==
  ASSUME NEW S, NEW s \in Seq(S), NEW k \in 1 .. Len(s)
  PROVE /\ RemoveAt(s, k) \in Seq(S)
        /\ \A i \in 1 .. Len(s) : i # k => \E j \in 1 .. Len(RemoveAt(s, k)) : RemoveAt(s, k)[j] = s[i]
<1> DEFINE a == SubSeq(s, 1, k - 1)
           b == SubSeq(s, k + 1, Len(s))
           r == a \o b
<1>1. Len(s) \in Nat /\ \A i \in 1 .. Len(s) : s[i] \in S
  BY LenProperties
<1>2. /\ a \in Seq(S) /\ Len(a) = k - 1 /\ \A i \in 1 .. k - 1 : a[i] = s[i]
  BY <1>1, SubSeqProperties
<1>3. /\ b \in Seq(S) /\ Len(b) = Len(s) - k /\ \A i \in 1 .. Len(s) - k : b[i] = s[k + i]
  BY <1>1, SubSeqProperties
<1> HIDE DEF a, b
<1>4. /\ r \in Seq(S) /\ Len(r) = Len(a) + Len(b) /\ \A i \in 1 .. Len(a) : r[i] = a[i]
      /\ \A i \in 1 .. Len(b) : r[Len(a) + i] = b[i]
  <2>1. a \in Seq(S) /\ b \in Seq(S)
    BY <1>2, <1>3
  <2> QED
    BY <2>1, ConcatProperties, LenProperties
<1> HIDE DEF r
<1>5. ASSUME NEW i \in 1 .. Len(s), i # k PROVE \E j \in 1 .. Len(r) : r[j] = s[i]
  <2>1. CASE i < k
    <3>1. i \in 1 .. k - 1 /\ i \in 1 .. Len(a) /\ a[i] = s[i]
      BY <1>1, <1>2, <2>1
    <3>2. Len(r) = Len(s) - 1 /\ i \in 1 .. Len(r)
      BY <1>1, <1>2, <1>3, <1>4, <3>1
    <3>3. r[i] = a[i]
      BY <1>4, <3>1
    <3> QED
      BY <3>1, <3>2, <3>3
  <2>2. CASE i > k
    <3>1. i - k \in 1 .. Len(b) /\ Len(a) + (i - k) = i - 1
      BY <1>1, <1>2, <1>3, <2>2
    <3>2. i - 1 \in 1 .. Len(r) /\ r[i - 1] = b[i - k] /\ b[i - k] = s[k + (i - k)]
      BY <1>1, <1>2, <1>3, <1>4, <2>2, <3>1
    <3> QED
      BY <3>2
  <2> QED
    BY <1>5, <2>1, <2>2
<1>6. RemoveAt(s, k) = r
  BY DEF RemoveAt, r, a, b
<1> QED
  BY <1>4, <1>5, <1>6

\* A step of a job: what it tells, and the jobs after it.
LEMMA JobStep ==
  ASSUME TerminalInv, UNCHANGED <<screen, busy, captures>>,
         NEW e \in Seq(Entries), inbox' = inbox \o e, Announces(e, airplay.device, airplay'.device),
         airplay' \in ClientShape, radio' \in RadioShape, jobs' \in Seq(JobShape),
         LockHeld(mutex', busy, jobs'),
         \A k \in 1 .. Len(jobs) : jobs[k].what \in Causes =>
           \/ \E j \in 1 .. Len(jobs') : jobs'[j].what \in Causes
           \/ \E j \in 1 .. Len(e) : e[j][1] \in Ends
  PROVE TerminalInv'
<1>1. /\ inbox \in Seq(Entries) /\ Word(inbox, screen, airplay.device)
      /\ Cause(screen.connecting, busy, jobs, inbox)
  BY DEF TerminalInv
<1>2. inbox' \in Seq(Entries) /\ Word(inbox', screen, airplay'.device)
  BY <1>1, Added
<1>3. Cause(screen.connecting, busy, jobs, inbox')
  BY <1>1, CauseAdded
<1>4. ASSUME NEW j \in 1 .. Len(e), e[j][1] \in Ends PROVE \E i \in 1 .. Len(inbox') : inbox'[i][1] \in Ends
  <2>1. Len(inbox) + j \in 1 .. Len(inbox') /\ inbox'[Len(inbox) + j] = e[j]
    BY <1>1, ConcatProperties, LenProperties
  <2> QED
    BY <2>1, <1>4
<1>5. Cause(screen.connecting, busy, jobs', inbox')
  BY <1>3, <1>4 DEF Cause
<1> QED
  BY <1>2, <1>5 DEF TerminalInv

LEMMA Done ==
  ASSUME TerminalInv, NEW k \in 1 .. Len(jobs), NEW result \in ReportedKinds, JobDone(k, result)
  PROVE /\ jobs' \in Seq(JobShape) /\ Len(jobs') = Len(jobs) /\ jobs'[k].what = result
        /\ \A j \in 1 .. Len(jobs) : j # k => jobs'[j] = jobs[j]
<1> DEFINE new == [jobs[k] EXCEPT !.at = "done", !.what = result]
<1>1. jobs \in Seq(JobShape) /\ jobs[k] \in JobShape
  BY ElementOfSeq DEF TerminalInv
<1>2. new \in JobShape /\ new.what = result
  BY <1>1 DEF JobShape
<1>3. jobs' = [jobs EXCEPT ![k] = new]
  BY <1>1 DEF JobDone
<1> HIDE DEF new
<1> QED
  BY <1>1, <1>2, <1>3, ExceptSeq

LEMMA LocksStep == ASSUME TerminalInv, NEW k \in 1 .. Len(jobs), JobLocks(k) PROVE TerminalInv'
<1> DEFINE new == [jobs[k] EXCEPT !.at = "working"]
<1>1. /\ jobs[k].at = "waiting" /\ mutex = "free" /\ UNCHANGED <<screen, busy, captures, radio>>
      /\ jobs \in Seq(JobShape) /\ airplay \in ClientShape /\ radio \in RadioShape
  BY DEF JobLocks, TerminalInv
<1>2. jobs[k] \in JobShape
  BY <1>1, ElementOfSeq
<1>3. new \in JobShape /\ new.what = jobs[k].what /\ new.at = "working"
  BY <1>1, <1>2 DEF JobShape
<1>4. ASSUME jobs' = [jobs EXCEPT ![k].at = "working"]
      PROVE /\ jobs' \in Seq(JobShape) /\ Len(jobs') = Len(jobs) /\ \A j \in 1 .. Len(jobs) : jobs'[j].what = jobs[j].what
            /\ jobs'[k].at = "working"
  <2>1. jobs' = [jobs EXCEPT ![k] = new]
    BY <1>1, <1>4
  <2> HIDE DEF new
  <2> QED
    BY <1>1, <1>3, <2>1, ExceptSeq
<1> HIDE DEF new
<1>5. CASE mutex' = "job" /\ jobs' = [jobs EXCEPT ![k].at = "working"] /\ UNCHANGED <<inbox, airplay>>
  <2>1. inbox' = inbox \o <<>>
    BY <1>5, ConcatEmptySeq DEF TerminalInv
  <2>2. LockHeld(mutex', busy, jobs')
    BY <1>4, <1>5 DEF LockHeld
  <2>3. Announces(<<>>, airplay.device, airplay'.device)
    BY <1>5, NothingSaid DEF Announces
  <2> QED
    BY <1>1, <1>4, <1>5, <2>1, <2>2, <2>3, NothingSaid, JobStep
<1>6. ASSUME NEW r \in Disconnects(airplay), airplay' = r.client, inbox' = inbox \o r.events,
             IF r.ok THEN mutex' = "job" /\ jobs' = [jobs EXCEPT ![k].at = "working"]
             ELSE UNCHANGED mutex /\ JobDone(k, "ShowError")
      PROVE TerminalInv'
  <2>1. ResultOK(airplay, r)
    BY <1>1, DisconnectsOK
  <2>2. CASE r.ok
    <3>1. LockHeld(mutex', busy, jobs')
      BY <1>4, <1>6, <2>2 DEF LockHeld
    <3> QED
      BY <1>1, <1>4, <1>6, <2>1, <2>2, <3>1, JobStep DEF ResultOK
  <2>3. CASE ~r.ok
    <3>1. LockHeld(mutex', busy, jobs')
      BY <1>1, <1>6, <2>3 DEF LockHeld
    <3>2. /\ jobs' \in Seq(JobShape) /\ Len(jobs') = Len(jobs) /\ jobs'[k].what \in Causes
          /\ \A j \in 1 .. Len(jobs) : j # k => jobs'[j] = jobs[j]
      BY <1>6, <2>3, Done DEF ReportedKinds, Causes, Ends
    <3> QED
      BY <1>1, <1>6, <2>1, <3>1, <3>2, JobStep DEF ResultOK
  <2> QED
    BY <2>2, <2>3
<1> QED
  BY <1>5, <1>6 DEF JobLocks

LEMMA WorksStep == ASSUME TerminalInv, NEW k \in 1 .. Len(jobs), JobWorks(k) PROVE TerminalInv'
<1> DEFINE group == jobs[k].what = "group"
<1>1. /\ jobs[k].at = "working" /\ mutex' = "free" /\ UNCHANGED <<screen, busy, captures, radio>>
      /\ jobs \in Seq(JobShape) /\ airplay \in ClientShape /\ radio \in RadioShape
  BY DEF JobWorks, TerminalInv
<1>2. jobs[k] \in JobShape
  BY <1>1, ElementOfSeq
<1>3. jobs[k].asked \in SUBSET Rooms /\ jobs[k].what \in {"play", "group"}
  BY <1>1, <1>2 DEF JobShape
<1>4. PICK r \in IF group THEN ConnectGroupEnds(airplay, jobs[k].asked) ELSE PlayStarts(airplay) :
        /\ airplay' = r.client /\ inbox' = inbox \o r.events
        /\ JobDone(k, IF ~r.ok THEN "ShowError" ELSE IF group THEN "GroupConnected" ELSE "PlaybackStarted")
  BY DEF JobWorks
<1>5. ResultOK(airplay, r)
  BY <1>1, <1>3, <1>4, GroupEndsOK, PlaybackOK
<1>6. PICK result \in ReportedKinds : JobDone(k, result) /\ (group => result \in Causes)
  BY <1>4 DEF ReportedKinds, Causes, Ends
<1>7. /\ jobs' \in Seq(JobShape) /\ Len(jobs') = Len(jobs) /\ jobs'[k].what = result
      /\ \A j \in 1 .. Len(jobs) : j # k => jobs'[j] = jobs[j]
  BY <1>6, Done
<1>8. ~group => jobs[k].what \notin Causes
  BY <1>3 DEF Causes, Ends
<1>9. LockHeld(mutex', busy, jobs')
  BY <1>1 DEF LockHeld
<1> QED
  BY <1>1, <1>4, <1>5, <1>6, <1>7, <1>8, <1>9, JobStep DEF ResultOK

LEMMA TimesOutStep == ASSUME TerminalInv, NEW k \in 1 .. Len(jobs), JobTimesOut(k) PROVE TerminalInv'
<1>1. /\ jobs[k].at = "working" \/ (jobs[k].at = "waiting" /\ mutex # "free")
      /\ mutex' = IF jobs[k].at = "working" THEN "free" ELSE mutex
      /\ JobDone(k, "ShowError") /\ UNCHANGED <<screen, inbox, busy, airplay, captures, radio>>
      /\ airplay \in ClientShape /\ radio \in RadioShape /\ LockHeld(mutex, busy, jobs)
  BY DEF JobTimesOut, TerminalInv
<1>2. /\ jobs' \in Seq(JobShape) /\ Len(jobs') = Len(jobs) /\ jobs'[k].what \in Causes
      /\ \A j \in 1 .. Len(jobs) : j # k => jobs'[j] = jobs[j]
  BY <1>1, Done DEF ReportedKinds, Causes, Ends
<1>3. LockHeld(mutex', busy, jobs')
  BY <1>1, <1>2 DEF LockHeld
<1>4. inbox' = inbox \o <<>>
  BY <1>1, ConcatEmptySeq DEF TerminalInv
<1>5. Announces(<<>>, airplay.device, airplay'.device)
  BY <1>1, NothingSaid DEF Announces
<1> QED
  BY <1>1, <1>2, <1>3, <1>4, <1>5, NothingSaid, JobStep

\* A finished job leaves the list; what it reports stands in its place.
LEMMA LockStays ==
  ASSUME TerminalInv, NEW k \in 1 .. Len(jobs), jobs[k].at # "working", NEW new, new \in Seq(JobShape),
         \A i \in 1 .. Len(jobs) : i # k => \E j \in 1 .. Len(new) : new[j] = jobs[i]
  PROVE LockHeld(mutex, busy, new)
BY DEF TerminalInv, LockHeld

LEMMA ReportsStep == ASSUME TerminalInv, NEW k \in 1 .. Len(jobs), JobReports(k) PROVE TerminalInv'
<1> DEFINE m == <<jobs[k].what>>
           new == RemoveAt(jobs, k)
<1>1. /\ jobs[k].at = "done" /\ inbox' = Append(inbox, m) /\ jobs' = new
      /\ UNCHANGED <<screen, busy, airplay, mutex, captures, radio>>
      /\ jobs \in Seq(JobShape) /\ airplay \in ClientShape /\ radio \in RadioShape /\ inbox \in Seq(Entries)
  BY DEF JobReports, TerminalInv
<1>2. jobs[k] \in JobShape
  BY <1>1, ElementOfSeq
<1>3. jobs[k].what \in ReportedKinds
  BY <1>1, <1>2 DEF JobShape
<1>4. jobs[k].what \in Plain /\ jobs[k].what # "Disconnected" /\ m[1] = jobs[k].what
  BY <1>3 DEF ReportedKinds, Plain, Actions, Loaded
<1>5. m \in Entries /\ <<m>> \in Seq(Entries) /\ Silent(<<m>>)
  BY <1>4, PlainEntries, PlainSaid
<1>6. /\ new \in Seq(JobShape)
      /\ \A i \in 1 .. Len(jobs) : i # k => \E j \in 1 .. Len(new) : new[j] = jobs[i]
  BY <1>1, Removed
<1>7. jobs[k].what \in Causes => m[1] \in Ends
  BY <1>3, <1>4 DEF Causes, ReportedKinds
<1> HIDE DEF m, new
<1>8. inbox' = inbox \o <<m>> /\ Len(<<m>>) = 1 /\ <<m>>[1] = m
  BY <1>1, <1>5, AppendIsConcat
<1>9. LockHeld(mutex', busy, jobs')
  BY <1>1, <1>6, LockStays
<1>10. Announces(<<m>>, airplay.device, airplay'.device)
  BY <1>1, <1>5 DEF Announces
<1>11. \A i \in 1 .. Len(jobs) : jobs[i].what \in Causes =>
         \/ \E j \in 1 .. Len(jobs') : jobs'[j].what \in Causes
         \/ \E j \in 1 .. Len(<<m>>) : <<m>>[j][1] \in Ends
  BY <1>1, <1>6, <1>7, <1>8
<1> QED
  BY <1>1, <1>5, <1>6, <1>8, <1>9, <1>10, <1>11, JobStep

\* What a command of the system leaves: the adapter, a report beside the
\* connection, and at most one more command.
LeavesOK(r) ==
  /\ r.radio \in RadioShape /\ r.sent \in Seq(Entries) /\ Silent(r.sent) /\ r.next \in Seq(JobShape)

LEMMA HelperLeaves ==
  ASSUME TerminalInv, NEW r,
         \/ r \in IsAdapterPowered \/ r \in GetPairedDevices \/ r \in GetDiscoveredDevices
         \/ r \in PairDevice \/ r \in ConnectDevice \/ r \in DisconnectDevice
         \/ \E on \in BOOLEAN : r \in SetAdapterPower(on)
         \/ r = Leaves(radio, <<<<"BluetoothCheckSetup">>>>)
  PROVE LeavesOK(r)
<1>1. radio \in RadioShape
  BY DEF TerminalInv
<1>2. ASSUME NEW a \in RadioShape, NEW sent \in Seq(Entries), Silent(sent) PROVE LeavesOK(Leaves(a, sent))
  BY <1>2, EmptySeq DEF LeavesOK, Leaves
<1>3. \A on \in BOOLEAN : /\ <<<<"BluetoothAdapterReady", on>>>> \in Seq(Entries)
                          /\ Silent(<<<<"BluetoothAdapterReady", on>>>>)
  <2>1. ASSUME NEW on \in BOOLEAN
        PROVE <<"BluetoothAdapterReady", on>> \in Entries /\ ~Telling(<<"BluetoothAdapterReady", on>>)
    BY DEF Entries, Telling
  <2> QED
    BY <2>1, OneSaid
<1>4. \A a \in {"BluetoothDevicesScanned", "BluetoothConnected", "BluetoothDisconnected", "BluetoothCheckSetup"} :
        <<<<a>>>> \in Seq(Entries) /\ Silent(<<<<a>>>>)
  BY PlainSaid DEF Plain, Actions, Loaded
<1>5. LeavesOK(Failed)
  BY <1>1, <1>2, NothingSaid DEF Failed
<1>6. CASE r \in IsAdapterPowered
  <2>1. Helper("list") \in JobShape
    BY DEF Helper, JobShape, Errands
  <2>2. <<Helper("list")>> \in Seq(JobShape)
    BY <2>1
  <2>3. radio.powered \in BOOLEAN
    BY <1>1 DEF RadioShape
  <2>4. /\ r.radio = radio /\ r.sent = <<<<"BluetoothAdapterReady", radio.powered>>>> /\ r.next = <<Helper("list")>>
    BY <1>6 DEF IsAdapterPowered, Leaves
  <2> QED
    BY <1>1, <1>3, <2>2, <2>3, <2>4 DEF LeavesOK
<1>7. CASE r \in GetPairedDevices \/ r \in GetDiscoveredDevices
  BY <1>1, <1>2, <1>4, <1>7 DEF GetPairedDevices, GetDiscoveredDevices
<1>8. CASE r \in PairDevice
  BY <1>1, <1>2, <1>4, <1>5, <1>8 DEF PairDevice, GetDiscoveredDevices
<1>9. CASE r \in ConnectDevice \/ r \in DisconnectDevice
  <2>1. [radio EXCEPT !.peer = TRUE] \in RadioShape /\ [radio EXCEPT !.peer = FALSE] \in RadioShape
    BY <1>1 DEF RadioShape
  <2> QED
    BY <2>1, <1>2, <1>4, <1>5, <1>9 DEF ConnectDevice, DisconnectDevice
<1>10. ASSUME NEW on \in BOOLEAN, r \in SetAdapterPower(on) PROVE LeavesOK(r)
  <2>1. [radio EXCEPT !.powered = on] \in RadioShape
    BY <1>1 DEF RadioShape
  <2> QED
    BY <2>1, <1>2, <1>3, <1>5, <1>10 DEF SetAdapterPower
<1>11. CASE r = Leaves(radio, <<<<"BluetoothCheckSetup">>>>)
  BY <1>1, <1>2, <1>4, <1>11
<1> QED
  BY <1>6, <1>7, <1>8, <1>9, <1>10, <1>11

LEMMA HelperEndsStep == ASSUME TerminalInv, NEW k \in 1 .. Len(jobs), HelperEnds(k) PROVE TerminalInv'
<1>1. /\ jobs[k].at = "helper" /\ UNCHANGED <<screen, busy, airplay, mutex, captures>>
      /\ jobs \in Seq(JobShape) /\ airplay \in ClientShape
  BY DEF HelperEnds, TerminalInv
<1>2. jobs[k] \in JobShape
  BY <1>1, ElementOfSeq
<1>3. jobs[k].what \in Errands /\ jobs[k].what \notin Causes
  BY <1>1, <1>2 DEF JobShape, Errands, Causes, Ends
<1>4. \E r : LeavesOK(r) /\ radio' = r.radio /\ inbox' = inbox \o r.sent /\ jobs' = RemoveAt(jobs, k) \o r.next
  BY <1>3, HelperLeaves DEF HelperEnds, Errands
<1>5. PICK r : LeavesOK(r) /\ radio' = r.radio /\ inbox' = inbox \o r.sent /\ jobs' = RemoveAt(jobs, k) \o r.next
  BY <1>4
<1> DEFINE left == RemoveAt(jobs, k)
<1>6. /\ left \in Seq(JobShape)
      /\ \A i \in 1 .. Len(jobs) : i # k => \E j \in 1 .. Len(left) : left[j] = jobs[i]
  BY <1>1, Removed
<1>7. jobs' = left \o r.next
  BY <1>5
<1> HIDE DEF left
<1>8. jobs' \in Seq(JobShape) /\ \A j \in 1 .. Len(left) : j \in 1 .. Len(jobs') /\ jobs'[j] = left[j]
  BY <1>5, <1>6, <1>7, ConcatProperties, LenProperties DEF LeavesOK
<1>9. \A i \in 1 .. Len(jobs) : i # k => \E j \in 1 .. Len(jobs') : jobs'[j] = jobs[i]
  BY <1>6, <1>8
<1>10. LockHeld(mutex', busy, jobs')
  BY <1>1, <1>8, <1>9, LockStays
<1>11. Announces(r.sent, airplay.device, airplay'.device)
  BY <1>1, <1>5 DEF Announces, LeavesOK
<1>12. \A i \in 1 .. Len(jobs) : jobs[i].what \in Causes => \E j \in 1 .. Len(jobs') : jobs'[j].what \in Causes
  BY <1>3, <1>9
<1> QED
  BY <1>1, <1>5, <1>8, <1>10, <1>11, <1>12, JobStep DEF LeavesOK

-----------------------------------------------------------------------------
(* Every step, and the property.                                           *)

LEMMA LoopKeeps == TerminalInv /\ LoopSteps => TerminalInv'
BY QuitStep, ToggleStep, ScanStep, ScannedStep, SelectDeviceStep, BeginsStep, EndsStep, ConnectFailsStep,
   ConnectedStep, DisconnectedStep, ErrorStep, GroupChangedStep, GroupConnectedStep, DisbandStep,
   PlayPauseStep, StopStep, SeekOrVolumeStep, PlaybackShownStep, StartedShownStep, SelectFileStep,
   TickStep, StartSourceStep, JoinsStep, CaptureStartStep, StreamStep, AbortJoinsStep, StopSourceStep,
   StopsClientStep, CheckSetupStep, BluetoothJobsStep, BluetoothDisconnectStep, BluetoothGoneStep,
   BluetoothReportStep
   DEF LoopSteps

LEMMA JobsKeep == ASSUME TerminalInv, NEW k \in DOMAIN jobs, JobSteps(k) PROVE TerminalInv'
<1>1. k \in 1 .. Len(jobs)
  BY LenProperties DEF TerminalInv
<1> QED
  BY <1>1, LocksStep, WorksStep, TimesOutStep, ReportsStep, HelperEndsStep DEF JobSteps

LEMMA TerminalStep == TerminalInv /\ [TerminalNext]_terminalVars => TerminalInv'
<1> SUFFICES ASSUME TerminalInv, [TerminalNext]_terminalVars PROVE TerminalInv'
  OBVIOUS
<1>1. CASE UNCHANGED terminalVars
  BY <1>1 DEF terminalVars, TerminalInv
<1>2. CASE \E k \in DOMAIN jobs : JobSteps(k)
  BY <1>2, JobsKeep
<1>3. CASE LoopSteps
  BY <1>3, LoopKeeps
<1> QED
  BY <1>1, <1>2, <1>3, PressStep, TickFiresStep, ThreadEndsStep DEF TerminalNext

LEMMA TerminalPromise == TerminalInv => TerminalSafe
<1> SUFFICES ASSUME TerminalInv PROVE TerminalSafe
  OBVIOUS
<1>1. /\ ScreenOK(screen) /\ airplay \in ClientShape /\ radio \in RadioShape /\ inbox \in Seq(Entries)
      /\ jobs \in Seq(JobShape) /\ CaptureOK(captures) /\ BusyOK(busy, captures)
      /\ Word(inbox, screen, airplay.device) /\ ThreadsKept(busy, captures) /\ LockHeld(mutex, busy, jobs)
      /\ Cause(screen.connecting, busy, jobs, inbox)
  BY DEF TerminalInv
<1>2. DOMAIN inbox = 1 .. Len(inbox) /\ DOMAIN jobs = 1 .. Len(jobs)
  BY <1>1, LenProperties
<1>3. ActionQueue
  <2>1. ASSUME NEW m \in Entries PROVE Head(m) = m[1]
    BY DEF Entries, ConnectedTo, PlaybackStateChanged
  <2>2. \A i \in 1 .. Len(inbox) : inbox[i] \in Entries
    BY <1>1, ElementOfSeq
  <2> QED
    BY <1>2, <2>1, <2>2, EntryFields DEF ActionQueue
<1>4. AppState /\ SourceState /\ SharedClient
  BY <1>1 DEF AppState, SourceState, SharedClient, ScreenOK, ScreenShape, RadioShape, ClientShape, DeviceChoices,
    PlaybackStates
<1>5. App
  <2>1. \A k \in DOMAIN jobs : jobs[k] \in JobShape
    BY <1>1, <1>2, ElementOfSeq
  <2>2. \A k \in DOMAIN jobs : jobs[k].at \in {"waiting", "working", "done", "helper"}
    BY <2>1 DEF JobShape
  <2> QED
    BY <1>1, <2>2 DEF App, BusyOK, LockHeld
<1>6. CaptureShared
  BY <1>1 DEF CaptureShared, CaptureOK, Threads
<1>7. ConnectingHasACause
  BY <1>1, <1>2 DEF ConnectingHasACause, Cause, Causes, Queued
<1>8. ConnectionShown
  <2> SUFFICES ASSUME inbox = <<>>, ~screen.missed PROVE screen.shown = airplay.device
    BY DEF ConnectionShown
  <2>1. Len(inbox) = 0
    BY EmptySeq
  <2> QED
    BY <1>1, <2>1 DEF Word, LastWord, ShownDevice
<1>9. NoThreadLost
  BY <1>1 DEF NoThreadLost, ThreadsKept, Untold, Held
<1>10. WaitsEnd
  BY <1>1, <1>2 DEF WaitsEnd, ThreadsKept, Untold, Held, LockHeld
<1> QED
  BY <1>3, <1>4, <1>5, <1>6, <1>7, <1>8, <1>9, <1>10 DEF TerminalSafe, TerminalTypeOK

\* The terminal client's event loop: a display that says "connecting" has an end
\* coming, a loop at rest shows the device the client has, no capture thread is
\* left running out of everyone's hands, and every wait is for something that
\* was told to end, whatever jobs, time-outs and key presses come in between.
THEOREM TerminalKeepsUp == TerminalSpec => []TerminalSafe
<1>1. TerminalSpec => []TerminalInv
  BY TerminalInitially, TerminalStep, PTL DEF TerminalSpec
<1> QED
  BY <1>1, TerminalPromise, PTL

-----------------------------------------------------------------------------
(* The session window.                                                     *)

ShellSpec == ShellInit /\ [][ShellNext]_shellVars

PhaseKinds == {"Starting", "Streaming", "Degraded", "Restarting", "Stopped"}

\* What travels to the shell, and what is waiting in the echo.
MailShape ==
  [type : SessionTypes \cup {"Closed", "GroupDone", "Reading"}, gen : Nat, request : Nat,
   status : {None, "Succeeded", "Failed"} \cup Nat, config : BOOLEAN]
Sendings == {"ok", "Busy", "Closed", "never"}
CallShape == [fx : DeviceCommand, sent : Sendings]
SlotShape == [request : Nat, gen : Nat, sent : Sendings]
ToneShape == [gen : Nat, sent : Sendings]
SnapshotFits(snap) ==
  /\ DOMAIN snap = {"phase", "reading", "group", "tone"}
  /\ snap.phase.kind \in {"Starting", "Streaming", "Degraded", "Restarting", "Stopped"}
  /\ snap.reading \in Nat /\ snap.group.status \in {None, "Succeeded", "Failed"}

AppFields == {"stream", "gen", "request", "operation", "closed", "quitting", "reading", "fx", "check"}
Fields(s) == DOMAIN s = AppFields /\ s.gen \in Nat /\ s.request \in Nat /\ s.fx \in Seq(DeviceCommand)

ShellTyped ==
  /\ Fields(shell)
  /\ in_call \in {Absent} \cup CallShape
  /\ events \in Seq(MailShape) /\ outbox \in Seq(MailShape)
  /\ DOMAIN edge = {"gen", "kind", "floor"} /\ edge.gen \in Nat
  /\ group_slot \in {Absent} \cup SlotShape /\ tone_slot \in {Absent} \cup ToneShape
  /\ DOMAIN projected = {"session", "reading", "closed"}
  /\ projected.session # Absent => projected.session.gen \in Nat
  /\ SnapshotFits(snapshot) /\ (pass # Absent => SnapshotFits(pass.snap))

\* The commands the actor has not recorded yet.
Unrecorded ==
  {shell.fx[i] : i \in 1..Len(shell.fx)} \cup (IF in_call = Absent THEN {} ELSE {in_call.fx})

\* A command that will be recorded as the newest session edge.
Numbered(c) == c.op # "tone" /\ c.gen # 0

\* A command is of a press that was made, and the newest press is what the window
\* waits for.
Fits(c, s) ==
  /\ c.gen <= s.gen
  /\ c.gen = s.gen /\ s.stream.kind = "Starting" => c.op \in {"start", "group"}
  /\ c.gen = s.gen /\ s.stream.kind = "Stopping" => c.op \in {"stop", "tone"}
CommandFits(c) == Fits(c, shell)
Waits(s) == s.stream.kind \in {"Starting", "Stopping"}

\* Edges are recorded in the order of their generations.
EdgesRise ==
  /\ \A i, j \in 1..Len(shell.fx) :
       i < j /\ Numbered(shell.fx[i]) /\ Numbered(shell.fx[j]) =>
         shell.fx[i].gen < shell.fx[j].gen
  /\ in_call # Absent /\ Numbered(in_call.fx) =>
       \A i \in 1..Len(shell.fx) : Numbered(shell.fx[i]) => in_call.fx.gen < shell.fx[i].gen
  /\ \A c \in Unrecorded : Numbered(c) => edge.gen < c.gen

EdgeFits ==
  /\ edge.gen <= shell.gen
  /\ edge.gen = shell.gen =>
       /\ shell.stream.kind = "Starting" =>
            edge.kind \in {"Start", "PendingGroup", "ConfirmedGroup", "Rejected"}
       /\ shell.stream.kind = "Stopping" => edge.kind \in {"Stop", "Rejected"}

\* A refused edge stays refused, and a group's slot is none of a stop.
SlotsFit ==
  /\ group_slot # Absent =>
       /\ group_slot.gen <= edge.gen
       /\ group_slot.gen = edge.gen /\ group_slot.gen # 0 =>
            /\ edge.kind = "Rejected" => group_slot.sent # "ok"
            /\ edge.gen = shell.gen => shell.stream.kind # "Stopping"
  /\ tone_slot # Absent =>
       /\ tone_slot.gen <= shell.gen
       /\ tone_slot.gen = shell.gen => shell.stream.kind # "Starting"

Past(q, g) == \A i \in 1..Len(q) : q[i].gen <= g
NothingFromTheFuture ==
  /\ Past(events, shell.gen) /\ Past(outbox, shell.gen)
  /\ projected.session # Absent => projected.session.gen <= edge.gen
  /\ Waits(shell) => shell.gen # 0

\* What settles a wait, and what would snap the window back.
Settles(kind) == IF kind = "Stopping" THEN {"Stopped"} ELSE {"Streaming", "Degraded", "Restarting"}
SnapsBack(kind) == IF kind = "Stopping" THEN {"Streaming", "Degraded"} ELSE {"Stopped", "Failed"}

Brings(q, g, types) == \E i \in 1..Len(q) : q[i].gen = g /\ q[i].type \in types
\* Nothing of a wait is taken back before it is settled.
InTurn(q, g, first, later) ==
  \A i \in 1..Len(q) : q[i].gen = g /\ q[i].type \in later =>
    \E j \in 1..(i - 1) : q[j].gen = g /\ q[j].type \in first

Awaited ==
  /\ Waits(shell)
  /\ ~(edge.gen = shell.gen /\ edge.kind = "Rejected")

\* On the way to the window, the newest press is settled before it is answered by
\* anything else.
AnswersInTurn ==
  LET kind == shell.stream.kind
      settling == Brings(events, shell.gen, Settles(kind))
  IN  Awaited =>
        /\ InTurn(events, shell.gen, Settles(kind), SnapsBack(kind))
        /\ settling \/ InTurn(outbox, shell.gen, Settles(kind), SnapsBack(kind))
        /\ projected.session # Absent /\ projected.session.gen = shell.gen =>
             settling \/ Brings(outbox, shell.gen, Settles(kind))

EchoInv ==
  /\ ShellTyped /\ (\A c \in Unrecorded : CommandFits(c)) /\ EdgesRise /\ EdgeFits
  /\ SlotsFit /\ NothingFromTheFuture /\ AnswersInTurn

-----------------------------------------------------------------------------
(* What one event does to the state of the reducer.                        *)

\* The session and its generation stay, and no effect is added.
Rests(s, t) == t.gen = s.gen /\ t.stream = s.stream /\ t.fx = s.fx

\* A press takes the next generation.
TakesPress(s, t) ==
  /\ t.gen = s.gen + 1
  /\ \E c \in DeviceCommand :
       /\ t.fx = Append(s.fx, c) /\ c.gen = s.gen + 1
       /\ \/ t.stream.kind = "Starting" /\ c.op \in {"start", "group"}
          \/ t.stream.kind = "Stopping" /\ c.op = "stop"

\* A group operation without a start.
Posts(s, t) ==
  /\ t.gen = s.gen /\ t.stream = s.stream
  /\ \E c \in DeviceCommand : t.fx = Append(s.fx, c) /\ c.gen = 0 /\ c.op \in {"group", "save"}

\* An edge of the newest press is shown.
ShowsPhase(s, t, e) ==
  /\ e.type \in SessionTypes /\ e.gen = s.gen
  /\ t.gen = s.gen /\ t.fx = s.fx
  /\ t.stream.kind = IF e.type \in {"Stopped", "Failed"} THEN "Stopped" ELSE e.type

\* A tone is asked for in the session that streams.
Sounds(s, t) ==
  /\ t.gen = s.gen /\ t.stream = s.stream /\ t.stream.kind = "Streaming"
  /\ \E c \in DeviceCommand : t.fx = Append(s.fx, c) /\ c.gen = s.gen /\ c.op = "tone"

LEMMA RaiseMoves ==
  ASSUME NEW s, Fields(s), NEW kind, NEW op \in {"start", "stop"},
         kind = (IF op = "start" THEN "Starting" ELSE "Stopping")
  PROVE  Fields(Raise(s, kind, op)) /\ TakesPress(s, Raise(s, kind, op))
<1> DEFINE c == [op |-> op, gen |-> s.gen + 1, request |-> 0]
<1> DEFINE t == Raise(s, kind, op)
<1>1. c \in DeviceCommand /\ c.gen = s.gen + 1 /\ c.op = op
  BY DEF DeviceCommand, Fields
<1>2. /\ DOMAIN t = AppFields /\ t.gen = s.gen + 1 /\ t.request = s.request
      /\ t.stream = [kind |-> kind, gen |-> s.gen + 1] /\ t.fx = Append(s.fx, c)
  BY DEF Raise, Fields, AppFields, Stream, State
<1> HIDE DEF c, t
<1>3. t.fx \in Seq(DeviceCommand)
  BY <1>1, <1>2, AppendProperties DEF Fields
<1>4. Fields(t)
  BY <1>2, <1>3 DEF Fields
<1>5. TakesPress(s, t)
  BY <1>1, <1>2 DEF TakesPress
<1> QED BY <1>4, <1>5 DEF t

LEMMA CheckMoves ==
  ASSUME NEW s, Fields(s), NEW phase, NEW outcome
  PROVE  Fields(Check(s, phase, outcome)) /\ Rests(s, Check(s, phase, outcome))
<1> DEFINE t == Check(s, phase, outcome)
<1>1. DOMAIN t = AppFields /\ t.gen = s.gen /\ t.request = s.request /\ t.stream = s.stream /\ t.fx = s.fx
  BY DEF Check, Fields, AppFields
<1> QED BY <1>1 DEF Fields, Rests

LEMMA StopMoves ==
  ASSUME NEW s, Fields(s)
  PROVE  /\ Fields(StopRequested(s))
         /\ Rests(s, StopRequested(s)) \/ TakesPress(s, StopRequested(s))
<1>1. CASE IsRunning(s)
  <2>1. StopRequested(s) = Raise(s, "Stopping", "stop")
    BY <1>1 DEF StopRequested
  <2> QED BY <2>1, RaiseMoves
<1>2. CASE ~IsRunning(s)
  BY <1>2 DEF StopRequested, Rests
<1> QED BY <1>1, <1>2

LEMMA StartMoves ==
  ASSUME NEW s, Fields(s)
  PROVE  /\ Fields(StartRequested(s))
         /\ Rests(s, StartRequested(s)) \/ TakesPress(s, StartRequested(s))
<1>1. CASE s.quitting \/ s.stream.kind # "Stopped"
  BY <1>1 DEF StartRequested, Rests
<1>2. CASE ~(s.quitting \/ s.stream.kind # "Stopped")
  <2>1. StartRequested(s) = Raise(s, "Starting", "start")
    BY <1>2 DEF StartRequested
  <2> QED BY <2>1, RaiseMoves
<1> QED BY <1>1, <1>2

LEMMA ForceMoves ==
  ASSUME NEW s, Fields(s)
  PROVE  /\ Fields(ForceStop(s))
         /\ Rests(s, ForceStop(s)) \/ (TakesPress(s, ForceStop(s)) /\ ForceStop(s).stream.kind = "Stopping")
<1> DEFINE t == Raise(s, "Stopping", "stop")
<1>1. Fields(t) /\ TakesPress(s, t)
  BY RaiseMoves
<1>2. t.stream.kind = "Stopping"
  BY DEF Raise, Fields, AppFields, Stream, State
<1>3. ForceStop(s) \in {s, t}
  BY DEF ForceStop, StopRequested
<1> HIDE DEF t
<1> QED BY <1>1, <1>2, <1>3 DEF Rests

LEMMA GroupMoves ==
  ASSUME NEW s, Fields(s), NEW start \in BOOLEAN
  PROVE  LET t == GroupRequested(s, start)
         IN  Fields(t) /\ (Rests(s, t) \/ TakesPress(s, t) \/ Posts(s, t))
<1> DEFINE t == GroupRequested(s, start)
<1> DEFINE posted == [s EXCEPT !.request = @ + 1,
                      !.operation = IF s.closed THEN "Failed" ELSE "Pending"]
<1> DEFINE starts == start /\ s.stream.kind \in {"Stopped", "Stopping"}
<1> DEFINE c == [op |-> IF start THEN "group" ELSE "save",
                 gen |-> IF starts THEN s.gen + 1 ELSE 0, request |-> s.request + 1]
<1>1. CASE s.quitting \/ Pending(s)
  BY <1>1 DEF GroupRequested, Rests
<1>2. /\ DOMAIN posted = AppFields /\ posted.gen = s.gen /\ posted.stream = s.stream
      /\ posted.fx = s.fx /\ posted.request = s.request + 1
  BY DEF Fields, AppFields
<1>3. CASE ~(s.quitting \/ Pending(s)) /\ s.closed
  <2>1. t = posted
    BY <1>3 DEF GroupRequested
  <2> HIDE DEF t, posted
  <2> QED BY <1>2, <2>1 DEF Fields, Rests, t
<1>4. CASE ~(s.quitting \/ Pending(s)) /\ ~s.closed
  <2>1. t = [posted EXCEPT
                   !.gen = IF starts THEN @ + 1 ELSE @,
                   !.stream = IF starts THEN Stream("Starting", s.gen + 1) ELSE @,
                   !.fx = Append(@, c)]
    BY <1>4 DEF GroupRequested
  <2>2. /\ c \in DeviceCommand /\ c.op = (IF start THEN "group" ELSE "save")
        /\ c.gen = IF starts THEN s.gen + 1 ELSE 0
    BY DEF DeviceCommand, Fields
  <2> HIDE DEF posted, c, t, starts
  <2>3. /\ DOMAIN t = AppFields /\ t.gen = (IF starts THEN s.gen + 1 ELSE s.gen)
        /\ t.stream = (IF starts THEN Stream("Starting", s.gen + 1) ELSE s.stream)
        /\ t.fx = Append(s.fx, c) /\ t.request = s.request + 1
    BY <1>2, <2>1 DEF AppFields
  <2>4. t.fx \in Seq(DeviceCommand)
    BY <2>2, <2>3, AppendProperties DEF Fields
  <2>5. Fields(t)
    BY <2>3, <2>4 DEF Fields
  <2>6. CASE starts
    <3>1. start /\ t.stream.kind = "Starting"
      BY <2>3, <2>6 DEF starts, Stream, State
    <3> QED BY <2>2, <2>3, <2>5, <2>6, <3>1 DEF TakesPress, t
  <2>7. CASE ~starts
    BY <2>2, <2>3, <2>5, <2>7 DEF Posts, t
  <2> QED BY <2>6, <2>7
<1> QED BY <1>1, <1>3, <1>4

\* Whatever is written to the other fields.
LEMMA RestCarries ==
  ASSUME NEW s, NEW r, NEW t, Rests(r, t)
  PROVE  /\ Rests(s, r) => Rests(s, t)
         /\ TakesPress(s, r) => TakesPress(s, t)
BY DEF Rests, TakesPress

Annotated(s, t) == DOMAIN t = AppFields /\ t.request = s.request /\ Rests(s, t)

LEMMA AnnotationRests ==
  ASSUME NEW s, Fields(s), NEW t, Annotated(s, t)
  PROVE  Fields(t) /\ Rests(s, t)
BY DEF Fields, Annotated, Rests

LEMMA HandledMoves ==
  ASSUME NEW s, Fields(s), NEW e
  PROVE  LET t == Handled(s, e)
         IN  /\ Fields(t) /\ (Rests(s, t) \/ TakesPress(s, t) \/ Posts(s, t) \/ ShowsPhase(s, t, e))
             /\ e.type \in SessionTypes /\ e.gen = s.gen => ShowsPhase(s, t, e)
<1> DEFINE t == Handled(s, e)
<1>1. Fields(s) /\ Rests(s, s)
  BY DEF Rests
<1>2. ASSUME e.type = "PressStart"
      PROVE  Fields(t) /\ (Rests(s, t) \/ TakesPress(s, t) \/ Posts(s, t))
  <2>1. t = StartRequested(s)
    BY <1>2 DEF Handled, SessionTypes
  <2> QED BY <2>1, StartMoves
<1>3. ASSUME e.type = "PressStop"
      PROVE  Fields(t) /\ (Rests(s, t) \/ TakesPress(s, t) \/ Posts(s, t))
  <2>1. t = StopRequested(s)
    BY <1>3 DEF Handled, SessionTypes
  <2> QED BY <2>1, StopMoves
<1>4. ASSUME e.type = "Hotkey"
      PROVE  Fields(t) /\ (Rests(s, t) \/ TakesPress(s, t) \/ Posts(s, t))
  <2>1. t \in {s, StopRequested(s), StartRequested(s)}
    BY <1>4 DEF Handled, SessionTypes, GlobalHotkeyPressed
  <2> QED BY <2>1, <1>1, StopMoves, StartMoves
<1>5. ASSUME e.type \in {"GroupStart", "GroupSave"}
      PROVE  Fields(t) /\ (Rests(s, t) \/ TakesPress(s, t) \/ Posts(s, t))
  <2>1. t = GroupRequested(s, TRUE) \/ t = GroupRequested(s, FALSE)
    BY <1>5 DEF Handled, SessionTypes
  <2> QED BY <2>1, GroupMoves
<1>6. ASSUME e.type = "Quit"
      PROVE  Fields(t) /\ (Rests(s, t) \/ TakesPress(s, t) \/ Posts(s, t))
  <2>1. t = s \/ t = [StopRequested(s) EXCEPT !.quitting = TRUE]
    BY <1>6 DEF Handled, SessionTypes, QuitRequested
  <2>2. CASE t = s
    BY <2>2, <1>1
  <2>3. CASE t = [StopRequested(s) EXCEPT !.quitting = TRUE]
    <3> DEFINE r == StopRequested(s)
    <3>1. Fields(r) /\ (Rests(s, r) \/ TakesPress(s, r))
      BY StopMoves
    <3>2. t = [r EXCEPT !.quitting = TRUE]
      BY <2>3
    <3> HIDE DEF r, t
    <3>3. Annotated(r, t)
      BY <3>1, <3>2 DEF Annotated, Rests, Fields, AppFields
    <3>4. Fields(t) /\ Rests(r, t)
      BY <3>1, <3>3, AnnotationRests
    <3> QED BY <3>1, <3>4, RestCarries DEF t
  <2> QED BY <2>1, <2>2, <2>3
<1>7. ASSUME e.type = "Prepare"
      PROVE  Fields(t) /\ (Rests(s, t) \/ TakesPress(s, t) \/ Posts(s, t))
  <2>1. t = s \/ t = [s EXCEPT !.check.prepared = TRUE]
    BY <1>7 DEF Handled, SessionTypes, CheckPrepare
  <2> HIDE DEF t
  <2>2. Annotated(s, t)
    BY <2>1 DEF Annotated, Rests, Fields, AppFields
  <2> QED BY <2>2, AnnotationRests DEF t
<1>8. ASSUME e.type = "CheckStart"
      PROVE  Fields(t) /\ (Rests(s, t) \/ TakesPress(s, t) \/ Posts(s, t))
  <2> DEFINE r == Check(StartRequested(s), "Connecting", None)
  <2>1. t = s \/ t = [r EXCEPT !.check.bound = s.reading]
    BY <1>8 DEF Handled, SessionTypes, CheckStart
  <2>2. CASE t = s
    BY <2>2, <1>1
  <2>3. CASE t = [r EXCEPT !.check.bound = s.reading]
    <3>1. Fields(StartRequested(s)) /\ (Rests(s, StartRequested(s)) \/ TakesPress(s, StartRequested(s)))
      BY StartMoves
    <3>2. Fields(r) /\ Rests(StartRequested(s), r)
      BY <3>1, CheckMoves
    <3>3. Rests(s, r) \/ TakesPress(s, r)
      BY <3>1, <3>2, RestCarries
    <3> HIDE DEF r, t
    <3>4. Annotated(r, t)
      BY <3>2, <2>3 DEF Annotated, Rests, Fields, AppFields
    <3>5. Fields(t) /\ Rests(r, t)
      BY <3>2, <3>4, AnnotationRests
    <3> QED BY <3>3, <3>5, RestCarries DEF t
  <2> QED BY <2>1, <2>2, <2>3
<1>9. ASSUME e.type \in {"Heard", "NotHeard", "Cancel"}
      PROVE  Fields(t) /\ (Rests(s, t) \/ TakesPress(s, t) \/ Posts(s, t))
  <2>1. t = s \/ \E o : t = Check(StopRequested(s), "StopPending", o)
    BY <1>9 DEF Handled, SessionTypes, CheckHeard, CheckCancel
  <2>2. Fields(StopRequested(s)) /\ (Rests(s, StopRequested(s)) \/ TakesPress(s, StopRequested(s)))
    BY StopMoves
  <2>3. ASSUME NEW o, t = Check(StopRequested(s), "StopPending", o)
        PROVE  Fields(t) /\ (Rests(s, t) \/ TakesPress(s, t))
    BY <2>2, <2>3, CheckMoves, RestCarries
  <2> QED BY <2>1, <2>3, <1>1
<1>10. ASSUME e.type \in SessionTypes
       PROVE  /\ Fields(t) /\ (Rests(s, t) \/ ShowsPhase(s, t, e))
              /\ e.gen = s.gen => ShowsPhase(s, t, e)
  <2>1. t = SessionEvent(s, e)
    BY <1>10 DEF Handled, SessionTypes
  <2>2. CASE e.gen # s.gen
    BY <2>1, <2>2, <1>1 DEF SessionEvent
  <2>3. CASE e.gen = s.gen
    <3> DEFINE stream == IF e.type \in {"Stopped", "Failed"}
                         THEN Stream("Stopped", 0) ELSE Stream(e.type, e.gen)
    <3>1. t = [s EXCEPT !.stream = stream]
      BY <2>1, <2>3 DEF SessionEvent
    <3>2. stream.kind = IF e.type \in {"Stopped", "Failed"} THEN "Stopped" ELSE e.type
      BY DEF Stream, State
    <3> HIDE DEF t, stream
    <3>3. DOMAIN t = AppFields /\ t.gen = s.gen /\ t.request = s.request /\ t.fx = s.fx /\ t.stream = stream
      BY <3>1 DEF Fields, AppFields
    <3>4. Fields(t)
      BY <3>3 DEF Fields
    <3>5. ShowsPhase(s, t, e)
      BY <1>10, <2>3, <3>2, <3>3 DEF ShowsPhase
    <3> QED BY <3>4, <3>5 DEF t
  <2> QED BY <2>2, <2>3
<1>11. ASSUME e.type \in {"Closed", "GroupDone", "Reading"}
       PROVE  Fields(t) /\ (Rests(s, t) \/ TakesPress(s, t) \/ Posts(s, t))
  <2>1. \/ t = s \/ t = [s EXCEPT !.reading = e.status] \/ t = [s EXCEPT !.operation = e.status]
        \/ \E op : t = [s EXCEPT !.closed = TRUE, !.operation = op]
    BY <1>11 DEF Handled, ChannelClosed, GroupOperationFinished, SessionTypes
  <2> HIDE DEF t
  <2>2. Annotated(s, t)
    BY <2>1 DEF Annotated, Rests, Fields, AppFields
  <2> QED BY <2>2, AnnotationRests DEF t
<1>12. ASSUME e.type \notin {"PressStart", "PressStop", "Hotkey", "GroupStart", "GroupSave", "Quit",
                           "Prepare", "CheckStart", "Heard", "NotHeard", "Cancel", "Closed",
                           "GroupDone", "Reading"} \cup SessionTypes
       PROVE  Fields(t) /\ (Rests(s, t) \/ TakesPress(s, t) \/ Posts(s, t))
  <2>1. t = s
    BY <1>12 DEF Handled, SessionTypes
  <2> QED BY <2>1, <1>1
<1>13. Fields(t) /\ (Rests(s, t) \/ TakesPress(s, t) \/ Posts(s, t) \/ ShowsPhase(s, t, e))
  BY <1>2, <1>3, <1>4, <1>5, <1>6, <1>7, <1>8, <1>9, <1>10, <1>11, <1>12
<1>14. e.type \in SessionTypes /\ e.gen = s.gen => ShowsPhase(s, t, e)
  BY <1>10
<1> QED BY <1>13, <1>14

LEMMA ObserveMoves ==
  ASSUME NEW s, Fields(s), NEW e
  PROVE  LET t == Observe(s, e)
         IN  /\ Fields(t)
             /\ \/ Rests(s, t) \/ Sounds(s, t)
                \/ TakesPress(s, t) /\ t.stream.kind = "Stopping"
<1> DEFINE t == Observe(s, e)
<1> DEFINE tone == [op |-> "tone", gen |-> s.gen, request |-> 0]
<1> DEFINE ended == Check(ForceStop(s), "StopPending", None)
<1>1. CASE t = ended
  <2>1. /\ Fields(ForceStop(s))
        /\ Rests(s, ForceStop(s)) \/ (TakesPress(s, ForceStop(s)) /\ ForceStop(s).stream.kind = "Stopping")
    BY ForceMoves
  <2>2. Fields(ended) /\ Rests(ForceStop(s), ended)
    BY <2>1, CheckMoves
  <2>3. ended.stream = ForceStop(s).stream
    BY <2>2 DEF Rests
  <2> HIDE DEF t, ended
  <2> QED BY <1>1, <2>1, <2>2, <2>3, RestCarries DEF t
<1>2. CASE t.fx = s.fx /\ Annotated(s, t)
  BY <1>2, AnnotationRests
<1>3. CASE /\ s.stream.kind = "Streaming" /\ DOMAIN t = AppFields /\ t.gen = s.gen
           /\ t.request = s.request /\ t.stream = s.stream /\ t.fx = Append(s.fx, tone)
  <2>1. tone \in DeviceCommand /\ tone.gen = s.gen /\ tone.op = "tone"
    BY DEF DeviceCommand, Fields
  <2> HIDE DEF t, tone
  <2>2. t.fx \in Seq(DeviceCommand)
    BY <1>3, <2>1, AppendProperties DEF Fields
  <2>3. Fields(t) /\ Sounds(s, t)
    BY <1>3, <2>1, <2>2 DEF Fields, Sounds
  <2> QED BY <2>3 DEF t
<1>4. CASE s.check.phase \in {"Connecting", "Listening"}
  <2>1. \/ t = ended \/ t = s
        \/ /\ s.stream.kind = "Streaming"
           /\ t = [s EXCEPT !.check.phase = "Listening",
                          !.fx = IF s.check.phase = "Listening" THEN @ ELSE Append(@, tone)]
    BY <1>4 DEF Observe
  <2>2. CASE t = s
    BY <2>2, <1>2 DEF Annotated, Fields, Rests
  <2>3. CASE /\ s.stream.kind = "Streaming"
             /\ t = [s EXCEPT !.check.phase = "Listening",
                          !.fx = IF s.check.phase = "Listening" THEN @ ELSE Append(@, tone)]
    <3> HIDE DEF t, tone
    <3>1. /\ DOMAIN t = AppFields /\ t.gen = s.gen /\ t.request = s.request /\ t.stream = s.stream
          /\ t.fx \in {s.fx, Append(s.fx, tone)}
      BY <2>3 DEF Fields, AppFields
    <3> QED BY <1>2, <1>3, <2>3, <3>1 DEF Annotated, Rests
  <2> QED BY <1>1, <2>1, <2>2, <2>3
<1>5. CASE s.check.phase = "StopPending"
  <2> DEFINE c == IF e.config \/ Fault(s, e) \/ ~Matches(s) THEN None ELSE s.check.outcome
  <2> DEFINE judged == [s EXCEPT !.check.outcome = c]
  <2>1. t = judged \/ \E p : t = [judged EXCEPT !.check.prepared = FALSE, !.check.phase = p]
    BY <1>5 DEF Observe
  <2> HIDE DEF t, c
  <2>2. t.fx = s.fx /\ Annotated(s, t)
    BY <2>1 DEF Annotated, Rests, Fields, AppFields
  <2> QED BY <1>2, <2>2
<1>6. CASE s.check.phase \notin {"Connecting", "Listening", "StopPending"}
  <2>1. t = s \/ t = [s EXCEPT !.check.phase = "Invalidated"]
    BY <1>6 DEF Observe
  <2> HIDE DEF t
  <2>2. t.fx = s.fx /\ Annotated(s, t)
    BY <2>1 DEF Annotated, Rests, Fields, AppFields
  <2> QED BY <1>2, <2>2
<1> QED BY <1>4, <1>5, <1>6

\* What a rested actor makes of one event: its effects are of the presses it raised,
\* in their order, and the session moves by a press or by an edge of the newest one.
ShowsEdge(s, t, e) ==
  /\ e.type \in SessionTypes /\ e.gen = s.gen
  /\ t.stream.kind = IF e.type \in {"Stopped", "Failed"} THEN "Stopped" ELSE e.type
Reduced(s, t, e) ==
  /\ t.gen >= s.gen
  /\ t.gen > s.gen => Waits(t)
  /\ t.gen = s.gen => t.stream = s.stream \/ ShowsEdge(s, t, e)
  /\ t.gen = s.gen /\ e.type \in SessionTypes /\ e.gen = s.gen => ShowsEdge(s, t, e)
  /\ \A i \in 1..Len(t.fx) : Fits(t.fx[i], t) /\ (Numbered(t.fx[i]) => s.gen < t.fx[i].gen)
  /\ \A i, j \in 1..Len(t.fx) :
       i < j /\ Numbered(t.fx[i]) /\ Numbered(t.fx[j]) => t.fx[i].gen < t.fx[j].gen

Blocked(s, e) ==
  s.check.phase = "StopPending" /\ e.type \in {"PressStart", "Hotkey", "GroupStart"}

LEMMA OneMore ==
  ASSUME NEW q \in Seq(DeviceCommand), NEW c \in DeviceCommand
  PROVE  /\ Append(q, c) \in Seq(DeviceCommand) /\ Len(Append(q, c)) = Len(q) + 1
         /\ Append(q, c)[Len(q) + 1] = c /\ \A i \in 1..Len(q) : Append(q, c)[i] = q[i]
BY AppendProperties

LEMMA ReduceMoves ==
  ASSUME NEW s, Fields(s), s.fx = <<>>, Waits(s) => s.gen # 0, NEW e
  PROVE  Fields(Reduce(s, e)) /\ Reduced(s, Reduce(s, e), e)
<1> DEFINE t == Handled(s, e)
<1> DEFINE u == Observe(t, e)
<1>0. s.gen \in Nat /\ Len(<<>>) = 0 /\ 1..0 = {} /\ 1..1 = {1} /\ 1..2 = {1, 2}
  BY DEF Fields
<1>1. CASE Blocked(s, e)
  <2>0. Reduce(s, e) = s
    BY <1>1 DEF Reduce, Blocked
  <2>1. s.gen >= s.gen
    BY <1>0
  <2>2. e.type \notin SessionTypes
    BY <1>1 DEF Blocked, SessionTypes
  <2> QED BY <1>0, <2>0, <2>1, <2>2 DEF Reduced, Waits
<1>2. CASE ~Blocked(s, e)
  <2>1. Reduce(s, e) = u
    BY <1>2 DEF Reduce, Blocked
  <2>2. /\ Fields(t) /\ (Rests(s, t) \/ TakesPress(s, t) \/ Posts(s, t) \/ ShowsPhase(s, t, e))
        /\ e.type \in SessionTypes /\ e.gen = s.gen => ShowsPhase(s, t, e)
    BY HandledMoves
  <2>3. Fields(u) /\ (Rests(t, u) \/ Sounds(t, u) \/ (TakesPress(t, u) /\ u.stream.kind = "Stopping"))
    BY <2>2, ObserveMoves
  <2> HIDE DEF t, u
  <2>4. /\ t.gen \in Nat /\ u.gen \in Nat /\ t.fx \in Seq(DeviceCommand) /\ u.fx \in Seq(DeviceCommand)
    BY <2>2, <2>3 DEF Fields
  \* What the handler adds.
  <2>5. /\ t.gen \in {s.gen, s.gen + 1}
        /\ t.gen = s.gen + 1 => Waits(t)
        /\ t.gen = s.gen => t.stream = s.stream \/ ShowsPhase(s, t, e)
        /\ \/ t.fx = <<>>
           \/ \E c \in DeviceCommand :
                /\ t.fx = <<c>>
                /\ \/ c.gen = 0 /\ c.op # "tone"
                   \/ /\ c.gen = s.gen + 1 /\ t.gen = s.gen + 1 /\ Fits(c, t) /\ c.op # "tone"
    <3>1. CASE Rests(s, t)
      BY <1>0, <3>1 DEF Rests
    <3>2. CASE TakesPress(s, t)
      <4>1. PICK c \in DeviceCommand :
               /\ t.fx = Append(s.fx, c) /\ c.gen = s.gen + 1
               /\ \/ t.stream.kind = "Starting" /\ c.op \in {"start", "group"}
                  \/ t.stream.kind = "Stopping" /\ c.op = "stop"
        BY <3>2 DEF TakesPress
      <4>2. t.fx = <<c>> /\ c.op # "tone" /\ t.gen = s.gen + 1
        BY <3>2, <4>1 DEF TakesPress
      <4>3. Fits(c, t) /\ Waits(t)
        BY <1>0, <4>1, <4>2 DEF Fits, Waits
      <4> QED BY <1>0, <4>1, <4>2, <4>3
    <3>3. CASE Posts(s, t)
      <4>1. PICK c \in DeviceCommand : t.fx = Append(s.fx, c) /\ c.gen = 0 /\ c.op \in {"group", "save"}
        BY <3>3 DEF Posts
      <4>2. t.fx = <<c>>
        BY <4>1
      <4> QED BY <3>3, <1>0, <4>1, <4>2 DEF Posts
    <3>4. CASE ShowsPhase(s, t, e)
      BY <1>0, <3>4 DEF ShowsPhase
    <3> QED BY <2>2, <3>1, <3>2, <3>3, <3>4
  \* What the hearing test adds.
  <2>6. /\ u.gen \in {t.gen, t.gen + 1}
        /\ u.gen = t.gen + 1 => u.stream.kind = "Stopping"
        /\ u.gen = t.gen => u.stream = t.stream
        /\ \/ u.fx = t.fx
           \/ \E d \in DeviceCommand :
                /\ u.fx = Append(t.fx, d) /\ Fits(d, u)
                /\ d.op # "tone" => d.gen = t.gen + 1 /\ u.gen = t.gen + 1
    <3>1. CASE Rests(t, u)
      BY <2>4, <3>1 DEF Rests
    <3>2. CASE Sounds(t, u)
      <4>1. PICK d \in DeviceCommand : u.fx = Append(t.fx, d) /\ d.gen = t.gen /\ d.op = "tone"
        BY <3>2 DEF Sounds
      <4>2. u.gen = t.gen /\ u.stream = t.stream /\ u.stream.kind = "Streaming"
        BY <3>2 DEF Sounds
      <4>3. Fits(d, u)
        BY <2>4, <4>1, <4>2 DEF Fits
      <4> QED BY <2>4, <4>1, <4>2, <4>3
    <3>3. CASE TakesPress(t, u) /\ u.stream.kind = "Stopping"
      <4>1. PICK d \in DeviceCommand :
               u.fx = Append(t.fx, d) /\ d.gen = t.gen + 1 /\ (u.stream.kind = "Stopping" => d.op = "stop")
        BY <3>3 DEF TakesPress
      <4>2. u.gen = t.gen + 1
        BY <3>3 DEF TakesPress
      <4>3. Fits(d, u)
        BY <2>4, <3>3, <4>1, <4>2 DEF Fits
      <4> QED BY <2>4, <3>3, <4>1, <4>2, <4>3
    <3> QED BY <2>3, <3>1, <3>2, <3>3
  <2>7. u.gen >= s.gen /\ (u.gen > s.gen => Waits(u))
    BY <1>0, <2>4, <2>5, <2>6 DEF Waits
  <2>8. /\ u.gen = s.gen => u.stream = s.stream \/ ShowsEdge(s, u, e)
        /\ u.gen = s.gen /\ e.type \in SessionTypes /\ e.gen = s.gen => ShowsEdge(s, u, e)
    <3>1. u.gen = s.gen => t.gen = s.gen /\ u.stream = t.stream
      BY <1>0, <2>4, <2>5, <2>6
    <3>2. ShowsPhase(s, t, e) /\ u.stream = t.stream => ShowsEdge(s, u, e)
      BY DEF ShowsPhase, ShowsEdge
    <3> QED BY <2>2, <2>5, <3>1, <3>2
  <2>9. /\ \A i \in 1..Len(u.fx) : Fits(u.fx[i], u) /\ (Numbered(u.fx[i]) => s.gen < u.fx[i].gen)
        /\ \A i, j \in 1..Len(u.fx) :
             i < j /\ Numbered(u.fx[i]) /\ Numbered(u.fx[j]) => u.fx[i].gen < u.fx[j].gen
    <3>0. Waits(u) => u.gen # 0
      BY <1>0, <2>4, <2>5, <2>6 DEF Waits, ShowsPhase, SessionTypes
    <3>1. ASSUME NEW c \in DeviceCommand, t.fx = <<c>>,
                 \/ c.gen = 0 /\ c.op # "tone"
                 \/ c.gen = s.gen + 1 /\ t.gen = s.gen + 1 /\ Fits(c, t) /\ c.op # "tone"
          PROVE  Fits(c, u) /\ (Numbered(c) => s.gen < c.gen /\ c.gen <= t.gen)
      <4>1. CASE c.gen = 0
        BY <2>4, <3>0, <4>1 DEF Fits, Waits, Numbered
      <4>2. CASE c.gen # 0
        <5>1. c.gen = s.gen + 1 /\ t.gen = s.gen + 1 /\ Fits(c, t)
          BY <3>1, <4>2
        <5>2. CASE u.gen = t.gen
          BY <1>0, <2>6, <5>1, <5>2 DEF Fits, Numbered
        <5>3. CASE u.gen = t.gen + 1
          BY <1>0, <5>1, <5>3 DEF Fits, Numbered
        <5> QED BY <2>6, <5>2, <5>3
      <4> QED BY <4>1, <4>2
    <3>2. ASSUME NEW d \in DeviceCommand, Fits(d, u),
                 d.op # "tone" => d.gen = t.gen + 1 /\ u.gen = t.gen + 1
          PROVE  Numbered(d) => t.gen < d.gen /\ s.gen < d.gen
      BY <1>0, <2>4, <2>5, <3>2 DEF Numbered
    <3>3. CASE u.fx = t.fx
      <4>1. CASE t.fx = <<>>
        BY <1>0, <3>3, <4>1
      <4>2. CASE t.fx # <<>>
        <5>1. PICK c \in DeviceCommand :
                /\ t.fx = <<c>>
                /\ \/ c.gen = 0 /\ c.op # "tone"
                   \/ c.gen = s.gen + 1 /\ t.gen = s.gen + 1 /\ Fits(c, t) /\ c.op # "tone"
          BY <2>5, <4>2
        <5>2. Len(u.fx) = 1 /\ u.fx[1] = c
          BY <3>3, <5>1
        <5> QED BY <1>0, <3>1, <5>1, <5>2
      <4> QED BY <4>1, <4>2
    <3>4. CASE u.fx # t.fx
      <4>1. PICK d \in DeviceCommand :
                /\ u.fx = Append(t.fx, d) /\ Fits(d, u)
                /\ d.op # "tone" => d.gen = t.gen + 1 /\ u.gen = t.gen + 1
        BY <2>6, <3>4
      <4>2. CASE t.fx = <<>>
        <5>1. Len(u.fx) = 1 /\ u.fx[1] = d
          BY <4>1, <4>2
        <5> QED BY <1>0, <3>2, <4>1, <5>1
      <4>3. CASE t.fx # <<>>
        <5>1. PICK c \in DeviceCommand :
                /\ t.fx = <<c>>
                /\ \/ c.gen = 0 /\ c.op # "tone"
                   \/ c.gen = s.gen + 1 /\ t.gen = s.gen + 1 /\ Fits(c, t) /\ c.op # "tone"
          BY <2>5, <4>3
        <5>2. Len(u.fx) = 2 /\ u.fx[1] = c /\ u.fx[2] = d
          BY <4>1, <5>1
        <5>3. Fits(c, u) /\ (Numbered(c) => s.gen < c.gen /\ c.gen <= t.gen)
          BY <3>1, <5>1
        <5>4. Numbered(d) => t.gen < d.gen /\ s.gen < d.gen
          BY <3>2, <4>1
        <5>5. c.gen \in Nat /\ d.gen \in Nat
          BY DEF DeviceCommand
        <5>6. Numbered(c) /\ Numbered(d) => c.gen < d.gen
          BY <2>4, <5>3, <5>4, <5>5
        <5> QED BY <1>0, <4>1, <5>2, <5>3, <5>4, <5>6
      <4> QED BY <4>2, <4>3
    <3> QED BY <3>3, <3>4
  <2>10. Reduced(s, u, e)
    BY <2>7, <2>8, <2>9 DEF Reduced
  <2> QED BY <2>1, <2>3, <2>10
<1> QED BY <1>1, <1>2

-----------------------------------------------------------------------------
(* What a queue keeps when it is written at its end and read at its head.  *)

LEMMA QueueTail ==
  ASSUME NEW S, NEW q \in Seq(S), q # <<>>
  PROVE  /\ Tail(q) \in Seq(S) /\ Len(q) \in Nat /\ Len(q) >= 1 /\ Len(Tail(q)) = Len(q) - 1
         /\ Head(q) = q[1] /\ q[1] \in S /\ \A i \in 1..(Len(q) - 1) : Tail(q)[i] = q[i + 1]
BY HeadTailProperties, EmptySeq, SMT

LEMMA QueueAppend ==
  ASSUME NEW S, NEW q \in Seq(S), NEW m \in S
  PROVE  /\ Append(q, m) \in Seq(S) /\ Len(q) \in Nat /\ Len(Append(q, m)) = Len(q) + 1
         /\ Append(q, m)[Len(q) + 1] = m /\ \A i \in 1..Len(q) : Append(q, m)[i] = q[i]
BY AppendProperties

LEMMA QueueConcat ==
  ASSUME NEW S, NEW q \in Seq(S), NEW m \in S
  PROVE  q \o <<m>> = Append(q, m) /\ q \o <<>> = q /\ <<>> \o q = q
<1>1. q \o <<>> = q /\ <<>> \o q = q
  BY ConcatEmptySeq
<1>2. q \o <<m>> = Append(q, m)
  BY AppendIsConcat
<1> QED BY <1>1, <1>2

\* The head is read, and settles nothing.
LEMMA TurnTail ==
  ASSUME NEW S, NEW q \in Seq(S), q # <<>>, NEW g, NEW first, NEW later, InTurn(q, g, first, later)
  PROVE  /\ ~(q[1].gen = g /\ q[1].type \in later)
         /\ ~(q[1].gen = g /\ q[1].type \in first) => InTurn(Tail(q), g, first, later)
<1>0. /\ Len(q) \in Nat /\ Len(q) >= 1 /\ Len(Tail(q)) = Len(q) - 1
      /\ \A i \in 1..(Len(q) - 1) : Tail(q)[i] = q[i + 1]
  BY QueueTail
<1>1. ~(q[1].gen = g /\ q[1].type \in later)
  BY <1>0 DEF InTurn
<1>2. ASSUME ~(q[1].gen = g /\ q[1].type \in first),
             NEW i \in 1..Len(Tail(q)), Tail(q)[i].gen = g, Tail(q)[i].type \in later
      PROVE  \E j \in 1..(i - 1) : Tail(q)[j].gen = g /\ Tail(q)[j].type \in first
  <2>1. i + 1 \in 1..Len(q) /\ q[i + 1].gen = g /\ q[i + 1].type \in later
    BY <1>0, <1>2
  <2>2. PICK j \in 1..((i + 1) - 1) : q[j].gen = g /\ q[j].type \in first
    BY <2>1 DEF InTurn
  <2>3. j # 1
    BY <1>2, <2>2
  <2>4. j - 1 \in 1..(i - 1) /\ j - 1 \in 1..(Len(q) - 1) /\ (j - 1) + 1 = j
    BY <1>0, <2>2, <2>3
  <2>5. Tail(q)[j - 1] = q[j]
    BY <1>0, <2>4
  <2> QED BY <2>2, <2>4, <2>5
<1> QED BY <1>1, <1>2 DEF InTurn

LEMMA BringsTail ==
  ASSUME NEW S, NEW q \in Seq(S), q # <<>>, NEW g, NEW types, Brings(q, g, types)
  PROVE  (q[1].gen = g /\ q[1].type \in types) \/ Brings(Tail(q), g, types)
<1>0. /\ Len(q) \in Nat /\ Len(q) >= 1 /\ Len(Tail(q)) = Len(q) - 1
      /\ \A i \in 1..(Len(q) - 1) : Tail(q)[i] = q[i + 1]
  BY QueueTail
<1>1. PICK j \in 1..Len(q) : q[j].gen = g /\ q[j].type \in types
  BY DEF Brings
<1>2. CASE j # 1
  <2>1. j - 1 \in 1..(Len(q) - 1) /\ (j - 1) + 1 = j
    BY <1>0, <1>2
  <2>2. Tail(q)[j - 1] = q[j] /\ j - 1 \in 1..Len(Tail(q))
    BY <1>0, <2>1
  <2> QED BY <1>1, <2>2 DEF Brings
<1> QED BY <1>1, <1>2

LEMMA TurnAppend ==
  ASSUME NEW S, NEW q \in Seq(S), NEW m \in S, NEW g, NEW first, NEW later,
         InTurn(q, g, first, later),
         m.gen = g /\ m.type \in later => Brings(q, g, first)
  PROVE  InTurn(Append(q, m), g, first, later)
<1>0. /\ Len(q) \in Nat /\ Len(Append(q, m)) = Len(q) + 1
      /\ Append(q, m)[Len(q) + 1] = m /\ \A i \in 1..Len(q) : Append(q, m)[i] = q[i]
  BY QueueAppend
<1> DEFINE r == Append(q, m)
<1>1. ASSUME NEW i \in 1..Len(r), r[i].gen = g, r[i].type \in later
      PROVE  \E j \in 1..(i - 1) : r[j].gen = g /\ r[j].type \in first
  <2> HIDE DEF r
  <2>1. CASE i \in 1..Len(q)
    <3>1. PICK j \in 1..(i - 1) : q[j].gen = g /\ q[j].type \in first
      BY <1>0, <1>1, <2>1 DEF InTurn, r
    <3>2. j \in 1..Len(q)
      BY <1>0, <2>1, <3>1
    <3>3. r[j] = q[j]
      BY <1>0, <3>2 DEF r
    <3> QED BY <3>1, <3>3
  <2>2. CASE i = Len(q) + 1
    <3>1. r[i] = m
      BY <1>0, <2>2 DEF r
    <3>2. Brings(q, g, first)
      BY <1>1, <3>1
    <3>3. PICK j \in 1..Len(q) : q[j].gen = g /\ q[j].type \in first
      BY <3>2 DEF Brings
    <3>4. r[j] = q[j] /\ j \in 1..(i - 1)
      BY <1>0, <2>2, <3>3 DEF r
    <3> QED BY <3>3, <3>4
  <2>3. i \in 1..Len(q) \/ i = Len(q) + 1
    BY <1>0, <1>1 DEF r
  <2> QED BY <2>1, <2>2, <2>3
<1> QED BY <1>1 DEF InTurn

LEMMA BringsAppend ==
  ASSUME NEW S, NEW q \in Seq(S), NEW m \in S, NEW g, NEW types
  PROVE  /\ Brings(q, g, types) => Brings(Append(q, m), g, types)
         /\ m.gen = g /\ m.type \in types => Brings(Append(q, m), g, types)
<1>0. /\ Len(q) \in Nat /\ Len(Append(q, m)) = Len(q) + 1
      /\ Append(q, m)[Len(q) + 1] = m /\ \A i \in 1..Len(q) : Append(q, m)[i] = q[i]
  BY QueueAppend
<1> DEFINE r == Append(q, m)
<1> HIDE DEF r
<1>1. \A i \in 1..Len(q) : i \in 1..Len(r) /\ r[i] = q[i]
  BY <1>0 DEF r
<1>2. Len(q) + 1 \in 1..Len(r) /\ r[Len(q) + 1] = m
  BY <1>0 DEF r
<1>3. Brings(q, g, types) => Brings(r, g, types)
  BY <1>1 DEF Brings
<1>4. m.gen = g /\ m.type \in types => Brings(r, g, types)
  BY <1>2 DEF Brings
<1> QED BY <1>3, <1>4 DEF r

LEMMA PastMoves ==
  ASSUME NEW S, NEW q \in Seq(S), NEW g \in Nat, Past(q, g)
  PROVE  /\ q # <<>> => q[1].gen <= g /\ Past(Tail(q), g)
         /\ \A m \in S : m.gen <= g => Past(Append(q, m), g)
<1>1. ASSUME q # <<>>
      PROVE  q[1].gen <= g /\ Past(Tail(q), g)
  <2>0. /\ Len(q) \in Nat /\ Len(q) >= 1 /\ Len(Tail(q)) = Len(q) - 1
        /\ \A i \in 1..(Len(q) - 1) : Tail(q)[i] = q[i + 1]
    BY <1>1, QueueTail
  <2>1. \A i \in 1..(Len(q) - 1) : i + 1 \in 1..Len(q)
    BY <2>0
  <2> QED BY <2>0, <2>1 DEF Past
<1>2. ASSUME NEW m \in S, m.gen <= g
      PROVE  Past(Append(q, m), g)
  <2>0. /\ Len(q) \in Nat /\ Len(Append(q, m)) = Len(q) + 1
        /\ Append(q, m)[Len(q) + 1] = m /\ \A i \in 1..Len(q) : Append(q, m)[i] = q[i]
    BY QueueAppend
  <2>1. \A i \in 1..(Len(q) + 1) : i \in 1..Len(q) \/ i = Len(q) + 1
    BY <2>0
  <2> QED BY <1>2, <2>0, <2>1 DEF Past
<1> QED BY <1>1, <1>2

-----------------------------------------------------------------------------
(* The actor reduces an event.                                             *)

\* A waiting window is taken back by a refused command alone.
TakenBack ==
  (\/ shell.stream.kind = "Stopping" /\ shell'.stream.kind \in {"Streaming", "Degraded"}
   \/ shell.stream.kind = "Starting" /\ shell'.stream.kind = "Stopped")
  => edge.kind = "Rejected" /\ edge.gen = shell.gen

LEMMA ReduceKeeps ==
  ASSUME EchoInv, ActorIdle, NEW e, shell' = Reduce(shell, e), in_call' = in_call,
         UNCHANGED <<echoVars, relayVars, snapshot>>,
         \/ events' = events /\ (Waits(shell) => e.gen # shell.gen)
         \/ events # <<>> /\ e = Head(events) /\ events' = Tail(events)
  PROVE  EchoInv' /\ TakenBack
<1> DEFINE K == shell.stream.kind
<1>0. /\ Fields(shell) /\ shell.fx = <<>> /\ in_call = Absent /\ in_call' = Absent
      /\ edge' = edge /\ group_slot' = group_slot /\ tone_slot' = tone_slot
      /\ projected' = projected /\ outbox' = outbox /\ pass' = pass /\ snapshot' = snapshot
  BY DEF EchoInv, ShellTyped, ActorIdle, echoVars, relayVars
<1>1. Fields(shell') /\ Reduced(shell, shell', e)
  BY <1>0, ReduceMoves DEF EchoInv, NothingFromTheFuture
<1>2. /\ shell.gen \in Nat /\ shell'.gen \in Nat /\ edge.gen \in Nat
      /\ events \in Seq(MailShape) /\ events' \in Seq(MailShape) /\ outbox \in Seq(MailShape)
  <2>1. events' \in Seq(MailShape)
    BY QueueTail DEF EchoInv, ShellTyped
  <2> QED BY <1>0, <1>1, <2>1 DEF EchoInv, ShellTyped, Fields
<1>3. /\ shell'.gen >= shell.gen
      /\ shell'.gen > shell.gen => Waits(shell')
      /\ shell'.gen = shell.gen => shell'.stream = shell.stream \/ ShowsEdge(shell, shell', e)
      /\ shell'.gen = shell.gen /\ e.type \in SessionTypes /\ e.gen = shell.gen => ShowsEdge(shell, shell', e)
  BY <1>1 DEF Reduced
\* An edge that is shown ends a wait.
<1>4. ShowsEdge(shell, shell', e) =>
        /\ ~Waits(shell') /\ e.gen = shell.gen
        /\ shell'.stream.kind = "Stopped" => e.type \in {"Stopped", "Failed"}
        /\ shell'.stream.kind \in {"Streaming", "Degraded"} => e.type = shell'.stream.kind
  BY DEF ShowsEdge, Waits, SessionTypes
<1>5. Waits(shell') /\ shell'.gen = shell.gen =>
        shell'.stream = shell.stream /\ ~(e.type \in SessionTypes /\ e.gen = shell.gen)
  BY <1>3, <1>4
<1>6. ShellTyped'
  <2> USE DEF ShellTyped
  <2>1. (/\ Fields(shell) /\ in_call \in {Absent} \cup CallShape
         /\ events \in Seq(MailShape) /\ outbox \in Seq(MailShape))'
    BY <1>0, <1>1, <1>2
  <2>2. (/\ DOMAIN edge = {"gen", "kind", "floor"} /\ edge.gen \in Nat
         /\ group_slot \in {Absent} \cup SlotShape /\ tone_slot \in {Absent} \cup ToneShape
         /\ DOMAIN projected = {"session", "reading", "closed"}
         /\ projected.session # Absent => projected.session.gen \in Nat
         /\ SnapshotFits(snapshot) /\ (pass # Absent => SnapshotFits(pass.snap)))'
    BY <1>0 DEF EchoInv
  <2> QED BY <2>1, <2>2
<1>7. Unrecorded' = {shell'.fx[i] : i \in 1..Len(shell'.fx)}
  BY <1>0 DEF Unrecorded
<1>8. (\A c \in Unrecorded : CommandFits(c))'
  BY <1>1, <1>7 DEF CommandFits, Reduced
<1>9. EdgeFits'
  <2>1. edge.gen <= shell.gen
    BY DEF EchoInv, EdgeFits
  <2>2. edge.gen = shell'.gen => shell'.gen = shell.gen
    BY <1>2, <1>3, <2>1
  <2>3. edge.gen <= shell'.gen
    BY <1>2, <1>3, <2>1
  <2>4. edge.gen = shell'.gen =>
       /\ shell'.stream.kind = "Starting" =>
            edge.kind \in {"Start", "PendingGroup", "ConfirmedGroup", "Rejected"}
       /\ shell'.stream.kind = "Stopping" => edge.kind \in {"Stop", "Rejected"}
    BY <1>5, <2>2 DEF EchoInv, EdgeFits, Waits
  <2> QED BY <1>0, <2>3, <2>4 DEF EdgeFits
<1>10. EdgesRise'
  <2>1. edge.gen <= shell.gen
    BY DEF EchoInv, EdgeFits
  <2>2. \A i \in 1..Len(shell'.fx) : Numbered(shell'.fx[i]) => edge.gen < shell'.fx[i].gen
    <3> SUFFICES ASSUME NEW i \in 1..Len(shell'.fx), Numbered(shell'.fx[i])
                 PROVE  edge.gen < shell'.fx[i].gen
      OBVIOUS
    <3>1. shell.gen < shell'.fx[i].gen
      BY <1>1 DEF Reduced
    <3>2. shell'.fx[i] \in DeviceCommand
      BY <1>1, ElementOfSeq DEF Fields
    <3> QED BY <1>2, <2>1, <3>1, <3>2 DEF DeviceCommand
  <2>3. (\A c \in Unrecorded : Numbered(c) => edge.gen < c.gen)'
    BY <1>0, <1>7, <2>2 DEF Numbered
  <2>4. (\A i, j \in 1..Len(shell.fx) :
           i < j /\ Numbered(shell.fx[i]) /\ Numbered(shell.fx[j]) =>
             shell.fx[i].gen < shell.fx[j].gen)'
    BY <1>1 DEF Reduced, Numbered
  <2> QED BY <1>0, <2>3, <2>4 DEF EdgesRise
<1>11. SlotsFit'
  <2>0. edge.gen <= shell.gen
    BY DEF EchoInv, EdgeFits
  <2>1. group_slot # Absent =>
           /\ group_slot.gen <= edge.gen
           /\ group_slot.gen = edge.gen /\ group_slot.gen # 0 =>
                /\ edge.kind = "Rejected" => group_slot.sent # "ok"
                /\ edge.gen = shell'.gen => shell'.stream.kind # "Stopping"
    <3>1. edge.gen = shell'.gen => edge.gen = shell.gen /\ shell'.gen = shell.gen
      BY <1>2, <1>3, <2>0
    <3> QED BY <1>5, <3>1 DEF EchoInv, SlotsFit, Waits
  <2>2. tone_slot # Absent =>
          /\ tone_slot.gen <= shell'.gen
          /\ tone_slot.gen = shell'.gen => shell'.stream.kind # "Starting"
    <3> SUFFICES ASSUME tone_slot # Absent
                 PROVE  /\ tone_slot.gen <= shell'.gen
                        /\ tone_slot.gen = shell'.gen => shell'.stream.kind # "Starting"
      OBVIOUS
    <3>1. tone_slot.gen \in Nat /\ tone_slot.gen <= shell.gen
      BY DEF EchoInv, ShellTyped, ToneShape, SlotsFit
    <3>2. tone_slot.gen <= shell'.gen
      BY <1>2, <1>3, <3>1
    <3>3. tone_slot.gen = shell'.gen => shell'.gen = shell.gen
      BY <1>2, <1>3, <3>1
    <3>4. tone_slot.gen = shell.gen => K # "Starting"
      BY DEF EchoInv, SlotsFit
    <3> QED BY <1>5, <3>2, <3>3, <3>4 DEF Waits
  <2> QED BY <1>0, <2>1, <2>2 DEF SlotsFit
<1>12. NothingFromTheFuture'
  <2>1. Past(events', shell.gen) /\ Past(outbox, shell.gen)
    BY <1>2, PastMoves DEF EchoInv, NothingFromTheFuture
  <2>2. ASSUME NEW q \in Seq(MailShape), Past(q, shell.gen)
        PROVE  Past(q, shell'.gen)
    <3> SUFFICES ASSUME NEW i \in 1..Len(q)
                 PROVE  q[i].gen <= shell'.gen
      BY DEF Past
    <3>0. q[i] \in MailShape
      BY ElementOfSeq
    <3>1. q[i].gen \in Nat
      BY <3>0 DEF MailShape
    <3>2. q[i].gen <= shell.gen
      BY <2>2 DEF Past
    <3> QED BY <1>2, <1>3, <3>1, <3>2
  <2>3. Past(events', shell'.gen) /\ Past(outbox, shell'.gen)
    BY <1>2, <2>1, <2>2
  <2>4. Waits(shell') => shell'.gen # 0
    <3>1. CASE shell'.gen > shell.gen
      BY <1>2, <3>1
    <3>2. CASE shell'.gen = shell.gen
      BY <1>5, <3>2 DEF EchoInv, NothingFromTheFuture, Waits
    <3> QED BY <1>2, <1>3, <3>1, <3>2
  <2> QED BY <1>0, <2>3, <2>4 DEF EchoInv, NothingFromTheFuture
<1>13. AnswersInTurn'
  <2>1. CASE shell'.gen > shell.gen
    <3>1. Past(events', shell.gen) /\ Past(outbox, shell.gen)
      BY <1>2, PastMoves DEF EchoInv, NothingFromTheFuture
    <3>2. ASSUME NEW q \in Seq(MailShape), Past(q, shell.gen), NEW first, NEW later
          PROVE  InTurn(q, shell'.gen, first, later)
      <4> SUFFICES ASSUME NEW i \in 1..Len(q), q[i].gen = shell'.gen
                   PROVE  FALSE
        BY DEF InTurn
      <4>1. q[i].gen <= shell.gen
        BY <3>2 DEF Past
      <4> QED BY <1>2, <2>1, <4>1
    <3>3. projected.session # Absent => projected.session.gen # shell'.gen
      <4> SUFFICES ASSUME projected.session # Absent, projected.session.gen = shell'.gen
                   PROVE  FALSE
        OBVIOUS
      <4>1. projected.session.gen <= edge.gen /\ edge.gen <= shell.gen
        BY DEF EchoInv, NothingFromTheFuture, EdgeFits
      <4> QED BY <1>2, <2>1, <4>1
    <3> QED BY <1>0, <1>2, <3>1, <3>2, <3>3 DEF AnswersInTurn
  <2>2. CASE shell'.gen = shell.gen
    <3> SUFFICES ASSUME Awaited'
                 PROVE  AnswersInTurn'
      BY DEF AnswersInTurn
    <3>1. Waits(shell') /\ shell'.stream = shell.stream /\ Awaited
      BY <1>0, <1>5, <2>2 DEF Awaited, Waits
    <3>2. ~(e.type \in SessionTypes /\ e.gen = shell.gen)
      BY <1>5, <2>2, <3>1
    <3>3. /\ InTurn(events, shell.gen, Settles(K), SnapsBack(K))
          /\ Brings(events, shell.gen, Settles(K)) \/ InTurn(outbox, shell.gen, Settles(K), SnapsBack(K))
          /\ projected.session # Absent /\ projected.session.gen = shell.gen =>
               Brings(events, shell.gen, Settles(K)) \/ Brings(outbox, shell.gen, Settles(K))
      BY <3>1 DEF EchoInv, AnswersInTurn
    <3>4. Settles(K) \subseteq SessionTypes
      BY DEF Settles, SessionTypes
    <3>5. /\ InTurn(events', shell.gen, Settles(K), SnapsBack(K))
          /\ Brings(events, shell.gen, Settles(K)) => Brings(events', shell.gen, Settles(K))
      <4>1. CASE events' = events
        BY <3>3, <4>1
      <4>2. CASE events # <<>> /\ e = Head(events) /\ events' = Tail(events)
        <5>1. e = events[1]
          BY <1>2, <4>2, QueueTail
        <5>2. ~(events[1].gen = shell.gen /\ events[1].type \in Settles(K))
          BY <3>2, <3>4, <5>1
        <5>3. InTurn(Tail(events), shell.gen, Settles(K), SnapsBack(K))
          BY <1>2, <3>3, <4>2, <5>2, TurnTail
        <5>4. Brings(events, shell.gen, Settles(K)) => Brings(Tail(events), shell.gen, Settles(K))
          BY <1>2, <4>2, <5>2, BringsTail
        <5> QED BY <4>2, <5>3, <5>4
      <4> QED BY <4>1, <4>2
    <3> QED BY <1>0, <2>2, <3>1, <3>3, <3>5 DEF AnswersInTurn
  <2> QED BY <1>2, <1>3, <2>1, <2>2
<1>14. TakenBack
  <2> SUFFICES ASSUME \/ K = "Stopping" /\ shell'.stream.kind \in {"Streaming", "Degraded"}
                      \/ K = "Starting" /\ shell'.stream.kind = "Stopped",
                      ~(edge.kind = "Rejected" /\ edge.gen = shell.gen)
               PROVE  FALSE
    BY DEF TakenBack
  <2>1. Waits(shell) /\ ~Waits(shell') /\ shell'.stream # shell.stream /\ Awaited
    BY DEF Waits, Awaited
  <2>2. shell'.gen = shell.gen /\ ShowsEdge(shell, shell', e)
    BY <1>2, <1>3, <2>1
  <2>3. e.gen = shell.gen /\ e.type \in SnapsBack(K)
    BY <1>4, <2>2 DEF SnapsBack
  <2>4. events # <<>> /\ e = events[1]
    BY <1>2, <2>1, <2>3, QueueTail
  <2>5. InTurn(events, shell.gen, Settles(K), SnapsBack(K))
    BY <2>1 DEF EchoInv, AnswersInTurn
  <2> QED BY <1>2, <2>3, <2>4, <2>5, TurnTail
<1> QED BY <1>6, <1>8, <1>9, <1>10, <1>11, <1>12, <1>13, <1>14 DEF EchoInv

LEMMA ActorReduces ==
  ASSUME EchoInv, UserEvent \/ TakeEvent
  PROVE  EchoInv' /\ TakenBack
<1>1. CASE UserEvent
  <2>1. PICK press \in menu :
          shell' = Reduce(shell, [Event(press, 0) EXCEPT !.config = press \in Touches])
    BY <1>1 DEF UserEvent
  <2> DEFINE e == [Event(press, 0) EXCEPT !.config = press \in Touches]
  <2>2. e.gen = 0
    BY DEF Event
  <2>3. Waits(shell) => e.gen # shell.gen
    BY <2>2 DEF EchoInv, NothingFromTheFuture
  <2> HIDE DEF e
  <2>4. /\ ActorIdle /\ shell' = Reduce(shell, e) /\ in_call' = in_call /\ events' = events
        /\ UNCHANGED <<echoVars, relayVars, snapshot>>
    BY <1>1, <2>1 DEF UserEvent, deviceVars, e
  <2> QED BY <2>3, <2>4, ReduceKeeps
<1>2. CASE TakeEvent
  <2>1. /\ ActorIdle /\ events # <<>> /\ events' = Tail(events)
        /\ shell' = Reduce(shell, Head(events)) /\ in_call' = in_call
        /\ UNCHANGED <<echoVars, relayVars, snapshot>>
    BY <1>2 DEF TakeEvent, deviceVars
  <2> QED BY <2>1, ReduceKeeps
<1> QED BY <1>1, <1>2

-----------------------------------------------------------------------------
(* The commands on their way to the backend, and what the bridge makes of it. *)

\* A queue to the window may take one more message.
LEMMA QueueGrows ==
  ASSUME NEW q \in Seq(MailShape), NEW m \in MailShape, NEW g \in Nat, NEW first, NEW later,
         NEW r \in {q, Append(q, m)},
         m.gen <= g
  PROVE  /\ r \in Seq(MailShape)
         /\ Past(q, g) => Past(r, g)
         /\ ~(m.gen = g /\ m.type \in later) =>
              (InTurn(q, g, first, later) => InTurn(r, g, first, later))
         /\ Brings(q, g, first) => Brings(r, g, first)
<1>1. CASE r = q
  BY <1>1
<1>2. CASE r = Append(q, m)
  <2>1. r \in Seq(MailShape)
    BY <1>2, QueueAppend
  <2>2. Past(q, g) => Past(r, g)
    BY <1>2, PastMoves
  <2>3. ~(m.gen = g /\ m.type \in later) =>
          (InTurn(q, g, first, later) => InTurn(r, g, first, later))
    BY <1>2, TurnAppend
  <2>4. Brings(q, g, first) => Brings(r, g, first)
    BY <1>2, BringsAppend
  <2> QED BY <2>1, <2>2, <2>3, <2>4
<1> QED BY <1>1, <1>2

LEMMA SendKeeps ==
  ASSUME EchoInv, SendCommand
  PROVE  EchoInv' /\ TakenBack
<1> DEFINE fx == Head(shell.fx)
<1> DEFINE K == shell.stream.kind
<1> DEFINE m == Event("Failed", fx.gen)
<1>1. /\ Fields(shell) /\ shell.fx # <<>> /\ in_call = Absent /\ shell' = [shell EXCEPT !.fx = Tail(@)]
      /\ edge' = edge /\ group_slot' = group_slot /\ tone_slot' = tone_slot
      /\ projected' = projected /\ outbox' = outbox /\ pass' = pass /\ snapshot' = snapshot
  BY DEF EchoInv, ShellTyped, SendCommand, echoVars, relayVars, deviceVars
<1>2. \/ in_call' = Absent /\ fx.op = "tone" /\ Feedback(m)
      \/ (\E s \in {"never", "Closed", "ok", "Busy"} : in_call' = [fx |-> fx, sent |-> s]) /\ events' = events
  BY <1>1 DEF SendCommand
<1>3. /\ shell.fx \in Seq(DeviceCommand) /\ Tail(shell.fx) \in Seq(DeviceCommand)
      /\ Len(shell.fx) \in Nat /\ Len(shell.fx) >= 1 /\ Len(Tail(shell.fx)) = Len(shell.fx) - 1
      /\ fx = shell.fx[1] /\ fx \in DeviceCommand
      /\ \A i \in 1..(Len(shell.fx) - 1) : Tail(shell.fx)[i] = shell.fx[i + 1]
  BY <1>1, QueueTail DEF Fields
<1> HIDE DEF fx
<1>4. /\ Fields(shell') /\ shell'.gen = shell.gen /\ shell'.stream = shell.stream /\ shell'.fx = Tail(shell.fx)
  BY <1>1, <1>3 DEF Fields, AppFields
<1>5. /\ fx.gen \in Nat /\ fx.gen <= shell.gen /\ shell.gen \in Nat
      /\ fx.op = "tone" /\ fx.gen = shell.gen => K # "Starting"
  <2>1. fx \in Unrecorded
    BY <1>3 DEF Unrecorded
  <2>2. CommandFits(fx)
    BY <2>1 DEF EchoInv
  <2> QED BY <1>1, <1>3, <2>2 DEF CommandFits, Fits, DeviceCommand, Fields
<1>6. m \in MailShape /\ m.gen = fx.gen /\ m.type = "Failed"
  BY <1>5 DEF Event, MailShape, SessionTypes, None
<1>7. in_call' \in {Absent} \cup CallShape
  BY <1>2, <1>3 DEF CallShape, Sendings
<1>8. /\ events' \in Seq(MailShape) /\ Past(events', shell.gen)
      /\ Waits(shell) /\ InTurn(events, shell.gen, Settles(K), SnapsBack(K)) =>
           InTurn(events', shell.gen, Settles(K), SnapsBack(K))
      /\ Brings(events, shell.gen, Settles(K)) => Brings(events', shell.gen, Settles(K))
  <2>0. events \in Seq(MailShape) /\ Past(events, shell.gen)
    BY DEF EchoInv, ShellTyped, NothingFromTheFuture
  <2>1. CASE events' = events
    BY <2>0, <2>1
  <2>2. CASE fx.op = "tone" /\ Feedback(m)
    <3>1. events' \in {events, Append(events, m)}
      BY <2>2 DEF Feedback
    <3>2. Waits(shell) => ~(m.gen = shell.gen /\ m.type \in SnapsBack(K))
      BY <1>5, <1>6, <2>2 DEF Waits, SnapsBack
    <3> HIDE DEF m, K
    <3>3. m.gen <= shell.gen
      BY <1>5, <1>6
    <3>4. /\ events' \in Seq(MailShape) /\ Past(events', shell.gen)
          /\ Brings(events, shell.gen, Settles(K)) => Brings(events', shell.gen, Settles(K))
      BY <1>5, <1>6, <2>0, <3>1, <3>3, QueueGrows
    <3>5. Waits(shell) /\ InTurn(events, shell.gen, Settles(K), SnapsBack(K)) =>
           InTurn(events', shell.gen, Settles(K), SnapsBack(K))
      BY <1>5, <1>6, <2>0, <3>1, <3>2, <3>3, QueueGrows
    <3> QED BY <3>4, <3>5
  <2> QED BY <1>2, <2>1, <2>2
<1>9. ShellTyped'
  <2>1. (/\ Fields(shell) /\ in_call \in {Absent} \cup CallShape
         /\ events \in Seq(MailShape) /\ outbox \in Seq(MailShape))'
    BY <1>1, <1>4, <1>7, <1>8 DEF EchoInv, ShellTyped
  <2>2. (/\ DOMAIN edge = {"gen", "kind", "floor"} /\ edge.gen \in Nat
         /\ group_slot \in {Absent} \cup SlotShape /\ tone_slot \in {Absent} \cup ToneShape
         /\ DOMAIN projected = {"session", "reading", "closed"}
         /\ projected.session # Absent => projected.session.gen \in Nat
         /\ SnapshotFits(snapshot) /\ (pass # Absent => SnapshotFits(pass.snap)))'
    BY <1>1 DEF EchoInv, ShellTyped
  <2> QED BY <2>1, <2>2 DEF ShellTyped
<1>10. \A i \in 1..Len(shell'.fx) : i + 1 \in 1..Len(shell.fx) /\ shell'.fx[i] = shell.fx[i + 1]
  BY <1>3, <1>4
<1>11. in_call' # Absent => in_call'.fx = fx
  BY <1>2
<1>12. Unrecorded' \subseteq Unrecorded
  <2>1. fx \in Unrecorded
    BY <1>3 DEF Unrecorded
  <2> QED BY <1>10, <1>11, <2>1 DEF Unrecorded
<1>13. (\A c \in Unrecorded : CommandFits(c))'
  BY <1>4, <1>12 DEF EchoInv, CommandFits, Fits
<1>14. EdgesRise'
  <2>1. (\A i, j \in 1..Len(shell.fx) :
           i < j /\ Numbered(shell.fx[i]) /\ Numbered(shell.fx[j]) =>
             shell.fx[i].gen < shell.fx[j].gen)'
    <3> SUFFICES ASSUME NEW i \in 1..Len(shell'.fx), NEW j \in 1..Len(shell'.fx), i < j,
                        Numbered(shell'.fx[i]), Numbered(shell'.fx[j])
                 PROVE  shell'.fx[i].gen < shell'.fx[j].gen
      BY DEF Numbered
    <3>1. i + 1 < j + 1
      BY <1>3, <1>4
    <3> QED BY <1>10, <3>1 DEF EchoInv, EdgesRise
  <2>2. (in_call # Absent /\ Numbered(in_call.fx) =>
           \A i \in 1..Len(shell.fx) : Numbered(shell.fx[i]) => in_call.fx.gen < shell.fx[i].gen)'
    <3> SUFFICES ASSUME in_call' # Absent, Numbered(fx), NEW i \in 1..Len(shell'.fx), Numbered(shell'.fx[i])
                 PROVE  fx.gen < shell'.fx[i].gen
      BY <1>11 DEF Numbered
    <3>1. 1 < i + 1 /\ 1 \in 1..Len(shell.fx)
      BY <1>3, <1>4
    <3> QED BY <1>3, <1>10, <3>1 DEF EchoInv, EdgesRise
  <2>3. (\A c \in Unrecorded : Numbered(c) => edge.gen < c.gen)'
    BY <1>1, <1>12 DEF EchoInv, EdgesRise, Numbered
  <2> QED BY <2>1, <2>2, <2>3 DEF EdgesRise
<1>15. (EdgeFits /\ SlotsFit)'
  BY <1>1, <1>4 DEF EchoInv, EdgeFits, SlotsFit
<1>16. NothingFromTheFuture'
  BY <1>1, <1>4, <1>8 DEF EchoInv, NothingFromTheFuture, Waits
<1>17. AnswersInTurn'
  <2> SUFFICES ASSUME Awaited
               PROVE  AnswersInTurn'
    BY <1>1, <1>4 DEF AnswersInTurn, Awaited, Waits
  <2>1. Waits(shell)
    BY DEF Awaited
  <2> QED BY <1>1, <1>4, <1>8, <2>1 DEF EchoInv, AnswersInTurn
<1>18. TakenBack
  BY <1>4 DEF TakenBack
<1> QED BY <1>9, <1>13, <1>14, <1>15, <1>16, <1>17, <1>18 DEF EchoInv

LEMMA RecordKeeps ==
  ASSUME EchoInv, RecordCommand
  PROVE  EchoInv' /\ TakenBack
<1> DEFINE fx == in_call.fx
<1> DEFINE K == shell.stream.kind
<1> DEFINE m == Event("Closed", 0)
<1> DEFINE kind == CASE fx.op = "start" -> Recorded("Start", in_call.sent)
                     [] fx.op = "stop" -> Recorded("Stop", in_call.sent)
                     [] OTHER -> IF in_call.sent = "ok" THEN "PendingGroup" ELSE "Rejected"
<1>1. /\ in_call # Absent /\ in_call' = Absent /\ shell' = shell
      /\ projected' = projected /\ outbox' = outbox /\ pass' = pass /\ snapshot' = snapshot
  BY DEF RecordCommand, relayVars, deviceVars
<1>2. /\ in_call \in CallShape /\ fx \in DeviceCommand /\ in_call.sent \in Sendings
      /\ fx.gen \in Nat /\ fx.request \in Nat /\ edge.gen \in Nat /\ shell.gen \in Nat
      /\ fx.op \in {"start", "stop", "group", "save", "tone"}
  BY <1>1 DEF EchoInv, ShellTyped, CallShape, DeviceCommand, Fields
<1>3. edge' = IF Numbered(fx) THEN [gen |-> fx.gen, kind |-> kind, floor |-> 0] ELSE edge
  BY DEF RecordCommand, Numbered
<1>4. /\ group_slot' = IF fx.op \in {"group", "save"}
                       THEN [request |-> fx.request, gen |-> fx.gen, sent |-> in_call.sent]
                       ELSE group_slot
      /\ tone_slot' = IF fx.op = "tone" THEN [gen |-> fx.gen, sent |-> in_call.sent] ELSE tone_slot
  BY DEF RecordCommand
<1>5. events' \in {events, Append(events, m)}
  BY DEF RecordCommand, Feedback
<1>6. /\ Fits(fx, shell) /\ (Numbered(fx) => edge.gen < fx.gen)
      /\ fx.gen <= shell.gen
  <2>1. fx \in Unrecorded
    BY <1>1 DEF Unrecorded
  <2> QED BY <2>1 DEF EchoInv, CommandFits, Fits, EdgesRise
<1>7. /\ fx.op = "start" => kind \in {"Start", "Rejected"}
      /\ fx.op = "stop" => kind \in {"Stop", "Rejected"}
      /\ fx.op \in {"group", "save"} => kind = IF in_call.sent = "ok" THEN "PendingGroup" ELSE "Rejected"
  BY DEF Recorded
<1> HIDE DEF fx, kind, m
<1>8. Numbered(fx) => edge'.gen = fx.gen /\ edge'.kind = kind
  BY <1>3
<1>9. /\ events' \in Seq(MailShape) /\ Past(events', shell.gen)
      /\ InTurn(events, shell.gen, Settles(K), SnapsBack(K)) =>
           InTurn(events', shell.gen, Settles(K), SnapsBack(K))
      /\ Brings(events, shell.gen, Settles(K)) => Brings(events', shell.gen, Settles(K))
  <2>0. events \in Seq(MailShape) /\ Past(events, shell.gen)
    BY DEF EchoInv, ShellTyped, NothingFromTheFuture
  <2>1. m \in MailShape /\ m.gen <= shell.gen /\ m.type \notin SnapsBack(K)
    BY <1>2 DEF Event, MailShape, SessionTypes, None, SnapsBack, m
  <2> HIDE DEF K
  <2> QED BY <1>2, <1>5, <2>0, <2>1, QueueGrows
<1>10. ShellTyped'
  <2>1. (/\ Fields(shell) /\ in_call \in {Absent} \cup CallShape
         /\ events \in Seq(MailShape) /\ outbox \in Seq(MailShape)
         /\ DOMAIN projected = {"session", "reading", "closed"}
         /\ projected.session # Absent => projected.session.gen \in Nat
         /\ SnapshotFits(snapshot) /\ (pass # Absent => SnapshotFits(pass.snap)))'
    BY <1>1, <1>9 DEF EchoInv, ShellTyped
  <2>2. (DOMAIN edge = {"gen", "kind", "floor"} /\ edge.gen \in Nat)'
    BY <1>2, <1>3 DEF EchoInv, ShellTyped
  <2>3. (group_slot \in {Absent} \cup SlotShape /\ tone_slot \in {Absent} \cup ToneShape)'
    BY <1>2, <1>4 DEF EchoInv, ShellTyped, SlotShape, ToneShape
  <2> QED BY <2>1, <2>2, <2>3 DEF ShellTyped
<1>11. Unrecorded' \subseteq Unrecorded
  BY <1>1 DEF Unrecorded
<1>12. (\A c \in Unrecorded : CommandFits(c))'
  BY <1>1, <1>11 DEF EchoInv, CommandFits
<1>13. EdgesRise'
  <2>1. (\A i, j \in 1..Len(shell.fx) :
           i < j /\ Numbered(shell.fx[i]) /\ Numbered(shell.fx[j]) =>
             shell.fx[i].gen < shell.fx[j].gen)'
    BY <1>1 DEF EchoInv, EdgesRise, Numbered
  <2>2. (\A c \in Unrecorded : Numbered(c) => edge.gen < c.gen)'
    <3> SUFFICES ASSUME NEW c \in Unrecorded', Numbered(c)
                 PROVE  edge'.gen < c.gen
      BY DEF Numbered
    <3>1. PICK i \in 1..Len(shell.fx) : c = shell.fx[i]
      BY <1>1 DEF Unrecorded
    <3>2. CASE Numbered(fx)
      BY <1>1, <1>8, <3>1, <3>2 DEF EchoInv, EdgesRise, fx
    <3>3. CASE ~Numbered(fx)
      BY <1>3, <1>11, <3>3 DEF EchoInv, EdgesRise
    <3> QED BY <3>2, <3>3
  <2> QED BY <1>1, <2>1, <2>2 DEF EdgesRise
<1>14. EdgeFits'
  <2>1. CASE Numbered(fx)
    <3>1. edge'.gen = shell.gen => Fits(fx, shell) /\ fx.gen = shell.gen /\ fx.op # "tone"
      BY <1>6, <1>8, <2>1 DEF Numbered
    <3>2. edge'.gen = shell.gen =>
             /\ shell.stream.kind = "Starting" => fx.op \in {"start", "group"}
             /\ shell.stream.kind = "Stopping" => fx.op = "stop"
      BY <3>1 DEF Fits
    <3>3. edge'.gen = shell.gen =>
             /\ shell.stream.kind = "Starting" =>
                  edge'.kind \in {"Start", "PendingGroup", "ConfirmedGroup", "Rejected"}
             /\ shell.stream.kind = "Stopping" => edge'.kind \in {"Stop", "Rejected"}
      BY <1>7, <1>8, <2>1, <3>2
    <3> QED BY <1>1, <1>6, <1>8, <2>1, <3>3 DEF EdgeFits
  <2>2. CASE ~Numbered(fx)
    BY <1>1, <1>3, <2>2 DEF EchoInv, EdgeFits
  <2> QED BY <2>1, <2>2
<1>15. SlotsFit'
  <2>1. (group_slot # Absent =>
           /\ group_slot.gen <= edge.gen
           /\ group_slot.gen = edge.gen /\ group_slot.gen # 0 =>
                /\ edge.kind = "Rejected" => group_slot.sent # "ok"
                /\ edge.gen = shell.gen => shell.stream.kind # "Stopping")'
    <3>1. CASE fx.op \in {"group", "save"}
      <4>1. group_slot'.gen = fx.gen /\ group_slot'.sent = in_call.sent
        BY <1>4, <3>1
      <4>2. CASE fx.gen = 0
        <5>1. edge' = edge
          BY <1>3, <4>2 DEF Numbered
        <5> QED BY <1>2, <4>1, <4>2, <5>1
      <4>3. CASE fx.gen # 0
        <5>1. Numbered(fx)
          BY <3>1, <4>3 DEF Numbered
        <5>2. edge'.kind = "Rejected" => in_call.sent # "ok"
          BY <1>7, <1>8, <3>1, <5>1
        <5>3. fx.gen = shell.gen => shell.stream.kind # "Stopping"
          BY <1>6, <3>1 DEF Fits
        <5> QED BY <1>1, <1>2, <1>8, <4>1, <5>1, <5>2, <5>3
      <4> QED BY <4>2, <4>3
    <3>2. CASE fx.op \notin {"group", "save"}
      <4>1. group_slot' = group_slot
        BY <1>4, <3>2
      <4>2. CASE ~Numbered(fx)
        BY <1>1, <1>3, <4>1, <4>2 DEF EchoInv, SlotsFit
      <4>3. CASE Numbered(fx)
        <5> SUFFICES ASSUME group_slot # Absent
                     PROVE  group_slot.gen < edge'.gen /\ group_slot.gen # edge'.gen /\ group_slot.gen <= edge'.gen
          BY <1>1, <4>1
        <5>1. group_slot.gen <= edge.gen /\ group_slot.gen \in Nat
          BY DEF EchoInv, ShellTyped, SlotShape, SlotsFit
        <5> QED BY <1>2, <1>6, <1>8, <4>3, <5>1
      <4> QED BY <4>2, <4>3
    <3> QED BY <3>1, <3>2
  <2>2. (tone_slot # Absent =>
          /\ tone_slot.gen <= shell.gen
          /\ tone_slot.gen = shell.gen => shell.stream.kind # "Starting")'
    <3>1. CASE fx.op = "tone"
      <4>1. tone_slot'.gen = fx.gen
        BY <1>4, <3>1
      <4>2. fx.gen = shell.gen => shell.stream.kind # "Starting"
        BY <1>6, <3>1 DEF Fits
      <4> QED BY <1>1, <1>6, <4>1, <4>2
    <3>2. CASE fx.op # "tone"
      BY <1>1, <1>4, <3>2 DEF EchoInv, SlotsFit
    <3> QED BY <3>1, <3>2
  <2> QED BY <2>1, <2>2 DEF SlotsFit
<1>16. NothingFromTheFuture'
  <2>1. projected.session # Absent => projected.session.gen <= edge'.gen
    <3> SUFFICES ASSUME projected.session # Absent
                 PROVE  projected.session.gen <= edge'.gen
      OBVIOUS
    <3>1. projected.session.gen \in Nat /\ projected.session.gen <= edge.gen
      BY DEF EchoInv, ShellTyped, NothingFromTheFuture
    <3>2. edge.gen <= edge'.gen /\ edge'.gen \in Nat
      BY <1>2, <1>3, <1>6, <1>8
    <3> QED BY <1>2, <3>1, <3>2
  <2> QED BY <1>1, <1>9, <2>1 DEF EchoInv, NothingFromTheFuture, Waits
<1>17. AnswersInTurn'
  <2> SUFFICES ASSUME Awaited'
               PROVE  AnswersInTurn'
    BY DEF AnswersInTurn
  <2>1. Awaited
    <3>1. CASE Numbered(fx)
      BY <1>1, <1>2, <1>6, <3>1 DEF Awaited, Waits
    <3>2. CASE ~Numbered(fx)
      BY <1>1, <1>3, <3>2 DEF Awaited, Waits
    <3> QED BY <3>1, <3>2
  <2> QED BY <1>1, <1>9, <2>1 DEF EchoInv, AnswersInTurn
<1>18. TakenBack
  BY <1>1 DEF TakenBack
<1> QED BY <1>10, <1>12, <1>13, <1>14, <1>15, <1>16, <1>17, <1>18 DEF EchoInv

LEMMA FlushKeeps ==
  ASSUME EchoInv, Flush
  PROVE  EchoInv' /\ TakenBack
<1> DEFINE K == shell.stream.kind
<1> DEFINE m == outbox[1]
<1>1. /\ outbox # <<>> /\ shell' = shell /\ in_call' = in_call /\ edge' = edge
      /\ group_slot' = group_slot /\ tone_slot' = tone_slot
      /\ projected' = projected /\ pass' = pass /\ snapshot' = snapshot
  BY DEF Flush, actorVars, echoVars, deviceVars
<1>2. /\ events \in Seq(MailShape) /\ outbox \in Seq(MailShape) /\ shell.gen \in Nat
      /\ Past(events, shell.gen) /\ Past(outbox, shell.gen)
  BY DEF EchoInv, ShellTyped, NothingFromTheFuture, Fields
<1>3. events' = Append(events, m) /\ outbox' = Tail(outbox) /\ m \in MailShape
      /\ outbox' \in Seq(MailShape) /\ events' \in Seq(MailShape)
  BY <1>1, <1>2, QueueTail, QueueAppend DEF Flush
<1> HIDE DEF m
<1>4. Past(events', shell.gen) /\ Past(outbox', shell.gen)
  BY <1>1, <1>2, <1>3, PastMoves DEF m
<1>5. ShellTyped'
  BY <1>1, <1>3 DEF EchoInv, ShellTyped
<1>6. Unrecorded' = Unrecorded
  BY <1>1 DEF Unrecorded
<1>7. ((\A c \in Unrecorded : CommandFits(c)) /\ EdgesRise /\ EdgeFits /\ SlotsFit)'
  BY <1>1, <1>6 DEF EchoInv, CommandFits, EdgesRise, EdgeFits, SlotsFit, Numbered
<1>8. NothingFromTheFuture'
  BY <1>1, <1>4 DEF EchoInv, NothingFromTheFuture, Waits
<1>9. AnswersInTurn'
  <2> SUFFICES ASSUME Awaited
               PROVE  AnswersInTurn'
    BY <1>1 DEF AnswersInTurn, Awaited, Waits
  <2>1. /\ InTurn(events, shell.gen, Settles(K), SnapsBack(K))
        /\ Brings(events, shell.gen, Settles(K)) \/ InTurn(outbox, shell.gen, Settles(K), SnapsBack(K))
        /\ projected.session # Absent /\ projected.session.gen = shell.gen =>
             Brings(events, shell.gen, Settles(K)) \/ Brings(outbox, shell.gen, Settles(K))
    BY DEF EchoInv, AnswersInTurn
  <2> DEFINE settled == m.gen = shell.gen /\ m.type \in Settles(K)
  <2>2. /\ Brings(events, shell.gen, Settles(K)) => Brings(events', shell.gen, Settles(K))
        /\ settled => Brings(events', shell.gen, Settles(K))
    BY <1>2, <1>3, BringsAppend
  <2>3. m.gen = shell.gen /\ m.type \in SnapsBack(K) => Brings(events, shell.gen, Settles(K))
    BY <1>1, <1>2, <2>1, TurnTail DEF m
  <2>4. InTurn(events', shell.gen, Settles(K), SnapsBack(K))
    BY <1>2, <1>3, <2>1, <2>3, TurnAppend
  <2>5. Brings(events', shell.gen, Settles(K)) \/ InTurn(outbox', shell.gen, Settles(K), SnapsBack(K))
    BY <1>1, <1>2, <1>3, <2>1, <2>2, TurnTail DEF m
  <2>6. Brings(outbox, shell.gen, Settles(K)) =>
          Brings(events', shell.gen, Settles(K)) \/ Brings(outbox', shell.gen, Settles(K))
    BY <1>1, <1>2, <1>3, <2>2, BringsTail DEF m
  <2> QED BY <1>1, <2>1, <2>2, <2>4, <2>5, <2>6 DEF AnswersInTurn
<1>10. TakenBack
  BY <1>1 DEF TakenBack
<1> QED BY <1>5, <1>7, <1>8, <1>9, <1>10 DEF EchoInv

LEMMA ProjectKeeps ==
  ASSUME EchoInv, Project
  PROVE  EchoInv' /\ TakenBack
<1> DEFINE K == shell.stream.kind
<1> DEFINE phase == snapshot.phase
<1> DEFINE out == ~SaysNothing(phase) /\ Publishes(phase)
<1> DEFINE said == Event(phase.kind, edge.gen)
<1> DEFINE told == IF out THEN <<said>> ELSE <<>>
<1> DEFINE read == [Event("Reading", 0) EXCEPT !.status = snapshot.reading]
<1> DEFINE settling == Brings(events, shell.gen, Settles(K))
<1>1. /\ outbox = <<>> /\ shell' = shell /\ in_call' = in_call /\ events' = events /\ edge' = edge
      /\ group_slot' = group_slot /\ tone_slot' = tone_slot /\ snapshot' = snapshot
      /\ pass' = [snap |-> snapshot, closed |-> gone]
  BY DEF Project, actorVars
<1>2. outbox' = told \o (IF snapshot.reading # projected.reading THEN <<read>> ELSE <<>>)
  BY DEF Project
<1>3. projected' = [projected EXCEPT !.reading = snapshot.reading,
                       !.session = IF out THEN [gen |-> edge.gen, phase |-> phase.kind] ELSE @]
  BY DEF Project
<1>4. /\ SnapshotFits(snapshot) /\ DOMAIN projected = {"session", "reading", "closed"}
      /\ edge.gen \in Nat /\ shell.gen \in Nat /\ edge.gen <= shell.gen
      /\ projected.session # Absent => projected.session.gen \in Nat
      /\ phase.kind \in PhaseKinds /\ snapshot.reading \in Nat
  BY DEF EchoInv, ShellTyped, Fields, EdgeFits, SnapshotFits, PhaseKinds
<1>5. out => phase.kind \in {"Streaming", "Degraded", "Restarting", "Stopped"}
  BY <1>4 DEF SaysNothing, PhaseKinds
<1>6. out => said \in MailShape /\ said.gen = edge.gen /\ said.type = phase.kind
  BY <1>4, <1>5 DEF Event, MailShape, SessionTypes, None
<1>7. read \in MailShape /\ read.gen = 0 /\ read.type = "Reading"
  BY <1>4 DEF Event, MailShape
\* What is published for a press that is waited for settles it.
<1>8. Awaited /\ out /\ edge.gen = shell.gen => settling \/ phase.kind \in Settles(K)
  <2> SUFFICES ASSUME Awaited, out, edge.gen = shell.gen, ~settling
               PROVE  phase.kind \in Settles(K)
    OBVIOUS
  <2>1. projected.session # Absent => projected.session.gen # edge.gen
    BY <1>1 DEF EchoInv, AnswersInTurn, Brings
  <2>2. edge.kind # "Rejected" /\ Waits(shell) /\ edge.gen # 0
    BY DEF Awaited, EchoInv, NothingFromTheFuture
  <2>3. CASE K = "Starting"
    <3>1. edge.kind \in {"Start", "PendingGroup", "ConfirmedGroup"}
      BY <2>2, <2>3 DEF EchoInv, EdgeFits
    <3>2. CASE edge.kind = "Start"
      BY <2>1, <2>3, <3>2 DEF Publishes, AnsweredBy, Settles
    <3>3. CASE edge.kind = "PendingGroup"
      BY <3>3 DEF Publishes
    <3>4. CASE edge.kind = "ConfirmedGroup"
      <4>1. phase.kind # "Stopped"
        BY <2>1, <3>4 DEF Publishes
      <4> QED BY <1>5, <2>3, <4>1 DEF Settles
    <3> QED BY <3>1, <3>2, <3>3, <3>4
  <2>4. CASE K = "Stopping"
    <3>1. edge.kind = "Stop"
      BY <2>2, <2>4 DEF EchoInv, EdgeFits
    <3> QED BY <2>1, <2>4, <3>1 DEF Publishes, AnsweredBy, Settles
  <2> QED BY <2>2, <2>3, <2>4 DEF Waits
<1>9. /\ projected'.session = (IF out THEN [gen |-> edge.gen, phase |-> phase.kind] ELSE projected.session)
      /\ DOMAIN projected' = {"session", "reading", "closed"}
  BY <1>3, <1>4
<1> HIDE DEF out, said, read
<1>10. /\ told \in Seq(MailShape) /\ Past(told, shell.gen)
       /\ out => Len(told) = 1 /\ told[1] = said
       /\ ~out => told = <<>>
  BY <1>4, <1>6 DEF Past
<1>11. outbox' \in {told, Append(told, read)}
  BY <1>2, <1>7, <1>10, QueueConcat
<1> HIDE DEF told
<1>12. \/ ~Awaited \/ settling \/ InTurn(told, shell.gen, Settles(K), SnapsBack(K))
  <2> SUFFICES ASSUME Awaited, ~settling
               PROVE  InTurn(told, shell.gen, Settles(K), SnapsBack(K))
    OBVIOUS
  <2>1. CASE out
    <3>1. said.gen = shell.gen => said.type \notin SnapsBack(K)
      BY <1>6, <1>8, <2>1 DEF Settles, SnapsBack
    <3> SUFFICES ASSUME NEW i \in 1..Len(told), told[i].gen = shell.gen, told[i].type \in SnapsBack(K)
                 PROVE  FALSE
      BY DEF InTurn
    <3>2. i = 1
      BY <1>10, <2>1
    <3> QED BY <1>10, <2>1, <3>1, <3>2
  <2>2. CASE ~out
    BY <1>10, <2>2 DEF InTurn
  <2> QED BY <2>1, <2>2
<1>13. Awaited /\ out /\ edge.gen = shell.gen => settling \/ Brings(told, shell.gen, Settles(K))
  BY <1>6, <1>8, <1>10 DEF Brings
<1> HIDE DEF settling, K
<1>14. /\ outbox' \in Seq(MailShape) /\ Past(outbox', shell.gen)
       /\ InTurn(told, shell.gen, Settles(K), SnapsBack(K)) =>
            InTurn(outbox', shell.gen, Settles(K), SnapsBack(K))
       /\ Brings(told, shell.gen, Settles(K)) => Brings(outbox', shell.gen, Settles(K))
  <2>1. read.gen <= shell.gen /\ read.type \notin SnapsBack(K)
    BY <1>4, <1>7 DEF SnapsBack
  <2>2. told \in Seq(MailShape) /\ Past(told, shell.gen)
    BY <1>10
  <2> HIDE DEF Past, InTurn, Brings
  <2>3. CASE outbox' = told
    BY <2>2, <2>3
  <2>4. CASE outbox' = Append(told, read)
    <3>1. outbox' \in {told, Append(told, read)}
      BY <2>4
    <3>2. read \in MailShape /\ shell.gen \in Nat
      BY <1>4, <1>7
    <3> QED BY <2>1, <2>2, <3>1, <3>2, QueueGrows
  <2> QED BY <1>11, <2>3, <2>4
<1>15. ShellTyped'
  <2>1. (pass # Absent => SnapshotFits(pass.snap))'
    BY <1>1, <1>4
  <2>2. (/\ DOMAIN projected = {"session", "reading", "closed"}
         /\ projected.session # Absent => projected.session.gen \in Nat)'
    BY <1>4, <1>9
  <2> QED BY <1>1, <1>14, <2>1, <2>2 DEF EchoInv, ShellTyped
<1>16. Unrecorded' = Unrecorded
  BY <1>1 DEF Unrecorded
<1>17. ((\A c \in Unrecorded : CommandFits(c)) /\ EdgesRise /\ EdgeFits /\ SlotsFit)'
  BY <1>1, <1>16 DEF EchoInv, CommandFits, EdgesRise, EdgeFits, SlotsFit, Numbered
<1>18. NothingFromTheFuture'
  <2>1. (projected.session # Absent => projected.session.gen <= edge.gen)'
    BY <1>1, <1>4, <1>9 DEF EchoInv, NothingFromTheFuture
  <2> QED BY <1>1, <1>14, <2>1 DEF EchoInv, NothingFromTheFuture, Waits
<1>19. AnswersInTurn'
  <2> SUFFICES ASSUME Awaited
               PROVE  AnswersInTurn'
    BY <1>1 DEF AnswersInTurn, Awaited, Waits
  <2>1. /\ InTurn(events, shell.gen, Settles(K), SnapsBack(K))
        /\ projected.session # Absent /\ projected.session.gen = shell.gen => settling
    BY <1>1 DEF EchoInv, AnswersInTurn, Brings, settling, K
  <2>2. settling \/ InTurn(outbox', shell.gen, Settles(K), SnapsBack(K))
    BY <1>12, <1>14
  <2>3. projected'.session # Absent /\ projected'.session.gen = shell.gen =>
          settling \/ Brings(outbox', shell.gen, Settles(K))
    BY <1>9, <1>13, <1>14, <2>1
  <2> QED BY <1>1, <2>1, <2>2, <2>3 DEF AnswersInTurn, settling, K
<1>20. TakenBack
  BY <1>1 DEF TakenBack
<1> QED BY <1>15, <1>17, <1>18, <1>19, <1>20 DEF EchoInv

LEMMA AnswerKeeps ==
  ASSUME EchoInv, Answer
  PROVE  EchoInv' /\ TakenBack
<1> DEFINE K == shell.stream.kind
<1> DEFINE g == shell.gen
<1> DEFINE group == GroupAnswer
<1> DEFINE tone == ToneAnswer
<1> DEFINE mine == group # None /\ group_slot.gen # 0 /\ group_slot.gen = edge.gen
<1> DEFINE m1 == [Event("GroupDone", 0) EXCEPT !.request = group_slot.request, !.status = group]
<1> DEFINE m2 == Event("Failed", tone_slot.gen)
<1> DEFINE m3 == Event("Closed", 0)
<1> DEFINE q1 == outbox \o (IF group = None THEN <<>> ELSE <<m1>>)
<1> DEFINE q2 == q1 \o (IF tone = "Failed" THEN <<m2>> ELSE <<>>)
<1>1. /\ pass # Absent /\ pass' = Absent /\ shell' = shell /\ in_call' = in_call /\ events' = events
      /\ snapshot' = snapshot
  BY DEF Answer, actorVars, deviceVars
<1>2. /\ edge' = IF ~mine THEN edge
                 ELSE IF group = "Failed" THEN [edge EXCEPT !.kind = "Rejected"]
                 ELSE IF pass.snap.group.floor = 0 THEN [edge EXCEPT !.kind = "PendingGroup"]
                 ELSE [edge EXCEPT !.kind = "ConfirmedGroup", !.floor = pass.snap.group.floor]
      /\ group_slot' = IF group = None THEN group_slot ELSE Absent
      /\ tone_slot' = IF tone = None THEN tone_slot ELSE Absent
      /\ projected' = [projected EXCEPT !.closed = pass.closed]
  BY DEF Answer
<1>3. outbox' = q2 \o (IF pass.closed /\ ~projected.closed THEN <<m3>> ELSE <<>>)
  BY DEF Answer
<1>4. /\ group \in {None, "Succeeded", "Failed"}
      /\ group # None => group_slot # Absent
      /\ group = "Succeeded" => group_slot.sent = "ok"
  <2>1. pass.snap.group.status \in {None, "Succeeded", "Failed"}
    BY <1>1 DEF EchoInv, ShellTyped, SnapshotFits
  <2> QED BY <2>1 DEF GroupAnswer, None
<1>5. tone = "Failed" => tone_slot # Absent
  BY DEF ToneAnswer, None
<1>6. /\ group_slot # Absent => group_slot.gen \in Nat /\ group_slot.request \in Nat
      /\ tone_slot # Absent => tone_slot.gen \in Nat /\ tone_slot.gen <= g /\ (tone_slot.gen = g => K # "Starting")
      /\ g \in Nat /\ edge.gen \in Nat /\ DOMAIN edge = {"gen", "kind", "floor"}
      /\ DOMAIN projected = {"session", "reading", "closed"}
  BY DEF EchoInv, ShellTyped, SlotShape, ToneShape, SlotsFit, Fields
\* What the answers add to the queue takes back no wait.
<1>7. group # None => m1 \in MailShape /\ m1.gen = 0 /\ m1.type = "GroupDone"
  BY <1>4, <1>6 DEF Event, MailShape, None
<1>8. tone = "Failed" => m2 \in MailShape /\ m2.gen = tone_slot.gen /\ m2.type = "Failed"
  BY <1>5, <1>6 DEF Event, MailShape, SessionTypes, None
<1>9. m3 \in MailShape /\ m3.gen = 0 /\ m3.type = "Closed"
  BY DEF Event, MailShape, None
<1>10. Waits(shell) /\ tone = "Failed" => ~(m2.gen = g /\ m2.type \in SnapsBack(K))
  BY <1>5, <1>6, <1>8 DEF Waits, SnapsBack
<1> HIDE DEF group, tone, m1, m2, m3
<1>11. outbox \in Seq(MailShape) /\ Past(outbox, g)
  BY DEF EchoInv, ShellTyped, NothingFromTheFuture
<1> DEFINE Keeps(q, r) ==
       /\ r \in Seq(MailShape) /\ Past(r, g)
       /\ Waits(shell) /\ InTurn(q, g, Settles(K), SnapsBack(K)) => InTurn(r, g, Settles(K), SnapsBack(K))
       /\ Brings(q, g, Settles(K)) => Brings(r, g, Settles(K))
<1>12. ASSUME NEW q \in Seq(MailShape), Past(q, g), NEW m \in MailShape, m.gen <= g,
              Waits(shell) => ~(m.gen = g /\ m.type \in SnapsBack(K))
       PROVE  Keeps(q, Append(q, m))
  <2> HIDE DEF K, g
  <2>1. g \in Nat
    BY <1>6 DEF g
  <2>2. Append(q, m) \in {q, Append(q, m)}
    OBVIOUS
  <2>3. /\ Append(q, m) \in Seq(MailShape) /\ Past(Append(q, m), g)
        /\ ~(m.gen = g /\ m.type \in SnapsBack(K)) =>
             (InTurn(q, g, Settles(K), SnapsBack(K)) => InTurn(Append(q, m), g, Settles(K), SnapsBack(K)))
        /\ Brings(q, g, Settles(K)) => Brings(Append(q, m), g, Settles(K))
    BY <1>12, <2>1, <2>2, QueueGrows
  <2> QED BY <1>12, <2>3
<1>13. Keeps(outbox, q1)
  <2>1. CASE group = None
    <3>1. q1 = outbox
      BY <1>11, <2>1, QueueConcat, <1>9
    <3> QED BY <1>11, <3>1
  <2>2. CASE group # None
    <3>1. q1 = Append(outbox, m1)
      BY <1>7, <1>11, <2>2, QueueConcat
    <3>2. m1.gen <= g /\ m1.type \notin SnapsBack(K)
      BY <1>6, <1>7, <2>2 DEF SnapsBack
    <3> HIDE DEF q1, Keeps, K, g
    <3> QED BY <1>7, <1>11, <1>12, <2>2, <3>1, <3>2
  <2> QED BY <2>1, <2>2
<1> HIDE DEF q1
<1>14. Keeps(q1, q2)
  <2>1. CASE tone # "Failed"
    <3>1. q2 = q1
      BY <1>13, <2>1, QueueConcat, <1>9
    <3> QED BY <1>13, <3>1
  <2>2. CASE tone = "Failed"
    <3>0. q1 \in Seq(MailShape) /\ Past(q1, g)
      BY <1>13
    <3>1. q2 = Append(q1, m2)
      BY <1>8, <3>0, <2>2, QueueConcat
    <3>2. m2.gen <= g
      BY <1>5, <1>6, <1>8, <2>2
    <3>3. Waits(shell) => ~(m2.gen = g /\ m2.type \in SnapsBack(K))
      BY <1>10, <2>2
    <3> HIDE DEF q2, Keeps, K, g
    <3> QED BY <1>8, <1>12, <2>2, <3>0, <3>1, <3>2, <3>3
  <2> QED BY <2>1, <2>2
<1> HIDE DEF q2
<1>15. Keeps(q2, outbox')
  <2>0. q2 \in Seq(MailShape) /\ Past(q2, g)
    BY <1>14
  <2>1. CASE outbox' = q2
    BY <2>0, <2>1
  <2>2. CASE outbox' = Append(q2, m3)
    <3>1. m3.gen <= g /\ m3.type \notin SnapsBack(K)
      BY <1>6, <1>9 DEF SnapsBack
    <3> HIDE DEF Keeps, K, g
    <3> QED BY <1>9, <1>12, <2>0, <2>2, <3>1
  <2>3. outbox' = q2 \/ outbox' = Append(q2, m3)
    BY <1>3, <1>9, <2>0, QueueConcat
  <2> QED BY <2>1, <2>2, <2>3
<1>16. Keeps(outbox, outbox')
  BY <1>13, <1>14, <1>15
\* The edge of the newest press is only ever settled in its own way.
<1>17. /\ edge'.gen = edge.gen /\ DOMAIN edge' = {"gen", "kind", "floor"}
       /\ ~mine => edge'.kind = edge.kind
       /\ mine => edge'.kind = "Rejected" \/ (group = "Succeeded" /\ edge'.kind \in {"PendingGroup", "ConfirmedGroup"})
  BY <1>2, <1>4, <1>6
<1>18. mine => /\ edge.gen = g => K # "Stopping"
               /\ edge.kind = "Rejected" => group = "Failed"
  BY <1>4 DEF EchoInv, SlotsFit
<1>19. mine /\ edge.kind = "Rejected" => edge'.kind = "Rejected"
  BY <1>2, <1>6, <1>18
<1>20. ShellTyped'
  <2>1. (group_slot \in {Absent} \cup SlotShape /\ tone_slot \in {Absent} \cup ToneShape)'
    BY <1>2 DEF EchoInv, ShellTyped
  <2>2. (/\ DOMAIN projected = {"session", "reading", "closed"}
         /\ projected.session # Absent => projected.session.gen \in Nat)'
    BY <1>2, <1>6 DEF EchoInv, ShellTyped
  <2>3. (DOMAIN edge = {"gen", "kind", "floor"} /\ edge.gen \in Nat)'
    BY <1>6, <1>17
  <2>4. outbox' \in Seq(MailShape)
    BY <1>16
  <2> QED BY <1>1, <2>1, <2>2, <2>3, <2>4 DEF EchoInv, ShellTyped
<1>21. Unrecorded' = Unrecorded
  BY <1>1 DEF Unrecorded
<1>22. ((\A c \in Unrecorded : CommandFits(c)) /\ EdgesRise)'
  BY <1>1, <1>17, <1>21 DEF EchoInv, CommandFits, EdgesRise, Numbered
<1>23. EdgeFits'
  <2>1. CASE ~mine
    BY <1>1, <1>17, <2>1 DEF EchoInv, EdgeFits
  <2>2. CASE mine
    BY <1>1, <1>17, <1>18, <2>2 DEF EchoInv, EdgeFits
  <2> QED BY <2>1, <2>2
<1>24. SlotsFit'
  <2>1. CASE group = None
    <3>1. group_slot' = group_slot /\ edge' = edge
      BY <1>2, <2>1
    <3> QED BY <1>1, <1>2, <3>1 DEF EchoInv, SlotsFit
  <2>2. CASE group # None
    <3>1. group_slot' = Absent
      BY <1>2, <2>2
    <3> QED BY <1>1, <1>2, <3>1 DEF EchoInv, SlotsFit
  <2> QED BY <2>1, <2>2
<1>25. projected'.session = projected.session
  BY <1>2, <1>6
<1>26. NothingFromTheFuture'
  BY <1>1, <1>16, <1>17, <1>25 DEF EchoInv, NothingFromTheFuture, Waits
<1>27. AnswersInTurn'
  <2> SUFFICES ASSUME Awaited'
               PROVE  AnswersInTurn'
    BY DEF AnswersInTurn
  <2>1. Awaited
    BY <1>1, <1>17, <1>19 DEF Awaited, Waits
  <2>2. Waits(shell)
    BY <2>1 DEF Awaited
  <2> QED BY <1>1, <1>16, <1>25, <2>1, <2>2 DEF EchoInv, AnswersInTurn
<1>28. TakenBack
  BY <1>1 DEF TakenBack
<1> QED BY <1>20, <1>22, <1>23, <1>24, <1>26, <1>27, <1>28 DEF EchoInv

\* The backend writes the snapshot, and nothing else of what the echo rests on.
LEMMA BackendKeeps ==
  ASSUME EchoInv, UNCHANGED <<actorVars, events, echoVars, relayVars>>, SnapshotFits(snapshot')
  PROVE  EchoInv' /\ TakenBack
<1>1. /\ shell' = shell /\ in_call' = in_call /\ events' = events /\ edge' = edge
      /\ group_slot' = group_slot /\ tone_slot' = tone_slot /\ projected' = projected
      /\ pass' = pass /\ outbox' = outbox
  BY DEF actorVars, echoVars, relayVars
<1>2. ShellTyped'
  BY <1>1 DEF EchoInv, ShellTyped
<1>3. Unrecorded' = Unrecorded
  BY <1>1 DEF Unrecorded
<1>4. ((\A c \in Unrecorded : CommandFits(c)) /\ EdgesRise /\ EdgeFits /\ SlotsFit)'
  BY <1>1, <1>3 DEF EchoInv, CommandFits, EdgesRise, EdgeFits, SlotsFit, Numbered
<1>5. (NothingFromTheFuture /\ AnswersInTurn)'
  BY <1>1 DEF EchoInv, NothingFromTheFuture, AnswersInTurn, Awaited, Waits
<1>6. TakenBack
  BY <1>1 DEF TakenBack
<1> QED BY <1>2, <1>4, <1>5, <1>6 DEF EchoInv

LEMMA SnapshotKept ==
  ASSUME SnapshotFits(snapshot),
         \/ ProcessBatch \/ AdmitAttempt \/ SessionEdgeArrives \/ Rebuild
         \/ ReadingChanges \/ BackendEnds
  PROVE  SnapshotFits(snapshot') /\ UNCHANGED <<actorVars, events, echoVars, relayVars>>
<1>1. CASE ProcessBatch
  <2> DEFINE groups == Indices({"group", "save"})
  <2> DEFINE tones == Indices({"tone"})
  <2> DEFINE begins == \E i \in Indices({"group"}) : ~(\E j \in Indices({"stop"}) : j > i)
  <2>1. PICK saved, played :
          snapshot' = [snapshot EXCEPT
                !.group = IF groups = {} THEN @
                  ELSE [request |-> commands[Newest(groups)].request,
                        status |-> IF saved THEN "Succeeded" ELSE "Failed",
                        floor |-> IF saved /\ begins THEN attempt' ELSE 0],
                !.tone = IF tones = {} THEN @
                  ELSE [gen |-> commands[Newest(tones)].gen,
                        status |-> IF played /\ snapshot.phase.kind = "Streaming"
                                   THEN "Played" ELSE "Failed"]]
    BY <1>1, ZenonT(60) DEF ProcessBatch, Publish
  <2> HIDE DEF groups, tones, begins
  <2>2. SnapshotFits(snapshot')
    BY <2>1 DEF SnapshotFits, None
  <2> QED BY <1>1, <2>2 DEF ProcessBatch
<1>2. CASE AdmitAttempt
  BY <1>2 DEF AdmitAttempt
<1>3. CASE SessionEdgeArrives
  <2>1. PICK kind \in Follows(snapshot.phase) : snapshot' = [snapshot EXCEPT !.phase = Derived(kind)]
    BY <1>3 DEF SessionEdgeArrives, Publish
  <2>2. kind \in {"Starting", "Streaming", "Degraded", "Restarting", "Stopped"}
    BY DEF Follows
  <2>3. Derived(kind).kind \in {"Starting", "Streaming", "Degraded", "Restarting", "Stopped"}
    BY <2>2 DEF Derived, State
  <2>4. SnapshotFits(snapshot')
    BY <2>1, <2>3 DEF SnapshotFits
  <2> QED BY <1>3, <2>4 DEF SessionEdgeArrives
<1>4. CASE Rebuild
  BY <1>4 DEF Rebuild
<1>5. CASE ReadingChanges
  <2>1. snapshot' = [snapshot EXCEPT !.reading = @ + 1]
    BY <1>5 DEF ReadingChanges, Publish
  <2>2. SnapshotFits(snapshot')
    BY <2>1 DEF SnapshotFits
  <2> QED BY <1>5, <2>2 DEF ReadingChanges
<1>6. CASE BackendEnds
  BY <1>6 DEF BackendEnds
<1> QED BY <1>1, <1>2, <1>3, <1>4, <1>5, <1>6

LEMMA EchoStarts ==
  ASSUME ShellInit
  PROVE  EchoInv
<1>1. /\ shell = NewAppState /\ in_call = Absent /\ events = <<>> /\ outbox = <<>> /\ pass = Absent
      /\ edge = [gen |-> 0, kind |-> "Untouched", floor |-> 0]
      /\ group_slot = Absent /\ tone_slot = Absent
      /\ projected = [session |-> Absent, reading |-> 0, closed |-> FALSE]
      /\ snapshot = SessionSnapshot
  BY DEF ShellInit, EchoInit, ProjectionInit, UntouchedEdge
<1>2. /\ DOMAIN shell = AppFields /\ shell.gen = 0 /\ shell.request = 0 /\ shell.fx = <<>>
      /\ shell.stream.kind = "Stopped"
  BY <1>1 DEF NewAppState, AppFields, Stream, State
<1>3. /\ edge.gen = 0 /\ DOMAIN edge = {"gen", "kind", "floor"}
      /\ projected.session = Absent /\ DOMAIN projected = {"session", "reading", "closed"}
      /\ \A S : <<>> \in Seq(S)
      /\ Len(<<>>) = 0 /\ 1..0 = {}
  BY <1>1, EmptySeq
<1>4. SnapshotFits(snapshot)
  BY <1>1 DEF SessionSnapshot, SnapshotFits, State, None
<1>5. ShellTyped
  BY <1>1, <1>2, <1>3, <1>4 DEF ShellTyped, Fields
<1>6. Unrecorded = {}
  BY <1>1, <1>2, <1>3 DEF Unrecorded
<1>7. (\A c \in Unrecorded : CommandFits(c)) /\ EdgesRise /\ EdgeFits /\ SlotsFit
  BY <1>1, <1>2, <1>3, <1>6 DEF EdgesRise, EdgeFits, SlotsFit
<1>8. NothingFromTheFuture /\ AnswersInTurn
  BY <1>1, <1>2, <1>3 DEF NothingFromTheFuture, AnswersInTurn, Awaited, Waits, Past
<1> QED BY <1>5, <1>7, <1>8 DEF EchoInv

LEMMA EchoStep ==
  ASSUME EchoInv, [ShellNext]_shellVars
  PROVE  EchoInv' /\ TakenBack
<1>1. CASE UserEvent \/ TakeEvent
  BY <1>1, ActorReduces
<1>2. CASE SendCommand
  BY <1>2, SendKeeps
<1>3. CASE RecordCommand
  BY <1>3, RecordKeeps
<1>4. CASE Flush
  BY <1>4, FlushKeeps
<1>5. CASE Project
  BY <1>5, ProjectKeeps
<1>6. CASE Answer
  BY <1>6, AnswerKeeps
<1>7. SnapshotFits(snapshot)
  BY DEF EchoInv, ShellTyped
<1>8. CASE ProcessBatch \/ AdmitAttempt \/ SessionEdgeArrives \/ Rebuild \/ ReadingChanges \/ BackendEnds
  BY <1>7, <1>8, SnapshotKept, BackendKeeps
<1>9. CASE UNCHANGED shellVars
  BY <1>7, <1>9, BackendKeeps DEF shellVars, actorVars, echoVars, relayVars
<1> QED BY <1>1, <1>2, <1>3, <1>4, <1>5, <1>6, <1>8, <1>9 DEF ShellNext

\* NoSnapBack: a window that shows Starting or Stopping is not taken back by what the
\* backend said of an earlier attempt; only a refused command or a failed group may.
THEOREM NothingSnapsBack == ShellSpec => NoSnapBack
<1>1. ShellInit => EchoInv
  BY EchoStarts
<1>2. EchoInv /\ [ShellNext]_shellVars => EchoInv' /\ TakenBack
  BY EchoStep
<1>3. EchoInv /\ [ShellNext]_shellVars =>
        [\/ shell.stream.kind = "Stopping" /\ shell'.stream.kind \in {"Streaming", "Degraded"}
         \/ shell.stream.kind = "Starting" /\ shell'.stream.kind = "Stopped"
         => edge.kind = "Rejected" /\ edge.gen = shell.gen]_shellVars
  BY <1>2 DEF TakenBack
<1> QED BY <1>1, <1>2, <1>3, PTL DEF ShellSpec, NoSnapBack
-----------------------------------------------------------------------------
(* The settings: what the threads hold between the reducer and the file.    *)

Prefs == [hotkey : Bindings, look : Looks, locale : Locales, frame : Frames]
Kinds == {"absent", "v1", "v2", "corrupt"}
SettingsFileShape == [kind : Kinds, value : Prefs, synced : BOOLEAN]
SaveJob == [gen : Nat, value : Prefs, left : Nat]
SaveCommands == [op : {"save"}, gen : Nat, value : Prefs] \cup [op : {"flush"}]
KeyCommands == [op : {"configure"}, gen : Nat, value : Bindings] \cup [op : {"shutdown"}]
ReportShape ==
  [op : {"saved", "failed", "closed", "hotkey"}, gen : Nat, applied : Bindings, failed : BOOLEAN]
Notices == {"none", "persist", "hotkey", "invalid", "error", "settings"}
SaveOutcomes == {"none", "saved", "failed"}
WriteSteps == {"create", "write", "sync", "move"}

PrefsTyped ==
  prefs \in [value : Prefs, notice : Notices, gen : Nat, hotkey_gen : Nat, quitting : BOOLEAN,
             outcome : SaveOutcomes, effect : {Idle}]
SaverTyped ==
  saver \in [queue : Seq(SaveCommands), pending : SaveJob, doing : SaveJob,
             step : WriteSteps \cup {"idle", "gone"}, committed : Prefs,
             has_committed : BOOLEAN, flushing : BOOLEAN]
FolderTyped ==
  folder \in [file : SettingsFileShape, tmp : SettingsFileShape,
              legacy : {"absent", "valid", "invalid"}, ours : BOOLEAN]
HotkeysTyped ==
  hotkeys \in [queue : Seq(KeyCommands), posts : Seq({"configure", "shutdown"}),
               at : {"start", "drain", "wait", "done"}, applied : Bindings,
               live : Chords \cup {0}]
ActorTyped == actor \in [inbox : Seq(ReportShape), posting : BOOLEAN]
ExitTyped ==
  exit \in [step : {"none", "device", "hotkey", "wake", "await", "flush", "ack", "closed"},
            flushed : BOOLEAN, due : Nat]
RoomKept ==
  /\ Len(saver.queue) <= SaveRoom /\ Len(hotkeys.queue) <= KeyRoom
  /\ Len(actor.inbox) <= ReportRoom /\ unsaid \subseteq {"save", "saved", "key"}

SettingsTyped ==
  /\ PrefsTyped /\ SaverTyped /\ FolderTyped /\ HotkeysTyped /\ ActorTyped /\ ExitTyped
  /\ RoomKept

-----------------------------------------------------------------------------
(* The invariant.                                                          *)

\* What is written is complete before it takes the file's place.
FolderInv ==
  /\ folder.file.synced /\ (folder.ours => folder.file.kind = "v2")
  /\ saver.step \in {"sync", "move"} =>
       folder.tmp.kind = "v2" /\ folder.tmp.value = saver.doing.value
  /\ saver.step = "move" => folder.tmp.synced

\* A save on its way that carries the newest generation carries the newest
\* value, and its outcome is not known.
SaveTrue(gen, value) ==
  /\ gen <= prefs.gen
  /\ gen = prefs.gen /\ gen # 0 => value = prefs.value /\ prefs.outcome = "none"

\* The saves are on their way in the order of their generations.
QueueRising ==
  /\ \A i \in 1..Len(saver.queue) : saver.queue[i].op = "save" =>
       /\ saver.pending.gen < saver.queue[i].gen /\ saver.doing.gen < saver.queue[i].gen
       /\ SaveTrue(saver.queue[i].gen, saver.queue[i].value)
  /\ \A i, j \in 1..Len(saver.queue) :
       i < j /\ saver.queue[i].op = "save" /\ saver.queue[j].op = "save" =>
         saver.queue[i].gen < saver.queue[j].gen

JobsRising ==
  /\ saver.pending.gen # 0 => saver.doing.gen < saver.pending.gen
  /\ SaveTrue(saver.pending.gen, saver.pending.value)
  /\ SaveTrue(saver.doing.gen, saver.doing.value)
  /\ saver.doing.gen # 0 <=> saver.step \in WriteSteps

NewestUnderWay ==
  \/ saver.pending.gen = prefs.gen \/ saver.doing.gen = prefs.gen
  \/ \E i \in 1..Len(saver.queue) : saver.queue[i].op = "save" /\ saver.queue[i].gen = prefs.gen

OutcomeTrue ==
  /\ prefs.outcome = "none" /\ prefs.gen # 0 => NewestUnderWay
  /\ prefs.outcome # "none" => prefs.gen # 0
  /\ prefs.outcome = "saved" =>
       /\ saver.pending.gen = 0 /\ saver.doing.gen = 0
       /\ \A i \in 1..Len(saver.queue) : saver.queue[i].op # "save"
       /\ folder.file.kind = "v2" /\ folder.file.value = prefs.value

LineInv == QueueRising /\ JobsRising /\ OutcomeTrue

\* A report tells the outcome of the generation it names.
ReportTrue(e) ==
  e.op \in {"saved", "failed"} =>
    e.gen <= prefs.gen /\ (e.gen = prefs.gen => prefs.outcome = e.op)

ToBeTold(op) ==
  \E i \in 1..Len(actor.inbox) : actor.inbox[i].op = op /\ actor.inbox[i].gen = prefs.gen

TellInv ==
  /\ \A i \in 1..Len(actor.inbox) : ReportTrue(actor.inbox[i])
  /\ prefs.outcome = "failed" /\ "save" \notin unsaid => prefs.notice = "persist" \/ ToBeTold("failed")
  /\ prefs.outcome = "saved" /\ prefs.notice = "persist" /\ "saved" \notin unsaid => ToBeTold("saved")
  /\ prefs.notice = "persist" => prefs.gen # 0

\* A flush is the last thing the exit queues; what is queued behind it is newer
\* than what it was promised to write.
ExitInv ==
  /\ exit.step # "none" => prefs.gen # 0 /\ prefs.quitting
  /\ exit.due <= prefs.gen
  /\ \A i \in 1..Len(saver.queue) : saver.queue[i].op = "flush" =>
       /\ exit.step \in {"ack", "closed"} /\ ~saver.flushing
       /\ \A j \in 1..Len(saver.queue) : j > i =>
            saver.queue[j].op = "save" /\ exit.due < saver.queue[j].gen
  /\ saver.flushing =>
       /\ exit.step \in {"ack", "closed"} /\ saver.pending.gen = 0 /\ saver.step # "idle"
       /\ \A i \in 1..Len(saver.queue) : saver.queue[i].op = "save" /\ exit.due < saver.queue[i].gen
  /\ saver.step = "gone" => saver.flushing
  /\ exit.flushed => saver.step = "gone"

\* Windows holds the chord the engine believes in.
ChordHeld ==
  hotkeys.at # "start" =>
    /\ hotkeys.applied.on => hotkeys.live = hotkeys.applied.chord
    /\ hotkeys.live \in {0, hotkeys.applied.chord}

Answered(i) == actor.inbox[i].op = "hotkey" /\ actor.inbox[i].gen = prefs.hotkey_gen
NoCommand == \A i \in 1..Len(hotkeys.queue) : hotkeys.queue[i].op # "configure"

\* The commands carry rising generations, and the answer to the newest one says
\* what the engine holds.
KeysRising ==
  /\ \A i \in 1..Len(hotkeys.queue) : hotkeys.queue[i].op = "configure" =>
       hotkeys.queue[i].gen <= prefs.hotkey_gen
  /\ \A i, j \in 1..Len(hotkeys.queue) :
       i < j /\ hotkeys.queue[i].op = "configure" /\ hotkeys.queue[j].op = "configure" =>
         hotkeys.queue[i].gen < hotkeys.queue[j].gen
  /\ \A i \in 1..Len(actor.inbox) : actor.inbox[i].op = "hotkey" =>
       actor.inbox[i].gen <= prefs.hotkey_gen /\ hotkeys.at # "start"

AnswerTrue ==
  hotkeys.at # "done" => \A i \in 1..Len(actor.inbox) : Answered(i) =>
    NoCommand /\ actor.inbox[i].applied = hotkeys.applied

KeyShown ==
  hotkeys.at # "done" /\ "key" \notin unsaid =>
    \/ \E i \in 1..Len(hotkeys.queue) :
         hotkeys.queue[i].op = "configure" /\ hotkeys.queue[i].gen = prefs.hotkey_gen
    \/ \E i \in 1..Len(actor.inbox) : Answered(i)
    \/ NoCommand /\ prefs.value.hotkey = hotkeys.applied

KeyInv == ChordHeld /\ KeysRising /\ AnswerTrue /\ KeyShown /\ NoLostWake

SettingsInv == SettingsTyped /\ FolderInv /\ LineInv /\ TellInv /\ ExitInv /\ KeyInv

-----------------------------------------------------------------------------
(* The values a launch starts from.                                        *)

LEMMA FirstChordFound == FirstChord \in Chords
<1> DEFINE Less == {p \in Nat \X Nat : p[1] < p[2]}
<1>1. Chords \subseteq Nat /\ Chords # {}
  BY SettingsAssumption
<1>2. IsWellFoundedOn(Less, Nat)
  BY NatLessThanWellFounded DEF OpToRel
<1>3. \A x, y \in Nat : x < y => <<x, y>> \in Less
  OBVIOUS
<1>4. PICK c \in Chords : \A d \in Chords : ~(<<d, c>> \in Less)
  <2> HIDE DEF Less
  <2> QED BY <1>1, <1>2, WFMin
<1>5. \A d \in Chords : c <= d
  <2> SUFFICES ASSUME NEW d \in Chords PROVE c <= d
    OBVIOUS
  <2>1. ~(d < c)
    <3> HIDE DEF Less
    <3> QED BY <1>1, <1>3, <1>4
  <2> QED BY <1>1, <2>1
<1> QED BY <1>5 DEF FirstChord

LEMMA DefaultsTyped ==
  /\ Bindings # {} /\ DefaultPrefs \in Prefs /\ OldPrefs \in Prefs
  /\ NoSave \in SaveJob /\ NoSave.gen = 0 /\ NoFile \in SettingsFileShape /\ NoFile.synced
  /\ \A k \in Kinds, v \in Prefs : File(k, v) \in SettingsFileShape /\ File(k, v).synced
<1>1. Binding(TRUE, FirstChord) \in Bindings
  BY FirstChordFound DEF Binding, Bindings
<1>2. DefaultPrefs \in Prefs /\ OldPrefs \in Prefs
  BY <1>1 DEF DefaultPrefs, OldPrefs, Prefs, Looks, Locales, Frames
<1>3. NoSave \in SaveJob /\ NoSave.gen = 0
  BY <1>2 DEF NoSave, SaveJob
<1>4. \A k \in Kinds, v \in Prefs : File(k, v) \in SettingsFileShape /\ File(k, v).synced
  BY DEF File, SettingsFileShape
<1>5. NoFile \in SettingsFileShape /\ NoFile.synced
  BY <1>2, <1>4 DEF NoFile, Kinds
<1> QED BY <1>1, <1>2, <1>3, <1>4, <1>5

LEMMA LoadTyped ==
  ASSUME NEW f, f.file \in SettingsFileShape
  PROVE  Load(f).value \in Prefs /\ Load(f).notice \in Notices \ {"persist"}
<1>1. f.file.value \in Prefs
  BY DEF SettingsFileShape
<1>2. Migrated(f.file.value) \in Prefs
  BY <1>1 DEF Migrated, Prefs, Locales
<1>3. [DefaultPrefs EXCEPT !.hotkey = Binding(TRUE, FirstChord)] \in Prefs
  BY DefaultsTyped, FirstChordFound DEF Prefs, Binding, Bindings
<1> QED BY <1>1, <1>2, <1>3, DefaultsTyped DEF Load, Notices

\* Everything but the folder starts afresh.
Afresh ==
  /\ prefs = Launched(folder).prefs /\ saver = Launched(folder).saver
  /\ hotkeys = Launched(folder).hotkeys /\ actor = Launched(folder).actor
  /\ exit = Launched(folder).exit /\ unsaid = {}
FolderKept ==
  FolderTyped /\ folder.file.synced /\ (folder.ours => folder.file.kind = "v2")

LEMMA AfreshKeeps == Afresh /\ FolderKept => SettingsInv
<1> SUFFICES ASSUME Afresh, FolderKept PROVE SettingsInv
  OBVIOUS
<1> DEFINE v == Load(folder).value
           n == Load(folder).notice
<1>1. v \in Prefs /\ n \in Notices \ {"persist"} /\ v.hotkey \in Bindings
  <2>1. folder.file \in SettingsFileShape
    BY DEF FolderKept, FolderTyped
  <2> QED BY <2>1, LoadTyped DEF Prefs
<1>2. /\ prefs = [value |-> v, notice |-> n, gen |-> 0, hotkey_gen |-> 0, quitting |-> FALSE,
                  outcome |-> "none", effect |-> Idle]
      /\ saver = [queue |-> <<>>, pending |-> NoSave, doing |-> NoSave, step |-> "idle",
                  committed |-> DefaultPrefs, has_committed |-> FALSE, flushing |-> FALSE]
      /\ hotkeys = [queue |-> <<>>, posts |-> <<>>, at |-> "start", applied |-> v.hotkey, live |-> 0]
      /\ actor = [inbox |-> <<>>, posting |-> FALSE]
      /\ exit = [step |-> "none", flushed |-> FALSE, due |-> 0] /\ unsaid = {}
  BY DEF Afresh, Launched
<1> HIDE DEF v, n
<1>3. /\ <<>> \in Seq(SaveCommands) /\ <<>> \in Seq(KeyCommands) /\ <<>> \in Seq(ReportShape)
      /\ <<>> \in Seq({"configure", "shutdown"}) /\ Len(<<>>) = 0
  BY EmptySeq
<1>4. SettingsTyped
  <2>1. PrefsTyped
    BY <1>1, <1>2 DEF PrefsTyped, SaveOutcomes
  <2>2. SaverTyped
    BY <1>2, <1>3, DefaultsTyped DEF SaverTyped
  <2>3. HotkeysTyped /\ ActorTyped /\ ExitTyped
    BY <1>1, <1>2, <1>3 DEF HotkeysTyped, ActorTyped, ExitTyped
  <2>4. RoomKept
    BY <1>2, <1>3, SettingsAssumption DEF RoomKept
  <2> QED BY <2>1, <2>2, <2>3, <2>4 DEF SettingsTyped, FolderKept
<1>5. FolderInv
  BY <1>2 DEF FolderInv, FolderKept
<1>6. LineInv
  <2>1. \A i : i \notin 1..Len(saver.queue)
    BY <1>2, <1>3
  <2>2. QueueRising
    BY <2>1 DEF QueueRising
  <2>3. JobsRising /\ OutcomeTrue
    BY <1>2, DefaultsTyped DEF JobsRising, OutcomeTrue, SaveTrue, WriteSteps
  <2> QED BY <2>2, <2>3 DEF LineInv
<1>7. TellInv
  BY <1>1, <1>2, <1>3 DEF TellInv
<1>8. ExitInv
  BY <1>2, <1>3 DEF ExitInv
<1>9. KeyInv
  BY <1>2, <1>3 DEF KeyInv, ChordHeld, KeysRising, AnswerTrue, KeyShown, NoCommand, NoLostWake
<1> QED BY <1>4, <1>5, <1>6, <1>7, <1>8, <1>9 DEF SettingsInv

LEMMA SettingsStart == SettingsInit => SettingsInv
<1> SUFFICES ASSUME SettingsInit PROVE SettingsInv
  OBVIOUS
<1>1. Afresh
  BY DEF SettingsInit, Afresh
<1>2. FolderKept
  BY DefaultsTyped DEF SettingsInit, FolderKept, FolderTyped, Kinds, SettingsFileShape
<1> QED BY <1>1, <1>2, AfreshKeeps

LEMMA RelaunchKeeps == SettingsInv /\ Relaunch => SettingsInv'
<1> SUFFICES ASSUME SettingsInv, Relaunch PROVE SettingsInv'
  OBVIOUS
<1>1. Afresh'
  BY DEF Relaunch, Afresh
<1>2. FolderTyped /\ FolderInv
  BY DEF SettingsInv, SettingsTyped
<1>3. folder' = [folder EXCEPT !.tmp.kind = IF folder.tmp.synced THEN @ ELSE "corrupt"]
  <2>1. folder.file.synced /\ folder = [folder EXCEPT !.file = folder.file]
    BY <1>2 DEF FolderInv, FolderTyped
  <2> QED BY <2>1 DEF Relaunch
<1>4. FolderKept'
  BY <1>2, <1>3 DEF FolderKept, FolderTyped, FolderInv, SettingsFileShape, Kinds
<1>5. Afresh' /\ FolderKept' => SettingsInv'
  BY AfreshKeeps, PTL
<1> QED BY <1>1, <1>4, <1>5

-----------------------------------------------------------------------------
(* What the reducer does.                                                  *)

\* Only the notice changes.
Notes(s, ns) == \E n \in ns : s = [prefs EXCEPT !.notice = n]

\* A new generation of the settings is to be saved.
SavesAs(s, op, v, n, q) ==
  s = [value |-> v, notice |-> n, gen |-> prefs.gen + 1, hotkey_gen |-> prefs.hotkey_gen,
       quitting |-> q, outcome |-> "none",
       effect |-> [op |-> op, gen |-> prefs.gen + 1, value |-> v]]
Saves(s, b) == \E v \in Prefs, n \in Notices :
  v.hotkey = b /\ SavesAs(s, "save", v, n, prefs.quitting)
Quits(s) == ~prefs.quitting /\ SavesAs(s, "quit", prefs.value, prefs.notice, TRUE)

\* The hotkey thread is asked for a binding.
AsksKey(s) == \E b \in Bindings :
  s = [prefs EXCEPT !.hotkey_gen = @ + 1,
                    !.effect = [op |-> "hotkey", gen |-> prefs.hotkey_gen + 1, value |-> b]]

LEMMA PrefsFields ==
  ASSUME PrefsTyped
  PROVE  /\ prefs.value \in Prefs /\ prefs.notice \in Notices /\ prefs.gen \in Nat
         /\ prefs.hotkey_gen \in Nat /\ prefs.quitting \in BOOLEAN /\ prefs.outcome \in SaveOutcomes
         /\ prefs.effect = Idle
         /\ prefs = [value |-> prefs.value, notice |-> prefs.notice, gen |-> prefs.gen,
                     hotkey_gen |-> prefs.hotkey_gen, quitting |-> prefs.quitting,
                     outcome |-> prefs.outcome, effect |-> Idle]
BY DEF PrefsTyped

\* The settings as the reducer holds them, field by field.
PrefsOf(v, n, g, h, q, o, e) ==
  [value |-> v, notice |-> n, gen |-> g, hotkey_gen |-> h, quitting |-> q, outcome |-> o, effect |-> e]

LEMMA PersistingOf ==
  ASSUME NEW v, NEW n, NEW g, NEW h, NEW q, NEW o, NEW e
  PROVE  Persisting(PrefsOf(v, n, g, h, q, o, e))
           = PrefsOf(v, n, g + 1, h, q, "none", [op |-> "save", gen |-> g + 1, value |-> v])
<1> DEFINE r == PrefsOf(v, n, g, h, q, o, e)
           f == [op |-> "save", gen |-> r.gen + 1, value |-> r.value]
<1>1. [r EXCEPT !.gen = r.gen + 1] = PrefsOf(v, n, g + 1, h, q, o, e)
  <2>1. r.gen + 1 = g + 1
    BY DEF PrefsOf
  <2>2. [r EXCEPT !.gen = g + 1] = PrefsOf(v, n, g + 1, h, q, o, e)
    BY DEF PrefsOf
  <2> QED BY <2>1, <2>2
<1>2. [PrefsOf(v, n, g + 1, h, q, o, e) EXCEPT !.outcome = "none"] = PrefsOf(v, n, g + 1, h, q, "none", e)
  BY DEF PrefsOf
<1>3. [PrefsOf(v, n, g + 1, h, q, "none", e) EXCEPT !.effect = f] = PrefsOf(v, n, g + 1, h, q, "none", f)
  BY DEF PrefsOf
<1>4. f = [op |-> "save", gen |-> g + 1, value |-> v]
  BY DEF PrefsOf
<1>5. Persisting(r) = [[[r EXCEPT !.gen = r.gen + 1] EXCEPT !.outcome = "none"] EXCEPT !.effect = f]
  BY DEF Persisting
<1> HIDE DEF f, r
<1>6. Persisting(r) = PrefsOf(v, n, g + 1, h, q, "none", [op |-> "save", gen |-> g + 1, value |-> v])
  BY <1>1, <1>2, <1>3, <1>4, <1>5
<1> QED BY <1>6 DEF r

LEMMA PersistingSaves ==
  ASSUME PrefsTyped, NEW v \in Prefs, NEW n \in Notices
  PROVE  Saves(Persisting([[prefs EXCEPT !.value = v] EXCEPT !.notice = n]), v.hotkey)
<1>1. prefs = PrefsOf(prefs.value, prefs.notice, prefs.gen, prefs.hotkey_gen, prefs.quitting,
                      prefs.outcome, Idle)
  BY PrefsFields DEF PrefsOf
<1>2. [prefs EXCEPT !.value = v] = PrefsOf(v, prefs.notice, prefs.gen, prefs.hotkey_gen,
                                           prefs.quitting, prefs.outcome, Idle)
  <2>1. [PrefsOf(prefs.value, prefs.notice, prefs.gen, prefs.hotkey_gen, prefs.quitting, prefs.outcome, Idle)
           EXCEPT !.value = v] = PrefsOf(v, prefs.notice, prefs.gen, prefs.hotkey_gen,
                                           prefs.quitting, prefs.outcome, Idle)
    BY DEF PrefsOf
  <2> QED BY ONLY <1>1, <2>1
<1>3. [[prefs EXCEPT !.value = v] EXCEPT !.notice = n]
        = PrefsOf(v, n, prefs.gen, prefs.hotkey_gen, prefs.quitting, prefs.outcome, Idle)
  <2>1. [PrefsOf(v, prefs.notice, prefs.gen, prefs.hotkey_gen, prefs.quitting, prefs.outcome, Idle)
           EXCEPT !.notice = n] = PrefsOf(v, n, prefs.gen, prefs.hotkey_gen,
                                           prefs.quitting, prefs.outcome, Idle)
    BY DEF PrefsOf
  <2> QED BY ONLY <1>2, <2>1
<1>4. SavesAs(Persisting([[prefs EXCEPT !.value = v] EXCEPT !.notice = n]), "save", v, n, prefs.quitting)
  BY <1>3, PersistingOf DEF SavesAs, PrefsOf
<1> QED BY <1>4 DEF Saves

LEMMA ChangedSaves ==
  ASSUME PrefsTyped, NEW v \in Prefs, Changed(prefs, v) # prefs
  PROVE  Saves(Changed(prefs, v), v.hotkey)
<1>1. Changed(prefs, v) = Persisting([prefs EXCEPT !.value = v])
  BY DEF Changed
<1>2. [prefs EXCEPT !.value = v] = [[prefs EXCEPT !.value = v] EXCEPT !.notice = prefs.notice]
  <2> DEFINE p == [prefs EXCEPT !.value = v]
  <2>1. p.notice = prefs.notice /\ p = [value |-> v, notice |-> prefs.notice, gen |-> prefs.gen,
          hotkey_gen |-> prefs.hotkey_gen, quitting |-> prefs.quitting, outcome |-> prefs.outcome,
          effect |-> Idle]
    BY PrefsFields
  <2> HIDE DEF p
  <2>2. p = [p EXCEPT !.notice = prefs.notice]
    BY ONLY <2>1
  <2> QED BY <2>2 DEF p
<1>3. Saves(Persisting([[prefs EXCEPT !.value = v] EXCEPT !.notice = prefs.notice]), v.hotkey)
  <2>1. prefs.notice \in Notices
    BY PrefsFields
  <2> DEFINE G(n) == Saves(Persisting([[prefs EXCEPT !.value = v] EXCEPT !.notice = n]), v.hotkey)
  <2>2. \A n \in Notices : G(n)
    BY PersistingSaves
  <2> HIDE DEF G
  <2>3. G(prefs.notice)
    BY ONLY <2>1, <2>2
  <2> QED BY <2>3 DEF G
<1> QED BY ONLY <1>1, <1>2, <1>3

LEMMA EditsKnown ==
  ASSUME PrefsTyped, NEW t \in Tastes, NEW act \in t.acts, NEW s \in Edits(prefs, act), s # prefs
  PROVE  Notes(s, {"invalid", "error"}) \/ Saves(s, prefs.value.hotkey) \/ Quits(s) \/ AsksKey(s)
<1>1. act \in {"Look", "Locale", "Frame", "BadFrame", "Hotkey", "Retry", "Error", "Quit"}
  BY SettingsAssumption
<1> DEFINE v == prefs.value
<1>0. v \in Prefs /\ v.hotkey \in Bindings
  BY PrefsFields DEF Prefs
<1>2. CASE act = "Look"
  <2>1. PICK l \in Looks : s = Changed(prefs, [v EXCEPT !.look = l])
    BY <1>2 DEF Edits
  <2>2. [v EXCEPT !.look = l] \in Prefs /\ [v EXCEPT !.look = l].hotkey = v.hotkey
    BY <1>0 DEF Prefs
  <2> QED BY <2>1, <2>2, ChangedSaves
<1>3. CASE act = "Locale"
  <2>1. PICK l \in Locales : s = Changed(prefs, [v EXCEPT !.locale = l])
    BY <1>3 DEF Edits
  <2>2. [v EXCEPT !.locale = l] \in Prefs /\ [v EXCEPT !.locale = l].hotkey = v.hotkey
    BY <1>0 DEF Prefs
  <2> QED BY <2>1, <2>2, ChangedSaves
<1>4. CASE act = "Frame"
  <2>1. PICK f \in Frames : s = FrameChanged(prefs, f)
    BY <1>4 DEF Edits
  <2>2. s = Changed(prefs, [v EXCEPT !.frame = f])
    BY <2>1 DEF FrameChanged, Frames
  <2>3. [v EXCEPT !.frame = f] \in Prefs /\ [v EXCEPT !.frame = f].hotkey = v.hotkey
    BY <1>0 DEF Prefs
  <2> QED BY <2>2, <2>3, ChangedSaves
<1>5. CASE act = "BadFrame"
  <2>1. s = [prefs EXCEPT !.notice = "invalid"]
    BY <1>5 DEF Edits, FrameChanged
  <2> QED BY <2>1 DEF Notes
<1>6. CASE act = "Hotkey"
  <2>1. PICK b \in Bindings : s = HotkeyChanged(prefs, b)
    BY <1>6 DEF Edits
  <2> QED BY <2>1 DEF HotkeyChanged, AsksKey
<1>7. CASE act = "Retry"
  <2>1. s = Persisting(prefs)
    BY <1>7 DEF Edits
  <2>2. prefs = [[prefs EXCEPT !.value = prefs.value] EXCEPT !.notice = prefs.notice]
    BY PrefsFields
  <2> QED BY <2>1, <2>2, PersistingSaves, PrefsFields
<1>8. CASE act = "Error"
  <2>1. s = [prefs EXCEPT !.notice = "error"]
    BY <1>8 DEF Edits
  <2> QED BY <2>1 DEF Notes
<1>9. CASE act = "Quit"
  <2>1. s = Quit(prefs) /\ ~prefs.quitting
    BY <1>9 DEF Edits, Quit
  <2>2. SavesAs(s, "quit", prefs.value, prefs.notice, TRUE)
    BY <2>1, PrefsFields DEF Quit, Persisting, SavesAs
  <2> QED BY <2>1, <2>2 DEF Quits
<1> QED BY <1>1, <1>2, <1>3, <1>4, <1>5, <1>6, <1>7, <1>8, <1>9

LEMMA KeyHeard ==
  ASSUME PrefsTyped, NEW e \in ReportShape, e.op = "hotkey"
  PROVE  LET s == Heard(prefs, e)
         IN  \/ e.gen # prefs.hotkey_gen /\ s = prefs
             \/ e.gen = prefs.hotkey_gen /\ s = prefs /\ prefs.value.hotkey = e.applied
             \/ e.gen = prefs.hotkey_gen /\ Saves(s, e.applied)
<1> DEFINE s == Heard(prefs, e)
           n == IF e.failed THEN "hotkey" ELSE prefs.notice
           v == [prefs.value EXCEPT !.hotkey = e.applied]
           t == [[prefs EXCEPT !.value = v] EXCEPT !.notice = n]
<1>1. v \in Prefs /\ n \in Notices /\ v.hotkey = e.applied
  BY PrefsFields DEF Prefs, ReportShape, Notices
<1>2. [prefs EXCEPT !.value.hotkey = e.applied, !.notice = IF e.failed THEN "hotkey" ELSE @] = t
  BY PrefsFields
<1>3. s = IF e.gen # prefs.hotkey_gen THEN prefs
          ELSE IF t.value = prefs.value /\ t.notice = prefs.notice THEN t ELSE Persisting(t)
  BY <1>2 DEF Heard, HotkeyReconfigured
<1>4. t.value = prefs.value /\ t.notice = prefs.notice => t = prefs /\ v = prefs.value
  BY PrefsFields
<1>5. Saves(Persisting(t), e.applied)
  BY <1>1, PersistingSaves
<1> HIDE DEF t, v, n, s
<1>6. \/ e.gen # prefs.hotkey_gen /\ s = prefs
      \/ e.gen = prefs.hotkey_gen /\ s = prefs /\ prefs.value.hotkey = e.applied
      \/ e.gen = prefs.hotkey_gen /\ Saves(s, e.applied)
  BY <1>1, <1>3, <1>4, <1>5
<1> QED BY <1>6 DEF s

-----------------------------------------------------------------------------
(* What an effect does to the queues.                                      *)

\* The actor after it took an event: a part of its reports, and no wake-up owed.
Inherits(a) ==
  /\ a \in [inbox : Seq(ReportShape), posting : {FALSE}] /\ Len(a.inbox) <= ReportRoom
  /\ \A i \in 1..Len(a.inbox) : \E j \in 1..Len(actor.inbox) : a.inbox[i] = actor.inbox[j]

\* What TellInv and KeyShown say of a notice, a binding and a part of the reports.
TellMid(n, q, u) ==
  /\ prefs.outcome = "failed" /\ "save" \notin u =>
       n = "persist" \/ \E i \in 1..Len(q) : q[i].op = "failed" /\ q[i].gen = prefs.gen
  /\ prefs.outcome = "saved" /\ n = "persist" /\ "saved" \notin u =>
       \E i \in 1..Len(q) : q[i].op = "saved" /\ q[i].gen = prefs.gen
  /\ n = "persist" => prefs.gen # 0
KeyMid(b, q, u) ==
  hotkeys.at # "done" /\ "key" \notin u =>
    \/ \E i \in 1..Len(hotkeys.queue) :
         hotkeys.queue[i].op = "configure" /\ hotkeys.queue[i].gen = prefs.hotkey_gen
    \/ \E i \in 1..Len(q) : q[i].op = "hotkey" /\ q[i].gen = prefs.hotkey_gen
    \/ NoCommand /\ b = hotkeys.applied

LEMMA SaverFields ==
  ASSUME SaverTyped
  PROVE  /\ saver.queue \in Seq(SaveCommands) /\ Len(saver.queue) \in Nat
         /\ saver.pending \in SaveJob /\ saver.doing \in SaveJob
         /\ saver.pending.gen \in Nat /\ saver.doing.gen \in Nat
         /\ saver.pending.value \in Prefs /\ saver.doing.value \in Prefs
         /\ saver.flushing \in BOOLEAN /\ saver.has_committed \in BOOLEAN /\ saver.committed \in Prefs
         /\ saver.step \in WriteSteps \cup {"idle", "gone"}
         /\ \A i \in 1..Len(saver.queue) :
              /\ saver.queue[i] \in SaveCommands /\ saver.queue[i].op \in {"save", "flush"}
              /\ saver.queue[i].op = "save" => saver.queue[i].gen \in Nat /\ saver.queue[i].value \in Prefs
<1>1. /\ saver.queue \in Seq(SaveCommands) /\ saver.pending \in SaveJob /\ saver.doing \in SaveJob
      /\ saver.flushing \in BOOLEAN /\ saver.has_committed \in BOOLEAN /\ saver.committed \in Prefs
      /\ saver.step \in WriteSteps \cup {"idle", "gone"}
  BY DEF SaverTyped
<1>2. \A i \in 1..Len(saver.queue) : saver.queue[i] \in SaveCommands
  BY <1>1, ElementOfSeq
<1>3. \A c \in SaveCommands : c.op \in {"save", "flush"} /\ (c.op = "save" => c.gen \in Nat /\ c.value \in Prefs)
  BY DEF SaveCommands
<1>4. Len(saver.queue) \in Nat
  BY <1>1, LenProperties
<1> QED BY <1>1, <1>2, <1>3, <1>4 DEF SaveJob

LEMMA ActorFields ==
  ASSUME ActorTyped
  PROVE  /\ actor.inbox \in Seq(ReportShape) /\ Len(actor.inbox) \in Nat /\ actor.posting \in BOOLEAN
         /\ \A i \in 1..Len(actor.inbox) : actor.inbox[i] \in ReportShape
<1>1. actor.inbox \in Seq(ReportShape) /\ actor.posting \in BOOLEAN
  BY DEF ActorTyped
<1>2. \A i \in 1..Len(actor.inbox) : actor.inbox[i] \in ReportShape
  BY <1>1, ElementOfSeq
<1> QED BY <1>1, <1>2, LenProperties

LEMMA HotkeysFields ==
  ASSUME HotkeysTyped
  PROVE  /\ hotkeys.queue \in Seq(KeyCommands) /\ Len(hotkeys.queue) \in Nat
         /\ hotkeys.posts \in Seq({"configure", "shutdown"})
         /\ hotkeys.at \in {"start", "drain", "wait", "done"} /\ hotkeys.applied \in Bindings
         /\ hotkeys.live \in Chords \cup {0}
         /\ \A i \in 1..Len(hotkeys.queue) :
              /\ hotkeys.queue[i] \in KeyCommands /\ hotkeys.queue[i].op \in {"configure", "shutdown"}
              /\ hotkeys.queue[i].op = "configure" =>
                   hotkeys.queue[i].gen \in Nat /\ hotkeys.queue[i].value \in Bindings
<1>1. /\ hotkeys.queue \in Seq(KeyCommands) /\ hotkeys.posts \in Seq({"configure", "shutdown"})
      /\ hotkeys.at \in {"start", "drain", "wait", "done"} /\ hotkeys.applied \in Bindings
      /\ hotkeys.live \in Chords \cup {0}
  BY DEF HotkeysTyped
<1>2. \A i \in 1..Len(hotkeys.queue) : hotkeys.queue[i] \in KeyCommands
  BY <1>1, ElementOfSeq
<1>3. \A c \in KeyCommands : c.op \in {"configure", "shutdown"} /\ (c.op = "configure" => c.gen \in Nat /\ c.value \in Bindings)
  BY DEF KeyCommands
<1> QED BY <1>1, <1>2, <1>3, LenProperties

LEMMA ReportMade ==
  ASSUME NEW op \in {"saved", "failed", "closed", "hotkey"}, NEW g \in Nat, NEW b \in Bindings,
         NEW f \in BOOLEAN
  PROVE  /\ Report(op, g, b, f) \in ReportShape
         /\ Report(op, g, b, f).op = op /\ Report(op, g, b, f).gen = g /\ Report(op, g, b, f).applied = b
BY DEF Report, ReportShape

LEMMA SaveReportMade ==
  ASSUME NEW op \in {"saved", "failed", "closed", "hotkey"}, NEW g \in Nat
  PROVE  /\ SaveReport(op, g) \in ReportShape
         /\ SaveReport(op, g).op = op /\ SaveReport(op, g).gen = g
<1>1. DefaultPrefs.hotkey \in Bindings /\ FALSE \in BOOLEAN
  BY DefaultsTyped DEF Prefs
<1> QED BY <1>1 DEF SaveReport, Report, ReportShape

\* A report joins the reports, or is lost and told to be.
Grown(a, b, e) ==
  /\ b = [inbox |-> b.inbox, posting |-> a.posting] /\ b.posting = a.posting
  /\ b.inbox \in Seq(ReportShape) /\ Len(b.inbox) <= ReportRoom /\ Len(b.inbox) >= Len(a.inbox)
  /\ Len(a.inbox) \in Nat /\ Len(b.inbox) \in Nat
  /\ \A i \in 1..Len(a.inbox) : b.inbox[i] = a.inbox[i]
  /\ \A i \in 1..Len(b.inbox) : i \in 1..Len(a.inbox) \/ b.inbox[i] = e
Lost(a, b, e, what) ==
  Dropped(a, what) = {what}
    \/ (Dropped(a, what) = {} /\ \E i \in 1..Len(b.inbox) : b.inbox[i] = e)

LEMMA ReportedTo ==
  ASSUME NEW a, a.inbox \in Seq(ReportShape), a.posting \in BOOLEAN, Len(a.inbox) <= ReportRoom,
         a = [inbox |-> a.inbox, posting |-> a.posting],
         NEW e \in ReportShape, NEW b, b = Reported(a, e), NEW what
  PROVE  Grown(a, b, e) /\ Lost(a, b, e, what)
<1>1. ReportRoom \in Nat /\ Len(a.inbox) \in Nat
  BY SettingsAssumption, LenProperties
<1>2. CASE Len(a.inbox) < ReportRoom
  <2>1. b = [a EXCEPT !.inbox = Append(@, e)] /\ Dropped(a, what) = {}
    BY <1>2 DEF Reported, Dropped
  <2>2. b = [inbox |-> Append(a.inbox, e), posting |-> a.posting]
    BY <2>1
  <2> DEFINE t == Append(a.inbox, e)
  <2>3. /\ t \in Seq(ReportShape) /\ Len(t) = Len(a.inbox) + 1 /\ t[Len(a.inbox) + 1] = e
        /\ \A i \in 1..Len(a.inbox) : t[i] = a.inbox[i]
    BY QueueAppend
  <2>4. b.inbox = t /\ b.posting = a.posting /\ b = [inbox |-> b.inbox, posting |-> a.posting]
    BY <2>2
  <2> HIDE DEF t
  <2>5. Len(a.inbox) + 1 \in 1..Len(t) /\ \A i \in 1..Len(t) : i \in 1..Len(a.inbox) \/ i = Len(a.inbox) + 1
    BY <2>3, <1>1
  <2>6. /\ b = [inbox |-> b.inbox, posting |-> a.posting] /\ b.posting = a.posting
        /\ b.inbox \in Seq(ReportShape) /\ Len(b.inbox) <= ReportRoom /\ Len(b.inbox) >= Len(a.inbox)
        /\ Len(b.inbox) \in Nat
        /\ \A i \in 1..Len(a.inbox) : b.inbox[i] = a.inbox[i]
        /\ \A i \in 1..Len(b.inbox) : i \in 1..Len(a.inbox) \/ b.inbox[i] = e
        /\ \E i \in 1..Len(b.inbox) : b.inbox[i] = e
    BY <2>3, <2>4, <2>5, <1>1, <1>2
  <2> QED BY <2>1, <2>6, <1>1 DEF Grown, Lost
<1>3. CASE ~(Len(a.inbox) < ReportRoom)
  BY <1>1, <1>3 DEF Reported, Dropped, Grown, Lost
<1> QED BY <1>2, <1>3

LEMMA InheritsFields ==
  ASSUME NEW a, Inherits(a), ActorTyped
  PROVE  /\ a.inbox \in Seq(ReportShape) /\ a.posting = FALSE /\ Len(a.inbox) \in Nat
         /\ Len(a.inbox) <= ReportRoom /\ a = [inbox |-> a.inbox, posting |-> a.posting]
         /\ \A i \in 1..Len(a.inbox) : a.inbox[i] \in ReportShape
         /\ \A i \in 1..Len(a.inbox) : \E j \in 1..Len(actor.inbox) : a.inbox[i] = actor.inbox[j]
<1>1. a.inbox \in Seq(ReportShape) /\ a.posting = FALSE /\ a = [inbox |-> a.inbox, posting |-> a.posting]
  BY DEF Inherits
<1>2. \A i \in 1..Len(a.inbox) : a.inbox[i] \in ReportShape
  BY <1>1, ElementOfSeq
<1> QED BY <1>1, <1>2, LenProperties DEF Inherits

\* The keys after a step that changes neither the thread nor what was asked of it.
LEMMA KeysAside ==
  ASSUME SettingsTyped, KeyInv, NEW q,
         \A i \in 1..Len(q) : q[i].op = "hotkey" => \E j \in 1..Len(actor.inbox) : q[i] = actor.inbox[j],
         hotkeys' = hotkeys, prefs'.hotkey_gen = prefs.hotkey_gen, actor'.inbox = q,
         actor'.posting = actor.posting,
         exit.step = "wake" => exit'.step = "wake",
         KeyMid(prefs'.value.hotkey, q, unsaid')
  PROVE  KeyInv'
<1>1. ChordHeld'
  BY DEF KeyInv, ChordHeld
<1>2. KeysRising'
  BY DEF KeyInv, KeysRising
<1>3. AnswerTrue'
  BY DEF KeyInv, AnswerTrue, Answered, NoCommand
<1>4. KeyShown'
  BY DEF KeyMid, KeyShown, Answered, NoCommand
<1>5. NoLostWake'
  BY DEF KeyInv, NoLostWake
<1> QED BY <1>1, <1>2, <1>3, <1>4, <1>5 DEF KeyInv

LEMMA ScheduleKeeps ==
  ASSUME SettingsInv, NEW s, NEW a, NEW u \in SUBSET {"save", "saved", "key"},
         NEW op, NEW v \in Prefs, NEW n \in Notices, NEW q \in BOOLEAN,
         SavesAs(s, op, v, n, q), prefs.quitting => q,
         Inherits(a), KeyMid(v.hotkey, a.inbox, u), Schedule(s, a, u), ~actor.posting,
         UNCHANGED <<folder, hotkeys>>,
         exit' = exit \/ (exit' = [exit EXCEPT !.step = "device"] /\ q /\ ~prefs.quitting)
  PROVE  SettingsInv'
<1> DEFINE g == prefs.gen + 1
           c == [op |-> "save", gen |-> g, value |-> v]
           room == saver.step # "gone" /\ Len(saver.queue) < SaveRoom
           o == IF room THEN "none" ELSE "failed"
           line == IF room THEN Append(saver.queue, c) ELSE saver.queue
<1>t. /\ PrefsTyped /\ SaverTyped /\ FolderTyped /\ HotkeysTyped /\ ActorTyped /\ ExitTyped /\ RoomKept
      /\ FolderInv /\ QueueRising /\ JobsRising /\ OutcomeTrue /\ TellInv /\ ExitInv /\ KeyInv
  BY DEF SettingsInv, SettingsTyped, LineInv
<1>f. /\ prefs.gen \in Nat /\ g \in Nat /\ prefs.hotkey_gen \in Nat /\ prefs.quitting \in BOOLEAN
      /\ g > prefs.gen
  BY <1>t, PrefsFields
<1>e. s.effect.gen = g /\ s.effect.value = v
  BY DEF SavesAs
<1>p. prefs' = [value |-> v, notice |-> n, gen |-> g, hotkey_gen |-> prefs.hotkey_gen,
                quitting |-> q, outcome |-> o, effect |-> Idle]
  <2>1. prefs' = [[s EXCEPT !.effect = Idle] EXCEPT !.outcome = o]
    BY DEF Schedule
  <2>2. [s EXCEPT !.effect = Idle] = PrefsOf(v, n, g, prefs.hotkey_gen, q, "none", Idle)
    BY DEF SavesAs, PrefsOf
  <2> HIDE DEF o
  <2>3. [PrefsOf(v, n, g, prefs.hotkey_gen, q, "none", Idle) EXCEPT !.outcome = o]
          = PrefsOf(v, n, g, prefs.hotkey_gen, q, o, Idle)
    BY DEF PrefsOf
  <2> QED BY <2>1, <2>2, <2>3 DEF PrefsOf
<1>s. saver' = [saver EXCEPT !.queue = line]
  <2>1. CASE room
    BY <2>1, <1>e DEF Schedule
  <2>2. CASE ~room
    <3>1. saver = [saver EXCEPT !.queue = saver.queue]
      BY <1>t DEF SaverTyped
    <3> QED BY <2>2, <3>1 DEF Schedule
  <2> QED BY <2>1, <2>2
<1>c. c \in SaveCommands
  BY <1>f DEF SaveCommands
<1>l. /\ line \in Seq(SaveCommands) /\ Len(line) \in Nat /\ Len(line) <= SaveRoom
      /\ \A i \in 1..Len(saver.queue) : line[i] = saver.queue[i]
      /\ \A i \in 1..Len(line) : i \in 1..Len(saver.queue) \/ (room /\ i = Len(saver.queue) + 1 /\ line[i] = c)
      /\ room => Len(saver.queue) + 1 \in 1..Len(line) /\ line[Len(saver.queue) + 1] = c
      /\ Len(line) >= Len(saver.queue) /\ Len(saver.queue) \in Nat
  <2>0. SaveRoom \in Nat /\ saver.queue \in Seq(SaveCommands) /\ Len(saver.queue) \in Nat /\ Len(saver.queue) <= SaveRoom
    BY <1>t, SaverFields, SettingsAssumption DEF RoomKept
  <2>1. CASE room
    <3> DEFINE t == Append(saver.queue, c)
    <3>1. /\ t \in Seq(SaveCommands) /\ Len(t) = Len(saver.queue) + 1 /\ t[Len(saver.queue) + 1] = c
          /\ \A i \in 1..Len(saver.queue) : t[i] = saver.queue[i]
      BY <2>0, <1>c, QueueAppend
    <3>2. line = t
      BY <2>1
    <3> HIDE DEF t, c, line
    <3> QED BY <2>0, <2>1, <3>1, <3>2
  <2>2. CASE ~room
    <3>1. line = saver.queue
      BY <2>2
    <3> HIDE DEF line
    <3> QED BY <2>0, <2>2, <3>1
  <2> QED BY <2>1, <2>2
<1> DEFINE e == SaveReport("failed", g)
<1>m. e \in ReportShape /\ e.op = "failed" /\ e.gen = g
  BY <1>f, SaveReportMade
<1>a. /\ a.inbox \in Seq(ReportShape) /\ a.posting = FALSE /\ Len(a.inbox) \in Nat
      /\ Len(a.inbox) <= ReportRoom /\ a = [inbox |-> a.inbox, posting |-> a.posting]
      /\ \A i \in 1..Len(a.inbox) : a.inbox[i] \in ReportShape
      /\ \A i \in 1..Len(a.inbox) : \E j \in 1..Len(actor.inbox) : a.inbox[i] = actor.inbox[j]
  BY <1>t, InheritsFields
<1>b. /\ actor' = [inbox |-> actor'.inbox, posting |-> FALSE] /\ actor'.posting = FALSE
      /\ actor'.inbox \in Seq(ReportShape) /\ Len(actor'.inbox) <= ReportRoom
      /\ Len(actor'.inbox) \in Nat /\ Len(actor'.inbox) >= Len(a.inbox)
      /\ \A i \in 1..Len(a.inbox) : actor'.inbox[i] = a.inbox[i]
      /\ \A i \in 1..Len(actor'.inbox) : i \in 1..Len(a.inbox) \/ (~room /\ actor'.inbox[i] = e)
      /\ unsaid' \subseteq {"save", "saved", "key"} /\ ("key" \in u => "key" \in unsaid')
      /\ ~room /\ "save" \notin unsaid' => \E i \in 1..Len(actor'.inbox) : actor'.inbox[i] = e
  <2>1. CASE room
    <3>1. actor' = a /\ unsaid' = (u \ {"save", "saved"}) \cup {}
      BY <2>1 DEF Schedule
    <3> HIDE DEF room, e
    <3> QED BY <3>1, <2>1, <1>a
  <2>2. CASE ~room
    <3>1. actor' = Reported(a, e) /\ unsaid' = (u \ {"save", "saved"}) \cup Dropped(a, "save")
      BY <2>2, <1>e DEF Schedule
    <3> HIDE DEF room, e
    <3>2. Grown(a, actor', e) /\ Lost(a, actor', e, "save")
      BY <3>1, <1>a, <1>m, ReportedTo
    <3> QED BY <3>1, <3>2, <2>2, <1>a DEF Grown, Lost
  <2> QED BY <2>1, <2>2
<1> HIDE DEF e, line, o
<1>v. /\ saver'.queue = line /\ saver'.pending = saver.pending /\ saver'.doing = saver.doing
      /\ saver'.step = saver.step /\ saver'.flushing = saver.flushing /\ SaverTyped'
  BY <1>s, <1>l, <1>t DEF SaverTyped
<1>w. /\ prefs'.value = v /\ prefs'.notice = n /\ prefs'.gen = g /\ prefs'.hotkey_gen = prefs.hotkey_gen
      /\ prefs'.quitting = q /\ prefs'.outcome = o /\ PrefsTyped'
  <2>1. o \in SaveOutcomes
    BY DEF o, SaveOutcomes
  <2> QED BY <1>p, <1>f, <2>1 DEF PrefsTyped
<1>x. /\ exit'.due = exit.due /\ exit'.flushed = exit.flushed /\ ExitTyped'
      /\ exit'.step = exit.step \/ (exit'.step = "device" /\ q /\ ~prefs.quitting)
  BY <1>t DEF ExitTyped
<1> HIDE DEF g, room, c
<1>1. SettingsTyped'
  <2>1. HotkeysTyped' /\ FolderTyped'
    BY <1>t DEF HotkeysTyped, FolderTyped
  <2>2. ActorTyped'
    BY <1>b DEF ActorTyped
  <2>3. RoomKept'
    BY <1>v, <1>l, <1>b, <1>t DEF RoomKept
  <2> QED BY <2>1, <2>2, <2>3, <1>v, <1>w, <1>x DEF SettingsTyped
<1>2. FolderInv'
  BY <1>t, <1>v DEF FolderInv
<1>j. /\ saver.pending.gen \in Nat /\ saver.doing.gen \in Nat
      /\ saver.pending.gen < g /\ saver.doing.gen < g
  BY <1>t, <1>f, SaverFields DEF JobsRising, SaveTrue
<1>q. \A i \in 1..Len(saver.queue) : saver.queue[i].op = "save" =>
        saver.queue[i].gen < g /\ saver.queue[i].gen \in Nat
  BY <1>t, <1>f, SaverFields DEF QueueRising, SaveTrue
<1>k. c.op = "save" /\ c.gen = g /\ c.value = v
  BY DEF c
<1>3. QueueRising'
  <2>1. ASSUME NEW i \in 1..Len(line), line[i].op = "save"
        PROVE  saver.pending.gen < line[i].gen /\ saver.doing.gen < line[i].gen
               /\ line[i].gen <= g /\ (line[i].gen = g => line[i].value = v /\ o = "none")
    <3>1. CASE i \in 1..Len(saver.queue)
      <4>1. line[i] = saver.queue[i]
        BY <3>1, <1>l
      <4> QED BY <2>1, <3>1, <4>1, <1>q, <1>f, <1>t DEF QueueRising
    <3>2. CASE room /\ line[i] = c
      BY <3>2, <1>k, <1>j, <1>f DEF o
    <3> QED BY <3>1, <3>2, <1>l
  <2>2. ASSUME NEW i \in 1..Len(line), NEW j \in 1..Len(line), i < j, line[i].op = "save", line[j].op = "save"
        PROVE  line[i].gen < line[j].gen
    <3>1. i \in 1..Len(saver.queue) /\ line[i] = saver.queue[i]
      BY <2>2, <1>l
    <3>2. CASE j \in 1..Len(saver.queue)
      <4>1. line[j] = saver.queue[j]
        BY <3>2, <1>l
      <4> QED BY <2>2, <3>1, <3>2, <4>1, <1>t DEF QueueRising
    <3>3. CASE line[j] = c
      BY <3>1, <3>3, <2>2, <1>q, <1>k
    <3> QED BY <3>2, <3>3, <1>l
  <2> QED BY <2>1, <2>2, <1>v, <1>w DEF QueueRising, SaveTrue
<1>4. JobsRising'
  <2>1. /\ saver.pending.gen # 0 => saver.doing.gen < saver.pending.gen
        /\ saver.doing.gen # 0 <=> saver.step \in WriteSteps
    BY <1>t DEF JobsRising
  <2> QED BY <2>1, <1>j, <1>v, <1>w, <1>f DEF JobsRising, SaveTrue
<1>5. OutcomeTrue'
  <2>1. CASE room
    <3>1. Len(saver.queue) + 1 \in 1..Len(line) /\ line[Len(saver.queue) + 1] = c /\ o = "none"
      BY <2>1, <1>l DEF o
    <3>2. \E i \in 1..Len(line) : line[i].op = "save" /\ line[i].gen = g
      BY <3>1, <1>k
    <3> QED BY <3>1, <3>2, <1>f, <1>v, <1>w DEF OutcomeTrue, NewestUnderWay
  <2>2. CASE ~room
    BY <2>2, <1>f, <1>w DEF OutcomeTrue, o
  <2> QED BY <2>1, <2>2
<1>6. TellInv'
  <2>1. ASSUME NEW i \in 1..Len(actor'.inbox), actor'.inbox[i].op \in {"saved", "failed"}
        PROVE  actor'.inbox[i].gen <= g /\ (actor'.inbox[i].gen = g => o = actor'.inbox[i].op)
    <3>1. CASE i \in 1..Len(a.inbox)
      <4>1. PICK j \in 1..Len(actor.inbox) : actor'.inbox[i] = actor.inbox[j]
        BY <3>1, <1>a, <1>b
      <4>2. actor.inbox[j].gen \in Nat
        BY <1>t, ActorFields DEF ReportShape
      <4>3. actor.inbox[j].gen <= prefs.gen
        BY <1>t, <2>1, <4>1 DEF TellInv, ReportTrue
      <4> QED BY <4>1, <4>2, <4>3, <1>f
    <3>2. CASE ~room /\ actor'.inbox[i] = e
      BY <3>2, <1>m, <1>f DEF o
    <3> QED BY <3>1, <3>2, <1>b
  <2>2. o = "failed" /\ "save" \notin unsaid' =>
          \E i \in 1..Len(actor'.inbox) : actor'.inbox[i].op = "failed" /\ actor'.inbox[i].gen = g
    BY <1>b, <1>m DEF o
  <2>3. o # "saved" /\ g # 0
    BY <1>f DEF o
  <2> QED BY <2>1, <2>2, <2>3, <1>w DEF TellInv, ReportTrue, ToBeTold
<1>7. ExitInv'
  <2>1. exit'.step # "none" => g # 0 /\ q
    BY <1>x, <1>t, <1>f DEF ExitInv
  <2>2. exit.due <= g
    BY <1>t, <1>f DEF ExitInv, ExitTyped
  <2>3. exit'.step = exit.step \/ (exit.step = "none")
    BY <1>x, <1>t DEF ExitInv
  <2>4. \A i \in 1..Len(saver.queue) : saver.queue[i].op = "flush" =>
          /\ exit.step \in {"ack", "closed"} /\ ~saver.flushing
          /\ \A j \in 1..Len(saver.queue) : j > i =>
               saver.queue[j].op = "save" /\ exit.due < saver.queue[j].gen
    BY <1>t DEF ExitInv
  <2>5. c.op = "save" /\ exit.due < c.gen
    BY <1>k, <1>t, <1>f DEF ExitInv, ExitTyped
  <2>6. ASSUME NEW i \in 1..Len(line), line[i].op = "flush"
        PROVE  /\ exit'.step \in {"ack", "closed"} /\ ~saver.flushing
               /\ \A j \in 1..Len(line) : j > i => line[j].op = "save" /\ exit.due < line[j].gen
    <3>1. i \in 1..Len(saver.queue) /\ line[i] = saver.queue[i]
      BY <2>6, <2>5, <1>l
    <3>2. exit'.step \in {"ack", "closed"} /\ ~saver.flushing
      BY <3>1, <2>3, <2>4, <2>6
    <3>3. ASSUME NEW j \in 1..Len(line), j > i PROVE line[j].op = "save" /\ exit.due < line[j].gen
      <4>1. CASE j \in 1..Len(saver.queue)
        BY <3>1, <3>3, <4>1, <2>4, <2>6, <1>l
      <4>2. CASE line[j] = c
        BY <4>2, <2>5
      <4> QED BY <4>1, <4>2, <1>l
    <3> QED BY <3>2, <3>3
  <2>7. ASSUME saver.flushing
        PROVE  /\ exit'.step \in {"ack", "closed"} /\ saver.pending.gen = 0 /\ saver.step # "idle"
               /\ \A i \in 1..Len(line) : line[i].op = "save" /\ exit.due < line[i].gen
    <3>1. /\ exit.step \in {"ack", "closed"} /\ saver.pending.gen = 0 /\ saver.step # "idle"
          /\ \A i \in 1..Len(saver.queue) : saver.queue[i].op = "save" /\ exit.due < saver.queue[i].gen
      BY <2>7, <1>t DEF ExitInv
    <3>2. ASSUME NEW i \in 1..Len(line) PROVE line[i].op = "save" /\ exit.due < line[i].gen
      BY <3>1, <2>5, <1>l
    <3> QED BY <3>1, <3>2, <2>3
  <2>8. (saver.step = "gone" => saver.flushing) /\ (exit.flushed => saver.step = "gone")
    BY <1>t DEF ExitInv
  <2> QED BY <2>1, <2>2, <2>6, <2>7, <2>8, <1>v, <1>w, <1>x DEF ExitInv
<1>8. KeyInv'
  <2>1. \A i \in 1..Len(actor'.inbox) : actor'.inbox[i].op = "hotkey" =>
          i \in 1..Len(a.inbox) /\ \E j \in 1..Len(actor.inbox) : actor'.inbox[i] = actor.inbox[j]
    BY <1>a, <1>b, <1>m
  <2>2. exit.step = "wake" => exit'.step = "wake"
    BY <1>x, <1>t DEF ExitInv
  <2>3. KeyMid(v.hotkey, actor'.inbox, unsaid')
    <3>1. \A i \in 1..Len(a.inbox) : i \in 1..Len(actor'.inbox) /\ actor'.inbox[i] = a.inbox[i]
      BY <1>a, <1>b
    <3> QED BY <3>1, <1>b DEF KeyMid
  <2>4. /\ prefs'.value.hotkey = v.hotkey /\ actor'.posting = actor.posting
        /\ SettingsTyped /\ KeyInv
    BY <1>b, <1>w, <1>t, ActorFields DEF SettingsInv
  <2>5. KeyMid(prefs'.value.hotkey, actor'.inbox, unsaid')
    BY <2>3, <2>4
  <2> QED BY <2>1, <2>2, <2>4, <2>5, <1>w, KeysAside
<1> QED BY <1>1, <1>2, <1>3, <1>4, <1>5, <1>6, <1>7, <1>8 DEF SettingsInv, LineInv

\* A step beside the saving.
LEMMA SavesAside ==
  ASSUME FolderInv, LineInv, ExitInv, UNCHANGED <<saver, folder, exit>>,
         prefs'.gen = prefs.gen, prefs'.value = prefs.value, prefs'.outcome = prefs.outcome,
         prefs'.quitting = prefs.quitting
  PROVE  FolderInv' /\ LineInv' /\ ExitInv'
<1>1. FolderInv'
  BY DEF FolderInv
<1>2. QueueRising' /\ JobsRising'
  BY DEF LineInv, QueueRising, JobsRising, SaveTrue
<1>3. OutcomeTrue'
  BY DEF LineInv, OutcomeTrue, NewestUnderWay
<1>4. ExitInv'
  BY DEF ExitInv
<1> QED BY <1>1, <1>2, <1>3, <1>4 DEF LineInv

LEMMA NotesKeep ==
  ASSUME SettingsInv, NEW n \in Notices, NEW a, NEW u \in SUBSET {"save", "saved", "key"},
         Inherits(a), ~actor.posting, TellMid(n, a.inbox, u), KeyMid(prefs.value.hotkey, a.inbox, u),
         prefs' = [prefs EXCEPT !.notice = n], actor' = a, unsaid' = u,
         UNCHANGED <<saver, folder, hotkeys, exit>>
  PROVE  SettingsInv'
<1>t. /\ PrefsTyped /\ SaverTyped /\ FolderTyped /\ HotkeysTyped /\ ActorTyped /\ ExitTyped /\ RoomKept
      /\ FolderInv /\ LineInv /\ TellInv /\ ExitInv /\ KeyInv /\ SettingsTyped
  BY DEF SettingsInv, SettingsTyped
<1>w. /\ prefs'.value = prefs.value /\ prefs'.notice = n /\ prefs'.gen = prefs.gen
      /\ prefs'.hotkey_gen = prefs.hotkey_gen
      /\ prefs'.quitting = prefs.quitting /\ prefs'.outcome = prefs.outcome /\ PrefsTyped'
  BY <1>t DEF PrefsTyped
<1>a. /\ a.inbox \in Seq(ReportShape) /\ a.posting = FALSE /\ Len(a.inbox) \in Nat
      /\ Len(a.inbox) <= ReportRoom /\ a = [inbox |-> a.inbox, posting |-> a.posting]
      /\ \A i \in 1..Len(a.inbox) : \E j \in 1..Len(actor.inbox) : a.inbox[i] = actor.inbox[j]
  BY <1>t, InheritsFields
<1>1. SettingsTyped'
  <2>1. HotkeysTyped' /\ FolderTyped' /\ SaverTyped' /\ ExitTyped'
    BY <1>t DEF HotkeysTyped, FolderTyped, SaverTyped, ExitTyped
  <2>2. ActorTyped'
    BY <1>a DEF ActorTyped
  <2>3. RoomKept'
    BY <1>a, <1>t DEF RoomKept
  <2> QED BY <2>1, <2>2, <2>3, <1>w DEF SettingsTyped
<1>2. FolderInv' /\ LineInv' /\ ExitInv'
  BY <1>t, <1>w, SavesAside
<1>3. TellInv'
  <2>1. \A i \in 1..Len(a.inbox) : ReportTrue(a.inbox[i])'
    BY <1>a, <1>t, <1>w DEF TellInv, ReportTrue
  <2> QED BY <2>1, <1>w DEF TellInv, TellMid, ToBeTold
<1>4. KeyInv'
  <2>1. /\ actor'.posting = actor.posting /\ actor'.inbox = a.inbox
        /\ KeyMid(prefs'.value.hotkey, a.inbox, unsaid')
    BY <1>t, <1>a, <1>w, ActorFields
  <2> QED BY <2>1, <1>a, <1>t, <1>w, KeysAside
<1> QED BY <1>1, <1>2, <1>3, <1>4 DEF SettingsInv

LEMMA ReconfigureKeeps ==
  ASSUME SettingsInv, NEW b \in Bindings, NEW s, NEW u \in SUBSET {"save", "saved", "key"},
         s = [prefs EXCEPT !.hotkey_gen = @ + 1,
                    !.effect = [op |-> "hotkey", gen |-> prefs.hotkey_gen + 1, value |-> b]],
         ~actor.posting, u = unsaid, Reconfigure(s, actor, u),
         UNCHANGED <<saver, folder, exit>>
  PROVE  SettingsInv'
<1> DEFINE g == prefs.hotkey_gen + 1
           c == [op |-> "configure", gen |-> g, value |-> b]
<1>t. /\ PrefsTyped /\ SaverTyped /\ FolderTyped /\ HotkeysTyped /\ ActorTyped /\ ExitTyped /\ RoomKept
      /\ FolderInv /\ LineInv /\ TellInv /\ ExitInv /\ KeyInv /\ SettingsTyped
  BY DEF SettingsInv, SettingsTyped
<1>f. prefs.hotkey_gen \in Nat /\ g \in Nat /\ g > prefs.hotkey_gen
  BY <1>t, PrefsFields
<1>e. s.effect.gen = g /\ s.effect.value = b
  BY <1>t, PrefsFields
<1>p. prefs' = [prefs EXCEPT !.hotkey_gen = g]
  <2>1. prefs' = [s EXCEPT !.effect = Idle]
    BY DEF Reconfigure
  <2>2. prefs = PrefsOf(prefs.value, prefs.notice, prefs.gen, prefs.hotkey_gen, prefs.quitting,
                        prefs.outcome, Idle)
    BY <1>t, PrefsFields DEF PrefsOf
  <2> DEFINE P(h, e) == PrefsOf(prefs.value, prefs.notice, prefs.gen, h, prefs.quitting, prefs.outcome, e)
             f == [op |-> "hotkey", gen |-> g, value |-> b]
  <2>3. [P(prefs.hotkey_gen, Idle) EXCEPT !.hotkey_gen = g] = P(g, Idle)
    BY DEF PrefsOf
  <2>4. \A e : [P(g, Idle) EXCEPT !.effect = e] = P(g, e)
    BY DEF PrefsOf
  <2>5. \A e : [P(g, e) EXCEPT !.effect = Idle] = P(g, Idle)
    BY DEF PrefsOf
  <2>6. s = [[prefs EXCEPT !.hotkey_gen = g] EXCEPT !.effect = f]
    OBVIOUS
  <2>7. prefs = P(prefs.hotkey_gen, Idle)
    BY <2>2
  <2> HIDE DEF P, g, f
  <2> QED BY <2>1, <2>7, <2>3, <2>4, <2>5, <2>6
<1>w. /\ prefs'.value = prefs.value /\ prefs'.notice = prefs.notice /\ prefs'.gen = prefs.gen
      /\ prefs'.hotkey_gen = g
      /\ prefs'.quitting = prefs.quitting /\ prefs'.outcome = prefs.outcome /\ PrefsTyped'
  BY <1>t, <1>f, <1>p DEF PrefsTyped
<1>c. c \in KeyCommands /\ c.op = "configure" /\ c.gen = g
  BY <1>f DEF KeyCommands
<1>i. /\ actor.inbox \in Seq(ReportShape) /\ Len(actor.inbox) \in Nat /\ Len(actor.inbox) <= ReportRoom
      /\ actor = [inbox |-> actor.inbox, posting |-> actor.posting] /\ actor.posting \in BOOLEAN
      /\ \A i \in 1..Len(actor.inbox) : actor.inbox[i] \in ReportShape
  BY <1>t, ActorFields DEF RoomKept, ActorTyped
<1>h. /\ hotkeys.queue \in Seq(KeyCommands) /\ Len(hotkeys.queue) \in Nat /\ KeyRoom \in Nat
      /\ Len(hotkeys.queue) <= KeyRoom
  BY <1>t, HotkeysFields, SettingsAssumption DEF RoomKept
<1> DEFINE e == SaveReport("closed", 0)
<1>m. e \in ReportShape /\ e.op = "closed"
  BY SaveReportMade
<1>2. FolderInv' /\ LineInv' /\ ExitInv'
  BY <1>t, <1>w, SavesAside
<1>o. \A i \in 1..Len(actor.inbox) : actor.inbox[i].op = "hotkey" => actor.inbox[i].gen < g
  <2> SUFFICES ASSUME NEW i \in 1..Len(actor.inbox), actor.inbox[i].op = "hotkey" PROVE actor.inbox[i].gen < g
    OBVIOUS
  <2>1. actor.inbox[i].gen \in Nat
    BY <1>i DEF ReportShape
  <2>2. actor.inbox[i].gen <= prefs.hotkey_gen
    BY <1>t DEF KeyInv, KeysRising
  <2> QED BY <2>1, <2>2, <1>f
<1>u. \A i \in 1..Len(hotkeys.queue) : hotkeys.queue[i].op = "configure" => hotkeys.queue[i].gen < g
  <2> SUFFICES ASSUME NEW i \in 1..Len(hotkeys.queue), hotkeys.queue[i].op = "configure"
               PROVE hotkeys.queue[i].gen < g
    OBVIOUS
  <2>1. hotkeys.queue[i].gen \in Nat
    BY <1>t, HotkeysFields
  <2>2. hotkeys.queue[i].gen <= prefs.hotkey_gen
    BY <1>t DEF KeyInv, KeysRising
  <2> QED BY <2>1, <2>2, <1>f
<1> HIDE DEF g, e, c
<1>3. CASE hotkeys.at # "done" /\ Len(hotkeys.queue) < KeyRoom
  <2>1. /\ hotkeys' = [hotkeys EXCEPT !.queue = Append(@, c)]
        /\ actor' = [actor EXCEPT !.posting = TRUE] /\ unsaid' = unsaid
    BY <1>3, <1>e DEF Reconfigure, c
  <2> DEFINE t == Append(hotkeys.queue, c)
  <2>2. /\ t \in Seq(KeyCommands) /\ Len(t) = Len(hotkeys.queue) + 1 /\ t[Len(hotkeys.queue) + 1] = c
        /\ \A i \in 1..Len(hotkeys.queue) : t[i] = hotkeys.queue[i]
    BY <1>h, <1>c, QueueAppend
  <2>3. /\ hotkeys'.queue = t /\ hotkeys'.posts = hotkeys.posts /\ hotkeys'.at = hotkeys.at
        /\ hotkeys'.applied = hotkeys.applied /\ hotkeys'.live = hotkeys.live /\ HotkeysTyped'
    BY <1>t, <2>1, <2>2 DEF HotkeysTyped
  <2>4. actor'.inbox = actor.inbox /\ actor'.posting = TRUE /\ ActorTyped'
    BY <1>t, <2>1 DEF ActorTyped
  <2> HIDE DEF t
  <2>5. /\ \A i \in 1..Len(t) : i \in 1..Len(hotkeys.queue) \/ (i = Len(hotkeys.queue) + 1 /\ t[i] = c)
        /\ Len(hotkeys.queue) + 1 \in 1..Len(t) /\ Len(t) <= KeyRoom
    BY <2>2, <1>h, <1>3
  <2>6. SettingsTyped'
    <3>1. FolderTyped' /\ SaverTyped' /\ ExitTyped'
      BY <1>t DEF FolderTyped, SaverTyped, ExitTyped
    <3>2. RoomKept'
      BY <1>t, <2>1, <2>3, <2>4, <2>5 DEF RoomKept
    <3> QED BY <3>1, <3>2, <2>3, <2>4, <1>w DEF SettingsTyped
  <2>7. TellInv'
    BY <1>t, <1>w, <2>1, <2>4 DEF TellInv, ReportTrue, ToBeTold
  <2>8. ChordHeld' /\ NoLostWake'
    BY <1>t, <2>3, <2>4 DEF KeyInv, ChordHeld, NoLostWake
  <2>9. KeysRising'
    <3>1. ASSUME NEW i \in 1..Len(t), t[i].op = "configure" PROVE t[i].gen <= g
      <4>1. CASE i \in 1..Len(hotkeys.queue)
        <5>1. t[i] = hotkeys.queue[i] /\ hotkeys.queue[i].gen \in Nat /\ hotkeys.queue[i].gen < g
          BY <4>1, <3>1, <2>2, <1>u, <1>t, HotkeysFields
        <5> QED BY <5>1, <1>f
      <4>2. CASE t[i] = c
        BY <4>2, <1>c, <1>f
      <4> QED BY <4>1, <4>2, <2>5
    <3>2. ASSUME NEW i \in 1..Len(t), NEW j \in 1..Len(t), i < j, t[i].op = "configure", t[j].op = "configure"
          PROVE  t[i].gen < t[j].gen
      <4>1. i \in 1..Len(hotkeys.queue) /\ t[i] = hotkeys.queue[i]
        BY <3>2, <2>2, <2>5, <1>h
      <4>2. CASE j \in 1..Len(hotkeys.queue)
        <5>1. t[j] = hotkeys.queue[j]
          BY <4>2, <2>2
        <5> QED BY <3>2, <4>1, <4>2, <5>1, <1>t DEF KeyInv, KeysRising
      <4>3. CASE t[j] = c
        BY <4>3, <4>1, <3>2, <1>u, <1>c
      <4> QED BY <4>2, <4>3, <2>5
    <3>3. \A i \in 1..Len(actor.inbox) : actor.inbox[i].op = "hotkey" =>
            actor.inbox[i].gen <= g /\ hotkeys.at # "start"
      <4> SUFFICES ASSUME NEW i \in 1..Len(actor.inbox), actor.inbox[i].op = "hotkey"
                   PROVE actor.inbox[i].gen <= g /\ hotkeys.at # "start"
        OBVIOUS
      <4>1. actor.inbox[i].gen < g /\ actor.inbox[i].gen \in Nat
        BY <1>o, <1>i DEF ReportShape
      <4>2. hotkeys.at # "start"
        BY <1>t DEF KeyInv, KeysRising
      <4> QED BY <4>1, <4>2, <1>f
    <3> QED BY <3>1, <3>2, <3>3, <2>3, <2>4, <1>w DEF KeysRising
  <2>10. AnswerTrue'
    <3>1. ASSUME NEW i \in 1..Len(actor.inbox), actor.inbox[i].op = "hotkey" PROVE actor.inbox[i].gen # g
      BY <3>1, <1>o, <1>f
    <3> QED BY <3>1, <2>4, <1>w DEF AnswerTrue, Answered
  <2>11. KeyShown'
    <3>1. t[Len(hotkeys.queue) + 1].op = "configure" /\ t[Len(hotkeys.queue) + 1].gen = g
      BY <2>2, <1>c
    <3> QED BY <3>1, <2>5, <2>3, <1>w DEF KeyShown
  <2> QED BY <2>6, <2>7, <2>8, <2>9, <2>10, <2>11, <1>2 DEF SettingsInv, KeyInv
<1>4. CASE ~(hotkeys.at # "done" /\ Len(hotkeys.queue) < KeyRoom)
  <2>1. /\ hotkeys' = hotkeys /\ unsaid' = unsaid \cup {"key"}
        /\ actor' = Reported(actor, e) \/ actor' = actor
    BY <1>4 DEF Reconfigure, e
  <2>2. /\ actor' = [inbox |-> actor'.inbox, posting |-> actor.posting] /\ actor'.posting = actor.posting
        /\ actor'.inbox \in Seq(ReportShape) /\ Len(actor'.inbox) <= ReportRoom
        /\ Len(actor'.inbox) >= Len(actor.inbox) /\ Len(actor'.inbox) \in Nat
        /\ \A i \in 1..Len(actor.inbox) : actor'.inbox[i] = actor.inbox[i]
        /\ \A i \in 1..Len(actor'.inbox) : i \in 1..Len(actor.inbox) \/ actor'.inbox[i] = e
    <3>1. CASE actor' = actor
      BY <3>1, <1>i
    <3>2. CASE actor' = Reported(actor, e)
      <4>1. Grown(actor, actor', e) /\ Lost(actor, actor', e, "key")
        BY <3>2, <1>i, <1>m, ReportedTo
      <4> QED BY <4>1 DEF Grown
    <3> QED BY <3>1, <3>2, <2>1
  <2>3. SettingsTyped'
    <3>1. FolderTyped' /\ SaverTyped' /\ ExitTyped' /\ HotkeysTyped'
      BY <1>t, <2>1 DEF FolderTyped, SaverTyped, ExitTyped, HotkeysTyped
    <3>2. RoomKept' /\ ActorTyped'
      BY <1>t, <1>i, <2>1, <2>2 DEF RoomKept, ActorTyped
    <3> QED BY <3>1, <3>2, <1>w DEF SettingsTyped
  <2>4. TellInv'
    <3>1. ASSUME NEW i \in 1..Len(actor'.inbox), actor'.inbox[i].op \in {"saved", "failed"}
          PROVE  /\ actor'.inbox[i].gen <= prefs.gen
                 /\ actor'.inbox[i].gen = prefs.gen => prefs.outcome = actor'.inbox[i].op
      <4>1. i \in 1..Len(actor.inbox) /\ actor'.inbox[i] = actor.inbox[i]
        BY <3>1, <2>2, <1>m
      <4> QED BY <4>1, <3>1, <1>t DEF TellInv, ReportTrue
    <3>2. \A op : ToBeTold(op) => ToBeTold(op)'
      <4>1. \A i \in 1..Len(actor.inbox) : i \in 1..Len(actor'.inbox)
        BY ONLY <2>2, <1>i
      <4> QED BY <4>1, <2>2, <1>w DEF ToBeTold
    <3>3. "save" \notin unsaid' => "save" \notin unsaid
      BY <2>1
    <3>4. "saved" \notin unsaid' => "saved" \notin unsaid
      BY <2>1
    <3> QED BY <3>1, <3>2, <3>3, <3>4, <1>t, <1>w DEF TellInv, ReportTrue
  <2>5. ASSUME NEW i \in 1..Len(actor'.inbox), actor'.inbox[i].op = "hotkey"
        PROVE  actor'.inbox[i].gen < g /\ actor'.inbox[i].gen \in Nat /\ hotkeys.at # "start"
    <3>1. i \in 1..Len(actor.inbox) /\ actor'.inbox[i] = actor.inbox[i]
      BY <2>5, <2>2, <1>m
    <3>2. actor.inbox[i].gen \in Nat
      BY <3>1, <1>i DEF ReportShape
    <3>3. hotkeys.at # "start"
      BY <3>1, <2>5, <1>t DEF KeyInv, KeysRising
    <3> QED BY <3>1, <3>2, <3>3, <2>5, <1>o
  <2>6. ChordHeld' /\ NoLostWake'
    BY <1>t, <2>1, <2>2 DEF KeyInv, ChordHeld, NoLostWake
  <2>7. KeysRising'
    <3>1. \A i \in 1..Len(hotkeys.queue) : hotkeys.queue[i].op = "configure" => hotkeys.queue[i].gen <= g
      <4> SUFFICES ASSUME NEW i \in 1..Len(hotkeys.queue), hotkeys.queue[i].op = "configure"
                   PROVE hotkeys.queue[i].gen <= g
        OBVIOUS
      <4>1. hotkeys.queue[i].gen \in Nat
        BY <1>t, HotkeysFields
      <4> QED BY <4>1, <1>u, <1>f
    <3>2. \A i \in 1..Len(actor'.inbox) : actor'.inbox[i].op = "hotkey" =>
            actor'.inbox[i].gen <= g /\ hotkeys.at # "start"
      BY <2>5, <1>f
    <3>3. \A i, j \in 1..Len(hotkeys.queue) :
            i < j /\ hotkeys.queue[i].op = "configure" /\ hotkeys.queue[j].op = "configure" =>
              hotkeys.queue[i].gen < hotkeys.queue[j].gen
      BY <1>t DEF KeyInv, KeysRising
    <3> QED BY <3>1, <3>2, <3>3, <2>1, <1>w DEF KeysRising
  <2>8. AnswerTrue'
    <3>1. ASSUME NEW i \in 1..Len(actor'.inbox), actor'.inbox[i].op = "hotkey" PROVE actor'.inbox[i].gen # g
      BY <3>1, <2>5, <1>f
    <3> QED BY <3>1, <1>w DEF AnswerTrue, Answered
  <2>9. KeyShown'
    BY <2>1 DEF KeyShown
  <2> QED BY <2>3, <2>4, <2>6, <2>7, <2>8, <2>9, <1>2 DEF SettingsInv, KeyInv
<1> QED BY <1>3, <1>4

-----------------------------------------------------------------------------
(* The user's steps and the actor's.                                       *)

LEMMA OwnInbox == ASSUME ActorTyped, RoomKept, ~actor.posting PROVE Inherits(actor)
BY ActorFields DEF ActorTyped, RoomKept, Inherits

LEMMA OwnKeys ==
  ASSUME KeyInv, NEW u, "key" \in unsaid => "key" \in u
  PROVE  KeyMid(prefs.value.hotkey, actor.inbox, u)
BY DEF KeyInv, KeyShown, KeyMid, Answered

LEMMA PerformSaves ==
  ASSUME SettingsInv, NEW s, NEW a, NEW u \in SUBSET {"save", "saved", "key"}, NEW b,
         Saves(s, b) \/ (Quits(s) /\ b = prefs.value.hotkey),
         Inherits(a), KeyMid(b, a.inbox, u), Perform(s, a, u), ~actor.posting, UNCHANGED folder
  PROVE  SettingsInv'
<1>1. CASE Saves(s, b)
  <2>1. PICK v \in Prefs, n \in Notices : v.hotkey = b /\ SavesAs(s, "save", v, n, prefs.quitting)
    BY <1>1 DEF Saves
  <2>2. s.effect.op = "save"
    BY <2>1 DEF SavesAs
  <2>3. Schedule(s, a, u) /\ UNCHANGED <<hotkeys, exit>>
    BY <2>2 DEF Perform
  <2>4. prefs.quitting \in BOOLEAN
    BY PrefsFields DEF SettingsInv, SettingsTyped
  <2> QED BY <2>1, <2>3, <2>4, ScheduleKeeps
<1>2. CASE Quits(s) /\ b = prefs.value.hotkey
  <2>1. SavesAs(s, "quit", prefs.value, prefs.notice, TRUE) /\ ~prefs.quitting
    BY <1>2 DEF Quits
  <2>2. s.effect.op = "quit"
    BY <2>1 DEF SavesAs
  <2>3. Schedule(s, a, u) /\ exit' = [exit EXCEPT !.step = "device"] /\ UNCHANGED hotkeys
    BY <2>2 DEF Perform
  <2>4. prefs.value \in Prefs /\ prefs.notice \in Notices /\ TRUE \in BOOLEAN
    BY PrefsFields DEF SettingsInv, SettingsTyped
  <2> QED BY <1>2, <2>1, <2>3, <2>4, ScheduleKeeps
<1> QED BY <1>1, <1>2

LEMMA PerformNotes ==
  ASSUME SettingsInv, NEW n \in Notices, NEW s, s = [prefs EXCEPT !.notice = n],
         NEW a, NEW u \in SUBSET {"save", "saved", "key"},
         Inherits(a), TellMid(n, a.inbox, u), KeyMid(prefs.value.hotkey, a.inbox, u),
         Perform(s, a, u), ~actor.posting, UNCHANGED folder
  PROVE  SettingsInv'
<1>1. s.effect.op = "nothing"
  BY PrefsFields DEF SettingsInv, SettingsTyped, Idle
<1>2. prefs' = s /\ actor' = a /\ unsaid' = u /\ UNCHANGED <<saver, hotkeys, exit>>
  BY <1>1 DEF Perform
<1> QED BY <1>2, NotesKeep

LEMMA EditsKeep == SettingsInv /\ taste \in Tastes /\ UserEdits => SettingsInv'
<1> SUFFICES ASSUME SettingsInv, taste \in Tastes, UserEdits PROVE SettingsInv'
  OBVIOUS
<1>t. /\ PrefsTyped /\ ActorTyped /\ RoomKept /\ KeyInv /\ TellInv
  BY DEF SettingsInv, SettingsTyped
<1>1. PICK act \in taste.acts : \E s \in Edits(prefs, act) :
        s # prefs /\ Perform(s, actor, unsaid \cup Hidden(prefs, s))
  BY DEF UserEdits
<1>2. PICK s \in Edits(prefs, act) : s # prefs /\ Perform(s, actor, unsaid \cup Hidden(prefs, s))
  BY <1>1
<1> DEFINE u == unsaid \cup Hidden(prefs, s)
<1>3. u \in SUBSET {"save", "saved", "key"} /\ unsaid \subseteq u
  BY <1>t DEF RoomKept, Hidden
<1>4. Inherits(actor) /\ KeyMid(prefs.value.hotkey, actor.inbox, u) /\ ~actor.posting /\ UNCHANGED folder
  BY <1>t, <1>3, OwnInbox, OwnKeys DEF UserEdits
<1>5. Notes(s, {"invalid", "error"}) \/ Saves(s, prefs.value.hotkey) \/ Quits(s) \/ AsksKey(s)
  BY <1>t, <1>1, <1>2, EditsKnown DEF SettingsInv
<1>6. CASE Saves(s, prefs.value.hotkey) \/ Quits(s)
  <2> HIDE DEF u
  <2>1. Perform(s, actor, u)
    BY <1>2 DEF u
  <2> QED BY <1>3, <1>4, <1>6, <2>1, PerformSaves
<1>7. CASE AsksKey(s)
  <2>1. PICK b \in Bindings :
          s = [prefs EXCEPT !.hotkey_gen = @ + 1,
                    !.effect = [op |-> "hotkey", gen |-> prefs.hotkey_gen + 1, value |-> b]]
    BY <1>7 DEF AsksKey
  <2>2. s.effect.op = "hotkey" /\ s.notice = prefs.notice
    BY <2>1, <1>t, PrefsFields
  <2>3. u = unsaid
    BY <2>2 DEF Hidden
  <2>4. Reconfigure(s, actor, u) /\ UNCHANGED <<saver, exit>>
    BY <1>2, <2>2 DEF Perform
  <2> HIDE DEF u
  <2> QED BY <1>3, <1>4, <2>1, <2>3, <2>4, ReconfigureKeeps
<1>8. CASE Notes(s, {"invalid", "error"})
  <2>1. PICK n \in {"invalid", "error"} : s = [prefs EXCEPT !.notice = n]
    BY <1>8 DEF Notes
  <2>2. s.notice = n /\ n \in Notices
    BY <2>1, <1>t, PrefsFields DEF Notices
  <2>3. TellMid(n, actor.inbox, u)
    <3>1. prefs.notice = "persist" => "save" \in u
      BY <2>1, <2>2 DEF Hidden
    <3> HIDE DEF u
    <3> QED BY <3>1, <2>1, <1>3, <1>t DEF TellMid, TellInv, ToBeTold
  <2>4. Perform(s, actor, u)
    BY <1>2
  <2> HIDE DEF u
  <2> QED BY <1>3, <1>4, <2>1, <2>2, <2>3, <2>4, PerformNotes
<1> QED BY <1>5, <1>6, <1>7, <1>8

LEMMA HearKeeps == SettingsInv /\ Hear => SettingsInv'
<1> SUFFICES ASSUME SettingsInv, Hear PROVE SettingsInv'
  OBVIOUS
<1>t. /\ PrefsTyped /\ ActorTyped /\ RoomKept /\ KeyInv /\ TellInv /\ HotkeysTyped /\ OutcomeTrue
      /\ unsaid \subseteq {"save", "saved", "key"}
  BY DEF SettingsInv, SettingsTyped, LineInv, RoomKept
<1> DEFINE e == Head(actor.inbox)
           s == Heard(prefs, e)
           a == [actor EXCEPT !.inbox = Tail(@)]
           current == e.op = "hotkey" /\ e.gen = prefs.hotkey_gen
           outranked == e.op = "failed" /\ e.gen = prefs.gen /\ s.notice # "persist"
           u == (unsaid \ (IF current THEN {"key"} ELSE {})) \cup Hidden(prefs, s)
                  \cup (IF outranked THEN {"save"} ELSE {})
<1>1. Perform(s, a, u) /\ ~actor.posting /\ actor.inbox # <<>> /\ UNCHANGED folder
  BY DEF Hear
<1>2. /\ actor.inbox \in Seq(ReportShape) /\ actor.posting \in BOOLEAN
      /\ actor = [inbox |-> actor.inbox, posting |-> actor.posting]
  BY <1>t DEF ActorTyped
<1> DEFINE q == Tail(actor.inbox)
<1>3. /\ q \in Seq(ReportShape) /\ Len(actor.inbox) \in Nat /\ Len(actor.inbox) >= 1
      /\ Len(q) = Len(actor.inbox) - 1 /\ e = actor.inbox[1] /\ actor.inbox[1] \in ReportShape
      /\ \A i \in 1..(Len(actor.inbox) - 1) : q[i] = actor.inbox[i + 1]
  BY <1>1, <1>2, QueueTail
<1>4. a = [inbox |-> q, posting |-> actor.posting] /\ a.inbox = q
  <2>1. a = [actor EXCEPT !.inbox = q]
    OBVIOUS
  <2> HIDE DEF q, a
  <2> QED BY <2>1, <1>2
<1> HIDE DEF q, e
<1>5. /\ \A i \in 1..Len(q) : i + 1 \in 1..Len(actor.inbox) /\ q[i] = actor.inbox[i + 1]
      /\ \A i \in 1..Len(actor.inbox) : i = 1 \/ (i - 1 \in 1..Len(q) /\ q[i - 1] = actor.inbox[i])
      /\ 1 \in 1..Len(actor.inbox) /\ e \in ReportShape
  BY <1>3
<1>6. Inherits(a)
  <2>1. Len(q) <= ReportRoom
    <3>1. ReportRoom \in Nat /\ Len(actor.inbox) <= ReportRoom
      BY <1>t, SettingsAssumption DEF RoomKept
    <3> QED BY <1>3, <3>1
  <2>2. a \in [inbox : Seq(ReportShape), posting : {FALSE}]
    BY <1>1, <1>2, <1>3, <1>4
  <2> HIDE DEF a
  <2> QED BY <2>1, <2>2, <1>4, <1>5 DEF Inherits
<1>7. u \in SUBSET {"save", "saved", "key"}
  BY <1>t DEF Hidden
<1> HIDE DEF a
<1>8. ASSUME ~current PROVE KeyMid(prefs.value.hotkey, q, u)
  <2>1. "key" \in unsaid => "key" \in u
    BY <1>8
  <2>2. \A i \in 1..Len(actor.inbox) : Answered(i) => i # 1 /\ i - 1 \in 1..Len(q) /\ q[i - 1] = actor.inbox[i]
    BY <1>3, <1>5, <1>8 DEF Answered
  <2>3. (\E i \in 1..Len(actor.inbox) : Answered(i)) =>
          \E i \in 1..Len(q) : q[i].op = "hotkey" /\ q[i].gen = prefs.hotkey_gen
    BY <2>2 DEF Answered
  <2>4. KeyShown
    BY <1>t DEF KeyInv
  <2> HIDE DEF u
  <2> QED BY <2>1, <2>3, <2>4 DEF KeyMid, KeyShown
<1>9. ASSUME current PROVE KeyMid(e.applied, q, u)
  <2>1. Answered(1)
    BY <1>3, <1>9 DEF Answered
  <2>2. hotkeys.at # "done" => NoCommand /\ e.applied = hotkeys.applied
    BY <2>1, <1>3, <1>5, <1>t DEF KeyInv, AnswerTrue
  <2> QED BY <2>2 DEF KeyMid
<1>10. \A op : op # e.op \/ e.gen # prefs.gen =>
         (ToBeTold(op) => \E i \in 1..Len(q) : q[i].op = op /\ q[i].gen = prefs.gen)
  BY <1>3, <1>5 DEF ToBeTold
<1>11. ReportTrue(e)
  BY <1>t, <1>3, <1>5 DEF TellInv
<1>12. /\ prefs.outcome = "failed" /\ "save" \notin unsaid => prefs.notice = "persist" \/ ToBeTold("failed")
       /\ prefs.outcome = "saved" /\ prefs.notice = "persist" /\ "saved" \notin unsaid => ToBeTold("saved")
       /\ prefs.notice = "persist" => prefs.gen # 0
  BY <1>t DEF TellInv
<1>13. prefs.outcome # "none" => prefs.gen # 0
  BY <1>t DEF OutcomeTrue
<1>14. "save" \notin u => "save" \notin unsaid /\ Hidden(prefs, s) = {} /\ ~outranked
  BY <1>t DEF Hidden
<1>15. "saved" \notin u => "saved" \notin unsaid
  OBVIOUS
<1>16. prefs = [prefs EXCEPT !.notice = prefs.notice] /\ prefs.notice \in Notices
  BY <1>t, PrefsFields
<1>17. ASSUME NEW n \in Notices, s = [prefs EXCEPT !.notice = n],
              TellMid(n, q, u), KeyMid(prefs.value.hotkey, q, u)
       PROVE  SettingsInv'
  <2> HIDE DEF u, s
  <2> QED BY <1>17, <1>1, <1>4, <1>6, <1>7, PerformNotes
<1>18. \A n : s = [prefs EXCEPT !.notice = n] => s.notice = n
  BY <1>t, PrefsFields
<1>21. CASE e.op = "saved"
  <2> DEFINE n == IF e.gen = prefs.gen /\ prefs.notice = "persist" THEN "none" ELSE prefs.notice
  <2>1. s = [prefs EXCEPT !.notice = n] /\ n \in Notices
    BY <1>21, <1>16 DEF Heard, Persisted, Notices
  <2>2. KeyMid(prefs.value.hotkey, q, u)
    BY <1>8, <1>21
  <2>3. e.gen = prefs.gen => prefs.outcome = "saved"
    BY <1>11, <1>21 DEF ReportTrue
  <2> HIDE DEF u, s
  <2>4. TellMid(n, q, u)
    <3>1. prefs.outcome = "failed" /\ "save" \notin u => n = "persist" \/ \E i \in 1..Len(q) : q[i].op = "failed" /\ q[i].gen = prefs.gen
      BY <1>10, <1>12, <1>14, <1>21, <2>3
    <3>2. prefs.outcome = "saved" /\ n = "persist" /\ "saved" \notin u =>
            \E i \in 1..Len(q) : q[i].op = "saved" /\ q[i].gen = prefs.gen
      BY <1>10, <1>12, <1>15, <1>21
    <3> QED BY <3>1, <3>2, <1>12 DEF TellMid
  <2> HIDE DEF n
  <2> QED BY <2>1, <2>2, <2>4, <1>17
<1>22. CASE e.op = "failed"
  <2> DEFINE n == IF e.gen # prefs.gen \/ prefs.notice = "error" THEN prefs.notice ELSE "persist"
  <2>1. s = [prefs EXCEPT !.notice = n] /\ n \in Notices
    BY <1>22, <1>16 DEF Heard, PersistFailed, Notices
  <2>2. KeyMid(prefs.value.hotkey, q, u)
    BY <1>8, <1>22
  <2>3. e.gen = prefs.gen => prefs.outcome = "failed"
    BY <1>11, <1>22 DEF ReportTrue
  <2>5. "save" \notin u /\ e.gen = prefs.gen => n = "persist"
    <3>1. s.notice = n
      BY <2>1, <1>18
    <3> HIDE DEF n, s
    <3> QED BY <3>1, <1>14, <1>22
  <2> HIDE DEF u, s
  <2>4. TellMid(n, q, u)
    <3>1. prefs.outcome = "failed" /\ "save" \notin u => n = "persist" \/ \E i \in 1..Len(q) : q[i].op = "failed" /\ q[i].gen = prefs.gen
      BY <1>10, <1>12, <1>14, <1>22, <2>5
    <3>2. prefs.outcome = "saved" /\ n = "persist" /\ "saved" \notin u =>
            \E i \in 1..Len(q) : q[i].op = "saved" /\ q[i].gen = prefs.gen
      BY <1>10, <1>12, <1>15, <1>22, <2>3
    <3>3. n = "persist" => prefs.gen # 0
      BY <2>3, <1>12, <1>13
    <3> QED BY <3>1, <3>2, <3>3 DEF TellMid
  <2> HIDE DEF n
  <2> QED BY <2>1, <2>2, <2>4, <1>17
<1>23. CASE e.op = "closed"
  <2>1. s = [prefs EXCEPT !.notice = "error"] /\ "error" \in Notices
    BY <1>23 DEF Heard, Notices
  <2>2. KeyMid(prefs.value.hotkey, q, u)
    BY <1>8, <1>23
  <2>3. s.notice = "error"
    BY <2>1, <1>18
  <2>4. "save" \notin u => prefs.notice # "persist"
    BY <2>3, <1>14 DEF Hidden
  <2> HIDE DEF u, s
  <2>5. TellMid("error", q, u)
    BY <1>10, <1>12, <1>14, <1>23, <2>4 DEF TellMid
  <2> QED BY <2>1, <2>2, <2>5, <1>17
<1>24. CASE e.op = "hotkey"
  <2>1. \/ e.gen # prefs.hotkey_gen /\ s = prefs
        \/ e.gen = prefs.hotkey_gen /\ s = prefs /\ prefs.value.hotkey = e.applied
        \/ e.gen = prefs.hotkey_gen /\ Saves(s, e.applied)
    BY <1>24, <1>5, <1>t, KeyHeard
  <2>2. CASE e.gen = prefs.hotkey_gen /\ Saves(s, e.applied)
    <3>1. KeyMid(e.applied, q, u)
      BY <2>2, <1>9, <1>24
    <3> HIDE DEF u, s
    <3> QED BY <2>2, <3>1, <1>1, <1>4, <1>6, <1>7, PerformSaves
  <2>3. CASE s = prefs /\ (e.gen # prefs.hotkey_gen \/ prefs.value.hotkey = e.applied)
    <3>1. KeyMid(prefs.value.hotkey, q, u)
      <4>1. CASE e.gen # prefs.hotkey_gen
        BY <4>1, <1>8
      <4>2. CASE e.gen = prefs.hotkey_gen /\ prefs.value.hotkey = e.applied
        BY <4>2, <1>9, <1>24
      <4> QED BY <4>1, <4>2, <2>3
    <3> HIDE DEF u, s
    <3>2. TellMid(prefs.notice, q, u)
      BY <1>10, <1>12, <1>14, <1>15, <1>24 DEF TellMid
    <3> QED BY <2>3, <3>1, <3>2, <1>16, <1>17
  <2> QED BY <2>1, <2>2, <2>3
<1> QED BY <1>5, <1>21, <1>22, <1>23, <1>24 DEF ReportShape

LEMMA PostKeeps == SettingsInv /\ PostWake => SettingsInv'
<1> SUFFICES ASSUME SettingsInv, PostWake PROVE SettingsInv'
  OBVIOUS
<1>t. /\ PrefsTyped /\ SaverTyped /\ FolderTyped /\ HotkeysTyped /\ ActorTyped /\ ExitTyped /\ RoomKept
      /\ FolderInv /\ LineInv /\ TellInv /\ ExitInv /\ KeyInv
  BY DEF SettingsInv, SettingsTyped
<1> DEFINE p == Append(hotkeys.posts, "configure")
<1>1. p \in Seq({"configure", "shutdown"}) /\ Len(p) = Len(hotkeys.posts) + 1 /\ Len(hotkeys.posts) \in Nat
  BY <1>t, HotkeysFields, QueueAppend
<1>2. p # <<>>
  BY <1>1, EmptySeq
<1>3. hotkeys' = [hotkeys EXCEPT !.posts = IF hotkeys.at = "start" THEN @ ELSE p]
      /\ actor' = [actor EXCEPT !.posting = FALSE] /\ UNCHANGED <<prefs, saver, folder, exit, unsaid>>
  BY DEF PostWake
<1> HIDE DEF p
<1>4. /\ hotkeys'.queue = hotkeys.queue /\ hotkeys'.at = hotkeys.at /\ hotkeys'.applied = hotkeys.applied
      /\ hotkeys'.live = hotkeys.live /\ HotkeysTyped'
      /\ hotkeys'.posts = IF hotkeys.at = "start" THEN hotkeys.posts ELSE p
  BY <1>t, <1>1, <1>3, HotkeysFields DEF HotkeysTyped
<1>5. actor'.inbox = actor.inbox /\ ActorTyped'
  BY <1>t, <1>3 DEF ActorTyped
<1>6. SettingsTyped'
  <2>1. PrefsTyped' /\ SaverTyped' /\ FolderTyped' /\ ExitTyped'
    BY <1>t, <1>3 DEF PrefsTyped, SaverTyped, FolderTyped, ExitTyped
  <2>2. RoomKept'
    BY <1>t, <1>3, <1>4, <1>5 DEF RoomKept
  <2> QED BY <2>1, <2>2, <1>4, <1>5 DEF SettingsTyped
<1>7. FolderInv' /\ LineInv' /\ ExitInv'
  BY <1>t, <1>3, SavesAside
<1>8. TellInv'
  BY <1>t, <1>3, <1>5 DEF TellInv, ReportTrue, ToBeTold
<1>9. ChordHeld' /\ KeysRising' /\ AnswerTrue' /\ KeyShown'
  BY <1>t, <1>3, <1>4, <1>5 DEF KeyInv, ChordHeld, KeysRising, AnswerTrue, KeyShown, NoCommand, Answered
<1>10. NoLostWake'
  BY <1>2, <1>4 DEF NoLostWake
<1> QED BY <1>6, <1>7, <1>8, <1>9, <1>10 DEF SettingsInv, KeyInv

-----------------------------------------------------------------------------
(* The preferences worker.                                                 *)

\* A step that only the worker's own state takes part in.
LEMMA SaverOnly ==
  ASSUME SettingsInv, UNCHANGED <<prefs, hotkeys, actor, exit, unsaid>>,
         SaverTyped', FolderTyped', Len(saver'.queue) <= SaveRoom,
         FolderInv', QueueRising', JobsRising', OutcomeTrue', ExitInv'
  PROVE  SettingsInv'
<1>t. /\ PrefsTyped /\ HotkeysTyped /\ ActorTyped /\ ExitTyped /\ RoomKept /\ TellInv /\ KeyInv
  BY DEF SettingsInv, SettingsTyped
<1>1. SettingsTyped'
  BY <1>t DEF SettingsTyped, PrefsTyped, HotkeysTyped, ActorTyped, ExitTyped, RoomKept
<1>2. TellInv'
  BY <1>t DEF TellInv, ReportTrue, ToBeTold
<1>3. KeyInv'
  BY <1>t DEF KeyInv, ChordHeld, KeysRising, AnswerTrue, KeyShown, NoCommand, Answered, NoLostWake
<1> QED BY <1>1, <1>2, <1>3 DEF SettingsInv, LineInv

\* What the worker's steps need to know of the saves on their way.
LEMMA LineFacts ==
  ASSUME SettingsInv
  PROVE  /\ prefs.gen \in Nat /\ exit.due \in Nat /\ prefs.outcome \in SaveOutcomes
         /\ saver.pending.gen \in Nat /\ saver.doing.gen \in Nat
         /\ saver.pending.gen <= prefs.gen /\ saver.doing.gen <= prefs.gen
         /\ \A i \in 1..Len(saver.queue) :
              /\ saver.queue[i] \in SaveCommands /\ saver.queue[i].op \in {"save", "flush"}
              /\ saver.queue[i].op = "save" =>
                   /\ saver.queue[i].gen \in Nat /\ saver.queue[i].value \in Prefs
                   /\ saver.pending.gen < saver.queue[i].gen /\ saver.doing.gen < saver.queue[i].gen
                   /\ SaveTrue(saver.queue[i].gen, saver.queue[i].value)
         /\ SaverTyped /\ FolderTyped /\ FolderInv /\ QueueRising /\ JobsRising /\ OutcomeTrue /\ ExitInv
         /\ Len(saver.queue) <= SaveRoom
BY SaverFields, PrefsFields DEF SettingsInv, SettingsTyped, LineInv, RoomKept, QueueRising, JobsRising,
                               SaveTrue, ExitTyped

\* The queue without its head.
LEMMA QueueRest ==
  ASSUME SaverTyped, RoomKept, saver.queue # <<>>, NEW q, q = Tail(saver.queue)
  PROVE  /\ q \in Seq(SaveCommands) /\ Len(q) <= SaveRoom
         /\ Head(saver.queue) = saver.queue[1] /\ 1 \in 1..Len(saver.queue)
         /\ \A i \in 1..Len(q) : i + 1 \in 1..Len(saver.queue) /\ i + 1 > 1 /\ q[i] = saver.queue[i + 1]
         /\ \A i, j \in 1..Len(q) : (i < j) => (i + 1 < j + 1)
         /\ \A i \in 1..Len(saver.queue) : i = 1 \/ (i - 1 \in 1..Len(q) /\ q[i - 1] = saver.queue[i])
<1>1. saver.queue \in Seq(SaveCommands) /\ SaveRoom \in Nat /\ Len(saver.queue) <= SaveRoom
  BY SaverFields, SettingsAssumption DEF RoomKept
<1>2. /\ q \in Seq(SaveCommands) /\ Len(saver.queue) \in Nat /\ Len(saver.queue) >= 1
      /\ Len(q) = Len(saver.queue) - 1 /\ Head(saver.queue) = saver.queue[1]
      /\ \A i \in 1..(Len(saver.queue) - 1) : q[i] = saver.queue[i + 1]
  BY <1>1, QueueTail
<1> QED BY <1>1, <1>2

LEMMA TimeKeeps == SettingsInv /\ TimePasses => SettingsInv'
<1> SUFFICES ASSUME SettingsInv, TimePasses PROVE SettingsInv'
  OBVIOUS
<1>f. /\ SaverTyped /\ FolderTyped /\ FolderInv /\ QueueRising /\ JobsRising /\ OutcomeTrue /\ ExitInv
      /\ Len(saver.queue) <= SaveRoom
  BY LineFacts
<1>1. /\ saver' = [saver EXCEPT !.pending.left = @ - 1] /\ saver.pending.left > 0
      /\ UNCHANGED <<prefs, folder, hotkeys, actor, exit, unsaid>>
  BY DEF TimePasses
<1>2. /\ saver'.queue = saver.queue /\ saver'.doing = saver.doing /\ saver'.step = saver.step
      /\ saver'.flushing = saver.flushing /\ saver'.pending.gen = saver.pending.gen
      /\ saver'.pending.value = saver.pending.value
  BY <1>1, <1>f DEF SaverTyped, SaveJob
<1>3. SaverTyped'
  BY <1>1, <1>f DEF SaverTyped, SaveJob
<1>4. FolderTyped' /\ FolderInv'
  BY <1>1, <1>2, <1>f DEF FolderTyped, FolderInv
<1>5. QueueRising' /\ JobsRising'
  BY <1>1, <1>2, <1>f DEF QueueRising, JobsRising, SaveTrue
<1>6. OutcomeTrue' /\ ExitInv'
  BY <1>1, <1>2, <1>f DEF OutcomeTrue, NewestUnderWay, ExitInv
<1> QED BY <1>1, <1>2, <1>3, <1>4, <1>5, <1>6, <1>f, SaverOnly

LEMMA DueKeeps == SettingsInv /\ SaverDue => SettingsInv'
<1> SUFFICES ASSUME SettingsInv, SaverDue PROVE SettingsInv'
  OBVIOUS
<1>f. /\ SaverTyped /\ FolderTyped /\ FolderInv /\ QueueRising /\ JobsRising /\ OutcomeTrue /\ ExitInv
      /\ Len(saver.queue) <= SaveRoom /\ prefs.gen \in Nat /\ saver.pending.gen \in Nat
      /\ \A i \in 1..Len(saver.queue) : saver.queue[i].op = "save" => saver.queue[i].gen \in Nat
  BY LineFacts
<1>1. /\ saver' = [saver EXCEPT !.step = "create", !.doing = saver.pending, !.pending = NoSave]
      /\ saver.step = "idle" /\ saver.pending.gen # 0
      /\ UNCHANGED <<prefs, folder, hotkeys, actor, exit, unsaid>>
  BY DEF SaverDue, Waiting
<1>2. /\ saver'.queue = saver.queue /\ saver'.doing = saver.pending /\ saver'.step = "create"
      /\ saver'.flushing = saver.flushing /\ saver'.pending = NoSave
  BY <1>1, <1>f DEF SaverTyped
<1>3. SaverTyped' /\ NoSave.gen = 0
  BY <1>1, <1>f, DefaultsTyped DEF SaverTyped, WriteSteps
<1>4. FolderTyped' /\ FolderInv'
  BY <1>1, <1>2, <1>f DEF FolderTyped, FolderInv
<1>d. saver.doing.gen = 0
  BY <1>1, <1>f DEF JobsRising, WriteSteps
<1>5. QueueRising'
  <2>1. \A i \in 1..Len(saver.queue) : saver.queue[i].op = "save" => 0 < saver.queue[i].gen
    BY <1>f, <1>d DEF QueueRising
  <2> QED BY <2>1, <1>1, <1>2, <1>3, <1>f DEF QueueRising, SaveTrue
<1>6. JobsRising'
  BY <1>1, <1>2, <1>3, <1>f DEF JobsRising, SaveTrue, WriteSteps
<1>7. OutcomeTrue'
  BY <1>1, <1>2, <1>d, <1>f DEF OutcomeTrue, NewestUnderWay
<1>8. ExitInv'
  BY <1>1, <1>2, <1>3, <1>f DEF ExitInv
<1> QED BY <1>1, <1>2, <1>3, <1>4, <1>5, <1>6, <1>7, <1>8, <1>f, SaverOnly

LEMMA FillKeeps == SettingsInv /\ Fill => SettingsInv'
<1> SUFFICES ASSUME SettingsInv, Fill PROVE SettingsInv'
  OBVIOUS
<1>f. /\ SaverTyped /\ FolderTyped /\ FolderInv /\ QueueRising /\ JobsRising /\ OutcomeTrue /\ ExitInv
      /\ Len(saver.queue) <= SaveRoom
  BY LineFacts
<1> DEFINE next == CASE saver.step = "create" -> "write" [] saver.step = "write" -> "sync"
                     [] saver.step = "sync" -> "move"
           tmp == [kind |-> IF saver.step = "create" THEN "corrupt" ELSE "v2",
                   value |-> saver.doing.value, synced |-> saver.step = "sync"]
<1>1. /\ saver' = [saver EXCEPT !.step = next] /\ saver.step \in {"create", "write", "sync"}
      /\ folder' = [folder EXCEPT !.tmp = tmp]
      /\ UNCHANGED <<prefs, hotkeys, actor, exit, unsaid>>
  BY DEF Fill
<1>2. /\ next \in {"write", "sync", "move"}
      /\ next = "sync" => saver.step = "write"
      /\ next = "move" => saver.step = "sync"
  BY <1>1
<1>3. tmp \in SettingsFileShape
  BY <1>f, SaverFields DEF SettingsFileShape, Kinds
<1>4. /\ tmp.value = saver.doing.value /\ (saver.step # "create" => tmp.kind = "v2")
      /\ tmp.synced = (saver.step = "sync")
  OBVIOUS
<1> HIDE DEF next, tmp
<1>5. /\ saver'.queue = saver.queue /\ saver'.doing = saver.doing /\ saver'.step = next
      /\ saver'.flushing = saver.flushing /\ saver'.pending = saver.pending /\ SaverTyped'
  BY <1>1, <1>2, <1>f DEF SaverTyped, WriteSteps
<1>6. /\ folder'.file = folder.file /\ folder'.tmp = tmp /\ folder'.ours = folder.ours /\ FolderTyped'
  BY <1>1, <1>3, <1>f DEF FolderTyped
<1>7. FolderInv'
  <2>1. next = "sync" => tmp.kind = "v2"
    BY <1>2, <1>4
  <2>2. next = "move" => tmp.kind = "v2" /\ tmp.synced
    BY <1>2, <1>4
  <2> QED BY <2>1, <2>2, <1>2, <1>4, <1>5, <1>6, <1>f DEF FolderInv
<1>8. QueueRising' /\ JobsRising'
  BY <1>1, <1>2, <1>5, <1>f DEF QueueRising, JobsRising, SaveTrue, WriteSteps
<1>9. OutcomeTrue'
  BY <1>1, <1>5, <1>6, <1>f DEF OutcomeTrue, NewestUnderWay
<1>10. ExitInv'
  BY <1>1, <1>2, <1>5, <1>f DEF ExitInv
<1> QED BY <1>1, <1>5, <1>6, <1>7, <1>8, <1>9, <1>10, <1>f, SaverOnly

LEMMA TakesKeeps == SettingsInv /\ SaverTakes => SettingsInv'
<1> SUFFICES ASSUME SettingsInv, SaverTakes PROVE SettingsInv'
  OBVIOUS
<1>f. /\ prefs.gen \in Nat /\ exit.due \in Nat /\ prefs.outcome \in SaveOutcomes
      /\ saver.pending.gen \in Nat /\ saver.doing.gen \in Nat
      /\ saver.pending.gen <= prefs.gen /\ saver.doing.gen <= prefs.gen
      /\ \A i \in 1..Len(saver.queue) :
           /\ saver.queue[i] \in SaveCommands /\ saver.queue[i].op \in {"save", "flush"}
           /\ saver.queue[i].op = "save" =>
                /\ saver.queue[i].gen \in Nat /\ saver.queue[i].value \in Prefs
                /\ saver.pending.gen < saver.queue[i].gen /\ saver.doing.gen < saver.queue[i].gen
                /\ SaveTrue(saver.queue[i].gen, saver.queue[i].value)
      /\ SaverTyped /\ FolderTyped /\ FolderInv /\ QueueRising /\ JobsRising /\ OutcomeTrue /\ ExitInv
      /\ Len(saver.queue) <= SaveRoom
  BY LineFacts
<1> DEFINE c == Head(saver.queue)
           q == Tail(saver.queue)
<1>1. /\ saver.step = "idle" /\ saver.queue # <<>>
      /\ UNCHANGED <<prefs, folder, hotkeys, actor, exit, unsaid>>
  BY DEF SaverTakes
<1>2. /\ q \in Seq(SaveCommands) /\ Len(q) <= SaveRoom
      /\ c = saver.queue[1] /\ 1 \in 1..Len(saver.queue)
      /\ \A i \in 1..Len(q) : i + 1 \in 1..Len(saver.queue) /\ i + 1 > 1 /\ q[i] = saver.queue[i + 1]
      /\ \A i, j \in 1..Len(q) : (i < j) => (i + 1 < j + 1)
      /\ \A i \in 1..Len(saver.queue) : i = 1 \/ (i - 1 \in 1..Len(q) /\ q[i - 1] = saver.queue[i])
  BY <1>1, QueueRest DEF SettingsInv, SettingsTyped
<1>3. saver' = CASE c.op = "save" -> [[saver EXCEPT !.queue = q] EXCEPT !.pending = Offer(saver.pending, c)]
                 [] c.op = "flush" /\ Waiting ->
                      [[saver EXCEPT !.queue = q] EXCEPT !.step = "create", !.doing = saver.pending,
                                   !.pending = NoSave, !.flushing = TRUE]
                 [] c.op = "flush" /\ ~Waiting ->
                      [[saver EXCEPT !.queue = q] EXCEPT !.step = "gone", !.flushing = TRUE]
  BY <1>f DEF SaverTakes, SaverTyped
<1>d. saver.doing.gen = 0 /\ ~saver.flushing /\ saver.step \notin WriteSteps
  BY <1>1, <1>f DEF JobsRising, ExitInv, WriteSteps
<1> HIDE DEF c, q
<1>4. ASSUME NEW i \in 1..Len(q), NEW j \in 1..Len(q), i < j, q[i].op = "save", q[j].op = "save"
      PROVE  q[i].gen < q[j].gen
  BY <1>4, <1>2, <1>f DEF QueueRising
<1>5. \A i \in 1..Len(q) : q[i].op = "flush" =>
        /\ exit.step \in {"ack", "closed"}
        /\ \A j \in 1..Len(q) : j > i => q[j].op = "save" /\ exit.due < q[j].gen
  <2> SUFFICES ASSUME NEW i \in 1..Len(q), q[i].op = "flush"
               PROVE  /\ exit.step \in {"ack", "closed"}
                      /\ \A j \in 1..Len(q) : j > i => q[j].op = "save" /\ exit.due < q[j].gen
    OBVIOUS
  <2>1. /\ i + 1 \in 1..Len(saver.queue) /\ saver.queue[i + 1].op = "flush"
    BY <1>2
  <2>2. exit.step \in {"ack", "closed"}
        /\ \A j \in 1..Len(saver.queue) : j > i + 1 => saver.queue[j].op = "save" /\ exit.due < saver.queue[j].gen
    BY <2>1, <1>f DEF ExitInv
  <2>3. ASSUME NEW j \in 1..Len(q), j > i PROVE q[j].op = "save" /\ exit.due < q[j].gen
    <3>1. j + 1 \in 1..Len(saver.queue) /\ j + 1 > i + 1 /\ q[j] = saver.queue[j + 1]
      BY <1>2, <2>3
    <3> QED BY <3>1, <2>2
  <2> QED BY <2>2, <2>3
<1>e. /\ exit.step # "none" => prefs.gen # 0 /\ prefs.quitting
      /\ exit.due <= prefs.gen
      /\ exit.flushed => saver.step = "gone"
  BY <1>f DEF ExitInv
<1>6. CASE c.op = "save"
  <2> DEFINE p == Offer(saver.pending, c)
  <2>1. /\ c.gen \in Nat /\ c.value \in Prefs /\ saver.pending.gen < c.gen /\ saver.doing.gen < c.gen
        /\ SaveTrue(c.gen, c.value) /\ c.gen # 0
    BY <1>2, <1>6, <1>f
  <2>2. p \in SaveJob /\ p.gen = c.gen /\ p.value = c.value
    <3>1. ~(c.gen < saver.pending.gen)
      BY <2>1, <1>f
    <3> QED BY <3>1, <2>1 DEF Offer, SaveJob, Geometry, Standard
  <2> HIDE DEF p
  <2>3. saver' = [saver EXCEPT !.queue = q, !.pending = p]
    BY <1>3, <1>6 DEF p
  <2>4. /\ saver'.queue = q /\ saver'.doing = saver.doing /\ saver'.step = saver.step
        /\ saver'.flushing = saver.flushing /\ saver'.pending = p /\ SaverTyped'
    BY <2>2, <2>3, <1>2, <1>f DEF SaverTyped
  <2>5. FolderTyped' /\ FolderInv'
    BY <1>1, <2>4, <1>f DEF FolderTyped, FolderInv
  <2>6. QueueRising'
    <3>1. ASSUME NEW i \in 1..Len(q), q[i].op = "save"
          PROVE  c.gen < q[i].gen /\ saver.doing.gen < q[i].gen /\ SaveTrue(q[i].gen, q[i].value)
      <4>1. i + 1 \in 1..Len(saver.queue) /\ i + 1 > 1 /\ q[i] = saver.queue[i + 1]
        BY <1>2
      <4>2. c.gen < q[i].gen
        BY <4>1, <3>1, <1>2, <1>6, <1>f DEF QueueRising
      <4> QED BY <4>1, <4>2, <3>1, <1>f
    <3> QED BY <3>1, <1>1, <1>4, <2>2, <2>4 DEF QueueRising, SaveTrue
  <2>7. JobsRising'
    BY <1>1, <1>f, <2>1, <2>2, <2>4 DEF JobsRising, SaveTrue
  <2>8. OutcomeTrue'
    <3>1. prefs.outcome # "saved"
      BY <1>2, <1>6, <1>f DEF OutcomeTrue
    <3>2. NewestUnderWay => NewestUnderWay'
      <4>1. ASSUME NEW i \in 1..Len(saver.queue), saver.queue[i].op = "save", saver.queue[i].gen = prefs.gen
            PROVE  p.gen = prefs.gen \/ \E j \in 1..Len(q) : q[j].op = "save" /\ q[j].gen = prefs.gen
        BY <4>1, <1>2, <2>2
      <4>2. saver.pending.gen # prefs.gen
        BY <1>f, <2>1 DEF SaveTrue
      <4> QED BY <4>1, <4>2, <1>1, <2>4 DEF NewestUnderWay
    <3> QED BY <3>1, <3>2, <1>1, <1>f DEF OutcomeTrue
  <2>9. ExitInv'
    BY <1>1, <1>5, <1>d, <1>e, <1>f, <2>4 DEF ExitInv
  <2> QED BY <1>1, <1>2, <2>4, <2>5, <2>6, <2>7, <2>8, <2>9, SaverOnly
<1>7. CASE c.op = "flush"
  <2>1. /\ exit.step \in {"ack", "closed"}
        /\ \A j \in 1..Len(saver.queue) : j > 1 => saver.queue[j].op = "save" /\ exit.due < saver.queue[j].gen
    BY <1>2, <1>7, <1>f DEF ExitInv
  <2>2. ASSUME NEW i \in 1..Len(q)
        PROVE  /\ q[i].op = "save" /\ exit.due < q[i].gen /\ SaveTrue(q[i].gen, q[i].value)
               /\ saver.pending.gen < q[i].gen /\ saver.doing.gen < q[i].gen /\ 0 < q[i].gen
    <3>1. i + 1 \in 1..Len(saver.queue) /\ i + 1 > 1 /\ q[i] = saver.queue[i + 1]
      BY <1>2
    <3> QED BY <3>1, <2>1, <1>f, <1>d
  <2>3. \A i \in 1..Len(saver.queue) : saver.queue[i].op = "save" =>
          i - 1 \in 1..Len(q) /\ q[i - 1] = saver.queue[i]
    BY <1>2, <1>7
  <2>4. CASE Waiting
    <3>1. saver' = [[saver EXCEPT !.queue = q] EXCEPT !.step = "create", !.doing = saver.pending,
                                   !.pending = NoSave, !.flushing = TRUE]
      BY <1>3, <1>7, <2>4
    <3>2. /\ saver'.queue = q /\ saver'.doing = saver.pending /\ saver'.step = "create"
          /\ saver'.flushing = TRUE /\ saver'.pending = NoSave
      BY <3>1, <1>f DEF SaverTyped
    <3>3. SaverTyped' /\ NoSave.gen = 0 /\ saver.pending.gen # 0
      BY <3>1, <2>4, <1>2, <1>f, DefaultsTyped DEF SaverTyped, WriteSteps, Waiting
    <3>4. FolderTyped' /\ FolderInv'
      BY <1>1, <3>2, <1>f DEF FolderTyped, FolderInv
    <3>5. QueueRising'
      BY <1>1, <1>4, <2>2, <3>2, <3>3 DEF QueueRising, SaveTrue
    <3>6. JobsRising'
      BY <1>1, <1>f, <3>2, <3>3 DEF JobsRising, SaveTrue, WriteSteps
    <3>7. OutcomeTrue'
      <4>1. prefs.outcome # "saved"
        BY <1>f, <3>3 DEF OutcomeTrue
      <4>2. prefs.gen # 0 /\ NewestUnderWay => NewestUnderWay'
        BY <1>1, <1>d, <2>3, <3>2 DEF NewestUnderWay
      <4> QED BY <4>1, <4>2, <1>1, <1>f DEF OutcomeTrue
    <3>8. ExitInv'
      BY <1>1, <1>e, <2>1, <2>2, <3>2, <3>3 DEF ExitInv
    <3> QED BY <1>1, <1>2, <3>2, <3>3, <3>4, <3>5, <3>6, <3>7, <3>8, SaverOnly
  <2>5. CASE ~Waiting
    <3>1. saver' = [[saver EXCEPT !.queue = q] EXCEPT !.step = "gone", !.flushing = TRUE]
      BY <1>3, <1>7, <2>5
    <3>2. /\ saver'.queue = q /\ saver'.doing = saver.doing /\ saver'.step = "gone"
          /\ saver'.flushing = TRUE /\ saver'.pending = saver.pending /\ SaverTyped'
      BY <3>1, <1>2, <1>f DEF SaverTyped
    <3>3. saver.pending.gen = 0
      BY <2>5 DEF Waiting
    <3>4. FolderTyped' /\ FolderInv'
      BY <1>1, <3>2, <1>f DEF FolderTyped, FolderInv
    <3>5. QueueRising'
      BY <1>1, <1>4, <2>2, <3>2, <3>3 DEF QueueRising, SaveTrue
    <3>6. JobsRising'
      BY <1>1, <1>d, <1>f, <3>2, <3>3 DEF JobsRising, SaveTrue, WriteSteps
    <3>7. OutcomeTrue'
      <4>2. prefs.gen # 0 /\ NewestUnderWay => NewestUnderWay'
        BY <1>1, <1>d, <2>3, <3>2 DEF NewestUnderWay
      <4>3. prefs.outcome = "saved" => \A i \in 1..Len(q) : q[i].op # "save"
        BY <1>2, <1>f DEF OutcomeTrue
      <4> QED BY <4>2, <4>3, <1>1, <1>f, <3>2 DEF OutcomeTrue
    <3>8. ExitInv'
      BY <1>1, <1>e, <2>1, <2>2, <3>2, <3>3 DEF ExitInv
    <3> QED BY <1>1, <1>2, <3>2, <3>4, <3>5, <3>6, <3>7, <3>8, SaverOnly
  <2> QED BY <2>4, <2>5
<1> QED BY <1>2, <1>6, <1>7, <1>f

\* The end of a write: what it wrote is no longer on its way, and its outcome is
\* known, shown by a report or lost.
LEMMA CommittedKeeps ==
  ASSUME SettingsInv, NEW ok \in BOOLEAN, saver.step \in WriteSteps, Committed(ok),
         UNCHANGED <<hotkeys, exit>>, FolderTyped',
         folder'.file.synced, folder'.ours => folder'.file.kind = "v2",
         ok => folder'.file.kind = "v2" /\ folder'.file.value = saver.doing.value
  PROVE  SettingsInv'
<1> DEFINE g == saver.doing.gen
           op == IF ok THEN "saved" ELSE "failed"
           what == IF ok THEN "saved" ELSE "save"
           newest == g = prefs.gen
           o == IF newest THEN op ELSE prefs.outcome
           e == SaveReport(op, g)
           step == IF saver.flushing THEN "gone" ELSE "idle"
<1>f. /\ prefs.gen \in Nat /\ exit.due \in Nat /\ prefs.outcome \in SaveOutcomes
      /\ saver.pending.gen \in Nat /\ g \in Nat
      /\ saver.pending.gen <= prefs.gen /\ g <= prefs.gen
      /\ \A i \in 1..Len(saver.queue) :
           /\ saver.queue[i] \in SaveCommands /\ saver.queue[i].op \in {"save", "flush"}
           /\ saver.queue[i].op = "save" =>
                /\ saver.queue[i].gen \in Nat /\ saver.queue[i].value \in Prefs
                /\ saver.pending.gen < saver.queue[i].gen /\ g < saver.queue[i].gen
                /\ SaveTrue(saver.queue[i].gen, saver.queue[i].value)
      /\ SaverTyped /\ FolderTyped /\ FolderInv /\ QueueRising /\ JobsRising /\ OutcomeTrue /\ ExitInv
      /\ Len(saver.queue) <= SaveRoom
  BY LineFacts
<1>t. /\ PrefsTyped /\ HotkeysTyped /\ ActorTyped /\ ExitTyped /\ RoomKept /\ TellInv /\ KeyInv /\ SettingsTyped
  BY DEF SettingsInv, SettingsTyped
<1>i. /\ actor.inbox \in Seq(ReportShape) /\ Len(actor.inbox) \in Nat /\ Len(actor.inbox) <= ReportRoom
      /\ actor = [inbox |-> actor.inbox, posting |-> actor.posting] /\ actor.posting \in BOOLEAN
      /\ \A i \in 1..Len(actor.inbox) : actor.inbox[i] \in ReportShape
  BY <1>t, ActorFields DEF RoomKept, ActorTyped
<1>s. saver' = [saver EXCEPT !.step = step, !.doing = NoSave,
                             !.committed = IF ok THEN saver.doing.value ELSE @,
                             !.has_committed = @ \/ ok]
  BY DEF Committed
<1>p. prefs' = [prefs EXCEPT !.outcome = o]
  BY DEF Committed
<1>a. /\ actor' = Reported(actor, e)
      /\ unsaid' = IF newest THEN unsaid \cup Dropped(actor, what) ELSE unsaid
  BY DEF Committed
<1>m. e \in ReportShape /\ e.op = op /\ e.gen = g
  <2>1. op \in {"saved", "failed", "closed", "hotkey"}
    OBVIOUS
  <2> QED BY <2>1, <1>f, SaveReportMade
<1>o. /\ op \in {"saved", "failed"} /\ (op = "saved" <=> ok)
      /\ what = (IF op = "saved" THEN "saved" ELSE "save") /\ what \in {"save", "saved"}
      /\ newest => o = op
      /\ ~newest => o = prefs.outcome
      /\ step \in {"gone", "idle"} /\ (step = "gone" <=> saver.flushing)
  BY <1>f, SaverFields
<1> HIDE DEF op, what, e, o, step
<1>v. /\ saver'.queue = saver.queue /\ saver'.pending = saver.pending /\ saver'.doing = NoSave
      /\ saver'.step = step /\ saver'.flushing = saver.flushing /\ SaverTyped'
  <2>1. saver.doing.value \in Prefs /\ NoSave \in SaveJob
    BY <1>f, SaverFields, DefaultsTyped
  <2> QED BY <1>s, <1>o, <1>f, <2>1 DEF SaverTyped
<1>w. /\ prefs'.value = prefs.value /\ prefs'.notice = prefs.notice /\ prefs'.gen = prefs.gen
      /\ prefs'.hotkey_gen = prefs.hotkey_gen
      /\ prefs'.quitting = prefs.quitting /\ prefs'.outcome = o /\ PrefsTyped'
  <2>1. o \in SaveOutcomes
    BY <1>o, <1>f DEF SaveOutcomes
  <2> QED BY <1>t, <1>p, <2>1 DEF PrefsTyped
<1>b. /\ actor' = [inbox |-> actor'.inbox, posting |-> actor.posting] /\ actor'.posting = actor.posting
      /\ actor'.inbox \in Seq(ReportShape) /\ Len(actor'.inbox) <= ReportRoom
      /\ \A i \in 1..Len(actor.inbox) : i \in 1..Len(actor'.inbox) /\ actor'.inbox[i] = actor.inbox[i]
      /\ \A i \in 1..Len(actor'.inbox) : i \in 1..Len(actor.inbox) \/ actor'.inbox[i] = e
      /\ unsaid \subseteq unsaid' /\ unsaid' \subseteq unsaid \cup {what}
      /\ newest /\ what \notin unsaid' => \E i \in 1..Len(actor'.inbox) : actor'.inbox[i] = e
  <2>1. Grown(actor, actor', e) /\ Lost(actor, actor', e, what)
    BY <1>a, <1>i, <1>m, ReportedTo
  <2>2. /\ unsaid \subseteq unsaid' /\ unsaid' \subseteq unsaid \cup {what}
        /\ newest /\ what \notin unsaid' => \E i \in 1..Len(actor'.inbox) : actor'.inbox[i] = e
    BY <1>a, <2>1 DEF Lost, Dropped
  <2> QED BY <1>i, <2>1, <2>2 DEF Grown
<1>d. g # 0 /\ NoSave.gen = 0 /\ ~exit.flushed
  BY <1>f, DefaultsTyped DEF JobsRising, ExitInv, WriteSteps
<1>n. newest => /\ saver.pending.gen = 0 /\ saver.doing.value = prefs.value /\ prefs.outcome = "none"
                /\ \A i \in 1..Len(saver.queue) : saver.queue[i].op # "save"
  <2> SUFFICES ASSUME newest
               PROVE  /\ saver.pending.gen = 0 /\ saver.doing.value = prefs.value /\ prefs.outcome = "none"
                      /\ \A i \in 1..Len(saver.queue) : saver.queue[i].op # "save"
    OBVIOUS
  <2>1. saver.pending.gen = 0 /\ saver.doing.value = prefs.value /\ prefs.outcome = "none"
    BY <1>d, <1>f DEF JobsRising, SaveTrue
  <2>2. ASSUME NEW i \in 1..Len(saver.queue), saver.queue[i].op = "save" PROVE FALSE
    <3>1. saver.queue[i].gen \in Nat /\ g < saver.queue[i].gen /\ saver.queue[i].gen <= prefs.gen
      BY <2>2, <1>f DEF SaveTrue
    <3> QED BY <3>1, <1>f
  <2> QED BY <2>1, <2>2
<1> HIDE DEF newest, g
<1>1. SettingsTyped'
  <2>1. HotkeysTyped' /\ ExitTyped'
    BY <1>t DEF HotkeysTyped, ExitTyped
  <2>2. ActorTyped' /\ RoomKept'
    BY <1>t, <1>f, <1>b, <1>o, <1>i, <1>v DEF ActorTyped, RoomKept
  <2> QED BY <2>1, <2>2, <1>v, <1>w DEF SettingsTyped
<1>2. FolderInv'
  BY <1>v, <1>o DEF FolderInv
<1>3. QueueRising'
  <2>1. ASSUME NEW i \in 1..Len(saver.queue), saver.queue[i].op = "save"
        PROVE  /\ saver.pending.gen < saver.queue[i].gen /\ 0 < saver.queue[i].gen
               /\ saver.queue[i].gen <= prefs.gen
               /\ saver.queue[i].gen = prefs.gen => saver.queue[i].value = prefs.value /\ o = "none"
    <3>1. ~newest /\ o = prefs.outcome
      BY <1>n, <2>1, <1>o
    <3> QED BY <3>1, <2>1, <1>f DEF SaveTrue
  <2>2. \A i, j \in 1..Len(saver.queue) :
          i < j /\ saver.queue[i].op = "save" /\ saver.queue[j].op = "save" =>
            saver.queue[i].gen < saver.queue[j].gen
    BY <1>f DEF QueueRising
  <2> QED BY <2>1, <2>2, <1>v, <1>w, <1>d DEF QueueRising, SaveTrue
<1>4. JobsRising'
  <2>1. saver.pending.gen # 0 => 0 < saver.pending.gen /\ ~newest /\ o = prefs.outcome
    BY <1>f, <1>n, <1>o
  <2>2. SaveTrue(saver.pending.gen, saver.pending.value)
    BY <1>f DEF JobsRising
  <2>3. 0 <= prefs.gen /\ step \notin WriteSteps
    BY <1>f, <1>o DEF WriteSteps
  <2> QED BY <2>1, <2>2, <2>3, <1>d, <1>f, <1>v, <1>w DEF JobsRising, SaveTrue
<1>5. OutcomeTrue'
  <2>1. CASE newest
    <3>1. prefs.gen # 0 /\ o = op
      BY <2>1, <1>d, <1>o DEF newest
    <3>2. op = "saved" => folder'.file.kind = "v2" /\ folder'.file.value = prefs.value
      BY <2>1, <1>n, <1>o
    <3> QED BY <2>1, <3>1, <3>2, <1>n, <1>o, <1>d, <1>v, <1>w DEF OutcomeTrue
  <2>2. CASE ~newest
    <3>1. o = prefs.outcome /\ prefs.outcome # "saved"
      BY <2>2, <1>o, <1>d, <1>f DEF OutcomeTrue, g
    <3>2. prefs.outcome = "none" /\ prefs.gen # 0 =>
            \/ saver.pending.gen = prefs.gen
            \/ \E i \in 1..Len(saver.queue) : saver.queue[i].op = "save" /\ saver.queue[i].gen = prefs.gen
      BY <2>2, <1>f DEF OutcomeTrue, NewestUnderWay, newest, g
    <3>3. prefs.outcome # "none" => prefs.gen # 0
      BY <1>f DEF OutcomeTrue
    <3> QED BY <3>1, <3>2, <3>3, <1>v, <1>w DEF OutcomeTrue, NewestUnderWay
  <2> QED BY <2>1, <2>2
<1>6. TellInv'
  <2>1. ASSUME NEW i \in 1..Len(actor'.inbox), actor'.inbox[i].op \in {"saved", "failed"}
        PROVE  actor'.inbox[i].gen <= prefs.gen /\ (actor'.inbox[i].gen = prefs.gen => o = actor'.inbox[i].op)
    <3>1. CASE i \in 1..Len(actor.inbox)
      <4>1. /\ actor.inbox[i].gen <= prefs.gen
            /\ actor.inbox[i].gen = prefs.gen => prefs.outcome = actor.inbox[i].op
        BY <2>1, <3>1, <1>b, <1>t DEF TellInv, ReportTrue
      <4> QED BY <2>1, <3>1, <4>1, <1>b, <1>n, <1>o
    <3>2. CASE actor'.inbox[i] = e
      BY <3>2, <1>m, <1>o, <1>f DEF newest
    <3> QED BY <3>1, <3>2, <1>b
  <2>2. \A p : ToBeTold(p) => ToBeTold(p)'
    BY <1>b, <1>w DEF ToBeTold
  <2>3. newest /\ what \notin unsaid' => ToBeTold(op)'
    <3> SUFFICES ASSUME newest, what \notin unsaid' PROVE ToBeTold(op)'
      OBVIOUS
    <3>1. PICK i \in 1..Len(actor'.inbox) : actor'.inbox[i] = e
      BY <1>b
    <3>2. actor'.inbox[i].op = op /\ actor'.inbox[i].gen = prefs'.gen
      BY <3>1, <1>m, <1>w DEF newest
    <3> QED BY <3>2 DEF ToBeTold
  <2>4. o = "failed" /\ "save" \notin unsaid' => prefs.notice = "persist" \/ ToBeTold("failed")'
    <3>1. CASE newest
      BY <3>1, <2>3, <1>o
    <3>2. CASE ~newest
      BY <3>2, <2>2, <1>o, <1>b, <1>t DEF TellInv
    <3> QED BY <3>1, <3>2
  <2>5. o = "saved" /\ prefs.notice = "persist" /\ "saved" \notin unsaid' => ToBeTold("saved")'
    <3>1. CASE newest
      BY <3>1, <2>3, <1>o
    <3>2. CASE ~newest
      BY <3>2, <2>2, <1>o, <1>b, <1>t DEF TellInv
    <3> QED BY <3>1, <3>2
  <2>6. prefs.notice = "persist" => prefs.gen # 0
    BY <1>t DEF TellInv
  <2> QED BY <2>1, <2>4, <2>5, <2>6, <1>w DEF TellInv, ReportTrue
<1>7. ExitInv'
  <2>1. saver.flushing => step # "idle"
    BY <1>o
  <2> QED BY <2>1, <1>d, <1>f, <1>o, <1>v, <1>w DEF ExitInv
<1>8. KeyInv'
  <2>1. \A i \in 1..Len(actor'.inbox) : actor'.inbox[i].op = "hotkey" =>
          \E j \in 1..Len(actor.inbox) : actor'.inbox[i] = actor.inbox[j]
    BY <1>b, <1>m, <1>o
  <2>2. "key" \in unsaid => "key" \in unsaid'
    BY <1>b
  <2>3. KeyMid(prefs.value.hotkey, actor.inbox, unsaid')
    BY <2>2, <1>t, OwnKeys
  <2>4. KeyMid(prefs'.value.hotkey, actor'.inbox, unsaid')
    BY <2>3, <1>b, <1>w DEF KeyMid
  <2> QED BY <2>1, <2>4, <1>b, <1>w, <1>t, KeysAside
<1> QED BY <1>1, <1>2, <1>3, <1>4, <1>5, <1>6, <1>7, <1>8 DEF SettingsInv, LineInv

LEMMA FailsKeeps == SettingsInv /\ WriteFails => SettingsInv'
<1> SUFFICES ASSUME SettingsInv, WriteFails PROVE SettingsInv'
  OBVIOUS
<1>f. FolderTyped /\ FolderInv
  BY LineFacts
<1> DEFINE tmp == CASE saver.step = "create" -> folder.tmp
                    [] saver.step = "move" -> NoFile
                    [] OTHER -> [folder.tmp EXCEPT !.kind = "corrupt"]
<1>1. /\ folder' = [folder EXCEPT !.tmp = tmp] /\ Committed(FALSE) /\ UNCHANGED <<hotkeys, exit>>
      /\ saver.step \in WriteSteps
  BY DEF WriteFails, WriteSteps
<1>2. folder.tmp \in SettingsFileShape /\ NoFile \in SettingsFileShape
  BY <1>f, DefaultsTyped DEF FolderTyped
<1>3. [folder.tmp EXCEPT !.kind = "corrupt"] \in SettingsFileShape
  BY <1>2 DEF SettingsFileShape, Kinds
<1>4. tmp \in SettingsFileShape
  BY <1>2, <1>3
<1> HIDE DEF tmp
<1>5. folder'.file = folder.file /\ folder'.ours = folder.ours /\ FolderTyped'
  BY <1>1, <1>4, <1>f DEF FolderTyped
<1>6. folder'.file.synced /\ (folder'.ours => folder'.file.kind = "v2") /\ FALSE \in BOOLEAN
  BY <1>5, <1>f DEF FolderInv
<1> QED BY <1>1, <1>5, <1>6, CommittedKeeps

LEMMA MoveKeeps == SettingsInv /\ Move => SettingsInv'
<1> SUFFICES ASSUME SettingsInv, Move PROVE SettingsInv'
  OBVIOUS
<1>f. FolderTyped /\ FolderInv
  BY LineFacts
<1>1. /\ folder' = [folder EXCEPT !.file = folder.tmp, !.tmp = NoFile, !.ours = TRUE]
      /\ Committed(TRUE) /\ UNCHANGED <<hotkeys, exit>> /\ saver.step \in WriteSteps /\ saver.step = "move"
  BY DEF Move, WriteSteps
<1>2. folder.tmp \in SettingsFileShape /\ NoFile \in SettingsFileShape
  BY <1>f, DefaultsTyped DEF FolderTyped
<1>3. folder'.file = folder.tmp /\ FolderTyped'
  BY <1>1, <1>2, <1>f DEF FolderTyped
<1>4. /\ folder.tmp.kind = "v2" /\ folder.tmp.value = saver.doing.value /\ folder.tmp.synced
  BY <1>1, <1>f DEF FolderInv
<1>5. folder'.file.synced /\ folder'.file.kind = "v2" /\ folder'.file.value = saver.doing.value
      /\ TRUE \in BOOLEAN
  BY <1>3, <1>4
<1> QED BY <1>1, <1>3, <1>5, CommittedKeeps

-----------------------------------------------------------------------------
(* The hotkey thread.                                                      *)

\* A step that only the thread and the actor's queue take part in.
LEMMA KeysOnly ==
  ASSUME SettingsInv, UNCHANGED <<prefs, saver, folder, exit>>,
         HotkeysTyped', ActorTyped', RoomKept', TellInv', KeyInv'
  PROVE  SettingsInv'
<1>t. /\ PrefsTyped /\ SaverTyped /\ FolderTyped /\ ExitTyped /\ FolderInv /\ LineInv /\ ExitInv
  BY DEF SettingsInv, SettingsTyped
<1>1. SettingsTyped'
  BY <1>t DEF SettingsTyped, PrefsTyped, SaverTyped, FolderTyped, ExitTyped
<1>2. FolderInv' /\ LineInv' /\ ExitInv'
  BY <1>t, SavesAside
<1> QED BY <1>1, <1>2 DEF SettingsInv

LEMMA ThreadFacts ==
  ASSUME SettingsInv
  PROVE  /\ HotkeysTyped /\ ActorTyped /\ RoomKept /\ TellInv /\ KeyInv
         /\ ChordHeld /\ KeysRising /\ AnswerTrue /\ KeyShown /\ NoLostWake
         /\ prefs.hotkey_gen \in Nat
BY PrefsFields DEF SettingsInv, SettingsTyped, KeyInv

\* HotkeyEngine::apply: what it holds is what Windows has registered.
LEMMA RegisteredHolds ==
  ASSUME HotkeysTyped, NEW w \in Bindings, NEW taken, NEW r, r = Registered(hotkeys, w, taken)
  PROVE  /\ r.applied \in Bindings /\ r.live \in Chords \cup {0} /\ r.failed \in BOOLEAN
         /\ r.applied.on => r.live = r.applied.chord
         /\ r.live \in {0, r.applied.chord}
<1>1. hotkeys.applied \in Bindings
  BY HotkeysFields
<1>2. /\ w.on \in BOOLEAN /\ w.chord \in Chords /\ hotkeys.applied.on \in BOOLEAN
      /\ hotkeys.applied.chord \in Chords
  BY <1>1 DEF Bindings
<1> DEFINE off == [hotkeys.applied EXCEPT !.on = FALSE]
<1>3. off \in Bindings /\ off.on = FALSE
  BY <1>1 DEF Bindings
<1> HIDE DEF off
<1>4. CASE ~w.on
  <2>1. r = [applied |-> w, live |-> 0, failed |-> FALSE]
    BY <1>4 DEF Registered
  <2> QED BY <2>1, <1>2, <1>4
<1>5. CASE w.on /\ w.chord \notin taken
  <2>1. r = [applied |-> w, live |-> w.chord, failed |-> FALSE]
    BY <1>5 DEF Registered
  <2> QED BY <2>1, <1>2, <1>5
<1>6. CASE w.on /\ w.chord \in taken
  <2>1. r = [applied |-> IF hotkeys.applied.chord \notin taken THEN hotkeys.applied ELSE off,
             live |-> IF hotkeys.applied.chord \notin taken THEN hotkeys.applied.chord ELSE 0,
             failed |-> TRUE]
    BY <1>6 DEF Registered, off
  <2>2. CASE hotkeys.applied.chord \notin taken
    BY <2>1, <2>2, <1>1, <1>2
  <2>3. CASE hotkeys.applied.chord \in taken
    BY <2>1, <2>3, <1>1, <1>2, <1>3
  <2> QED BY <2>2, <2>3
<1> QED BY <1>2, <1>4, <1>5, <1>6

\* The commands without the first one.
LEMMA CommandsRest ==
  ASSUME HotkeysTyped, RoomKept, hotkeys.queue # <<>>, NEW q, q = Tail(hotkeys.queue)
  PROVE  /\ q \in Seq(KeyCommands) /\ Len(q) <= KeyRoom
         /\ Head(hotkeys.queue) = hotkeys.queue[1] /\ 1 \in 1..Len(hotkeys.queue)
         /\ \A i \in 1..Len(q) : i + 1 \in 1..Len(hotkeys.queue) /\ i + 1 > 1 /\ q[i] = hotkeys.queue[i + 1]
         /\ \A i, j \in 1..Len(q) : (i < j) => (i + 1 < j + 1)
         /\ \A i \in 1..Len(hotkeys.queue) : i = 1 \/ (i - 1 \in 1..Len(q) /\ q[i - 1] = hotkeys.queue[i])
<1>1. hotkeys.queue \in Seq(KeyCommands) /\ KeyRoom \in Nat /\ Len(hotkeys.queue) <= KeyRoom
  BY HotkeysFields, SettingsAssumption DEF RoomKept
<1>2. /\ q \in Seq(KeyCommands) /\ Len(hotkeys.queue) \in Nat /\ Len(hotkeys.queue) >= 1
      /\ Len(q) = Len(hotkeys.queue) - 1 /\ Head(hotkeys.queue) = hotkeys.queue[1]
      /\ \A i \in 1..(Len(hotkeys.queue) - 1) : q[i] = hotkeys.queue[i + 1]
  BY <1>1, QueueTail
<1> QED BY <1>1, <1>2

LEMMA StartKeeps == SettingsInv /\ KeysStart => SettingsInv'
<1> SUFFICES ASSUME SettingsInv, KeysStart PROVE SettingsInv'
  OBVIOUS
<1>f. /\ HotkeysTyped /\ ActorTyped /\ RoomKept /\ TellInv /\ KeyInv
      /\ ChordHeld /\ KeysRising /\ AnswerTrue /\ KeyShown /\ NoLostWake
      /\ hotkeys.applied \in Bindings
  BY ThreadFacts, HotkeysFields
<1>1. PICK taken \in Clashes :
        LET r == Registered(hotkeys, hotkeys.applied, taken)
        IN  /\ hotkeys' = [hotkeys EXCEPT !.at = "drain", !.applied = r.applied, !.live = r.live]
            /\ unsaid' = IF r.applied = hotkeys.applied THEN unsaid ELSE unsaid \cup {"key"}
            /\ Spend(taken)
  BY DEF KeysStart
<1> DEFINE r == Registered(hotkeys, hotkeys.applied, taken)
<1>2. /\ hotkeys' = [hotkeys EXCEPT !.at = "drain", !.applied = r.applied, !.live = r.live]
      /\ unsaid' = IF r.applied = hotkeys.applied THEN unsaid ELSE unsaid \cup {"key"}
      /\ hotkeys.at = "start" /\ UNCHANGED <<prefs, saver, folder, actor, exit>>
  BY <1>1 DEF KeysStart
<1>3. /\ r.applied \in Bindings /\ r.live \in Chords \cup {0}
      /\ r.applied.on => r.live = r.applied.chord
      /\ r.live \in {0, r.applied.chord}
  BY <1>f, RegisteredHolds
<1> HIDE DEF r
<1>4. /\ hotkeys'.queue = hotkeys.queue /\ hotkeys'.posts = hotkeys.posts /\ hotkeys'.at = "drain"
      /\ hotkeys'.applied = r.applied /\ hotkeys'.live = r.live /\ HotkeysTyped'
  BY <1>2, <1>3, <1>f DEF HotkeysTyped
<1>5. ActorTyped' /\ RoomKept'
  BY <1>2, <1>4, <1>f DEF ActorTyped, RoomKept
<1>6. TellInv'
  BY <1>2, <1>f DEF TellInv, ReportTrue, ToBeTold
<1>7. ChordHeld' /\ NoLostWake'
  BY <1>3, <1>4 DEF ChordHeld, NoLostWake
<1>8. \A i \in 1..Len(actor.inbox) : actor.inbox[i].op # "hotkey"
  BY <1>2, <1>f DEF KeysRising
<1>9. KeysRising' /\ AnswerTrue'
  BY <1>2, <1>4, <1>8, <1>f DEF KeysRising, AnswerTrue, Answered
<1>10. KeyShown'
  <2>1. "key" \notin unsaid' => "key" \notin unsaid /\ r.applied = hotkeys.applied
    BY <1>2
  <2> QED BY <2>1, <1>2, <1>4, <1>8, <1>f DEF KeyShown, NoCommand, Answered
<1> QED BY <1>2, <1>4, <1>5, <1>6, <1>7, <1>9, <1>10, KeysOnly DEF KeyInv

\* The thread ends: nothing is registered any more.
LEMMA EndKeeps ==
  ASSUME SettingsInv, UNCHANGED <<prefs, saver, folder, actor, exit, unsaid>>,
         NEW q \in Seq(KeyCommands), Len(q) <= KeyRoom, NEW p \in Seq({"configure", "shutdown"}),
         q = hotkeys.queue \/ (hotkeys.queue # <<>> /\ q = Tail(hotkeys.queue)),
         hotkeys.at # "start",
         hotkeys' = KeysEnd([hotkeys EXCEPT !.queue = q, !.posts = p])
  PROVE  SettingsInv'
<1>f. /\ HotkeysTyped /\ ActorTyped /\ RoomKept /\ TellInv /\ KeyInv
      /\ ChordHeld /\ KeysRising /\ AnswerTrue /\ KeyShown /\ NoLostWake
      /\ hotkeys.applied \in Bindings
  BY ThreadFacts, HotkeysFields
<1> DEFINE k == [hotkeys EXCEPT !.queue = q, !.posts = p]
           b == [hotkeys.applied EXCEPT !.on = FALSE]
<1>1. /\ k.applied = hotkeys.applied
      /\ k \in [queue : Seq(KeyCommands), posts : Seq({"configure", "shutdown"}),
               at : {"start", "drain", "wait", "done"}, applied : Bindings,
               live : Chords \cup {0}]
      /\ k.queue = q /\ k.posts = p
  BY <1>f DEF HotkeysTyped
<1>2. b \in Bindings /\ b.on = FALSE
  BY <1>f DEF Bindings
<1>3. hotkeys' = [k EXCEPT !.at = "done", !.live = 0, !.applied = b]
  BY <1>1 DEF KeysEnd
<1> HIDE DEF k, b
<1>4. /\ hotkeys'.queue = q /\ hotkeys'.at = "done" /\ hotkeys'.applied = b /\ hotkeys'.live = 0
      /\ HotkeysTyped'
  BY <1>1, <1>2, <1>3 DEF HotkeysTyped
<1>5. ActorTyped' /\ RoomKept'
  BY <1>4, <1>f DEF ActorTyped, RoomKept
<1>6. TellInv'
  BY <1>f DEF TellInv, ReportTrue, ToBeTold
<1>7. ChordHeld' /\ NoLostWake' /\ AnswerTrue' /\ KeyShown'
  BY <1>2, <1>4 DEF ChordHeld, NoLostWake, AnswerTrue, KeyShown
<1>8. KeysRising'
  <2>1. CASE q = hotkeys.queue
    BY <2>1, <1>4, <1>f DEF KeysRising
  <2>2. CASE hotkeys.queue # <<>> /\ q = Tail(hotkeys.queue)
    <3>1. /\ \A i \in 1..Len(q) : i + 1 \in 1..Len(hotkeys.queue) /\ q[i] = hotkeys.queue[i + 1]
          /\ \A i, j \in 1..Len(q) : (i < j) => (i + 1 < j + 1)
      BY <2>2, <1>f, CommandsRest
    <3>2. \A i \in 1..Len(q) : q[i].op = "configure" => q[i].gen <= prefs.hotkey_gen
      BY <3>1, <1>f DEF KeysRising
    <3>3. ASSUME NEW i \in 1..Len(q), NEW j \in 1..Len(q), i < j, q[i].op = "configure", q[j].op = "configure"
          PROVE  q[i].gen < q[j].gen
      BY <3>1, <3>3, <1>f DEF KeysRising
    <3>4. \A i \in 1..Len(actor.inbox) : actor.inbox[i].op = "hotkey" =>
            actor.inbox[i].gen <= prefs.hotkey_gen
      BY <1>f DEF KeysRising
    <3> QED BY <3>2, <3>3, <3>4, <1>4 DEF KeysRising
  <2> QED BY <2>1, <2>2
<1> QED BY <1>4, <1>5, <1>6, <1>7, <1>8, KeysOnly DEF KeyInv

LEMMA DrainKeeps == SettingsInv /\ KeysDrain => SettingsInv'
<1> SUFFICES ASSUME SettingsInv, KeysDrain PROVE SettingsInv'
  OBVIOUS
<1>f. /\ HotkeysTyped /\ ActorTyped /\ RoomKept /\ TellInv /\ KeyInv
      /\ ChordHeld /\ KeysRising /\ AnswerTrue /\ KeyShown /\ NoLostWake
      /\ prefs.hotkey_gen \in Nat
  BY ThreadFacts
<1> DEFINE c == Head(hotkeys.queue)
           q == Tail(hotkeys.queue)
           rest == [hotkeys EXCEPT !.queue = q]
<1>1. /\ hotkeys.at = "drain" /\ hotkeys.queue # <<>> /\ UNCHANGED <<prefs, saver, folder, exit>>
  BY DEF KeysDrain
<1>2. /\ q \in Seq(KeyCommands) /\ Len(q) <= KeyRoom
      /\ c = hotkeys.queue[1] /\ 1 \in 1..Len(hotkeys.queue)
      /\ \A i \in 1..Len(q) : i + 1 \in 1..Len(hotkeys.queue) /\ i + 1 > 1 /\ q[i] = hotkeys.queue[i + 1]
      /\ \A i, j \in 1..Len(q) : (i < j) => (i + 1 < j + 1)
      /\ \A i \in 1..Len(hotkeys.queue) : i = 1 \/ (i - 1 \in 1..Len(q) /\ q[i - 1] = hotkeys.queue[i])
  BY <1>1, <1>f, CommandsRest
<1>3. CASE c.op = "shutdown" /\ hotkeys' = KeysEnd(rest) /\ UNCHANGED <<actor, unsaid, used>>
  <2>1. rest = [hotkeys EXCEPT !.queue = q, !.posts = hotkeys.posts]
    BY <1>f DEF HotkeysTyped
  <2>2. hotkeys.posts \in Seq({"configure", "shutdown"})
    BY <1>f, HotkeysFields
  <2> HIDE DEF rest
  <2>3. hotkeys' = KeysEnd([hotkeys EXCEPT !.queue = q, !.posts = hotkeys.posts])
    BY <1>3, <2>1
  <2>4. q = hotkeys.queue \/ (hotkeys.queue # <<>> /\ q = Tail(hotkeys.queue))
    BY <1>1
  <2> HIDE DEF q
  <2> QED BY <1>1, <1>2, <1>3, <2>2, <2>3, <2>4, EndKeeps
<1>4. ASSUME c.op = "configure", NEW taken \in Clashes,
             LET r == Registered(hotkeys, c.value, taken)
             IN  /\ hotkeys' = [rest EXCEPT !.applied = r.applied, !.live = r.live]
                 /\ actor' = Reported(actor, Report("hotkey", c.gen, r.applied, r.failed))
                 /\ unsaid' = unsaid \cup Dropped(actor, "key")
                 /\ Spend(taken)
      PROVE  SettingsInv'
  <2> DEFINE r == Registered(hotkeys, c.value, taken)
             e == Report("hotkey", c.gen, r.applied, r.failed)
  <2>1. /\ hotkeys' = [rest EXCEPT !.applied = r.applied, !.live = r.live]
        /\ actor' = Reported(actor, e) /\ unsaid' = unsaid \cup Dropped(actor, "key")
    BY <1>4
  <2>2. c.gen \in Nat /\ c.value \in Bindings /\ c.gen <= prefs.hotkey_gen
    BY <1>2, <1>4, <1>f, HotkeysFields DEF KeysRising
  <2>3. /\ r.applied \in Bindings /\ r.live \in Chords \cup {0} /\ r.failed \in BOOLEAN
        /\ r.applied.on => r.live = r.applied.chord
        /\ r.live \in {0, r.applied.chord}
    BY <2>2, <1>f, RegisteredHolds
  <2>4. hotkeys' = [hotkeys EXCEPT !.queue = q, !.applied = r.applied, !.live = r.live]
    BY <2>1
  <2> HIDE DEF r, rest
  <2>5. /\ hotkeys'.queue = q /\ hotkeys'.posts = hotkeys.posts /\ hotkeys'.at = "drain"
        /\ hotkeys'.applied = r.applied /\ hotkeys'.live = r.live /\ HotkeysTyped'
    BY <2>3, <2>4, <1>1, <1>2, <1>f DEF HotkeysTyped
  <2>6. e \in ReportShape /\ e.op = "hotkey" /\ e.gen = c.gen /\ e.applied = r.applied
    <3>1. "hotkey" \in {"saved", "failed", "closed", "hotkey"}
      OBVIOUS
    <3> QED BY <3>1, <2>2, <2>3, ReportMade
  <2> HIDE DEF e
  <2>i. /\ actor.inbox \in Seq(ReportShape) /\ Len(actor.inbox) \in Nat /\ Len(actor.inbox) <= ReportRoom
        /\ actor = [inbox |-> actor.inbox, posting |-> actor.posting] /\ actor.posting \in BOOLEAN
        /\ \A i \in 1..Len(actor.inbox) : actor.inbox[i] \in ReportShape
    BY <1>f, ActorFields DEF RoomKept, ActorTyped
  <2>7. /\ actor' = [inbox |-> actor'.inbox, posting |-> actor.posting] /\ actor'.posting = actor.posting
        /\ actor'.inbox \in Seq(ReportShape) /\ Len(actor'.inbox) <= ReportRoom
        /\ \A i \in 1..Len(actor.inbox) : i \in 1..Len(actor'.inbox) /\ actor'.inbox[i] = actor.inbox[i]
        /\ \A i \in 1..Len(actor'.inbox) : i \in 1..Len(actor.inbox) \/ actor'.inbox[i] = e
        /\ unsaid \subseteq unsaid' /\ unsaid' \subseteq unsaid \cup {"key"}
        /\ "key" \notin unsaid' => \E i \in 1..Len(actor'.inbox) : actor'.inbox[i] = e
    <3>1. Grown(actor, actor', e) /\ Lost(actor, actor', e, "key")
      BY <2>1, <2>i, <2>6, ReportedTo
    <3>2. /\ unsaid \subseteq unsaid' /\ unsaid' \subseteq unsaid \cup {"key"}
          /\ "key" \notin unsaid' => \E i \in 1..Len(actor'.inbox) : actor'.inbox[i] = e
      BY <2>1, <3>1 DEF Lost, Dropped
    <3> QED BY <2>i, <3>1, <3>2 DEF Grown
  <2> HIDE DEF c, q
  <2>8. ActorTyped' /\ RoomKept'
    BY <1>1, <1>2, <2>5, <2>7, <2>i, <1>f DEF ActorTyped, RoomKept
  <2>9. TellInv'
    <3>1. ASSUME NEW i \in 1..Len(actor'.inbox), actor'.inbox[i].op \in {"saved", "failed"}
          PROVE  /\ actor'.inbox[i].gen <= prefs.gen
                 /\ actor'.inbox[i].gen = prefs.gen => prefs.outcome = actor'.inbox[i].op
      <4>1. i \in 1..Len(actor.inbox) /\ actor'.inbox[i] = actor.inbox[i]
        BY <3>1, <2>7, <2>6
      <4> QED BY <4>1, <3>1, <1>f DEF TellInv, ReportTrue
    <3>2. \A op : ToBeTold(op) => ToBeTold(op)'
      BY <2>7, <1>1 DEF ToBeTold
    <3> QED BY <3>1, <3>2, <1>1, <1>f, <2>7 DEF TellInv, ReportTrue
  <2>10. ChordHeld' /\ NoLostWake'
    BY <2>3, <2>5 DEF ChordHeld, NoLostWake
  <2>11. \A i \in 1..Len(q) : q[i].op = "configure" =>
           c.gen < q[i].gen /\ q[i].gen <= prefs.hotkey_gen /\ q[i].gen \in Nat
    <3> SUFFICES ASSUME NEW i \in 1..Len(q), q[i].op = "configure"
                 PROVE  c.gen < q[i].gen /\ q[i].gen <= prefs.hotkey_gen /\ q[i].gen \in Nat
      OBVIOUS
    <3>1. i + 1 \in 1..Len(hotkeys.queue) /\ i + 1 > 1 /\ q[i] = hotkeys.queue[i + 1]
      BY <1>2
    <3>2. hotkeys.queue[i + 1].gen \in Nat /\ hotkeys.queue[i + 1].gen <= prefs.hotkey_gen
      BY <3>1, <1>f, HotkeysFields DEF KeysRising
    <3>3. hotkeys.queue[1].gen < hotkeys.queue[i + 1].gen
      BY <3>1, <1>2, <1>4, <1>f DEF KeysRising
    <3> QED BY <3>1, <3>2, <3>3, <1>2
  <2>12. KeysRising'
    <3>1. ASSUME NEW i \in 1..Len(q), NEW j \in 1..Len(q), i < j, q[i].op = "configure", q[j].op = "configure"
          PROVE  q[i].gen < q[j].gen
      <4>1. /\ i + 1 \in 1..Len(hotkeys.queue) /\ j + 1 \in 1..Len(hotkeys.queue) /\ i + 1 < j + 1
            /\ q[i] = hotkeys.queue[i + 1] /\ q[j] = hotkeys.queue[j + 1]
        BY <3>1, <1>2
      <4>2. KeysRising
        BY <1>f
      <4> QED BY ONLY <3>1, <4>1, <4>2 DEF KeysRising
    <3>2. ASSUME NEW i \in 1..Len(actor'.inbox), actor'.inbox[i].op = "hotkey"
          PROVE  actor'.inbox[i].gen <= prefs.hotkey_gen
      <4>1. CASE i \in 1..Len(actor.inbox)
        BY <3>2, <4>1, <2>7, <1>f DEF KeysRising
      <4>2. CASE actor'.inbox[i] = e
        BY <4>2, <2>6, <2>2
      <4> QED BY <4>1, <4>2, <2>7
    <3> QED BY <3>1, <3>2, <2>11, <2>5, <1>1 DEF KeysRising
  <2>13. AnswerTrue'
    <3> SUFFICES ASSUME NEW i \in 1..Len(actor'.inbox), actor'.inbox[i].op = "hotkey",
                        actor'.inbox[i].gen = prefs.hotkey_gen
                 PROVE  /\ \A j \in 1..Len(q) : q[j].op # "configure"
                        /\ actor'.inbox[i].applied = r.applied
      BY <2>5, <1>1 DEF AnswerTrue, Answered, NoCommand
    <3>1. i \notin 1..Len(actor.inbox)
      <4> SUFFICES ASSUME i \in 1..Len(actor.inbox) PROVE FALSE
        OBVIOUS
      <4>1. Answered(i)
        BY <2>7 DEF Answered
      <4>2. NoCommand
        BY <4>1, <1>1, <1>f DEF AnswerTrue
      <4> QED BY <4>2, <1>2, <1>4 DEF NoCommand
    <3>2. actor'.inbox[i] = e /\ c.gen = prefs.hotkey_gen
      BY <3>1, <2>7, <2>6
    <3>3. \A j \in 1..Len(q) : q[j].op # "configure"
      BY <3>2, <2>11, <2>2
    <3> QED BY <3>2, <3>3, <2>6
  <2>14. KeyShown'
    <3> SUFFICES ASSUME "key" \notin unsaid'
                 PROVE  \/ \E i \in 1..Len(q) : q[i].op = "configure" /\ q[i].gen = prefs.hotkey_gen
                        \/ \E i \in 1..Len(actor'.inbox) :
                             actor'.inbox[i].op = "hotkey" /\ actor'.inbox[i].gen = prefs.hotkey_gen
      BY <2>5, <1>1 DEF KeyShown, Answered
    <3>1. "key" \notin unsaid /\ \E i \in 1..Len(actor'.inbox) : actor'.inbox[i] = e
      BY <2>7
    <3>2. ~NoCommand
      BY <1>2, <1>4 DEF NoCommand
    <3>3. CASE \E i \in 1..Len(actor.inbox) : Answered(i)
      BY <3>3, <2>7 DEF Answered
    <3>4. CASE \E i \in 1..Len(hotkeys.queue) :
                 hotkeys.queue[i].op = "configure" /\ hotkeys.queue[i].gen = prefs.hotkey_gen
      <4>1. PICK i \in 1..Len(hotkeys.queue) :
              hotkeys.queue[i].op = "configure" /\ hotkeys.queue[i].gen = prefs.hotkey_gen
        BY <3>4
      <4>2. CASE i = 1
        BY <4>1, <4>2, <3>1, <2>6, <1>2
      <4>3. CASE i - 1 \in 1..Len(q) /\ q[i - 1] = hotkeys.queue[i]
        BY <4>1, <4>3
      <4> QED BY <4>2, <4>3, <1>2
    <3> QED BY <3>1, <3>2, <3>3, <3>4, <1>1, <1>f DEF KeyShown
  <2> QED BY <2>5, <2>8, <2>9, <2>10, <2>12, <2>13, <2>14, <1>1, KeysOnly DEF KeyInv
<1> QED BY <1>3, <1>4 DEF KeysDrain

LEMMA WaitKeeps == SettingsInv /\ KeysWait => SettingsInv'
<1> SUFFICES ASSUME SettingsInv, KeysWait PROVE SettingsInv'
  OBVIOUS
<1>f. /\ HotkeysTyped /\ ActorTyped /\ RoomKept /\ TellInv /\ KeyInv
      /\ ChordHeld /\ KeysRising /\ AnswerTrue /\ KeyShown /\ NoLostWake
  BY ThreadFacts
<1>1. /\ hotkeys' = [hotkeys EXCEPT !.at = "wait"] /\ hotkeys.at = "drain" /\ hotkeys.queue = <<>>
      /\ UNCHANGED <<prefs, saver, folder, actor, exit, unsaid>>
  BY DEF KeysWait
<1>2. /\ hotkeys'.queue = hotkeys.queue /\ hotkeys'.at = "wait" /\ hotkeys'.applied = hotkeys.applied
      /\ hotkeys'.live = hotkeys.live /\ HotkeysTyped'
  BY <1>1, <1>f DEF HotkeysTyped
<1>3. ActorTyped' /\ RoomKept' /\ TellInv'
  BY <1>1, <1>2, <1>f DEF ActorTyped, RoomKept, TellInv, ReportTrue, ToBeTold
<1>4. ChordHeld' /\ KeysRising' /\ AnswerTrue' /\ KeyShown' /\ NoLostWake'
  BY <1>1, <1>2, <1>f DEF ChordHeld, KeysRising, AnswerTrue, KeyShown, NoCommand, Answered, NoLostWake
<1> QED BY <1>1, <1>2, <1>3, <1>4, KeysOnly DEF KeyInv

LEMMA WakeKeeps == SettingsInv /\ KeysWake => SettingsInv'
<1> SUFFICES ASSUME SettingsInv, KeysWake PROVE SettingsInv'
  OBVIOUS
<1>f. /\ HotkeysTyped /\ ActorTyped /\ RoomKept /\ TellInv /\ KeyInv
      /\ ChordHeld /\ KeysRising /\ AnswerTrue /\ KeyShown /\ NoLostWake
      /\ hotkeys.queue \in Seq(KeyCommands) /\ hotkeys.posts \in Seq({"configure", "shutdown"})
      /\ Len(hotkeys.queue) <= KeyRoom
  BY ThreadFacts, HotkeysFields DEF RoomKept
<1> DEFINE p == Tail(hotkeys.posts)
           rest == [hotkeys EXCEPT !.posts = p]
<1>1. /\ hotkeys' = IF Head(hotkeys.posts) = "shutdown" THEN KeysEnd(rest) ELSE [rest EXCEPT !.at = "drain"]
      /\ hotkeys.at = "wait" /\ hotkeys.posts # <<>>
      /\ UNCHANGED <<prefs, saver, folder, actor, exit, unsaid>>
  BY DEF KeysWake
<1>2. p \in Seq({"configure", "shutdown"})
  BY <1>1, <1>f, QueueTail
<1>3. CASE Head(hotkeys.posts) = "shutdown"
  <2>1. rest = [hotkeys EXCEPT !.queue = hotkeys.queue, !.posts = p]
    BY <1>f DEF HotkeysTyped
  <2>2. hotkeys' = KeysEnd(rest)
    BY <1>1, <1>3
  <2> HIDE DEF rest, p
  <2> QED BY <1>1, <1>2, <1>f, <2>1, <2>2, EndKeeps
<1>4. CASE Head(hotkeys.posts) # "shutdown"
  <2>1. hotkeys' = [hotkeys EXCEPT !.posts = p, !.at = "drain"]
    BY <1>1, <1>4
  <2> HIDE DEF p
  <2>2. /\ hotkeys'.queue = hotkeys.queue /\ hotkeys'.at = "drain" /\ hotkeys'.applied = hotkeys.applied
        /\ hotkeys'.live = hotkeys.live /\ HotkeysTyped'
    BY <2>1, <1>2, <1>f DEF HotkeysTyped
  <2>3. ActorTyped' /\ RoomKept' /\ TellInv'
    BY <1>1, <2>2, <1>f DEF ActorTyped, RoomKept, TellInv, ReportTrue, ToBeTold
  <2>4. ChordHeld' /\ NoLostWake'
    BY <1>1, <2>2, <1>f DEF ChordHeld, NoLostWake
  <2>6. AnswerTrue'
    BY <1>1, <2>2, <1>f DEF AnswerTrue, NoCommand, Answered
  <2>7. KeyShown'
    BY <1>1, <2>2, <1>f DEF KeyShown, NoCommand, Answered
  <2>5. KeysRising'
    BY <1>1, <2>2, <1>f DEF KeysRising
  <2> QED BY <1>1, <2>2, <2>3, <2>4, <2>5, <2>6, <2>7, KeysOnly DEF KeyInv
<1> QED BY <1>3, <1>4

-----------------------------------------------------------------------------
(* The bounded exit.                                                       *)

\* A stage that only the coordinator takes part in.
LEMMA ExitOnly ==
  ASSUME SettingsInv, NEW step \in {"hotkey", "flush", "closed"}, NEW flushed \in BOOLEAN,
         exit' = [exit EXCEPT !.step = step, !.flushed = flushed],
         exit.step \notin {"none", "wake"}, exit.step \in {"ack", "closed"} => step = "closed",
         flushed => saver.step = "gone",
         UNCHANGED <<prefs, saver, folder, hotkeys, actor, unsaid>>
  PROVE  SettingsInv'
<1>t. /\ SettingsTyped /\ PrefsTyped /\ SaverTyped /\ FolderTyped /\ HotkeysTyped /\ ActorTyped /\ ExitTyped
      /\ RoomKept /\ FolderInv /\ LineInv /\ TellInv /\ ExitInv /\ KeyInv
  BY DEF SettingsInv, SettingsTyped
<1>1. exit'.step = step /\ exit'.flushed = flushed /\ exit'.due = exit.due /\ ExitTyped'
  BY <1>t DEF ExitTyped
<1>2. SettingsTyped'
  BY <1>t, <1>1 DEF SettingsTyped, PrefsTyped, SaverTyped, FolderTyped, HotkeysTyped, ActorTyped, RoomKept
<1>3. FolderInv' /\ LineInv'
  BY <1>t DEF FolderInv, LineInv, QueueRising, JobsRising, SaveTrue, OutcomeTrue, NewestUnderWay
<1>4. TellInv'
  BY <1>t DEF TellInv, ReportTrue, ToBeTold
<1>5. KeyInv'
  BY <1>t DEF KeyInv, ChordHeld, KeysRising, AnswerTrue, KeyShown, NoCommand, Answered, NoLostWake
<1>6. ExitInv'
  BY <1>t, <1>1 DEF ExitInv
<1> QED BY <1>2, <1>3, <1>4, <1>5, <1>6 DEF SettingsInv

\* The coordinator queues the thread's end, or wakes it.
LEMMA ExitKeys ==
  ASSUME SettingsInv, NEW q \in Seq(KeyCommands), NEW p \in Seq({"configure", "shutdown"}),
         NEW step \in {"wake", "await"},
         hotkeys' = [hotkeys EXCEPT !.queue = q, !.posts = p],
         exit' = [exit EXCEPT !.step = step], exit.step \in {"hotkey", "wake"},
         Len(q) <= KeyRoom, Len(q) >= Len(hotkeys.queue),
         \A i \in 1..Len(hotkeys.queue) : i \in 1..Len(q) /\ q[i] = hotkeys.queue[i],
         \A i \in 1..Len(q) : i \in 1..Len(hotkeys.queue) \/ q[i].op = "shutdown",
         hotkeys.at = "wait" /\ q # <<>> => p # <<>> \/ actor.posting \/ step = "wake",
         UNCHANGED <<prefs, saver, folder, actor, unsaid>>
  PROVE  SettingsInv'
<1>t. /\ SettingsTyped /\ PrefsTyped /\ SaverTyped /\ FolderTyped /\ HotkeysTyped /\ ActorTyped /\ ExitTyped
      /\ RoomKept /\ FolderInv /\ LineInv /\ TellInv /\ ExitInv /\ KeyInv
  BY DEF SettingsInv, SettingsTyped
<1>1. exit'.step = step /\ exit'.flushed = exit.flushed /\ exit'.due = exit.due /\ ExitTyped'
  BY <1>t DEF ExitTyped
<1>2. /\ hotkeys'.queue = q /\ hotkeys'.posts = p /\ hotkeys'.at = hotkeys.at
      /\ hotkeys'.applied = hotkeys.applied /\ hotkeys'.live = hotkeys.live /\ HotkeysTyped'
  BY <1>t DEF HotkeysTyped
<1>3. SettingsTyped'
  BY <1>t, <1>1, <1>2 DEF SettingsTyped, PrefsTyped, SaverTyped, FolderTyped, ActorTyped, RoomKept
<1>4. FolderInv' /\ LineInv'
  BY <1>t DEF FolderInv, LineInv, QueueRising, JobsRising, SaveTrue, OutcomeTrue, NewestUnderWay
<1>5. TellInv'
  BY <1>t DEF TellInv, ReportTrue, ToBeTold
<1>6. ExitInv'
  BY <1>t, <1>1 DEF ExitInv
<1>7. ChordHeld' /\ NoLostWake'
  BY <1>t, <1>1, <1>2 DEF KeyInv, ChordHeld, NoLostWake
<1>8. \A i \in 1..Len(q) : q[i].op = "configure" => i \in 1..Len(hotkeys.queue) /\ q[i] = hotkeys.queue[i]
  OBVIOUS
<1>9. NoCommand => NoCommand'
  BY <1>2, <1>8 DEF NoCommand
<1>10. KeysRising'
  <2>1. /\ \A i \in 1..Len(hotkeys.queue) : hotkeys.queue[i].op = "configure" =>
             hotkeys.queue[i].gen <= prefs.hotkey_gen
        /\ \A i, j \in 1..Len(hotkeys.queue) :
             i < j /\ hotkeys.queue[i].op = "configure" /\ hotkeys.queue[j].op = "configure" =>
               hotkeys.queue[i].gen < hotkeys.queue[j].gen
        /\ \A i \in 1..Len(actor.inbox) : actor.inbox[i].op = "hotkey" =>
             actor.inbox[i].gen <= prefs.hotkey_gen /\ hotkeys.at # "start"
    BY <1>t DEF KeyInv, KeysRising
  <2>2. \A i \in 1..Len(q) : q[i].op = "configure" => q[i].gen <= prefs.hotkey_gen
    BY ONLY <2>1, <1>8
  <2>3. \A i, j \in 1..Len(q) :
          i < j /\ q[i].op = "configure" /\ q[j].op = "configure" => q[i].gen < q[j].gen
    BY ONLY <2>1, <1>8
  <2>4. prefs' = prefs /\ actor' = actor
    OBVIOUS
  <2> QED BY ONLY <2>1, <2>2, <2>3, <2>4, <1>2 DEF KeysRising
<1>11. AnswerTrue'
  BY <1>t, <1>2, <1>9 DEF KeyInv, AnswerTrue, Answered
<1>12. KeyShown'
  <2>1. (\E i \in 1..Len(hotkeys.queue) :
           hotkeys.queue[i].op = "configure" /\ hotkeys.queue[i].gen = prefs.hotkey_gen)
         => \E i \in 1..Len(q) : q[i].op = "configure" /\ q[i].gen = prefs.hotkey_gen
    OBVIOUS
  <2> QED BY <2>1, <1>t, <1>2, <1>9 DEF KeyInv, KeyShown, Answered
<1> QED BY <1>3, <1>4, <1>5, <1>6, <1>7, <1>10, <1>11, <1>12 DEF SettingsInv, KeyInv

\* flush_preferences: what is promised is the newest save on its way.
LEMMA ExitFlushKeeps ==
  ASSUME SettingsInv, exit.step = "flush", Len(saver.queue) < SaveRoom,
         saver' = [saver EXCEPT !.queue = Append(@, [op |-> "flush"])],
         exit' = [exit EXCEPT !.step = "ack",
                     !.due = IF saver.queue # <<>> THEN saver.queue[Len(saver.queue)].gen
                             ELSE IF Waiting THEN saver.pending.gen ELSE saver.doing.gen],
         UNCHANGED <<prefs, folder, hotkeys, actor, unsaid>>
  PROVE  SettingsInv'
<1> DEFINE c == [op |-> "flush"]
           q == Append(saver.queue, c)
           due == IF saver.queue # <<>> THEN saver.queue[Len(saver.queue)].gen
                  ELSE IF Waiting THEN saver.pending.gen ELSE saver.doing.gen
<1>t. /\ SettingsTyped /\ PrefsTyped /\ HotkeysTyped /\ ActorTyped /\ ExitTyped
      /\ RoomKept /\ TellInv /\ KeyInv
  BY DEF SettingsInv, SettingsTyped
<1>f. /\ prefs.gen \in Nat /\ saver.pending.gen \in Nat /\ saver.doing.gen \in Nat
      /\ saver.pending.gen <= prefs.gen /\ saver.doing.gen <= prefs.gen
      /\ \A i \in 1..Len(saver.queue) :
           /\ saver.queue[i] \in SaveCommands /\ saver.queue[i].op \in {"save", "flush"}
           /\ saver.queue[i].op = "save" =>
                /\ saver.queue[i].gen \in Nat /\ saver.queue[i].value \in Prefs
                /\ saver.pending.gen < saver.queue[i].gen /\ saver.doing.gen < saver.queue[i].gen
                /\ SaveTrue(saver.queue[i].gen, saver.queue[i].value)
      /\ SaverTyped /\ FolderTyped /\ FolderInv /\ QueueRising /\ JobsRising /\ OutcomeTrue /\ ExitInv
  BY LineFacts
<1>1. saver.queue \in Seq(SaveCommands) /\ Len(saver.queue) \in Nat /\ SaveRoom \in Nat
  BY <1>f, SaverFields, SettingsAssumption
<1>c. c \in SaveCommands /\ c.op = "flush"
  BY DEF SaveCommands
<1> HIDE DEF c
<1>2. /\ q \in Seq(SaveCommands) /\ Len(q) = Len(saver.queue) + 1
      /\ q[Len(saver.queue) + 1] = c /\ \A i \in 1..Len(saver.queue) : q[i] = saver.queue[i]
  BY <1>1, <1>c, QueueAppend
<1>n. /\ exit.step # "none" /\ prefs.gen # 0 /\ prefs.quitting
      /\ \A i \in 1..Len(saver.queue) : saver.queue[i].op = "save"
      /\ ~saver.flushing /\ ~exit.flushed /\ saver.step # "gone"
  BY <1>f, SaverFields DEF ExitInv
<1>3. due \in Nat /\ due <= prefs.gen
  <2>1. CASE saver.queue # <<>>
    <3>1. Len(saver.queue) \in 1..Len(saver.queue)
      BY <2>1, <1>1, EmptySeq
    <3>2. due = saver.queue[Len(saver.queue)].gen
      BY <2>1
    <3> HIDE DEF due
    <3> QED BY <3>1, <3>2, <1>n, <1>f DEF SaveTrue
  <2>2. CASE saver.queue = <<>>
    BY <2>2, <1>f
  <2> QED BY <2>1, <2>2
<1>4. saver' = [saver EXCEPT !.queue = q] /\ exit' = [exit EXCEPT !.step = "ack", !.due = due]
  BY DEF c
<1> HIDE DEF q, due
<1>5. /\ saver'.queue = q /\ saver'.pending = saver.pending /\ saver'.doing = saver.doing
      /\ saver'.step = saver.step /\ saver'.flushing = saver.flushing /\ SaverTyped'
  BY <1>4, <1>2, <1>f DEF SaverTyped
<1>6. exit'.step = "ack" /\ exit'.flushed = exit.flushed /\ exit'.due = due /\ ExitTyped'
  BY <1>4, <1>3, <1>t DEF ExitTyped
<1>7. /\ \A i \in 1..Len(q) : i \in 1..Len(saver.queue) \/ (i = Len(saver.queue) + 1 /\ q[i] = c)
      /\ \A i \in 1..Len(saver.queue) : i \in 1..Len(q)
      /\ Len(q) <= SaveRoom
  BY <1>1, <1>2
<1>8. \A i \in 1..Len(q) : q[i].op = "save" => i \in 1..Len(saver.queue) /\ q[i] = saver.queue[i]
  BY <1>2, <1>7, <1>c
<1>9. SettingsTyped'
  BY <1>t, <1>f, <1>5, <1>6, <1>7 DEF SettingsTyped, PrefsTyped, FolderTyped, HotkeysTyped, ActorTyped, RoomKept
<1>10. FolderInv'
  BY <1>f, <1>5 DEF FolderInv
<1>11. QueueRising' /\ JobsRising'
  BY <1>f, <1>5, <1>8 DEF QueueRising, JobsRising, SaveTrue
<1>12. OutcomeTrue'
  <2>1. NewestUnderWay => NewestUnderWay'
    BY <1>2, <1>5, <1>7 DEF NewestUnderWay
  <2> QED BY <2>1, <1>f, <1>5, <1>8 DEF OutcomeTrue
<1>13. TellInv'
  BY <1>t DEF TellInv, ReportTrue, ToBeTold
<1>14. KeyInv'
  BY <1>t DEF KeyInv, ChordHeld, KeysRising, AnswerTrue, KeyShown, NoCommand, Answered, NoLostWake
<1>15. ExitInv'
  <2>1. ASSUME NEW i \in 1..Len(q), q[i].op = "flush", NEW j \in 1..Len(q) PROVE ~(j > i)
    <3>1. i = Len(saver.queue) + 1
      BY <2>1, <1>2, <1>7, <1>n
    <3> QED BY <3>1, <1>1, <1>2
  <2> QED BY <2>1, <1>3, <1>5, <1>6, <1>n DEF ExitInv
<1> QED BY <1>9, <1>10, <1>11, <1>12, <1>13, <1>14, <1>15 DEF SettingsInv, LineInv

LEMMA ExitingKeeps == SettingsInv /\ Exiting => SettingsInv'
<1> SUFFICES ASSUME SettingsInv, Exiting PROVE SettingsInv'
  OBVIOUS
<1>t. /\ HotkeysTyped /\ ExitTyped /\ RoomKept /\ ExitInv /\ exit.flushed \in BOOLEAN
      /\ hotkeys.queue \in Seq(KeyCommands) /\ hotkeys.posts \in Seq({"configure", "shutdown"})
      /\ Len(hotkeys.queue) \in Nat /\ KeyRoom \in Nat /\ Len(hotkeys.queue) <= KeyRoom
      /\ exit.flushed => saver.step = "gone"
  BY HotkeysFields, SettingsAssumption DEF SettingsInv, SettingsTyped, ExitTyped, RoomKept, ExitInv
<1>e. \A s : [exit EXCEPT !.step = s] = [exit EXCEPT !.step = s, !.flushed = exit.flushed]
  BY <1>t DEF ExitTyped
<1>k. \A q, p : /\ [hotkeys EXCEPT !.queue = q] = [hotkeys EXCEPT !.queue = q, !.posts = hotkeys.posts]
                /\ [hotkeys EXCEPT !.posts = p] = [hotkeys EXCEPT !.queue = hotkeys.queue, !.posts = p]
  BY <1>t DEF HotkeysTyped
<1>1. CASE ExitDevice
  <2>1. exit' = [exit EXCEPT !.step = "hotkey", !.flushed = exit.flushed] /\ exit.step = "device"
        /\ UNCHANGED <<prefs, saver, folder, hotkeys, actor, unsaid>>
    BY <1>1, <1>e DEF ExitDevice
  <2> QED BY <2>1, <1>t, ExitOnly
<1>2. CASE ExitAwait
  <2>1. exit' = [exit EXCEPT !.step = "flush", !.flushed = exit.flushed] /\ exit.step = "await"
        /\ UNCHANGED <<prefs, saver, folder, hotkeys, actor, unsaid>>
    BY <1>2, <1>e DEF ExitAwait
  <2> QED BY <2>1, <1>t, ExitOnly
<1>3. CASE ExitClose
  <2> DEFINE f == saver.step = "gone"
  <2>1. exit' = [exit EXCEPT !.step = "closed", !.flushed = f] /\ exit.step = "ack"
        /\ UNCHANGED <<prefs, saver, folder, hotkeys, actor, unsaid>>
    BY <1>3 DEF ExitClose
  <2>2. f \in BOOLEAN /\ (f => saver.step = "gone")
    OBVIOUS
  <2> HIDE DEF f
  <2> QED BY <2>1, <2>2, ExitOnly
<1>4. CASE ExitWake
  <2> DEFINE a == Append(hotkeys.posts, "shutdown")
             p == IF hotkeys.at = "start" THEN hotkeys.posts ELSE a
  <2>1. a \in Seq({"configure", "shutdown"}) /\ a # <<>>
    <3>1. a \in Seq({"configure", "shutdown"}) /\ Len(a) = Len(hotkeys.posts) + 1 /\ Len(hotkeys.posts) \in Nat
      BY <1>t, QueueAppend
    <3> QED BY <3>1, EmptySeq
  <2> HIDE DEF a
  <2>2. p \in Seq({"configure", "shutdown"}) /\ (hotkeys.at = "wait" => p # <<>>)
    BY <2>1, <1>t
  <2>3. hotkeys' = [hotkeys EXCEPT !.posts = p]
        /\ exit' = [exit EXCEPT !.step = "await"] /\ exit.step = "wake"
        /\ UNCHANGED <<prefs, saver, folder, actor, unsaid>>
    BY <1>4 DEF ExitWake, a
  <2> HIDE DEF p
  <2>4. hotkeys' = [hotkeys EXCEPT !.queue = hotkeys.queue, !.posts = p]
    BY <2>3, <1>k
  <2>5. /\ \A i \in 1..Len(hotkeys.queue) : i \in 1..Len(hotkeys.queue) /\ hotkeys.queue[i] = hotkeys.queue[i]
        /\ \A i \in 1..Len(hotkeys.queue) : i \in 1..Len(hotkeys.queue) \/ hotkeys.queue[i].op = "shutdown"
        /\ Len(hotkeys.queue) >= Len(hotkeys.queue) /\ "await" \in {"wake", "await"}
        /\ hotkeys.at = "wait" /\ hotkeys.queue # <<>> => p # <<>> \/ actor.posting \/ "await" = "wake"
        /\ exit.step \in {"hotkey", "wake"}
    BY <1>t, <2>2, <2>3
  <2>6. p \in Seq({"configure", "shutdown"})
    BY <2>2
  <2> QED BY <2>3, <2>4, <2>5, <2>6, <1>t, ExitKeys
<1>5. CASE ExitHotkey
  <2>1. exit.step = "hotkey" /\ UNCHANGED <<prefs, saver, folder, actor, unsaid>>
    BY <1>5 DEF ExitHotkey
  <2>2. CASE /\ hotkeys.at # "done" /\ Len(hotkeys.queue) < KeyRoom
             /\ hotkeys' = [hotkeys EXCEPT !.queue = Append(@, [op |-> "shutdown"])]
             /\ exit' = [exit EXCEPT !.step = "wake"]
    <3> DEFINE c == [op |-> "shutdown"]
               q == Append(hotkeys.queue, c)
    <3>1. c \in KeyCommands /\ c.op = "shutdown"
      BY DEF KeyCommands
    <3>2. hotkeys' = [hotkeys EXCEPT !.queue = q]
      BY <2>2
    <3> HIDE DEF c
    <3>3. /\ q \in Seq(KeyCommands) /\ Len(q) = Len(hotkeys.queue) + 1
          /\ q[Len(hotkeys.queue) + 1] = c /\ \A i \in 1..Len(hotkeys.queue) : q[i] = hotkeys.queue[i]
      BY <1>t, <3>1, QueueAppend
    <3> HIDE DEF q
    <3>4. /\ \A i \in 1..Len(q) : i \in 1..Len(hotkeys.queue) \/ q[i].op = "shutdown"
          /\ \A i \in 1..Len(hotkeys.queue) : i \in 1..Len(q) /\ q[i] = hotkeys.queue[i]
          /\ Len(q) <= KeyRoom /\ Len(q) >= Len(hotkeys.queue)
      BY <1>t, <2>2, <3>1, <3>3
    <3>5. hotkeys' = [hotkeys EXCEPT !.queue = q, !.posts = hotkeys.posts]
      BY <3>2, <1>k
    <3> QED BY <2>1, <2>2, <3>3, <3>4, <3>5, <1>t, ExitKeys
  <2>3. CASE exit' = [exit EXCEPT !.step = "flush"] /\ UNCHANGED hotkeys
    <3>1. exit' = [exit EXCEPT !.step = "flush", !.flushed = exit.flushed]
      BY <2>3, <1>e
    <3> QED BY <2>1, <2>3, <3>1, <1>t, ExitOnly
  <2> QED BY <1>5, <2>2, <2>3 DEF ExitHotkey
<1>6. CASE ExitFlush
  <2>1. exit.step = "flush" /\ UNCHANGED <<prefs, folder, hotkeys, actor, unsaid>>
    BY <1>6 DEF ExitFlush
  <2>2. CASE exit' = [exit EXCEPT !.step = "closed"] /\ UNCHANGED saver
    <3>1. exit' = [exit EXCEPT !.step = "closed", !.flushed = exit.flushed]
      BY <2>2, <1>e
    <3> QED BY <2>1, <2>2, <3>1, <1>t, ExitOnly
  <2>3. CASE ~(exit' = [exit EXCEPT !.step = "closed"] /\ UNCHANGED saver)
    <3>1. /\ Len(saver.queue) < SaveRoom
          /\ saver' = [saver EXCEPT !.queue = Append(@, [op |-> "flush"])]
          /\ exit' = [exit EXCEPT !.step = "ack",
                       !.due = IF saver.queue # <<>> THEN saver.queue[Len(saver.queue)].gen
                               ELSE IF Waiting THEN saver.pending.gen ELSE saver.doing.gen]
      BY <1>6, <2>3 DEF ExitFlush
    <3> QED BY <2>1, <3>1, ExitFlushKeeps
  <2> QED BY <2>2, <2>3
<1> QED BY <1>1, <1>2, <1>3, <1>4, <1>5, <1>6 DEF Exiting

-----------------------------------------------------------------------------
(* The specification keeps the invariant, and the invariant what is promised. *)

LEMMA SettingsStep ==
  ASSUME SettingsInv, taste \in Tastes, [SettingsNext]_settingsVars
  PROVE  SettingsInv' /\ taste' \in Tastes
<1>1. CASE UserEdits
  BY <1>1, EditsKeep DEF UserEdits
<1>2. CASE Hear
  BY <1>2, HearKeeps DEF Hear
<1>3. CASE PostWake
  BY <1>3, PostKeeps DEF PostWake
<1>4. CASE Saving
  <2>1. SettingsInv'
    BY <1>4, TakesKeeps, TimeKeeps, DueKeeps, FailsKeeps, FillKeeps, MoveKeeps DEF Saving
  <2> QED BY <1>4, <2>1 DEF Saving, SaverTakes, TimePasses, SaverDue, WriteFails, Fill, Move
<1>5. CASE Registering
  <2>1. SettingsInv'
    BY <1>5, StartKeeps, DrainKeeps, WaitKeeps, WakeKeeps DEF Registering
  <2> QED BY <1>5, <2>1 DEF Registering, KeysStart, KeysDrain, KeysWait, KeysWake
<1>6. CASE Exiting
  <2>1. SettingsInv'
    BY <1>6, ExitingKeeps
  <2> QED BY <1>6, <2>1 DEF Exiting, ExitDevice, ExitHotkey, ExitWake, ExitAwait, ExitFlush, ExitClose
<1>7. CASE Relaunch
  BY <1>7, RelaunchKeeps DEF Relaunch
<1>8. CASE UNCHANGED settingsVars
  <2>1. UNCHANGED <<prefs, saver, folder, hotkeys, actor, exit, taste, unsaid>>
    BY <1>8 DEF settingsVars
  <2>2. HotkeysTyped' /\ ActorTyped' /\ RoomKept' /\ TellInv' /\ KeyInv'
    BY <2>1, ThreadFacts DEF HotkeysTyped, ActorTyped, RoomKept, TellInv, ReportTrue, ToBeTold, KeyInv,
      ChordHeld, KeysRising, AnswerTrue, KeyShown, NoCommand, Answered, NoLostWake
  <2> QED BY <2>1, <2>2, KeysOnly
<1> QED BY <1>1, <1>2, <1>3, <1>4, <1>5, <1>6, <1>7, <1>8 DEF SettingsNext

LEMMA SettingsPromise == SettingsInv => SettingsSafe
<1> SUFFICES ASSUME SettingsInv PROVE SettingsSafe
  OBVIOUS
<1>t. /\ PrefsTyped /\ FolderTyped /\ HotkeysTyped /\ ExitTyped /\ RoomKept /\ TellInv /\ KeyInv /\ ActorTyped
  BY DEF SettingsInv, SettingsTyped
<1>f. /\ prefs.gen \in Nat /\ exit.due \in Nat /\ prefs.outcome \in SaveOutcomes
      /\ saver.pending.gen \in Nat /\ saver.doing.gen \in Nat
      /\ \A i \in 1..Len(saver.queue) : saver.queue[i].op = "save" => saver.queue[i].gen \in Nat
      /\ SaverTyped /\ FolderInv /\ JobsRising /\ OutcomeTrue /\ ExitInv
      /\ Len(saver.queue) <= SaveRoom
  BY LineFacts
<1>1. SettingsTypeOK
  <2>1. PreferencesShown
    BY <1>t, PrefsFields DEF PreferencesShown, Prefs, Notices, SaveOutcomes
  <2>2. SettingsFiles
    BY <1>t DEF SettingsFiles, FolderTyped, SettingsFileShape, Kinds
  <2>3. DebounceState /\ HotkeyEngine
    BY <1>f, <1>t, SaverFields, HotkeysFields DEF DebounceState, HotkeyEngine, WriteSteps, RoomKept
  <2>4. AppFeedback /\ ShutdownStages
    BY <1>t DEF AppFeedback, ShutdownStages, RoomKept, ExitTyped
  <2> QED BY <2>1, <2>2, <2>3, <2>4 DEF SettingsTypeOK
<1>2. FileWhole /\ NewestOnDisk
  BY <1>f DEF FileWhole, NewestOnDisk, FolderInv, OutcomeTrue
<1>3. SaverRests => /\ actor.inbox = <<>> /\ Len(actor.inbox) = 0 /\ (prefs.gen # 0 => prefs.outcome # "none")
  <2> SUFFICES ASSUME SaverRests
               PROVE  actor.inbox = <<>> /\ Len(actor.inbox) = 0 /\ (prefs.gen # 0 => prefs.outcome # "none")
    OBVIOUS
  <2>1. saver.step = "idle" /\ saver.queue = <<>> /\ saver.pending.gen = 0 /\ actor.inbox = <<>>
    BY DEF SaverRests, Waiting
  <2>2. Len(saver.queue) = 0 /\ Len(actor.inbox) = 0
    BY <2>1, EmptySeq
  <2>3. saver.doing.gen = 0
    BY <2>1, <1>f DEF JobsRising, WriteSteps
  <2> QED BY <2>1, <2>2, <2>3, <1>f DEF OutcomeTrue, NewestUnderWay
<1>4. Len(actor.inbox) = 0 => ~ToBeTold("saved") /\ ~ToBeTold("failed")
  BY DEF ToBeTold
<1>5. SavedOrTold
  BY <1>3, <1>4, <1>f, <1>t DEF SavedOrTold, TellInv, SaveOutcomes
<1>6. FailureNoticeTrue
  BY <1>3, <1>4, <1>f, <1>t DEF FailureNoticeTrue, TellInv, SaveOutcomes
<1>7. NoLostWake
  BY <1>t DEF KeyInv
<1>8. HotkeyShown
  <2>1. ChordHeld /\ KeyShown
    BY <1>t DEF KeyInv
  <2>2. (hotkeys.queue = <<>> => Len(hotkeys.queue) = 0) /\ (actor.inbox = <<>> => Len(actor.inbox) = 0)
    BY EmptySeq
  <2> QED BY <2>1, <2>2 DEF HotkeyShown, ChordHeld, KeyShown, Answered
<1>9. ExitSaves
  <2> SUFFICES ASSUME exit.flushed, exit.due = prefs.gen PROVE prefs.outcome \in {"saved", "failed"}
    BY DEF ExitSaves
  <2>1. /\ saver.step = "gone" /\ saver.flushing /\ saver.pending.gen = 0 /\ prefs.gen # 0
        /\ \A i \in 1..Len(saver.queue) : saver.queue[i].op = "save" /\ exit.due < saver.queue[i].gen
    BY <1>f DEF ExitInv
  <2>2. saver.doing.gen = 0
    BY <2>1, <1>f DEF JobsRising, WriteSteps
  <2>3. ~NewestUnderWay
    BY <2>1, <2>2, <1>f DEF NewestUnderWay
  <2> QED BY <2>1, <2>3, <1>f DEF OutcomeTrue, SaveOutcomes
<1> QED BY <1>1, <1>2, <1>5, <1>6, <1>7, <1>8, <1>9 DEF SettingsSafe

\* Whatever the user edits, whichever write step fails or finds the process dead,
\* and in whatever order the worker of preferences.rs, the thread of hotkey.rs, the
\* actor and the exit of app/mod.rs take their steps: a settings file this program
\* wrote is complete, a change reported saved is the newest and on disk, one that is
\* not on disk is told, and the binding shown is the one Windows holds.
THEOREM SettingsAreKept == SettingsSpec => []SettingsSafe
<1> DEFINE I == SettingsInv /\ taste \in Tastes
<1>1. SettingsInit => I
  BY SettingsStart DEF SettingsInit
<1>2. I /\ [SettingsNext]_settingsVars => I'
  BY SettingsStep
<1>3. I => SettingsSafe
  BY SettingsPromise
<1> QED BY <1>1, <1>2, <1>3, PTL DEF SettingsSpec
==============================================================================
