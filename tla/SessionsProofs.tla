---------------------------- MODULE SessionsProofs ----------------------------
(***************************************************************************)
(* Theorems about Sessions.tla, for every kind of AirPlay 1 receiver,      *)
(* every volume scale, every set of timing set-ups and any number of       *)
(* calls, requests and faults.                                             *)
(***************************************************************************)
EXTENDS Sessions, SequenceTheorems, FiniteSetTheorems, TLAPS

-----------------------------------------------------------------------------
(* A connection to an AirPlay 1 receiver.                                  *)

RaopCalls ==
  {"none", "connect", "setup", "start", "pause", "stop", "resume", "volume", "feedback",
   "disconnect"}
RaopSteps ==
  {"none", "options", "options_auth", "announce", "announce_auth", "setup", "record", "stream",
   "level", "flush", "teardown"}
RaopShape ==
  [call : RaopCalls, step : RaopSteps, calls : Nat, alive : BOOLEAN, closed : BOOLEAN,
   session : {"Connected", "Announced", "SetupComplete", "Playing", "Paused", "TearingDown"},
   streamer : {"none", "on", "paused", "stopped"}, playback : {"Stopped", "Playing", "Paused"},
   timing : Nat, control : Nat, opened : Nat,
   ports : [{"server", "control"} -> {"server", "control", "zero"}], cipher : BOOLEAN,
   volume : 0..FullVolume, told : BOOLEAN, disconnected : BOOLEAN, late : BOOLEAN]
RemoteShape ==
  [announced : BOOLEAN, key : BOOLEAN, timing : Nat, control : Nat, setups : {0, 1},
   recording : BOOLEAN, volume : 0..FullVolume, torn : {0, 1}, faults : Nat]

RaopShaped == setup.rsa \in BOOLEAN /\ raop \in RaopShape /\ remote \in RemoteShape

\* A call other than connect needs a connection; a disconnect closes it for good.
RaopLives ==
  /\ raop.call = "connect" => ~raop.alive /\ ~raop.disconnected /\ ~raop.closed
  /\ raop.call \notin {"none", "connect"} => raop.alive
  /\ raop.call = "disconnect" => raop.disconnected
  /\ raop.disconnected => raop.alive
  /\ raop.alive => (raop.closed <=> raop.disconnected /\ raop.call # "disconnect")
  /\ raop.disconnected <=> raop.session = "TearingDown"
  /\ raop.late => raop.disconnected

\* The set-up: how far the session is says what the receiver has accepted, and
\* the step of the call says how far the session is.
SetupAgrees ==
  /\ raop.opened = 0 => remote.setups = 0 /\ raop.session \in {"Connected", "TearingDown"}
  /\ raop.session = "Connected" => remote.setups = 0
  /\ raop.session \in {"SetupComplete", "Playing", "Paused"} =>
       remote.setups = 1 /\ remote.announced
  /\ remote.announced => remote.key = setup.rsa
  /\ raop.step = "setup" => raop.session = "Announced" /\ remote.setups = 0
  /\ raop.call \in {"setup", "start"} /\ raop.step = "record" => raop.session = "SetupComplete"
  /\ raop.step = "stream" => raop.session = "SetupComplete"
  /\ raop.call = "start" /\ raop.step = "level" => raop.session = "Playing"
  /\ raop.call \in {"setup", "start"} /\ raop.step \notin {"stream", "level"} => raop.opened > 0

\* The sockets: those of the newest set-up, unless a disconnect closed them.
SocketsAgree ==
  /\ ~raop.disconnected => raop.timing = raop.opened /\ raop.control = raop.opened
  /\ raop.disconnected /\ ~raop.late => raop.timing = 0 /\ raop.control = 0
  /\ raop.opened = 1 /\ remote.setups = 1 /\ ~raop.disconnected =>
       remote.timing = 1 /\ remote.control = 1

\* The streamer and the two views of what is played.
StreamAgrees ==
  /\ raop.streamer # "none" => /\ raop.session \in {"Playing", "Paused"}
                               /\ raop.cipher = setup.rsa
  /\ raop.playback = "Playing" => raop.session = "Playing" \/ raop.call = "disconnect"
  /\ raop.playback = "Paused" => raop.session \in {"Paused", "TearingDown"}
  /\ raop.playback = "Paused" /\ remote.faults = 0 => raop.streamer # "on"
  /\ raop.call # "volume" /\ raop.told /\ remote.faults = 0 => remote.volume = raop.volume

\* One goodbye at most.
GoodbyeOnce ==
  /\ ~raop.disconnected => remote.torn = 0
  /\ raop.call = "disconnect" => remote.torn = 0

RaopInv ==
  RaopShaped /\ RaopLives /\ SetupAgrees /\ SocketsAgree /\ StreamAgrees /\ GoodbyeOnce

LEMMA RaopInitially == RaopInit => RaopInv
<1> SUFFICES ASSUME RaopInit PROVE RaopInv
  OBVIOUS
<1>1. setup.rsa \in BOOLEAN
  BY RaopAssumption DEF RaopInit
<1>2. PortsOf({}) \in [{"server", "control"} -> {"server", "control", "zero"}]
  BY DEF PortsOf
<1>3. FullVolume \in 0..FullVolume
  BY RaopAssumption
<1>4. raop \in RaopShape
  BY <1>2, <1>3 DEF RaopInit, RaopShape, RaopCalls, RaopSteps
<1>5. remote \in RemoteShape
  BY <1>3 DEF RaopInit, RemoteShape
<1> QED
  BY <1>1, <1>4, <1>5 DEF RaopShaped, RaopInit, RaopInv, RaopLives, SetupAgrees, SocketsAgree, StreamAgrees, GoodbyeOnce

\* What a step leaves alone at our end.
SameLink ==
  /\ raop'.alive = raop.alive /\ raop'.closed = raop.closed
  /\ raop'.disconnected = raop.disconnected /\ raop'.late = raop.late
SameSockets ==
  raop'.timing = raop.timing /\ raop'.control = raop.control /\ raop'.opened = raop.opened
SameStream ==
  /\ raop'.session = raop.session /\ raop'.streamer = raop.streamer
  /\ raop'.playback = raop.playback /\ raop'.cipher = raop.cipher
SameVolume == raop'.volume = raop.volume /\ raop'.told = raop.told
SameRaop == SameLink /\ SameSockets /\ SameStream /\ SameVolume

\* What every request but a SETUP leaves alone at the receiver, whatever became
\* of its answer.
Spared ==
  /\ setup' = setup /\ remote' \in RemoteShape
  /\ remote.faults \in Nat /\ remote'.faults \in Nat /\ remote'.faults >= remote.faults
  /\ remote.announced => remote'.announced
  /\ remote'.announced => remote'.key = setup.rsa
SameSetup ==
  /\ remote'.timing = remote.timing /\ remote'.control = remote.control
  /\ remote'.setups = remote.setups
SameRemote ==
  Spared /\ SameSetup /\ remote'.volume = remote.volume /\ remote'.torn = remote.torn

\* A request that only asks, starts or flushes changes nothing we look at.
LEMMA RemoteRests ==
  ASSUME RaopInv, setup' = setup, NEW flag \in BOOLEAN,
         \/ remote' \in {remote, [remote EXCEPT !.faults = @ + 1]}
         \/ remote' = [remote EXCEPT !.recording = flag]
         \/ remote' = [[remote EXCEPT !.recording = flag] EXCEPT !.faults = @ + 1]
  PROVE  SameRemote
<1> USE DEF RaopInv, RaopShaped, SetupAgrees, RemoteShape, SameRemote, Spared, SameSetup
<1>1. CASE remote' = remote
  BY <1>1
<1>2. CASE remote' = [remote EXCEPT !.faults = @ + 1]
  BY <1>2
<1>3. CASE remote' = [remote EXCEPT !.recording = flag]
  BY <1>3
<1>4. CASE remote' = [[remote EXCEPT !.recording = flag] EXCEPT !.faults = @ + 1]
  <2> DEFINE s == [remote EXCEPT !.recording = flag]
  <2>1. /\ s \in RemoteShape /\ s.faults = remote.faults /\ s.announced = remote.announced
        /\ s.key = remote.key /\ s.timing = remote.timing /\ s.control = remote.control
        /\ s.setups = remote.setups /\ s.volume = remote.volume /\ s.torn = remote.torn
    OBVIOUS
  <2>2. remote' = [s EXCEPT !.faults = @ + 1]
    BY <1>4
  <2> HIDE DEF s
  <2> QED
    BY <2>1, <2>2
<1> QED
  BY <1>1, <1>2, <1>3, <1>4

LEMMA OptionsKeep == RaopInv /\ Options => RaopInv'
<1> SUFFICES ASSUME RaopInv, Options PROVE RaopInv'
  OBVIOUS
<1>0. raop.call = "connect" /\ raop.step = "options"
  BY DEF Options, InCall
<1>1. SameRemote
  <2>1. \/ remote' \in {remote, [remote EXCEPT !.faults = @ + 1]}
        \/ remote' = [remote EXCEPT !.recording = TRUE]
        \/ remote' = [[remote EXCEPT !.recording = TRUE] EXCEPT !.faults = @ + 1]
    BY DEF Options, InCall, Exchange, AnswersTo
  <2>2. setup' = setup
    BY DEF Options, InCall
  <2> QED
    BY <2>1, <2>2, RemoteRests
<1>2. CASE raop' = [raop EXCEPT !.closed = TRUE, !.call = "none", !.step = "none"]
  <2>1. raop' \in RaopShape
    BY <1>2, <1>0 DEF RaopInv, RaopShaped, RaopShape, RaopCalls, RaopSteps
  <2>2. /\ raop'.alive = raop.alive /\ raop'.closed = TRUE
        /\ raop'.disconnected = raop.disconnected /\ raop'.late = raop.late /\ SameSockets
        /\ SameStream /\ SameVolume /\ raop'.call = "none" /\ raop'.step = "none"
    BY <1>2 DEF RaopInv, RaopShaped, RaopShape, SameRaop, SameLink, SameSockets, SameStream, SameVolume
  <2> QED
    BY <1>0, <1>2, <2>1, <2>2, <1>1
    DEF RaopInv, RaopShaped, RaopLives, SetupAgrees, SocketsAgree, StreamAgrees, GoodbyeOnce,
        SameRaop, SameLink, SameSockets, SameStream, SameVolume, SameRemote, Spared, SameSetup
<1>3. CASE raop' = [raop EXCEPT !.alive = TRUE, !.call = "none", !.step = "none"]
  <2>1. raop' \in RaopShape
    BY <1>3, <1>0 DEF RaopInv, RaopShaped, RaopShape, RaopCalls, RaopSteps
  <2>2. /\ raop'.alive = TRUE /\ raop'.closed = raop.closed
        /\ raop'.disconnected = raop.disconnected /\ raop'.late = raop.late /\ SameSockets
        /\ SameStream /\ SameVolume /\ raop'.call = "none" /\ raop'.step = "none"
    BY <1>3 DEF RaopInv, RaopShaped, RaopShape, SameRaop, SameLink, SameSockets, SameStream, SameVolume
  <2> QED
    BY <1>0, <1>3, <2>1, <2>2, <1>1
    DEF RaopInv, RaopShaped, RaopLives, SetupAgrees, SocketsAgree, StreamAgrees, GoodbyeOnce,
        SameRaop, SameLink, SameSockets, SameStream, SameVolume, SameRemote, Spared, SameSetup
<1>4. CASE raop' = [raop EXCEPT !.step = "options_auth"]
  <2>1. raop' \in RaopShape
    BY <1>4, <1>0 DEF RaopInv, RaopShaped, RaopShape, RaopCalls, RaopSteps
  <2>2. /\ SameRaop /\ raop'.call = raop.call /\ raop'.step = "options_auth"
    BY <1>4 DEF RaopInv, RaopShaped, RaopShape, SameRaop, SameLink, SameSockets, SameStream, SameVolume
  <2> QED
    BY <1>0, <1>4, <2>1, <2>2, <1>1
    DEF RaopInv, RaopShaped, RaopLives, SetupAgrees, SocketsAgree, StreamAgrees, GoodbyeOnce,
        SameRaop, SameLink, SameSockets, SameStream, SameVolume, SameRemote, Spared, SameSetup
<1> QED
  BY <1>2, <1>3, <1>4 DEF Options, Returns, Goes

LEMMA OptionsAuthorizedKeep == RaopInv /\ OptionsAuthorized => RaopInv'
<1> SUFFICES ASSUME RaopInv, OptionsAuthorized PROVE RaopInv'
  OBVIOUS
<1>0. raop.call = "connect" /\ raop.step = "options_auth"
  BY DEF OptionsAuthorized, InCall
<1>1. SameRemote
  <2>1. \/ remote' \in {remote, [remote EXCEPT !.faults = @ + 1]}
        \/ remote' = [remote EXCEPT !.recording = TRUE]
        \/ remote' = [[remote EXCEPT !.recording = TRUE] EXCEPT !.faults = @ + 1]
    BY DEF OptionsAuthorized, InCall, Exchange, AnswersTo
  <2>2. setup' = setup
    BY DEF OptionsAuthorized, InCall
  <2> QED
    BY <2>1, <2>2, RemoteRests
<1>2. CASE raop' = [raop EXCEPT !.closed = TRUE, !.call = "none", !.step = "none"]
  <2>1. raop' \in RaopShape
    BY <1>2, <1>0 DEF RaopInv, RaopShaped, RaopShape, RaopCalls, RaopSteps
  <2>2. /\ raop'.alive = raop.alive /\ raop'.closed = TRUE
        /\ raop'.disconnected = raop.disconnected /\ raop'.late = raop.late /\ SameSockets
        /\ SameStream /\ SameVolume /\ raop'.call = "none" /\ raop'.step = "none"
    BY <1>2 DEF RaopInv, RaopShaped, RaopShape, SameRaop, SameLink, SameSockets, SameStream, SameVolume
  <2> QED
    BY <1>0, <1>2, <2>1, <2>2, <1>1
    DEF RaopInv, RaopShaped, RaopLives, SetupAgrees, SocketsAgree, StreamAgrees, GoodbyeOnce,
        SameRaop, SameLink, SameSockets, SameStream, SameVolume, SameRemote, Spared, SameSetup
<1>3. CASE raop' = [raop EXCEPT !.alive = TRUE, !.call = "none", !.step = "none"]
  <2>1. raop' \in RaopShape
    BY <1>3, <1>0 DEF RaopInv, RaopShaped, RaopShape, RaopCalls, RaopSteps
  <2>2. /\ raop'.alive = TRUE /\ raop'.closed = raop.closed
        /\ raop'.disconnected = raop.disconnected /\ raop'.late = raop.late /\ SameSockets
        /\ SameStream /\ SameVolume /\ raop'.call = "none" /\ raop'.step = "none"
    BY <1>3 DEF RaopInv, RaopShaped, RaopShape, SameRaop, SameLink, SameSockets, SameStream, SameVolume
  <2> QED
    BY <1>0, <1>3, <2>1, <2>2, <1>1
    DEF RaopInv, RaopShaped, RaopLives, SetupAgrees, SocketsAgree, StreamAgrees, GoodbyeOnce,
        SameRaop, SameLink, SameSockets, SameStream, SameVolume, SameRemote, Spared, SameSetup
<1> QED
  BY <1>2, <1>3 DEF OptionsAuthorized, Returns

LEMMA RaopSetupKeeps == RaopInv /\ RaopSetup => RaopInv'
<1> SUFFICES ASSUME RaopInv, RaopSetup PROVE RaopInv'
  OBVIOUS
<1>0. raop.call = "none" /\ raop.alive
  BY DEF RaopSetup, Begins, Callable
<1>1. SameRemote
  BY DEF RaopSetup, Begins, RaopInv, RaopShaped, SetupAgrees, SameRemote, Spared, SameSetup, RemoteShape
<1>2. CASE raop' = [raop EXCEPT !.call = "setup", !.step = "announce", !.calls = @ + 1, !.opened = @ + 1,
                                  !.timing = raop.opened + 1, !.control = raop.opened + 1,
                                  !.late = @ \/ raop.disconnected]
  <2>1. PICK c \in Nat : c = raop.calls + 1
    BY DEF RaopInv, RaopShaped, RaopShape
  <2>2. PICK o \in Nat : o = raop.opened + 1
    BY DEF RaopInv, RaopShaped, RaopShape
  <2>3. PICK l \in BOOLEAN : l = (raop.late \/ raop.disconnected)
    OBVIOUS
  <2>4. raop' = [raop EXCEPT !.call = "setup", !.step = "announce", !.calls = c, !.opened = o,
                             !.timing = o, !.control = o, !.late = l]
    BY <1>2, <2>1, <2>2, <2>3
  <2>5. raop' \in RaopShape
    BY ZenonT(40), <2>4 DEF RaopInv, RaopShaped, RaopShape, RaopCalls, RaopSteps
  <2>6. /\ raop'.alive = raop.alive /\ raop'.closed = raop.closed
        /\ raop'.disconnected = raop.disconnected /\ raop'.late = l /\ raop'.timing = o
        /\ raop'.control = o /\ raop'.opened = o /\ SameStream /\ SameVolume
        /\ raop'.call = "setup" /\ raop'.step = "announce"
    BY <2>4 DEF RaopInv, RaopShaped, RaopShape, SameRaop, SameLink, SameSockets, SameStream, SameVolume
  <2>7. l = raop.disconnected
    BY <2>3 DEF RaopInv, RaopShaped, RaopShape, RaopLives
  <2>8. raop.opened \in Nat
    BY DEF RaopInv, RaopShaped, RaopShape
  <2> QED
    BY SMTT(30), <1>0, <1>1, <2>2, <2>5, <2>6, <2>7, <2>8
    DEF RaopInv, RaopShaped, RaopLives, SetupAgrees, SocketsAgree, StreamAgrees, GoodbyeOnce,
        SameRaop, SameLink, SameSockets, SameStream, SameVolume, SameRemote, Spared, SameSetup
<1> QED
  BY <1>2 DEF RaopSetup, SetupBegins

LEMMA RaopStartKeeps == RaopInv /\ RaopStartStreaming => RaopInv'
<1> SUFFICES ASSUME RaopInv, RaopStartStreaming PROVE RaopInv'
  OBVIOUS
<1>0. raop.call = "none" /\ raop.alive
  BY DEF RaopStartStreaming, Begins, Callable
<1>1. SameRemote
  BY DEF RaopStartStreaming, Begins, RaopInv, RaopShaped, SetupAgrees, SameRemote, Spared, SameSetup, RemoteShape
<1>2. CASE raop' = [raop EXCEPT !.call = "start", !.step = "announce", !.calls = @ + 1, !.opened = @ + 1,
                                  !.timing = raop.opened + 1, !.control = raop.opened + 1,
                                  !.late = @ \/ raop.disconnected]
  <2>1. PICK c \in Nat : c = raop.calls + 1
    BY DEF RaopInv, RaopShaped, RaopShape
  <2>2. PICK o \in Nat : o = raop.opened + 1
    BY DEF RaopInv, RaopShaped, RaopShape
  <2>3. PICK l \in BOOLEAN : l = (raop.late \/ raop.disconnected)
    OBVIOUS
  <2>4. raop' = [raop EXCEPT !.call = "start", !.step = "announce", !.calls = c, !.opened = o,
                             !.timing = o, !.control = o, !.late = l]
    BY <1>2, <2>1, <2>2, <2>3
  <2>5. raop' \in RaopShape
    BY ZenonT(40), <2>4 DEF RaopInv, RaopShaped, RaopShape, RaopCalls, RaopSteps
  <2>6. /\ raop'.alive = raop.alive /\ raop'.closed = raop.closed
        /\ raop'.disconnected = raop.disconnected /\ raop'.late = l /\ raop'.timing = o
        /\ raop'.control = o /\ raop'.opened = o /\ SameStream /\ SameVolume
        /\ raop'.call = "start" /\ raop'.step = "announce"
    BY <2>4 DEF RaopInv, RaopShaped, RaopShape, SameRaop, SameLink, SameSockets, SameStream, SameVolume
  <2>7. l = raop.disconnected
    BY <2>3 DEF RaopInv, RaopShaped, RaopShape, RaopLives
  <2>8. raop.opened \in Nat
    BY DEF RaopInv, RaopShaped, RaopShape
  <2> QED
    BY SMTT(30), <1>0, <1>1, <2>2, <2>5, <2>6, <2>7, <2>8
    DEF RaopInv, RaopShaped, RaopLives, SetupAgrees, SocketsAgree, StreamAgrees, GoodbyeOnce,
        SameRaop, SameLink, SameSockets, SameStream, SameVolume, SameRemote, Spared, SameSetup
<1>3. CASE raop' = [raop EXCEPT !.call = "start", !.step = "stream", !.calls = @ + 1] /\ raop.session = "SetupComplete"
  <2>1. PICK c \in Nat : c = raop.calls + 1
    BY DEF RaopInv, RaopShaped, RaopShape
  <2>2. raop' = [raop EXCEPT !.call = "start", !.step = "stream", !.calls = c]
    BY <1>3, <2>1
  <2>3. raop' \in RaopShape
    BY <2>2, <1>0 DEF RaopInv, RaopShaped, RaopShape, RaopCalls, RaopSteps
  <2>4. /\ SameRaop /\ raop'.call = "start" /\ raop'.step = "stream"
    BY <2>2 DEF RaopInv, RaopShaped, RaopShape, SameRaop, SameLink, SameSockets, SameStream, SameVolume
  <2> QED
    BY <1>0, <1>1, <1>3, <2>3, <2>4
    DEF RaopInv, RaopShaped, RaopLives, SetupAgrees, SocketsAgree, StreamAgrees, GoodbyeOnce,
        SameRaop, SameLink, SameSockets, SameStream, SameVolume, SameRemote, Spared, SameSetup
<1> QED
  BY <1>2, <1>3 DEF RaopStartStreaming, SetupBegins

LEMMA RaopPauseKeeps == RaopInv /\ RaopPause => RaopInv'
<1> SUFFICES ASSUME RaopInv, RaopPause PROVE RaopInv'
  OBVIOUS
<1>0. raop.call = "none" /\ raop.alive
  BY DEF RaopPause, Begins, Callable
<1>1. SameRemote
  BY DEF RaopPause, Begins, RaopInv, RaopShaped, SetupAgrees, SameRemote, Spared, SameSetup, RemoteShape
<1>2. CASE raop' = [raop EXCEPT !.call = "pause", !.step = "flush", !.calls = @ + 1]
  <2>1. PICK c \in Nat : c = raop.calls + 1
    BY DEF RaopInv, RaopShaped, RaopShape
  <2>2. raop' = [raop EXCEPT !.call = "pause", !.step = "flush", !.calls = c]
    BY <1>2, <2>1
  <2>3. raop' \in RaopShape
    BY <2>2, <1>0 DEF RaopInv, RaopShaped, RaopShape, RaopCalls, RaopSteps
  <2>4. /\ SameRaop /\ raop'.call = "pause" /\ raop'.step = "flush"
    BY <2>2 DEF RaopInv, RaopShaped, RaopShape, SameRaop, SameLink, SameSockets, SameStream, SameVolume
  <2> QED
    BY <1>0, <1>1, <1>2, <2>3, <2>4
    DEF RaopInv, RaopShaped, RaopLives, SetupAgrees, SocketsAgree, StreamAgrees, GoodbyeOnce,
        SameRaop, SameLink, SameSockets, SameStream, SameVolume, SameRemote, Spared, SameSetup
<1> QED
  BY <1>2 DEF RaopPause, Begins

LEMMA RaopResumeKeeps == RaopInv /\ RaopResume => RaopInv'
<1> SUFFICES ASSUME RaopInv, RaopResume PROVE RaopInv'
  OBVIOUS
<1>0. raop.call = "none" /\ raop.alive
  BY DEF RaopResume, Begins, Callable
<1>1. SameRemote
  BY DEF RaopResume, Begins, RaopInv, RaopShaped, SetupAgrees, SameRemote, Spared, SameSetup, RemoteShape
<1>2. CASE raop' = [raop EXCEPT !.call = "resume", !.step = "record", !.calls = @ + 1]
  <2>1. PICK c \in Nat : c = raop.calls + 1
    BY DEF RaopInv, RaopShaped, RaopShape
  <2>2. raop' = [raop EXCEPT !.call = "resume", !.step = "record", !.calls = c]
    BY <1>2, <2>1
  <2>3. raop' \in RaopShape
    BY <2>2, <1>0 DEF RaopInv, RaopShaped, RaopShape, RaopCalls, RaopSteps
  <2>4. /\ SameRaop /\ raop'.call = "resume" /\ raop'.step = "record"
    BY <2>2 DEF RaopInv, RaopShaped, RaopShape, SameRaop, SameLink, SameSockets, SameStream, SameVolume
  <2> QED
    BY <1>0, <1>1, <1>2, <2>3, <2>4
    DEF RaopInv, RaopShaped, RaopLives, SetupAgrees, SocketsAgree, StreamAgrees, GoodbyeOnce,
        SameRaop, SameLink, SameSockets, SameStream, SameVolume, SameRemote, Spared, SameSetup
<1> QED
  BY <1>2 DEF RaopResume, Begins

LEMMA RaopStopKeeps == RaopInv /\ RaopStop => RaopInv'
<1> SUFFICES ASSUME RaopInv, RaopStop PROVE RaopInv'
  OBVIOUS
<1>0. raop.call = "none" /\ raop.alive
  BY DEF RaopStop, Begins, Callable
<1>1. SameRemote
  BY DEF RaopStop, Begins, RaopInv, RaopShaped, SetupAgrees, SameRemote, Spared, SameSetup, RemoteShape
<1>2. CASE raop' = [raop EXCEPT !.call = "stop", !.step = "flush", !.calls = @ + 1]
  <2>1. PICK c \in Nat : c = raop.calls + 1
    BY DEF RaopInv, RaopShaped, RaopShape
  <2>2. raop' = [raop EXCEPT !.call = "stop", !.step = "flush", !.calls = c]
    BY <1>2, <2>1
  <2>3. raop' \in RaopShape
    BY <2>2, <1>0 DEF RaopInv, RaopShaped, RaopShape, RaopCalls, RaopSteps
  <2>4. /\ SameRaop /\ raop'.call = "stop" /\ raop'.step = "flush"
    BY <2>2 DEF RaopInv, RaopShaped, RaopShape, SameRaop, SameLink, SameSockets, SameStream, SameVolume
  <2> QED
    BY <1>0, <1>1, <1>2, <2>3, <2>4
    DEF RaopInv, RaopShaped, RaopLives, SetupAgrees, SocketsAgree, StreamAgrees, GoodbyeOnce,
        SameRaop, SameLink, SameSockets, SameStream, SameVolume, SameRemote, Spared, SameSetup
<1> QED
  BY <1>2 DEF RaopStop, Begins

LEMMA FeedbackKeeps == RaopInv /\ Feedback => RaopInv'
<1> SUFFICES ASSUME RaopInv, Feedback PROVE RaopInv'
  OBVIOUS
<1>0. raop.call = "none" /\ raop.alive
  BY DEF Feedback, Begins, Callable
<1>1. SameRemote
  BY DEF Feedback, Begins, RaopInv, RaopShaped, SetupAgrees, SameRemote, Spared, SameSetup, RemoteShape
<1>2. CASE raop' = [raop EXCEPT !.call = "feedback", !.step = "options", !.calls = @ + 1]
  <2>1. PICK c \in Nat : c = raop.calls + 1
    BY DEF RaopInv, RaopShaped, RaopShape
  <2>2. raop' = [raop EXCEPT !.call = "feedback", !.step = "options", !.calls = c]
    BY <1>2, <2>1
  <2>3. raop' \in RaopShape
    BY <2>2, <1>0 DEF RaopInv, RaopShaped, RaopShape, RaopCalls, RaopSteps
  <2>4. /\ SameRaop /\ raop'.call = "feedback" /\ raop'.step = "options"
    BY <2>2 DEF RaopInv, RaopShaped, RaopShape, SameRaop, SameLink, SameSockets, SameStream, SameVolume
  <2> QED
    BY <1>0, <1>1, <1>2, <2>3, <2>4
    DEF RaopInv, RaopShaped, RaopLives, SetupAgrees, SocketsAgree, StreamAgrees, GoodbyeOnce,
        SameRaop, SameLink, SameSockets, SameStream, SameVolume, SameRemote, Spared, SameSetup
<1> QED
  BY <1>2 DEF Feedback, Begins

LEMMA AnnounceKeeps == RaopInv /\ Announce => RaopInv'
<1> SUFFICES ASSUME RaopInv, Announce PROVE RaopInv'
  OBVIOUS
<1>0. raop.call \in {"setup", "start"} /\ raop.step = "announce"
  BY DEF Announce
<1>1. Spared /\ SameSetup /\ remote'.volume = remote.volume /\ remote'.torn = remote.torn
  <2>1. setup' = setup
    BY DEF Announce
  <2>2. \/ remote' \in {remote, [remote EXCEPT !.faults = @ + 1]}
        \/ remote' = Declared
        \/ remote' = [Declared EXCEPT !.faults = @ + 1]
    BY DEF Announce, Exchange, AnswersTo
  <2>3. /\ Declared \in RemoteShape /\ Declared.faults = remote.faults /\ Declared.announced
        /\ Declared.key = setup.rsa /\ Declared.timing = remote.timing
        /\ Declared.control = remote.control /\ Declared.setups = remote.setups
        /\ Declared.volume = remote.volume /\ Declared.torn = remote.torn
    BY DEF Declared, RaopInv, RaopShaped, RemoteShape
  <2> USE DEF RaopInv, RaopShaped, SetupAgrees, RemoteShape, Spared, SameSetup
  <2>4. CASE remote' \in {remote, [remote EXCEPT !.faults = @ + 1]}
    BY <2>1, <2>4
  <2>5. CASE remote' = Declared
    BY <2>1, <2>3, <2>5
  <2>6. CASE remote' = [Declared EXCEPT !.faults = @ + 1]
    BY <2>1, <2>3, <2>6
  <2> QED
    BY <2>2, <2>4, <2>5, <2>6
<1>2. CASE raop' = [raop EXCEPT !.call = "none", !.step = "none"]
  <2>1. raop' \in RaopShape
    BY <1>2, <1>0 DEF RaopInv, RaopShaped, RaopShape, RaopCalls, RaopSteps
  <2>2. /\ SameRaop /\ raop'.call = "none" /\ raop'.step = "none"
    BY <1>2 DEF RaopInv, RaopShaped, RaopShape, SameRaop, SameLink, SameSockets, SameStream, SameVolume
  <2> QED
    BY <1>0, <1>2, <2>1, <2>2, <1>1
    DEF RaopInv, RaopShaped, RaopLives, SetupAgrees, SocketsAgree, StreamAgrees, GoodbyeOnce,
        SameRaop, SameLink, SameSockets, SameStream, SameVolume, SameRemote, Spared, SameSetup
<1>3. CASE raop' = [raop EXCEPT !.session = "Announced", !.step = "setup"] /\ raop.session = "Connected"
  <2>1. raop' \in RaopShape
    BY <1>3, <1>0 DEF RaopInv, RaopShaped, RaopShape, RaopCalls, RaopSteps
  <2>2. /\ SameLink /\ SameSockets /\ raop'.session = "Announced"
        /\ raop'.streamer = raop.streamer /\ raop'.playback = raop.playback
        /\ raop'.cipher = raop.cipher /\ SameVolume /\ raop'.call = raop.call
        /\ raop'.step = "setup"
    BY <1>3 DEF RaopInv, RaopShaped, RaopShape, SameRaop, SameLink, SameSockets, SameStream, SameVolume
  <2> QED
    BY <1>0, <1>3, <2>1, <2>2, <1>1
    DEF RaopInv, RaopShaped, RaopLives, SetupAgrees, SocketsAgree, StreamAgrees, GoodbyeOnce,
        SameRaop, SameLink, SameSockets, SameStream, SameVolume, SameRemote, Spared, SameSetup
<1>4. CASE raop' = [raop EXCEPT !.step = "announce_auth"]
  <2>1. raop' \in RaopShape
    BY <1>4, <1>0 DEF RaopInv, RaopShaped, RaopShape, RaopCalls, RaopSteps
  <2>2. /\ SameRaop /\ raop'.call = raop.call /\ raop'.step = "announce_auth"
    BY <1>4 DEF RaopInv, RaopShaped, RaopShape, SameRaop, SameLink, SameSockets, SameStream, SameVolume
  <2> QED
    BY <1>0, <1>4, <2>1, <2>2, <1>1
    DEF RaopInv, RaopShaped, RaopLives, SetupAgrees, SocketsAgree, StreamAgrees, GoodbyeOnce,
        SameRaop, SameLink, SameSockets, SameStream, SameVolume, SameRemote, Spared, SameSetup
<1> QED
  BY <1>2, <1>3, <1>4 DEF Announce, Announced, Goes, Returns

LEMMA AnnounceAuthorizedKeeps == RaopInv /\ AnnounceAuthorized => RaopInv'
<1> SUFFICES ASSUME RaopInv, AnnounceAuthorized PROVE RaopInv'
  OBVIOUS
<1>0. raop.call \in {"setup", "start"} /\ raop.step = "announce_auth"
  BY DEF AnnounceAuthorized
<1>1. Spared /\ SameSetup /\ remote'.volume = remote.volume /\ remote'.torn = remote.torn
  <2>1. setup' = setup
    BY DEF AnnounceAuthorized
  <2>2. \/ remote' \in {remote, [remote EXCEPT !.faults = @ + 1]}
        \/ remote' = Declared
        \/ remote' = [Declared EXCEPT !.faults = @ + 1]
    BY DEF AnnounceAuthorized, Exchange, AnswersTo
  <2>3. /\ Declared \in RemoteShape /\ Declared.faults = remote.faults /\ Declared.announced
        /\ Declared.key = setup.rsa /\ Declared.timing = remote.timing
        /\ Declared.control = remote.control /\ Declared.setups = remote.setups
        /\ Declared.volume = remote.volume /\ Declared.torn = remote.torn
    BY DEF Declared, RaopInv, RaopShaped, RemoteShape
  <2> USE DEF RaopInv, RaopShaped, SetupAgrees, RemoteShape, Spared, SameSetup
  <2>4. CASE remote' \in {remote, [remote EXCEPT !.faults = @ + 1]}
    BY <2>1, <2>4
  <2>5. CASE remote' = Declared
    BY <2>1, <2>3, <2>5
  <2>6. CASE remote' = [Declared EXCEPT !.faults = @ + 1]
    BY <2>1, <2>3, <2>6
  <2> QED
    BY <2>2, <2>4, <2>5, <2>6
<1>2. CASE raop' = [raop EXCEPT !.call = "none", !.step = "none"]
  <2>1. raop' \in RaopShape
    BY <1>2, <1>0 DEF RaopInv, RaopShaped, RaopShape, RaopCalls, RaopSteps
  <2>2. /\ SameRaop /\ raop'.call = "none" /\ raop'.step = "none"
    BY <1>2 DEF RaopInv, RaopShaped, RaopShape, SameRaop, SameLink, SameSockets, SameStream, SameVolume
  <2> QED
    BY <1>0, <1>2, <2>1, <2>2, <1>1
    DEF RaopInv, RaopShaped, RaopLives, SetupAgrees, SocketsAgree, StreamAgrees, GoodbyeOnce,
        SameRaop, SameLink, SameSockets, SameStream, SameVolume, SameRemote, Spared, SameSetup
<1>3. CASE raop' = [raop EXCEPT !.session = "Announced", !.step = "setup"] /\ raop.session = "Connected"
  <2>1. raop' \in RaopShape
    BY <1>3, <1>0 DEF RaopInv, RaopShaped, RaopShape, RaopCalls, RaopSteps
  <2>2. /\ SameLink /\ SameSockets /\ raop'.session = "Announced"
        /\ raop'.streamer = raop.streamer /\ raop'.playback = raop.playback
        /\ raop'.cipher = raop.cipher /\ SameVolume /\ raop'.call = raop.call
        /\ raop'.step = "setup"
    BY <1>3 DEF RaopInv, RaopShaped, RaopShape, SameRaop, SameLink, SameSockets, SameStream, SameVolume
  <2> QED
    BY <1>0, <1>3, <2>1, <2>2, <1>1
    DEF RaopInv, RaopShaped, RaopLives, SetupAgrees, SocketsAgree, StreamAgrees, GoodbyeOnce,
        SameRaop, SameLink, SameSockets, SameStream, SameVolume, SameRemote, Spared, SameSetup
<1> QED
  BY <1>2, <1>3 DEF AnnounceAuthorized, Announced, Goes, Returns

\* The set-up a SETUP leaves behind, if it reached a receiver that knew the codec.
Accepts ==
  /\ Spared /\ remote'.volume = remote.volume /\ remote'.torn = remote.torn
  /\ remote'.timing = raop.timing /\ remote'.control = raop.control /\ remote'.setups = 1
  /\ remote.announced /\ ~raop.closed

LEMMA SetupRequestKeeps == RaopInv /\ SetupRequest => RaopInv'
<1> SUFFICES ASSUME RaopInv, SetupRequest PROVE RaopInv'
  OBVIOUS
<1>0. raop.call \in {"setup", "start"} /\ raop.step = "setup" /\ setup' = setup
  BY DEF SetupRequest
<1>1. PICK a \in {"ok", "refused", "lost"} :
        /\ Exchange("SETUP", FALSE, a, Accepted)
        /\ \/ a = "ok" /\ \E header \in SUBSET {"server", "control"} :
                Goes([raop EXCEPT !.session = "SetupComplete", !.ports = PortsOf(header)], "record")
           \/ Returns(raop)
  BY DEF SetupRequest
<1>2. (SameRemote \/ Accepts) /\ (a = "ok" => Accepts)
  <2>1. /\ Accepted \in RemoteShape /\ Accepted.faults = remote.faults
        /\ Accepted.announced = remote.announced /\ Accepted.key = remote.key
        /\ Accepted.timing = raop.timing /\ Accepted.control = raop.control
        /\ Accepted.setups = 1 /\ Accepted.volume = remote.volume /\ Accepted.torn = remote.torn
    <3>1. Accepted = [remote EXCEPT !.timing = raop.timing, !.control = raop.control, !.setups = 1]
      <4>1. remote.setups + 1 = 1
        BY <1>0 DEF RaopInv, SetupAgrees
      <4> QED
        BY <4>1 DEF Accepted
    <3> QED
      BY <3>1 DEF RaopInv, RaopShaped, RemoteShape, RaopShape
  <2>2. \/ remote' \in {remote, [remote EXCEPT !.faults = @ + 1]} /\ a # "ok"
        \/ remote' = Accepted /\ remote.announced /\ ~raop.closed
        \/ remote' = [Accepted EXCEPT !.faults = @ + 1] /\ remote.announced /\ ~raop.closed
    BY <1>1 DEF Exchange, AnswersTo
  <2>3. CASE remote' \in {remote, [remote EXCEPT !.faults = @ + 1]} /\ a # "ok"
    BY <1>0, <2>3 DEF RaopInv, RaopShaped, SetupAgrees, RemoteShape, SameRemote, Spared, SameSetup
  <2>6. remote.faults \in Nat /\ (remote.announced => remote.key = setup.rsa)
    BY DEF RaopInv, RaopShaped, SetupAgrees, RemoteShape
  <2>4. ASSUME remote' = Accepted, remote.announced, ~raop.closed PROVE Accepts
    <3>1. setup' = setup /\ remote' \in RemoteShape
      BY <1>0, <2>1, <2>4
    <3>2. remote.faults \in Nat /\ remote'.faults \in Nat /\ remote'.faults >= remote.faults
      BY <2>1, <2>4, <2>6
    <3>3. remote'.announced /\ remote'.key = setup.rsa
      BY <2>1, <2>4, <2>6
    <3>4. /\ remote'.volume = remote.volume /\ remote'.torn = remote.torn
          /\ remote'.timing = raop.timing /\ remote'.control = raop.control /\ remote'.setups = 1
      BY <2>1, <2>4
    <3> QED
      BY <3>1, <3>2, <3>3, <3>4, <2>4 DEF Accepts, Spared
  <2>5. ASSUME remote' = [Accepted EXCEPT !.faults = @ + 1], remote.announced, ~raop.closed
        PROVE  Accepts
    <3>1. setup' = setup /\ remote' \in RemoteShape
      BY <1>0, <2>1, <2>5 DEF RemoteShape
    <3>2. remote.faults \in Nat /\ remote'.faults \in Nat /\ remote'.faults >= remote.faults
      BY <2>1, <2>5, <2>6 DEF RemoteShape
    <3>3. remote'.announced /\ remote'.key = setup.rsa
      BY <2>1, <2>5, <2>6 DEF RemoteShape
    <3>4. /\ remote'.volume = remote.volume /\ remote'.torn = remote.torn
          /\ remote'.timing = raop.timing /\ remote'.control = raop.control /\ remote'.setups = 1
      BY <2>1, <2>5 DEF RemoteShape
    <3> QED
      BY <3>1, <3>2, <3>3, <3>4, <2>5 DEF Accepts, Spared
  <2> QED
    BY <2>2, <2>3, <2>4, <2>5
<1>3. CASE raop' = [raop EXCEPT !.call = "none", !.step = "none"]
  <2>1. raop' \in RaopShape
    BY <1>3, <1>0 DEF RaopInv, RaopShaped, RaopShape, RaopCalls, RaopSteps
  <2>2. /\ SameRaop /\ raop'.call = "none" /\ raop'.step = "none"
    BY <1>3 DEF RaopInv, RaopShaped, RaopShape, SameRaop, SameLink, SameSockets, SameStream, SameVolume
  <2> QED
    BY <1>0, <1>3, <2>1, <2>2, <1>2
    DEF RaopInv, RaopShaped, RaopLives, SetupAgrees, SocketsAgree, StreamAgrees, GoodbyeOnce,
        SameRaop, SameLink, SameSockets, SameStream, SameVolume, SameRemote, Spared, SameSetup, Accepts
<1>4. ASSUME NEW ports \in [{"server", "control"} -> {"server", "control", "zero"}], Accepts,
             raop' = [raop EXCEPT !.session = "SetupComplete", !.ports = ports, !.step = "record"]
      PROVE  RaopInv'
  <2>1. raop' \in RaopShape
    BY <1>4, <1>0 DEF RaopInv, RaopShaped, RaopShape, RaopCalls, RaopSteps
  <2>2. /\ SameLink /\ SameSockets /\ raop'.session = "SetupComplete"
        /\ raop'.streamer = raop.streamer /\ raop'.playback = raop.playback
        /\ raop'.cipher = raop.cipher /\ SameVolume /\ raop'.call = raop.call
        /\ raop'.step = "record"
    BY <1>4 DEF RaopInv, RaopShaped, RaopShape, SameRaop, SameLink, SameSockets, SameStream, SameVolume
  <2> QED
    BY <1>0, <1>4, <2>1, <2>2, <1>4
    DEF RaopInv, RaopShaped, RaopLives, SetupAgrees, SocketsAgree, StreamAgrees, GoodbyeOnce,
        SameRaop, SameLink, SameSockets, SameStream, SameVolume, SameRemote, Spared, SameSetup, Accepts
<1>5. \A header \in SUBSET {"server", "control"} :
        PortsOf(header) \in [{"server", "control"} -> {"server", "control", "zero"}]
  BY DEF PortsOf
<1> QED
  BY <1>1, <1>2, <1>3, <1>4, <1>5 DEF Goes, Returns

LEMMA RecordRequestKeeps == RaopInv /\ RecordRequest => RaopInv'
<1> SUFFICES ASSUME RaopInv, RecordRequest PROVE RaopInv'
  OBVIOUS
<1>0. raop.call \in {"setup", "start"} /\ raop.step = "record"
  BY DEF RecordRequest
<1>1. SameRemote
  <2>1. \/ remote' \in {remote, [remote EXCEPT !.faults = @ + 1]}
        \/ remote' = [remote EXCEPT !.recording = TRUE]
        \/ remote' = [[remote EXCEPT !.recording = TRUE] EXCEPT !.faults = @ + 1]
    BY DEF RecordRequest, InCall, Exchange, AnswersTo
  <2>2. setup' = setup
    BY DEF RecordRequest, InCall
  <2> QED
    BY <2>1, <2>2, RemoteRests
<1>2. CASE raop' = [raop EXCEPT !.call = "none", !.step = "none"]
  <2>1. raop' \in RaopShape
    BY <1>2, <1>0 DEF RaopInv, RaopShaped, RaopShape, RaopCalls, RaopSteps
  <2>2. /\ SameRaop /\ raop'.call = "none" /\ raop'.step = "none"
    BY <1>2 DEF RaopInv, RaopShaped, RaopShape, SameRaop, SameLink, SameSockets, SameStream, SameVolume
  <2> QED
    BY <1>0, <1>2, <2>1, <2>2, <1>1
    DEF RaopInv, RaopShaped, RaopLives, SetupAgrees, SocketsAgree, StreamAgrees, GoodbyeOnce,
        SameRaop, SameLink, SameSockets, SameStream, SameVolume, SameRemote, Spared, SameSetup
<1>3. CASE raop' = [raop EXCEPT !.step = "stream"] /\ raop.call = "start"
  <2>1. raop' \in RaopShape
    BY <1>3, <1>0 DEF RaopInv, RaopShaped, RaopShape, RaopCalls, RaopSteps
  <2>2. /\ SameRaop /\ raop'.call = raop.call /\ raop'.step = "stream"
    BY <1>3 DEF RaopInv, RaopShaped, RaopShape, SameRaop, SameLink, SameSockets, SameStream, SameVolume
  <2> QED
    BY <1>0, <1>3, <2>1, <2>2, <1>1
    DEF RaopInv, RaopShaped, RaopLives, SetupAgrees, SocketsAgree, StreamAgrees, GoodbyeOnce,
        SameRaop, SameLink, SameSockets, SameStream, SameVolume, SameRemote, Spared, SameSetup
<1> QED
  BY <1>0, <1>2, <1>3 DEF RecordRequest, Returns, Goes

LEMMA StreamKeeps == RaopInv /\ Stream => RaopInv'
<1> SUFFICES ASSUME RaopInv, Stream PROVE RaopInv'
  OBVIOUS
<1>0. raop.call = "start" /\ raop.step = "stream"
  BY DEF Stream, InCall
<1>1. SameRemote
  BY DEF Stream, InCall, Begins, RaopInv, RaopShaped, SetupAgrees, SameRemote, Spared, SameSetup, RemoteShape
<1>2. CASE raop' = [raop EXCEPT !.call = "none", !.step = "none"]
  <2>1. raop' \in RaopShape
    BY <1>2, <1>0 DEF RaopInv, RaopShaped, RaopShape, RaopCalls, RaopSteps
  <2>2. /\ SameRaop /\ raop'.call = "none" /\ raop'.step = "none"
    BY <1>2 DEF RaopInv, RaopShaped, RaopShape, SameRaop, SameLink, SameSockets, SameStream, SameVolume
  <2> QED
    BY <1>0, <1>2, <2>1, <2>2, <1>1
    DEF RaopInv, RaopShaped, RaopLives, SetupAgrees, SocketsAgree, StreamAgrees, GoodbyeOnce,
        SameRaop, SameLink, SameSockets, SameStream, SameVolume, SameRemote, Spared, SameSetup
<1>3. CASE raop' = [raop EXCEPT !.streamer = "on", !.cipher = setup.rsa, !.session = "Playing", !.step = "level"]
  <2>1. raop' \in RaopShape
    BY <1>3, <1>0 DEF RaopInv, RaopShaped, RaopShape, RaopCalls, RaopSteps
  <2>2. /\ SameLink /\ SameSockets /\ raop'.session = "Playing" /\ raop'.streamer = "on"
        /\ raop'.playback = raop.playback /\ raop'.cipher = setup.rsa /\ SameVolume
        /\ raop'.call = raop.call /\ raop'.step = "level"
    BY <1>3 DEF RaopInv, RaopShaped, RaopShape, SameRaop, SameLink, SameSockets, SameStream, SameVolume
  <2> QED
    BY <1>0, <1>3, <2>1, <2>2, <1>1
    DEF RaopInv, RaopShaped, RaopLives, SetupAgrees, SocketsAgree, StreamAgrees, GoodbyeOnce,
        SameRaop, SameLink, SameSockets, SameStream, SameVolume, SameRemote, Spared, SameSetup
<1> QED
  BY <1>2, <1>3 DEF Stream, Returns, Goes

\* The volume a SET_PARAMETER leaves behind: the new one if it was answered.
Levels(a) ==
  /\ Spared /\ SameSetup /\ remote'.torn = remote.torn
  /\ remote'.volume \in {remote.volume, raop.volume} /\ (a = "ok" => remote'.volume = raop.volume)

LEMMA StartLevelKeeps == RaopInv /\ StartLevel => RaopInv'
<1> SUFFICES ASSUME RaopInv, StartLevel PROVE RaopInv'
  OBVIOUS
<1>0. raop.call = "start" /\ raop.step = "level"
  BY DEF StartLevel, InCall
<1>1. PICK a \in {"ok", "refused", "lost"} :
        /\ Exchange("SET_PARAMETER", FALSE, a, [remote EXCEPT !.volume = raop.volume])
        /\ Returns([raop EXCEPT !.playback = "Playing", !.told = a = "ok"])
  BY DEF StartLevel
<1>2. PICK l \in BOOLEAN : l = (a = "ok")
  OBVIOUS
<1>5. l => a = "ok"
  BY <1>2
<1>3. Levels(a)
  <2> DEFINE s == [remote EXCEPT !.volume = raop.volume]
  <2>1. /\ s \in RemoteShape /\ s.faults = remote.faults /\ s.announced = remote.announced
        /\ s.key = remote.key /\ s.timing = remote.timing /\ s.control = remote.control
        /\ s.setups = remote.setups /\ s.volume = raop.volume /\ s.torn = remote.torn
    BY DEF RaopInv, RaopShaped, RaopShape, RemoteShape
  <2>2. \/ remote' \in {remote, [remote EXCEPT !.faults = @ + 1]} /\ a # "ok"
        \/ remote' = s
        \/ remote' = [s EXCEPT !.faults = @ + 1]
    BY <1>1 DEF Exchange, AnswersTo
  <2>3. setup' = setup
    BY DEF StartLevel, InCall
  <2> HIDE DEF s
  <2> USE DEF RaopInv, RaopShaped, SetupAgrees, RemoteShape, Spared, SameSetup, Levels
  <2>4. CASE remote' \in {remote, [remote EXCEPT !.faults = @ + 1]} /\ a # "ok"
    BY <2>3, <2>4
  <2>5. CASE remote' = s
    BY <2>1, <2>3, <2>5
  <2>6. CASE remote' = [s EXCEPT !.faults = @ + 1]
    BY <2>1, <2>3, <2>6
  <2> QED
    BY <2>2, <2>4, <2>5, <2>6
<1>4. CASE raop' = [raop EXCEPT !.playback = "Playing", !.told = l, !.call = "none", !.step = "none"]
  <2>1. raop' \in RaopShape
    BY <1>4, <1>0 DEF RaopInv, RaopShaped, RaopShape, RaopCalls, RaopSteps
  <2>2. /\ SameLink /\ SameSockets /\ raop'.session = raop.session
        /\ raop'.streamer = raop.streamer /\ raop'.playback = "Playing"
        /\ raop'.cipher = raop.cipher /\ raop'.volume = raop.volume /\ raop'.told = l
        /\ raop'.call = "none" /\ raop'.step = "none"
    BY <1>4 DEF RaopInv, RaopShaped, RaopShape, SameRaop, SameLink, SameSockets, SameStream, SameVolume
  <2> QED
    BY <1>0, <1>4, <2>1, <2>2, <1>5, <1>3
    DEF RaopInv, RaopShaped, RaopLives, SetupAgrees, SocketsAgree, StreamAgrees, GoodbyeOnce,
        SameRaop, SameLink, SameSockets, SameStream, SameVolume, SameRemote, Spared, SameSetup, Levels
<1> QED
  BY <1>1, <1>2, <1>4 DEF Returns

LEMMA VolumeLevelKeeps == RaopInv /\ VolumeLevel => RaopInv'
<1> SUFFICES ASSUME RaopInv, VolumeLevel PROVE RaopInv'
  OBVIOUS
<1>0. raop.call = "volume" /\ raop.step = "level"
  BY DEF VolumeLevel, InCall
<1>1. PICK a \in {"ok", "refused", "lost"} :
        /\ Exchange("SET_PARAMETER", FALSE, a, [remote EXCEPT !.volume = raop.volume])
        /\ Returns([raop EXCEPT !.told = a = "ok"])
  BY DEF VolumeLevel
<1>2. PICK l \in BOOLEAN : l = (a = "ok")
  OBVIOUS
<1>5. l => a = "ok"
  BY <1>2
<1>3. Levels(a)
  <2> DEFINE s == [remote EXCEPT !.volume = raop.volume]
  <2>1. /\ s \in RemoteShape /\ s.faults = remote.faults /\ s.announced = remote.announced
        /\ s.key = remote.key /\ s.timing = remote.timing /\ s.control = remote.control
        /\ s.setups = remote.setups /\ s.volume = raop.volume /\ s.torn = remote.torn
    BY DEF RaopInv, RaopShaped, RaopShape, RemoteShape
  <2>2. \/ remote' \in {remote, [remote EXCEPT !.faults = @ + 1]} /\ a # "ok"
        \/ remote' = s
        \/ remote' = [s EXCEPT !.faults = @ + 1]
    BY <1>1 DEF Exchange, AnswersTo
  <2>3. setup' = setup
    BY DEF VolumeLevel, InCall
  <2> HIDE DEF s
  <2> USE DEF RaopInv, RaopShaped, SetupAgrees, RemoteShape, Spared, SameSetup, Levels
  <2>4. CASE remote' \in {remote, [remote EXCEPT !.faults = @ + 1]} /\ a # "ok"
    BY <2>3, <2>4
  <2>5. CASE remote' = s
    BY <2>1, <2>3, <2>5
  <2>6. CASE remote' = [s EXCEPT !.faults = @ + 1]
    BY <2>1, <2>3, <2>6
  <2> QED
    BY <2>2, <2>4, <2>5, <2>6
<1>4. CASE raop' = [raop EXCEPT !.told = l, !.call = "none", !.step = "none"]
  <2>1. raop' \in RaopShape
    BY <1>4, <1>0 DEF RaopInv, RaopShaped, RaopShape, RaopCalls, RaopSteps
  <2>2. /\ SameLink /\ SameSockets /\ SameStream /\ raop'.volume = raop.volume /\ raop'.told = l
        /\ raop'.call = "none" /\ raop'.step = "none"
    BY <1>4 DEF RaopInv, RaopShaped, RaopShape, SameRaop, SameLink, SameSockets, SameStream, SameVolume
  <2> QED
    BY <1>0, <1>4, <2>1, <2>2, <1>5, <1>3
    DEF RaopInv, RaopShaped, RaopLives, SetupAgrees, SocketsAgree, StreamAgrees, GoodbyeOnce,
        SameRaop, SameLink, SameSockets, SameStream, SameVolume, SameRemote, Spared, SameSetup, Levels
<1> QED
  BY <1>1, <1>2, <1>4 DEF Returns

LEMMA PauseFlushKeeps == RaopInv /\ PauseFlush => RaopInv'
<1> SUFFICES ASSUME RaopInv, PauseFlush PROVE RaopInv'
  OBVIOUS
<1>0. raop.call = "pause" /\ raop.step = "flush"
  BY DEF PauseFlush, InCall
<1>1. SameRemote
  <2>1. \/ remote' \in {remote, [remote EXCEPT !.faults = @ + 1]}
        \/ remote' = [remote EXCEPT !.recording = FALSE]
        \/ remote' = [[remote EXCEPT !.recording = FALSE] EXCEPT !.faults = @ + 1]
    BY DEF PauseFlush, Flushed, InCall, Exchange, AnswersTo
  <2>2. setup' = setup
    BY DEF PauseFlush, Flushed, InCall
  <2> QED
    BY <2>1, <2>2, RemoteRests
<1>2. CASE raop' = [raop EXCEPT !.call = "none", !.step = "none"] /\ raop.streamer # "on"
  <2>1. raop' \in RaopShape
    BY <1>2, <1>0 DEF RaopInv, RaopShaped, RaopShape, RaopCalls, RaopSteps
  <2>2. /\ SameRaop /\ raop'.call = "none" /\ raop'.step = "none"
    BY <1>2 DEF RaopInv, RaopShaped, RaopShape, SameRaop, SameLink, SameSockets, SameStream, SameVolume
  <2> QED
    BY <1>0, <1>2, <2>1, <2>2, <1>1
    DEF RaopInv, RaopShaped, RaopLives, SetupAgrees, SocketsAgree, StreamAgrees, GoodbyeOnce,
        SameRaop, SameLink, SameSockets, SameStream, SameVolume, SameRemote, Spared, SameSetup
<1>3. CASE raop' = [raop EXCEPT !.streamer = "paused", !.call = "none", !.step = "none"] /\ raop.streamer = "on"
  <2>1. raop' \in RaopShape
    BY <1>3, <1>0 DEF RaopInv, RaopShaped, RaopShape, RaopCalls, RaopSteps
  <2>2. /\ SameLink /\ SameSockets /\ raop'.session = raop.session /\ raop'.streamer = "paused"
        /\ raop'.playback = raop.playback /\ raop'.cipher = raop.cipher /\ SameVolume
        /\ raop'.call = "none" /\ raop'.step = "none"
    BY <1>3 DEF RaopInv, RaopShaped, RaopShape, SameRaop, SameLink, SameSockets, SameStream, SameVolume
  <2> QED
    BY <1>0, <1>3, <2>1, <2>2, <1>1
    DEF RaopInv, RaopShaped, RaopLives, SetupAgrees, SocketsAgree, StreamAgrees, GoodbyeOnce,
        SameRaop, SameLink, SameSockets, SameStream, SameVolume, SameRemote, Spared, SameSetup
<1>4. CASE raop' = [raop EXCEPT !.session = "Paused", !.playback = "Paused", !.call = "none", !.step = "none"] /\ raop.session = "Playing" /\ raop.streamer # "on"
  <2>1. raop' \in RaopShape
    BY <1>4, <1>0 DEF RaopInv, RaopShaped, RaopShape, RaopCalls, RaopSteps
  <2>2. /\ SameLink /\ SameSockets /\ raop'.session = "Paused" /\ raop'.streamer = raop.streamer
        /\ raop'.playback = "Paused" /\ raop'.cipher = raop.cipher /\ SameVolume
        /\ raop'.call = "none" /\ raop'.step = "none"
    BY <1>4 DEF RaopInv, RaopShaped, RaopShape, SameRaop, SameLink, SameSockets, SameStream, SameVolume
  <2> QED
    BY <1>0, <1>4, <2>1, <2>2, <1>1
    DEF RaopInv, RaopShaped, RaopLives, SetupAgrees, SocketsAgree, StreamAgrees, GoodbyeOnce,
        SameRaop, SameLink, SameSockets, SameStream, SameVolume, SameRemote, Spared, SameSetup
<1>5. CASE raop' = [raop EXCEPT !.streamer = "paused", !.session = "Paused", !.playback = "Paused", !.call = "none", !.step = "none"]
               /\ raop.session = "Playing" /\ raop.streamer = "on"
  <2>1. raop' \in RaopShape
    BY <1>5, <1>0 DEF RaopInv, RaopShaped, RaopShape, RaopCalls, RaopSteps
  <2>2. /\ SameLink /\ SameSockets /\ raop'.session = "Paused" /\ raop'.streamer = "paused"
        /\ raop'.playback = "Paused" /\ raop'.cipher = raop.cipher /\ SameVolume
        /\ raop'.call = "none" /\ raop'.step = "none"
    BY <1>5 DEF RaopInv, RaopShaped, RaopShape, SameRaop, SameLink, SameSockets, SameStream, SameVolume
  <2> QED
    BY <1>0, <1>5, <2>1, <2>2, <1>1
    DEF RaopInv, RaopShaped, RaopLives, SetupAgrees, SocketsAgree, StreamAgrees, GoodbyeOnce,
        SameRaop, SameLink, SameSockets, SameStream, SameVolume, SameRemote, Spared, SameSetup
<1> QED
  BY <1>2, <1>3, <1>4, <1>5 DEF PauseFlush, Returns, Turn

LEMMA ResumeRecordKeeps == RaopInv /\ ResumeRecord => RaopInv'
<1> SUFFICES ASSUME RaopInv, ResumeRecord PROVE RaopInv'
  OBVIOUS
<1>0. raop.call = "resume" /\ raop.step = "record"
  BY DEF ResumeRecord, InCall
<1>1. SameRemote
  <2>1. \/ remote' \in {remote, [remote EXCEPT !.faults = @ + 1]}
        \/ remote' = [remote EXCEPT !.recording = TRUE]
        \/ remote' = [[remote EXCEPT !.recording = TRUE] EXCEPT !.faults = @ + 1]
    BY DEF ResumeRecord, InCall, Exchange, AnswersTo
  <2>2. setup' = setup
    BY DEF ResumeRecord, InCall
  <2> QED
    BY <2>1, <2>2, RemoteRests
<1>6. PICK a \in {"ok", "refused", "lost"} :
        /\ Exchange("RECORD", FALSE, a, [remote EXCEPT !.recording = TRUE])
        /\ Returns(IF a # "lost" /\ raop.session \in {"SetupComplete", "Paused"}
                   THEN [Turn(raop, "paused", "on") EXCEPT !.session = "Playing",
                                                           !.playback = "Playing"]
                   ELSE Turn(raop, "paused", "on"))
  BY DEF ResumeRecord
<1>7. a = "lost" => raop.closed \/ remote'.faults > 0
  <2>1. CASE a = "lost" /\ ~raop.closed
    <3>1. PICK s \in {remote, [remote EXCEPT !.recording = TRUE]} :
            remote' = [s EXCEPT !.faults = @ + 1]
      BY <1>6, <2>1 DEF Exchange
    <3>2. s.faults = remote.faults /\ s \in RemoteShape
      BY <3>1 DEF RaopInv, RaopShaped, RemoteShape
    <3>3. remote'.faults = remote.faults + 1 /\ remote.faults \in Nat
      BY <3>1, <3>2 DEF RaopInv, RaopShaped, RemoteShape
    <3> QED
      BY <3>3
  <2> QED
    BY <2>1
<1>8. \/ a # "lost" /\ raop.session \in {"SetupComplete", "Paused"}
      \/ raop.playback = "Paused" => raop.closed \/ remote'.faults > 0 \/ raop.session = "TearingDown"
  BY <1>7 DEF RaopInv, StreamAgrees
<1>2. CASE raop' = [raop EXCEPT !.call = "none", !.step = "none"] /\ raop.streamer # "paused"
  <2>1. raop' \in RaopShape
    BY <1>2, <1>0 DEF RaopInv, RaopShaped, RaopShape, RaopCalls, RaopSteps
  <2>2. /\ SameRaop /\ raop'.call = "none" /\ raop'.step = "none"
    BY <1>2 DEF RaopInv, RaopShaped, RaopShape, SameRaop, SameLink, SameSockets, SameStream, SameVolume
  <2> QED
    BY <1>0, <1>2, <2>1, <2>2, <1>1
    DEF RaopInv, RaopShaped, RaopLives, SetupAgrees, SocketsAgree, StreamAgrees, GoodbyeOnce,
        SameRaop, SameLink, SameSockets, SameStream, SameVolume, SameRemote, Spared, SameSetup
<1>3. CASE raop' = [raop EXCEPT !.streamer = "on", !.call = "none", !.step = "none"]
               /\ raop.streamer = "paused" /\ (raop.playback = "Paused" => remote'.faults > 0)
  <2>1. raop' \in RaopShape
    BY <1>3, <1>0 DEF RaopInv, RaopShaped, RaopShape, RaopCalls, RaopSteps
  <2>2. /\ SameLink /\ SameSockets /\ raop'.session = raop.session /\ raop'.streamer = "on"
        /\ raop'.playback = raop.playback /\ raop'.cipher = raop.cipher /\ SameVolume
        /\ raop'.call = "none" /\ raop'.step = "none"
    BY <1>3 DEF RaopInv, RaopShaped, RaopShape, SameRaop, SameLink, SameSockets, SameStream, SameVolume
  <2> QED
    BY <1>0, <1>3, <2>1, <2>2, <1>1
    DEF RaopInv, RaopShaped, RaopLives, SetupAgrees, SocketsAgree, StreamAgrees, GoodbyeOnce,
        SameRaop, SameLink, SameSockets, SameStream, SameVolume, SameRemote, Spared, SameSetup
<1>4. CASE raop' = [raop EXCEPT !.session = "Playing", !.playback = "Playing", !.call = "none", !.step = "none"]
               /\ raop.session \in {"SetupComplete", "Paused"} /\ raop.streamer # "paused"
  <2>1. raop' \in RaopShape
    BY <1>4, <1>0 DEF RaopInv, RaopShaped, RaopShape, RaopCalls, RaopSteps
  <2>2. /\ SameLink /\ SameSockets /\ raop'.session = "Playing"
        /\ raop'.streamer = raop.streamer /\ raop'.playback = "Playing"
        /\ raop'.cipher = raop.cipher /\ SameVolume /\ raop'.call = "none"
        /\ raop'.step = "none"
    BY <1>4 DEF RaopInv, RaopShaped, RaopShape, SameRaop, SameLink, SameSockets, SameStream, SameVolume
  <2> QED
    BY <1>0, <1>4, <2>1, <2>2, <1>1
    DEF RaopInv, RaopShaped, RaopLives, SetupAgrees, SocketsAgree, StreamAgrees, GoodbyeOnce,
        SameRaop, SameLink, SameSockets, SameStream, SameVolume, SameRemote, Spared, SameSetup
<1>5. CASE raop' = [raop EXCEPT !.streamer = "on", !.session = "Playing", !.playback = "Playing", !.call = "none", !.step = "none"]
               /\ raop.session \in {"SetupComplete", "Paused"} /\ raop.streamer = "paused"
  <2>1. raop' \in RaopShape
    BY <1>5, <1>0 DEF RaopInv, RaopShaped, RaopShape, RaopCalls, RaopSteps
  <2>2. /\ SameLink /\ SameSockets /\ raop'.session = "Playing" /\ raop'.streamer = "on"
        /\ raop'.playback = "Playing" /\ raop'.cipher = raop.cipher /\ SameVolume
        /\ raop'.call = "none" /\ raop'.step = "none"
    BY <1>5 DEF RaopInv, RaopShaped, RaopShape, SameRaop, SameLink, SameSockets, SameStream, SameVolume
  <2> QED
    BY <1>0, <1>5, <2>1, <2>2, <1>1
    DEF RaopInv, RaopShaped, RaopLives, SetupAgrees, SocketsAgree, StreamAgrees, GoodbyeOnce,
        SameRaop, SameLink, SameSockets, SameStream, SameVolume, SameRemote, Spared, SameSetup
<1>9. raop.streamer = "paused" => raop.session # "TearingDown" /\ ~raop.closed
  BY <1>0 DEF RaopInv, StreamAgrees, RaopLives
<1> QED
  BY <1>2, <1>3, <1>4, <1>5, <1>6, <1>8, <1>9 DEF Returns, Turn

LEMMA StopFlushKeeps == RaopInv /\ StopFlush => RaopInv'
<1> SUFFICES ASSUME RaopInv, StopFlush PROVE RaopInv'
  OBVIOUS
<1>0. raop.call = "stop" /\ raop.step = "flush"
  BY DEF StopFlush, InCall
<1>1. SameRemote
  <2>1. \/ remote' \in {remote, [remote EXCEPT !.faults = @ + 1]}
        \/ remote' = [remote EXCEPT !.recording = FALSE]
        \/ remote' = [[remote EXCEPT !.recording = FALSE] EXCEPT !.faults = @ + 1]
    BY DEF StopFlush, Flushed, InCall, Exchange, AnswersTo
  <2>2. setup' = setup
    BY DEF StopFlush, Flushed, InCall
  <2> QED
    BY <2>1, <2>2, RemoteRests
<1>2. CASE raop' = [raop EXCEPT !.streamer = "stopped", !.playback = "Stopped", !.call = "none", !.step = "none"] /\ raop.streamer # "none"
  <2>1. raop' \in RaopShape
    BY <1>2, <1>0 DEF RaopInv, RaopShaped, RaopShape, RaopCalls, RaopSteps
  <2>2. /\ SameLink /\ SameSockets /\ raop'.session = raop.session /\ raop'.streamer = "stopped"
        /\ raop'.playback = "Stopped" /\ raop'.cipher = raop.cipher /\ SameVolume
        /\ raop'.call = "none" /\ raop'.step = "none"
    BY <1>2 DEF RaopInv, RaopShaped, RaopShape, SameRaop, SameLink, SameSockets, SameStream, SameVolume
  <2> QED
    BY <1>0, <1>2, <2>1, <2>2, <1>1
    DEF RaopInv, RaopShaped, RaopLives, SetupAgrees, SocketsAgree, StreamAgrees, GoodbyeOnce,
        SameRaop, SameLink, SameSockets, SameStream, SameVolume, SameRemote, Spared, SameSetup
<1>3. CASE raop' = [raop EXCEPT !.streamer = "none", !.playback = "Stopped", !.call = "none", !.step = "none"] /\ raop.streamer = "none"
  <2>1. raop' \in RaopShape
    BY <1>3, <1>0 DEF RaopInv, RaopShaped, RaopShape, RaopCalls, RaopSteps
  <2>2. /\ SameLink /\ SameSockets /\ raop'.session = raop.session /\ raop'.streamer = "none"
        /\ raop'.playback = "Stopped" /\ raop'.cipher = raop.cipher /\ SameVolume
        /\ raop'.call = "none" /\ raop'.step = "none"
    BY <1>3 DEF RaopInv, RaopShaped, RaopShape, SameRaop, SameLink, SameSockets, SameStream, SameVolume
  <2> QED
    BY <1>0, <1>3, <2>1, <2>2, <1>1
    DEF RaopInv, RaopShaped, RaopLives, SetupAgrees, SocketsAgree, StreamAgrees, GoodbyeOnce,
        SameRaop, SameLink, SameSockets, SameStream, SameVolume, SameRemote, Spared, SameSetup
<1> QED
  BY <1>2, <1>3 DEF StopFlush, Returns

LEMMA FeedbackOptionsKeep == RaopInv /\ FeedbackOptions => RaopInv'
<1> SUFFICES ASSUME RaopInv, FeedbackOptions PROVE RaopInv'
  OBVIOUS
<1>0. raop.call = "feedback" /\ raop.step = "options"
  BY DEF FeedbackOptions, InCall
<1>1. SameRemote
  <2>1. \/ remote' \in {remote, [remote EXCEPT !.faults = @ + 1]}
        \/ remote' = [remote EXCEPT !.recording = TRUE]
        \/ remote' = [[remote EXCEPT !.recording = TRUE] EXCEPT !.faults = @ + 1]
    BY DEF FeedbackOptions, InCall, Exchange, AnswersTo
  <2>2. setup' = setup
    BY DEF FeedbackOptions, InCall
  <2> QED
    BY <2>1, <2>2, RemoteRests
<1>2. CASE raop' = [raop EXCEPT !.call = "none", !.step = "none"]
  <2>1. raop' \in RaopShape
    BY <1>2, <1>0 DEF RaopInv, RaopShaped, RaopShape, RaopCalls, RaopSteps
  <2>2. /\ SameRaop /\ raop'.call = "none" /\ raop'.step = "none"
    BY <1>2 DEF RaopInv, RaopShaped, RaopShape, SameRaop, SameLink, SameSockets, SameStream, SameVolume
  <2> QED
    BY <1>0, <1>2, <2>1, <2>2, <1>1
    DEF RaopInv, RaopShaped, RaopLives, SetupAgrees, SocketsAgree, StreamAgrees, GoodbyeOnce,
        SameRaop, SameLink, SameSockets, SameStream, SameVolume, SameRemote, Spared, SameSetup
<1> QED
  BY <1>2 DEF FeedbackOptions, Returns

LEMMA Clamps == \A v \in Int : Clamped(v) \in 0..FullVolume
<1> SUFFICES ASSUME NEW v \in Int PROVE Clamped(v) \in 0..FullVolume
  OBVIOUS
<1>1. FullVolume \in Nat
  BY RaopAssumption
<1>2. PICK low \in {FullVolume, v} : \A y \in {FullVolume, v} : low <= y
  BY <1>1
<1> DEFINE l == Min({FullVolume, v})
<1>3. l \in {FullVolume, v} /\ \A y \in {FullVolume, v} : l <= y
  BY <1>2 DEF Min
<1> HIDE DEF l
<1>4. PICK high \in {0, l} : \A y \in {0, l} : high >= y
  BY <1>1, <1>3
<1> DEFINE h == Max({0, l})
<1>5. h \in {0, l} /\ \A y \in {0, l} : h >= y
  BY <1>4 DEF Max
<1> HIDE DEF h
<1>6. h \in 0..FullVolume
  BY <1>1, <1>3, <1>5
<1> QED
  BY <1>6 DEF Clamped, h, l

LEMMA RaopSetVolumeKeeps == RaopInv /\ RaopSetVolume => RaopInv'
<1> SUFFICES ASSUME RaopInv, RaopSetVolume PROVE RaopInv'
  OBVIOUS
<1>0. raop.call = "none" /\ raop.alive
  BY DEF RaopSetVolume, Begins, Callable
<1>1. SameRemote
  BY DEF RaopSetVolume, Begins, RaopInv, RaopShaped, SetupAgrees, SameRemote, Spared, SameSetup, RemoteShape
<1>2. PICK v \in {-1, FullVolume + 1} \cup 0..FullVolume :
        raop' = [raop EXCEPT !.call = "volume", !.step = "level", !.calls = @ + 1,
                             !.volume = Clamped(v)]
  BY DEF RaopSetVolume
<1>3. PICK w \in 0..FullVolume : w = Clamped(v)
  BY Clamps, RaopAssumption
<1>4. PICK c \in Nat : c = raop.calls + 1
  BY DEF RaopInv, RaopShaped, RaopShape
<1>5. raop' = [raop EXCEPT !.call = "volume", !.step = "level", !.calls = c, !.volume = w]
  BY <1>2, <1>3, <1>4
<1>6. raop' \in RaopShape
  BY ZenonT(30), <1>5 DEF RaopInv, RaopShaped, RaopShape, RaopCalls, RaopSteps
<1>7. /\ SameLink /\ SameSockets /\ SameStream /\ raop'.volume = w /\ raop'.told = raop.told
      /\ raop'.call = "volume" /\ raop'.step = "level"
  BY <1>5 DEF RaopInv, RaopShaped, RaopShape, SameRaop, SameLink, SameSockets, SameStream, SameVolume
<1> QED
  BY <1>0, <1>1, <1>6, <1>7
  DEF RaopInv, RaopShaped, RaopLives, SetupAgrees, SocketsAgree, StreamAgrees, GoodbyeOnce,
      SameRaop, SameLink, SameSockets, SameStream, SameVolume, SameRemote, Spared, SameSetup

LEMMA RaopDisconnectKeeps == RaopInv /\ RaopDisconnect => RaopInv'
<1> SUFFICES ASSUME RaopInv, RaopDisconnect PROVE RaopInv'
  OBVIOUS
<1>0. raop.call = "none" /\ raop.alive /\ ~raop.disconnected
  BY DEF RaopDisconnect
<1>1. SameRemote
  BY DEF RaopDisconnect, Begins, RaopInv, RaopShaped, SetupAgrees, SameRemote, Spared, SameSetup, RemoteShape
<1>2. CASE raop' = [raop EXCEPT !.disconnected = TRUE, !.streamer = "none", !.timing = 0,
                                  !.control = 0, !.session = "TearingDown", !.call = "disconnect", !.step = "teardown"]
  <2>1. raop' \in RaopShape
    BY ZenonT(30), <1>2, <1>0 DEF RaopInv, RaopShaped, RaopShape, RaopCalls, RaopSteps
  <2>2. /\ raop'.alive = raop.alive /\ raop'.closed = raop.closed /\ raop'.disconnected = TRUE
        /\ raop'.late = raop.late /\ raop'.timing = 0 /\ raop'.control = 0
        /\ raop'.opened = raop.opened /\ raop'.session = "TearingDown"
        /\ raop'.streamer = "none" /\ raop'.playback = raop.playback
        /\ raop'.cipher = raop.cipher /\ SameVolume /\ raop'.call = "disconnect"
        /\ raop'.step = "teardown"
    BY <1>2 DEF RaopInv, RaopShaped, RaopShape, SameRaop, SameLink, SameSockets, SameStream, SameVolume
  <2> QED
    BY <1>0, <1>2, <2>1, <2>2, <1>1
    DEF RaopInv, RaopShaped, RaopLives, SetupAgrees, SocketsAgree, StreamAgrees, GoodbyeOnce,
        SameRaop, SameLink, SameSockets, SameStream, SameVolume, SameRemote, Spared, SameSetup
<1> QED
  BY <1>2 DEF RaopDisconnect

LEMMA RaopDisconnectAgainKeeps == RaopInv /\ RaopDisconnectAgain => RaopInv'
<1> SUFFICES ASSUME RaopInv, RaopDisconnectAgain PROVE RaopInv'
  OBVIOUS
<1>0. raop.call = "none" /\ raop.alive
  BY DEF RaopDisconnectAgain, Begins, Callable
<1>1. SameRemote
  BY DEF RaopDisconnectAgain, Begins, RaopInv, RaopShaped, SetupAgrees, SameRemote, Spared, SameSetup, RemoteShape
<1>2. CASE raop' = [raop EXCEPT !.calls = @ + 1]
  <2>1. PICK c \in Nat : c = raop.calls + 1
    BY DEF RaopInv, RaopShaped, RaopShape
  <2>2. raop' = [raop EXCEPT !.calls = c]
    BY <1>2, <2>1
  <2>3. raop' \in RaopShape
    BY <2>2, <1>0 DEF RaopInv, RaopShaped, RaopShape, RaopCalls, RaopSteps
  <2>4. /\ SameRaop /\ raop'.call = raop.call /\ raop'.step = raop.step
    BY <2>2 DEF RaopInv, RaopShaped, RaopShape, SameRaop, SameLink, SameSockets, SameStream, SameVolume
  <2> QED
    BY <1>0, <1>1, <1>2, <2>3, <2>4
    DEF RaopInv, RaopShaped, RaopLives, SetupAgrees, SocketsAgree, StreamAgrees, GoodbyeOnce,
        SameRaop, SameLink, SameSockets, SameStream, SameVolume, SameRemote, Spared, SameSetup
<1> QED
  BY <1>2 DEF RaopDisconnectAgain

LEMMA TeardownKeeps == RaopInv /\ Teardown => RaopInv'
<1> SUFFICES ASSUME RaopInv, Teardown PROVE RaopInv'
  OBVIOUS
<1>0. raop.call = "disconnect" /\ raop.step = "teardown"
  BY DEF Teardown, InCall
<1>1. Spared /\ SameSetup /\ remote'.volume = remote.volume
  <2> DEFINE s == [remote EXCEPT !.torn = @ + 1, !.recording = FALSE]
  <2>0. s = [remote EXCEPT !.torn = 1, !.recording = FALSE]
    <3>1. remote.torn + 1 = 1
      BY <1>0 DEF RaopInv, GoodbyeOnce
    <3> QED
      BY <3>1
  <2>1. /\ s \in RemoteShape /\ s.faults = remote.faults /\ s.announced = remote.announced
        /\ s.key = remote.key /\ s.timing = remote.timing /\ s.control = remote.control
        /\ s.setups = remote.setups /\ s.volume = remote.volume
    BY <2>0 DEF RaopInv, RaopShaped, RemoteShape
  <2>2. \/ remote' \in {remote, [remote EXCEPT !.faults = @ + 1]}
        \/ remote' = s
        \/ remote' = [s EXCEPT !.faults = @ + 1]
    BY DEF Teardown, Exchange, AnswersTo
  <2>3. setup' = setup
    BY DEF Teardown, InCall
  <2> HIDE DEF s
  <2> USE DEF RaopInv, RaopShaped, SetupAgrees, RemoteShape, Spared, SameSetup
  <2>4. CASE remote' \in {remote, [remote EXCEPT !.faults = @ + 1]}
    BY <2>3, <2>4
  <2>5. CASE remote' = s
    BY <2>1, <2>3, <2>5
  <2>6. CASE remote' = [s EXCEPT !.faults = @ + 1]
    BY <2>1, <2>3, <2>6
  <2> QED
    BY <2>2, <2>4, <2>5, <2>6
<1>2. CASE raop' = [raop EXCEPT !.closed = TRUE, !.playback = "Stopped", !.call = "none", !.step = "none"]
  <2>1. raop' \in RaopShape
    BY <1>2, <1>0 DEF RaopInv, RaopShaped, RaopShape, RaopCalls, RaopSteps
  <2>2. /\ raop'.alive = raop.alive /\ raop'.closed = TRUE
        /\ raop'.disconnected = raop.disconnected /\ raop'.late = raop.late /\ SameSockets
        /\ raop'.session = raop.session /\ raop'.streamer = raop.streamer
        /\ raop'.playback = "Stopped" /\ raop'.cipher = raop.cipher /\ SameVolume
        /\ raop'.call = "none" /\ raop'.step = "none"
    BY <1>2 DEF RaopInv, RaopShaped, RaopShape, SameRaop, SameLink, SameSockets, SameStream, SameVolume
  <2> QED
    BY <1>0, <1>2, <2>1, <2>2, <1>1
    DEF RaopInv, RaopShaped, RaopLives, SetupAgrees, SocketsAgree, StreamAgrees, GoodbyeOnce,
        SameRaop, SameLink, SameSockets, SameStream, SameVolume, SameRemote, Spared, SameSetup
<1> QED
  BY <1>2 DEF Teardown, Returns

LEMMA RaopKeeps == RaopInv /\ [RaopNext]_raopVars => RaopInv'
<1> SUFFICES ASSUME RaopInv, [RaopNext]_raopVars PROVE RaopInv'
  OBVIOUS
<1>1. CASE UNCHANGED raopVars
  BY <1>1
  DEF raopVars, RaopInv, RaopShaped, RaopLives, SetupAgrees, SocketsAgree, StreamAgrees, GoodbyeOnce
<1>2. CASE RaopNext
  BY <1>2, OptionsKeep, OptionsAuthorizedKeep, RaopSetupKeeps, RaopStartKeeps, AnnounceKeeps,
     AnnounceAuthorizedKeeps, SetupRequestKeeps, RecordRequestKeeps, StreamKeeps, StartLevelKeeps,
     RaopPauseKeeps, PauseFlushKeeps, RaopResumeKeeps, ResumeRecordKeeps, RaopStopKeeps,
     StopFlushKeeps, RaopSetVolumeKeeps, VolumeLevelKeeps, FeedbackKeeps, FeedbackOptionsKeep,
     RaopDisconnectKeeps, RaopDisconnectAgainKeeps, TeardownKeeps
  DEF RaopNext
<1> QED
  BY <1>1, <1>2

\* The least of some of the numbers up to three.
LEMMA SmallMin ==
  ASSUME NEW S, S \subseteq 1..3, S # {}
  PROVE  Min(S) \in S
<1>1. \E x \in S : \A y \in S : x <= y
  <2>1. CASE 1 \in S
    BY <2>1
  <2>2. CASE 1 \notin S /\ 2 \in S
    BY <2>2
  <2>3. CASE 1 \notin S /\ 2 \notin S
    <3>1. \A y \in S : y = 3
      <4> SUFFICES ASSUME NEW y \in S PROVE y = 3
        OBVIOUS
      <4>1. y \in 1..3 /\ y # 1 /\ y # 2
        BY <2>3
      <4> QED
        BY <4>1
    <3>2. 3 \in S
      BY <3>1
    <3>3. \A y \in S : 3 <= y
      BY <3>1
    <3> QED
      BY <3>2, <3>3
  <2> QED
    BY <2>1, <2>2, <2>3
<1> QED
  BY <1>1 DEF Min

LEMMA AddressIsBest == BestIsChosen
<1> SUFFICES ASSUME NEW n \in 1..3, NEW addresses \in [1..n -> {"v4", "global", "local"}]
             PROVE  LET best == addresses[BestAddress(addresses)]
                    IN /\ "v4" \in {addresses[i] : i \in 1..n} => best = "v4"
                       /\ best = "local" => \A i \in 1..n : addresses[i] = "local"
  BY DEF BestIsChosen
<1> DEFINE First(kind) == {i \in DOMAIN addresses : addresses[i] \in {kind}}
<1>1. DOMAIN addresses = 1..n /\ \A kind : First(kind) \subseteq 1..3
  OBVIOUS
<1>2. CASE First("v4") # {}
  <2>1. BestAddress(addresses) = Min(First("v4"))
    BY <1>2 DEF BestAddress
  <2>2. BestAddress(addresses) \in First("v4")
    BY <1>1, <1>2, <2>1, SmallMin
  <2> QED
    BY <2>2
<1>3. CASE First("v4") = {} /\ First("global") # {}
  <2>1. BestAddress(addresses) = Min(First("global"))
    BY <1>3 DEF BestAddress
  <2>2. BestAddress(addresses) \in First("global")
    BY <1>1, <1>3, <2>1, SmallMin
  <2> QED
    BY <1>1, <1>3, <2>2
<1>4. CASE First("v4") = {} /\ First("global") = {}
  BY <1>1, <1>4
<1> QED
  BY <1>2, <1>3, <1>4

LEMMA RaopPromise == RaopInv => RaopSafe
<1> SUFFICES ASSUME RaopInv PROVE RaopSafe
  OBVIOUS
<1> USE DEF RaopInv, RaopShaped, RaopLives, SetupAgrees, SocketsAgree, StreamAgrees, GoodbyeOnce
<1>1. RaopTypeOK
  BY DEF RaopTypeOK, RaopShape
<1>2. HeardByReceiver
  BY DEF HeardByReceiver, RemoteShape
<1>3. PortsAnswer
  BY DEF PortsAnswer
<1>4. PlaybackFollowsSession
  BY DEF PlaybackFollowsSession
<1>5. VolumeArrives
  BY DEF VolumeArrives
<1>6. NothingLeft
  BY DEF NothingLeft, RaopShape, RemoteShape
<1> QED
  BY <1>1, <1>2, <1>3, <1>4, <1>5, <1>6, AddressIsBest DEF RaopSafe

\* RaopSafe: what plays at an AirPlay 1 receiver was set up and can be heard, the
\* ports it was told are ours, the volume is the caller's, and one disconnect
\* leaves nothing behind (raop_connection.rs, raop_session.rs).
THEOREM RaopStaysSafe == RaopSpec => []RaopSafe
<1>1. RaopInit => RaopInv
  BY RaopInitially
<1>2. RaopInv /\ [RaopNext]_raopVars => RaopInv'
  BY RaopKeeps
<1>3. RaopInv => RaopSafe
  BY RaopPromise
<1> QED
  BY <1>1, <1>2, <1>3, PTL DEF RaopSpec

-----------------------------------------------------------------------------
(* A connection to a receiver.                                             *)

BuildSteps ==
  {"tcp", "info", "setup_m1", "setup_m3", "setup_m5", "save", "verify_m1", "verify_m3", "cipher",
   "options", "paired"}
CallSteps ==
  {"timing_server", "setup1", "events", "control", "setup2", "record", "clock_worker",
   "first_clock", "sender", "flush", "stream", "volume", "control_worker", "pause_streamer",
   "pause_flush", "pause_session", "resume_streamer", "resume_record", "resume_session",
   "stop_streamer", "stopped", "set_volume", "feedback", "probe"}
EndSteps == {"end_streamer", "stop_services", "cancel", "join", "teardown", "close"}
PlanSteps == BuildSteps \cup CallSteps \cup EndSteps

\* The steps that may come after a step of some plan.
AfterBuild(s) ==
  CASE s = "tcp" -> {"info"}
    [] s = "info" -> {"setup_m1", "verify_m1"}
    [] s = "setup_m1" -> {"setup_m3"}
    [] s = "setup_m3" -> {"setup_m5", "cipher"}
    [] s = "setup_m5" -> {"save"}
    [] s = "save" -> {"verify_m1"}
    [] s = "verify_m1" -> {"verify_m3"}
    [] s = "verify_m3" -> {"cipher"}
    [] s = "cipher" -> {"options"}
    [] s = "options" -> {"paired"}
    [] OTHER -> {}
AfterCall(s) ==
  CASE s = "timing_server" -> {"setup1"}
    [] s = "setup1" -> {"events"}
    [] s = "events" -> {"control"}
    [] s = "control" -> {"setup2"}
    [] s = "setup2" -> {"record"}
    [] s = "record" -> {"clock_worker", "sender"}
    [] s = "clock_worker" -> {"first_clock", "sender"}
    [] s = "first_clock" -> {"sender"}
    [] s = "sender" -> {"flush"}
    [] s = "flush" -> {"stream", "stopped"}
    [] s = "stream" -> {"volume"}
    [] s = "volume" -> {"control_worker"}
    [] s = "pause_streamer" -> {"pause_flush"}
    [] s = "pause_flush" -> {"pause_session"}
    [] s = "resume_streamer" -> {"resume_record"}
    [] s = "resume_record" -> {"resume_session"}
    [] s = "stop_streamer" -> {"flush"}
    [] OTHER -> {}
AfterEnd(s) ==
  CASE s = "end_streamer" -> {"stop_services"}
    [] s = "stop_services" -> {"cancel"}
    [] s = "cancel" -> {"join"}
    [] s = "join" -> {"teardown"}
    [] s = "teardown" -> {"close"}
    [] OTHER -> {}
After(s) ==
  IF s \in BuildSteps THEN AfterBuild(s) ELSE IF s \in CallSteps THEN AfterCall(s) ELSE AfterEnd(s)

\* A plan goes from step to step; the flush of a stop starts no stream.
Planned(p) ==
  /\ p \in Seq(PlanSteps)
  /\ \A i \in 1 .. Len(p) - 1 : p[i + 1] \in After(p[i])
  /\ \A i \in 1 .. Len(p) - 2 : p[i] = "stop_streamer" => p[i + 2] # "stream"

Keys == {"none", "old", "new"}
Requests == [cseq : Nat, kind : RequestKinds, ok : BOOLEAN]
ChannelShape == [owed : Seq(Requests), answers : Seq(Requests), torn : BOOLEAN, closed : BOOLEAN]
HistoryShape == [faults : Nat, calls : Nat, teardowns : {0, 1}, clear : {FALSE}, late : {FALSE}]
IdentityShape == [file : Keys, trusted : SUBSET {"old", "new"}]
ConnFields ==
  {"stage", "timing", "auto", "key", "plan", "waiting", "cseq", "sock", "cipher", "state", "ports",
   "playback", "streamer", "held", "workers", "cancelled", "disconnected"}

\* The values of a connection, its plan apart.
ConnTyped ==
  /\ DOMAIN conn = ConnFields
  /\ conn.stage \in {"none", "building", "up", "gone"}
  /\ conn.timing \in {"ntp", "yield", "slave", "master", "member"}
  /\ conn.key \in Keys /\ conn.waiting \in Nat /\ conn.cseq \in Nat
  /\ conn.sock \in BOOLEAN /\ conn.cipher \in BOOLEAN
  /\ conn.state \in SessionState /\ conn.ports \in [first : Nat, second : Nat]
  /\ conn.playback \in {"Stopped", "Playing", "Paused"}
  /\ conn.streamer \in {"none", "starting", "playing", "paused", "stopped"}
  /\ conn.held \subseteq {"timing", "events", "control"}
  /\ conn.workers \subseteq {"clock", "control"}

\* What is neither answered nor read, and the number of the last answer that
\* was read or lost with its socket.
Unread(w) == Len(w.owed) + Len(w.answers)
LastRead(w) == conn.cseq - Unread(w)

\* The requests whose answers are not read yet, by number and kind.
Asked(w) ==
  {<<w.owed[i].cseq, w.owed[i].kind>> : i \in 1 .. Len(w.owed)}
    \cup {<<w.answers[i].cseq, w.answers[i].kind>> : i \in 1 .. Len(w.answers)}

\* What is not read yet is numbered without a gap, up to the last request.
ChannelFits(w) ==
  /\ w \in ChannelShape
  /\ 0 <= LastRead(w)
  /\ \A i \in 1 .. Len(w.answers) : w.answers[i].cseq = LastRead(w) + i
  /\ \A i \in 1 .. Len(w.owed) : w.owed[i].cseq = LastRead(w) + Len(w.answers) + i
  /\ \A i \in 1 .. Len(w.answers) :
       w.answers[i].ok /\ w.answers[i].kind = "setup_m5" => "new" \in identity.trusted
ChannelCounts ==
  /\ ChannelFits(rtsp)
  /\ ~conn.sock => rtsp = Quiet
  /\ conn.waiting # 0 => ~Idle /\ Head(conn.plan) \in RequestKinds

\* Before the set-up of a session.
Early == {"Disconnected", "Connected", "Paired"}

\* The life of a connection, and the steps each part of it may be at.
StagesAgree ==
  /\ ~Idle => \/ conn.stage = "building" /\ Head(conn.plan) \in BuildSteps
              \/ conn.stage = "up" /\ Head(conn.plan) \in CallSteps \cup EndSteps
  /\ conn.stage # "up" => /\ conn.playback = "Stopped" /\ conn.streamer = "none"
                          /\ conn.held = {} /\ ~conn.disconnected
                          /\ conn.state \in Early
  /\ conn.stage \in {"none", "building"} => conn.workers = {} /\ history.teardowns = 0
  /\ conn.stage \in {"none", "gone"} => Idle /\ ~conn.sock
  /\ conn.stage = "building" /\ ~Idle =>
       /\ Head(conn.plan) # "tcp" => conn.sock
       /\ Head(conn.plan) \in {"options", "paired"} => conn.cipher
       /\ Head(conn.plan) = "save" => "new" \in identity.trusted
  /\ conn.stage = "up" => conn.cipher
  /\ conn.stage = "up" /\ ~conn.sock =>
       Idle /\ conn.disconnected /\ conn.held = {} /\ conn.streamer = "none" /\ conn.cancelled

\* The steps from the record of a set-up to the start of the stream.
BeforeStream ==
  \/ Head(conn.plan) \in {"record", "clock_worker", "first_clock", "sender", "stream"}
  \/ Head(conn.plan) = "flush" /\ Len(conn.plan) > 1 /\ conn.plan[2] = "stream"

\* How far a call is says what the session is.
StepsAgree ==
  ~Idle =>
    /\ Head(conn.plan) \in {"events", "control", "setup2"} => conn.state = "SetupPhase1"
    /\ BeforeStream => conn.state = "Ready"
    /\ Head(conn.plan) \in {"volume", "control_worker"} => conn.state = "Playing"
    /\ Head(conn.plan) \in EndSteps => conn.disconnected
    /\ Head(conn.plan) \in EndSteps \ {"end_streamer"} => conn.streamer = "none"
    /\ Head(conn.plan) \in {"join", "teardown", "close"} => conn.cancelled

\* From the answer to phase 1 to that of phase 2.
BetweenPhases == ~Idle /\ Head(conn.plan) \in {"events", "control", "setup2"}

\* Phase 2 is asked once, after phase 1: if phase 1 took the answer of another
\* request, its own is still unread and comes before that of phase 2.
AnswersAreOwn ==
  /\ conn.waiting # 0 => \A q \in Asked(rtsp) : q[1] = conn.cseq => q[2] = Head(conn.plan)
  /\ conn.state \in Early => \A q \in Asked(rtsp) : q[2] # "setup2"
  /\ BetweenPhases =>
       /\ \A q \in Asked(rtsp) : q[2] = "setup2" => conn.waiting # 0 /\ q[1] = conn.cseq
       /\ \/ conn.ports.first = LastRead(rtsp)
          \/ Unread(rtsp) > (IF conn.waiting = 0 THEN 0 ELSE 1)

\* A TEARDOWN is the last request of a connection, and counted once it is sent.
TeardownIsLast ==
  /\ history.teardowns > 0 =>
       /\ conn.disconnected \/ conn.stage = "gone"
       /\ \/ Idle \/ Head(conn.plan) = "close"
          \/ Head(conn.plan) = "teardown" /\ conn.waiting # 0
  /\ ~Idle /\ Head(conn.plan) = "teardown" /\ conn.waiting # 0 => history.teardowns = 1

\* The inductive invariant of a connection.
ConnInv ==
  /\ ConnTyped /\ Planned(conn.plan) /\ history \in HistoryShape /\ identity \in IdentityShape
  /\ ChannelCounts /\ StagesAgree /\ StepsAgree /\ AnswersAreOwn /\ TeardownIsLast
  /\ SetupIsMatched /\ LagHasACause /\ PlaybackFitsSession /\ IdentityIsKnown

\* What a plan still has to do keeps its order.
LEMMA TailPlanned ==
  ASSUME NEW p, Planned(p), p # <<>>
  PROVE  /\ Head(p) \in PlanSteps /\ Head(p) = p[1] /\ Planned(Tail(p))
         /\ Tail(p) # <<>> =>
              /\ Head(Tail(p)) \in After(Head(p)) /\ Head(Tail(p)) = p[2] /\ Len(p) > 1
              /\ Head(p) = "stop_streamer" /\ Len(Tail(p)) > 1 => Tail(p)[2] # "stream"
<1>1. p \in Seq(PlanSteps) /\ Len(p) \in Nat /\ Len(p) > 0
  BY EmptySeq, LenProperties DEF Planned
<1>2. /\ Head(p) = p[1] /\ Head(p) \in PlanSteps /\ Tail(p) \in Seq(PlanSteps)
      /\ Len(Tail(p)) = Len(p) - 1
      /\ \A i \in 1 .. Len(Tail(p)) : Tail(p)[i] = p[i + 1]
  BY <1>1, HeadTailProperties
<1>3. Planned(Tail(p))
  <2>1. ASSUME NEW i \in 1 .. Len(Tail(p)) - 1 PROVE Tail(p)[i + 1] \in After(Tail(p)[i])
    <3>1. i \in 1 .. Len(Tail(p)) /\ i + 1 \in 1 .. Len(Tail(p)) /\ i + 1 \in 1 .. Len(p) - 1
      BY <2>1, <1>1, <1>2
    <3> QED
      BY <3>1, <1>2 DEF Planned
  <2>2. ASSUME NEW i \in 1 .. Len(Tail(p)) - 2, Tail(p)[i] = "stop_streamer" PROVE Tail(p)[i + 2] # "stream"
    <3>1. i \in 1 .. Len(Tail(p)) /\ i + 2 \in 1 .. Len(Tail(p)) /\ i + 1 \in 1 .. Len(p) - 2
      BY <2>2, <1>1, <1>2
    <3>2. Tail(p)[i] = p[i + 1] /\ Tail(p)[i + 2] = p[(i + 1) + 2]
      BY <3>1, <1>2
    <3> QED
      BY <3>1, <3>2, <2>2 DEF Planned
  <2> QED
    BY <2>1, <2>2, <1>2 DEF Planned
<1>4. ASSUME Tail(p) # <<>>
      PROVE  /\ Head(Tail(p)) \in After(Head(p)) /\ Head(Tail(p)) = p[2] /\ Len(p) > 1
             /\ Head(p) = "stop_streamer" /\ Len(Tail(p)) > 1 => Tail(p)[2] # "stream"
  <2>1. Len(Tail(p)) \in Nat /\ Len(Tail(p)) > 0
    BY <1>2, <1>4, EmptySeq, LenProperties
  <2>2. Head(Tail(p)) = Tail(p)[1] /\ Tail(p)[1] = p[2] /\ 1 \in 1 .. Len(p) - 1
    BY <2>1, <1>1, <1>2, <1>4, HeadTailProperties
  <2>3. Len(Tail(p)) > 1 => Tail(p)[2] = p[3] /\ 1 \in 1 .. Len(p) - 2
    BY <2>1, <1>1, <1>2
  <2> QED
    BY <1>1, <1>2, <2>2, <2>3 DEF Planned
<1> QED
  BY <1>2, <1>3, <1>4

LEMMA Predecessors ==
  ASSUME NEW h \in PlanSteps, NEW s \in After(h)
  PROVE  /\ s \in BuildSteps <=> h \in BuildSteps
         /\ s \in CallSteps <=> h \in CallSteps
         /\ s \in EndSteps <=> h \in EndSteps
         /\ s # "tcp" /\ s # "end_streamer"
         /\ s = "save" => h = "setup_m5"
         /\ s = "options" => h = "cipher"
         /\ s = "paired" => h = "options"
         /\ s \in {"events", "control", "setup2"} => h \in {"setup1", "events", "control"}
         /\ s = "record" => h = "setup2"
         /\ s \in {"clock_worker", "first_clock", "sender"} => h \in {"record", "clock_worker", "first_clock"}
         /\ s = "flush" => h \in {"sender", "stop_streamer"}
         /\ s = "stream" => h = "flush"
         /\ s = "volume" => h = "stream"
         /\ s = "control_worker" => h = "volume"
         /\ s = "join" => h = "cancel"
         /\ s = "teardown" => h = "join"
         /\ s = "close" => h = "teardown"
<1>1. CASE h \in BuildSteps
  BY <1>1 DEF After, AfterBuild, BuildSteps, CallSteps, EndSteps
<1>2. CASE h \in CallSteps
  BY <1>2 DEF After, AfterCall, BuildSteps, CallSteps, EndSteps
<1>3. CASE h \in EndSteps
  BY <1>3 DEF After, AfterEnd, BuildSteps, CallSteps, EndSteps
<1> QED
  BY <1>1, <1>2, <1>3 DEF PlanSteps

LEMMA JoinedPlans ==
  ASSUME NEW p, NEW q, Planned(p), Planned(q), p # <<>>, q # <<>>, q[1] \in After(p[Len(p)]),
         \A i \in 1 .. Len(p) : p[i] # "stop_streamer"
  PROVE  Planned(p \o q) /\ p \o q # <<>> /\ Head(p \o q) = p[1] /\ (p \o q)[Len(p \o q)] = q[Len(q)]
<1> DEFINE r == p \o q
<1>1. /\ p \in Seq(PlanSteps) /\ q \in Seq(PlanSteps) /\ Len(p) \in Nat /\ Len(q) \in Nat
      /\ Len(p) > 0 /\ Len(q) > 0
  BY EmptySeq, LenProperties DEF Planned
<1>2. /\ r \in Seq(PlanSteps) /\ Len(r) = Len(p) + Len(q)
      /\ \A i \in 1 .. Len(p) + Len(q) : r[i] = IF i <= Len(p) THEN p[i] ELSE q[i - Len(p)]
  BY <1>1, ConcatProperties
<1> HIDE DEF r
<1>3. r # <<>> /\ Head(r) = p[1] /\ r[Len(r)] = q[Len(q)]
  <2>1. r # <<>>
    BY <1>1, <1>2, EmptySeq, LenProperties
  <2>2. Head(r) = r[1]
    BY <2>1, <1>2, HeadTailProperties
  <2>3. r[1] = p[1] /\ r[Len(p) + Len(q)] = q[Len(q)]
    BY <1>1, <1>2
  <2> QED
    BY <2>1, <2>2, <2>3, <1>2
<1>4. ASSUME NEW i \in 1 .. Len(r) - 1 PROVE r[i + 1] \in After(r[i])
  <2>1. i \in 1 .. Len(p) + Len(q) /\ i + 1 \in 1 .. Len(p) + Len(q)
    BY <1>1, <1>2
  <2>2. CASE i < Len(p)
    <3>1. r[i] = p[i] /\ r[i + 1] = p[i + 1] /\ i \in 1 .. Len(p) - 1
      BY <1>1, <1>2, <2>1, <2>2
    <3> QED
      BY <3>1 DEF Planned
  <2>3. CASE i = Len(p)
    <3>1. r[i] = p[Len(p)] /\ r[i + 1] = q[1]
      BY <1>1, <1>2, <2>1, <2>3
    <3> QED
      BY <3>1
  <2>4. CASE i > Len(p)
    <3>1. r[i] = q[i - Len(p)] /\ r[i + 1] = q[(i - Len(p)) + 1] /\ i - Len(p) \in 1 .. Len(q) - 1
      BY <1>1, <1>2, <2>1, <2>4
    <3> QED
      BY <3>1 DEF Planned
  <2> QED
    BY <2>2, <2>3, <2>4, <1>1
<1>5. ASSUME NEW i \in 1 .. Len(r) - 2, r[i] = "stop_streamer" PROVE r[i + 2] # "stream"
  <2>1. i \in 1 .. Len(p) + Len(q) /\ i + 2 \in 1 .. Len(p) + Len(q) /\ i > Len(p)
    <3>1. i \in 1 .. Len(p) + Len(q) /\ i + 2 \in 1 .. Len(p) + Len(q)
      BY <1>1, <1>2
    <3> QED
      BY <3>1, <1>1, <1>2, <1>5
  <2>2. /\ r[i] = q[i - Len(p)] /\ r[i + 2] = q[(i - Len(p)) + 2] /\ i - Len(p) \in 1 .. Len(q) - 2
    BY <1>1, <1>2, <2>1
  <2> QED
    BY <2>2, <1>5 DEF Planned
<1> QED
  BY <1>2, <1>3, <1>4, <1>5 DEF Planned, r

LEMMA SpareJoin ==
  ASSUME NEW p, NEW q, Planned(p), Planned(q),
         \A i \in 1 .. Len(p) : p[i] # "stop_streamer", \A i \in 1 .. Len(q) : q[i] # "stop_streamer"
  PROVE  \A i \in 1 .. Len(p \o q) : (p \o q)[i] # "stop_streamer"
<1> DEFINE r == p \o q
<1>1. /\ p \in Seq(PlanSteps) /\ q \in Seq(PlanSteps) /\ Len(p) \in Nat /\ Len(q) \in Nat
  BY LenProperties DEF Planned
<1>2. /\ Len(r) = Len(p) + Len(q)
      /\ \A i \in 1 .. Len(p) + Len(q) : r[i] = IF i <= Len(p) THEN p[i] ELSE q[i - Len(p)]
  BY <1>1, ConcatProperties
<1> HIDE DEF r
<1>3. ASSUME NEW i \in 1 .. Len(r) PROVE r[i] # "stop_streamer"
  BY <1>1, <1>2
<1> QED
  BY <1>3 DEF r

\* Every plan of the module is in order.
LEMMA SealedPlans ==
  \A p \in {PinPlan, VerifyPlan, PinPairingPlan} : Planned(p) /\ p # <<>> /\ Head(p) = "tcp"
<1>1. Planned(Sealed) /\ Sealed # <<>> /\ Sealed[1] = "cipher"
  BY DEF Planned, Sealed, PlanSteps, BuildSteps, After, AfterBuild
<1>2. ASSUME NEW p, Planned(p), p # <<>>, p[1] = "tcp", p[Len(p)] \in {"setup_m3", "verify_m3"},
             \A i \in 1 .. Len(p) : p[i] # "stop_streamer"
      PROVE  Planned(p \o Sealed) /\ p \o Sealed # <<>> /\ Head(p \o Sealed) = "tcp"
  <2>1. "cipher" \in After(p[Len(p)])
    BY <1>2 DEF After, AfterBuild, BuildSteps
  <2> QED
    BY <1>1, <1>2, <2>1, JoinedPlans
<1>3. Planned(PinPlan) /\ PinPlan # <<>> /\ Head(PinPlan) = "tcp"
  <2> DEFINE p == <<"tcp", "info", "setup_m1", "setup_m3">>
  <2>1. Planned(p)
    BY DEF Planned, PlanSteps, BuildSteps, After, AfterBuild
  <2>2. p # <<>> /\ p[1] = "tcp" /\ p[Len(p)] = "setup_m3" /\ \A i \in 1 .. Len(p) : p[i] # "stop_streamer"
    OBVIOUS
  <2> HIDE DEF p
  <2>3. Planned(p \o Sealed) /\ p \o Sealed # <<>> /\ Head(p \o Sealed) = "tcp"
    BY <2>1, <2>2, <1>2
  <2> QED
    BY <2>3 DEF p, PinPlan
<1>4. Planned(VerifyPlan) /\ VerifyPlan # <<>> /\ Head(VerifyPlan) = "tcp"
  <2> DEFINE p == <<"tcp", "info", "verify_m1", "verify_m3">>
  <2>1. Planned(p)
    BY DEF Planned, PlanSteps, BuildSteps, After, AfterBuild
  <2>2. p # <<>> /\ p[1] = "tcp" /\ p[Len(p)] = "verify_m3" /\ \A i \in 1 .. Len(p) : p[i] # "stop_streamer"
    OBVIOUS
  <2> HIDE DEF p
  <2>3. Planned(p \o Sealed) /\ p \o Sealed # <<>> /\ Head(p \o Sealed) = "tcp"
    BY <2>1, <2>2, <1>2
  <2> QED
    BY <2>3 DEF p, VerifyPlan
<1>5. Planned(PinPairingPlan) /\ PinPairingPlan # <<>> /\ Head(PinPairingPlan) = "tcp"
  <2> DEFINE p == <<"tcp", "info", "setup_m1", "setup_m3", "setup_m5", "save", "verify_m1", "verify_m3">>
  <2>1. Planned(p)
    BY DEF Planned, PlanSteps, BuildSteps, After, AfterBuild
  <2>2. p # <<>> /\ p[1] = "tcp" /\ p[Len(p)] = "verify_m3" /\ \A i \in 1 .. Len(p) : p[i] # "stop_streamer"
    OBVIOUS
  <2> HIDE DEF p
  <2>3. Planned(p \o Sealed) /\ p \o Sealed # <<>> /\ Head(p \o Sealed) = "tcp"
    BY <2>1, <2>2, <1>2
  <2> QED
    BY <2>3 DEF p, PinPairingPlan
<1> QED
  BY <1>3, <1>4, <1>5

LEMMA PhasesPlanned ==
  /\ Planned(Phases) /\ Phases # <<>> /\ Phases[1] = "setup1" /\ Phases[Len(Phases)] = "record"
  /\ \A i \in 1 .. Len(Phases) : Phases[i] # "stop_streamer"
<1>1. Planned(Phases)
  BY DEF Planned, Phases, PlanSteps, CallSteps, After, AfterCall, BuildSteps
<1> QED
  BY <1>1 DEF Phases

LEMMA SetupsPlanned ==
  ASSUME NEW t \in {"ntp", "yield", "slave", "master", "member"}
  PROVE  /\ Planned(SetupPlan(t)) /\ SetupPlan(t) # <<>> /\ Head(SetupPlan(t)) \in {"timing_server", "setup1"}
         /\ SetupPlan(t)[Len(SetupPlan(t))] \in {"record", "clock_worker", "first_clock"}
         /\ \A i \in 1 .. Len(SetupPlan(t)) : SetupPlan(t)[i] # "stop_streamer"
<1> DEFINE Good(p) == /\ Planned(p) /\ p # <<>> /\ Head(p) \in {"timing_server", "setup1"}
                      /\ p[Len(p)] \in {"record", "clock_worker", "first_clock"}
                      /\ \A i \in 1 .. Len(p) : p[i] # "stop_streamer"
<1>1. Good(NtpPlan)
  <2> DEFINE p == <<"timing_server">>
  <2>1. Planned(p) /\ p # <<>> /\ p[1] = "timing_server" /\ Len(p) = 1
    BY DEF Planned, PlanSteps, CallSteps
  <2>2. "setup1" \in After(p[Len(p)])
    BY <2>1 DEF After, AfterCall, BuildSteps, CallSteps
  <2>3. NtpPlan = p \o Phases
    BY DEF NtpPlan
  <2> HIDE DEF p
  <2>4. /\ Planned(p \o Phases) /\ p \o Phases # <<>> /\ Head(p \o Phases) = "timing_server"
        /\ (p \o Phases)[Len(p \o Phases)] = "record"
    BY <2>1, <2>2, PhasesPlanned, JoinedPlans
  <2>5. \A i \in 1 .. Len(p \o Phases) : (p \o Phases)[i] # "stop_streamer"
    BY <2>1, PhasesPlanned, SpareJoin
  <2> QED
    BY <2>3, <2>4, <2>5
<1>2. Good(Phases)
  <2>1. Head(Phases) = "setup1"
    BY DEF Phases
  <2> QED
    BY <2>1, PhasesPlanned
<1>3. ASSUME NEW p, Planned(p), p # <<>>, p[1] = "clock_worker", p[Len(p)] \in {"clock_worker", "first_clock"},
             \A i \in 1 .. Len(p) : p[i] # "stop_streamer"
      PROVE  Good(Phases \o p)
  <2>1. p[1] \in After(Phases[Len(Phases)])
    BY <1>3, PhasesPlanned DEF After, AfterCall, BuildSteps, CallSteps
  <2>2. /\ Planned(Phases \o p) /\ Phases \o p # <<>> /\ Head(Phases \o p) = "setup1"
        /\ (Phases \o p)[Len(Phases \o p)] = p[Len(p)]
    BY <1>3, <2>1, PhasesPlanned, JoinedPlans
  <2>3. \A i \in 1 .. Len(Phases \o p) : (Phases \o p)[i] # "stop_streamer"
    BY <1>3, PhasesPlanned, SpareJoin
  <2> QED
    BY <1>3, <2>2, <2>3
<1>4. Good(YieldPlan)
  <2> DEFINE p == <<"clock_worker", "first_clock">>
  <2>1. Planned(p)
    BY DEF Planned, PlanSteps, CallSteps, BuildSteps, After, AfterCall
  <2>2. p # <<>> /\ p[1] = "clock_worker" /\ p[Len(p)] = "first_clock" /\ \A i \in 1 .. Len(p) : p[i] # "stop_streamer"
    OBVIOUS
  <2>3. YieldPlan = Phases \o p
    BY DEF YieldPlan
  <2> HIDE DEF p
  <2> QED
    BY <2>1, <2>2, <2>3, <1>3
<1>5. Good(ClockPlan)
  <2> DEFINE p == <<"clock_worker">>
  <2>1. Planned(p)
    BY DEF Planned, PlanSteps, CallSteps
  <2>2. p # <<>> /\ p[1] = "clock_worker" /\ p[Len(p)] = "clock_worker" /\ \A i \in 1 .. Len(p) : p[i] # "stop_streamer"
    OBVIOUS
  <2>3. ClockPlan = Phases \o p
    BY DEF ClockPlan
  <2> HIDE DEF p
  <2> QED
    BY <2>1, <2>2, <2>3, <1>3
<1>6. SetupPlan(t) \in {NtpPlan, YieldPlan, ClockPlan, Phases}
  BY DEF SetupPlan, MemberPlan
<1> QED
  BY <1>1, <1>2, <1>4, <1>5, <1>6

LEMMA CallsPlanned ==
  ASSUME NEW p \in {StreamPlan, PausePlan, ResumePlan, StopPlan, DisconnectPlan,
                    <<"set_volume">>, <<"feedback">>, <<"probe">>}
  PROVE  Planned(p) /\ p # <<>> /\ Head(p) = p[1]
<1>1. CASE p = StreamPlan
  BY <1>1 DEF StreamPlan, Planned, PlanSteps, CallSteps, BuildSteps, After, AfterCall
<1>2. CASE p = PausePlan
  BY <1>2 DEF PausePlan, Planned, PlanSteps, CallSteps, BuildSteps, After, AfterCall
<1>3. CASE p = ResumePlan
  BY <1>3 DEF ResumePlan, Planned, PlanSteps, CallSteps, BuildSteps, After, AfterCall
<1>4. CASE p = StopPlan
  BY <1>4 DEF StopPlan, Planned, PlanSteps, CallSteps, BuildSteps, After, AfterCall
<1>5. CASE p = DisconnectPlan
  BY <1>5 DEF DisconnectPlan, Planned, PlanSteps, CallSteps, BuildSteps, EndSteps, After, AfterEnd
<1>6. ASSUME NEW s \in CallSteps, p = <<s>> PROVE Planned(p) /\ p # <<>> /\ Head(p) = p[1]
  BY <1>6 DEF Planned, PlanSteps
<1>7. CASE p \in {<<"set_volume">>, <<"feedback">>, <<"probe">>}
  BY <1>6, <1>7 DEF CallSteps
<1> QED
  BY <1>1, <1>2, <1>3, <1>4, <1>5, <1>7

-----------------------------------------------------------------------------
\* What a step leaves alone of a connection; its socket is open after it.
SameLife ==
  /\ conn'.stage = conn.stage /\ conn'.disconnected = conn.disconnected
  /\ conn'.sock /\ (conn.cipher => conn'.cipher)
SameSession == conn'.state = conn.state /\ conn'.ports = conn.ports
SameWork == conn'.held = conn.held /\ conn'.workers = conn.workers /\ conn'.cancelled = conn.cancelled
SamePlay == conn'.playback = conn.playback /\ conn'.streamer = conn.streamer

\* A step that sends nothing: what the channel is after it, while its socket lives.
LagFits(w) ==
  /\ Asked(w) \subseteq Asked(rtsp)
  /\ ~w.closed /\ ~w.torn =>
       Unread(w) <= history'.faults + (IF history.teardowns = 0 THEN 0 ELSE 1)
Recorded ==
  /\ history' \in HistoryShape /\ history'.teardowns = history.teardowns
  /\ identity' \in IdentityShape /\ identity.trusted \subseteq identity'.trusted
  /\ IdentityIsKnown'
Reads(w) ==
  /\ ChannelFits(w) /\ LagFits(w) /\ Recorded
  /\ conn'.cseq = conn.cseq /\ rtsp' = IF conn'.sock THEN w ELSE Quiet
  /\ conn'.waiting = 0

\* A step of a call is done, and the next one is due.
Moves(w) ==
  /\ ~Idle /\ Reads(w) /\ ConnTyped' /\ conn'.plan = Tail(conn.plan)
  /\ conn'.disconnected = conn.disconnected

\* A channel without its socket.
LEMMA EmptyChannel == ASSUME ConnTyped' PROVE ChannelFits(Quiet)' /\ Unread(Quiet) = 0
<1>1. Len(<<>>) = 0 /\ <<>> \in Seq(Requests)
  OBVIOUS
<1> QED
  BY <1>1 DEF ChannelFits, Quiet, ChannelShape, Unread, LastRead, ConnTyped

LEMMA ChannelRests ==
  ASSUME NEW w, Reads(w), ConnTyped' PROVE ChannelFits(rtsp)' /\ (conn'.sock => LastRead(rtsp)' = LastRead(w))
<1>1. CASE conn'.sock
  <2>1. rtsp' = w /\ conn'.cseq = conn.cseq /\ identity.trusted \subseteq identity'.trusted
    BY <1>1 DEF Reads, Recorded
  <2>2. LastRead(rtsp)' = LastRead(w)
    BY <2>1 DEF LastRead, Unread
  <2> QED
    BY <2>1, <2>2 DEF Reads, ChannelFits
<1>2. CASE ~conn'.sock
  <2>1. rtsp' = Quiet
    BY <1>2 DEF Reads
  <2> QED
    BY <1>2, <2>1, EmptyChannel DEF ChannelFits, LastRead, Unread
<1> QED
  BY <1>1, <1>2

\* What a step that sends nothing leaves of the answers that are due.
LEMMA NothingAsked == Asked(Quiet) = {}
<1>1. Len(<<>>) = 0 /\ 1 .. 0 = {}
  OBVIOUS
<1> QED
  BY <1>1 DEF Asked, Quiet

LEMMA OwnKept ==
  ASSUME NEW w, ConnInv, Reads(w), conn'.state \in Early => conn.state \in Early,
         BetweenPhases' => /\ \A q \in Asked(rtsp) : q[2] # "setup2"
                           /\ conn'.sock /\ (conn'.ports.first = LastRead(w) \/ Unread(w) > 0)
  PROVE  AnswersAreOwn'
<1>1. rtsp' = (IF conn'.sock THEN w ELSE Quiet) /\ conn'.waiting = 0 /\ conn'.cseq = conn.cseq
      /\ Asked(w) \subseteq Asked(rtsp)
  BY DEF Reads, LagFits
<1>2. Asked(rtsp)' \subseteq Asked(rtsp)
  BY <1>1, NothingAsked
<1>3. conn'.state \in Early => \A q \in Asked(rtsp)' : q[2] # "setup2"
  BY <1>2 DEF ConnInv, AnswersAreOwn
<1>4. BetweenPhases' => \A q \in Asked(rtsp)' : q[2] # "setup2"
  BY <1>2
<1>5. BetweenPhases' => conn'.ports.first = LastRead(rtsp)' \/ Unread(rtsp)' > 0
  BY <1>1 DEF LastRead, Unread
<1> QED
  BY <1>1, <1>3, <1>4, <1>5 DEF AnswersAreOwn

LEMMA LagRests == ASSUME NEW w, Reads(w), ConnInv PROVE LagHasACause'
<1>1. history.teardowns \in {0, 1} /\ history'.teardowns = history.teardowns /\ history'.faults \in Nat
  BY DEF Reads, Recorded, ConnInv, HistoryShape
<1>2. CASE conn'.sock
  <2>1. rtsp' = w /\ conn'.waiting = 0 /\ LagFits(w)
    BY <1>2 DEF Reads
  <2> QED
    BY <1>1, <2>1 DEF LagHasACause, LagFits, Unread
<1>3. CASE ~conn'.sock
  <2>1. rtsp' = Quiet /\ conn'.waiting = 0
    BY <1>3 DEF Reads
  <2>2. Len(rtsp'.owed) = 0 /\ Len(rtsp'.answers) = 0
    BY <2>1 DEF Quiet
  <2> QED
    BY <1>1, <2>1, <2>2 DEF LagHasACause
<1> QED
  BY <1>2, <1>3

\* What every step of a call keeps, whatever it does to the session.
LEMMA MovesKeep ==
  ASSUME NEW w, ConnInv, Moves(w)
  PROVE  /\ Planned(conn.plan)' /\ ChannelCounts' /\ TeardownIsLast' /\ LagHasACause' /\ IdentityIsKnown'
         /\ history' \in HistoryShape /\ identity' \in IdentityShape
         /\ Head(conn.plan) \in PlanSteps
         /\ conn'.sock => LastRead(rtsp)' = LastRead(w)
         /\ ~Idle' => /\ Head(conn'.plan) \in After(Head(conn.plan)) /\ Head(conn'.plan) = conn.plan[2]
                      /\ Head(conn'.plan) \in PlanSteps /\ Len(conn.plan) > 1
                      /\ Head(conn.plan) = "stop_streamer" /\ Len(conn'.plan) > 1 => conn'.plan[2] # "stream"
<1>1. Planned(conn.plan) /\ conn.plan # <<>> /\ conn'.plan = Tail(conn.plan)
  BY DEF ConnInv, Moves, Idle
<1>2. /\ Head(conn.plan) \in PlanSteps /\ Planned(conn'.plan)
      /\ ~Idle' => /\ Head(conn'.plan) \in After(Head(conn.plan)) /\ Head(conn'.plan) = conn.plan[2]
                   /\ Len(conn.plan) > 1
                   /\ Head(conn.plan) = "stop_streamer" /\ Len(conn'.plan) > 1 => conn'.plan[2] # "stream"
  BY <1>1, TailPlanned DEF Idle
<1>3. ~Idle' => Head(conn'.plan) \in PlanSteps
  BY <1>2, TailPlanned DEF Idle
<1>4. Reads(w) /\ ConnTyped' /\ Recorded
  BY DEF Moves, Reads
<1>5. ChannelFits(rtsp)' /\ (conn'.sock => LastRead(rtsp)' = LastRead(w)) /\ LagHasACause'
  BY <1>4, ChannelRests, LagRests
<1>6. ChannelCounts'
  BY <1>4, <1>5 DEF ChannelCounts, Reads
<1>7. TeardownIsLast'
  <2>1. conn'.waiting = 0 /\ conn'.disconnected = conn.disconnected /\ history'.teardowns = history.teardowns
    BY <1>4 DEF Moves, Reads, Recorded
  <2>2. ASSUME history.teardowns > 0, ~Idle' PROVE Head(conn'.plan) = "close"
    <3>1. Head(conn.plan) \in {"close", "teardown"}
      BY <2>2 DEF ConnInv, TeardownIsLast, Moves
    <3> QED
      BY <3>1, <1>2, <2>2 DEF After, AfterEnd, BuildSteps, CallSteps
  <2>3. history.teardowns > 0 => conn.disconnected
    BY DEF ConnInv, TeardownIsLast, StagesAgree, Moves
  <2> QED
    BY <2>1, <2>2, <2>3 DEF TeardownIsLast
<1> QED
  BY <1>2, <1>3, <1>4, <1>5, <1>6, <1>7 DEF Recorded, Planned

\* The stages a step of a call leaves behind.
LEMMA MovesStages ==
  ASSUME NEW w, ConnInv, Moves(w), SameLife,
         \/ conn'.state \in Early /\ SamePlay /\ SameWork
         \/ conn.stage = "up",
         conn.cancelled => conn'.cancelled,
         Head(conn.plan) = "cipher" => conn'.cipher,
         Head(conn.plan) = "setup_m5" => "new" \in identity'.trusted
  PROVE  StagesAgree'
<1>1. /\ Head(conn.plan) \in PlanSteps
      /\ ~Idle' => Head(conn'.plan) \in After(Head(conn.plan)) /\ Head(conn'.plan) \in PlanSteps
  BY MovesKeep
<1>2. ~Idle' => /\ Head(conn'.plan) \in BuildSteps <=> Head(conn.plan) \in BuildSteps
                /\ Head(conn'.plan) \in CallSteps <=> Head(conn.plan) \in CallSteps
                /\ Head(conn'.plan) \in EndSteps <=> Head(conn.plan) \in EndSteps
                /\ Head(conn'.plan) # "tcp"
                /\ Head(conn'.plan) = "save" => Head(conn.plan) = "setup_m5"
                /\ Head(conn'.plan) = "options" => Head(conn.plan) = "cipher"
                /\ Head(conn'.plan) = "paired" => Head(conn.plan) = "options"
  BY <1>1, Predecessors
<1>3. ~Idle /\ history'.teardowns = history.teardowns
  BY DEF Moves, Reads, Recorded
<1>4. CASE conn.stage = "building"
  <2>1. Head(conn.plan) \in BuildSteps /\ conn.workers = {} /\ conn.held = {} /\ conn.playback = "Stopped" /\ conn.streamer = "none"
         /\ ~conn.disconnected /\ history.teardowns = 0
    BY <1>3, <1>4 DEF ConnInv, StagesAgree, BuildSteps, CallSteps, EndSteps
  <2>2. ASSUME ~Idle', Head(conn'.plan) \in {"options", "paired"} PROVE conn'.cipher
    BY <1>2, <1>3, <1>4, <2>2 DEF ConnInv, StagesAgree, SameLife
  <2> QED
    BY <1>1, <1>2, <1>3, <1>4, <2>1, <2>2 DEF StagesAgree, SameLife, SamePlay, SameWork
<1>5. CASE conn.stage = "up"
  <2>1. conn.cipher /\ conn.sock /\ conn'.stage = "up" /\ conn'.cipher /\ conn'.sock
    BY <1>3, <1>5 DEF ConnInv, StagesAgree, SameLife
  <2>2. ~Idle' => Head(conn'.plan) \in CallSteps \cup EndSteps
    BY <1>2, <1>3, <1>5 DEF ConnInv, StagesAgree
  <2> QED
    BY <2>1, <2>2 DEF StagesAgree
<1> QED
  BY <1>3, <1>4, <1>5 DEF ConnInv, StagesAgree

LEMMA SocketIsOpen == ConnInv /\ ~Idle /\ Head(conn.plan) # "tcp" => conn.sock
BY DEF ConnInv, StagesAgree

\* A step that leaves the state of the session alone.
Steady(w) ==
  /\ Moves(w) /\ SameLife /\ SameSession
  /\ Head(conn.plan) \notin {"tcp", "paired", "setup1", "setup2", "stream", "close"}
  /\ conn.stage = "up" \/ (SamePlay /\ SameWork)
  /\ conn.cancelled \/ Head(conn.plan) = "cancel" => conn'.cancelled
  /\ Head(conn.plan) = "cipher" => conn'.cipher
  /\ Head(conn.plan) = "setup_m5" => "new" \in identity'.trusted
  /\ Head(conn.plan) \notin CallSteps => conn'.streamer \in {conn.streamer, "none"}
  /\ Head(conn.plan) = "end_streamer" => conn'.streamer = "none"
  /\ conn'.playback \in {conn.playback, "Stopped", conn.state}
  /\ Head(conn.plan) \in {"events", "control"} => w = rtsp

LEMMA SteadyKeeps == ASSUME NEW w, ConnInv, Steady(w) PROVE ConnInv'
<1>1. /\ Planned(conn.plan)' /\ ChannelCounts' /\ TeardownIsLast' /\ LagHasACause' /\ IdentityIsKnown'
      /\ history' \in HistoryShape /\ identity' \in IdentityShape /\ ConnTyped'
      /\ LastRead(rtsp)' = LastRead(w) /\ Head(conn.plan) \in PlanSteps /\ ~Idle
      /\ ~Idle' => /\ Head(conn'.plan) \in After(Head(conn.plan)) /\ Head(conn'.plan) = conn.plan[2]
                   /\ Head(conn'.plan) \in PlanSteps /\ Len(conn.plan) > 1
                   /\ Head(conn.plan) = "stop_streamer" /\ Len(conn'.plan) > 1 => conn'.plan[2] # "stream"
  BY MovesKeep DEF Steady, Moves, SameLife
<1>2. ~Idle' =>
        /\ Head(conn'.plan) \in EndSteps <=> Head(conn.plan) \in EndSteps
        /\ Head(conn'.plan) # "end_streamer"
        /\ Head(conn'.plan) \in {"events", "control", "setup2"} => Head(conn.plan) \in {"setup1", "events", "control"}
        /\ Head(conn'.plan) = "record" => Head(conn.plan) = "setup2"
        /\ Head(conn'.plan) \in {"clock_worker", "first_clock", "sender"} =>
             Head(conn.plan) \in {"record", "clock_worker", "first_clock"}
        /\ Head(conn'.plan) = "flush" => Head(conn.plan) \in {"sender", "stop_streamer"}
        /\ Head(conn'.plan) = "stream" => Head(conn.plan) = "flush"
        /\ Head(conn'.plan) = "volume" => Head(conn.plan) = "stream"
        /\ Head(conn'.plan) = "control_worker" => Head(conn.plan) = "volume"
        /\ Head(conn'.plan) = "join" => Head(conn.plan) = "cancel"
        /\ Head(conn'.plan) = "teardown" => Head(conn.plan) = "join"
        /\ Head(conn'.plan) = "close" => Head(conn.plan) = "teardown"
  BY <1>1, Predecessors
<1>3. conn'.state = conn.state /\ conn'.ports = conn.ports /\ conn'.disconnected = conn.disconnected
  BY DEF Steady, SameLife, SameSession
<1>4. StagesAgree'
  <2>1. \/ conn.stage = "up"
        \/ conn'.state \in Early /\ SamePlay /\ SameWork
    BY <1>3 DEF ConnInv, StagesAgree, Steady
  <2> QED
    BY <2>1, MovesStages DEF Steady
<1>5. StepsAgree'
  <2> SUFFICES ASSUME ~Idle' PROVE StepsAgree'
    BY DEF StepsAgree
  <2>1. Head(conn'.plan) \in {"events", "control", "setup2"} => conn'.state = "SetupPhase1"
    <3>1. Head(conn'.plan) \in {"events", "control", "setup2"} => Head(conn.plan) \in {"events", "control"}
      BY <1>2 DEF Steady
    <3> QED
      BY <1>1, <1>3, <3>1 DEF ConnInv, StepsAgree
  <2>2. BeforeStream' => conn'.state = "Ready"
    <3> SUFFICES ASSUME BeforeStream' PROVE conn.state = "Ready"
      BY <1>3
    <3>1. CASE Head(conn'.plan) = "stream"
      <4>1. Head(conn.plan) = "flush" /\ Len(conn.plan) > 1 /\ conn.plan[2] = "stream"
        BY <3>1, <1>1, <1>2
      <4> QED
        BY <4>1, <1>1 DEF ConnInv, StepsAgree, BeforeStream
    <3>2. CASE Head(conn'.plan) \in {"record", "clock_worker", "first_clock", "sender"}
      <4>1. Head(conn.plan) \in {"record", "clock_worker", "first_clock"}
        BY <3>2, <1>2 DEF Steady
      <4> QED
        BY <4>1, <1>1 DEF ConnInv, StepsAgree, BeforeStream
    <3>3. CASE Head(conn'.plan) = "flush" /\ Len(conn'.plan) > 1 /\ conn'.plan[2] = "stream"
      <4>1. Head(conn.plan) = "sender"
        BY <3>3, <1>1, <1>2
      <4> QED
        BY <4>1, <1>1 DEF ConnInv, StepsAgree, BeforeStream
    <3> QED
      BY <3>1, <3>2, <3>3 DEF BeforeStream
  <2>3. Head(conn'.plan) \in {"volume", "control_worker"} => conn'.state = "Playing"
    BY <1>1, <1>2, <1>3 DEF ConnInv, StepsAgree, Steady
  <2>4. Head(conn'.plan) \in EndSteps => conn'.disconnected
    BY <1>1, <1>2, <1>3 DEF ConnInv, StepsAgree
  <2>5. Head(conn'.plan) \in EndSteps \ {"end_streamer"} => conn'.streamer = "none"
    <3>1. Head(conn'.plan) \in EndSteps => Head(conn.plan) \notin CallSteps
      BY <1>2 DEF EndSteps, CallSteps
    <3> QED
      BY <3>1, <1>1, <1>2 DEF ConnInv, StepsAgree, Steady
  <2>6. Head(conn'.plan) \in {"join", "teardown", "close"} => conn'.cancelled
    BY <1>1, <1>2 DEF ConnInv, StepsAgree, Steady
  <2> QED
    BY <2>1, <2>2, <2>3, <2>4, <2>5, <2>6 DEF StepsAgree
<1>6. SetupIsMatched' /\ PlaybackFitsSession'
  BY <1>3 DEF ConnInv, SetupIsMatched, PlaybackFitsSession, Steady
<1>7. AnswersAreOwn'
  <2>1. ASSUME BetweenPhases'
        PROVE  /\ \A q \in Asked(rtsp) : q[2] # "setup2"
               /\ conn'.sock /\ (conn'.ports.first = LastRead(w) \/ Unread(w) > 0)
    <3>1. Head(conn.plan) \in {"events", "control"}
      BY <1>2, <2>1 DEF Steady, BetweenPhases, Idle
    <3>2. w = rtsp /\ BetweenPhases /\ conn'.sock
      BY <1>1, <3>1 DEF Steady, BetweenPhases, SameLife
    <3>3. conn.waiting = 0
      BY <3>1 DEF ConnInv, ChannelCounts, RequestKinds, SessionKinds, SetupKinds, Pairing
    <3> QED
      BY <1>3, <3>2, <3>3 DEF ConnInv, AnswersAreOwn
  <2> QED
    BY <1>3, <2>1, OwnKept DEF Steady, Moves
<1> QED
  BY <1>1, <1>4, <1>5, <1>6, <1>7 DEF ConnInv

-----------------------------------------------------------------------------
\* A call that ends early, and a connection that is dropped.
LEMMA EmptyPlan == Planned(<<>>)
<1>1. Len(<<>>) = 0 /\ <<>> \in Seq(PlanSteps)
  OBVIOUS
<1> QED
  BY <1>1 DEF Planned

LEMMA EndsKeep ==
  ASSUME NEW w, ConnInv, ~Idle, conn.stage = "up", Reads(w), conn'.plan = <<>>, ConnTyped',
         conn'.stage = conn.stage, conn'.disconnected = conn.disconnected, conn'.sock = conn.sock,
         conn'.cipher = conn.cipher, SameSession, SamePlay, SameWork
  PROVE  ConnInv'
<1>1. conn'.sock /\ Idle' /\ conn.sock
  BY SocketIsOpen DEF ConnInv, StagesAgree, Idle
<1>2. Planned(conn.plan)'
  BY EmptyPlan DEF Planned
<1>3. ChannelFits(rtsp)' /\ LagHasACause'
  BY ChannelRests, LagRests
<1>4. ChannelCounts'
  BY <1>1, <1>3 DEF ChannelCounts, Reads
<1>5. Recorded /\ history' \in HistoryShape /\ identity' \in IdentityShape /\ IdentityIsKnown'
  BY DEF Reads, Recorded
<1>6. StagesAgree' /\ StepsAgree'
  BY <1>1, <1>5 DEF ConnInv, StagesAgree, StepsAgree, SamePlay, SameWork, SameSession
<1>7. TeardownIsLast'
  BY <1>1, <1>5 DEF ConnInv, TeardownIsLast, Recorded
<1>8. SetupIsMatched' /\ PlaybackFitsSession'
  BY DEF ConnInv, SetupIsMatched, PlaybackFitsSession, SameSession, SamePlay
<1>9. AnswersAreOwn'
  BY <1>1, OwnKept DEF BetweenPhases, SameSession
<1> QED
  BY <1>2, <1>3, <1>4, <1>5, <1>6, <1>7, <1>8, <1>9 DEF ConnInv

LEMMA DropKeeps == ASSUME ConnInv, Recorded, conn' = Dropped(conn), rtsp' = Quiet PROVE ConnInv'
<1>1. /\ conn'.stage = "gone" /\ conn'.timing = "ntp" /\ conn'.key = "none" /\ conn'.plan = <<>>
      /\ conn'.waiting = 0 /\ conn'.cseq = 0 /\ conn'.sock = FALSE /\ conn'.cipher = FALSE
      /\ conn'.state = "Disconnected" /\ conn'.ports = NoPorts /\ conn'.playback = "Stopped"
      /\ conn'.streamer = "none" /\ conn'.held = {} /\ conn'.workers = conn.workers
      /\ conn'.cancelled = TRUE /\ conn'.disconnected = FALSE /\ DOMAIN conn' = ConnFields
  BY DEF Dropped, New, ConnFields
<1>2. ConnTyped'
  <2>1. NoPorts \in [first : Nat, second : Nat]
    BY DEF NoPorts
  <2>2. conn'.workers \subseteq {"clock", "control"} /\ conn'.held \subseteq {"timing", "events", "control"}
    BY <1>1 DEF ConnInv, ConnTyped
  <2>3. conn'.key \in Keys /\ conn'.state \in SessionState
    BY <1>1 DEF Keys, SessionState
  <2>4. conn'.cseq \in Nat /\ conn'.waiting \in Nat
    BY <1>1
  <2> QED
    BY <1>1, <2>1, <2>2, <2>3, <2>4 DEF ConnTyped
<1>3. Planned(conn.plan)' /\ Idle'
  BY <1>1, EmptyPlan DEF Planned, Idle
<1>4. ChannelFits(rtsp)' /\ Unread(rtsp)' = 0
  BY <1>2, EmptyChannel DEF ChannelFits, LastRead, Unread
<1>5. ChannelCounts'
  BY <1>1, <1>4 DEF ChannelCounts
<1>6. history' \in HistoryShape /\ identity' \in IdentityShape /\ IdentityIsKnown'
  BY DEF Recorded
<1>7. StagesAgree' /\ StepsAgree' /\ TeardownIsLast' /\ AnswersAreOwn'
  BY <1>1, <1>3, NothingAsked
  DEF StagesAgree, StepsAgree, TeardownIsLast, AnswersAreOwn, BetweenPhases, Early
<1>8. SetupIsMatched' /\ PlaybackFitsSession'
  BY <1>1 DEF SetupIsMatched, PlaybackFitsSession
<1>9. LagHasACause'
  <2>1. /\ history'.faults \in Nat /\ history'.teardowns \in {0, 1} /\ conn'.waiting = 0
        /\ Len(rtsp'.owed) = 0 /\ Len(rtsp'.answers) = 0
    BY <1>1, <1>6 DEF Quiet, HistoryShape
  <2> QED
    BY <2>1 DEF LagHasACause
<1> QED
  BY <1>2, <1>3, <1>5, <1>6, <1>7, <1>8, <1>9 DEF ConnInv

\* A connection that is ours in all but the request that is awaited.
SameAs(c) ==
  /\ DOMAIN c = ConnFields /\ c.stage = conn.stage /\ c.timing = conn.timing /\ c.auto = conn.auto
  /\ c.key = conn.key /\ c.cseq = conn.cseq /\ c.sock = conn.sock /\ c.cipher = conn.cipher
  /\ c.state = conn.state /\ c.ports = conn.ports /\ c.playback = conn.playback
  /\ c.streamer = conn.streamer /\ c.held = conn.held /\ c.workers = conn.workers
  /\ c.cancelled = conn.cancelled /\ c.disconnected = conn.disconnected

LEMMA FallBackKeeps ==
  ASSUME NEW c, SameAs(c), ConnInv, ~Idle, conn.stage = "building", Recorded, rtsp' = Quiet,
         conn' = [c EXCEPT !.plan = PinPlan, !.auto = FALSE, !.waiting = 0, !.cseq = 0, !.sock = FALSE,
                              !.cipher = FALSE, !.state = "Disconnected"]
  PROVE  ConnInv'
<1>1. /\ conn'.stage = "building" /\ conn'.timing = conn.timing /\ conn'.key = conn.key
      /\ conn'.plan = PinPlan /\ conn'.waiting = 0 /\ conn'.cseq = 0 /\ conn'.sock = FALSE
      /\ conn'.cipher = FALSE /\ conn'.state = "Disconnected" /\ conn'.ports = conn.ports
      /\ SamePlay /\ SameWork /\ conn'.disconnected = conn.disconnected /\ DOMAIN conn' = ConnFields
  BY DEF SameAs, ConnFields, SamePlay, SameWork
<1>2. ConnTyped'
  BY <1>1 DEF ConnInv, ConnTyped, SessionState, SamePlay, SameWork
<1>3. Planned(conn.plan)' /\ ~Idle' /\ Head(conn'.plan) = "tcp"
  BY <1>1, SealedPlans DEF Planned, Idle
<1>4. ChannelFits(rtsp)' /\ Unread(rtsp)' = 0
  BY <1>2, EmptyChannel DEF ChannelFits, LastRead, Unread
<1>5. ChannelCounts'
  BY <1>1, <1>4 DEF ChannelCounts
<1>6. /\ history' \in HistoryShape /\ identity' \in IdentityShape /\ IdentityIsKnown'
      /\ history'.teardowns = history.teardowns
  BY DEF Recorded
<1>7. StagesAgree' /\ AnswersAreOwn'
  BY <1>1, <1>3, <1>6, NothingAsked
  DEF ConnInv, StagesAgree, SamePlay, SameWork, BuildSteps, AnswersAreOwn, BetweenPhases, Early
<1>8. StepsAgree' /\ TeardownIsLast'
  BY <1>1, <1>3, <1>6 DEF ConnInv, StagesAgree, StepsAgree, BeforeStream, TeardownIsLast, EndSteps, HistoryShape
<1>9. SetupIsMatched' /\ PlaybackFitsSession'
  BY <1>1 DEF ConnInv, StagesAgree, SetupIsMatched, PlaybackFitsSession, SamePlay, Early
<1>10. LagHasACause'
  <2>1. /\ history'.faults \in Nat /\ history'.teardowns \in {0, 1} /\ conn'.waiting = 0
        /\ Len(rtsp'.owed) = 0 /\ Len(rtsp'.answers) = 0
    BY <1>1, <1>6 DEF Quiet, HistoryShape
  <2> QED
    BY <2>1 DEF LagHasACause
<1> QED
  BY <1>2, <1>3, <1>5, <1>6, <1>7, <1>8, <1>9, <1>10 DEF ConnInv

\* An error, whether the answer is still awaited or not.
LEMMA FailedKeeps ==
  ASSUME NEW c, SameAs(c), NEW w, ConnInv, ~Idle, ChannelFits(w), LagFits(w), Recorded,
         conn' = Failed(c), rtsp' = IF conn'.sock THEN w ELSE Quiet
  PROVE  ConnInv'
<1>1. c.stage = conn.stage /\ c.auto = conn.auto /\ c.workers = conn.workers /\ conn.stage \in {"building", "up"}
  BY DEF ConnInv, StagesAgree, SameAs
<1>2. CASE conn.stage = "up"
  <2>1. conn' = [c EXCEPT !.plan = <<>>, !.waiting = 0]
    BY <1>1, <1>2 DEF Failed
  <2>2. /\ conn'.plan = <<>> /\ conn'.waiting = 0 /\ conn'.cseq = conn.cseq /\ conn'.stage = conn.stage
        /\ conn'.timing = conn.timing /\ conn'.key = conn.key /\ conn'.cipher = conn.cipher
        /\ conn'.disconnected = conn.disconnected /\ conn'.sock = conn.sock
        /\ SameSession /\ SamePlay /\ SameWork /\ DOMAIN conn' = ConnFields
    BY <2>1 DEF SameAs, ConnFields, SameSession, SamePlay, SameWork
  <2>3. ConnTyped'
    BY <2>2 DEF ConnInv, ConnTyped, SameSession, SamePlay, SameWork
  <2> QED
    BY <1>2, <2>2, <2>3, EndsKeep DEF Reads
<1>3. CASE conn.stage = "building" /\ ~conn.auto
  <2>1. conn' = Dropped(conn)
    BY <1>1, <1>3 DEF Failed, Dropped
  <2>2. rtsp' = Quiet
    BY <2>1 DEF Dropped, New
  <2> QED
    BY <2>1, <2>2, DropKeeps
<1>4. CASE conn.stage = "building" /\ conn.auto
  <2>1. conn' = [c EXCEPT !.plan = PinPlan, !.auto = FALSE, !.waiting = 0, !.cseq = 0, !.sock = FALSE,
                          !.cipher = FALSE, !.state = "Disconnected"]
    BY <1>1, <1>4 DEF Failed
  <2>2. rtsp' = Quiet
    BY <2>1 DEF SameAs, ConnFields
  <2> QED
    BY <1>4, <2>1, <2>2, FallBackKeeps
<1> QED
  BY <1>1, <1>2, <1>3, <1>4

LEMMA Itself == ASSUME ConnInv PROVE SameAs(conn) /\ SameAs([conn EXCEPT !.waiting = 0])
BY DEF SameAs, ConnInv, ConnTyped, ConnFields

-----------------------------------------------------------------------------
\* The calls.
LEMMA ConnectionStarts == ConnectionInit => ConnInv
<1> SUFFICES ASSUME ConnectionInit PROVE ConnInv
  OBVIOUS
<1>1. PICK t \in Timings : conn = [New EXCEPT !.timing = t]
  BY DEF ConnectionInit
<1>2. t \in {"ntp", "yield", "slave", "master", "member"}
  BY ConnectionAssumption
<1>3. /\ conn.stage = "none" /\ conn.timing = t /\ conn.key = "none" /\ conn.plan = <<>>
      /\ conn.waiting = 0 /\ conn.cseq = 0 /\ conn.sock = FALSE /\ conn.cipher = FALSE
      /\ conn.state = "Disconnected" /\ conn.ports = NoPorts /\ conn.playback = "Stopped"
      /\ conn.streamer = "none" /\ conn.held = {} /\ conn.workers = {}
      /\ conn.disconnected = FALSE /\ DOMAIN conn = ConnFields
  BY <1>1 DEF New, ConnFields
<1>4. /\ rtsp = Quiet
      /\ identity \in {[file |-> "none", trusted |-> {}], [file |-> "old", trusted |-> {"old"}]}
      /\ history = [faults |-> 0, calls |-> 0, teardowns |-> 0, clear |-> FALSE, late |-> FALSE]
  BY DEF ConnectionInit
<1>5. ConnTyped
  <2>1. NoPorts \in [first : Nat, second : Nat]
    BY DEF NoPorts
  <2>2. conn.key \in Keys /\ conn.state \in SessionState
    BY <1>3 DEF Keys, SessionState
  <2>3. conn.workers \subseteq {"clock", "control"} /\ conn.held \subseteq {"timing", "events", "control"}
    BY <1>3
  <2>4. conn.cseq \in Nat /\ conn.waiting \in Nat
    BY <1>3
  <2> QED
    BY <1>2, <1>3, <2>1, <2>2, <2>3, <2>4 DEF ConnTyped
<1>6. Planned(conn.plan) /\ Idle
  BY <1>3, EmptyPlan DEF Idle
<1>7. history \in HistoryShape /\ history.teardowns = 0 /\ history.faults = 0
  BY <1>4 DEF HistoryShape
<1>8. identity \in IdentityShape /\ IdentityIsKnown
  BY <1>4 DEF IdentityShape, Keys, IdentityIsKnown
<1>9. ChannelCounts
  <2>1. Len(<<>>) = 0 /\ <<>> \in Seq(Requests)
    OBVIOUS
  <2>2. ChannelFits(Quiet)
    BY <1>3, <2>1 DEF ChannelFits, Quiet, ChannelShape, Unread, LastRead
  <2> QED
    BY <1>3, <1>4, <2>2 DEF ChannelCounts
<1>10. /\ StagesAgree /\ StepsAgree /\ AnswersAreOwn /\ TeardownIsLast
       /\ SetupIsMatched /\ PlaybackFitsSession
  BY <1>3, <1>4, <1>6, <1>7, NothingAsked
  DEF StagesAgree, StepsAgree, AnswersAreOwn, BetweenPhases, TeardownIsLast, SetupIsMatched,
      PlaybackFitsSession, Early
<1>11. LagHasACause
  <2>1. Len(rtsp.owed) = 0 /\ Len(rtsp.answers) = 0
    BY <1>4 DEF Quiet
  <2> QED
    BY <1>3, <1>7, <2>1 DEF LagHasACause
<1> QED
  BY <1>5, <1>6, <1>7, <1>8, <1>9, <1>10, <1>11 DEF ConnInv

LEMMA ConnectKeeps == ConnInv /\ (ConnectAuto \/ ConnectWithPinPairing) => ConnInv'
<1> SUFFICES ASSUME ConnInv, ConnectAuto \/ ConnectWithPinPairing PROVE ConnInv'
  OBVIOUS
<1>0. /\ conn.stage = "none" /\ UNCHANGED <<rtsp, identity, history>> /\ ~conn.sock
      /\ Idle /\ DOMAIN conn = ConnFields /\ conn.waiting = 0
  BY DEF ConnectAuto, ConnectWithPinPairing, ConnInv, ConnTyped, StagesAgree, ChannelCounts
<1>1. identity.file \in Keys /\ "new" \in Keys
  BY DEF ConnInv, IdentityShape, Keys
<1>2. PICK p \in {PinPlan, VerifyPlan, PinPairingPlan}, k \in Keys :
         /\ conn'.stage = "building" /\ conn'.timing = conn.timing /\ conn'.key = k /\ conn'.plan = p
         /\ conn'.waiting = conn.waiting /\ conn'.cseq = conn.cseq /\ conn'.sock = conn.sock
         /\ conn'.cipher = conn.cipher /\ conn'.disconnected = conn.disconnected
         /\ SameSession /\ SamePlay /\ SameWork /\ DOMAIN conn' = ConnFields
  <2>1. CASE ConnectAuto
    BY <1>0, <1>1, <2>1 DEF ConnectAuto, ConnFields, SameSession, SamePlay, SameWork
  <2>2. CASE ConnectWithPinPairing
    BY <1>0, <1>1, <2>2 DEF ConnectWithPinPairing, ConnFields, SameSession, SamePlay, SameWork
  <2> QED
    BY <2>1, <2>2
<1>3. ConnTyped'
  BY <1>2 DEF ConnInv, ConnTyped, SameSession, SamePlay, SameWork, Keys
<1>4. Planned(conn.plan)' /\ ~Idle' /\ Head(conn'.plan) = "tcp"
  BY <1>2, SealedPlans DEF Planned, Idle
<1>5. ChannelCounts'
  BY <1>0, <1>2 DEF ConnInv, ChannelCounts, ChannelFits, LastRead, Unread
<1>6. StagesAgree'
  BY <1>0, <1>2, <1>4 DEF ConnInv, StagesAgree, SameSession, SamePlay, SameWork, BuildSteps
<1>7. StepsAgree' /\ AnswersAreOwn'
  BY <1>0, <1>2, <1>4 DEF StepsAgree, BeforeStream, EndSteps, ConnInv, AnswersAreOwn, BetweenPhases, SameSession
<1>8. TeardownIsLast'
  BY <1>0, <1>2, <1>4 DEF ConnInv, StagesAgree, TeardownIsLast
<1>9. SetupIsMatched' /\ PlaybackFitsSession' /\ LagHasACause' /\ IdentityIsKnown'
  BY <1>0, <1>2 DEF ConnInv, SetupIsMatched, PlaybackFitsSession, LagHasACause, IdentityIsKnown,
     SameSession, SamePlay
<1> QED
  BY <1>0, <1>3, <1>4, <1>5, <1>6, <1>7, <1>8, <1>9 DEF ConnInv

\* The steps a call may begin with.
FirstSteps ==
  {"timing_server", "setup1", "sender", "pause_streamer", "resume_streamer", "stop_streamer",
   "set_volume", "feedback", "probe"}

LEMMA CallKeeps ==
  ASSUME ConnInv, NEW p, Planned(p), p # <<>>, Head(p) \in FirstSteps,
         Head(p) = "sender" => conn.state = "Ready", Call(p)
  PROVE  ConnInv'
<1>0. /\ conn.stage = "up" /\ Idle /\ ~conn.disconnected /\ UNCHANGED <<rtsp, identity>>
      /\ conn' = [conn EXCEPT !.plan = p] /\ DOMAIN conn = ConnFields /\ conn.waiting = 0
      /\ conn.sock /\ history.teardowns = 0
  BY DEF Call, ConnInv, ConnTyped, StagesAgree, ChannelCounts, TeardownIsLast, HistoryShape
<1>1. /\ history' \in HistoryShape /\ history'.teardowns = history.teardowns
      /\ history'.faults = history.faults
  <2>1. history \in HistoryShape /\ history' = [history EXCEPT !.calls = @ + 1]
    BY DEF Call, ConnInv
  <2>2. PICK c \in Nat : c = history.calls + 1
    BY <2>1 DEF HistoryShape
  <2> QED
    BY <2>1, <2>2 DEF HistoryShape
<1>2. /\ conn'.stage = "up" /\ conn'.timing = conn.timing /\ conn'.key = conn.key /\ conn'.plan = p
      /\ conn'.waiting = conn.waiting /\ conn'.cseq = conn.cseq /\ conn'.sock = conn.sock
      /\ conn'.cipher = conn.cipher /\ conn'.disconnected = conn.disconnected
      /\ SameSession /\ SamePlay /\ SameWork /\ DOMAIN conn' = ConnFields
  BY <1>0 DEF ConnFields, SameSession, SamePlay, SameWork
<1>3. ConnTyped'
  BY <1>2 DEF ConnInv, ConnTyped, SameSession, SamePlay, SameWork
<1>4. Planned(conn.plan)' /\ ~Idle' /\ Head(conn'.plan) \in FirstSteps
  BY <1>2 DEF Planned, Idle
<1>5. ChannelCounts'
  BY <1>0, <1>2 DEF ConnInv, ChannelCounts, ChannelFits, LastRead, Unread
<1>6. StagesAgree'
  BY <1>0, <1>2, <1>4 DEF ConnInv, StagesAgree, CallSteps, FirstSteps
<1>7. StepsAgree' /\ AnswersAreOwn'
  BY <1>0, <1>2, <1>4 DEF StepsAgree, BeforeStream, EndSteps, FirstSteps, SameSession, ConnInv, AnswersAreOwn,
     BetweenPhases
<1>8. TeardownIsLast'
  BY <1>0, <1>1, <1>2, <1>4 DEF TeardownIsLast
<1>9. SetupIsMatched' /\ PlaybackFitsSession' /\ LagHasACause' /\ IdentityIsKnown'
  BY <1>0, <1>1, <1>2 DEF ConnInv, SetupIsMatched, PlaybackFitsSession, LagHasACause, IdentityIsKnown,
     SameSession, SamePlay
<1> QED
  BY <1>0, <1>1, <1>3, <1>4, <1>5, <1>6, <1>7, <1>8, <1>9 DEF ConnInv

LEMMA SetupKeeps == ConnInv /\ Setup => ConnInv'
<1> SUFFICES ASSUME ConnInv, Setup PROVE ConnInv'
  OBVIOUS
<1>1. conn.timing \in {"ntp", "yield", "slave", "master", "member"}
  BY DEF ConnInv, ConnTyped
<1>2. /\ Planned(SetupPlan(conn.timing)) /\ SetupPlan(conn.timing) # <<>>
      /\ Head(SetupPlan(conn.timing)) \in {"timing_server", "setup1"}
  BY <1>1, SetupsPlanned
<1> QED
  BY <1>2, CallKeeps DEF Setup, FirstSteps

LEMMA StartKeeps == ConnInv /\ StartWith(StreamPlan) => ConnInv'
<1> SUFFICES ASSUME ConnInv, StartWith(StreamPlan) PROVE ConnInv'
  OBVIOUS
<1>1. Planned(StreamPlan) /\ StreamPlan # <<>> /\ Head(StreamPlan) = "sender" /\ StreamPlan[1] = "sender"
  <2>1. Planned(StreamPlan) /\ StreamPlan # <<>> /\ Head(StreamPlan) = StreamPlan[1]
    BY CallsPlanned
  <2> QED
    BY <2>1 DEF StreamPlan
<1>2. CASE conn.state = "Ready"
  <2>1. <<>> \o StreamPlan = StreamPlan
    BY <1>1, ConcatEmptySeq DEF Planned
  <2>2. Call(StreamPlan)
    BY <1>2, <2>1 DEF StartWith
  <2> QED
    BY <1>1, <1>2, <2>2, CallKeeps DEF FirstSteps
<1>3. CASE conn.state # "Ready"
  <2> DEFINE p == SetupPlan(conn.timing)
  <2>1. conn.timing \in {"ntp", "yield", "slave", "master", "member"}
    BY DEF ConnInv, ConnTyped
  <2>2. /\ Planned(p) /\ p # <<>> /\ Head(p) \in {"timing_server", "setup1"}
        /\ p[Len(p)] \in {"record", "clock_worker", "first_clock"}
        /\ \A i \in 1 .. Len(p) : p[i] # "stop_streamer"
    BY <2>1, SetupsPlanned
  <2>3. Head(p) = p[1]
    BY <2>2, TailPlanned
  <2>4. "sender" \in After(p[Len(p)])
    BY <2>2 DEF After, AfterCall, BuildSteps, CallSteps
  <2>5. Call(p \o StreamPlan)
    BY <1>3 DEF StartWith
  <2> HIDE DEF p
  <2>6. Planned(p \o StreamPlan) /\ p \o StreamPlan # <<>> /\ Head(p \o StreamPlan) = p[1]
    BY <1>1, <2>2, <2>4, JoinedPlans
  <2> QED
    BY <2>2, <2>3, <2>5, <2>6, CallKeeps DEF FirstSteps
<1> QED
  BY <1>2, <1>3

LEMMA ShortCallsKeep ==
  ASSUME ConnInv, NEW p \in {PausePlan, ResumePlan, StopPlan, <<"set_volume">>, <<"feedback">>, <<"probe">>}, Call(p)
  PROVE  ConnInv'
<1>1. Planned(p) /\ p # <<>> /\ Head(p) = p[1]
  BY CallsPlanned
<1>2. p[1] \in FirstSteps \ {"sender"}
  BY DEF PausePlan, ResumePlan, StopPlan, FirstSteps
<1> QED
  BY <1>1, <1>2, CallKeeps

LEMMA DisconnectKeeps == ConnInv /\ Disconnect => ConnInv'
<1> SUFFICES ASSUME ConnInv, Disconnect PROVE ConnInv'
  OBVIOUS
<1>0. /\ conn.stage = "up" /\ Idle /\ UNCHANGED <<rtsp, identity, history>>
      /\ DOMAIN conn = ConnFields /\ conn.waiting = 0
  BY DEF Disconnect, ConnInv, ConnTyped, ChannelCounts
<1>1. PICK p \in {<<>>, DisconnectPlan} :
         /\ conn' = [conn EXCEPT !.disconnected = TRUE, !.plan = p]
         /\ p # <<>> => ~conn.disconnected
  BY DEF Disconnect
<1>2. /\ conn'.stage = "up" /\ conn'.timing = conn.timing /\ conn'.key = conn.key /\ conn'.plan = p
      /\ conn'.waiting = conn.waiting /\ conn'.cseq = conn.cseq /\ conn'.sock = conn.sock
      /\ conn'.cipher = conn.cipher /\ conn'.disconnected = TRUE
      /\ SameSession /\ SamePlay /\ SameWork /\ DOMAIN conn' = ConnFields
  BY <1>0, <1>1 DEF ConnFields, SameSession, SamePlay, SameWork
<1>3. ConnTyped'
  BY <1>2 DEF ConnInv, ConnTyped, SameSession, SamePlay, SameWork
<1>4. Planned(conn.plan)' /\ (~Idle' => Head(conn'.plan) = "end_streamer" /\ ~conn.disconnected)
  <2>1. Planned(p)
    BY EmptyPlan, CallsPlanned
  <2>2. p # <<>> => Head(p) = "end_streamer"
    BY DEF DisconnectPlan
  <2> QED
    BY <1>1, <1>2, <2>1, <2>2 DEF Planned, Idle
<1>5. ChannelCounts'
  BY <1>0, <1>2 DEF ConnInv, ChannelCounts, ChannelFits, LastRead, Unread
<1>6. StagesAgree'
  BY <1>0, <1>2, <1>4 DEF ConnInv, StagesAgree, EndSteps, SamePlay, SameWork
<1>7. StepsAgree' /\ AnswersAreOwn'
  BY <1>0, <1>2, <1>4 DEF StepsAgree, BeforeStream, EndSteps, ConnInv, AnswersAreOwn, BetweenPhases, SameSession
<1>8. TeardownIsLast'
  BY <1>0, <1>2, <1>4 DEF ConnInv, TeardownIsLast
<1>9. SetupIsMatched' /\ PlaybackFitsSession' /\ LagHasACause' /\ IdentityIsKnown'
  BY <1>0, <1>2 DEF ConnInv, SetupIsMatched, PlaybackFitsSession, LagHasACause, IdentityIsKnown,
     SameSession, SamePlay
<1> QED
  BY <1>0, <1>3, <1>4, <1>5, <1>6, <1>7, <1>8, <1>9 DEF ConnInv

-----------------------------------------------------------------------------
\* The local steps of a call.
LEMMA FaultRecorded ==
  ASSUME ConnInv, Fault, identity' = identity
  PROVE  Recorded /\ history'.faults = history.faults + 1 /\ history.faults \in Nat
<1>1. history \in HistoryShape /\ history' = [history EXCEPT !.faults = @ + 1] /\ history.faults \in Nat
  BY DEF Fault, ConnInv, HistoryShape
<1>2. PICK f \in Nat : f = history.faults + 1
  BY <1>1
<1>3. history' \in HistoryShape /\ history'.teardowns = history.teardowns /\ history'.faults = f
  BY <1>1, <1>2 DEF HistoryShape
<1> QED
  BY <1>1, <1>2, <1>3 DEF Recorded, ConnInv, IdentityIsKnown

LEMMA PlainlyRecorded == ASSUME ConnInv, history' = history, identity' = identity PROVE Recorded
BY DEF Recorded, ConnInv, IdentityIsKnown

\* Nothing is awaited at a step that is no request, and the channel owes no more
\* than the faults explain.
LEMMA LagIsFitting ==
  ASSUME ConnInv, conn.waiting = 0, history'.faults \in Nat, history.faults <= history'.faults
  PROVE  LagFits(rtsp)
<1>1. history \in HistoryShape /\ rtsp \in ChannelShape
  BY DEF ConnInv, ChannelCounts, ChannelFits
<1>2. /\ history.faults \in Nat /\ history.teardowns \in {0, 1} /\ Len(rtsp.owed) \in Nat /\ Len(rtsp.answers) \in Nat
  BY <1>1, LenProperties DEF HistoryShape, ChannelShape
<1>3. PICK k \in {0, 1} : k = IF history.teardowns = 0 THEN 0 ELSE 1
  OBVIOUS
<1>4. ~rtsp.closed /\ ~rtsp.torn => Len(rtsp.owed) + Len(rtsp.answers) <= history.faults + k
  BY <1>3 DEF ConnInv, LagHasACause
<1>5. ~rtsp.closed /\ ~rtsp.torn => Len(rtsp.owed) + Len(rtsp.answers) <= history'.faults + k
  <2>1. PICK m \in Nat : m = Len(rtsp.owed)
    BY <1>2
  <2>2. PICK n \in Nat : n = Len(rtsp.answers)
    BY <1>2
  <2>3. ~rtsp.closed /\ ~rtsp.torn => m + n <= history.faults + k
    BY <1>4, <2>1, <2>2
  <2>4. ~rtsp.closed /\ ~rtsp.torn => m + n <= history'.faults + k
    BY <1>2, <1>3, <2>3
  <2> QED
    BY <2>1, <2>2, <2>4
<1> QED
  BY <1>3, <1>5 DEF LagFits, Unread

\* A read that was cut short tears the channel.
LEMMA TornFits ==
  ASSUME ConnInv, NEW b, NEW w, w = [rtsp EXCEPT !.torn = @ \/ b]
  PROVE  /\ ChannelFits(w) /\ w.owed = rtsp.owed /\ w.answers = rtsp.answers /\ w.closed = rtsp.closed
         /\ ~w.torn => ~rtsp.torn
<1>1. rtsp \in ChannelShape /\ ChannelFits(rtsp)
  BY DEF ConnInv, ChannelCounts, ChannelFits
<1>2. w.owed = rtsp.owed /\ w.answers = rtsp.answers /\ w.closed = rtsp.closed
  BY <1>1 DEF ChannelShape
<1>3. ~w.torn => ~rtsp.torn
  BY <1>1 DEF ChannelShape
<1>4. w \in ChannelShape
  <2>1. PICK t \in BOOLEAN : t = (rtsp.torn \/ b)
    OBVIOUS
  <2>2. w = [rtsp EXCEPT !.torn = t]
    BY <2>1
  <2> QED
    BY <2>2, <1>1 DEF ChannelShape
<1> QED
  BY <1>1, <1>2, <1>3, <1>4 DEF ChannelFits, LastRead, Unread

\* A fault explains one answer more.
LEMMA FaultExplains ==
  ASSUME ConnInv, NEW w, w.owed = rtsp.owed, w.answers = rtsp.answers, w.closed = rtsp.closed,
         ~w.torn => ~rtsp.torn, history.faults \in Nat,
         \/ history'.faults = history.faults + 1
         \/ history'.faults = history.faults /\ history.teardowns = 1
  PROVE  LagFits(w)
<1>1. rtsp \in ChannelShape /\ history \in HistoryShape
  BY DEF ConnInv, ChannelCounts, ChannelFits
<1>2. /\ history.teardowns \in {0, 1} /\ Len(rtsp.owed) \in Nat /\ Len(rtsp.answers) \in Nat
  BY <1>1, LenProperties DEF HistoryShape, ChannelShape
<1>3. PICK k \in {0, 1} : k = IF conn.waiting = 0 /\ history.teardowns = 0 THEN 0 ELSE 1
  OBVIOUS
<1>4. ~rtsp.closed /\ ~rtsp.torn => Len(rtsp.owed) + Len(rtsp.answers) <= history.faults + k
  BY <1>3 DEF ConnInv, LagHasACause
<1>5. PICK n \in {0, 1} : n = IF history.teardowns = 0 THEN 0 ELSE 1
  OBVIOUS
<1>6. ~rtsp.closed /\ ~rtsp.torn => Len(rtsp.owed) + Len(rtsp.answers) <= history'.faults + n
  <2>1. PICK a \in Nat : a = Len(rtsp.owed)
    BY <1>2
  <2>2. PICK b \in Nat : b = Len(rtsp.answers)
    BY <1>2
  <2>3. ~rtsp.closed /\ ~rtsp.torn => a + b <= history.faults + k
    BY <1>4, <2>1, <2>2
  <2>4. CASE history'.faults = history.faults + 1
    <3>1. ~rtsp.closed /\ ~rtsp.torn => a + b <= history'.faults + n
      BY <1>3, <1>5, <2>3, <2>4
    <3> QED
      BY <2>1, <2>2, <3>1
  <2>5. CASE history'.faults = history.faults /\ history.teardowns = 1
    <3>1. n = 1
      BY <1>5, <2>5
    <3>2. ~rtsp.closed /\ ~rtsp.torn => a + b <= history'.faults + n
      BY <1>3, <2>3, <2>5, <3>1
    <3> QED
      BY <2>1, <2>2, <3>2
  <2> QED
    BY <2>4, <2>5
<1>7. Asked(w) = Asked(rtsp)
  BY DEF Asked
<1> QED
  BY <1>5, <1>6, <1>7 DEF LagFits, Unread

LEMMA GiveUpKeeps == ConnInv /\ GiveUp => ConnInv'
<1> SUFFICES ASSUME ConnInv, GiveUp PROVE ConnInv'
  OBVIOUS
<1> DEFINE w == [rtsp EXCEPT !.torn = @ \/ (conn.waiting # 0 /\ rtsp.answers # <<>>)]
<1>0. ~Idle /\ Recorded /\ history'.faults = history.faults + 1 /\ history.faults \in Nat
  BY FaultRecorded DEF GiveUp
<1>1. DOMAIN conn = ConnFields
  BY DEF ConnInv, ConnTyped
<1>3. PICK b \in BOOLEAN : b = (conn.waiting # 0 /\ rtsp.answers # <<>>)
  OBVIOUS
<1>4. w = [rtsp EXCEPT !.torn = @ \/ b]
  BY <1>3
<1>5. rtsp' = IF conn'.sock THEN w ELSE Quiet
  BY DEF GiveUp, Carry
<1> HIDE DEF w
<1>2. /\ ChannelFits(w) /\ w.owed = rtsp.owed /\ w.answers = rtsp.answers /\ w.closed = rtsp.closed
      /\ ~w.torn => ~rtsp.torn
  BY <1>4, TornFits
<1>6. ChannelFits(w) /\ LagFits(w)
  BY <1>0, <1>2, FaultExplains
<1>8. CASE conn.stage = "building"
  <2>1. conn' = Dropped(conn)
    BY <1>8 DEF GiveUp
  <2>2. rtsp' = Quiet
    BY <2>1, <1>5 DEF Dropped, New
  <2> QED
    BY <1>0, <2>1, <2>2, DropKeeps
<1>9. CASE conn.stage # "building"
  <2>1. conn.stage = "up" /\ conn' = [conn EXCEPT !.plan = <<>>, !.waiting = 0]
    BY <1>0, <1>9 DEF GiveUp, ConnInv, StagesAgree
  <2>2. /\ conn'.plan = <<>> /\ conn'.waiting = 0 /\ conn'.cseq = conn.cseq /\ conn'.stage = conn.stage
        /\ conn'.timing = conn.timing /\ conn'.key = conn.key /\ conn'.cipher = conn.cipher
        /\ conn'.disconnected = conn.disconnected /\ conn'.sock = conn.sock
        /\ SameSession /\ SamePlay /\ SameWork /\ DOMAIN conn' = ConnFields
    BY <1>1, <2>1 DEF ConnFields, SameSession, SamePlay, SameWork
  <2>3. ConnTyped'
    BY <2>2 DEF ConnInv, ConnTyped, SameSession, SamePlay, SameWork
  <2>4. Reads(w)
    BY <1>0, <1>5, <1>6, <2>2 DEF Reads
  <2> QED
    BY <1>0, <2>1, <2>2, <2>3, <2>4, EndsKeep
<1> QED
  BY <1>8, <1>9

LEMMA DropConnectionKeeps == ConnInv /\ DropConnection => ConnInv'
<1> SUFFICES ASSUME ConnInv, DropConnection PROVE ConnInv'
  OBVIOUS
<1>1. conn' = Dropped(conn) /\ Recorded
  BY PlainlyRecorded DEF DropConnection
<1>2. rtsp' = Quiet
  BY <1>1 DEF DropConnection, Carry, Dropped, New
<1> QED
  BY <1>1, <1>2, DropKeeps

LEMMA LocalFailsKeeps == ASSUME ConnInv, NEW s, s \notin RequestKinds, LocalFails(s) PROVE ConnInv'
<1>1. ~Idle /\ conn.waiting = 0 /\ ChannelFits(rtsp)
  BY DEF LocalFails, At, ConnInv, ChannelCounts
<1>2. Recorded /\ history'.faults = history.faults + 1 /\ history.faults \in Nat
  BY FaultRecorded DEF LocalFails
<1>3. LagFits(rtsp)
  BY <1>1, <1>2, LagIsFitting
<1>4. conn' = Failed(conn) /\ rtsp' = IF conn'.sock THEN rtsp ELSE Quiet
  BY DEF LocalFails, Carry
<1> QED
  BY <1>1, <1>2, <1>3, <1>4, Itself, FailedKeeps

\* The local steps that leave the state of the session alone.
QuietSteps ==
  {"cipher", "save", "timing_server", "events", "control", "clock_worker", "first_clock", "sender",
   "control_worker", "pause_streamer", "resume_streamer", "stop_streamer", "stopped",
   "end_streamer", "stop_services", "cancel", "join"}

Proceeds ==
  /\ conn'.plan = Tail(conn.plan) /\ conn'.stage = conn.stage /\ conn'.timing = conn.timing
  /\ conn'.key = conn.key /\ conn'.waiting = conn.waiting /\ conn'.cseq = conn.cseq
  /\ conn'.sock = conn.sock /\ conn'.disconnected = conn.disconnected /\ SameSession
  /\ DOMAIN conn' = ConnFields

LEMMA QuietStepKeeps ==
  ASSUME ConnInv, NEW s \in QuietSteps, At(s), Proceeds, Carry(rtsp), history' = history, Recorded,
         conn'.cipher \in BOOLEAN, conn.cipher \/ s = "cipher" => conn'.cipher,
         conn'.playback \in {conn.playback, "Stopped", conn.state},
         conn'.playback \in {"Stopped", "Playing", "Paused"},
         conn'.streamer \in {"none", "starting", "playing", "paused", "stopped"},
         s \notin CallSteps => conn'.streamer \in {conn.streamer, "none"},
         s = "end_streamer" => conn'.streamer = "none",
         conn'.held \subseteq {"timing", "events", "control"}, conn'.workers \subseteq {"clock", "control"},
         conn.cancelled \/ s = "cancel" => conn'.cancelled,
         s \in BuildSteps => SamePlay /\ SameWork
  PROVE  ConnInv'
<1>1. ~Idle /\ Head(conn.plan) = s /\ s \notin RequestKinds /\ s # "tcp"
  BY DEF At, QuietSteps, RequestKinds, Pairing, SessionKinds, SetupKinds
<1>2. conn.waiting = 0 /\ conn.sock /\ conn'.sock /\ ChannelFits(rtsp)
  BY <1>1, SocketIsOpen DEF ConnInv, ChannelCounts, Proceeds
<1>3. LagFits(rtsp)
  <2>1. history.faults \in Nat
    BY DEF ConnInv, HistoryShape
  <2> QED
    BY <1>2, <2>1, LagIsFitting
<1>4. Reads(rtsp)
  BY <1>2, <1>3 DEF Reads, Proceeds, Carry
<1>5. ConnTyped'
  BY DEF Proceeds, SameSession, ConnTyped, ConnInv
<1>6. Moves(rtsp)
  BY <1>1, <1>4, <1>5 DEF Moves, Proceeds
<1>7. conn.stage = "up" \/ (SamePlay /\ SameWork)
  BY <1>1 DEF ConnInv, StagesAgree
<1>8. SameLife /\ SameSession
  BY <1>2 DEF SameLife, Proceeds
<1>9. s \notin {"tcp", "paired", "setup1", "setup2", "stream", "close", "setup_m5"}
  BY DEF QuietSteps
<1>10. Steady(rtsp)
  BY <1>1, <1>6, <1>7, <1>8, <1>9 DEF Steady
<1> QED
  BY <1>10, SteadyKeeps

LEMMA PlainStepKeeps ==
  ASSUME ConnInv, NEW s \in QuietSteps \ {"cipher", "end_streamer", "cancel"}, At(s), history' = history,
         conn' = Advance(conn), Carry(rtsp), Recorded
  PROVE  ConnInv'
<1>1. Proceeds /\ SamePlay /\ SameWork /\ conn'.cipher = conn.cipher
  BY DEF Advance, Proceeds, SamePlay, SameWork, SameSession, ConnInv, ConnTyped, ConnFields
<1> QED
  BY <1>1, QuietStepKeeps DEF SamePlay, SameWork, ConnInv, ConnTyped

LEMMA PlainKeeps == ConnInv /\ (FirstClock \/ BuildSender \/ JoinWorkers) => ConnInv'
<1> SUFFICES ASSUME ConnInv, FirstClock \/ BuildSender \/ JoinWorkers PROVE ConnInv'
  OBVIOUS
<1>1. ASSUME NEW s \in {"first_clock", "sender", "join"}, Local(s, conn) PROVE ConnInv'
  <2>1. s \in QuietSteps \ {"cipher", "end_streamer", "cancel"}
    BY DEF QuietSteps
  <2> QED
    BY <1>1, <2>1, PlainlyRecorded, PlainStepKeeps DEF Local
<1>2. ASSUME NEW s \in {"first_clock", "sender"}, LocalFails(s) PROVE ConnInv'
  <2>1. s \notin RequestKinds
    BY DEF RequestKinds, SessionKinds, SetupKinds, Pairing
  <2> QED
    BY <1>2, <2>1, LocalFailsKeeps
<1> QED
  BY <1>1, <1>2 DEF FirstClock, BuildSender, JoinWorkers

LEMMA SaveIdentityKeeps == ConnInv /\ SaveIdentity => ConnInv'
<1> SUFFICES ASSUME ConnInv, SaveIdentity PROVE ConnInv'
  OBVIOUS
<1>0. ~Idle /\ Head(conn.plan) = "save" /\ "save" \in BuildSteps /\ "save" \notin CallSteps \cup EndSteps
  BY DEF SaveIdentity, At, BuildSteps, CallSteps, EndSteps
<1>1. conn.stage = "building" /\ "new" \in identity.trusted /\ conn.sock
  BY <1>0 DEF ConnInv, StagesAgree
<1>2. identity \in IdentityShape /\ conn.key \in Keys
  BY DEF ConnInv, ConnTyped
<1>3. identity' \in IdentityShape /\ identity'.trusted = identity.trusted
  BY <1>2 DEF SaveIdentity, IdentityShape
<1>4. Recorded
  BY <1>1, <1>3 DEF SaveIdentity, Recorded, ConnInv, IdentityIsKnown
<1>5. Carry(rtsp)
  BY <1>1 DEF SaveIdentity, Carry, Advance, ConnInv, ConnTyped, ConnFields
<1> QED
  BY <1>4, <1>5, PlainStepKeeps DEF SaveIdentity, QuietSteps

LEMMA SetCipherKeeps == ConnInv /\ SetCipher => ConnInv'
<1> SUFFICES ASSUME ConnInv, SetCipher PROVE ConnInv'
  OBVIOUS
<1>1. At("cipher") /\ conn' = Advance([conn EXCEPT !.cipher = TRUE]) /\ Carry(rtsp) /\ history' = history /\ identity' = identity
  BY DEF Local, SetCipher
<1>2. Proceeds
  BY <1>1 DEF Advance, Proceeds, SameSession, ConnInv, ConnTyped, ConnFields
<1>3. conn'.cipher = TRUE /\ SamePlay /\ SameWork
  BY <1>1 DEF Advance, SamePlay, SameWork, ConnInv, ConnTyped, ConnFields
<1> QED
  BY <1>1, <1>2, <1>3, PlainlyRecorded, QuietStepKeeps
  DEF ConnInv, ConnTyped, SamePlay, SameWork, QuietSteps, BuildSteps, CallSteps

LEMMA StartTimingServerKeeps == ConnInv /\ StartTimingServer => ConnInv'
<1> SUFFICES ASSUME ConnInv, StartTimingServer PROVE ConnInv'
  OBVIOUS
<1>1. ASSUME Local("timing_server", [conn EXCEPT !.held = @ \cup {"timing"}]) PROVE ConnInv'
  <2>1. At("timing_server") /\ conn' = Advance([conn EXCEPT !.held = @ \cup {"timing"}]) /\ Carry(rtsp) /\ history' = history /\ identity' = identity
    BY <1>1 DEF Local
  <2>2. Proceeds
    BY <2>1 DEF Advance, Proceeds, SameSession, ConnInv, ConnTyped, ConnFields
  <2>3. conn'.cipher = conn.cipher /\ SamePlay /\ conn'.cancelled = conn.cancelled /\ conn'.workers = conn.workers /\ conn'.held = conn.held \cup {"timing"}
    BY <2>1 DEF Advance, SamePlay, SameWork, ConnInv, ConnTyped, ConnFields
  <2> QED
    BY <2>1, <2>2, <2>3, PlainlyRecorded, QuietStepKeeps
    DEF ConnInv, ConnTyped, SamePlay, SameWork, QuietSteps, BuildSteps, CallSteps
<1>2. ASSUME LocalFails("timing_server") PROVE ConnInv'
  <2>1. "timing_server" \notin RequestKinds
    BY DEF RequestKinds, SessionKinds, SetupKinds, Pairing
  <2> QED
    BY <1>2, <2>1, LocalFailsKeeps
<1> QED
  BY <1>1, <1>2 DEF StartTimingServer

LEMMA ConnectEventsKeeps == ConnInv /\ ConnectEvents => ConnInv'
<1> SUFFICES ASSUME ConnInv, ConnectEvents PROVE ConnInv'
  OBVIOUS
<1>1. ASSUME NEW some \in {{}, {"events"}}, Local("events", [conn EXCEPT !.held = @ \cup some]) PROVE ConnInv'
  <2>1. At("events") /\ conn' = Advance([conn EXCEPT !.held = @ \cup some]) /\ Carry(rtsp) /\ history' = history /\ identity' = identity
    BY <1>1 DEF Local
  <2>2. Proceeds
    BY <2>1 DEF Advance, Proceeds, SameSession, ConnInv, ConnTyped, ConnFields
  <2>3. conn'.cipher = conn.cipher /\ SamePlay /\ conn'.cancelled = conn.cancelled /\ conn'.workers = conn.workers /\ conn'.held = conn.held \cup some
    BY <2>1 DEF Advance, SamePlay, SameWork, ConnInv, ConnTyped, ConnFields
  <2> QED
    BY <2>1, <2>2, <2>3, PlainlyRecorded, QuietStepKeeps
    DEF ConnInv, ConnTyped, SamePlay, SameWork, QuietSteps, BuildSteps, CallSteps
<1> QED
  BY <1>1 DEF ConnectEvents

LEMMA BindControlKeeps == ConnInv /\ BindControl => ConnInv'
<1> SUFFICES ASSUME ConnInv, BindControl PROVE ConnInv'
  OBVIOUS
<1>1. ASSUME Local("control", [conn EXCEPT !.held = @ \cup {"control"}]) PROVE ConnInv'
  <2>1. At("control") /\ conn' = Advance([conn EXCEPT !.held = @ \cup {"control"}]) /\ Carry(rtsp) /\ history' = history /\ identity' = identity
    BY <1>1 DEF Local
  <2>2. Proceeds
    BY <2>1 DEF Advance, Proceeds, SameSession, ConnInv, ConnTyped, ConnFields
  <2>3. conn'.cipher = conn.cipher /\ SamePlay /\ conn'.cancelled = conn.cancelled /\ conn'.workers = conn.workers /\ conn'.held = conn.held \cup {"control"}
    BY <2>1 DEF Advance, SamePlay, SameWork, ConnInv, ConnTyped, ConnFields
  <2> QED
    BY <2>1, <2>2, <2>3, PlainlyRecorded, QuietStepKeeps
    DEF ConnInv, ConnTyped, SamePlay, SameWork, QuietSteps, BuildSteps, CallSteps
<1>2. ASSUME LocalFails("control") PROVE ConnInv'
  <2>1. "control" \notin RequestKinds
    BY DEF RequestKinds, SessionKinds, SetupKinds, Pairing
  <2> QED
    BY <1>2, <2>1, LocalFailsKeeps
<1> QED
  BY <1>1, <1>2 DEF BindControl

LEMMA StartClockKeeps == ConnInv /\ StartClock => ConnInv'
<1> SUFFICES ASSUME ConnInv, StartClock PROVE ConnInv'
  OBVIOUS
<1>1. At("clock_worker") /\ conn' = Advance([conn EXCEPT !.workers = @ \cup {"clock"}]) /\ Carry(rtsp) /\ history' = history /\ identity' = identity
  BY DEF Local, StartClock
<1>2. Proceeds
  BY <1>1 DEF Advance, Proceeds, SameSession, ConnInv, ConnTyped, ConnFields
<1>3. conn'.cipher = conn.cipher /\ SamePlay /\ conn'.cancelled = conn.cancelled /\ conn'.held = conn.held /\ conn'.workers = conn.workers \cup {"clock"}
  BY <1>1 DEF Advance, SamePlay, SameWork, ConnInv, ConnTyped, ConnFields
<1> QED
  BY <1>1, <1>2, <1>3, PlainlyRecorded, QuietStepKeeps
  DEF ConnInv, ConnTyped, SamePlay, SameWork, QuietSteps, BuildSteps, CallSteps

LEMMA StartControlKeeps == ConnInv /\ StartControl => ConnInv'
<1> SUFFICES ASSUME ConnInv, StartControl PROVE ConnInv'
  OBVIOUS
<1>1. At("control_worker") /\ conn' = Advance([conn EXCEPT !.workers = IF "control" \in conn.held THEN @ \cup {"control"} ELSE @,
                     !.streamer = "playing", !.playback = "Playing"]) /\ Carry(rtsp) /\ history' = history /\ identity' = identity
  BY DEF Local, StartControl
<1>2. Proceeds
  BY <1>1 DEF Advance, Proceeds, SameSession, ConnInv, ConnTyped, ConnFields
<1>3. conn'.cipher = conn.cipher /\ conn'.cancelled = conn.cancelled /\ conn'.held = conn.held /\ conn'.workers \subseteq conn.workers \cup {"control"} /\ conn'.streamer = "playing" /\ conn'.playback = "Playing"
  BY <1>1 DEF Advance, SamePlay, SameWork, ConnInv, ConnTyped, ConnFields
<1>4. conn.state = "Playing"
  BY <1>1 DEF At, ConnInv, StepsAgree
<1> QED
  BY <1>1, <1>2, <1>3, <1>4, PlainlyRecorded, QuietStepKeeps
  DEF ConnInv, ConnTyped, SamePlay, SameWork, QuietSteps, BuildSteps, CallSteps

LEMMA PauseStreamerKeeps == ConnInv /\ PauseStreamer => ConnInv'
<1> SUFFICES ASSUME ConnInv, PauseStreamer PROVE ConnInv'
  OBVIOUS
<1>1. At("pause_streamer") /\ conn' = Advance([conn EXCEPT !.streamer = IF @ = "none" THEN @ ELSE "paused"]) /\ Carry(rtsp) /\ history' = history /\ identity' = identity
  BY DEF Local, PauseStreamer
<1>2. Proceeds
  BY <1>1 DEF Advance, Proceeds, SameSession, ConnInv, ConnTyped, ConnFields
<1>3. conn'.cipher = conn.cipher /\ conn'.cancelled = conn.cancelled /\ conn'.held = conn.held /\ conn'.workers = conn.workers /\ conn'.playback = conn.playback /\ conn'.streamer \in {conn.streamer, "paused"}
  BY <1>1 DEF Advance, SamePlay, SameWork, ConnInv, ConnTyped, ConnFields
<1> QED
  BY <1>1, <1>2, <1>3, PlainlyRecorded, QuietStepKeeps
  DEF ConnInv, ConnTyped, SamePlay, SameWork, QuietSteps, BuildSteps, CallSteps

LEMMA ResumeStreamerKeeps == ConnInv /\ ResumeStreamer => ConnInv'
<1> SUFFICES ASSUME ConnInv, ResumeStreamer PROVE ConnInv'
  OBVIOUS
<1>1. At("resume_streamer") /\ conn' = Advance([conn EXCEPT !.streamer = IF @ = "none" THEN @ ELSE "playing"]) /\ Carry(rtsp) /\ history' = history /\ identity' = identity
  BY DEF Local, ResumeStreamer
<1>2. Proceeds
  BY <1>1 DEF Advance, Proceeds, SameSession, ConnInv, ConnTyped, ConnFields
<1>3. conn'.cipher = conn.cipher /\ conn'.cancelled = conn.cancelled /\ conn'.held = conn.held /\ conn'.workers = conn.workers /\ conn'.playback = conn.playback /\ conn'.streamer \in {conn.streamer, "playing"}
  BY <1>1 DEF Advance, SamePlay, SameWork, ConnInv, ConnTyped, ConnFields
<1> QED
  BY <1>1, <1>2, <1>3, PlainlyRecorded, QuietStepKeeps
  DEF ConnInv, ConnTyped, SamePlay, SameWork, QuietSteps, BuildSteps, CallSteps

LEMMA StopStreamerKeeps == ConnInv /\ StopStreamer => ConnInv'
<1> SUFFICES ASSUME ConnInv, StopStreamer PROVE ConnInv'
  OBVIOUS
<1>1. At("stop_streamer") /\ conn' = Advance([conn EXCEPT !.streamer = IF @ = "none" THEN @ ELSE "stopped"]) /\ Carry(rtsp) /\ history' = history /\ identity' = identity
  BY DEF Local, StopStreamer
<1>2. Proceeds
  BY <1>1 DEF Advance, Proceeds, SameSession, ConnInv, ConnTyped, ConnFields
<1>3. conn'.cipher = conn.cipher /\ conn'.cancelled = conn.cancelled /\ conn'.held = conn.held /\ conn'.workers = conn.workers /\ conn'.playback = conn.playback /\ conn'.streamer \in {conn.streamer, "stopped"}
  BY <1>1 DEF Advance, SamePlay, SameWork, ConnInv, ConnTyped, ConnFields
<1> QED
  BY <1>1, <1>2, <1>3, PlainlyRecorded, QuietStepKeeps
  DEF ConnInv, ConnTyped, SamePlay, SameWork, QuietSteps, BuildSteps, CallSteps

LEMMA StopConnectionEndsKeeps == ConnInv /\ StopConnectionEnds => ConnInv'
<1> SUFFICES ASSUME ConnInv, StopConnectionEnds PROVE ConnInv'
  OBVIOUS
<1>1. At("stopped") /\ conn' = Advance([conn EXCEPT !.playback = "Stopped"]) /\ Carry(rtsp) /\ history' = history /\ identity' = identity
  BY DEF Local, StopConnectionEnds
<1>2. Proceeds
  BY <1>1 DEF Advance, Proceeds, SameSession, ConnInv, ConnTyped, ConnFields
<1>3. conn'.cipher = conn.cipher /\ conn'.streamer = conn.streamer /\ SameWork /\ conn'.playback = "Stopped"
  BY <1>1 DEF Advance, SamePlay, SameWork, ConnInv, ConnTyped, ConnFields
<1> QED
  BY <1>1, <1>2, <1>3, PlainlyRecorded, QuietStepKeeps
  DEF ConnInv, ConnTyped, SamePlay, SameWork, QuietSteps, BuildSteps, CallSteps

LEMMA EndStreamerKeeps == ConnInv /\ EndStreamer => ConnInv'
<1> SUFFICES ASSUME ConnInv, EndStreamer PROVE ConnInv'
  OBVIOUS
<1>1. At("end_streamer") /\ conn' = Advance([conn EXCEPT !.streamer = "none"]) /\ Carry(rtsp) /\ history' = history /\ identity' = identity
  BY DEF Local, EndStreamer
<1>2. Proceeds
  BY <1>1 DEF Advance, Proceeds, SameSession, ConnInv, ConnTyped, ConnFields
<1>3. conn'.cipher = conn.cipher /\ conn'.playback = conn.playback /\ SameWork /\ conn'.streamer = "none"
  BY <1>1 DEF Advance, SamePlay, SameWork, ConnInv, ConnTyped, ConnFields
<1> QED
  BY <1>1, <1>2, <1>3, PlainlyRecorded, QuietStepKeeps
  DEF ConnInv, ConnTyped, SamePlay, SameWork, QuietSteps, BuildSteps, CallSteps

LEMMA StopServicesKeeps == ConnInv /\ StopServices => ConnInv'
<1> SUFFICES ASSUME ConnInv, StopServices PROVE ConnInv'
  OBVIOUS
<1>1. At("stop_services") /\ conn' = Advance([conn EXCEPT !.held = @ \ {"timing"}]) /\ Carry(rtsp) /\ history' = history /\ identity' = identity
  BY DEF Local, StopServices
<1>2. Proceeds
  BY <1>1 DEF Advance, Proceeds, SameSession, ConnInv, ConnTyped, ConnFields
<1>3. conn'.cipher = conn.cipher /\ SamePlay /\ conn'.cancelled = conn.cancelled /\ conn'.workers = conn.workers /\ conn'.held = conn.held \ {"timing"}
  BY <1>1 DEF Advance, SamePlay, SameWork, ConnInv, ConnTyped, ConnFields
<1> QED
  BY <1>1, <1>2, <1>3, PlainlyRecorded, QuietStepKeeps
  DEF ConnInv, ConnTyped, SamePlay, SameWork, QuietSteps, BuildSteps, CallSteps

LEMMA CancelKeeps == ConnInv /\ Cancel => ConnInv'
<1> SUFFICES ASSUME ConnInv, Cancel PROVE ConnInv'
  OBVIOUS
<1>1. At("cancel") /\ conn' = Advance([conn EXCEPT !.cancelled = TRUE]) /\ Carry(rtsp) /\ history' = history /\ identity' = identity
  BY DEF Local, Cancel
<1>2. Proceeds
  BY <1>1 DEF Advance, Proceeds, SameSession, ConnInv, ConnTyped, ConnFields
<1>3. conn'.cipher = conn.cipher /\ SamePlay /\ conn'.held = conn.held /\ conn'.workers = conn.workers /\ conn'.cancelled = TRUE
  BY <1>1 DEF Advance, SamePlay, SameWork, ConnInv, ConnTyped, ConnFields
<1> QED
  BY <1>1, <1>2, <1>3, PlainlyRecorded, QuietStepKeeps
  DEF ConnInv, ConnTyped, SamePlay, SameWork, QuietSteps, BuildSteps, CallSteps

-----------------------------------------------------------------------------
\* The steps that move the session.
LEMMA SessionStepKeeps ==
  ASSUME ConnInv, NEW w, Moves(w), SameLife, conn.stage = "up", conn.cancelled => conn'.cancelled,
         StepsAgree', SetupIsMatched', PlaybackFitsSession', conn'.state \notin Early,
         BetweenPhases' => /\ \A q \in Asked(rtsp) : q[2] # "setup2"
                           /\ conn'.ports.first = LastRead(w) \/ Unread(w) > 0
  PROVE  ConnInv'
<1>1. Head(conn.plan) \notin {"cipher", "setup_m5"}
  BY DEF ConnInv, StagesAgree, Moves, CallSteps, EndSteps
<1>2. StagesAgree'
  BY <1>1, MovesStages
<1>3. AnswersAreOwn'
  BY OwnKept DEF Moves, SameLife
<1> QED
  BY <1>2, <1>3, MovesKeep DEF ConnInv, Moves

\* A local step at which nothing is awaited.
LEMMA LocalMoves ==
  ASSUME ConnInv, NEW s \in PlanSteps \ RequestKinds, At(s), ConnTyped', conn'.plan = Tail(conn.plan),
         conn'.disconnected = conn.disconnected, conn'.cseq = conn.cseq, conn'.waiting = conn.waiting,
         Carry(rtsp), history' = history, identity' = identity
  PROVE  Moves(rtsp)
<1>1. ~Idle /\ conn.waiting = 0 /\ ChannelFits(rtsp) /\ Recorded
  BY PlainlyRecorded DEF At, ConnInv, ChannelCounts
<1>2. LagFits(rtsp)
  <2>1. history.faults \in Nat
    BY DEF ConnInv, HistoryShape
  <2> QED
    BY <1>1, <2>1, LagIsFitting
<1> QED
  BY <1>1, <1>2 DEF Moves, Reads, Carry

LEMMA TcpConnectsKeeps == ConnInv /\ TcpConnects => ConnInv'
<1> SUFFICES ASSUME ConnInv, TcpConnects PROVE ConnInv'
  OBVIOUS
<1>1. ASSUME Local("tcp", [conn EXCEPT !.sock = TRUE, !.state = "Connected"]) PROVE ConnInv'
  <2>1. At("tcp") /\ Carry(rtsp) /\ history' = history /\ identity' = identity /\ ~Idle /\ Head(conn.plan) = "tcp"
    BY <1>1 DEF Local, At
  <2>2. /\ conn'.plan = Tail(conn.plan) /\ conn'.stage = conn.stage /\ conn'.timing = conn.timing
        /\ conn'.key = conn.key /\ conn'.waiting = conn.waiting /\ conn'.cseq = conn.cseq
        /\ conn'.sock = TRUE /\ conn'.disconnected = conn.disconnected /\ conn'.state = "Connected"
        /\ conn'.ports = conn.ports /\ conn'.cipher = conn.cipher /\ SamePlay /\ SameWork
        /\ DOMAIN conn' = ConnFields
    BY <1>1 DEF Local, Advance, SamePlay, SameWork, ConnInv, ConnTyped, ConnFields
  <2>3. ConnTyped'
    BY <2>2 DEF ConnInv, ConnTyped, SessionState, SamePlay, SameWork
  <2>4. Moves(rtsp)
    <3>1. "tcp" \in PlanSteps \ RequestKinds
      BY DEF PlanSteps, BuildSteps, RequestKinds, SessionKinds, SetupKinds, Pairing
    <3> QED
      BY <2>1, <2>2, <2>3, <3>1, LocalMoves
  <2>5. StagesAgree'
    <3>1. SameLife /\ (conn.cancelled => conn'.cancelled) /\ conn'.state \in Early
      BY <2>2 DEF SameLife, SameWork, Early
    <3> QED
      BY <2>1, <2>2, <2>4, <3>1, MovesStages
  <2>6. ~Idle' => Head(conn'.plan) = "info"
    BY <2>1, <2>4, MovesKeep DEF After, AfterBuild, BuildSteps
  <2>7. StepsAgree'
    BY <2>6 DEF StepsAgree, BeforeStream, EndSteps
  <2>8. SetupIsMatched' /\ PlaybackFitsSession'
    <3>1. conn.playback = "Stopped"
      BY <2>1 DEF ConnInv, StagesAgree, CallSteps, EndSteps
    <3> QED
      BY <2>2, <3>1 DEF SetupIsMatched, PlaybackFitsSession, SamePlay
  <2>9. AnswersAreOwn'
    <3>1. conn.state \in Early /\ ~BetweenPhases'
      BY <2>1, <2>6 DEF ConnInv, StagesAgree, CallSteps, EndSteps, BetweenPhases
    <3> QED
      BY <2>4, <3>1, OwnKept DEF Moves
  <2> QED
    BY <2>3, <2>4, <2>5, <2>7, <2>8, <2>9, MovesKeep DEF ConnInv
<1>2. ASSUME LocalFails("tcp") PROVE ConnInv'
  <2>1. "tcp" \notin RequestKinds
    BY DEF RequestKinds, SessionKinds, SetupKinds, Pairing
  <2> QED
    BY <1>2, <2>1, LocalFailsKeeps
<1> QED
  BY <1>1, <1>2 DEF TcpConnects

LEMMA SetPairedKeeps == ConnInv /\ SetPaired => ConnInv'
<1> SUFFICES ASSUME ConnInv, SetPaired PROVE ConnInv'
  OBVIOUS
<1>1. At("paired") /\ Carry(rtsp) /\ history' = history /\ identity' = identity /\ ~Idle /\ Head(conn.plan) = "paired"
  BY DEF SetPaired, Local, At
<1>2. /\ conn'.plan = Tail(conn.plan) /\ conn'.stage = "up" /\ conn'.timing = conn.timing
      /\ conn'.key = "none" /\ conn'.waiting = conn.waiting /\ conn'.cseq = conn.cseq
      /\ conn'.sock = conn.sock /\ conn'.disconnected = conn.disconnected /\ conn'.state = "Paired"
      /\ conn'.ports = conn.ports /\ conn'.cipher = conn.cipher /\ SamePlay /\ SameWork
      /\ DOMAIN conn' = ConnFields
  BY DEF SetPaired, Local, Advance, SamePlay, SameWork, ConnInv, ConnTyped, ConnFields
<1>3. ConnTyped'
  BY <1>2 DEF ConnInv, ConnTyped, SessionState, SamePlay, SameWork, Keys
<1>4. Moves(rtsp)
  <2>1. "paired" \in PlanSteps \ RequestKinds
    BY DEF PlanSteps, BuildSteps, RequestKinds, SessionKinds, SetupKinds, Pairing
  <2> QED
    BY <1>1, <1>2, <1>3, <2>1, LocalMoves
<1>5. /\ conn.stage = "building" /\ conn.cipher /\ conn.sock /\ conn.playback = "Stopped"
      /\ conn.state \in Early
  BY <1>1 DEF ConnInv, StagesAgree, CallSteps, EndSteps
<1>6. Idle'
  BY <1>1, <1>4, MovesKeep DEF After, AfterBuild, BuildSteps
<1>7. StagesAgree' /\ StepsAgree'
  BY <1>2, <1>5, <1>6 DEF StagesAgree, StepsAgree
<1>8. SetupIsMatched' /\ PlaybackFitsSession'
  BY <1>2, <1>5 DEF SetupIsMatched, PlaybackFitsSession, SamePlay
<1>9. AnswersAreOwn'
  BY <1>4, <1>5, <1>6, OwnKept DEF Moves, BetweenPhases
<1> QED
  BY <1>3, <1>4, <1>7, <1>8, <1>9, MovesKeep DEF ConnInv

LEMMA CloseKeeps == ConnInv /\ Close => ConnInv'
<1> SUFFICES ASSUME ConnInv, Close PROVE ConnInv'
  OBVIOUS
<1>1. At("close") /\ Carry(rtsp) /\ history' = history /\ identity' = identity /\ ~Idle /\ Head(conn.plan) = "close"
  BY DEF Close, Local, At
<1>2. /\ conn'.plan = Tail(conn.plan) /\ conn'.stage = conn.stage /\ conn'.timing = conn.timing
      /\ conn'.key = conn.key /\ conn'.waiting = conn.waiting /\ conn'.cseq = conn.cseq
      /\ conn'.sock = FALSE /\ conn'.disconnected = conn.disconnected /\ SameSession
      /\ conn'.cipher = conn.cipher /\ conn'.playback = "Stopped" /\ conn'.streamer = conn.streamer
      /\ conn'.held = {} /\ conn'.workers = conn.workers /\ conn'.cancelled = conn.cancelled
      /\ DOMAIN conn' = ConnFields
  BY DEF Close, Local, Advance, SameSession, ConnInv, ConnTyped, ConnFields
<1>3. ConnTyped'
  BY <1>2 DEF ConnInv, ConnTyped, SameSession
<1>4. Moves(rtsp)
  <2>1. "close" \in PlanSteps \ RequestKinds
    BY DEF PlanSteps, EndSteps, RequestKinds, SessionKinds, SetupKinds, Pairing
  <2> QED
    BY <1>1, <1>2, <1>3, <2>1, LocalMoves
<1>5. conn.stage = "up" /\ conn.cipher /\ conn.disconnected /\ conn.streamer = "none" /\ conn.cancelled
  BY <1>1 DEF ConnInv, StagesAgree, StepsAgree, BuildSteps, EndSteps
<1>6. Idle'
  BY <1>1, <1>4, MovesKeep DEF After, AfterEnd, BuildSteps, CallSteps
<1>7. StagesAgree' /\ StepsAgree'
  BY <1>2, <1>5, <1>6 DEF StagesAgree, StepsAgree
<1>8. SetupIsMatched' /\ PlaybackFitsSession'
  BY <1>2 DEF ConnInv, SetupIsMatched, PlaybackFitsSession, SameSession
<1>9. AnswersAreOwn'
  BY <1>2, <1>4, <1>6, OwnKept DEF Moves, BetweenPhases, SameSession
<1> QED
  BY <1>3, <1>4, <1>7, <1>8, <1>9, MovesKeep DEF ConnInv

LEMMA StartStreamerKeeps == ConnInv /\ StartStreamer => ConnInv'
<1> SUFFICES ASSUME ConnInv, StartStreamer PROVE ConnInv'
  OBVIOUS
<1>1. ASSUME Local("stream", [conn EXCEPT !.state = "Playing", !.streamer = "starting"]) PROVE ConnInv'
  <2>1. At("stream") /\ Carry(rtsp) /\ history' = history /\ identity' = identity /\ ~Idle /\ Head(conn.plan) = "stream"
    BY <1>1 DEF Local, At
  <2>2. /\ conn'.plan = Tail(conn.plan) /\ conn'.stage = conn.stage /\ conn'.timing = conn.timing
        /\ conn'.key = conn.key /\ conn'.waiting = conn.waiting /\ conn'.cseq = conn.cseq
        /\ conn'.sock = conn.sock /\ conn'.disconnected = conn.disconnected /\ conn'.state = "Playing"
        /\ conn'.ports = conn.ports /\ conn'.cipher = conn.cipher /\ conn'.playback = conn.playback
        /\ conn'.streamer = "starting" /\ SameWork /\ DOMAIN conn' = ConnFields
    BY <1>1 DEF Local, Advance, SameWork, ConnInv, ConnTyped, ConnFields
  <2>3. ConnTyped'
    BY <2>2 DEF ConnInv, ConnTyped, SessionState, SameWork
  <2>4. Moves(rtsp)
    <3>1. "stream" \in PlanSteps \ RequestKinds
      BY DEF PlanSteps, CallSteps, RequestKinds, SessionKinds, SetupKinds, Pairing
    <3> QED
      BY <2>1, <2>2, <2>3, <3>1, LocalMoves
  <2>5. conn.stage = "up" /\ conn.state = "Ready" /\ conn.sock
    BY <2>1 DEF ConnInv, StagesAgree, StepsAgree, BeforeStream, BuildSteps
  <2>6. ~Idle' => Head(conn'.plan) = "volume"
    BY <2>1, <2>4, MovesKeep DEF After, AfterCall, BuildSteps, CallSteps
  <2>7. StepsAgree'
    BY <2>2, <2>6 DEF StepsAgree, BeforeStream, EndSteps
  <2>8. SetupIsMatched' /\ PlaybackFitsSession'
    BY <2>2, <2>5 DEF ConnInv, ConnTyped, SetupIsMatched, PlaybackFitsSession
  <2>9. conn'.state \notin Early /\ ~BetweenPhases'
    BY <2>2, <2>6 DEF Early, BetweenPhases
  <2> QED
    BY <2>2, <2>4, <2>5, <2>7, <2>8, <2>9, SessionStepKeeps DEF SameLife, SameWork
<1>2. ASSUME LocalFails("stream") PROVE ConnInv'
  <2>1. "stream" \notin RequestKinds
    BY DEF RequestKinds, SessionKinds, SetupKinds, Pairing
  <2> QED
    BY <1>2, <2>1, LocalFailsKeeps
<1> QED
  BY <1>1, <1>2 DEF StartStreamer

\* The end of a pause and of a resume.
LEMMA SessionTurns ==
  ASSUME ConnInv, NEW s \in {"pause_session", "resume_session"}, At(s), UNCHANGED <<rtsp, identity, history>>,
         \/ conn' = Failed(conn)
         \/ \E state \in {"Playing", "Paused"} :
              /\ conn' = Advance([conn EXCEPT !.state = state, !.playback = state])
              /\ conn.state \in {"Ready", "Playing", "Paused"}
  PROVE  ConnInv'
<1>1. /\ ~Idle /\ Head(conn.plan) = s /\ s \in PlanSteps \ RequestKinds /\ s \in CallSteps
      /\ s \notin BuildSteps /\ After(s) = {}
  BY DEF At, PlanSteps, CallSteps, BuildSteps, RequestKinds, SessionKinds, SetupKinds, Pairing, After, AfterCall
<1>2. conn.stage = "up" /\ conn.sock /\ conn.waiting = 0
  BY <1>1 DEF ConnInv, StagesAgree, ChannelCounts
<1>3. CASE conn' = Failed(conn)
  <2>1. ChannelFits(rtsp) /\ Recorded
    BY PlainlyRecorded DEF ConnInv, ChannelCounts
  <2>2. LagFits(rtsp)
    <3>1. history.faults \in Nat
      BY DEF ConnInv, HistoryShape
    <3> QED
      BY <1>2, <3>1, LagIsFitting
  <2>3. conn'.sock
    BY <1>2, <1>3 DEF Failed, ConnInv, ConnTyped, ConnFields
  <2> QED
    BY <1>1, <1>3, <2>1, <2>2, <2>3, Itself, FailedKeeps
<1>4. ASSUME NEW state \in {"Playing", "Paused"}, conn.state \in {"Ready", "Playing", "Paused"},
             conn' = Advance([conn EXCEPT !.state = state, !.playback = state])
      PROVE  ConnInv'
  <2>1. /\ conn'.plan = Tail(conn.plan) /\ conn'.stage = conn.stage /\ conn'.timing = conn.timing
        /\ conn'.key = conn.key /\ conn'.waiting = conn.waiting /\ conn'.cseq = conn.cseq
        /\ conn'.sock = conn.sock /\ conn'.disconnected = conn.disconnected /\ conn'.state = state
        /\ conn'.ports = conn.ports /\ conn'.cipher = conn.cipher /\ conn'.playback = state
        /\ conn'.streamer = conn.streamer /\ SameWork /\ DOMAIN conn' = ConnFields
    BY <1>4 DEF Advance, SameWork, ConnInv, ConnTyped, ConnFields
  <2>2. ConnTyped'
    BY <2>1 DEF ConnInv, ConnTyped, SessionState, SameWork
  <2>3. Carry(rtsp)
    BY <1>2, <2>1 DEF Carry
  <2>4. Moves(rtsp)
    BY <1>1, <2>1, <2>2, <2>3, LocalMoves
  <2>5. Idle'
    BY <1>1, <2>4, MovesKeep
  <2>6. StepsAgree' /\ SetupIsMatched' /\ PlaybackFitsSession'
    BY <1>4, <2>1, <2>5 DEF StepsAgree, ConnInv, SetupIsMatched, PlaybackFitsSession
  <2>7. conn'.state \notin Early /\ ~BetweenPhases'
    BY <2>1, <2>5 DEF Early, BetweenPhases
  <2> QED
    BY <1>2, <2>1, <2>4, <2>6, <2>7, SessionStepKeeps DEF SameLife, SameWork
<1> QED
  BY <1>3, <1>4

LEMMA SessionTurnsKeep == ConnInv /\ (PauseSession \/ ResumeSession) => ConnInv'
<1>1. ASSUME ConnInv, PauseSession PROVE ConnInv'
  BY <1>1, SessionTurns DEF PauseSession
<1>2. ASSUME ConnInv, ResumeSession PROVE ConnInv'
  BY <1>2, SessionTurns DEF ResumeSession
<1> QED
  BY <1>1, <1>2

-----------------------------------------------------------------------------
\* The channel.
LEMMA ReadTakesNext ==
  ASSUME ConnInv, rtsp.answers # <<>>, NEW w, w = [rtsp EXCEPT !.answers = Tail(@)]
  PROVE  /\ ChannelFits(w) /\ LastRead(w) = LastRead(rtsp) + 1 /\ Head(rtsp.answers).cseq = LastRead(w)
         /\ LastRead(w) \in Nat /\ Unread(w) = Unread(rtsp) - 1 /\ Unread(rtsp) \in Nat /\ Unread(w) \in Nat
         /\ Head(rtsp.answers).ok /\ Head(rtsp.answers).kind = "setup_m5" => "new" \in identity.trusted
         /\ w.closed = rtsp.closed /\ w.torn = rtsp.torn /\ Asked(w) \subseteq Asked(rtsp)
         /\ <<Head(rtsp.answers).cseq, Head(rtsp.answers).kind>> \in Asked(rtsp)
<1>1. /\ rtsp \in ChannelShape /\ 0 <= LastRead(rtsp) /\ ChannelFits(rtsp) /\ conn.cseq \in Nat
      /\ \A i \in 1 .. Len(rtsp.answers) : rtsp.answers[i].cseq = LastRead(rtsp) + i
      /\ \A i \in 1 .. Len(rtsp.owed) : rtsp.owed[i].cseq = LastRead(rtsp) + Len(rtsp.answers) + i
  BY DEF ConnInv, ChannelCounts, ChannelFits, ConnTyped
<1>2. rtsp.owed \in Seq(Requests) /\ rtsp.answers \in Seq(Requests)
  BY <1>1 DEF ChannelShape
<1>3. PICK m \in Nat : m = Len(rtsp.owed)
  BY <1>2, LenProperties
<1>4. PICK n \in Nat : n = Len(rtsp.answers)
  BY <1>2, LenProperties
<1>5. /\ Head(rtsp.answers) = rtsp.answers[1] /\ Tail(rtsp.answers) \in Seq(Requests) /\ n > 0
      /\ Len(Tail(rtsp.answers)) = n - 1
      /\ \A i \in 1 .. n - 1 : Tail(rtsp.answers)[i] = rtsp.answers[i + 1]
  <2>1. n > 0
    BY <1>2, <1>4, EmptySeq
  <2> QED
    BY <2>1, <1>2, <1>4, HeadTailProperties
<1>6. w \in ChannelShape /\ w.owed = rtsp.owed /\ w.answers = Tail(rtsp.answers) /\ w.closed = rtsp.closed /\ w.torn = rtsp.torn
  BY <1>1, <1>5 DEF ChannelShape
<1>7. Unread(rtsp) = m + n /\ Unread(w) = m + (n - 1)
  BY <1>3, <1>4, <1>5, <1>6 DEF Unread
<1>8. LastRead(rtsp) = conn.cseq - (m + n) /\ LastRead(w) = conn.cseq - (m + (n - 1))
  BY <1>7 DEF LastRead
<1>9. /\ LastRead(w) = LastRead(rtsp) + 1 /\ 0 <= LastRead(w) /\ Unread(w) = Unread(rtsp) - 1
      /\ Unread(rtsp) \in Nat /\ Unread(w) \in Nat
  BY <1>1, <1>5, <1>7, <1>8
<1>10. PICK l \in Int : l = LastRead(rtsp)
  BY <1>1, <1>8
<1>17. LastRead(w) \in Nat
  BY <1>1, <1>9, <1>10
<1>11. Head(rtsp.answers).cseq = LastRead(w)
  <2>1. 1 \in 1 .. Len(rtsp.answers)
    BY <1>4, <1>5
  <2>2. rtsp.answers[1].cseq = LastRead(rtsp) + 1
    BY <2>1, <1>1
  <2> QED
    BY <2>2, <1>5, <1>9
<1>12. ASSUME NEW i \in 1 .. Len(w.answers) PROVE w.answers[i].cseq = LastRead(w) + i
  <2>1. i \in 1 .. n - 1 /\ i + 1 \in 1 .. n
    BY <1>5, <1>6
  <2>2. w.answers[i] = rtsp.answers[i + 1] /\ rtsp.answers[i + 1].cseq = l + (i + 1)
    BY <2>1, <1>1, <1>4, <1>5, <1>6, <1>10
  <2> QED
    BY <2>1, <2>2, <1>9, <1>10
<1>13. ASSUME NEW i \in 1 .. Len(w.owed) PROVE w.owed[i].cseq = LastRead(w) + Len(w.answers) + i
  <2>1. w.owed[i].cseq = l + n + i /\ i \in Nat
    BY <1>1, <1>3, <1>4, <1>6, <1>10
  <2> QED
    BY <2>1, <1>5, <1>6, <1>9, <1>10
<1>14. ASSUME NEW i \in 1 .. Len(w.answers), w.answers[i].ok, w.answers[i].kind = "setup_m5"
       PROVE  "new" \in identity.trusted
  <2>1. i + 1 \in 1 .. n /\ w.answers[i] = rtsp.answers[i + 1]
    BY <1>5, <1>6
  <2> QED
    BY <2>1, <1>1, <1>4, <1>14 DEF ChannelFits
<1>15. ChannelFits(w)
  BY <1>6, <1>9, <1>12, <1>13, <1>14 DEF ChannelFits
<1>16. Head(rtsp.answers).ok /\ Head(rtsp.answers).kind = "setup_m5" => "new" \in identity.trusted
  <2>1. 1 \in 1 .. n
    BY <1>5
  <2> QED
    BY <2>1, <1>1, <1>4, <1>5 DEF ChannelFits
<1>18. Asked(w) \subseteq Asked(rtsp)
  <2>1. ASSUME NEW i \in 1 .. Len(w.answers) PROVE <<w.answers[i].cseq, w.answers[i].kind>> \in Asked(rtsp)
    <3>1. i + 1 \in 1 .. n /\ w.answers[i] = rtsp.answers[i + 1]
      BY <1>5, <1>6
    <3> QED
      BY <3>1, <1>4 DEF Asked
  <2> QED
    BY <1>6, <2>1 DEF Asked
<1>19. <<Head(rtsp.answers).cseq, Head(rtsp.answers).kind>> \in Asked(rtsp)
  <2>1. 1 \in 1 .. Len(rtsp.answers)
    BY <1>4, <1>5
  <2> QED
    BY <1>5, <2>1 DEF Asked
<1> QED
  BY <1>6, <1>9, <1>11, <1>15, <1>16, <1>17, <1>18, <1>19

\* A request is in its step: its socket is open.
LEMMA AtRequest ==
  ASSUME ConnInv, conn.waiting # 0
  PROVE  /\ ~Idle /\ Head(conn.plan) \in RequestKinds /\ conn.sock /\ ChannelFits(rtsp)
         /\ Head(conn.plan) \notin {"tcp", "paired", "stream", "close", "events", "control", "cipher",
                                    "cancel", "end_streamer"}
<1>1. ~Idle /\ Head(conn.plan) \in RequestKinds /\ ChannelFits(rtsp)
  BY DEF ConnInv, ChannelCounts
<1>2. Head(conn.plan) \notin {"tcp", "paired", "stream", "close", "events", "control", "cipher",
                              "cancel", "end_streamer"}
  BY <1>1 DEF RequestKinds, SessionKinds, SetupKinds, Pairing
<1> QED
  BY <1>1, <1>2, SocketIsOpen

\* A request that is over, answered or not, and changed nothing else.
LEMMA RequestEnds ==
  ASSUME ConnInv, conn.waiting # 0, Head(conn.plan) \notin SetupKinds,
         NEW w, ChannelFits(w), LagFits(w), Recorded, rtsp' = IF conn'.sock THEN w ELSE Quiet,
         Head(conn.plan) = "setup_m5" => "new" \in identity.trusted,
         conn' = Advance([conn EXCEPT !.waiting = 0])
  PROVE  ConnInv'
<1>1. /\ conn'.plan = Tail(conn.plan) /\ conn'.stage = conn.stage /\ conn'.timing = conn.timing
      /\ conn'.key = conn.key /\ conn'.waiting = 0 /\ conn'.cseq = conn.cseq
      /\ conn'.sock = conn.sock /\ conn'.disconnected = conn.disconnected /\ SameSession
      /\ conn'.cipher = conn.cipher /\ SamePlay /\ SameWork /\ DOMAIN conn' = ConnFields
  BY DEF Advance, SameSession, SamePlay, SameWork, ConnInv, ConnTyped, ConnFields
<1>2. ConnTyped'
  BY <1>1 DEF ConnInv, ConnTyped, SameSession, SamePlay, SameWork
<1>3. Moves(w)
  BY <1>1, <1>2, AtRequest DEF Moves, Reads
<1>4. SameLife
  BY <1>1, AtRequest DEF SameLife
<1>5. /\ conn.cancelled => conn'.cancelled
      /\ conn'.streamer = conn.streamer /\ conn'.playback = conn.playback
      /\ Head(conn.plan) = "setup_m5" => "new" \in identity'.trusted
  BY <1>1 DEF SameWork, SamePlay, Recorded
<1>6. Steady(w)
  BY <1>1, <1>3, <1>4, <1>5, AtRequest DEF Steady, SetupKinds
<1> QED
  BY <1>6, SteadyKeeps

LEMMA RequestFails ==
  ASSUME ConnInv, conn.waiting # 0, NEW w, ChannelFits(w), LagFits(w), Recorded,
         rtsp' = IF conn'.sock THEN w ELSE Quiet, conn' = Failed([conn EXCEPT !.waiting = 0])
  PROVE  ConnInv'
BY AtRequest, Itself, FailedKeeps

\* The answers of the two set-up phases.
LEMMA PhaseMoves ==
  ASSUME ConnInv, conn.waiting # 0, NEW w, ChannelFits(w), LagFits(w), Recorded,
         rtsp' = IF conn'.sock THEN w ELSE Quiet,
         NEW state \in {"SetupPhase1", "Ready"}, NEW ports \in [first : Nat, second : Nat], NEW c,
         SameAs(c), c.waiting = 0, c.plan = conn.plan,
         conn' = Advance([c EXCEPT !.state = state, !.ports = ports])
  PROVE  /\ Moves(w) /\ SameLife /\ SameWork /\ SamePlay /\ conn'.state = state /\ conn'.ports = ports
         /\ conn'.disconnected = conn.disconnected
<1>1. /\ conn'.plan = Tail(conn.plan) /\ conn'.stage = conn.stage /\ conn'.timing = conn.timing
      /\ conn'.key = conn.key /\ conn'.waiting = 0 /\ conn'.cseq = conn.cseq
      /\ conn'.sock = conn.sock /\ conn'.disconnected = conn.disconnected
      /\ conn'.state = state /\ conn'.ports = ports
      /\ conn'.cipher = conn.cipher /\ SamePlay /\ SameWork /\ DOMAIN conn' = ConnFields
  BY DEF Advance, SameAs, SamePlay, SameWork, ConnFields
<1>2. ConnTyped'
  BY <1>1 DEF ConnInv, ConnTyped, SessionState, SamePlay, SameWork
<1>3. Moves(w)
  BY <1>1, <1>2, AtRequest DEF Moves, Reads
<1> QED
  BY <1>1, <1>3, AtRequest DEF SameLife

LEMMA ReadAnswerKeeps == ConnInv /\ ReadAnswer => ConnInv'
<1> SUFFICES ASSUME ConnInv, ReadAnswer PROVE ConnInv'
  OBVIOUS
<1> DEFINE w     == [rtsp EXCEPT !.answers = Tail(@)]
           c     == [conn EXCEPT !.waiting = 0]
           kind  == Head(conn.plan)
           reply == Head(rtsp.answers)
<1>0. conn.waiting # 0 /\ rtsp.answers # <<>> /\ ~rtsp.torn /\ history' = history /\ identity' = identity
  BY DEF ReadAnswer
<1>1. /\ ChannelFits(w) /\ LastRead(w) = LastRead(rtsp) + 1 /\ reply.cseq = LastRead(w) /\ LastRead(w) \in Nat
      /\ Unread(w) = Unread(rtsp) - 1 /\ Unread(rtsp) \in Nat /\ Unread(w) \in Nat
      /\ reply.ok /\ reply.kind = "setup_m5" => "new" \in identity.trusted
      /\ w.closed = rtsp.closed /\ w.torn = rtsp.torn /\ Asked(w) \subseteq Asked(rtsp)
      /\ <<reply.cseq, reply.kind>> \in Asked(rtsp)
  BY <1>0, ReadTakesNext
<1>2. rtsp' = IF conn'.sock THEN w ELSE Quiet
  BY DEF ReadAnswer, Carry
<1>3. PICK verdict \in Verdicts(kind, reply) :
        conn' = IF ~Continues(kind, verdict) THEN Failed(c)
                ELSE IF verdict = "ok" THEN Processed(c, kind, reply) ELSE Advance(c)
  BY DEF ReadAnswer
<1>4. SameAs(c) /\ c.waiting = 0 /\ c.plan = conn.plan /\ c.state = conn.state /\ c.ports = conn.ports
  BY Itself DEF SameAs, ConnInv, ConnTyped, ConnFields
<1> HIDE DEF w
<1>5. Recorded
  BY <1>0, PlainlyRecorded
<1>6. LagFits(w)
  <2>1. history.faults \in Nat /\ history.teardowns \in {0, 1} /\ history'.faults = history.faults
    BY <1>0 DEF ConnInv, HistoryShape
  <2>2. PICK k \in {0, 1} : k = IF conn.waiting = 0 /\ history.teardowns = 0 THEN 0 ELSE 1
    OBVIOUS
  <2>3. ~rtsp.closed /\ ~rtsp.torn => Unread(rtsp) <= history.faults + k
    BY <2>2 DEF ConnInv, LagHasACause, Unread
  <2>4. PICK n \in {0, 1} : n = IF history.teardowns = 0 THEN 0 ELSE 1
    OBVIOUS
  <2>5. ~w.closed /\ ~w.torn => Unread(w) <= history'.faults + n
    BY <1>1, <2>1, <2>2, <2>3, <2>4
  <2> QED
    BY <1>1, <2>4, <2>5 DEF LagFits
<1>7. CASE conn' = Failed(c)
  BY <1>0, <1>1, <1>2, <1>5, <1>6, <1>7, RequestFails
<1>8. CASE conn' = Advance(c) /\ kind \notin SetupKinds /\ Continues(kind, verdict)
  <2>1. kind = "setup_m5" => reply.ok /\ reply.kind = "setup_m5"
    BY <1>3, <1>8 DEF Continues, Verdicts, DecodedKinds, Pairing, SetupKinds, Tolerated, Forgiven
  <2> QED
    BY <1>0, <1>1, <1>2, <1>5, <1>6, <1>8, <2>1, RequestEnds
<1>9. CASE kind = "setup1" /\ conn' = SetupPhase1(c, reply)
  <2>1. CASE conn.state # "Paired"
    BY <1>4, <1>7, <1>9, <2>1 DEF SetupPhase1
  <2>2. CASE conn.state = "Paired"
    <3>1. conn.ports \in [first : Nat, second : Nat]
      BY DEF ConnInv, ConnTyped
    <3>2. PICK n \in Nat : n = FirstPorts(reply)
      BY <1>1 DEF FirstPorts
    <3>3. PICK ports \in [first : Nat, second : Nat] : ports = [conn.ports EXCEPT !.first = n] /\ ports.first = n
      <4> DEFINE q == [conn.ports EXCEPT !.first = n]
      <4>1. q \in [first : Nat, second : Nat] /\ q.first = n
        BY <3>1
      <4> QED
        BY <4>1
    <3>4. conn' = Advance([c EXCEPT !.state = "SetupPhase1", !.ports = ports])
      BY <1>4, <1>9, <2>2, <3>2, <3>3 DEF SetupPhase1, SameAs, ConnFields
    <3>5. /\ Moves(w) /\ SameLife /\ SameWork /\ SamePlay /\ conn'.state = "SetupPhase1" /\ conn'.ports = ports
      BY <1>0, <1>1, <1>2, <1>4, <1>5, <1>6, <3>4, PhaseMoves
    <3>6. conn.stage = "up"
      BY <1>0, <1>9, AtRequest DEF ConnInv, StagesAgree, BuildSteps
    <3>7. ~Idle' => Head(conn'.plan) = "events"
      BY <1>9, <3>5, MovesKeep DEF After, AfterCall, BuildSteps, CallSteps
    <3>8. conn'.ports.first = LastRead(w) \/ Unread(w) > 0
      <4>1. CASE reply.kind = "setup1"
        BY <4>1, <1>1, <3>2, <3>3, <3>5 DEF FirstPorts
      <4>2. CASE reply.kind # "setup1"
        <5>1. reply.cseq # conn.cseq
          BY <1>0, <1>1, <1>9, <4>2 DEF ConnInv, AnswersAreOwn
        <5>2. conn.cseq \in Nat /\ LastRead(w) = conn.cseq - Unread(w)
          BY DEF ConnInv, ConnTyped, LastRead
        <5> QED
          BY <1>1, <5>1, <5>2
      <4> QED
        BY <4>1, <4>2
    <3>9. StepsAgree' /\ conn'.state \notin Early
      BY <3>5, <3>7 DEF StepsAgree, BeforeStream, EndSteps, Early
    <3>11. \A q \in Asked(rtsp) : q[2] # "setup2"
      BY <2>2 DEF ConnInv, AnswersAreOwn, Early
    <3>10. SetupIsMatched' /\ PlaybackFitsSession'
      BY <2>2, <3>5 DEF ConnInv, ConnTyped, SetupIsMatched, PlaybackFitsSession, SamePlay, SameLife
    <3> QED
      BY <3>5, <3>6, <3>8, <3>9, <3>10, <3>11, SessionStepKeeps DEF SameWork
  <2> QED
    BY <2>1, <2>2
<1>10. CASE kind = "setup2" /\ verdict = "ok" /\ conn' = SetupPhase2(c, reply)
  <2>1. CASE conn.state # "SetupPhase1"
    BY <1>4, <1>7, <1>10, <2>1 DEF SetupPhase2
  <2>2. CASE conn.state = "SetupPhase1"
    <3>1. conn.ports \in [first : Nat, second : Nat]
      BY DEF ConnInv, ConnTyped
    <3>2. PICK n \in Nat : n = reply.cseq
      BY <1>1
    <3>3. PICK ports \in [first : Nat, second : Nat] :
            ports = [conn.ports EXCEPT !.second = n] /\ ports.second = n /\ ports.first = conn.ports.first
      <4> DEFINE q == [conn.ports EXCEPT !.second = n]
      <4>1. q \in [first : Nat, second : Nat] /\ q.second = n /\ q.first = conn.ports.first
        BY <3>1
      <4> QED
        BY <4>1
    <3>4. conn' = Advance([c EXCEPT !.state = "Ready", !.ports = ports])
      BY <1>4, <1>10, <2>2, <3>2, <3>3 DEF SetupPhase2, SameAs, ConnFields
    <3>5. /\ Moves(w) /\ SameLife /\ SameWork /\ SamePlay /\ conn'.state = "Ready" /\ conn'.ports = ports
      BY <1>0, <1>1, <1>2, <1>4, <1>5, <1>6, <3>4, PhaseMoves
    <3>6. conn.stage = "up" /\ BetweenPhases
      BY <1>0, <1>10, AtRequest DEF ConnInv, StagesAgree, BetweenPhases, BuildSteps
    <3>11. reply.kind = "setup2"
      BY <1>3, <1>10 DEF Verdicts, DecodedKinds, SetupKinds
    <3>12. reply.cseq = conn.cseq
      BY <1>1, <3>6, <3>11 DEF ConnInv, AnswersAreOwn
    <3>13. conn.ports.first = LastRead(rtsp)
      <4>1. conn.cseq \in Nat /\ LastRead(rtsp) = conn.cseq - Unread(rtsp) /\ Unread(rtsp) = 1
        BY <1>1, <3>12 DEF ConnInv, ConnTyped, LastRead
      <4> QED
        BY <1>0, <3>6, <4>1 DEF ConnInv, AnswersAreOwn
    <3>7. ~Idle' => Head(conn'.plan) = "record"
      BY <1>10, <3>5, MovesKeep DEF After, AfterCall, BuildSteps, CallSteps
    <3>8. StepsAgree' /\ ~BetweenPhases' /\ conn'.state \notin Early
      BY <3>5, <3>7 DEF StepsAgree, BeforeStream, EndSteps, BetweenPhases, Early
    <3>9. SetupIsMatched'
      BY <1>1, <3>2, <3>3, <3>5, <3>13 DEF SetupIsMatched
    <3>10. PlaybackFitsSession'
      BY <2>2, <3>5 DEF ConnInv, ConnTyped, PlaybackFitsSession, SamePlay, SameLife
    <3> QED
      BY <3>5, <3>6, <3>8, <3>9, <3>10, SessionStepKeeps DEF SameWork
  <2> QED
    BY <2>1, <2>2
<1>11. CASE Continues(kind, verdict) /\ verdict = "ok"
  BY <1>3, <1>8, <1>9, <1>10, <1>11 DEF Processed, SetupKinds
<1>12. CASE Continues(kind, verdict) /\ verdict # "ok"
  <2>1. kind \notin SetupKinds
    BY <1>3, <1>12 DEF Continues, Verdicts, SetupKinds, DecodedKinds, Tolerated, Forgiven
  <2> QED
    BY <1>3, <1>8, <1>12, <2>1
<1> QED
  BY <1>3, <1>7, <1>11, <1>12

LEMMA AnswerTimesOutKeeps == ConnInv /\ AnswerTimesOut => ConnInv'
<1> SUFFICES ASSUME ConnInv, AnswerTimesOut PROVE ConnInv'
  OBVIOUS
<1> DEFINE w    == [rtsp EXCEPT !.torn = @ \/ rtsp.answers # <<>>]
           c    == [conn EXCEPT !.waiting = 0]
           kind == Head(conn.plan)
<1>0. conn.waiting # 0 /\ identity' = identity
  BY DEF AnswerTimesOut
<1>2. rtsp' = IF conn'.sock THEN w ELSE Quiet
  BY DEF AnswerTimesOut, Carry
<1>3. conn' = IF Continues(kind, "silence") THEN Advance(c) ELSE Failed(c)
  BY DEF AnswerTimesOut
<1>7. PICK b \in BOOLEAN : b = (rtsp.answers # <<>>)
  OBVIOUS
<1>8. w = [rtsp EXCEPT !.torn = @ \/ b]
  BY <1>7
<1> HIDE DEF w
<1>1. /\ ChannelFits(w) /\ w.owed = rtsp.owed /\ w.answers = rtsp.answers /\ w.closed = rtsp.closed
      /\ ~w.torn => ~rtsp.torn
  BY <1>8, TornFits
<1>4. Recorded /\ LagFits(w)
  <2>1. CASE Fault
    <3>1. Recorded /\ history'.faults = history.faults + 1 /\ history.faults \in Nat
      BY <1>0, <2>1, FaultRecorded
    <3> QED
      BY <1>1, <3>1, FaultExplains
  <2>2. CASE kind = "teardown" /\ history' = history
    <3>1. Recorded
      BY <1>0, <2>2, PlainlyRecorded
    <3>2. history'.faults = history.faults /\ history.teardowns = 1 /\ history.faults \in Nat
      BY <1>0, <2>2, AtRequest DEF ConnInv, TeardownIsLast, HistoryShape
    <3> QED
      BY <1>1, <3>1, <3>2, FaultExplains
  <2> QED
    BY <2>1, <2>2 DEF AnswerTimesOut
<1>5. CASE conn' = Failed(c)
  BY <1>0, <1>1, <1>2, <1>4, <1>5, RequestFails
<1>6. CASE Continues(kind, "silence") /\ conn' = Advance(c)
  <2>1. kind \notin SetupKinds /\ kind # "setup_m5"
    BY <1>6 DEF Continues, SetupKinds, Tolerated, Forgiven
  <2> QED
    BY <1>0, <1>1, <1>2, <1>4, <1>6, <2>1, RequestEnds
<1> QED
  BY <1>3, <1>5, <1>6

LEMMA ReadFailsKeeps == ConnInv /\ ReadFails => ConnInv'
<1> SUFFICES ASSUME ConnInv, ReadFails PROVE ConnInv'
  OBVIOUS
<1> DEFINE c    == [conn EXCEPT !.waiting = 0]
           kind == Head(conn.plan)
<1>0. conn.waiting # 0 /\ Recorded /\ ChannelFits(rtsp) /\ (rtsp.torn \/ rtsp.closed)
  BY PlainlyRecorded, AtRequest DEF ReadFails
<1>1. LagFits(rtsp)
  BY <1>0 DEF LagFits
<1>2. rtsp' = IF conn'.sock THEN rtsp ELSE Quiet
  BY DEF ReadFails, Carry
<1>3. conn' = IF kind \in Tolerated THEN Advance(c) ELSE Failed(c)
  BY DEF ReadFails
<1>4. CASE conn' = Failed(c)
  BY <1>0, <1>1, <1>2, <1>4, RequestFails
<1>5. CASE kind \in Tolerated /\ conn' = Advance(c)
  <2>1. kind \notin SetupKinds /\ kind # "setup_m5"
    BY <1>5 DEF SetupKinds, Tolerated
  <2> QED
    BY <1>0, <1>1, <1>2, <1>5, <2>1, RequestEnds
<1> QED
  BY <1>3, <1>4, <1>5

\* A request goes out with the next number, behind what is still owed.
LEMMA SentFits ==
  ASSUME ConnInv, NEW w, NEW request \in Requests, request.cseq = conn.cseq + 1,
         w = [rtsp EXCEPT !.owed = Append(@, request)], conn'.cseq = conn.cseq + 1,
         rtsp' = w, identity' = identity
  PROVE  /\ ChannelFits(rtsp)' /\ LastRead(rtsp)' = LastRead(rtsp) /\ Unread(w) = Unread(rtsp) + 1
         /\ Unread(rtsp) \in Nat /\ w.closed = rtsp.closed /\ w.torn = rtsp.torn
         /\ \A q \in Asked(rtsp)' : q = <<request.cseq, request.kind>> \/ (q \in Asked(rtsp) /\ q[1] # conn'.cseq)
<1>1. /\ rtsp \in ChannelShape /\ 0 <= LastRead(rtsp) /\ ChannelFits(rtsp) /\ conn.cseq \in Nat
      /\ \A i \in 1 .. Len(rtsp.answers) : rtsp.answers[i].cseq = LastRead(rtsp) + i
      /\ \A i \in 1 .. Len(rtsp.owed) : rtsp.owed[i].cseq = LastRead(rtsp) + Len(rtsp.answers) + i
  BY DEF ConnInv, ChannelCounts, ChannelFits, ConnTyped
<1>2. rtsp.owed \in Seq(Requests) /\ rtsp.answers \in Seq(Requests)
  BY <1>1 DEF ChannelShape
<1>3. PICK m \in Nat : m = Len(rtsp.owed)
  BY <1>2, LenProperties
<1>4. PICK n \in Nat : n = Len(rtsp.answers)
  BY <1>2, LenProperties
<1>5. /\ Append(rtsp.owed, request) \in Seq(Requests)
      /\ Len(Append(rtsp.owed, request)) = m + 1
      /\ \A i \in 1 .. m : Append(rtsp.owed, request)[i] = rtsp.owed[i]
      /\ Append(rtsp.owed, request)[m + 1] = request
  BY <1>2, <1>3, AppendProperties
<1>6. /\ w \in ChannelShape /\ w.owed = Append(rtsp.owed, request) /\ w.answers = rtsp.answers
      /\ w.closed = rtsp.closed /\ w.torn = rtsp.torn
  BY <1>1, <1>5 DEF ChannelShape
<1>7. Unread(rtsp) = m + n /\ Unread(w) = (m + 1) + n
  BY <1>3, <1>4, <1>5, <1>6 DEF Unread
<1>8. LastRead(rtsp) = conn.cseq - (m + n) /\ LastRead(rtsp)' = (conn.cseq + 1) - ((m + 1) + n)
  BY <1>7 DEF LastRead, Unread
<1>9. LastRead(rtsp)' = LastRead(rtsp)
  BY <1>1, <1>8
<1>10. PICK l \in Int : l = LastRead(rtsp)
  BY <1>1, <1>8
<1>11. ASSUME NEW i \in 1 .. Len(w.owed) PROVE w.owed[i].cseq = LastRead(rtsp)' + Len(w.answers) + i
  <2>1. i \in 1 .. m + 1
    BY <1>5, <1>6
  <2>2. CASE i \in 1 .. m
    BY <2>2, <1>1, <1>3, <1>4, <1>5, <1>6, <1>9, <1>10
  <2>3. CASE i = m + 1
    <3>1. w.owed[i].cseq = conn.cseq + 1
      BY <2>3, <1>5, <1>6
    <3>2. conn.cseq + 1 = l + n + (m + 1)
      BY <1>1, <1>8, <1>10
    <3> QED
      BY <2>3, <3>1, <3>2, <1>4, <1>6, <1>9, <1>10
  <2> QED
    BY <2>1, <2>2, <2>3
<1>12. ChannelFits(rtsp)'
  BY <1>1, <1>6, <1>9, <1>11 DEF ChannelFits
<1>13. Unread(w) = Unread(rtsp) + 1 /\ Unread(rtsp) \in Nat
  BY <1>7
<1>14. ASSUME NEW q \in Asked(rtsp)'
       PROVE  q = <<request.cseq, request.kind>> \/ (q \in Asked(rtsp) /\ q[1] # conn'.cseq)
  <2>1. CASE \E i \in 1 .. Len(w.answers) : q = <<w.answers[i].cseq, w.answers[i].kind>>
    <3>1. PICK i \in 1 .. n : q = <<rtsp.answers[i].cseq, rtsp.answers[i].kind>>
      BY <2>1, <1>4, <1>6
    <3>2. rtsp.answers[i].cseq = l + i
      BY <3>1, <1>1, <1>4, <1>10
    <3>3. l = conn.cseq - (m + n) /\ conn.cseq \in Nat
      BY <1>1, <1>8, <1>10
    <3>4. l + i # conn.cseq + 1
      BY <3>3
    <3>5. q[1] # conn'.cseq
      BY <3>1, <3>2, <3>4
    <3> QED
      BY <3>1, <3>5, <1>4 DEF Asked
  <2>2. CASE \E i \in 1 .. Len(w.owed) : q = <<w.owed[i].cseq, w.owed[i].kind>>
    <3>1. PICK i \in 1 .. m + 1 : q = <<w.owed[i].cseq, w.owed[i].kind>>
      BY <2>2, <1>5, <1>6
    <3>2. CASE i = m + 1
      BY <3>1, <3>2, <1>5, <1>6
    <3>3. CASE i \in 1 .. m
      <4>1. w.owed[i] = rtsp.owed[i]
        BY <3>3, <1>5, <1>6
      <4>2. rtsp.owed[i].cseq = l + n + i
        BY <3>3, <1>1, <1>3, <1>4, <1>10
      <4>3. l = conn.cseq - (m + n) /\ conn.cseq \in Nat
        BY <1>1, <1>8, <1>10
      <4>4. l + n + i # conn.cseq + 1
        BY <3>3, <4>3
      <4>5. q[1] # conn'.cseq
        BY <3>1, <4>1, <4>2, <4>4
      <4> QED
        BY <3>1, <3>3, <4>1, <4>5, <1>3 DEF Asked
    <3> QED
      BY <3>2, <3>3
  <2> QED
    BY <2>1, <2>2 DEF Asked
<1> QED
  BY <1>6, <1>9, <1>12, <1>13, <1>14

LEMMA SendRequestKeeps == ConnInv /\ SendRequest => ConnInv'
<1> SUFFICES ASSUME ConnInv, SendRequest PROVE ConnInv'
  OBVIOUS
<1> DEFINE kind == Head(conn.plan)
           c    == [conn EXCEPT !.state = IF kind = "teardown" THEN "TearingDown" ELSE @]
<1>0. /\ ~Idle /\ kind \in RequestKinds /\ conn.waiting = 0 /\ identity' = identity /\ kind # "tcp"
      /\ ChannelFits(rtsp) /\ DOMAIN conn = ConnFields
  BY DEF SendRequest, ConnInv, ConnTyped, ChannelCounts, RequestKinds, SessionKinds, SetupKinds, Pairing
<1>1. conn.sock
  BY <1>0, SocketIsOpen
<1>2. /\ DOMAIN c = ConnFields /\ c.state = IF kind = "teardown" THEN "TearingDown" ELSE conn.state
      /\ c.plan = conn.plan /\ c.stage = conn.stage /\ c.timing = conn.timing /\ c.key = conn.key
      /\ c.cseq = conn.cseq /\ c.sock = conn.sock /\ c.cipher = conn.cipher /\ c.ports = conn.ports
      /\ c.playback = conn.playback /\ c.streamer = conn.streamer /\ c.held = conn.held
      /\ c.workers = conn.workers /\ c.cancelled = conn.cancelled /\ c.disconnected = conn.disconnected
      /\ c.auto = conn.auto /\ c.waiting = 0
  BY <1>0 DEF ConnFields
<1>3. history.teardowns = 0
  BY <1>0 DEF ConnInv, TeardownIsLast, HistoryShape, RequestKinds, SessionKinds, SetupKinds, Pairing
<1>4. CASE ~conn.sock \/ ~Buildable(conn, kind)
  <2>1. kind = "setup2"
    BY <1>1, <1>4 DEF Buildable
  <2>2. conn' = Failed(c) /\ history' = history /\ rtsp' = IF conn'.sock THEN rtsp ELSE Quiet
    BY <1>4, <2>1 DEF SendRequest, Tolerated, Carry
  <2>3. SameAs(c)
    BY <1>2, <2>1 DEF SameAs
  <2>4. LagFits(rtsp) /\ Recorded
    <3>1. history.faults \in Nat
      BY DEF ConnInv, HistoryShape
    <3> QED
      BY <1>0, <2>2, <3>1, LagIsFitting, PlainlyRecorded
  <2> QED
    BY <1>0, <2>2, <2>3, <2>4, FailedKeeps
<1>5. CASE conn.sock /\ Buildable(conn, kind)
  <2>1. PICK n \in Nat : n = conn.cseq + 1
    BY DEF ConnInv, ConnTyped
  <2>2. /\ conn' = [c EXCEPT !.cseq = @ + 1, !.waiting = conn.cseq + 1]
        /\ Carry([rtsp EXCEPT !.owed = Append(@, Request(kind))])
        /\ history' = [history EXCEPT
                         !.teardowns = IF kind = "teardown" THEN @ + 1 ELSE @,
                         !.late = @ \/ history.teardowns > 0,
                         !.clear = @ \/ (~conn.cipher /\ kind \notin Pairing \cup {"info"})]
    BY <1>5 DEF SendRequest
  <2>3. /\ DOMAIN conn' = ConnFields /\ conn'.cseq = n /\ conn'.waiting = n /\ n # 0
        /\ conn'.state = (IF kind = "teardown" THEN "TearingDown" ELSE conn.state)
        /\ conn'.plan = conn.plan /\ conn'.stage = conn.stage /\ conn'.timing = conn.timing /\ conn'.key = conn.key
        /\ conn'.sock = conn.sock /\ conn'.cipher = conn.cipher /\ conn'.ports = conn.ports
        /\ SamePlay /\ SameWork /\ conn'.disconnected = conn.disconnected
    <3>1. conn' = [c EXCEPT !.cseq = n, !.waiting = n]
      BY <1>2, <2>1, <2>2
    <3>2. n # 0
      BY <2>1 DEF ConnInv, ConnTyped
    <3> HIDE DEF c
    <3> QED
      BY <1>2, <3>1, <3>2 DEF ConnFields, SamePlay, SameWork
  <2>4. ConnTyped'
    BY <2>3 DEF ConnInv, ConnTyped, SessionState, SamePlay, SameWork
  <2>5. Planned(conn.plan)' /\ ~Idle' /\ Head(conn'.plan) = kind
    BY <1>0, <2>3 DEF ConnInv, Planned, Idle
  <2>6. PICK w : w = [rtsp EXCEPT !.owed = Append(@, Request(kind))]
    OBVIOUS
  <2>7. rtsp' = w
    BY <1>5, <2>2, <2>3, <2>6 DEF Carry
  <2>8. Request(kind) \in Requests /\ Request(kind).cseq = conn.cseq + 1
    BY <1>0, <2>1 DEF Request, Requests
  <2>9. /\ ChannelFits(rtsp)' /\ LastRead(rtsp)' = LastRead(rtsp) /\ Unread(w) = Unread(rtsp) + 1
        /\ Unread(rtsp) \in Nat /\ w.closed = rtsp.closed /\ w.torn = rtsp.torn
        /\ \A q \in Asked(rtsp)' : \/ q = <<Request(kind).cseq, Request(kind).kind>>
                                   \/ q \in Asked(rtsp) /\ q[1] # conn'.cseq
    BY <1>0, <2>1, <2>3, <2>6, <2>7, <2>8, SentFits
  <2>10. ChannelCounts'
    BY <1>0, <1>5, <2>3, <2>5, <2>9 DEF ChannelCounts
  <2>11. conn.cipher \/ kind \in Pairing \cup {"info"}
    <3>1. CASE conn.stage = "building"
      <4>1. kind \in BuildSteps /\ (kind = "options" => conn.cipher)
        BY <1>0, <3>1 DEF ConnInv, StagesAgree, BuildSteps, CallSteps, EndSteps
      <4> QED
        BY <1>0, <4>1 DEF RequestKinds, SessionKinds, SetupKinds, BuildSteps
    <3>2. CASE conn.stage = "up"
      BY <3>2 DEF ConnInv, StagesAgree
    <3> QED
      BY <1>0, <3>1, <3>2 DEF ConnInv, StagesAgree
  <2>12. /\ history' \in HistoryShape /\ history'.faults = history.faults
         /\ history'.teardowns = IF kind = "teardown" THEN 1 ELSE 0
    <3>1. history \in HistoryShape /\ ~history.late /\ ~history.clear
      BY DEF ConnInv, HistoryShape
    <3>2. PICK t \in {0, 1} : t = IF kind = "teardown" THEN 1 ELSE 0
      OBVIOUS
    <3>3. history' = [history EXCEPT !.teardowns = t, !.late = FALSE, !.clear = FALSE]
      <4>1. (IF kind = "teardown" THEN history.teardowns + 1 ELSE history.teardowns) = t
        BY <1>3, <3>2
      <4>2. (history.late \/ history.teardowns > 0) = FALSE
        BY <1>3, <3>1
      <4>3. (history.clear \/ (~conn.cipher /\ kind \notin Pairing \cup {"info"})) = FALSE
        BY <2>11, <3>1
      <4> QED
        BY <2>2, <4>1, <4>2, <4>3
    <3> QED
      BY <3>1, <3>2, <3>3 DEF HistoryShape
  <2>13. kind = "teardown" => conn.stage = "up" /\ conn.disconnected
    BY <1>0 DEF ConnInv, StagesAgree, StepsAgree, BuildSteps, EndSteps
  <2>14. StagesAgree'
    BY <1>0, <1>3, <1>5, <2>3, <2>5, <2>12, <2>13 DEF ConnInv, StagesAgree, SamePlay, SameWork
  <2>15. StepsAgree'
    <3>1. kind = "teardown" => kind \notin {"events", "control", "setup2"} /\ ~BeforeStream
                               /\ kind \notin {"volume", "control_worker"}
      BY DEF BeforeStream
    <3>2. BeforeStream' => BeforeStream
      BY <2>3 DEF BeforeStream
    <3> QED
      BY <1>0, <2>3, <2>5, <2>9, <3>1, <3>2 DEF ConnInv, StepsAgree, SamePlay, SameWork
  <2>19. AnswersAreOwn'
    <3>1. \A q \in Asked(rtsp)' : q = <<n, kind>> \/ (q \in Asked(rtsp) /\ q[1] # n)
      BY <2>1, <2>3, <2>9 DEF Request
    <3>2. conn'.waiting # 0 => \A q \in Asked(rtsp)' : q[1] = conn'.cseq => q[2] = Head(conn'.plan)
      BY <2>3, <2>5, <3>1
    <3>3. ASSUME conn'.state \in Early, NEW q \in Asked(rtsp)' PROVE q[2] # "setup2"
      <4>1. conn.state \in Early /\ kind # "setup2"
        BY <1>5, <2>3, <3>3 DEF Early, Buildable
      <4> QED
        BY <3>1, <4>1 DEF ConnInv, AnswersAreOwn
    <3>4. ASSUME BetweenPhases'
          PROVE  /\ \A q \in Asked(rtsp)' : q[2] = "setup2" => q[1] = n
                 /\ conn'.ports.first = LastRead(rtsp)' \/ Unread(rtsp)' > 1
      <4>1. BetweenPhases
        BY <1>0, <2>5, <3>4 DEF BetweenPhases
      <4>2. /\ \A q \in Asked(rtsp) : q[2] # "setup2"
            /\ conn.ports.first = LastRead(rtsp) \/ Unread(rtsp) > 0
        BY <1>0, <4>1 DEF ConnInv, AnswersAreOwn
      <4>3. conn'.ports.first = LastRead(rtsp)' \/ Unread(rtsp)' > 1
        <5>1. Unread(rtsp)' = Unread(w)
          BY <2>7
        <5> QED
          BY <2>3, <2>9, <4>2, <5>1
      <4> QED
        BY <3>1, <4>2, <4>3
    <3> QED
      BY <2>3, <3>2, <3>3, <3>4 DEF AnswersAreOwn
  <2>16. TeardownIsLast'
    BY <1>0, <2>3, <2>5, <2>12, <2>13 DEF TeardownIsLast
  <2>17. SetupIsMatched' /\ PlaybackFitsSession' /\ IdentityIsKnown'
    BY <1>0, <2>3, <2>13 DEF ConnInv, SetupIsMatched, PlaybackFitsSession, IdentityIsKnown, SamePlay
  <2>18. LagHasACause'
    <3>1. history.faults \in Nat
      BY DEF ConnInv, HistoryShape
    <3>2. ~rtsp.closed /\ ~rtsp.torn => Unread(rtsp) <= history.faults + 0
      BY <1>0, <1>3 DEF ConnInv, LagHasACause, Unread
    <3>3. ~w.closed /\ ~w.torn => Unread(w) <= history.faults + 1
      BY <2>9, <3>1, <3>2
    <3>4. conn'.waiting # 0
      BY <2>3
    <3> QED
      BY <2>7, <2>12, <3>3, <3>4 DEF LagHasACause, Unread
  <2> QED
    BY <1>0, <2>4, <2>5, <2>10, <2>12, <2>14, <2>15, <2>16, <2>17, <2>18, <2>19 DEF ConnInv
<1> QED
  BY <1>4, <1>5

LEMMA WorkerEndsKeeps == ConnInv /\ WorkerEnds => ConnInv'
<1> SUFFICES ASSUME ConnInv, WorkerEnds PROVE ConnInv'
  OBVIOUS
<1>0. PICK k \in conn.workers : conn' = [conn EXCEPT !.workers = @ \ {k}]
  BY DEF WorkerEnds
<1>1. UNCHANGED <<rtsp, identity, history>> /\ DOMAIN conn = ConnFields
  BY DEF WorkerEnds, ConnInv, ConnTyped
<1>2. /\ conn'.stage = conn.stage /\ conn'.timing = conn.timing /\ conn'.key = conn.key
      /\ conn'.plan = conn.plan /\ conn'.waiting = conn.waiting /\ conn'.cseq = conn.cseq
      /\ conn'.sock = conn.sock /\ conn'.cipher = conn.cipher /\ SameSession /\ SamePlay
      /\ conn'.held = conn.held /\ conn'.workers = conn.workers \ {k}
      /\ conn'.cancelled = conn.cancelled /\ conn'.disconnected = conn.disconnected
      /\ DOMAIN conn' = ConnFields
  BY <1>0, <1>1 DEF ConnFields, SameSession, SamePlay
<1>3. ConnTyped'
  BY <1>2 DEF ConnInv, ConnTyped, SameSession, SamePlay
<1>4. Planned(conn.plan)' /\ (Idle' <=> Idle)
  BY <1>2 DEF ConnInv, Planned, Idle
<1>5. ChannelCounts' /\ LastRead(rtsp)' = LastRead(rtsp)
  BY <1>1, <1>2, <1>4 DEF ConnInv, ChannelCounts, ChannelFits, LastRead, Unread
<1>6. StagesAgree'
  BY <1>1, <1>2, <1>4 DEF ConnInv, StagesAgree, SameSession, SamePlay
<1>7. StepsAgree'
  BY <1>1, <1>2, <1>4, <1>5 DEF ConnInv, StepsAgree, BeforeStream, SameSession, SamePlay
<1>9. AnswersAreOwn'
  BY <1>1, <1>2, <1>4, <1>5 DEF ConnInv, AnswersAreOwn, BetweenPhases, SameSession
<1>8. TeardownIsLast' /\ SetupIsMatched' /\ LagHasACause' /\ PlaybackFitsSession' /\ IdentityIsKnown'
  BY <1>1, <1>2, <1>4 DEF ConnInv, TeardownIsLast, SetupIsMatched, LagHasACause, PlaybackFitsSession,
     IdentityIsKnown, SameSession, SamePlay
<1> QED
  BY <1>1, <1>3, <1>4, <1>5, <1>6, <1>7, <1>8, <1>9 DEF ConnInv

\* A step of the receiver: what it leaves of a connection.
LEMMA ReceiverKeeps ==
  ASSUME ConnInv, conn' = conn, ChannelFits(rtsp)', LastRead(rtsp)' = LastRead(rtsp), LagHasACause',
         conn.sock, Recorded, Asked(rtsp)' \subseteq Asked(rtsp), Unread(rtsp)' = Unread(rtsp)
  PROVE  ConnInv'
<1>1. /\ history' \in HistoryShape /\ history'.teardowns = history.teardowns /\ IdentityIsKnown'
      /\ identity' \in IdentityShape /\ identity.trusted \subseteq identity'.trusted
  BY DEF Recorded
<1>2. ConnTyped' /\ Planned(conn.plan)' /\ (Idle' <=> Idle)
  BY DEF ConnInv, ConnTyped, Planned, Idle
<1>3. ChannelCounts'
  BY <1>2 DEF ConnInv, ChannelCounts
<1>4. StagesAgree'
  BY <1>1, <1>2 DEF ConnInv, StagesAgree
<1>5. StepsAgree' /\ AnswersAreOwn'
  BY <1>2 DEF ConnInv, StepsAgree, BeforeStream, AnswersAreOwn, BetweenPhases
<1>6. TeardownIsLast' /\ SetupIsMatched' /\ PlaybackFitsSession'
  BY <1>1, <1>2 DEF ConnInv, TeardownIsLast, SetupIsMatched, PlaybackFitsSession
<1> QED
  BY <1>1, <1>2, <1>3, <1>4, <1>5, <1>6 DEF ConnInv

LEMMA ReceiverClosesKeeps == ConnInv /\ ReceiverCloses => ConnInv'
<1> SUFFICES ASSUME ConnInv, ReceiverCloses PROVE ConnInv'
  OBVIOUS
<1>1. conn.sock /\ conn' = conn /\ identity' = identity /\ rtsp' = [rtsp EXCEPT !.closed = TRUE] /\ Recorded
  BY FaultRecorded DEF ReceiverCloses
<1>2. rtsp \in ChannelShape /\ ChannelFits(rtsp)
  BY DEF ConnInv, ChannelCounts, ChannelFits
<1>3. rtsp' \in ChannelShape /\ rtsp'.owed = rtsp.owed /\ rtsp'.answers = rtsp.answers /\ rtsp'.closed = TRUE
  BY <1>1, <1>2 DEF ChannelShape
<1>4. /\ ChannelFits(rtsp)' /\ LastRead(rtsp)' = LastRead(rtsp) /\ Unread(rtsp)' = Unread(rtsp)
      /\ Asked(rtsp)' = Asked(rtsp)
  BY <1>1, <1>2, <1>3 DEF ChannelFits, LastRead, Unread, Asked
<1>5. LagHasACause'
  BY <1>3 DEF LagHasACause
<1> QED
  BY <1>1, <1>4, <1>5, ReceiverKeeps

\* The receiver answers what it owes first.
LEMMA ReceiverAnswersKeeps == ConnInv /\ ReceiverAnswers => ConnInv'
<1> SUFFICES ASSUME ConnInv, ReceiverAnswers PROVE ConnInv'
  OBVIOUS
<1> DEFINE request == Head(rtsp.owed)
<1>0. rtsp.owed # <<>> /\ conn' = conn /\ history' = history
  BY DEF ReceiverAnswers
<1>1. PICK ok \in BOOLEAN :
        /\ rtsp' = [rtsp EXCEPT !.owed = Tail(@), !.answers = Append(@, [request EXCEPT !.ok = ok])]
        /\ identity' = [identity EXCEPT !.trusted = IF ok /\ request.kind = "setup_m5" THEN @ \cup {"new"} ELSE @]
  BY DEF ReceiverAnswers
<1>2. /\ rtsp \in ChannelShape /\ ChannelFits(rtsp) /\ 0 <= LastRead(rtsp) /\ conn.cseq \in Nat
      /\ \A i \in 1 .. Len(rtsp.answers) : rtsp.answers[i].cseq = LastRead(rtsp) + i
      /\ \A i \in 1 .. Len(rtsp.owed) : rtsp.owed[i].cseq = LastRead(rtsp) + Len(rtsp.answers) + i
      /\ conn.sock
  BY <1>0 DEF ConnInv, ChannelCounts, ChannelFits, ConnTyped, Quiet
<1>3. rtsp.owed \in Seq(Requests) /\ rtsp.answers \in Seq(Requests)
  BY <1>2 DEF ChannelShape
<1>4. PICK m \in Nat : m = Len(rtsp.owed)
  BY <1>3, LenProperties
<1>5. PICK n \in Nat : n = Len(rtsp.answers)
  BY <1>3, LenProperties
<1>6. m > 0
  BY <1>0, <1>3, <1>4, EmptySeq
<1>7. /\ request = rtsp.owed[1] /\ request \in Requests /\ Tail(rtsp.owed) \in Seq(Requests)
      /\ Len(Tail(rtsp.owed)) = m - 1
      /\ \A i \in 1 .. m - 1 : Tail(rtsp.owed)[i] = rtsp.owed[i + 1]
  BY <1>0, <1>3, <1>4, HeadTailProperties
<1>8. PICK reply \in Requests :
        reply = [request EXCEPT !.ok = ok] /\ reply.ok = ok /\ reply.kind = request.kind /\ reply.cseq = request.cseq
  <2> DEFINE r == [request EXCEPT !.ok = ok]
  <2>1. r \in Requests /\ r.ok = ok /\ r.kind = request.kind /\ r.cseq = request.cseq
    BY <1>7 DEF Requests
  <2> QED
    BY <2>1
<1> HIDE DEF request
<1>9. /\ Append(rtsp.answers, reply) \in Seq(Requests)
      /\ Len(Append(rtsp.answers, reply)) = n + 1
      /\ \A i \in 1 .. n : Append(rtsp.answers, reply)[i] = rtsp.answers[i]
      /\ Append(rtsp.answers, reply)[n + 1] = reply
  BY <1>3, <1>5, AppendProperties
<1>10. /\ rtsp' \in ChannelShape /\ rtsp'.owed = Tail(rtsp.owed) /\ rtsp'.answers = Append(rtsp.answers, reply)
       /\ rtsp'.torn = rtsp.torn /\ rtsp'.closed = rtsp.closed
  BY <1>1, <1>2, <1>7, <1>8, <1>9 DEF ChannelShape
<1>11. /\ identity' \in IdentityShape /\ identity'.file = identity.file
       /\ identity.trusted \subseteq identity'.trusted
       /\ ok /\ request.kind = "setup_m5" => "new" \in identity'.trusted
  <2>1. identity \in IdentityShape
    BY DEF ConnInv
  <2> QED
    BY <1>1, <2>1 DEF IdentityShape
<1>12. Recorded
  BY <1>0, <1>11 DEF Recorded, ConnInv, IdentityIsKnown
<1>13. LastRead(rtsp) = conn.cseq - (m + n) /\ LastRead(rtsp)' = conn.cseq - ((m - 1) + (n + 1))
  BY <1>0, <1>4, <1>5, <1>7, <1>9, <1>10 DEF LastRead, Unread
<1>14. LastRead(rtsp)' = LastRead(rtsp)
  BY <1>2, <1>13
<1>15. PICK l \in Int : l = LastRead(rtsp)
  BY <1>2, <1>13
<1>16. ASSUME NEW i \in 1 .. Len(rtsp'.answers) PROVE rtsp'.answers[i].cseq = LastRead(rtsp)' + i
  <2>1. CASE i \in 1 .. n
    BY <2>1, <1>2, <1>5, <1>9, <1>10, <1>14
  <2>2. CASE i = n + 1
    <3>1. rtsp.owed[1].cseq = l + n + 1
      BY <1>2, <1>4, <1>5, <1>6, <1>15
    <3>2. rtsp'.answers[i].cseq = l + n + 1
      BY <2>2, <3>1, <1>7, <1>8, <1>9, <1>10
    <3> QED
      BY <2>2, <3>2, <1>14, <1>15
  <2> QED
    BY <2>1, <2>2, <1>9, <1>10
<1>17. ASSUME NEW i \in 1 .. Len(rtsp'.owed) PROVE rtsp'.owed[i].cseq = LastRead(rtsp)' + Len(rtsp'.answers) + i
  <2>1. i \in 1 .. m - 1 /\ i + 1 \in 1 .. m
    BY <1>7, <1>10
  <2>2. rtsp'.owed[i] = rtsp.owed[i + 1]
    BY <2>1, <1>7, <1>10
  <2>3. rtsp.owed[i + 1].cseq = l + n + (i + 1)
    BY <2>1, <1>2, <1>4, <1>5, <1>15
  <2>4. Len(rtsp'.answers) = n + 1
    BY <1>9, <1>10
  <2> QED
    BY <2>1, <2>2, <2>3, <2>4, <1>14, <1>15
<1>18. ASSUME NEW i \in 1 .. Len(rtsp'.answers), rtsp'.answers[i].ok, rtsp'.answers[i].kind = "setup_m5"
       PROVE  "new" \in identity'.trusted
  <2>1. CASE i \in 1 .. n
    <3>1. rtsp'.answers[i] = rtsp.answers[i]
      BY <2>1, <1>9, <1>10
    <3> QED
      BY <2>1, <3>1, <1>2, <1>5, <1>11, <1>18 DEF ChannelFits
  <2>2. CASE i = n + 1
    <3>1. rtsp'.answers[i] = reply
      BY <2>2, <1>9, <1>10
    <3> QED
      BY <3>1, <1>8, <1>11, <1>18
  <2> QED
    BY <2>1, <2>2, <1>9, <1>10
<1>19. ChannelFits(rtsp)'
  BY <1>2, <1>10, <1>14, <1>16, <1>17, <1>18 DEF ChannelFits
<1>20. LagHasACause'
  <2>1. PICK k \in {0, 1} : k = IF conn.waiting = 0 /\ history.teardowns = 0 THEN 0 ELSE 1
    OBVIOUS
  <2>2. ~rtsp.closed /\ ~rtsp.torn => m + n <= history.faults + k
    BY <2>1, <1>4, <1>5 DEF ConnInv, LagHasACause
  <2>3. (m - 1) + (n + 1) = m + n
    OBVIOUS
  <2>4. Len(rtsp'.owed) = m - 1 /\ Len(rtsp'.answers) = n + 1
    BY <1>7, <1>9, <1>10
  <2>5. ~rtsp'.closed /\ ~rtsp'.torn => Len(rtsp'.owed) + Len(rtsp'.answers) <= history'.faults + k
    BY <2>2, <2>3, <2>4, <1>0, <1>10
  <2> QED
    BY <2>1, <2>5, <1>0 DEF LagHasACause
<1>21. Asked(rtsp)' \subseteq Asked(rtsp)
  <2>1. ASSUME NEW i \in 1 .. Len(rtsp'.owed) PROVE <<rtsp'.owed[i].cseq, rtsp'.owed[i].kind>> \in Asked(rtsp)
    <3>1. i + 1 \in 1 .. m /\ rtsp'.owed[i] = rtsp.owed[i + 1]
      BY <1>7, <1>10
    <3> QED
      BY <3>1, <1>4 DEF Asked
  <2>2. ASSUME NEW i \in 1 .. Len(rtsp'.answers)
        PROVE  <<rtsp'.answers[i].cseq, rtsp'.answers[i].kind>> \in Asked(rtsp)
    <3>1. CASE i \in 1 .. n
      <4>1. rtsp'.answers[i] = rtsp.answers[i]
        BY <3>1, <1>9, <1>10
      <4> QED
        BY <3>1, <4>1, <1>5 DEF Asked
    <3>2. CASE i = n + 1
      <4>1. rtsp'.answers[i] = reply /\ 1 \in 1 .. m
        BY <3>2, <1>6, <1>9, <1>10
      <4> QED
        BY <4>1, <1>4, <1>7, <1>8 DEF Asked
    <3>3. i \in 1 .. n + 1
      BY <1>9, <1>10
    <3> QED
      BY <3>1, <3>2, <3>3
  <2> QED
    BY <2>1, <2>2 DEF Asked
<1>22. Unread(rtsp)' = Unread(rtsp)
  <2>1. Unread(rtsp)' = (m - 1) + (n + 1) /\ Unread(rtsp) = m + n
    BY <1>4, <1>5, <1>7, <1>9, <1>10 DEF Unread
  <2>2. (m - 1) + (n + 1) = m + n
    OBVIOUS
  <2> QED
    BY <2>1, <2>2
<1> QED
  BY <1>0, <1>2, <1>12, <1>14, <1>19, <1>20, <1>21, <1>22, ReceiverKeeps

-----------------------------------------------------------------------------
LEMMA CallActionsKeep == ConnInv /\ Calls => ConnInv'
<1> SUFFICES ASSUME ConnInv, Calls PROVE ConnInv'
  OBVIOUS
<1>1. CASE ConnectAuto \/ ConnectWithPinPairing
  BY <1>1, ConnectKeeps
<1>2. CASE Setup
  BY <1>2, SetupKeeps
<1>3. CASE StartStreaming \/ StartStreamingLive
  BY <1>3, StartKeeps DEF StartStreaming, StartStreamingLive
<1>4. CASE PauseConnection \/ ResumeConnection \/ StopConnection \/ SetVolume \/ SendFeedback \/ Probe
  BY <1>4, ShortCallsKeep DEF PauseConnection, ResumeConnection, StopConnection, SetVolume, SendFeedback, Probe
<1>5. CASE Disconnect
  BY <1>5, DisconnectKeeps
<1>6. CASE DropConnection
  BY <1>6, DropConnectionKeeps
<1>7. CASE GiveUp
  BY <1>7, GiveUpKeeps
<1> QED
  BY <1>1, <1>2, <1>3, <1>4, <1>5, <1>6, <1>7 DEF Calls

LEMMA StepActionsKeep == ConnInv /\ Steps => ConnInv'
<1> SUFFICES ASSUME ConnInv, Steps PROVE ConnInv'
  OBVIOUS
<1>1. CASE SendRequest \/ ReadAnswer \/ AnswerTimesOut \/ ReadFails
  BY <1>1, SendRequestKeeps, ReadAnswerKeeps, AnswerTimesOutKeeps, ReadFailsKeeps
<1>2. CASE TcpConnects \/ SetCipher \/ SetPaired \/ SaveIdentity \/ StartTimingServer
  BY <1>2, TcpConnectsKeeps, SetCipherKeeps, SetPairedKeeps, SaveIdentityKeeps, StartTimingServerKeeps
<1>3. CASE ConnectEvents \/ BindControl \/ StartClock \/ FirstClock \/ BuildSender \/ JoinWorkers
  BY <1>3, ConnectEventsKeeps, BindControlKeeps, StartClockKeeps, PlainKeeps
<1>4. CASE StartStreamer \/ StartControl \/ PauseStreamer \/ ResumeStreamer \/ StopStreamer
  BY <1>4, StartStreamerKeeps, StartControlKeeps, PauseStreamerKeeps, ResumeStreamerKeeps, StopStreamerKeeps
<1>5. CASE PauseSession \/ ResumeSession
  BY <1>5, SessionTurnsKeep
<1>6. CASE StopConnectionEnds \/ EndStreamer \/ StopServices \/ Cancel \/ Close
  BY <1>6, StopConnectionEndsKeeps, EndStreamerKeeps, StopServicesKeeps, CancelKeeps, CloseKeeps
<1> QED
  BY <1>1, <1>2, <1>3, <1>4, <1>5, <1>6 DEF Steps

LEMMA ConnectionKeeps == ConnInv /\ [ConnectionNext]_connectionVars => ConnInv'
<1>1. ASSUME ConnInv, UNCHANGED connectionVars PROVE ConnInv'
  <2>1. conn' = conn /\ rtsp' = rtsp /\ identity' = identity /\ history' = history
    BY <1>1 DEF connectionVars
  <2>2. ConnTyped' /\ Planned(conn.plan)' /\ ChannelCounts'
    <3>1. ConnTyped' /\ Planned(conn.plan)'
      BY <1>1, <2>1 DEF ConnInv, ConnTyped, Planned
    <3>2. ChannelCounts'
      BY <1>1, <2>1 DEF ConnInv, ChannelCounts, ChannelFits, LastRead, Unread, Idle
    <3> QED
      BY <3>1, <3>2
  <2>3. StagesAgree' /\ StepsAgree' /\ TeardownIsLast'
    BY <1>1, <2>1 DEF ConnInv, StagesAgree, StepsAgree, BeforeStream, TeardownIsLast, Idle
  <2>5. AnswersAreOwn'
    <3>1. /\ Asked(rtsp)' = Asked(rtsp) /\ Unread(rtsp)' = Unread(rtsp) /\ LastRead(rtsp)' = LastRead(rtsp)
          /\ (BetweenPhases' <=> BetweenPhases)
      BY <2>1 DEF Asked, Unread, LastRead, BetweenPhases, Idle
    <3> QED
      BY <1>1, <2>1, <3>1 DEF ConnInv, AnswersAreOwn
  <2>4. SetupIsMatched' /\ LagHasACause' /\ PlaybackFitsSession' /\ IdentityIsKnown'
    BY <1>1, <2>1 DEF ConnInv, SetupIsMatched, LagHasACause, PlaybackFitsSession, IdentityIsKnown
  <2> QED
    BY <1>1, <2>1, <2>2, <2>3, <2>4, <2>5 DEF ConnInv
<1> QED
  BY <1>1, CallActionsKeep, StepActionsKeep, WorkerEndsKeeps, ReceiverAnswersKeeps, ReceiverClosesKeeps
  DEF ConnectionNext

LEMMA ConnectionPromise == ConnInv => ConnectionSafe
<1> SUFFICES ASSUME ConnInv PROVE ConnectionSafe
  OBVIOUS
<1>1. Connection /\ WorkerLedger
  BY DEF ConnInv, ConnTyped, StagesAgree, Connection, WorkerLedger
<1>2. RtspConnection
  <2>1. /\ rtsp \in ChannelShape /\ 0 <= LastRead(rtsp) /\ conn.cseq \in Nat
        /\ \A i \in 1 .. Len(rtsp.answers) : rtsp.answers[i].cseq = LastRead(rtsp) + i
    BY DEF ConnInv, ChannelCounts, ChannelFits, ConnTyped
  <2>2. rtsp.owed \in Seq(Requests) /\ rtsp.answers \in Seq(Requests)
    BY <2>1 DEF ChannelShape
  <2>3. PICK m \in Nat : m = Len(rtsp.owed)
    BY <2>2, LenProperties
  <2>4. PICK n \in Nat : n = Len(rtsp.answers) /\ DOMAIN rtsp.answers = 1 .. n
    BY <2>2, LenProperties
  <2>5. LastRead(rtsp) = conn.cseq - (m + n)
    BY <2>3, <2>4 DEF LastRead, Unread
  <2>6. ASSUME NEW i \in DOMAIN rtsp.answers PROVE rtsp.answers[i].cseq \in 1 .. conn.cseq
    <3>1. i \in 1 .. n /\ rtsp.answers[i].cseq = (conn.cseq - (m + n)) + i
      BY <2>1, <2>4, <2>5
    <3> QED
      BY <3>1, <2>1, <2>5
  <2> QED
    BY <2>6 DEF RtspConnection, ConnInv, ChannelCounts
<1>3. PersistentIdentity
  BY DEF ConnInv, IdentityShape, Keys, PersistentIdentity
<1>4. OneTeardown /\ SessionIsSealed
  <2>1. history.teardowns \in {0, 1} /\ history.late = FALSE /\ history.clear = FALSE
    BY DEF ConnInv, HistoryShape
  <2> QED
    BY <2>1 DEF OneTeardown, SessionIsSealed
<1>5. ClosedIsReleased
  BY DEF ConnInv, StagesAgree, ClosedIsReleased
<1> QED
  BY <1>1, <1>2, <1>3, <1>4, <1>5 DEF ConnInv, ConnectionSafe, ConnectionTypeOK

\* Whatever is lost, late, refused or given up, a connection keeps to its rules:
\* one TEARDOWN and nothing after it, nothing but the pairing in the clear, a
\* session that is ready only on the answers to its own two set-up requests, and
\* nothing held once it is closed (connection.rs, session.rs of airplay-rtsp).
THEOREM ConnectionStaysSafe == ConnectionSpec => []ConnectionSafe
<1>1. ConnectionSpec => []ConnInv
  BY ConnectionStarts, ConnectionKeeps, PTL DEF ConnectionSpec
<1> QED
  BY <1>1, ConnectionPromise, PTL

\* The two kinds of session together, each taking its own steps.
THEOREM SessionsStaySafe == ConnectionSpec /\ RaopSpec => []SessionsSafe
<1>1. ConnectionSafe /\ RaopSafe => SessionsSafe
  BY DEF SessionsSafe
<1> QED
  BY <1>1, ConnectionStaysSafe, RaopStaysSafe, PTL
===============================================================================
