---------------------------- MODULE RaopConnection ----------------------------
(***************************************************************************)
(* A connection to an AirPlay 1 receiver (airplay-client/src/              *)
(* raop_connection.rs) with its session (airplay-rtsp/src/raop_session.rs) *)
(* and the receiver at the other end.  One caller makes one call after the *)
(* other; a step is one request with its answer.  The receiver may refuse  *)
(* a request, or the answer may be lost when the request was served.       *)
(***************************************************************************)
EXTENDS Integers, Sequences, FiniteSets, FiniteSetsExt

CONSTANTS
  RaopSetups,     \* records [password, locked, digest, rsa]: see RaopInit
  FullVolume,     \* the volume 1.0, in steps of the volumes a caller may ask for
  MaxRaopCalls,   \* bound: calls after connect
  MaxRaopFaults   \* bound: requests refused or answers lost

ASSUME RaopAssumption ==
  /\ RaopSetups \subseteq [password : {"none", "right", "wrong"}, locked : BOOLEAN,
                           digest : BOOLEAN, rsa : BOOLEAN]
  /\ FullVolume \in Nat \ {0} /\ {MaxRaopCalls, MaxRaopFaults} \subseteq Nat

VARIABLES
  setup,   \* the caller's password, and what the receiver asks for and can do
  raop,    \* RaopConnection and its RaopSession
  remote   \* the receiver: what it accepted, and the faults so far

raopVars == <<setup, raop, remote>>

-----------------------------------------------------------------------------
(* Addresses.                                                              *)

\* select_best_address: an IPv4 address, else one that is not link-local, else any.
BestAddress(addresses) ==
  LET first(kinds) == {i \in DOMAIN addresses : addresses[i] \in kinds}
  IN CASE first({"v4"}) # {} -> Min(first({"v4"}))
       [] first({"v4"}) = {} /\ first({"global"}) # {} -> Min(first({"global"}))
       [] OTHER -> Min(DOMAIN addresses \cup {Len(addresses) + 1})

-----------------------------------------------------------------------------
(* Requests.                                                               *)

\* compute_digest_response needs realm and nonce of the challenge.
CanAuthorize == setup.password # "none" /\ setup.digest
Authorized == setup.password = "right"

AnswersTo(request, auth) ==
  IF raop.closed THEN {"lost"}
  ELSE IF setup.locked /\ request \in {"OPTIONS", "ANNOUNCE"} /\ ~(auth /\ Authorized)
       THEN {"unauthorized"}
  ELSE IF request = "SETUP" /\ ~remote.announced THEN {"refused"}
  ELSE {"ok"} \cup (IF remote.faults < MaxRaopFaults THEN {"refused", "lost"} ELSE {})

\* The receiver serves what it answers with 200, and perhaps what it answers in vain.
Exchange(request, auth, reply, served) ==
  /\ reply \in AnswersTo(request, auth)
  /\ remote' \in CASE reply = "ok" -> {served}
                   [] reply = "lost" /\ ~raop.closed ->
                        {[s EXCEPT !.faults = @ + 1] : s \in {remote, served}}
                   [] reply = "refused" /\ remote.faults < MaxRaopFaults ->
                        {[remote EXCEPT !.faults = @ + 1]}
                   [] OTHER -> {remote}

\* A call ends, well or with an error; or goes on with its next request.
Returns(r) == raop' = [r EXCEPT !.call = "none", !.step = "none"]
Goes(r, stage) == raop' = [r EXCEPT !.step = stage]
Begins(call, stage) ==
  /\ raop.call = "none" /\ raop.calls < MaxRaopCalls
  /\ raop' = [raop EXCEPT !.call = call, !.step = stage, !.calls = @ + 1]
  /\ UNCHANGED <<setup, remote>>
InCall(call, stage) == raop.call = call /\ raop.step = stage /\ UNCHANGED setup

-----------------------------------------------------------------------------
(* connect_internal.                                                       *)

\* 401 without a password fails; with one but a challenge that cannot be
\* answered, the connection goes on as if it had been accepted.
Options ==
  /\ InCall("connect", "options")
  /\ \E a \in {"ok", "unauthorized", "refused", "lost"} :
       /\ Exchange("OPTIONS", FALSE, a, remote)
       /\ CASE a = "lost" -> Returns([raop EXCEPT !.closed = TRUE])
            [] a = "unauthorized" /\ setup.password = "none" ->
                 Returns([raop EXCEPT !.closed = TRUE])
            [] a = "unauthorized" /\ CanAuthorize -> Goes(raop, "options_auth")
            [] OTHER -> Returns([raop EXCEPT !.alive = TRUE])
OptionsAuthorized ==
  /\ InCall("connect", "options_auth")
  /\ \E a \in {"ok", "unauthorized", "refused", "lost"} :
       /\ Exchange("OPTIONS", TRUE, a, remote)
       /\ IF a = "ok" THEN Returns([raop EXCEPT !.alive = TRUE])
          ELSE Returns([raop EXCEPT !.closed = TRUE])

-----------------------------------------------------------------------------
(* setup: alone, or as the first half of start_streaming.                  *)

\* A timing server and a control socket are opened, and replace earlier ones.
SetupBegins(r, call) ==
  raop' = [r EXCEPT !.call = call, !.step = "announce", !.calls = @ + 1,
                    !.opened = @ + 1, !.timing = r.opened + 1, !.control = r.opened + 1,
                    !.late = @ \/ r.disconnected]
Callable == raop.alive /\ raop.call = "none" /\ raop.calls < MaxRaopCalls

RaopSetup == Callable /\ SetupBegins(raop, "setup") /\ UNCHANGED <<setup, remote>>
RaopStartStreaming ==
  /\ Callable /\ UNCHANGED <<setup, remote>>
  /\ IF raop.session = "SetupComplete"
     THEN raop' = [raop EXCEPT !.call = "start", !.step = "stream", !.calls = @ + 1]
     ELSE SetupBegins(raop, "start")

\* RaopSession::set_announced.
Announced(r) ==
  IF r.session = "Connected" THEN Goes([r EXCEPT !.session = "Announced"], "setup")
  ELSE Returns(r)
Declared == [remote EXCEPT !.announced = TRUE, !.key = setup.rsa]

Announce ==
  /\ raop.call \in {"setup", "start"} /\ raop.step = "announce" /\ UNCHANGED setup
  /\ \E a \in {"ok", "unauthorized", "refused", "lost"} :
       /\ Exchange("ANNOUNCE", FALSE, a, Declared)
       /\ CASE a = "ok" -> Announced(raop)
            [] a = "unauthorized" /\ CanAuthorize -> Goes(raop, "announce_auth")
            [] a = "unauthorized" /\ setup.password # "none" /\ ~setup.digest -> Announced(raop)
            [] OTHER -> Returns(raop)
AnnounceAuthorized ==
  /\ raop.call \in {"setup", "start"} /\ raop.step = "announce_auth" /\ UNCHANGED setup
  /\ \E a \in {"ok", "unauthorized", "refused", "lost"} :
       /\ Exchange("ANNOUNCE", TRUE, a, Declared)
       /\ IF a = "ok" THEN Announced(raop) ELSE Returns(raop)

\* build_transport_header names our ports, parse_transport_header reads the
\* receiver's; a port the header does not name is 0.
PortsOf(header) == [p \in {"server", "control"} |-> IF p \in header THEN p ELSE "zero"]
Accepted == [remote EXCEPT !.timing = raop.timing, !.control = raop.control, !.setups = @ + 1]
SetupRequest ==
  /\ raop.call \in {"setup", "start"} /\ raop.step = "setup" /\ UNCHANGED setup
  /\ \E a \in {"ok", "refused", "lost"} :
       /\ Exchange("SETUP", FALSE, a, Accepted)
       /\ \/ a = "ok" /\ \E header \in SUBSET {"server", "control"} :
               Goes([raop EXCEPT !.session = "SetupComplete", !.ports = PortsOf(header)], "record")
          \/ Returns(raop)   \* refused, lost, or no Transport header

\* The status of RECORD is only logged.
RecordRequest ==
  /\ raop.call \in {"setup", "start"} /\ raop.step = "record" /\ UNCHANGED setup
  /\ \E a \in {"ok", "refused", "lost"} :
       /\ Exchange("RECORD", FALSE, a, [remote EXCEPT !.recording = TRUE])
       /\ IF a = "lost" \/ raop.call = "setup" THEN Returns(raop) ELSE Goes(raop, "stream")

\* Sockets are bound and the streamer starts; the old one, if any, is dropped
\* when the call succeeds.
Stream ==
  /\ InCall("start", "stream") /\ UNCHANGED remote
  /\ \/ Goes([raop EXCEPT !.streamer = "on", !.cipher = setup.rsa, !.session = "Playing"], "level")
     \/ Returns(raop)   \* bind or the streamer's start fails
StartLevel ==
  /\ InCall("start", "level")
  /\ \E a \in {"ok", "refused", "lost"} :
       /\ Exchange("SET_PARAMETER", FALSE, a, [remote EXCEPT !.volume = raop.volume])
       /\ Returns([raop EXCEPT !.playback = "Playing", !.told = a = "ok"])

-----------------------------------------------------------------------------
(* pause, resume, stop, set_volume, send_feedback.                         *)

RaopPause == raop.alive /\ Begins("pause", "flush")
RaopResume == raop.alive /\ Begins("resume", "record")
RaopStop == raop.alive /\ Begins("stop", "flush")
Feedback == raop.alive /\ Begins("feedback", "options")

Turn(r, from, to) == IF r.streamer = from THEN [r EXCEPT !.streamer = to] ELSE r
Flushed == [remote EXCEPT !.recording = FALSE]

\* The streamer is paused before the receiver is asked, and stays so if that fails.
PauseFlush ==
  /\ InCall("pause", "flush")
  /\ \E a \in {"ok", "refused", "lost"} :
       /\ Exchange("FLUSH", FALSE, a, Flushed)
       /\ Returns(IF a # "lost" /\ raop.session = "Playing"
                  THEN [Turn(raop, "on", "paused") EXCEPT !.session = "Paused",
                                                          !.playback = "Paused"]
                  ELSE Turn(raop, "on", "paused"))
ResumeRecord ==
  /\ InCall("resume", "record")
  /\ \E a \in {"ok", "refused", "lost"} :
       /\ Exchange("RECORD", FALSE, a, [remote EXCEPT !.recording = TRUE])
       /\ Returns(IF a # "lost" /\ raop.session \in {"SetupComplete", "Paused"}
                  THEN [Turn(raop, "paused", "on") EXCEPT !.session = "Playing",
                                                          !.playback = "Playing"]
                  ELSE Turn(raop, "paused", "on"))

\* The session itself is left as it was.
StopFlush ==
  /\ InCall("stop", "flush")
  /\ \E a \in {"ok", "refused", "lost"} :
       /\ Exchange("FLUSH", FALSE, a, Flushed)
       /\ Returns([raop EXCEPT !.streamer = IF @ = "none" THEN @ ELSE "stopped",
                               !.playback = "Stopped"])

Clamped(v) == Max({0, Min({FullVolume, v})})
RaopSetVolume ==
  /\ raop.alive /\ raop.call = "none" /\ raop.calls < MaxRaopCalls /\ UNCHANGED <<setup, remote>>
  /\ \E v \in {-1, FullVolume + 1} \cup 0..FullVolume :
       raop' = [raop EXCEPT !.call = "volume", !.step = "level", !.calls = @ + 1,
                            !.volume = Clamped(v)]
VolumeLevel ==
  /\ InCall("volume", "level")
  /\ \E a \in {"ok", "refused", "lost"} :
       /\ Exchange("SET_PARAMETER", FALSE, a, [remote EXCEPT !.volume = raop.volume])
       /\ Returns([raop EXCEPT !.told = a = "ok"])
FeedbackOptions ==
  /\ InCall("feedback", "options")
  /\ \E a \in {"ok", "unauthorized", "refused", "lost"} :
       Exchange("OPTIONS", FALSE, a, remote) /\ Returns(raop)

-----------------------------------------------------------------------------
(* disconnect.                                                             *)

RaopDisconnect ==
  /\ raop.alive /\ raop.call = "none" /\ ~raop.disconnected /\ UNCHANGED <<setup, remote>>
  /\ raop' = [raop EXCEPT !.disconnected = TRUE, !.streamer = "none", !.timing = 0,
                          !.control = 0, !.session = "TearingDown", !.call = "disconnect",
                          !.step = "teardown"]
\* A second call changes nothing and asks the receiver nothing.
RaopDisconnectAgain ==
  /\ raop.alive /\ raop.call = "none" /\ raop.disconnected /\ raop.calls < MaxRaopCalls
  /\ raop' = [raop EXCEPT !.calls = @ + 1] /\ UNCHANGED <<setup, remote>>
Teardown ==
  /\ InCall("disconnect", "teardown")
  /\ \E a \in {"ok", "refused", "lost"} :
       /\ Exchange("TEARDOWN", FALSE, a, [remote EXCEPT !.torn = @ + 1, !.recording = FALSE])
       /\ Returns([raop EXCEPT !.closed = TRUE, !.playback = "Stopped"])

-----------------------------------------------------------------------------
RaopInit ==
  /\ setup \in RaopSetups
  /\ raop = [call |-> "connect", step |-> "options", calls |-> 0, alive |-> FALSE,
             closed |-> FALSE, session |-> "Connected", streamer |-> "none",
             playback |-> "Stopped", timing |-> 0, control |-> 0, opened |-> 0,
             ports |-> PortsOf({}), cipher |-> FALSE, volume |-> FullVolume, told |-> TRUE,
             disconnected |-> FALSE, late |-> FALSE]
  /\ remote = [announced |-> FALSE, key |-> FALSE, timing |-> 0, control |-> 0, setups |-> 0,
               recording |-> FALSE, volume |-> FullVolume, torn |-> 0, faults |-> 0]

RaopNext ==
  \/ Options \/ OptionsAuthorized
  \/ RaopSetup \/ RaopStartStreaming \/ Announce \/ AnnounceAuthorized \/ SetupRequest \/ RecordRequest
  \/ Stream \/ StartLevel
  \/ RaopPause \/ PauseFlush \/ RaopResume \/ ResumeRecord \/ RaopStop \/ StopFlush
  \/ RaopSetVolume \/ VolumeLevel \/ Feedback \/ FeedbackOptions
  \/ RaopDisconnect \/ RaopDisconnectAgain \/ Teardown

RaopSpec == RaopInit /\ [][RaopNext]_raopVars

-----------------------------------------------------------------------------
RaopTypeOK ==
  /\ raop.session \in {"Connected", "Announced", "SetupComplete", "Playing", "Paused",
                       "TearingDown"}
  /\ raop.streamer \in {"none", "on", "paused", "stopped"}
  /\ raop.playback \in {"Stopped", "Playing", "Paused"} /\ raop.volume \in 0..FullVolume

\* What is played can be heard: the receiver accepted the codec and a SETUP, holds
\* the key exactly if the packets are encrypted, and was set up only once.
HeardByReceiver ==
  /\ remote.setups <= 1
  /\ raop.streamer # "none" => /\ remote.announced /\ remote.setups = 1
                               /\ raop.cipher = remote.key

\* The ports the receiver was told are the ones we listen on, until a later call
\* opens new ones: after a stop the session cannot be set up again, and the
\* attempt closes the sockets of the old one.
PortsAnswer ==
  raop.opened = 1 /\ remote.setups = 1 /\ ~raop.disconnected =>
    remote.timing = raop.timing /\ remote.control = raop.control /\ raop.timing # 0

\* The caller's view and the session agree: Playing is only said of a session that
\* plays, Paused of a streamer that does not send unless a request failed.  (A
\* resume without a streamer says Playing too.)
PlaybackFollowsSession ==
  raop.call = "none" =>
    /\ raop.playback = "Playing" => raop.session = "Playing"
    /\ raop.playback = "Paused" /\ remote.faults = 0 => raop.streamer # "on"
    /\ raop.streamer = "on" => raop.session \in {"Playing", "Paused"}

\* The receiver plays at the caller's volume unless the caller was told otherwise.
VolumeArrives ==
  raop.call = "none" /\ raop.told /\ remote.faults = 0 => remote.volume = raop.volume

\* A disconnect leaves nothing behind and says goodbye once; only a setup after
\* it opens sockets again, which no further disconnect closes.
NothingLeft ==
  /\ remote.torn <= 1
  /\ raop.disconnected => /\ raop.streamer = "none"
                          /\ ~raop.late => raop.timing = 0 /\ raop.control = 0
                          /\ raop.call # "disconnect" => raop.closed

\* The receiver that is asked is the best of those announced.
BestIsChosen ==
  \A n \in 1..3 : \A addresses \in [1..n -> {"v4", "global", "local"}] :
    LET best == addresses[BestAddress(addresses)]
    IN /\ "v4" \in {addresses[i] : i \in 1..n} => best = "v4"
       /\ best = "local" => \A i \in 1..n : addresses[i] = "local"

\* A session with an AirPlay 1 receiver.
RaopSafe ==
  /\ RaopTypeOK /\ HeardByReceiver /\ PortsAnswer /\ PlaybackFollowsSession /\ VolumeArrives
  /\ NothingLeft /\ BestIsChosen
===============================================================================
