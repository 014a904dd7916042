------------------------- MODULE ReceiverConnection -------------------------
(***************************************************************************)
(* One connection to a receiver (airplay-client connection.rs) with its    *)
(* RTSP session and its request channel (airplay-rtsp session.rs and       *)
(* connection.rs).  A call of the connection is a plan, the sequence of    *)
(* its steps; a request step sends on the channel and reads the next       *)
(* answer, whichever request that answers.  The receiver answers in order, *)
(* late, with an error or never, and may close the connection; a caller    *)
(* may give up a call at any await.                                        *)
(***************************************************************************)
EXTENDS Naturals, Sequences, SequencesExt

CONSTANTS
  Timings,     \* the timing set-ups to explore
  MaxCalls,    \* bound: calls after the connection is up
  MaxFaults    \* bound: timeouts, given-up calls and transport errors

ASSUME ConnectionAssumption ==
  /\ Timings \subseteq {"ntp", "yield", "slave", "master", "member"}
  /\ {MaxCalls, MaxFaults} \subseteq Nat

VARIABLES
  conn,      \* the Connection and the call in progress, see New
  rtsp,      \* the channel: requests owed, answers unread, whether it is torn
  identity,  \* [file, trusted]: the identity file, and what the receiver keeps
  history    \* [faults, calls, teardowns, clear, late]: what happened so far

connectionVars == <<conn, rtsp, identity, history>>

-----------------------------------------------------------------------------
(* The steps of each call.                                                 *)

Pairing == {"setup_m1", "setup_m3", "setup_m5", "verify_m1", "verify_m3"}

\* How every connect ends: the cipher, a first encrypted request, the new value.
Sealed == <<"cipher", "options", "paired">>

\* connect_with_pin: transient pairing ends after M4.
PinPlan == <<"tcp", "info", "setup_m1", "setup_m3">> \o Sealed

\* connect_with_pair_verify, with the identity of the file.
VerifyPlan == <<"tcp", "info", "verify_m1", "verify_m3">> \o Sealed

\* connect_with_pin_pairing: M1 to M6, the identity is saved, then verified.
PinPairingPlan ==
  <<"tcp", "info", "setup_m1", "setup_m3", "setup_m5", "save", "verify_m1", "verify_m3">> \o Sealed

\* The phases every SETUP shares.
Phases == <<"setup1", "events", "control", "setup2", "record">>

\* setup_inner: the sender is the NTP reference.
NtpPlan == <<"timing_server">> \o Phases

\* setup_inner: the receiver wins the election, its first clock is awaited.
YieldPlan == Phases \o <<"clock_worker", "first_clock">>

\* setup_inner as a slave, setup_as_ptp_master: a clock that stays out is only
\* logged.
ClockPlan == Phases \o <<"clock_worker">>

\* setup_for_group_with_clock: the clock is the primary's.
MemberPlan == Phases

SetupPlan(t) ==
  CASE t = "ntp"    -> NtpPlan
    [] t = "yield"  -> YieldPlan
    [] t \in {"slave", "master"} -> ClockPlan
    [] t = "member" -> MemberPlan

\* start_streaming, after the set-up.
StreamPlan == <<"sender", "flush", "stream", "volume", "control_worker">>

\* pause, resume, stop, set_volume, send_feedback and probe.
PausePlan == <<"pause_streamer", "pause_flush", "pause_session">>
ResumePlan == <<"resume_streamer", "resume_record", "resume_session">>
StopPlan == <<"stop_streamer", "flush", "stopped">>

\* disconnect: stop, cancel, join, one TEARDOWN, close.
DisconnectPlan == <<"end_streamer", "stop_services", "cancel", "join", "teardown", "close">>

SetupKinds == {"setup1", "setup2"}
SessionKinds == SetupKinds \cup {"options", "record", "flush", "pause_flush", "resume_record", "teardown"}
RequestKinds == Pairing \cup SessionKinds \cup {"info", "volume", "set_volume", "feedback", "probe"}

\* Requests whose body is decoded, see Verdicts.
DecodedKinds == Pairing \cup SetupKinds

\* "continuing anyway": an error of these is only logged.
Tolerated == {"options", "record", "flush", "volume", "teardown"}

\* Silence is no error for these: the outer timeout is swallowed.
Forgiven == {"feedback", "probe"}

-----------------------------------------------------------------------------
\* SessionState.
SessionState ==
  {"Disconnected", "Connected", "Paired", "SetupPhase1", "Ready", "Playing", "Paused", "TearingDown"}

NoPorts == [first |-> 0, second |-> 0]

\* A connection that does not exist, and the empty rtsp.
New == [stage |-> "none", timing |-> "ntp", auto |-> FALSE, key |-> "none",
        plan |-> <<>>, waiting |-> 0,
        cseq |-> 0, sock |-> FALSE, cipher |-> FALSE, state |-> "Disconnected",
        ports |-> NoPorts, playback |-> "Stopped", streamer |-> "none",
        held |-> {}, workers |-> {}, cancelled |-> FALSE, disconnected |-> FALSE]

Quiet == [owed |-> <<>>, answers |-> <<>>, torn |-> FALSE, closed |-> FALSE]

ConnectionInit ==
  /\ \E t \in Timings : conn = [New EXCEPT !.timing = t]
  /\ rtsp = Quiet
  /\ identity \in {[file |-> "none", trusted |-> {}], [file |-> "old", trusted |-> {"old"}]}
  /\ history = [faults |-> 0, calls |-> 0, teardowns |-> 0, clear |-> FALSE, late |-> FALSE]

Idle == conn.plan = <<>>
At(s) == ~Idle /\ Head(conn.plan) = s
Advance(c) == [c EXCEPT !.plan = Tail(@)]
Fault == history.faults < MaxFaults /\ history' = [history EXCEPT !.faults = @ + 1]

\* Dropping the value: the sockets close and the token is cancelled; nothing
\* is joined.
Dropped(c) ==
  [New EXCEPT !.stage = "gone", !.workers = c.workers, !.cancelled = TRUE]

\* An error: a connect fails as a whole, connect_auto falls back to the PIN on a
\* new socket, any other call returns it and leaves what it did.
Failed(c) ==
  CASE c.stage = "building" /\ c.auto ->
         [c EXCEPT !.plan = PinPlan, !.auto = FALSE, !.waiting = 0, !.cseq = 0, !.sock = FALSE,
                   !.cipher = FALSE, !.state = "Disconnected"]
    [] c.stage = "building" /\ ~c.auto -> Dropped(c)
    [] OTHER -> [c EXCEPT !.plan = <<>>, !.waiting = 0]

\* The channel lives as long as its socket.
Carry(w) == rtsp' = IF conn'.sock THEN w ELSE Quiet

-----------------------------------------------------------------------------
(* Calls.                                                                  *)

ConnectAuto ==
  /\ conn.stage = "none"
  /\ conn' = [conn EXCEPT !.stage = "building", !.auto = identity.file # "none",
                          !.key = identity.file,
                          !.plan = IF identity.file # "none" THEN VerifyPlan ELSE PinPlan]
  /\ UNCHANGED <<rtsp, identity, history>>

ConnectWithPinPairing ==
  /\ conn.stage = "none"
  /\ conn' = [conn EXCEPT !.stage = "building", !.key = "new", !.plan = PinPairingPlan]
  /\ UNCHANGED <<rtsp, identity, history>>

\* A call on a connection that is up; client.rs takes a connection it
\* disconnects out of its table first.
Call(plan) ==
  /\ conn.stage = "up" /\ Idle /\ ~conn.disconnected /\ history.calls < MaxCalls
  /\ conn' = [conn EXCEPT !.plan = plan]
  /\ history' = [history EXCEPT !.calls = @ + 1]
  /\ UNCHANGED <<rtsp, identity>>

Setup == Call(SetupPlan(conn.timing))

\* "Ensure setup is complete."
StartWith(plan) ==
  Call((IF conn.state # "Ready" THEN SetupPlan(conn.timing) ELSE <<>>) \o plan)

StartStreaming == StartWith(StreamPlan)

\* start_streaming_live_gated takes the same steps with a live source.
StartStreamingLive == StartWith(StreamPlan)

PauseConnection == Call(PausePlan)
ResumeConnection == Call(ResumePlan)
StopConnection == Call(StopPlan)
SetVolume == Call(<<"set_volume">>)
SendFeedback == Call(<<"feedback">>)
Probe == Call(<<"probe">>)

\* Faulty: an earlier disconnect is not remembered.
DisconnectAgain ==
  /\ conn.stage = "up" /\ Idle
  /\ conn' = [conn EXCEPT !.disconnected = TRUE, !.plan = DisconnectPlan]
  /\ UNCHANGED <<rtsp, identity, history>>

\* Idempotent: the first call sets the flag.
Disconnect ==
  /\ conn.stage = "up" /\ Idle
  /\ conn' = [conn EXCEPT !.disconnected = TRUE,
                          !.plan = IF conn.disconnected THEN <<>> ELSE DisconnectPlan]
  /\ UNCHANGED <<rtsp, identity, history>>

DropConnection ==
  /\ conn.stage = "up" /\ Idle /\ conn' = Dropped(conn) /\ Carry(rtsp)
  /\ UNCHANGED <<identity, history>>

\* The caller drops the future of a call at an await.
GiveUp ==
  /\ ~Idle /\ Fault
  /\ conn' = IF conn.stage = "building" THEN Dropped(conn)
             ELSE [conn EXCEPT !.plan = <<>>, !.waiting = 0]
  /\ Carry([rtsp EXCEPT !.torn = @ \/ (conn.waiting # 0 /\ rtsp.answers # <<>>)])
  /\ UNCHANGED identity

-----------------------------------------------------------------------------
(* The request rtsp.                                                    *)

Request(kind) == [cseq |-> conn.cseq + 1, kind |-> kind, ok |-> TRUE]

\* build_setup_phase2 refuses every state but one; no other body looks at it.
Buildable(c, kind) == kind = "setup2" => c.state = "SetupPhase1"

\* RtspConnection::send up to the flush; the session only enters TearingDown
\* with its TEARDOWN.
SendRequest ==
  /\ ~Idle /\ Head(conn.plan) \in RequestKinds /\ conn.waiting = 0
  /\ LET kind == Head(conn.plan)
         c    == [conn EXCEPT !.state = IF kind = "teardown" THEN "TearingDown" ELSE @]
     IN IF ~conn.sock \/ ~Buildable(conn, kind)
        THEN /\ conn' = IF kind \in Tolerated THEN Advance(c) ELSE Failed(c)
             /\ Carry(rtsp) /\ UNCHANGED history
        ELSE /\ conn' = [c EXCEPT !.cseq = @ + 1, !.waiting = conn.cseq + 1]
             /\ Carry([rtsp EXCEPT !.owed = Append(@, Request(kind))])
             /\ history' = [history EXCEPT
                  !.teardowns = IF kind = "teardown" THEN @ + 1 ELSE @,
                  !.late = @ \/ history.teardowns > 0,
                  !.clear = @ \/ (~conn.cipher /\ kind \notin Pairing \cup {"info"})]
  /\ UNCHANGED identity

\* Faulty: any body that arrives is taken for the answer.
VerdictsAny(kind, reply) == {IF reply.ok THEN "ok" ELSE "refused"}

\* What the caller may make of the answer it read.  A body that is decoded is
\* decoded whatever its status.  Every field of the answer to phase 1 may be
\* missing: any dictionary will do, whichever request it answers, and any other
\* body is an error.  Phase 2 and the pairing need what only their own answer has.
Verdicts(kind, reply) ==
  CASE kind \notin DecodedKinds -> {IF reply.ok THEN "ok" ELSE "refused"}
    [] kind \in DecodedKinds /\ reply.ok /\ reply.kind = kind -> {"ok"}
    [] kind = "setup1" /\ ~(reply.ok /\ reply.kind = kind) -> {"ok", "error"}
    [] kind \in DecodedKinds \ {"setup1"} /\ ~(reply.ok /\ reply.kind = kind) -> {"error"}

\* A non-200 status only fails a probe; a mismatched CSeq fails nothing.
Continues(kind, verdict) ==
  \/ verdict = "ok" \/ kind \in Tolerated
  \/ verdict = "refused" /\ kind # "probe"
  \/ verdict = "silence" /\ kind \in Forgiven

\* process_setup_phase1_response and process_setup_phase2_response.  Ports bear the
\* number of the answer that named them; a dictionary that answers no phase 1
\* names none.
FirstPorts(reply) == IF reply.kind = "setup1" THEN reply.cseq ELSE 0
SetupPhase1(c, reply) ==
  IF c.state = "Paired"
  THEN Advance([c EXCEPT !.state = "SetupPhase1", !.ports.first = FirstPorts(reply)])
  ELSE Failed(c)
SetupPhase2(c, reply) ==
  IF c.state = "SetupPhase1"
  THEN Advance([c EXCEPT !.state = "Ready", !.ports.second = reply.cseq]) ELSE Failed(c)
Processed(c, kind, reply) ==
  CASE kind = "setup1" -> SetupPhase1(c, reply)
    [] kind = "setup2" -> SetupPhase2(c, reply)
    [] OTHER -> Advance(c)

\* The next answer on the channel is read.
ReadAnswer ==
  /\ conn.waiting # 0 /\ rtsp.answers # <<>> /\ ~rtsp.torn
  /\ LET kind == Head(conn.plan)
         reply == Head(rtsp.answers)
         c == [conn EXCEPT !.waiting = 0]
     IN \E verdict \in Verdicts(kind, reply) :
          conn' = IF ~Continues(kind, verdict) THEN Failed(c)
                  ELSE IF verdict = "ok" THEN Processed(c, kind, reply)
                  ELSE Advance(c)
  /\ Carry([rtsp EXCEPT !.answers = Tail(@)])
  /\ UNCHANGED <<identity, history>>

\* The budget of the request runs out; a read that had begun is lost half way,
\* and the frames after it can no longer be opened.  The budget of a TEARDOWN
\* always runs out, within or beyond the bound on faults.
AnswerTimesOut ==
  /\ conn.waiting # 0
  /\ Fault \/ (Head(conn.plan) = "teardown" /\ UNCHANGED history)
  /\ LET kind == Head(conn.plan)
         c == [conn EXCEPT !.waiting = 0]
     IN conn' = IF Continues(kind, "silence") THEN Advance(c) ELSE Failed(c)
  /\ Carry([rtsp EXCEPT !.torn = @ \/ rtsp.answers # <<>>])
  /\ UNCHANGED identity

\* The connection was closed, or a frame cannot be opened.
ReadFails ==
  /\ conn.waiting # 0 /\ (rtsp.torn \/ (rtsp.closed /\ rtsp.answers = <<>>))
  /\ LET kind == Head(conn.plan)
         c == [conn EXCEPT !.waiting = 0]
     IN conn' = IF kind \in Tolerated THEN Advance(c) ELSE Failed(c)
  /\ Carry(rtsp)
  /\ UNCHANGED <<identity, history>>

-----------------------------------------------------------------------------
(* The receiver.                                                           *)

\* It keeps a new identity when it answers M5, and only verifies what it keeps.
\* The status of a request that decodes nothing is looked at by probe only.
ReceiverAnswers ==
  /\ rtsp.owed # <<>> /\ ~rtsp.closed
  /\ \E ok \in BOOLEAN :
       LET request == Head(rtsp.owed)
       IN /\ ok \/ request.kind \in DecodedKinds \cup {"probe"}
          /\ ok /\ request.kind = "verify_m3" => conn.key \in identity.trusted
          /\ rtsp' = [rtsp EXCEPT !.owed = Tail(@),
                        !.answers = Append(@, [request EXCEPT !.ok = ok])]
          /\ identity' = [identity EXCEPT !.trusted =
                            IF ok /\ request.kind = "setup_m5" THEN @ \cup {"new"} ELSE @]
  /\ UNCHANGED <<conn, history>>

ReceiverCloses ==
  /\ conn.sock /\ ~rtsp.closed /\ Fault /\ rtsp' = [rtsp EXCEPT !.closed = TRUE]
  /\ UNCHANGED <<conn, identity>>

-----------------------------------------------------------------------------
(* The other steps of a call.                                              *)

\* A step that cannot fail, or that fails the call.
Local(s, after) ==
  /\ At(s) /\ conn' = Advance(after) /\ Carry(rtsp) /\ UNCHANGED <<identity, history>>
LocalFails(s) ==
  /\ At(s) /\ Fault /\ conn' = Failed(conn) /\ Carry(rtsp) /\ UNCHANGED identity

TcpConnects ==
  \/ Local("tcp", [conn EXCEPT !.sock = TRUE, !.state = "Connected"])
  \/ LocalFails("tcp")

SetCipher == Local("cipher", [conn EXCEPT !.cipher = TRUE])

SetPaired ==
  Local("paired", [conn EXCEPT !.state = "Paired", !.stage = "up", !.auto = FALSE, !.key = "none"])

\* save_for_device; a failed write is only logged.
SaveIdentity ==
  /\ At("save") /\ conn' = Advance(conn)
  /\ identity' \in {identity, [identity EXCEPT !.file = conn.key]}
  /\ UNCHANGED <<rtsp, history>>

StartTimingServer ==
  \/ Local("timing_server", [conn EXCEPT !.held = @ \cup {"timing"}])
  \/ LocalFails("timing_server")

\* "proceeding anyway": the events connection may fail.
ConnectEvents ==
  \E some \in {{}, {"events"}} : Local("events", [conn EXCEPT !.held = @ \cup some])

BindControl ==
  \/ Local("control", [conn EXCEPT !.held = @ \cup {"control"}])
  \/ LocalFails("control")

\* The timing worker of a PTP set-up; only the yield flow waits for a clock.
StartClock == Local("clock_worker", [conn EXCEPT !.workers = @ \cup {"clock"}])
FirstClock == Local("first_clock", conn) \/ LocalFails("first_clock")

\* build_rtp_sender needs the ports of both phases.
BuildSender ==
  \/ conn.ports # NoPorts /\ Local("sender", conn)
  \/ LocalFails("sender")

\* streamer.start, then session.start_playing.
StartStreamer ==
  \/ /\ conn.state \in {"Ready", "Paused"}
     /\ Local("stream", [conn EXCEPT !.state = "Playing", !.streamer = "starting"])
  \/ LocalFails("stream")

\* The control thread, if a control socket is bound; the streamer is stored.
StartControl ==
  Local("control_worker",
        [conn EXCEPT !.workers = IF "control" \in conn.held THEN @ \cup {"control"} ELSE @,
                     !.streamer = "playing", !.playback = "Playing"])

PauseStreamer ==
  Local("pause_streamer", [conn EXCEPT !.streamer = IF @ = "none" THEN @ ELSE "paused"])
ResumeStreamer ==
  Local("resume_streamer", [conn EXCEPT !.streamer = IF @ = "none" THEN @ ELSE "playing"])
StopStreamer ==
  Local("stop_streamer", [conn EXCEPT !.streamer = IF @ = "none" THEN @ ELSE "stopped"])

\* RtspSession::pause and start_playing refuse the wrong state.
PauseSession ==
  /\ At("pause_session")
  /\ conn' = IF conn.state = "Playing"
             THEN Advance([conn EXCEPT !.state = "Paused", !.playback = "Paused"])
             ELSE Failed(conn)
  /\ UNCHANGED <<rtsp, identity, history>>

ResumeSession ==
  /\ At("resume_session")
  /\ conn' = IF conn.state \in {"Ready", "Paused"}
             THEN Advance([conn EXCEPT !.state = "Playing", !.playback = "Playing"])
             ELSE Failed(conn)
  /\ UNCHANGED <<rtsp, identity, history>>

StopConnectionEnds == Local("stopped", [conn EXCEPT !.playback = "Stopped"])

EndStreamer == Local("end_streamer", [conn EXCEPT !.streamer = "none"])
StopServices == Local("stop_services", [conn EXCEPT !.held = @ \ {"timing"}])
Cancel == Local("cancel", [conn EXCEPT !.cancelled = TRUE])

\* cancel_and_join: every worker ends, or the budget does.
JoinWorkers == Local("join", conn)

Close ==
  Local("close", [conn EXCEPT !.held = {}, !.sock = FALSE, !.playback = "Stopped"])

\* A worker ends by itself, or once it sees the token.
WorkerEnds ==
  /\ \E w \in conn.workers :
       /\ w = "clock" \/ conn.cancelled
       /\ conn' = [conn EXCEPT !.workers = @ \ {w}]
  /\ UNCHANGED <<rtsp, identity, history>>

-----------------------------------------------------------------------------
Calls ==
  \/ ConnectAuto \/ ConnectWithPinPairing \/ Setup \/ StartStreaming \/ StartStreamingLive
  \/ PauseConnection \/ ResumeConnection \/ StopConnection \/ SetVolume \/ SendFeedback \/ Probe
  \/ Disconnect \/ DropConnection \/ GiveUp

Steps ==
  \/ SendRequest \/ ReadAnswer \/ AnswerTimesOut \/ ReadFails
  \/ TcpConnects \/ SetCipher \/ SetPaired \/ SaveIdentity \/ StartTimingServer
  \/ ConnectEvents \/ BindControl \/ StartClock \/ FirstClock \/ BuildSender
  \/ StartStreamer \/ StartControl \/ PauseStreamer \/ ResumeStreamer \/ StopStreamer
  \/ PauseSession \/ ResumeSession \/ StopConnectionEnds \/ EndStreamer \/ StopServices \/ Cancel
  \/ JoinWorkers \/ Close

ConnectionNext == Calls \/ Steps \/ WorkerEnds \/ ReceiverAnswers \/ ReceiverCloses

ConnectionSpec == ConnectionInit /\ [][ConnectionNext]_connectionVars

-----------------------------------------------------------------------------
\* The Connection with its session.
Connection ==
  /\ conn.stage \in {"none", "building", "up", "gone"} /\ conn.state \in SessionState
  /\ conn.playback \in {"Stopped", "Playing", "Paused"}
  /\ conn.streamer \in {"none", "starting", "playing", "paused", "stopped"}
  /\ conn.held \subseteq {"timing", "events", "control"}

\* The channel: a request is awaited only inside a request step, and answers
\* bear numbers that were sent.
RtspConnection ==
  /\ conn.waiting # 0 => ~Idle /\ Head(conn.plan) \in RequestKinds
  /\ \A i \in DOMAIN rtsp.answers : rtsp.answers[i].cseq \in 1 .. conn.cseq

\* The ledger of workers: at most a clock and a control worker, none spawned
\* for a connection that never came up.
WorkerLedger == conn.workers \subseteq {"clock", "control"} /\ (conn.stage = "building" => conn.workers = {})

\* The identity file holds a whole identity or none.
PersistentIdentity == identity.file \in {"none", "old", "new"} /\ identity.trusted \subseteq {"old", "new"}

ConnectionTypeOK == Connection /\ RtspConnection /\ WorkerLedger /\ PersistentIdentity

\* "Send TEARDOWN exactly once per session lifecycle": at most one goes out and
\* no request follows it, also when a disconnect was given up half way.
OneTeardown == history.teardowns <= 1 /\ ~history.late

\* Only the information request and the pairing travel in the clear.
SessionIsSealed == ~history.clear

\* Answers carry no caller's name, and phase 1 takes any dictionary for its
\* answer, a refusal's too: still a session is Ready only on the answers to its own
\* two set-up requests, for one that came late leaves phase 2 to read that of
\* phase 1.
SetupIsMatched ==
  conn.state \in {"Ready", "Playing", "Paused"} => conn.ports.second = conn.ports.first + 1

\* Only a fault puts an answer out of step with its request.
LagHasACause ==
  ~rtsp.closed /\ ~rtsp.torn =>
    Len(rtsp.owed) + Len(rtsp.answers)
      <= history.faults + (IF conn.waiting = 0 /\ history.teardowns = 0 THEN 0 ELSE 1)

\* What playback_state says the session can do is what its state allows.
PlaybackFitsSession ==
  conn.playback # "Stopped" /\ ~conn.disconnected => conn.state = conn.playback

\* An identity is on disk only if the receiver was asked to keep it and did.
IdentityIsKnown == identity.file = "new" => "new" \in identity.trusted

\* "Then close sockets, even when teardown fails": a connection that was closed
\* holds nothing, and its workers were told to end.
ClosedIsReleased ==
  conn.stage = "up" /\ ~conn.sock =>
    conn.held = {} /\ conn.streamer = "none" /\ conn.cancelled

\* One connection, from its first request to its TEARDOWN.
ConnectionSafe ==
  /\ ConnectionTypeOK /\ OneTeardown /\ SessionIsSealed /\ SetupIsMatched /\ LagHasACause
  /\ PlaybackFitsSession /\ IdentityIsKnown /\ ClosedIsReleased

\* The steps of a call are polled, a request ends within its budget, and a
\* worker sees the token.
ConnectionFairness ==
  /\ WF_connectionVars(Steps)
  /\ WF_connectionVars(WorkerEnds)

\* "Idempotent and bounded": a disconnect ends and every worker with it:
\* conn.disconnected ~> DisconnectOver.
DisconnectOver == Idle /\ (conn.cancelled => conn.workers = {})
=============================================================================
