---------------------------- MODULE ShellSession -----------------------------
(***************************************************************************)
(* Start and Stop between the window and the backend: the reducer          *)
(* (apps/openaircast/src/app/reducer.rs), the effect executor, the command *)
(* port with its generation echo and the bridge thread that turns backend  *)
(* snapshots into shell events (apps/openaircast/src/backend_bridge).      *)
(*                                                                         *)
(* Three threads interleave: the actor that reduces one event and then     *)
(* executes its effects, the bridge, and the backend.  A send and the      *)
(* recording of its generation are two steps of the actor, a projection    *)
(* and the poll of the receipts two steps of the bridge.                   *)
(*                                                                         *)
(* The backend is what Backend.tla shows of it: attempts with growing      *)
(* generations whose edges arrive in order, for the newest attempt or for  *)
(* one already superseded.  Which receivers are selected, and the rest of  *)
(* the state the window shows, is the version of one reading.              *)
(***************************************************************************)
EXTENDS Naturals, Sequences

CONSTANTS Menus,       \* sets of presses; a behaviour draws on one of them
          EventRoom,   \* EVENT_CHANNEL_CAPACITY
          MaxPresses,  \* bound: session generations the user may raise
          MaxAttempts, \* bound: generations of the backend
          MaxTrouble   \* bound: refused commands, changed readings and lost backend

ASSUME ShellAssumption ==
  /\ EventRoom \in Nat \ {0}
  /\ MaxPresses \in Nat /\ MaxAttempts \in Nat /\ MaxTrouble \in Nat

VARIABLES
  shell,       \* AppState of the reducer, with the effects still to execute
  in_call,     \* the command sent but not yet recorded in the echo
  events,      \* the shell's event queue
  edge,        \* GenerationEcho.session
  group_slot,  \* GenerationEcho.group
  tone_slot,   \* GenerationEcho.listening_pending
  target,      \* GenerationEcho.listening_target, 0 for None
  wake,        \* the stored permit of GenerationEcho.wake
  projected,   \* Projection.session and Projection.audio
  pass,        \* the snapshot between projection and receipts
  outbox,      \* events the shell has not accepted yet
  commands,    \* the backend's command queue
  run_intent,  \* snapshot.run_intent
  attempt,     \* session_generation of the controller
  asked,       \* what the newest attempt is to do: run, stop, or nothing to do
  working,     \* the attempt the supervisor reports about
  snapshot,    \* session phase, reading and receipts the backend published
  dirty,       \* a snapshot the bridge has not seen
  gone,        \* the backend thread has ended
  menu,        \* what this user does
  refused,     \* commands that met a full queue
  spoiled      \* history: something changed under the hearing test

actorVars == <<shell, in_call>>
echoVars == <<edge, group_slot, tone_slot, target, wake>>
relayVars == <<projected, pass, outbox>>
deviceVars == <<run_intent, attempt, asked, working, snapshot, dirty, gone>>
shellVars == <<shell, in_call, events, edge, group_slot, tone_slot, target, wake,
               projected, pass, outbox, commands, run_intent, attempt, asked,
               working, snapshot, dirty, gone, menu, refused, spoiled>>

None == "none"
Absent == [absent |-> TRUE]   \* no record
State(kind, gen) == [kind |-> kind, gen |-> gen]
Stream(kind, gen) == State(kind, gen)

\* Nothing else bounds how often the world interferes.
Spared == refused + snapshot.reading + (IF gone THEN 1 ELSE 0) < MaxTrouble

-----------------------------------------------------------------------------
(* The reducer.  Each operator takes a state to a state; effects collect   *)
(* in its field fx.                                                        *)

IsRunning(s) == s.stream.kind \in {"Starting", "Streaming", "Degraded", "Restarting"}

\* next_generation with the state and the effect that carry it.
Raise(s, kind, op) ==
  [s EXCEPT !.gen = @ + 1,
            !.stream = Stream(kind, s.gen + 1),
            !.fx = Append(@, [op |-> op, gen |-> s.gen + 1, request |-> 0])]

StartRequested(s) ==
  IF s.quitting \/ s.stream.kind # "Stopped" THEN s ELSE Raise(s, "Starting", "start")

StopRequested(s) == IF IsRunning(s) THEN Raise(s, "Stopping", "stop") ELSE s

GlobalHotkeyPressed(s) ==
  IF s.quitting THEN s
  ELSE IF s.stream.kind \in {"Starting", "Streaming"} THEN StopRequested(s)
  ELSE StartRequested(s)

Pending(s) == s.operation = "Pending"

\* group_requested: one operation at a time, and a start takes a generation.
GroupRequested(s, start) ==
  IF s.quitting \/ Pending(s) THEN s
  ELSE LET posted == [s EXCEPT !.request = @ + 1,
                      !.operation = IF s.closed THEN "Failed" ELSE "Pending"]
           starts == start /\ s.stream.kind \in {"Stopped", "Stopping"}
       IN  IF s.closed THEN posted
           ELSE [posted EXCEPT
                   !.gen = IF starts THEN @ + 1 ELSE @,
                   !.stream = IF starts THEN Stream("Starting", s.gen + 1) ELSE @,
                   !.fx = Append(@, [op |-> IF start THEN "group" ELSE "save",
                                     gen |-> IF starts THEN s.gen + 1 ELSE 0,
                                     request |-> s.request + 1])]

QuitRequested(s) == IF s.quitting THEN s
                    ELSE [StopRequested(s) EXCEPT !.quitting = TRUE]

\* session_started, session_degraded, session_restarting, session_stopped and
\* session_failed: only the newest press is answered.
SessionEvent(s, e) ==
  IF e.gen # s.gen THEN s
  ELSE [s EXCEPT !.stream = IF e.type \in {"Stopped", "Failed"}
                            THEN Stream("Stopped", 0) ELSE Stream(e.type, e.gen)]

ChannelClosed(s) ==
  [s EXCEPT !.closed = TRUE,
            !.operation = IF @ = "Pending" THEN "Failed" ELSE @]

GroupOperationFinished(s, e) ==
  IF e.request = s.request /\ Pending(s) THEN [s EXCEPT !.operation = e.status] ELSE s

-----------------------------------------------------------------------------
(* The guided hearing test (app/hardware_check.rs).                        *)

\* prerequisite_blocker, of which a settled selection and a live controller
\* are the moving parts.
Ready(s) == ~s.quitting /\ ~s.closed /\ ~Pending(s)

\* HardwareCheck::matches.
Matches(s) == Ready(s) /\ s.check.bound = s.reading

Check(s, phase, outcome) ==
  [s EXCEPT !.check.phase = phase, !.check.outcome = outcome, !.check.gen = s.gen]

CheckPrepare(s, value) ==
  IF s.quitting THEN s ELSE [s EXCEPT !.check.prepared = value]

CheckStart(s) ==
  IF ~Ready(s) \/ s.check.phase = "StopPending" \/ s.stream.kind # "Stopped"
       \/ ~s.check.prepared
  THEN s
  ELSE LET started == Check(StartRequested(s), "Connecting", None)
       IN  [started EXCEPT !.check.bound = s.reading]

CheckHeard(s, heard) ==
  IF s.quitting \/ s.check.phase # "Listening" \/ ~Matches(s)
       \/ s.check.gen # s.gen \/ s.stream.kind # "Streaming"
  THEN s
  ELSE Check(StopRequested(s), "StopPending", heard)

CheckCancel(s) ==
  IF s.quitting \/ s.check.phase \notin {"Connecting", "Listening"} THEN s
  ELSE Check(StopRequested(s), "StopPending", None)

\* A session that must not go on: a running one is stopped, any other is
\* stopped all the same.
ForceStop(s) ==
  IF IsRunning(s) THEN StopRequested(s)
  ELSE IF s.stream.kind = "Stopping" THEN s
  ELSE Raise(s, "Stopping", "stop")

Fault(s, e) == /\ e.type \in {"Failed", "Restarting", "Degraded"}
               /\ e.gen = s.check.gen /\ e.gen = s.gen

\* Faulty: what happens between the answer and the stop is not looked at.
ObserveStopOnly(s, e) ==
  IF s.check.phase = "StopPending" /\ e.type = "Stopped" /\ e.gen = s.check.gen
       /\ s.stream.kind = "Stopped"
  THEN [s EXCEPT !.check.phase = IF s.check.outcome = "yes" THEN "Heard"
                                 ELSE "Invalidated"]
  ELSE IF s.check.phase = "Connecting" /\ s.stream.kind = "Streaming"
  THEN [s EXCEPT !.check.phase = "Listening"]
  ELSE s

\* observe_hardware_check, after every event.
Observe(s, e) ==
  LET spoils == e.config \/ Fault(s, e) \/ ~Matches(s)
      phase == s.check.phase
  IN  IF phase \in {"Connecting", "Listening"}
      THEN IF \/ e.config \/ ~Matches(s) \/ s.check.gen # s.gen
              \/ s.stream.kind \notin {"Starting", "Streaming"}
           THEN Check(ForceStop(s), "StopPending", None)
           ELSE IF s.stream.kind = "Streaming"
           THEN [s EXCEPT !.check.phase = "Listening",
                          !.fx = IF phase = "Listening" THEN @
                                 ELSE Append(@, [op |-> "tone", gen |-> s.gen,
                                                 request |-> 0])]
           ELSE s
      ELSE IF phase = "StopPending"
      THEN LET judged == [s EXCEPT !.check.outcome = IF spoils THEN None ELSE @]
           IN  IF e.type = "Stopped" /\ e.gen = s.check.gen /\ s.stream.kind = "Stopped"
               THEN [judged EXCEPT
                       !.check.prepared = FALSE,
                       !.check.phase = CASE judged.check.outcome = "yes" -> "Heard"
                                         [] judged.check.outcome = "no" -> "NotHeard"
                                         [] OTHER -> "Invalidated"]
               ELSE judged
      ELSE IF phase \in {"Heard", "NotHeard"} /\ (spoils \/ s.stream.kind # "Stopped")
      THEN [s EXCEPT !.check.phase = "Invalidated"]
      ELSE s

-----------------------------------------------------------------------------
(* reduce and the actor's loop.                                            *)

Event(type, gen) == [type |-> type, gen |-> gen, request |-> 0, status |-> None,
                     config |-> FALSE]

SessionTypes == {"Streaming", "Degraded", "Restarting", "Stopped", "Failed"}

Handled(s, e) ==
  CASE e.type = "PressStart"  -> StartRequested(s)
    [] e.type = "PressStop"   -> StopRequested(s)
    [] e.type = "Hotkey"      -> GlobalHotkeyPressed(s)
    [] e.type = "GroupStart"  -> GroupRequested(s, TRUE)
    [] e.type = "GroupSave"   -> GroupRequested(s, FALSE)
    [] e.type = "Quit"        -> QuitRequested(s)
    [] e.type = "Prepare"     -> CheckPrepare(s, TRUE)
    [] e.type = "CheckStart"  -> CheckStart(s)
    [] e.type = "Heard"       -> CheckHeard(s, "yes")
    [] e.type = "NotHeard"    -> CheckHeard(s, "no")
    [] e.type = "Cancel"      -> CheckCancel(s)
    [] e.type \in SessionTypes -> SessionEvent(s, e)
    [] e.type = "Closed"      -> ChannelClosed(s)
    [] e.type = "GroupDone"   -> GroupOperationFinished(s, e)
    [] e.type = "Reading"     -> [s EXCEPT !.reading = e.status]
    [] OTHER -> s

\* A test that waits for its stop swallows every start.
Reduce(s, e) ==
  IF s.check.phase = "StopPending" /\ e.type \in {"PressStart", "Hotkey", "GroupStart"}
  THEN s ELSE Observe(Handled(s, e), e)

\* What the user may do: presses, the group page, the hearing test, and a
\* change of any audio setting (Configure).
Presses == {"PressStart", "PressStop", "Hotkey", "GroupStart", "GroupSave",
            "Quit", "Prepare", "CheckStart", "Heard", "NotHeard", "Cancel",
            "Configure"}
Touches == {"GroupStart", "GroupSave", "Configure"}

\* The actor takes the next event once the last one's effects are executed.
ActorIdle == shell.fx = <<>> /\ in_call = Absent

\* Whether an event disturbs a hearing test that is under way or reported.
Disturbs(e) ==
  /\ shell.check.phase \notin {"Preparation", "Invalidated"}
  /\ \/ e.config
     \/ e.type \in {"Degraded", "Restarting", "Failed"} /\ e.gen = shell.gen
     \/ e.type = "Reading" /\ e.status # shell.reading

UserEvent ==
  /\ ActorIdle /\ shell.gen + shell.request < MaxPresses
  /\ \E press \in menu :
       LET e == [Event(press, 0) EXCEPT !.config = press \in Touches]
       IN  /\ shell' = Reduce(shell, e)
           /\ shell' # shell \/ press = "Configure"
           /\ spoiled' = IF shell'.check.phase = "Connecting"
                              /\ shell.check.phase # "Connecting"
                         THEN FALSE ELSE spoiled \/ Disturbs(e)
  /\ UNCHANGED <<in_call, events, echoVars, relayVars, commands, deviceVars, menu, refused>>

TakeEvent ==
  /\ ActorIdle /\ events # <<>>
  /\ events' = Tail(events)
  /\ shell' = Reduce(shell, Head(events))
  /\ spoiled' = (spoiled \/ Disturbs(Head(events)))
  /\ UNCHANGED <<in_call, echoVars, relayVars, commands, deviceVars, menu, refused>>

-----------------------------------------------------------------------------
(* ServiceExecutor::execute and BackendPort::try_send.                     *)

\* The executor's own event; a full queue loses it.
Feedback(e) == events' = IF Len(events) < EventRoom THEN Append(events, e) ELSE events

\* The command goes to the backend, or is refused by a full queue, or finds
\* the backend gone.  A group or tone command is sent with its slot locked.
SendCommand ==
  /\ shell.fx # <<>> /\ in_call = Absent
  /\ LET fx == Head(shell.fx)
         playable == fx.op # "tone" \/ (target = fx.gen /\ edge.gen = fx.gen)
     IN  /\ shell' = [shell EXCEPT !.fx = Tail(@)]
         /\ IF fx.op = "tone" /\ tone_slot # Absent
            THEN /\ Feedback(Event("Failed", fx.gen))
                 /\ UNCHANGED <<in_call, commands, refused>>
            ELSE IF ~playable
            THEN /\ in_call' = [fx |-> fx, sent |-> "never"]
                 /\ UNCHANGED <<events, commands, refused>>
            ELSE IF gone
            THEN /\ in_call' = [fx |-> fx, sent |-> "Closed"]
                 /\ UNCHANGED <<events, commands, refused>>
            ELSE \/ /\ in_call' = [fx |-> fx, sent |-> "ok"]
                    /\ commands' = Append(commands, fx)
                    /\ UNCHANGED <<events, refused>>
                 \/ /\ Spared /\ refused' = refused + 1
                    /\ in_call' = [fx |-> fx, sent |-> "Busy"]
                    /\ UNCHANGED <<events, commands>>
  /\ UNCHANGED <<echoVars, relayVars, deviceVars, menu, spoiled>>

\* What the echo records of a start or a stop.
Recorded(kind, sent) == IF sent = "Busy" THEN "Rejected" ELSE kind

\* record_session, the group slot and the tone slot; the bridge is woken.
RecordCommand ==
  /\ in_call # Absent
  /\ in_call' = Absent /\ wake' = TRUE
  /\ LET fx == in_call.fx
         sent == in_call.sent
         kind == CASE fx.op = "start" -> Recorded("Start", sent)
                   [] fx.op = "stop" -> Recorded("Stop", sent)
                   [] OTHER -> IF sent = "ok" THEN "PendingGroup" ELSE "Rejected"
     IN  /\ edge' = IF fx.op # "tone" /\ fx.gen # 0
                    THEN [gen |-> fx.gen, kind |-> kind, floor |-> 0] ELSE edge
         /\ group_slot' = IF fx.op \in {"group", "save"}
                          THEN [request |-> fx.request, gen |-> fx.gen, sent |-> sent]
                          ELSE group_slot
         /\ tone_slot' = IF fx.op = "tone" THEN [gen |-> fx.gen, sent |-> sent]
                         ELSE tone_slot
         /\ IF sent = "Closed" /\ fx.op \in {"start", "stop"}
            THEN Feedback(Event("Closed", 0)) ELSE UNCHANGED events
  /\ UNCHANGED <<shell, target, relayVars, commands, deviceVars, menu, refused, spoiled>>

-----------------------------------------------------------------------------
(* The bridge thread.                                                      *)

\* flush, one event at a time: a full shell queue keeps the rest.
Flush ==
  /\ outbox # <<>> /\ Len(events) < EventRoom
  /\ events' = Append(events, Head(outbox))
  /\ outbox' = Tail(outbox)
  /\ UNCHANGED <<actorVars, echoVars, projected, pass, commands, deviceVars,
                 menu, refused, spoiled>>

\* session_echo: a phase under way says nothing.
SaysNothing(phase) == phase.kind \in {"Starting", "Stopping"}

\* Faulty: any phase answers any press.
AnsweredByAnything(kind, phase) == kind # "PendingGroup"

\* SessionEdge::answered_by: whether an unchanged phase settles a press.
AnsweredBy(kind, phase) ==
  \/ kind = "Rejected"
  \/ kind = "Start" /\ phase \in {"Streaming", "Degraded"}
  \/ kind = "Stop" /\ phase = "Stopped"

\* Projection::project, the session's part: whether the phase goes out under
\* the newest generation.
Publishes(phase) ==
  LET told == projected.session
      settled == told # Absent /\ told.gen = edge.gen
  IN  CASE edge.kind = "ConfirmedGroup" ->
             /\ IF phase.kind = "Stopped" THEN settled ELSE phase.gen >= edge.floor
             /\ told # [gen |-> edge.gen, phase |-> phase.kind]
        [] edge.kind = "PendingGroup" -> FALSE
        [] OTHER -> IF told = Absent
                    THEN edge.kind = "Untouched" \/ AnsweredBy(edge.kind, phase.kind)
                    ELSE IF ~settled THEN AnsweredBy(edge.kind, phase.kind)
                    ELSE told.phase # phase.kind

\* A pass over the newest snapshot, only when the last one was delivered.
Project ==
  /\ pass = Absent /\ outbox = <<>> /\ (wake \/ dirty)
  /\ wake' = FALSE /\ dirty' = FALSE
  /\ pass' = [snap |-> snapshot, closed |-> gone]
  /\ LET phase == snapshot.phase
         out == ~SaysNothing(phase) /\ Publishes(phase)
         read == snapshot.reading # projected.reading
     IN  /\ outbox' = (IF out THEN <<Event(phase.kind, edge.gen)>> ELSE <<>>)
                         \o (IF read THEN <<[Event("Reading", 0) EXCEPT
                                              !.status = snapshot.reading]>>
                             ELSE <<>>)
         /\ projected' = [projected EXCEPT
              !.reading = snapshot.reading,
              !.session = IF out THEN [gen |-> edge.gen, phase |-> phase.kind] ELSE @]
         /\ target' = IF out /\ phase.kind = "Streaming" THEN edge.gen
                      ELSE IF phase.kind # "Streaming" THEN 0 ELSE target
  /\ UNCHANGED <<actorVars, events, edge, group_slot, tone_slot, commands, run_intent,
                 attempt, asked, working, snapshot, gone, menu, refused, spoiled>>

\* group_events: a slot is settled by its own receipt, its refusal, or the end.
GroupAnswer ==
  LET r == pass.snap.group
  IN  IF group_slot = Absent THEN None
      ELSE IF group_slot.sent # "ok" THEN "Failed"
      ELSE IF r.request = group_slot.request THEN r.status
      ELSE IF pass.closed THEN "Failed" ELSE None

\* listening_events.
ToneAnswer ==
  IF tone_slot = Absent THEN None
  ELSE IF tone_slot.sent # "ok" \/ pass.closed THEN "Failed"
  ELSE IF pass.snap.tone.gen = tone_slot.gen THEN pass.snap.tone.status ELSE None

\* The receipts are read against the snapshot that was projected.
Answer ==
  /\ pass # Absent
  /\ pass' = Absent
  /\ LET group == GroupAnswer
         tone == ToneAnswer
         mine == group # None /\ group_slot.gen # 0 /\ group_slot.gen = edge.gen
     IN  /\ edge' = IF ~mine THEN edge
                    ELSE IF group = "Failed" THEN [edge EXCEPT !.kind = "Rejected"]
                    ELSE IF pass.snap.group.floor = 0 THEN [edge EXCEPT !.kind = "PendingGroup"]
                    ELSE [edge EXCEPT !.kind = "ConfirmedGroup",
                                      !.floor = pass.snap.group.floor]
         /\ wake' = (wake \/ mine)
         /\ group_slot' = IF group = None THEN group_slot ELSE Absent
         /\ tone_slot' = IF tone = None THEN tone_slot ELSE Absent
         /\ outbox' = outbox
              \o (IF group = None THEN <<>>
                  ELSE <<[Event("GroupDone", 0) EXCEPT !.request = group_slot.request,
                                                       !.status = group]>>)
              \o (IF tone = "Failed" THEN <<Event("Failed", tone_slot.gen)>> ELSE <<>>)
              \o (IF pass.closed /\ ~projected.closed THEN <<Event("Closed", 0)>>
                  ELSE <<>>)
         /\ projected' = [projected EXCEPT !.closed = pass.closed]
  /\ UNCHANGED <<actorVars, events, target, commands, deviceVars, menu, refused, spoiled>>

-----------------------------------------------------------------------------
(* The backend, as the bridge sees it.                                     *)

Publish(snap) == snapshot' = snap /\ dirty' = TRUE

Indices(ops) == {i \in 1..Len(commands) : commands[i].op \in ops}
Newest(set) == CHOOSE i \in set : \A j \in set : j <= i

\* A command that was queued may fail; without one there is nothing to fail.
Outcomes(set) == IF set = {} THEN {TRUE} ELSE BOOLEAN

\* request_reconcile: with nothing castable a running app asks for nothing.
Asks(intent, castable) == IF intent = "run" /\ ~castable THEN "empty" ELSE intent

\* process_batch over everything queued: run intent first, then a group whose
\* start a later Stop cancels; the receipts carry what came of them.
ProcessBatch ==
  /\ ~gone /\ commands # <<>>
  /\ commands' = <<>>
  /\ LET scalar == Indices({"start", "stop"})
         groups == Indices({"group", "save"})
         tones == Indices({"tone"})
         plain == IF scalar = {} THEN run_intent
                  ELSE IF commands[Newest(scalar)].op = "start" THEN "run" ELSE "stop"
         begins == \E i \in Indices({"group"}) : ~(\E j \in Indices({"stop"}) : j > i)
     IN \E saved, moved \in Outcomes(groups), played \in Outcomes(tones), castable \in BOOLEAN :
       LET starts == saved /\ begins
           intent == IF starts THEN "run" ELSE plain
           changed == intent # run_intent \/ (saved /\ groups # {} /\ moved)
           skipped == intent = "stop" /\ asked # "run"
           mints == changed /\ ~skipped
       IN  /\ (mints /\ intent = "run") \/ castable
           /\ run_intent' = intent
           /\ attempt' = IF mints THEN attempt + 1 ELSE attempt
           /\ asked' = IF ~mints THEN asked ELSE Asks(intent, castable)
           /\ attempt' <= MaxAttempts
           /\ Publish([snapshot EXCEPT
                !.group = IF groups = {} THEN @
                  ELSE [request |-> commands[Newest(groups)].request,
                        status |-> IF saved THEN "Succeeded" ELSE "Failed",
                        floor |-> IF starts THEN attempt' ELSE 0],
                !.tone = IF tones = {} THEN @
                  ELSE [gen |-> commands[Newest(tones)].gen,
                        status |-> IF played /\ snapshot.phase.kind = "Streaming"
                                   THEN "Played" ELSE "Failed"]])
  /\ UNCHANGED <<actorVars, events, echoVars, relayVars, working, gone, menu, refused, spoiled>>

\* The supervisor admits the newest attempt; until then it reports the old one.
AdmitAttempt ==
  /\ ~gone /\ working.gen < attempt
  /\ working' = [gen |-> attempt, asked |-> asked]
  /\ UNCHANGED <<actorVars, events, echoVars, relayVars, commands, run_intent, attempt,
                 asked, snapshot, dirty, gone, menu, refused, spoiled>>

\* The edges of an attempt, as apply_session_update publishes them.
Follows(phase) ==
  LET fresh == phase.kind = "Stopped" \/ phase.gen < working.gen
  IN  IF working.asked = "stop" THEN {"Stopped"} \ {phase.kind}
      ELSE IF working.asked = "empty" THEN {"Restarting"} \ (IF fresh THEN {} ELSE {phase.kind})
      ELSE IF fresh THEN {"Starting", "Restarting"}
      ELSE CASE phase.kind = "Starting" -> {"Streaming", "Degraded", "Restarting"}
             [] phase.kind = "Streaming" -> {"Degraded", "Restarting"}
             [] OTHER -> {}

\* derive_phase: a member that came up in a stopped app is a stopped session.
Derived(kind) ==
  IF kind = "Stopped" \/ (kind \in {"Streaming", "Degraded"} /\ run_intent = "stop")
  THEN State("Stopped", 0) ELSE State(kind, working.gen)

SessionEdgeArrives ==
  /\ ~gone /\ working.gen > 0
  /\ \E kind \in Follows(snapshot.phase) :
       Publish([snapshot EXCEPT !.phase = Derived(kind)])
  /\ UNCHANGED <<actorVars, events, echoVars, relayVars, commands, run_intent, attempt,
                 asked, working, gone, menu, refused, spoiled>>

\* A rejoin or a platform edge rebuilds the group under a new generation.
Rebuild ==
  /\ ~gone /\ run_intent = "run" /\ working.gen = attempt /\ attempt < MaxAttempts
  /\ snapshot.phase.kind \in {"Degraded", "Restarting"}
  /\ attempt' = attempt + 1
  /\ \E castable \in BOOLEAN : asked' = Asks("run", castable)
  /\ UNCHANGED <<actorVars, events, echoVars, relayVars, commands, run_intent, working,
                 snapshot, dirty, gone, menu, refused, spoiled>>

\* A level, the capture source or the selection changes.
ReadingChanges ==
  /\ ~gone /\ Spared
  /\ Publish([snapshot EXCEPT !.reading = @ + 1])
  /\ UNCHANGED <<actorVars, events, echoVars, relayVars, commands, run_intent, attempt,
                 asked, working, gone, menu, refused, spoiled>>

BackendEnds ==
  /\ ~gone /\ Spared /\ gone' = TRUE /\ dirty' = TRUE /\ commands' = <<>>
  /\ UNCHANGED <<actorVars, events, echoVars, relayVars, run_intent, attempt, asked,
                 working, snapshot, menu, refused, spoiled>>

\* AppState::default, as far as the session and its operations read it.
NewAppState ==
  [stream |-> Stream("Stopped", 0), gen |-> 0, request |-> 0, operation |-> None,
   closed |-> FALSE, quitting |-> FALSE, reading |-> 0, fx |-> <<>>,
   check |-> [phase |-> "Preparation", prepared |-> FALSE, bound |-> 0, gen |-> 0,
              outcome |-> None]]

\* A session request and what its admission told, sampled together.
UntouchedEdge == [gen |-> 0, kind |-> "Untouched", floor |-> 0]

\* GenerationEcho::default.
EchoInit ==
  /\ edge = UntouchedEdge /\ group_slot = Absent /\ tone_slot = Absent
  /\ target = 0 /\ wake = FALSE

\* Projection::default: nothing has been told yet.
ProjectionInit == projected = [session |-> Absent, reading |-> 0, closed |-> FALSE]

\* The session of the snapshot, with the receipts of the newest commands.
SessionSnapshot ==
  [phase |-> State("Stopped", 0), reading |-> 0,
   group |-> [request |-> 0, status |-> None, floor |-> 0],
   tone |-> [gen |-> 0, status |-> None]]

ShellInit ==
  /\ menu \in Menus
  /\ shell = NewAppState
  /\ in_call = Absent /\ events = <<>>
  /\ EchoInit /\ ProjectionInit
  /\ pass = Absent /\ outbox = <<>> /\ commands = <<>>
  /\ run_intent = "stop" /\ attempt = 0 /\ asked = "stop"
  /\ working = [gen |-> 0, asked |-> "stop"]
  /\ snapshot = SessionSnapshot
  /\ dirty = TRUE /\ gone = FALSE /\ refused = 0 /\ spoiled = FALSE

ShellNext ==
  \/ UserEvent \/ TakeEvent \/ SendCommand \/ RecordCommand
  \/ Flush \/ Project \/ Answer
  \/ ProcessBatch \/ AdmitAttempt \/ SessionEdgeArrives \/ Rebuild
  \/ ReadingChanges \/ BackendEnds

-----------------------------------------------------------------------------
(* Properties.                                                             *)

\* The commands of the shell that carry a generation or a request.
DeviceCommand == [op : {"start", "stop", "group", "save", "tone"}, gen : Nat, request : Nat]

CommandsTyped ==
  /\ \A i \in DOMAIN shell.fx : shell.fx[i] \in DeviceCommand
  /\ in_call # Absent => in_call.fx \in DeviceCommand

\* Nothing is on its way between the window and the backend, and the
\* backend's newest attempt has said what became of it.
Quiet ==
  /\ ActorIdle /\ events = <<>> /\ outbox = <<>> /\ pass = Absent
  /\ ~wake /\ ~dirty /\ commands = <<>>
Settled ==
  /\ ~gone /\ working.gen = attempt
  /\ snapshot.phase.kind # "Starting"
  /\ (working.asked = "stop" => snapshot.phase.kind = "Stopped")
  /\ (working.asked # "stop" => snapshot.phase.kind # "Stopped" /\ snapshot.phase.gen = attempt)

\* Whatever was pressed, refused, superseded or answered late: once the dust
\* settles the window shows the backend's phase.  A rebuild answers no press,
\* so a window that waits for one may still say Starting or Stopping.
WindowTellsTruth ==
  Quiet /\ Settled =>
    \/ shell.stream.kind = snapshot.phase.kind
    \/ snapshot.phase.kind = "Restarting" /\ shell.stream.kind \in {"Starting", "Stopping"}

\* "the window would visibly snap back": nothing the backend said of an earlier
\* attempt answers a press with its opposite; only a refused or failed command
\* takes one back.
NoSnapBack ==
  [][\/ shell.stream.kind = "Stopping" /\ shell'.stream.kind \in {"Streaming", "Degraded"}
     \/ shell.stream.kind = "Starting" /\ shell'.stream.kind = "Stopped"
     => edge.kind = "Rejected" /\ edge.gen = shell.gen]_shellVars

\* A group operation is never left pending: refusal, failure, success and the
\* end of the backend all reach the page.
OperationsSettle == Quiet => ~Pending(shell)

\* "A result is terminal only after the matching stop acknowledgement": a
\* heard or unheard result stands for one session in which nothing moved.
HeardIsClean ==
  shell.check.phase \in {"Heard", "NotHeard"} =>
    /\ ~spoiled /\ shell.stream.kind = "Stopped" /\ shell.check.bound = shell.reading

\* What the window says of the session, of a group operation and of a hearing
\* test is true or about to be corrected (WindowTellsTruth, OperationsSettle,
\* HeardIsClean).
WindowHonest == CommandsTyped /\ WindowTellsTruth /\ OperationsSettle /\ HeardIsClean
==============================================================================
