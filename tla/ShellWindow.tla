----------------------------- MODULE ShellWindow -----------------------------
(***************************************************************************)
(* What the desktop window shows and what its controls do: the receiver    *)
(* rows, the staged selection, the volume, the audio page and the notices  *)
(* of the reducer (apps/openaircast/src/app), the way they are drawn       *)
(* (apps/openaircast/src/ui/presentation.rs) and the projection that feeds *)
(* them (apps/openaircast/src/backend_bridge).                             *)
(*                                                                         *)
(* The user, the bridge thread and the backend interleave.  A drag of the  *)
(* volume is volume_call and then recorded, a pass of the bridge projects one     *)
(* snapshot and then polls the receipts.  Which backend attempt answers a  *)
(* Start or a Stop is the subject of ShellSession.tla; here a raised       *)
(* session generation may be answered at any time and by any phase.        *)
(***************************************************************************)
EXTENDS Naturals, Sequences, FiniteSets

LOCAL INSTANCE SequencesExt

CONSTANTS Rows,       \* receivers, numbered in the order of their names
          Habits,     \* what a user does and what happens meanwhile, and how often
          Devices,    \* capture endpoints
          Gated,      \* latency profiles the backend refuses
          CommandRoom \* capacity of the command queue

ASSUME WindowAssumption ==
  /\ Rows \subseteq Nat /\ Devices \subseteq Nat \ {0}
  /\ CommandRoom \in Nat \ {0}
  /\ \A h \in Habits : h.most_acts \in Nat /\ h.most_news \in Nat

VARIABLES
  view,    \* AppState, with the effect of the last event
  box,     \* the backend: its newest snapshot and its command queue
  volume_call, \* a volume command sent but not yet recorded
  slots,   \* GenerationEcho
  projection, \* Projection: what the shell was last told
  table,   \* EndpointTable: the endpoint each key stands for
  poll,    \* the snapshot between projection and receipts
  mail,    \* events on their way to the shell
  habit,   \* what this user does
  spent,   \* acts and news so far
  past     \* history: a touched draft, a lost row, a click that went astray

windowVars == <<view, box, volume_call, slots, projection, table, poll, mail, habit, spent, past>>

Unset == 99    \* no value yet, and a volume that is not finite
Nothing == [op |-> "nothing"]

-----------------------------------------------------------------------------
(* The reducer: each operator takes a state to a state.                    *)

Running(s) == s.stream \in {"Starting", "Streaming", "Degraded", "Restarting"}

Resting(s) == s.stream \in {"Stopped", "Failed"}

Raised(s, op, extra) ==
  [s EXCEPT !.gen = @ + 1,
            !.effect = [op |-> op, gen |-> s.gen + 1, members |-> extra, volume |-> s.vol]]

\* available_selected_ids
Startable(s) == {r \in s.desired : s.rows[r] = "up"}

\* prune_irrelevant_unavailable
Pruned(s) ==
  [s EXCEPT !.rows = [r \in Rows |->
     IF @[r] = "down" /\ r \notin s.desired \cup s.staged THEN "none" ELSE @[r]]]

StartWith(s, members) ==
  [Raised(s, "start", members) EXCEPT !.stream = "Starting", !.active = {}]

StartPressed(s) ==
  IF s.quitting \/ ~Resting(s) \/ Startable(s) = {} THEN s
  ELSE StartWith(s, IF s.known THEN s.desired ELSE Startable(s))

StopPressed(s) ==
  IF Running(s)
  THEN [Raised(s, "stop", {}) EXCEPT !.stream = "Stopping", !.active = {}]
  ELSE s

ToggleStaged(s, r) ==
  Pruned([s EXCEPT !.staged = IF r \in @ THEN @ \ {r} ELSE @ \cup {r}])

Busy(s) == s.op.status = "Pending"

\* group_requested, with the selection to apply or a group to save.
GroupCommand(s, cmd, members) ==
  IF s.quitting \/ Busy(s) THEN s
  ELSE [s EXCEPT
          !.request = @ + 1,
          !.op = [status |-> IF s.closed THEN "Closed" ELSE "Pending", cmd |-> cmd],
          !.effect = IF s.closed THEN Nothing
                     ELSE [op |-> "group", cmd |-> cmd, request |-> s.request + 1,
                           members |-> members]]

\* Without a reported selection the draft is taken over on the spot.
ApplyStaged(s) ==
  IF s.known THEN GroupCommand(s, "selection", s.staged)
  ELSE LET t == Pruned([s EXCEPT !.rev = @ + 1, !.desired = s.staged, !.base = s.rev + 1])
       IN  IF ~Running(s) THEN t
           ELSE IF t.desired = {} THEN Raised(t, "stop", {})
           ELSE IF Startable(t) = {} THEN t
           ELSE Raised(t, "start", Startable(t))

NoOp == [status |-> "none", cmd |-> "none"]

DiscardStaged(s) ==
  IF Busy(s) THEN s
  ELSE Pruned([s EXCEPT !.op = IF @.cmd = "selection" THEN NoOp ELSE @,
                        !.staged = s.desired, !.base = s.rev])

Told(code, action) == [code |-> code, action |-> action]
NoNotice == Told("none", "none")

FirstAvailable(s) == {r \in Rows : s.rows[r] = "up" /\ \A q \in Rows : q < r => s.rows[q] # "up"}

\* global_hotkey_pressed: starts what is selected, or the first receiver.
Hotkey(s) ==
  LET first == IF s.desired = {} THEN FirstAvailable(s) ELSE {}
      t == IF first # {} /\ ~s.known
           THEN [s EXCEPT !.staged = @ \cup first, !.desired = first,
                          !.rev = @ + 1, !.base = s.rev + 1]
           ELSE s
  IN  IF s.quitting THEN s
      ELSE IF s.stream \in {"Starting", "Streaming"} THEN StopPressed(s)
      ELSE IF Startable(s) = {} /\ s.known /\ first # {} /\ Resting(s)
           THEN StartWith(s, first)
      ELSE IF Startable(t) = {}
           THEN [t EXCEPT !.notice = Told("NoReceiverAvailable", "Refresh")]
      ELSE StartPressed(t)

RefreshPressed(s) ==
  IF s.quitting THEN s
  ELSE [s EXCEPT !.discgen = @ + 1, !.disc = "Discovering",
                 !.effect = [op |-> "discover", gen |-> s.discgen + 1]]

Clamped(v) == IF v > 1 THEN 1 ELSE v

MasterVolumeChanged(s, v) ==
  IF v = Unset THEN [s EXCEPT !.notice = Told("InvalidInput", "none")]
  ELSE [s EXCEPT !.volgen = @ + 1, !.vol = Clamped(v), !.moving = TRUE,
                 !.confirmed = IF s.moving THEN @ ELSE s.vol,
                 !.effect = [op |-> "volume", gen |-> s.volgen + 1, volume |-> Clamped(v)]]

MuteChange(s, m) ==
  IF s.muted = m THEN s ELSE [s EXCEPT !.effect = [op |-> "mute", value |-> m]]

LatencyChoice(s, c) ==
  IF s.latency = "unknown" \/ c \in Gated \/ c = s.latency THEN s
  ELSE [s EXCEPT !.effect = [op |-> "latency", value |-> c]]

\* Key 0 is the system's default device.
AudioEndpointRequested(s, key) ==
  IF ~s.source.read \/ (key # 0 /\ \A e \in s.source.offered : e.key # key)
       \/ s.source.selection = [kind |-> IF key = 0 THEN "Default" ELSE "Chosen", key |-> key]
  THEN s
  ELSE [s EXCEPT !.effect = [op |-> "endpoint", key |-> key]]

ReceiverLevel(s, r) ==
  IF s.quitting \/ ~s.levels \/ s.rows[r] = "none" THEN s
  ELSE [s EXCEPT !.effect = [op |-> "level", value |-> r]]

QuitPressed(s) == IF s.quitting THEN s ELSE [StopPressed(s) EXCEPT !.quitting = TRUE]

VolumeApplied(s, e) ==
  LET current == e.gen = s.volgen
      known == IF e.gen = 0 \/ current THEN [s EXCEPT !.confirmed = e.vol] ELSE s
  IN  IF current \/ (e.gen = 0 /\ ~s.moving)
      THEN [known EXCEPT !.vol = e.vol, !.moving = IF e.gen = 0 THEN @ ELSE FALSE]
      ELSE known

\* merge_discovery: a missing row stays, marked, while a selection names it.
MergeDiscovery(s, e) ==
  IF e.gen # s.discgen THEN s
  ELSE [s EXCEPT
          !.disc = "Ready",
          !.rows = [r \in Rows |->
             IF e.rows[r] # "none" THEN e.rows[r]
             ELSE IF @[r] # "none" /\ r \in s.desired \cup s.staged THEN "down"
             ELSE "none"],
          !.notice = IF @.code = "DiscoveryFailed" THEN NoNotice ELSE @]

DiscoveryFailed(s, e) ==
  IF e.gen # s.discgen THEN s
  ELSE [s EXCEPT !.disc = "Failed", !.notice = Told("DiscoveryFailed", "Refresh")]

\* update_desired: a draft without changes follows the backend.
UpdateDesired(s, e) ==
  LET clean == s.staged = s.desired \/ s.staged = e.members
  IN  IF e.rev < s.rev \/ (s.known /\ e.rev = s.rev) THEN s
      ELSE Pruned([s EXCEPT !.known = TRUE, !.desired = e.members, !.rev = e.rev,
                            !.staged = IF clean THEN e.members ELSE @,
                            !.base = IF clean THEN e.rev ELSE @])

\* session_started, _degraded, _restarting, _stopped and _failed.
SessionChanged(s, e) ==
  LET live == e.phase \in {"Streaming", "Degraded"}
  IN  IF e.gen # s.gen THEN s
      ELSE [s EXCEPT
              !.stream = IF e.phase = "Failed" THEN "Stopped" ELSE e.phase,
              !.active = IF live THEN e.active ELSE {},
              !.notice = IF e.phase = "Failed" THEN Told("SessionFailed", "Retry")
                         ELSE IF live /\ @.code = "SessionFailed" THEN NoNotice ELSE @]

GroupFinished(s, e) ==
  IF Busy(s) /\ e.request = s.request THEN [s EXCEPT !.op.status = e.status] ELSE s

ControllerGone(s) ==
  [s EXCEPT !.closed = TRUE,
            !.vol = IF s.moving /\ s.confirmed # Unset THEN s.confirmed ELSE @,
            !.moving = FALSE,
            !.op.status = IF @ = "Pending" THEN "Closed" ELSE @,
            !.notice = Told("ControllerUnavailable", "none")]

\* The controller events of reduce.
Heed(s, e) ==
  CASE e.type = "Volume" -> VolumeApplied(s, e)
    [] e.type = "Desired" -> UpdateDesired(s, e)
    [] e.type = "Inventory" -> MergeDiscovery(s, e)
    [] e.type = "NoInventory" -> DiscoveryFailed(s, e)
    [] e.type = "Session" -> SessionChanged(s, e)
    [] e.type = "Group" -> GroupFinished(s, e)
    [] e.type = "Mute" -> [s EXCEPT !.muted = e.value]
    [] e.type = "Levels" -> [s EXCEPT !.levels = TRUE]
    [] e.type = "Latency" -> [s EXCEPT !.latency = e.value]
    [] e.type = "Audio" -> [s EXCEPT !.source = e.reading]
    [] e.type = "Closed" -> ControllerGone(s)

-----------------------------------------------------------------------------
(* What is drawn.                                                          *)

CanStart(s) == Resting(s) /\ Startable(s) # {}
Dirty(s) == s.staged # s.desired

\* lifecycle_action: the command the phase offers.
LifecycleAction(s) ==
  CASE s.stream = "Stopped" -> IF CanStart(s) THEN "Start" ELSE "DisabledStart"
    [] s.stream = "Starting" -> "Cancel"
    [] s.stream \in {"Streaming", "Degraded", "Restarting"} -> "Stop"
    [] s.stream = "Stopping" -> "DisabledStopping"
    [] OTHER -> IF CanStart(s) THEN "Retry" ELSE "DisabledRetry"

IsEnabled(a) == a \in {"Start", "Cancel", "Stop", "StopTrying", "Retry"}
IsSafety(a) == a \in {"Cancel", "Stop", "StopTrying"}

\* primary_action: Home draws every command, Groups those that end a session.
PrimaryAction(s) ==
  LET a == LifecycleAction(s)
  IN  IF s.page = "Home" \/ (s.page = "Groups" /\ (IsSafety(a) \/ a = "DisabledStopping"))
      THEN a ELSE "None"

\* lifecycle_event, reduced.
PressHeader(s) ==
  LET a == PrimaryAction(s)
  IN  IF a \in {"Start", "Retry"} THEN StartPressed(s)
      ELSE IF IsSafety(a) THEN StopPressed(s) ELSE s

ApplyIsSafe(s) == Resting(s)

\* filled_action_owner: who may be the one filled button.
FilledOwner(s, draft) ==
  LET a == PrimaryAction(s)
      mine == IF IsEnabled(a) THEN "Lifecycle" ELSE "None"
  IN  IF IsSafety(a) \/ ~ApplyIsSafe(s) THEN mine
      ELSE IF draft THEN "Apply" ELSE mine

\* change_bar_model: the bar offers the draft, or says how applying it went.
ChangeBar(s) ==
  LET told_of == s.op.cmd = "selection" /\ s.op.status # "Succeeded"
      busy == Busy(s)
  IN  [shown |-> Dirty(s) \/ told_of,
       filled |-> FilledOwner(s, TRUE) = "Apply",
       apply |-> Dirty(s) /\ ~busy /\ ~(told_of /\ s.op.status = "Closed"),
       discard |-> ~busy /\ (Dirty(s) \/ told_of)]

\* The notice is drawn on Home; notice_action_repeats_the_command: a Retry
\* beside the header's Retry is not.
NoticeAction(s) ==
  IF s.page # "Home" \/ (s.notice.action = "Retry"
                           /\ LifecycleAction(s) \in {"Retry", "DisabledRetry"})
  THEN "none" ELSE s.notice.action

PressNotice(s) ==
  IF NoticeAction(s) = "Refresh" THEN RefreshPressed(s)
  ELSE IF NoticeAction(s) = "Retry" THEN StartPressed(s) ELSE s

\* from_stream and route_phase
RoutePhase(s) ==
  CASE s.stream = "Stopped" -> "Neutral"
    [] s.stream \in {"Streaming", "Degraded"} -> "Live"
    [] s.stream = "Failed" -> "Failed"
    [] OTHER -> "Pending"

\* route_ribbon_model: the applied selection, three nodes and a count when long.
RibbonNode(s, r) ==
  IF RoutePhase(s) = "Live" /\ r \in s.active THEN "Active"
  ELSE IF s.rows[r] = "down" THEN "Unavailable" ELSE "Selected"

Ribbon(s) ==
  LET all == {r \in s.desired : s.rows[r] # "none"}
      place(r) == Cardinality({q \in all : q <= r})
      seen == IF Cardinality(all) > 4 THEN {r \in all : place(r) <= 3} ELSE all
  IN  [nodes |-> [r \in seen |-> RibbonNode(s, r)],
       more |-> Cardinality(all) - Cardinality(seen), total |-> Cardinality(all)]

\* ReceiverVisualState::of, for a card of receiver_card_models.
CardState(s, r) ==
  IF r \in s.active THEN (IF r \in s.staged THEN "SelectedAndStreaming" ELSE "Streaming")
  ELSE IF r \in s.staged THEN "Selected"
  ELSE IF s.rows[r] = "up" THEN "Available" ELSE "Unavailable"

\* CaptureGroupModel::new: rows to choose from, or one line when none differs.
CaptureRows(s) ==
  LET keys == {0} \cup {e.key : e \in s.source.offered}
      chosen == {k \in keys : s.source.selection
                   = [kind |-> IF k = 0 THEN "Default" ELSE "Chosen", key |-> k]}
  IN  IF s.source.read /\ keys # chosen THEN keys \ chosen ELSE {}

LatencyRows(s) ==
  IF s.latency = "unknown" THEN {} ELSE {"Low", "Normal", "Stable"} \ (Gated \cup {s.latency})

LevelRows(s) == IF s.levels THEN {r \in Rows : s.rows[r] # "none"} ELSE {}

-----------------------------------------------------------------------------
(* The commands.                                                           *)

\* EndpointTable.key_for, for every endpoint of one snapshot.
KeysFor(t, ids) == t \o SetToSeq(ids \ {t[i] : i \in DOMAIN t})
KeyOf(t, id) == CHOOSE k \in DOMAIN t : t[k] = id

\* An accepted command joins the queue under the next id.
Accepts == ~box.gone /\ Len(box.queue) < CommandRoom
WithCommand(c) == [box EXCEPT !.queue = Append(@, c), !.taken = @ + 1]
Enqueue(c) == box' = IF Accepts THEN WithCommand(c) ELSE box

\* report_channel_loss
Reports == mail' = IF box.gone THEN Append(mail, [type |-> "Closed"]) ELSE mail

\* ServiceExecutor::execute and BackendCommandPort::try_send.
Execute(e) ==
  \/ e.op = "nothing" /\ UNCHANGED <<box, volume_call, slots, mail>>
  \/ /\ e.op = "volume" /\ volume_call = Nothing
     /\ Enqueue([op |-> "volume", vol |-> e.volume, members |-> {}, value |-> "none"])
     /\ volume_call' = [op |-> "sent", gen |-> e.gen, receipt |-> IF Accepts THEN box.taken + 1 ELSE 0]
     /\ Reports /\ UNCHANGED slots
  \/ /\ e.op = "discover"
     /\ slots' = IF box.gone THEN slots ELSE [slots EXCEPT !.discovery = e.gen, !.wake = TRUE]
     /\ Reports /\ UNCHANGED <<box, volume_call>>
  \/ /\ e.op \in {"start", "stop"}
     /\ Enqueue([op |-> e.op, vol |-> e.volume, members |-> e.members, value |-> "none"])
     /\ slots' = [slots EXCEPT !.session = e.gen, !.wake = TRUE]
     /\ Reports /\ UNCHANGED volume_call
  \/ /\ e.op = "group"
     /\ Enqueue([op |-> e.cmd, vol |-> Unset, members |-> e.members, value |-> "none"])
     /\ slots' = [slots EXCEPT !.wake = TRUE,
                    !.group = [op |-> "group", request |-> e.request,
                               receipt |-> IF Accepts THEN box.taken + 1 ELSE 0,
                               refusal |-> IF box.gone THEN "Closed" ELSE "Busy"]]
     /\ UNCHANGED <<volume_call, mail>>
  \/ /\ e.op \in {"mute", "latency", "level"}
     /\ Enqueue([op |-> e.op, vol |-> Unset, members |-> {},
                 value |-> IF e.op = "level" THEN "none" ELSE e.value])
     /\ Reports /\ UNCHANGED <<volume_call, slots>>
  \/ /\ e.op = "endpoint"
     /\ Enqueue([op |-> "endpoint", vol |-> IF e.key = 0 THEN 0 ELSE table[e.key],
                 members |-> {}, value |-> "none"])
     /\ Reports /\ UNCHANGED <<volume_call, slots>>

\* The volume slot takes the newest drag, refused or not.
RecordVolume ==
  /\ volume_call.op = "sent"
  /\ slots' = [slots EXCEPT !.volume = volume_call, !.wake = TRUE]
  /\ volume_call' = Nothing
  /\ UNCHANGED <<view, box, projection, table, poll, mail, habit, spent, past>>

Shown(s) == {r \in Rows : s.rows[r] # "none"}

\* What a reduced event leaves for the properties to look at.
Remember(s, t, touched) ==
  [past EXCEPT !.touched = touched \/ (@ /\ Dirty(t)),
               !.lost = @ \/ \E r \in t.desired \cup t.staged : r \in Shown(s) \ Shown(t)]

Reduces(t, touched) ==
  /\ view' = [t EXCEPT !.effect = Nothing]
  /\ past' = Remember(view, t, touched)

\* One event of the user, if this user does that and the control is drawn.
Act(name, drawn, t, touched) ==
  /\ name \in habit.acts /\ spent.acts < habit.most_acts
  /\ drawn /\ ~view.quitting
  /\ Reduces(t, touched) /\ Execute(t.effect)
  /\ spent' = [spent EXCEPT !.acts = @ + 1]
  /\ UNCHANGED <<projection, table, poll, habit>>

UserActs ==
  \/ \E r \in Shown(view) : Act("Toggle", TRUE, ToggleStaged(view, r), TRUE)
  \/ Act("Apply", ChangeBar(view).shown /\ ChangeBar(view).apply, ApplyStaged(view), FALSE)
  \/ Act("Discard", ChangeBar(view).shown /\ ChangeBar(view).discard, DiscardStaged(view), FALSE)
  \/ Act("Header", IsEnabled(PrimaryAction(view)), PressHeader(view), FALSE)
  \/ Act("Notice", NoticeAction(view) # "none", PressNotice(view), FALSE)
  \/ Act("Hotkey", TRUE, Hotkey(view), FALSE)
  \/ Act("Refresh", TRUE, RefreshPressed(view), FALSE)
  \/ Act("Save", view.page = "Groups", GroupCommand(view, "save", {}), FALSE)
  \/ Act("Quit", TRUE, QuitPressed(view), FALSE)
  \/ \E p \in {"Home", "Groups"} \ {view.page} : Act("Navigate", TRUE, [view EXCEPT !.page = p], FALSE)
  \/ \E v \in {0, 2, Unset} : Act("Volume", TRUE, MasterVolumeChanged(view, v), FALSE)
  \/ \E m \in {"on", "off"} \ {view.muted} :
       Act("Mute", view.muted # "unknown", MuteChange(view, m), FALSE)
  \/ \E c \in LatencyRows(view) : Act("Latency", TRUE, LatencyChoice(view, c), FALSE)
  \/ \E r \in LevelRows(view) : Act("Level", TRUE, ReceiverLevel(view, r), FALSE)

\* A click on a painted endpoint; the default row has no name of its own.
ClickEndpoint ==
  \E k \in CaptureRows(view) :
    LET t == AudioEndpointRequested(view, k)
        painted == IF k = 0 THEN 0 ELSE (CHOOSE e \in view.source.offered : e.key = k).name
    IN  /\ "Endpoint" \in habit.acts /\ spent.acts < habit.most_acts /\ ~view.quitting
        /\ view' = [t EXCEPT !.effect = Nothing]
        /\ Execute(t.effect)
        /\ past' = [past EXCEPT !.astray = @ \/ (k # 0 /\ (k \notin DOMAIN table \/ table[k] # painted))]
        /\ spent' = [spent EXCEPT !.acts = @ + 1]
        /\ UNCHANGED <<projection, table, poll, habit>>

\* The actor takes one event of its queue.
Deliver ==
  /\ mail # <<>> /\ mail' = Tail(mail)
  /\ Reduces(Heed(view, Head(mail)), FALSE)
  /\ UNCHANGED <<box, volume_call, slots, projection, table, poll, habit, spent>>

-----------------------------------------------------------------------------
(* The bridge.                                                             *)

\* audio_echo: endpoints by key, and how far the stored choice can be met.
AudioEcho(t) ==
  [read |-> TRUE, known |-> box.listed,
   offered |-> {[key |-> KeyOf(t, d), name |-> d] : d \in IF box.listed THEN box.devices ELSE {}},
   selection |->
     IF box.preference = 0 THEN [kind |-> "Default", key |-> 0]
     ELSE IF box.listed /\ box.preference \in box.devices
          THEN [kind |-> "Chosen", key |-> KeyOf(t, box.preference)]
     ELSE IF ~box.listed \/ box.captured = box.preference
          THEN [kind |-> "Unverified", key |-> 0]
     ELSE [kind |-> "Missing", key |-> 0]]

\* discovery_echo: nothing while the daemon is stopped.
DiscoveryEcho ==
  [gen |-> slots.discovery, kind |-> box.search,
   rows |-> IF box.search = "Running" THEN box.rows ELSE [r \in Rows |-> "none"]]

SessionEcho == [gen |-> slots.session, phase |-> box.phase, active |-> box.active]

\* The events of one projection, in the order project pushes them.
Events(t, answered) ==
  LET part(changed, e) == IF changed THEN <<e>> ELSE <<>>
  IN  part(projection.vol # box.vol, [type |-> "Volume", gen |-> 0, vol |-> box.vol])
   \o part(projection.desired # box.desired,
           [type |-> "Desired", rev |-> box.desired.rev, members |-> box.desired.members])
   \o part(box.search # "Stopped" /\ projection.discovery # DiscoveryEcho,
           [type |-> IF box.search = "Running" THEN "Inventory" ELSE "NoInventory",
            gen |-> slots.discovery, rows |-> box.rows])
   \o part(answered, [type |-> "Session", gen |-> slots.session, phase |-> box.phase,
                      active |-> box.active])
   \o part(projection.muted # box.muted, [type |-> "Mute", value |-> box.muted])
   \o part(~projection.levels, [type |-> "Levels"])
   \o part(projection.latency # box.latency, [type |-> "Latency", value |-> box.latency])
   \o part(projection.source # AudioEcho(t), [type |-> "Audio", reading |-> AudioEcho(t)])

\* Projection::project, then the key table is published.
ProjectWindow ==
  /\ poll = Nothing /\ ~projection.over /\ (box.fresh \/ slots.wake)
  /\ \E answered \in BOOLEAN :
       LET t == KeysFor(table, (IF box.listed THEN box.devices ELSE {}) \cup ({box.captured} \ {0}))
           moved == projection.session # SessionEcho
       IN  /\ answered => moved
           /\ (projection.session.gen = slots.session /\ moved) => answered
           /\ mail' = mail \o Events(t, answered)
           /\ table' = t
           /\ projection' = [projection EXCEPT !.vol = box.vol, !.desired = box.desired,
                         !.discovery = IF box.search = "Stopped" THEN @ ELSE DiscoveryEcho,
                         !.session = IF answered THEN SessionEcho ELSE @,
                         !.muted = box.muted, !.levels = TRUE, !.latency = box.latency,
                         !.source = AudioEcho(t)]
  /\ poll' = [op |-> "poll", vol |-> box.vol, done |-> box.done, failed |-> box.failed,
              gone |-> box.gone]
  /\ box' = [box EXCEPT !.fresh = FALSE]
  /\ slots' = [slots EXCEPT !.wake = FALSE]
  /\ UNCHANGED <<view, volume_call, habit, spent, past>>

\* A slot is settled by its refusal, its receipt, or the end of the backend.
SlotSettled(slot) == slot # Nothing /\ (slot.receipt = 0 \/ slot.receipt <= poll.done \/ poll.gone)

GroupStatus(slot) ==
  IF slot.receipt = 0 THEN slot.refusal
  ELSE IF slot.receipt <= poll.done
       THEN IF slot.receipt \in poll.failed THEN "Persistence" ELSE "Succeeded"
  ELSE "Closed"

\* group_events and volume_events against the projected snapshot.
Receipts ==
  /\ poll # Nothing
  /\ mail' = mail
       \o (IF SlotSettled(slots.group)
           THEN <<[type |-> "Group", request |-> slots.group.request,
                   status |-> GroupStatus(slots.group)]>> ELSE <<>>)
       \o (IF SlotSettled(slots.volume)
           THEN <<[type |-> "Volume", gen |-> slots.volume.gen, vol |-> poll.vol]>> ELSE <<>>)
       \o (IF poll.gone THEN <<[type |-> "Closed"]>> ELSE <<>>)
  /\ slots' = [slots EXCEPT !.group = IF SlotSettled(@) THEN Nothing ELSE @,
                            !.volume = IF SlotSettled(@) THEN Nothing ELSE @]
  /\ projection' = [projection EXCEPT !.over = poll.gone]
  /\ poll' = Nothing
  /\ UNCHANGED <<view, box, volume_call, table, habit, spent, past>>

\* project_event: a discovery notice of the event feed.
FeedNotice ==
  /\ box.notices > 0 /\ ~projection.over /\ poll = Nothing
  /\ box' = [box EXCEPT !.notices = @ - 1]
  /\ mail' = Append(mail, [type |-> "NoInventory", gen |-> slots.discovery, rows |-> box.rows])
  /\ UNCHANGED <<view, volume_call, slots, projection, table, poll, habit, spent, past>>

-----------------------------------------------------------------------------
(* The backend (Backend.tla, CommandBatch.tla), as far as the window sees. *)

Select(b, members) ==
  IF b.desired.members = members THEN b
  ELSE [b EXCEPT !.desired = [rev |-> @.rev + 1, members |-> members]]

Applied(b, c) ==
  CASE c.op = "volume" -> [b EXCEPT !.vol = c.vol]
    [] c.op = "selection" -> Select(b, c.members)
    [] c.op = "start" -> [Select(b, c.members) EXCEPT !.vol = c.vol]
    [] c.op = "mute" -> [b EXCEPT !.muted = c.value]
    [] c.op = "latency" -> [b EXCEPT !.latency = c.value]
    [] c.op = "endpoint" -> [b EXCEPT !.preference = c.vol]
    [] OTHER -> b

\* The next command is carried out, or its save fails.
Carry ==
  /\ box.queue # <<>> /\ ~box.gone
  /\ \E ok \in IF "Fail" \in habit.news /\ spent.news < habit.most_news THEN BOOLEAN ELSE {TRUE} :
       LET c == Head(box.queue)
           b == IF ok THEN Applied(box, c) ELSE [box EXCEPT !.failed = @ \cup {box.done + 1}]
       IN  /\ box' = [b EXCEPT !.queue = Tail(@), !.done = @ + 1, !.fresh = TRUE]
           /\ spent' = [spent EXCEPT !.news = IF ok THEN @ ELSE @ + 1]
  /\ UNCHANGED <<view, volume_call, slots, projection, table, poll, mail, habit, past>>

News(name, b) ==
  /\ name \in habit.news /\ spent.news < habit.most_news /\ ~box.gone
  /\ b # box
  /\ box' = [b EXCEPT !.fresh = TRUE]
  /\ spent' = [spent EXCEPT !.news = @ + 1]
  /\ UNCHANGED <<view, volume_call, slots, projection, table, poll, mail, habit, past>>

BackendNews ==
  \/ \E r \in Rows, a \in {"none", "up", "down"} : News("Rows", [box EXCEPT !.rows[r] = a])
  \/ \E m \in SUBSET Rows : News("Desired", Select(box, m))
  \/ \E p \in {"Stopped", "Running"} : News("Search", [box EXCEPT !.search = p])
  \/ News("Search", [box EXCEPT !.search = "Retrying", !.notices = @ + 1])
  \/ \E p \in {"Streaming", "Degraded"}, a \in {{1}, Rows} :
       News("Session", [box EXCEPT !.phase = p, !.active = a])
  \/ \E p \in {"Stopped", "Restarting", "Failed"} :
       News("Session", [box EXCEPT !.phase = p, !.active = {}])
  \/ \E d \in SUBSET Devices : News("Devices", [box EXCEPT !.listed = TRUE, !.devices = d])
  \/ \E d \in box.devices \cup {0} : News("Devices", [box EXCEPT !.captured = d])
  \/ News("Gone", [box EXCEPT !.gone = TRUE])

-----------------------------------------------------------------------------
NoRows == [r \in Rows |-> "none"]
Unread == [read |-> FALSE, known |-> FALSE, offered |-> {}, selection |-> [kind |-> "Default", key |-> 0]]

\* AppState::default, as far as the window draws it.
FirstView ==
  [rows |-> NoRows, staged |-> {}, desired |-> {}, base |-> 0, rev |-> 0,
   known |-> FALSE, op |-> NoOp, request |-> 0, stream |-> "Stopped", gen |-> 0,
   active |-> {}, vol |-> 1, moving |-> FALSE, confirmed |-> Unset, volgen |-> 0,
   notice |-> NoNotice, disc |-> "Idle", discgen |-> 0, closed |-> FALSE,
   quitting |-> FALSE, page |-> "Home", muted |-> "unknown", levels |-> FALSE,
   latency |-> "unknown", source |-> Unread, effect |-> Nothing]

\* The backend's snapshot once a stored selection was loaded, and its queue.
DeviceSnapshot ==
  [rows |-> [r \in Rows |-> "up"], desired |-> [rev |-> 1, members |-> {1}],
   search |-> "Running", phase |-> "Stopped", active |-> {}, vol |-> 0,
   muted |-> "off", latency |-> "Normal", listed |-> FALSE, devices |-> {},
   captured |-> 0, preference |-> 0, queue |-> <<>>, taken |-> 0, done |-> 0,
   failed |-> {}, notices |-> 0, fresh |-> TRUE, gone |-> FALSE]

GenerationEcho ==
  [volume |-> Nothing, group |-> Nothing, discovery |-> 0, session |-> 0, wake |-> FALSE]

\* Projection::default: unknown until it was told once.
NothingProjected ==
  [vol |-> Unset, desired |-> [rev |-> 0, members |-> {}],
   discovery |-> [gen |-> 0, kind |-> "none", rows |-> NoRows],
   session |-> [gen |-> 0, phase |-> "none", active |-> {}], muted |-> "unknown",
   levels |-> FALSE, latency |-> "unknown", source |-> Unread, over |-> FALSE]

\* A key is a place in the table: none is given twice and none is taken back.
EndpointTable ==
  \A i, j \in DOMAIN table : i # j => table[i] # table[j]

WindowInit ==
  /\ view = FirstView /\ box = DeviceSnapshot
  /\ volume_call = Nothing /\ slots = GenerationEcho /\ projection = NothingProjected
  /\ table = <<>> /\ poll = Nothing /\ mail = <<>>
  /\ habit \in Habits
  /\ spent = [acts |-> 0, news |-> 0]
  /\ past = [touched |-> FALSE, lost |-> FALSE, astray |-> FALSE]

WindowNext ==
  \/ UserActs \/ ClickEndpoint \/ RecordVolume \/ Deliver
  \/ ProjectWindow \/ Receipts \/ FeedNotice
  \/ Carry \/ BackendNews

-----------------------------------------------------------------------------
(* Properties.                                                             *)

\* Every control drawn enabled does something in the state it is drawn from.
\* (A notice's Retry is the exception: it is drawn where Start is disabled.)
NoDeadControl ==
  ~view.quitting =>
    /\ IsEnabled(PrimaryAction(view)) => PressHeader(view) # view
    /\ ChangeBar(view).shown /\ ChangeBar(view).apply => ApplyStaged(view) # view
    /\ ChangeBar(view).shown /\ ChangeBar(view).discard => DiscardStaged(view) # view
    /\ NoticeAction(view) = "Refresh" => PressNotice(view) # view
    /\ \A k \in CaptureRows(view) : AudioEndpointRequested(view, k) # view
    /\ \A c \in LatencyRows(view) : LatencyChoice(view, c) # view
    /\ \A r \in LevelRows(view) : ReceiverLevel(view, r) # view

\* One button at most is filled and can be pressed; what ends a session always
\* is, and a selection that was changed is never started by it.
OneFilledAction ==
  LET header == FilledOwner(view, Dirty(view)) = "Lifecycle"
      a == PrimaryAction(view)
  IN  /\ ~(header /\ IsEnabled(a) /\ ChangeBar(view).shown /\ ChangeBar(view).apply
             /\ ChangeBar(view).filled)
      /\ IsSafety(a) => header
      /\ (a = "Start" /\ Dirty(view)) => ~header

\* The route shows the applied receivers and says "active" of none while no
\* audio flows; a card never says it either.
RouteHonest ==
  LET ribbon == Ribbon(view)
  IN  /\ Cardinality(DOMAIN ribbon.nodes) + ribbon.more = ribbon.total
      /\ view.active # {} => RoutePhase(view) = "Live"
      /\ \A r \in Rows : CardState(view, r) \in {"Streaming", "SelectedAndStreaming"}
           => view.stream \in {"Streaming", "Degraded"}

\* A notice does not outlive what it says: a failed search is not announced
\* over a completed one, nor a failed session over a running one.
NoticesTrue ==
  /\ view.notice.code = "DiscoveryFailed" => view.disc # "Ready"
  /\ view.notice.code = "SessionFailed" => view.stream \notin {"Streaming", "Degraded"}

\* A row the selection or the draft names does not vanish, a draft the user did
\* not touch follows the backend, and receivers are listed only after it was told
\* which are selected.
DraftHonest ==
  /\ ~past.lost
  /\ Dirty(view) => past.touched
  /\ view.base <= view.rev
  /\ Shown(view) # {} => view.known

\* Nothing is under way between the window and the backend.
AtRest ==
  /\ mail = <<>> /\ poll = Nothing /\ volume_call = Nothing /\ (box.queue = <<>> \/ box.gone)
  /\ slots.volume = Nothing /\ slots.group = Nothing
  /\ projection.over \/ (~box.fresh /\ ~slots.wake /\ ~box.gone)

\* When nothing is under way the window shows the backend's volume, selection
\* and receivers, and nothing pending, whatever was dragged, refused or failed.
WindowSettles ==
  AtRest =>
    /\ view.vol = box.vol /\ ~view.moving
    /\ ~Busy(view)
    /\ view.desired = box.desired.members
    /\ box.search = "Running" /\ ~projection.over =>
         \A r \in Rows : (view.rows[r] = "up") <=> (box.rows[r] = "up")

\* A click on a painted endpoint asks for that endpoint.
ClicksLand == ~past.astray

WindowSafe ==
  /\ EndpointTable /\ NoDeadControl /\ OneFilledAction /\ RouteHonest /\ NoticesTrue
  /\ DraftHonest /\ WindowSettles /\ ClicksLand
==============================================================================
