--------------------------- MODULE TerminalClient ---------------------------
(***************************************************************************)
(* The terminal client (airplay-tui): an event loop that takes actions     *)
(* from an unbounded queue and owns an AirPlayClient behind a mutex.  A    *)
(* handler locks the client inline, which blocks the loop, or spawns a job *)
(* that locks it later and reports through the queue; the client's events  *)
(* enter the same queue.  A capture source runs a thread of its own.       *)
(*                                                                         *)
(* The keys of list cursors, the equalizer, the help overlay and the file  *)
(* browser's directory are left out: they touch neither client nor thread. *)
(***************************************************************************)
EXTENDS Naturals, Sequences, FiniteSets, SequencesExt

CONSTANTS
  Rooms,       \* the receivers a scan may find, positive numbers
  KeySets,     \* bound: a behaviour presses the keys of one of these sets
  MaxKeys,     \* bound: keys pressed
  MaxJobs,     \* bound: jobs and actions under way when a key is pressed
  MaxCaptures  \* bound: capture threads started

ASSUME TerminalAssumption ==
  /\ Rooms \subseteq Nat \ {0}
  /\ {MaxKeys, MaxJobs, MaxCaptures} \subseteq Nat

VARIABLES
  screen,    \* AppState, see TerminalInit
  inbox,     \* the action queue: <<action, argument...>>
  busy,      \* [at, arg]: the handler the loop is inside of
  airplay,   \* the AirPlayClient: [device, torn, members, group, playback]
  mutex,     \* who holds the client: "free", "loop" or "job"
  jobs,      \* the spawned tasks, in spawn order
  captures,  \* [running, told, held, count]: the capture threads
  radio      \* the adapter: [powered, peer]

terminalVars == <<screen, inbox, busy, airplay, mutex, jobs, captures, radio>>

Inputs == {"usb", "bt"}
Nobody == 0   \* no device, no thread

-----------------------------------------------------------------------------
(* Initial state: the first scan has listed the receivers.                 *)

TerminalInit ==
  /\ \E keys \in KeySets, p \in BOOLEAN, marks \in {{}, Rooms} :
       /\ p <=> "BluetoothCheckSetup" \notin keys
       /\ screen = [hand |-> keys, listed |-> Rooms, marked |-> marks, linked |-> {},
                    scanning |-> FALSE, connecting |-> FALSE, shown |-> Nobody, grouped |-> FALSE,
                    playback |-> "Stopped", active |-> {}, checked |-> p, powered |-> p,
                    peer |-> p, searching |-> FALSE, quit |-> FALSE, keys |-> 0, missed |-> FALSE]
       /\ radio = [powered |-> p, peer |-> p]
  /\ inbox = <<>> /\ busy = [at |-> "select", arg |-> Nobody]
  /\ airplay = [device |-> Nobody, torn |-> FALSE, members |-> {}, group |-> {},
                playback |-> "Stopped"]
  /\ mutex = "free" /\ jobs = <<>>
  /\ captures = [running |-> {}, told |-> {}, held |-> [i \in Inputs |-> Nobody], count |-> 0]

-----------------------------------------------------------------------------
(* The loop's two sources: keys and the queue.                             *)

\* handle_key, handle_view_key: what the keys ask for.  The user can go to every
\* view at any time, so the view in front is not kept; the Bluetooth view checks
\* its set-up the first time it is entered.
KeyActions ==
  {"Quit", "SelectDevice", "ScanDevices", "ToggleDeviceSelect", "SelectFile", "PlayPause",
   "Stop", "Seek", "Volume", "UsbAudioStartSource", "UsbAudioStopSource", "BluetoothScan",
   "BluetoothPair", "BluetoothConnect", "BluetoothDisconnect", "BluetoothStartSource",
   "BluetoothAutoInstall", "BluetoothTogglePower"}
    \cup (IF screen.grouped THEN {"DisbandGroup"} ELSE {})
    \cup (IF screen.checked THEN {} ELSE {"BluetoothCheckSetup"})

\* A key while the loop selects; the action is only queued.
Press(a) ==
  /\ busy.at = "select" /\ ~screen.quit /\ screen.keys < MaxKeys
  /\ Len(inbox) + Len(jobs) < MaxJobs
  /\ screen' = [screen EXCEPT !.keys = @ + 1]
  /\ inbox' = Append(inbox, <<a>>)
  /\ UNCHANGED <<busy, airplay, mutex, jobs, captures, radio>>

\* The tick interval; bound: a tick fires while nothing is queued.
TickFires ==
  /\ busy.at = "select" /\ ~screen.quit /\ inbox = <<>>
  /\ inbox' = Append(inbox, <<"Tick">>)
  /\ UNCHANGED <<screen, busy, airplay, mutex, jobs, captures, radio>>

\* The action the loop takes next.
Takes(a) ==
  /\ busy.at = "select" /\ ~screen.quit
  /\ inbox # <<>> /\ Head(inbox)[1] = a

Replies(sent) == inbox' = Tail(inbox) \o sent

\* A handler that only writes the state.
Shows(new) ==
  /\ screen' = new /\ Replies(<<>>)
  /\ UNCHANGED <<busy, airplay, mutex, jobs, captures, radio>>

-----------------------------------------------------------------------------
(* The client's operations: what becomes of it, and the events it emits.   *)

ConnectedTo(d) == <<"Connected", d>>
PlaybackStateChanged(s) == <<"PlaybackStateChanged", s>>

\* disconnect: a failed or abandoned teardown leaves the connection in place,
\* and the next attempt only removes it.
Disconnects(c) ==
  LET away == [c EXCEPT !.device = Nobody, !.torn = FALSE, !.members = {}, !.playback = "Stopped"]
  IN {[client |-> away, events |-> <<<<"Disconnected">>>>, ok |-> TRUE]} \cup
     (IF c.device # Nobody /\ ~c.torn
      THEN {[client |-> [c EXCEPT !.torn = TRUE, !.members = {}, !.playback = s],
             events |-> <<>>, ok |-> FALSE] : s \in {"Stopped", c.playback}}
      ELSE {})

\* connect: an existing connection ends first.
ConnectStarts(c) ==
  IF c.device = Nobody THEN {[client |-> c, events |-> <<>>, ok |-> TRUE]} ELSE Disconnects(c)

\* connect_group: the members that came up, one of them the primary.
ConnectGroupEnds(c, wanted) ==
  {[client |-> c, events |-> <<>>, ok |-> FALSE]} \cup
  UNION {{[client |-> [c EXCEPT !.device = p, !.members = up \ {p}, !.group = up],
           events |-> <<ConnectedTo(p), <<"GroupChanged">>>>, ok |-> up = wanted] : p \in up} :
           up \in SUBSET wanted}

\* play_file, play_file_to_group, start_live_streaming...: nothing plays without
\* a connection that is in place.
PlayStarts(c) ==
  {[client |-> c, events |-> <<>>, ok |-> FALSE]} \cup
  (IF c.device = Nobody \/ c.torn THEN {}
   ELSE {[client |-> [c EXCEPT !.playback = "Playing"],
          events |-> <<PlaybackStateChanged("Playing")>>, ok |-> TRUE]})

\* pause, resume, stop.
PlaybackTurns(c, state) ==
  {[client |-> c, events |-> <<>>, ok |-> FALSE]} \cup
  (IF c.device = Nobody THEN {}
   ELSE {[client |-> [c EXCEPT !.playback = state],
          events |-> <<PlaybackStateChanged(state)>>, ok |-> TRUE]})

\* A handler that locks the client for one operation.
Inline(results) ==
  /\ mutex = "free"
  /\ \E r \in results : airplay' = r.client /\ Replies(r.events)
  /\ UNCHANGED <<screen, busy, mutex, jobs, captures, radio>>

\* A handler that spawns a job and writes the state.
Spawns(job, new) ==
  /\ screen' = new /\ jobs' = Append(jobs, job) /\ Replies(<<>>)
  /\ UNCHANGED <<busy, airplay, mutex, captures, radio>>

-----------------------------------------------------------------------------
(* The device list.                                                        *)

HandleQuit == Takes("Quit") /\ Shows([screen EXCEPT !.quit = TRUE])

HandleToggleDeviceSelect ==
  /\ Takes("ToggleDeviceSelect")
  /\ \/ screen.listed = {} /\ Shows(screen)
     \/ \E d \in screen.listed :
          Shows([screen EXCEPT !.marked = IF d \in @ THEN @ \ {d} ELSE @ \cup {d}])

\* scan_devices: the discovery runs under the client's lock.
HandleScanDevices ==
  /\ Takes("ScanDevices") /\ mutex = "free"
  /\ screen' = [screen EXCEPT !.scanning = TRUE]
  /\ \/ Replies(<<<<"DevicesScanned", Rooms>>>>)
     \/ Replies(<<<<"DevicesScanned", {}>>, <<"ShowError">>>>)
  /\ UNCHANGED <<busy, airplay, mutex, jobs, captures, radio>>

HandleDevicesScanned ==
  /\ Takes("DevicesScanned")
  /\ LET found == Head(inbox)[2] IN
       Shows([screen EXCEPT !.scanning = FALSE, !.listed = found, !.marked = {},
                            !.linked = found \cap {screen.shown}])

\* handle_select in the device list: two marked devices make a group.
HandleSelectDevice ==
  /\ Takes("SelectDevice")
  /\ \/ /\ Cardinality(screen.marked) >= 2
        /\ Spawns([what |-> "group", at |-> "waiting", asked |-> screen.marked],
                  [screen EXCEPT !.connecting = TRUE])
     \/ /\ Cardinality(screen.marked) < 2 /\ screen.listed # {}
        /\ screen' = [screen EXCEPT !.connecting = TRUE]
        /\ \E d \in screen.listed : busy' = [at |-> "connectWait", arg |-> d]
        /\ Replies(<<>>)
        /\ UNCHANGED <<airplay, mutex, jobs, captures, radio>>
     \/ /\ Cardinality(screen.marked) < 2 /\ screen.listed = {} /\ Shows(screen)

-----------------------------------------------------------------------------
(* Connecting one device, inline and within thirty seconds.                *)

\* connect_to_selected gave up or failed.
ConnectOver(ok) ==
  /\ busy' = [at |-> "select", arg |-> Nobody]
  /\ screen' = IF ok THEN screen ELSE [screen EXCEPT !.connecting = FALSE]

ConnectBegins ==
  /\ busy.at = "connectWait" /\ mutex = "free"
  /\ \E r \in ConnectStarts(airplay) :
       /\ airplay' = r.client /\ inbox' = inbox \o r.events
       /\ IF r.ok
          THEN /\ mutex' = "loop" /\ busy' = [busy EXCEPT !.at = "connecting"]
               /\ UNCHANGED screen
          ELSE UNCHANGED mutex /\ ConnectOver(FALSE)
  /\ UNCHANGED <<jobs, captures, radio>>

ConnectEnds ==
  /\ busy.at = "connecting"
  /\ airplay' = [airplay EXCEPT !.device = busy.arg]
  /\ inbox' = Append(inbox, ConnectedTo(busy.arg))
  /\ mutex' = "free" /\ ConnectOver(TRUE)
  /\ UNCHANGED <<jobs, captures, radio>>

\* The budget covers the wait for the lock as well.
ConnectFails ==
  /\ busy.at = "connecting" \/ (busy.at = "connectWait" /\ mutex = "job")
  /\ mutex' = IF busy.at = "connecting" THEN "free" ELSE mutex
  /\ ConnectOver(FALSE)
  /\ UNCHANGED <<inbox, airplay, jobs, captures, radio>>

HandleConnected ==
  /\ Takes("Connected")
  /\ LET d == Head(inbox)[2] IN
       Shows([screen EXCEPT !.connecting = FALSE, !.shown = d, !.missed = FALSE,
                            !.linked = screen.listed \cap {d}])

\* A disconnect is taken for the first half of a reconnect while connecting.
HandleDisconnected ==
  /\ Takes("Disconnected")
  /\ Shows(IF screen.connecting THEN [screen EXCEPT !.missed = TRUE]
           ELSE [screen EXCEPT !.shown = Nobody, !.playback = "Stopped", !.grouped = FALSE,
                               !.linked = {}, !.marked = {}, !.missed = FALSE])

\* Faulty: an error of another job leaves the attempt marked as running.
ShowErrorKeeps(state) == state

ShowError(state) == [state EXCEPT !.connecting = FALSE]
HandleShowError == Takes("ShowError") /\ Shows(ShowError(screen))

-----------------------------------------------------------------------------
(* Groups and playback.                                                    *)

HandleGroupChanged ==
  /\ Takes("GroupChanged") /\ mutex = "free"
  /\ Shows([screen EXCEPT !.grouped = airplay.group # {}])

HandleGroupConnected ==
  /\ Takes("GroupConnected") /\ mutex = "free"
  /\ LET known == airplay.device # Nobody IN
       Shows([screen EXCEPT !.connecting = FALSE, !.grouped = airplay.group # {},
                            !.shown = IF known THEN airplay.device ELSE @,
                            !.missed = @ /\ ~known,
                            !.linked = @ \cup (airplay.group \cap screen.listed)])

HandleDisbandGroup ==
  /\ Takes("DisbandGroup") /\ mutex = "free"
  /\ airplay' = [airplay EXCEPT !.group = {}]
  /\ screen' = [screen EXCEPT !.grouped = FALSE]
  /\ Replies(<<<<"GroupChanged">>>>)
  /\ UNCHANGED <<busy, mutex, jobs, captures, radio>>

\* toggle_playback decides by the state last shown.
HandlePlayPause ==
  /\ Takes("PlayPause")
  /\ CASE screen.playback = "Playing" -> Inline(PlaybackTurns(airplay, "Paused"))
       [] screen.playback = "Paused" -> Inline(PlaybackTurns(airplay, "Playing"))
       [] OTHER -> Shows(screen)

HandleStop == Takes("Stop") /\ Inline(PlaybackTurns(airplay, "Stopped"))

\* Position and level are not state of this model.
HandleSeekOrVolume ==
  /\ Takes("Seek") \/ Takes("Volume")
  /\ Inline({[client |-> airplay, events |-> <<>>]})

HandlePlaybackStateChanged ==
  /\ Takes("PlaybackStateChanged")
  /\ Shows([screen EXCEPT !.playback = Head(inbox)[2]])

\* PlaybackStarted brings the player to the front.
HandlePlaybackStarted == Takes("PlaybackStarted") /\ Shows(screen)

\* handle_select in the browser: a directory is entered, a file is played to the
\* group when one is connected.
HandleSelectFile ==
  /\ Takes("SelectFile")
  /\ \/ Shows(screen)
     \/ mutex = "free" /\ airplay.device = Nobody /\ airplay.members = {} /\ Shows(screen)
     \/ /\ mutex = "free" /\ (airplay.device # Nobody \/ airplay.members # {})
        /\ Spawns([what |-> "play", at |-> "waiting", asked |-> {}], screen)

\* The tick reads the client if it is free, and the capture threads.
HandleTick ==
  /\ Takes("Tick")
  /\ LET over == {i \in screen.active : /\ <<i, captures.held[i]>> \in captures.told
                                        /\ <<i, captures.held[i]>> \notin captures.running}
     IN /\ screen' = [screen EXCEPT !.active = @ \ over,
                                    !.playback = IF mutex = "free" THEN airplay.playback ELSE @]
        /\ captures' = [captures EXCEPT !.held =
                          [i \in Inputs |-> IF i \in over THEN Nobody ELSE @[i]]]
  /\ Replies(<<>>)
  /\ UNCHANGED <<busy, airplay, mutex, jobs, radio>>

-----------------------------------------------------------------------------
(* The jobs that need the client: connect_group, play_file.                *)

JobDone(k, result) == jobs' = [jobs EXCEPT ![k].at = "done", ![k].what = result]

\* connect_group ends the existing session first; playing has nothing to end.
JobLocks(k) ==
  /\ jobs[k].at = "waiting" /\ mutex = "free"
  /\ \/ /\ jobs[k].what = "play" /\ mutex' = "job"
        /\ jobs' = [jobs EXCEPT ![k].at = "working"]
        /\ UNCHANGED <<inbox, airplay>>
     \/ /\ jobs[k].what = "group"
        /\ \E r \in Disconnects(airplay) :
             /\ airplay' = r.client /\ inbox' = inbox \o r.events
             /\ IF r.ok THEN mutex' = "job" /\ jobs' = [jobs EXCEPT ![k].at = "working"]
                ELSE UNCHANGED mutex /\ JobDone(k, "ShowError")
  /\ UNCHANGED <<screen, busy, captures, radio>>

\* A group of which only a part came up is an error to the terminal.
JobWorks(k) ==
  /\ jobs[k].at = "working"
  /\ LET group == jobs[k].what = "group" IN
     \E r \in IF group THEN ConnectGroupEnds(airplay, jobs[k].asked) ELSE PlayStarts(airplay) :
       /\ airplay' = r.client /\ inbox' = inbox \o r.events
       /\ JobDone(k, IF ~r.ok THEN "ShowError"
                     ELSE IF group THEN "GroupConnected" ELSE "PlaybackStarted")
  /\ mutex' = "free"
  /\ UNCHANGED <<screen, busy, captures, radio>>

\* The budget of a job covers its wait for the lock.
JobTimesOut(k) ==
  /\ jobs[k].at = "working" \/ (jobs[k].at = "waiting" /\ mutex # "free")
  /\ mutex' = IF jobs[k].at = "working" THEN "free" ELSE mutex
  /\ JobDone(k, "ShowError")
  /\ UNCHANGED <<screen, inbox, busy, airplay, captures, radio>>

JobReports(k) ==
  /\ jobs[k].at = "done"
  /\ inbox' = Append(inbox, <<jobs[k].what>>) /\ jobs' = RemoveAt(jobs, k)
  /\ UNCHANGED <<screen, busy, airplay, mutex, captures, radio>>

-----------------------------------------------------------------------------
(* Capture sources.  A thread is <<input, number>>.                        *)

Tells(i) ==
  [captures EXCEPT !.told = @ \cup ({<<i, captures.held[i]>>} \cap captures.running)]

\* A thread in place is told to stop, and the loop goes on to join it.
StartSource(i) ==
  /\ mutex = "free"
  /\ IF airplay.device = Nobody THEN Shows(screen)
     ELSE /\ captures' = Tells(i) /\ busy' = [at |-> "join", arg |-> <<i>>]
          /\ Replies(<<>>)
          /\ UNCHANGED <<screen, airplay, mutex, jobs, radio>>

UsbAudioStartSource == Takes("UsbAudioStartSource") /\ StartSource("usb")

BluetoothStartSource ==
  /\ Takes("BluetoothStartSource")
  /\ (~screen.peer /\ Shows(screen)) \/ (screen.peer /\ StartSource("bt"))

\* The loop blocks until the old thread is away.
Joins ==
  /\ busy.at = "join"
  /\ LET i == busy.arg[1] IN
       /\ <<i, captures.held[i]>> \notin captures.running
       /\ captures' = [captures EXCEPT !.held[i] = Nobody]
       /\ busy' = [busy EXCEPT !.at = "capture"]
  /\ UNCHANGED <<screen, inbox, airplay, mutex, jobs, radio>>

\* The thread runs before the stream starts.
StartsCapture(i) ==
  /\ busy.at = "capture" /\ busy.arg = <<i>>
  /\ \/ busy' = [at |-> "select", arg |-> Nobody] /\ UNCHANGED captures
     \/ /\ captures.count < MaxCaptures
        /\ LET t == <<i, captures.count + 1>> IN
             /\ captures' = [captures EXCEPT !.count = @ + 1, !.running = @ \cup {t}]
             /\ busy' = [at |-> "stream", arg |-> t]
  /\ UNCHANGED <<screen, inbox, airplay, mutex, jobs, radio>>

\* start_usb_capture, after the equalizer was set under the lock.
StartUsbCapture == mutex = "free" /\ StartsCapture("usb")

\* start_capture on the BlueALSA device.
StartCapture == StartsCapture("bt")

\* The stream starts, or the new thread is told to stop.
StartsStream ==
  /\ busy.at = "stream" /\ mutex = "free"
  /\ \E r \in PlayStarts(airplay) :
       /\ airplay' = r.client /\ inbox' = inbox \o r.events
       /\ IF r.ok
          THEN /\ captures' = [captures EXCEPT !.held[busy.arg[1]] = busy.arg[2]]
               /\ screen' = [screen EXCEPT !.active = @ \cup {busy.arg[1]}]
               /\ busy' = [at |-> "select", arg |-> Nobody]
          ELSE /\ captures' = [captures EXCEPT !.told = @ \cup ({busy.arg} \cap captures.running)]
               /\ busy' = [busy EXCEPT !.at = "abort"]
               /\ UNCHANGED screen
  /\ UNCHANGED <<mutex, jobs, radio>>

AbortJoins ==
  /\ busy.at = "abort" /\ busy.arg \notin captures.running
  /\ busy' = [at |-> "select", arg |-> Nobody]
  /\ UNCHANGED <<screen, inbox, airplay, mutex, jobs, captures, radio>>

\* UsbAudioStopSource: the thread is told to stop and joined elsewhere, then the
\* client stops.
HandleStopSource ==
  /\ Takes("UsbAudioStopSource") /\ Replies(<<>>)
  /\ captures' = [Tells("usb") EXCEPT !.held["usb"] = Nobody]
  /\ busy' = [at |-> "stopping", arg |-> Nobody]
  /\ UNCHANGED <<screen, airplay, mutex, jobs, radio>>

StopsClient ==
  /\ busy.at = "stopping" /\ mutex = "free"
  /\ \E r \in PlaybackTurns(airplay, "Stopped") :
       airplay' = r.client /\ inbox' = inbox \o r.events
  /\ screen' = [screen EXCEPT !.active = @ \ {"usb"}]
  /\ busy' = [at |-> "select", arg |-> Nobody]
  /\ UNCHANGED <<mutex, jobs, captures, radio>>

\* A capture thread sees its flag within one receive, or fails on its own.
ThreadEnds(t) ==
  /\ t \in captures.running
  /\ captures' = [captures EXCEPT !.running = @ \ {t}]
  /\ UNCHANGED <<screen, inbox, busy, airplay, mutex, jobs, radio>>

UsbThreadEnds == \E t \in captures.running : t[1] = "usb" /\ ThreadEnds(t)
BluetoothThreadEnds == \E t \in captures.running : t[1] = "bt" /\ ThreadEnds(t)

-----------------------------------------------------------------------------
(* Bluetooth: jobs that run bluetoothctl and report.                       *)

Helper(what) == [what |-> what, at |-> "helper", asked |-> {}]

HandleBluetoothCheckSetup ==
  /\ Takes("BluetoothCheckSetup")
  /\ screen' = [screen EXCEPT !.checked = TRUE]
  /\ Replies(<<>>) \/ Replies(<<<<"BluetoothInitAdapter">>>>)
  /\ UNCHANGED <<busy, airplay, mutex, jobs, captures, radio>>

\* The actions that start a helper.
HandleBluetoothInitAdapter == Takes("BluetoothInitAdapter") /\ Spawns(Helper("init"), screen)
HandleBluetoothAutoInstall == Takes("BluetoothAutoInstall") /\ Spawns(Helper("check"), screen)
HandleBluetoothTogglePower ==
  /\ Takes("BluetoothTogglePower")
  /\ Spawns(Helper(IF screen.powered THEN "power off" ELSE "power on"), screen)
HandleBluetoothScan ==
  Takes("BluetoothScan") /\ Spawns(Helper("scan"), [screen EXCEPT !.searching = TRUE])
HandleBluetoothPair == Takes("BluetoothPair") /\ Spawns(Helper("pair"), screen)
HandleBluetoothConnect == Takes("BluetoothConnect") /\ Spawns(Helper("connect"), screen)

\* Without a peer the disconnect is reported at once.
HandleBluetoothDisconnect ==
  /\ Takes("BluetoothDisconnect")
  /\ \/ screen.peer /\ Spawns(Helper("disconnect"), screen)
     \/ /\ ~screen.peer /\ Replies(<<<<"BluetoothDisconnected">>>>)
        /\ UNCHANGED <<screen, busy, airplay, mutex, jobs, captures, radio>>

\* The source is no longer shown; its thread is left to fail by itself.
HandleBluetoothDisconnected ==
  /\ Takes("BluetoothDisconnected")
  /\ Shows([screen EXCEPT !.peer = FALSE, !.active = @ \ {"bt"}])

HandleBluetoothReport ==
  \/ Takes("BluetoothAdapterReady") /\ Shows([screen EXCEPT !.powered = Head(inbox)[2]])
  \/ Takes("BluetoothDevicesScanned") /\ Shows([screen EXCEPT !.searching = FALSE])
  \/ Takes("BluetoothConnected") /\ Shows([screen EXCEPT !.peer = TRUE])

\* What a helper leaves: the adapter, the actions it sends, the helper it becomes.
Leaves(adapter, sent) == [radio |-> adapter, sent |-> sent, next |-> <<>>]
Failed == Leaves(radio, <<>>)

\* is_adapter_powered, then the list of paired devices.
IsAdapterPowered ==
  {[Leaves(radio, <<<<"BluetoothAdapterReady", radio.powered>>>>)
      EXCEPT !.next = <<Helper("list")>>]}
GetPairedDevices == {Leaves(radio, <<<<"BluetoothDevicesScanned">>>>)}
GetDiscoveredDevices == {Leaves(radio, <<<<"BluetoothDevicesScanned">>>>)}
SetAdapterPower(on) ==
  {Leaves([radio EXCEPT !.powered = on], <<<<"BluetoothAdapterReady", on>>>>), Failed}
PairDevice == GetDiscoveredDevices \cup {Failed}
ConnectDevice == {Leaves([radio EXCEPT !.peer = TRUE], <<<<"BluetoothConnected">>>>), Failed}
DisconnectDevice ==
  {Leaves([radio EXCEPT !.peer = FALSE], <<<<"BluetoothDisconnected">>>>), Failed}

HelperEnds(k) ==
  /\ jobs[k].at = "helper"
  /\ \E r \in CASE jobs[k].what = "init" -> IsAdapterPowered
               [] jobs[k].what = "check" -> {Leaves(radio, <<<<"BluetoothCheckSetup">>>>)}
               [] jobs[k].what = "list" -> GetPairedDevices
               [] jobs[k].what = "scan" -> GetDiscoveredDevices
               [] jobs[k].what = "pair" -> PairDevice
               [] jobs[k].what = "connect" -> ConnectDevice
               [] jobs[k].what = "disconnect" -> DisconnectDevice
               [] jobs[k].what = "power on" -> SetAdapterPower(TRUE)
               [] jobs[k].what = "power off" -> SetAdapterPower(FALSE) :
       /\ radio' = r.radio /\ inbox' = inbox \o r.sent
       /\ jobs' = RemoveAt(jobs, k) \o r.next
  /\ UNCHANGED <<screen, busy, airplay, mutex, captures>>

-----------------------------------------------------------------------------
(* The terminal client as a whole.                                         *)

LoopSteps ==
  \/ HandleQuit \/ HandleToggleDeviceSelect
  \/ HandleScanDevices \/ HandleDevicesScanned \/ HandleSelectDevice
  \/ ConnectBegins \/ ConnectEnds \/ ConnectFails
  \/ HandleConnected \/ HandleDisconnected \/ HandleShowError
  \/ HandleGroupChanged \/ HandleGroupConnected \/ HandleDisbandGroup
  \/ HandlePlayPause \/ HandleStop \/ HandleSeekOrVolume
  \/ HandlePlaybackStateChanged \/ HandlePlaybackStarted \/ HandleSelectFile \/ HandleTick
  \/ UsbAudioStartSource \/ BluetoothStartSource
  \/ Joins \/ StartUsbCapture \/ StartCapture \/ StartsStream \/ AbortJoins \/ HandleStopSource \/ StopsClient
  \/ HandleBluetoothCheckSetup \/ HandleBluetoothInitAdapter \/ HandleBluetoothAutoInstall
  \/ HandleBluetoothTogglePower \/ HandleBluetoothScan \/ HandleBluetoothPair
  \/ HandleBluetoothConnect \/ HandleBluetoothDisconnect
  \/ HandleBluetoothDisconnected \/ HandleBluetoothReport

JobSteps(k) ==
  JobLocks(k) \/ JobWorks(k) \/ JobTimesOut(k) \/ JobReports(k) \/ HelperEnds(k)

TerminalNext ==
  \/ \E a \in KeyActions \cap screen.hand : Press(a)
  \/ TickFires
  \/ LoopSteps
  \/ ~screen.quit /\ \E k \in DOMAIN jobs : JobSteps(k)
  \/ UsbThreadEnds \/ BluetoothThreadEnds

-----------------------------------------------------------------------------
(* Properties.                                                             *)

\* What the queue may hold: keys, timer and the reports of the tasks.
Actions ==
  {"Quit", "Tick", "SelectDevice", "ScanDevices", "DevicesScanned", "Connected", "Disconnected",
   "ToggleDeviceSelect", "DisbandGroup", "GroupChanged", "GroupConnected", "SelectFile",
   "PlayPause", "Stop", "Seek", "Volume", "PlaybackStateChanged", "PlaybackStarted", "ShowError",
   "UsbAudioStartSource", "UsbAudioStopSource", "BluetoothCheckSetup", "BluetoothAutoInstall",
   "BluetoothInitAdapter", "BluetoothAdapterReady", "BluetoothScan", "BluetoothDevicesScanned",
   "BluetoothPair", "BluetoothConnect", "BluetoothConnected", "BluetoothDisconnect",
   "BluetoothDisconnected", "BluetoothStartSource", "BluetoothTogglePower"}

ActionQueue == \A i \in DOMAIN inbox : Head(inbox[i]) \in Actions

\* The devices, the connection and the playback of AppState.
AppState ==
  /\ screen.shown \in Rooms \cup {Nobody} /\ screen.playback \in {"Stopped", "Playing", "Paused"}
  /\ screen.marked \subseteq screen.listed /\ screen.linked \subseteq screen.listed

\* The source flags of UsbAudioState and BluetoothState, and the adapter.
SourceState ==
  /\ screen.active \subseteq Inputs
  /\ {screen.powered, screen.peer, radio.powered, radio.peer} \subseteq BOOLEAN

\* The loop and its handlers share the client with the spawned tasks.
App ==
  /\ mutex \in {"free", "loop", "job"}
  /\ busy.at \in {"select", "connectWait", "connecting", "join", "capture", "stream", "abort", "stopping"}
  /\ \A k \in DOMAIN jobs : jobs[k].at \in {"waiting", "working", "done", "helper"}

SharedClient == airplay.device \in Rooms \cup {Nobody} /\ airplay.members \subseteq Rooms

\* A capture thread holds its half of the shared state until it ends.
CaptureShared == captures.running \subseteq Inputs \X (1 .. captures.count)

TerminalTypeOK ==
  ActionQueue /\ AppState /\ SourceState /\ App /\ SharedClient /\ CaptureShared

Queued(a) == \E k \in DOMAIN inbox : inbox[k][1] = a

\* What ends a connection attempt on the screen.
Ends == {"Connected", "GroupConnected", "ShowError"}

\* A connection attempt shown as running has somebody who will end it: the loop
\* inside the attempt, a job, or a queued answer.
ConnectingHasACause ==
  screen.connecting =>
    \/ busy.at \in {"connectWait", "connecting"}
    \/ \E k \in DOMAIN jobs : jobs[k].what \in {"group"} \cup Ends
    \/ \E a \in Ends : Queued(a)

\* With nothing under way the device shown is the client's, unless a disconnect
\* was dismissed during an attempt that then failed.
ConnectionShown ==
  (busy.at = "select" /\ inbox = <<>> /\ jobs = <<>> /\ ~screen.missed)
    => screen.shown = airplay.device

\* A capture thread nobody told to stop is one the application can still tell:
\* it is held, or being started; so there is one per source, and the thread the
\* application holds was never told.
NoThreadLost ==
  /\ \A t \in captures.running \ captures.told :
       captures.held[t[1]] = t[2] \/ (busy.at = "stream" /\ busy.arg = t)
  /\ busy.at # "join" => \A i \in Inputs : <<i, captures.held[i]>> \notin captures.told

\* Whatever the loop blocks on comes: a thread it joins has been told to stop,
\* and a lock it waits for is held by a job that works within its budget.
WaitsEnd ==
  /\ busy.at = "join" =>
       <<busy.arg[1], captures.held[busy.arg[1]]>> \notin captures.running \ captures.told
  /\ busy.at = "abort" => busy.arg \notin captures.running \ captures.told
  /\ mutex = "job" => \E k \in DOMAIN jobs : jobs[k].at = "working"
  /\ mutex = "loop" => busy.at = "connecting"

TerminalSafe ==
  TerminalTypeOK /\ ConnectingHasACause /\ ConnectionShown /\ NoThreadLost /\ WaitsEnd
=============================================================================
