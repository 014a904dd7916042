------------------------------- MODULE MCShell -------------------------------
(***************************************************************************)
(* The front ends, for TLC: the desktop shell's session window, what the   *)
(* window draws, its settings, and the terminal client.  A behaviour       *)
(* exercises one of them; the others stay in their initial state.          *)
(***************************************************************************)
EXTENDS ShellSession, ShellWindow, ShellSettings, TerminalClient

\* The keys of the terminal that matter to each other.
MCKeySets ==
  {{"SelectDevice", "ScanDevices", "ToggleDeviceSelect", "DisbandGroup"},
   {"SelectDevice", "SelectFile", "PlayPause", "Stop"},
   {"SelectDevice", "UsbAudioStartSource", "UsbAudioStopSource"},
   {"SelectDevice", "BluetoothStartSource", "BluetoothDisconnect", "BluetoothConnect"},
   {"BluetoothCheckSetup", "BluetoothScan", "BluetoothPair", "BluetoothAutoInstall",
    "BluetoothTogglePower", "Seek", "Volume", "Quit"}}

\* Users of the window, and what goes on while they use it.
MCHabits ==
  {[acts |-> {"Toggle", "Apply", "Discard", "Navigate"}, news |-> {"Desired", "Fail"},
    most_acts |-> 3, most_news |-> 1],
   [acts |-> {"Toggle", "Header", "Save"}, news |-> {"Fail", "Rows"},
    most_acts |-> 3, most_news |-> 1],
   [acts |-> {"Toggle", "Apply", "Discard"}, news |-> {"Desired", "Fail", "Rows"},
    most_acts |-> 2, most_news |-> 2],
   [acts |-> {"Volume", "Header"}, news |-> {"Fail", "Gone"}, most_acts |-> 2, most_news |-> 1],
   [acts |-> {"Endpoint", "Mute", "Latency", "Level"}, news |-> {"Devices"},
    most_acts |-> 2, most_news |-> 2],
   [acts |-> {"Header", "Hotkey", "Quit"}, news |-> {"Session"}, most_acts |-> 2, most_news |-> 1],
   [acts |-> {"Header", "Notice"}, news |-> {"Session"}, most_acts |-> 1, most_news |-> 2],
   [acts |-> {"Refresh", "Notice"}, news |-> {"Search", "Gone"}, most_acts |-> 2, most_news |-> 2]}

\* Users of the settings page, and how much goes wrong meanwhile.
MCTastes ==
  {[acts |-> {"Look", "Frame", "Retry"}, edits |-> 2, faults |-> 1, launches |-> 2,
    files |-> {"absent", "v1", "v2", "corrupt"}],
   [acts |-> {"Hotkey", "Locale"}, edits |-> 2, faults |-> 1, launches |-> 1,
    files |-> {"v1"}],
   [acts |-> {"Look", "Hotkey", "Quit"}, edits |-> 2, faults |-> 0, launches |-> 1,
    files |-> {"v1"}],
   [acts |-> {"Look", "BadFrame", "Error", "Quit"}, edits |-> 2, faults |-> 1, launches |-> 1,
    files |-> {"v1"}]}

VARIABLE part   \* the component that runs in this behaviour

\* One component runs; the others stay where they started.
Only(p) ==
  /\ part = p /\ UNCHANGED part
  /\ (p # "shell" => UNCHANGED shellVars)
  /\ (p # "window" => UNCHANGED windowVars)
  /\ (p # "settings" => UNCHANGED settingsVars)
  /\ (p # "terminal" => UNCHANGED terminalVars)

MCInit ==
  /\ part \in {"shell", "window", "settings", "terminal"}
  /\ ShellInit /\ (part # "shell" => menu = CHOOSE m \in Menus : TRUE)
  /\ WindowInit /\ (part # "window" => habit = CHOOSE h \in Habits : TRUE)
  /\ SettingsInit /\ (part # "settings" => taste = (CHOOSE t \in Tastes : TRUE) /\ folder.file.kind = "v1")
  /\ TerminalInit /\ (part # "terminal" => screen.marked = {} /\ "SelectFile" \in screen.hand)

MCNext ==
  \/ Only("shell") /\ ShellNext
  \/ Only("window") /\ WindowNext
  \/ Only("settings") /\ SettingsNext
  \/ Only("terminal") /\ TerminalNext

vars == <<part, shellVars, windowVars, settingsVars, terminalVars>>

MCSafety == MCInit /\ [][MCNext]_vars

\* What the window says and what its controls do (WindowHonest, WindowSafe,
\* SettingsSafe): it shows what the backend does, no control it draws is dead, and
\* a setting is kept or the user is told that it was not.
ShellHonest ==
  /\ part = "shell" => WindowHonest
  /\ part = "window" => WindowSafe
  /\ part = "settings" => SettingsSafe
==============================================================================
