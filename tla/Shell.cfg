\* The front ends.  Users of the session (two of start, stop and group start each,
\* one with the hearing test, one with the hotkey who quits), the users of the drawn
\* window and of the settings page (MCHabits, MCTastes), and the terminal client.
SPECIFICATION MCSafety
CONSTANTS
  EventRoom = 1  MaxPresses = 3  MaxAttempts = 2  MaxTrouble = 1
  Menus = {{"PressStart", "PressStop"}, {"PressStop", "GroupStart"},
           {"Prepare", "CheckStart", "Heard", "Configure"}, {"Hotkey", "Quit"}}
  Rooms = {1, 2}  KeySets <- MCKeySets  MaxKeys = 3  MaxJobs = 2  MaxCaptures = 2
  Rows = {1, 2}  Habits <- MCHabits  Devices = {1, 2}  Gated = {"Low"}  CommandRoom = 1
  Chords = {1, 2}  Tastes <- MCTastes  SaveRoom = 1  KeyRoom = 1  ReportRoom = 1
INVARIANTS
  ShellHonest
  TerminalSafe
PROPERTIES
  NoSnapBack
CHECK_DEADLOCK FALSE
