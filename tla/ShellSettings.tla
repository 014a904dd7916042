---------------------------- MODULE ShellSettings ----------------------------
(***************************************************************************)
(* The settings of the desktop shell: what the reducer does with an edit   *)
(* (apps/openaircast/src/app/reducer.rs), the worker that writes them to   *)
(* settings.json after a debounce (src/preferences.rs), the thread that    *)
(* owns the global hotkey (src/platform/hotkey.rs) and the coordinator of  *)
(* a bounded exit (src/app/mod.rs).                                        *)
(*                                                                         *)
(* The actor, the three threads and the death of the process interleave.   *)
(* A write is its four steps, so the process can die between any two.      *)
(***************************************************************************)
EXTENDS Naturals, Sequences

CONSTANTS Chords,    \* key combinations
          Tastes,    \* what a user does, how often, and how much goes wrong
          SaveRoom,  \* COMMAND_CHANNEL_CAPACITY of the preferences worker
          KeyRoom,   \* COMMAND_CAPACITY of the hotkey thread
          ReportRoom  \* what the actor's queue has left for these reports

ASSUME SettingsAssumption ==
  /\ Chords \subseteq Nat \ {0} /\ Chords # {}
  /\ {SaveRoom, KeyRoom, ReportRoom} \subseteq Nat \ {0}
  /\ \A t \in Tastes : {t.edits, t.faults, t.launches} \subseteq Nat
  /\ \A t \in Tastes : t.acts \subseteq
       {"Look", "Locale", "Frame", "BadFrame", "Hotkey", "Retry", "Error", "Quit"}

VARIABLES
  prefs,   \* the part of AppState that is persisted, and the notice
  saver,   \* the preferences worker: its queue, its DebounceState, its step
  folder,  \* settings.json, settings.json.tmp and the legacy hotkey file
  hotkeys, \* the hotkey thread: commands, posted messages, HotkeyEngine
  actor,   \* the actor's queue, and a wake-up it still has to post
  exit,    \* the shutdown coordinator
  taste,   \* what this user does
  used,    \* edits, faults and launches so far
  unsaid   \* history: reports that never reached the screen

settingsVars == <<prefs, saver, folder, hotkeys, actor, exit, taste, used, unsaid>>

-----------------------------------------------------------------------------
(* Values and files.                                                       *)

\* Looks stands for the theme, the page and the advanced switch.
Looks == {"System", "Dark"}
Locales == {"System", "German"}
Frames == {"default", "wide"}

Binding(on, chord) == [on |-> on, chord |-> chord]
Bindings == [on : BOOLEAN, chord : Chords]

FirstChord == CHOOSE c \in Chords : \A d \in Chords : c <= d
DefaultPrefs == [hotkey |-> Binding(TRUE, FirstChord), look |-> "System",
                 locale |-> "System", frame |-> "default"]

\* differs_only_in_window
OnlyFrame(old, new) == [old EXCEPT !.frame = new.frame] = new

\* A file is absent, of schema 1 or 2, or unreadable; synced once its bytes
\* are known to be on the medium.
File(kind, value) == [kind |-> kind, value |-> value, synced |-> TRUE]
NoFile == File("absent", DefaultPrefs)

\* PreferencesV1::migrate: what schema 1 did not know takes its default.
Migrated(v) == [v EXCEPT !.locale = "System"]

\* PreferencesRepository::load
Load(f) ==
  CASE f.file.kind = "v2" -> [value |-> f.file.value, notice |-> "none"]
    [] f.file.kind = "v1" -> [value |-> Migrated(f.file.value), notice |-> "none"]
    [] f.file.kind = "corrupt" -> [value |-> DefaultPrefs, notice |-> "settings"]
    [] f.legacy = "valid" ->
         [value |-> [DefaultPrefs EXCEPT !.hotkey = Binding(TRUE, FirstChord)],
          notice |-> "none"]
    [] f.legacy = "invalid" -> [value |-> DefaultPrefs, notice |-> "settings"]
    [] OTHER -> [value |-> DefaultPrefs, notice |-> "none"]

-----------------------------------------------------------------------------
(* The reducer: each operator takes a state to a state and an effect.      *)

Idle == [op |-> "nothing"]

\* persist_preferences: the whole current value at a fresh generation.
Persisting(s) ==
  [s EXCEPT !.gen = @ + 1, !.outcome = "none",
            !.effect = [op |-> "save", gen |-> s.gen + 1, value |-> s.value]]

\* navigate, theme_changed, locale_changed, advanced_information_changed
Changed(s, value) ==
  IF value = s.value THEN s ELSE Persisting([s EXCEPT !.value = value])

\* window_geometry_changed
FrameChanged(s, frame) ==
  IF frame = "invalid" THEN [s EXCEPT !.notice = "invalid"]
  ELSE Changed(s, [s.value EXCEPT !.frame = frame])

\* hotkey_changed: nothing is shown until the thread has answered.
HotkeyChanged(s, binding) ==
  IF s.value.hotkey = binding THEN s
  ELSE [s EXCEPT !.hotkey_gen = @ + 1,
                 !.effect = [op |-> "hotkey", gen |-> s.hotkey_gen + 1, value |-> binding]]

\* hotkey_reconfigured
HotkeyReconfigured(s, e) ==
  IF e.gen # s.hotkey_gen THEN s
  ELSE LET t == [s EXCEPT !.value.hotkey = e.applied,
                          !.notice = IF e.failed THEN "hotkey" ELSE @]
       IN  IF t.value = s.value /\ t.notice = s.notice THEN t ELSE Persisting(t)

\* preferences_persist_failed: an error on screen keeps its slot.
PersistFailed(s, gen) ==
  IF gen # s.gen \/ s.notice = "error" THEN s ELSE [s EXCEPT !.notice = "persist"]

\* preferences_persisted: only the notice of a failed write is retired.
Persisted(s, gen) ==
  IF gen = s.gen /\ s.notice = "persist" THEN [s EXCEPT !.notice = "none"] ELSE s

\* quit_requested; the window's and the session's share is ShellWindow's.
Quit(s) ==
  IF s.quitting THEN s
  ELSE LET t == Persisting([s EXCEPT !.quitting = TRUE])
       IN  [t EXCEPT !.effect.op = "quit"]

\* What the user, the display driver and the session do to this state.
Edits(s, act) ==
  CASE act = "Look" -> {Changed(s, [s.value EXCEPT !.look = l]) : l \in Looks}
    [] act = "Locale" -> {Changed(s, [s.value EXCEPT !.locale = l]) : l \in Locales}
    [] act = "Frame" -> {FrameChanged(s, f) : f \in Frames}
    [] act = "BadFrame" -> {FrameChanged(s, "invalid")}
    [] act = "Hotkey" -> {HotkeyChanged(s, b) : b \in Bindings}
    [] act = "Retry" -> IF s.notice = "persist" THEN {Persisting(s)} ELSE {}
    [] act = "Error" -> {[s EXCEPT !.notice = "error"]}
    [] act = "Quit" -> {Quit(s)}

\* A failed write of the newest value that the screen no longer tells.
Hidden(s, t) ==
  IF s.notice = "persist" /\ t.notice \notin {"persist", "none"} THEN {"save"} ELSE {}

-----------------------------------------------------------------------------
(* The executor: what an effect does to the queues.  a is the actor after  *)
(* it took the event, u the history.                                       *)

\* AppEventSender::try_send: a full queue costs the report.
Reported(a, e) ==
  IF Len(a.inbox) < ReportRoom THEN [a EXCEPT !.inbox = Append(@, e)] ELSE a

Dropped(a, what) == IF Len(a.inbox) < ReportRoom THEN {} ELSE {what}

Report(op, gen, applied, failed) ==
  [op |-> op, gen |-> gen, applied |-> applied, failed |-> failed]
SaveReport(op, gen) == Report(op, gen, DefaultPrefs.hotkey, FALSE)

\* PreferencesWorkerHandle::try_schedule
Schedule(s, a, u) ==
  LET room == saver.step # "gone" /\ Len(saver.queue) < SaveRoom
  IN  /\ saver' = IF ~room THEN saver
                  ELSE [saver EXCEPT !.queue = Append(@,
                          [op |-> "save", gen |-> s.effect.gen, value |-> s.effect.value])]
      /\ prefs' = [s EXCEPT !.effect = Idle, !.outcome = IF room THEN "none" ELSE "failed"]
      /\ actor' = IF room THEN a ELSE Reported(a, SaveReport("failed", s.effect.gen))
      /\ unsaid' = (u \ {"save", "saved"}) \cup (IF room THEN {} ELSE Dropped(a, "save"))

\* HotkeyServiceHandle::try_reconfigure; the wake-up is a step of its own.
Reconfigure(s, a, u) ==
  LET ended == hotkeys.at = "done"
      room == ~ended /\ Len(hotkeys.queue) < KeyRoom
  IN  /\ hotkeys' = IF ~room THEN hotkeys
                 ELSE [hotkeys EXCEPT !.queue = Append(@,
                         [op |-> "configure", gen |-> s.effect.gen, value |-> s.effect.value])]
      /\ prefs' = [s EXCEPT !.effect = Idle]
      /\ actor' = CASE room -> [a EXCEPT !.posting = TRUE]
                    [] ended -> Reported(a, SaveReport("closed", 0))
                    [] OTHER -> a
      /\ unsaid' = IF room THEN u ELSE u \cup {"key"}

\* ServiceExecutor::execute
Perform(s, a, u) ==
  CASE s.effect.op = "nothing" ->
         prefs' = s /\ actor' = a /\ unsaid' = u /\ UNCHANGED <<saver, hotkeys, exit>>
    [] s.effect.op = "save" -> Schedule(s, a, u) /\ UNCHANGED <<hotkeys, exit>>
    [] s.effect.op = "hotkey" -> Reconfigure(s, a, u) /\ UNCHANGED <<saver, exit>>
    [] s.effect.op = "quit" ->
         Schedule(s, a, u) /\ exit' = [exit EXCEPT !.step = "device"] /\ UNCHANGED hotkeys

UserEdits ==
  /\ ~actor.posting /\ exit.step # "closed" /\ used.edits < taste.edits
  /\ \E act \in taste.acts : \E s \in Edits(prefs, act) :
       s # prefs /\ Perform(s, actor, unsaid \cup Hidden(prefs, s))
  /\ used' = [used EXCEPT !.edits = @ + 1]
  /\ UNCHANGED <<folder, taste>>

\* run_actor, for the reports of the worker and of the hotkey thread.
Heard(s, e) ==
  CASE e.op = "saved" -> Persisted(s, e.gen)
    [] e.op = "failed" -> PersistFailed(s, e.gen)
    [] e.op = "closed" -> [s EXCEPT !.notice = "error"]
    [] e.op = "hotkey" -> HotkeyReconfigured(s, e)

Hear ==
  /\ ~actor.posting /\ actor.inbox # <<>> /\ exit.step # "closed"
  /\ LET e == Head(actor.inbox)
         s == Heard(prefs, e)
         current == e.op = "hotkey" /\ e.gen = prefs.hotkey_gen
         outranked == e.op = "failed" /\ e.gen = prefs.gen /\ s.notice # "persist"
     IN  Perform(s, [actor EXCEPT !.inbox = Tail(@)],
                 (unsaid \ (IF current THEN {"key"} ELSE {}))
                   \cup Hidden(prefs, s) \cup (IF outranked THEN {"save"} ELSE {}))
  /\ UNCHANGED <<folder, taste, used>>

\* wake_thread: nothing is posted before the thread has stored its id.
PostWake ==
  /\ actor.posting
  /\ actor' = [actor EXCEPT !.posting = FALSE]
  /\ hotkeys' = [hotkeys EXCEPT !.posts = IF hotkeys.at = "start" THEN @ ELSE Append(@, "configure")]
  /\ UNCHANGED <<prefs, saver, folder, exit, taste, used, unsaid>>

-----------------------------------------------------------------------------
(* The preferences worker.  The clock counts STANDARD_DEBOUNCE_MS.         *)

Standard == 1
Geometry == 2

NoSave == [gen |-> 0, value |-> DefaultPrefs, left |-> 0]
Waiting == saver.pending.gen # 0

\* DebounceState::offer
Offer(p, c) ==
  LET reference == IF p.gen # 0 THEN p.value ELSE saver.committed
      known == p.gen # 0 \/ saver.has_committed
  IN  IF c.gen < p.gen THEN p
      ELSE [gen |-> c.gen, value |-> c.value,
            left |-> IF known /\ OnlyFrame(reference, c.value) THEN Geometry ELSE Standard]

\* recv_timeout returned a command before the deadline.
SaverTakes ==
  /\ saver.step = "idle" /\ saver.queue # <<>> /\ (Waiting => saver.pending.left > 0)
  /\ LET c == Head(saver.queue)
         rest == [saver EXCEPT !.queue = Tail(@)]
     IN  saver' = CASE c.op = "save" -> [rest EXCEPT !.pending = Offer(@, c)]
                    [] c.op = "flush" /\ Waiting ->
                         [rest EXCEPT !.step = "create", !.doing = saver.pending,
                                      !.pending = NoSave, !.flushing = TRUE]
                    [] c.op = "flush" /\ ~Waiting ->
                         [rest EXCEPT !.step = "gone", !.flushing = TRUE]
  /\ UNCHANGED <<prefs, folder, hotkeys, actor, exit, taste, used, unsaid>>

TimePasses ==
  /\ Waiting /\ saver.pending.left > 0
  /\ saver' = [saver EXCEPT !.pending.left = @ - 1]
  /\ UNCHANGED <<prefs, folder, hotkeys, actor, exit, taste, used, unsaid>>

\* take_due
SaverDue ==
  /\ saver.step = "idle" /\ Waiting /\ saver.pending.left = 0
  /\ saver' = [saver EXCEPT !.step = "create", !.doing = saver.pending, !.pending = NoSave]
  /\ UNCHANGED <<prefs, folder, hotkeys, actor, exit, taste, used, unsaid>>

\* The end of commit: the outcome is reported, and a flush ends the thread.
Committed(ok) ==
  /\ saver' = [saver EXCEPT !.step = IF saver.flushing THEN "gone" ELSE "idle",
                            !.doing = NoSave,
                            !.committed = IF ok THEN saver.doing.value ELSE @,
                            !.has_committed = @ \/ ok]
  /\ actor' = Reported(actor, SaveReport(IF ok THEN "saved" ELSE "failed", saver.doing.gen))
  /\ LET newest == saver.doing.gen = prefs.gen
     IN  /\ prefs' = [prefs EXCEPT !.outcome = IF ~newest THEN @
                                               ELSE IF ok THEN "saved" ELSE "failed"]
         /\ unsaid' = IF newest THEN unsaid \cup Dropped(actor, IF ok THEN "saved" ELSE "save")
                      ELSE unsaid

\* A step of save_atomic that returns an error; what it leaves of the
\* temporary file stays there, except that a failed move removes it.
WriteFails ==
  /\ saver.step \in {"create", "write", "sync", "move"} /\ used.faults < taste.faults
  /\ used' = [used EXCEPT !.faults = @ + 1]
  /\ folder' = [folder EXCEPT !.tmp =
       CASE saver.step = "create" -> @
         [] saver.step = "move" -> NoFile
         [] OTHER -> [@ EXCEPT !.kind = "corrupt"]]
  /\ Committed(FALSE)
  /\ UNCHANGED <<hotkeys, exit, taste>>

\* save_atomic: the temporary file is created empty, filled, and synced.
Fill ==
  /\ saver.step \in {"create", "write", "sync"}
  /\ saver' = [saver EXCEPT !.step = CASE @ = "create" -> "write" [] @ = "write" -> "sync"
                                       [] @ = "sync" -> "move"]
  /\ folder' = [folder EXCEPT !.tmp =
       [kind |-> IF saver.step = "create" THEN "corrupt" ELSE "v2",
        value |-> saver.doing.value, synced |-> saver.step = "sync"]]
  /\ UNCHANGED <<prefs, hotkeys, actor, exit, taste, used, unsaid>>

\* replace_file
Move ==
  /\ saver.step = "move"
  /\ folder' = [folder EXCEPT !.file = folder.tmp, !.tmp = NoFile, !.ours = TRUE]
  /\ Committed(TRUE)
  /\ UNCHANGED <<hotkeys, exit, taste, used>>

-----------------------------------------------------------------------------
(* The hotkey thread.  live is the chord Windows has registered, 0 none.   *)

\* HotkeyEngine::apply, where taken is what other programs hold.
Registered(k, wanted, taken) ==
  LET restored == k.applied.chord \notin taken
  IN  CASE ~wanted.on -> [applied |-> wanted, live |-> 0, failed |-> FALSE]
        [] wanted.on /\ wanted.chord \notin taken ->
             [applied |-> wanted, live |-> wanted.chord, failed |-> FALSE]
        [] OTHER ->
             [applied |-> IF restored THEN k.applied ELSE [k.applied EXCEPT !.on = FALSE],
              live |-> IF restored THEN k.applied.chord ELSE 0, failed |-> TRUE]

\* What other programs hold when the thread registers; a clash is a fault.
Clashes == {{}} \cup (IF used.faults < taste.faults THEN SUBSET Chords \ {{}} ELSE {})
Spend(taken) == used' = [used EXCEPT !.faults = IF taken = {} THEN @ ELSE @ + 1]

\* The thread stores its id and registers the stored chord; a failure of that
\* registration is reported to nobody.
KeysStart ==
  /\ hotkeys.at = "start"
  /\ \E taken \in Clashes :
       LET r == Registered(hotkeys, hotkeys.applied, taken)
       IN  /\ hotkeys' = [hotkeys EXCEPT !.at = "drain", !.applied = r.applied, !.live = r.live]
           /\ unsaid' = IF r.applied = hotkeys.applied THEN unsaid ELSE unsaid \cup {"key"}
           /\ Spend(taken)
  /\ UNCHANGED <<prefs, saver, folder, actor, exit, taste>>

\* engine.shutdown, after the loop.
KeysEnd(k) == [k EXCEPT !.at = "done", !.live = 0, !.applied.on = FALSE]

\* process_message(WM_APP_CONFIGURE): every queued command is applied.
KeysDrain ==
  /\ hotkeys.at = "drain" /\ hotkeys.queue # <<>>
  /\ LET c == Head(hotkeys.queue)
         rest == [hotkeys EXCEPT !.queue = Tail(@)]
     IN  \/ /\ c.op = "shutdown" /\ hotkeys' = KeysEnd(rest)
            /\ UNCHANGED <<actor, unsaid, used>>
         \/ /\ c.op = "configure"
            /\ \E taken \in Clashes :
                 LET r == Registered(hotkeys, c.value, taken)
                 IN  /\ hotkeys' = [rest EXCEPT !.applied = r.applied, !.live = r.live]
                     /\ actor' = Reported(actor, Report("hotkey", c.gen, r.applied, r.failed))
                     /\ unsaid' = unsaid \cup Dropped(actor, "key")
                     /\ Spend(taken)
  /\ UNCHANGED <<prefs, saver, folder, exit, taste>>

\* GetMessageW blocks once the queue is drained.
KeysWait ==
  /\ hotkeys.at = "drain" /\ hotkeys.queue = <<>>
  /\ hotkeys' = [hotkeys EXCEPT !.at = "wait"]
  /\ UNCHANGED <<prefs, saver, folder, actor, exit, taste, used, unsaid>>

KeysWake ==
  /\ hotkeys.at = "wait" /\ hotkeys.posts # <<>>
  /\ LET rest == [hotkeys EXCEPT !.posts = Tail(@)]
     IN  hotkeys' = IF Head(hotkeys.posts) = "shutdown" THEN KeysEnd(rest)
                 ELSE [rest EXCEPT !.at = "drain"]
  /\ UNCHANGED <<prefs, saver, folder, actor, exit, taste, used, unsaid>>

-----------------------------------------------------------------------------
(* The bounded exit: each stage ends by itself or by its budget.           *)

\* The device stage (BackendShutdown) is SessionSupervisor's and Backend's.
ExitDevice ==
  /\ exit.step = "device"
  /\ exit' = [exit EXCEPT !.step = "hotkey"]
  /\ UNCHANGED <<prefs, saver, folder, hotkeys, actor, taste, used, unsaid>>

\* shutdown_and_wait: a full queue is tried again until the budget is spent.
ExitHotkey ==
  /\ exit.step = "hotkey"
  /\ \/ /\ hotkeys.at # "done" /\ Len(hotkeys.queue) < KeyRoom
        /\ hotkeys' = [hotkeys EXCEPT !.queue = Append(@, [op |-> "shutdown"])]
        /\ exit' = [exit EXCEPT !.step = "wake"]
     \/ /\ hotkeys.at = "done" \/ Len(hotkeys.queue) = KeyRoom
        /\ exit' = [exit EXCEPT !.step = "flush"]
        /\ UNCHANGED hotkeys
  /\ UNCHANGED <<prefs, saver, folder, actor, taste, used, unsaid>>

ExitWake ==
  /\ exit.step = "wake"
  /\ hotkeys' = [hotkeys EXCEPT !.posts = IF hotkeys.at = "start" THEN @ ELSE Append(@, "shutdown")]
  /\ exit' = [exit EXCEPT !.step = "await"]
  /\ UNCHANGED <<prefs, saver, folder, actor, taste, used, unsaid>>

\* done was seen, or the budget is spent.
ExitAwait ==
  /\ exit.step = "await"
  /\ exit' = [exit EXCEPT !.step = "flush"]
  /\ UNCHANGED <<prefs, saver, folder, hotkeys, actor, taste, used, unsaid>>

\* flush_preferences: a full queue gives up the flush, and the last value.
ExitFlush ==
  /\ exit.step = "flush"
  /\ \/ /\ Len(saver.queue) < SaveRoom
        /\ saver' = [saver EXCEPT !.queue = Append(@, [op |-> "flush"])]
        /\ exit' = [exit EXCEPT !.step = "ack",
                       !.due = IF saver.queue # <<>> THEN saver.queue[Len(saver.queue)].gen
                               ELSE IF Waiting THEN saver.pending.gen ELSE saver.doing.gen]
     \/ /\ Len(saver.queue) = SaveRoom
        /\ exit' = [exit EXCEPT !.step = "closed"]
        /\ UNCHANGED saver
  /\ UNCHANGED <<prefs, folder, hotkeys, actor, taste, used, unsaid>>

\* The worker acknowledged, or PREFERENCE_FLUSH_BUDGET is spent; either way
\* CloseApplication is queued.
ExitClose ==
  /\ exit.step = "ack"
  /\ exit' = [exit EXCEPT !.step = "closed", !.flushed = saver.step = "gone"]
  /\ UNCHANGED <<prefs, saver, folder, hotkeys, actor, taste, used, unsaid>>

-----------------------------------------------------------------------------
(* A launch, and the end of the process at any moment.                     *)

\* run, initial_state
Launched(f) ==
  LET loaded == Load(f)
  IN  [prefs |-> [value |-> loaded.value, notice |-> loaded.notice, gen |-> 0,
                  hotkey_gen |-> 0, quitting |-> FALSE, outcome |-> "none", effect |-> Idle],
       saver |-> [queue |-> <<>>, pending |-> NoSave, doing |-> NoSave, step |-> "idle",
                  committed |-> DefaultPrefs, has_committed |-> FALSE, flushing |-> FALSE],
       hotkeys |-> [queue |-> <<>>, posts |-> <<>>, at |-> "start",
                 applied |-> loaded.value.hotkey, live |-> 0],
       actor |-> [inbox |-> <<>>, posting |-> FALSE],
       exit |-> [step |-> "none", flushed |-> FALSE, due |-> 0]]

OldPrefs == [hotkey |-> Binding(TRUE, FirstChord), look |-> "Dark",
             locale |-> "German", frame |-> "wide"]

SettingsInit ==
  /\ taste \in Tastes
  /\ \E file \in {NoFile, File("v1", OldPrefs), File("v2", OldPrefs), File("corrupt", OldPrefs)},
        legacy \in {"absent", "valid", "invalid"} :
       /\ file # NoFile => legacy = "absent"
       /\ file.kind \in taste.files
       /\ folder = [file |-> file, tmp |-> NoFile, legacy |-> legacy, ours |-> FALSE]
  /\ LET f == Launched(folder)
     IN  /\ prefs = f.prefs /\ saver = f.saver /\ hotkeys = f.hotkeys
         /\ actor = f.actor /\ exit = f.exit /\ unsaid = {}
  /\ used = [edits |-> 0, faults |-> 0, launches |-> 1]

\* The process ends, by itself or by a loss of power, and is started again.
\* Bytes that were never synced are gone with the power.
Relaunch ==
  /\ used.launches < taste.launches
  /\ used' = [used EXCEPT !.launches = @ + 1]
  /\ \E file \in {folder.file} \cup
                 (IF folder.file.synced THEN {} ELSE {[folder.file EXCEPT !.kind = "corrupt"]}) :
       folder' = [folder EXCEPT !.file = file, !.tmp.kind =
                    IF folder.tmp.synced THEN @ ELSE "corrupt"]
  /\ LET f == Launched(folder')
     IN  /\ prefs' = f.prefs /\ saver' = f.saver /\ hotkeys' = f.hotkeys
         /\ actor' = f.actor /\ exit' = f.exit /\ unsaid' = {}
  /\ UNCHANGED taste

Saving == SaverTakes \/ TimePasses \/ SaverDue \/ WriteFails \/ Fill \/ Move
Registering == KeysStart \/ KeysDrain \/ KeysWait \/ KeysWake
Exiting == ExitDevice \/ ExitHotkey \/ ExitWake \/ ExitAwait \/ ExitFlush \/ ExitClose

SettingsNext == UserEdits \/ Hear \/ PostWake \/ Saving \/ Registering \/ Exiting \/ Relaunch

SettingsSpec == SettingsInit /\ [][SettingsNext]_settingsVars

-----------------------------------------------------------------------------
(* What the settings promise.                                              *)

\* What the window shows of the settings, and what the user was told of them.
PreferencesShown ==
  /\ prefs.notice \in {"none", "persist", "hotkey", "invalid", "error", "settings"}
  /\ prefs.outcome \in {"none", "saved", "failed"} /\ prefs.effect = Idle
  /\ prefs.value.hotkey \in Bindings /\ prefs.value.look \in Looks

\* The files of PreferencesPaths.
SettingsFiles ==
  {folder.file.kind, folder.tmp.kind} \subseteq {"absent", "v1", "v2", "corrupt"}

\* At most one save is pending beside the one being written.
DebounceState ==
  /\ Len(saver.queue) <= SaveRoom
  /\ saver.step \in {"idle", "create", "write", "sync", "move", "gone"}

HotkeyEngine ==
  /\ Len(hotkeys.queue) <= KeyRoom /\ hotkeys.applied \in Bindings
  /\ hotkeys.live \in Chords \cup {0}

\* AppEventSender: a report that meets a full queue is lost.
AppFeedback == Len(actor.inbox) <= ReportRoom /\ unsaid \subseteq {"save", "saved", "key"}

ShutdownStages ==
  exit.step \in {"none", "device", "hotkey", "wake", "await", "flush", "ack", "closed"}

SettingsTypeOK ==
  /\ PreferencesShown /\ SettingsFiles /\ DebounceState
  /\ HotkeyEngine /\ AppFeedback /\ ShutdownStages

\* Nothing is under way between the reducer and the file.
SaverRests ==
  /\ saver.step = "idle" /\ saver.queue = <<>> /\ ~Waiting
  /\ actor.inbox = <<>> /\ ~actor.posting

\* save_atomic: whatever the process was doing when it died, a settings file
\* this program wrote is a complete one, so a launch never falls back to the
\* defaults because of its own writing.
FileWhole == folder.ours => folder.file.kind = "v2"

\* DebounceState::offer, commit: once the newest generation is reported saved,
\* the file holds the newest value: no older value was written over it and no
\* outcome was reported for another change's content.
NewestOnDisk ==
  prefs.outcome = "saved" => folder.file.kind = "v2" /\ folder.file.value = prefs.value

\* preferences_persist_failed: when nothing is under way any more, a change is on
\* disk or the screen says that it is not, unless an error outranked the notice,
\* another notice took its place, or the actor's queue had no room for it.
SavedOrTold ==
  SaverRests /\ prefs.gen > 0 /\ "save" \notin unsaid =>
    \/ prefs.outcome = "saved"
    \/ prefs.outcome = "failed" /\ prefs.notice = "persist"

\* preferences_persisted: the notice of a failed write does not outlive a write of
\* the newest value that was heard of.
FailureNoticeTrue ==
  SaverRests /\ prefs.notice = "persist" /\ "saved" \notin unsaid => prefs.outcome = "failed"

\* try_reconfigure, run_message_loop: the hotkey thread never sleeps on a command
\* whose wake-up has been posted and taken.
NoLostWake ==
  hotkeys.at = "wait" /\ hotkeys.queue # <<>> =>
    hotkeys.posts # <<>> \/ actor.posting \/ exit.step = "wake"

\* hotkey_reconfigured: once the thread has answered and been heard, the settings
\* show the binding in force, unless a command or a report was dropped or the
\* registration at launch failed; and Windows holds that chord.  The exception is
\* a switched off chord that a failed replacement restored.
HotkeyShown ==
  (hotkeys.at = "wait" /\ hotkeys.queue = <<>> /\ hotkeys.posts = <<>>
     /\ actor.inbox = <<>> /\ ~actor.posting) =>
    /\ "key" \notin unsaid => prefs.value.hotkey = hotkeys.applied
    /\ hotkeys.applied.on => hotkeys.live = hotkeys.applied.chord
    /\ hotkeys.live \in {0, hotkeys.applied.chord}

\* flush_preferences: an exit that was acknowledged wrote every change that was
\* queued before it, the one Quit queued included, or reported the failure.
ExitSaves ==
  exit.flushed /\ exit.due = prefs.gen => prefs.outcome \in {"saved", "failed"}

SettingsSafe ==
  /\ SettingsTypeOK
  /\ FileWhole
  /\ NewestOnDisk
  /\ SavedOrTold
  /\ FailureNoticeTrue
  /\ NoLostWake
  /\ HotkeyShown
  /\ ExitSaves
=============================================================================
