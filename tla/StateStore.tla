----------------------------- MODULE StateStore ------------------------------
(***************************************************************************)
(* The device-state file of apps/openaircast/src/backend/persistence.rs    *)
(* and the launch and commits that use it (backend/controller.rs): load    *)
(* with quarantine and legacy migration, atomic replacement through a      *)
(* temporary file, the calibration section that rides along, and a process *)
(* that may die between any two of these steps.                            *)
(*                                                                         *)
(* A document is its schema version, its preferences (base) and its        *)
(* calibration; of bytes that are not a document only the reason matters.  *)
(***************************************************************************)
EXTENDS Naturals, FiniteSets

CONSTANTS Bases,        \* preference documents
          Calibrations, \* calibration sections
          Default,      \* PersistedStateV1::default
          Legacy,       \* defaults with the volume of volume.txt, if there is one
          NoCalibration,\* CalibrationStateV2::default
          MaxSaves,     \* bound: commits
          MaxFaults     \* bound: crashes, failing calls, foreign documents

ASSUME StoreAssumption ==
  /\ Default \in Bases /\ Legacy \in Bases /\ NoCalibration \in Calibrations
  /\ MaxSaves \in Nat /\ MaxFaults \in Nat

VARIABLES
  file,        \* state-v1.json
  tmp,         \* state-v1.json.tmp
  quarantine,  \* what lies in .corrupt- files
  process,     \* "down", "loading", "up", or "refused": the launch failed
  persisted,   \* the actor's durable document
  calibration, \* the actor's calibration
  write,       \* the atomic write under way
  acked,       \* history: what the callers were told is saved
  limbo,       \* history: the same with the change of the save under way
  damaged,     \* history: bytes that were no document or could not be read, and
               \* Absent once a migration could not be written
  saves, faults

storeVars == <<file, tmp, quarantine, process, persisted, calibration, write,
               acked, limbo, damaged, saves, faults>>
memory    == <<persisted, calibration>>
history   == <<acked, limbo>>

Doc(v, b, c) == [kind |-> v, base |-> b, cal |-> c]
V1(b)    == Doc("v1", b, NoCalibration)
V2(b, c) == Doc("v2", b, c)
Absent   == Doc("absent", Default, NoCalibration)
Torn     == Doc("torn", Default, NoCalibration)

\* What parse_state_document and validate accept, and what they refuse: bytes
\* of an unknown version, a version-2 shape violated, no version at all, or a
\* document that parses and is not valid.
Documents == {V1(b) : b \in Bases} \cup {V2(b, c) : b \in Bases, c \in Calibrations}
Invalid   == Doc("invalid", Default, NoCalibration)
Bad == {Doc(k, Default, NoCalibration) :
          k \in {"unknown_version", "malformed_v2", "unrecognizable"}} \cup {Invalid}

\* Everything a path can hold, and a launch by the outcome of its load.
Contents == Documents \cup Bad \cup {Absent, Torn}

FileStore ==
  /\ file \in Contents /\ tmp \in Contents
  /\ quarantine \subseteq Contents \ {Absent}

LoadOutcome ==
  /\ process \in {"down", "migrating", "loading", "up", "refused"}
  /\ persisted \in Bases /\ calibration \in Calibrations

\* What a launch makes of the state file.
BaseOf(d) == CASE d \in Documents -> d.base [] d = Absent -> Legacy [] OTHER -> Default
CalOf(d)  == IF d \in Documents /\ d.kind = "v2" THEN d.cal ELSE NoCalibration
ValueOf(d) == <<BaseOf(d), CalOf(d)>>

NoWrite == [stage |-> "none", of |-> "nothing", doc |-> Absent]
Begin(of, doc) == [stage |-> "create", of |-> of, doc |-> doc]

Fault == faults < MaxFaults /\ faults' = faults + 1

-----------------------------------------------------------------------------
(* Launch.                                                                 *)

\* The reader takes what it finds for saved.
Found(d) == acked' = ValueOf(d) /\ limbo' = ValueOf(d)

LoadDocument ==
  /\ process = "down" /\ file \in Documents
  /\ process' = "loading" /\ persisted' = file.base /\ Found(file)
  /\ UNCHANGED <<file, tmp, quarantine, calibration, write, damaged, saves, faults>>

\* The bytes are renamed aside.
QuarantineCorrupt == file' = Absent /\ quarantine' = quarantine \cup {file}

\* Bytes that are no document, or a document that cannot be read.
LoadCorrupt ==
  /\ process = "down" /\ file \notin {Absent, Invalid}
  /\ IF file \in Documents THEN Fault ELSE UNCHANGED faults
  /\ QuarantineCorrupt /\ damaged' = damaged \cup {file}
  /\ process' = "loading" /\ persisted' = Default /\ Found(Absent)
  /\ UNCHANGED <<tmp, calibration, write, saves>>

\* The launch ends with an error: validate refused the document, or what should
\* be quarantined could not be renamed.
LoadRefused ==
  /\ process = "down" /\ process' = "refused"
  /\ \/ file = Invalid /\ UNCHANGED faults
     \/ file \in Bad \ {Invalid} /\ Fault
  /\ UNCHANGED <<file, tmp, quarantine, memory, write, history, damaged, saves>>

\* load_missing: a legacy volume seeds the defaults and is written at once.
LoadMissing ==
  /\ process = "down" /\ file = Absent /\ Found(Absent)
  /\ persisted' = Legacy
  /\ IF Legacy = Default THEN process' = "loading" /\ UNCHANGED write
     ELSE process' = "migrating" /\ write' = Begin("migration", V1(Legacy))
  /\ UNCHANGED <<file, tmp, quarantine, calibration, damaged, saves, faults>>

\* The calibration of the same file; one that cannot be read does not refuse
\* the launch.
LoadCalibration ==
  /\ process = "loading" /\ process' = "up"
  /\ \/ calibration' = CalOf(file) /\ UNCHANGED faults
     \/ calibration' = NoCalibration /\ Fault
  /\ UNCHANGED <<file, tmp, quarantine, persisted, write, history, damaged, saves>>

-----------------------------------------------------------------------------
(* Commits.                                                                *)

\* Faulty: an ordinary save forgets the calibration on disk.
CarriedV1(b) == V1(b)

\* write_atomic_sync: the calibration on disk rides along.
Carried(b) == IF file.kind = "v2" THEN V2(b, file.cal) ELSE V1(b)

\* save_calibration: the preferences on disk, defaults if there is no file.
Merge(c) == V2(IF file \in Documents THEN file.base ELSE Default, c)

CanCommit == process = "up" /\ write = NoWrite /\ saves < MaxSaves

Save ==
  /\ CanCommit /\ saves' = saves + 1
  /\ \E b \in Bases \ {persisted} :
       write' = Begin("save", Carried(b)) /\ limbo' = <<b, acked[2]>>
  /\ UNCHANGED <<file, tmp, quarantine, process, memory, acked, damaged, faults>>

SaveCalibration ==
  /\ CanCommit /\ saves' = saves + 1
  /\ \E c \in Calibrations :
       write' = Begin("calibration", Merge(c)) /\ limbo' = <<acked[1], c>>
  /\ UNCHANGED <<file, tmp, quarantine, process, memory, acked, damaged, faults>>

\* Both refuse to write over a file they cannot read.
SaveCannotRead ==
  /\ CanCommit /\ saves' = saves + 1 /\ Fault
  /\ UNCHANGED <<file, tmp, quarantine, process, memory, write, history, damaged>>

CreateTemporary ==
  /\ write.stage = "create" /\ write' = [write EXCEPT !.stage = "fill"]
  /\ tmp' = Torn
  /\ UNCHANGED <<file, quarantine, process, memory, history, damaged, saves, faults>>

\* Written, flushed and synced.
FillTemporary ==
  /\ write.stage = "fill" /\ write' = [write EXCEPT !.stage = "replace"]
  /\ tmp' = write.doc
  /\ UNCHANGED <<file, quarantine, process, memory, history, damaged, saves, faults>>

Replace ==
  /\ write.stage = "replace" /\ write' = [write EXCEPT !.stage = "ack"]
  /\ file' = tmp /\ tmp' = Absent
  /\ UNCHANGED <<quarantine, process, memory, history, damaged, saves, faults>>

\* A migration that could not be written is only logged.
AfterWrite == IF write.of = "migration" THEN "loading" ELSE process

\* Any step of a write may fail: the destination stays, and only a failed
\* replacement removes the temporary file.
WriteFails ==
  /\ write.stage \in {"create", "fill", "replace"} /\ Fault
  /\ write' = NoWrite /\ process' = AfterWrite /\ limbo' = acked
  /\ tmp' = IF write.stage = "replace" THEN Absent ELSE tmp
  /\ damaged' = damaged \cup (IF write.of = "migration" THEN {Absent} ELSE {})
  /\ UNCHANGED <<file, quarantine, memory, acked, saves>>

\* The caller publishes what it saved.
Acknowledge ==
  /\ write.stage = "ack" /\ write' = NoWrite /\ process' = AfterWrite
  /\ acked' = limbo
  /\ persisted' = IF write.of = "save" THEN write.doc.base ELSE persisted
  /\ calibration' = IF write.of = "calibration" THEN write.doc.cal ELSE calibration
  /\ UNCHANGED <<file, tmp, quarantine, limbo, damaged, saves, faults>>

-----------------------------------------------------------------------------
(* The world.                                                              *)

Crash ==
  /\ process # "down" /\ Fault
  /\ process' = "down" /\ write' = NoWrite
  /\ UNCHANGED <<file, tmp, quarantine, memory, history, damaged, saves>>

Quit ==
  /\ process \in {"up", "refused"} /\ write = NoWrite /\ process' = "down"
  /\ UNCHANGED <<file, tmp, quarantine, memory, write, history, damaged, saves, faults>>

\* A newer build, or an editor, leaves bytes this build cannot use.
ForeignDocument ==
  /\ process = "down" /\ file \notin Bad /\ Fault
  /\ \E d \in Bad \ damaged : file' = d /\ damaged' = damaged \cup {d}
  /\ UNCHANGED <<tmp, quarantine, process, memory, write, history, saves>>

StoreInit ==
  /\ file = Absent /\ tmp = Absent /\ quarantine = {}
  /\ process = "down"
  /\ persisted = Default /\ calibration = NoCalibration
  /\ write = NoWrite
  /\ acked = ValueOf(Absent) /\ limbo = ValueOf(Absent)
  /\ damaged = {}
  /\ saves = 0 /\ faults = 0

StoreNext ==
  \/ LoadDocument \/ LoadCorrupt \/ LoadRefused \/ LoadMissing
  \/ LoadCalibration
  \/ Save \/ SaveCalibration \/ SaveCannotRead
  \/ CreateTemporary \/ FillTemporary \/ Replace \/ WriteFails \/ Acknowledge
  \/ Crash \/ Quit \/ ForeignDocument

-----------------------------------------------------------------------------
(* Properties.                                                             *)

\* A reader finds a whole document: whatever the process died in the middle of,
\* the state file holds what was acknowledged last or what was being written
\* then, preferences and calibration both, unless a foreign program or a read
\* error damaged it ("ordinary volume or group saves never drop persisted
\* calibration").
AckedSurvives ==
  damaged = {} => file # Torn /\ ValueOf(file) \in {acked, limbo}

\* Persist before publish: with no write under way, what the running process
\* announces is what the next launch would load, also after failed saves.
MemoryIsDurable ==
  damaged = {} /\ process = "up" /\ write = NoWrite
    => persisted = BaseOf(file)

\* "Nothing is deleted, so the evidence survives": bytes a launch could not use
\* are still in the state file or beside it.
EvidenceKept ==
  \A d \in damaged \ {Absent} : d \in quarantine \cup {file}

\* The state file across crashes, failed saves and foreign damage.
StoreSafe == FileStore /\ LoadOutcome /\ AckedSurvives /\ MemoryIsDurable /\ EvidenceKept
============================================================================
