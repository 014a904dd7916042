---------------------------- MODULE CommandBatch -----------------------------
(***************************************************************************)
(* Shell commands on their way through the backend actor: the bounded      *)
(* queue and its receipts (apps/openaircast/src/backend/command.rs), the   *)
(* coalescing of one drained batch, the durable commit of each command,    *)
(* saved groups, calibration applies and the confirmations                 *)
(* (backend/controller.rs).                                                *)
(*                                                                         *)
(* A batch is processed one command per step: the actor waits for the disk *)
(* in each, while the shell goes on sending.  SetMaster stands for every   *)
(* durable scalar (mute, endpoint, latency, auto-connect, levels), which   *)
(* share its path.  The group file holds one group.                        *)
(***************************************************************************)
EXTENDS Naturals, Sequences, FiniteSets

CONSTANTS Selections,   \* sets of receivers a user selects
          GroupMembers, \* the members of the saved group
          Levels,       \* master volumes
          Flaky,        \* receivers that come and go, or fail and wait
          CommandCapacity, \* COMMAND_CAPACITY
          MaxSent,      \* bound: commands sent
          MaxFlaps      \* bound: changes of a flaky receiver

ASSUME BatchAssumption ==
  /\ GroupMembers \in Selections /\ {} \in Selections
  /\ \A s \in Selections : IsFiniteSet(s)
  /\ Levels # {} /\ CommandCapacity \in Nat \ {0} /\ {MaxSent, MaxFlaps} \subseteq Nat

VARIABLES
  inbox,        \* the command queue
  next_id,      \* DeviceBackendHandle.next_id
  work,         \* what the drained batch still has to execute, in order
  busy,         \* a batch is being processed
  stored,       \* the persisted document, in the actor and on disk
  shown,        \* desired_members and master_volume of the snapshot
  run_intent,   \* snapshot.run_intent
  desired_revision, \* snapshot.desired_revision
  cause,        \* the reconcile this batch owes
  floors,       \* group_start_confirmations
  receipts,     \* CommandReceipt by command id
  session_generation, \* generation of the newest reconcile
  built,      \* what the newest reconcile was made for, and without whom
  unready,      \* receivers that are not castable, or in backoff
  flaps,        \* changes of a flaky receiver so far
  sleeping,     \* suspended
  ended,        \* Shutdown ran
  profile,      \* the selection the stored calibration was made for
  cal_state,    \* CalibrationApplyState
  cal_pending,  \* calibration_pending_generation, 0 for None
  due_intent    \* history: the intent of the newest command in the batch

durable   == <<stored, shown, desired_revision>>
session   == <<session_generation, built, unready, flaps>>
calState  == <<profile, cal_state, cal_pending>>
batchVars == <<inbox, next_id, work, busy, stored, shown, run_intent,
               desired_revision, cause, floors, receipts, session_generation, built,
               unready, flaps, sleeping, ended, profile, cal_state, cal_pending, due_intent>>

Edges == {"Apply", "Activate", "Calibrate", "Suspend", "Shutdown"}
Nothing == "nothing"
AnyIntent == "any"

\* A command remembers what its author saw when it was sent.
Cmd(op, arg, confirmed) ==
  [id |-> next_id, op |-> op, arg |-> arg, confirmed |-> confirmed,
   seen |-> shown.desired, expected |-> desired_revision]

Commands ==
  {Cmd("SetDesired", s, FALSE) : s \in Selections}
    \cup {Cmd("SetRunIntent", i, FALSE) : i \in {"Running", "Stopped"}}
    \cup {Cmd("SetMaster", v, b) : v \in Levels, b \in BOOLEAN}
    \cup {Cmd("Apply", s, TRUE) : s \in Selections}
    \cup {Cmd("Activate", start, TRUE) : start \in BOOLEAN}
    \cup {Cmd(op, Nothing, TRUE) : op \in {"Calibrate", "Suspend", "Shutdown"}}

-----------------------------------------------------------------------------
(* The handle.                                                             *)

Open == [state |-> "open", error |-> Nothing, floor |-> 0]
Lost == [state |-> "lost", error |-> Nothing, floor |-> 0]
Answer(error, floor) == [state |-> "done", error |-> error, floor |-> floor]

\* try_send_envelope: a refused send spends its id.
TrySend ==
  /\ next_id < MaxSent /\ ~ended
  /\ next_id' = next_id + 1
  /\ \/ /\ Len(inbox) < CommandCapacity
        /\ \E c \in Commands :
             /\ inbox' = Append(inbox, c)
             /\ receipts' = IF c.confirmed
                  THEN [receipts EXCEPT ![next_id] = Open] ELSE receipts
     \/ Len(inbox) >= CommandCapacity /\ UNCHANGED <<inbox, receipts>>
  /\ UNCHANGED <<work, busy, durable, run_intent, cause, floors, session,
                 sleeping, ended, calState, due_intent>>

-----------------------------------------------------------------------------
(* PendingBatch::insert, over the whole drained queue.                     *)

Newest(op) == {i \in 1..Len(inbox) : inbox[i].op = op /\
                 \A j \in (i + 1)..Len(inbox) : inbox[j].op # op}
Slot(op) == [k \in 1..Cardinality(Newest(op)) |->
               inbox[CHOOSE i \in Newest(op) : TRUE]]

StopAfter(i) == \E j \in (i + 1)..Len(inbox) :
                  inbox[j].op = "SetRunIntent" /\ inbox[j].arg = "Stopped"

\* Faulty: a later Stop does not reach the edges queued before it.
EdgesUncancelled == SelectSeq(inbox, LAMBDA c : c.op \in Edges)

\* The edges in arrival order, queued one by one; a later Stop cancels the start
\* of a group.
EdgesKept ==
  LET kept[n \in 0..Len(inbox)] ==
        IF n = 0 THEN <<>>
        ELSE IF inbox[n].op \notin Edges THEN kept[n - 1]
        ELSE Append(kept[n - 1],
                    IF inbox[n].op = "Activate" /\ StopAfter(n)
                    THEN [inbox[n] EXCEPT !.arg = FALSE] ELSE inbox[n])
  IN  kept[Len(inbox)]

\* The confirmed requests nobody will answer: every confirmed master value but
\* the newest confirmed one, whose receipt the winning value answers.
Confirmed(i) == inbox[i].op = "SetMaster" /\ inbox[i].confirmed
Superseded == {inbox[i].id : i \in {k \in 1..Len(inbox) : Confirmed(k) /\
                 \E j \in (k + 1)..Len(inbox) : Confirmed(j)}}

\* The winning master value, with the receipt it answers in place of its own.
MasterSlot ==
  LET won == {i \in 1..Len(inbox) : Confirmed(i)} \ {i \in 1..Len(inbox) :
                 inbox[i].id \in Superseded}
  IN  [k \in 1..Len(Slot("SetMaster")) |->
         [Slot("SetMaster")[k] EXCEPT
            !.confirmed = (won # {}),
            !.id = IF won = {} THEN @ ELSE inbox[CHOOSE i \in won : TRUE].id]]

\* What the newest command that speaks of the run intent asks for.
BatchIntent ==
  LET speaks == {i \in 1..Len(inbox) : inbox[i].op = "SetRunIntent"
                   \/ (inbox[i].op = "Activate" /\ inbox[i].arg)}
      last == CHOOSE i \in speaks : \A j \in speaks : j <= i
  IN  IF \E i \in 1..Len(inbox) : inbox[i].op = "Shutdown" THEN AnyIntent
      ELSE IF speaks = {} THEN run_intent
      ELSE IF inbox[last].op = "Activate" THEN "Running" ELSE inbox[last].arg

\* One awaited receive, then everything that is there.
Drain ==
  /\ ~busy /\ ~ended /\ inbox # <<>>
  /\ busy' = TRUE
  /\ work' = Slot("SetDesired") \o Slot("SetRunIntent") \o MasterSlot
               \o EdgesKept
  /\ receipts' = [i \in DOMAIN receipts |-> IF i \in Superseded THEN Lost
                                            ELSE receipts[i]]
  /\ due_intent' = BatchIntent
  /\ inbox' = <<>>
  /\ cause' = Nothing /\ floors' = {}
  /\ UNCHANGED <<next_id, durable, run_intent, session, sleeping, ended,
                 calState>>

-----------------------------------------------------------------------------
(* The commands.                                                           *)

Executes(op) ==
  /\ busy /\ work # <<>> /\ Head(work).op = op
  /\ work' = Tail(work)
  /\ UNCHANGED <<inbox, next_id, busy, session>>

Confirm(error) ==
  receipts' = IF Head(work).confirmed
              THEN [receipts EXCEPT ![Head(work).id] = Answer(error, 0)]
              ELSE receipts

\* Faulty: a changed selection keeps its revision.
CommitUncounted(candidate, saved) ==
  IF saved THEN stored' = candidate /\ shown' = candidate /\ UNCHANGED desired_revision
  ELSE UNCHANGED durable

\* DurableCommit::run: the candidate is saved, then announced; a failed save
\* leaves both documents alone.
Commit(candidate, saved) ==
  IF saved
  THEN /\ stored' = candidate
       /\ shown' = candidate
       /\ desired_revision' = IF candidate.desired # stored.desired
                              THEN desired_revision + 1 ELSE desired_revision
  ELSE UNCHANGED durable

CommitError(saved) == IF saved THEN Nothing ELSE "Persistence"

\* The duplicate of a stored value is an accepted no-op.
Saves(candidate) == IF candidate = stored THEN {TRUE} ELSE BOOLEAN

\* SetDesiredMembers and ApplyDesiredMembers.
Select(op) ==
  /\ Executes(op)
  /\ LET candidate == [stored EXCEPT !.desired = Head(work).arg]
     IN  \E saved \in Saves(candidate) :
           /\ Commit(candidate, saved)
           /\ Confirm(CommitError(saved))
           /\ cause' = IF saved /\ candidate # stored THEN "Membership"
                       ELSE cause
  /\ UNCHANGED <<run_intent, floors, sleeping, ended, calState, due_intent>>

SetDesiredMembers == Select("SetDesired")
ApplyDesiredMembers == Select("Apply")

SetRunIntent ==
  /\ Executes("SetRunIntent")
  /\ run_intent' = Head(work).arg
  /\ cause' = IF run_intent' # run_intent THEN "Membership" ELSE cause
  /\ UNCHANGED <<durable, floors, receipts, sleeping, ended, calState,
                 due_intent>>

SetMasterVolume ==
  /\ Executes("SetMaster")
  /\ LET candidate == [stored EXCEPT !.master = Head(work).arg]
     IN  \E saved \in Saves(candidate) :
           Commit(candidate, saved) /\ Confirm(CommitError(saved))
  /\ UNCHANGED <<run_intent, cause, floors, sleeping, ended, calState,
                 due_intent>>

\* handle_activate_group: members and levels are one candidate; the start is
\* outside of it and happens also when nothing had to be written.
ActivateSavedGroup ==
  /\ Executes("Activate")
  /\ LET candidate == [stored EXCEPT !.desired = GroupMembers]
         start == Head(work).arg
     IN  \E saved \in Saves(candidate) :
           /\ Commit(candidate, saved)
           /\ run_intent' = IF start /\ saved THEN "Running" ELSE run_intent
           /\ cause' = IF cause = Nothing /\ saved
                            /\ (candidate # stored \/ run_intent' # run_intent)
                       THEN "SavedGroup" ELSE cause
           /\ IF start /\ saved
              THEN floors' = floors \cup {Head(work).id} /\ UNCHANGED receipts
              ELSE Confirm(CommitError(saved)) /\ UNCHANGED floors
           /\ due_intent' = IF saved THEN due_intent ELSE AnyIntent
  /\ UNCHANGED <<sleeping, ended, calState>>

\* handle_calibration, a reset included (which skips the second test).
Calibrate ==
  /\ Executes("Calibrate")
  /\ LET c == Head(work)
         judged == c.expected = desired_revision
                     /\ Cardinality(shown.desired) >= 2
     IN  \E saved \in BOOLEAN :
           IF judged /\ saved
           THEN /\ profile' = c.seen
                /\ cal_state' = "PendingRestart"
                /\ cause' = "Calibration"
                /\ Confirm(Nothing)
           ELSE /\ cal_state' = "Failed"
                /\ Confirm(IF judged THEN "Persistence" ELSE "Rejected")
                /\ UNCHANGED <<profile, cause>>
  /\ UNCHANGED <<durable, run_intent, floors, sleeping, ended, cal_pending,
                 due_intent>>

\* NotifySystem(Suspending).
Suspend ==
  /\ Executes("Suspend")
  /\ sleeping' = TRUE
  /\ Confirm(Nothing)
  /\ UNCHANGED <<durable, run_intent, cause, floors, ended, calState,
                 due_intent>>

\* Shutdown: what is left of the batch, and of the queue, is dropped.
Shutdown ==
  /\ busy /\ work # <<>> /\ Head(work).op = "Shutdown"
  /\ work' = <<>> /\ inbox' = <<>>
  /\ ended' = TRUE
  /\ LET left == {work[i].id : i \in 2..Len(work)}
                   \cup {inbox[i].id : i \in 1..Len(inbox)}
     IN  receipts' = [i \in DOMAIN receipts |->
           IF i = Head(work).id THEN Answer(Nothing, 0)
           ELSE IF i \in left /\ receipts[i].state = "open" THEN Lost
           ELSE receipts[i]]
  /\ UNCHANGED <<next_id, busy, durable, run_intent, cause, floors, session,
                 sleeping, calState, due_intent>>

-----------------------------------------------------------------------------
(* The end of a batch.                                                     *)

NoAttempt == [for |-> {}, without |-> {}]
pending_desired == built.for \ built.without

\* What request_reconcile hands down: the newest selection, without those that
\* cannot be connected now; nothing for a stopped app.
Mint(left_out) ==
  /\ session_generation' = session_generation + 1
  /\ built' = IF run_intent = "Running"
                THEN [for |-> shown.desired, without |-> left_out] ELSE NoAttempt

\* Whether `active` is empty is up to the session (Backend.tla), which was given
\* nothing before the first attempt.
IdleSession == IF session_generation = 0 THEN {TRUE} ELSE BOOLEAN

\* Faulty: whoever is already being connected is not asked for again.
RequestReconcileBuilding(why) ==
  IF why = Nothing \/ sleeping \/ pending_desired # {}
     \/ (run_intent = "Stopped" /\ pending_desired = {})
  THEN UNCHANGED <<session, cal_pending>>
  ELSE Mint(unready) /\ UNCHANGED <<unready, flaps, cal_pending>>

\* request_reconcile: a sleeping or stopped and idle app builds nothing.
RequestReconcile(why) ==
  \E idle \in IdleSession :
    IF \/ why = Nothing \/ sleeping
       \/ run_intent = "Stopped" /\ idle /\ pending_desired = {}
    THEN UNCHANGED <<session, cal_pending>>
    ELSE /\ Mint(unready)
         /\ cal_pending' = IF why = "Calibration" THEN session_generation + 1
                           ELSE cal_pending
         /\ UNCHANGED <<unready, flaps>>

\* A suspended start is answered by the generation the resume mints.
Floor == IF sleeping THEN session_generation' + 1 ELSE session_generation'

Finish ==
  /\ busy /\ work = <<>>
  /\ busy' = FALSE
  /\ RequestReconcile(cause)
  /\ receipts' = [i \in DOMAIN receipts |->
                    IF i \in floors THEN Answer(Nothing, Floor) ELSE receipts[i]]
  /\ floors' = {} /\ cause' = Nothing
  /\ UNCHANGED <<inbox, next_id, work, durable, run_intent, sleeping, ended,
                 profile, cal_state, due_intent>>

\* finish_resume: release_backoff frees whoever only waits.
FinishResume ==
  /\ ~busy /\ ~ended /\ sleeping
  /\ sleeping' = FALSE
  /\ unready' \in SUBSET unready
  /\ IF run_intent = "Running" THEN Mint(unready')
     ELSE UNCHANGED <<session_generation, built>>
  /\ UNCHANGED <<inbox, next_id, work, busy, durable, run_intent, cause, floors,
                 receipts, flaps, ended, calState, due_intent>>

\* Between two batches a receiver is lost to discovery or to its backoff, or is
\* back.
ReceiversChange ==
  /\ ~busy /\ ~ended /\ flaps < MaxFlaps
  /\ flaps' = flaps + 1
  /\ \E r \in Flaky :
       unready' = IF r \in unready THEN unready \ {r} ELSE unready \cup {r}
  /\ UNCHANGED <<inbox, next_id, work, busy, durable, run_intent, cause, floors,
                 receipts, session_generation, built, sleeping, ended, calState,
                 due_intent>>

\* fire_due_retries, a moved binding (which frees those in backoff) and a failed
\* primary (which has just joined them) build again on their own; of a stopped app
\* only the last, when a session was still up.
RebuildUnasked ==
  /\ ~busy /\ ~ended /\ ~sleeping /\ flaps < MaxFlaps
  /\ run_intent = "Running" \/ session_generation > 0
  /\ flaps' = flaps + 1
  /\ unready' \in SUBSET Flaky
  /\ Mint(unready')
  /\ UNCHANGED <<inbox, next_id, work, busy, durable, run_intent, cause, floors,
                 receipts, sleeping, ended, calState, due_intent>>

\* An Active edge of the newest generation: settle_calibration_generation.
SessionActive ==
  /\ ~busy /\ ~ended /\ pending_desired # {}
  /\ cal_pending # 0 /\ session_generation >= cal_pending
  /\ cal_pending' = 0
  /\ cal_state' = "Applied"
  /\ UNCHANGED <<inbox, next_id, work, busy, durable, run_intent, cause, floors,
                 receipts, session, sleeping, ended, profile, due_intent>>

\* A receipt is open until its one confirmation, or lost with its envelope.
CommandReceipt ==
  [state : {"open", "lost", "done"}, error : {Nothing, "Persistence", "Rejected"},
   floor : Nat]

CommandQueue ==
  /\ Len(inbox) <= CommandCapacity /\ next_id \in 0..MaxSent
  /\ \A i \in 1..Len(inbox) : inbox[i].id < next_id
  /\ receipts \in [0..MaxSent -> CommandReceipt]

\* Of the scalar slots at most one command each; the edges in arrival order.
PendingBatch ==
  /\ ~busy => work = <<>>
  /\ \A i, j \in 1..Len(work) :
       i < j => IF work[i].op \in Edges /\ work[j].op \in Edges
                THEN work[i].id < work[j].id ELSE work[i].op # work[j].op

BatchInit ==
  /\ inbox = <<>> /\ next_id = 0 /\ work = <<>> /\ busy = FALSE
  /\ stored = [desired |-> {}, master |-> CHOOSE v \in Levels : TRUE]
  /\ shown = stored
  /\ run_intent = "Stopped"
  /\ desired_revision = 0
  /\ cause = Nothing /\ floors = {}
  /\ receipts = [i \in 0..MaxSent |-> Lost]
  /\ session_generation = 0 /\ built = NoAttempt
  /\ unready = {} /\ flaps = 0
  /\ sleeping = FALSE /\ ended = FALSE
  /\ profile = {} /\ cal_state = "None" /\ cal_pending = 0
  /\ due_intent = "Stopped"

BatchNext ==
  \/ TrySend \/ Drain
  \/ SetDesiredMembers \/ ApplyDesiredMembers \/ SetRunIntent \/ SetMasterVolume
  \/ ActivateSavedGroup \/ Calibrate \/ Suspend \/ Shutdown
  \/ Finish \/ FinishResume \/ ReceiversChange \/ RebuildUnasked \/ SessionActive

-----------------------------------------------------------------------------
(* Properties.                                                             *)

\* Persist before publish: no step of a batch, with any of its saves failing,
\* shows the shell a durable value that is not on disk.
ShownIsStored == shown = stored

\* Coalescing keeps the user's last word on running: scalars run before edges,
\* yet the batch leaves the intent of its newest command.
NewestIntentWins == ~busy => due_intent \in {AnyIntent, run_intent}

\* Exact receipts: once everything sent has been executed, no receipt is open,
\* and an edge that ran was answered; only superseded or dropped work is lost.
ReceiptsSettled ==
  ~busy /\ inbox = <<>> => \A i \in DOMAIN receipts : receipts[i].state # "open"

\* A group start is answered by an attempt at what the user selected: the floor of
\* its receipt is an attempt still to be announced, or the newest one, which was
\* made for exactly the selection shown.  That attempt need not carry all of it:
\* whoever could not be connected when it was made is left to fire_due_retries.
FloorAnswersStart ==
  \A i \in DOMAIN receipts :
       receipts[i].state = "open" /\ receipts'[i].floor # 0
         => \/ receipts'[i].floor > session_generation
            \/ ~sleeping' /\ built.for = shown'.desired

\* The lost-update guard of a calibration: delays are only stored for the
\* selection their author was looking at.
CalibrationFitsSelection ==
  profile' # profile => profile' = shown.desired

\* A batch leaves the user's newest intent, durable values and no open receipt.
BatchHonest ==
  CommandQueue /\ PendingBatch /\ ShownIsStored /\ NewestIntentWins /\ ReceiptsSettled

\* What a step of a batch answers or stores fits the selection it is about.
AnswersFit == [][FloorAnswersStart /\ CalibrationFitsSelection]_batchVars
============================================================================
