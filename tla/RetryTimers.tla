----------------------------- MODULE RetryTimers -----------------------------
(***************************************************************************)
(* The recovery policy of apps/openaircast/src/backend/recovery.rs with    *)
(* its clock: the backoff ladder, the healthy window that resets it, the   *)
(* rejoin limiter, the startup auto-connect window, and the controller's   *)
(* two timer arms that consume them (backend/controller.rs).               *)
(*                                                                         *)
(* Instants are kept relative to now.  A deadline is the time left until   *)
(* it, 0 once it has passed; the start of a window is the time since then, *)
(* capped at the longest span it is ever compared with.  Elapse moves them *)
(* all.  The session is seen through its edges only.                       *)
(***************************************************************************)
EXTENDS ReceiverMachine, Integers, Sequences, FiniteSets

CONSTANTS Receivers,
          Base,               \* RetryPolicy.base, shortest delay first
          JitterPercent,      \* RetryPolicy.jitter_percent
          MaxRetryDelay,      \* MAX_RETRY_DELAY
          HealthyResetAfter,  \* RetryPolicy.healthy_reset_after
          StableFor,          \* REJOIN_ONLINE_STABLE_FOR
          Spacing,            \* REJOIN_RESTART_SPACING
          AutoWindow,         \* length of the startup auto-connect window
          MaxAttempt,         \* where the attempt counter saturates
          MaxOutside          \* bound: commands, flaps and sleeps

ASSUME TimersAssumption ==
  /\ Base \in Seq(Nat \ {0}) /\ Base # <<>>
  /\ JitterPercent \in 0..99
  /\ {MaxRetryDelay, HealthyResetAfter, StableFor, AutoWindow, MaxOutside} \subseteq Nat
  /\ MaxAttempt \in Nat \ {0} /\ Spacing \in Nat \ {0}

Never == -1   \* an Option<Instant> that is None

VARIABLES
  attempt,          \* ReceiverRetryEntry.attempt
  next_retry,       \* ReceiverRetryEntry.next_retry
  streaming_since,  \* ReceiverRetryEntry.streaming_since
  online_since,     \* RejoinRestartLimiter.online_since
  last_restart,     \* RejoinRestartLimiter.last_rejoin_restart
  row,              \* the receiver machines; every receiver is desired
  wantsRun,         \* snapshot.run_intent = Running
  asleep,           \* suspended
  asked,            \* pending_desired
  awaited,          \* the next edge of the newest generation: "none", "queued"
                    \* (Starting or the end of it) or "starting" (its outcome)
  stopping,         \* the Stopped edge of a suspend is on its way
  auto_until,       \* startup_auto_connect_until
  outside           \* bound only

entries     == <<attempt, next_retry, streaming_since>>
limiter     == <<online_since, last_restart>>
timerVars   == <<attempt, next_retry, streaming_since, online_since,
                 last_restart, row, wantsRun, asleep, asked, awaited, stopping,
                 auto_until, outside>>
sessionSide == <<asked, awaited, stopping>>

\* What happens outside is bounded.
Outside == outside < MaxOutside /\ outside' = outside + 1

-----------------------------------------------------------------------------
(* RetryPolicy.                                                            *)

AtMost(a, b)  == IF a <= b THEN a ELSE b
AtLeast(a, b) == IF a >= b THEN a ELSE b

\* The delay at a given hash, already reduced modulo the odd span.
ScaleWithHash(base, hash) ==
  AtMost((base * (100 + hash - JitterPercent)) \div 100, MaxRetryDelay)

\* The hash of an identity and an attempt is fixed but arbitrary: its extremes
\* and its middle stand for it.
Hashes == {0, JitterPercent, 2 * JitterPercent}

Delay(n, hash) == ScaleWithHash(Base[AtMost(n, Len(Base) - 1) + 1], hash)

-----------------------------------------------------------------------------
(* RetryState, on the entry of one receiver.                               *)

Entry(r) == [attempt |-> attempt[r], next |-> next_retry[r],
             since |-> streaming_since[r]]

NoteFailure(e, hash) ==
  LET n == AtMost(e.attempt + 1, MaxAttempt)
  IN  [attempt |-> n, next |-> Delay(n - 1, hash), since |-> Never]

NoteStreaming(e) ==
  IF e.since = Never THEN [e EXCEPT !.since = 0]
  ELSE IF e.since >= HealthyResetAfter
  THEN [e EXCEPT !.attempt = 0, !.next = Never] ELSE e

ClearDeadline(e) == [e EXCEPT !.next = Never]

\* The entries after an operation on some of them.
SetEntries(after) ==
  /\ attempt' = [r \in Receivers |-> after[r].attempt]
  /\ next_retry' = [r \in Receivers |-> after[r].next]
  /\ streaming_since' = [r \in Receivers |-> after[r].since]

-----------------------------------------------------------------------------
(* RejoinRestartLimiter: the time left until each gate opens.              *)

EligibleIn(r) == IF online_since[r] = Never THEN Never
                 ELSE StableFor - AtMost(online_since[r], StableFor)

MayRejoin(r) == EligibleIn(r) = 0

GroupAllowedIn == IF last_restart = Never THEN 0 ELSE Spacing - last_restart

\* Faulty: a receiver that serves its backoff is not a candidate.
RejoinInSkipsBackoff(r) ==
  IF asleep \/ ~wantsRun \/ row[r].state.label # "Discovered"
       \/ EligibleIn(r) = Never
  THEN Never
  ELSE AtLeast(AtLeast(EligibleIn(r), next_retry[r]), GroupAllowedIn)

\* rejoin_candidates, of one receiver: the latest of the three gates.
RejoinIn(r) ==
  IF asleep \/ ~wantsRun \/ ~AwaitingRejoin(row[r]) \/ EligibleIn(r) = Never
  THEN Never
  ELSE AtLeast(AtLeast(EligibleIn(r), next_retry[r]), GroupAllowedIn)

Due == {r \in Receivers : RejoinIn(r) = 0}

\* auto_connect_delay.
AutoConnectIn ==
  LET waits == {EligibleIn(r) : r \in Receivers} \cap 0..auto_until
  IN  IF asleep \/ waits = {} THEN Never
      ELSE CHOOSE w \in waits : \A v \in waits : w <= v

-----------------------------------------------------------------------------
(* The controller's reconcile, on the rows it is asked with.               *)

\* What request_reconcile hands down; every castable receiver has a window.
WantedNow(table) == {r \in Receivers : online_since[r] # Never
                                        /\ ~InBackoff(table[r])}

Streaming(table) == {r \in Receivers : table[r].state.label = "Streaming"}

Reconcile(table) ==
  /\ UNCHANGED stopping
  /\ IF asleep' \/ (~wantsRun' /\ Streaming(table) = {} /\ asked = {})
     THEN UNCHANGED <<asked, awaited>>
     ELSE /\ asked' = IF wantsRun' THEN WantedNow(table) ELSE {}
          /\ awaited' = "queued"

Released(S) == [r \in Receivers |-> IF r \in S THEN RetryNow(row[r]).machine
                                    ELSE row[r]]
EntryCleared(S) == [r \in Receivers |-> IF r \in S THEN ClearDeadline(Entry(r))
                                   ELSE Entry(r)]

\* Faulty: the restart is not counted against the spacing.
FireDueRetriesUncounted ==
  /\ Due # {} /\ SetEntries(EntryCleared(Due)) /\ row' = Released(Due)
  /\ UNCHANGED <<limiter, wantsRun, asleep, auto_until, outside>>
  /\ Reconcile(row')

\* One coordinated restart for everybody who is due.
FireDueRetries ==
  /\ Due # {} /\ SetEntries(EntryCleared(Due)) /\ row' = Released(Due)
  /\ last_restart' = 0
  /\ UNCHANGED <<online_since, wantsRun, asleep, auto_until, outside>>
  /\ Reconcile(row')

\* apply_startup_auto_connect, when its timer fires: it disarms in any case.
AutoConnect ==
  /\ AutoConnectIn = 0 /\ auto_until' = Never
  /\ wantsRun \/ \E r \in Receivers : MayRejoin(r)
  /\ wantsRun' = TRUE
  /\ UNCHANGED <<entries, limiter, row, asleep, outside>>
  /\ IF wantsRun THEN UNCHANGED sessionSide ELSE Reconcile(row)

-----------------------------------------------------------------------------
(* apply_session_update, for the edges of the newest generation.                 *)

TakeStarting ==
  /\ awaited = "queued" /\ asked # {} /\ ~stopping
  /\ awaited' = "starting"
  /\ row' = [r \in Receivers |-> IF r \in asked THEN BeginGeneration(row[r]).machine
                                 ELSE row[r]]
  /\ UNCHANGED <<entries, limiter, wantsRun, asleep, asked, stopping, auto_until,
                 outside>>

\* note_receiver_failure: the row, and the ladder of a retryable failure.
FailedRow(m, retryable) ==
  LET n == Fail(m, retryable).machine
  IN  IF retryable THEN WaitRetry(n).machine ELSE n

FailedEntry(e, retryable, hash) ==
  IF retryable THEN NoteFailure(NoteStreaming(e), hash) ELSE e

\* The members of the group stream; whoever else was asked for failed, for good
\* if the failure says so.
TakeActive ==
  /\ awaited = "starting" /\ awaited' = "none"
  /\ \E members \in SUBSET asked, hash \in [Receivers -> Hashes] :
       /\ members # {}
       /\ \E hopeless \in SUBSET (asked \ members), primary \in members :
            LET RoleIn(r) == IF members = {r} THEN "Single"
                             ELSE IF r = primary THEN "Primary" ELSE "Secondary"
            IN  /\ row' = [r \in Receivers |->
                      CASE r \in members -> EnterStreaming(row[r], RoleIn(r)).machine
                        [] r \in asked \ members -> FailedRow(row[r], r \notin hopeless)
                        [] OTHER -> row[r]]
                /\ SetEntries([r \in Receivers |->
                      CASE r \in members -> NoteStreaming(Entry(r))
                        [] r \in asked \ members ->
                             FailedEntry(Entry(r), r \notin hopeless, hash[r])
                        [] OTHER -> Entry(r)])
  /\ UNCHANGED <<limiter, wantsRun, asleep, asked, stopping, auto_until, outside>>

\* A start that failed as a whole, or a set with nobody in it: no row moves.
TakeRecovering ==
  /\ ~stopping /\ awaited' = "none"
  /\ awaited = "starting" \/ (awaited = "queued" /\ asked = {})
  /\ UNCHANGED <<entries, limiter, row, wantsRun, asleep, asked, stopping,
                 auto_until, outside>>

\* A member's probe failed; the loss of the primary restarts the group.
TakeMemberFailed ==
  /\ Outside /\ awaited # "starting" /\ ~stopping
  /\ \E r \in Streaming(row), hash \in Hashes :
       /\ row' = [row EXCEPT ![r] = FailedRow(@, TRUE)]
       /\ SetEntries([q \in Receivers |-> IF q = r THEN FailedEntry(Entry(q), TRUE, hash)
                                          ELSE Entry(q)])
       /\ UNCHANGED <<online_since, wantsRun, asleep, auto_until>>
       /\ IF row[r].role \in {"Primary", "Single"}
          THEN last_restart' = 0 /\ Reconcile(row')
          ELSE UNCHANGED <<last_restart, sessionSide>>

\* Every row the session owned leaves it.
TakeStopped ==
  /\ stopping \/ (awaited = "queued" /\ asked = {})
  /\ stopping' = FALSE
  /\ awaited' = IF stopping THEN awaited ELSE "none"
  /\ row' = [r \in Receivers |-> LeaveSession(row[r])]
  /\ UNCHANGED <<entries, limiter, wantsRun, asleep, asked, auto_until, outside>>

-----------------------------------------------------------------------------
(* Discovery, the user and the platform.                                   *)

\* sync_service_availability, for a receiver that appears or leaves.
ServiceChanges ==
  /\ Outside
  /\ \E r \in Receivers :
       LET castable == online_since[r] = Never
       IN  /\ online_since' = [online_since EXCEPT ![r] = IF castable THEN 0 ELSE Never]
           /\ row' = [row EXCEPT ![r] = SetServiceAvailable(@, castable).machine]
  /\ UNCHANGED <<entries, last_restart, wantsRun, asleep, sessionSide, auto_until>>

RunIntentChanges ==
  /\ Outside /\ auto_until' = Never /\ wantsRun' = ~wantsRun
  /\ UNCHANGED <<entries, limiter, row, asleep>>
  /\ Reconcile(row)

\* Faulty: the deadline goes and the row keeps waiting for it.
RetryReceiverRowKept ==
  /\ Outside
  /\ \E r \in Receivers : SetEntries(EntryCleared({r})) /\ UNCHANGED row
  /\ UNCHANGED <<limiter, wantsRun, asleep, auto_until>>
  /\ Reconcile(row)

RetryReceiver ==
  /\ Outside
  /\ \E r \in Receivers : SetEntries(EntryCleared({r})) /\ row' = Released({r})
  /\ UNCHANGED <<limiter, wantsRun, asleep, auto_until>>
  /\ Reconcile(row')

\* begin_suspend: the supervisor tears down what it holds and says so.
Sleep ==
  /\ Outside /\ asleep' = TRUE
  /\ stopping' = (stopping \/ awaited # "none" \/ Streaming(row) # {})
  /\ awaited' = "none"
  /\ UNCHANGED <<entries, limiter, row, wantsRun, asked, auto_until>>

Waiting == {r \in Receivers : InBackoff(row[r])}

ReleaseBackoff == SetEntries(EntryCleared(Waiting)) /\ row' = Released(Waiting)

\* finish_resume, and a network change that moved a local binding.
Rebuild ==
  /\ Outside /\ asleep' = FALSE
  /\ asleep \/ wantsRun
  /\ ReleaseBackoff
  /\ UNCHANGED <<online_since, wantsRun, auto_until>>
  /\ IF wantsRun THEN last_restart' = 0 /\ Reconcile(row')
     ELSE UNCHANGED <<last_restart, sessionSide>>

-----------------------------------------------------------------------------
(* Time.                                                                   *)

Sooner(left) == IF left = Never THEN Never ELSE AtLeast(left - 1, 0)
Older(age, cap) == IF age = Never THEN Never ELSE AtMost(age + 1, cap)

Elapse ==
  /\ next_retry' = [r \in Receivers |-> Sooner(next_retry[r])]
  /\ streaming_since' =
       [r \in Receivers |-> Older(streaming_since[r], HealthyResetAfter)]
  /\ online_since' = [r \in Receivers |-> Older(online_since[r], StableFor)]
  /\ last_restart' = Older(last_restart, Spacing)
  /\ auto_until' = IF auto_until <= 0 THEN Never ELSE auto_until - 1
  /\ UNCHANGED <<attempt, row, wantsRun, asleep, sessionSide, outside>>

\* The receivers' bookkeeping and the limiter; a deadline is the time left, an
\* instant of the past the time since, each as far as the code can tell them apart.
ReceiverRetryEntry ==
  /\ attempt \in [Receivers -> 0..MaxAttempt]
  /\ next_retry \in [Receivers -> 0..MaxRetryDelay \cup {Never}]
  /\ streaming_since \in [Receivers -> 0..HealthyResetAfter \cup {Never}]

RejoinRestartLimiter ==
  /\ online_since \in [Receivers -> 0..StableFor \cup {Never}]
  /\ last_restart \in 0..Spacing \cup {Never}

TimersInit ==
  /\ attempt = [r \in Receivers |-> 0]
  /\ next_retry = [r \in Receivers |-> Never]
  /\ streaming_since = [r \in Receivers |-> Never]
  /\ online_since = [r \in Receivers |-> 0]
  /\ last_restart = Never
  /\ row = [r \in Receivers |-> NewMachine(TRUE)]
  /\ wantsRun = FALSE /\ asleep = FALSE
  /\ asked = {} /\ awaited = "none" /\ stopping = FALSE
  /\ auto_until = AutoWindow
  /\ outside = 0

SessionEdge == TakeStarting \/ TakeActive \/ TakeRecovering \/ TakeStopped

TimersNext ==
  \/ FireDueRetries \/ AutoConnect
  \/ SessionEdge \/ TakeMemberFailed
  \/ ServiceChanges \/ RunIntentChanges \/ RetryReceiver \/ Sleep \/ Rebuild
  \/ Elapse

\* Time passes, the actor's timer arm is polled, and the supervisor answers
\* every request it took.
TimersFairness ==
  /\ WF_timerVars(Elapse) /\ WF_timerVars(FireDueRetries)
  /\ WF_timerVars(SessionEdge)

-----------------------------------------------------------------------------
(* Properties.                                                             *)

\* Every variable has its type, and no deadline is further away than
\* MAX_RETRY_DELAY whatever the attempt number and the hash.
TimersTypeOK ==
  /\ ReceiverRetryEntry /\ RejoinRestartLimiter
  /\ row \in [Receivers -> Machines]
  /\ wantsRun \in BOOLEAN /\ asleep \in BOOLEAN /\ stopping \in BOOLEAN
  /\ asked \in SUBSET Receivers /\ awaited \in {"none", "queued", "starting"}
  /\ auto_until \in 0..AutoWindow \cup {Never}
  /\ outside \in Nat

\* The published backoff and the ladder agree: a row says RetryWaiting only
\* with a deadline behind it, through retries, flaps, sleeps and rebuilds.
WaitingHasDeadline ==
  \A r \in Receivers :
    row[r].state.label = "RetryWaiting" => next_retry[r] # Never

\* "On a monotonic clock [this] is what keeps it from spinning": once an arm has
\* fired at an instant, it has nothing more to do at that instant.
ArmsDoNotSpin ==
  [][/\ FireDueRetries => Due' = {}
     /\ AutoConnect => AutoConnectIn' # 0]_timerVars

\* A receiver that serves its backoff is tried again, however often other
\* members fail meanwhile, as long as the app runs awake and sees its service.
BackoffEnds ==
  \A r \in Receivers :
    row[r].state.label = "RetryWaiting" ~>
      \/ row[r].state.label # "RetryWaiting"
      \/ asleep \/ ~wantsRun \/ online_since[r] = Never

\* Every deadline is typed and bounded, and every row that waits has one.
TimersSafe == TimersTypeOK /\ WaitingHasDeadline
============================================================================
