----------------------------- MODULE HealthProbe -----------------------------
(***************************************************************************)
(* Member health of one session generation: the bounded feed of failed     *)
(* sends (GroupRuntimeEventFeed in airplay-client/src/events.rs), its      *)
(* consumer try_runtime_event (backend/transport.rs), and the probe policy *)
(* of the supervisor (HealthState, drain_runtime_events, run_probe_cycle   *)
(* in backend/session.rs).                                                 *)
(*                                                                         *)
(* The audio thread publishes at any time, also while the supervisor       *)
(* drains.  A receiver may go dark for good; any other may answer a probe, *)
(* miss one or answer with an error.                                       *)
(***************************************************************************)
EXTENDS Naturals, Sequences, FiniteSets

CONSTANTS Members,
          FeedCapacity,  \* GROUP_RUNTIME_EVENT_CAPACITY
          DrainLimit,    \* SESSION_REQUEST_CAPACITY: events of one drain
          StreakToFail,  \* TIMEOUT_STREAK_TO_FAIL
          MaxLost        \* where the unreported gap saturates

ASSUME HealthAssumption ==
  /\ FeedCapacity \in Nat \ {0} /\ DrainLimit \in Nat \ {0}
  /\ StreakToFail \in Nat \ {0} /\ MaxLost \in Nat

VARIABLES
  dark,       \* receivers that answer nothing any more
  sends,      \* the feed's queue
  gap,        \* lost_total minus lost_seen, what is still to be reported
  dropped,    \* events dropped since the last report
  probe_pc,   \* "idle", "draining", "probing"
  drained,    \* events taken in this drain
  streak, failed, urgent  \* HealthState

healthVars == <<dark, sends, gap, dropped, probe_pc, drained, streak,
                failed, urgent>>

\* The types; no streak reaches the length that fails a member without failing
\* it.
GroupRuntimeEventFeed ==
  /\ Len(sends) <= FeedCapacity /\ gap \in 0..MaxLost
  /\ \A i \in DOMAIN sends : sends[i] \in Members
HealthState ==
  /\ streak \in [Members -> 0..(StreakToFail - 1)]
  /\ failed \subseteq Members /\ urgent \subseteq Members

HealthTypeOK == GroupRuntimeEventFeed /\ HealthState

-----------------------------------------------------------------------------
\* A receiver stops answering for good (external).
GoDark ==
  /\ \E r \in Members \ dark : dark' = dark \cup {r}
  /\ UNCHANGED <<sends, gap, dropped, probe_pc, drained, streak, failed,
                 urgent>>

Saturated(n) == IF n < MaxLost THEN n + 1 ELSE n

\* Faulty: an event that finds the feed full is not counted.
TryPublishUncounted(r) ==
  IF Len(sends) < FeedCapacity
  THEN sends' = Append(sends, r) /\ UNCHANGED <<gap, dropped>>
  ELSE dropped' = Saturated(dropped) /\ UNCHANGED <<sends, gap>>

\* try_publish: never blocks; what does not fit is dropped and counted.
TryPublish(r) ==
  IF Len(sends) < FeedCapacity
  THEN sends' = Append(sends, r) /\ UNCHANGED <<gap, dropped>>
  ELSE gap' = Saturated(gap) /\ dropped' = Saturated(dropped) /\ UNCHANGED sends

SendFails ==
  /\ \E r \in Members : TryPublish(r)
  /\ UNCHANGED <<dark, probe_pc, drained, streak, failed, urgent>>

\* The probe tick, or a probe request, starts with a drain.
ProbeTick ==
  /\ probe_pc = "idle" /\ probe_pc' = "draining" /\ drained' = 0
  /\ UNCHANGED <<dark, sends, gap, dropped, streak, failed, urgent>>

\* try_runtime_event: a queued event first, then the gap, each loss once.
TryRuntimeEvent ==
  \/ /\ sends # <<>> /\ sends' = Tail(sends)
     /\ urgent' = urgent \cup {Head(sends)}
     /\ drained' = drained + 1
     /\ UNCHANGED <<gap, dropped, probe_pc>>
  \/ /\ sends = <<>> /\ gap > 0 /\ gap' = 0 /\ dropped' = 0 /\ probe_pc' = "probing"
     /\ UNCHANGED <<sends, drained, urgent>>
  \/ /\ sends = <<>> /\ gap = 0 /\ probe_pc' = "probing"
     /\ UNCHANGED <<sends, gap, dropped, drained, urgent>>

\* drain_runtime_events, one event at a time.
DrainStep ==
  /\ probe_pc = "draining" /\ drained < DrainLimit
  /\ TryRuntimeEvent
  /\ UNCHANGED <<dark, streak, failed>>

DrainLimitReached ==
  /\ probe_pc = "draining" /\ drained = DrainLimit /\ probe_pc' = "probing"
  /\ UNCHANGED <<dark, sends, gap, dropped, drained, streak, failed,
                 urgent>>

Answers(r) == IF r \in dark THEN {"TimedOut", "Error"} ELSE {"Healthy", "TimedOut", "Error"}

\* Faulty: an answer of any member clears everybody's streak.
ClassifyForgiving(answer) ==
  LET late == {r \in Members \ failed : answer[r] = "TimedOut"}
      over == {r \in late : streak[r] + 1 >= StreakToFail \/ r \in urgent}
      gone == over \cup {r \in Members \ failed : answer[r] = "Error"}
  IN  /\ failed' = failed \cup gone
      /\ streak' = [r \in Members |->
                     IF r \in late \ gone /\ \A q \in Members : answer[q] # "Healthy"
                     THEN streak[r] + 1 ELSE 0]

\* Every answer of one cycle, classified.
Classify(answer) ==
  LET late == {r \in Members \ failed : answer[r] = "TimedOut"}
      over == {r \in late : streak[r] + 1 >= StreakToFail \/ r \in urgent}
      gone == over \cup {r \in Members \ failed : answer[r] = "Error"}
  IN  /\ failed' = failed \cup gone
      /\ streak' = [r \in Members |-> IF r \in late \ gone THEN streak[r] + 1
                                      ELSE IF r \in failed THEN streak[r] ELSE 0]

\* run_probe_cycle after the drain: the armed set is taken whole.
ProbeCycle ==
  /\ probe_pc = "probing" /\ probe_pc' = "idle"
  /\ \E answer \in [Members -> {"Healthy", "TimedOut", "Error"}] :
       (\A r \in Members : answer[r] \in Answers(r)) /\ Classify(answer)
  /\ urgent' = {}
  /\ UNCHANGED <<dark, sends, gap, dropped, drained>>

HealthInit ==
  /\ dark = {} /\ sends = <<>> /\ gap = 0 /\ dropped = 0
  /\ probe_pc = "idle" /\ drained = 0 /\ streak = [r \in Members |-> 0]
  /\ failed = {} /\ urgent = {}

HealthNext ==
  GoDark \/ SendFails \/ ProbeTick \/ DrainStep \/ DrainLimitReached \/ ProbeCycle

\* The probe timer ticks and the supervisor's task runs.
HealthFairness ==
  /\ WF_healthVars(ProbeTick) /\ WF_healthVars(DrainStep)
  /\ WF_healthVars(DrainLimitReached) /\ WF_healthVars(ProbeCycle)

-----------------------------------------------------------------------------
(* Properties.                                                             *)

\* The gap in the feed is reported truthfully: what is still to be reported is
\* what was dropped since the last report, each event once.
GapIsTrue == gap = dropped

\* A receiver that went dark is found out, whatever the others answer and
\* however many sends fail meanwhile.
DarkIsNoticed == \A r \in Members : r \in dark ~> r \in failed

\* The feed cannot starve its reader: a queued event is handed out although
\* the loss counter keeps growing.
EventsDelivered == sends # <<>> ~> urgent # {}

\* Streaks stay below the limit, and the gap in the feed is told exactly.
HealthSafe == HealthTypeOK /\ GapIsTrue

\* A dark receiver is found out and a failed send is handed out.
TroubleIsNoticed == DarkIsNoticed /\ EventsDelivered
=============================================================================
