------------------------------ MODULE Discovery ------------------------------
(***************************************************************************)
(* The discovery supervisor (backend/discovery.rs) and the part of the     *)
(* controller that mirrors its updates (apply_discovery_update).           *)
(*                                                                         *)
(* The supervisor runs browse generations one after the other.  It         *)
(* publishes with try_send on a bounded queue; a full queue gives the      *)
(* generation up, and a fresh one reports everything again.  Control edges *)
(* travel on a watch channel: only the newest is seen, and only at the     *)
(* awaits that look at it.                                                 *)
(*                                                                         *)
(* The network is a set of present receivers.  A browse stream (external)  *)
(* reports who is present and not yet reported, and who of the reported    *)
(* left; every generation starts from nothing.  Backoff and settle delays  *)
(* are timers that fire eventually.                                        *)
(***************************************************************************)
EXTENDS Naturals, FiniteSets, Sequences

CONSTANTS Advertisers,       \* receivers that may be on the network
          SupervisorCapacity, \* SUPERVISOR_CAPACITY
          MaxGeneration,     \* where the generation counter saturates
          MaxWorldChanges,   \* bound: arrivals and departures
          MaxRestarts        \* bound: network changes and resumes

ASSUME DiscoveryAssumption ==
  /\ SupervisorCapacity \in Nat \ {0} /\ MaxGeneration \in Nat \ {0}
  /\ MaxWorldChanges \in Nat /\ MaxRestarts \in Nat

VARIABLES
  present,        \* receivers on the network now
  browse_reported,       \* receivers the running stream has reported as present
  browse_pc,      \* where run_supervisor stands
  generation,
  preserve_unknown,
  known,          \* DiscoveryState.receivers
  browse_control, \* the unseen value of the control watch channel
  updates,        \* the supervisor's update queue
  seen_generation, inventory, shown_phase, \* the controller's mirror
  draining,       \* the controller only empties the queue
  world_changes, restarts

worldVars == <<present, world_changes>>
mirrorVars == <<seen_generation, inventory, shown_phase>>
discoveryVars == <<worldVars, browse_reported, browse_pc, generation, preserve_unknown, known,
                   browse_control, updates, mirrorVars, draining, restarts>>

Started(g)      == [kind |-> "Started", generation |-> g]
Added(g, r)     == [kind |-> "Added", generation |-> g, receiver |-> r]
Removal(g, r)   == [kind |-> "Removed", generation |-> g, receiver |-> r]
BrowseFailed(g) == [kind |-> "Failed", generation |-> g]

DiscoveryUpdate ==
  {Started(g) : g \in 0..MaxGeneration} \cup {BrowseFailed(g) : g \in 0..MaxGeneration}
    \cup {Added(g, r) : g \in 0..MaxGeneration, r \in Advertisers}
    \cup {Removal(g, r) : g \in 0..MaxGeneration, r \in Advertisers}

\* The control channel keeps the newest request only.
DiscoveryControl == browse_control \in {"none", "restart", "shutdown"}

DiscoveryState ==
  /\ generation \in 0..MaxGeneration
  /\ known \in [Advertisers -> {"absent", "unknown", "available"}]

\* Between two generations the supervisor backs off, settles, or is over.
GenerationExit ==
  browse_pc \in {"start", "browse", "stream", "backoff", "settle", "stopped"}

\* The controller's mirror.
DiscoverySnapshot ==
  /\ inventory \subseteq Advertisers /\ seen_generation \in 0..MaxGeneration
  /\ shown_phase \in {"Stopped", "Running", "Retrying"}

\* The types of the variables, and the update queue within its capacity.
DiscoveryTypeOK ==
  /\ present \subseteq Advertisers /\ browse_reported \subseteq Advertisers
  /\ GenerationExit /\ DiscoveryState /\ DiscoveryControl
  /\ Len(updates) <= SupervisorCapacity
  /\ \A i \in DOMAIN updates : updates[i] \in DiscoveryUpdate
  /\ DiscoverySnapshot

-----------------------------------------------------------------------------
(* The supervisor.                                                         *)

\* Faulty: the update that found the queue full is dropped and the
\* generation goes on.
PushUpdateLossy(update, next_pc) ==
  /\ updates' = IF Len(updates) < SupervisorCapacity THEN Append(updates, update)
                ELSE updates
  /\ browse_pc' = next_pc

\* push_update: a full queue abandons the generation.
PushUpdate(update, next_pc) ==
  IF Len(updates) < SupervisorCapacity
  THEN updates' = Append(updates, update) /\ browse_pc' = next_pc
  ELSE UNCHANGED updates /\ browse_pc' = "start"

MarkAllUnknown ==
  known' = [r \in Advertisers |-> IF known[r] = "absent" THEN "absent" ELSE "unknown"]

\* The head of the outer loop.
StartGeneration ==
  LET g == IF generation < MaxGeneration THEN generation + 1 ELSE generation
  IN  /\ browse_pc = "start"
      /\ generation' = g
      /\ IF preserve_unknown THEN MarkAllUnknown
                             ELSE known' = [r \in Advertisers |-> "absent"]
      /\ preserve_unknown' = FALSE
      /\ PushUpdate(Started(g), "browse")
      /\ UNCHANGED <<worldVars, browse_reported, browse_control, mirrorVars, draining, restarts>>

\* source.browse() succeeded: the stream starts from nothing.
Browse ==
  /\ browse_pc = "browse"
  /\ browse_pc' = "stream" /\ browse_reported' = {}
  /\ UNCHANGED <<worldVars, generation, preserve_unknown, known, browse_control, updates,
                 mirrorVars, draining, restarts>>

\* One item of the stream, applied to the shared state and published.
StreamEvent ==
  /\ browse_pc = "stream"
  /\ \/ \E r \in present \ browse_reported :
          /\ browse_reported' = browse_reported \cup {r}
          /\ known' = [known EXCEPT ![r] = "available"]
          /\ PushUpdate(Added(generation, r), "stream")
     \/ \E r \in browse_reported \ present :
          /\ browse_reported' = browse_reported \ {r}
          /\ known' = [known EXCEPT ![r] = IF @ = "absent" THEN @ ELSE "unknown"]
          /\ PushUpdate(Removal(generation, r), "stream")
  /\ UNCHANGED <<worldVars, generation, preserve_unknown, browse_control, mirrorVars,
                 draining, restarts>>

\* schedule_failure: browse() failed, or the stream ended with or without an
\* error.
ScheduleFailure ==
  /\ browse_pc \in {"browse", "stream"}
  /\ PushUpdate(BrowseFailed(generation), "backoff")
  /\ UNCHANGED <<worldVars, browse_reported, generation, preserve_unknown, known, browse_control,
                 mirrorVars, draining, restarts>>

BackoffElapsed ==
  /\ browse_pc = "backoff" /\ browse_pc' = "start"
  /\ UNCHANGED <<worldVars, browse_reported, generation, preserve_unknown, known, browse_control,
                 updates, mirrorVars, draining, restarts>>

\* on_control in a running generation or its backoff.
OnControl ==
  /\ browse_pc \in {"stream", "backoff"} /\ browse_control # "none"
  /\ browse_control' = "none"
  /\ IF browse_control = "restart"
     THEN MarkAllUnknown /\ preserve_unknown' = TRUE /\ browse_pc' = "settle"
     ELSE browse_pc' = "stopped" /\ UNCHANGED <<known, preserve_unknown>>
  /\ UNCHANGED <<worldVars, browse_reported, generation, updates, mirrorVars, draining, restarts>>

\* settle: the delay elapsed, or a control edge ended it.
Settle ==
  /\ browse_pc = "settle"
  /\ \/ browse_pc' = "start" /\ UNCHANGED browse_control
     \/ /\ browse_control # "none" /\ browse_control' = "none"
        /\ browse_pc' = IF browse_control = "restart" THEN "start" ELSE "stopped"
  /\ UNCHANGED <<worldVars, browse_reported, generation, preserve_unknown, known, updates,
                 mirrorVars, draining, restarts>>

-----------------------------------------------------------------------------
(* The controller and the world.                                           *)

\* apply_discovery_update.  Only receiver events change the inventory: a
\* started generation leaves every row as it was.
ApplyDiscoveryUpdate(u) ==
  \/ /\ u.kind = "Started"
     /\ seen_generation' = IF u.generation > seen_generation THEN u.generation
                           ELSE seen_generation
     /\ shown_phase' = "Running"
     /\ UNCHANGED inventory
  \/ /\ u.kind \in {"Added", "Removed"}
     /\ inventory' = IF u.generation < seen_generation THEN inventory
                     ELSE IF u.kind = "Added" THEN inventory \cup {u.receiver}
                     ELSE inventory \ {u.receiver}
     /\ UNCHANGED <<seen_generation, shown_phase>>
  \/ /\ u.kind = "Failed"
     /\ shown_phase' = IF u.generation < seen_generation THEN shown_phase ELSE "Retrying"
     /\ UNCHANGED <<seen_generation, inventory>>

TakeDiscoveryUpdate ==
  /\ updates # <<>> /\ updates' = Tail(updates)
  /\ IF draining THEN UNCHANGED mirrorVars ELSE ApplyDiscoveryUpdate(Head(updates))
  /\ UNCHANGED <<worldVars, browse_reported, browse_pc, generation, preserve_unknown, known,
                 browse_control, draining, restarts>>

\* apply_network_change and finish_resume.
RequestRestart ==
  /\ ~draining /\ restarts < MaxRestarts /\ restarts' = restarts + 1
  /\ browse_control' = "restart"
  /\ UNCHANGED <<worldVars, browse_reported, browse_pc, generation, preserve_unknown, known,
                 updates, mirrorVars, draining>>

\* The actor's teardown: the request, then the queue is emptied.
RequestShutdown ==
  /\ ~draining /\ draining' = TRUE /\ browse_control' = "shutdown"
  /\ UNCHANGED <<worldVars, browse_reported, browse_pc, generation, preserve_unknown, known,
                 updates, mirrorVars, restarts>>

\* A receiver joins or leaves the network (external).
WorldChanges ==
  /\ world_changes < MaxWorldChanges /\ world_changes' = world_changes + 1
  /\ \E r \in Advertisers :
       present' = IF r \in present THEN present \ {r} ELSE present \cup {r}
  /\ UNCHANGED <<browse_reported, browse_pc, generation, preserve_unknown, known, browse_control,
                 updates, mirrorVars, draining, restarts>>

DiscoveryInit ==
  /\ present \in SUBSET Advertisers /\ browse_reported = {}
  /\ browse_pc = "start" /\ generation = 0 /\ preserve_unknown = FALSE
  /\ known = [r \in Advertisers |-> "absent"]
  /\ browse_control = "none" /\ updates = <<>>
  /\ seen_generation = 0 /\ inventory = {} /\ shown_phase = "Stopped"
  /\ draining = FALSE /\ world_changes = 0 /\ restarts = 0

DiscoverySupervises ==
  StartGeneration \/ Browse \/ StreamEvent \/ ScheduleFailure \/ BackoffElapsed
    \/ OnControl \/ Settle

DiscoveryNext ==
  DiscoverySupervises \/ TakeDiscoveryUpdate \/ RequestRestart \/ RequestShutdown
    \/ WorldChanges

\* The supervisor's task runs, timers fire, select! does not starve the
\* control arm, and the controller, which takes updates faster than a browse
\* attempt makes them, empties the queue now and then.  Nothing is assumed of
\* the network, nor that a browse ever succeeds.
DiscoveryFairness ==
  /\ WF_discoveryVars(StartGeneration) /\ WF_discoveryVars(Browse \/ ScheduleFailure)
  /\ WF_discoveryVars(BackoffElapsed) /\ WF_discoveryVars(Settle)
  /\ SF_discoveryVars(OnControl) /\ WF_discoveryVars(TakeDiscoveryUpdate)
  /\ SF_discoveryVars(TakeDiscoveryUpdate /\ updates' = <<>>)

DiscoverySpec == DiscoveryInit /\ [][DiscoveryNext]_discoveryVars /\ DiscoveryFairness

-----------------------------------------------------------------------------
(* Properties.                                                             *)

\* The mirror has caught up with a stream that has nothing left to report.
CaughtUp ==
  browse_pc = "stream" /\ browse_reported = present /\ updates = <<>> /\ ~draining

\* No receiver is missed: whatever overflowed, failed or was restarted, a
\* mirror that caught up lists everyone present.
NobodyMissed == CaughtUp => present \subseteq inventory

\* Once the queue is empty the controller shows what the supervisor does.
PhaseShownTruly ==
  updates = <<>> /\ ~draining =>
    /\ browse_pc \in {"browse", "stream"} => shown_phase = "Running"
    /\ browse_pc = "backoff" => shown_phase = "Retrying"

\* The supervisor's own table and the controller's mirror agree about who can
\* be streamed to, as far as the running generation has reported.
TableIsMirrored ==
  browse_pc = "stream" /\ updates = <<>> /\ ~draining =>
    {r \in Advertisers : known[r] = "available"} \subseteq inventory

\* A shutdown ends the supervisor wherever it is waiting, with a full queue
\* too.
ShutdownHonoured == browse_control = "shutdown" ~> browse_pc = "stopped"

\* "A new generation is how stale addresses are invalidated": a mirror that
\* caught up lists nobody who is gone.
NoGhosts == CaughtUp => inventory \subseteq present

\* Nobody is missed, and the controller shows what the supervisor does.
DiscoverySafe == DiscoveryTypeOK /\ NobodyMissed /\ PhaseShownTruly /\ TableIsMirrored
=============================================================================
