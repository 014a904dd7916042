---------------------------- MODULE NetworkMonitor ---------------------------
(***************************************************************************)
(* The network-change monitor (backend/network.rs): operating-system       *)
(* callbacks become pulses on a bounded queue, one task folds the pulses   *)
(* of a fixed settle window into one edge, and the controller rebuilds     *)
(* when the edge says that a local binding moved.                          *)
(*                                                                         *)
(* Fingerprints are values compared for equality (the order-independent    *)
(* digest is left out); callbacks may come without a binding having moved, *)
(* as often as they like.                                                  *)
(***************************************************************************)
EXTENDS Naturals, Sequences

CONSTANTS Fingerprints,  \* digests of the local address table
          PulseCapacity, \* PULSE_CAPACITY
          EdgeCapacity   \* capacity of the system event queue

ASSUME MonitorAssumption ==
  PulseCapacity \in Nat \ {0} /\ EdgeCapacity \in Nat \ {0} /\ Fingerprints # {}

VARIABLES
  bindings,   \* the machine's address table
  owed,       \* the system has a callback to deliver
  pulses,     \* queued pulses
  monitor_pc, \* "boot", "idle", "settling", "publishing", "done"
  last, edge, \* the coalescing task's locals
  edges,      \* queued NetworkChanged edges
  told,       \* the sample behind the last move the controller was told of
  cancelled, registered

monitorVars == <<bindings, owed, pulses, monitor_pc, last, edge, edges, told,
                 cancelled, registered>>

-----------------------------------------------------------------------------
\* Only equality of two samples of the address table is meaningful.
BindingFingerprint ==
  bindings \in Fingerprints /\ last \in Fingerprints /\ told \in Fingerprints

\* The two bounded queues, the task between them and the registration behind.
PulseQueue ==
  /\ pulses \in 0..PulseCapacity /\ Len(edges) <= EdgeCapacity
  /\ monitor_pc \in {"boot", "idle", "settling", "publishing", "done"}
NetworkSubscription ==
  {owed, edge, cancelled, registered} \subseteq BOOLEAN

\* The address table changes, or an interface property that is no binding
\* (external); either way a callback is due.
InterfaceChanges ==
  /\ bindings' \in Fingerprints /\ owed' = TRUE
  /\ UNCHANGED <<pulses, monitor_pc, last, edge, edges, told, cancelled, registered>>

\* The callback never blocks: a pulse that finds the queue full is dropped.
OsCallback ==
  /\ owed /\ registered /\ owed' = FALSE
  /\ pulses' = IF pulses < PulseCapacity THEN pulses + 1 ELSE pulses
  /\ UNCHANGED <<bindings, monitor_pc, last, edge, edges, told, cancelled, registered>>

\* The task takes its first sample after the subscription stands, and before
\* a session can have been built.
FirstSample ==
  /\ monitor_pc = "boot" /\ monitor_pc' = "idle" /\ last' = bindings /\ told' = bindings
  /\ UNCHANGED <<bindings, owed, pulses, edge, edges, cancelled, registered>>

\* The first pulse opens a window.
OpenWindow ==
  /\ monitor_pc = "idle" /\ pulses > 0
  /\ pulses' = pulses - 1 /\ monitor_pc' = "settling"
  /\ UNCHANGED <<bindings, owed, last, edge, edges, told, cancelled, registered>>

\* Every further pulse of the window is absorbed.
AbsorbPulses ==
  /\ monitor_pc = "settling" /\ pulses > 0 /\ pulses' = 0
  /\ UNCHANGED <<bindings, owed, monitor_pc, last, edge, edges, told, cancelled,
                 registered>>

\* Faulty: the window's own sample becomes the reference before it is
\* compared.
SettleElapsedOverwrites ==
  /\ monitor_pc = "settling"
  /\ edge' = FALSE /\ last' = bindings
  /\ monitor_pc' = "publishing"
  /\ UNCHANGED <<bindings, owed, pulses, edges, told, cancelled, registered>>

\* The deadline is tested before anything else: the bindings are sampled and
\* compared with the last published sample.
SettleElapsed ==
  /\ monitor_pc = "settling"
  /\ edge' = (bindings # last) /\ last' = bindings
  /\ monitor_pc' = "publishing"
  /\ UNCHANGED <<bindings, owed, pulses, edges, told, cancelled, registered>>

\* The publish waits for room.
PublishEdge ==
  /\ monitor_pc = "publishing" /\ ~cancelled /\ Len(edges) < EdgeCapacity
  /\ edges' = Append(edges, [local_binding_changed |-> edge, sampled |-> last]) /\ monitor_pc' = "idle"
  /\ UNCHANGED <<bindings, owed, pulses, last, edge, told, cancelled, registered>>

\* Every await of the task can be cancelled; the handle is released at the
\* end of the task.
CancelMonitor ==
  /\ cancelled /\ monitor_pc \in {"idle", "settling", "publishing"}
  /\ monitor_pc' = "done" /\ registered' = FALSE
  /\ UNCHANGED <<bindings, owed, pulses, last, edge, edges, told, cancelled>>

\* apply_network_change: only an edge that reports a move has the session
\* rebuilt.  What the edge was sampled from is not in the message: it is there
\* for the property.
TakeEdge ==
  /\ edges # <<>> /\ ~cancelled /\ edges' = Tail(edges)
  /\ told' = IF Head(edges).local_binding_changed THEN Head(edges).sampled ELSE told
  /\ UNCHANGED <<bindings, owed, pulses, monitor_pc, last, edge, cancelled, registered>>

\* shutdown, called when the controller no longer takes edges.
ShutdownMonitor ==
  /\ ~cancelled /\ cancelled' = TRUE
  /\ UNCHANGED <<bindings, owed, pulses, monitor_pc, last, edge, edges, told, registered>>

MonitorInit ==
  /\ bindings \in Fingerprints /\ owed = FALSE /\ pulses = 0
  /\ monitor_pc = "boot" /\ last = bindings /\ edge = FALSE /\ edges = <<>>
  /\ told = bindings /\ cancelled = FALSE /\ registered = TRUE

MonitorNext ==
  \/ InterfaceChanges \/ OsCallback \/ FirstSample \/ OpenWindow \/ AbsorbPulses
  \/ SettleElapsed \/ PublishEdge \/ CancelMonitor \/ TakeEdge \/ ShutdownMonitor

\* The task is scheduled and its timer fires; the controller takes edges only
\* as long as it runs.
MonitorFairness ==
  /\ WF_monitorVars(FirstSample) /\ WF_monitorVars(OpenWindow)
  /\ WF_monitorVars(SettleElapsed) /\ WF_monitorVars(CancelMonitor)

-----------------------------------------------------------------------------
(* Properties.                                                             *)

\* No move is lost: when nothing is queued or under way, the moves reported so
\* far lead to the bindings the machine has, whatever was coalesced or
\* dropped before.
NoMoveLost ==
  monitor_pc = "idle" /\ ~owed /\ pulses = 0 /\ edges = <<>> /\ ~cancelled
    => told = bindings

\* A flapping adapter cannot hold an edge back: every window ends although
\* pulses keep coming.
FlappingIsReported == monitor_pc = "settling" ~> monitor_pc \in {"publishing", "done"}

\* A shutdown gets the notification handle back, with the edge queue full and
\* nobody taking from it.
HandleReleased == cancelled ~> ~registered
=============================================================================
