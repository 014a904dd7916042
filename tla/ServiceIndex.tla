----------------------------- MODULE ServiceIndex ----------------------------
(***************************************************************************)
(* The dual-service bookkeeping of the mDNS browser (crates/               *)
(* airplay-discovery/src/browser.rs): every advertised service instance is *)
(* mapped to its receiver, each receiver keeps one record per service      *)
(* kind, and the index turns resolutions and removals into browse events.  *)
(*                                                                         *)
(* The daemon reports what is advertised in any order; an instance name    *)
(* may move to another receiver (replacement) and a receiver may be known  *)
(* under two names for a while (rename).  The consumer folds the events    *)
(* the way the discovery supervisor and the controller do.                 *)
(***************************************************************************)
EXTENDS Naturals, FiniteSets

CONSTANTS Devices,    \* physical receivers
          Names,      \* service instance names
          NoDevice,
          MaxServiceEvents \* bound: daemon events

ASSUME IndexAssumption == NoDevice \notin Devices /\ MaxServiceEvents \in Nat

Kinds == {"AirPlay", "Raop"}
Keys  == Kinds \X Names
KindOf(key) == key[1]

VARIABLES
  service_to_receiver, \* the receiver each service instance maps to
  resolvers,           \* the kinds recorded for each receiver
  rows,                \* the consumer: [known, castable] by receiver
  service_events

indexVars == <<service_to_receiver, resolvers, rows, service_events>>

-----------------------------------------------------------------------------
\* The maps of the index, and the consumer's row of each receiver.
ServiceToReceiver == service_to_receiver \in [Keys -> Devices \cup {NoDevice}]
ReceiverServices  == resolvers \in [Devices -> SUBSET Kinds]
InventoryEntry    == rows \in [Devices -> [known : BOOLEAN, castable : BOOLEAN]]

\* clear_service_slot: a receiver without records is dropped.
Cleared(index, device, key) == [index EXCEPT ![device] = @ \ {KindOf(key)}]

\* The consumer's reducer: an addition or update shows the merged record, a
\* removal leaves the row unavailable.
Present(device, kinds) ==
  [rows EXCEPT ![device] = [known |-> TRUE, castable |-> "AirPlay" \in kinds]]
Removed(device) == [rows EXCEPT ![device].castable = FALSE]

\* upsert: Added and Updated carry the merged record.
Upsert(key, device) ==
  LET previous == service_to_receiver[key]
      detached == IF previous \notin {NoDevice, device}
                  THEN Cleared(resolvers, previous, key) ELSE resolvers
      filled == [detached EXCEPT ![device] = @ \cup {KindOf(key)}]
  IN  /\ service_to_receiver' = [service_to_receiver EXCEPT ![key] = device]
      /\ resolvers' = filled
      /\ rows' = Present(device, filled[device])

\* removal_event: the AirPlay record always reports a removal; the RAOP record
\* an update while the AirPlay one stays, and nothing when it was the last.
RemovalEvent(key) ==
  LET device == service_to_receiver[key]
      left == Cleared(resolvers, device, key)
  IN  /\ service_to_receiver' = [service_to_receiver EXCEPT ![key] = NoDevice]
      /\ resolvers' = left
      /\ rows' = IF KindOf(key) = "AirPlay" THEN Removed(device)
                 ELSE IF left[device] # {} THEN Present(device, left[device])
                 ELSE rows

\* handle_service_event.
ServiceResolved ==
  \E key \in Keys, device \in Devices :
    /\ service_events < MaxServiceEvents /\ service_events' = service_events + 1
    /\ Upsert(key, device)

ServiceRemoved ==
  \E key \in Keys :
    /\ service_events < MaxServiceEvents /\ service_events' = service_events + 1
    /\ service_to_receiver[key] # NoDevice
    /\ RemovalEvent(key)

IndexInit ==
  /\ service_to_receiver = [k \in Keys |-> NoDevice]
  /\ resolvers = [d \in Devices |-> {}]
  /\ rows = [d \in Devices |-> [known |-> FALSE, castable |-> FALSE]]
  /\ service_events = 0

IndexNext == ServiceResolved \/ ServiceRemoved

-----------------------------------------------------------------------------
(* Properties.                                                             *)

Mapped(device) == {key \in Keys : service_to_receiver[key] = device}

\* No record outlives its services: what is stored for a receiver was put
\* there by an instance that still maps to it, across renames and reuse.
NoOrphanRecords ==
  \A d \in Devices : \A kind \in resolvers[d] :
    \E key \in Mapped(d) : KindOf(key) = kind

\* Nothing castable is hidden: the consumer lists every receiver the index
\* holds an AirPlay record of, whichever of its services came and went.
CastableIsListed ==
  \A d \in Devices : "AirPlay" \in resolvers[d] => rows[d].known /\ rows[d].castable

\* The index holds no orphan and hides nothing castable.
IndexSafe ==
  /\ ServiceToReceiver /\ ReceiverServices /\ InventoryEntry
  /\ NoOrphanRecords /\ CastableIsListed
=============================================================================
