--------------------------- MODULE EndpointScanner ---------------------------
(***************************************************************************)
(* The endpoint enumeration thread (EndpointScanner in backend/capture.rs):*)
(* requests are coalesced in a one-slot queue, one thread enumerates and   *)
(* publishes through a one-slot queue that blocks, and the controller      *)
(* shows what it takes (apply_endpoints).  The playback devices are a      *)
(* value that changes under the scan; an enumeration may fail.             *)
(***************************************************************************)
EXTENDS Naturals, Sequences

CONSTANTS DeviceTables, \* possible sets of playback devices
          NoTable       \* a failed enumeration

ASSUME ScannerAssumption == NoTable \notin DeviceTables

VARIABLES
  devices,    \* what an enumeration finds now
  request,    \* the request slot is taken
  scan_pc,    \* "waiting", "scanning", "publishing", "ended"
  scanned,    \* what the thread found
  results,    \* the result slot
  endpoints,  \* what the controller shows
  refresh_failed,
  since,      \* what the devices have been since the newest request
  open        \* the controller still holds the receiving half

scannerVars == <<devices, request, scan_pc, scanned, results, endpoints,
                 refresh_failed, since, open>>

-----------------------------------------------------------------------------
\* One request slot and one result slot between controller and thread.
ScannerSlots ==
  /\ request \in BOOLEAN /\ open \in BOOLEAN /\ Len(results) <= 1
  /\ scan_pc \in {"waiting", "scanning", "publishing", "ended"}

\* A device appears or goes (external).
DevicesChange ==
  /\ devices' \in DeviceTables \ {devices} /\ since' = since \cup {devices'}
  /\ UNCHANGED <<request, scan_pc, scanned, results, endpoints, refresh_failed, open>>

\* request: a taken slot already promises a later scan.
RequestScan ==
  /\ open /\ request' = TRUE /\ since' = {devices}
  /\ UNCHANGED <<devices, scan_pc, scanned, results, endpoints, refresh_failed, open>>

\* The thread takes the request, and ends when nobody listens.
TakeRequest ==
  /\ scan_pc = "waiting" /\ request /\ request' = FALSE
  /\ scan_pc' = IF open THEN "scanning" ELSE "ended"
  /\ UNCHANGED <<devices, scanned, results, endpoints, refresh_failed, since, open>>

\* source.endpoints(), which may fail.
Enumerate ==
  /\ scan_pc = "scanning" /\ scan_pc' = "publishing"
  /\ scanned' \in {devices, NoTable}
  /\ UNCHANGED <<devices, request, results, endpoints, refresh_failed, since, open>>

\* Faulty: waits for the slot without noticing that nobody listens any more.
PublishScanBlocked ==
  /\ scan_pc = "publishing"
  /\ results = <<>> /\ results' = <<scanned>> /\ scan_pc' = "waiting"
  /\ UNCHANGED <<devices, request, scanned, endpoints, refresh_failed, since, open>>

\* blocking_send: waits for the slot, fails when nobody listens.
PublishScan ==
  /\ scan_pc = "publishing"
  /\ \/ open /\ results = <<>> /\ results' = <<scanned>> /\ scan_pc' = "waiting"
     \/ ~open /\ scan_pc' = "ended" /\ UNCHANGED results
  /\ UNCHANGED <<devices, request, scanned, endpoints, refresh_failed, since, open>>

\* Dropping the scanner closes the request queue too.
ThreadEnds ==
  /\ scan_pc = "waiting" /\ ~open /\ ~request /\ scan_pc' = "ended"
  /\ UNCHANGED <<devices, request, scanned, results, endpoints, refresh_failed, since, open>>

\* apply_endpoints: a failure keeps the last list and says so.
ApplyEndpoints ==
  /\ open /\ results # <<>> /\ results' = <<>>
  /\ refresh_failed' = (Head(results) = NoTable)
  /\ endpoints' = IF Head(results) = NoTable THEN endpoints ELSE Head(results)
  /\ UNCHANGED <<devices, request, scan_pc, scanned, since, open>>

DropScanner ==
  /\ open /\ open' = FALSE
  /\ UNCHANGED <<devices, request, scan_pc, scanned, results, endpoints, refresh_failed,
                 since>>

\* start issues the first request.
ScannerInit ==
  /\ devices \in DeviceTables /\ request = TRUE /\ scan_pc = "waiting"
  /\ scanned = NoTable /\ results = <<>> /\ endpoints = NoTable
  /\ refresh_failed = FALSE /\ since = {devices} /\ open = TRUE

ScannerNext ==
  \/ DevicesChange \/ RequestScan \/ TakeRequest \/ Enumerate \/ PublishScan
  \/ ThreadEnds \/ ApplyEndpoints \/ DropScanner

\* The thread runs as long as enumeration returns.
ScannerFairness ==
  /\ WF_scannerVars(TakeRequest) /\ WF_scannerVars(Enumerate)
  /\ WF_scannerVars(PublishScan) /\ WF_scannerVars(ThreadEnds)

-----------------------------------------------------------------------------
(* Properties.                                                             *)

\* Every request is served by an enumeration that began after it: at rest the
\* list shows devices that existed since the newest request, or the failure is
\* shown beside the list.
AnsweredFresh ==
  open /\ ~request /\ scan_pc = "waiting" /\ results = <<>>
    => refresh_failed \/ endpoints \in since

\* The thread ends when its owner is gone, blocked on a full slot or not.
ThreadIsFreed == ~open ~> scan_pc = "ended"
=============================================================================
