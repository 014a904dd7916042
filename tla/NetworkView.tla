------------------------------ MODULE NetworkView -----------------------------
(***************************************************************************)
(* What the backend sees of the world around it: the mDNS index and the    *)
(* discovery supervisor tell it who can be streamed to, the monitor and    *)
(* the scanner what became of the machine's own bindings and devices.  The *)
(* four share no state and run side by side.                               *)
(***************************************************************************)
EXTENDS ServiceIndex, Discovery, NetworkMonitor, EndpointScanner

-----------------------------------------------------------------------------
(* Properties.                                                             *)

\* What the controller learns of the network (IndexSafe, DiscoverySafe): the
\* service index and the inventory name the receivers that were announced.
InventoryTrue == IndexSafe /\ DiscoverySafe

\* The two watchers of the system (NoMoveLost, AnsweredFresh): every change of
\* the binding is reported, every request for the endpoint list answered anew.
WatchersMissNothing ==
  /\ BindingFingerprint /\ PulseQueue /\ NetworkSubscription /\ NoMoveLost
  /\ ScannerSlots /\ AnsweredFresh
===============================================================================
