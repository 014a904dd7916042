-------------------------------- MODULE Sessions -------------------------------
(***************************************************************************)
(* The two kinds of session a client may hold, side by side: a connection  *)
(* to a receiver (ReceiverConnection.tla) and one to an AirPlay 1 receiver *)
(* (RaopConnection.tla).                                                   *)
(***************************************************************************)
EXTENDS ReceiverConnection, RaopConnection

\* What the client holds of a receiver matches what the receiver was told and
\* what was opened for it (ConnectionSafe, RaopSafe).
SessionsSafe == ConnectionSafe /\ RaopSafe
================================================================================
