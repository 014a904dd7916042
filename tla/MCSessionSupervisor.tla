------------------------ MODULE MCSessionSupervisor ------------------------
(* Instances of SessionSupervisor for TLC.  The receivers are symmetric:    *)
(* no action or property of the supervisor orders or names them.            *)
EXTENDS SessionSupervisor, TLC

ReceiverSymmetry == Permutations(Receivers)
============================================================================
