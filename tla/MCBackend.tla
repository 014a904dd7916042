------------------------------ MODULE MCBackend ------------------------------
(* Instances of Backend for TLC; the receivers are symmetric.               *)
EXTENDS Backend, TLC

ReceiverSymmetry == Permutations(Receivers)
============================================================================
