------------------------------ MODULE MCWallet ------------------------------
(***************************************************************************)
(* The smart wallet on a small instance: a session key and pull policies   *)
(* side by side, so that the two credentials could get in each other's way.*)
(***************************************************************************)
EXTENDS SmartWallet
=============================================================================
