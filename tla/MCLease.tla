------------------------------- MODULE MCLease -------------------------------
(***************************************************************************)
(* Two listener pods whose clocks differ by one unit of 20 seconds.  The   *)
(* lease lasts three units (60 s), a heartbeat is due every one.           *)
(***************************************************************************)
EXTENDS Lease, TLC

CONSTANTS p1, p2

Clocks == p1 :> 0 @@ p2 :> 1
=============================================================================
