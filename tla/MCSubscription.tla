--------------------------- MODULE MCSubscription ---------------------------
(***************************************************************************)
(* Two subscriptions of one buyer drawing on one allowance, with a fee     *)
(* leg, one attester key and attestations of two deployments.  Nothing     *)
(* tells the two subscriptions' ids apart and no property is a liveness    *)
(* property, so their symmetry is sound.                                   *)
(***************************************************************************)
EXTENDS Subscription, TLC

Symmetry == Permutations(Id)
=============================================================================
