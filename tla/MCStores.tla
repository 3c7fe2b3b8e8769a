------------------------------ MODULE MCStores ------------------------------
(* Small instances of Stores for TLC.  The number of profiles is known for *)
(* few pods: 7 posts by one pod and 35 by two with the code's six retries. *)
EXTENDS Stores

ASSUME ProfilesAssumption ==
  \A r \in 0..6 :
    /\ Cardinality(ProfilesOf(1, r)) = r + 2
    /\ Cardinality(ProfilesOf(2, r)) = ((r + 2) * (r + 3)) \div 2
    /\ Cardinality(ProfilesOf(3, r)) = ((r + 2) * (r + 3) * (r + 4)) \div 6
=============================================================================
