------------------------------- MODULE MCA2A -------------------------------
(* Small instances of A2A for TLC. *)
EXTENDS A2A, TLC

(* Everybody behind one address. *)
OneClient == [v \in Visitor |-> CHOOSE c \in Client : TRUE]

\* Runs are interchangeable.
Symmetry == Permutations(Visitor)

(* Bound: beyond two orders nothing has been paid and the clock stands.    *)
ManyOrders ==
  Len(orders) > 2 => now = 0 /\ attested = {} /\ \A i \in DOMAIN pays : pays[i] = 0
=============================================================================
