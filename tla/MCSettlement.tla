---------------------------- MODULE MCSettlement ----------------------------
(***************************************************************************)
(* The settlement pipeline with a price of 7 stroops and a fee of 98 basis *)
(* points, so that the merchant must have received 6: a payment of 5 is an *)
(* underpayment, one of 6 settles.                                         *)
(***************************************************************************)
EXTENDS Settlement, TLC

\* Orders, accounts, requests, pods and the polls of one pod are interchangeable.
Symmetry ==
  Permutations(Order) \cup Permutations(Account) \cup Permutations(Request)
    \cup Permutations(Watcher) \cup Permutations(Slot)

\* Bound of the run with two pods: a subscription that has lapsed, which only
\* a charge request looks at, is not followed further.
NotLapsed == \A s \in Sub : ~subs[s].overdue
=============================================================================
