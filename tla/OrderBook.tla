------------------------------ MODULE OrderBook ------------------------------
(***************************************************************************)
(* What a merchant is promised about his orders, stated without pollers,   *)
(* cursors, leases, retries or crashes: an order is issued once and ends   *)
(* as paid, expired or cancelled, paid or underpaid on the evidence of one *)
(* payment; what he is told is true when he is told it, and of the order's *)
(* own kind; a subscription's counter is backed by its paid invoices.  One *)
(* thing happens at a time, but an expiry and its news are one.            *)
(* Settlement implements it.                                               *)
(***************************************************************************)
EXTENDS Integers, Sequences, FiniteSets

CONSTANTS Order, Sub, Account, Payment, Expected, None

VARIABLES
  status,    \* per order: "none" until it is issued
  invoiced,  \* per order: the subscription it is an invoice of, or None
  evidence,  \* per order: the payment that settled it, 0 for none
  payments,  \* the payments made, oldest first
  told,      \* the (order, event) pairs the merchant is told
  counted    \* per subscription: the charges counted

vars == <<status, invoiced, evidence, payments, told, counted>>

Init ==
  /\ status = [i \in Order |-> "none"]
  /\ invoiced = [i \in Order |-> None]
  /\ evidence = [i \in Order |-> 0]
  /\ payments = <<>>
  /\ told = {}
  /\ counted = [s \in Sub |-> 0]

Issue(i, s) ==
  /\ status[i] = "none"
  /\ status' = [status EXCEPT ![i] = "pending"]
  /\ invoiced' = [invoiced EXCEPT ![i] = s]
  /\ UNCHANGED <<evidence, payments, told, counted>>

Receive(i, a, amount, usdc) ==
  /\ status[i] # "none"
  /\ payments' = Append(payments, [memo |-> i, to |-> a, amount |-> amount, usdc |-> usdc])
  /\ UNCHANGED <<status, invoiced, evidence, told, counted>>

\* Payment r makes the order paid, also after a partial one, or underpaid.
Settle(i, r) ==
  LET enough == payments[r].amount >= Expected IN
  /\ payments[r].memo = i /\ payments[r].usdc
  /\ status[i] \in IF enough THEN {"pending", "underpaid"} ELSE {"pending"}
  /\ status' = [status EXCEPT ![i] = IF enough THEN "paid" ELSE "underpaid"]
  /\ evidence' = [evidence EXCEPT ![i] = r]
  /\ UNCHANGED <<invoiced, payments, told, counted>>

Cancel(i) ==
  /\ status[i] = "pending"
  /\ status' = [status EXCEPT ![i] = "cancelled"]
  /\ UNCHANGED <<invoiced, evidence, payments, told, counted>>

Expire(late) ==
  /\ \A i \in late : status[i] = "pending"
  /\ status' = [i \in Order |-> IF i \in late THEN "expired" ELSE status[i]]
  /\ told' = told \cup {<<i, "order.expired">> : i \in late}
  /\ UNCHANGED <<invoiced, evidence, payments, counted>>

\* An order's news: an invoice's payment is a charge of its subscription.
Tell(i) ==
  /\ \/ /\ status[i] \in {"underpaid", "paid"}
        /\ told' = told \cup {<<i, "order.underpaid">>}
     \/ /\ status[i] = "paid"
        /\ told' = told \cup
             {<<i, IF invoiced[i] = None THEN "order.paid" ELSE "subscription.charged">>}
  /\ UNCHANGED <<status, invoiced, evidence, payments, counted>>

Count(s, n) ==
  /\ n <= Cardinality({i \in Order : status[i] = "paid" /\ invoiced[i] = s})
  /\ counted' = [counted EXCEPT ![s] = n]
  /\ UNCHANGED <<status, invoiced, evidence, payments, told>>

Next ==
  \/ \E i \in Order : \/ \E s \in Sub \cup {None} : Issue(i, s)
                      \/ \E a \in Account, amount \in Payment, usdc \in BOOLEAN :
                           Receive(i, a, amount, usdc)
                      \/ \E r \in 1..Len(payments) : Settle(i, r)
                      \/ Cancel(i)
                      \/ Tell(i)
  \/ \E late \in SUBSET Order : Expire(late)
  \/ \E s \in Sub, n \in 1..Cardinality(Order) : Count(s, n)

Spec == Init /\ [][Next]_vars
=============================================================================
