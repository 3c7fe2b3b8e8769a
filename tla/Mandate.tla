------------------------------- MODULE Mandate -------------------------------
(***************************************************************************)
(* What a buyer agrees to when a subscription is created, stated without   *)
(* doors, statuses, allowances or attestations: debits of one fixed        *)
(* amount, never closer together than the period, never more than the      *)
(* agreed number, none after the expiry, and none once the mandate is      *)
(* closed.  Nothing reopens a closed mandate.  Subscription implements it. *)
(***************************************************************************)
EXTENDS Integers, Sequences

CONSTANTS Id, Buyer, MaxTime, None

VARIABLES
  clock,   \* ledger timestamp
  terms,   \* per mandate: what the buyer agreed to, or None
  debits,  \* per mandate: the times it was debited
  closed,  \* per mandate: no further debit
  spent    \* per buyer: total debited by all his mandates

vars == <<clock, terms, debits, closed, spent>>

Terms == [buyer: Buyer, amount: Nat \ {0}, period_seconds: Nat \ {0},
          max_periods: Nat, expires_at: Nat]

Init ==
  /\ clock \in 1..MaxTime
  /\ terms = [i \in Id |-> None]
  /\ debits = [i \in Id |-> <<>>]
  /\ closed = [i \in Id |-> FALSE]
  /\ spent = [b \in Buyer |-> 0]

Open(i) ==
  /\ terms[i] = None
  /\ terms'[i] \in Terms
  /\ terms' = [terms EXCEPT ![i] = terms'[i]]
  /\ UNCHANGED <<clock, debits, closed, spent>>

Due(i) ==
  LET d == debits[i] IN
  d # <<>> => clock >= d[Len(d)] + terms[i].period_seconds

\* The debit that completes the agreed number closes the mandate.
Debit(i) ==
  LET t == terms[i]
      n == Len(debits[i]) + 1
  IN /\ t # None /\ ~closed[i]
     /\ Due(i)
     /\ t.max_periods = 0 \/ n <= t.max_periods
     /\ t.expires_at = 0 \/ clock < t.expires_at
     /\ debits' = [debits EXCEPT ![i] = Append(@, clock)]
     /\ closed' = [closed EXCEPT ![i] = (n = t.max_periods)]
     /\ spent' = [spent EXCEPT ![t.buyer] = @ + t.amount]
     /\ UNCHANGED <<clock, terms>>

Close(i) ==
  /\ terms[i] # None /\ ~closed[i]
  /\ closed' = [closed EXCEPT ![i] = TRUE]
  /\ UNCHANGED <<clock, terms, debits, spent>>

Tick ==
  /\ clock' \in (clock + 1)..MaxTime
  /\ UNCHANGED <<terms, debits, closed, spent>>

Next == (\E i \in Id : Open(i) \/ Debit(i) \/ Close(i)) \/ Tick

Spec == Init /\ [][Next]_vars
=============================================================================
