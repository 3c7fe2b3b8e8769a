---------------------------- MODULE Subscription ----------------------------
(***************************************************************************)
(* The Soroban contract contracts/subscription: recurring debits of a      *)
(* fixed amount through three doors - charge (the buyer signs each time),  *)
(* autocharge (pulled from the buyer's standing allowance) and             *)
(* autocharge_attested (the same, behind an attester's signature) - with   *)
(* pause, resume, cancel and mark_expired.  A call that panics reverts all *)
(* it did, so each call is one step or none.                               *)
(*                                                                         *)
(* The SEP-41 token is external; only the two calls the contract makes     *)
(* and the buyer's approve are modelled.                                   *)
(***************************************************************************)
EXTENDS Integers, Sequences, FiniteSetsExt

CONSTANTS
  Id,              \* 32-byte nonces, one per subscription
  Buyer, Merchant, \* addresses
  Platform,        \* receives the fee leg
  Key,             \* ed25519 attester keys
  Domain,          \* the deploy-bound domain of this contract instance
  OtherDomain,     \* the domain of another instance, or of another chain
  fee_bps,         \* platform fee in basis points
  Amount, Period, MaxPeriods, Expiry, Approval,  \* arguments that occur
  Funds,           \* what each buyer holds at the start
  MinPeriod,       \* shortest period create accepts (86400; 1 in a demo build)
  MaxTime,         \* bound: the last ledger timestamp
  NotAfter,        \* bound: deadlines attestations are issued with
  None

ASSUME ConstantsAssumption ==
  /\ IsFiniteSet(Id)
  /\ fee_bps \in 0..1000
  /\ Domain # OtherDomain
  /\ Buyer \cap (Merchant \cup {Platform}) = {}
  /\ Amount \subseteq Nat /\ Period \subseteq Nat /\ MaxPeriods \subseteq Nat
  /\ Expiry \subseteq Nat /\ Approval \subseteq Nat
  /\ NotAfter \subseteq Nat
  /\ Funds \in Nat /\ MinPeriod \in Nat \ {0} /\ MaxTime \in Nat \ {0}

Time == 0..MaxTime
Party == Buyer \cup Merchant \cup {Platform}
Status == {"Active", "Paused", "Cancelled", "Expired"}

\* max_periods = 0 is unlimited, expires_at = 0 no expiry, last_charge_at = 0
\* never charged.
Subscription == [buyer: Buyer, merchant: Merchant, amount: Nat \ {0},
                 period_seconds: Nat \ {0}, max_periods: Nat, expires_at: Nat,
                 charges_done: Nat, last_charge_at: Time, status: Status]

\* A signed attestation message: who signed, and the fields of the message.
Attestation == [key: Key, domain: {Domain, OtherDomain}, id: Id,
                charges_done: Nat, not_after: Nat]

\* Those the relayer may hold: charge counters cannot pass MaxTime.
OfferedAttestation ==
  [key: Key, domain: {Domain, OtherDomain}, id: Id, charges_done: 0..MaxTime,
   not_after: NotAfter]

ASSUME NoneAssumption ==
  None \notin Subscription /\ None \notin Key /\ None \notin Attestation

VARIABLES
  now,        \* ledger timestamp
  subs,       \* DataKey::Sub
  attesters,  \* DataKey::Attester
  balance,    \* token: balances
  allowance,  \* token: what each buyer lets this contract still take
  charges     \* history: per subscription, one record per settled charge

vars == <<now, subs, attesters, balance, allowance, charges>>
token == <<balance, allowance>>

Charge == [at: Time, door: {"charge", "autocharge", "attested"},
           attestation: Attestation \cup {None}, debit: Int]

TypeOK ==
  /\ now \in Time \ {0}
  /\ subs \in [Id -> Subscription \cup {None}]
  /\ attesters \in [Id -> Key \cup {None}]
  /\ balance \in [Party -> Nat]
  /\ allowance \in [Buyer -> Nat]
  /\ charges \in [Id -> Seq(Charge)]

Init ==
  /\ now \in Time \ {0}
  /\ subs = [i \in Id |-> None]
  /\ attesters = [i \in Id |-> None]
  /\ balance = [p \in Party |-> IF p \in Buyer THEN Funds ELSE 0]
  /\ allowance = [b \in Buyer |-> 0]
  /\ charges = [i \in Id |-> <<>>]

Create(i, b, m, amount, period, max, expires) ==
  /\ subs[i] = None
  /\ amount > 0 /\ period >= MinPeriod
  /\ expires = 0 \/ expires > now
  /\ subs' = [subs EXCEPT ![i] =
       [buyer |-> b, merchant |-> m, amount |-> amount,
        period_seconds |-> period, max_periods |-> max, expires_at |-> expires,
        charges_done |-> 0, last_charge_at |-> 0, status |-> "Active"]]
  /\ UNCHANGED <<now, attesters, token, charges>>

SetAttester(i, k) ==
  /\ subs[i] # None
  /\ attesters' = [attesters EXCEPT ![i] = k]
  /\ UNCHANGED <<now, subs, token, charges>>

---------------------------------------------------------------------------
(* Charging.                                                               *)

ExpiredByTime(s) == s.expires_at # 0 /\ now >= s.expires_at
ExpiredByCount(s) == s.max_periods # 0 /\ s.charges_done >= s.max_periods

\* Mutant: expires_at is not looked at.
ChargeableLate(s) ==
  /\ s.status = "Active"
  /\ s.last_charge_at = 0 \/ now >= s.last_charge_at + s.period_seconds
  /\ ~ExpiredByCount(s)

\* Mutant: the period counts from the ledger after the last charge's.
ChargeableEarly(s) ==
  /\ s.status = "Active"
  /\ ~ExpiredByTime(s)
  /\ s.last_charge_at = 0 \/ now + 1 >= s.last_charge_at + s.period_seconds
  /\ ~ExpiredByCount(s)

\* The checks charge and allowance_charge share.
Chargeable(s) ==
  /\ s.status = "Active"
  /\ ~ExpiredByTime(s)
  /\ s.last_charge_at = 0 \/ now >= s.last_charge_at + s.period_seconds
  /\ ~ExpiredByCount(s)

\* Mutant: stores when the next charge is due for when the last one was.
ChargedNextDue(s) ==
  LET n == [s EXCEPT !.charges_done = @ + 1, !.last_charge_at = now + s.period_seconds]
  IN [n EXCEPT !.status = IF ExpiredByCount(n) THEN "Expired" ELSE @]

\* The bookkeeping they share, once the money has moved.
Charged(s) ==
  LET n == [s EXCEPT !.charges_done = @ + 1, !.last_charge_at = now]
  IN [n EXCEPT !.status = IF ExpiredByCount(n) THEN "Expired" ELSE @]

Book(i, door, attestation) ==
  /\ subs' = [subs EXCEPT ![i] = Charged(@)]
  /\ charges' = [charges EXCEPT ![i] = Append(@,
       [at |-> now, door |-> door, attestation |-> attestation,
        debit |-> balance[subs[i].buyer] - balance'[subs[i].buyer]])]
  /\ UNCHANGED <<now, attesters>>

\* token.transfer(buyer, merchant, amount), which the buyer signed for.
BuyerCharge(i) ==
  LET s == subs[i] IN
  /\ s # None /\ Chargeable(s)
  /\ balance[s.buyer] >= s.amount
  /\ balance' = [balance EXCEPT ![s.buyer] = @ - s.amount,
                                ![s.merchant] = @ + s.amount]
  /\ UNCHANGED allowance
  /\ Book(i, "charge", None)

Fee(s) == (s.amount * fee_bps) \div 10000

\* Mutant: the fee comes on top of the amount.
FeeOnTop(i, door, attestation) ==
  LET s == subs[i]
      total == s.amount + Fee(s)
  IN /\ s # None /\ Chargeable(s)
     /\ allowance[s.buyer] >= total /\ balance[s.buyer] >= total
     /\ allowance' = [allowance EXCEPT ![s.buyer] = @ - total]
     /\ balance' = [[balance EXCEPT ![s.buyer] = @ - total,
                                    ![Platform] = @ + Fee(s)]
                     EXCEPT ![s.merchant] = @ + s.amount]
     /\ Book(i, door, attestation)

\* Two transfer_from calls on the one allowance: the fee, if any, to the
\* platform and the rest to the merchant.  The second failing undoes the first.
AllowanceCharge(i, door, attestation) ==
  LET s == subs[i]
      toMerchant == s.amount - Fee(s)
      total == Fee(s) + toMerchant
  IN /\ s # None /\ Chargeable(s)
     /\ allowance[s.buyer] >= total /\ balance[s.buyer] >= total
     /\ allowance' = [allowance EXCEPT ![s.buyer] = @ - total]
     /\ balance' = [[balance EXCEPT ![s.buyer] = @ - total,
                                    ![Platform] = @ + Fee(s)]
                     EXCEPT ![s.merchant] = @ + toMerchant]
     /\ Book(i, door, attestation)

\* Refused as soon as an attester is bound.
Autocharge(i) ==
  /\ attesters[i] = None
  /\ AllowanceCharge(i, "autocharge", None)

\* Mutant: the message does not carry the charge counter.
VerifiesAnyCharge(i, a) ==
  a.key = attesters[i] /\ a.domain = Domain /\ a.id = i

\* ed25519_verify of the message rebuilt from storage: the signature is good
\* only for this domain, this subscription and this charge, by the bound key.
Verifies(i, a) ==
  /\ a.key = attesters[i]
  /\ a.domain = Domain
  /\ a.id = i
  /\ a.charges_done = subs[i].charges_done

AutochargeAttested(i, a) ==
  /\ attesters[i] # None /\ subs[i] # None
  /\ now <= a.not_after
  /\ Verifies(i, a)
  /\ AllowanceCharge(i, "attested", a)

---------------------------------------------------------------------------
(* Status changes.                                                         *)

\* Mutant: the prior status is not looked at.
SetStatusAlways(i, from, to) ==
  /\ subs[i] # None
  /\ subs' = [subs EXCEPT ![i].status = to]
  /\ UNCHANGED <<now, attesters, token, charges>>

SetStatus(i, from, to) ==
  /\ subs[i] # None /\ subs[i].status \in from
  /\ subs' = [subs EXCEPT ![i].status = to]
  /\ UNCHANGED <<now, attesters, token, charges>>

Cancel(i) == SetStatus(i, {"Active", "Paused"}, "Cancelled")
Pause(i) == SetStatus(i, {"Active"}, "Paused")
Resume(i) == SetStatus(i, {"Paused"}, "Active")

\* Callable by anyone once expires_at or max_periods is reached.
MarkExpired(i) ==
  /\ subs[i] # None
  /\ ExpiredByTime(subs[i]) \/ ExpiredByCount(subs[i])
  /\ SetStatus(i, {"Active", "Paused"}, "Expired")

---------------------------------------------------------------------------
(* The token and the ledger.                                               *)

\* token.approve replaces the allowance; 0 also stands for the allowance
\* reaching its expiration ledger.
Approve(b, amount) ==
  /\ allowance' = [allowance EXCEPT ![b] = amount]
  /\ UNCHANGED <<now, subs, attesters, balance, charges>>

Tick ==
  /\ \E t \in Time : t > now /\ now' = t
  /\ UNCHANGED <<subs, attesters, token, charges>>

Next ==
  \/ \E i \in Id, b \in Buyer, m \in Merchant, amount \in Amount,
        period \in Period, max \in MaxPeriods, expires \in Expiry :
        Create(i, b, m, amount, period, max, expires)
  \/ \E i \in Id, k \in Key : SetAttester(i, k)
  \/ \E i \in Id : \/ BuyerCharge(i) \/ Autocharge(i)
                   \/ Cancel(i) \/ Pause(i) \/ Resume(i) \/ MarkExpired(i)
  \/ \E i \in Id, a \in OfferedAttestation : AutochargeAttested(i, a)
  \/ \E b \in Buyer, amount \in Approval : Approve(b, amount)
  \/ Tick

Spec == Init /\ [][Next]_vars

---------------------------------------------------------------------------
(* Properties.                                                             *)

\* Two settled charges of one subscription are never closer than its period,
\* whichever doors they came through and whatever pauses, resumes and
\* re-bound attesters lie between them.
ChargeSpacing ==
  \A i \in Id : \A m, n \in DOMAIN charges[i] :
    m < n => charges[i][n].at >= charges[i][m].at + subs[i].period_seconds

\* What the settled charges of each subscription come to, and the fee legs of
\* those that came through the allowance.
taken == [i \in Id |-> IF subs[i] = None THEN 0
                       ELSE subs[i].amount * Len(charges[i])]
Pulled(cs) == {n \in DOMAIN cs : cs[n].door # "charge"}
fees == [i \in Id |-> IF subs[i] = None THEN 0
                      ELSE Fee(subs[i]) * Cardinality(Pulled(charges[i]))]

\* What each subscription costs a buyer and brings a merchant or the platform.
paid(b) == [i \in Id |-> IF subs[i] # None /\ subs[i].buyer = b THEN taken[i] ELSE 0]
received(p) ==
  [i \in Id |-> (IF subs[i] # None /\ subs[i].merchant = p THEN taken[i] - fees[i] ELSE 0)
                + (IF p = Platform THEN fees[i] ELSE 0)]

\* Whatever a buyer lost, he lost to charges of his own subscriptions, each of
\* exactly the agreed amount: two subscriptions drawing on one allowance never
\* double-spend it.  The fee legs come out of the merchants' shares, rounding
\* included, and nothing else moves money.
MandatesArePaid ==
  /\ \A b \in Buyer : Funds - balance[b] = SumFunctionOnSet(paid(b), Id)
  /\ \A p \in Merchant \cup {Platform} : balance[p] = SumFunctionOnSet(received(p), Id)

\* A signed attestation settles at most one charge, on the subscription and
\* the contract it was signed for: replays across charges, subscriptions and
\* deployments settle nothing.
AttestationSingleUse ==
  \A i, j \in Id : \A m \in DOMAIN charges[i], n \in DOMAIN charges[j] :
    LET a == charges[i][m].attestation IN
    a # None =>
      /\ a.id = i /\ a.domain = Domain /\ charges[i][m].at <= a.not_after
      /\ a = charges[j][n].attestation => i = j /\ m = n

\* Cancelled and Expired are terminal for every door and every status call
\* (audit-002 F6), and a subscription whose count is used up is Expired.
TerminalIsFinal ==
  [][\A i \in Id : subs[i] # None =>
       /\ subs[i].status \in {"Cancelled", "Expired"} =>
            subs'[i] = subs[i] /\ charges'[i] = charges[i]
       /\ ExpiredByCount(subs'[i]) => subs'[i].status = "Expired"]_vars

\* The mapping to the abstract promise: what was agreed is what was created, a
\* debit is a settled charge, a terminal status closes the mandate.
terms == [i \in Id |-> IF subs[i] = None THEN None ELSE
            [buyer |-> subs[i].buyer, amount |-> subs[i].amount,
             period_seconds |-> subs[i].period_seconds,
             max_periods |-> subs[i].max_periods, expires_at |-> subs[i].expires_at]]
TimesOf(cs) == [n \in 1..Len(cs) |-> cs[n].at]
debits == [i \in Id |-> TimesOf(charges[i])]
closed == [i \in Id |-> subs[i] # None /\ subs[i].status \in {"Cancelled", "Expired"}]
spent == [b \in Buyer |-> Funds - balance[b]]

M == INSTANCE Mandate WITH clock <- now

ASSUME TermsAssumption == None \notin M!Terms

\* Whatever order the doors, status calls and approvals come in, the contract
\* does to the buyer only what the mandate he agreed to allows.
ImplementsMandate == M!Spec
---------------------------------------------------------------------------
(* The inductive invariant behind the theorems of Subscription_proofs.     *)

\* The stored counter and clock agree with what was settled: the counter is
\* the number of charges, last_charge_at the time of the last one and 0 only
\* without any, and every attestation used was good for just its charge.
LedgerInv(i, s, cs) ==
  /\ s.charges_done = Len(cs)
  /\ s.last_charge_at = IF cs = <<>> THEN 0 ELSE cs[Len(cs)].at
  /\ \A n \in DOMAIN cs : 0 < cs[n].at
  /\ \A m, n \in DOMAIN cs : m < n => cs[n].at >= cs[m].at + s.period_seconds
  /\ ExpiredByCount(s) => s.status = "Expired"
  /\ \A n \in DOMAIN cs :
       LET a == cs[n].attestation IN
       a # None => a.id = i /\ a.domain = Domain /\ a.charges_done = n - 1
                     /\ cs[n].at <= a.not_after

IInv ==
  /\ TypeOK
  /\ \A i \in Id : IF subs[i] = None THEN charges[i] = <<>>
                   ELSE LedgerInv(i, subs[i], charges[i])
=============================================================================
