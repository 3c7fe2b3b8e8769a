------------------------ MODULE Subscription_proofs ------------------------
(***************************************************************************)
(* Proofs about the subscription contract for every value of the           *)
(* constants.  Both kinds of charge are first reduced to what they have in *)
(* common: the buyer loses exactly the amount (Debited) and the charge is  *)
(* booked (Book).  The rest argues from these two.                         *)
(***************************************************************************)
EXTENDS Subscription, FiniteSetTheorems, TLAPS

Door == {"charge", "autocharge", "attested"}

\* What a settled charge of subscription i does to the money.
Debited(i) ==
  /\ subs[i] # None /\ Chargeable(subs[i])
  /\ balance' \in [Party -> Nat] /\ allowance' \in [Buyer -> Nat]
  /\ \A b \in Buyer : balance'[b] =
       IF b = subs[i].buyer THEN balance[b] - subs[i].amount ELSE balance[b]

\* The same for those who receive it, with a fee leg of f.
Credited(i, f) ==
  \A p \in Merchant \cup {Platform} :
    balance'[p] = balance[p] + (IF p = subs[i].merchant THEN subs[i].amount - f ELSE 0)
                             + (IF p = Platform THEN f ELSE 0)

(* The fee is part of the amount, rounding included.                       *)
LEMMA FeeBounds ==
  ASSUME NEW s \in Subscription
  PROVE  Fee(s) \in Nat /\ Fee(s) <= s.amount
<1> DEFINE p == s.amount * fee_bps
<1>1. s.amount \in Nat /\ fee_bps \in Nat /\ fee_bps <= 1000
  BY ConstantsAssumption DEF Subscription
<1>2. p \in Nat /\ p <= 1000 * s.amount
  BY <1>1
<1>3. p \div 10000 \in Nat /\ p \div 10000 <= s.amount
  <2> HIDE DEF p
  <2> QED BY <1>1, <1>2
<1> QED BY <1>3 DEF Fee

LEMMA BuyerChargeDebits ==
  ASSUME TypeOK, NEW i \in Id, BuyerCharge(i)
  PROVE  Debited(i) /\ Book(i, "charge", None)
<1> DEFINE s == subs[i]
<1>1. /\ s \in Subscription /\ Chargeable(s) /\ balance[s.buyer] >= s.amount
      /\ balance' = [balance EXCEPT ![s.buyer] = @ - s.amount, ![s.merchant] = @ + s.amount]
      /\ allowance' = allowance
  BY DEF BuyerCharge, TypeOK
<1>2. /\ s.buyer \in Buyer /\ s.merchant \in Merchant /\ s.amount \in Nat
      /\ s.merchant \notin Buyer /\ s.buyer # s.merchant
  BY <1>1, ConstantsAssumption DEF Subscription
<1>3. balance \in [Party -> Nat] /\ s.buyer \in Party /\ s.merchant \in Party
  BY <1>2 DEF TypeOK, Party
<1>4. balance' \in [Party -> Nat]
  <2> HIDE DEF s
  <2> QED BY <1>1, <1>2, <1>3
<1>5. \A b \in Buyer : balance'[b] = IF b = s.buyer THEN balance[b] - s.amount ELSE balance[b]
  <2> HIDE DEF s
  <2>1. Buyer \subseteq Party
    BY DEF Party
  <2> QED BY <1>1, <1>2, <1>3, <2>1
<1> QED BY <1>1, <1>4, <1>5, NoneAssumption DEF Debited, BuyerCharge, TypeOK

LEMMA AllowanceChargeDebits ==
  ASSUME TypeOK, NEW i \in Id, NEW door, NEW a, AllowanceCharge(i, door, a)
  PROVE  Debited(i) /\ Book(i, door, a)
<1> DEFINE s == subs[i]
           fee == Fee(s)
           rest == s.amount - fee
           total == fee + rest
<1>1. /\ s \in Subscription /\ Chargeable(s)
      /\ allowance[s.buyer] >= total /\ balance[s.buyer] >= total
      /\ allowance' = [allowance EXCEPT ![s.buyer] = @ - total]
      /\ balance' = [[balance EXCEPT ![s.buyer] = @ - total, ![Platform] = @ + fee]
                      EXCEPT ![s.merchant] = @ + rest]
  BY DEF AllowanceCharge, TypeOK
<1>2. /\ s.buyer \in Buyer /\ s.merchant \in Merchant /\ s.amount \in Nat
      /\ s.merchant \notin Buyer /\ Platform \notin Buyer
  BY <1>1, ConstantsAssumption DEF Subscription
<1>3. /\ balance \in [Party -> Nat] /\ allowance \in [Buyer -> Nat] /\ s.buyer \in Party
      /\ s.merchant \in Party /\ Platform \in Party /\ Buyer \subseteq Party
  BY <1>2 DEF TypeOK, Party
<1>4. fee \in Nat /\ rest \in Nat /\ total = s.amount
  <2>1. fee \in Nat /\ fee <= s.amount
    BY <1>1, FeeBounds
  <2> HIDE DEF s, fee
  <2> QED BY <2>1, <1>2
<1>5. /\ balance' \in [Party -> Nat] /\ allowance' \in [Buyer -> Nat]
      /\ \A b \in Buyer : balance'[b] = IF b = s.buyer THEN balance[b] - s.amount ELSE balance[b]
  <2> HIDE DEF s, fee, rest, total
  <2> DEFINE mid == [balance EXCEPT ![s.buyer] = @ - total, ![Platform] = @ + fee]
  <2>1. mid \in [Party -> Nat]
    BY <1>1, <1>2, <1>3, <1>4
  <2>2. \A b \in Buyer : mid[b] = IF b = s.buyer THEN balance[b] - s.amount ELSE balance[b]
    BY <1>1, <1>2, <1>3, <1>4
  <2>3. balance' = [mid EXCEPT ![s.merchant] = @ + rest]
    BY <1>1
  <2>4. allowance' \in [Buyer -> Nat]
    BY <1>1, <1>2, <1>3, <1>4
  <2> HIDE DEF mid
  <2> QED BY <2>1, <2>2, <2>3, <2>4, <1>2, <1>3, <1>4
<1> QED BY <1>1, <1>5, NoneAssumption DEF Debited, AllowanceCharge

LEMMA BuyerChargeCredits ==
  ASSUME TypeOK, NEW i \in Id, BuyerCharge(i)
  PROVE  Credited(i, 0)
<1> DEFINE s == subs[i]
<1>1. /\ s \in Subscription
      /\ balance' = [balance EXCEPT ![s.buyer] = @ - s.amount, ![s.merchant] = @ + s.amount]
  BY DEF BuyerCharge, TypeOK
<1>2. /\ s.buyer \in Buyer /\ s.merchant \in Merchant /\ s.amount \in Nat
      /\ \A p \in Merchant \cup {Platform} : p \in Party /\ p # s.buyer /\ balance[p] \in Nat
  BY <1>1, ConstantsAssumption DEF Subscription, TypeOK, Party
<1>3. balance \in [Party -> Nat] /\ s.buyer \in Party /\ s.merchant \in Party
  BY <1>2 DEF TypeOK, Party
<1>4. ASSUME NEW p \in Merchant \cup {Platform}
      PROVE  balance'[p] = balance[p] + (IF p = s.merchant THEN s.amount ELSE 0)
  <2> HIDE DEF s
  <2> QED BY <1>1, <1>2, <1>3
<1>5. \A p \in Merchant \cup {Platform} :
        balance'[p] = balance[p] + (IF p = s.merchant THEN s.amount - 0 ELSE 0)
                                 + (IF p = Platform THEN 0 ELSE 0)
  <2> HIDE DEF s
  <2> QED BY <1>2, <1>4
<1> QED BY <1>5 DEF Credited

LEMMA AllowanceChargeCredits ==
  ASSUME TypeOK, NEW i \in Id, NEW door, NEW a, AllowanceCharge(i, door, a)
  PROVE  Credited(i, Fee(subs[i]))
<1> DEFINE s == subs[i]
           fee == Fee(s)
           rest == s.amount - fee
           mid == [balance EXCEPT ![s.buyer] = @ - (fee + rest), ![Platform] = @ + fee]
<1>1. s \in Subscription /\ balance' = [mid EXCEPT ![s.merchant] = @ + rest]
  BY DEF AllowanceCharge, TypeOK
<1>2. /\ s.buyer \in Buyer /\ s.merchant \in Party
      /\ \A p \in Merchant \cup {Platform} : p \in Party /\ p # s.buyer /\ balance[p] \in Nat
  BY <1>1, ConstantsAssumption DEF Subscription, TypeOK, Party
<1>3. balance \in [Party -> Nat] /\ s.buyer \in Party /\ Platform \in Party
  BY <1>2 DEF TypeOK, Party
<1>4. fee \in Int /\ rest \in Int
  <2>1. fee \in Nat /\ s.amount \in Nat
    BY <1>1, FeeBounds DEF Subscription
  <2> HIDE DEF s, fee
  <2> QED BY <2>1
<1> SUFFICES ASSUME NEW p \in Merchant \cup {Platform}
             PROVE  balance'[p] = balance[p] + (IF p = s.merchant THEN rest ELSE 0)
                                             + (IF p = Platform THEN fee ELSE 0)
  BY DEF Credited
<1> HIDE DEF s, fee, rest
<1>5. mid[p] = balance[p] + (IF p = Platform THEN fee ELSE 0) /\ DOMAIN mid = Party
  BY <1>2, <1>3, <1>4
<1> HIDE DEF mid
<1> QED BY <1>1, <1>2, <1>4, <1>5
---------------------------------------------------------------------------
(* The invariant.                                                          *)

(* What the bookkeeping of a charge stores.                                *)
LEMMA ChargedFields ==
  ASSUME now \in Time, NEW s \in Subscription
  PROVE  /\ Charged(s) \in Subscription
         /\ Charged(s).charges_done = s.charges_done + 1 /\ Charged(s).last_charge_at = now
         /\ Charged(s).buyer = s.buyer /\ Charged(s).amount = s.amount
         /\ Charged(s).merchant = s.merchant
         /\ Charged(s).period_seconds = s.period_seconds
         /\ Charged(s).max_periods = s.max_periods /\ Charged(s).expires_at = s.expires_at
         /\ Charged(s).status =
              IF s.max_periods # 0 /\ s.charges_done + 1 >= s.max_periods
              THEN "Expired" ELSE s.status
<1> DEFINE done == s.charges_done + 1
           n == [s EXCEPT !.charges_done = @ + 1, !.last_charge_at = now]
           status == IF ExpiredByCount(n) THEN "Expired" ELSE n.status
           r == Charged(s)
<1>1. done \in Nat
  BY DEF Subscription
<1>2. n = [s EXCEPT !.charges_done = done, !.last_charge_at = now]
  OBVIOUS
<1>3. r = [n EXCEPT !.status = status]
  BY DEF Charged
<1> HIDE DEF n, done, r
<1>4. /\ n \in Subscription /\ n.charges_done = done /\ n.last_charge_at = now
      /\ n.buyer = s.buyer /\ n.merchant = s.merchant /\ n.amount = s.amount
      /\ n.period_seconds = s.period_seconds
      /\ n.max_periods = s.max_periods /\ n.expires_at = s.expires_at
      /\ n.status = s.status
  BY <1>1, <1>2 DEF Subscription
<1>5. /\ status \in Status
      /\ status = IF s.max_periods # 0 /\ done >= s.max_periods THEN "Expired" ELSE s.status
  BY <1>4 DEF Subscription, Status, ExpiredByCount
<1> HIDE DEF status
<1>6. /\ r \in Subscription /\ r.charges_done = done /\ r.last_charge_at = now
      /\ r.buyer = s.buyer /\ r.merchant = s.merchant /\ r.amount = s.amount
      /\ r.period_seconds = s.period_seconds
      /\ r.max_periods = s.max_periods /\ r.expires_at = s.expires_at
      /\ r.status = status
  BY <1>3, <1>4, <1>5 DEF Subscription
<1> QED BY <1>5, <1>6 DEF r, done

(* One more settled charge, at the end of the history.                     *)
LEMMA ChargedLedger ==
  ASSUME now \in Time \ {0}, NEW i \in Id, NEW s \in Subscription, NEW cs \in Seq(Charge),
         NEW c \in Charge, LedgerInv(i, s, cs), Chargeable(s), c.at = now,
         c.attestation # None =>
           /\ c.attestation.id = i /\ c.attestation.domain = Domain
           /\ c.attestation.charges_done = s.charges_done
           /\ now <= c.attestation.not_after
  PROVE  LedgerInv(i, Charged(s), Append(cs, c))
<1> DEFINE r == Charged(s)
           cs2 == Append(cs, c)
           last == Len(cs) + 1
<1>1. /\ s.charges_done \in Nat /\ s.charges_done = Len(cs) /\ s.period_seconds \in Nat
      /\ s.last_charge_at = IF cs = <<>> THEN 0 ELSE cs[Len(cs)].at
      /\ now \in Nat /\ now > 0 /\ MaxTime \in Nat /\ now \in Time
  BY ConstantsAssumption DEF LedgerInv, Subscription, Time
<1>2. /\ r.charges_done = s.charges_done + 1 /\ r.last_charge_at = now
      /\ r.period_seconds = s.period_seconds
      /\ ExpiredByCount(r) => r.status = "Expired"
  <2> HIDE DEF r
  <2>1. /\ r.charges_done = s.charges_done + 1 /\ r.last_charge_at = now
        /\ r.period_seconds = s.period_seconds /\ r.max_periods = s.max_periods
        /\ r.status = IF s.max_periods # 0 /\ s.charges_done + 1 >= s.max_periods
                      THEN "Expired" ELSE s.status
    BY <1>1, ChargedFields DEF r
  <2> QED BY <2>1 DEF ExpiredByCount
<1> HIDE DEF r
<1>3. /\ cs2 \in Seq(Charge) /\ Len(cs2) = last /\ DOMAIN cs2 = 1..last /\ DOMAIN cs = 1..Len(cs)
      /\ cs2[last] = c /\ cs2 # <<>> /\ Len(cs) \in Nat
      /\ \A m \in 1..Len(cs) : cs2[m] = cs[m]
  OBVIOUS
<1> HIDE DEF cs2
<1>4. \A j, k \in 1..Len(cs) : j < k => cs[k].at >= cs[j].at + s.period_seconds
  BY <1>3 DEF LedgerInv
<1>5. \A m \in 1..Len(cs) : cs[m] \in Charge /\ cs[m].at \in Nat
  <2>1. \A m \in 1..Len(cs) : cs[m] \in Charge
    BY <1>3
  <2> QED BY <2>1, <1>1 DEF Charge, Time
<1>6. ASSUME NEW m \in 1..Len(cs)
      PROVE  now >= cs[m].at + s.period_seconds
  <2>1. cs # <<>> /\ Len(cs) \in 1..Len(cs)
    BY <1>3, <1>6
  <2>2. s.last_charge_at = cs[Len(cs)].at /\ s.last_charge_at # 0
    BY <2>1, <1>1, <1>3 DEF LedgerInv
  <2>3. now >= s.last_charge_at + s.period_seconds
    BY <2>2 DEF Chargeable
  <2>4. cs[Len(cs)].at >= cs[m].at
    <3>1. CASE m = Len(cs)
      BY <3>1, <1>5, <2>1
    <3>2. CASE m # Len(cs)
      <4>2. m < Len(cs)
        <5>1. m \in Nat /\ m <= Len(cs) /\ Len(cs) \in Nat
          BY <1>3
        <5> QED BY <5>1, <3>2
      <4>1. cs[Len(cs)].at >= cs[m].at + s.period_seconds
        BY <4>2, <1>4, <2>1
      <4> QED BY <4>1, <1>5, <1>1, <2>1
    <3> QED BY <3>1, <3>2
  <2> QED BY <2>2, <2>3, <2>4, <1>1, <1>5, <2>1
<1>7. \A m \in DOMAIN cs2 : 0 < cs2[m].at
  BY <1>1, <1>3 DEF LedgerInv
<1>8. \A j, k \in DOMAIN cs2 : j < k => cs2[k].at >= cs2[j].at + r.period_seconds
  <2> SUFFICES ASSUME NEW j \in 1..last, NEW k \in 1..last, j < k
               PROVE  cs2[k].at >= cs2[j].at + s.period_seconds
    <3> HIDE DEF last
    <3> QED BY <1>2, <1>3
  <2>1. j \in 1..Len(cs)
    BY <1>3
  <2>2. CASE k = last
    BY <2>1, <2>2, <1>3, <1>6
  <2>3. CASE k # last
    BY <2>1, <2>3, <1>3, <1>4
  <2> QED BY <2>2, <2>3
<1>9. ASSUME NEW m \in DOMAIN cs2, cs2[m].attestation # None
      PROVE  /\ cs2[m].attestation.id = i /\ cs2[m].attestation.domain = Domain
             /\ cs2[m].attestation.charges_done = m - 1
             /\ cs2[m].at <= cs2[m].attestation.not_after
  <2>1. CASE m = last
    BY <2>1, <1>1, <1>3, <1>9
  <2>2. CASE m # last
    BY <2>2, <1>3, <1>9 DEF LedgerInv
  <2> QED BY <2>1, <2>2
<1>10. LedgerInv(i, r, cs2)
  <2>1. r.charges_done = Len(cs2) /\ r.last_charge_at = cs2[Len(cs2)].at
    BY <1>1, <1>2, <1>3
  <2>2. ExpiredByCount(r) => r.status = "Expired"
    BY <1>2
  <2>3. r.last_charge_at = IF cs2 = <<>> THEN 0 ELSE cs2[Len(cs2)].at
    BY <2>1, <1>3
  <2> HIDE DEF last
  <2> QED BY <2>1, <2>2, <2>3, <1>7, <1>8, <1>9 DEF LedgerInv
<1> QED BY <1>10 DEF r, cs2

LEMMA InitInv == Init => IInv
<1> SUFFICES ASSUME Init PROVE IInv
  OBVIOUS
<1>1. now \in Time \ {0} /\ charges \in [Id -> Seq(Charge)] /\ balance \in [Party -> Nat]
  BY ConstantsAssumption DEF Init
<1>2. TypeOK
  BY <1>1 DEF Init, TypeOK
<1> QED BY <1>2 DEF Init, IInv

(* A new subscription starts with an empty history.                        *)
LEMMA CreateInv ==
  ASSUME IInv, NEW i \in Id, NEW b \in Buyer, NEW m \in Merchant, NEW amount \in Amount,
         NEW period \in Period, NEW max \in MaxPeriods, NEW expires \in Expiry,
         Create(i, b, m, amount, period, max, expires)
  PROVE  IInv'
<1> DEFINE s == [buyer |-> b, merchant |-> m, amount |-> amount,
                 period_seconds |-> period, max_periods |-> max, expires_at |-> expires,
                 charges_done |-> 0, last_charge_at |-> 0, status |-> "Active"]
<1>1. /\ subs[i] = None /\ subs' = [subs EXCEPT ![i] = s] /\ amount > 0 /\ period >= MinPeriod
      /\ now' = now /\ attesters' = attesters /\ balance' = balance
      /\ allowance' = allowance /\ charges' = charges
  BY DEF Create, token
<1>2. s \in Subscription
  BY <1>1, ConstantsAssumption DEF Subscription, Status, Time
<1>3. charges[i] = <<>>
  BY <1>1 DEF IInv
<1>4. LedgerInv(i, s, <<>>)
  <2>1. s.max_periods \in Nat
    BY <1>2 DEF Subscription
  <2>2. ~ExpiredByCount(s)
    BY <2>1 DEF ExpiredByCount
  <2> QED BY <2>2 DEF LedgerInv
<1> HIDE DEF s
<1>5. TypeOK'
  BY <1>1, <1>2 DEF IInv, TypeOK
<1>6. \A j \in Id : IF subs'[j] = None THEN charges'[j] = <<>>
                    ELSE LedgerInv(j, subs'[j], charges'[j])
  BY <1>1, <1>3, <1>4 DEF IInv, TypeOK
<1> QED BY <1>5, <1>6 DEF IInv, LedgerInv, ExpiredByCount

(* No status call touches what the history is about, and none of them      *)
(* applies to a subscription whose count is used up.                       *)
LEMMA SetStatusInv ==
  ASSUME IInv, NEW i \in Id, NEW from \in SUBSET {"Active", "Paused"}, NEW to \in Status,
         SetStatus(i, from, to)
  PROVE  IInv'
<1> DEFINE r == [subs[i] EXCEPT !.status = to]
<1>1. /\ subs[i] # None /\ subs[i].status \in {"Active", "Paused"}
      /\ subs' = [subs EXCEPT ![i] = r]
      /\ now' = now /\ attesters' = attesters /\ balance' = balance
      /\ allowance' = allowance /\ charges' = charges
  BY DEF SetStatus, token
<1>2. subs[i] \in Subscription
  BY <1>1 DEF IInv, TypeOK
<1>3. /\ r \in Subscription /\ r.charges_done = subs[i].charges_done
      /\ r.last_charge_at = subs[i].last_charge_at
      /\ r.period_seconds = subs[i].period_seconds /\ r.max_periods = subs[i].max_periods
  BY <1>2 DEF Subscription
<1> HIDE DEF r
<1>4. LedgerInv(i, r, charges[i])
  <2>1. LedgerInv(i, subs[i], charges[i])
    BY <1>1 DEF IInv
  <2>2. ~ExpiredByCount(subs[i])
    BY <1>1, <2>1 DEF LedgerInv
  <2>3. ~ExpiredByCount(r)
    BY <1>3, <2>2 DEF ExpiredByCount
  <2> QED BY <1>3, <2>1, <2>3 DEF LedgerInv
<1>5. TypeOK'
  BY <1>1, <1>3 DEF IInv, TypeOK
<1>6. \A j \in Id : IF subs'[j] = None THEN charges'[j] = <<>>
                    ELSE LedgerInv(j, subs'[j], charges'[j])
  <2>1. r # None
    BY <1>3, NoneAssumption
  <2> QED BY <1>1, <1>4, <2>1 DEF IInv, TypeOK
<1> QED BY <1>5, <1>6 DEF IInv, LedgerInv, ExpiredByCount

(* A settled charge, through any door.                                     *)
LEMMA BookInv ==
  ASSUME IInv, NEW i \in Id, NEW door \in Door, NEW a \in Attestation \cup {None},
         a # None => Verifies(i, a) /\ now <= a.not_after,
         Debited(i), Book(i, door, a)
  PROVE  IInv'
<1> DEFINE s == subs[i]
           c == [at |-> now, door |-> door, attestation |-> a,
                 debit |-> balance[s.buyer] - balance'[s.buyer]]
<1>1. /\ s \in Subscription /\ s # None /\ Chargeable(s) /\ LedgerInv(i, s, charges[i])
      /\ charges[i] \in Seq(Charge)
      /\ subs' = [subs EXCEPT ![i] = Charged(s)]
      /\ charges' = [charges EXCEPT ![i] = Append(charges[i], c)]
      /\ now' = now /\ attesters' = attesters
      /\ balance' \in [Party -> Nat] /\ allowance' \in [Buyer -> Nat]
  BY DEF IInv, TypeOK, Debited, Book
<1>2. s.buyer \in Party /\ balance \in [Party -> Nat] /\ now \in Time \ {0}
  BY <1>1 DEF IInv, TypeOK, Subscription, Party
<1>3. c \in Charge /\ c.at = now /\ c.attestation = a
  <2>1. balance[s.buyer] - balance'[s.buyer] \in Int
    BY <1>1, <1>2
  <2> QED BY <1>2, <2>1 DEF Charge, Door
<1>4. a # None => a.id = i /\ a.domain = Domain /\ a.charges_done = s.charges_done
  BY DEF Verifies
<1> HIDE DEF s, c
<1>5. Charged(s) \in Subscription /\ LedgerInv(i, Charged(s), Append(charges[i], c))
  BY <1>1, <1>2, <1>3, <1>4, ChargedFields, ChargedLedger
<1>6. Append(charges[i], c) \in Seq(Charge)
  BY <1>1, <1>3
<1>7. TypeOK'
  BY <1>1, <1>2, <1>5, <1>6 DEF IInv, TypeOK
<1>8. \A j \in Id : IF subs'[j] = None THEN charges'[j] = <<>>
                    ELSE LedgerInv(j, subs'[j], charges'[j])
  <2>1. Charged(s) # None
    BY <1>5, NoneAssumption
  <2> QED BY <1>1, <1>5, <2>1 DEF IInv, TypeOK
<1> QED BY <1>7, <1>8 DEF IInv, LedgerInv, ExpiredByCount

LEMMA NextInv == IInv /\ [Next]_vars => IInv'
<1> SUFFICES ASSUME IInv, [Next]_vars PROVE IInv'
  OBVIOUS
<1>1. TypeOK
  BY DEF IInv
<1>2. ASSUME NEW i \in Id, NEW k \in Key, SetAttester(i, k)
      PROVE  IInv'
  BY <1>2 DEF SetAttester, token, IInv, TypeOK, LedgerInv, ExpiredByCount
<1>3. ASSUME NEW b \in Buyer, NEW amount \in Approval, Approve(b, amount)
      PROVE  IInv'
  BY <1>3, ConstantsAssumption DEF Approve, IInv, TypeOK, LedgerInv, ExpiredByCount
<1>4. CASE Tick
  BY <1>4, ConstantsAssumption DEF Tick, token, Time, IInv, TypeOK, LedgerInv, ExpiredByCount
<1>5. CASE UNCHANGED vars
  BY <1>5 DEF vars, IInv, TypeOK, LedgerInv, ExpiredByCount
<1>6. ASSUME NEW i \in Id, BuyerCharge(i)
      PROVE  IInv'
  BY <1>1, <1>6, BuyerChargeDebits, BookInv DEF Door
<1>7. ASSUME NEW i \in Id, Autocharge(i)
      PROVE  IInv'
  BY <1>1, <1>7, AllowanceChargeDebits, BookInv DEF Door, Autocharge
<1>8. ASSUME NEW i \in Id, NEW a \in OfferedAttestation, AutochargeAttested(i, a)
      PROVE  IInv'
  <2>1. a \in Attestation
    <3>1. 0..MaxTime \subseteq Nat /\ NotAfter \subseteq Nat
      BY ConstantsAssumption
    <3> QED BY <3>1 DEF OfferedAttestation, Attestation
  <2>2. Debited(i) /\ Book(i, "attested", a)
    BY <1>1, <1>8, AllowanceChargeDebits DEF AutochargeAttested
  <2> QED BY <1>8, <2>1, <2>2, BookInv DEF Door, AutochargeAttested
<1>9. ASSUME NEW i \in Id, Cancel(i) \/ Pause(i) \/ Resume(i) \/ MarkExpired(i)
      PROVE  IInv'
  BY <1>9, SetStatusInv DEF Cancel, Pause, Resume, MarkExpired, Status
<1> QED
  BY <1>2, <1>3, <1>4, <1>5, <1>6, <1>7, <1>8, <1>9, CreateInv DEF Next
---------------------------------------------------------------------------
(* The refinement of Mandate.                                              *)

LEMMA TimesOfSeq ==
  ASSUME NEW cs \in Seq(Charge), NEW c \in Charge
  PROVE  /\ TimesOf(cs) \in Seq(Time) /\ Len(TimesOf(cs)) = Len(cs)
         /\ TimesOf(Append(cs, c)) = Append(TimesOf(cs), c.at)
<1>1. /\ Len(cs) \in Nat /\ \A n \in 1..Len(cs) : cs[n] \in Charge
      /\ Append(cs, c) \in Seq(Charge) /\ Len(Append(cs, c)) = Len(cs) + 1
      /\ Append(cs, c)[Len(cs) + 1] = c
      /\ \A n \in 1..Len(cs) : Append(cs, c)[n] = cs[n]
  OBVIOUS
<1>2. TimesOf(cs) \in [1..Len(cs) -> Time]
  BY <1>1 DEF TimesOf, Charge
<1>3. TimesOf(cs) \in Seq(Time) /\ Len(TimesOf(cs)) = Len(cs)
  BY <1>1, <1>2
<1> DEFINE d == Append(TimesOf(cs), c.at)
           e == TimesOf(Append(cs, c))
<1>4. /\ DOMAIN d = 1..(Len(cs) + 1) /\ d[Len(cs) + 1] = c.at
      /\ \A n \in 1..Len(cs) : d[n] = TimesOf(cs)[n]
  <2>1. c.at \in Time
    BY DEF Charge
  <2> QED BY <2>1, <1>1, <1>3
<1>5. /\ DOMAIN e = 1..(Len(cs) + 1) /\ e[Len(cs) + 1] = c.at
      /\ \A n \in 1..Len(cs) : e[n] = TimesOf(cs)[n]
  BY <1>1 DEF TimesOf
<1>6. d = e
  <2>1. \A n \in 1..(Len(cs) + 1) : d[n] = e[n]
    <3> SUFFICES ASSUME NEW n \in 1..(Len(cs) + 1) PROVE d[n] = e[n]
      OBVIOUS
    <3>1. n \in 1..Len(cs) \/ n = Len(cs) + 1
      BY <1>1
    <3> HIDE DEF d, e
    <3> QED BY <3>1, <1>4, <1>5
  <2>2. /\ d = [n \in 1..(Len(cs) + 1) |-> d[n]]
        /\ e = [n \in 1..(Len(cs) + 1) |-> e[n]]
    <3>1. d \in Seq(Time)
      BY <1>3 DEF Charge
    <3> QED BY <3>1, <1>1, <1>4 DEF TimesOf
  <2> HIDE DEF d, e
  <2> QED BY <2>1, <2>2
<1> QED BY <1>3, <1>6

LEMMA InitRefines == Init => M!Init
<1> SUFFICES ASSUME Init PROVE M!Init
  OBVIOUS
<1>1. TimesOf(<<>>) = <<>>
  BY DEF TimesOf
<1>2. debits = [i \in Id |-> <<>>] /\ terms = [i \in Id |-> None] /\ closed = [i \in Id |-> FALSE]
  BY <1>1 DEF Init, debits, terms, closed
<1>3. spent = [b \in Buyer |-> 0]
  BY ConstantsAssumption DEF Init, spent, Party
<1>4. now \in 1..MaxTime
  BY ConstantsAssumption DEF Init, Time
<1> QED BY <1>2, <1>3, <1>4 DEF M!Init

(* What create stores is what the buyer agreed to.                         *)
LEMMA CreateOpens ==
  ASSUME IInv, NEW i \in Id, NEW b \in Buyer, NEW m \in Merchant, NEW amount \in Amount,
         NEW period \in Period, NEW max \in MaxPeriods, NEW expires \in Expiry,
         Create(i, b, m, amount, period, max, expires)
  PROVE  M!Open(i)
<1> DEFINE s == [buyer |-> b, merchant |-> m, amount |-> amount,
                 period_seconds |-> period, max_periods |-> max, expires_at |-> expires,
                 charges_done |-> 0, last_charge_at |-> 0, status |-> "Active"]
           t == [buyer |-> b, amount |-> amount, period_seconds |-> period,
                 max_periods |-> max, expires_at |-> expires]
<1>1. /\ subs[i] = None /\ subs' = [subs EXCEPT ![i] = s] /\ amount > 0 /\ period >= MinPeriod
      /\ now' = now /\ balance' = balance /\ charges' = charges
      /\ subs \in [Id -> Subscription \cup {None}]
  BY DEF Create, token, IInv, TypeOK
<1>2. s # None
  <2>1. s \in Subscription
    BY <1>1, ConstantsAssumption DEF Subscription, Status, Time
  <2> QED BY <2>1, NoneAssumption
<1>3. t \in M!Terms
  BY <1>1, ConstantsAssumption DEF M!Terms
<1>4. terms[i] = None
  BY <1>1 DEF terms
<1>5. terms' = [terms EXCEPT ![i] = t]
  BY <1>1, <1>2 DEF terms
<1>6. debits' = debits /\ spent' = spent
  BY <1>1 DEF debits, spent, TimesOf
<1>7. closed' = closed
  BY <1>1, <1>2 DEF closed
<1>8. terms'[i] = t
  <2>1. i \in DOMAIN terms
    BY DEF terms
  <2> QED BY <1>5, <2>1
<1> QED BY <1>1, <1>3, <1>4, <1>5, <1>6, <1>7, <1>8 DEF M!Open

(* A settled charge is a debit that was due, inside the number of charges  *)
(* and before the expiry, of the agreed amount.                            *)
LEMMA BookDebits ==
  ASSUME IInv, IInv', NEW i \in Id, NEW door \in Door, NEW a \in Attestation \cup {None},
         Debited(i), Book(i, door, a)
  PROVE  M!Debit(i)
<1> DEFINE s == subs[i]
           cs == charges[i]
           c == [at |-> now, door |-> door, attestation |-> a,
                 debit |-> balance[s.buyer] - balance'[s.buyer]]
           t == terms[i]
           n == Len(debits[i]) + 1
           r == Charged(s)
<1>1. /\ s \in Subscription /\ s # None /\ Chargeable(s) /\ LedgerInv(i, s, cs)
      /\ cs \in Seq(Charge)
      /\ subs' = [subs EXCEPT ![i] = r] /\ subs \in [Id -> Subscription \cup {None}]
      /\ charges' = [charges EXCEPT ![i] = Append(cs, c)]
      /\ charges \in [Id -> Seq(Charge)] /\ now' = now
  BY DEF IInv, TypeOK, Debited, Book
<1>2. /\ balance' \in [Party -> Nat] /\ balance \in [Party -> Nat]
      /\ \A b \in Buyer : balance'[b] = IF b = s.buyer THEN balance[b] - s.amount ELSE balance[b]
  BY DEF IInv, TypeOK, Debited
<1>3. c \in Charge /\ c.at = now
  <2>1. s.buyer \in Party
    BY <1>1 DEF Subscription, Party
  <2>2. balance[s.buyer] - balance'[s.buyer] \in Int
    BY <1>2, <2>1
  <2> QED BY <2>2 DEF Charge, Door, IInv, TypeOK
<1>4. /\ t # None /\ t.buyer = s.buyer /\ t.amount = s.amount
      /\ t.period_seconds = s.period_seconds /\ t.max_periods = s.max_periods
      /\ t.expires_at = s.expires_at
  <2>1. t = [buyer |-> s.buyer, amount |-> s.amount, period_seconds |-> s.period_seconds,
             max_periods |-> s.max_periods, expires_at |-> s.expires_at]
    BY <1>1 DEF terms
  <2>2. t \in M!Terms
    <3> HIDE DEF s
    <3> QED BY <1>1, <2>1 DEF M!Terms, Subscription
  <2> HIDE DEF t
  <2> QED BY <2>1, <2>2, TermsAssumption
<1>5. /\ r \in Subscription /\ r # None
      /\ r.buyer = s.buyer /\ r.amount = s.amount /\ r.period_seconds = s.period_seconds
      /\ r.max_periods = s.max_periods /\ r.expires_at = s.expires_at
      /\ r.status = IF s.max_periods # 0 /\ s.charges_done + 1 >= s.max_periods
                    THEN "Expired" ELSE s.status
  <2>1. now \in Time
    BY DEF IInv, TypeOK
  <2> QED BY <1>1, <2>1, ChargedFields, NoneAssumption
<1>6. /\ debits[i] = TimesOf(cs) /\ Len(debits[i]) = Len(cs) /\ n = s.charges_done + 1
      /\ TimesOf(Append(cs, c)) = Append(debits[i], now)
  <2> HIDE DEF c, cs, s
  <2>1. debits[i] = TimesOf(cs)
    BY DEF debits, cs
  <2> QED BY <2>1, <1>1, <1>3, TimesOfSeq DEF LedgerInv
<1> HIDE DEF r, c, cs, s
<1>7. debits' = [debits EXCEPT ![i] = Append(@, now)]
  BY <1>1, <1>6 DEF debits, TimesOf
<1>8. terms' = terms
  <2>1. s = subs[i]
    BY DEF s
  <2> QED BY <2>1, <1>1, <1>5 DEF terms
<1>9. closed' = [closed EXCEPT ![i] = (n = t.max_periods)] /\ ~closed[i]
  <2>1. /\ s = subs[i] /\ s.status = "Active" /\ ~ExpiredByCount(s)
        /\ s.max_periods \in Nat /\ s.charges_done \in Nat
    BY <1>1 DEF s, Chargeable, Subscription
  <2>2. r.status \in {"Cancelled", "Expired"} <=> n = t.max_periods
    BY <2>1, <1>4, <1>5, <1>6 DEF ExpiredByCount
  <2>3. closed'[i] = (n = t.max_periods)
    BY <2>2, <1>1, <1>5 DEF closed
  <2>4. \A j \in Id \ {i} : closed'[j] = closed[j]
    BY <1>1 DEF closed
  <2>5. closed' = [j \in Id |-> closed'[j]] /\ closed = [j \in Id |-> closed[j]]
    BY DEF closed
  <2>6. ~closed[i]
    BY <2>1 DEF closed
  <2> QED BY <2>3, <2>4, <2>5, <2>6
<1>10. spent' = [spent EXCEPT ![t.buyer] = @ + t.amount]
  <2>1. s.buyer \in Buyer /\ s.amount \in Nat
    BY <1>1 DEF Subscription
  <2>2. \A b \in Buyer : balance[b] \in Nat
    BY <1>2 DEF Party
  <2>3. Funds \in Nat
    BY ConstantsAssumption
  <2> QED BY <2>1, <2>2, <2>3, <1>2, <1>4 DEF spent
<1>11. M!Due(i)
  <2>1. ASSUME debits[i] # <<>>
        PROVE  now >= debits[i][Len(debits[i])] + t.period_seconds
    <3>1. cs # <<>> /\ Len(cs) \in 1..Len(cs)
      BY <2>1, <1>1, <1>6 DEF TimesOf
    <3>2. debits[i][Len(cs)] = cs[Len(cs)].at
      BY <3>1, <1>6 DEF TimesOf
    <3>3. s.last_charge_at = cs[Len(cs)].at /\ s.last_charge_at # 0
      BY <3>1, <1>1 DEF LedgerInv
    <3> QED BY <3>2, <3>3, <1>1, <1>4, <1>6 DEF Chargeable
  <2> QED BY <2>1 DEF M!Due
<1>12. /\ t.max_periods = 0 \/ n <= t.max_periods
       /\ t.expires_at = 0 \/ now < t.expires_at
  <2>1. /\ s.max_periods \in Nat /\ s.charges_done \in Nat /\ s.expires_at \in Nat
        /\ now \in Nat
    BY <1>1, ConstantsAssumption DEF Subscription, IInv, TypeOK, Time
  <2> QED BY <2>1, <1>1, <1>4, <1>6 DEF Chargeable, ExpiredByCount, ExpiredByTime
<1> QED
  BY <1>1, <1>4, <1>7, <1>8, <1>9, <1>10, <1>11, <1>12 DEF M!Debit

(* A status call closes the mandate or leaves it open; none reopens it.    *)
LEMMA SetStatusRefines ==
  ASSUME IInv, NEW i \in Id, NEW from \in SUBSET {"Active", "Paused"}, NEW to \in Status,
         SetStatus(i, from, to)
  PROVE  M!Close(i) \/ UNCHANGED M!vars
<1> DEFINE r == [subs[i] EXCEPT !.status = to]
<1>1. /\ subs[i] \in Subscription /\ subs[i] # None /\ subs[i].status \in {"Active", "Paused"}
      /\ subs' = [subs EXCEPT ![i] = r] /\ subs \in [Id -> Subscription \cup {None}]
      /\ now' = now /\ balance' = balance /\ charges' = charges
  BY DEF SetStatus, token, IInv, TypeOK
<1>2. /\ r # None /\ r.status = to
      /\ r.buyer = subs[i].buyer /\ r.amount = subs[i].amount
      /\ r.period_seconds = subs[i].period_seconds
      /\ r.max_periods = subs[i].max_periods /\ r.expires_at = subs[i].expires_at
  <2>1. r \in Subscription
    BY <1>1 DEF Subscription
  <2> QED BY <1>1, <2>1, NoneAssumption DEF Subscription
<1> HIDE DEF r
<1>3. terms' = terms /\ debits' = debits /\ spent' = spent
  BY <1>1, <1>2 DEF terms, debits, spent, TimesOf
<1>4. terms[i] # None
  <2>1. terms[i] = [buyer |-> subs[i].buyer, amount |-> subs[i].amount,
             period_seconds |-> subs[i].period_seconds,
             max_periods |-> subs[i].max_periods, expires_at |-> subs[i].expires_at]
    BY <1>1 DEF terms
  <2>2. terms[i] \in M!Terms
    BY <1>1, <2>1 DEF M!Terms, Subscription
  <2> QED BY <2>2, TermsAssumption
<1>5. /\ ~closed[i] /\ \A j \in Id \ {i} : closed'[j] = closed[j]
      /\ closed'[i] <=> to \in {"Cancelled", "Expired"}
      /\ closed' = [j \in Id |-> closed'[j]] /\ closed = [j \in Id |-> closed[j]]
  BY <1>1, <1>2 DEF closed
<1>6. CASE to \in {"Cancelled", "Expired"}
  <2>1. closed'[i] = TRUE
    BY <1>1, <1>2, <1>6 DEF closed
  <2>2. closed' = [closed EXCEPT ![i] = TRUE]
    BY <2>1, <1>5
  <2> QED BY <2>2, <1>1, <1>3, <1>4, <1>5 DEF M!Close
<1>7. CASE to \notin {"Cancelled", "Expired"}
  <2>1. closed'[i] = closed[i]
    BY <1>1, <1>2, <1>7 DEF closed
  <2>2. closed' = closed
    BY <2>1, <1>5
  <2> QED BY <2>2, <1>1, <1>3 DEF M!vars
<1> QED BY <1>6, <1>7

LEMMA NextRefines == IInv /\ IInv' /\ [Next]_vars => [M!Next]_(M!vars)
<1> SUFFICES ASSUME IInv, IInv', [Next]_vars PROVE M!Next \/ UNCHANGED M!vars
  OBVIOUS
<1>1. TypeOK
  BY DEF IInv
<1>2. ASSUME subs' = subs, charges' = charges, balance' = balance
      PROVE  terms' = terms /\ debits' = debits /\ closed' = closed /\ spent' = spent
  BY <1>2 DEF terms, debits, closed, spent, TimesOf
<1>3. ASSUME NEW i \in Id, NEW k \in Key, SetAttester(i, k)
      PROVE  UNCHANGED M!vars
  BY <1>2, <1>3 DEF SetAttester, token, M!vars
<1>4. ASSUME NEW b \in Buyer, NEW amount \in Approval, Approve(b, amount)
      PROVE  UNCHANGED M!vars
  BY <1>2, <1>4 DEF Approve, M!vars
<1>5. CASE Tick
  <2>1. now' \in (now + 1)..MaxTime
    BY <1>1, <1>5, ConstantsAssumption DEF Tick, Time, TypeOK
  <2>2. subs' = subs /\ charges' = charges /\ balance' = balance
    BY <1>5 DEF Tick, token
  <2> QED BY <2>1, <2>2, <1>2 DEF M!Tick, M!Next
<1>6. CASE UNCHANGED vars
  BY <1>2, <1>6 DEF vars, M!vars
<1>7. ASSUME NEW i \in Id, BuyerCharge(i)
      PROVE  M!Next
  BY <1>1, <1>7, BuyerChargeDebits, BookDebits DEF Door, M!Next
<1>8. ASSUME NEW i \in Id, Autocharge(i)
      PROVE  M!Next
  BY <1>1, <1>8, AllowanceChargeDebits, BookDebits DEF Door, Autocharge, M!Next
<1>9. ASSUME NEW i \in Id, NEW a \in OfferedAttestation, AutochargeAttested(i, a)
      PROVE  M!Next
  <2>1. a \in Attestation
    <3>1. 0..MaxTime \subseteq Nat /\ NotAfter \subseteq Nat
      BY ConstantsAssumption
    <3> QED BY <3>1 DEF OfferedAttestation, Attestation
  <2>2. Debited(i) /\ Book(i, "attested", a)
    BY <1>1, <1>9, AllowanceChargeDebits DEF AutochargeAttested
  <2> QED BY <2>1, <2>2, BookDebits DEF Door, M!Next
<1>10. ASSUME NEW i \in Id, Cancel(i) \/ Pause(i) \/ Resume(i) \/ MarkExpired(i)
       PROVE  M!Next \/ UNCHANGED M!vars
  <2>1. M!Close(i) \/ UNCHANGED M!vars
    BY <1>10, SetStatusRefines DEF Cancel, Pause, Resume, MarkExpired, Status
  <2> QED BY <2>1 DEF M!Next
<1>11. ASSUME NEW i \in Id, NEW b \in Buyer, NEW m \in Merchant, NEW amount \in Amount,
              NEW period \in Period, NEW max \in MaxPeriods, NEW expires \in Expiry,
              Create(i, b, m, amount, period, max, expires)
       PROVE  M!Next
  BY <1>11, CreateOpens DEF M!Next
<1> QED
  BY <1>3, <1>4, <1>5, <1>6, <1>7, <1>8, <1>9, <1>10, <1>11 DEF Next
---------------------------------------------------------------------------
(* Sums over finite sets, by induction on the set: of the sets a lemma     *)
(* fails for one has no such proper subset (LeastSubset).                  *)

(* Induction over the subsets of a finite set, as a least counterexample. *)
LEMMA LeastSubset ==
  ASSUME NEW S, IsFiniteSet(S), NEW C \in SUBSET (SUBSET S), C # {}
  PROVE  \E T \in C : \A U \in C : U \subseteq T => U = T
<1>1. IsWellFoundedOn(StrictSubsetOrdering(S), FiniteSubsetsOf(S))
  BY FS_StrictSubsetOrderingWellFounded
<1>2. C \subseteq FiniteSubsetsOf(S)
  BY FS_FiniteSubsetsOfFinite
<1>3. \E T \in C : \A U \in C : ~ (<<U, T>> \in StrictSubsetOrdering(S))
  BY <1>1, <1>2, WFMin
<1> QED BY <1>3 DEF StrictSubsetOrdering

\* The element a sum begins with, and the rest.
First(s) == CHOOSE x \in s : TRUE
Rest(s) == s \ {First(s)}

LEMMA FirstIsMember ==
  ASSUME NEW s, s # {}
  PROVE  First(s) \in s /\ Rest(s) \subseteq s /\ Rest(s) # s
  BY DEF First, Rest

\* g gives the sums of f over the subsets of S.
Sums(g, f, S) ==
  g = [s \in SUBSET S |-> IF s = {} THEN 0 ELSE f[First(s)] + g[Rest(s)]]

LEMMA SumsAt ==
  ASSUME NEW f, NEW S, NEW g, Sums(g, f, S), NEW s \in SUBSET S
  PROVE  g[s] = IF s = {} THEN 0 ELSE f[First(s)] + g[Rest(s)]
  BY DEF Sums

(* Two such functions agree where both are defined. *)
LEMMA SumsAgree ==
  ASSUME NEW f, NEW S, NEW T, IsFiniteSet(S), NEW g, NEW h, Sums(g, f, S), Sums(h, f, T),
         NEW U \in SUBSET S, U \in SUBSET T
  PROVE  g[U] = h[U]
<1> DEFINE C == {s \in SUBSET S : s \in SUBSET T /\ g[s] # h[s]}
<1> SUFFICES ASSUME C # {} PROVE FALSE
  OBVIOUS
<1>1. PICK s \in C : \A u \in C : u \subseteq s => u = s
  <2>1. C \in SUBSET (SUBSET S)
    OBVIOUS
  <2> HIDE DEF C
  <2> QED BY <2>1, LeastSubset
<1>2. s \in SUBSET S /\ s \in SUBSET T /\ g[s] # h[s]
  OBVIOUS
<1>3. /\ g[s] = IF s = {} THEN 0 ELSE f[First(s)] + g[Rest(s)]
      /\ h[s] = IF s = {} THEN 0 ELSE f[First(s)] + h[Rest(s)]
  BY <1>2, SumsAt
<1>4. s # {} /\ Rest(s) \subseteq s /\ Rest(s) # s
  BY <1>2, <1>3, FirstIsMember
<1>5. g[Rest(s)] = h[Rest(s)]
  BY <1>1, <1>2, <1>4
<1> QED BY <1>2, <1>3, <1>5

LEMMA SumsExist ==
  ASSUME NEW f, NEW S, IsFiniteSet(S)
  PROVE  \E g : Sums(g, f, S)
<1> DEFINE C == {s \in SUBSET S : ~ \E g : Sums(g, f, s)}
<1> SUFFICES ASSUME C # {} PROVE FALSE
  OBVIOUS
<1>1. PICK T \in C : \A u \in C : u \subseteq T => u = T
  <2>1. C \in SUBSET (SUBSET S)
    OBVIOUS
  <2> HIDE DEF C
  <2> QED BY <2>1, LeastSubset
<1>2. T \in SUBSET S /\ IsFiniteSet(T)
  BY FS_Subset
<1> DEFINE H(u) == CHOOSE g : Sums(g, f, u)
<1>3. ASSUME NEW u \in SUBSET T, u # T PROVE Sums(H(u), f, u) /\ IsFiniteSet(u)
  <2>1. \E g : Sums(g, f, u)
    BY <1>1, <1>2, <1>3
  <2> QED BY <2>1, <1>2, FS_Subset
<1> HIDE DEF H
<1> DEFINE g == [s \in SUBSET T |-> IF s = {} THEN 0 ELSE f[First(s)] + H(Rest(s))[Rest(s)]]
<1>4. ASSUME NEW s \in SUBSET T, s # T
      PROVE  g[s] = H(s)[s]
  <2>1. Sums(H(s), f, s) /\ s \in SUBSET s
    BY <1>3, <1>4
  <2>0. PICK h : h = H(s)
    OBVIOUS
  <2>2. H(s)[s] = IF s = {} THEN 0 ELSE f[First(s)] + H(s)[Rest(s)]
    <3>1. Sums(h, f, s) /\ s \in SUBSET s
      BY <2>0, <2>1
    <3>2. h[s] = IF s = {} THEN 0 ELSE f[First(s)] + h[Rest(s)]
      BY <3>1, SumsAt
    <3> QED BY <2>0, <3>2
  <2>3. CASE s = {}
    BY <2>2, <2>3
  <2>4. CASE s # {}
    <3>1. Rest(s) \in SUBSET s /\ Rest(s) \in SUBSET T /\ Rest(s) # T
      BY <1>4, <2>4, FirstIsMember
    <3>2. Sums(H(Rest(s)), f, Rest(s)) /\ IsFiniteSet(Rest(s)) /\ Rest(s) \in SUBSET Rest(s)
      BY <1>3, <3>1
    <3>3. H(Rest(s))[Rest(s)] = H(s)[Rest(s)]
      <4>1. PICK k : k = H(Rest(s))
        OBVIOUS
      <4>2. k[Rest(s)] = h[Rest(s)]
        BY <2>0, <2>1, <3>1, <3>2, <4>1, SumsAgree
      <4> QED BY <2>0, <4>1, <4>2
    <3> QED BY <2>2, <2>4, <3>3
  <2> QED BY <2>3, <2>4
<1>5. ASSUME NEW s \in SUBSET T
      PROVE  g[s] = IF s = {} THEN 0 ELSE f[First(s)] + g[Rest(s)]
  <2>1. CASE s = {}
    BY <2>1
  <2>2. CASE s # {}
    <3>1. Rest(s) \in SUBSET T /\ Rest(s) # T
      BY <2>2, FirstIsMember
    <3>2. g[s] = f[First(s)] + H(Rest(s))[Rest(s)]
      BY <2>2
    <3> HIDE DEF g
    <3>3. g[Rest(s)] = H(Rest(s))[Rest(s)]
      BY <1>4, <3>1
    <3> QED BY <2>2, <3>2, <3>3
  <2> QED BY <2>1, <2>2
<1>6. g = [s \in SUBSET T |-> IF s = {} THEN 0 ELSE f[First(s)] + g[Rest(s)]]
  <2>1. \A s \in SUBSET T : g[s] = IF s = {} THEN 0 ELSE f[First(s)] + g[Rest(s)]
    BY <1>5
  <2> DEFINE h == [s \in SUBSET T |-> IF s = {} THEN 0 ELSE f[First(s)] + g[Rest(s)]]
  <2>2. \A s \in SUBSET T : h[s] = g[s]
    <3> HIDE DEF g
    <3> QED BY <2>1
  <2>3. DOMAIN h = SUBSET T /\ DOMAIN g = SUBSET T
    OBVIOUS
  <2>4. h = [s \in SUBSET T |-> h[s]] /\ g = [s \in SUBSET T |-> g[s]]
    OBVIOUS
  <2> HIDE DEF h, g
  <2>5. h = g
    BY <2>2, <2>4
  <2> QED BY <2>5 DEF h
<1> HIDE DEF g
<1>7. Sums(g, f, T)
  BY <1>6 DEF Sums
<1> QED BY <1>7

(* What FoldFunctionOnSet computes: some function that adds up. *)
LEMMA SumIsOfSums ==
  ASSUME NEW f, NEW S, IsFiniteSet(S)
  PROVE  \E g : Sums(g, f, S) /\ SumFunctionOnSet(f, S) = g[S]
<1> DEFINE g == CHOOSE h : Sums(h, f, S)
<1>1. SumFunctionOnSet(f, S) = g[S]
  BY Zenon DEF SumFunctionOnSet, FoldFunctionOnSet, MapThenFoldSet, Sums, First, Rest
<1>2. \E h : Sums(h, f, S)
  BY SumsExist
<1>3. Sums(g, f, S)
  BY <1>2
<1> QED BY <1>1, <1>3

LEMMA SumEmpty ==
  ASSUME NEW f
  PROVE  SumFunctionOnSet(f, {}) = 0
<1>1. PICK g : Sums(g, f, {}) /\ SumFunctionOnSet(f, {}) = g[{}]
  BY SumIsOfSums, FS_EmptySet
<1> QED BY <1>1, SumsAt

LEMMA SumFirst ==
  ASSUME NEW f, NEW S, IsFiniteSet(S), S # {}
  PROVE  SumFunctionOnSet(f, S) = f[First(S)] + SumFunctionOnSet(f, Rest(S))
<1>1. PICK g : Sums(g, f, S) /\ SumFunctionOnSet(f, S) = g[S]
  BY SumIsOfSums
<1>2. Rest(S) \in SUBSET S /\ IsFiniteSet(Rest(S))
  BY FirstIsMember, FS_Subset
<1>3. PICK h : Sums(h, f, Rest(S)) /\ SumFunctionOnSet(f, Rest(S)) = h[Rest(S)]
  BY <1>2, SumIsOfSums
<1>4. g[Rest(S)] = h[Rest(S)]
  BY <1>1, <1>2, <1>3, SumsAgree
<1>5. g[S] = f[First(S)] + g[Rest(S)]
  BY <1>1, SumsAt
<1> QED BY <1>1, <1>3, <1>4, <1>5

LEMMA SumIsInt ==
  ASSUME NEW f, NEW S, IsFiniteSet(S), \A x \in S : f[x] \in Int
  PROVE  SumFunctionOnSet(f, S) \in Int
<1> DEFINE C == {s \in SUBSET S : SumFunctionOnSet(f, s) \notin Int}
<1> SUFFICES ASSUME C # {} PROVE FALSE
  OBVIOUS
<1>1. PICK T \in C : \A u \in C : u \subseteq T => u = T
  <2>1. C \in SUBSET (SUBSET S)
    OBVIOUS
  <2> HIDE DEF C
  <2> QED BY <2>1, LeastSubset
<1>2. T \in SUBSET S /\ IsFiniteSet(T) /\ SumFunctionOnSet(f, T) \notin Int
  BY FS_Subset
<1>3. T # {}
  BY <1>2, SumEmpty
<1>4. First(T) \in T /\ Rest(T) \subseteq T /\ Rest(T) # T
  BY <1>3, FirstIsMember
<1>5. SumFunctionOnSet(f, Rest(T)) \in Int
  BY <1>1, <1>2, <1>4
<1> QED BY <1>2, <1>3, <1>4, <1>5, SumFirst

(* Any element may be taken out first. *)
LEMMA SumElement ==
  ASSUME NEW f, NEW S, IsFiniteSet(S), \A x \in S : f[x] \in Int, NEW e \in S
  PROVE  SumFunctionOnSet(f, S) = f[e] + SumFunctionOnSet(f, S \ {e})
<1> DEFINE C == {s \in SUBSET S : \E x \in s : SumFunctionOnSet(f, s) # f[x] + SumFunctionOnSet(f, s \ {x})}
<1> SUFFICES ASSUME C # {} PROVE FALSE
  OBVIOUS
<1>1. PICK T \in C : \A u \in C : u \subseteq T => u = T
  <2>1. C \in SUBSET (SUBSET S)
    OBVIOUS
  <2> HIDE DEF C
  <2> QED BY <2>1, LeastSubset
<1>2. PICK x \in T : SumFunctionOnSet(f, T) # f[x] + SumFunctionOnSet(f, T \ {x})
  OBVIOUS
<1>3. /\ T \in SUBSET S /\ IsFiniteSet(T) /\ T # {}
      /\ \A u \in SUBSET T : IsFiniteSet(u) /\ SumFunctionOnSet(f, u) \in Int
  <2>1. T \in SUBSET S
    OBVIOUS
  <2> QED BY <1>2, <2>1, FS_Subset, SumIsInt
<1> DEFINE y == First(T)
<1>4. y \in T /\ SumFunctionOnSet(f, T) = f[y] + SumFunctionOnSet(f, T \ {y})
  BY <1>3, FirstIsMember, SumFirst DEF Rest
<1> HIDE DEF y
<1>5. x # y
  BY <1>2, <1>4
<1>6. \A u \in SUBSET T : u # T => \A z \in u : SumFunctionOnSet(f, u) = f[z] + SumFunctionOnSet(f, u \ {z})
  BY <1>1, <1>3
<1>7. SumFunctionOnSet(f, T \ {y}) = f[x] + SumFunctionOnSet(f, (T \ {y}) \ {x})
  BY <1>2, <1>4, <1>5, <1>6
<1>8. SumFunctionOnSet(f, T \ {x}) = f[y] + SumFunctionOnSet(f, (T \ {x}) \ {y})
  BY <1>2, <1>4, <1>5, <1>6
<1>9. (T \ {y}) \ {x} = (T \ {x}) \ {y}
  OBVIOUS
<1>10. /\ f[x] \in Int /\ f[y] \in Int
       /\ SumFunctionOnSet(f, (T \ {x}) \ {y}) \in Int
  BY <1>2, <1>3, <1>4
<1> DEFINE p == SumFunctionOnSet(f, T)
           q == SumFunctionOnSet(f, T \ {x})
           r == SumFunctionOnSet(f, (T \ {x}) \ {y})
<1>11. p = f[y] + (f[x] + r) /\ q = f[y] + r /\ p # f[x] + q
  BY <1>2, <1>4, <1>7, <1>8, <1>9
<1> HIDE DEF p, q
<1>12. r \in Int
  BY <1>10
<1> HIDE DEF r
<1> QED BY <1>10, <1>11, <1>12

(* A sum depends on what its elements have. *)
LEMMA SumSame ==
  ASSUME NEW f, NEW g, NEW S, IsFiniteSet(S), \A x \in S : f[x] = g[x]
  PROVE  SumFunctionOnSet(f, S) = SumFunctionOnSet(g, S)
<1> DEFINE C == {s \in SUBSET S : SumFunctionOnSet(f, s) # SumFunctionOnSet(g, s)}
<1> SUFFICES ASSUME C # {} PROVE FALSE
  OBVIOUS
<1>1. PICK T \in C : \A u \in C : u \subseteq T => u = T
  <2>1. C \in SUBSET (SUBSET S)
    OBVIOUS
  <2> HIDE DEF C
  <2> QED BY <2>1, LeastSubset
<1>2. T \in SUBSET S /\ IsFiniteSet(T) /\ SumFunctionOnSet(f, T) # SumFunctionOnSet(g, T)
  BY FS_Subset
<1>3. T # {}
  BY <1>2, SumEmpty
<1>4. First(T) \in T /\ Rest(T) \subseteq T /\ Rest(T) # T
  BY <1>3, FirstIsMember
<1>5. SumFunctionOnSet(f, Rest(T)) = SumFunctionOnSet(g, Rest(T))
  BY <1>1, <1>2, <1>4
<1>6. f[First(T)] = g[First(T)]
  BY <1>2, <1>4
<1>7. /\ SumFunctionOnSet(f, T) = f[First(T)] + SumFunctionOnSet(f, Rest(T))
      /\ SumFunctionOnSet(g, T) = g[First(T)] + SumFunctionOnSet(g, Rest(T))
  BY <1>2, <1>3, SumFirst
<1> QED BY <1>2, <1>5, <1>6, <1>7

LEMMA SumZero ==
  ASSUME NEW f, NEW S, IsFiniteSet(S), \A x \in S : f[x] = 0
  PROVE  SumFunctionOnSet(f, S) = 0
<1> DEFINE C == {s \in SUBSET S : SumFunctionOnSet(f, s) # 0}
<1> SUFFICES ASSUME C # {} PROVE FALSE
  OBVIOUS
<1>1. PICK T \in C : \A u \in C : u \subseteq T => u = T
  <2>1. C \in SUBSET (SUBSET S)
    OBVIOUS
  <2> HIDE DEF C
  <2> QED BY <2>1, LeastSubset
<1>2. T \in SUBSET S /\ IsFiniteSet(T) /\ SumFunctionOnSet(f, T) # 0
  BY FS_Subset
<1>3. T # {}
  BY <1>2, SumEmpty
<1>4. First(T) \in T /\ Rest(T) \subseteq T /\ Rest(T) # T
  BY <1>3, FirstIsMember
<1>5. SumFunctionOnSet(f, Rest(T)) = 0 /\ f[First(T)] = 0
  BY <1>1, <1>2, <1>4
<1> QED BY <1>2, <1>3, <1>5, SumFirst

(* A sum moves by what one element moves.                                  *)
LEMMA SumMoves ==
  ASSUME NEW f, NEW g, NEW S, IsFiniteSet(S), NEW e \in S,
         \A x \in S : f[x] \in Int /\ g[x] \in Int,
         \A x \in S \ {e} : g[x] = f[x]
  PROVE  SumFunctionOnSet(g, S) - SumFunctionOnSet(f, S) = g[e] - f[e]
<1> DEFINE rf == SumFunctionOnSet(f, S \ {e})
           rg == SumFunctionOnSet(g, S \ {e})
<1>1. IsFiniteSet(S \ {e})
  BY FS_Subset
<1>2. rf = rg /\ rf \in Int
  BY <1>1, SumSame, SumIsInt
<1>3. SumFunctionOnSet(f, S) = f[e] + rf /\ SumFunctionOnSet(g, S) = g[e] + rg
  BY SumElement
<1> HIDE DEF rf, rg
<1> QED BY <1>2, <1>3
---------------------------------------------------------------------------
(* What was paid and received.                                             *)

LEMMA PulledAppend ==
  ASSUME NEW cs \in Seq(Charge), NEW c \in Charge
  PROVE  /\ Cardinality(Pulled(cs)) \in Nat
         /\ Cardinality(Pulled(Append(cs, c))) =
              Cardinality(Pulled(cs)) + (IF c.door = "charge" THEN 0 ELSE 1)
<1> DEFINE n == Len(cs)
           ds == Append(cs, c)
<1>1. /\ n \in Nat /\ DOMAIN cs = 1..n /\ DOMAIN ds = 1..(n + 1) /\ ds[n + 1] = c
      /\ \A k \in 1..n : ds[k] = cs[k]
  OBVIOUS
<1> HIDE DEF n, ds
<1>2. IsFiniteSet(Pulled(cs))
  <2>1. IsFiniteSet(1..n)
    BY <1>1, FS_Interval
  <2>2. Pulled(cs) \subseteq 1..n
    BY <1>1 DEF Pulled
  <2> QED BY <2>1, <2>2, FS_Subset
<1>3. n + 1 \notin Pulled(cs)
  BY <1>1 DEF Pulled
<1>4. Pulled(ds) = IF c.door = "charge" THEN Pulled(cs) ELSE Pulled(cs) \cup {n + 1}
  BY <1>1 DEF Pulled
<1>5. Cardinality(Pulled(cs)) \in Nat
  BY <1>2, FS_CardinalityType
<1>6. Cardinality(Pulled(cs) \cup {n + 1}) = Cardinality(Pulled(cs)) + 1
  BY <1>2, <1>3, FS_AddElement
<1>7. Cardinality(Pulled(ds)) = Cardinality(Pulled(cs)) + (IF c.door = "charge" THEN 0 ELSE 1)
  BY <1>4, <1>5, <1>6
<1> QED BY <1>5, <1>7 DEF ds

LEMMA PulledNone == Cardinality(Pulled(<<>>)) = 0
<1>1. Pulled(<<>>) = {}
  BY DEF Pulled
<1> QED BY <1>1, FS_EmptySet

LEMMA SharesAreInt ==
  ASSUME TypeOK, NEW i \in Id
  PROVE  /\ taken[i] \in Int /\ fees[i] \in Int
         /\ \A p : paid(p)[i] \in Int /\ received(p)[i] \in Int
<1>1. taken[i] \in Int /\ fees[i] \in Int
  <2>1. CASE subs[i] = None
    BY <2>1 DEF taken, fees
  <2>2. CASE subs[i] # None
    <3>1. /\ subs[i] \in Subscription /\ subs[i].amount \in Int /\ Len(charges[i]) \in Int
          /\ charges[i] \in Seq(Charge)
      BY <2>2 DEF TypeOK, Subscription
    <3>2. Fee(subs[i]) \in Int
      BY <3>1, FeeBounds
    <3>3. Cardinality(Pulled(charges[i])) \in Int
      <4>1. IsFiniteSet(1..Len(charges[i])) /\ Pulled(charges[i]) \subseteq 1..Len(charges[i])
        BY <3>1, FS_Interval DEF Pulled
      <4> QED BY <4>1, FS_Subset, FS_CardinalityType
    <3>4. /\ taken[i] = subs[i].amount * Len(charges[i])
          /\ fees[i] = Fee(subs[i]) * Cardinality(Pulled(charges[i]))
      BY <2>2 DEF taken, fees
    <3> QED BY <3>1, <3>2, <3>3, <3>4
  <2> QED BY <2>1, <2>2
<1> QED BY <1>1 DEF paid, received

(* Steps that move no money and settle nothing: a new subscription has     *)
(* taken nothing, and none changes its parties or its amount.              *)
LEMMA QuietPays ==
  ASSUME IInv, IInv', MandatesArePaid, balance' = balance, charges' = charges,
         \A i \in Id : subs[i] # None =>
           /\ subs'[i] # None /\ subs'[i].amount = subs[i].amount
           /\ subs'[i].buyer = subs[i].buyer /\ subs'[i].merchant = subs[i].merchant
  PROVE  MandatesArePaid'
<1>1. ASSUME NEW i \in Id, subs[i] = None
      PROVE  taken[i] = 0 /\ fees[i] = 0 /\ taken'[i] = 0 /\ fees'[i] = 0
  <2>1. taken[i] = 0 /\ fees[i] = 0
    BY <1>1 DEF taken, fees
  <2>2. charges'[i] = <<>>
    BY <1>1 DEF IInv
  <2>3. CASE subs'[i] = None
    BY <2>1, <2>3 DEF taken, fees
  <2>4. CASE subs'[i] # None
    <3>1. subs'[i] \in Subscription
      BY <2>4 DEF IInv, TypeOK
    <3>2. subs'[i].amount \in Int /\ Fee(subs'[i]) \in Int
      BY <3>1, FeeBounds DEF Subscription
    <3>3. /\ taken'[i] = subs'[i].amount * Len(<<>>)
          /\ fees'[i] = Fee(subs'[i]) * Cardinality(Pulled(<<>>))
      BY <2>2, <2>4 DEF taken, fees
    <3> QED BY <2>1, <3>2, <3>3, PulledNone
  <2> QED BY <2>3, <2>4
<1>2. ASSUME NEW i \in Id, subs[i] # None
      PROVE  taken'[i] = taken[i] /\ fees'[i] = fees[i]
  <2>1. subs'[i] # None /\ subs'[i].amount = subs[i].amount /\ charges'[i] = charges[i]
    BY <1>2
  <2>2. Fee(subs'[i]) = Fee(subs[i])
    BY <2>1 DEF Fee
  <2> QED BY <1>2, <2>1, <2>2 DEF taken, fees
<1>3. ASSUME NEW p, NEW i \in Id
      PROVE  paid(p)'[i] = paid(p)[i] /\ received(p)'[i] = received(p)[i]
  BY <1>1, <1>2 DEF paid, received
<1>4. \A p : /\ SumFunctionOnSet(paid(p)', Id) = SumFunctionOnSet(paid(p), Id)
             /\ SumFunctionOnSet(received(p)', Id) = SumFunctionOnSet(received(p), Id)
  BY <1>3, SumSame, ConstantsAssumption
<1> QED BY <1>4 DEF MandatesArePaid

(* A settled charge adds its amount to one element of the buyer's sum, and *)
(* its two legs to one element of the merchant's and of the platform's.    *)
LEMMA BookPays ==
  ASSUME IInv, IInv', MandatesArePaid, NEW i \in Id, NEW door \in Door,
         NEW a \in Attestation \cup {None}, Debited(i), Book(i, door, a),
         Credited(i, IF door = "charge" THEN 0 ELSE Fee(subs[i]))
  PROVE  MandatesArePaid'
<1> DEFINE s == subs[i]
           f == IF door = "charge" THEN 0 ELSE Fee(s)
           c == [at |-> now, door |-> door, attestation |-> a,
                 debit |-> balance[s.buyer] - balance'[s.buyer]]
<1>1. /\ s \in Subscription /\ s # None /\ charges[i] \in Seq(Charge)
      /\ subs \in [Id -> Subscription \cup {None}]
      /\ subs' = [subs EXCEPT ![i] = Charged(s)] /\ TypeOK /\ TypeOK' /\ now \in Time
      /\ charges' = [charges EXCEPT ![i] = Append(@, c)] /\ charges \in [Id -> Seq(Charge)]
  BY DEF IInv, TypeOK, Debited, Book
<1>2. /\ subs'[i] # None /\ subs'[i].amount = s.amount /\ subs'[i].buyer = s.buyer
      /\ subs'[i].merchant = s.merchant
      /\ \A j \in Id \ {i} : subs'[j] = subs[j] /\ charges'[j] = charges[j]
      /\ charges'[i] = Append(charges[i], c)
  <2> DEFINE r == Charged(s)
  <2>1. /\ r \in Subscription /\ r.amount = s.amount /\ r.buyer = s.buyer
        /\ r.merchant = s.merchant
    BY <1>1, ChargedFields
  <2>2. r # None /\ subs' = [subs EXCEPT ![i] = r]
    BY <1>1, <2>1, NoneAssumption
  <2> HIDE DEF c, r
  <2>3. /\ subs'[i] = r /\ charges'[i] = Append(charges[i], c)
        /\ \A j \in Id \ {i} : subs'[j] = subs[j] /\ charges'[j] = charges[j]
    BY <1>1, <2>2
  <2> QED BY <2>1, <2>2, <2>3
<1>3. s.amount \in Nat /\ s.buyer \in Buyer /\ s.merchant \in Merchant
  BY <1>1 DEF Subscription
<1>4. c \in Charge
  <2>1. balance[s.buyer] \in Int /\ balance'[s.buyer] \in Int
    BY <1>1, <1>3 DEF TypeOK, Party
  <2> QED BY <1>1, <2>1 DEF Charge, Door
<1>5. taken'[i] = taken[i] + s.amount
  <2>1. /\ taken[i] = s.amount * Len(charges[i]) /\ taken'[i] = s.amount * Len(charges'[i])
        /\ Len(charges'[i]) = Len(charges[i]) + 1 /\ Len(charges[i]) \in Nat
    BY <1>1, <1>2, <1>4 DEF taken
  <2> HIDE DEF s
  <2> QED BY <2>1, <1>3
<1>6. Fee(s) \in Int /\ Fee(subs'[i]) = Fee(s)
  BY <1>1, <1>2, FeeBounds DEF Fee
<1>7. fees'[i] = fees[i] + f
  <2> DEFINE n == Cardinality(Pulled(charges[i]))
             m == Cardinality(Pulled(charges'[i]))
  <2>1. n \in Nat /\ m = n + (IF door = "charge" THEN 0 ELSE 1)
    BY <1>1, <1>2, <1>4, PulledAppend
  <2>2. fees[i] = Fee(s) * n /\ fees'[i] = Fee(s) * m
    BY <1>1, <1>2, <1>6 DEF fees
  <2> DEFINE fee == Fee(s)
  <2> HIDE DEF s, n, m, fee
  <2>3. fees'[i] = fees[i] + (IF door = "charge" THEN 0 ELSE fee)
    BY <2>1, <2>2, <1>6 DEF fee
  <2> QED BY <2>3 DEF fee
<1>8. \A j \in Id \ {i} : taken'[j] = taken[j] /\ fees'[j] = fees[j]
  BY <1>2 DEF taken, fees
<1>9. \A j \in Id : /\ taken[j] \in Int /\ fees[j] \in Int
                    /\ \A p : paid(p)[j] \in Int /\ received(p)[j] \in Int
  BY <1>1, SharesAreInt
<1>10. f \in Int
  BY <1>6
<1> HIDE DEF f, c
<1>11. ASSUME NEW p, NEW j \in Id \ {i}
       PROVE  paid(p)'[j] = paid(p)[j] /\ received(p)'[j] = received(p)[j]
  BY <1>2, <1>8 DEF paid, received
<1>12. ASSUME NEW p
       PROVE  paid(p)'[i] = paid(p)[i] + (IF p = s.buyer THEN s.amount ELSE 0)
  BY <1>1, <1>2, <1>3, <1>5, <1>9 DEF paid
<1>13. ASSUME NEW p
       PROVE  received(p)'[i] = received(p)[i] + (IF p = s.merchant THEN s.amount - f ELSE 0)
                                               + (IF p = Platform THEN f ELSE 0)
  BY <1>1, <1>2, <1>3, <1>5, <1>7, <1>9, <1>10 DEF received
<1>14. \A p : \A j \in Id : paid(p)'[j] \in Int /\ received(p)'[j] \in Int
  <2>1. \A p : paid(p)'[i] \in Int /\ received(p)'[i] \in Int
    BY <1>3, <1>9, <1>10, <1>12, <1>13
  <2> QED BY <1>9, <1>11, <2>1
<1>15. ASSUME NEW b \in Buyer
       PROVE  Funds - balance'[b] = SumFunctionOnSet(paid(b)', Id)
  <2> DEFINE old == SumFunctionOnSet(paid(b), Id)
             new == SumFunctionOnSet(paid(b)', Id)
  <2>1. new - old = paid(b)'[i] - paid(b)[i]
    BY <1>9, <1>11, <1>14, SumMoves, ConstantsAssumption
  <2>2. old \in Int /\ new \in Int
    BY <1>9, <1>14, SumIsInt, ConstantsAssumption
  <2>3. Funds - balance[b] = old
    BY DEF MandatesArePaid
  <2>4. /\ balance'[b] = balance[b] - (IF b = s.buyer THEN s.amount ELSE 0)
        /\ balance[b] \in Int /\ Funds \in Int /\ paid(b)[i] \in Int
    BY <1>1, <1>3, <1>9, ConstantsAssumption DEF Debited, TypeOK, Party
  <2> HIDE DEF s, old, new
  <2>5. Funds - balance'[b] = new
    BY <1>3, <1>12, <2>1, <2>2, <2>3, <2>4
  <2> QED BY <2>5 DEF new
<1>16. ASSUME NEW p \in Merchant \cup {Platform}
       PROVE  balance'[p] = SumFunctionOnSet(received(p)', Id)
  <2> DEFINE old == SumFunctionOnSet(received(p), Id)
             new == SumFunctionOnSet(received(p)', Id)
  <2>1. new - old = received(p)'[i] - received(p)[i]
    BY <1>9, <1>11, <1>14, SumMoves, ConstantsAssumption
  <2>2. old \in Int /\ new \in Int
    BY <1>9, <1>14, SumIsInt, ConstantsAssumption
  <2>3. balance[p] = old
    BY DEF MandatesArePaid
  <2>4. balance'[p] = balance[p] + (IF p = s.merchant THEN s.amount - f ELSE 0)
                                 + (IF p = Platform THEN f ELSE 0)
    BY DEF Credited, f
  <2>5. received(p)[i] \in Int
    BY <1>9
  <2> HIDE DEF s, old, new
  <2>6. balance'[p] = new
    BY <1>3, <1>10, <1>13, <2>1, <2>2, <2>3, <2>4, <2>5
  <2> QED BY <2>6 DEF new
<1> QED BY <1>15, <1>16 DEF MandatesArePaid

LEMMA InitPays == Init => MandatesArePaid
<1> SUFFICES ASSUME Init PROVE MandatesArePaid
  OBVIOUS
<1>1. \A i \in Id : subs[i] = None /\ taken[i] = 0 /\ fees[i] = 0
  BY DEF Init, taken, fees
<1>2. \A p : \A i \in Id : paid(p)[i] = 0 /\ received(p)[i] = 0
  BY <1>1 DEF paid, received
<1>3. \A p : SumFunctionOnSet(paid(p), Id) = 0 /\ SumFunctionOnSet(received(p), Id) = 0
  BY <1>2, SumZero, ConstantsAssumption
<1>4. /\ \A b \in Buyer : Funds - balance[b] = 0
      /\ \A p \in Merchant \cup {Platform} : balance[p] = 0
  BY ConstantsAssumption DEF Init, Party
<1> QED BY <1>3, <1>4 DEF MandatesArePaid

LEMMA NextPays == IInv /\ IInv' /\ MandatesArePaid /\ [Next]_vars => MandatesArePaid'
<1> SUFFICES ASSUME IInv, IInv', MandatesArePaid, [Next]_vars
             PROVE  MandatesArePaid'
  OBVIOUS
<1>1. TypeOK
  BY DEF IInv
<1>2. ASSUME subs' = subs, charges' = charges, balance' = balance
      PROVE  MandatesArePaid'
  BY <1>2, QuietPays
<1>3. ASSUME NEW i \in Id, NEW from, NEW to \in Status, SetStatus(i, from, to)
      PROVE  MandatesArePaid'
  <2> DEFINE r == [subs[i] EXCEPT !.status = to]
  <2>1. /\ subs[i] \in Subscription /\ subs' = [subs EXCEPT ![i] = r]
        /\ charges' = charges /\ balance' = balance
    BY <1>1, <1>3 DEF SetStatus, token, TypeOK
  <2>2. /\ r \in Subscription /\ r.amount = subs[i].amount /\ r.buyer = subs[i].buyer
        /\ r.merchant = subs[i].merchant
    BY <2>1 DEF Subscription
  <2> HIDE DEF r
  <2>3. r # None
    BY <2>2, NoneAssumption
  <2> QED BY <1>1, <2>1, <2>2, <2>3, QuietPays DEF TypeOK
<1>4. ASSUME NEW i \in Id, NEW b \in Buyer, NEW m \in Merchant, NEW amount \in Amount,
             NEW period \in Period, NEW max \in MaxPeriods, NEW expires \in Expiry,
             Create(i, b, m, amount, period, max, expires)
      PROVE  MandatesArePaid'
  <2>1. /\ charges' = charges /\ balance' = balance
        /\ \A j \in Id : subs[j] # None => subs'[j] = subs[j]
    BY <1>1, <1>4 DEF Create, token, TypeOK
  <2> QED BY <2>1, QuietPays
<1>5. ASSUME NEW i \in Id, BuyerCharge(i)
      PROVE  MandatesArePaid'
  BY <1>1, <1>5, BuyerChargeDebits, BuyerChargeCredits, BookPays DEF Door
<1>6. ASSUME NEW i \in Id, NEW door \in {"autocharge", "attested"},
             NEW a \in Attestation \cup {None}, AllowanceCharge(i, door, a)
      PROVE  MandatesArePaid'
  BY <1>1, <1>6, AllowanceChargeDebits, AllowanceChargeCredits, BookPays DEF Door
<1>7. ASSUME NEW i \in Id, Cancel(i) \/ Pause(i) \/ Resume(i) \/ MarkExpired(i)
      PROVE  MandatesArePaid'
  BY <1>3, <1>7 DEF Cancel, Pause, Resume, MarkExpired, Status
<1>8. (\E i \in Id, k \in Key : SetAttester(i, k)) => MandatesArePaid'
  BY <1>2 DEF SetAttester, token
<1>9. (\E b \in Buyer, amount \in Approval : Approve(b, amount)) => MandatesArePaid'
  BY <1>2 DEF Approve
<1>10. Tick \/ UNCHANGED vars => MandatesArePaid'
  BY <1>2 DEF Tick, token, vars
<1>11. \A i \in Id : Autocharge(i) => MandatesArePaid'
  BY <1>6 DEF Autocharge
<1>12. \A i \in Id, a \in OfferedAttestation : AutochargeAttested(i, a) => MandatesArePaid'
  <2>1. OfferedAttestation \subseteq Attestation
    <3>1. 0..MaxTime \subseteq Nat /\ NotAfter \subseteq Nat
      BY ConstantsAssumption
    <3> QED BY <3>1 DEF OfferedAttestation, Attestation
  <2> QED BY <1>6, <2>1 DEF AutochargeAttested
<1> QED
  BY <1>4, <1>5, <1>7, <1>8, <1>9, <1>10, <1>11, <1>12 DEF Next
---------------------------------------------------------------------------
(* The theorems.                                                           *)

\* The conjunction the other theorems rest on is inductive.
THEOREM Invariant == Spec => []IInv
<1> QED BY InitInv, NextInv, PTL DEF Spec

\* Every variable keeps its type; no charge overdraws a balance or an allowance.
THEOREM TypeCorrect == Spec => []TypeOK
<1>1. IInv => TypeOK
  BY DEF IInv
<1> QED BY <1>1, Invariant, PTL

\* charge, autocharge and autocharge_attested share one clock: settled charges
\* are never closer than the period, for every period and order of calls.
THEOREM ChargeSpacingHolds == Spec => []ChargeSpacing
<1>1. IInv => ChargeSpacing
  BY DEF IInv, LedgerInv, ChargeSpacing
<1> QED BY <1>1, Invariant, PTL

\* autocharge_attested: an attestation settles at most one charge, the one it
\* was signed for, whoever submits it and however often.
THEOREM AttestationSingleUseHolds == Spec => []AttestationSingleUse
<1>1. IInv => AttestationSingleUse
  <2> SUFFICES ASSUME IInv, NEW i \in Id, NEW j \in Id, NEW m \in DOMAIN charges[i],
                      NEW n \in DOMAIN charges[j], charges[i][m].attestation # None
               PROVE  LET a == charges[i][m].attestation IN
                      /\ a.id = i /\ a.domain = Domain /\ charges[i][m].at <= a.not_after
                      /\ a = charges[j][n].attestation => i = j /\ m = n
    BY DEF AttestationSingleUse
  <2>1. ASSUME NEW k \in Id, NEW l \in DOMAIN charges[k], charges[k][l].attestation # None
        PROVE  LET a == charges[k][l].attestation IN
               /\ a.id = k /\ a.domain = Domain /\ a.charges_done = l - 1
               /\ charges[k][l].at <= a.not_after /\ l \in Nat
    BY <2>1 DEF IInv, TypeOK, LedgerInv
  <2>2. ASSUME charges[i][m].attestation = charges[j][n].attestation
        PROVE  i = j /\ m = n
    <3>1. i = j /\ m - 1 = n - 1 /\ m \in Nat /\ n \in Nat
      BY <2>1, <2>2
    <3> QED BY <3>1
  <2> QED BY <2>1, <2>2
<1> QED BY <1>1, Invariant, PTL

\* Every behaviour of the contract is one the buyer's mandate allows.
THEOREM ImplementsMandateHolds == Spec => ImplementsMandate
<1>1. Init => M!Init
  BY InitRefines
<1>2. IInv /\ IInv' /\ [Next]_vars => [M!Next]_(M!vars)
  BY NextRefines
<1> QED BY <1>1, <1>2, Invariant, PTL DEF Spec, ImplementsMandate, M!Spec

\* audit-002 F6: nothing charges or changes a cancelled or expired
\* subscription, and one whose count is used up is expired.
THEOREM TerminalIsFinalHolds == Spec => TerminalIsFinal
<1> DEFINE Final ==
      \A i \in Id : subs[i] # None =>
        /\ subs[i].status \in {"Cancelled", "Expired"} =>
             subs'[i] = subs[i] /\ charges'[i] = charges[i]
        /\ ExpiredByCount(subs'[i]) => subs'[i].status = "Expired"
<1>1. IInv /\ IInv' /\ [Next]_vars => [Final]_vars
  <2> SUFFICES ASSUME IInv, IInv', Next, NEW j \in Id, subs[j] # None
               PROVE  /\ subs[j].status \in {"Cancelled", "Expired"} =>
                           subs'[j] = subs[j] /\ charges'[j] = charges[j]
                      /\ ExpiredByCount(subs'[j]) => subs'[j].status = "Expired"
    OBVIOUS
  <2>1. TypeOK
    BY DEF IInv
  <2> DEFINE Kept == /\ subs[j].status \in {"Cancelled", "Expired"} =>
                          subs'[j] = subs[j] /\ charges'[j] = charges[j]
                     /\ subs'[j] # None
  <2>2. ASSUME NEW i \in Id, NEW door \in Door, NEW a, Debited(i), Book(i, door, a)
        PROVE  Kept
    <3>1. subs[i].status = "Active"
      BY <2>2 DEF Debited, Chargeable
    <3>2. Charged(subs[i]) # None
      BY <2>1, <2>2, ChargedFields, NoneAssumption DEF TypeOK, Debited
    <3> QED BY <2>1, <2>2, <3>1, <3>2 DEF Book, TypeOK
  <2>3. ASSUME NEW i \in Id, NEW from \in SUBSET {"Active", "Paused"}, NEW to \in Status,
               SetStatus(i, from, to)
        PROVE  Kept
    <3>1. [subs[i] EXCEPT !.status = to] # None
      BY <2>1, <2>3, NoneAssumption DEF SetStatus, TypeOK, Subscription
    <3> QED BY <2>1, <2>3, <3>1 DEF SetStatus, TypeOK
  <2>4. ASSUME NEW i \in Id, NEW b \in Buyer, NEW m \in Merchant, NEW amount \in Amount,
               NEW period \in Period, NEW max \in MaxPeriods, NEW expires \in Expiry,
               Create(i, b, m, amount, period, max, expires)
        PROVE  Kept
    BY <2>1, <2>4 DEF Create, TypeOK
  <2>5. ASSUME subs' = subs, charges' = charges
        PROVE  Kept
    BY <2>5
  <2>6. ASSUME NEW i \in Id, BuyerCharge(i)
        PROVE  Kept
    BY <2>1, <2>2, <2>6, BuyerChargeDebits DEF Door
  <2>7. ASSUME NEW i \in Id, NEW door \in Door, NEW a, AllowanceCharge(i, door, a)
        PROVE  Kept
    BY <2>1, <2>2, <2>7, AllowanceChargeDebits
  <2>8. ASSUME NEW i \in Id, Cancel(i) \/ Pause(i) \/ Resume(i) \/ MarkExpired(i)
        PROVE  Kept
    BY <2>3, <2>8 DEF Cancel, Pause, Resume, MarkExpired, Status
  <2>9. Kept
    <3> HIDE DEF Kept
    <3>1. \A i \in Id : Autocharge(i) => Kept
      BY <2>7 DEF Autocharge, Door
    <3>2. \A i \in Id, a \in OfferedAttestation : AutochargeAttested(i, a) => Kept
      BY <2>7 DEF AutochargeAttested, Door
    <3>3. (\E i \in Id, k \in Key : SetAttester(i, k)) => Kept
      BY <2>5 DEF SetAttester
    <3>4. (\E b \in Buyer, amount \in Approval : Approve(b, amount)) \/ Tick => Kept
      BY <2>5 DEF Approve, Tick
    <3> QED BY <2>4, <2>6, <2>8, <3>1, <3>2, <3>3, <3>4 DEF Next
  <2>10. ExpiredByCount(subs'[j]) => subs'[j].status = "Expired"
    BY <2>9 DEF IInv, LedgerInv, ExpiredByCount
  <2> QED BY <2>9, <2>10
<1> QED BY <1>1, Invariant, PTL DEF Spec, TerminalIsFinal

\* charge, autocharge and autocharge_attested: what a buyer lost is the sum,
\* over his subscriptions, of the agreed amount times the settled charges, and
\* what merchants and platform hold is the same money, fee legs and rounding
\* accounted for - for every number of subscriptions and every fee.
THEOREM MandatesArePaidHolds == Spec => []MandatesArePaid
<1> QED BY InitPays, NextPays, Invariant, PTL DEF Spec
=============================================================================
