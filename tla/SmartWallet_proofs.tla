------------------------- MODULE SmartWallet_proofs -------------------------
(***************************************************************************)
(* Proofs about the smart wallet for every value of the constants.  The    *)
(* first part is arithmetic on one history; the second shows that IInv is  *)
(* inductive, one step per action; the theorems follow from it.            *)
(***************************************************************************)
EXTENDS SmartWallet, FiniteSetTheorems, TLAPS

(* A charge now leaves the past of a history alone and raises its present. *)
LEMMA RecordHistory ==
  ASSUME now \in Time \ {0}, NEW h \in History, HistoryInv(now, h), NEW a \in Nat
  PROVE  /\ Record(h, a) \in History
         /\ HistoryInv(now, Record(h, a))
         /\ \A t \in Time : t < now => Record(h, a)[t] = h[t]
         /\ \A t \in Time : t >= now => Record(h, a)[t] = h[now] + a
<1>1. Record(h, a) \in History
  BY ConstantsAssumption DEF Record, History, Time
<1>2. \A t \in Time : t < now => Record(h, a)[t] = h[t]
  BY ConstantsAssumption DEF Record, Time
<1>3. \A t \in Time : t >= now => Record(h, a)[t] = h[now] + a
  BY ConstantsAssumption DEF Record, Time, HistoryInv
<1>4. HistoryInv(now, Record(h, a))
  BY <1>1, <1>2, <1>3, ConstantsAssumption DEF HistoryInv, Time, History
<1> QED BY <1>1, <1>2, <1>3, <1>4

(* The estimate of the rolling spend never goes below zero: an epoch in    *)
(* progress is younger than a window.                                      *)
LEMMA WeightedPrevNat ==
  ASSUME now \in Time, NEW s \in Session,
         s.epoch_start <= now, now - s.epoch_start < s.window_seconds
  PROVE  WeightedPrev(s) \in Nat
<1> DEFINE left == s.window_seconds - (now - s.epoch_start)
           prod == s.prev_spent * left
           w == s.window_seconds
<1>1. s.prev_spent \in Nat /\ left \in Nat /\ w \in Nat \ {0}
  BY ConstantsAssumption DEF Session, Time
<1>2. prod \in Nat
  BY <1>1
<1>3. prod \div w \in Nat
  <2> HIDE DEF prod, w
  <2> QED BY <1>1, <1>2
<1> QED BY <1>3 DEF WeightedPrev

(* A new epoch opens a window or more after the last one did, so a stretch *)
(* that reaches back before that one is a window longer than it was.       *)
LEMMA RolledRate ==
  ASSUME now \in Time \ {0}, NEW s \in Session, NEW h \in History,
         HistoryInv(now, h), SessionInv(now, s, h), NEW r \in Session,
         now - s.epoch_start >= s.window_seconds, r.epoch_start = now,
         r.window_seconds = s.window_seconds, r.window_cap = s.window_cap
  PROVE  RateInv(r, h)
<1> DEFINE e == s.epoch_start
           w == s.window_seconds
           cap == s.window_cap
<1>1. /\ e \in Nat /\ w \in Nat \ {0} /\ cap \in Nat /\ now \in Nat
      /\ 0 < e /\ e <= now /\ e - 1 \in Time /\ now - 1 \in Time /\ now - e >= w
      /\ s.cur_spent <= cap /\ s.cur_spent \in Nat
  BY ConstantsAssumption DEF Session, SessionInv, Time
<1>2. h[now - 1] = h[now] /\ h[now] - h[e - 1] = s.cur_spent
  BY <1>1 DEF SessionInv
<1>3. RateInv(s, h)
  BY DEF SessionInv
<1>4. ASSUME NEW t \in Time \ {0}, NEW n \in Time, t < now, now - t <= (n + 1) * w
      PROVE  h[now - 1] - h[t - 1] <= (n + 1) * cap
  <2>1. t \in Nat /\ t - 1 \in Time /\ n \in Nat
    BY <1>4, ConstantsAssumption DEF Time
  <2>2. h[now] \in Nat /\ h[t - 1] \in Nat /\ h[e - 1] \in Nat
    BY <1>1, <2>1 DEF History
  <2>3. CASE t >= e
    <3>1. h[e - 1] <= h[t - 1]
      BY <1>1, <2>1, <2>3 DEF HistoryInv
    <3>2. h[now] - h[t - 1] <= cap
      BY <1>1, <1>2, <2>2, <3>1
    <3>3. cap <= (n + 1) * cap
      BY <1>1, <2>1
    <3>4. (n + 1) * cap \in Nat
      BY <1>1, <2>1
    <3> HIDE DEF cap
    <3> QED
      BY <1>1, <1>2, <2>2, <3>2, <3>3, <3>4
  <2>4. CASE t < e
    <3>1. (n + 1) * w = n * w + w /\ n * w \in Nat
      BY <1>1, <2>1
    <3>2. e - t <= n * w
      BY <1>1, <1>4, <2>1, <3>1
    <3>3. n # 0
      BY <1>1, <2>1, <2>4, <3>2
    <3>4. n - 1 \in Time
      BY <2>1, <3>3, ConstantsAssumption DEF Time
    <3>5. h[e - 1] - h[t - 1] <= ((n - 1) + 1) * cap
      BY <1>3, <2>1, <2>4, <3>2, <3>4 DEF RateInv
    <3>6. ((n - 1) + 1) * cap = n * cap /\ (n + 1) * cap = n * cap + cap /\ n * cap \in Nat
      BY <1>1, <2>1
    <3> HIDE DEF cap
    <3> QED
      BY <1>1, <1>2, <2>2, <3>5, <3>6
  <2> QED
    BY <1>1, <2>1, <2>3, <2>4
<1>5. \A t, u \in Time \ {0}, n \in Time :
        t < u /\ u - t <= (n + 1) * w => Between(h, t, u) <= (n + 2) * cap
  BY <1>3 DEF RateInv
<1> QED
  BY <1>4, <1>5 DEF RateInv

(* Charging within the epoch raises only intervals that reach to now.      *)
LEMMA ChargeRate ==
  ASSUME now \in Time \ {0}, NEW s \in Session, NEW h \in History,
         HistoryInv(now, h), SessionInv(now, s, h), NEW a \in Nat,
         s.cur_spent + a <= s.window_cap, NEW r \in Session,
         r.epoch_start = s.epoch_start,
         r.window_seconds = s.window_seconds, r.window_cap = s.window_cap
  PROVE  RateInv(r, Record(h, a))
<1> DEFINE e == s.epoch_start
           w == s.window_seconds
           cap == s.window_cap
           h2 == Record(h, a)
<1>1. /\ e \in Nat /\ w \in Nat \ {0} /\ cap \in Nat /\ now \in Nat
      /\ 0 < e /\ e <= now /\ e - 1 \in Time /\ e - 1 < now
      /\ s.cur_spent \in Nat
  BY ConstantsAssumption DEF Session, SessionInv, Time
<1>2. h[now] - h[e - 1] = s.cur_spent
  BY DEF SessionInv
<1>3. RateInv(s, h)
  BY DEF SessionInv
<1>4. /\ \A t \in Time : t < now => h2[t] = h[t]
      /\ \A t \in Time : t >= now => h2[t] = h[now] + a
  BY RecordHistory
<1> HIDE DEF h2
<1>5. ASSUME NEW t \in Time \ {0}, NEW n \in Time, t < e, e - t <= (n + 1) * w
      PROVE  h2[e - 1] - h2[t - 1] <= (n + 1) * cap
  <2>1. t - 1 \in Time /\ t - 1 < now
    BY <1>1, <1>5, ConstantsAssumption DEF Time
  <2>2. h2[e - 1] = h[e - 1] /\ h2[t - 1] = h[t - 1]
    BY <1>1, <1>4, <2>1
  <2>3. h[e - 1] - h[t - 1] <= (n + 1) * cap
    BY <1>3, <1>5 DEF RateInv
  <2> QED
    BY <2>2, <2>3
<1>6. ASSUME NEW t \in Time \ {0}, NEW u \in Time \ {0}, NEW n \in Time,
             t < u, u - t <= (n + 1) * w
      PROVE  Between(h2, t, u) <= (n + 2) * cap
  <2>1. t \in Nat /\ u \in Nat /\ n \in Nat /\ t - 1 \in Time
    BY <1>6, ConstantsAssumption DEF Time
  <2>2. h[now] \in Nat /\ h[t - 1] \in Nat /\ h[e - 1] \in Nat
    BY <1>1, <2>1 DEF History
  <2>3. (n + 2) * cap = (n + 1) * cap + cap /\ (n + 1) * cap \in Nat
    BY <1>1, <2>1
  <2>4. CASE u < now
    <3>1. Between(h, t, u) <= (n + 2) * cap
      BY <1>3, <1>6 DEF RateInv
    <3>2. h2[u] = h[u] /\ h2[t - 1] = h[t - 1]
      BY <1>1, <1>4, <1>6, <2>1, <2>4
    <3> QED
      BY <3>1, <3>2 DEF Between
  <2>5. CASE u >= now /\ t > now
    <3>1. h2[u] = h[now] + a /\ h2[t - 1] = h[now] + a
      BY <1>1, <1>4, <2>1, <2>5
    <3> HIDE DEF cap
    <3> QED
      BY <1>1, <2>2, <2>3, <3>1 DEF Between
  <2>6. CASE u >= now /\ t <= now /\ e <= t
    <3>1. h2[u] = h[now] + a /\ h2[t - 1] = h[t - 1]
      BY <1>1, <1>4, <2>1, <2>6
    <3>2. h[e - 1] <= h[t - 1]
      BY <1>1, <2>1, <2>6 DEF HistoryInv
    <3>3. s.cur_spent + a <= cap
      OBVIOUS
    <3> HIDE DEF cap
    <3> QED
      BY <1>1, <1>2, <2>2, <2>3, <3>1, <3>2, <3>3 DEF Between
  <2>7. CASE u >= now /\ t < e
    <3>1. h2[u] = h[now] + a /\ h2[t - 1] = h[t - 1]
      BY <1>1, <1>4, <2>1, <2>7
    <3>2. (n + 1) * w \in Nat
      BY <1>1, <2>1
    <3>3. e - t <= (n + 1) * w
      BY <1>1, <1>6, <2>1, <2>7, <3>2
    <3>4. h[e - 1] - h[t - 1] <= (n + 1) * cap
      BY <1>3, <2>7, <3>3 DEF RateInv
    <3>5. s.cur_spent + a <= cap
      OBVIOUS
    <3> HIDE DEF cap
    <3> QED
      BY <1>1, <1>2, <2>2, <2>3, <3>1, <3>4, <3>5 DEF Between
  <2> QED
    BY <1>1, <2>1, <2>4, <2>5, <2>6, <2>7
<1> QED
  BY <1>5, <1>6 DEF RateInv, h2

(* Rolling keeps what matters of a session, and leaves it in an epoch that *)
(* is younger than a window, with at most window_cap before it.            *)
LEMMA RolledSession ==
  ASSUME now \in Time \ {0}, NEW s \in Session, NEW h \in History,
         HistoryInv(now, h), SessionInv(now, s, h)
  PROVE  /\ Rolled(s) \in Session
         /\ SessionInv(now, Rolled(s), h)
         /\ now - Rolled(s).epoch_start < Rolled(s).window_seconds
         /\ Rolled(s).revoked = s.revoked
<1> DEFINE e == s.epoch_start
           w == s.window_seconds
<1>1. /\ e \in Time /\ w \in Nat \ {0} /\ s.window_cap \in Nat
      /\ s.cur_spent \in Nat /\ now \in Nat /\ now > 0
  BY ConstantsAssumption DEF Session, Time
<1>2. CASE now - e < w
  BY <1>2 DEF Rolled
<1>3. CASE ~(now - e < w)
  <2> DEFINE r == Rolled(s)
             prev == IF now - e < 2 * w THEN s.cur_spent ELSE 0
  <2>1. r = [s EXCEPT !.prev_spent = prev, !.cur_spent = 0, !.epoch_start = now]
    BY <1>3 DEF Rolled
  <2>2. prev \in Nat
    BY <1>1
  <2>3. r \in Session
    <3> HIDE DEF r, prev
    <3> QED BY <2>1, <2>2, <1>1, now \in Time DEF Session
  <2>4. /\ r.epoch_start = now /\ r.cur_spent = 0
        /\ r.window_seconds = w /\ r.window_cap = s.window_cap
        /\ r.per_tx_cap = s.per_tx_cap /\ r.revoked = s.revoked
        /\ r.allow_recipients = s.allow_recipients
        /\ r.window_cap_multiplier = s.window_cap_multiplier
    <3> HIDE DEF r, prev
    <3> QED BY <2>1 DEF Session
  <2>5. h[now - 1] = h[now]
    BY <1>1, <1>3, ConstantsAssumption DEF SessionInv, Time
  <2>6. ASSUME NEW t \in Time \ {0}, t <= now, now - t < w
        PROVE  h[now - 1] - h[t - 1] <= s.window_cap
    <3>1. e - 1 \in Time /\ t - 1 \in Time /\ e <= t - 1
      BY <1>1, <1>3, <2>6, ConstantsAssumption DEF SessionInv, Time
    <3>2. h[e - 1] <= h[t - 1]
      BY <3>1, <1>1, ConstantsAssumption DEF HistoryInv, Time
    <3>3. h[now] - h[e - 1] <= s.window_cap
      BY DEF SessionInv
    <3>4. h[now] \in Nat /\ h[e - 1] \in Nat /\ h[t - 1] \in Nat
      BY <3>1 DEF History
    <3> QED BY <3>2, <3>3, <3>4, <2>5, <1>1
  <2>7. SessionInv(now, r, h)
    <3> HIDE DEF r, prev
    <3>1. h[now] \in Nat
      BY DEF History
    <3>2. \A t \in Time : t - now >= w - 1 => h[t] = h[now]
      BY <1>1 DEF HistoryInv, Time
    <3>3. RateInv(r, h)
      <4>1. now - s.epoch_start >= s.window_seconds
        BY <1>1, <1>3, ConstantsAssumption DEF Time
      <4> QED BY <4>1, <2>3, <2>4, RolledRate
    <3> QED BY <2>4, <2>5, <2>6, <3>1, <3>2, <3>3, <1>1 DEF SessionInv
  <2> QED BY <2>3, <2>4, <2>7, <1>1
<1> QED BY <1>2, <1>3
(* Charging a session inside its budget.                                   *)
LEMMA SessionCharge ==
  ASSUME now \in Time \ {0}, NEW s \in Session, NEW h \in History,
         HistoryInv(now, h), SessionInv(now, s, h),
         now - s.epoch_start < s.window_seconds,
         NEW a \in Nat, WithinBudget(s, a)
  PROVE  /\ [s EXCEPT !.cur_spent = @ + a] \in Session
         /\ SessionInv(now, [s EXCEPT !.cur_spent = @ + a], Record(h, a))
         /\ [s EXCEPT !.cur_spent = @ + a].revoked = s.revoked
<1> DEFINE e == s.epoch_start
           w == s.window_seconds
           s2 == [s EXCEPT !.cur_spent = @ + a]
           h2 == Record(h, a)
<1>1. /\ e \in Time /\ e \in Nat /\ w \in Nat \ {0} /\ s.window_cap \in Nat
      /\ s.cur_spent \in Nat /\ now \in Nat /\ now > 0 /\ MaxTime \in Nat
  BY ConstantsAssumption DEF Session, Time
<1>2. /\ s2 \in Session /\ s2.cur_spent = s.cur_spent + a
      /\ s2.epoch_start = e /\ s2.window_seconds = w
      /\ s2.window_cap = s.window_cap /\ s2.per_tx_cap = s.per_tx_cap
      /\ s2.revoked = s.revoked /\ s2.allow_recipients = s.allow_recipients
      /\ s2.window_cap_multiplier = s.window_cap_multiplier
  BY DEF Session
<1>3. /\ h2 \in History /\ HistoryInv(now, h2)
      /\ \A t \in Time : t < now => h2[t] = h[t]
      /\ \A t \in Time : t >= now => h2[t] = h[now] + a
  BY RecordHistory
<1>4. \A t \in Time : h[t] \in Nat
  BY DEF History
<1>5. 0 < e /\ e <= now
  BY DEF SessionInv
<1>6. s.cur_spent + a <= s.window_cap
  BY WeightedPrevNat, <1>1, <1>5 DEF WithinBudget
<1>7. e - 1 \in Time /\ e - 1 < now /\ now \in Time
  BY <1>1, <1>5 DEF Time
<1>8. h[now] - h[e - 1] = s.cur_spent
  BY DEF SessionInv
<1>9. ASSUME NEW t \in Time \ {0}, t <= e, e - t < w
      PROVE  h[e - 1] - h[t - 1] <= s.window_cap /\ t - 1 \in Time /\ t - 1 < now
  BY <1>9, <1>1, <1>5 DEF SessionInv, Time
<1>10. ASSUME NEW t \in Time \ {0}, NEW u \in Time \ {0}, t <= u, u - t < w
       PROVE  Between(h2, t, u) <= 2 * s.window_cap
  <2>1. t - 1 \in Time /\ t \in Nat /\ u \in Nat
    BY <1>10, <1>1 DEF Time
  <2>2. CASE u < now
    <3>1. Between(h, t, u) <= 2 * s.window_cap
      BY <1>10 DEF SessionInv
    <3>2. h2[u] = h[u] /\ h2[t - 1] = h[t - 1]
      BY <2>1, <2>2, <1>10, <1>3, <1>1
    <3> QED BY <3>1, <3>2 DEF Between
  <2>3. CASE u >= now /\ t > now
    <3>1. h2[u] = h[now] + a /\ h2[t - 1] = h[now] + a
      BY <2>1, <2>3, <1>3, <1>1
    <3> HIDE DEF h2
    <3> QED BY <3>1, <1>4, <1>7, <1>1 DEF Between
  <2>4. CASE u >= now /\ t <= now /\ e <= t
    <3>1. h2[u] = h[now] + a /\ h2[t - 1] = h[t - 1]
      BY <2>1, <2>4, <1>3, <1>1
    <3>2. h[e - 1] <= h[t - 1]
      BY <2>1, <2>4, <1>7, <1>1 DEF HistoryInv, Time
    <3> HIDE DEF h2
    <3>3. h[now] \in Nat /\ h[e - 1] \in Nat /\ h[t - 1] \in Nat
      BY <1>4, <1>7, <2>1
    <3> QED BY <3>1, <3>2, <3>3, <1>6, <1>8, <1>1 DEF Between
  <2>5. CASE u >= now /\ t < e
    <3>1. h2[u] = h[now] + a /\ h2[t - 1] = h[t - 1]
      BY <2>1, <2>5, <1>3, <1>1, <1>5
    <3>2. h[e - 1] - h[t - 1] <= s.window_cap
      BY <1>9, <1>10, <2>1, <2>5, <1>1, <1>5
    <3> HIDE DEF h2
    <3>3. h[now] \in Nat /\ h[e - 1] \in Nat /\ h[t - 1] \in Nat
      BY <1>4, <1>7, <2>1
    <3> QED BY <3>1, <3>2, <3>3, <1>6, <1>8, <1>1 DEF Between
  <2> QED BY <2>1, <2>2, <2>3, <2>4, <2>5, <1>1
<1>11. h2[now] - h2[e - 1] = s.cur_spent + a
  <2>1. h2[now] = h[now] + a /\ h2[e - 1] = h[e - 1]
    BY <1>3, <1>7, <1>1
  <2> HIDE DEF h2
  <2>2. h[now] \in Nat /\ h[e - 1] \in Nat
    BY <1>4, <1>7
  <2> QED BY <2>1, <2>2, <1>8, <1>1
<1>12. ASSUME NEW t \in Time, t - e >= w - 1
       PROVE  h2[t] = h2[now]
  BY <1>12, <1>3, <1>7, <1>1 DEF Time
<1>13. ASSUME NEW t \in Time \ {0}, t <= e, e - t < w
       PROVE  h2[e - 1] - h2[t - 1] <= s.window_cap
  BY <1>13, <1>9, <1>3, <1>7
<1>14. SessionInv(now, s2, h2)
  <2> HIDE DEF s2, h2
  <2>1. /\ s.window_cap_multiplier = PROVED_WINDOW_MULTIPLIER
        /\ s.per_tx_cap <= MaxAbsolute
        /\ s.allow_recipients # {} /\ s.allow_recipients \cap {Admin, Self} = {}
    BY DEF SessionInv
  <2>2. RateInv(s2, Record(h, a))
    BY <1>2, <1>6, ChargeRate
  <2>3. RateInv(s2, h2)
    BY <2>2 DEF h2
  <2> QED BY <2>1, <2>3, <1>2, <1>5, <1>6, <1>10, <1>11, <1>12, <1>13 DEF SessionInv
<1> QED BY <1>2, <1>14

(* A fresh session has spent nothing, whatever the clock says.             *)
LEMMA SessionStart ==
  ASSUME now \in Time \ {0}, NEW s \in Session, InstallableSession(s),
         s.window_cap_multiplier = PROVED_WINDOW_MULTIPLIER,
         s.epoch_start = now, s.cur_spent = 0
  PROVE  SessionInv(now, s, NoHistory)
<1>1. \A t \in Time \ {0} : t - 1 \in Time
  BY ConstantsAssumption DEF Time
<1>2. \A t \in Time : NoHistory[t] = 0
  BY DEF NoHistory
<1>3. s.window_cap \in Nat /\ now \in Nat /\ now > 0
  BY ConstantsAssumption DEF Session, Time
<1>4. now \in Time /\ now - 1 \in Time
  BY <1>1
<1> HIDE DEF NoHistory
<1>5. \A t, u \in Time \ {0} : Between(NoHistory, t, u) = 0
  BY <1>1, <1>2 DEF Between
<1>6. NoHistory[now] - NoHistory[s.epoch_start - 1] = s.cur_spent
  BY <1>2, <1>4
<1>7. \A t \in Time \ {0} :
        NoHistory[s.epoch_start - 1] - NoHistory[t - 1] <= s.window_cap
  BY <1>1, <1>2, <1>3, <1>4
<1>8. \A t \in Time : NoHistory[t] = NoHistory[now]
  BY <1>2, <1>4
<1>9. \A t, u \in Time \ {0} : Between(NoHistory, t, u) <= 2 * s.window_cap
  BY <1>3, <1>5
<1>10. /\ s.per_tx_cap <= MaxAbsolute /\ s.allow_recipients # {}
       /\ s.allow_recipients \cap {Admin, Self} = {}
  BY DEF InstallableSession
<1>11. 0 < s.epoch_start /\ s.epoch_start <= now /\ s.cur_spent <= s.window_cap
  BY <1>3
<1>12. RateInv(s, NoHistory)
  <2>1. \A n \in Time : (n + 1) * s.window_cap \in Nat /\ (n + 2) * s.window_cap \in Nat
    BY <1>3, ConstantsAssumption DEF Time
  <2>2. \A t \in Time \ {0} : NoHistory[s.epoch_start - 1] - NoHistory[t - 1] = 0
    BY <1>1, <1>2, <1>4
  <2> QED BY <1>5, <2>1, <2>2 DEF RateInv
<1> QED BY <1>6, <1>7, <1>8, <1>9, <1>10, <1>11, <1>12 DEF SessionInv

(* Charging a policy that allows it.                                       *)
LEMMA PolicyCharge ==
  ASSUME now \in Time \ {0}, NEW m \in Address, NEW p \in Policy,
         NEW h \in History, HistoryInv(now, h), PolicyInv(now, m, p, h),
         NEW a \in Nat, a <= p.max_per_charge,
         p.last_charge_at = 0 \/ now >= p.last_charge_at + p.interval_seconds
  PROVE  /\ [p EXCEPT !.last_charge_at = now] \in Policy
         /\ PolicyInv(now, m, [p EXCEPT !.last_charge_at = now], Record(h, a))
<1> DEFINE last == p.last_charge_at
           w == p.interval_seconds
           p2 == [p EXCEPT !.last_charge_at = now]
           h2 == Record(h, a)
<1>1. /\ last \in Time /\ w \in Nat /\ p.max_per_charge \in Nat /\ last \in Nat
      /\ now \in Nat /\ now > 0 /\ MaxTime \in Nat /\ now \in Time /\ now - 1 \in Time
  BY ConstantsAssumption DEF Policy, Time
<1>2. /\ p2 \in Policy /\ p2.last_charge_at = now /\ p2.interval_seconds = w
      /\ p2.max_per_charge = p.max_per_charge
  BY DEF Policy
<1>3. /\ h2 \in History /\ HistoryInv(now, h2)
      /\ \A t \in Time : t < now => h2[t] = h[t]
      /\ \A t \in Time : t >= now => h2[t] = h[now] + a
  BY RecordHistory
<1>4. \A t \in Time : h[t] \in Nat
  BY DEF History
<1>5. 0 < w
  BY DEF PolicyInv
<1>6. ASSUME NEW t \in Time \ {0}, t <= now, now - t < w
      PROVE  h[now] = h[t - 1] /\ h[now - 1] = h[t - 1]
  <2>1. t - 1 \in Time /\ t \in Nat
    BY <1>1 DEF Time
  <2>2. CASE last = 0
    BY <2>1, <2>2, <1>1 DEF PolicyInv
  <2>3. CASE last # 0
    <3>1. last <= t - 1 /\ last <= now - 1
      BY <2>1, <2>3, <1>1, <1>5, <1>6
    <3> QED BY <3>1, <2>1, <2>3, <1>1 DEF PolicyInv
  <2> QED BY <2>2, <2>3
<1>7. ASSUME NEW t \in Time \ {0}, NEW u \in Time \ {0}, t <= u, u - t < w
      PROVE  Between(h2, t, u) <= p.max_per_charge
  <2>1. t - 1 \in Time /\ t \in Nat /\ u \in Nat
    BY <1>7, <1>1 DEF Time
  <2>2. CASE u < now
    <3>1. Between(h, t, u) <= p.max_per_charge
      BY <1>7 DEF PolicyInv
    <3>2. h2[u] = h[u] /\ h2[t - 1] = h[t - 1]
      BY <2>1, <2>2, <1>7, <1>3, <1>1
    <3> QED BY <3>1, <3>2 DEF Between
  <2>3. CASE u >= now /\ t > now
    <3>1. h2[u] = h[now] + a /\ h2[t - 1] = h[now] + a
      BY <2>1, <2>3, <1>3, <1>1
    <3> HIDE DEF h2
    <3> QED BY <3>1, <1>4, <1>1 DEF Between
  <2>4. CASE u >= now /\ t <= now
    <3>1. h2[u] = h[now] + a /\ h2[t - 1] = h[t - 1]
      BY <2>1, <2>4, <1>3, <1>1
    <3>2. h[now] = h[t - 1]
      BY <1>6, <1>7, <2>1, <2>4, <1>1
    <3> HIDE DEF h2
    <3> QED BY <3>1, <3>2, <1>4, <1>1 DEF Between
  <2> QED BY <2>1, <2>2, <2>3, <2>4, <1>1
<1>8. PolicyInv(now, m, p2, h2)
  <2>1. m \notin {Admin, Self} /\ p.max_per_charge <= MaxAbsolute
    BY DEF PolicyInv
  <2>2. h2[now] - h2[now - 1] <= p.max_per_charge
    <3>1. h[now] = h[now - 1]
      BY <1>6, <1>1, <1>5
    <3>2. h2[now] = h[now] + a /\ h2[now - 1] = h[now - 1]
      BY <1>3, <1>1
    <3> HIDE DEF h2
    <3> QED BY <3>1, <3>2, <1>4, <1>1
  <2>3. \A t \in Time : t >= now => h2[t] = h2[now]
    BY <1>3, <1>1
  <2>4. ASSUME NEW t \in Time \ {0}, t <= now, now - t < w
        PROVE  h2[now - 1] = h2[t - 1]
    <3>1. t - 1 \in Time /\ t - 1 < now
      BY <2>4, <1>1 DEF Time
    <3> QED BY <3>1, <2>4, <1>6, <1>3, <1>1
  <2> HIDE DEF p2, h2
  <2> QED BY <2>1, <2>2, <2>3, <2>4, <1>1, <1>2, <1>5, <1>7 DEF PolicyInv
<1> QED BY <1>2, <1>8

(* A policy just installed has not been charged.                           *)
LEMMA PolicyStart ==
  ASSUME now \in Time \ {0}, NEW m \in Address, NEW p \in Policy, NEW amount \in Nat,
         InstallablePolicy(m, amount, p), p.last_charge_at = 0
  PROVE  PolicyInv(now, m, p, NoHistory)
<1>1. \A t \in Time \ {0} : t - 1 \in Time
  BY ConstantsAssumption DEF Time
<1>2. \A t \in Time : NoHistory[t] = 0
  BY DEF NoHistory
<1>3. /\ p.max_per_charge \in Nat /\ p.interval_seconds \in Nat
      /\ now \in Nat /\ now > 0 /\ MinSeconds \in Nat /\ MinSeconds > 0
  BY ConstantsAssumption DEF Policy, Time
<1> HIDE DEF NoHistory
<1>5. \A t, u \in Time \ {0} : Between(NoHistory, t, u) = 0
  BY <1>1, <1>2 DEF Between
<1> QED BY <1>1, <1>2, <1>3, <1>5 DEF PolicyInv, InstallablePolicy

LEMMA NoHistoryInv ==
  ASSUME now \in Time
  PROVE  NoHistory \in History /\ HistoryInv(now, NoHistory)
BY ConstantsAssumption DEF NoHistory, History, HistoryInv, Time
---------------------------------------------------------------------------
(* Types.                                                                  *)

LEMMA RolledType ==
  ASSUME now \in Time, NEW s \in Session
  PROVE  Rolled(s) \in Session
<1> DEFINE prev == IF now - s.epoch_start < 2 * s.window_seconds
                   THEN s.cur_spent ELSE 0
           r == [s EXCEPT !.prev_spent = prev, !.cur_spent = 0, !.epoch_start = now]
<1>1. Rolled(s) = s \/ Rolled(s) = r
  BY DEF Rolled
<1>2. prev \in Nat
  BY DEF Session
<1>3. r \in Session
  <2> HIDE DEF prev
  <2> QED BY <1>2 DEF Session
<1> QED BY <1>1, <1>3

LEMMA RecordType ==
  ASSUME NEW h \in History, NEW a \in Nat
  PROVE  Record(h, a) \in History
BY DEF Record, History

(* What taking one more context does to the entry.                         *)
LEMMA StepEntry ==
  ASSUME entry \in Entry, NEW covered \in SUBSET Transfer, NEW all_matched \in BOOLEAN,
         Step(covered, all_matched)
  PROVE  /\ entry' \in Entry /\ entry' # None
         /\ entry'.saved = entry.saved /\ entry'.signer = entry.signer
         /\ entry'.covered = covered
<1>1. entry.count + 1 \in 0..MaxContexts
  BY ConstantsAssumption DEF Step, Entry
<1>2. entry' = [entry EXCEPT !.count = entry.count + 1, !.covered = covered,
                             !.all_matched = all_matched]
  BY DEF Step
<1>3. entry' \in Entry
  BY <1>1, <1>2 DEF Entry
<1> QED BY <1>2, <1>3, NoneAssumption DEF Entry

LEMMA NextType == TypeOK /\ [Next]_vars => TypeOK'
<1> SUFFICES ASSUME TypeOK, [Next]_vars PROVE TypeOK'
  OBVIOUS
<1> USE DEF TypeOK
<1>1. ASSUME NEW m \in Merchant, NEW token \in Token, NEW amount \in Amount,
             NEW max \in Amount, NEW interval \in Seconds, NEW expires \in Expiry,
             InstallPolicy(m, token, amount, max, interval, expires)
      PROVE  TypeOK'
  <2>1. NoHistory \in History
    BY DEF NoHistory, History
  <2>2. [token |-> token, max_per_charge |-> max, interval_seconds |-> interval,
         expires_at |-> expires, last_charge_at |-> 0, revoked |-> FALSE] \in Policy
    BY ConstantsAssumption DEF Policy, Time
  <2> QED BY <1>1, <2>1, <2>2 DEF InstallPolicy
<1>2. ASSUME NEW m \in Merchant, RevokePolicy(m)
      PROVE  TypeOK'
  <2>1. policies[m] \in Policy
    BY <1>2, ConstantsAssumption DEF RevokePolicy
  <2>2. [policies[m] EXCEPT !.revoked = TRUE] \in Policy
    BY <2>1 DEF Policy
  <2> QED BY <1>2, <2>2 DEF RevokePolicy
<1>3. ASSUME NEW k \in Agent, NEW token \in Token, NEW cap \in Amount,
             NEW wcap \in Amount, NEW window \in Seconds, NEW expires \in Expiry,
             NEW allow \in SUBSET Address,
             InstallAgentSession(k, token, cap, window, wcap, expires, allow)
      PROVE  TypeOK'
  <2> DEFINE s == [token |-> token, per_tx_cap |-> cap, window_seconds |-> window,
                   window_cap |-> wcap, epoch_start |-> now, cur_spent |-> 0,
                   prev_spent |-> 0, expires_at |-> expires, revoked |-> FALSE,
                   allow_recipients |-> allow,
                   window_cap_multiplier |-> PROVED_WINDOW_MULTIPLIER]
  <2>1. InstallableSession(s) /\ sessions' = [sessions EXCEPT ![k] = s]
    BY <1>3 DEF InstallAgentSession
  <2>2. window \in Nat \ {0}
    BY <2>1, ConstantsAssumption DEF InstallableSession
  <2>3. s \in Session
    BY <2>2, ConstantsAssumption DEF Session
  <2> QED BY <1>3, <2>1, <2>3 DEF InstallAgentSession
<1>4. ASSUME NEW k \in Agent, RevokeAgentSession(k)
      PROVE  TypeOK'
  <2>1. [sessions[k] EXCEPT !.revoked = TRUE] \in Session
    BY <1>4 DEF RevokeAgentSession, Session
  <2> QED BY <1>4, <2>1 DEF RevokeAgentSession
<1>5. ASSUME NEW signer \in Agent \cup {Passkey}, NEW signed \in BOOLEAN, Begin(signer, signed)
      PROVE  TypeOK'
  <2>1. entry' \in Entry
    BY <1>5, ConstantsAssumption DEF Begin, Entry, Storage
  <2> QED BY <1>5, <2>1 DEF Begin, storage
<1>6. ASSUME NEW c \in Context, TryAuthorizeAgentContext(c)
      PROVE  TypeOK'
  <2> DEFINE k == entry.signer
             s == Rolled(sessions[k])
             s2 == [s EXCEPT !.cur_spent = @ + c.amount]
  <2>1. /\ entry \in Entry /\ k \in Agent /\ sessions[k] \in Session
        /\ c \in Transfer /\ c.amount \in Nat
    BY <1>6, ConstantsAssumption DEF TryAuthorizeAgentContext, Context, Transfer
  <2>2. s \in Session
    BY <2>1, RolledType
  <2>3. s2 \in Session
    <3> HIDE DEF s
    <3> QED BY <2>1, <2>2 DEF Session
  <2>4. sessions' \in [Agent -> Session \cup {None}]
    BY <1>6, <2>1, <2>3 DEF TryAuthorizeAgentContext
  <2>5. outflow' \in [Agent -> History]
    BY <1>6, <2>1, RecordType DEF TryAuthorizeAgentContext
  <2>6. entry' \in Entry
    <3>1. entry.covered \cup {c} \in SUBSET Transfer /\ entry.all_matched \in BOOLEAN
      BY <2>1 DEF Entry
    <3> QED BY <3>1, <2>1, <1>6, StepEntry DEF TryAuthorizeAgentContext
  <2> QED BY <1>6, <2>4, <2>5, <2>6 DEF TryAuthorizeAgentContext
<1>7. ASSUME NEW c \in Context, TryMatchPolicy(c) \/ NoPolicyMatches(c)
      PROVE  TypeOK'
  <2>1. entry \in Entry /\ entry.covered \in SUBSET Transfer
        /\ entry.all_matched \in BOOLEAN
    BY <1>7 DEF TryMatchPolicy, NoPolicyMatches, Entry
  <2>2. CASE TryMatchPolicy(c)
    <3>1. c \in Transfer /\ c.to \in Address /\ c.amount \in Nat
          /\ policies[c.to] \in Policy
      BY <2>2, ConstantsAssumption DEF TryMatchPolicy, HasPolicy, Context, Transfer
    <3>2. [policies[c.to] EXCEPT !.last_charge_at = now] \in Policy
      BY <3>1 DEF Policy
    <3>3. policies' \in [Address -> Policy \cup {None}]
      BY <2>2, <3>1, <3>2 DEF TryMatchPolicy
    <3>4. pulled' \in [Address -> History]
      BY <2>2, <3>1, RecordType DEF TryMatchPolicy
    <3>5. entry' \in Entry
      BY <2>1, <2>2, <3>1, StepEntry DEF TryMatchPolicy
    <3> QED BY <2>2, <3>3, <3>4, <3>5 DEF TryMatchPolicy
  <2>3. CASE NoPolicyMatches(c)
    <3>1. entry' \in Entry
      BY <2>1, <2>3, StepEntry DEF NoPolicyMatches
    <3> QED BY <2>3, <3>1 DEF NoPolicyMatches, storage
  <2> QED BY <1>7, <2>2, <2>3
<1>8. CASE AcceptEntry
  BY <1>8 DEF AcceptEntry, storage
<1>9. CASE RejectEntry
  BY <1>9 DEF RejectEntry, Entry, Storage
<1>10. CASE Tick
  BY <1>10, ConstantsAssumption DEF Tick, storage, Time
<1>11. CASE UNCHANGED vars
  BY <1>11 DEF vars
<1> QED
  BY <1>1, <1>2, <1>3, <1>4, <1>5, <1>6, <1>7, <1>8, <1>9, <1>10, <1>11
     DEF Next, BeginAgent, BeginPasskey
---------------------------------------------------------------------------
(* The invariant: initially, then one lemma for each kind of step.         *)

LEMMA InitType == Init => TypeOK
<1> SUFFICES ASSUME Init PROVE TypeOK
  OBVIOUS
<1>1. NoHistory \in History
  BY DEF NoHistory, History
<1> QED BY <1>1 DEF Init, TypeOK

LEMMA InitInv == Init => IInv
<1> SUFFICES ASSUME Init PROVE IInv
  OBVIOUS
<1>1. TypeOK
  BY InitType
<1>2. HistoryInv(now, NoHistory)
  BY NoHistoryInv DEF Init
<1>3. SessionsInv(now, sessions, outflow)
  BY <1>2 DEF Init, SessionsInv
<1>4. PoliciesInv(now, policies, pulled)
  BY <1>2 DEF Init, PoliciesInv
<1>5. entry = None
  BY DEF Init
<1> QED BY <1>1, <1>3, <1>4, <1>5 DEF IInv, EntryInv, GrantsAreBounded, CredentialSeparation

(* Outside an entry only the two stores matter.                            *)
LEMMA IdleInv ==
  ASSUME TypeOK', entry' = None,
         SessionsInv(now', sessions', outflow'), PoliciesInv(now', policies', pulled')
  PROVE  IInv'
BY DEF IInv, EntryInv, GrantsAreBounded, CredentialSeparation

LEMMA InstallPolicyInv ==
  ASSUME IInv, TypeOK',
         NEW m \in Merchant, NEW token \in Token, NEW amount \in Amount,
         NEW max \in Amount, NEW interval \in Seconds, NEW expires \in Expiry,
         InstallPolicy(m, token, amount, max, interval, expires)
  PROVE  IInv'
<1> DEFINE p == [token |-> token, max_per_charge |-> max,
                 interval_seconds |-> interval, expires_at |-> expires,
                 last_charge_at |-> 0, revoked |-> FALSE]
<1>1. /\ InstallablePolicy(m, amount, p) /\ entry' = None /\ m \in Address
      /\ policies' = [policies EXCEPT ![m] = p]
      /\ pulled' = [pulled EXCEPT ![m] = NoHistory]
      /\ now' = now /\ sessions' = sessions /\ outflow' = outflow
  BY ConstantsAssumption DEF InstallPolicy
<1>2. p \in Policy /\ p.last_charge_at = 0 /\ amount \in Nat /\ now \in Time \ {0}
  <2>1. now \in Time \ {0}
    BY DEF IInv, TypeOK
  <2>2. 0 \in Time
    BY ConstantsAssumption DEF Time
  <2> QED BY <2>1, <2>2, ConstantsAssumption DEF Policy
<1>3. PolicyInv(now, m, p, NoHistory) /\ HistoryInv(now, NoHistory)
  <2> HIDE DEF p
  <2> QED BY <1>1, <1>2, PolicyStart, NoHistoryInv
<1>4. PoliciesInv(now', policies', pulled')
  <2> HIDE DEF p
  <2> QED BY <1>1, <1>3 DEF PoliciesInv, IInv, TypeOK
<1>5. SessionsInv(now', sessions', outflow')
  BY <1>1 DEF IInv
<1> QED BY <1>1, <1>4, <1>5, IdleInv

LEMMA RevokePolicyInv ==
  ASSUME IInv, TypeOK', NEW m \in Merchant, RevokePolicy(m)
  PROVE  IInv'
<1> DEFINE p == [policies[m] EXCEPT !.revoked = TRUE]
<1>1. /\ policies' = [policies EXCEPT ![m] = p] /\ policies[m] \in Policy
      /\ entry' = None /\ m \in Address /\ now' = now
      /\ sessions' = sessions /\ outflow' = outflow /\ pulled' = pulled
  BY ConstantsAssumption DEF RevokePolicy, IInv, TypeOK
<1>2. /\ p.last_charge_at = policies[m].last_charge_at
      /\ p.interval_seconds = policies[m].interval_seconds
      /\ p.max_per_charge = policies[m].max_per_charge
  BY <1>1 DEF Policy
<1>3. PolicyInv(now, m, policies[m], pulled[m])
  BY <1>1, NoneAssumption DEF IInv, PoliciesInv
<1>4. PolicyInv(now, m, p, pulled[m])
  <2> HIDE DEF p
  <2> QED BY <1>2, <1>3 DEF PolicyInv
<1>5. PoliciesInv(now', policies', pulled')
  <2> HIDE DEF p
  <2> QED BY <1>1, <1>4 DEF PoliciesInv, IInv, TypeOK
<1> QED BY <1>1, <1>5, IdleInv DEF IInv

LEMMA InstallAgentSessionInv ==
  ASSUME IInv, TypeOK',
         NEW k \in Agent, NEW token \in Token, NEW cap \in Amount,
         NEW wcap \in Amount, NEW window \in Seconds, NEW expires \in Expiry,
         NEW allow \in SUBSET Address,
         InstallAgentSession(k, token, cap, window, wcap, expires, allow)
  PROVE  IInv'
<1> DEFINE s == [token |-> token, per_tx_cap |-> cap, window_seconds |-> window,
                 window_cap |-> wcap, epoch_start |-> now, cur_spent |-> 0,
                 prev_spent |-> 0, expires_at |-> expires, revoked |-> FALSE,
                 allow_recipients |-> allow,
                 window_cap_multiplier |-> PROVED_WINDOW_MULTIPLIER]
<1>1. /\ InstallableSession(s) /\ sessions[k] = None /\ entry' = None
      /\ sessions' = [sessions EXCEPT ![k] = s]
      /\ now' = now /\ policies' = policies /\ outflow' = outflow /\ pulled' = pulled
  BY DEF InstallAgentSession
<1>2. s \in Session
  <2>1. sessions'[k] = s /\ sessions'[k] \in Session \cup {None}
    BY <1>1 DEF IInv, TypeOK
  <2>2. window \in Nat \ {0}
    BY <1>1, ConstantsAssumption DEF InstallableSession
  <2> QED BY <2>2, ConstantsAssumption DEF Session, IInv, TypeOK
<1>3. SessionInv(now, s, NoHistory)
  <2>1. /\ s.window_cap_multiplier = PROVED_WINDOW_MULTIPLIER
        /\ s.epoch_start = now /\ s.cur_spent = 0 /\ now \in Time \ {0}
    BY DEF IInv, TypeOK
  <2> HIDE DEF s
  <2> QED BY <1>1, <1>2, <2>1, SessionStart
<1>4. outflow[k] = NoHistory
  BY <1>1 DEF IInv, SessionsInv
<1>5. SessionsInv(now', sessions', outflow')
  <2> HIDE DEF s
  <2> QED BY <1>1, <1>2, <1>3, <1>4, NoneAssumption DEF SessionsInv, IInv, TypeOK
<1> QED BY <1>1, <1>5, IdleInv DEF IInv

LEMMA RevokeAgentSessionInv ==
  ASSUME IInv, TypeOK', NEW k \in Agent, RevokeAgentSession(k)
  PROVE  IInv'
<1> DEFINE s == [sessions[k] EXCEPT !.revoked = TRUE]
<1>1. /\ sessions' = [sessions EXCEPT ![k] = s] /\ sessions[k] \in Session
      /\ entry' = None /\ now' = now
      /\ policies' = policies /\ outflow' = outflow /\ pulled' = pulled
  BY DEF RevokeAgentSession, IInv, TypeOK
<1>2. /\ s.window_cap_multiplier = sessions[k].window_cap_multiplier
      /\ s.per_tx_cap = sessions[k].per_tx_cap
      /\ s.allow_recipients = sessions[k].allow_recipients
      /\ s.epoch_start = sessions[k].epoch_start
      /\ s.cur_spent = sessions[k].cur_spent
      /\ s.window_cap = sessions[k].window_cap
      /\ s.window_seconds = sessions[k].window_seconds
      /\ s \in Session
  BY <1>1 DEF Session
<1>3. SessionInv(now, sessions[k], outflow[k])
  BY <1>1, NoneAssumption DEF IInv, SessionsInv
<1>4. SessionInv(now, s, outflow[k])
  <2> HIDE DEF s
  <2> QED BY <1>2, <1>3 DEF SessionInv, RateInv
<1>5. SessionsInv(now', sessions', outflow')
  <2> HIDE DEF s
  <2> QED BY <1>1, <1>2, <1>4, NoneAssumption DEF SessionsInv, IInv, TypeOK
<1> QED BY <1>1, <1>5, IdleInv DEF IInv
LEMMA BeginInv ==
  ASSUME IInv, TypeOK', NEW signer \in Agent \cup {Passkey}, NEW signed \in BOOLEAN,
         Begin(signer, signed)
  PROVE  IInv'
<1>1. /\ now' = now /\ policies' = policies /\ sessions' = sessions
      /\ outflow' = outflow /\ pulled' = pulled
      /\ entry'.saved.policies = policies /\ entry'.saved.sessions = sessions
      /\ entry'.saved.outflow = outflow /\ entry'.saved.pulled = pulled
      /\ entry'.covered = {}
  BY DEF Begin, storage
<1>2. SessionsInv(now, sessions, outflow) /\ PoliciesInv(now, policies, pulled)
  BY DEF IInv
<1>3. EntryInv'
  BY <1>1, <1>2 DEF EntryInv
<1>4. GrantsAreBounded' /\ CredentialSeparation'
  BY <1>1 DEF GrantsAreBounded, CredentialSeparation
<1> QED BY <1>1, <1>2, <1>3, <1>4 DEF IInv

LEMMA AgentContextInv ==
  ASSUME IInv, TypeOK', NEW c \in Context, TryAuthorizeAgentContext(c)
  PROVE  IInv'
<1> DEFINE k == entry.signer
           s == sessions[k]
           r == Rolled(s)
           s2 == [r EXCEPT !.cur_spent = @ + c.amount]
           h2 == Record(outflow[k], c.amount)
<1>1. /\ entry # None /\ k \in Agent /\ AuthorizesTransfer(s, c)
      /\ sessions' = [sessions EXCEPT ![k] = s2]
      /\ outflow' = [outflow EXCEPT ![k] = h2]
      /\ now' = now /\ policies' = policies /\ pulled' = pulled
      /\ s # None
      /\ Step(entry.covered \cup {c}, entry.all_matched)
  BY DEF TryAuthorizeAgentContext
<1>2. /\ s \in Session /\ outflow[k] \in History /\ now \in Time \ {0}
      /\ sessions \in [Agent -> Session \cup {None}]
      /\ outflow \in [Agent -> History]
  BY <1>1 DEF IInv, TypeOK
<1>3. c \in Transfer /\ c.amount \in Nat
  BY ConstantsAssumption DEF TryAuthorizeAgentContext, Context, Transfer
<1>4. HistoryInv(now, outflow[k]) /\ SessionInv(now, s, outflow[k])
  BY <1>1 DEF IInv, SessionsInv
<1>5. /\ r \in Session /\ SessionInv(now, r, outflow[k])
      /\ now - r.epoch_start < r.window_seconds /\ r.revoked = s.revoked
  BY <1>2, <1>4, RolledSession
<1>6. WithinBudget(r, c.amount) /\ ~s.revoked
  BY <1>1 DEF AuthorizesTransfer
<1>7. s2 \in Session /\ SessionInv(now, s2, h2) /\ s2.revoked = r.revoked
  <2> HIDE DEF r
  <2> QED BY <1>2, <1>3, <1>4, <1>5, <1>6, SessionCharge
<1>8. HistoryInv(now, h2)
  BY <1>2, <1>3, <1>4, RecordHistory
<1>9. SessionsInv(now', sessions', outflow')
  <2> HIDE DEF s2, h2, k
  <2>1. ASSUME NEW j \in Agent
        PROVE  /\ HistoryInv(now, outflow'[j])
               /\ sessions'[j] = None => outflow'[j] = NoHistory
               /\ sessions'[j] # None => SessionInv(now, sessions'[j], outflow'[j])
    <3>1. CASE j = k
      BY <3>1, <1>1, <1>2, <1>7, <1>8, NoneAssumption
    <3>2. CASE j # k
      BY <3>2, <1>1, <1>2 DEF IInv, SessionsInv
    <3> QED BY <3>1, <3>2
  <2> QED BY <2>1, <1>1 DEF SessionsInv
<1>10. /\ entry' # None /\ entry'.saved = entry.saved /\ entry'.signer = k
       /\ entry'.covered = entry.covered \cup {c}
  <2>1. entry \in Entry /\ entry.covered \cup {c} \in SUBSET Transfer
        /\ entry.all_matched \in BOOLEAN
    BY <1>1, <1>3 DEF IInv, TypeOK, Entry
  <2> QED BY <2>1, <1>1, StepEntry
<1>11. EntryInv'
  <2>1. ASSUME NEW j \in Agent, sessions'[j] # None, sessions'[j].revoked
        PROVE  entry.saved.sessions[j] = sessions'[j] /\ entry.saved.outflow[j] = outflow'[j]
    <3>1. j # k
      <4> HIDE DEF s2, r
      <4> QED BY <2>1, <1>1, <1>2, <1>5, <1>6, <1>7
    <3>2. sessions'[j] = sessions[j] /\ outflow'[j] = outflow[j]
      BY <3>1, <1>1, <1>2
    <3> QED BY <3>2, <2>1, <1>1 DEF IInv, EntryInv
  <2> QED BY <2>1, <1>1, <1>10 DEF IInv, EntryInv
<1>12. GrantsAreBounded'
  <2>1. c.amount <= MaxAbsolute /\ c.to \notin {Admin, Self}
    BY <1>1, <1>2, <1>3, <1>4, ConstantsAssumption DEF AuthorizesTransfer, SessionInv, Session
  <2> QED BY <2>1, <1>1, <1>10 DEF IInv, GrantsAreBounded
<1>13. CredentialSeparation'
  BY <1>1, <1>10 DEF IInv, CredentialSeparation
<1> QED BY <1>1, <1>9, <1>11, <1>12, <1>13 DEF IInv

LEMMA MatchPolicyInv ==
  ASSUME IInv, TypeOK', NEW c \in Context, TryMatchPolicy(c)
  PROVE  IInv'
<1> DEFINE m == c.to
           p == policies[m]
           p2 == [p EXCEPT !.last_charge_at = now]
           h2 == Record(pulled[m], c.amount)
<1>1. /\ entry # None /\ entry.signer = Passkey /\ HasPolicy(c) /\ Matches(p, c)
      /\ policies' = [policies EXCEPT ![m] = p2]
      /\ pulled' = [pulled EXCEPT ![m] = h2]
      /\ now' = now /\ sessions' = sessions /\ outflow' = outflow
      /\ Step(entry.covered \cup {c}, entry.all_matched)
  BY DEF TryMatchPolicy
<1>2. c \in Transfer /\ c.amount \in Nat /\ m \in Address
  BY <1>1, ConstantsAssumption DEF HasPolicy, Context, Transfer
<1>3. /\ p \in Policy /\ p # None /\ pulled[m] \in History /\ now \in Time \ {0}
      /\ policies \in [Address -> Policy \cup {None}]
      /\ pulled \in [Address -> History]
  BY <1>1, <1>2 DEF IInv, TypeOK, HasPolicy
<1>4. HistoryInv(now, pulled[m]) /\ PolicyInv(now, m, p, pulled[m])
  BY <1>2, <1>3 DEF IInv, PoliciesInv
<1>5. p2 \in Policy /\ PolicyInv(now, m, p2, h2)
  <2>1. /\ c.amount <= p.max_per_charge
        /\ p.last_charge_at = 0 \/ now >= p.last_charge_at + p.interval_seconds
    BY <1>1 DEF Matches
  <2> HIDE DEF p, m
  <2> QED BY <1>2, <1>3, <1>4, <2>1, PolicyCharge
<1>6. HistoryInv(now, h2)
  BY <1>2, <1>3, <1>4, RecordHistory
<1>7. PoliciesInv(now', policies', pulled')
  <2> HIDE DEF p2, h2, m
  <2>1. ASSUME NEW j \in Address
        PROVE  /\ HistoryInv(now, pulled'[j])
               /\ policies'[j] # None => PolicyInv(now, j, policies'[j], pulled'[j])
    <3>1. CASE j = m
      BY <3>1, <1>1, <1>2, <1>3, <1>5, <1>6
    <3>2. CASE j # m
      BY <3>2, <1>1, <1>3 DEF IInv, PoliciesInv
    <3> QED BY <3>1, <3>2
  <2> QED BY <2>1, <1>1 DEF PoliciesInv
<1>8. /\ entry' # None /\ entry'.saved = entry.saved /\ entry'.signer = Passkey
      /\ entry'.covered = entry.covered \cup {c}
  <2>1. entry \in Entry /\ entry.covered \cup {c} \in SUBSET Transfer
        /\ entry.all_matched \in BOOLEAN
    BY <1>1, <1>2 DEF IInv, TypeOK, Entry
  <2> QED BY <2>1, <1>1, StepEntry
<1>9. EntryInv'
  BY <1>1, <1>8 DEF IInv, EntryInv
<1>10. GrantsAreBounded'
  <2>1. c.amount <= MaxAbsolute /\ c.to \notin {Admin, Self}
    BY <1>1, <1>2, <1>3, <1>4, ConstantsAssumption DEF Matches, PolicyInv, Policy
  <2> QED BY <2>1, <1>1, <1>8 DEF IInv, GrantsAreBounded
<1>11. CredentialSeparation'
  BY <1>1, <1>8, ConstantsAssumption DEF IInv, CredentialSeparation
<1> QED BY <1>1, <1>7, <1>9, <1>10, <1>11 DEF IInv

LEMMA NoPolicyMatchesInv ==
  ASSUME IInv, TypeOK', NEW c \in Context, NoPolicyMatches(c)
  PROVE  IInv'
<1>1. /\ entry # None /\ Step(entry.covered, FALSE) /\ now' = now
      /\ policies' = policies /\ sessions' = sessions
      /\ outflow' = outflow /\ pulled' = pulled
  BY DEF NoPolicyMatches, storage
<1>2. /\ entry' # None /\ entry'.saved = entry.saved
      /\ entry'.signer = entry.signer /\ entry'.covered = entry.covered
  <2>1. entry \in Entry /\ entry.covered \in SUBSET Transfer
    BY <1>1 DEF IInv, TypeOK, Entry
  <2> QED BY <2>1, <1>1, StepEntry
<1>3. EntryInv'
  BY <1>1, <1>2 DEF IInv, EntryInv
<1>4. GrantsAreBounded' /\ CredentialSeparation'
  BY <1>1, <1>2 DEF IInv, GrantsAreBounded, CredentialSeparation
<1> QED BY <1>1, <1>3, <1>4 DEF IInv

(* Time passing does not change what any interval saw.                     *)
LEMMA TickInv ==
  ASSUME IInv, TypeOK', Tick
  PROVE  IInv'
<1>1. /\ now \in Time /\ now' \in Time /\ now' > now /\ now \in Nat /\ now' \in Nat
      /\ entry' = None
      /\ policies' = policies /\ sessions' = sessions
      /\ outflow' = outflow /\ pulled' = pulled
  BY ConstantsAssumption DEF Tick, storage, IInv, TypeOK, Time
<1>2. ASSUME NEW h \in History, HistoryInv(now, h)
      PROVE  HistoryInv(now', h) /\ h[now'] = h[now]
  BY <1>1, <1>2, ConstantsAssumption DEF HistoryInv, Time
<1>3. SessionsInv(now', sessions', outflow')
  <2> SUFFICES ASSUME NEW k \in Agent
               PROVE  /\ HistoryInv(now', outflow[k])
                      /\ sessions[k] = None => outflow[k] = NoHistory
                      /\ sessions[k] # None => SessionInv(now', sessions[k], outflow[k])
    BY <1>1 DEF SessionsInv
  <2>1. /\ HistoryInv(now, outflow[k]) /\ outflow[k] \in History
        /\ sessions[k] = None => outflow[k] = NoHistory
        /\ sessions[k] # None => SessionInv(now, sessions[k], outflow[k])
    BY DEF IInv, SessionsInv, TypeOK
  <2>2. ASSUME sessions[k] # None
        PROVE  SessionInv(now', sessions[k], outflow[k])
    <3>1. sessions[k].epoch_start \in Nat
      BY <2>2, ConstantsAssumption DEF IInv, TypeOK, Session, Time
    <3> QED BY <2>1, <2>2, <3>1, <1>1, <1>2 DEF SessionInv
  <2> QED BY <2>1, <2>2, <1>2
<1>4. PoliciesInv(now', policies', pulled')
  <2> SUFFICES ASSUME NEW m \in Address
               PROVE  /\ HistoryInv(now', pulled[m])
                      /\ policies[m] # None => PolicyInv(now', m, policies[m], pulled[m])
    BY <1>1 DEF PoliciesInv
  <2>1. /\ HistoryInv(now, pulled[m]) /\ pulled[m] \in History
        /\ policies[m] # None => PolicyInv(now, m, policies[m], pulled[m])
    BY DEF IInv, PoliciesInv, TypeOK
  <2>2. ASSUME policies[m] # None
        PROVE  PolicyInv(now', m, policies[m], pulled[m])
    <3>1. policies[m].last_charge_at \in Nat
      BY <2>2, ConstantsAssumption DEF IInv, TypeOK, Policy, Time
    <3>2. pulled[m][now'] = pulled[m][now]
      BY <2>1, <1>2
    <3>3. PolicyInv(now, m, policies[m], pulled[m])
      BY <2>1, <2>2
    <3> QED BY <3>1, <3>2, <3>3, <1>1 DEF PolicyInv
  <2> QED BY <2>1, <2>2, <1>2
<1> QED BY <1>1, <1>3, <1>4, IdleInv

LEMMA NextInv == IInv /\ [Next]_vars => IInv'
<1> SUFFICES ASSUME IInv, [Next]_vars PROVE IInv'
  OBVIOUS
<1>1. TypeOK'
  BY NextType DEF IInv
<1>2. CASE AcceptEntry
  BY <1>1, <1>2, IdleInv DEF AcceptEntry, storage, IInv
<1>3. CASE RejectEntry
  <2>1. /\ entry # None /\ now' = now /\ entry' = None
        /\ policies' = entry.saved.policies /\ pulled' = entry.saved.pulled
        /\ sessions' = entry.saved.sessions /\ outflow' = entry.saved.outflow
    BY <1>3 DEF RejectEntry
  <2>2. SessionsInv(now', sessions', outflow') /\ PoliciesInv(now', policies', pulled')
    BY <2>1 DEF IInv, EntryInv
  <2> QED BY <1>1, <2>1, <2>2, IdleInv
<1>4. CASE UNCHANGED vars
  BY <1>4 DEF vars, IInv, TypeOK, EntryInv, GrantsAreBounded, CredentialSeparation
<1> QED
  BY <1>1, <1>2, <1>3, <1>4, InstallPolicyInv, RevokePolicyInv, InstallAgentSessionInv,
     RevokeAgentSessionInv, BeginInv, AgentContextInv, MatchPolicyInv,
     NoPolicyMatchesInv, TickInv
     DEF Next, BeginAgent, BeginPasskey
---------------------------------------------------------------------------
(* The theorems.                                                           *)

\* Every variable keeps its type, in every behaviour of the wallet.
THEOREM TypeCorrect == Spec => []TypeOK
<1>1. Init => TypeOK
  BY InitType
<1>2. TypeOK /\ [Next]_vars => TypeOK'
  BY NextType
<1> QED BY <1>1, <1>2, PTL DEF Spec

\* The conjunction the other theorems rest on is inductive.
THEOREM Invariant == Spec => []IInv
<1>1. Init => IInv
  BY InitInv
<1>2. IInv /\ [Next]_vars => IInv'
  BY NextInv
<1> QED BY <1>1, <1>2, PTL DEF Spec

\* try_authorize_agent_transfer: no real interval of window_seconds sees more
\* than PROVED_WINDOW_MULTIPLIER * window_cap authorized under one session
\* key, for every window, cap, multiplier (2 or more) and schedule of calls.
THEOREM WindowBoundHolds == Spec => []WindowBound
<1>1. IInv => WindowBound
  <2> SUFFICES ASSUME IInv, NEW k \in Agent, sessions[k] # None,
                      NEW t \in Time \ {0}, NEW u \in Time \ {0},
                      t <= u, u - t < sessions[k].window_seconds
               PROVE  Between(outflow[k], t, u)
                        <= PROVED_WINDOW_MULTIPLIER * sessions[k].window_cap
    BY DEF WindowBound
  <2>1. Between(outflow[k], t, u) <= 2 * sessions[k].window_cap
    BY DEF IInv, SessionsInv, SessionInv
  <2>2. sessions[k].window_cap \in Nat /\ PROVED_WINDOW_MULTIPLIER \in Nat
        /\ PROVED_WINDOW_MULTIPLIER >= 2
    BY ConstantsAssumption DEF IInv, TypeOK, Session
  <2>3. 2 * sessions[k].window_cap <= PROVED_WINDOW_MULTIPLIER * sessions[k].window_cap
    BY <2>2
  <2>4. Between(outflow[k], t, u) \in Int
    <3>1. t - 1 \in Time /\ outflow[k] \in History
      BY ConstantsAssumption DEF IInv, TypeOK, Time
    <3> QED BY <3>1 DEF Between, History
  <2>5. 2 * sessions[k].window_cap \in Int
        /\ PROVED_WINDOW_MULTIPLIER * sessions[k].window_cap \in Int
    BY <2>2
  <2> QED BY <2>1, <2>3, <2>4, <2>5
<1> QED BY <1>1, Invariant, PTL

\* Over u - t seconds a session key is authorized at most one window_cap for
\* each window begun after the first second, and two more.
THEOREM SustainedRateHolds == Spec => []SustainedRate
<1>1. IInv => SustainedRate
  <2> SUFFICES ASSUME IInv, NEW k \in Agent, sessions[k] # None,
                      NEW t \in Time \ {0}, NEW u \in Time \ {0}, t < u
               PROVE  Between(outflow[k], t, u)
                        <= (2 + ((u - t - 1) \div sessions[k].window_seconds))
                             * sessions[k].window_cap
    BY DEF SustainedRate
  <2> DEFINE w == sessions[k].window_seconds
             n == (u - t - 1) \div w
  <2>1. w \in Nat \ {0} /\ sessions[k].window_cap \in Nat
    BY DEF IInv, TypeOK, Session
  <2>2. t \in Nat /\ u \in Nat /\ u - t - 1 \in Nat /\ u - t - 1 \in Time
    BY ConstantsAssumption DEF Time
  <2>3. n \in Time /\ u - t - 1 < (n + 1) * w
    <3> DEFINE d == u - t - 1
    <3>1. d \in Nat /\ d \in 0..MaxTime
      BY <2>2 DEF Time
    <3> HIDE DEF d, w
    <3>2. (d \div w) \in Nat
      BY <2>1, <3>1
    <3>3. d = (d \div w) * w + (d % w) /\ d % w \in 0..(w - 1)
      BY <2>1, <3>1
    <3>4. d < ((d \div w) + 1) * w
      BY <2>1, <3>1, <3>2, <3>3
    <3>5. (d \div w) <= d
      BY <2>1, <3>1, <3>2, <3>3
    <3> QED BY <3>1, <3>2, <3>4, <3>5, ConstantsAssumption DEF d, Time
  <2>4. n \in Nat /\ (n + 1) * w \in Nat
    BY <2>1, <2>3, ConstantsAssumption DEF Time
  <2> HIDE DEF n
  <2>5. u - t <= (n + 1) * w
    BY <2>2, <2>3, <2>4
  <2>6. Between(outflow[k], t, u) <= (n + 2) * sessions[k].window_cap
    BY <2>3, <2>5 DEF IInv, SessionsInv, SessionInv, RateInv
  <2>7. n + 2 = 2 + n
    BY <2>4
  <2> QED BY <2>6, <2>7 DEF n
<1> QED BY <1>1, Invariant, PTL

\* try_match_policy: within one installation, no interval shorter than
\* interval_seconds sees more than max_per_charge pulled.
THEOREM PullBoundHolds == Spec => []PullBound
<1>1. IInv => PullBound
  BY DEF IInv, PoliciesInv, PolicyInv, PullBound
<1> QED BY <1>1, Invariant, PTL

\* What a stored grant authorizes stays under max_absolute_per_charge and
\* never pays the admin or the wallet.
THEOREM GrantsAreBoundedHolds == Spec => []GrantsAreBounded
<1>1. IInv => GrantsAreBounded
  BY DEF IInv
<1> QED BY <1>1, Invariant, PTL

\* An agent entry never moves a policy and a passkey entry never a session.
THEOREM CredentialSeparationHolds == Spec => []CredentialSeparation
<1>1. IInv => CredentialSeparation
  BY DEF IInv
<1> QED BY <1>1, Invariant, PTL
\* revoke_agent_session is for ever: install_agent_session refuses the key,
\* and no entry, accepted or rolled back, moves the session or its history.
THEOREM RevokedIsFinalHolds == Spec => RevokedIsFinal
<1> DEFINE Final == \A k \in Agent : sessions[k] # None /\ sessions[k].revoked =>
                      sessions'[k] = sessions[k] /\ outflow'[k] = outflow[k]
<1>1. IInv /\ [Next]_vars => [Final]_vars
  <2> SUFFICES ASSUME IInv, Next, NEW j \in Agent, sessions[j] # None, sessions[j].revoked
               PROVE  sessions'[j] = sessions[j] /\ outflow'[j] = outflow[j]
    OBVIOUS
  <2>1. TypeOK
    BY DEF IInv
  <2>2. ASSUME NEW k \in Agent, NEW token \in Token, NEW cap \in Amount,
               NEW wcap \in Amount, NEW window \in Seconds, NEW expires \in Expiry,
               NEW allow \in SUBSET Address,
               InstallAgentSession(k, token, cap, window, wcap, expires, allow)
        PROVE  sessions'[j] = sessions[j] /\ outflow'[j] = outflow[j]
    BY <2>1, <2>2 DEF InstallAgentSession, TypeOK
  <2>3. ASSUME NEW k \in Agent, RevokeAgentSession(k)
        PROVE  sessions'[j] = sessions[j] /\ outflow'[j] = outflow[j]
    <3>1. j = k => sessions[j] \in Session
      BY <2>1 DEF TypeOK
    <3>2. j = k => [sessions[j] EXCEPT !.revoked = TRUE] = sessions[j]
      BY <3>1 DEF Session
    <3> QED BY <2>1, <2>3, <3>2 DEF RevokeAgentSession, TypeOK
  <2>4. ASSUME NEW c \in Context, TryAuthorizeAgentContext(c)
        PROVE  sessions'[j] = sessions[j] /\ outflow'[j] = outflow[j]
    <3>1. j # entry.signer
      BY <2>4 DEF TryAuthorizeAgentContext, AuthorizesTransfer
    <3> QED BY <2>1, <2>4, <3>1 DEF TryAuthorizeAgentContext, TypeOK
  <2>5. CASE RejectEntry
    BY <2>5 DEF RejectEntry, IInv, EntryInv
  <2> QED
    BY <2>2, <2>3, <2>4, <2>5
       DEF Next, storage, InstallPolicy, RevokePolicy, Begin, BeginAgent, BeginPasskey,
           TryMatchPolicy, NoPolicyMatches, AcceptEntry, Tick
<1> QED BY <1>1, Invariant, PTL DEF Spec, RevokedIsFinal

\* Each step of a passkey entry that covers a transfer charges a policy that was
\* not charged at this time before.
LEMMA NextPulls == IInv /\ PullsInv /\ [Next]_vars => PullsInv'
<1> SUFFICES ASSUME IInv, PullsInv, [Next]_vars, (entry # None /\ entry.signer = Passkey)'
             PROVE  /\ \A m \in {c.to : c \in entry'.covered} :
                         policies'[m] # None /\ policies'[m].last_charge_at = now'
                    /\ entry'.all_matched =>
                         /\ IsFiniteSet({c.to : c \in entry'.covered})
                         /\ Cardinality({c.to : c \in entry'.covered}) = entry'.count
  BY DEF PullsInv
<1> DEFINE Paid(e) == {c.to : c \in e.covered}
<1>1. TypeOK /\ PoliciesInv(now, policies, pulled)
  BY DEF IInv
<1>2. CASE UNCHANGED vars
  BY <1>2 DEF vars, PullsInv
<1>3. ASSUME NEW signer, NEW signed, Begin(signer, signed)
      PROVE  Paid(entry') = {} /\ entry'.count = 0
  BY <1>3 DEF Begin
<1>4. ASSUME NEW signer, NEW signed, Begin(signer, signed)
      PROVE  /\ \A m \in Paid(entry') : policies'[m] # None /\ policies'[m].last_charge_at = now'
             /\ IsFiniteSet(Paid(entry')) /\ Cardinality(Paid(entry')) = entry'.count
  BY <1>3, <1>4, FS_EmptySet
<1>5. ASSUME NEW c \in Context, TryAuthorizeAgentContext(c)
      PROVE  FALSE
  <2>1. entry # None /\ entry.signer \in Agent /\ entry'.signer = entry.signer
    BY <1>1, <1>5 DEF TryAuthorizeAgentContext, Step, TypeOK, Entry
  <2> QED BY <2>1, ConstantsAssumption
<1>6. ASSUME NEW c \in Context, TryMatchPolicy(c)
      PROVE  /\ \A m \in Paid(entry') : policies'[m] # None /\ policies'[m].last_charge_at = now'
             /\ entry'.all_matched =>
                  IsFiniteSet(Paid(entry')) /\ Cardinality(Paid(entry')) = entry'.count
  <2>1. /\ entry \in Entry /\ entry.signer = Passkey /\ c \in Transfer /\ policies[c.to] # None
        /\ Matches(policies[c.to], c) /\ now' = now
    BY <1>1, <1>6 DEF TryMatchPolicy, HasPolicy, TypeOK, Context
  <2>2. c.to \in Address /\ policies[c.to] \in Policy /\ now \in Nat \ {0}
    BY <2>1, <1>1, ConstantsAssumption DEF Transfer, TypeOK, Time
  <2>3. /\ entry'.covered = entry.covered \cup {c} /\ entry'.count = entry.count + 1
        /\ entry'.all_matched = entry.all_matched
    BY <2>1, <1>6 DEF TryMatchPolicy, Step, Entry
  <2>4. Paid(entry') = Paid(entry) \cup {c.to}
    BY <2>3
  <2>5. policies[c.to].last_charge_at # now
    <3>1. policies[c.to].interval_seconds > 0 /\ policies[c.to].interval_seconds \in Nat
      BY <2>1, <2>2, <1>1 DEF PoliciesInv, PolicyInv, Policy
    <3> QED BY <3>1, <2>1, <2>2 DEF Matches
  <2>6. c.to \notin Paid(entry)
    BY <2>5, <2>1, NoneAssumption DEF PullsInv
  <2>7. Paid(entry) \subseteq Address
    BY <2>1 DEF Entry, Transfer
  <2>8. /\ \A m \in Address \ {c.to} : policies'[m] = policies[m]
        /\ policies'[c.to] \in Policy /\ policies'[c.to].last_charge_at = now
    BY <2>2, <1>1, <1>6 DEF TryMatchPolicy, TypeOK, Policy
  <2>9. \A m \in Paid(entry') : policies'[m] # None /\ policies'[m].last_charge_at = now'
    BY <2>1, <2>4, <2>6, <2>7, <2>8, NoneAssumption DEF PullsInv
  <2>10. ASSUME entry'.all_matched
         PROVE  IsFiniteSet(Paid(entry')) /\ Cardinality(Paid(entry')) = entry'.count
    <3>1. IsFiniteSet(Paid(entry)) /\ Cardinality(Paid(entry)) = entry.count
      BY <2>10, <2>1, <2>3, NoneAssumption DEF PullsInv
    <3> HIDE DEF Paid
    <3>2. /\ IsFiniteSet(Paid(entry) \cup {c.to})
          /\ Cardinality(Paid(entry) \cup {c.to}) = Cardinality(Paid(entry)) + 1
      BY <3>1, <2>6, FS_AddElement
    <3> QED BY <3>1, <3>2, <2>3, <2>4
  <2> QED BY <2>9, <2>10
<1>7. ASSUME NEW c \in Context, NoPolicyMatches(c)
      PROVE  /\ \A m \in Paid(entry') : policies'[m] # None /\ policies'[m].last_charge_at = now'
             /\ ~entry'.all_matched
  <2>1. /\ entry \in Entry /\ entry # None /\ entry.signer = Passkey /\ now' = now
        /\ policies' = policies
    BY <1>1, <1>7 DEF NoPolicyMatches, TypeOK, storage
  <2>2. entry'.covered = entry.covered /\ entry'.all_matched = FALSE
    BY <2>1, <1>7 DEF NoPolicyMatches, Step, Entry
  <2> QED BY <2>1, <2>2 DEF PullsInv
<1> QED
  BY <1>2, <1>4, <1>5, <1>6, <1>7
     DEF Next, InstallPolicy, RevokePolicy, InstallAgentSession, RevokeAgentSession,
         BeginAgent, BeginPasskey, AcceptEntry, RejectEntry, Tick

\* A passkey entry accepted without a signature consists of policy charges,
\* each under a policy of its own, however many contexts it has.
THEOREM UnsignedIsAllPullsHolds == Spec => UnsignedIsAllPulls
<1> DEFINE AllPulls == AcceptEntry /\ entry.signer = Passkey /\ ~entry.signed =>
                         /\ entry.count > 0
                         /\ Cardinality({c.to : c \in entry.covered}) = entry.count
<1>1. Init => PullsInv
  BY DEF Init, PullsInv
<1>2. IInv /\ PullsInv /\ [Next]_vars => [AllPulls]_vars
  <2> SUFFICES ASSUME IInv, PullsInv, AcceptEntry, entry.signer = Passkey, ~entry.signed
               PROVE  /\ entry.count > 0
                      /\ Cardinality({c.to : c \in entry.covered}) = entry.count
    OBVIOUS
  <2>1. entry # None /\ entry.count > 0 /\ entry.all_matched
    BY ConstantsAssumption DEF AcceptEntry
  <2> QED BY <2>1 DEF PullsInv
<1> QED BY <1>1, <1>2, NextPulls, Invariant, PTL DEF Spec, UnsignedIsAllPulls

---------------------------------------------------------------------------
(* The wallet is what the policy compiler proves its bounds about: the     *)
(* model in axl-compiler/src/smt.rs, translated apart from the contract's  *)
(* code, with every natural number for the solver's integers.              *)

Certified ==
  INSTANCE SlidingWindow WITH Quantity <- Nat, Window <- Nat, Elapsed <- Nat

\* The charge of an amount on a session, as the compiler's query.
ChargeQuery(s, amount) ==
  [cap |-> s.window_cap, per_tx |-> s.per_tx_cap, window |-> s.window_seconds,
   elapsed |-> now - s.epoch_start, amount |-> amount,
   prev |-> s.prev_spent, cur |-> s.cur_spent]

\* Sessions keep what they were installed with, and each of the two epochs
\* holds a window's worth at most.
Installed(ss) ==
  \A k \in Agent : ss[k] # None =>
    /\ 0 < ss[k].per_tx_cap /\ ss[k].per_tx_cap <= ss[k].window_cap
    /\ ss[k].window_cap <= ss[k].per_tx_cap * MAX_WINDOW_MULTIPLIER
    /\ ss[k].window_seconds >= MinSeconds
    /\ ss[k].prev_spent <= ss[k].window_cap

\* What the certificate says of the wallet: the two epochs of every session
\* hold at most the multiplier times window_cap between them (invariant_K in
\* smt.rs, try_authorize_agent_transfer in the contract).
WindowsCertified ==
  \A k \in Agent : sessions[k] # None =>
    Certified!Within(PROVED_WINDOW_MULTIPLIER, sessions[k].window_cap,
                     sessions[k].prev_spent, sessions[k].cur_spent)

\* The same of the sessions the ledger's rollback would bring back.
InstalledInv ==
  Installed(sessions) /\ (entry # None => Installed(entry.saved.sessions))

LEMMA NextInstalled == IInv /\ InstalledInv /\ [Next]_vars => InstalledInv'
<1> SUFFICES ASSUME IInv, InstalledInv, [Next]_vars PROVE InstalledInv'
  OBVIOUS
<1>1. TypeOK
  BY DEF IInv
<1>2. ASSUME NEW k \in Agent, NEW token \in Token, NEW cap \in Amount,
             NEW wcap \in Amount, NEW window \in Seconds, NEW expires \in Expiry,
             NEW allow \in SUBSET Address,
             InstallAgentSession(k, token, cap, window, wcap, expires, allow)
      PROVE  InstalledInv'
  <2>1. entry' = None /\ InstallableSession(sessions'[k]) /\ sessions'[k].prev_spent = 0
        /\ sessions'[k].window_cap = wcap
        /\ \A j \in Agent \ {k} : sessions'[j] = sessions[j]
    BY <1>1, <1>2 DEF InstallAgentSession, TypeOK
  <2>2. wcap \in Nat
    BY ConstantsAssumption
  <2> QED BY <2>1, <2>2 DEF InstalledInv, Installed, InstallableSession
<1>3. ASSUME NEW k \in Agent, RevokeAgentSession(k) PROVE InstalledInv'
  <2>1. entry' = None /\ sessions' = [sessions EXCEPT ![k].revoked = TRUE]
        /\ sessions[k] \in Session
    BY <1>1, <1>3 DEF RevokeAgentSession, TypeOK
  <2>2. \A j \in Agent \ {k} : sessions'[j] = sessions[j]
    BY <1>1, <2>1 DEF TypeOK
  <2>3. sessions'[k] = [sessions[k] EXCEPT !.revoked = TRUE]
    BY <1>1, <2>1 DEF TypeOK
  <2>4. /\ sessions'[k].per_tx_cap = sessions[k].per_tx_cap
        /\ sessions'[k].window_cap = sessions[k].window_cap
        /\ sessions'[k].window_seconds = sessions[k].window_seconds
        /\ sessions'[k].prev_spent = sessions[k].prev_spent
    BY <2>1, <2>3 DEF Session
  <2> QED BY <2>1, <2>2, <2>4, NoneAssumption DEF InstalledInv, Installed
<1>4. ASSUME NEW c \in Context, TryAuthorizeAgentContext(c) PROVE InstalledInv'
  <2> DEFINE k == entry.signer
             s == sessions[k]
             r == Rolled(s)
  <2>1. k \in Agent /\ entry # None /\ s # None /\ s \in Session /\ entry \in Entry
    BY <1>1, <1>4 DEF TryAuthorizeAgentContext, TypeOK
  <2>2. r \in Session /\ r.per_tx_cap = s.per_tx_cap /\ r.window_cap = s.window_cap
        /\ r.window_seconds = s.window_seconds
        /\ (r.prev_spent = s.prev_spent \/ r.prev_spent = s.cur_spent \/ r.prev_spent = 0)
    BY <1>1, <2>1 DEF Rolled, Session, TypeOK
  <2>3. s.cur_spent <= s.window_cap /\ s.window_cap \in Nat
    BY <2>1 DEF IInv, SessionsInv, SessionInv, Session
  <2>4. sessions'[k] = [r EXCEPT !.cur_spent = r.cur_spent + c.amount]
        /\ \A j \in Agent \ {k} : sessions'[j] = sessions[j]
    BY <1>1, <1>4, <2>1 DEF TryAuthorizeAgentContext, TypeOK
  <2>5. /\ sessions'[k].per_tx_cap = s.per_tx_cap
        /\ sessions'[k].window_cap = s.window_cap
        /\ sessions'[k].window_seconds = s.window_seconds
        /\ sessions'[k].prev_spent = r.prev_spent
    <3> HIDE DEF r
    <3> QED BY <2>2, <2>4 DEF Session
  <2>6. entry'.saved = entry.saved
    BY <1>4, <2>1 DEF TryAuthorizeAgentContext, Step, Entry
  <2>7. Installed(sessions)'
    <3>1. /\ 0 < s.per_tx_cap /\ s.per_tx_cap <= s.window_cap
          /\ s.window_cap <= s.per_tx_cap * MAX_WINDOW_MULTIPLIER
          /\ s.window_seconds >= MinSeconds
          /\ s.prev_spent <= s.window_cap
      BY <2>1, <1>4 DEF InstalledInv, Installed
    <3>2. r.prev_spent <= s.window_cap
      BY <2>2, <2>3, <3>1
    <3>3. \A j \in Agent \ {k} : sessions'[j] = sessions[j]
      BY <2>4
    <3> HIDE DEF r, s, k
    <3> QED BY <2>1, <2>5, <3>1, <3>2, <3>3 DEF InstalledInv, Installed
  <2> QED BY <2>1, <2>6, <2>7 DEF InstalledInv, Installed
<1>5. ASSUME NEW c \in Context, TryMatchPolicy(c) \/ NoPolicyMatches(c)
      PROVE  InstalledInv'
  <2>1. sessions' = sessions /\ entry # None /\ entry \in Entry
    BY <1>1, <1>5 DEF TryMatchPolicy, NoPolicyMatches, storage, TypeOK
  <2>2. entry'.saved = entry.saved
    BY <1>5, <2>1 DEF TryMatchPolicy, NoPolicyMatches, Step, Entry
  <2> QED BY <2>1, <2>2 DEF InstalledInv, Installed
<1>6. ASSUME NEW signer, NEW signed, Begin(signer, signed) PROVE InstalledInv'
  BY <1>6 DEF Begin, storage, InstalledInv, Installed
<1>7. CASE RejectEntry
  BY <1>7 DEF RejectEntry, InstalledInv, Installed
<1>8. CASE AcceptEntry
  BY <1>8 DEF AcceptEntry, storage, InstalledInv, Installed
<1>9. CASE UNCHANGED <<entry, sessions>>
  BY <1>9 DEF InstalledInv, Installed
<1> QED
  BY <1>2, <1>3, <1>4, <1>5, <1>6, <1>7, <1>8, <1>9
     DEF Next, vars, storage, InstallPolicy, RevokePolicy, BeginAgent, BeginPasskey, Tick

LEMMA InstalledHolds == Spec => []InstalledInv
<1>1. Init => InstalledInv
  BY DEF Init, InstalledInv, Installed
<1> QED BY <1>1, NextInstalled, Invariant, PTL DEF Spec

\* try_authorize_agent_transfer charges exactly what the compiler's model
\* accepts, under the multiplier the session is pinned to, and leaves the
\* window as the model does: with the install floors the model assumes (60
\* seconds, 100 charges) the deployed wallet is the certified one.
THEOREM ChargesAreCertified ==
  ASSUME MinSeconds >= 60, MAX_WINDOW_MULTIPLIER <= 100
  PROVE  Spec => [][\A c \in Context : TryAuthorizeAgentContext(c) =>
                      LET s == sessions[entry.signer]
                          r == sessions'[entry.signer]
                          q == ChargeQuery(s, c.amount)
                      IN /\ q \in Certified!Query
                         /\ Certified!Accepts(PROVED_WINDOW_MULTIPLIER, q)
                         /\ r.prev_spent = Certified!Prev1(q)
                         /\ r.cur_spent = Certified!Cur2(q)
                         /\ now - r.epoch_start = Certified!InEpoch(q)]_vars
<1> DEFINE Charge(c) ==
      LET s == sessions[entry.signer]
          r == sessions'[entry.signer]
          q == ChargeQuery(s, c.amount)
      IN /\ q \in Certified!Query
         /\ Certified!Accepts(PROVED_WINDOW_MULTIPLIER, q)
         /\ r.prev_spent = Certified!Prev1(q)
         /\ r.cur_spent = Certified!Cur2(q)
         /\ now - r.epoch_start = Certified!InEpoch(q)
<1>1. ASSUME IInv, InstalledInv, NEW c \in Context, TryAuthorizeAgentContext(c)
      PROVE  Charge(c)
  <2> DEFINE k == entry.signer
             s == sessions[k]
             r == Rolled(s)
             q == ChargeQuery(s, c.amount)
  <2>1. k \in Agent /\ s # None /\ s \in Session /\ c \in Transfer /\ now \in Time
        /\ AuthorizesTransfer(s, c)
    BY <1>1 DEF TryAuthorizeAgentContext, IInv, TypeOK, Context
  <2>2. /\ s.epoch_start <= now /\ s.epoch_start \in Nat /\ now \in Nat
        /\ s.window_cap_multiplier = PROVED_WINDOW_MULTIPLIER
        /\ PROVED_WINDOW_MULTIPLIER \in Nat
    BY <2>1, <1>1, ConstantsAssumption DEF IInv, SessionsInv, SessionInv, Session, Time
  <2>3. /\ s.window_cap \in Nat /\ s.per_tx_cap \in Nat /\ s.window_seconds \in Nat
        /\ s.prev_spent \in Nat /\ s.cur_spent \in Nat /\ c.amount \in Nat
        /\ c.amount > 0 /\ c.amount <= s.per_tx_cap
        /\ WithinBudget(r, c.amount)
    BY <2>1, ConstantsAssumption DEF Session, Transfer, AuthorizesTransfer
  <2>4. /\ 0 < s.per_tx_cap /\ s.per_tx_cap <= s.window_cap
        /\ s.window_cap <= 100 * s.per_tx_cap
        /\ s.window_seconds >= 60
    <3>1. /\ s.window_cap <= s.per_tx_cap * MAX_WINDOW_MULTIPLIER
          /\ s.window_seconds >= MinSeconds
          /\ 0 < s.per_tx_cap /\ s.per_tx_cap <= s.window_cap
      BY <1>1, <2>1 DEF InstalledInv, Installed
    <3>2. MAX_WINDOW_MULTIPLIER \in Nat /\ MinSeconds \in Nat
      BY ConstantsAssumption
    <3>3. ASSUME NEW x \in Nat, NEW n \in Nat, n <= 100 PROVE x * n <= 100 * x
      <4>1. PICK d \in Nat : 100 = n + d
        <5>1. 100 - n \in Nat /\ 100 = n + (100 - n)
          BY <3>3
        <5> QED BY <5>1
      <4>2. x * d \in Nat /\ x * (n + d) = x * n + x * d /\ x * n \in Nat
        OBVIOUS
      <4> QED BY <4>1, <4>2
    <3>4. s.per_tx_cap * MAX_WINDOW_MULTIPLIER <= 100 * s.per_tx_cap
          /\ s.per_tx_cap * MAX_WINDOW_MULTIPLIER \in Nat
      BY <2>3, <3>2, <3>3
    <3>5. ASSUME NEW y \in Nat, s.window_cap <= y, y <= 100 * s.per_tx_cap
          PROVE  s.window_cap <= 100 * s.per_tx_cap
      BY <2>3, <3>5
    <3> QED BY <2>3, <3>1, <3>2, <3>4, <3>5
  <2>5. q \in Certified!Query
    BY <2>2, <2>3, <2>4 DEF ChargeQuery, Certified!Query
  <2>6. /\ r.prev_spent = Certified!Prev1(q) /\ r.cur_spent = Certified!Cur1(q)
        /\ now - r.epoch_start = Certified!InEpoch(q)
        /\ r.window_seconds = q.window /\ r.window_cap = q.cap
        /\ r.window_cap_multiplier = PROVED_WINDOW_MULTIPLIER /\ q.amount = c.amount
        /\ r \in Session
    <3> DEFINE elapsed == now - s.epoch_start
    <3>1. /\ q.elapsed = elapsed /\ q.window = s.window_seconds /\ q.prev = s.prev_spent
          /\ q.cur = s.cur_spent /\ q.cap = s.window_cap /\ q.amount = c.amount
      BY DEF ChargeQuery
    <3> HIDE DEF q
    <3>2. CASE elapsed < s.window_seconds
      <4>1. r = s /\ ~Certified!Rolls(q)
        BY <2>2, <2>3, <3>1, <3>2 DEF Rolled, Certified!Rolls
      <4> HIDE DEF r
      <4> QED BY <2>1, <2>2, <3>1, <4>1
              DEF Certified!Prev1, Certified!Cur1, Certified!InEpoch
    <3>3. CASE elapsed >= s.window_seconds
      <4> DEFINE carried == IF elapsed < 2 * s.window_seconds THEN s.cur_spent ELSE 0
      <4>1. r = [s EXCEPT !.prev_spent = carried, !.cur_spent = 0, !.epoch_start = now]
        BY <2>2, <2>3, <3>3 DEF Rolled
      <4>2. Certified!Rolls(q) /\ Certified!Prev1(q) = carried
        BY <3>1, <3>3 DEF Certified!Rolls, Certified!Prev1
      <4>3. carried \in Nat
        BY <2>3
      <4> HIDE DEF r, carried
      <4>4. /\ r \in Session /\ r.prev_spent = carried /\ r.cur_spent = 0
            /\ r.epoch_start = now /\ r.window_seconds = s.window_seconds
            /\ r.window_cap = s.window_cap
            /\ r.window_cap_multiplier = s.window_cap_multiplier
        BY <2>1, <4>1, <4>3 DEF Session
      <4> QED BY <2>2, <3>1, <4>2, <4>4 DEF Certified!Cur1, Certified!InEpoch
    <3> QED BY <2>2, <2>3, <3>2, <3>3
  <2>7. WeightedPrev(r) = Certified!Weighted(q)
    BY <2>6 DEF WeightedPrev, Certified!Weighted
  <2>8. Certified!Accepts(PROVED_WINDOW_MULTIPLIER, q)
    <3> HIDE DEF r, q
    <3>1. q.cap \in Nat
      BY <2>3 DEF q, ChargeQuery
    <3>2. q.cap * PROVED_WINDOW_MULTIPLIER = PROVED_WINDOW_MULTIPLIER * q.cap
      BY <2>2, <3>1
    <3> QED BY <2>3, <2>6, <2>7, <3>2 DEF WithinBudget, Certified!Accepts
  <2>9. sessions'[k] = [r EXCEPT !.cur_spent = r.cur_spent + c.amount]
    BY <1>1, <2>1 DEF TryAuthorizeAgentContext, IInv, TypeOK
  <2>10. /\ sessions'[k].prev_spent = r.prev_spent
         /\ sessions'[k].cur_spent = r.cur_spent + c.amount
         /\ sessions'[k].epoch_start = r.epoch_start
    <3> HIDE DEF r
    <3> QED BY <2>6, <2>9 DEF Session
  <2>11. sessions'[k].cur_spent = Certified!Cur2(q)
    BY <2>6, <2>10 DEF Certified!Cur2
  <2> HIDE DEF q, r
  <2> QED BY <2>5, <2>6, <2>8, <2>10, <2>11 DEF q
<1>2. IInv /\ InstalledInv => [\A c \in Context : TryAuthorizeAgentContext(c) => Charge(c)]_vars
  BY <1>1
<1> QED BY <1>2, Invariant, InstalledHolds, PTL DEF Spec

\* What the certificate says of a window holds of every session of the
\* wallet: smt.rs's invariant_K, for the multiplier in the certificate.
THEOREM CertifiedWindow == Spec => []WindowsCertified
<1>1. ASSUME IInv, InstalledInv, NEW k \in Agent, sessions[k] # None
      PROVE  Certified!Within(PROVED_WINDOW_MULTIPLIER, sessions[k].window_cap,
                              sessions[k].prev_spent, sessions[k].cur_spent)
  <2> DEFINE s == sessions[k]
  <2>1. /\ s.window_cap \in Nat /\ s.prev_spent \in Nat /\ s.cur_spent \in Nat
        /\ s.cur_spent <= s.window_cap /\ s.prev_spent <= s.window_cap
    BY <1>1 DEF IInv, TypeOK, Session, SessionsInv, SessionInv, InstalledInv, Installed
  <2>2. ASSUME NEW cap \in Nat, NEW n \in Nat, n >= 2 PROVE 2 * cap <= n * cap
    <3>1. PICK d \in Nat : n = d + 2
      <4>1. n - 2 \in Nat /\ n = (n - 2) + 2
        BY <2>2
      <4> QED BY <4>1
    <3>2. d * cap \in Nat /\ (d + 2) * cap = d * cap + 2 * cap
      OBVIOUS
    <3> QED BY <3>1, <3>2
  <2>3. PROVED_WINDOW_MULTIPLIER \in Nat /\ PROVED_WINDOW_MULTIPLIER >= 2
    BY ConstantsAssumption
  <2>4. 2 * s.window_cap <= PROVED_WINDOW_MULTIPLIER * s.window_cap
        /\ PROVED_WINDOW_MULTIPLIER * s.window_cap \in Nat
    <3> DEFINE cap == s.window_cap
    <3>1. cap \in Nat
      BY <2>1
    <3>2. 2 * cap <= PROVED_WINDOW_MULTIPLIER * cap
      BY <2>2, <2>3, <3>1
    <3>3. PROVED_WINDOW_MULTIPLIER * cap \in Nat
      BY <2>3, <3>1
    <3> QED BY <3>2, <3>3
  <2>5. s.prev_spent + s.cur_spent <= PROVED_WINDOW_MULTIPLIER * s.window_cap
    <3> DEFINE bound == PROVED_WINDOW_MULTIPLIER * s.window_cap
    <3>1. s.prev_spent + s.cur_spent <= 2 * s.window_cap
      BY <2>1
    <3> HIDE DEF bound
    <3> QED BY <2>1, <2>4, <3>1 DEF bound
  <2> QED BY <2>1, <2>5 DEF Certified!Within
<1>2. IInv /\ InstalledInv => WindowsCertified
  BY <1>1 DEF WindowsCertified
<1> QED BY <1>2, Invariant, InstalledHolds, PTL
=============================================================================
