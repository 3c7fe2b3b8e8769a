--------------------------- MODULE Exchange_proofs ---------------------------
(***************************************************************************)
(* The safety of the exchange for any charges, sales, statuses, receivers  *)
(* and bounds: IInv is inductive.  One lemma per action; under it, one     *)
(* step for each part of IInv that the action can disturb.                 *)
(***************************************************************************)
EXTENDS Exchange, TLAPS

LEMMA RankOrder ==
  /\ \A s \in Status : Rank[s] \in 1..3
  /\ \A s \in Status : Rank[s] >= Rank["paid"] => s = "paid"
BY ExchangeAssumption DEF Rank

LEMMA FreshPanels == FreshBuy \in BuyPanel /\ FreshSell \in SellPanel
BY ExchangeAssumption DEF FreshBuy, FreshSell, BuyPanel, SellPanel

LEMMA InitInv == Init => IInv
BY ExchangeAssumption DEF Init, IInv, TypeOK, BuyPanel, SellPanel, OrderInv, SellInv, BuyInv,
   MirrorIsBehind, TransfersAreOfOrders, NeverFalseSuccess, FreshBuy, FreshSell, Order

LEMMA CreateAt4PStep ==
  ASSUME IInv, NEW o \in Order, CreateAt4P(o)
  PROVE  IInv'
<1>1. TypeOK'
  BY ExchangeAssumption DEF CreateAt4P, Notify, service, chain, TypeOK, OrderInv,
     SellInv, BuyInv, IInv, Order, BuyPanel, SellPanel
<1>2. OrderInv'
  BY ExchangeAssumption DEF CreateAt4P, Notify, service, chain, TypeOK, OrderInv,
     SellInv, BuyInv, IInv, Order, BuyPanel, SellPanel
<1>3. SellInv'
  BY ExchangeAssumption DEF CreateAt4P, Notify, service, chain, TypeOK, OrderInv,
     SellInv, TransfersAreOfOrders, IInv, Order, BuyPanel, SellPanel
<1>4. MirrorIsBehind'
  BY ExchangeAssumption, RankOrder DEF CreateAt4P, Notify, service, chain, TypeOK,
     OrderInv, SellInv, MirrorIsBehind, Ahead, IInv, Order, BuyPanel, SellPanel
<1>5. TransfersAreOfOrders'
  BY ExchangeAssumption DEF CreateAt4P, Notify, service, chain, TypeOK, OrderInv,
     SellInv, TransfersAreOfOrders, IInv, Order, BuyPanel, SellPanel
<1>6. NeverFalseSuccess'
  BY ExchangeAssumption, RankOrder DEF CreateAt4P, Notify, service, chain, TypeOK,
     OrderInv, SellInv, BuyInv, MirrorIsBehind, Ahead, NeverFalseSuccess, Done, IInv,
     Order, BuyPanel, SellPanel
<1>7. BuyInv'
  BY DEF CreateAt4P, Notify, service, chain, IInv, BuyInv
<1> QED BY <1>1, <1>2, <1>3, <1>4, <1>5, <1>6, <1>7 DEF IInv

LEMMA CreateFailsStep ==
  ASSUME IInv, NEW o \in Order, CreateFails(o)
  PROVE  IInv'
<1>1. TypeOK'
  BY ExchangeAssumption DEF CreateFails, Notify, service, chain, TypeOK, OrderInv,
     SellInv, BuyInv, IInv, Order, BuyPanel, SellPanel
<1>2. OrderInv'
  BY ExchangeAssumption DEF CreateFails, Notify, service, chain, TypeOK, OrderInv,
     SellInv, BuyInv, IInv, Order, BuyPanel, SellPanel
<1>3. SellInv'
  BY ExchangeAssumption DEF CreateFails, Notify, service, chain, TypeOK, OrderInv,
     SellInv, TransfersAreOfOrders, IInv, Order, BuyPanel, SellPanel
<1>4. MirrorIsBehind'
  BY ExchangeAssumption, RankOrder DEF CreateFails, Notify, service, chain, TypeOK,
     OrderInv, SellInv, MirrorIsBehind, Ahead, IInv, Order, BuyPanel, SellPanel
<1>5. TransfersAreOfOrders'
  BY ExchangeAssumption DEF CreateFails, Notify, service, chain, TypeOK, OrderInv,
     SellInv, TransfersAreOfOrders, IInv, Order, BuyPanel, SellPanel
<1>6. NeverFalseSuccess'
  BY ExchangeAssumption, RankOrder DEF CreateFails, Notify, service, chain, TypeOK,
     OrderInv, SellInv, BuyInv, MirrorIsBehind, Ahead, NeverFalseSuccess, Done, IInv,
     Order, BuyPanel, SellPanel
<1>7. BuyInv'
  BY DEF CreateFails, Notify, service, chain, IInv, BuyInv
<1> QED BY <1>1, <1>2, <1>3, <1>4, <1>5, <1>6, <1>7 DEF IInv

LEMMA SeedStep ==
  ASSUME IInv, NEW o \in Order, Seed(o)
  PROVE  IInv'
<1>1. TypeOK'
  BY ExchangeAssumption DEF Seed, SaveRampTx, service, chain, TypeOK, OrderInv, SellInv,
     BuyInv, IInv, Order, BuyPanel, SellPanel
<1>2. OrderInv'
  BY ExchangeAssumption DEF Seed, SaveRampTx, service, chain, TypeOK, OrderInv, SellInv,
     BuyInv, IInv, Order, BuyPanel, SellPanel
<1>3. SellInv'
  BY ExchangeAssumption DEF Seed, SaveRampTx, service, chain, TypeOK, OrderInv, SellInv,
     TransfersAreOfOrders, IInv, Order, BuyPanel, SellPanel
<1>4. MirrorIsBehind'
  BY ExchangeAssumption, RankOrder DEF Seed, SaveRampTx, service, chain, TypeOK,
     OrderInv, SellInv, MirrorIsBehind, Ahead, IInv, Order, BuyPanel, SellPanel
<1>5. BuyInv' /\ TransfersAreOfOrders' /\ NeverFalseSuccess'
  BY DEF Seed, SaveRampTx, service, chain, IInv, BuyInv, TransfersAreOfOrders,
     NeverFalseSuccess
<1> QED BY <1>1, <1>2, <1>3, <1>4, <1>5 DEF IInv

LEMMA AdvanceStep ==
  ASSUME IInv, NEW o \in Order, Advance(o)
  PROVE  IInv'
<1>1. TypeOK'
  BY ExchangeAssumption DEF Advance, Notify, service, chain, TypeOK, OrderInv, SellInv,
     BuyInv, IInv, Order, BuyPanel, SellPanel
<1>2. OrderInv'
  BY ExchangeAssumption DEF Advance, Notify, service, chain, TypeOK, OrderInv, SellInv,
     BuyInv, IInv, Order, BuyPanel, SellPanel
<1>3. MirrorIsBehind'
  <2>1. PICK s \in Status : Rank[s] > Rank[fourP[o]] /\ fourP' = [fourP EXCEPT ![o] = s]
    BY DEF Advance
  <2>2. \A x \in Order, t \in Status : ~Ahead(t, x) => ~Ahead(t, x)'
    <3> SUFFICES ASSUME NEW x \in Order, NEW t \in Status, ~Ahead(t, x)
                 PROVE  ~Ahead(t, x)'
      OBVIOUS
    <3>1. fourP[x] \in Status /\ Rank[t] <= Rank[fourP[x]]
      BY RankOrder DEF Ahead, IInv, TypeOK
    <3>2. fourP'[x] \in Status /\ Rank[t] <= Rank[fourP'[x]]
      <4>1. CASE x = o
        BY <2>1, <3>1, <4>1, RankOrder DEF IInv, TypeOK
      <4>2. CASE x # o
        BY <2>1, <3>1, <4>2 DEF IInv, TypeOK
      <4> QED
        BY <4>1, <4>2
    <3>3. fourP'[x] # None
      BY <3>2, ExchangeAssumption
    <3>4. Rank[t] \in 1..3 /\ Rank[fourP'[x]] \in 1..3
      BY <3>2, RankOrder
    <3>5. ~(Rank[t] > Rank[fourP'[x]])
      BY <3>2, <3>4
    <3> QED
      BY <3>3, <3>5 DEF Ahead, Rank
  <2>3. /\ UNCHANGED <<store, sell>>
        /\ \A h \in hooks' : h \in hooks \/ h.pulled = None
    BY DEF Advance, Notify
  <2>4. sell.answers # {} => sell.order \in Order
    BY DEF IInv, SellInv, Order
  <2> QED
    BY <2>2, <2>3, <2>4 DEF IInv, TypeOK, SellPanel, MirrorIsBehind
<1>4. TransfersAreOfOrders'
  BY ExchangeAssumption DEF Advance, Notify, service, chain, TypeOK, OrderInv, SellInv,
     TransfersAreOfOrders, IInv, Order, BuyPanel, SellPanel
<1>5. NeverFalseSuccess'
  BY ExchangeAssumption, RankOrder DEF Advance, Notify, service, chain, TypeOK,
     OrderInv, SellInv, BuyInv, MirrorIsBehind, Ahead, NeverFalseSuccess, Done, IInv,
     Order, BuyPanel, SellPanel
<1>6. SellInv' /\ BuyInv'
  BY DEF Advance, Notify, service, chain, IInv, SellInv, BuyInv
<1> QED BY <1>1, <1>2, <1>3, <1>4, <1>5, <1>6 DEF IInv

LEMMA LandStep ==
  ASSUME IInv, NEW o \in Order, Land(o)
  PROVE  IInv'
<1>1. TypeOK'
  BY ExchangeAssumption DEF Land, service, chain, TypeOK, OrderInv, SellInv, BuyInv,
     IInv, Order, BuyPanel, SellPanel
<1>2. OrderInv' /\ SellInv' /\ BuyInv' /\ MirrorIsBehind' /\ TransfersAreOfOrders' /\ NeverFalseSuccess'
  BY DEF Land, service, chain, IInv, OrderInv, SellInv, BuyInv, MirrorIsBehind,
     TransfersAreOfOrders, NeverFalseSuccess, Ahead
<1> QED BY <1>1, <1>2 DEF IInv

LEMMA PullStep ==
  ASSUME IInv, NEW h \in hooks, Pull(h)
  PROVE  IInv'
<1>1. TypeOK'
  BY ExchangeAssumption DEF Pull, service, chain, TypeOK, OrderInv, SellInv, BuyInv,
     IInv, Order, BuyPanel, SellPanel
<1>2. OrderInv'
  BY ExchangeAssumption DEF Pull, service, chain, TypeOK, OrderInv, SellInv, BuyInv,
     IInv, Order, BuyPanel, SellPanel
<1>3. MirrorIsBehind'
  BY ExchangeAssumption, RankOrder DEF Pull, service, chain, TypeOK, OrderInv, SellInv,
     MirrorIsBehind, Ahead, IInv, Order, BuyPanel, SellPanel
<1>4. SellInv' /\ BuyInv' /\ TransfersAreOfOrders' /\ NeverFalseSuccess'
  BY DEF Pull, service, chain, IInv, SellInv, BuyInv, TransfersAreOfOrders,
     NeverFalseSuccess
<1> QED BY <1>1, <1>2, <1>3, <1>4 DEF IInv

LEMMA SaveStep ==
  ASSUME IInv, NEW h \in hooks, Save(h)
  PROVE  IInv'
<1>1. TypeOK'
  BY ExchangeAssumption DEF Save, SaveRampTx, service, chain, TypeOK, OrderInv, SellInv,
     BuyInv, IInv, Order, BuyPanel, SellPanel
<1>2. OrderInv'
  BY ExchangeAssumption DEF Save, SaveRampTx, service, chain, TypeOK, OrderInv, SellInv,
     BuyInv, IInv, Order, BuyPanel, SellPanel
<1>3. MirrorIsBehind'
  BY ExchangeAssumption, RankOrder DEF Save, SaveRampTx, service, chain, TypeOK,
     OrderInv, SellInv, MirrorIsBehind, Ahead, IInv, Order, BuyPanel, SellPanel
<1>4. SellInv' /\ BuyInv' /\ TransfersAreOfOrders' /\ NeverFalseSuccess'
  BY DEF Save, SaveRampTx, service, chain, IInv, SellInv, BuyInv, TransfersAreOfOrders,
     NeverFalseSuccess
<1> QED BY <1>1, <1>2, <1>3, <1>4 DEF IInv

LEMMA OtherPaymentStep ==
  ASSUME IInv, OtherPayment
  PROVE  IInv'
<1>1. TypeOK'
  BY ExchangeAssumption DEF OtherPayment, service, chain, TypeOK, OrderInv, SellInv,
     BuyInv, IInv, Order, BuyPanel, SellPanel
<1>2. OrderInv' /\ SellInv' /\ BuyInv' /\ MirrorIsBehind' /\ TransfersAreOfOrders' /\ NeverFalseSuccess'
  BY DEF OtherPayment, service, chain, IInv, OrderInv, SellInv, BuyInv, MirrorIsBehind,
     TransfersAreOfOrders, NeverFalseSuccess, Ahead
<1> QED BY <1>1, <1>2 DEF IInv

LEMMA TurnStep ==
  ASSUME IInv, Turn
  PROVE  IInv'
<1>1. TypeOK'
  BY ExchangeAssumption DEF Turn, Mounted, service, chain, TypeOK, OrderInv, SellInv,
     BuyInv, IInv, Order, BuyPanel, SellPanel
<1>2. BuyInv'
  BY ExchangeAssumption DEF Turn, Mounted, service, chain, TypeOK, BuyInv, IInv, Order,
     BuyPanel, SellPanel
<1>3. NeverFalseSuccess'
  BY ExchangeAssumption, RankOrder DEF Turn, Mounted, service, chain, TypeOK, OrderInv,
     SellInv, BuyInv, MirrorIsBehind, Ahead, NeverFalseSuccess, Done, IInv, Order,
     BuyPanel, SellPanel
<1>4. OrderInv' /\ SellInv' /\ MirrorIsBehind' /\ TransfersAreOfOrders'
  BY DEF Turn, Mounted, service, chain, IInv, OrderInv, SellInv, MirrorIsBehind,
     TransfersAreOfOrders, Ahead
<1> QED BY <1>1, <1>2, <1>3, <1>4 DEF IInv

LEMMA ConfirmBuyStep ==
  ASSUME IInv, NEW o \in Charge, ConfirmBuy(o)
  PROVE  IInv'
<1>1. TypeOK'
  <2>1. buy' \in BuyPanel
    <3>1. PICK b \in {wallet, None} :
            buy' = [buy EXCEPT !.call = "create", !.order = o, !.baseline = b]
      BY DEF ConfirmBuy
    <3>2. b \in 0..MaxWallet \cup {None}
      BY <3>1 DEF IInv, TypeOK
    <3> QED
      BY <3>1, <3>2 DEF IInv, TypeOK, BuyPanel
  <2> QED
    BY <2>1, ExchangeAssumption DEF ConfirmBuy, service, chain, IInv, TypeOK, Order
<1>2. OrderInv'
  <2>1. /\ request[o] = "new" /\ request' = [request EXCEPT ![o] = "create"]
        /\ UNCHANGED <<fourP, hooks, store, sent>>
    BY DEF ConfirmBuy, chain
  <2> QED
    BY <2>1, ExchangeAssumption DEF TypeOK, OrderInv, IInv, Order
<1>3. SellInv'
  BY ExchangeAssumption DEF ConfirmBuy, Mounted, service, chain, TypeOK, OrderInv,
     SellInv, TransfersAreOfOrders, IInv, Order, BuyPanel, SellPanel
<1>4. BuyInv'
  BY ExchangeAssumption DEF ConfirmBuy, Mounted, service, chain, TypeOK, BuyInv, IInv,
     Order, BuyPanel, SellPanel
<1>5. NeverFalseSuccess'
  BY ExchangeAssumption, RankOrder DEF ConfirmBuy, Mounted, service, chain, TypeOK,
     OrderInv, SellInv, BuyInv, MirrorIsBehind, Ahead, NeverFalseSuccess, Done, IInv,
     Order, BuyPanel, SellPanel
<1>6. MirrorIsBehind' /\ TransfersAreOfOrders'
  BY DEF ConfirmBuy, Mounted, service, chain, IInv, MirrorIsBehind,
     TransfersAreOfOrders, Ahead
<1> QED BY <1>1, <1>2, <1>3, <1>4, <1>5, <1>6 DEF IInv

LEMMA ChargeAnsweredStep ==
  ASSUME IInv, ChargeAnswered
  PROVE  IInv'
<1>1. TypeOK'
  <2>1. CASE /\ request[buy.order] = "answered"
             /\ buy' = [buy EXCEPT !.call = "idle", !.step = "pix",
                                   !.status = "pending", !.timer = TRUE]
             /\ request' = [request EXCEPT ![buy.order] = "shown"]
    <3>1. buy' \in BuyPanel
      BY <2>1, ExchangeAssumption DEF IInv, TypeOK, BuyPanel
    <3>2. request' \in [Order -> {"new", "create", "save", "answered", "shown", "failed"}]
      BY <2>1 DEF IInv, TypeOK
    <3> QED
      BY <3>1, <3>2 DEF ChargeAnswered, chain, IInv, TypeOK
  <2>2. CASE buy' = [buy EXCEPT !.call = "idle", !.order = None] /\ UNCHANGED request
    <3>1. buy' \in BuyPanel
      BY <2>2 DEF IInv, TypeOK, BuyPanel
    <3> QED
      BY <2>2, <3>1 DEF ChargeAnswered, chain, IInv, TypeOK
  <2> QED
    BY <2>1, <2>2 DEF ChargeAnswered
<1>2. OrderInv'
  <2>1. /\ \/ /\ request[buy.order] = "answered"
              /\ request' = [request EXCEPT ![buy.order] = "shown"]
           \/ UNCHANGED request
        /\ buy.order \in Charge
        /\ UNCHANGED <<fourP, hooks, store, sent>>
    BY DEF ChargeAnswered, chain, IInv, BuyInv
  <2> QED
    BY <2>1, ExchangeAssumption DEF TypeOK, OrderInv, IInv, Order
<1>3. SellInv'
  BY ExchangeAssumption DEF ChargeAnswered, Mounted, service, chain, TypeOK, OrderInv,
     SellInv, TransfersAreOfOrders, IInv, Order, BuyPanel, SellPanel
<1>4. BuyInv'
  <2>1. buy.order \in Charge /\ buy.step \in {"amount", "identity"}
    BY DEF ChargeAnswered, IInv, BuyInv
  <2>2. \/ buy' = [buy EXCEPT !.call = "idle", !.step = "pix",
                             !.status = "pending", !.timer = TRUE]
        \/ buy' = [buy EXCEPT !.call = "idle", !.order = None]
    BY DEF ChargeAnswered
  <2> QED
    BY <2>1, <2>2 DEF BuyInv, IInv, TypeOK, BuyPanel, SellPanel
<1>5. NeverFalseSuccess'
  <2>1. buy.step \in {"amount", "identity"}
    BY DEF ChargeAnswered, IInv, BuyInv
  <2>2. \/ buy' = [buy EXCEPT !.call = "idle", !.step = "pix",
                             !.status = "pending", !.timer = TRUE]
        \/ buy' = [buy EXCEPT !.call = "idle", !.order = None]
    BY DEF ChargeAnswered
  <2>3. buy'.step # "done"
    BY <2>1, <2>2 DEF IInv, TypeOK, BuyPanel, SellPanel
  <2>4. UNCHANGED <<fourP, sent, sell>>
    BY DEF ChargeAnswered, chain
  <2> QED
    BY <2>3, <2>4 DEF NeverFalseSuccess, IInv
<1>6. MirrorIsBehind' /\ TransfersAreOfOrders'
  BY DEF ChargeAnswered, Mounted, service, chain, IInv, MirrorIsBehind,
     TransfersAreOfOrders, Ahead
<1> QED BY <1>1, <1>2, <1>3, <1>4, <1>5, <1>6 DEF IInv

LEMMA PollChargeStep ==
  ASSUME IInv, PollCharge
  PROVE  IInv'
<1>1. TypeOK'
  <2>1. buy.order \in Charge /\ buy.step = "pix" /\ UNCHANGED <<service, chain, direction, sell>>
    BY DEF PollCharge, IInv, BuyInv
  <2>2. CASE buy' = [buy EXCEPT !.timer = FALSE]
    BY <2>1, <2>2 DEF service, chain, TypeOK, IInv, BuyPanel
  <2>3. CASE store[buy.order] # None /\ buy' = Displayed(store[buy.order])
    <3> DEFINE s == store[buy.order]
    <3>1. s \in Status
      BY <2>1, <2>3 DEF IInv, TypeOK, BuyPanel, SellPanel, Order
    <3>2. /\ buy'.call = buy.call /\ buy'.order = buy.order /\ buy'.baseline = buy.baseline
          /\ buy'.status = s /\ buy'.timer \in BOOLEAN
          /\ buy'.step = IF s \in Done THEN "done" ELSE "pix"
      BY <2>3 DEF Displayed, IInv, TypeOK, BuyPanel, SellPanel
    <3>3. buy' \in BuyPanel
      <4>1. buy' = [step |-> buy'.step, call |-> buy'.call, order |-> buy'.order,
                    status |-> buy'.status, baseline |-> buy'.baseline, timer |-> buy'.timer]
        BY <2>3 DEF Displayed, IInv, TypeOK, BuyPanel, SellPanel
      <4> QED
        BY <3>1, <3>2, <4>1 DEF IInv, TypeOK, BuyPanel, SellPanel
    <3> QED
      BY <2>1, <3>3 DEF IInv, TypeOK, BuyPanel, SellPanel, service, chain
  <2> QED
    BY <2>2, <2>3 DEF PollCharge
<1>2. BuyInv'
  <2>1. buy.order \in Charge /\ buy.step = "pix" /\ UNCHANGED <<service, chain, direction, sell>>
    BY DEF PollCharge, IInv, BuyInv
  <2>2. CASE buy' = [buy EXCEPT !.timer = FALSE]
    BY <2>1, <2>2 DEF service, chain, TypeOK, BuyInv, IInv
  <2>3. CASE store[buy.order] # None /\ buy' = Displayed(store[buy.order])
    <3> DEFINE s == store[buy.order]
    <3>1. s \in Status
      BY <2>1, <2>3 DEF IInv, TypeOK, BuyPanel, SellPanel, Order
    <3>2. /\ buy'.call = buy.call /\ buy'.order = buy.order /\ buy'.baseline = buy.baseline
          /\ buy'.status = s /\ buy'.timer \in BOOLEAN
          /\ buy'.step = IF s \in Done THEN "done" ELSE "pix"
      BY <2>3 DEF Displayed, IInv, TypeOK, BuyPanel, SellPanel
    <3> QED
      BY <2>1, <3>2 DEF IInv, BuyInv
  <2> QED
    BY <2>2, <2>3 DEF PollCharge
<1>3. NeverFalseSuccess'
  <2>1. buy.order \in Charge /\ buy.step = "pix" /\ UNCHANGED <<service, chain, direction, sell>>
    BY DEF PollCharge, IInv, BuyInv
  <2>2. CASE buy' = [buy EXCEPT !.timer = FALSE]
    BY <2>1, <2>2 DEF service, chain, TypeOK, NeverFalseSuccess, IInv
  <2>3. CASE store[buy.order] # None /\ buy' = Displayed(store[buy.order])
    <3> DEFINE s == store[buy.order]
    <3>1. s \in Status
      BY <2>1, <2>3 DEF IInv, TypeOK, BuyPanel, SellPanel, Order
    <3>2. /\ buy'.call = buy.call /\ buy'.order = buy.order /\ buy'.baseline = buy.baseline
          /\ buy'.status = s /\ buy'.timer \in BOOLEAN
          /\ buy'.step = IF s \in Done THEN "done" ELSE "pix"
      BY <2>3 DEF Displayed, IInv, TypeOK, BuyPanel, SellPanel
    <3>3. s \in Done => fourP[buy.order] = "paid"
      <4>1. ~Ahead(s, buy.order)
        BY <2>1, <2>3 DEF IInv, MirrorIsBehind, Order
      <4>2. fourP[buy.order] \in Status \cup {None}
        BY <2>1 DEF IInv, TypeOK, Order
      <4> QED
        BY <3>1, <4>1, <4>2, RankOrder DEF Ahead, Done
    <3> QED
      BY <2>1, <3>2, <3>3 DEF IInv, NeverFalseSuccess, service, chain
  <2> QED
    BY <2>2, <2>3 DEF PollCharge
<1>4. OrderInv' /\ SellInv' /\ MirrorIsBehind' /\ TransfersAreOfOrders'
  BY DEF PollCharge, Mounted, Done, service, chain, IInv, OrderInv, SellInv,
     MirrorIsBehind, TransfersAreOfOrders, Ahead
<1> QED BY <1>1, <1>2, <1>3, <1>4 DEF IInv

LEMMA WatchBalanceStep ==
  ASSUME IInv, WatchBalance
  PROVE  IInv'
<1>1. TypeOK'
  BY ExchangeAssumption DEF WatchBalance, Mounted, Credited, service, chain, TypeOK,
     OrderInv, SellInv, BuyInv, IInv, Order, BuyPanel, SellPanel
<1>2. BuyInv'
  BY ExchangeAssumption DEF WatchBalance, Mounted, Credited, service, chain, TypeOK,
     BuyInv, IInv, Order, BuyPanel, SellPanel
<1>3. NeverFalseSuccess'
  BY ExchangeAssumption, RankOrder DEF WatchBalance, Mounted, Credited, service, chain,
     TypeOK, OrderInv, SellInv, BuyInv, MirrorIsBehind, Ahead, NeverFalseSuccess, Done,
     IInv, Order, BuyPanel, SellPanel
<1>4. OrderInv' /\ SellInv' /\ MirrorIsBehind' /\ TransfersAreOfOrders'
  BY DEF WatchBalance, Mounted, Credited, service, chain, IInv, OrderInv, SellInv,
     MirrorIsBehind, TransfersAreOfOrders, Ahead
<1> QED BY <1>1, <1>2, <1>3, <1>4 DEF IInv

LEMMA DoSellStep ==
  ASSUME IInv, DoSell
  PROVE  IInv'
<1>1. TypeOK'
  BY ExchangeAssumption DEF DoSell, Mounted, service, chain, TypeOK, OrderInv, SellInv,
     BuyInv, IInv, Order, BuyPanel, SellPanel
<1>2. SellInv'
  BY ExchangeAssumption DEF DoSell, Mounted, service, chain, TypeOK, OrderInv, SellInv,
     TransfersAreOfOrders, IInv, Order, BuyPanel, SellPanel
<1>3. MirrorIsBehind'
  BY ExchangeAssumption, RankOrder DEF DoSell, Mounted, service, chain, TypeOK,
     OrderInv, SellInv, MirrorIsBehind, Ahead, IInv, Order, BuyPanel, SellPanel
<1>4. NeverFalseSuccess'
  BY ExchangeAssumption, RankOrder DEF DoSell, Mounted, service, chain, TypeOK,
     OrderInv, SellInv, BuyInv, MirrorIsBehind, Ahead, NeverFalseSuccess, Done, IInv,
     Order, BuyPanel, SellPanel
<1>5. OrderInv' /\ BuyInv' /\ TransfersAreOfOrders'
  BY DEF DoSell, Mounted, service, chain, IInv, OrderInv, BuyInv, TransfersAreOfOrders
<1> QED BY <1>1, <1>2, <1>3, <1>4, <1>5 DEF IInv

LEMMA ReadBalanceStep ==
  ASSUME IInv, NEW o \in Sale, ReadBalance(o)
  PROVE  IInv'
<1>1. TypeOK'
  <2>1. sell' \in SellPanel
    <3>1. CASE sell' = [sell EXCEPT !.step = "create", !.order = o]
      BY <3>1 DEF IInv, TypeOK, SellPanel
    <3>2. CASE sell' = FreshSell
      BY <3>2, FreshPanels
    <3> QED
      BY <3>1, <3>2 DEF ReadBalance
  <2> QED
    BY <2>1, ExchangeAssumption DEF ReadBalance, service, chain, IInv, TypeOK, Order
<1>2. OrderInv'
  <2>1. /\ \/ request[o] = "new" /\ request' = [request EXCEPT ![o] = "create"]
           \/ UNCHANGED request
        /\ UNCHANGED <<fourP, hooks, store, sent>>
    BY DEF ReadBalance, chain
  <2> QED
    BY <2>1, ExchangeAssumption DEF TypeOK, OrderInv, IInv, Order
<1>3. SellInv'
  <2>1. CASE /\ request[o] = "new" /\ request' = [request EXCEPT ![o] = "create"]
             /\ sell' = [sell EXCEPT !.step = "create", !.order = o]
    BY <2>1, ExchangeAssumption DEF ReadBalance, chain, IInv, TypeOK, BuyPanel, SellPanel, OrderInv, SellInv, Order
  <2>2. CASE sell' = FreshSell /\ UNCHANGED request
    BY <2>2 DEF FreshSell, SellInv
  <2> QED
    BY <2>1, <2>2 DEF ReadBalance
<1>4. MirrorIsBehind'
  <2>1. CASE /\ request[o] = "new" /\ request' = [request EXCEPT ![o] = "create"]
             /\ sell' = [sell EXCEPT !.step = "create", !.order = o]
    BY <2>1 DEF ReadBalance, chain, IInv, TypeOK, BuyPanel, SellPanel, SellInv, MirrorIsBehind, Ahead
  <2>2. CASE sell' = FreshSell /\ UNCHANGED request
    BY <2>2 DEF ReadBalance, FreshSell, IInv, MirrorIsBehind, Ahead
  <2> QED
    BY <2>1, <2>2 DEF ReadBalance
<1>5. NeverFalseSuccess'
  <2>1. CASE /\ request[o] = "new" /\ request' = [request EXCEPT ![o] = "create"]
             /\ sell' = [sell EXCEPT !.step = "create", !.order = o]
    BY <2>1 DEF ReadBalance, chain, IInv, TypeOK, BuyPanel, SellPanel, NeverFalseSuccess
  <2>2. CASE sell' = FreshSell /\ UNCHANGED request
    BY <2>2 DEF ReadBalance, chain, FreshSell, IInv, NeverFalseSuccess
  <2> QED
    BY <2>1, <2>2 DEF ReadBalance
<1>6. BuyInv' /\ TransfersAreOfOrders'
  BY DEF ReadBalance, Mounted, FreshSell, service, chain, IInv, BuyInv,
     TransfersAreOfOrders
<1> QED BY <1>1, <1>2, <1>3, <1>4, <1>5, <1>6 DEF IInv

LEMMA SaleAnsweredStep ==
  ASSUME IInv, SaleAnswered
  PROVE  IInv'
<1>1. TypeOK'
  BY ExchangeAssumption DEF SaleAnswered, Mounted, FreshSell, service, chain, TypeOK,
     OrderInv, SellInv, BuyInv, IInv, Order, BuyPanel, SellPanel
<1>2. SellInv'
  BY ExchangeAssumption DEF SaleAnswered, Mounted, FreshSell, service, chain, TypeOK,
     OrderInv, SellInv, TransfersAreOfOrders, IInv, Order, BuyPanel, SellPanel
<1>3. MirrorIsBehind'
  BY ExchangeAssumption, RankOrder DEF SaleAnswered, Mounted, FreshSell, service, chain,
     TypeOK, OrderInv, SellInv, MirrorIsBehind, Ahead, IInv, Order, BuyPanel, SellPanel
<1>4. NeverFalseSuccess'
  BY ExchangeAssumption, RankOrder DEF SaleAnswered, Mounted, FreshSell, service, chain,
     TypeOK, OrderInv, SellInv, BuyInv, MirrorIsBehind, Ahead, NeverFalseSuccess, Done,
     IInv, Order, BuyPanel, SellPanel
<1>5. OrderInv' /\ BuyInv' /\ TransfersAreOfOrders'
  BY DEF SaleAnswered, Mounted, FreshSell, service, chain, IInv, OrderInv, BuyInv,
     TransfersAreOfOrders
<1> QED BY <1>1, <1>2, <1>3, <1>4, <1>5 DEF IInv

LEMMA DecideStep ==
  ASSUME IInv, Decide
  PROVE  IInv'
<1>1. TypeOK'
  <2>1. sell' \in SellPanel
    <3>1. CASE sell' = [sell EXCEPT !.step = "send"]
      BY <3>1, ExchangeAssumption DEF Decide, IInv, TypeOK, SellPanel, Order
    <3>2. CASE sell' = FreshSell
      BY <3>2, FreshPanels
    <3> QED
      BY <3>1, <3>2 DEF Decide
  <2> QED
    BY <2>1, ExchangeAssumption DEF Decide, service, chain, IInv, TypeOK, SellPanel, SellInv, BuyInv, Order
<1>2. SellInv'
  BY ExchangeAssumption DEF Decide, Mounted, FreshSell, service, chain, TypeOK,
     OrderInv, SellInv, TransfersAreOfOrders, IInv, Order, BuyPanel, SellPanel
<1>3. MirrorIsBehind'
  BY ExchangeAssumption, RankOrder DEF Decide, Mounted, FreshSell, service, chain,
     TypeOK, OrderInv, SellInv, MirrorIsBehind, Ahead, IInv, Order, BuyPanel, SellPanel
<1>4. NeverFalseSuccess'
  BY ExchangeAssumption, RankOrder DEF Decide, Mounted, FreshSell, service, chain,
     TypeOK, OrderInv, SellInv, BuyInv, MirrorIsBehind, Ahead, NeverFalseSuccess, Done,
     IInv, Order, BuyPanel, SellPanel
<1>5. OrderInv' /\ BuyInv' /\ TransfersAreOfOrders'
  BY DEF Decide, Mounted, FreshSell, service, chain, IInv, OrderInv, BuyInv,
     TransfersAreOfOrders
<1> QED BY <1>1, <1>2, <1>3, <1>4, <1>5 DEF IInv

LEMMA SendStep ==
  ASSUME IInv, Send
  PROVE  IInv'
<1>1. TypeOK'
  <2>1. sell' \in SellPanel
    <3>1. CASE sell' = [sell EXCEPT !.step = "sending"]
      BY <3>1, ExchangeAssumption DEF Send, IInv, TypeOK, SellPanel, Order
    <3>2. CASE sell' = FreshSell
      BY <3>2, FreshPanels
    <3> QED
      BY <3>1, <3>2 DEF Send
  <2> QED
    BY <2>1, ExchangeAssumption DEF Send, service, chain, IInv, TypeOK, SellPanel, SellInv, BuyInv, Order
<1>2. OrderInv'
  BY ExchangeAssumption DEF Send, Mounted, FreshSell, service, chain, TypeOK, OrderInv,
     SellInv, BuyInv, IInv, Order, BuyPanel, SellPanel
<1>3. SellInv'
  BY ExchangeAssumption DEF Send, Mounted, FreshSell, service, chain, TypeOK, OrderInv,
     SellInv, TransfersAreOfOrders, IInv, Order, BuyPanel, SellPanel
<1>4. MirrorIsBehind'
  BY ExchangeAssumption, RankOrder DEF Send, Mounted, FreshSell, service, chain, TypeOK,
     OrderInv, SellInv, MirrorIsBehind, Ahead, IInv, Order, BuyPanel, SellPanel
<1>5. TransfersAreOfOrders'
  BY ExchangeAssumption DEF Send, Mounted, FreshSell, service, chain, TypeOK, OrderInv,
     SellInv, TransfersAreOfOrders, IInv, Order, BuyPanel, SellPanel
<1>6. NeverFalseSuccess'
  BY ExchangeAssumption, RankOrder DEF Send, Mounted, FreshSell, service, chain, TypeOK,
     OrderInv, SellInv, BuyInv, MirrorIsBehind, Ahead, NeverFalseSuccess, Done, IInv,
     Order, BuyPanel, SellPanel
<1>7. BuyInv'
  BY DEF Send, Mounted, FreshSell, service, chain, IInv, BuyInv
<1> QED BY <1>1, <1>2, <1>3, <1>4, <1>5, <1>6, <1>7 DEF IInv

LEMMA ElapseStep ==
  ASSUME IInv, Elapse
  PROVE  IInv'
<1>1. TypeOK'
  BY ExchangeAssumption DEF Elapse, service, chain, TypeOK, OrderInv, SellInv, BuyInv,
     IInv, Order, BuyPanel, SellPanel
<1>2. SellInv'
  BY ExchangeAssumption DEF Elapse, service, chain, TypeOK, OrderInv, SellInv,
     TransfersAreOfOrders, IInv, Order, BuyPanel, SellPanel
<1>3. MirrorIsBehind'
  BY ExchangeAssumption, RankOrder DEF Elapse, service, chain, TypeOK, OrderInv,
     SellInv, MirrorIsBehind, Ahead, IInv, Order, BuyPanel, SellPanel
<1>4. NeverFalseSuccess'
  BY ExchangeAssumption, RankOrder DEF Elapse, service, chain, TypeOK, OrderInv,
     SellInv, BuyInv, MirrorIsBehind, Ahead, NeverFalseSuccess, Done, IInv, Order,
     BuyPanel, SellPanel
<1>5. OrderInv' /\ BuyInv' /\ TransfersAreOfOrders'
  BY DEF Elapse, service, chain, IInv, OrderInv, BuyInv, TransfersAreOfOrders
<1> QED BY <1>1, <1>2, <1>3, <1>4, <1>5 DEF IInv

LEMMA IntervalStep ==
  ASSUME IInv, Interval
  PROVE  IInv'
<1>1. TypeOK'
  BY ExchangeAssumption DEF Interval, Mounted, service, chain, TypeOK, OrderInv,
     SellInv, BuyInv, IInv, Order, BuyPanel, SellPanel
<1>2. SellInv'
  BY ExchangeAssumption DEF Interval, Mounted, service, chain, TypeOK, OrderInv,
     SellInv, TransfersAreOfOrders, IInv, Order, BuyPanel, SellPanel
<1>3. MirrorIsBehind'
  BY ExchangeAssumption, RankOrder DEF Interval, Mounted, service, chain, TypeOK,
     OrderInv, SellInv, MirrorIsBehind, Ahead, IInv, Order, BuyPanel, SellPanel
<1>4. NeverFalseSuccess'
  BY ExchangeAssumption, RankOrder DEF Interval, Mounted, service, chain, TypeOK,
     OrderInv, SellInv, BuyInv, MirrorIsBehind, Ahead, NeverFalseSuccess, Done, IInv,
     Order, BuyPanel, SellPanel
<1>5. OrderInv' /\ BuyInv' /\ TransfersAreOfOrders'
  BY DEF Interval, Mounted, service, chain, IInv, OrderInv, BuyInv, TransfersAreOfOrders
<1> QED BY <1>1, <1>2, <1>3, <1>4, <1>5 DEF IInv

LEMMA ResolveStep ==
  ASSUME IInv, NEW s \in Status, Resolve(s)
  PROVE  IInv'
<1>1. TypeOK'
  BY ExchangeAssumption DEF Resolve, Mounted, Done, service, chain, TypeOK, OrderInv,
     SellInv, BuyInv, IInv, Order, BuyPanel, SellPanel
<1>2. SellInv'
  BY ExchangeAssumption DEF Resolve, Mounted, Done, service, chain, TypeOK, OrderInv,
     SellInv, TransfersAreOfOrders, IInv, Order, BuyPanel, SellPanel
<1>3. MirrorIsBehind'
  BY ExchangeAssumption, RankOrder DEF Resolve, Mounted, Done, service, chain, TypeOK,
     OrderInv, SellInv, MirrorIsBehind, Ahead, IInv, Order, BuyPanel, SellPanel
<1>4. NeverFalseSuccess'
  BY ExchangeAssumption, RankOrder DEF Resolve, Mounted, Done, service, chain, TypeOK,
     OrderInv, SellInv, BuyInv, MirrorIsBehind, Ahead, NeverFalseSuccess, IInv, Order,
     BuyPanel, SellPanel
<1>5. OrderInv' /\ BuyInv' /\ TransfersAreOfOrders'
  BY DEF Resolve, Mounted, Done, service, chain, IInv, OrderInv, BuyInv,
     TransfersAreOfOrders
<1> QED BY <1>1, <1>2, <1>3, <1>4, <1>5 DEF IInv

LEMMA ToggleStep ==
  ASSUME IInv, Toggle
  PROVE  IInv'
<1>1. TypeOK'
  BY ExchangeAssumption DEF Toggle, FreshBuy, FreshSell, service, chain, TypeOK,
     OrderInv, SellInv, BuyInv, IInv, Order, BuyPanel, SellPanel
<1>2. OrderInv'
  BY ExchangeAssumption DEF Toggle, FreshBuy, FreshSell, service, chain, TypeOK,
     OrderInv, SellInv, BuyInv, IInv, Order, BuyPanel, SellPanel
<1>3. SellInv'
  BY ExchangeAssumption DEF Toggle, FreshBuy, FreshSell, service, chain, TypeOK,
     OrderInv, SellInv, TransfersAreOfOrders, IInv, Order, BuyPanel, SellPanel
<1>4. BuyInv'
  BY ExchangeAssumption DEF Toggle, FreshBuy, FreshSell, service, chain, TypeOK, BuyInv,
     IInv, Order, BuyPanel, SellPanel
<1>5. MirrorIsBehind'
  BY ExchangeAssumption, RankOrder DEF Toggle, FreshBuy, FreshSell, service, chain,
     TypeOK, OrderInv, SellInv, MirrorIsBehind, Ahead, IInv, Order, BuyPanel, SellPanel
<1>6. TransfersAreOfOrders'
  BY ExchangeAssumption DEF Toggle, FreshBuy, FreshSell, service, chain, TypeOK,
     OrderInv, SellInv, TransfersAreOfOrders, IInv, Order, BuyPanel, SellPanel
<1>7. NeverFalseSuccess'
  BY ExchangeAssumption, RankOrder DEF Toggle, FreshBuy, FreshSell, service, chain,
     TypeOK, OrderInv, SellInv, BuyInv, MirrorIsBehind, Ahead, NeverFalseSuccess, Done,
     IInv, Order, BuyPanel, SellPanel
<1> QED BY <1>1, <1>2, <1>3, <1>4, <1>5, <1>6, <1>7 DEF IInv

LEMMA StepInv == IInv /\ [Next]_vars => IInv'
<1> SUFFICES ASSUME IInv, [Next]_vars PROVE IInv'
  OBVIOUS
<1>1. CASE UNCHANGED vars
  BY <1>1 DEF vars, service, chain, IInv, TypeOK, OrderInv, SellInv, BuyInv, MirrorIsBehind,
     TransfersAreOfOrders, NeverFalseSuccess, Ahead
<1>2. CASE Next
  BY <1>2, CreateAt4PStep, CreateFailsStep, SeedStep, AdvanceStep, LandStep, PullStep, SaveStep, OtherPaymentStep, TurnStep, ConfirmBuyStep, ChargeAnsweredStep, PollChargeStep, WatchBalanceStep, DoSellStep, ReadBalanceStep, SaleAnsweredStep, DecideStep, SendStep, ElapseStep, IntervalStep, ResolveStep, ToggleStep
     DEF Next
<1> QED BY <1>1, <1>2

(* The inductive invariant holds. *)
THEOREM Invariant == Spec => []IInv
BY InitInv, StepInv, PTL DEF Spec

(* State and answers stay well typed. *)
THEOREM TypeCorrect == Spec => []TypeOK
<1>1. IInv => TypeOK  BY DEF IInv
<1> QED BY <1>1, Invariant, PTL

(* No panel shows success that 4P or the watched balance does not back. *)
THEOREM NeverFalseSuccessHolds == Spec => []NeverFalseSuccess
<1>1. IInv => NeverFalseSuccess  BY DEF IInv
<1> QED BY <1>1, Invariant, PTL

(* At most one transfer per sale, to the pinned receiver. *)
THEOREM TransfersAreOfOrdersHolds == Spec => []TransfersAreOfOrders
<1>1. IInv => TransfersAreOfOrders  BY DEF IInv
<1> QED BY <1>1, Invariant, PTL

(* The mirror is never ahead of 4P. *)
THEOREM MirrorIsBehindHolds == Spec => []MirrorIsBehind
<1>1. IInv => MirrorIsBehind  BY DEF IInv
<1> QED BY <1>1, Invariant, PTL

(* No webhook brings news of a payment before the seed is in. *)
THEOREM SeedPrecedesPaymentHolds == Spec => []SeedPrecedesPayment
<1>1. IInv => SeedPrecedesPayment
  BY ExchangeAssumption, RankOrder
     DEF IInv, TypeOK, OrderInv, MirrorIsBehind, Ahead, SeedPrecedesPayment, Done, Order
<1> QED BY <1>1, Invariant, PTL
=============================================================================
