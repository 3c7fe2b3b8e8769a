------------------------- MODULE Settlement_proofs -------------------------
(***************************************************************************)
(* Proofs about the settlement pipeline for every value of the constants:  *)
(* any number of orders, pods, overlapping polls, payments and crashes.    *)
(***************************************************************************)
EXTENDS Settlement, TLAPS, SequenceTheorems, FiniteSetTheorems

\* What every step keeps of an order: the row, its subscription, and a status
\* that only goes forward.
Forward(i) ==
  orders[i] # None =>
    /\ orders'[i] # None
    /\ orders'[i].subscription_id = orders[i].subscription_id
    /\ \/ orders[i].status = "pending"
       \/ orders[i].status = "underpaid" /\ orders'[i].status \in {"underpaid", "paid"}
       \/ orders'[i].status = orders[i].status /\ orders'[i].tx_hash = orders[i].tx_hash

\* What every step keeps altogether.
Kept ==
  /\ \A i \in Order : Forward(i)
  /\ Len(ledger) <= Len(ledger')
  /\ \A r \in 1..Len(ledger) : ledger'[r] = ledger[r]
  /\ amiss \subseteq amiss'

---------------------------------------------------------------------------
(* Polls.                                                                  *)

LEMMA BecomeEffect ==
  ASSUME TypeOK, NEW w \in Watcher, NEW s \in Slot, NEW q \in PollRow, Become(w, s, q)
  PROVE  /\ poll' \in [Watcher -> [Slot -> PollRow]]
         /\ poll'[w][s] = q
         /\ \A v \in Watcher, t \in Slot :
              v # w \/ t # s => poll'[v][t] = poll[v][t]
BY DEF TypeOK, Become

(* A poll in progress has a record, and it is one of the ledger's.         *)
LEMMA CurrentRecord ==
  ASSUME TypeOK, NEW w \in Watcher, NEW s \in Slot, PageInv(w, s),
         poll[w][s].pc # "idle"
  PROVE  /\ watcher[w] \in WatcherRow
         /\ poll[w][s].page \in Seq(Record) /\ poll[w][s].page # <<>>
         /\ Len(poll[w][s].page) \in Nat \ {0}
         /\ Current(w, s) = poll[w][s].page[1]
         /\ Current(w, s) \in 1..Len(ledger) /\ Current(w, s) \in Record
         /\ ledger[Current(w, s)] \in Paid
         /\ ledger[Current(w, s)].to = watcher[w].account
<1> DEFINE p == poll[w][s].page
<1>1. watcher[w] \in WatcherRow /\ p \in Seq(Record) /\ p # <<>> /\ p[1] \in OfAccount(watcher[w].account)
  <2>1. p \in Seq(Record)
    BY DEF TypeOK, PollRow
  <2> QED BY <2>1 DEF PageInv, TypeOK
<1>2. Len(p) \in Nat \ {0} /\ Head(p) = p[1]
  <2> HIDE DEF p
  <2> QED BY <1>1
<1>3. p[1] \in 1..Len(ledger) /\ p[1] \in Record
  BY <1>1, ConstantsAssumption DEF OfAccount, TypeOK, Record
<1>4. ledger[p[1]] \in Paid
  BY <1>3 DEF TypeOK
<1> QED BY <1>1, <1>2, <1>3, <1>4 DEF Current, OfAccount

\* A poll that has done with its record.
Persisting(w, s) == [NoPoll EXCEPT !.pc = "persist", !.page = poll[w][s].page]

LEMMA AdvanceEffect ==
  ASSUME TypeOK, NEW w \in Watcher, NEW s \in Slot, PageInv(w, s),
         poll[w][s].pc # "idle", Advance(w, s)
  PROVE  /\ Become(w, s, Persisting(w, s)) /\ Persisting(w, s) \in PollRow
         /\ poll' \in [Watcher -> [Slot -> PollRow]]
         /\ watcher' \in [Watcher -> WatcherRow \cup {None}]
         /\ watcher'[w] \in WatcherRow
         /\ watcher'[w].cursor = Current(w, s)
         /\ watcher'[w].account = watcher[w].account
         /\ \A v \in Watcher : v # w => watcher'[v] = watcher[v]
<1>1. /\ watcher[w] \in WatcherRow /\ poll[w][s].page \in Seq(Record)
      /\ Current(w, s) \in 0..MaxPayments
  BY CurrentRecord DEF Record
<1>2. Become(w, s, Persisting(w, s))
  BY DEF Advance, Persisting
<1>3. Persisting(w, s) \in PollRow
  BY <1>1 DEF Persisting, NoPoll, PollRow
<1>4. watcher' = [watcher EXCEPT ![w] = [watcher[w] EXCEPT !.cursor = Current(w, s)]]
  BY DEF Advance
<1>5. /\ [watcher[w] EXCEPT !.cursor = Current(w, s)] \in WatcherRow
      /\ [watcher[w] EXCEPT !.cursor = Current(w, s)].cursor = Current(w, s)
      /\ [watcher[w] EXCEPT !.cursor = Current(w, s)].account = watcher[w].account
  BY <1>1 DEF WatcherRow
<1>6. /\ watcher' \in [Watcher -> WatcherRow \cup {None}]
      /\ watcher'[w] = [watcher[w] EXCEPT !.cursor = Current(w, s)]
      /\ \A v \in Watcher : v # w => watcher'[v] = watcher[v]
  BY <1>4, <1>5 DEF TypeOK
<1> QED BY <1>2, <1>3, <1>5, <1>6, BecomeEffect
---------------------------------------------------------------------------
(* Types.                                                                  *)

\* The parts of TypeOK that polls touch and that they do not.
TypesOfTables ==
  /\ address \in Account
  /\ orders \in [Order -> OrderRow \cup {None}]
  /\ subs \in [Sub -> SubRow]
  /\ webhooks \subseteq Order \X EventTypes
  /\ ledger \in Seq(Paid) /\ Len(ledger) <= MaxPayments
  /\ request \in [Request -> OrderRow \cup {None}]
  /\ history \in History

TypesOfPolls ==
  /\ state \in [Account -> Record \cup {None}]
  /\ watcher \in [Watcher -> WatcherRow \cup {None}]
  /\ poll \in [Watcher -> [Slot -> PollRow]]

LEMMA TypesSplit == TypeOK <=> TypesOfTables /\ TypesOfPolls
BY DEF TypeOK, TypesOfTables, TypesOfPolls

LEMMA InitTyped == Init => TypeOK
<1> SUFFICES ASSUME Init
             PROVE  TypeOK
  OBVIOUS
<1>1. NoPoll \in PollRow
  BY DEF NoPoll, PollRow
<1>2. [charges_done |-> 0, overdue |-> FALSE, status |-> "active"] \in SubRow
  BY DEF SubRow
<1>3. <<>> \in Seq(Paid) /\ Len(<<>>) = 0
  OBVIOUS
<1>4. history \in History
  BY DEF Init, History
<1> QED BY <1>1, <1>2, <1>3, <1>4, ConstantsAssumption DEF Init, TypeOK

\* Everything but a poll's own steps.
Outside ==
  \/ \E q \in Request : OrderRequest(q)
  \/ \E q \in Request, s \in Sub : ChargeRequest(q, s)
  \/ \E q \in Request, i \in Order : CreateOrder(q, i)
  \/ \E i \in Order : CancelOrder(i)
  \/ \E s \in Sub, status \in Patch : PatchSub(s, status)
  \/ \E a \in Account : Rotate(a)
  \/ \E i \in Order, a \in Account, amount \in Payment, usdc \in Genuine : Pay(i, a, amount, usdc)
  \/ Lapse
  \/ Expire

LEMMA PreparedRow ==
  ASSUME TypeOK, NEW s \in Sub \cup {None}
  PROVE  [status |-> "pending", merchant_stellar_address |-> address,
          subscription_id |-> s, tx_hash |-> 0, overdue |-> FALSE] \in OrderRow
<1>1. 0 \in 0..MaxPayments
  BY ConstantsAssumption
<1> QED BY <1>1 DEF TypeOK, OrderRow, Status

LEMMA OutsideTyped ==
  ASSUME TypeOK, Outside
  PROVE  TypesOfTables' /\ UNCHANGED <<state, watcher, poll>>
<1> USE DEF TypesOfTables, TypeOK
<1>1. ASSUME NEW q \in Request, OrderRequest(q)
      PROVE  TypesOfTables' /\ UNCHANGED <<state, watcher, poll>>
  BY <1>1, PreparedRow DEF OrderRequest, Prepare, tables
<1>2. ASSUME NEW q \in Request, NEW s \in Sub, ChargeRequest(q, s)
      PROVE  TypesOfTables' /\ UNCHANGED <<state, watcher, poll>>
  <2>1. [subs[s] EXCEPT !.status = "expired"] \in SubRow
    BY DEF SubRow
  <2>2. subs' \in [Sub -> SubRow] /\ request' \in [Request -> OrderRow \cup {None}]
    <3>1. CASE subs' = [subs EXCEPT ![s].status = "expired"] /\ request' = request
      BY <2>1, <3>1
    <3>2. CASE Prepare(q, s) /\ subs' = subs
      BY <3>2, PreparedRow DEF Prepare
    <3> QED BY <1>2, <3>1, <3>2 DEF ChargeRequest
  <2> QED BY <1>2, <2>2 DEF ChargeRequest
<1>3. ASSUME NEW q \in Request, NEW i \in Order, CreateOrder(q, i)
      PROVE  TypesOfTables' /\ UNCHANGED <<state, watcher, poll>>
  BY <1>3 DEF CreateOrder
<1>4. ASSUME NEW i \in Order, CancelOrder(i)
      PROVE  TypesOfTables' /\ UNCHANGED <<state, watcher, poll>>
  <2>1. [orders[i] EXCEPT !.status = "cancelled"] \in OrderRow
    BY <1>4 DEF CancelOrder, OrderRow, Status
  <2> QED BY <1>4, <2>1 DEF CancelOrder, api
<1>5. ASSUME NEW s \in Sub, NEW status \in Patch, PatchSub(s, status)
      PROVE  TypesOfTables' /\ UNCHANGED <<state, watcher, poll>>
  <2>1. status \in {"active", "paused", "cancelled"}
    BY ConstantsAssumption
  <2>2. [subs[s] EXCEPT !.status = status] \in SubRow
    BY <2>1 DEF SubRow
  <2> QED BY <1>5, <2>2 DEF PatchSub, api
<1>6. ASSUME NEW a \in Account, Rotate(a)
      PROVE  TypesOfTables' /\ UNCHANGED <<state, watcher, poll>>
  BY <1>6 DEF Rotate, tables
<1>7. ASSUME NEW i \in Order, NEW a \in Account, NEW amount \in Payment,
             NEW usdc \in Genuine, Pay(i, a, amount, usdc)
      PROVE  TypesOfTables' /\ UNCHANGED <<state, watcher, poll>>
  <2> DEFINE e == [memo |-> i, to |-> a, amount |-> amount, usdc |-> usdc]
  <2>1. e \in Paid
    BY ConstantsAssumption DEF Paid
  <2>2. ledger' = Append(ledger, e) /\ Len(ledger) < MaxPayments /\ MaxPayments \in Nat
    BY <1>7, ConstantsAssumption DEF Pay
  <2>3. ledger' \in Seq(Paid) /\ Len(ledger') <= MaxPayments
    <3> HIDE DEF e
    <3> QED BY <2>1, <2>2
  <2>4. Len(ledger) + 1 \in Record
    BY <2>2 DEF Record
  <2>5. history' \in History
    <3> DEFINE n == Len(ledger) + 1
    <3>1. history' = [history EXCEPT !.early = @ \cup {n}] \/ history' = history
      BY <1>7 DEF Pay
    <3> HIDE DEF n
    <3>2. n \in Record => [history EXCEPT !.early = @ \cup {n}] \in History
      BY DEF History
    <3> QED BY <2>4, <3>1, <3>2 DEF n
  <2> QED BY <1>7, <2>3, <2>5 DEF Pay, tables, api
<1>8. ASSUME Lapse
      PROVE  TypesOfTables' /\ UNCHANGED <<state, watcher, poll>>
  <2>1. \A i \in Order : orders[i] # None => [orders[i] EXCEPT !.overdue = TRUE] \in OrderRow
    BY DEF OrderRow
  <2>2. \A s \in Sub : [subs[s] EXCEPT !.overdue = TRUE] \in SubRow
    BY DEF SubRow
  <2> QED BY <1>8, <2>1, <2>2 DEF Lapse, api
<1>9. ASSUME Expire
      PROVE  TypesOfTables' /\ UNCHANGED <<state, watcher, poll>>
  <2>1. \A i \in Order : orders[i] # None => [orders[i] EXCEPT !.status = "expired"] \in OrderRow
    BY DEF OrderRow, Status
  <2>2. orders' \in [Order -> OrderRow \cup {None}]
    BY <1>9, <2>1 DEF Expire
  <2>3. webhooks' \subseteq Order \X EventTypes
    <3> DEFINE gone == {j \in Order : orders'[j] # None /\ orders'[j].status = "expired"}
    <3>1. webhooks' = webhooks \cup {<<i, "order.expired">> : i \in gone}
      BY <1>9 DEF Expire
    <3>2. gone \subseteq Order
      OBVIOUS
    <3> HIDE DEF gone
    <3> QED BY <3>1, <3>2 DEF EventTypes
  <2> QED BY <1>9, <2>2, <2>3 DEF Expire, api
<1> QED BY <1>1, <1>2, <1>3, <1>4, <1>5, <1>6, <1>7, <1>8, <1>9 DEF Outside

\* Records that go amiss are noted under their cause and nowhere else.
LEMMA AmissEffect ==
  ASSUME TypeOK, NEW cause \in {"failed", "drifted", "behind"}, NEW R \in SUBSET Record,
         Amiss(cause, R)
  PROVE  /\ history' \in History
         /\ amiss \subseteq amiss'
         /\ history'.early = history.early
         /\ history.behind \subseteq history'.behind
         /\ history'.behind \subseteq history.behind \cup R
         /\ cause # "behind" => history'.behind = history.behind
         /\ \A r \in R : ledger[r].usdc /\ orders[ledger[r].memo].status = "pending"
              => r \in amiss'
<1> DEFINE L == {r \in R \ amiss : ledger[r].usdc /\ orders[ledger[r].memo].status = "pending"}
           h == [history EXCEPT ![cause] = @ \cup L]
<1>1. history \in History /\ L \subseteq Record /\ L \subseteq R /\ history' = h
  BY DEF TypeOK, Amiss
<1>2. /\ h \in History
      /\ h[cause] = history[cause] \cup L
      /\ \A c \in {"early", "failed", "drifted", "behind"} : c # cause => h[c] = history[c]
  <2> HIDE DEF L
  <2> QED BY <1>1 DEF History
<1> HIDE DEF h
<1>3. /\ history'.early = history.early
      /\ history.failed \subseteq history'.failed
      /\ history.drifted \subseteq history'.drifted
      /\ history.behind \subseteq history'.behind
      /\ history'.behind \subseteq history.behind \cup L
      /\ cause # "behind" => history'.behind = history.behind
      /\ L \subseteq history'.failed \cup history'.drifted \cup history'.behind
  <2> HIDE DEF L
  <2>1. CASE cause = "failed"
    BY <1>1, <1>2, <2>1
  <2>2. CASE cause = "drifted"
    BY <1>1, <1>2, <2>2
  <2>3. CASE cause = "behind"
    BY <1>1, <1>2, <2>3
  <2> QED BY <2>1, <2>2, <2>3
<1>4. amiss \subseteq amiss' /\ L \subseteq amiss'
  BY <1>3 DEF amiss
<1> QED BY <1>1, <1>2, <1>3, <1>4

\* A watcher's first cursor, when it begins at the head.
LEMMA HeadEffect ==
  ASSUME TypeOK, NEW w \in Watcher, FetchHead(w)
  PROVE  \E head \in 0..Len(ledger) :
           LET passed == {r \in OfAccount(watcher[w].account) : r <= head}
           IN /\ watcher' \in [Watcher -> WatcherRow \cup {None}]
              /\ watcher'[w] # None /\ watcher'[w] \in WatcherRow
              /\ watcher'[w].account = watcher[w].account
              /\ watcher'[w].cursor = head /\ watcher'[w].stage = "polling"
              /\ \A v \in Watcher : v # w => watcher'[v] = watcher[v]
              /\ history' \in History /\ amiss \subseteq amiss'
              /\ history'.early = history.early
              /\ history'.behind \subseteq history.behind \cup passed
              /\ watcher[w].stage # "fresh" => history'.behind = history.behind
              /\ \A r \in passed : ledger[r].usdc /\ orders[ledger[r].memo].status = "pending"
                   => r \in amiss'
<1> DEFINE payments == OfAccount(watcher[w].account)
           row == watcher[w]
           cause == IF row.stage = "blind" THEN "failed" ELSE "behind"
<1>1. /\ row \in WatcherRow /\ row.stage \in {"fresh", "blind"}
      /\ ledger \in Seq(Paid) /\ Len(ledger) \in Nat /\ Len(ledger) <= MaxPayments
      /\ MaxPayments \in Nat
  BY ConstantsAssumption DEF FetchHead, TypeOK
<1>2. payments \subseteq 1..Len(ledger) /\ payments \subseteq Record
  BY <1>1 DEF OfAccount, Record
<1>3. PICK head \in {0} \cup Newest(payments) :
        /\ watcher' = [watcher EXCEPT ![w] = [row EXCEPT !.cursor = head, !.stage = "polling"]]
        /\ Amiss(cause, {r \in payments : r <= head})
  BY DEF FetchHead
<1>4. head \in 0..Len(ledger) /\ head \in 0..MaxPayments
  BY <1>1, <1>2 DEF Newest
<1> DEFINE passed == {r \in payments : r <= head}
           new == [row EXCEPT !.cursor = head, !.stage = "polling"]
<1>5. /\ new \in WatcherRow /\ new.account = row.account
      /\ new.cursor = head /\ new.stage = "polling"
  <2> HIDE DEF row
  <2> QED BY <1>1, <1>4 DEF WatcherRow
<1>6. /\ watcher' \in [Watcher -> WatcherRow \cup {None}]
      /\ watcher'[w] = new
      /\ \A v \in Watcher : v # w => watcher'[v] = watcher[v]
  <2> HIDE DEF new
  <2> QED BY <1>3, <1>5 DEF TypeOK, new
<1>7. passed \in SUBSET Record /\ cause \in {"failed", "drifted", "behind"}
  BY <1>2
<1>8. /\ history' \in History /\ amiss \subseteq amiss'
      /\ history'.early = history.early
      /\ history'.behind \subseteq history.behind \cup passed
      /\ cause # "behind" => history'.behind = history.behind
      /\ \A r \in passed : ledger[r].usdc /\ orders[ledger[r].memo].status = "pending"
           => r \in amiss'
  <2> HIDE DEF passed, cause
  <2> QED BY <1>3, <1>7, AmissEffect DEF passed
<1>9. row.stage # "fresh" => cause # "behind"
  BY <1>1
<1> HIDE DEF new, cause
<1> QED BY <1>4, <1>5, <1>6, <1>8, <1>9, NoneAssumption

LEMMA WatcherTyped ==
  ASSUME IInv, NEW w \in Watcher, OpenWatcher(w) \/ FetchHead(w) \/ CloseWatcher(w) \/ Crash(w)
  PROVE  TypeOK'
<1>1. TypeOK
  BY DEF IInv
<1> USE <1>1 DEF TypeOK
<1>2. CASE OpenWatcher(w)
  <2>1. PICK cursor \in {0, state[address]}, stage \in {"fresh", "blind", "polling"} :
          /\ cursor = 0 \/ state[address] # None
          /\ watcher' = [watcher EXCEPT ![w] =
               [account |-> address, cursor |-> cursor, stage |-> stage]]
    BY <1>2 DEF OpenWatcher
  <2>2. cursor \in 0..MaxPayments
    BY <2>1, ConstantsAssumption DEF Record
  <2>3. [account |-> address, cursor |-> cursor, stage |-> stage] \in WatcherRow
    BY <2>2 DEF WatcherRow
  <2>4. watcher' \in [Watcher -> WatcherRow \cup {None}]
    BY <2>1, <2>3
  <2> QED BY <1>2, <2>4 DEF OpenWatcher, tables, api
<1>3. CASE FetchHead(w)
  <2>1. watcher[w] \in WatcherRow /\ UNCHANGED <<tables, ledger, state, poll, api>>
    BY <1>3 DEF FetchHead
  <2>2. watcher' \in [Watcher -> WatcherRow \cup {None}] /\ history' \in History
    BY <1>3, HeadEffect
  <2> QED BY <2>1, <2>2 DEF tables, api
<1>4. CASE CloseWatcher(w)
  <2>1. watcher[w] \in WatcherRow
    BY <1>4 DEF CloseWatcher
  <2>2. [watcher[w] EXCEPT !.stage = "stopped"] \in WatcherRow
    BY <2>1 DEF WatcherRow
  <2>3. watcher' = [watcher EXCEPT ![w] = [watcher[w] EXCEPT !.stage = "stopped"]]
    BY <1>4 DEF CloseWatcher
  <2>4. watcher' \in [Watcher -> WatcherRow \cup {None}]
    BY <2>2, <2>3
  <2> QED BY <1>4, <2>4 DEF CloseWatcher, tables, api
<1>5. CASE Crash(w)
  <2>1. NoPoll \in PollRow
    BY DEF NoPoll, PollRow
  <2> QED BY <1>5, <2>1 DEF Crash, tables, api
<1> QED BY <1>2, <1>3, <1>4, <1>5

LEMMA GotoEffect ==
  ASSUME TypeOK, NEW w \in Watcher, NEW s \in Slot,
         NEW pc \in {"record", "update", "readsub", "writesub", "webhook", "persist"},
         Goto(w, s, pc)
  PROVE  /\ poll' \in [Watcher -> [Slot -> PollRow]]
         /\ poll'[w][s].pc = pc /\ poll'[w][s].page = poll[w][s].page
         /\ poll'[w][s].order = poll[w][s].order
         /\ poll'[w][s].outcome = poll[w][s].outcome
         /\ poll'[w][s].sub = poll[w][s].sub
         /\ \A v \in Watcher, t \in Slot : v # w \/ t # s => poll'[v][t] = poll[v][t]
<1> DEFINE p == poll[w][s]
           q == [p EXCEPT !.pc = pc]
<1>1. p \in PollRow
  BY DEF TypeOK
<1>2. /\ q \in PollRow /\ q.pc = pc /\ q.page = p.page /\ q.order = p.order
      /\ q.outcome = p.outcome /\ q.sub = p.sub
  <2> HIDE DEF p
  <2> QED BY <1>1 DEF PollRow
<1>3. Become(w, s, q)
  BY DEF Goto
<1> HIDE DEF p, q
<1>4. /\ poll' \in [Watcher -> [Slot -> PollRow]]
      /\ poll'[w][s] = q
      /\ \A v \in Watcher, t \in Slot : v # w \/ t # s => poll'[v][t] = poll[v][t]
  BY <1>2, <1>3, BecomeEffect
<1> QED BY <1>2, <1>4 DEF p

LEMMA FetchEffect ==
  ASSUME TypeOK, NEW w \in Watcher, NEW s \in Slot, FetchPage(w, s)
  PROVE  \E page \in Seq(Record) :
           LET ahead == {r \in OfAccount(watcher[w].account) : r > watcher[w].cursor}
           IN /\ page # <<>> /\ \A n \in DOMAIN page : page[n] \in ahead
              /\ IsPage(page, ahead)
              /\ Become(w, s, [NoPoll EXCEPT !.pc = "record", !.page = page])
              /\ [NoPoll EXCEPT !.pc = "record", !.page = page] \in PollRow
<1> DEFINE ahead == {r \in OfAccount(watcher[w].account) : r > watcher[w].cursor}
<1>1. PICK page \in UNION {[1..n -> ahead] : n \in 1..PAGE_LIMIT} :
        /\ IsPage(page, ahead)
        /\ Become(w, s, [NoPoll EXCEPT !.pc = "record", !.page = page])
  BY DEF FetchPage
<1>2. ahead \subseteq Record
  BY ConstantsAssumption DEF OfAccount, Record, TypeOK
<1>3. PICK n \in 1..PAGE_LIMIT : page \in [1..n -> ahead]
  OBVIOUS
<1>4. n \in Nat \ {0} /\ page \in [1..n -> Record]
  BY <1>2, <1>3, ConstantsAssumption
<1>5. page \in Seq(Record) /\ DOMAIN page = 1..n
  BY <1>4, SeqDef
<1>6. page # <<>> /\ \A m \in DOMAIN page : page[m] \in ahead
  BY <1>3, <1>4, <1>5
<1>7. [NoPoll EXCEPT !.pc = "record", !.page = page] \in PollRow
  BY <1>5 DEF NoPoll, PollRow
<1> QED BY <1>1, <1>5, <1>6, <1>7

\* The settling update.
Settled(i, outcome, r) == [orders EXCEPT ![i].status = outcome, ![i].tx_hash = r]

LEMMA SettledEffect ==
  ASSUME TypeOK, NEW i \in Order, orders[i] # None, NEW outcome \in {"paid", "underpaid"},
         NEW r \in Record
  PROVE  /\ Settled(i, outcome, r) \in [Order -> OrderRow \cup {None}]
         /\ \A j \in Order : j # i => Settled(i, outcome, r)[j] = orders[j]
         /\ Settled(i, outcome, r)[i].status = outcome
         /\ Settled(i, outcome, r)[i].tx_hash = r
         /\ Settled(i, outcome, r)[i].subscription_id = orders[i].subscription_id
         /\ Settled(i, outcome, r)[i] \in OrderRow
<1>1. orders[i] \in OrderRow /\ outcome \in Status /\ r \in 0..MaxPayments
  BY DEF TypeOK, Status, Record
<1> DEFINE o == orders[i]
           row == [o EXCEPT !.status = outcome, !.tx_hash = r]
<1>2. /\ row \in OrderRow /\ row.status = outcome /\ row.tx_hash = r
      /\ row.subscription_id = o.subscription_id
  <2> HIDE DEF o
  <2> QED BY <1>1 DEF OrderRow, o
<1>3. Settled(i, outcome, r) = [orders EXCEPT ![i] = row]
  BY DEF Settled, TypeOK
<1> HIDE DEF row
<1> QED BY <1>2, <1>3 DEF TypeOK

\* Lookup takes the order to the reconciler, or is done with the record.
Taken(w, s) ==
  LET e == ledger[Current(w, s)]
  IN [poll[w][s] EXCEPT !.pc = "update", !.order = e.memo,
                        !.outcome = matchPaymentToOrder(e, address)]

LEMMA TakenTyped ==
  ASSUME TypeOK, NEW w \in Watcher, NEW s \in Slot, PageInv(w, s), poll[w][s].pc # "idle"
  PROVE  LET q == Taken(w, s)
             e == ledger[Current(w, s)]
         IN /\ q \in PollRow /\ q.pc = "update" /\ q.order = e.memo
            /\ q.page = poll[w][s].page
            /\ q.outcome = matchPaymentToOrder(e, address)
<1> DEFINE e == ledger[Current(w, s)]
           outcome == matchPaymentToOrder(e, address)
           row == poll[w][s]
<1>1. e \in Paid /\ row \in PollRow
  BY CurrentRecord DEF TypeOK
<1>2. e.memo \in Order /\ outcome \in {"paid", "underpaid", "ignore"}
  BY <1>1 DEF Paid, matchPaymentToOrder
<1>3. Taken(w, s) = [row EXCEPT !.pc = "update", !.order = e.memo, !.outcome = outcome]
  BY DEF Taken
<1> HIDE DEF e, outcome, row
<1>4. LET q == [row EXCEPT !.pc = "update", !.order = e.memo, !.outcome = outcome]
      IN /\ q \in PollRow /\ q.pc = "update" /\ q.order = e.memo /\ q.outcome = outcome
         /\ q.page = row.page
  BY <1>1, <1>2 DEF PollRow
<1> QED BY <1>3, <1>4 DEF e, outcome, row

\* The step after the settling update, with the subscription it will count.
Reconciled(w, s) ==
  LET p == poll[w][s]
      sub == orders[p.order].subscription_id
  IN [p EXCEPT !.pc = IF (IF p.outcome = "paid" THEN sub ELSE None) = None
                      THEN "webhook" ELSE "readsub",
               !.sub = sub]

LEMMA ReconciledTyped ==
  ASSUME TypeOK, NEW w \in Watcher, NEW s \in Slot, poll[w][s].order \in Order,
         orders[poll[w][s].order] # None
  PROVE  LET q == Reconciled(w, s)
             p == poll[w][s]
             sub == orders[p.order].subscription_id
         IN /\ q \in PollRow /\ q.order = p.order /\ q.outcome = p.outcome
            /\ q.page = p.page /\ q.sub = sub
            /\ q.pc = IF p.outcome = "paid" /\ sub # None THEN "readsub" ELSE "webhook"
<1> DEFINE row == poll[w][s]
           sub == orders[row.order].subscription_id
           pc == IF (IF row.outcome = "paid" THEN sub ELSE None) = None
                 THEN "webhook" ELSE "readsub"
<1>1. row \in PollRow /\ sub \in Sub \cup {None}
  BY DEF TypeOK, OrderRow
<1>2. Reconciled(w, s) = [row EXCEPT !.pc = pc, !.sub = sub]
  BY DEF Reconciled
<1>3. /\ pc \in {"webhook", "readsub"}
      /\ pc = IF row.outcome = "paid" /\ sub # None THEN "readsub" ELSE "webhook"
  OBVIOUS
<1> HIDE DEF row, sub, pc
<1>4. LET q == [row EXCEPT !.pc = pc, !.sub = sub]
      IN /\ q \in PollRow /\ q.order = row.order /\ q.outcome = row.outcome
         /\ q.page = row.page /\ q.sub = sub /\ q.pc = pc
  BY <1>1, <1>3 DEF PollRow
<1> QED BY <1>2, <1>3, <1>4 DEF row, sub

\* What all steps of one poll have in common.
OnlyPoll(w, s) ==
  /\ poll' \in [Watcher -> [Slot -> PollRow]]
  /\ \A v \in Watcher, t \in Slot : v # w \/ t # s => poll'[v][t] = poll[v][t]
  /\ watcher' \in [Watcher -> WatcherRow \cup {None}]
  /\ watcher[w] # None /\ watcher'[w] # None /\ watcher'[w].account = watcher[w].account
  /\ \A v \in Watcher : v # w => watcher'[v] = watcher[v]
  /\ ledger' = ledger /\ amiss \subseteq amiss'

LEMMA PollTyped ==
  ASSUME IInv, NEW w \in Watcher, NEW s \in Slot, Poll(w, s)
  PROVE  OnlyPoll(w, s) /\ TypeOK'
<1> DEFINE p == poll[w][s]
           r == Current(w, s)
           Goal == OnlyPoll(w, s) /\ TypeOK'
<1> SUFFICES Goal
  OBVIOUS
<1>1. TypeOK /\ TypesOfTables /\ TypesOfPolls /\ PageInv(w, s) /\ DecisionInv(w, s)
  BY TypesSplit DEF IInv
<1>2. watcher[w] \in WatcherRow /\ watcher[w] # None
  <2>1. watcher[w] # None
    BY DEF Poll, FetchPage, PollFails, Lookup, LookupFails, Reconcile, ReconcileFails,
           ReadSub, WriteSub, Enqueue, Persist, At
  <2> QED BY <1>1, <2>1 DEF TypeOK
<1>3. p \in PollRow /\ NoPoll \in PollRow
  BY <1>1 DEF TypeOK, NoPoll, PollRow
<1>4. p.pc # "idle" => r \in Record /\ p.page \in Seq(Record) /\ p.page # <<>>
  BY <1>1, CurrentRecord
<1>5. p.pc \in {"update", "readsub", "writesub", "webhook"} =>
        p.order \in Order /\ p.outcome \in {"paid", "underpaid"} /\ orders[p.order] # None
  <2>1. p.order \in Order \cup {None} /\ p.outcome \in {"paid", "underpaid", "ignore"}
    BY <1>3 DEF PollRow
  <2> HIDE DEF p
  <2> QED BY <1>1, <2>1 DEF DecisionInv, Settles, IInv, RowsInv, p
<1>6. ASSUME NEW q \in PollRow, Become(w, s, q), ledger' = ledger, watcher' = watcher,
             amiss \subseteq amiss', TypesOfTables', state' \in [Account -> Record \cup {None}]
      PROVE  Goal
  <2>1. /\ poll' \in [Watcher -> [Slot -> PollRow]]
        /\ \A v \in Watcher, t \in Slot : v # w \/ t # s => poll'[v][t] = poll[v][t]
    BY <1>1, <1>6, BecomeEffect
  <2>2. OnlyPoll(w, s)
    BY <1>1, <1>2, <1>6, <2>1 DEF OnlyPoll, TypesOfPolls
  <2>3. TypeOK'
    BY <1>1, <1>6, <2>1 DEF TypeOK, TypesOfTables, TypesOfPolls
  <2> QED BY <2>2, <2>3
<1>7. ASSUME p.pc # "idle", Advance(w, s), ledger' = ledger,
             amiss \subseteq amiss', TypesOfTables', state' = state
      PROVE  Goal
  <2>1. /\ poll' \in [Watcher -> [Slot -> PollRow]]
        /\ \A v \in Watcher, t \in Slot : v # w \/ t # s => poll'[v][t] = poll[v][t]
    <3>1. PICK q \in PollRow : Become(w, s, q)
      BY <1>1, <1>7, AdvanceEffect
    <3> QED BY <1>1, <3>1, BecomeEffect
  <2>2. /\ watcher' \in [Watcher -> WatcherRow \cup {None}]
        /\ watcher'[w] # None /\ watcher'[w].account = watcher[w].account
        /\ \A v \in Watcher : v # w => watcher'[v] = watcher[v]
    BY <1>1, <1>7, AdvanceEffect, NoneAssumption
  <2>3. OnlyPoll(w, s)
    BY <1>2, <1>7, <2>1, <2>2 DEF OnlyPoll
  <2>4. TypeOK'
    BY <1>1, <1>7, <2>1, <2>2 DEF TypeOK, TypesOfTables, TypesOfPolls
  <2> QED BY <2>3, <2>4
<1>8. ASSUME NEW pc \in {"record", "update", "readsub", "writesub", "webhook", "persist"},
             Goto(w, s, pc), ledger' = ledger, watcher' = watcher,
             amiss \subseteq amiss', TypesOfTables', state' = state
      PROVE  Goal
  <2>1. /\ poll' \in [Watcher -> [Slot -> PollRow]]
        /\ \A v \in Watcher, t \in Slot : v # w \/ t # s => poll'[v][t] = poll[v][t]
    BY <1>1, <1>8, GotoEffect
  <2>2. OnlyPoll(w, s)
    BY <1>1, <1>2, <1>8, <2>1 DEF OnlyPoll, TypesOfPolls
  <2>3. TypeOK'
    BY <1>1, <1>8, <2>1 DEF TypeOK, TypesOfTables, TypesOfPolls
  <2> QED BY <2>2, <2>3
<1>9. UNCHANGED <<tables, ledger, api, history>> => TypesOfTables' /\ amiss' = amiss
  BY <1>1 DEF TypesOfTables, tables, api, amiss
<1> HIDE DEF Goal
<1>10. CASE FetchPage(w, s)
  <2>1. PICK page \in Seq(Record) :
          /\ Become(w, s, [NoPoll EXCEPT !.pc = "record", !.page = page])
          /\ [NoPoll EXCEPT !.pc = "record", !.page = page] \in PollRow
    BY <1>1, <1>10, FetchEffect
  <2> QED BY <1>6, <1>9, <1>10, <2>1, <1>1 DEF FetchPage, TypesOfPolls
<1>11. CASE PollFails(w, s)
  BY <1>1, <1>3, <1>6, <1>9, <1>11 DEF PollFails, TypesOfPolls
<1>12. CASE Lookup(w, s)
  <2>1. p.pc = "record" /\ UNCHANGED <<tables, ledger, state, api>>
    BY <1>12 DEF Lookup, At
  <2>2. amiss \subseteq amiss' /\ history' \in History
    <3>1. CASE Amiss("drifted", {r})
      BY <1>1, <1>4, <2>1, <3>1, AmissEffect
    <3>2. CASE history' = history
      BY <1>1, <3>2 DEF TypeOK, amiss
    <3> QED BY <1>12, <3>1, <3>2 DEF Lookup
  <2>3. TypesOfTables'
    BY <1>1, <2>1, <2>2 DEF TypesOfTables, tables, api
  <2>4. CASE Advance(w, s)
    BY <1>7, <2>1, <2>2, <2>3, <2>4
  <2>5. CASE Become(w, s, Taken(w, s)) /\ watcher' = watcher
    BY <1>1, <1>6, <2>1, <2>2, <2>3, <2>5, TakenTyped DEF TypesOfPolls
  <2> QED BY <1>12, <2>4, <2>5 DEF Lookup, Taken
<1>13. CASE LookupFails(w, s)
  <2>1. p.pc = "record" /\ Advance(w, s) /\ UNCHANGED <<tables, ledger, state, api>>
        /\ Amiss("failed", {r})
    BY <1>13 DEF LookupFails, At
  <2>2. amiss \subseteq amiss' /\ history' \in History
    BY <1>1, <1>4, <2>1, AmissEffect
  <2>3. TypesOfTables'
    BY <1>1, <2>1, <2>2 DEF TypesOfTables, tables, api
  <2> QED BY <1>7, <2>1, <2>2, <2>3
<1>14. CASE Reconcile(w, s)
  <2>1. p.pc = "update" /\ UNCHANGED <<subs, webhooks, ledger, state, api, history>>
        /\ amiss' = amiss
    BY <1>14 DEF Reconcile, At, amiss
  <2>2. CASE Advance(w, s) /\ orders' = orders
    <3>1. TypesOfTables'
      BY <1>1, <2>1, <2>2 DEF TypesOfTables, api
    <3> QED BY <1>7, <2>1, <2>2, <3>1
  <2>3. CASE /\ orders' = Settled(p.order, p.outcome, r)
             /\ Become(w, s, Reconciled(w, s)) /\ watcher' = watcher
    <3>1. orders' \in [Order -> OrderRow \cup {None}]
      BY <1>1, <1>4, <1>5, <2>1, <2>3, SettledEffect
    <3>2. TypesOfTables'
      BY <1>1, <2>1, <3>1 DEF TypesOfTables, api
    <3> QED BY <1>1, <1>5, <1>6, <2>1, <2>3, <3>2, ReconciledTyped DEF TypesOfPolls
  <2> QED BY <1>14, <2>2, <2>3 DEF Reconcile, Settled, Reconciled
<1>15. CASE ReconcileFails(w, s)
  <2>1. p.pc = "update" /\ UNCHANGED <<subs, webhooks, ledger, state, api>>
        /\ Advance(w, s) /\ (Amiss("failed", {r}) \/ history' = history)
    BY <1>15 DEF ReconcileFails, At
  <2>2. orders' = orders \/ orders' = Settled(p.order, p.outcome, r)
    BY <1>15 DEF ReconcileFails, Settled
  <2>3. orders' \in [Order -> OrderRow \cup {None}]
    BY <1>1, <1>4, <1>5, <2>1, <2>2, SettledEffect DEF TypeOK
  <2>4. amiss \subseteq amiss' /\ history' \in History
    <3>1. history' = history => amiss' = amiss
      BY DEF amiss
    <3> QED BY <1>1, <1>4, <2>1, <3>1, AmissEffect DEF TypeOK
  <2>5. TypesOfTables'
    BY <1>1, <2>1, <2>3, <2>4 DEF TypesOfTables, api
  <2> QED BY <1>7, <2>1, <2>4, <2>5
<1>16. CASE ReadSub(w, s)
  <2>1. p.pc = "readsub" /\ UNCHANGED <<tables, ledger, state, watcher, api, history>>
    BY <1>16 DEF ReadSub, At
  <2>2. p.sub \in Sub
    BY <1>1, <1>3, <2>1 DEF DecisionInv, Counting, PollRow
  <2>3. CASE Goto(w, s, "webhook")
    BY <1>8, <1>9, <2>1, <2>3
  <2>4. CASE Become(w, s, [p EXCEPT !.pc = "writesub", !.count = subs[p.sub].charges_done])
    <3>1. subs[p.sub].charges_done \in Nat
      BY <1>1, <2>2 DEF TypeOK, SubRow
    <3>2. [p EXCEPT !.pc = "writesub", !.count = subs[p.sub].charges_done] \in PollRow
      <4> DEFINE n == subs[p.sub].charges_done
      <4> HIDE DEF p, n
      <4>1. n \in Nat => [p EXCEPT !.pc = "writesub", !.count = n] \in PollRow
        BY <1>3 DEF PollRow
      <4> QED BY <3>1, <4>1 DEF n
    <3> QED BY <1>1, <1>6, <1>9, <2>1, <2>4, <3>2 DEF TypesOfPolls
  <2> QED BY <1>16, <2>3, <2>4 DEF ReadSub
<1>17. CASE WriteSub(w, s)
  <2>1. /\ p.pc = "writesub" /\ Goto(w, s, "webhook")
        /\ UNCHANGED <<orders, webhooks, ledger, state, watcher, api, history>>
        /\ amiss' = amiss
    BY <1>17 DEF WriteSub, At, amiss
  <2>2. p.sub \in Sub /\ p.count + 1 \in Nat
    BY <1>1, <1>3, <2>1 DEF DecisionInv, Counting, PollRow
  <2>3. subs' \in [Sub -> SubRow]
    <3>1. CASE subs' = subs
      BY <1>1, <3>1 DEF TypeOK
    <3>2. CASE subs' # subs
      <4> DEFINE done == max_periods # 0 /\ p.count + 1 >= max_periods
                 old == subs[p.sub]
                 n == p.count + 1
                 row == [old EXCEPT !.charges_done = n,
                                    !.status = IF done THEN "expired" ELSE @]
      <4>1. subs' = [subs EXCEPT ![p.sub] = row]
        BY <1>1, <1>17, <2>2, <3>2 DEF WriteSub, TypeOK
      <4>2. old \in SubRow /\ n \in Nat
        BY <1>1, <2>2 DEF TypeOK
      <4>3. row \in SubRow
        <5> HIDE DEF done, old, n
        <5> QED BY <4>2 DEF SubRow
      <4> QED BY <1>1, <4>1, <4>3 DEF TypeOK
    <3> QED BY <3>1, <3>2
  <2>4. TypesOfTables'
    BY <1>1, <2>1, <2>3 DEF TypesOfTables, api
  <2> QED BY <1>8, <2>1, <2>4
<1>18. CASE Enqueue(w, s)
  <2>1. /\ p.pc = "webhook" /\ Advance(w, s)
        /\ UNCHANGED <<orders, subs, ledger, state, api, history>>
        /\ webhooks' \in {webhooks, webhooks \cup {<<p.order, EventType(p.outcome, p.sub)>>}}
        /\ amiss' = amiss
    BY <1>18 DEF Enqueue, At, amiss
  <2>2. webhooks' \subseteq Order \X EventTypes
    BY <1>1, <1>5, <2>1 DEF EventType, EventTypes, TypeOK
  <2>3. TypesOfTables'
    BY <1>1, <2>1, <2>2 DEF TypesOfTables, api
  <2> QED BY <1>7, <2>1, <2>3
<1>19. CASE Persist(w, s)
  <2>1. p.pc = "persist" /\ UNCHANGED <<tables, ledger, watcher, api, history>>
    BY <1>19 DEF Persist, At
  <2>2. state' \in [Account -> Record \cup {None}]
    BY <1>1, <1>2, <1>4, <1>19, <2>1 DEF Persist, TypeOK, WatcherRow
  <2>3. Tail(p.page) \in Seq(Record)
    BY <1>4, <2>1
  <2>4. [NoPoll EXCEPT !.pc = "record", !.page = Tail(p.page)] \in PollRow
    BY <2>3 DEF NoPoll, PollRow
  <2>5. \E q \in PollRow : Become(w, s, q)
    BY <1>3, <1>19, <2>4 DEF Persist
  <2> QED BY <1>6, <1>9, <2>1, <2>2, <2>5
<1> QED BY <1>10, <1>11, <1>12, <1>13, <1>14, <1>15, <1>16, <1>17, <1>18, <1>19 DEF Poll

---------------------------------------------------------------------------
(* Nothing goes backwards.                                                 *)

LEMMA OutsideKeeps ==
  ASSUME TypeOK, Outside
  PROVE  Kept
<1> DEFINE Rows == \A i \in Order : Forward(i)
           Rest == /\ Len(ledger) <= Len(ledger')
                   /\ \A r \in 1..Len(ledger) : ledger'[r] = ledger[r]
                   /\ amiss \subseteq amiss'
<1>1. ASSUME orders' = orders
      PROVE  Rows
  BY <1>1 DEF Forward
<1>2. ASSUME ledger' = ledger, history' = history
      PROVE  Rest
  BY <1>2 DEF TypeOK, amiss
<1> HIDE DEF Rows, Rest
<1>3. ASSUME \/ \E q \in Request : OrderRequest(q)
             \/ \E q \in Request, s \in Sub : ChargeRequest(q, s)
             \/ \E s \in Sub, status \in Patch : PatchSub(s, status)
             \/ \E a \in Account : Rotate(a)
      PROVE  Rows /\ Rest
  BY <1>1, <1>2, <1>3 DEF OrderRequest, ChargeRequest, PatchSub, Rotate, tables
<1>4. ASSUME NEW q \in Request, NEW i \in Order, CreateOrder(q, i)
      PROVE  Rows /\ Rest
  <2>1. Rows
    BY <1>4 DEF CreateOrder, TypeOK, Forward, Rows
  <2> QED BY <1>2, <1>4, <2>1 DEF CreateOrder
<1>5. ASSUME NEW i \in Order, CancelOrder(i)
      PROVE  Rows /\ Rest
  <2> DEFINE o == orders[i]
             row == [o EXCEPT !.status = "cancelled"]
  <2>1. o \in OrderRow /\ o.status = "pending" /\ orders' = [orders EXCEPT ![i] = row]
    BY <1>5 DEF CancelOrder, TypeOK
  <2>2. row \in OrderRow /\ row.subscription_id = o.subscription_id
    <3> HIDE DEF o
    <3> QED BY <2>1 DEF OrderRow, Status
  <2>3. Rows
    <3> HIDE DEF row
    <3> QED BY <2>1, <2>2, NoneAssumption DEF TypeOK, Forward, Rows
  <2> QED BY <1>2, <1>5, <2>3 DEF CancelOrder
<1>6. ASSUME NEW i \in Order, NEW a \in Account, NEW amount \in Payment,
             NEW usdc \in Genuine, Pay(i, a, amount, usdc)
      PROVE  Rows /\ Rest
  <2> DEFINE e == [memo |-> i, to |-> a, amount |-> amount, usdc |-> usdc]
  <2>1. ledger \in Seq(Paid) /\ ledger' = Append(ledger, e) /\ orders' = orders
    BY <1>6 DEF Pay, TypeOK, tables
  <2>2. amiss' = amiss
    <3>1. CASE history' = history
      BY <3>1 DEF amiss
    <3>2. CASE history' = [history EXCEPT !.early = @ \cup {Len(ledger) + 1}]
      <4>1. /\ history'.failed = history.failed /\ history'.drifted = history.drifted
            /\ history'.behind = history.behind
        BY <3>2 DEF TypeOK, History
      <4> QED BY <4>1 DEF amiss
    <3> QED BY <1>6, <3>1, <3>2 DEF Pay
  <2>3. Rest
    <3> HIDE DEF e
    <3> QED BY <2>1, <2>2 DEF Rest
  <2> QED BY <1>1, <2>1, <2>3
<1>7. ASSUME Lapse
      PROVE  Rows /\ Rest
  <2>1. ASSUME NEW i \in Order, orders[i] # None, orders[i].status = "pending",
               orders' = [orders EXCEPT ![i].overdue = TRUE]
        PROVE  Rows
    <3> DEFINE o == orders[i]
               row == [o EXCEPT !.overdue = TRUE]
    <3>1. o \in OrderRow /\ o.status = "pending" /\ orders' = [orders EXCEPT ![i] = row]
      BY <2>1 DEF TypeOK
    <3>2. row \in OrderRow /\ row.subscription_id = o.subscription_id
      <4> HIDE DEF o
      <4> QED BY <3>1 DEF OrderRow
    <3> HIDE DEF row
    <3> QED BY <3>1, <3>2, NoneAssumption DEF TypeOK, Forward, Rows
  <2> QED BY <1>1, <1>2, <1>7, <2>1 DEF Lapse
<1>8. ASSUME Expire
      PROVE  Rows /\ Rest
  <2>1. \A i \in Order :
          \/ orders'[i] = orders[i]
          \/ /\ orders[i] # None /\ orders[i].status = "pending"
             /\ orders'[i] = [orders[i] EXCEPT !.status = "expired"]
    BY <1>8 DEF Expire, TypeOK
  <2>2. ASSUME NEW i \in Order
        PROVE  Forward(i)
    <3> DEFINE o == orders[i]
               row == [o EXCEPT !.status = "expired"]
    <3>1. CASE orders'[i] = orders[i]
      BY <3>1 DEF Forward
    <3>2. CASE o # None /\ o.status = "pending" /\ orders'[i] = row
      <4>1. o \in OrderRow
        BY <3>2 DEF TypeOK
      <4>2. row \in OrderRow /\ row.subscription_id = o.subscription_id
        <5> HIDE DEF o
        <5> QED BY <4>1 DEF OrderRow, Status
      <4> HIDE DEF row
      <4> QED BY <3>2, <4>2, NoneAssumption DEF Forward
    <3> QED BY <2>1, <3>1, <3>2
  <2> QED BY <1>2, <1>8, <2>2 DEF Expire, Rows
<1> QED BY <1>3, <1>4, <1>5, <1>6, <1>7, <1>8 DEF Outside, Kept, Rows, Rest

LEMMA SettledForward ==
  ASSUME TypeOK, NEW i \in Order, orders[i] # None, NEW outcome \in {"paid", "underpaid"},
         NEW r \in Record, orders[i].status \in AllowedPrior(outcome),
         orders' = Settled(i, outcome, r)
  PROVE  \A j \in Order : Forward(j)
<1>1. /\ orders' \in [Order -> OrderRow \cup {None}]
      /\ \A j \in Order : j # i => orders'[j] = orders[j]
      /\ orders'[i].status = outcome /\ orders'[i] \in OrderRow
      /\ orders'[i].subscription_id = orders[i].subscription_id
  BY SettledEffect
<1>2. orders'[i] # None
  BY <1>1, NoneAssumption
<1> QED BY <1>1, <1>2 DEF Forward, AllowedPrior

\* What a poll that has matched its record knows.
LEMMA DecisionTyped ==
  ASSUME IInv, NEW w \in Watcher, NEW s \in Slot,
         poll[w][s].pc \in {"update", "readsub", "writesub", "webhook"}
  PROVE  /\ poll[w][s].order \in Order /\ orders[poll[w][s].order] \in OrderRow
         /\ poll[w][s].outcome \in {"paid", "underpaid"}
         /\ Current(w, s) \in Record /\ Current(w, s) = poll[w][s].page[1]
<1> DEFINE p == poll[w][s]
<1>1. TypeOK /\ PageInv(w, s) /\ DecisionInv(w, s) /\ RowsInv /\ p \in PollRow
  BY DEF IInv, TypeOK
<1>2. /\ p.order \in Order \cup {None} /\ p.order # None
      /\ p.outcome \in {"paid", "underpaid", "ignore"} /\ p.outcome # "ignore"
      /\ Settles(p.page[1], p.order, p.outcome)
  <2>1. p.order \in Order \cup {None} /\ p.outcome \in {"paid", "underpaid", "ignore"}
    BY <1>1 DEF PollRow
  <2> QED BY <1>1, <2>1 DEF DecisionInv
<1>3. orders[p.order] # None
  BY <1>1, <1>2 DEF Settles, RowsInv
<1>4. Current(w, s) \in Record /\ Current(w, s) = p.page[1]
  BY <1>1, CurrentRecord
<1> QED BY <1>1, <1>2, <1>3, <1>4 DEF TypeOK

\* The reconciler's write, or none.
LEMMA PollOrders ==
  ASSUME NEW w \in Watcher, NEW s \in Slot, Poll(w, s)
  PROVE  \/ orders' = orders
         \/ /\ poll[w][s].pc = "update"
            /\ orders[poll[w][s].order].status \in AllowedPrior(poll[w][s].outcome)
            /\ orders' = Settled(poll[w][s].order, poll[w][s].outcome, Current(w, s))
BY DEF Poll, FetchPage, PollFails, Lookup, LookupFails, Reconcile, ReconcileFails,
       ReadSub, WriteSub, Enqueue, Persist, At, Settled, tables

LEMMA PollKeeps ==
  ASSUME IInv, NEW w \in Watcher, NEW s \in Slot, Poll(w, s)
  PROVE  Kept
<1>1. ledger' = ledger /\ amiss \subseteq amiss'
  BY PollTyped DEF OnlyPoll
<1>2. \A i \in Order : Forward(i)
  <2>1. CASE orders' = orders
    BY <2>1 DEF Forward
  <2>2. CASE /\ poll[w][s].pc = "update"
             /\ orders[poll[w][s].order].status \in AllowedPrior(poll[w][s].outcome)
             /\ orders' = Settled(poll[w][s].order, poll[w][s].outcome, Current(w, s))
    <3> DEFINE i == poll[w][s].order
               outcome == poll[w][s].outcome
               r == Current(w, s)
    <3>1. /\ i \in Order /\ orders[i] # None /\ outcome \in {"paid", "underpaid"}
          /\ r \in Record
      BY <2>2, DecisionTyped, NoneAssumption
    <3>2. orders[i].status \in AllowedPrior(outcome) /\ orders' = Settled(i, outcome, r)
      BY <2>2
    <3>3. TypeOK
      BY DEF IInv
    <3> HIDE DEF i, outcome, r
    <3> QED BY <3>1, <3>2, <3>3, SettledForward
  <2> QED BY <2>1, <2>2, PollOrders
<1> QED BY <1>1, <1>2 DEF Kept, IInv, TypeOK

LEMMA WatcherKeeps ==
  ASSUME IInv, NEW w \in Watcher, OpenWatcher(w) \/ FetchHead(w) \/ CloseWatcher(w) \/ Crash(w)
  PROVE  Kept
<1>1. orders' = orders /\ ledger' = ledger
  BY DEF OpenWatcher, FetchHead, CloseWatcher, Crash, tables
<1>2. amiss \subseteq amiss'
  <2>1. history' = history => amiss' = amiss
    BY DEF amiss
  <2>2. CASE FetchHead(w)
    BY <2>2, HeadEffect DEF IInv
  <2> QED BY <2>1, <2>2 DEF OpenWatcher, CloseWatcher, Crash
<1> QED BY <1>1, <1>2 DEF Kept, Forward, IInv, TypeOK

\* A step is one from outside, a watcher's, a poll's, or none.
LEMMA StepKeeps ==
  ASSUME IInv, [Next]_vars
  PROVE  Kept /\ TypeOK'
<1>1. CASE Outside
  <2>1. TypesOfTables' /\ UNCHANGED <<state, watcher, poll>>
    BY <1>1, OutsideTyped DEF IInv
  <2>2. TypeOK'
    BY <2>1 DEF TypesOfTables, TypeOK, IInv
  <2> QED BY <1>1, <2>2, OutsideKeeps DEF IInv
<1>2. ASSUME NEW w \in Watcher, OpenWatcher(w) \/ FetchHead(w) \/ CloseWatcher(w) \/ Crash(w)
      PROVE  Kept /\ TypeOK'
  BY <1>2, WatcherTyped, WatcherKeeps
<1>3. ASSUME NEW w \in Watcher, NEW s \in Slot, Poll(w, s)
      PROVE  Kept /\ TypeOK'
  BY <1>3, PollTyped, PollKeeps
<1>4. CASE UNCHANGED vars
  BY <1>4 DEF vars, tables, Kept, Forward, IInv, TypeOK, amiss
<1> QED BY <1>1, <1>2, <1>3, <1>4 DEF Next, Outside

---------------------------------------------------------------------------
(* What is handled stays handled, what is evidence stays evidence.         *)

LEMMA HandledStable ==
  ASSUME IInv, Kept, TypeOK', NEW r \in 1..Len(ledger), Handled(r)
  PROVE  Handled(r)'
<1>1. ledger'[r] = ledger[r] /\ amiss \subseteq amiss'
  BY DEF Kept
<1>2. ledger[r].memo \in Order /\ orders[ledger[r].memo] # None
  <2>1. ledger[r] \in Paid
    BY DEF TypeOK, IInv
  <2> QED BY <2>1 DEF IInv, RowsInv, Paid
<1>3. Forward(ledger[r].memo)
  BY <1>2 DEF Kept
<1> QED BY <1>1, <1>2, <1>3 DEF Handled, Forward

LEMMA OfAccountStable ==
  ASSUME TypeOK, Kept, TypeOK', NEW a \in Account
  PROVE  \A r \in Int : r <= Len(ledger) => (r \in OfAccount(a) <=> r \in OfAccount(a)')
BY DEF Kept, TypeOK, OfAccount

LEMMA HandledToStable ==
  ASSUME IInv, Kept, TypeOK', NEW a \in Account, NEW n \in Int, HandledTo(a, n)
  PROVE  HandledTo(a, n)'
<1>1. TypeOK /\ n <= Len(ledger) /\ n <= Len(ledger') /\ Len(ledger) \in Nat
  BY DEF HandledTo, Kept, IInv, TypeOK
<1>2. ASSUME NEW r \in OfAccount(a)', r <= n
      PROVE  Handled(r)'
  <2>1. r \in Int /\ r \in 1..Len(ledger)
    BY <1>1, <1>2 DEF OfAccount, TypeOK
  <2>2. r \in OfAccount(a)
    BY <1>1, <1>2, <2>1, OfAccountStable
  <2> QED BY <1>2, <2>1, <2>2, HandledStable DEF HandledTo
<1> QED BY <1>1, <1>2 DEF HandledTo

LEMMA SettlesStable ==
  ASSUME Kept, TypeOK, TypeOK', NEW r, NEW i, NEW status, Settles(r, i, status)
  PROVE  Settles(r, i, status)'
BY DEF Settles, Kept, Expected, TypeOK

---------------------------------------------------------------------------
(* The steps of a poll, by what they do to it.                             *)

\* The record is done with.
Finishes(w, s) ==
  /\ poll[w][s].pc \notin {"idle", "persist"}
  /\ Advance(w, s) /\ state' = state
  /\ \A r : r = Current(w, s) => Handled(r)'

\* The record is the reconciler's.
Matches(w, s) ==
  /\ poll[w][s].pc = "record"
  /\ matchPaymentToOrder(ledger[Current(w, s)], address) # "ignore"
  /\ Become(w, s, Taken(w, s))
  /\ UNCHANGED <<orders, watcher, state>>

\* The order is settled.
Settling(w, s) ==
  /\ poll[w][s].pc = "update"
  /\ orders[poll[w][s].order].status \in AllowedPrior(poll[w][s].outcome)
  /\ orders' = Settled(poll[w][s].order, poll[w][s].outcome, Current(w, s))
  /\ Become(w, s, Reconciled(w, s))
  /\ UNCHANGED <<watcher, state>>

\* The subscription's counter is read or written.
Counts(w, s) ==
  /\ poll[w][s].pc \in {"readsub", "writesub"}
  /\ poll'[w][s].pc \in {"writesub", "webhook"}
  /\ poll'[w][s].page = poll[w][s].page /\ poll'[w][s].order = poll[w][s].order
  /\ poll'[w][s].outcome = poll[w][s].outcome /\ poll'[w][s].sub = poll[w][s].sub
  /\ UNCHANGED <<orders, watcher, state>>

LEMMA PollKinds ==
  ASSUME IInv, NEW w \in Watcher, NEW s \in Slot, Poll(w, s)
  PROVE  \/ FetchPage(w, s) \/ PollFails(w, s) \/ Persist(w, s)
         \/ Finishes(w, s) \/ Matches(w, s) \/ Settling(w, s) \/ Counts(w, s)
<1> DEFINE p == poll[w][s]
           r == Current(w, s)
           Goal == \/ FetchPage(w, s) \/ PollFails(w, s) \/ Persist(w, s)
                   \/ Finishes(w, s) \/ Matches(w, s) \/ Settling(w, s) \/ Counts(w, s)
<1> SUFFICES Goal
  OBVIOUS
<1>1. TypeOK /\ PageInv(w, s) /\ DecisionInv(w, s) /\ p \in PollRow
  BY DEF IInv, TypeOK
<1>2. p.pc # "idle" => /\ r \in Record /\ r \in 1..Len(ledger) /\ r = p.page[1]
                       /\ ledger[r] \in Paid /\ ledger[r].to = watcher[w].account
  BY <1>1, CurrentRecord
<1>3. ledger' = ledger
  BY PollTyped DEF OnlyPoll
<1>4. CASE Lookup(w, s)
  <2>1. p.pc = "record" /\ UNCHANGED <<tables, ledger, state, api>>
    BY <1>4 DEF Lookup, At
  <2>2. CASE /\ orders[ledger[r].memo].status = "pending"
             /\ matchPaymentToOrder(ledger[r], address) # "ignore"
    BY <1>4, <2>1, <2>2 DEF Lookup, Matches, Taken, tables
  <2>3. CASE ~(/\ orders[ledger[r].memo].status = "pending"
               /\ matchPaymentToOrder(ledger[r], address) # "ignore")
    <3>1. Advance(w, s) /\ (ledger[r].to # address => Amiss("drifted", {r}))
      BY <1>4, <2>3 DEF Lookup
    <3>2. \/ orders[ledger[r].memo].status # "pending"
          \/ ~ledger[r].usdc \/ ledger[r].to # address
      BY <2>3 DEF matchPaymentToOrder
    <3>3. \A n : n = r => Handled(n)'
      <4>1. CASE Amiss("drifted", {r})
        BY <1>1, <1>2, <1>3, <2>1, <4>1, AmissEffect DEF Handled, tables
      <4>2. CASE ~Amiss("drifted", {r})
        BY <2>1, <3>1, <3>2, <4>2 DEF Handled, tables
      <4> QED BY <4>1, <4>2
    <3> QED BY <2>1, <3>1, <3>3 DEF Finishes
  <2> QED BY <2>2, <2>3
<1>5. CASE LookupFails(w, s) \/ ReconcileFails(w, s)
  <2>1. p.pc \in {"record", "update"} /\ Advance(w, s) /\ state' = state
    BY <1>5 DEF LookupFails, ReconcileFails, At
  <2>2. CASE orders' = orders /\ Amiss("failed", {r})
    <3>1. \A n : n = r => Handled(n)'
      BY <1>1, <1>2, <1>3, <2>1, <2>2, AmissEffect DEF Handled
    <3> QED BY <2>1, <3>1 DEF Finishes
  <2>3. CASE p.pc = "update" /\ orders' = Settled(p.order, p.outcome, r)
    <3>1. /\ p.order \in Order /\ orders[p.order] # None /\ p.outcome \in {"paid", "underpaid"}
          /\ r \in Record
      BY <2>3, DecisionTyped, NoneAssumption
    <3>2. orders'[p.order].status # "pending"
      <4> HIDE DEF p, r
      <4> QED BY <1>1, <2>3, <3>1, SettledEffect
    <3>3. ledger[r].memo = p.order
      BY <1>1, <1>2, <2>3 DEF DecisionInv, Settles
    <3>4. \A n : n = r => Handled(n)'
      BY <1>3, <3>2, <3>3 DEF Handled
    <3> QED BY <2>1, <3>4 DEF Finishes
  <2> QED BY <1>5, <2>2, <2>3 DEF LookupFails, ReconcileFails, At, Settled, tables
<1>6. CASE Reconcile(w, s)
  <2>1. p.pc = "update" /\ state' = state
    BY <1>6 DEF Reconcile, At
  <2>2. CASE orders[p.order].status \in AllowedPrior(p.outcome)
    BY <1>6, <2>1, <2>2 DEF Reconcile, Settling, Settled, Reconciled
  <2>3. CASE orders[p.order].status \notin AllowedPrior(p.outcome)
    <3>1. Advance(w, s) /\ orders' = orders
      BY <1>6, <2>3 DEF Reconcile
    <3>2. ledger[r].memo = p.order
      BY <1>1, <1>2, <2>1 DEF DecisionInv, Settles
    <3>3. \A n : n = r => Handled(n)'
      BY <1>3, <2>3, <3>1, <3>2 DEF Handled, AllowedPrior
    <3> QED BY <2>1, <3>1, <3>3 DEF Finishes
  <2> QED BY <2>2, <2>3
<1>7. CASE ReadSub(w, s) \/ WriteSub(w, s)
  <2>1. p.pc \in {"readsub", "writesub"} /\ UNCHANGED <<orders, watcher, state>>
    BY <1>7 DEF ReadSub, WriteSub, At, tables
  <2>2. CASE Goto(w, s, "webhook")
    BY <1>1, <2>1, <2>2, GotoEffect DEF Counts
  <2>3. CASE ReadSub(w, s) /\ ~Goto(w, s, "webhook")
    <3> DEFINE n == subs[p.sub].charges_done
               q == [p EXCEPT !.pc = "writesub", !.count = n]
    <3>1. Become(w, s, q)
      BY <2>3 DEF ReadSub
    <3>2. p.sub \in Sub
      BY <1>1, <2>1 DEF DecisionInv, Counting, PollRow
    <3>3. n \in Nat
      BY <1>1, <3>2 DEF TypeOK, SubRow
    <3>4. /\ q \in PollRow /\ q.pc = "writesub" /\ q.page = p.page /\ q.order = p.order
          /\ q.outcome = p.outcome /\ q.sub = p.sub
      <4> HIDE DEF p, n
      <4> QED BY <1>1, <3>3 DEF PollRow
    <3> HIDE DEF q
    <3>5. poll'[w][s] = q
      BY <1>1, <3>1, <3>4, BecomeEffect
    <3> QED BY <2>1, <3>4, <3>5 DEF Counts
  <2> QED BY <1>7, <2>2, <2>3 DEF WriteSub
<1>8. CASE Enqueue(w, s)
  <2>1. p.pc = "webhook" /\ Advance(w, s) /\ state' = state /\ orders' = orders
    BY <1>8 DEF Enqueue, At
  <2>2. ledger[r].memo = p.order /\ orders[p.order].status # "pending"
    BY <1>1, <1>2, <2>1 DEF DecisionInv, Settles
  <2>3. \A n : n = r => Handled(n)'
    BY <1>3, <2>1, <2>2 DEF Handled
  <2> QED BY <2>1, <2>3 DEF Finishes
<1> QED BY <1>4, <1>5, <1>6, <1>7, <1>8 DEF Poll

---------------------------------------------------------------------------
(* The rows and the events.                                                *)

\* What the steps leave alone.
LEMMA WatcherFrame ==
  ASSUME NEW w \in Watcher, OpenWatcher(w) \/ FetchHead(w) \/ CloseWatcher(w) \/ Crash(w)
  PROVE  UNCHANGED <<orders, subs, webhooks, request, ledger>>
BY DEF OpenWatcher, FetchHead, CloseWatcher, Crash, tables, api

LEMMA PollFrame ==
  ASSUME NEW w \in Watcher, NEW s \in Slot, Poll(w, s)
  PROVE  UNCHANGED <<request, ledger, address>> /\ (webhooks' = webhooks \/ Enqueue(w, s))
BY DEF Poll, FetchPage, PollFails, Lookup, LookupFails, Reconcile, ReconcileFails,
       ReadSub, WriteSub, Enqueue, Persist, tables, api

LEMMA OutsideFrame ==
  ASSUME Outside
  PROVE  /\ Expire \/ webhooks' = webhooks
         /\ \/ request' = request
            \/ \E q \in Request, i \in Order : CreateOrder(q, i)
            \/ \E q \in Request, sub \in Sub \cup {None} : Prepare(q, sub)
         /\ \/ ledger' = ledger
            \/ \E i \in Order, a \in Account, amount \in Payment, usdc \in Genuine :
                 Pay(i, a, amount, usdc)
<1>1. ASSUME NEW q \in Request, OrderRequest(q)
      PROVE  webhooks' = webhooks /\ ledger' = ledger /\ Prepare(q, None)
  BY <1>1 DEF OrderRequest, tables
<1>2. ASSUME NEW q \in Request, NEW s \in Sub, ChargeRequest(q, s)
      PROVE  webhooks' = webhooks /\ ledger' = ledger /\ (request' = request \/ Prepare(q, s))
  BY <1>2 DEF ChargeRequest
<1>3. ASSUME NEW q \in Request, NEW i \in Order, CreateOrder(q, i)
      PROVE  webhooks' = webhooks /\ ledger' = ledger
  BY <1>3 DEF CreateOrder
<1>4. ASSUME NEW i \in Order, NEW a \in Account, NEW amount \in Payment,
             NEW usdc \in Genuine, Pay(i, a, amount, usdc)
      PROVE  webhooks' = webhooks /\ request' = request
  BY <1>4 DEF Pay, tables, api
<1>5. ASSUME \/ \E i \in Order : CancelOrder(i)
             \/ \E s \in Sub, status \in Patch : PatchSub(s, status)
             \/ \E a \in Account : Rotate(a)
             \/ Lapse
      PROVE  webhooks' = webhooks /\ request' = request /\ ledger' = ledger
  BY <1>5 DEF CancelOrder, PatchSub, Rotate, Lapse, tables, api
<1>6. Expire => request' = request /\ ledger' = ledger
  BY DEF Expire, api
<1> QED BY <1>1, <1>2, <1>3, <1>4, <1>5, <1>6 DEF Outside

LEMMA NextSplit ==
  ASSUME [Next]_vars
  PROVE  \/ Outside
         \/ \E w \in Watcher : OpenWatcher(w) \/ FetchHead(w) \/ CloseWatcher(w) \/ Crash(w)
         \/ \E w \in Watcher, s \in Slot : Poll(w, s)
         \/ UNCHANGED vars
BY DEF Next, Outside

\* What the order's status says about an event.
Told(i, type) ==
  /\ orders[i] # None
  /\ type = "order.expired" => orders[i].status = "expired"
  /\ type = "order.underpaid" => orders[i].status \in {"underpaid", "paid"}
  /\ type \in {"order.paid", "subscription.charged"} => orders[i].status = "paid"

LEMMA ToldBefore ==
  ASSUME IInv, NEW i \in Order, NEW type \in EventTypes, <<i, type>> \in webhooks
  PROVE  Told(i, type)
BY DEF IInv, RowsInv, EventsAreTrue, Told, EventTypes

LEMMA ToldStable ==
  ASSUME Kept, NEW i \in Order, NEW type \in EventTypes, Told(i, type)
  PROVE  Told(i, type)'
BY DEF Kept, Forward, Told, EventTypes

LEMMA ToldStep ==
  ASSUME IInv, [Next]_vars
  PROVE  \A i \in Order, type \in EventTypes :
           <<i, type>> \in webhooks' => Told(i, type)'
<1>1. Kept
  BY StepKeeps
<1>2. ASSUME NEW i \in Order, NEW type \in EventTypes, <<i, type>> \in webhooks
      PROVE  Told(i, type)'
  BY <1>1, <1>2, ToldBefore, ToldStable
<1>3. CASE Expire
  <2> DEFINE gone == {j \in Order : orders'[j] # None /\ orders'[j].status = "expired"}
  <2>1. webhooks' = webhooks \cup {<<i, "order.expired">> : i \in gone}
    BY <1>3 DEF Expire
  <2>2. ASSUME NEW i \in Order, NEW type \in EventTypes, <<i, type>> \in webhooks',
               <<i, type>> \notin webhooks
        PROVE  Told(i, type)'
    <3>1. i \in gone /\ type = "order.expired"
      <4> HIDE DEF gone
      <4> QED BY <2>1, <2>2
    <3> QED BY <3>1 DEF Told
  <2> QED BY <1>2, <2>2
<1>4. ASSUME NEW w \in Watcher, NEW s \in Slot, Enqueue(w, s)
      PROVE  \A i \in Order, type \in EventTypes :
               <<i, type>> \in webhooks' => Told(i, type)'
  <2> DEFINE p == poll[w][s]
             kind == EventType(p.outcome, p.sub)
  <2>1. /\ p.pc = "webhook" /\ orders' = orders
        /\ webhooks' \in {webhooks, webhooks \cup {<<p.order, kind>>}}
    BY <1>4 DEF Enqueue, At
  <2>2. /\ orders[p.order] # None /\ p.outcome \in {"paid", "underpaid"}
        /\ orders[p.order].status \in
             IF p.outcome = "paid" THEN {"paid"} ELSE {"underpaid", "paid"}
    BY <2>1, DecisionTyped, NoneAssumption DEF IInv, DecisionInv
  <2>3. /\ kind = "order.underpaid" => orders[p.order].status \in {"underpaid", "paid"}
        /\ kind # "order.underpaid" => orders[p.order].status = "paid"
        /\ kind # "order.expired"
    BY <2>2 DEF EventType
  <2> HIDE DEF p, kind
  <2>4. ASSUME NEW i \in Order, NEW type \in EventTypes, <<i, type>> \in webhooks',
               <<i, type>> \notin webhooks
        PROVE  Told(i, type)'
    <3>1. i = p.order /\ type = kind
      BY <2>1, <2>4
    <3> QED BY <2>1, <2>2, <2>3, <3>1 DEF Told
  <2> QED BY <1>2, <2>4
<1>5. CASE webhooks' = webhooks
  BY <1>2, <1>5
<1>6. \/ Expire \/ webhooks' = webhooks \/ \E w \in Watcher, s \in Slot : Enqueue(w, s)
  BY NextSplit, OutsideFrame, WatcherFrame, PollFrame DEF vars
<1> QED BY <1>3, <1>4, <1>5, <1>6

LEMMA EventsStep ==
  ASSUME IInv, [Next]_vars
  PROVE  EventsAreTrue'
<1> SUFFICES ASSUME NEW i \in Order
             PROVE  /\ <<i, "order.expired">> \in webhooks' => orders'[i].status = "expired"
                    /\ <<i, "order.underpaid">> \in webhooks'
                         => orders'[i].status \in {"underpaid", "paid"}
                    /\ <<i, "order.paid">> \in webhooks' \/ <<i, "subscription.charged">> \in webhooks'
                         => orders'[i].status = "paid"
  BY DEF EventsAreTrue
<1>1. \A type \in EventTypes : <<i, type>> \in webhooks' => Told(i, type)'
  BY ToldStep
<1> QED BY <1>1 DEF Told, EventTypes

LEMMA RowsStep ==
  ASSUME IInv, [Next]_vars
  PROVE  RowsInv'
<1>1. Kept /\ TypeOK'
  BY StepKeeps
<1>2. \A q \in Request : request'[q] # None =>
        request'[q].status = "pending" /\ request'[q].tx_hash = 0
  <2>1. ASSUME NEW q \in Request, NEW sub, Prepare(q, sub)
        PROVE  \A x \in Request : request'[x] # None =>
                 request'[x].status = "pending" /\ request'[x].tx_hash = 0
    BY <2>1 DEF Prepare, IInv, RowsInv, TypeOK
  <2>2. ASSUME NEW q \in Request, NEW i \in Order, CreateOrder(q, i)
        PROVE  \A x \in Request : request'[x] # None =>
                 request'[x].status = "pending" /\ request'[x].tx_hash = 0
    BY <2>2 DEF CreateOrder, IInv, RowsInv, TypeOK
  <2>3. CASE request' = request
    BY <2>3 DEF IInv, RowsInv
  <2>4. \/ request' = request
        \/ \E q \in Request, i \in Order : CreateOrder(q, i)
        \/ \E q \in Request : \E sub \in Sub \cup {None} : Prepare(q, sub)
    BY NextSplit, OutsideFrame, WatcherFrame, PollFrame DEF vars
  <2> QED BY <2>1, <2>2, <2>3, <2>4
<1>3. \A r \in 1..Len(ledger') : orders'[ledger'[r].memo] # None
  <2>1. ASSUME NEW r \in 1..Len(ledger)
        PROVE  orders'[ledger'[r].memo] # None
    <3>1. ledger[r] \in Paid /\ ledger'[r] = ledger[r]
      BY <1>1 DEF Kept, IInv, TypeOK
    <3> QED BY <1>1, <3>1 DEF Kept, Forward, IInv, RowsInv, Paid
  <2>2. CASE ledger' = ledger
    BY <2>1, <2>2
  <2>3. ASSUME NEW i \in Order, NEW a \in Account, NEW amount \in Payment, NEW usdc \in Genuine,
               Pay(i, a, amount, usdc)
        PROVE  \A r \in 1..Len(ledger') : orders'[ledger'[r].memo] # None
    <3> DEFINE e == [memo |-> i, to |-> a, amount |-> amount, usdc |-> usdc]
    <3>1. /\ ledger \in Seq(Paid) /\ ledger' = Append(ledger, e)
          /\ orders' = orders /\ orders[i] # None /\ e.memo = i
      BY <2>3 DEF Pay, IInv, TypeOK, tables
    <3> HIDE DEF e
    <3>2. Len(ledger') = Len(ledger) + 1 /\ ledger'[Len(ledger) + 1] = e /\ Len(ledger) \in Nat
      BY <3>1
    <3> QED BY <2>1, <3>1, <3>2
  <2>4. ledger' = ledger \/ \E i \in Order, a \in Account, amount \in Payment, usdc \in Genuine :
                              Pay(i, a, amount, usdc)
    BY NextSplit, OutsideFrame, WatcherFrame, PollFrame DEF vars
  <2> QED BY <2>2, <2>3, <2>4
<1>4. \A i \in Order : orders'[i] = None => \A type \in EventTypes : <<i, type>> \notin webhooks'
  BY ToldStep DEF Told
<1> QED BY <1>2, <1>3, <1>4 DEF RowsInv

---------------------------------------------------------------------------
(* Settlement by evidence.                                                 *)

\* Only polls settle orders.
LEMMA OutsideSettlesNone ==
  ASSUME IInv, Outside, NEW i \in Order, orders'[i] # None,
         orders'[i].status \in {"paid", "underpaid"}
  PROVE  /\ orders[i] # None /\ orders'[i].status = orders[i].status
         /\ orders'[i].tx_hash = orders[i].tx_hash
         /\ orders'[i].subscription_id = orders[i].subscription_id
<1> DEFINE Goal == /\ orders[i] # None /\ orders'[i].status = orders[i].status
                   /\ orders'[i].tx_hash = orders[i].tx_hash
                   /\ orders'[i].subscription_id = orders[i].subscription_id
<1> SUFFICES Goal
  OBVIOUS
<1>1. TypeOK /\ \A q \in Request : request[q] # None => request[q].status = "pending"
  BY DEF IInv, RowsInv
<1>2. CASE orders'[i] = orders[i]
  BY <1>2
<1>3. ASSUME NEW q \in Request, NEW j \in Order, CreateOrder(q, j)
      PROVE  Goal
  BY <1>1, <1>2, <1>3 DEF CreateOrder, TypeOK
<1>4. ASSUME NEW j \in Order, CancelOrder(j)
      PROVE  Goal
  <2>1. CASE i # j
    BY <1>1, <1>2, <1>4, <2>1 DEF CancelOrder, TypeOK
  <2>2. CASE i = j
    <3> DEFINE o == orders[i]
    <3>1. orders'[i] = [o EXCEPT !.status = "cancelled"] /\ o \in OrderRow
      BY <1>1, <1>4, <2>2 DEF CancelOrder, TypeOK
    <3> HIDE DEF o
    <3>2. orders'[i].status = "cancelled"
      BY <3>1 DEF OrderRow
    <3> QED BY <3>2
  <2> QED BY <2>1, <2>2
<1>5. CASE Lapse
  <2>1. ASSUME NEW j \in Order, orders[j] # None, orders[j].status = "pending",
               orders' = [orders EXCEPT ![j].overdue = TRUE]
        PROVE  Goal
    <3>1. CASE i # j
      BY <1>1, <1>2, <2>1, <3>1 DEF TypeOK
    <3>2. CASE i = j
      <4> DEFINE o == orders[i]
      <4>1. orders'[i] = [o EXCEPT !.overdue = TRUE] /\ o \in OrderRow /\ o.status = "pending"
        BY <1>1, <2>1, <3>2 DEF TypeOK
      <4> HIDE DEF o
      <4>2. orders'[i].status = "pending"
        BY <4>1 DEF OrderRow
      <4> QED BY <4>2
    <3> QED BY <3>1, <3>2
  <2> QED BY <1>2, <1>5, <2>1 DEF Lapse
<1>6. CASE Expire
  <2>1. \/ orders'[i] = orders[i]
        \/ orders[i] # None /\ orders'[i] = [orders[i] EXCEPT !.status = "expired"]
    BY <1>1, <1>6 DEF Expire, TypeOK
  <2>2. CASE orders[i] # None /\ orders'[i] = [orders[i] EXCEPT !.status = "expired"]
    <3> DEFINE o == orders[i]
    <3>1. orders'[i] = [o EXCEPT !.status = "expired"] /\ o \in OrderRow
      BY <1>1, <2>2 DEF TypeOK
    <3> HIDE DEF o
    <3>2. orders'[i].status = "expired"
      BY <3>1 DEF OrderRow
    <3> QED BY <3>2
  <2> QED BY <1>2, <2>1, <2>2
<1>7. ASSUME \/ \E q \in Request : OrderRequest(q)
             \/ \E q \in Request, s \in Sub : ChargeRequest(q, s)
             \/ \E s \in Sub, status \in Patch : PatchSub(s, status)
             \/ \E a \in Account : Rotate(a)
             \/ \E j \in Order, a \in Account, amount \in Payment, usdc \in Genuine :
                  Pay(j, a, amount, usdc)
      PROVE  Goal
  BY <1>2, <1>7 DEF OrderRequest, ChargeRequest, PatchSub, Rotate, Pay, tables
<1> HIDE DEF Goal
<1> QED BY <1>3, <1>4, <1>5, <1>6, <1>7 DEF Outside

\* A poll settles the order of its record, by that record.
LEMMA PollSettles ==
  ASSUME IInv, NEW w \in Watcher, NEW s \in Slot, Poll(w, s), NEW i \in Order,
         orders'[i] # orders[i]
  PROVE  /\ poll[w][s].pc = "update" /\ i = poll[w][s].order
         /\ orders[i] \in OrderRow
         /\ orders[i].status \in AllowedPrior(poll[w][s].outcome)
         /\ poll[w][s].outcome \in {"paid", "underpaid"}
         /\ orders'[i].status = poll[w][s].outcome
         /\ orders'[i].tx_hash = poll[w][s].page[1]
         /\ orders'[i].subscription_id = orders[i].subscription_id
<1> DEFINE p == poll[w][s]
           o == p.order
           outcome == p.outcome
           r == Current(w, s)
<1>1. /\ p.pc = "update" /\ orders[o].status \in AllowedPrior(outcome)
      /\ orders' = Settled(o, outcome, r)
  BY PollOrders
<1>2. /\ o \in Order /\ orders[o] \in OrderRow /\ outcome \in {"paid", "underpaid"}
      /\ r \in Record /\ r = p.page[1]
  BY <1>1, DecisionTyped
<1>3. TypeOK /\ orders[o] # None
  BY <1>2, NoneAssumption DEF IInv
<1> HIDE DEF o, outcome, r, p
<1>4. /\ \A j \in Order : j # o => orders'[j] = orders[j]
      /\ orders'[o].status = outcome /\ orders'[o].tx_hash = r
      /\ orders'[o].subscription_id = orders[o].subscription_id
  BY <1>1, <1>2, <1>3, SettledEffect
<1> QED BY <1>1, <1>2, <1>4 DEF o, outcome, p

\* SettledByPayment in terms of Settles.
LEMMA SettledRestated ==
  SettledByPayment <=>
    \A i \in Order : orders[i] # None /\ orders[i].status \in {"paid", "underpaid"} =>
                       Settles(orders[i].tx_hash, i, orders[i].status)
BY DEF SettledByPayment, Settles

LEMMA SettledStep ==
  ASSUME IInv, [Next]_vars
  PROVE  SettledByPayment'
<1>1. Kept /\ TypeOK /\ TypeOK'
  BY StepKeeps DEF IInv
<1> SUFFICES ASSUME NEW i \in Order, orders'[i] # None, orders'[i].status \in {"paid", "underpaid"}
             PROVE  \A r, st : r = orders'[i].tx_hash /\ st = orders'[i].status => Settles(r, i, st)'
  BY DEF SettledByPayment, Settles
<1>2. ASSUME /\ orders[i] # None /\ orders'[i].status = orders[i].status
             /\ orders'[i].tx_hash = orders[i].tx_hash
      PROVE  \A r, st : r = orders'[i].tx_hash /\ st = orders'[i].status => Settles(r, i, st)'
  <2>1. Settles(orders[i].tx_hash, i, orders[i].status)
    BY <1>2, SettledRestated DEF IInv
  <2> QED BY <1>1, <1>2, <2>1, SettlesStable
<1>3. CASE Outside
  BY <1>2, <1>3, OutsideSettlesNone
<1>4. ASSUME NEW w \in Watcher, NEW s \in Slot, Poll(w, s), orders'[i] # orders[i]
      PROVE  \A r, st : r = orders'[i].tx_hash /\ st = orders'[i].status => Settles(r, i, st)'
  <2>1. /\ poll[w][s].pc = "update" /\ i = poll[w][s].order
        /\ orders'[i].status = poll[w][s].outcome /\ orders'[i].tx_hash = poll[w][s].page[1]
    BY <1>4, PollSettles
  <2>2. Settles(poll[w][s].page[1], i, poll[w][s].outcome)
    BY <2>1 DEF IInv, DecisionInv
  <2> QED BY <1>1, <2>1, <2>2, SettlesStable
<1>5. CASE orders'[i] = orders[i]
  BY <1>2, <1>5
<1> QED BY <1>3, <1>4, <1>5, NextSplit, WatcherFrame DEF vars

---------------------------------------------------------------------------
(* Cursors and pages.                                                      *)

LEMMA HandledNext ==
  ASSUME IInv, Kept, TypeOK', NEW a \in Account, NEW r \in OfAccount(a),
         HandledTo(a, r - 1), Handled(r)'
  PROVE  HandledTo(a, r)'
<1>1. r \in Int /\ r \in 1..Len(ledger) /\ Len(ledger) \in Nat /\ Len(ledger') \in Nat
      /\ Len(ledger) <= Len(ledger')
  BY DEF OfAccount, IInv, TypeOK, Kept
<1>2. HandledTo(a, r - 1)'
  BY <1>1, HandledToStable
<1>3. ASSUME NEW x \in OfAccount(a)', x <= r
      PROVE  Handled(x)'
  <2>1. x \in Int
    BY <1>1 DEF OfAccount
  <2>2. CASE x = r
    BY <2>2
  <2>3. CASE x <= r - 1
    BY <1>2, <2>3 DEF HandledTo
  <2> QED BY <1>1, <1>3, <2>1, <2>2, <2>3
<1> QED BY <1>1, <1>3 DEF HandledTo

\* A page as PageInv wants it, for an account.
Walks(page, a) ==
  /\ page # <<>> /\ \A n \in DOMAIN page : page[n] \in OfAccount(a)
  /\ \A n \in DOMAIN page : \A r \in OfAccount(a) : n > 1 => r <= page[n - 1] \/ r >= page[n]
  /\ HandledTo(a, page[1] - 1)

LEMMA PageRestated ==
  ASSUME NEW w \in Watcher, NEW s \in Slot
  PROVE  PageInv(w, s) <=>
           (poll[w][s].pc # "idle" =>
              /\ watcher[w] # None
              /\ Walks(poll[w][s].page, watcher[w].account)
              /\ poll[w][s].pc = "persist" => Handled(poll[w][s].page[1]))
BY DEF PageInv, Walks

LEMMA WalksStable ==
  ASSUME IInv, Kept, TypeOK', NEW page \in Seq(Record), NEW a \in Account, Walks(page, a)
  PROVE  Walks(page, a)'
<1>1. /\ TypeOK /\ Len(ledger) \in Nat /\ Len(ledger') \in Nat /\ Len(ledger) <= Len(ledger')
  BY DEF IInv, TypeOK, Kept
<1>2. \A n \in DOMAIN page : page[n] \in OfAccount(a) /\ page[n] \in 1..Len(ledger) /\ page[n] \in Int
  BY <1>1 DEF Walks, OfAccount
<1>3. \A n \in DOMAIN page : page[n] \in OfAccount(a)'
  BY <1>1, <1>2, OfAccountStable
<1>4. ASSUME NEW n \in DOMAIN page, NEW r \in OfAccount(a)', n > 1
      PROVE  r <= page[n - 1] \/ r >= page[n]
  <2>1. r \in Int
    BY <1>1 DEF OfAccount
  <2>2. CASE r <= Len(ledger)
    <3>1. r \in OfAccount(a)
      BY <1>1, <2>1, <2>2, OfAccountStable
    <3> QED BY <1>4, <3>1 DEF Walks
  <2>3. CASE r > Len(ledger)
    BY <1>1, <1>2, <2>1, <2>3
  <2> QED BY <1>1, <2>1, <2>2, <2>3
<1>5. HandledTo(a, page[1] - 1)'
  <2>1. 1 \in DOMAIN page
    BY DEF Walks
  <2>2. page[1] - 1 \in Int
    BY <1>2, <2>1
  <2> QED BY <2>2, HandledToStable DEF Walks
<1> QED BY <1>3, <1>4, <1>5 DEF Walks

\* A poll that stays on its record.
LEMMA PageStays ==
  ASSUME IInv, Kept, TypeOK', NEW w \in Watcher, NEW s \in Slot,
         poll[w][s].pc # "idle", poll'[w][s].page = poll[w][s].page,
         watcher'[w] # None, watcher'[w].account = watcher[w].account,
         poll'[w][s].pc = "persist" => \A r : r = poll[w][s].page[1] => Handled(r)'
  PROVE  PageInv(w, s)'
<1>1. /\ PageInv(w, s) /\ TypeOK
  BY DEF IInv
<1>2. /\ poll[w][s].page \in Seq(Record) /\ watcher[w] \in WatcherRow
  BY <1>1, CurrentRecord
<1>3. watcher[w].account \in Account /\ Walks(poll[w][s].page, watcher[w].account)
  BY <1>1, <1>2, PageRestated DEF WatcherRow
<1>4. \A page, a : page = poll[w][s].page /\ a = watcher[w].account => Walks(page, a)'
  BY <1>2, <1>3, WalksStable
<1> QED BY <1>4 DEF PageInv, Walks

LEMMA PageSame ==
  ASSUME IInv, Kept, TypeOK', NEW w \in Watcher, NEW s \in Slot,
         poll'[w][s] = poll[w][s],
         watcher[w] # None => watcher'[w] # None /\ watcher'[w].account = watcher[w].account
  PROVE  PageInv(w, s)'
<1>1. CASE poll[w][s].pc = "idle"
  BY <1>1 DEF PageInv
<1>2. CASE poll[w][s].pc # "idle"
  <2>1. PageInv(w, s) /\ watcher[w] # None /\ TypeOK
    BY <1>2 DEF IInv, PageInv
  <2>2. poll[w][s].page[1] \in 1..Len(ledger)
    BY <1>2, <2>1, CurrentRecord
  <2>3. ASSUME poll[w][s].pc = "persist"
        PROVE  \A r : r = poll[w][s].page[1] => Handled(r)'
    <3>1. Handled(poll[w][s].page[1])
      BY <2>1, <2>3 DEF PageInv
    <3> QED BY <2>2, <3>1, HandledStable
  <2> QED BY <1>2, <2>1, <2>3, PageStays
<1> QED BY <1>1, <1>2

\* What an Advance does to the slot's poll.
LEMMA PersistingFields ==
  ASSUME TypeOK, NEW w \in Watcher, NEW s \in Slot, PageInv(w, s),
         poll[w][s].pc # "idle", Advance(w, s)
  PROVE  poll'[w][s].pc = "persist" /\ poll'[w][s].page = poll[w][s].page
<1>1. Become(w, s, Persisting(w, s)) /\ Persisting(w, s) \in PollRow
  BY AdvanceEffect
<1>2. Persisting(w, s).pc = "persist" /\ Persisting(w, s).page = poll[w][s].page
  BY DEF Persisting, NoPoll
<1>3. poll'[w][s] = Persisting(w, s)
  BY <1>1 DEF Become, TypeOK
<1> QED BY <1>2, <1>3

\* The fetched page lists all that is ahead of the cursor.
LEMMA FetchWalks ==
  ASSUME TypeOK, NEW a \in Account, NEW cursor \in Nat, HandledTo(a, cursor),
         NEW page \in Seq(Record), page # <<>>,
         NEW ahead, ahead = {r \in OfAccount(a) : r > cursor},
         \A n \in DOMAIN page : page[n] \in ahead,
         IsPage(page, ahead)
  PROVE  Walks(page, a)
<1>1. /\ \A r \in OfAccount(a) : r \in 1..Len(ledger) /\ r \in Int
      /\ Len(ledger) \in Nat
  BY DEF TypeOK, OfAccount
<1>2. /\ DOMAIN page = 1..Len(page) /\ Len(page) \in Nat \ {0}
      /\ \A n \in DOMAIN page : page[n] \in OfAccount(a) /\ page[n] > cursor /\ page[n] \in Int
  BY <1>1
<1>3. ASSUME NEW n \in DOMAIN page, NEW r \in OfAccount(a)
      PROVE  \/ r <= cursor
             \/ \E k \in DOMAIN page : page[k] = r
             \/ Len(page) = PAGE_LIMIT /\ r > page[Len(page)]
  <2>1. r > cursor => r \in ahead
    BY <1>3
  <2> QED BY <1>1, <2>1 DEF IsPage
<1>4. \A m, n \in DOMAIN page : m <= n => page[m] <= page[n]
  <2> SUFFICES ASSUME NEW m \in DOMAIN page, NEW n \in DOMAIN page, m <= n
               PROVE  page[m] <= page[n]
    OBVIOUS
  <2>1. CASE m = n
    BY <1>2, <2>1
  <2>2. CASE m # n
    <3>1. m < n
      BY <1>2, <2>2
    <3> QED BY <1>2, <3>1 DEF IsPage
  <2> QED BY <2>1, <2>2
<1>5. ASSUME NEW n \in DOMAIN page, NEW r \in OfAccount(a), n > 1
      PROVE  r <= page[n - 1] \/ r >= page[n]
  <2>1. n \in Int /\ n - 1 \in DOMAIN page /\ r \in Int
    BY <1>1, <1>2, <1>5
  <2>2. CASE r <= cursor
    BY <1>1, <1>2, <2>1, <2>2
  <2>3. ASSUME NEW k \in DOMAIN page, page[k] = r
        PROVE  r <= page[n - 1] \/ r >= page[n]
    <3>1. k <= n - 1 \/ n <= k
      BY <1>2, <2>1
    <3> QED BY <1>4, <2>1, <2>3, <3>1
  <2>4. CASE r > page[Len(page)]
    <3>1. page[n] <= page[Len(page)]
      BY <1>2, <1>4
    <3> QED BY <1>2, <2>1, <2>4, <3>1
  <2> QED BY <1>3, <2>2, <2>3, <2>4
<1>6. HandledTo(a, page[1] - 1)
  <2>1. 1 \in DOMAIN page /\ Len(page) \in DOMAIN page
    BY <1>2
  <2>2. page[1] \in Int /\ page[1] \in 1..Len(ledger)
    BY <1>1, <1>2, <2>1
  <2>3. ASSUME NEW r \in OfAccount(a), r <= page[1] - 1
        PROVE  Handled(r)
    <3>1. r < page[1] /\ r \in Int
      BY <1>1, <2>2, <2>3
    <3>2. \A k \in DOMAIN page : page[1] <= page[k]
      BY <1>2, <1>4, <2>1
    <3>3. r <= cursor
      BY <1>2, <1>3, <2>1, <3>1, <3>2
    <3> QED BY <3>3 DEF HandledTo
  <2> QED BY <1>1, <2>2, <2>3 DEF HandledTo
<1> QED BY <1>2, <1>5, <1>6 DEF Walks

\* The rest of a page whose first record is handled.
LEMMA TailWalks ==
  ASSUME TypeOK, NEW a \in Account, NEW page \in Seq(Record), Walks(page, a),
         Handled(page[1]), Tail(page) # <<>>
  PROVE  Walks(Tail(page), a)
<1> DEFINE rest == Tail(page)
<1>1. page # <<>>
  BY DEF Walks
<1>2. /\ rest \in Seq(Record) /\ Len(rest) = Len(page) - 1 /\ Len(rest) \in Nat \ {0}
      /\ \A n \in 1..Len(rest) : rest[n] = page[n + 1]
      /\ DOMAIN rest = 1..Len(rest) /\ DOMAIN page = 1..Len(page) /\ Len(page) \in Nat
  <2>1. rest \in Seq(Record) /\ Len(rest) = Len(page) - 1
        /\ \A n \in 1..Len(rest) : rest[n] = page[n + 1]
    BY <1>1, HeadTailProperties
  <2>2. rest # <<>>
    OBVIOUS
  <2> HIDE DEF rest
  <2>3. DOMAIN rest = 1..Len(rest) /\ DOMAIN page = 1..Len(page) /\ Len(page) \in Nat
        /\ Len(rest) \in Nat \ {0}
    BY <2>1, <2>2, LenProperties, EmptySeq
  <2> QED BY <2>1, <2>3
<1>3. \A r \in OfAccount(a) : r \in 1..Len(ledger) /\ r \in Int
  BY DEF TypeOK, OfAccount
<1> HIDE DEF rest
<1>4. ASSUME NEW n \in DOMAIN rest
      PROVE  rest[n] \in OfAccount(a)
  <2>1. n + 1 \in DOMAIN page /\ rest[n] = page[n + 1]
    BY <1>2
  <2> QED BY <2>1 DEF Walks
<1>5. ASSUME NEW n \in DOMAIN rest, NEW r \in OfAccount(a), n > 1
      PROVE  r <= rest[n - 1] \/ r >= rest[n]
  <2>1. n \in Nat /\ n - 1 \in 1..Len(rest) /\ n + 1 \in DOMAIN page /\ n + 1 > 1
    BY <1>2, <1>5
  <2>2. rest[n - 1] = page[n] /\ rest[n] = page[n + 1]
    BY <1>2, <1>5, <2>1
  <2>3. r <= page[(n + 1) - 1] \/ r >= page[n + 1]
    BY <2>1 DEF Walks
  <2> QED BY <2>1, <2>2, <2>3
<1>6. HandledTo(a, rest[1] - 1)
  <2>1. rest[1] = page[2] /\ 1 \in DOMAIN page /\ 2 \in DOMAIN page
    BY <1>2
  <2>2. page[1] \in OfAccount(a) /\ page[2] \in OfAccount(a)
    BY <2>1 DEF Walks
  <2>3. ASSUME NEW r \in OfAccount(a), r <= page[2] - 1
        PROVE  Handled(r)
    <3>1. r <= page[1] \/ r >= page[2]
      <4>1. \A n \in DOMAIN page : n > 1 => r <= page[n - 1] \/ r >= page[n]
        BY DEF Walks
      <4>2. \A n \in DOMAIN page : n = 2 => n > 1 /\ n - 1 = 1
        OBVIOUS
      <4> QED BY <2>1, <4>1, <4>2
    <3>2. r \in Int /\ page[1] \in Int /\ page[2] \in Int
      BY <1>3, <2>2
    <3>3. r = page[1] \/ r <= page[1] - 1
      BY <2>3, <3>1, <3>2
    <3> QED BY <3>3 DEF Walks, HandledTo
  <2>4. page[2] - 1 <= Len(ledger)
    BY <1>3, <2>2 DEF TypeOK
  <2> QED BY <2>1, <2>3, <2>4 DEF HandledTo
<1> QED BY <1>2, <1>4, <1>5, <1>6 DEF Walks, rest

\* The slot whose step it is.
LEMMA OwnPage ==
  ASSUME IInv, NEW w \in Watcher, NEW s \in Slot, Poll(w, s)
  PROVE  PageInv(w, s)'
<1> DEFINE p == poll[w][s]
           Same == /\ watcher[w] # None /\ watcher'[w] # None
                   /\ watcher'[w].account = watcher[w].account
<1>1. TypeOK /\ TypeOK' /\ Kept /\ PageInv(w, s)
  BY PollTyped, PollKeeps DEF IInv
<1>2. Same
  BY PollTyped DEF OnlyPoll
<1>3. p.pc # "idle" => /\ p.page \in Seq(Record) /\ p.page # <<>> /\ Current(w, s) = p.page[1]
                       /\ watcher[w] \in WatcherRow
  BY <1>1, CurrentRecord
<1>4. ASSUME NEW page \in Seq(Record), poll'[w][s].page = page, poll'[w][s].pc = "record",
             watcher' = watcher, watcher[w] \in WatcherRow, Walks(page, watcher[w].account)
      PROVE  PageInv(w, s)'
  <2>1. watcher[w].account \in Account
    BY <1>4 DEF WatcherRow
  <2>2. \A a : a = watcher[w].account => Walks(page, a)'
    BY <1>1, <1>4, <2>1, WalksStable
  <2> QED BY <1>2, <1>4, <2>2 DEF PageInv, Walks
<1>5. CASE FetchPage(w, s)
  <2> DEFINE a == watcher[w].account
             cursor == watcher[w].cursor
             ahead == {r \in OfAccount(a) : r > cursor}
  <2>1. PICK page \in Seq(Record) :
          /\ page # <<>> /\ \A n \in DOMAIN page : page[n] \in ahead
          /\ IsPage(page, ahead)
          /\ Become(w, s, [NoPoll EXCEPT !.pc = "record", !.page = page])
    BY <1>1, <1>5, FetchEffect
  <2>2. watcher[w] \in WatcherRow /\ watcher' = watcher
    BY <1>1, <1>2, <1>5 DEF FetchPage, TypeOK
  <2>3. a \in Account /\ cursor \in Nat /\ HandledTo(a, cursor)
    BY <1>2, <2>2, ConstantsAssumption DEF WatcherRow, IInv, CursorInv
  <2>4. Walks(page, a)
    <3> DEFINE A == a
               C == cursor
               H == ahead
    <3>1. A \in Account /\ C \in Nat /\ HandledTo(A, C) /\ H = {r \in OfAccount(A) : r > C}
          /\ page # <<>> /\ (\A n \in DOMAIN page : page[n] \in H) /\ IsPage(page, H)
      BY <2>1, <2>3
    <3> HIDE DEF A, C, H
    <3>2. Walks(page, A)
      BY <1>1, <3>1, FetchWalks
    <3> QED BY <3>2 DEF A
  <2>5. poll'[w][s].page = page /\ poll'[w][s].pc = "record"
    <3>1. poll'[w][s] = [NoPoll EXCEPT !.pc = "record", !.page = page]
      BY <1>1, <2>1 DEF Become, TypeOK
    <3> QED BY <3>1 DEF NoPoll
  <2> QED BY <1>4, <2>2, <2>4, <2>5
<1>6. ASSUME Become(w, s, NoPoll)
      PROVE  PageInv(w, s)'
  <2>1. poll'[w][s] = NoPoll
    BY <1>1, <1>6 DEF Become, TypeOK
  <2> QED BY <2>1 DEF PageInv, NoPoll
<1>7. CASE Persist(w, s)
  <2>1. p.pc = "persist" /\ watcher' = watcher
    BY <1>7 DEF Persist, At
  <2>2. CASE Tail(p.page) = <<>>
    BY <1>6, <1>7, <2>2 DEF Persist
  <2>3. CASE Tail(p.page) # <<>>
    <3> DEFINE page == p.page
               rest == Tail(page)
    <3>1. Become(w, s, [NoPoll EXCEPT !.pc = "record", !.page = rest])
      BY <1>7, <2>3 DEF Persist
    <3>2. poll'[w][s].page = rest /\ poll'[w][s].pc = "record"
      <4>1. poll'[w][s] = [NoPoll EXCEPT !.pc = "record", !.page = rest]
        BY <1>1, <3>1 DEF Become, TypeOK
      <4> QED BY <4>1 DEF NoPoll
    <3>3. /\ watcher[w] \in WatcherRow /\ watcher[w].account \in Account
          /\ page \in Seq(Record) /\ page # <<>> /\ Walks(page, watcher[w].account)
          /\ Handled(page[1])
      BY <1>1, <1>3, <2>1, PageRestated DEF WatcherRow
    <3>4. rest \in Seq(Record) /\ Walks(rest, watcher[w].account)
      <4> HIDE DEF page
      <4> QED BY <1>1, <2>3, <3>3, TailWalks, HeadTailProperties DEF page
    <3> QED BY <1>4, <2>1, <3>2, <3>3, <3>4
  <2> QED BY <2>2, <2>3
<1>8. CASE Finishes(w, s)
  <2>1. p.pc # "idle" /\ Advance(w, s) /\ \A r : r = p.page[1] => Handled(r)'
    BY <1>3, <1>8 DEF Finishes
  <2>2. poll'[w][s].page = p.page
    BY <1>1, <2>1, PersistingFields
  <2> QED BY <1>1, <1>2, <2>1, <2>2, PageStays
<1>9. CASE Matches(w, s)
  <2>1. p.pc # "idle" /\ Become(w, s, Taken(w, s))
    BY <1>9 DEF Matches
  <2>2. Taken(w, s).pc = "update" /\ Taken(w, s).page = p.page
    BY <1>1, <2>1, TakenTyped
  <2>3. poll'[w][s] = Taken(w, s)
    BY <1>1, <2>1 DEF Become, TypeOK
  <2> QED BY <1>1, <1>2, <2>1, <2>2, <2>3, PageStays
<1>10. CASE Settling(w, s)
  <2>1. p.pc = "update" /\ Become(w, s, Reconciled(w, s))
    BY <1>10 DEF Settling
  <2>2. p.order \in Order /\ orders[p.order] # None
    BY <2>1, DecisionTyped, NoneAssumption
  <2>3. Reconciled(w, s).pc \in {"webhook", "readsub"} /\ Reconciled(w, s).page = p.page
    BY <1>1, <2>2, ReconciledTyped
  <2>4. poll'[w][s] = Reconciled(w, s)
    BY <1>1, <2>1 DEF Become, TypeOK
  <2> QED BY <1>1, <1>2, <2>1, <2>3, <2>4, PageStays
<1>11. CASE Counts(w, s)
  BY <1>1, <1>2, <1>11, PageStays DEF Counts
<1>12. CASE PollFails(w, s)
  BY <1>6, <1>12 DEF PollFails
<1> QED BY <1>5, <1>7, <1>8, <1>9, <1>10, <1>11, <1>12, PollKinds

LEMMA PageStep ==
  ASSUME IInv, [Next]_vars, NEW w \in Watcher, NEW s \in Slot
  PROVE  PageInv(w, s)'
<1>1. Kept /\ TypeOK /\ TypeOK'
  BY StepKeeps DEF IInv
<1>2. ASSUME poll' = poll, watcher' = watcher
      PROVE  PageInv(w, s)'
  BY <1>1, <1>2, PageSame
<1>3. CASE Outside
  BY <1>1, <1>2, <1>3, OutsideTyped
<1>4. ASSUME NEW v \in Watcher, OpenWatcher(v) \/ FetchHead(v) \/ CloseWatcher(v)
      PROVE  PageInv(w, s)'
  <2>1. poll' = poll
    BY <1>4 DEF OpenWatcher, FetchHead, CloseWatcher
  <2>2. watcher[w] # None => watcher'[w] # None /\ watcher'[w].account = watcher[w].account
    <3> SUFFICES ASSUME watcher[w] # None
                 PROVE  watcher'[w] # None /\ watcher'[w].account = watcher[w].account
      OBVIOUS
    <3>1. CASE OpenWatcher(v)
      BY <1>1, <3>1 DEF OpenWatcher, TypeOK
    <3>2. CASE CloseWatcher(v) /\ v # w
      BY <1>1, <3>2 DEF CloseWatcher, TypeOK
    <3>3. CASE CloseWatcher(v) /\ v = w
      <4> DEFINE row == watcher[w]
                 new == [row EXCEPT !.stage = "stopped"]
      <4>1. row \in WatcherRow /\ watcher' = [watcher EXCEPT ![w] = new]
        BY <1>1, <3>3 DEF CloseWatcher, TypeOK
      <4>2. new \in WatcherRow /\ new.account = row.account
        <5> HIDE DEF row
        <5> QED BY <4>1 DEF WatcherRow
      <4> HIDE DEF new
      <4> QED BY <1>1, <4>1, <4>2, NoneAssumption DEF TypeOK
    <3>4. CASE FetchHead(v)
      <4>1. /\ watcher'[v] # None /\ watcher'[v].account = watcher[v].account
            /\ \A u \in Watcher : u # v => watcher'[u] = watcher[u]
        BY <1>1, <3>4, HeadEffect
      <4> QED BY <4>1
    <3> QED BY <1>4, <3>1, <3>2, <3>3, <3>4
  <2> QED BY <1>1, <2>1, <2>2, PageSame
<1>5. ASSUME NEW v \in Watcher, Crash(v)
      PROVE  PageInv(w, s)'
  <2>1. CASE v = w
    <3>1. poll'[w][s] = NoPoll
      BY <1>1, <1>5, <2>1 DEF Crash, TypeOK
    <3> QED BY <3>1 DEF PageInv, NoPoll
  <2>2. CASE v # w
    <3>1. poll'[w] = poll[w] /\ watcher'[w] = watcher[w]
      BY <1>1, <1>5, <2>2 DEF Crash, TypeOK
    <3> QED BY <1>1, <3>1, PageSame
  <2> QED BY <2>1, <2>2
<1>6. ASSUME NEW v \in Watcher, NEW t \in Slot, Poll(v, t)
      PROVE  PageInv(w, s)'
  <2>1. CASE v = w /\ t = s
    BY <1>6, <2>1, OwnPage
  <2>2. CASE v # w \/ t # s
    <3>1. OnlyPoll(v, t)
      BY <1>6, PollTyped
    <3>2. poll'[w][s] = poll[w][s]
      BY <2>2, <3>1 DEF OnlyPoll
    <3>3. watcher[w] # None => watcher'[w] # None /\ watcher'[w].account = watcher[w].account
      BY <3>1 DEF OnlyPoll
    <3> QED BY <1>1, <3>2, <3>3, PageSame
  <2> QED BY <2>1, <2>2
<1>7. CASE UNCHANGED vars
  BY <1>2, <1>7 DEF vars
<1> QED BY <1>3, <1>4, <1>5, <1>6, <1>7, NextSplit

LEMMA CursorStep ==
  ASSUME IInv, [Next]_vars
  PROVE  CursorInv'
<1> DEFINE Watchers == \A v \in Watcher : watcher'[v] # None =>
                         \A a, n : a = watcher'[v].account /\ n = watcher'[v].cursor => HandledTo(a, n)'
           States == \A a \in Account : state'[a] # None =>
                       \A n : n = state'[a] => HandledTo(a, n)'
<1> SUFFICES Watchers /\ States
  BY DEF CursorInv
<1>1. Kept /\ TypeOK /\ TypeOK' /\ CursorInv
  BY StepKeeps DEF IInv
<1>2. ASSUME NEW v \in Watcher, watcher'[v] = watcher[v], watcher'[v] # None,
             NEW a, NEW n, a = watcher'[v].account, n = watcher'[v].cursor
      PROVE  HandledTo(a, n)'
  <2>1. watcher[v] \in WatcherRow
    BY <1>1, <1>2 DEF TypeOK
  <2>2. a \in Account /\ n \in Int /\ HandledTo(a, n)
    BY <1>1, <1>2, <2>1, ConstantsAssumption DEF WatcherRow, CursorInv
  <2> QED BY <1>1, <2>2, HandledToStable
<1>3. ASSUME NEW a \in Account, state'[a] = state[a], state'[a] # None
      PROVE  \A n : n = state'[a] => HandledTo(a, n)'
  <2>1. state[a] \in Int /\ HandledTo(a, state[a])
    BY <1>1, <1>3 DEF TypeOK, Record, CursorInv
  <2> QED BY <1>1, <1>3, <2>1, HandledToStable
<1>4. state' = state => States
  BY <1>3
<1>5. watcher' = watcher => Watchers
  BY <1>2
<1> HIDE DEF States
<1>6. CASE Outside
  BY <1>4, <1>5, <1>6, <1>1, OutsideTyped
<1>7. ASSUME NEW w \in Watcher, OpenWatcher(w)
      PROVE  Watchers /\ States
  <2>1. PICK cursor \in {0, state[address]}, stage \in {"fresh", "blind", "polling"} :
          /\ cursor = 0 \/ state[address] # None
          /\ watcher' = [watcher EXCEPT ![w] =
               [account |-> address, cursor |-> cursor, stage |-> stage]]
    BY <1>7 DEF OpenWatcher
  <2>2. state' = state /\ ledger' = ledger /\ address \in Account
    BY <1>1, <1>7 DEF OpenWatcher, TypeOK
  <2>3. HandledTo(address, cursor) /\ cursor \in Int
    <3>1. CASE cursor = 0
      BY <1>1, <3>1 DEF HandledTo, OfAccount, TypeOK
    <3>2. CASE cursor # 0
      BY <1>1, <2>1, <2>2, <3>2 DEF TypeOK, Record, CursorInv
    <3> QED BY <3>1, <3>2
  <2>4. \A n, a : n = cursor /\ a = address => HandledTo(a, n)'
    BY <1>1, <2>2, <2>3, HandledToStable
  <2>5. /\ watcher'[w].account = address /\ watcher'[w].cursor = cursor
        /\ \A v \in Watcher : v # w => watcher'[v] = watcher[v]
    BY <1>1, <2>1 DEF TypeOK
  <2>6. Watchers
    BY <1>2, <2>4, <2>5
  <2> QED BY <1>4, <2>2, <2>6
<1>12. ASSUME NEW w \in Watcher, FetchHead(w)
       PROVE  Watchers /\ States
  <2> DEFINE a == watcher[w].account
  <2>1. PICK head \in 0..Len(ledger) :
          /\ watcher'[w].account = a /\ watcher'[w].cursor = head
          /\ \A v \in Watcher : v # w => watcher'[v] = watcher[v]
          /\ \A r \in OfAccount(a) :
               r <= head /\ ledger[r].usdc /\ orders[ledger[r].memo].status = "pending"
                 => r \in amiss'
    BY <1>1, <1>12, HeadEffect
  <2>2. UNCHANGED <<orders, ledger, state>>
    BY <1>12 DEF FetchHead, tables
  <2> HIDE DEF a
  <2>3. \A b, n : b = a /\ n = head => HandledTo(b, n)'
    <3>1. head <= Len(ledger')
      BY <1>1, <2>1, <2>2 DEF TypeOK
    <3>2. \A b : b = a => OfAccount(b)' = OfAccount(b)
      BY <2>2 DEF OfAccount
    <3>3. \A r \in OfAccount(a) : r <= head => Handled(r)'
      BY <2>1, <2>2 DEF Handled
    <3> QED BY <3>1, <3>2, <3>3 DEF HandledTo
  <2>4. Watchers
    BY <1>2, <2>1, <2>3
  <2> QED BY <1>4, <2>2, <2>4
<1>8. ASSUME NEW w \in Watcher, CloseWatcher(w)
      PROVE  Watchers /\ States
  <2> DEFINE row == watcher[w]
             new == [row EXCEPT !.stage = "stopped"]
  <2>1. row \in WatcherRow /\ row # None /\ watcher' = [watcher EXCEPT ![w] = new] /\ state' = state
    BY <1>1, <1>8 DEF CloseWatcher, TypeOK
  <2>2. new.account = row.account /\ new.cursor = row.cursor
    <3> HIDE DEF row
    <3> QED BY <2>1 DEF WatcherRow
  <2>3. row.account \in Account /\ row.cursor \in Int
    BY <2>1, ConstantsAssumption DEF WatcherRow
  <2> HIDE DEF new
  <2>4. \A a, n : a = new.account /\ n = new.cursor => HandledTo(a, n)'
    BY <1>1, <2>1, <2>2, <2>3, HandledToStable DEF CursorInv
  <2>5. watcher'[w] = new /\ \A v \in Watcher : v # w => watcher'[v] = watcher[v]
    BY <1>1, <2>1 DEF TypeOK
  <2>6. Watchers
    BY <1>2, <2>4, <2>5
  <2> QED BY <1>4, <2>1, <2>6
<1>9. ASSUME NEW w \in Watcher, Crash(w)
      PROVE  Watchers /\ States
  <2>1. watcher'[w] = None /\ state' = state /\ \A v \in Watcher : v # w => watcher'[v] = watcher[v]
    BY <1>1, <1>9 DEF Crash, TypeOK
  <2> QED BY <1>2, <1>4, <2>1
<1>10. ASSUME NEW w \in Watcher, NEW s \in Slot, Poll(w, s)
       PROVE  Watchers /\ States
  <2> DEFINE p == poll[w][s]
  <2>1. PageInv(w, s)
    BY DEF IInv
  <2>2. ASSUME p.pc # "idle"
        PROVE  /\ watcher[w] \in WatcherRow /\ watcher[w].account \in Account
               /\ Current(w, s) = p.page[1]
               /\ Walks(p.page, watcher[w].account) /\ p.page[1] \in OfAccount(watcher[w].account)
    <3>1. watcher[w] \in WatcherRow /\ Current(w, s) = p.page[1] /\ p.page \in Seq(Record)
          /\ p.page # <<>>
      BY <1>1, <2>1, <2>2, CurrentRecord
    <3>2. Walks(p.page, watcher[w].account)
      BY <2>1, <2>2, PageRestated
    <3>3. p.page[1] \in OfAccount(watcher[w].account)
      <4> DEFINE page == p.page
      <4>1. page \in Seq(Record) /\ page # <<>> /\ \A n \in DOMAIN page : page[n] \in OfAccount(watcher[w].account)
        BY <3>1, <3>2 DEF Walks
      <4> HIDE DEF page
      <4>2. page[1] \in OfAccount(watcher[w].account)
        BY <4>1
      <4> QED BY <4>2 DEF page
    <3> QED BY <3>1, <3>2, <3>3 DEF WatcherRow
  <2>3. ASSUME p.pc # "idle", \A r : r = p.page[1] => Handled(r)'
        PROVE  \A a, n : a = watcher[w].account /\ n = p.page[1] => HandledTo(a, n)'
    BY <1>1, <2>2, <2>3, HandledNext DEF Walks
  <2>4. CASE Finishes(w, s)
    <3>1. p.pc # "idle" /\ Advance(w, s) /\ state' = state
          /\ \A r : r = p.page[1] => Handled(r)'
      BY <2>2, <2>4 DEF Finishes
    <3>2. /\ watcher'[w].cursor = p.page[1] /\ watcher'[w].account = watcher[w].account
          /\ \A v \in Watcher : v # w => watcher'[v] = watcher[v]
      BY <1>1, <2>1, <2>2, <3>1, AdvanceEffect
    <3>3. Watchers
      BY <1>2, <2>3, <3>1, <3>2
    <3> QED BY <1>4, <3>1, <3>3
  <2>5. CASE Persist(w, s)
    <3>1. p.pc = "persist" /\ watcher' = watcher
      BY <2>5 DEF Persist, At
    <3>2. CASE state' = state
      BY <1>4, <1>5, <3>1, <3>2
    <3>3. CASE state' = [state EXCEPT ![watcher[w].account] = Current(w, s)]
      <4>1. \A r : r = p.page[1] => Handled(r)'
        <5>1. Handled(p.page[1]) /\ p.page[1] \in 1..Len(ledger)
          BY <2>1, <2>2, <3>1 DEF PageInv, OfAccount
        <5> QED BY <1>1, <5>1, HandledStable
      <4>2. \A a, n : a = watcher[w].account /\ n = p.page[1] => HandledTo(a, n)'
        BY <2>3, <3>1, <4>1
      <4>3. /\ state'[watcher[w].account] = p.page[1]
            /\ \A a \in Account : a # watcher[w].account => state'[a] = state[a]
        BY <1>1, <2>2, <3>1, <3>3 DEF TypeOK
      <4>4. States
        BY <1>3, <4>2, <4>3 DEF States
      <4> QED BY <1>5, <3>1, <4>4
    <3> QED BY <2>5, <3>2, <3>3 DEF Persist
  <2>6. CASE watcher' = watcher /\ state' = state
    BY <1>4, <1>5, <2>6
  <2>7. CASE FetchPage(w, s)
    BY <2>6, <2>7 DEF FetchPage
  <2>8. CASE PollFails(w, s)
    BY <2>6, <2>8 DEF PollFails
  <2>9. CASE Matches(w, s) \/ Settling(w, s)
    BY <2>6, <2>9 DEF Matches, Settling
  <2>10. CASE Counts(w, s)
    BY <2>6, <2>10 DEF Counts
  <2> HIDE DEF p
  <2> QED BY <1>10, <2>4, <2>5, <2>7, <2>8, <2>9, <2>10, PollKinds
<1>11. CASE UNCHANGED vars
  BY <1>4, <1>5, <1>11 DEF vars
<1> HIDE DEF Watchers
<1> QED BY <1>6, <1>7, <1>8, <1>9, <1>10, <1>11, <1>12, NextSplit
---------------------------------------------------------------------------
(* Decisions.                                                              *)

LEMMA DecisionSame ==
  ASSUME IInv, Kept, TypeOK', NEW w \in Watcher, NEW s \in Slot,
         poll'[w][s].page = poll[w][s].page, poll'[w][s].order = poll[w][s].order,
         poll'[w][s].outcome = poll[w][s].outcome, poll'[w][s].sub = poll[w][s].sub,
         \/ poll'[w][s].pc = poll[w][s].pc
         \/ /\ poll[w][s].pc \in {"readsub", "writesub"}
            /\ poll'[w][s].pc \in {"writesub", "webhook"}
  PROVE  DecisionInv(w, s)'
<1> DEFINE p == poll[w][s]
<1>1. TypeOK /\ DecisionInv(w, s)
  BY DEF IInv
<1>2. CASE p.pc \notin {"update", "readsub", "writesub", "webhook"}
  BY <1>2 DEF DecisionInv, Counting
<1>3. CASE p.pc \in {"update", "readsub", "writesub", "webhook"}
  <2>1. /\ p.order \in Order /\ orders[p.order] # None
        /\ p.order # None /\ p.outcome # "ignore" /\ Settles(p.page[1], p.order, p.outcome)
    BY <1>1, <1>3, DecisionTyped, NoneAssumption DEF DecisionInv
  <2>2. \A r, i, st : r = p.page[1] /\ i = p.order /\ st = p.outcome => Settles(r, i, st)'
    BY <1>1, <2>1, SettlesStable
  <2>3. Forward(p.order)
    BY <2>1 DEF Kept
  <2>4. p.pc \in {"readsub", "writesub", "webhook"} =>
          orders'[p.order].status \in IF p.outcome = "paid" THEN {"paid"} ELSE {"underpaid", "paid"}
    BY <1>1, <2>1, <2>3 DEF DecisionInv, Forward
  <2>5. /\ p.pc \in {"readsub", "writesub", "webhook"} =>
             p.sub = orders'[p.order].subscription_id
        /\ p.pc \in {"readsub", "writesub"} => p.outcome = "paid" /\ p.sub # None
    BY <1>1, <2>1, <2>3 DEF DecisionInv, Counting, Forward
  <2> QED BY <1>3, <2>1, <2>2, <2>4, <2>5 DEF DecisionInv, Counting
<1> QED BY <1>2, <1>3

\* Only three kinds of step leave a poll with a decision.
LEMMA Decides ==
  ASSUME IInv, NEW w \in Watcher, NEW s \in Slot, Poll(w, s),
         poll'[w][s].pc \in {"update", "readsub", "writesub", "webhook"}
  PROVE  Matches(w, s) \/ Settling(w, s) \/ Counts(w, s)
<1> DEFINE p == poll[w][s]
<1>1. TypeOK /\ PageInv(w, s)
  BY DEF IInv
<1>2. CASE FetchPage(w, s)
  <2>1. PICK page \in Seq(Record) : Become(w, s, [NoPoll EXCEPT !.pc = "record", !.page = page])
    BY <1>1, <1>2, FetchEffect
  <2>2. poll'[w][s] = [NoPoll EXCEPT !.pc = "record", !.page = page]
    BY <1>1, <2>1 DEF Become, TypeOK
  <2>3. poll'[w][s].pc = "record"
    BY <2>2 DEF NoPoll
  <2> QED BY <2>3
<1>3. CASE PollFails(w, s) \/ Persist(w, s)
  <2> DEFINE q == [NoPoll EXCEPT !.pc = "record", !.page = Tail(p.page)]
  <2>1. Become(w, s, NoPoll) \/ Become(w, s, q)
    BY <1>3 DEF PollFails, Persist
  <2>2. NoPoll.pc = "idle" /\ q.pc = "record"
    BY DEF NoPoll
  <2> HIDE DEF q
  <2>3. poll'[w][s] = NoPoll \/ poll'[w][s] = q
    BY <1>1, <2>1 DEF Become, TypeOK
  <2> QED BY <2>2, <2>3
<1>4. CASE Finishes(w, s)
  <2>1. poll'[w][s].pc = "persist"
    BY <1>1, <1>4, PersistingFields DEF Finishes
  <2> QED BY <2>1
<1> QED BY <1>2, <1>3, <1>4, PollKinds

LEMMA OwnDecision ==
  ASSUME IInv, NEW w \in Watcher, NEW s \in Slot, Poll(w, s)
  PROVE  DecisionInv(w, s)'
<1> DEFINE p == poll[w][s]
<1>1. TypeOK /\ TypeOK' /\ Kept /\ PageInv(w, s) /\ DecisionInv(w, s)
  BY PollTyped, PollKeeps DEF IInv
<1>2. CASE poll'[w][s].pc \notin {"update", "readsub", "writesub", "webhook"}
  BY <1>2 DEF DecisionInv, Counting
<1>3. CASE Matches(w, s)
  <2> DEFINE e == ledger[Current(w, s)]
             q == Taken(w, s)
  <2>1. p.pc = "record" /\ matchPaymentToOrder(e, address) # "ignore" /\ Become(w, s, q)
    BY <1>3 DEF Matches
  <2>2. /\ q.pc = "update" /\ q.order = e.memo /\ q.page = p.page
        /\ q.outcome = matchPaymentToOrder(e, address)
    BY <1>1, <2>1, TakenTyped
  <2>3. poll'[w][s] = q
    BY <1>1, <2>1 DEF Become, TypeOK
  <2>4. Current(w, s) = p.page[1] /\ p.page[1] \in 1..Len(ledger) /\ e \in Paid /\ ledger' = ledger
    BY <1>1, <2>1, CurrentRecord, PollTyped DEF OnlyPoll
  <2>5. e.memo # None
    BY <2>4, NoneAssumption DEF Paid
  <2>6. e.usdc /\ (e.amount >= Expected <=> q.outcome = "paid")
    BY <2>1, <2>2 DEF matchPaymentToOrder
  <2>7. \A r, i, st : r = p.page[1] /\ i = e.memo /\ st = q.outcome => Settles(r, i, st)'
    BY <2>4, <2>6 DEF Settles, Expected
  <2> HIDE DEF q, e, p
  <2> QED BY <2>1, <2>2, <2>3, <2>5, <2>7 DEF DecisionInv, Counting
<1>4. CASE Settling(w, s)
  <2> DEFINE q == Reconciled(w, s)
             o == p.order
             outcome == p.outcome
             r == Current(w, s)
  <2>1. p.pc = "update" /\ Become(w, s, q) /\ orders' = Settled(o, outcome, r)
    BY <1>4 DEF Settling
  <2>2. /\ o \in Order /\ orders[o] # None /\ outcome \in {"paid", "underpaid"} /\ r \in Record
        /\ o # None /\ Settles(p.page[1], o, outcome)
    BY <1>1, <2>1, DecisionTyped, NoneAssumption DEF DecisionInv
  <2>3. /\ q.order = o /\ q.outcome = outcome /\ q.page = p.page
        /\ q.sub = orders[o].subscription_id
        /\ q.pc = IF outcome = "paid" /\ q.sub # None THEN "readsub" ELSE "webhook"
    BY <1>1, <2>2, ReconciledTyped
  <2>4. poll'[w][s] = q
    BY <1>1, <2>1 DEF Become, TypeOK
  <2>5. orders'[o].status = outcome /\ orders'[o].subscription_id = orders[o].subscription_id
    <3> HIDE DEF o, outcome, r, p
    <3> QED BY <1>1, <2>1, <2>2, SettledEffect
  <2>6. \A n, i, st : n = p.page[1] /\ i = o /\ st = outcome => Settles(n, i, st)'
    BY <1>1, <2>2, SettlesStable
  <2> HIDE DEF q, o, outcome, r, p
  <2> QED BY <2>2, <2>3, <2>4, <2>5, <2>6 DEF DecisionInv, Counting
<1>5. CASE Counts(w, s)
  BY <1>1, <1>5, DecisionSame DEF Counts
<1> QED BY <1>2, <1>3, <1>4, <1>5, Decides

LEMMA DecisionStep ==
  ASSUME IInv, [Next]_vars, NEW w \in Watcher, NEW s \in Slot
  PROVE  DecisionInv(w, s)'
<1>1. Kept /\ TypeOK /\ TypeOK'
  BY StepKeeps DEF IInv
<1>2. CASE poll'[w][s] = poll[w][s]
  BY <1>1, <1>2, DecisionSame
<1>3. ASSUME NEW v \in Watcher, Crash(v)
      PROVE  DecisionInv(w, s)'
  <2>1. poll'[w][s] = IF v = w THEN NoPoll ELSE poll[w][s]
    BY <1>1, <1>3 DEF Crash, TypeOK
  <2>2. CASE v = w
    BY <2>1, <2>2 DEF DecisionInv, Counting, NoPoll
  <2> QED BY <1>2, <2>1, <2>2
<1>4. ASSUME NEW v \in Watcher, NEW t \in Slot, Poll(v, t)
      PROVE  DecisionInv(w, s)'
  <2>1. CASE v = w /\ t = s
    BY <1>4, <2>1, OwnDecision
  <2>2. CASE v # w \/ t # s
    BY <1>2, <1>4, <2>2, PollTyped DEF OnlyPoll
  <2> QED BY <2>1, <2>2
<1>5. ASSUME \/ Outside \/ UNCHANGED vars
             \/ \E v \in Watcher : OpenWatcher(v) \/ FetchHead(v) \/ CloseWatcher(v)
      PROVE  poll' = poll
  BY <1>1, <1>5, OutsideTyped DEF OpenWatcher, FetchHead, CloseWatcher, vars
<1> QED BY <1>2, <1>3, <1>4, <1>5, NextSplit

---------------------------------------------------------------------------
(* Counting: an order adds at most one to its subscription's counter.      *)

LEMMA CountingStep ==
  ASSUME IInv, [Next]_vars, NEW w \in Watcher, NEW s \in Slot, Counting(w, s)'
  PROVE  /\ poll'[w][s].order = poll[w][s].order
         /\ \/ Counting(w, s) /\ poll'[w][s].sub = poll[w][s].sub
            \/ /\ Poll(w, s) /\ ~Counting(w, s) /\ poll'[w][s].pc = "readsub"
               /\ orders[poll[w][s].order].status \in {"pending", "underpaid"}
<1>1. TypeOK /\ poll'[w][s].pc \in {"readsub", "writesub"}
  BY DEF IInv, Counting
<1>2. CASE poll'[w][s] = poll[w][s]
  BY <1>2 DEF Counting
<1>3. ASSUME NEW v \in Watcher, Crash(v)
      PROVE  poll'[w][s] = poll[w][s]
  <2>1. poll'[w][s] = IF v = w THEN NoPoll ELSE poll[w][s]
    BY <1>1, <1>3 DEF Crash, TypeOK
  <2> QED BY <1>1, <2>1 DEF NoPoll
<1>4. ASSUME NEW v \in Watcher, NEW t \in Slot, Poll(v, t), v # w \/ t # s
      PROVE  poll'[w][s] = poll[w][s]
  BY <1>4, PollTyped DEF OnlyPoll
<1>5. ASSUME Poll(w, s), Counts(w, s)
      PROVE  /\ Counting(w, s) /\ poll'[w][s].order = poll[w][s].order
             /\ poll'[w][s].sub = poll[w][s].sub
  BY <1>5 DEF Counts, Counting
<1>6. ASSUME Poll(w, s), Settling(w, s)
      PROVE  /\ ~Counting(w, s) /\ poll'[w][s].order = poll[w][s].order
             /\ poll'[w][s].pc = "readsub"
             /\ orders[poll[w][s].order].status \in {"pending", "underpaid"}
  <2> DEFINE q == Reconciled(w, s)
  <2>1. poll[w][s].pc = "update" /\ Become(w, s, q)
        /\ orders[poll[w][s].order].status \in AllowedPrior(poll[w][s].outcome)
    BY <1>6 DEF Settling
  <2>2. q.order = poll[w][s].order /\ q.pc \in {"readsub", "webhook"}
    BY <1>1, <2>1, DecisionTyped, ReconciledTyped, NoneAssumption
  <2> HIDE DEF q
  <2>3. poll'[w][s] = q
    BY <1>1, <2>1 DEF Become, TypeOK
  <2> QED BY <1>1, <2>1, <2>2, <2>3 DEF Counting, AllowedPrior
<1>7. ASSUME Poll(w, s), Matches(w, s)
      PROVE  FALSE
  <2> DEFINE q == Taken(w, s)
  <2>1. poll[w][s].pc = "record" /\ Become(w, s, q)
    BY <1>7 DEF Matches
  <2>2. q.pc = "update"
    BY <1>1, <2>1, TakenTyped DEF IInv
  <2> HIDE DEF q
  <2>3. poll'[w][s] = q
    BY <1>1, <2>1 DEF Become, TypeOK
  <2> QED BY <1>1, <2>2, <2>3
<1>8. ASSUME \/ Outside \/ UNCHANGED vars
             \/ \E v \in Watcher : OpenWatcher(v) \/ FetchHead(v) \/ CloseWatcher(v)
      PROVE  poll'[w][s] = poll[w][s]
  BY <1>1, <1>8, OutsideTyped DEF OpenWatcher, FetchHead, CloseWatcher, vars
<1>9. CASE Poll(w, s)
  BY <1>1, <1>5, <1>6, <1>7, <1>9, Decides
<1> QED BY <1>2, <1>3, <1>4, <1>8, <1>9, NextSplit

\* The order a poll counts is paid and of the subscription it counts for.
LEMMA CountingTyped ==
  ASSUME IInv, NEW w \in Watcher, NEW s \in Slot, Counting(w, s)
  PROVE  /\ poll[w][s].order \in Order /\ orders[poll[w][s].order] # None
         /\ orders[poll[w][s].order].status = "paid"
         /\ poll[w][s].sub \in Sub
         /\ orders[poll[w][s].order].subscription_id = poll[w][s].sub
<1>1. DecisionInv(w, s) /\ poll[w][s] \in PollRow
  BY DEF IInv, TypeOK
<1>2. poll[w][s].order \in Order /\ orders[poll[w][s].order] \in OrderRow
  BY DecisionTyped DEF Counting
<1>3. poll[w][s].sub \in Sub \cup {None}
  BY <1>1 DEF PollRow
<1> QED BY <1>1, <1>2, <1>3, NoneAssumption DEF DecisionInv, Counting

LEMMA CountedOnce ==
  ASSUME IInv, [Next]_vars, NEW v \in Watcher, NEW w \in Watcher, NEW s \in Slot, NEW t \in Slot,
         Counting(v, s)', Counting(w, t)', poll'[v][s].order = poll'[w][t].order
  PROVE  v = w /\ s = t
<1>1. /\ poll'[v][s].order = poll[v][s].order
      /\ \/ Counting(v, s)
         \/ /\ Poll(v, s) /\ ~Counting(v, s)
            /\ orders[poll[v][s].order].status \in {"pending", "underpaid"}
  BY CountingStep
<1>2. /\ poll'[w][t].order = poll[w][t].order
      /\ \/ Counting(w, t)
         \/ /\ Poll(w, t) /\ ~Counting(w, t)
            /\ orders[poll[w][t].order].status \in {"pending", "underpaid"}
  BY CountingStep
<1>3. CASE Counting(v, s) /\ Counting(w, t)
  BY <1>1, <1>2, <1>3 DEF IInv, CountInv
<1>4. CASE Counting(v, s) /\ ~Counting(w, t)
  BY <1>1, <1>2, <1>4, CountingTyped
<1>5. CASE ~Counting(v, s) /\ Counting(w, t)
  BY <1>1, <1>2, <1>5, CountingTyped
<1>6. CASE Poll(v, s) /\ ~Counting(w, t)
  <2>1. v # w \/ s # t => poll'[w][t] = poll[w][t]
    BY <1>6, PollTyped DEF OnlyPoll
  <2> QED BY <1>6, <2>1 DEF Counting
<1> QED BY <1>1, <1>2, <1>3, <1>4, <1>5, <1>6

LEMMA CountedGrows ==
  ASSUME IInv, [Next]_vars, NEW sub \in Sub, NEW i \in Counted(sub)
  PROVE  i \in Counted(sub)'
<1>1. /\ i \in Order /\ orders[i] # None /\ orders[i].status = "paid"
      /\ orders[i].subscription_id = sub
      /\ \A w \in Watcher, s \in Slot : Counting(w, s) => poll[w][s].order # i
  BY DEF Counted
<1>2. /\ orders'[i] # None /\ orders'[i].status = "paid" /\ orders'[i].subscription_id = sub
  BY <1>1, StepKeeps DEF Kept, Forward
<1>3. \A w \in Watcher, s \in Slot : Counting(w, s)' => poll'[w][s].order # i
  BY <1>1, CountingStep
<1> QED BY <1>1, <1>2, <1>3 DEF Counted

LEMMA CountedFinite ==
  \A sub \in Sub : IsFiniteSet(Counted(sub)) /\ Cardinality(Counted(sub)) \in Nat
<1> SUFFICES ASSUME NEW sub \in Sub
             PROVE  IsFiniteSet(Counted(sub)) /\ Cardinality(Counted(sub)) \in Nat
  OBVIOUS
<1>1. Counted(sub) \subseteq Order
  BY DEF Counted
<1> QED BY <1>1, ConstantsAssumption, FS_Subset, FS_CardinalityType

LEMMA CountedNumber ==
  ASSUME IInv, [Next]_vars, NEW sub \in Sub
  PROVE  /\ Cardinality(Counted(sub)) \in Nat /\ Cardinality(Counted(sub))' \in Nat
         /\ Cardinality(Counted(sub)) <= Cardinality(Counted(sub))'
<1> DEFINE old == Counted(sub)
           new == {i \in Order : i \in Counted(sub)'}
<1>1. new = Counted(sub)'
  BY DEF Counted
<1>2. old \subseteq new
  BY CountedGrows DEF Counted
<1>3. IsFiniteSet(old) /\ Cardinality(old) \in Nat
  BY CountedFinite
<1>4. IsFiniteSet(new) /\ Cardinality(new) \in Nat
  BY ConstantsAssumption, FS_Subset, FS_CardinalityType
<1> HIDE DEF old, new
<1>5. Cardinality(old) <= Cardinality(new)
  BY <1>2, <1>4, FS_Subset
<1>6. Cardinality(new) = Cardinality(Counted(sub))'
  BY <1>1
<1> QED BY <1>3, <1>4, <1>5, <1>6 DEF old

\* The order that a poll has counted becomes one of the counted.
LEMMA CountedOneMore ==
  ASSUME IInv, [Next]_vars, NEW w \in Watcher, NEW s \in Slot, Counting(w, s), ~Counting(w, s)',
         NEW sub \in Sub, sub = poll[w][s].sub
  PROVE  Cardinality(Counted(sub)) + 1 <= Cardinality(Counted(sub))'
<1> DEFINE i == poll[w][s].order
           old == Counted(sub)
           new == {j \in Order : j \in Counted(sub)'}
<1>1. new = Counted(sub)'
  BY DEF Counted
<1>2. old \subseteq new
  BY CountedGrows DEF Counted
<1>3. /\ i \in Order /\ orders[i] # None /\ orders[i].status = "paid"
      /\ orders[i].subscription_id = sub
  BY CountingTyped
<1>4. i \notin old
  BY DEF Counted
<1>5. i \in new
  <2>1. orders'[i] # None /\ orders'[i].status = "paid" /\ orders'[i].subscription_id = sub
    BY <1>3, StepKeeps DEF Kept, Forward
  <2>2. ASSUME NEW v \in Watcher, NEW t \in Slot, Counting(v, t)', poll'[v][t].order = i
        PROVE  FALSE
    <3>1. /\ poll[v][t].order = i
          /\ Counting(v, t) \/ orders[i].status \in {"pending", "underpaid"}
      BY <2>2, CountingStep
    <3>2. v = w /\ t = s
      BY <1>3, <3>1 DEF IInv, CountInv
    <3> QED BY <2>2, <3>2
  <2>3. \A j : j = i => j \in Counted(sub)'
    BY <1>3, <2>1, <2>2 DEF Counted
  <2> QED BY <1>3, <2>3
<1>6. IsFiniteSet(old) /\ Cardinality(old) \in Nat
  BY CountedFinite
<1>7. IsFiniteSet(new) /\ Cardinality(new) \in Nat
  BY ConstantsAssumption, FS_Subset, FS_CardinalityType
<1> HIDE DEF old, new, i
<1>8. old \cup {i} \subseteq new
  BY <1>2, <1>5
<1>9. Cardinality(old \cup {i}) = Cardinality(old) + 1
  BY <1>4, <1>6, FS_AddElement
<1>10. Cardinality(old \cup {i}) <= Cardinality(new)
  BY <1>7, <1>8, FS_Subset
<1>11. Cardinality(new) = Cardinality(Counted(sub))'
  BY <1>1
<1> QED BY <1>9, <1>10, <1>11 DEF old

\* Who writes a counter, and what.
LEMMA SubsStep ==
  ASSUME IInv, [Next]_vars, NEW sub \in Sub
  PROVE  \/ subs'[sub].charges_done = subs[sub].charges_done
         \/ \E w \in Watcher, s \in Slot :
              /\ poll[w][s].pc = "writesub" /\ poll'[w][s].pc = "webhook" /\ sub = poll[w][s].sub
              /\ subs'[sub].charges_done = poll[w][s].count + 1
<1> DEFINE Same == subs'[sub].charges_done = subs[sub].charges_done
<1>1. TypeOK /\ subs[sub] \in SubRow
  BY DEF IInv, TypeOK
<1>2. CASE subs' = subs
  BY <1>2
<1>3. ASSUME NEW x \in Sub, NEW st, subs' = [subs EXCEPT ![x].status = st]
      PROVE  Same
  <2> DEFINE row == subs[sub]
  <2>1. subs'[sub] = row \/ subs'[sub] = [row EXCEPT !.status = st]
    BY <1>1, <1>3 DEF TypeOK
  <2>2. [row EXCEPT !.status = st].charges_done = row.charges_done
    <3> HIDE DEF row
    <3> QED BY <1>1 DEF SubRow, row
  <2> QED BY <2>1, <2>2
<1>4. ASSUME NEW x \in Sub, subs' = [subs EXCEPT ![x].overdue = TRUE]
      PROVE  Same
  <2> DEFINE row == subs[sub]
  <2>1. subs'[sub] = row \/ subs'[sub] = [row EXCEPT !.overdue = TRUE]
    BY <1>1, <1>4 DEF TypeOK
  <2>2. [row EXCEPT !.overdue = TRUE].charges_done = row.charges_done
    <3> HIDE DEF row
    <3> QED BY <1>1 DEF SubRow, row
  <2> QED BY <2>1, <2>2
<1>5. CASE Outside
  <2>1. ASSUME NEW q \in Request, NEW x \in Sub, ChargeRequest(q, x)
        PROVE  Same
    BY <1>2, <1>3, <2>1 DEF ChargeRequest
  <2>2. ASSUME NEW x \in Sub, NEW st \in Patch, PatchSub(x, st)
        PROVE  Same
    BY <1>3, <2>2 DEF PatchSub
  <2>3. Lapse => Same
    BY <1>2, <1>4 DEF Lapse
  <2>4. ASSUME \/ \E q \in Request : OrderRequest(q)
               \/ \E q \in Request, i \in Order : CreateOrder(q, i)
               \/ \E i \in Order : CancelOrder(i)
               \/ \E a \in Account : Rotate(a)
               \/ \E i \in Order, a \in Account, amount \in Payment, usdc \in Genuine :
                    Pay(i, a, amount, usdc)
               \/ Expire
        PROVE  subs' = subs
    BY <2>4 DEF OrderRequest, CreateOrder, CancelOrder, Rotate, Pay, Expire, tables
  <2> HIDE DEF Same
  <2> QED BY <1>2, <1>5, <2>1, <2>2, <2>3, <2>4 DEF Outside, Same
<1>6. ASSUME NEW w \in Watcher, NEW s \in Slot, WriteSub(w, s)
      PROVE  \/ Same
             \/ /\ poll[w][s].pc = "writesub" /\ poll'[w][s].pc = "webhook" /\ sub = poll[w][s].sub
                /\ subs'[sub].charges_done = poll[w][s].count + 1
  <2> DEFINE p == poll[w][s]
             next == p.count + 1
             row == subs[sub]
  <2>1. p.pc = "writesub" /\ Goto(w, s, "webhook")
    BY <1>6 DEF WriteSub, At
  <2>2. poll'[w][s].pc = "webhook"
    BY <1>1, <2>1, GotoEffect
  <2>3. CASE subs' = subs
    BY <2>3
  <2>4. ASSUME NEW x, x = p.sub, NEW st,
               subs' = [subs EXCEPT ![x].charges_done = next, ![x].status = st]
        PROVE  \/ subs'[sub] = row
               \/ sub = x /\ subs'[sub] = [row EXCEPT !.charges_done = next, !.status = st]
    BY <1>1, <2>4 DEF TypeOK
  <2>5. \A st : [row EXCEPT !.charges_done = next, !.status = st].charges_done = next
    <3> HIDE DEF row, next
    <3> QED BY <1>1 DEF SubRow, row
  <2>6. \/ subs' = subs
        \/ \E x, st : x = p.sub /\ subs' = [subs EXCEPT ![x].charges_done = next, ![x].status = st]
    BY <1>6 DEF WriteSub
  <2>7. \/ subs'[sub] = row
        \/ sub = p.sub /\ subs'[sub].charges_done = next
    <3>1. CASE subs' = subs
      BY <3>1
    <3>2. ASSUME NEW x, NEW st, x = p.sub,
                 subs' = [subs EXCEPT ![x].charges_done = next, ![x].status = st]
          PROVE  \/ subs'[sub] = row
                 \/ sub = p.sub /\ subs'[sub].charges_done = next
      <4>1. \/ subs'[sub] = row
            \/ sub = x /\ subs'[sub] = [row EXCEPT !.charges_done = next, !.status = st]
        BY <2>4, <3>2
      <4> QED BY <2>5, <3>2, <4>1
    <3> QED BY <2>6, <3>1, <3>2
  <2> HIDE DEF next, p
  <2> QED BY <2>1, <2>2, <2>7 DEF next, p
<1>7. ASSUME NEW w \in Watcher, NEW s \in Slot, Poll(w, s), ~WriteSub(w, s)
      PROVE  subs' = subs
  BY <1>7 DEF Poll, FetchPage, PollFails, Lookup, LookupFails, Reconcile, ReconcileFails,
              ReadSub, Enqueue, Persist, tables
<1> HIDE DEF Same
<1> QED BY <1>2, <1>5, <1>6, <1>7, NextSplit, WatcherFrame DEF vars, Same

\* Where the number that a poll will write comes from.
LEMMA ReadStep ==
  ASSUME IInv, [Next]_vars, NEW w \in Watcher, NEW s \in Slot, poll'[w][s].pc = "writesub"
  PROVE  /\ poll'[w][s].sub = poll[w][s].sub /\ poll[w][s].sub \in Sub
         /\ \/ poll[w][s].pc = "writesub" /\ poll'[w][s].count = poll[w][s].count
            \/ poll'[w][s].count = subs[poll[w][s].sub].charges_done
<1> DEFINE p == poll[w][s]
<1>1. TypeOK /\ p \in PollRow
  BY DEF IInv, TypeOK
<1>2. Counting(w, s)' /\ (Counting(w, s) => p.sub \in Sub)
  BY CountingTyped DEF Counting
<1>3. CASE poll'[w][s] = p
  BY <1>2, <1>3 DEF Counting
<1>4. CASE Poll(w, s)
  <2>1. Matches(w, s) \/ Settling(w, s) \/ Counts(w, s)
    BY <1>4, Decides
  <2>2. CASE Counts(w, s)
    <3>1. ReadSub(w, s) \/ WriteSub(w, s)
      BY <1>4, <2>2 DEF Counts, Poll, FetchPage, PollFails, Lookup, LookupFails, Reconcile,
                        ReconcileFails, Enqueue, Persist, At
    <3>2. ~Goto(w, s, "webhook")
      BY <1>1, <2>2, GotoEffect DEF Counts
    <3> DEFINE n == subs[p.sub].charges_done
               q == [p EXCEPT !.pc = "writesub", !.count = n]
    <3>3. Become(w, s, q)
      BY <3>1, <3>2 DEF ReadSub, WriteSub
    <3>4. q.count = n /\ q.sub = p.sub
      <4> HIDE DEF p, n
      <4> QED BY <1>1 DEF PollRow
    <3> HIDE DEF q
    <3>5. poll'[w][s] = q
      BY <1>1, <3>3 DEF Become, TypeOK
    <3> QED BY <1>2, <2>2, <3>4, <3>5 DEF Counts, Counting
  <2>3. CASE Matches(w, s) \/ Settling(w, s)
    BY <1>2, <2>3, CountingStep DEF Matches, Settling, Counting
  <2> QED BY <2>1, <2>2, <2>3
<1>5. CASE ~Poll(w, s)
  <2>1. Counting(w, s) /\ p.order = p.order
    BY <1>2, <1>5, CountingStep
  <2>2. poll'[w][s] = p
    <3>1. ASSUME NEW v \in Watcher, Crash(v)
          PROVE  poll'[w][s] = p
      <4>1. poll'[w][s] = IF v = w THEN NoPoll ELSE p
        BY <1>1, <3>1 DEF Crash, TypeOK
      <4> QED BY <4>1 DEF NoPoll
    <3>2. ASSUME NEW v \in Watcher, NEW t \in Slot, Poll(v, t)
          PROVE  poll'[w][s] = p
      BY <1>5, <3>2, PollTyped DEF OnlyPoll
    <3>3. ASSUME \/ Outside \/ UNCHANGED vars
                 \/ \E v \in Watcher : OpenWatcher(v) \/ FetchHead(v) \/ CloseWatcher(v)
          PROVE  poll'[w][s] = p
      BY <1>1, <3>3, OutsideTyped DEF OpenWatcher, FetchHead, CloseWatcher, vars
    <3> QED BY <3>1, <3>2, <3>3, NextSplit
  <2> QED BY <1>3, <2>2
<1> QED BY <1>3, <1>4, <1>5

LEMMA CountStep ==
  ASSUME IInv, [Next]_vars
  PROVE  CountInv'
<1>1. \A v, w \in Watcher, s, t \in Slot :
        Counting(v, s)' /\ Counting(w, t)' /\ poll'[v][s].order = poll'[w][t].order
          => v = w /\ s = t
  BY CountedOnce
<1>2. ASSUME NEW sub \in Sub
      PROVE  subs'[sub].charges_done <= Cardinality(Counted(sub))'
  <2>1. /\ subs[sub].charges_done <= Cardinality(Counted(sub)) /\ subs[sub].charges_done \in Nat
        /\ Cardinality(Counted(sub)) \in Nat /\ Cardinality(Counted(sub))' \in Nat
        /\ Cardinality(Counted(sub)) <= Cardinality(Counted(sub))'
    BY CountedNumber DEF IInv, CountInv, TypeOK, SubRow
  <2>2. ASSUME NEW w \in Watcher, NEW s \in Slot,
               poll[w][s].pc = "writesub", poll'[w][s].pc = "webhook", sub = poll[w][s].sub,
               subs'[sub].charges_done = poll[w][s].count + 1
        PROVE  subs'[sub].charges_done <= Cardinality(Counted(sub))'
    <3>1. poll[w][s].count <= Cardinality(Counted(sub)) /\ poll[w][s].count \in Nat
      BY <2>2 DEF IInv, CountInv, TypeOK, PollRow
    <3>2. Counting(w, s) /\ ~Counting(w, s)'
      BY <2>2 DEF Counting
    <3>3. Cardinality(Counted(sub)) + 1 <= Cardinality(Counted(sub))'
      BY <2>2, <3>2, CountedOneMore
    <3> QED BY <2>1, <2>2, <3>1, <3>3
  <2>3. CASE subs'[sub].charges_done = subs[sub].charges_done
    BY <2>1, <2>3
  <2> QED BY <2>2, <2>3, SubsStep
<1>3. ASSUME NEW w \in Watcher, NEW s \in Slot, poll'[w][s].pc = "writesub"
      PROVE  \A sub : sub = poll'[w][s].sub =>
               poll'[w][s].count <= Cardinality(Counted(sub))'
  <2> DEFINE x == poll[w][s].sub
  <2>1. /\ poll'[w][s].sub = x /\ x \in Sub
        /\ \/ poll[w][s].pc = "writesub" /\ poll'[w][s].count = poll[w][s].count
           \/ poll'[w][s].count = subs[x].charges_done
    BY <1>3, ReadStep
  <2>2. /\ poll[w][s].pc = "writesub" =>
             poll[w][s].count <= Cardinality(Counted(x)) /\ poll[w][s].count \in Nat
        /\ subs[x].charges_done <= Cardinality(Counted(x)) /\ subs[x].charges_done \in Nat
    BY <2>1 DEF IInv, CountInv, TypeOK, PollRow, SubRow
  <2>3. ASSUME NEW sub \in Sub, sub = x
        PROVE  poll'[w][s].count <= Cardinality(Counted(sub))'
    <3>1. /\ Cardinality(Counted(sub)) \in Nat /\ Cardinality(Counted(sub))' \in Nat
          /\ Cardinality(Counted(sub)) <= Cardinality(Counted(sub))'
      BY CountedNumber
    <3> QED BY <2>1, <2>2, <2>3, <3>1
  <2> QED BY <2>1, <2>3
<1> QED BY <1>1, <1>2, <1>3 DEF CountInv

---------------------------------------------------------------------------
(* The refinement of OrderBook.                                            *)

\* Cardinality is instantiated with the rest of OrderBook.
LEMMA SameCardinality == \A S : B!Cardinality(S) = Cardinality(S)
BY Zenon DEF B!Cardinality, Cardinality

LEMMA RowBooked ==
  ASSUME NEW i \in Order, orders'[i] # None, \A j \in Order \ {i} : orders'[j] = orders[j]
  PROVE  /\ booked' = [booked EXCEPT ![i] = orders'[i].status]
         /\ invoiced' = [invoiced EXCEPT ![i] = orders'[i].subscription_id]
         /\ evidence' = [evidence EXCEPT ![i] = orders'[i].tx_hash]
<1>1. booked' = [booked EXCEPT ![i] = orders'[i].status]
  BY DEF booked
<1>2. invoiced' = [invoiced EXCEPT ![i] = orders'[i].subscription_id]
  BY DEF invoiced
<1>3. evidence' = [evidence EXCEPT ![i] = orders'[i].tx_hash]
  BY DEF evidence
<1> QED BY <1>1, <1>2, <1>3

LEMMA BooksSame ==
  ASSUME orders' = orders, webhooks' = webhooks, ledger' = ledger, counted' = counted
  PROVE  UNCHANGED B!vars
<1>1. booked' = booked /\ invoiced' = invoiced /\ evidence' = evidence
  BY DEF booked, invoiced, evidence
<1> QED BY <1>1 DEF B!vars

\* Steps that write subscriptions but not their counters.
LEMMA CountersSame ==
  ASSUME TypeOK, NEW x \in Sub,
         \E st : subs' \in {subs, [subs EXCEPT ![x].status = st], [subs EXCEPT ![x].overdue = st]}
  PROVE  counted' = counted
<1>0. PICK st : subs' \in {subs, [subs EXCEPT ![x].status = st], [subs EXCEPT ![x].overdue = st]}
  OBVIOUS
<1> DEFINE row == subs[x]
<1>1. row \in SubRow
  BY DEF TypeOK
<1>2. /\ [row EXCEPT !.status = st].charges_done = row.charges_done
      /\ [row EXCEPT !.overdue = st].charges_done = row.charges_done
  <2> HIDE DEF row
  <2> QED BY <1>1 DEF SubRow
<1>3. \A s \in Sub : subs'[s].charges_done = subs[s].charges_done
  BY <1>0, <1>2 DEF TypeOK
<1> QED BY <1>3 DEF counted

\* An order gets its row, its cancellation or its date passes.
LEMMA CreateBooks ==
  ASSUME IInv, NEW q \in Request, NEW i \in Order, CreateOrder(q, i)
  PROVE  \E s \in Sub \cup {None} : B!Issue(i, s)
<1> DEFINE row == request[q]
<1>1. /\ TypeOK /\ row \in OrderRow /\ orders[i] = None /\ orders' = [orders EXCEPT ![i] = row]
      /\ row.status = "pending" /\ row.tx_hash = 0
      /\ subs' = subs /\ webhooks' = webhooks /\ ledger' = ledger
  BY DEF CreateOrder, IInv, RowsInv, TypeOK
<1> HIDE DEF row
<1>2. /\ booked' = [booked EXCEPT ![i] = "pending"]
      /\ invoiced' = [invoiced EXCEPT ![i] = row.subscription_id]
      /\ evidence' = [evidence EXCEPT ![i] = 0]
  <2>1. orders'[i] = row /\ row # None /\ \A j \in Order \ {i} : orders'[j] = orders[j]
    BY <1>1, NoneAssumption DEF TypeOK
  <2> QED BY <1>1, <2>1, RowBooked
<1>3. booked[i] = "none" /\ evidence' = evidence
  BY <1>1, <1>2 DEF booked, evidence
<1>4. row.subscription_id \in Sub \cup {None} /\ counted' = counted
  BY <1>1 DEF OrderRow, counted
<1> QED BY <1>1, <1>2, <1>3, <1>4 DEF B!Issue

LEMMA CancelBooks ==
  ASSUME IInv, NEW i \in Order, CancelOrder(i)
  PROVE  B!Cancel(i)
<1> DEFINE o == orders[i]
           row == [o EXCEPT !.status = "cancelled"]
<1>1. /\ TypeOK /\ o \in OrderRow /\ o # None /\ o.status = "pending"
      /\ orders' = [orders EXCEPT ![i] = row]
      /\ subs' = subs /\ webhooks' = webhooks /\ ledger' = ledger
  BY DEF CancelOrder, IInv, TypeOK
<1>2. /\ row \in OrderRow /\ row.status = "cancelled" /\ row.tx_hash = o.tx_hash
      /\ row.subscription_id = o.subscription_id
  <2> HIDE DEF o
  <2> QED BY <1>1 DEF OrderRow, Status
<1> HIDE DEF row
<1>3. /\ booked' = [booked EXCEPT ![i] = "cancelled"]
      /\ invoiced' = [invoiced EXCEPT ![i] = o.subscription_id]
      /\ evidence' = [evidence EXCEPT ![i] = o.tx_hash]
  <2>1. orders'[i] = row /\ row # None /\ \A j \in Order \ {i} : orders'[j] = orders[j]
    BY <1>1, <1>2, NoneAssumption DEF TypeOK
  <2> QED BY <1>2, <2>1, RowBooked
<1>4. booked[i] = "pending" /\ invoiced' = invoiced /\ evidence' = evidence /\ counted' = counted
  BY <1>1, <1>3 DEF booked, invoiced, evidence, counted
<1> QED BY <1>1, <1>3, <1>4 DEF B!Cancel

LEMMA LapseBooks ==
  ASSUME IInv, Lapse
  PROVE  UNCHANGED B!vars
<1>1. TypeOK /\ webhooks' = webhooks /\ ledger' = ledger
  BY DEF IInv, Lapse
<1>2. ASSUME NEW s \in Sub, subs' = [subs EXCEPT ![s].overdue = TRUE], orders' = orders
      PROVE  UNCHANGED B!vars
  <2>1. counted' = counted
    BY <1>1, <1>2, CountersSame
  <2> QED BY <1>1, <1>2, <2>1, BooksSame
<1>3. ASSUME NEW i \in Order, orders[i] # None, orders' = [orders EXCEPT ![i].overdue = TRUE],
             subs' = subs
      PROVE  UNCHANGED B!vars
  <2> DEFINE o == orders[i]
             row == [o EXCEPT !.overdue = TRUE]
  <2>1. o \in OrderRow /\ o # None /\ orders' = [orders EXCEPT ![i] = row]
    BY <1>1, <1>3 DEF TypeOK
  <2>2. /\ row \in OrderRow /\ row.status = o.status /\ row.tx_hash = o.tx_hash
        /\ row.subscription_id = o.subscription_id
    <3> HIDE DEF o
    <3> QED BY <2>1 DEF OrderRow
  <2> HIDE DEF row
  <2>3. /\ booked' = [booked EXCEPT ![i] = o.status]
        /\ invoiced' = [invoiced EXCEPT ![i] = o.subscription_id]
        /\ evidence' = [evidence EXCEPT ![i] = o.tx_hash]
    <3>1. orders'[i] = row /\ row # None /\ \A j \in Order \ {i} : orders'[j] = orders[j]
      BY <1>1, <2>1, <2>2, NoneAssumption DEF TypeOK
    <3> QED BY <2>2, <3>1, RowBooked
  <2>4. booked' = booked /\ invoiced' = invoiced /\ evidence' = evidence /\ counted' = counted
    BY <1>3, <2>1, <2>3 DEF booked, invoiced, evidence, counted
  <2> QED BY <1>1, <2>4 DEF B!vars
<1> QED BY <1>2, <1>3 DEF Lapse

\* The expiry enqueues for every expired order there is; those before it have
\* their event already.
LEMMA ExpireBooks ==
  ASSUME IInv, Expire
  PROVE  \E late \in SUBSET Order : B!Expire(late)
<1> DEFINE late == {i \in Order : /\ orders[i] # None /\ orders[i].status = "pending"
                                  /\ orders[i].overdue}
           gone == {j \in Order : orders'[j] # None /\ orders'[j].status = "expired"}
<1>1. /\ orders' = [i \in Order |-> IF i \in late THEN [orders[i] EXCEPT !.status = "expired"]
                                    ELSE orders[i]]
      /\ webhooks' = webhooks \cup {<<i, "order.expired">> : i \in gone}
      /\ subs' = subs /\ ledger' = ledger /\ TypeOK /\ ExpiredAreTold
  BY DEF Expire, IInv
<1>2. ASSUME NEW i \in late
      PROVE  /\ booked[i] = "pending" /\ booked'[i] = "expired" /\ i \in gone
             /\ invoiced'[i] = invoiced[i] /\ evidence'[i] = evidence[i]
  <2> DEFINE o == orders[i]
             row == [o EXCEPT !.status = "expired"]
  <2>1. i \in Order /\ o \in OrderRow /\ o # None /\ o.status = "pending" /\ orders'[i] = row
    BY <1>1, <1>2 DEF TypeOK
  <2>2. /\ row \in OrderRow /\ row.status = "expired" /\ row.tx_hash = o.tx_hash
        /\ row.subscription_id = o.subscription_id
    <3> HIDE DEF o
    <3> QED BY <2>1 DEF OrderRow, Status
  <2> HIDE DEF row
  <2> QED BY <2>1, <2>2, NoneAssumption DEF booked, invoiced, evidence
<1>3. ASSUME NEW i \in Order \ late
      PROVE  /\ booked'[i] = booked[i] /\ invoiced'[i] = invoiced[i] /\ evidence'[i] = evidence[i]
             /\ i \in gone => <<i, "order.expired">> \in webhooks
  <2>1. orders'[i] = orders[i]
    BY <1>1
  <2> QED BY <1>1, <2>1 DEF booked, invoiced, evidence, ExpiredAreTold
<1> HIDE DEF late, gone
<1>4. late \subseteq Order
  BY DEF late
<1>5. booked' = [i \in Order |-> IF i \in late THEN "expired" ELSE booked[i]]
  BY <1>2, <1>3 DEF booked
<1>6. invoiced' = invoiced /\ evidence' = evidence /\ counted' = counted
  <2>1. \A i \in Order : invoiced'[i] = invoiced[i] /\ evidence'[i] = evidence[i]
    BY <1>2, <1>3
  <2> QED BY <1>1, <2>1 DEF invoiced, evidence, counted
<1>7. webhooks' = webhooks \cup {<<i, "order.expired">> : i \in late}
  <2>1. \A i \in gone : i \in Order
    BY DEF gone
  <2> QED BY <1>1, <1>2, <1>3, <2>1
<1> QED BY <1>1, <1>2, <1>4, <1>5, <1>6, <1>7 DEF B!Expire

LEMMA OutsideBooks ==
  ASSUME IInv, Outside
  PROVE  [B!Next]_(B!vars)
<1>1. TypeOK
  BY DEF IInv
<1>2. ASSUME NEW q \in Request, OrderRequest(q)
      PROVE  UNCHANGED B!vars
  BY <1>2, BooksSame DEF OrderRequest, tables, counted
<1>3. ASSUME NEW q \in Request, NEW s \in Sub, ChargeRequest(q, s)
      PROVE  UNCHANGED B!vars
  <2>1. counted' = counted
    BY <1>1, <1>3, CountersSame DEF ChargeRequest
  <2> QED BY <1>3, <2>1, BooksSame DEF ChargeRequest
<1>4. ASSUME NEW s \in Sub, NEW st \in Patch, PatchSub(s, st)
      PROVE  UNCHANGED B!vars
  <2>1. counted' = counted
    BY <1>1, <1>4, CountersSame DEF PatchSub
  <2> QED BY <1>4, <2>1, BooksSame DEF PatchSub
<1>5. ASSUME NEW a \in Account, Rotate(a)
      PROVE  UNCHANGED B!vars
  BY <1>5, BooksSame DEF Rotate, tables, counted
<1>6. ASSUME NEW i \in Order, NEW a \in Account, NEW amount \in Payment, NEW usdc \in Genuine,
             Pay(i, a, amount, usdc)
      PROVE  B!Receive(i, a, amount, usdc) /\ usdc \in BOOLEAN
  <2>1. /\ orders[i] # None /\ UNCHANGED <<orders, subs, webhooks>> /\ usdc \in BOOLEAN
        /\ ledger' = Append(ledger, [memo |-> i, to |-> a, amount |-> amount, usdc |-> usdc])
    BY <1>6, ConstantsAssumption DEF Pay, tables
  <2>2. /\ booked[i] = orders[i].status /\ orders[i].status # "none"
        /\ booked' = booked /\ invoiced' = invoiced /\ evidence' = evidence
        /\ counted' = counted
    BY <1>1, <2>1 DEF booked, invoiced, evidence, counted, TypeOK, OrderRow, Status
  <2> QED BY <2>1, <2>2 DEF B!Receive
<1>7. ASSUME NEW q \in Request, NEW i \in Order, CreateOrder(q, i)
      PROVE  B!Next
  BY <1>7, CreateBooks DEF B!Next
<1>8. ASSUME NEW i \in Order, CancelOrder(i)
      PROVE  B!Next
  BY <1>8, CancelBooks DEF B!Next
<1>9. Expire => B!Next
  BY ExpireBooks DEF B!Next
<1>10. ASSUME NEW i \in Order, NEW a \in Account, NEW amount \in Payment, NEW usdc \in Genuine,
              Pay(i, a, amount, usdc)
       PROVE  B!Next
  BY <1>6, <1>10 DEF B!Next
<1> QED BY <1>2, <1>3, <1>4, <1>5, <1>7, <1>8, <1>9, <1>10, LapseBooks DEF Outside

\* The conditional update, whether or not its reply arrives.
LEMMA SettlingBooks ==
  ASSUME IInv, NEW w \in Watcher, NEW s \in Slot, Poll(w, s), orders' # orders
  PROVE  B!Next
<1> DEFINE p == poll[w][s]
           i == p.order
           outcome == p.outcome
           r == Current(w, s)
           row == [orders[i] EXCEPT !.status = outcome, !.tx_hash = r]
<1>1. /\ p.pc = "update" /\ orders[i].status \in AllowedPrior(outcome)
      /\ orders' = Settled(i, outcome, r)
  BY PollOrders
<1>2. /\ i \in Order /\ orders[i] \in OrderRow /\ outcome \in {"paid", "underpaid"}
      /\ r \in Record /\ r = p.page[1] /\ TypeOK /\ DecisionInv(w, s)
  BY <1>1, DecisionTyped DEF IInv
<1>3. Settles(r, i, outcome)
  BY <1>1, <1>2 DEF DecisionInv
<1>4. UNCHANGED <<subs, webhooks, ledger>>
  BY DEF Poll, FetchPage, PollFails, Lookup, LookupFails, Reconcile, ReconcileFails,
         ReadSub, WriteSub, Enqueue, Persist, tables
<1> HIDE DEF p, i, outcome, r
<1>5. orders[i] # None
  BY <1>2, NoneAssumption
<1>6. /\ row \in OrderRow /\ row.status = outcome /\ row.tx_hash = r
      /\ row.subscription_id = orders[i].subscription_id
  <2> DEFINE o == orders[i]
  <2>1. o \in OrderRow /\ outcome \in Status /\ r \in 0..MaxPayments
    BY <1>2 DEF Status, Record
  <2> HIDE DEF o
  <2>2. \A x : x = [o EXCEPT !.status = outcome, !.tx_hash = r] =>
          /\ x \in OrderRow /\ x.status = outcome /\ x.tx_hash = r
          /\ x.subscription_id = o.subscription_id
    BY <2>1 DEF OrderRow
  <2> QED BY <2>2 DEF o
<1>7. orders' = [orders EXCEPT ![i] = row]
  BY <1>1, <1>2 DEF Settled, TypeOK
<1> HIDE DEF row
<1>8. /\ booked' = [booked EXCEPT ![i] = outcome]
      /\ invoiced' = [invoiced EXCEPT ![i] = orders[i].subscription_id]
      /\ evidence' = [evidence EXCEPT ![i] = r]
  <2>1. orders'[i] = row /\ row # None /\ \A j \in Order \ {i} : orders'[j] = orders[j]
    BY <1>2, <1>6, <1>7, NoneAssumption DEF TypeOK
  <2> QED BY <1>2, <1>6, <2>1, RowBooked
<1>9. invoiced' = invoiced /\ counted' = counted /\ booked[i] = orders[i].status
  BY <1>2, <1>4, <1>5, <1>8 DEF invoiced, counted, booked
<1>10. B!Settle(i, r)
  BY <1>1, <1>2, <1>3, <1>4, <1>8, <1>9 DEF B!Settle, Settles, AllowedPrior
<1>11. r \in 1..Len(ledger)
  BY <1>3 DEF Settles
<1> QED BY <1>2, <1>10, <1>11 DEF B!Next

\* The order being counted backs the number written.
LEMMA WriteBooks ==
  ASSUME IInv, NEW w \in Watcher, NEW s \in Slot, WriteSub(w, s)
  PROVE  B!Next \/ UNCHANGED B!vars
<1> DEFINE p == poll[w][s]
           x == p.sub
           next == p.count + 1
           i == p.order
           backed == {j \in Order : booked[j] = "paid" /\ invoiced[j] = x}
<1>1. /\ p.pc = "writesub" /\ UNCHANGED <<orders, webhooks, ledger>> /\ TypeOK
      /\ Counting(w, s)
  BY DEF WriteSub, At, Counting, IInv
<1>2. /\ i \in Order /\ orders[i] # None /\ orders[i].status = "paid" /\ x \in Sub
      /\ orders[i].subscription_id = x
  BY <1>1, CountingTyped
<1>3. p.count <= Cardinality(Counted(x)) /\ p.count \in Nat
  BY <1>1 DEF IInv, CountInv, TypeOK, PollRow
<1>4. i \notin Counted(x) /\ i \in backed /\ Counted(x) \subseteq backed
  BY <1>1, <1>2 DEF Counted, booked, invoiced
<1>5. next \in 1..Cardinality(Order) /\ next <= Cardinality(backed)
  <2>1. /\ IsFiniteSet(backed) /\ Cardinality(backed) <= Cardinality(Order)
        /\ Cardinality(backed) \in Nat /\ Cardinality(Order) \in Nat
    BY ConstantsAssumption, FS_Subset, FS_CardinalityType
  <2>2. IsFiniteSet(Counted(x)) /\ Cardinality(Counted(x)) \in Nat
    BY <1>2, CountedFinite
  <2>3. Cardinality(Counted(x) \cup {i}) = Cardinality(Counted(x)) + 1
    BY <1>4, <2>2, FS_AddElement
  <2>4. Counted(x) \cup {i} \subseteq backed
    BY <1>4
  <2> HIDE DEF backed, p, i, x
  <2>5. Cardinality(Counted(x) \cup {i}) <= Cardinality(backed)
    BY <2>1, <2>4, FS_Subset
  <2> QED BY <1>3, <2>1, <2>2, <2>3, <2>5
<1>6. ASSUME NEW st, subs' = [subs EXCEPT ![x].charges_done = next, ![x].status = st]
      PROVE  B!Next
  <2> DEFINE row == subs[x]
             new == [row EXCEPT !.charges_done = next, !.status = st]
  <2>1. row \in SubRow /\ subs' = [subs EXCEPT ![x] = new]
    BY <1>1, <1>2, <1>6 DEF TypeOK
  <2>2. new.charges_done = next
    <3> HIDE DEF row
    <3> QED BY <2>1 DEF SubRow
  <2> HIDE DEF new, next, x
  <2>3. counted' = [counted EXCEPT ![x] = next]
    <3>1. subs'[x] = new /\ \A y \in Sub : y # x => subs'[y] = subs[y]
      BY <1>1, <1>2, <2>1 DEF TypeOK
    <3> QED BY <1>2, <2>2, <3>1 DEF counted
  <2>4. booked' = booked /\ invoiced' = invoiced /\ evidence' = evidence
    BY <1>1 DEF booked, invoiced, evidence
  <2>5. next <= Cardinality({j \in Order : booked[j] = "paid" /\ invoiced[j] = x})
    BY <1>5
  <2>6. /\ next <= B!Cardinality({j \in Order : booked[j] = "paid" /\ invoiced[j] = x})
        /\ next \in 1..B!Cardinality(Order) /\ x \in Sub
    BY <1>2, <1>5, <2>5, SameCardinality
  <2>7. B!Count(x, next)
    BY <1>1, <2>3, <2>4, <2>6, Zenon DEF B!Count
  <2> QED BY <2>6, <2>7, Zenon DEF B!Next
<1>7. CASE subs' = subs
  BY <1>1, <1>7, BooksSame DEF counted
<1> QED BY <1>6, <1>7 DEF WriteSub

\* The event is of the order's own kind.
LEMMA EnqueueBooks ==
  ASSUME IInv, NEW w \in Watcher, NEW s \in Slot, Enqueue(w, s)
  PROVE  B!Next \/ UNCHANGED B!vars
<1> DEFINE p == poll[w][s]
           i == p.order
           kind == EventType(p.outcome, p.sub)
<1>1. /\ p.pc = "webhook" /\ UNCHANGED <<orders, subs, ledger>>
      /\ webhooks' \in {webhooks, webhooks \cup {<<i, kind>>}}
  BY DEF Enqueue, At
<1>2. /\ i \in Order /\ orders[i] # None /\ p.outcome \in {"paid", "underpaid"}
      /\ orders[i].status \in IF p.outcome = "paid" THEN {"paid"} ELSE {"underpaid", "paid"}
      /\ p.sub = orders[i].subscription_id
  BY <1>1, DecisionTyped, NoneAssumption DEF IInv, DecisionInv
<1>3. booked[i] = orders[i].status /\ invoiced[i] = p.sub
  BY <1>2 DEF booked, invoiced
<1>4. booked' = booked /\ invoiced' = invoiced /\ evidence' = evidence /\ counted' = counted
  BY <1>1 DEF booked, invoiced, evidence, counted
<1>5. ASSUME webhooks' = webhooks \cup {<<i, kind>>}
      PROVE  B!Tell(i)
  <2> HIDE DEF p, i
  <2> QED BY <1>1, <1>2, <1>3, <1>4, <1>5 DEF B!Tell, EventType
<1>6. CASE webhooks' = webhooks
  BY <1>1, <1>4, <1>6, BooksSame
<1> QED BY <1>1, <1>2, <1>5, <1>6 DEF B!Next

LEMMA PollBooks ==
  ASSUME IInv, NEW w \in Watcher, NEW s \in Slot, Poll(w, s)
  PROVE  [B!Next]_(B!vars)
<1>1. \/ orders' # orders
      \/ WriteSub(w, s) \/ Enqueue(w, s)
      \/ UNCHANGED <<orders, subs, webhooks, ledger>>
  BY DEF Poll, FetchPage, PollFails, Lookup, LookupFails, Reconcile, ReconcileFails,
         ReadSub, Persist, tables
<1>2. CASE UNCHANGED <<orders, subs, webhooks, ledger>>
  BY <1>2, BooksSame DEF counted
<1> QED BY <1>1, <1>2, SettlingBooks, WriteBooks, EnqueueBooks

LEMMA StepBooks ==
  ASSUME IInv, [Next]_vars
  PROVE  [B!Next]_(B!vars)
<1>1. ASSUME \/ \E w \in Watcher : OpenWatcher(w) \/ FetchHead(w) \/ CloseWatcher(w) \/ Crash(w)
             \/ UNCHANGED vars
      PROVE  UNCHANGED B!vars
  <2>1. UNCHANGED <<orders, subs, webhooks, ledger>>
    BY <1>1, WatcherFrame DEF vars, tables
  <2> QED BY <2>1, BooksSame DEF counted
<1> QED BY <1>1, OutsideBooks, PollBooks, NextSplit

LEMMA InitBooks == Init => B!Init
<1> SUFFICES ASSUME Init PROVE B!Init
  OBVIOUS
<1>1. \A i \in Order : orders[i] = None
  BY DEF Init
<1>2. \A s \in Sub : subs[s].charges_done = 0
  BY DEF Init
<1>3. /\ booked = [i \in Order |-> "none"] /\ invoiced = [i \in Order |-> None]
      /\ evidence = [i \in Order |-> 0] /\ counted = [s \in Sub |-> 0]
  BY <1>1, <1>2 DEF booked, invoiced, evidence, counted
<1> QED BY <1>3 DEF B!Init, Init

\* The books expire an order and tell it in one step, and nothing untells it.
LEMMA ExpiredStep ==
  ASSUME IInv, [Next]_vars
  PROVE  ExpiredAreTold'
<1> SUFFICES ASSUME NEW i \in Order, booked'[i] = "expired"
             PROVE  <<i, "order.expired">> \in webhooks'
  BY DEF ExpiredAreTold, booked
<1>1. booked[i] = "expired" => <<i, "order.expired">> \in webhooks
  BY DEF IInv, ExpiredAreTold, booked
<1>2. DOMAIN booked = Order
  BY DEF booked
<1>3. CASE UNCHANGED B!vars
  BY <1>1, <1>3 DEF B!vars
<1>4. ASSUME NEW late \in SUBSET Order, B!Expire(late)
      PROVE  <<i, "order.expired">> \in webhooks'
  BY <1>1, <1>4 DEF B!Expire
<1>5. ASSUME B!Next, ~\E late \in SUBSET Order : B!Expire(late)
      PROVE  booked'[i] = booked[i] /\ webhooks \subseteq webhooks'
  BY <1>2, <1>5 DEF B!Next, B!Issue, B!Receive, B!Settle, B!Cancel, B!Tell, B!Count
<1> QED BY <1>1, <1>3, <1>4, <1>5, StepBooks

---------------------------------------------------------------------------
(* Payments that nobody will resume at.                                    *)

\* A stored token stays, and a watcher is fresh only where none was stored.
LEMMA UntrackedStep ==
  ASSUME IInv, [Next]_vars, NEW a \in Account, Untracked(a)'
  PROVE  Untracked(a)
<1> DEFINE Fresh(w) == watcher[w] # None /\ watcher[w].account = a /\ watcher[w].stage = "fresh"
           Later(w) == watcher'[w] # None /\ watcher'[w].account = a /\ watcher'[w].stage = "fresh"
<1> SUFFICES /\ state[a] # None => state'[a] # None
             /\ \A w \in Watcher : Later(w) => Fresh(w) \/ state[a] = None
  BY DEF Untracked
<1>1. TypeOK
  BY DEF IInv
<1>2. ASSUME NEW w \in Watcher, watcher'[w] = watcher[w]
      PROVE  Later(w) => Fresh(w)
  BY <1>2
<1> HIDE DEF Fresh, Later
<1>3. CASE Outside \/ UNCHANGED vars
  BY <1>1, <1>2, <1>3, OutsideTyped DEF vars
<1>4. ASSUME NEW v \in Watcher, OpenWatcher(v)
      PROVE  /\ state' = state
             /\ \A w \in Watcher : Later(w) => Fresh(w) \/ state[a] = None
  <2>1. state' = state /\ \A w \in Watcher : w # v => watcher'[w] = watcher[w]
    BY <1>1, <1>4 DEF OpenWatcher, TypeOK
  <2>2. PICK cursor, stage :
          /\ stage = "fresh" => state[address] = None
          /\ watcher' = [watcher EXCEPT ![v] =
               [account |-> address, cursor |-> cursor, stage |-> stage]]
    BY <1>4 DEF OpenWatcher
  <2>3. watcher'[v].account = address /\ watcher'[v].stage = stage
    BY <1>1, <2>2 DEF TypeOK
  <2>4. Later(v) => state[a] = None
    BY <2>2, <2>3 DEF Later
  <2> QED BY <1>2, <2>1, <2>4
<1>5. ASSUME NEW v \in Watcher, FetchHead(v) \/ CloseWatcher(v) \/ Crash(v)
      PROVE  /\ state' = state
             /\ \A w \in Watcher : Later(w) => Fresh(w) \/ state[a] = None
  <2>1. state' = state
    BY <1>5 DEF FetchHead, CloseWatcher, Crash
  <2>2. CASE FetchHead(v)
    <3>1. /\ watcher'[v].stage = "polling"
          /\ \A w \in Watcher : w # v => watcher'[w] = watcher[w]
      BY <1>1, <2>2, HeadEffect
    <3>2. ~Later(v)
      BY <3>1 DEF Later
    <3> QED BY <1>2, <2>1, <3>1, <3>2
  <2>3. CASE CloseWatcher(v)
    <3> DEFINE row == watcher[v]
               new == [row EXCEPT !.stage = "stopped"]
    <3>1. row \in WatcherRow /\ watcher' = [watcher EXCEPT ![v] = new]
      BY <1>1, <2>3 DEF CloseWatcher, TypeOK
    <3>2. new.stage = "stopped"
      <4> HIDE DEF row
      <4> QED BY <3>1 DEF WatcherRow
    <3> HIDE DEF new
    <3>3. watcher'[v] = new /\ \A w \in Watcher : w # v => watcher'[w] = watcher[w]
      BY <1>1, <3>1 DEF TypeOK
    <3>4. ~Later(v)
      BY <3>2, <3>3 DEF Later
    <3> QED BY <1>2, <2>1, <3>3, <3>4
  <2>4. CASE Crash(v)
    <3>1. watcher'[v] = None /\ \A w \in Watcher : w # v => watcher'[w] = watcher[w]
      BY <1>1, <2>4 DEF Crash, TypeOK
    <3>2. ~Later(v)
      BY <3>1 DEF Later
    <3> QED BY <1>2, <2>1, <3>1, <3>2
  <2> QED BY <1>5, <2>2, <2>3, <2>4
<1>6. ASSUME NEW v \in Watcher, NEW s \in Slot, Poll(v, s)
      PROVE  /\ state[a] # None => state'[a] # None
             /\ \A w \in Watcher : Later(w) => Fresh(w) \/ state[a] = None
  <2>1. \A w \in Watcher : w # v => watcher'[w] = watcher[w]
    BY <1>6, PollTyped DEF OnlyPoll
  <2>2. Later(v) => Fresh(v)
    <3>1. CASE watcher' = watcher
      BY <1>2, <3>1
    <3>2. CASE Advance(v, s)
      <4> DEFINE row == watcher[v]
                 n == Current(v, s)
                 new == [row EXCEPT !.cursor = n]
      <4>1. row \in WatcherRow /\ row # None
        BY <1>1, <1>6, PollTyped DEF OnlyPoll, TypeOK
      <4>2. watcher' = [watcher EXCEPT ![v] = new]
        BY <3>2 DEF Advance
      <4>3. new.account = row.account /\ new.stage = row.stage
        <5> HIDE DEF row, n
        <5> QED BY <4>1 DEF WatcherRow
      <4> HIDE DEF new
      <4>4. watcher'[v] = new
        BY <1>1, <4>2 DEF TypeOK
      <4> QED BY <4>1, <4>3, <4>4 DEF Later, Fresh
    <3> QED BY <1>6, <3>1, <3>2 DEF Poll, FetchPage, PollFails, Lookup, LookupFails,
              Reconcile, ReconcileFails, ReadSub, WriteSub, Enqueue, Persist
  <2>3. state[a] # None => state'[a] # None
    <3>1. CASE state' = state
      BY <3>1
    <3>2. CASE Persist(v, s) /\ state' # state
      <4>1. state' = [state EXCEPT ![watcher[v].account] = Current(v, s)]
        BY <3>2 DEF Persist
      <4>2. Current(v, s) \in Record
        BY <1>1, <3>2, CurrentRecord DEF Persist, At, IInv
      <4>3. Current(v, s) # None
        BY <4>2, NoneAssumption
      <4> QED BY <1>1, <4>1, <4>3 DEF TypeOK
    <3> QED BY <1>6, <3>1, <3>2 DEF Poll, FetchPage, PollFails, Lookup, LookupFails,
              Reconcile, ReconcileFails, ReadSub, WriteSub, Enqueue
  <2> QED BY <1>2, <2>1, <2>2, <2>3
<1> QED BY <1>3, <1>4, <1>5, <1>6, NextSplit

LEMMA PollHistory ==
  ASSUME IInv, NEW w \in Watcher, NEW s \in Slot, Poll(w, s)
  PROVE  history'.early = history.early /\ history'.behind = history.behind
<1>1. CASE history' = history
  BY <1>1
<1>2. ASSUME NEW cause \in {"failed", "drifted"}, Amiss(cause, {Current(w, s)}),
             poll[w][s].pc # "idle"
      PROVE  history'.early = history.early /\ history'.behind = history.behind
  BY <1>2, AmissEffect, CurrentRecord DEF IInv
<1> QED BY <1>1, <1>2 DEF Poll, FetchPage, PollFails, Lookup, LookupFails, Reconcile,
          ReconcileFails, ReadSub, WriteSub, Enqueue, Persist, At

LEMMA EarlyStep ==
  ASSUME IInv, [Next]_vars
  PROVE  EarlyInv'
<1>1. TypeOK /\ EarlyInv /\ Kept /\ TypeOK'
  BY StepKeeps DEF IInv
<1>2. \A a \in Account : Untracked(a)' => Untracked(a)
  BY UntrackedStep
<1>3. ASSUME ledger' = ledger, history'.early = history.early,
             history'.behind \subseteq history.early
      PROVE  EarlyInv'
  <2>1. \A a \in Account : OfAccount(a)' = OfAccount(a)
    BY <1>3 DEF OfAccount
  <2> QED BY <1>1, <1>2, <1>3, <2>1 DEF EarlyInv
<1>4. ASSUME NEW i \in Order, NEW b \in Account, NEW amount \in Payment, NEW usdc \in Genuine,
             Pay(i, b, amount, usdc)
      PROVE  EarlyInv'
  <2> DEFINE e == [memo |-> i, to |-> b, amount |-> amount, usdc |-> usdc]
             n == Len(ledger) + 1
  <2>1. /\ ledger \in Seq(Paid) /\ ledger' = Append(ledger, e) /\ e.to = b
        /\ history' = IF Untracked(b) THEN [history EXCEPT !.early = @ \cup {n}] ELSE history
    BY <1>1, <1>4 DEF Pay, TypeOK
  <2>2. /\ history'.early = IF Untracked(b) THEN history.early \cup {n} ELSE history.early
        /\ history'.behind = history.behind
    <3> HIDE DEF n
    <3> QED BY <1>1, <2>1 DEF TypeOK, History
  <2>3. \A a \in Account : OfAccount(a)' = IF a = b THEN OfAccount(a) \cup {n} ELSE OfAccount(a)
    <3> HIDE DEF e
    <3> QED BY <2>1 DEF OfAccount
  <2> HIDE DEF n
  <2> QED BY <1>1, <1>2, <2>2, <2>3 DEF EarlyInv
<1>5. CASE Outside
  <2>1. CASE ledger' = ledger /\ history' = history
    BY <1>1, <1>3, <2>1 DEF EarlyInv
  <2>2. \/ \E i \in Order, a \in Account, amount \in Payment, usdc \in Genuine :
             Pay(i, a, amount, usdc)
        \/ ledger' = ledger /\ history' = history
    BY <1>5 DEF Outside, OrderRequest, ChargeRequest, CreateOrder, CancelOrder, PatchSub, Rotate,
                Lapse, Expire
  <2> QED BY <1>4, <2>1, <2>2
<1>6. ASSUME NEW w \in Watcher, OpenWatcher(w) \/ CloseWatcher(w) \/ Crash(w)
      PROVE  EarlyInv'
  <2>1. ledger' = ledger /\ history' = history
    BY <1>6 DEF OpenWatcher, CloseWatcher, Crash
  <2> QED BY <1>1, <1>3, <2>1 DEF EarlyInv
<1>7. ASSUME NEW w \in Watcher, FetchHead(w)
      PROVE  EarlyInv'
  <2> DEFINE a == watcher[w].account
  <2>1. /\ ledger' = ledger /\ watcher[w] # None /\ a \in Account
        /\ history'.early = history.early
        /\ history'.behind \subseteq history.behind \cup OfAccount(a)
        /\ watcher[w].stage # "fresh" => history'.behind = history.behind
    <3>1. ledger' = ledger /\ watcher[w] # None /\ watcher[w] \in WatcherRow
      BY <1>1, <1>7 DEF FetchHead, TypeOK
    <3>2. /\ history'.early = history.early
          /\ history'.behind \subseteq history.behind \cup OfAccount(a)
          /\ watcher[w].stage # "fresh" => history'.behind = history.behind
      BY <1>1, <1>7, HeadEffect
    <3> QED BY <3>1, <3>2 DEF WatcherRow
  <2>2. watcher[w].stage = "fresh" => OfAccount(a) \subseteq history.early
    BY <1>1, <2>1 DEF EarlyInv, Untracked
  <2>3. history'.behind \subseteq history.early
    BY <1>1, <2>1, <2>2 DEF EarlyInv
  <2> QED BY <1>3, <2>1, <2>3
<1>8. ASSUME NEW w \in Watcher, NEW s \in Slot, Poll(w, s)
      PROVE  EarlyInv'
  BY <1>1, <1>3, <1>8, PollHistory, PollTyped DEF OnlyPoll, EarlyInv
<1>9. CASE UNCHANGED vars
  BY <1>1, <1>3, <1>9 DEF vars, EarlyInv
<1> QED BY <1>5, <1>6, <1>7, <1>8, <1>9, NextSplit

---------------------------------------------------------------------------
(* The theorems.                                                           *)

LEMMA InitInv == Init => IInv
<1> SUFFICES ASSUME Init
             PROVE  IInv
  OBVIOUS
<1>1. /\ \A i \in Order : orders[i] = None
      /\ \A w \in Watcher : watcher[w] = None
      /\ \A w \in Watcher, s \in Slot : poll[w][s] = NoPoll
      /\ \A a \in Account : state[a] = None
      /\ \A q \in Request : request[q] = None
      /\ \A sub \in Sub : subs[sub].charges_done = 0
      /\ webhooks = {} /\ Len(ledger) = 0
  BY DEF Init
<1>2. NoPoll.pc = "idle"
  BY DEF NoPoll
<1>3. RowsInv /\ CursorInv /\ SettledByPayment /\ EventsAreTrue /\ ExpiredAreTold
  BY <1>1 DEF RowsInv, CursorInv, SettledByPayment, EventsAreTrue, ExpiredAreTold
<1>4. \A w \in Watcher, s \in Slot : PageInv(w, s) /\ DecisionInv(w, s) /\ ~Counting(w, s)
  BY <1>1, <1>2 DEF PageInv, DecisionInv, Counting
<1>5. CountInv
  <2>1. \A sub \in Sub : subs[sub].charges_done <= Cardinality(Counted(sub))
    BY <1>1, CountedFinite
  <2> QED BY <1>1, <1>2, <1>4, <2>1 DEF CountInv
<1>6. EarlyInv
  BY <1>1 DEF Init, EarlyInv, OfAccount
<1> QED BY <1>3, <1>4, <1>5, <1>6, InitTyped DEF IInv

LEMMA StepInv ==
  ASSUME IInv, [Next]_vars
  PROVE  IInv'
<1>1. TypeOK'
  BY StepKeeps
<1>2. /\ RowsInv' /\ CursorInv' /\ EarlyInv' /\ SettledByPayment' /\ EventsAreTrue'
      /\ ExpiredAreTold' /\ CountInv'
  BY RowsStep, CursorStep, EarlyStep, SettledStep, EventsStep, ExpiredStep, CountStep
<1>3. \A w \in Watcher, s \in Slot : PageInv(w, s)' /\ DecisionInv(w, s)'
  BY PageStep, DecisionStep
<1> QED BY <1>1, <1>2, <1>3 DEF IInv

\* The inductive invariant holds of the pipeline: cursors are never ahead of
\* the records handled, pages have no gaps, a decision is backed by the record
\* a poll took it on, and an order is counted by at most one poll.
THEOREM Invariant == Spec => []IInv
BY InitInv, StepInv, PTL DEF Spec

\* The tables, cursors and polls of horizon.ts and reconciler.ts keep their
\* types.
THEOREM TypeCorrect == Spec => []TypeOK
<1>1. IInv => TypeOK
  BY DEF IInv
<1> QED BY <1>1, Invariant, PTL

\* Whatever overlaps of polls and changes of pods there are, the stored paging
\* token passes a usable payment and leaves its order pending only if a query
\* failed, if the merchant's address was another one at the lookup, or if the
\* payment was made before there was a token to resume at and a watcher that
\* read none - the first one, or one after a crash - began at the head.  No
\* crash after the first token loses anything.
THEOREM NothingSkippedHolds == Spec => []NothingSkipped
<1>1. IInv => NothingSkipped
  <2> SUFFICES ASSUME IInv, NEW a \in Account, state[a] # None,
                      NEW r \in OfAccount(a), r <= state[a], ledger[r].usdc,
                      orders[ledger[r].memo].status = "pending"
               PROVE  \/ r \in history.failed
                      \/ r \in history.drifted
                      \/ r \in history.behind \cap history.early
    BY DEF NothingSkipped
  <2>1. Handled(r) /\ history.behind \subseteq history.early
    BY DEF IInv, CursorInv, EarlyInv, HandledTo
  <2> QED BY <2>1 DEF Handled, amiss
<1> QED BY <1>1, Invariant, PTL

\* Every paid or underpaid order was settled by one payment with its memo, in
\* the right asset, on the right side of the expected amount, although the
\* reconciler acts on a row that the poll read some steps before.
THEOREM SettledByPaymentHolds == Spec => []SettledByPayment
<1>1. IInv => SettledByPayment
  BY DEF IInv
<1> QED BY <1>1, Invariant, PTL

\* An event once queued for the merchant stays true of its order.
THEOREM EventsAreTrueHolds == Spec => []EventsAreTrue
<1>1. IInv => EventsAreTrue
  BY DEF IInv
<1> QED BY <1>1, Invariant, PTL

\* charges_done, read and written back in two calls by any number of polls,
\* never exceeds the number of the subscription's paid orders.
THEOREM CountedAtMostOnceHolds == Spec => []CountedAtMostOnce
<1>1. IInv => CountedAtMostOnce
  <2> SUFFICES ASSUME IInv, NEW sub \in Sub
               PROVE  subs[sub].charges_done <=
                        Cardinality({i \in Order : orders[i] # None /\ orders[i].status = "paid"
                                                   /\ orders[i].subscription_id = sub})
    BY DEF CountedAtMostOnce
  <2> DEFINE settled == {i \in Order : orders[i] # None /\ orders[i].status = "paid"
                                       /\ orders[i].subscription_id = sub}
             over == Counted(sub)
  <2>1. over \subseteq settled /\ settled \subseteq Order
    BY DEF Counted
  <2>2. /\ subs[sub].charges_done <= Cardinality(over) /\ subs[sub].charges_done \in Nat
        /\ Cardinality(over) \in Nat
    BY CountedFinite DEF IInv, CountInv, TypeOK, SubRow
  <2> HIDE DEF settled, over
  <2>3. IsFiniteSet(settled) /\ Cardinality(settled) \in Nat
    BY <2>1, ConstantsAssumption, FS_Subset, FS_CardinalityType
  <2>4. Cardinality(over) <= Cardinality(settled)
    BY <2>1, <2>3, FS_Subset
  <2> QED BY <2>2, <2>3, <2>4 DEF settled
<1> QED BY <1>1, Invariant, PTL

\* horizon.ts, reconciler.ts, the API and pg_cron together change orders,
\* events and counters only as the merchant's books may: every step is an
\* issue, a payment, a justified settlement, a cancellation, an expiry with its
\* event, a true event of the order's kind, a backed count, or none of these.
THEOREM ImplementsOrderBookHolds == Spec => ImplementsOrderBook
<1>1. Init => B!Init
  BY InitBooks
<1>2. IInv /\ [Next]_vars => [B!Next]_(B!vars)
  BY StepBooks
<1> QED BY <1>1, <1>2, Invariant, PTL DEF Spec, ImplementsOrderBook, B!Spec

\* No poll, cancel or expiry takes an order back: a paid, expired or cancelled
\* row keeps its status and its tx_hash through every step.
THEOREM ForwardOnlyHolds == Spec => ForwardOnly
<1>1. ASSUME IInv, [Next]_vars
      PROVE  \A i \in Order : orders[i] # None /\ orders'[i] # None =>
               \/ orders[i].status = "pending"
               \/ orders[i].status = "underpaid" /\ orders'[i].status \in {"underpaid", "paid"}
               \/ orders'[i].status = orders[i].status /\ orders'[i].tx_hash = orders[i].tx_hash
  BY <1>1, StepKeeps DEF Kept, Forward
<1> QED BY <1>1, Invariant, PTL DEF Spec, ForwardOnly
=============================================================================
