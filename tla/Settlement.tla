----------------------------- MODULE Settlement -----------------------------
(***************************************************************************)
(* The off-chain settlement pipeline around one merchant: the API creates  *)
(* orders and subscription invoices, a buyer pays on the ledger with the   *)
(* order's memo, the listener (apps/listener: horizon.ts, matcher.ts,      *)
(* reconciler.ts) polls the payments of the merchant's account and moves   *)
(* the order, the subscription and the webhook queue, and pg_cron expires  *)
(* what was not paid in time.                                              *)
(*                                                                         *)
(* Every database call is a step of its own: nothing in the listener is a  *)
(* transaction, a poll may overlap the next one (setInterval), and two     *)
(* pods may poll the same account while a lease changes hands.  A watcher  *)
(* is one watchAccount call, a slot one poll of it in progress.  Ledger    *)
(* records are numbered in paging-token order.                             *)
(***************************************************************************)
EXTENDS Integers, Sequences, FiniteSets

CONSTANTS
  Order,        \* orders, each with its own memo
  Sub,          \* off-chain subscriptions
  Account,      \* Stellar accounts the merchant ever uses
  Watcher,      \* bound: watchers in the life of the system
  Slot,         \* bound: overlapping polls of one watcher
  Request,      \* bound: concurrent POST /orders and /subscriptions/:id/charge
  Price,        \* usdc_amount of every order, in stroops
  fee_bp,       \* platform_fee_bp of every order
  Payment,      \* amounts paid that occur, in stroops
  Genuine,      \* bound: are payments in the right asset (a set of BOOLEANs)
  Patch,        \* bound: statuses a client sets a subscription to
  MaxPayments,  \* bound: payments on the ledger
  max_periods,  \* of every subscription, 0 for null
  PAGE_LIMIT,   \* records per page of Horizon
  None

ASSUME ConstantsAssumption ==
  /\ Price \in Nat \ {0} /\ fee_bp \in 0..9999 /\ Payment \subseteq Nat
  /\ MaxPayments \in Nat /\ max_periods \in Nat /\ PAGE_LIMIT \in Nat \ {0}
  /\ Genuine \subseteq BOOLEAN /\ Patch \subseteq {"active", "paused", "cancelled"}
  /\ IsFiniteSet(Order)

VARIABLES
  address,   \* merchants.stellar_address
  orders,    \* the orders table
  subs,      \* the subscriptions table
  webhooks,  \* webhook_deliveries: the (order, type) pairs enqueued
  ledger,    \* the payments made, oldest first
  state,     \* listener_state: paging token per account, or None
  watcher,   \* per watcher: the account it polls and its cursor, or None
  poll,      \* per watcher and slot: the poll in progress
  request,   \* per request: the row it is about to insert, or None
  history    \* no state of the program: which payments went amiss, and how

tables == <<orders, subs, webhooks>>
api == <<address, request>>
vars == <<address, orders, subs, webhooks, ledger, state, watcher, poll, request, history>>

Record == 1..MaxPayments
Status == {"pending", "paid", "underpaid", "expired", "cancelled"}
EventTypes == {"order.paid", "order.underpaid", "subscription.charged", "order.expired"}
OrderRow == [status: Status, merchant_stellar_address: Account,
             subscription_id: Sub \cup {None}, tx_hash: 0..MaxPayments,
             overdue: BOOLEAN]
SubRow == [charges_done: Nat, overdue: BOOLEAN,
           status: {"active", "paused", "cancelled", "expired"}]
Paid == [memo: Order, to: Account, amount: Payment, usdc: BOOLEAN]
WatcherRow == [account: Account, cursor: 0..MaxPayments,
               stage: {"fresh", "blind", "polling", "stopped"}]
PollRow == [pc: {"idle", "record", "update", "readsub", "writesub", "webhook", "persist"},
            page: Seq(Record), order: Order \cup {None},
            outcome: {"paid", "underpaid", "ignore"},
            sub: Sub \cup {None}, count: Nat]

\* Payments made while their account had no token to resume at (early), passed
\* over because a query failed (failed) or because the merchant's address was
\* another one by then (drifted), or behind the head at which a watcher began.
History == [early: SUBSET Record, failed: SUBSET Record, drifted: SUBSET Record,
            behind: SUBSET Record]

ASSUME NoneAssumption ==
  None \notin Order \cup Sub \cup Record \cup OrderRow \cup WatcherRow

NoPoll == [pc |-> "idle", page |-> <<>>, order |-> None, outcome |-> "ignore",
           sub |-> None, count |-> 0]

TypeOK ==
  /\ address \in Account
  /\ orders \in [Order -> OrderRow \cup {None}]
  /\ subs \in [Sub -> SubRow]
  /\ webhooks \subseteq Order \X EventTypes
  /\ ledger \in Seq(Paid) /\ Len(ledger) <= MaxPayments
  /\ state \in [Account -> Record \cup {None}]
  /\ watcher \in [Watcher -> WatcherRow \cup {None}]
  /\ poll \in [Watcher -> [Slot -> PollRow]]
  /\ request \in [Request -> OrderRow \cup {None}]
  /\ history \in History

Init ==
  /\ address \in Account
  /\ orders = [i \in Order |-> None]
  /\ subs = [s \in Sub |-> [charges_done |-> 0, overdue |-> FALSE, status |-> "active"]]
  /\ webhooks = {}
  /\ ledger = <<>>
  /\ state = [a \in Account |-> None]
  /\ watcher = [w \in Watcher |-> None]
  /\ poll = [w \in Watcher |-> [s \in Slot |-> NoPoll]]
  /\ request = [q \in Request |-> None]
  /\ history = [early |-> {}, failed |-> {}, drifted |-> {}, behind |-> {}]

---------------------------------------------------------------------------
(* The API, the merchant, the buyer and pg_cron.                           *)

\* The row a request will insert once the rate and a memo are there.  It pins
\* the payout address that the merchant had when the request came in.
Prepare(q, s) ==
  /\ request[q] = None
  /\ \E i \in Order : orders[i] = None
  /\ request' = [request EXCEPT ![q] =
       [status |-> "pending", merchant_stellar_address |-> address,
        subscription_id |-> s, tx_hash |-> 0, overdue |-> FALSE]]

\* POST /orders.
OrderRequest(q) ==
  /\ Prepare(q, None)
  /\ UNCHANGED <<tables, address, ledger, state, watcher, poll, history>>

\* The insert that ends either kind of request.
CreateOrder(q, i) ==
  /\ request[q] # None /\ orders[i] = None
  /\ orders' = [orders EXCEPT ![i] = request[q]]
  /\ request' = [request EXCEPT ![q] = None]
  /\ UNCHANGED <<subs, webhooks, address, ledger, state, watcher, poll, history>>

CancelOrder(i) ==
  /\ orders[i] # None /\ orders[i].status = "pending"
  /\ orders' = [orders EXCEPT ![i].status = "cancelled"]
  /\ UNCHANGED <<subs, webhooks, ledger, state, watcher, poll, api, history>>

Exhausted(s) == subs[s].overdue \/ (max_periods # 0 /\ subs[s].charges_done >= max_periods)

OpenInvoice(s) ==
  \E i \in Order : /\ orders[i] # None /\ orders[i].subscription_id = s
                   /\ orders[i].status = "pending" /\ ~orders[i].overdue

\* POST /:id/charge reads the subscription and looks for an open invoice;
\* nothing stated here tells the two reads apart.
ChargeRequest(q, s) ==
  /\ request[q] = None
  /\ subs[s].status = "active"
  /\ \/ /\ Exhausted(s)
        /\ subs' = [subs EXCEPT ![s].status = "expired"]
        /\ UNCHANGED request
     \/ /\ ~Exhausted(s) /\ ~OpenInvoice(s)
        /\ Prepare(q, s)
        /\ UNCHANGED subs
  /\ UNCHANGED <<address, orders, webhooks, ledger, state, watcher, poll, history>>

\* PATCH /:id sets any status a client may ask for.
PatchSub(s, status) ==
  /\ subs[s].status # status
  /\ subs' = [subs EXCEPT ![s].status = status]
  /\ UNCHANGED <<orders, webhooks, ledger, state, watcher, poll, api, history>>

\* PATCH /merchants/me: the merchant rotates the payout address.
Rotate(a) ==
  /\ a # address
  /\ address' = a
  /\ UNCHANGED <<tables, ledger, state, watcher, poll, request, history>>

\* Nothing stored says where to resume, or a watcher has just read so.
Untracked(a) ==
  \/ state[a] = None
  \/ \E w \in Watcher : watcher[w] # None /\ watcher[w].account = a /\ watcher[w].stage = "fresh"

\* A payment carrying an order's memo; usdc: successful, in USDC of the
\* configured issuer.
Pay(i, a, amount, usdc) ==
  /\ orders[i] # None /\ Len(ledger) < MaxPayments
  /\ ledger' = Append(ledger, [memo |-> i, to |-> a, amount |-> amount, usdc |-> usdc])
  /\ history' = IF Untracked(a) THEN [history EXCEPT !.early = @ \cup {Len(ledger) + 1}]
                ELSE history
  /\ UNCHANGED <<tables, state, watcher, poll, api>>

\* expires_at passes; on an order that is no longer pending nobody looks at it.
Lapse ==
  /\ \/ \E i \in Order : /\ orders[i] # None /\ orders[i].status = "pending"
                         /\ ~orders[i].overdue
                         /\ orders' = [orders EXCEPT ![i].overdue = TRUE]
                         /\ UNCHANGED subs
     \/ \E s \in Sub : /\ ~subs[s].overdue
                       /\ subs' = [subs EXCEPT ![s].overdue = TRUE]
                       /\ UNCHANGED orders
  /\ UNCHANGED <<webhooks, ledger, state, watcher, poll, api, history>>

\* Mutant: the expiry does not look at the status either.
ExpireAnything ==
  LET late == {i \in Order : orders[i] # None /\ orders[i].overdue}
  IN /\ late # {}
     /\ orders' = [i \in Order |->
          IF i \in late THEN [orders[i] EXCEPT !.status = "expired"] ELSE orders[i]]
     /\ webhooks' = webhooks \cup {<<i, "order.expired">> : i \in late}
     /\ UNCHANGED <<subs, ledger, state, watcher, poll, api, history>>

\* slippay-expire-orders: one transaction, both statements.
Expire ==
  LET late == {i \in Order : orders[i] # None /\ orders[i].status = "pending" /\ orders[i].overdue}
  IN /\ late # {}
     /\ orders' = [i \in Order |->
          IF i \in late THEN [orders[i] EXCEPT !.status = "expired"] ELSE orders[i]]
     /\ webhooks' = webhooks \cup
          {<<i, "order.expired">> : i \in {j \in Order : orders'[j] # None /\ orders'[j].status = "expired"}}
     /\ UNCHANGED <<subs, ledger, state, watcher, poll, api, history>>

---------------------------------------------------------------------------
(* horizon.ts: watchers and polls.                                         *)

OfAccount(a) == {r \in 1..Len(ledger) : ledger[r].to = a}
Newest(R) == {r \in R : \A x \in R : x <= r}

amiss == history.failed \cup history.drifted \cup history.behind

\* Of the records R those go amiss that still wait for their order; the first
\* cause is kept.
Amiss(cause, R) ==
  history' = [history EXCEPT ![cause] = @ \cup
    {r \in R \ amiss : ledger[r].usdc /\ orders[ledger[r].memo].status = "pending"}]

\* The manager opens a watcher on the live address.  It reads the stored token
\* and resumes there; a failed query reads as no token.
OpenWatcher(w) ==
  LET Begin(cursor, stage) ==
        watcher' = [watcher EXCEPT ![w] =
                      [account |-> address, cursor |-> cursor, stage |-> stage]]
  IN /\ watcher[w] = None
     /\ \/ state[address] = None /\ Begin(0, "fresh")
        \/ state[address] # None /\ Begin(state[address], "polling")
        \/ state[address] # None /\ Begin(0, "blind")
     /\ UNCHANGED <<tables, ledger, state, poll, api, history>>

\* With no token it begins at the head of the moment, whatever was stored
\* meanwhile; with no head, or none to be had, at the oldest record.
FetchHead(w) ==
  /\ watcher[w] # None /\ watcher[w].stage \in {"fresh", "blind"}
  /\ LET payments == OfAccount(watcher[w].account)
     IN \E head \in {0} \cup Newest(payments) :
          /\ watcher' = [watcher EXCEPT ![w].cursor = head, ![w].stage = "polling"]
          /\ Amiss(IF watcher[w].stage = "blind" THEN "failed" ELSE "behind",
                   {r \in payments : r <= head})
  /\ UNCHANGED <<tables, ledger, state, poll, api>>

\* stop(): the timer goes, a poll under way runs on.
CloseWatcher(w) ==
  /\ watcher[w] # None /\ watcher[w].stage = "polling"
  /\ watcher[w].account # address
  /\ watcher' = [watcher EXCEPT ![w].stage = "stopped"]
  /\ UNCHANGED <<tables, ledger, state, poll, api, history>>

\* The pod dies: the cursor and every poll under way are gone.
Crash(w) ==
  /\ watcher[w] # None
  /\ watcher' = [watcher EXCEPT ![w] = None]
  /\ poll' = [poll EXCEPT ![w] = [s \in Slot |-> NoPoll]]
  /\ UNCHANGED <<tables, ledger, state, api, history>>

At(w, s, pc) == watcher[w] # None /\ poll[w][s].pc = pc
Current(w, s) == Head(poll[w][s].page)
Become(w, s, p) == poll' = [poll EXCEPT ![w][s] = p]
Goto(w, s, pc) == Become(w, s, [poll[w][s] EXCEPT !.pc = pc])

\* The record is done with: the in-memory cursor moves, then the stored one.
Advance(w, s) ==
  /\ Become(w, s, [NoPoll EXCEPT !.pc = "persist", !.page = poll[w][s].page])
  /\ watcher' = [watcher EXCEPT ![w].cursor = Current(w, s)]

\* The oldest of the records R, in order, up to a full page.
IsPage(page, R) ==
  /\ \A m, n \in DOMAIN page : m < n => page[m] < page[n]
  /\ \A r \in R : \/ \E n \in DOMAIN page : page[n] = r
                  \/ Len(page) = PAGE_LIMIT /\ r > page[PAGE_LIMIT]

FetchPage(w, s) ==
  /\ At(w, s, "idle") /\ watcher[w].stage = "polling"
  /\ LET ahead == {r \in OfAccount(watcher[w].account) : r > watcher[w].cursor}
     IN \E page \in UNION {[1..n -> ahead] : n \in 1..PAGE_LIMIT} :
          /\ IsPage(page, ahead)
          /\ Become(w, s, [NoPoll EXCEPT !.pc = "record", !.page = page])
  /\ UNCHANGED <<tables, ledger, state, watcher, api, history>>

\* A Horizon call or the transaction lookup threw: the poll ends where it is.
PollFails(w, s) ==
  /\ At(w, s, "record")
  /\ Become(w, s, NoPoll)
  /\ UNCHANGED <<tables, ledger, state, watcher, api, history>>

\* matcher.ts: the share of the price the merchant must have received.
Expected == (Price * (10000 - fee_bp)) \div 10000

\* Mutant: the asset issuer is not compared.
MatchAnyAsset(e, recipient) ==
  IF e.to # recipient THEN "ignore"
  ELSE IF e.amount >= Expected THEN "paid" ELSE "underpaid"

matchPaymentToOrder(e, recipient) ==
  IF ~e.usdc \/ e.to # recipient THEN "ignore"
  ELSE IF e.amount >= Expected THEN "paid" ELSE "underpaid"

\* The lookup takes the order only while pending, and its recipient from the
\* merchant row of the moment.
Lookup(w, s) ==
  LET r == Current(w, s)
      e == ledger[r]
      outcome == matchPaymentToOrder(e, address)
  IN /\ At(w, s, "record")
     /\ IF orders[e.memo].status = "pending" /\ outcome # "ignore"
        THEN /\ Become(w, s, [poll[w][s] EXCEPT !.pc = "update", !.order = e.memo,
                                                !.outcome = outcome])
             /\ UNCHANGED <<watcher, history>>
        ELSE /\ Advance(w, s)
             /\ IF e.to # address THEN Amiss("drifted", {r}) ELSE UNCHANGED history
     /\ UNCHANGED <<tables, ledger, state, api>>

\* A failed query reads as "no order": the record is passed over.
LookupFails(w, s) ==
  /\ At(w, s, "record")
  /\ Advance(w, s)
  /\ Amiss("failed", {Current(w, s)})
  /\ UNCHANGED <<tables, ledger, state, api>>

---------------------------------------------------------------------------
(* reconciler.ts.                                                          *)

\* Mutant: the update is not conditional on the status.
AnyPrior(outcome) == Status

AllowedPrior(outcome) ==
  IF outcome = "paid" THEN {"pending", "underpaid"} ELSE {"pending"}

\* The conditional update; no row updated means somebody else was there.
Reconcile(w, s) ==
  LET p == poll[w][s]
      i == p.order
      hit == orders[i].status \in AllowedPrior(p.outcome)
      sub == IF p.outcome = "paid" THEN orders[i].subscription_id ELSE None
  IN /\ At(w, s, "update")
     /\ IF hit
        THEN /\ orders' = [orders EXCEPT ![i].status = p.outcome,
                                         ![i].tx_hash = Current(w, s)]
             /\ Become(w, s, [p EXCEPT !.pc = IF sub = None THEN "webhook" ELSE "readsub",
                                       !.sub = orders[i].subscription_id])
             /\ UNCHANGED watcher
        ELSE Advance(w, s) /\ UNCHANGED orders
     /\ UNCHANGED <<subs, webhooks, ledger, state, api, history>>

\* The update failed, or its reply was lost: reconcile_skipped either way.
ReconcileFails(w, s) ==
  LET p == poll[w][s]
      i == p.order
  IN /\ At(w, s, "update")
     /\ \/ UNCHANGED orders /\ Amiss("failed", {Current(w, s)})
        \/ /\ orders[i].status \in AllowedPrior(p.outcome)
           /\ orders' = [orders EXCEPT ![i].status = p.outcome, ![i].tx_hash = Current(w, s)]
           /\ UNCHANGED history
     /\ Advance(w, s)
     /\ UNCHANGED <<subs, webhooks, ledger, state, api>>

\* charges_done is read, then written back one higher.
ReadSub(w, s) ==
  LET p == poll[w][s] IN
  /\ At(w, s, "readsub")
  /\ \/ Become(w, s, [p EXCEPT !.pc = "writesub", !.count = subs[p.sub].charges_done])
     \/ Goto(w, s, "webhook")
  /\ UNCHANGED <<tables, ledger, state, watcher, api, history>>

WriteSub(w, s) ==
  LET p == poll[w][s]
      next == p.count + 1
      reachedMax == max_periods # 0 /\ next >= max_periods
  IN /\ At(w, s, "writesub")
     /\ \/ subs' = [subs EXCEPT ![p.sub].charges_done = next,
                                ![p.sub].status = IF reachedMax THEN "expired" ELSE @]
        \/ UNCHANGED subs
     /\ Goto(w, s, "webhook")
     /\ UNCHANGED <<orders, webhooks, ledger, state, watcher, api, history>>

EventType(outcome, sub) ==
  IF outcome = "underpaid" THEN "order.underpaid"
  ELSE IF sub = None THEN "order.paid" ELSE "subscription.charged"

\* Unique per order and type; an insert that fails is only logged.
Enqueue(w, s) ==
  LET p == poll[w][s] IN
  /\ At(w, s, "webhook")
  /\ \/ webhooks' = webhooks \cup {<<p.order, EventType(p.outcome, p.sub)>>}
     \/ UNCHANGED webhooks
  /\ Advance(w, s)
  /\ UNCHANGED <<orders, subs, ledger, state, api, history>>

\* Mutant: stores the token of the page's last record at once.
PersistPage(w, s) ==
  LET page == poll[w][s].page IN
  /\ At(w, s, "persist")
  /\ state' = [state EXCEPT ![watcher[w].account] = page[Len(page)]]
  /\ Become(w, s, IF Tail(page) = <<>> THEN NoPoll
                  ELSE [NoPoll EXCEPT !.pc = "record", !.page = Tail(page)])
  /\ UNCHANGED <<tables, ledger, watcher, api, history>>

\* The upsert of listener_state, or its failure, which nobody looks at.
Persist(w, s) ==
  /\ At(w, s, "persist")
  /\ \/ state' = [state EXCEPT ![watcher[w].account] = Current(w, s)]
     \/ UNCHANGED state
  /\ LET rest == Tail(poll[w][s].page)
     IN Become(w, s, IF rest = <<>> THEN NoPoll
                     ELSE [NoPoll EXCEPT !.pc = "record", !.page = rest])
  /\ UNCHANGED <<tables, ledger, watcher, api, history>>

---------------------------------------------------------------------------
Poll(w, s) ==
  \/ FetchPage(w, s) \/ PollFails(w, s) \/ Lookup(w, s) \/ LookupFails(w, s)
  \/ Reconcile(w, s) \/ ReconcileFails(w, s) \/ ReadSub(w, s) \/ WriteSub(w, s)
  \/ Enqueue(w, s) \/ Persist(w, s)

Next ==
  \/ \E q \in Request : OrderRequest(q)
  \/ \E q \in Request, s \in Sub : ChargeRequest(q, s)
  \/ \E q \in Request, i \in Order : CreateOrder(q, i)
  \/ \E i \in Order : CancelOrder(i)
  \/ \E s \in Sub, status \in Patch : PatchSub(s, status)
  \/ \E a \in Account : Rotate(a)
  \/ \E i \in Order, a \in Account, amount \in Payment, usdc \in Genuine : Pay(i, a, amount, usdc)
  \/ Lapse
  \/ Expire
  \/ \E w \in Watcher : OpenWatcher(w) \/ FetchHead(w) \/ CloseWatcher(w) \/ Crash(w)
  \/ \E w \in Watcher, s \in Slot : Poll(w, s)

Spec == Init /\ [][Next]_vars

---------------------------------------------------------------------------
(* Properties.                                                             *)

\* The stored token never runs ahead of the orders: after any crash, overlap
\* of polls or change of pods, every usable payment at or before it has moved
\* its order.  Three losses the code does have are named, and no more: a query
\* failed, the merchant's address was another one at the lookup, or the payment
\* came before its account had a token and a watcher that read none, the first
\* or one after a crash, began at the head.  Once a token is stored no restart
\* loses a payment.
NothingSkipped ==
  \A a \in Account : state[a] # None =>
    \A r \in OfAccount(a) :
      r <= state[a] /\ ledger[r].usdc /\ orders[ledger[r].memo].status = "pending" =>
        \/ r \in history.failed
        \/ r \in history.drifted
        \/ r \in history.behind \cap history.early

\* An order is settled by the evidence of one payment that carries its memo, in
\* the right asset, on the right side of the expected share - although the poll
\* decided on a row it read earlier.
SettledByPayment ==
  \A i \in Order :
    orders[i] # None /\ orders[i].status \in {"paid", "underpaid"} =>
      /\ orders[i].tx_hash \in 1..Len(ledger)
      /\ LET e == ledger[orders[i].tx_hash]
         IN /\ e.memo = i /\ e.usdc
            /\ e.amount >= Expected <=> orders[i].status = "paid"

\* Only forward transitions (audit-003 L3): a paid, expired or cancelled order
\* stays as it is, its tx_hash included, whatever duplicate, late or
\* concurrent payment, cancel or expiry follows.
ForwardOnly ==
  [][\A i \in Order : orders[i] # None /\ orders'[i] # None =>
       \/ orders[i].status = "pending"
       \/ orders[i].status = "underpaid" /\ orders'[i].status \in {"underpaid", "paid"}
       \/ orders'[i].status = orders[i].status /\ orders'[i].tx_hash = orders[i].tx_hash]_vars

\* A subscription is never charged more often than it was paid: replays of a
\* record, overlapping polls and duplicate payments count an order once.
CountedAtMostOnce ==
  \A s \in Sub :
    subs[s].charges_done <=
      Cardinality({i \in Order : orders[i] # None /\ orders[i].status = "paid"
                                 /\ orders[i].subscription_id = s})

\* What the merchant is told is true for good: a paid or charged event only of
\* a paid order, an expired event only of an expired one, so never both.
EventsAreTrue ==
  \A i \in Order :
    /\ <<i, "order.expired">> \in webhooks => orders[i].status = "expired"
    /\ <<i, "order.underpaid">> \in webhooks => orders[i].status \in {"underpaid", "paid"}
    /\ <<i, "order.paid">> \in webhooks \/ <<i, "subscription.charged">> \in webhooks
         => orders[i].status = "paid"

\* The mapping to the books: what the tables say of each order, the ledger and
\* the queue of events themselves.
booked == [i \in Order |-> IF orders[i] = None THEN "none" ELSE orders[i].status]
invoiced == [i \in Order |-> IF orders[i] = None THEN None ELSE orders[i].subscription_id]
evidence == [i \in Order |-> IF orders[i] = None THEN 0 ELSE orders[i].tx_hash]
counted == [s \in Sub |-> subs[s].charges_done]

B == INSTANCE OrderBook WITH status <- booked, payments <- ledger, told <- webhooks

\* Whatever polls overlap, pods crash, queries fail and addresses rotate, the
\* tables change only as the merchant's books may: one justified thing at a
\* time, each event of the order's own kind, an expiry never without its event.
ImplementsOrderBook == B!Spec

\* orders_pin_recipient.sql: the recipient pinned on the order "is what both
\* checkout and settlement use thereafter", whatever address the merchant has.
PinnedIsSettled ==
  \A a \in Account : state[a] # None =>
    \A r \in OfAccount(a) \ (history.failed \cup history.behind) :
      LET o == orders[ledger[r].memo]
      IN r <= state[a] /\ ledger[r].usdc /\ o.merchant_stellar_address = a =>
           o.status # "pending"

\* reconciler.ts: a partial payment followed by a top-up does not leave the
\* order "stuck in underpaid forever".
TopUpCredited ==
  \A a \in Account : state[a] # None =>
    \A r \in OfAccount(a) \ amiss :
      r <= state[a] /\ ledger[r].usdc /\ ledger[r].amount >= Expected =>
        orders[ledger[r].memo].status # "underpaid"

---------------------------------------------------------------------------
(* The inductive invariant behind the theorems of Settlement_proofs.       *)

\* The record needs nobody any more.
Handled(r) ==
  r \in amiss \/ ~ledger[r].usdc \/ orders[ledger[r].memo].status # "pending"
HandledTo(a, n) == n <= Len(ledger) /\ \A r \in OfAccount(a) : r <= n => Handled(r)

\* No cursor, in memory or stored, is ahead of the records handled.
CursorInv ==
  /\ \A w \in Watcher : watcher[w] # None => HandledTo(watcher[w].account, watcher[w].cursor)
  /\ \A a \in Account : state[a] # None => HandledTo(a, state[a])

\* Payment r is evidence that order i deserves the status.
Settles(r, i, status) ==
  /\ r \in 1..Len(ledger)
  /\ ledger[r].memo = i /\ ledger[r].usdc
  /\ ledger[r].amount >= Expected <=> status = "paid"

\* What a poll walks has no gaps, and all before its record is handled.
PageInv(w, s) ==
  LET p == poll[w][s].page
      a == watcher[w].account
  IN poll[w][s].pc # "idle" =>
       /\ watcher[w] # None
       /\ p # <<>> /\ \A n \in DOMAIN p : p[n] \in OfAccount(a)
       /\ \A n \in DOMAIN p : \A r \in OfAccount(a) :
            n > 1 => r <= p[n - 1] \/ r >= p[n]
       /\ HandledTo(a, p[1] - 1)
       /\ poll[w][s].pc = "persist" => Handled(p[1])

Counting(w, s) == poll[w][s].pc \in {"readsub", "writesub"}

\* What a poll has decided is backed by its record, and once written it stays.
DecisionInv(w, s) ==
  LET p == poll[w][s] IN
  /\ p.pc \in {"update", "readsub", "writesub", "webhook"} =>
       /\ p.order # None /\ p.outcome # "ignore"
       /\ Settles(p.page[1], p.order, p.outcome)
  /\ p.pc \in {"readsub", "writesub", "webhook"} =>
       orders[p.order].status \in IF p.outcome = "paid" THEN {"paid"} ELSE {"underpaid", "paid"}
  /\ p.pc \in {"readsub", "writesub", "webhook"} => p.sub = orders[p.order].subscription_id
  /\ Counting(w, s) => p.outcome = "paid" /\ p.sub # None

\* While nothing says where to resume all payments are early, and only these are
\* left behind.
EarlyInv ==
  /\ \A a \in Account : Untracked(a) => OfAccount(a) \subseteq history.early
  /\ history.behind \subseteq history.early

RowsInv ==
  /\ \A q \in Request : request[q] # None =>
       request[q].status = "pending" /\ request[q].tx_hash = 0
  /\ \A r \in 1..Len(ledger) : orders[ledger[r].memo] # None
  /\ \A i \in Order : orders[i] = None => \A type \in EventTypes : <<i, type>> \notin webhooks

\* The converse of EventsAreTrue, which only the expiry can promise.
ExpiredAreTold ==
  \A i \in Order : orders[i] # None /\ orders[i].status = "expired" =>
    <<i, "order.expired">> \in webhooks

\* The paid orders of a subscription that no poll is still counting.
Counted(sub) ==
  {i \in Order : /\ orders[i] # None /\ orders[i].status = "paid"
                 /\ orders[i].subscription_id = sub
                 /\ ~\E w \in Watcher, s \in Slot : Counting(w, s) /\ poll[w][s].order = i}

\* An order is counted by one poll, and neither the counter nor a value read
\* from it exceeds the orders whose counting is over.
CountInv ==
  /\ \A v, w \in Watcher, s, t \in Slot :
       Counting(v, s) /\ Counting(w, t) /\ poll[v][s].order = poll[w][t].order
         => v = w /\ s = t
  /\ \A sub \in Sub : subs[sub].charges_done <= Cardinality(Counted(sub))
  /\ \A w \in Watcher, s \in Slot :
       poll[w][s].pc = "writesub" => poll[w][s].count <= Cardinality(Counted(poll[w][s].sub))

IInv ==
  /\ TypeOK
  /\ RowsInv
  /\ CursorInv
  /\ EarlyInv
  /\ \A w \in Watcher, s \in Slot : PageInv(w, s) /\ DecisionInv(w, s)
  /\ SettledByPayment
  /\ EventsAreTrue
  /\ ExpiredAreTold
  /\ CountInv
=============================================================================
