------------------------------- MODULE Stores -------------------------------
(***************************************************************************)
(* A store's order from Shopify to SlipPay and back: the Shopify connector *)
(* (apps/shopify-connector/src/index.mjs) at the other end of the webhook  *)
(* worker.  Shopify announces an order, the connector creates a SlipPay    *)
(* order for it, the buyer follows the payment link and pays, the listener *)
(* enqueues an event, the worker posts it, and the connector marks the     *)
(* Shopify order paid.                                                     *)
(*                                                                         *)
(* A SlipPay order here has one event, so rows are orders.  Shopify is     *)
(* external.                                                               *)
(***************************************************************************)
EXTENDS Delivery

CONSTANTS
  ShopOrder,    \* Shopify orders
  Hook          \* orders/create webhooks the connector handles at once

(* What state.orders holds of a Shopify order. *)
Entry == [order : Row, status : {"pending", "paid"}]

(* A handler of /slippay-webhook: the pod that waits for it, the order its *)
(* event is about, and the entry it has found.                             *)
Job == [worker : Worker \cup {None}, order : Row,
        at : {"start", "mark", "record"}, seen : Entry \cup {None}]

ASSUME StoresAssumption ==
  /\ None \notin ShopOrder
  /\ None \notin Entry

VARIABLES
  order,        \* SlipPay's orders: status, external_ref
  shown,        \* SlipPay orders whose checkout page the buyer has been sent to
  entry,        \* state.orders, persisted by saveState
  creating,     \* /orders-create handlers that await the SlipPay API
  jobs,         \* /slippay-webhook handlers
  marked,       \* payments Shopify has recorded for each of its orders
  tried,        \* Shopify orders that some handler has tried to mark
  redacted      \* Shopify orders that were redacted

store == <<order, shown, entry, creating, marked, tried, redacted>>
vars == <<deliveryVars, store, jobs>>

Init ==
  /\ DeliveryInit
  /\ order = [o \in Row |-> [status |-> "none", ref |-> None]]
  /\ shown = {}
  /\ entry = [x \in ShopOrder |-> None]
  /\ creating = [h \in Hook |-> None]
  /\ jobs = {}
  /\ marked = [x \in ShopOrder |-> 0]
  /\ tried = {}
  /\ redacted = {}

-----------------------------------------------------------------------------
(* The connector's /orders-create.                                         *)

(* The check for an entry and the call that creates the SlipPay order.  A  *)
(* shop without a key, or an API that refuses, is answered with 200 as     *)
(* well, and changes nothing.                                              *)
OrdersCreate(h, x, o) ==
  /\ creating[h] = None
  /\ entry[x] = None
  /\ order[o].status = "none"
  /\ order' = [order EXCEPT ![o] = [status |-> "pending", ref |-> x]]
  /\ creating' = [creating EXCEPT ![h] = o]
  /\ UNCHANGED <<deliveryVars, shown, entry, jobs, marked, tried, redacted>>

(* The answer is recorded, over an entry of a handler that was faster. *)
OrderRecorded(h) ==
  /\ creating[h] # None
  /\ entry' = [entry EXCEPT ![order[creating[h]].ref] =
                 [order |-> creating[h], status |-> "pending"]]
  /\ creating' = [creating EXCEPT ![h] = None]
  /\ UNCHANGED <<deliveryVars, order, shown, jobs, marked, tried, redacted>>

(* /pay sends the buyer to the checkout page of the entry's order. *)
FollowLink(x) ==
  /\ entry[x] # None
  /\ shown' = shown \cup {entry[x].order}
  /\ UNCHANGED <<deliveryVars, order, entry, creating, jobs, marked, tried, redacted>>

(* /gdpr/shop-redact drops the shop's entries. *)
ShopRedact(x) ==
  /\ entry[x] # None
  /\ entry' = [entry EXCEPT ![x] = None]
  /\ redacted' = redacted \cup {x}
  /\ UNCHANGED <<deliveryVars, order, shown, creating, jobs, marked, tried>>

-----------------------------------------------------------------------------
(* SlipPay: the buyer pays, in full or not, and the listener enqueues the  *)
(* event of that outcome.                                                  *)
Pay(o) ==
  /\ o \in shown
  /\ order[o].status = "pending"
  /\ \E s \in {"paid", "underpaid"} : order' = [order EXCEPT ![o].status = s]
  /\ Insert(o)
  /\ UNCHANGED <<url, worker, posts, losses, shown, entry, creating, jobs,
                 marked, tried, redacted>>

-----------------------------------------------------------------------------
(* The connector's /slippay-webhook.  A job is the handler of one post; it *)
(* goes on if the worker has given up on it (worker None).                 *)

PostToShop(w, d) ==
  /\ Post(w, d)
  /\ jobs' = jobs \cup {[worker |-> w, order |-> d, at |-> "start", seen |-> None]}
  /\ UNCHANGED store

(* The worker times out, or the connector's answer is lost. *)
GiveUp(w) ==
  /\ Answered(w, "failed")
  /\ jobs' = {IF j.worker = w THEN [j EXCEPT !.worker = None] ELSE j : j \in jobs}
  /\ UNCHANGED store

Respond(j, result) ==
  IF j.worker = None THEN UNCHANGED worker /\ UNCHANGED <<row, url, posts, losses>>
  ELSE Answered(j.worker, result)

(* The entry whose order or whose reference the event names. *)
Hit(j) == {x \in ShopOrder : entry[x] # None
                              /\ (entry[x].order = j.order \/ order[j.order].ref = x)}

\* Mutant: every event is taken for a payment.
IsPaymentAny(j) == TRUE

IsPayment(j) == order[j.order].status = "paid"

(* Events other than order.paid, unknown orders and orders marked already  *)
(* are answered at once, and so is a signature that does not verify.       *)
Acknowledge(j) ==
  /\ j.at = "start"
  /\ jobs' = jobs \ {j}
  /\ \/ /\ \/ ~IsPayment(j)
           \/ Hit(j) = {}
           \/ \E x \in Hit(j) : entry[x].status = "paid"
        /\ Respond(j, "sent")
     \/ Respond(j, "failed")
  /\ UNCHANGED store

\* Mutant: the worker is answered before Shopify is.
MatchAndAnswer(j) ==
  /\ j.at = "start"
  /\ IsPayment(j)
  /\ \E x \in Hit(j) :
       /\ entry[x].status # "paid"
       /\ jobs' = (jobs \ {j}) \cup {[j EXCEPT !.at = "mark", !.seen = entry[x], !.worker = None]}
  /\ Respond(j, "sent")
  /\ UNCHANGED store

(* Otherwise the order is to be marked: the entry is kept for later. *)
Match(j) ==
  /\ j.at = "start"
  /\ IsPayment(j)
  /\ \E x \in Hit(j) :
       /\ entry[x].status # "paid"
       /\ jobs' = (jobs \ {j}) \cup {[j EXCEPT !.at = "mark", !.seen = entry[x]]}
  /\ UNCHANGED <<deliveryVars, store>>

(* markShopifyOrderPaid: a capture, then a sale if that was refused.  The  *)
(* answer is not looked at; there is none if the shop has no token.        *)
Mark(j) ==
  LET x == order[j.seen.order].ref IN
  /\ j.at = "mark"
  /\ \/ marked' = [marked EXCEPT ![x] = @ + 1]
     \/ UNCHANGED marked
  /\ tried' = tried \cup {x}
  /\ jobs' = (jobs \ {j}) \cup {[j EXCEPT !.at = "record"]}
  /\ UNCHANGED <<deliveryVars, order, shown, entry, creating, redacted>>

(* The entry as it was found is written back as paid. *)
Record(j) ==
  /\ j.at = "record"
  /\ entry' = [entry EXCEPT ![order[j.seen.order].ref] = [j.seen EXCEPT !.status = "paid"]]
  /\ jobs' = jobs \ {j}
  /\ Respond(j, "sent")
  /\ UNCHANGED <<order, shown, creating, marked, tried, redacted>>

(* A call to Shopify that throws is not caught and ends the process, and   *)
(* every handler with it; so does anything else that kills it.             *)
ConnectorCrash ==
  /\ jobs # {} \/ \E h \in Hook : creating[h] # None
  /\ losses < MaxLosses
  /\ losses' = losses + 1
  /\ jobs' = {}
  /\ creating' = [h \in Hook |-> None]
  /\ worker' = [w \in Worker |-> IF worker[w].at = "posting"
                                 THEN [worker[w] EXCEPT !.at = "failed"] ELSE worker[w]]
  /\ UNCHANGED <<row, url, posts, order, shown, entry, marked, tried, redacted>>

WorkerCrash(w) ==
  /\ Crash(w)
  /\ jobs' = {IF j.worker = w THEN [j EXCEPT !.worker = None] ELSE j : j \in jobs}
  /\ UNCHANGED store

WorkerStep(w) ==
  /\ \/ Select(w) \/ Write(w)
     \/ \E d \in Row : Discard(w, d) \/ DoesNotResolve(w, d)
  /\ UNCHANGED <<store, jobs>>

Next ==
  \/ \E h \in Hook : \/ OrderRecorded(h)
                     \/ \E x \in ShopOrder, o \in Row : OrdersCreate(h, x, o)
  \/ \E x \in ShopOrder : FollowLink(x) \/ ShopRedact(x)
  \/ \E o \in Row : Pay(o)
  \/ \E w \in Worker : \/ WorkerStep(w) \/ GiveUp(w) \/ WorkerCrash(w)
                       \/ \E d \in Row : PostToShop(w, d)
  \/ \E j \in jobs : Acknowledge(j) \/ Match(j) \/ Mark(j) \/ Record(j)
  \/ ConnectorCrash
  \/ (\E d \in Row : Elapse(d)) /\ UNCHANGED <<store, jobs>>
  \/ SetUrl /\ UNCHANGED <<store, jobs>>

(* The worker's loop goes on, its calls end within ten seconds, and        *)
(* backoffs end.                                                           *)
Fairness ==
  /\ \A w \in Worker :
       WF_vars(WorkerStep(w) \/ GiveUp(w) \/ \E d \in Row : PostToShop(w, d))
  /\ \A d \in Row : WF_vars(Elapse(d) /\ UNCHANGED <<store, jobs>>)

Spec == Init /\ [][Next]_vars /\ Fairness

-----------------------------------------------------------------------------
(* Properties.                                                             *)

TypeOK ==
  /\ DeliveryType
  /\ order \in [Row -> [status : {"none", "pending", "paid", "underpaid"},
                        ref : ShopOrder \cup {None}]]
  /\ shown \subseteq Row
  /\ entry \in [ShopOrder -> Entry \cup {None}]
  /\ creating \in [Hook -> Row \cup {None}]
  /\ marked \in [ShopOrder -> Nat]
  /\ tried \subseteq ShopOrder
  /\ redacted \subseteq ShopOrder
  /\ jobs \subseteq Job

(* A payment's event that counts as sent has reached the connector, which  *)
(* has tried to mark the Shopify order paid, unless the shop was redacted: *)
(* through retries, crashes on both sides, answers that come too late and  *)
(* pods that overwrite each other's rows.                                  *)
SentWasTried ==
  \A o \in Row : row[o].status = "sent" /\ order[o].status = "paid" =>
    order[o].ref \in tried \cup redacted

(* Shopify is told of a payment only if one of the SlipPay orders made for *)
(* its order has been paid in full, and so is the buyer's page.            *)
MarkedWasPaid ==
  \A x \in ShopOrder :
    (marked[x] > 0 \/ (entry[x] # None /\ entry[x].status = "paid")) =>
      \E o \in Row : order[o].ref = x /\ order[o].status = "paid"

(* Where the pods stand with a row: each is at the attempt count it read,  *)
(* or would read, and at Retries + 1 if it cannot post the row any more.   *)
Levels(d) ==
  [w \in Worker |->
     IF d \in DOMAIN worker[w].batch THEN worker[w].batch[d].attempt
     ELSE IF row[d].status \in {"none", "queued", "failed"} THEN row[d].attempt
     ELSE Retries + 1]

(* How many pods are not past each attempt count, and all that can be of   *)
(* n pods and r retries.                                                   *)
Profile(l) == [k \in 0..Retries |-> Cardinality({w \in Worker : l[w] <= k})]
ProfilesOf(n, r) ==
  {N \in [0..r -> 0..n] : \A j, k \in 0..r : j <= k => N[j] <= N[k]}
Profiles == ProfilesOf(Cardinality(Worker), Retries)

(* One post for each profile but the last, in which all pods are past.     *)
MostPosts == Cardinality(Profiles) - 1

(* A row is posted a bounded number of times, although pods that post it   *)
(* at once set each other's attempt count back, over and over: without a   *)
(* loss at most Retries + 1 times by one pod, as SCHEDULE says, but up to  *)
(* 35 times by two pods with the code's six retries.  Each loss may cost   *)
(* as many posts again.                                                    *)
PostsAreBounded == \A o \in Row : posts[o] <= (losses + 1) * MostPosts

(* Every event ends as sent or as dead, and stays so. *)
EveryEventEnds ==
  \A o \in Row : row[o].status = "queued" ~> [](row[o].status \in {"sent", "dead"})

(* The inductive invariant.  An order's event exists once it is paid, and  *)
(* it is paid by a buyer who was shown it.                                 *)
OrderInv ==
  /\ \A o \in Row :
       /\ row[o].status = "none" <=> order[o].status \in {"none", "pending"}
       /\ order[o].status # "none" <=> order[o].ref # None
       /\ order[o].status \in {"paid", "underpaid"} => o \in shown
       /\ o \in shown => /\ order[o].ref # None
                         /\ order[o].ref \in redacted \/ entry[order[o].ref] # None
  /\ \A h \in Hook : creating[h] # None => order[creating[h]].ref # None

(* An entry is kept under the reference of its order, and is paid only     *)
(* after a handler tried to mark it.                                       *)
EntryInv ==
  \A x \in ShopOrder : entry[x] # None =>
    /\ order[entry[x].order].ref = x
    /\ entry[x].status = "paid" => x \in tried

(* A handler that a pod waits for is that pod's only one; one that has     *)
(* found an entry goes on for a paid order of the same Shopify order.      *)
JobInv ==
  \A j \in jobs :
    /\ row[j.order].status # "none"
    /\ j.worker # None => /\ worker[j.worker].at = "posting"
                          /\ worker[j.worker].current = j.order
                          /\ \A k \in jobs : k.worker = j.worker => k = j
    /\ j.at # "start" => /\ j.seen # None
                         /\ order[j.order].status = "paid"
                         /\ order[j.seen.order].ref = order[j.order].ref
    /\ j.at = "record" => order[j.order].ref \in tried

(* A pod that was answered well has had the order tried. *)
AnswerInv ==
  \A w \in Worker :
    worker[w].at = "sent" /\ order[worker[w].current].status = "paid" =>
      order[worker[w].current].ref \in tried \cup redacted

(* Every outcome written moves the row's profile down in this order, the   *)
(* pod that writes leaving the lowest attempt count that changes: a post   *)
(* is paid for by the profile that its outcome will leave for good.        *)
Lower(M, N) ==
  \E k \in 0..Retries : M[k] < N[k] /\ \A j \in 0..(k - 1) : M[j] = N[j]
Below(N) == {M \in Profiles : Lower(M, N)}

Posting(d) == {w \in Worker : /\ worker[w].at \in {"posting", "sent", "failed"}
                              /\ worker[w].current = d}

PostsInv ==
  /\ \A w \in Worker : worker[w].at = "idle" => DOMAIN worker[w].batch = {}
  /\ \A d \in Row : posts[d] + Cardinality(Below(Profile(Levels(d)))) <=
                      (losses + 1) * MostPosts + Cardinality(Posting(d))

StoreInv ==
  /\ TypeOK
  /\ DeliveryInv
  /\ OrderInv
  /\ EntryInv
  /\ JobInv
  /\ AnswerInv
  /\ SentWasTried
  /\ MarkedWasPaid

IInv == StoreInv /\ PostsInv
=============================================================================
