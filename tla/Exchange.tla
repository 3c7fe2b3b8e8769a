------------------------------ MODULE Exchange ------------------------------
(***************************************************************************)
(* The R$/USD exchange over 4P Finance: the Base panels of the web app     *)
(* (apps/web/src/pages/comex/base/Exchange.tsx), the API's 4P routes       *)
(* (supabase/functions/api/routes/fourp.ts) and their status mirror        *)
(* (lib/ramp/store.ts).  Buying: a Pix charge is created, the buyer pays   *)
(* it, 4P sends the dollars and notifies the API; the panel learns of it   *)
(* by polling the mirror or by watching the wallet's balance.  Selling: a  *)
(* sale is created, the user signs a transfer to 4P's receiver, and the    *)
(* panel polls the mirror until 4P has paid the Pix.                       *)
(*                                                                         *)
(* A charge and a sale are each worth one unit of USDC.  4P, the chain and *)
(* whoever else pays into the wallet are external.                         *)
(***************************************************************************)
EXTENDS Naturals, FiniteSets

CONSTANTS
  Charge,       \* ids the API gives to on-ramp orders (slp-...)
  Sale,         \* ids the API gives to off-ramp orders (slp-off-...)
  Status,       \* what 4P reports of an order
  Receiver,     \* wallets 4P may name as the receiver of a sale
  Pinned,       \* VITE_4P_OFFRAMP_RECEIVER
  MaxWallet,    \* a bound on the wallet's balance
  MaxHooks,     \* a bound on the webhook calls under way at once
  None

ASSUME ExchangeAssumption ==
  /\ Charge \cap Sale = {}
  /\ None \notin Charge \cup Sale \cup Status
  /\ {"pending", "paid"} \subseteq Status
  /\ Status \subseteq {"pending", "processing", "paid"}
  /\ Pinned \in Receiver
  /\ MaxWallet \in Nat \ {0}
  /\ MaxHooks \in Nat

Order == Charge \cup Sale

(* 4P's reports of an order happen in this order.  The panels take the     *)
(* last for success (DONE_STATUSES).                                       *)
Done == {"paid"}
Rank == [s \in {"pending", "processing", "paid"} |->
           IF s = "pending" THEN 1 ELSE IF s = "processing" THEN 2 ELSE 3]

VARIABLES
  fourP,      \* 4P's own status of each order
  hooks,      \* webhook calls being handled: the order, and the status pulled
  store,      \* ramp_transactions.transaction_status
  request,    \* how far the API's handler of each order has come
  receiver,   \* the receiver 4P named for each sale
  wallet,     \* the wallet's USDC balance
  landed,     \* charges whose dollars are in the wallet
  sent,       \* how many transfers the wallet has made for each sale
  direction,  \* which panel is mounted
  buy,        \* BuyPanel's state
  sell        \* SellPanel's state

service == <<fourP, hooks, store, request, receiver>>
chain == <<wallet, landed, sent>>
vars == <<service, chain, direction, buy, sell>>

(* BuyPanel: the step shown; confirmBuy's progress; the order and status   *)
(* on display; the balance before the charge; whether the poll's timeout   *)
(* is armed.                                                               *)
BuyPanel == [step : {"amount", "identity", "pix", "done"},
             call : {"idle", "create"}, order : Charge \cup {None},
             status : Status, baseline : 0..MaxWallet \cup {None}, timer : BOOLEAN]

FreshBuy == [step |-> "amount", call |-> "idle", order |-> None,
             status |-> "pending", baseline |-> None, timer |-> FALSE]

(* SellPanel: the step shown, where "confirming" is told apart by what     *)
(* doSell awaits ("balance", "create", "modal", "send"); the order; the    *)
(* statuses that polls under way have been answered with; whether 90       *)
(* seconds have passed since the transfer.                                 *)
SellPanel == [step : {"form", "balance", "create", "modal", "send",
                      "sending", "recovery", "done"},
              order : Sale \cup {None}, answers : SUBSET Status, late : BOOLEAN]

FreshSell == [step |-> "form", order |-> None, answers |-> {}, late |-> FALSE]

Init ==
  /\ fourP = [o \in Order |-> None]
  /\ hooks = {}
  /\ store = [o \in Order |-> None]
  /\ request = [o \in Order |-> "new"]
  /\ receiver = [o \in Sale |-> None]
  /\ wallet \in 0..1
  /\ landed = {}
  /\ sent = [o \in Sale |-> 0]
  /\ direction = "buy"
  /\ buy = FreshBuy
  /\ sell = FreshSell

-----------------------------------------------------------------------------
(* The API.                                                                *)

(* 4P posts a token to the webhook. *)
Notify(o) ==
  /\ Cardinality(hooks) < MaxHooks
  /\ hooks' = hooks \cup {[order |-> o, pulled |-> None]}

(* 4P accepts the order and names a receiver for a sale.  The server's own *)
(* pin, where it is configured, refuses another receiver after the order   *)
(* exists at 4P.                                                           *)
CreateAt4P(o) ==
  /\ request[o] = "create"
  /\ fourP' = [fourP EXCEPT ![o] = "pending"]
  /\ Notify(o)
  /\ IF o \in Sale
     THEN \E r \in Receiver :
            /\ receiver' = [receiver EXCEPT ![o] = r]
            /\ \/ request' = [request EXCEPT ![o] = "save"]
               \/ /\ r # Pinned
                  /\ request' = [request EXCEPT ![o] = "failed"]
     ELSE /\ request' = [request EXCEPT ![o] = "save"]
          /\ UNCHANGED receiver
  /\ UNCHANGED <<store, chain, direction, buy, sell>>

(* 4P refuses or cannot be reached, or it accepts and its answer is lost.  *)
CreateFails(o) ==
  /\ request[o] = "create"
  /\ request' = [request EXCEPT ![o] = "failed"]
  /\ \/ UNCHANGED <<fourP, hooks>>
     \/ fourP' = [fourP EXCEPT ![o] = "pending"] /\ Notify(o)
  /\ UNCHANGED <<store, receiver, chain, direction, buy, sell>>

(* An upsert by gateway_id whose error is only logged. *)
SaveRampTx(o, status) ==
  \/ store' = [store EXCEPT ![o] = status]
  \/ UNCHANGED store

(* The handler seeds the mirror and then answers the panel. *)
Seed(o) ==
  /\ request[o] = "save"
  /\ SaveRampTx(o, "pending")
  /\ request' = [request EXCEPT ![o] = "answered"]
  /\ UNCHANGED <<fourP, hooks, receiver, chain, direction, buy, sell>>

\* Mutant: the webhook is believed, and 4P not asked.
PullTrusting(h) ==
  /\ h.pulled = None
  /\ hooks' = (hooks \ {h}) \cup {[h EXCEPT !.pulled = "paid"]}
  /\ UNCHANGED <<fourP, store, request, receiver, chain, direction, buy, sell>>

(* The webhook pulls the status behind the token ... *)
Pull(h) ==
  /\ h.pulled = None
  /\ hooks' = (hooks \ {h}) \cup {[h EXCEPT !.pulled = fourP[h.order]]}
  /\ UNCHANGED <<fourP, store, request, receiver, chain, direction, buy, sell>>

(* ... and saves it.  It answers ok whether or not the row was written. *)
Save(h) ==
  /\ h.pulled # None
  /\ SaveRampTx(h.order, h.pulled)
  /\ hooks' = hooks \ {h}
  /\ UNCHANGED <<fourP, request, receiver, chain, direction, buy, sell>>

-----------------------------------------------------------------------------
(* 4P and the chain.                                                       *)

(* The buyer pays a charge after seeing its code; 4P pays a sale after     *)
(* receiving its dollars.  Every change is notified.                       *)
Advance(o) ==
  /\ fourP[o] \in Status \ Done
  /\ IF o \in Charge THEN request[o] = "shown"
                     ELSE sent[o] > 0
  /\ \E s \in Status :
       /\ Rank[s] > Rank[fourP[o]]
       /\ fourP' = [fourP EXCEPT ![o] = s]
  /\ Notify(o)
  /\ UNCHANGED <<store, request, receiver, chain, direction, buy, sell>>

Land(o) ==
  /\ o \in Charge \ landed
  /\ fourP[o] = "paid"
  /\ wallet < MaxWallet
  /\ wallet' = wallet + 1
  /\ landed' = landed \cup {o}
  /\ UNCHANGED <<service, sent, direction, buy, sell>>

(* A payment between the wallet and somebody else. *)
OtherPayment ==
  /\ wallet' \in 0..MaxWallet
  /\ wallet' # wallet
  /\ UNCHANGED <<service, landed, sent, direction, buy, sell>>

-----------------------------------------------------------------------------
(* Buying.                                                                 *)

Mounted(panel) == direction = panel

(* "Continuar com Pix" and "Voltar", which is not disabled while a charge  *)
(* is being created.                                                       *)
Turn ==
  /\ Mounted("buy")
  /\ \/ buy.step = "amount" /\ buy' = [buy EXCEPT !.step = "identity"]
     \/ buy.step = "identity" /\ buy' = [buy EXCEPT !.step = "amount"]
  /\ UNCHANGED <<service, chain, direction, sell>>

(* confirmBuy reads the balance, which may fail, and posts the order. *)
ConfirmBuy(o) ==
  /\ Mounted("buy")
  /\ buy.step = "identity"
  /\ buy.call = "idle"
  /\ request[o] = "new"
  /\ \E b \in {wallet, None} :
       buy' = [buy EXCEPT !.call = "create", !.order = o, !.baseline = b]
  /\ request' = [request EXCEPT ![o] = "create"]
  /\ UNCHANGED <<fourP, hooks, store, receiver, chain, direction, sell>>

(* The answer shows the code, whatever step the user has gone back to, and *)
(* arms the poll's timeout.                                                *)
ChargeAnswered ==
  /\ Mounted("buy")
  /\ buy.call = "create"
  /\ \/ /\ request[buy.order] = "answered"
        /\ buy' = [buy EXCEPT !.call = "idle", !.step = "pix",
                              !.status = "pending", !.timer = TRUE]
        /\ request' = [request EXCEPT ![buy.order] = "shown"]
     \/ /\ request[buy.order] = "failed"
        /\ buy' = [buy EXCEPT !.call = "idle", !.order = None]
        /\ UNCHANGED request
  /\ UNCHANGED <<fourP, hooks, store, receiver, chain, direction, sell>>

(* setOrderStatus re-runs the effect only if the status differs from the   *)
(* one on display: then success ends the panel and any other status arms   *)
(* the timeout again.                                                      *)
Displayed(s) ==
  [buy EXCEPT !.status = s,
              !.step = IF s \in Done THEN "done" ELSE "pix",
              !.timer = s # buy.status /\ s \notin Done]

\* Mutant: a missing row's status is displayed as it is.
PollChargeUnchecked ==
  /\ Mounted("buy")
  /\ buy.step = "pix"
  /\ buy.timer
  /\ buy' = Displayed(store[buy.order])
  /\ UNCHANGED <<service, chain, direction, sell>>

(* The timeout fires once and asks the mirror; an error or a missing row   *)
(* leaves the panel as it is, without a timeout.                           *)
PollCharge ==
  /\ Mounted("buy")
  /\ buy.step = "pix"
  /\ buy.timer
  /\ \/ store[buy.order] # None /\ buy' = Displayed(store[buy.order])
     \/ buy' = [buy EXCEPT !.timer = FALSE]
  /\ UNCHANGED <<service, chain, direction, sell>>

(* The fallback: a balance above the one before the charge is success. *)
Credited == IF buy.baseline = None THEN FALSE ELSE wallet > buy.baseline

WatchBalance ==
  /\ Mounted("buy")
  /\ buy.step = "pix"
  /\ Credited
  /\ buy' = [buy EXCEPT !.step = "done", !.status = "paid", !.timer = FALSE]
  /\ UNCHANGED <<service, chain, direction, sell>>

-----------------------------------------------------------------------------
(* Selling.                                                                *)

(* doSell: the balance first, before 4P hears of anything. *)
DoSell ==
  /\ Mounted("sell")
  /\ sell.step = "form"
  /\ sell' = [sell EXCEPT !.step = "balance"]
  /\ UNCHANGED <<service, chain, direction, buy>>

ReadBalance(o) ==
  /\ Mounted("sell")
  /\ sell.step = "balance"
  /\ \/ /\ wallet >= 1
        /\ request[o] = "new"
        /\ sell' = [sell EXCEPT !.step = "create", !.order = o]
        /\ request' = [request EXCEPT ![o] = "create"]
     \/ /\ sell' = FreshSell     \* too little, or the read failed
        /\ UNCHANGED request
  /\ UNCHANGED <<fourP, hooks, store, receiver, chain, direction, buy>>

\* Mutant: whatever receiver the API answers with is paid.
SaleAnsweredUnpinned ==
  /\ Mounted("sell")
  /\ sell.step = "create"
  /\ request[sell.order] \in {"answered", "failed"}
  /\ sell' = IF request[sell.order] = "answered"
             THEN [sell EXCEPT !.step = "modal"]
             ELSE FreshSell
  /\ UNCHANGED <<service, chain, direction, buy>>

(* The receiver is compared with the pinned one before the modal opens. *)
SaleAnswered ==
  /\ Mounted("sell")
  /\ sell.step = "create"
  /\ request[sell.order] \in {"answered", "failed"}
  /\ sell' = IF request[sell.order] = "answered" /\ receiver[sell.order] = Pinned
             THEN [sell EXCEPT !.step = "modal"]
             ELSE FreshSell
  /\ UNCHANGED <<service, chain, direction, buy>>

(* The user confirms or cancels what was decoded from the built call. *)
Decide ==
  /\ Mounted("sell")
  /\ sell.step = "modal"
  /\ sell' \in {[sell EXCEPT !.step = "send"], FreshSell}
  /\ UNCHANGED <<service, chain, direction, buy>>

(* The wallet transfers, with or without its answer reaching the panel,    *)
(* which takes an exception for a sale that did not happen.                *)
Send ==
  /\ Mounted("sell")
  /\ sell.step = "send"
  /\ \/ /\ wallet >= 1
        /\ wallet' = wallet - 1
        /\ sent' = [sent EXCEPT ![sell.order] = @ + 1]
        /\ sell' \in {[sell EXCEPT !.step = "sending"], FreshSell}
     \/ sell' = FreshSell /\ UNCHANGED <<wallet, sent>>
  /\ UNCHANGED <<service, landed, direction, buy>>

Elapse ==
  /\ sell.step = "sending"
  /\ ~sell.late
  /\ sell' = [sell EXCEPT !.late = TRUE]
  /\ UNCHANGED <<service, chain, direction, buy>>

\* Mutant: no recovery panel.
IntervalForEver ==
  /\ Mounted("sell")
  /\ sell.step = "sending"
  /\ sell' = [sell EXCEPT !.answers = @ \cup ({store[sell.order]} \ {None})]
  /\ UNCHANGED <<service, chain, direction, buy>>

(* Every four seconds: the recovery panel once 90 seconds have passed,     *)
(* another poll until then.                                                *)
Interval ==
  /\ Mounted("sell")
  /\ sell.step = "sending"
  /\ sell' = IF sell.late THEN [sell EXCEPT !.step = "recovery"]
             ELSE [sell EXCEPT !.answers = @ \cup ({store[sell.order]} \ {None})]
  /\ UNCHANGED <<service, chain, direction, buy>>

\* Mutant: any answer is success.
ResolveAny(s) ==
  /\ Mounted("sell")
  /\ s \in sell.answers
  /\ sell' = [sell EXCEPT !.answers = @ \ {s}, !.step = "done"]
  /\ UNCHANGED <<service, chain, direction, buy>>

(* A poll's answer, which may come after recovery was shown. *)
Resolve(s) ==
  /\ Mounted("sell")
  /\ s \in sell.answers
  /\ sell' = [sell EXCEPT !.answers = @ \ {s},
                          !.step = IF s \in Done THEN "done" ELSE @]
  /\ UNCHANGED <<service, chain, direction, buy>>

(* The toggle unmounts one panel and mounts the other afresh.  A transfer  *)
(* being sent at that moment may still go out.                             *)
Toggle ==
  /\ direction' = IF direction = "buy" THEN "sell" ELSE "buy"
  /\ buy' = FreshBuy
  /\ sell' = FreshSell
  /\ \/ /\ sell.step = "send"
        /\ wallet >= 1
        /\ wallet' = wallet - 1
        /\ sent' = [sent EXCEPT ![sell.order] = @ + 1]
     \/ UNCHANGED <<wallet, sent>>
  /\ UNCHANGED <<service, landed>>

-----------------------------------------------------------------------------
Next ==
  \/ \E o \in Order : \/ CreateAt4P(o) \/ CreateFails(o) \/ Seed(o)
                      \/ Advance(o) \/ Land(o)
  \/ \E h \in hooks : Pull(h) \/ Save(h)
  \/ OtherPayment
  \/ Turn \/ ChargeAnswered \/ PollCharge \/ WatchBalance
  \/ \E o \in Charge : ConfirmBuy(o)
  \/ \E o \in Sale : ReadBalance(o)
  \/ DoSell \/ SaleAnswered \/ Decide \/ Send
  \/ Elapse \/ Interval \/ \E s \in Status : Resolve(s)
  \/ Toggle

(* Timers fire in a mounted panel, and clocks advance.  Nothing is assumed *)
(* of 4P, of the webhook, of the user or of the database.                  *)
Fairness == WF_vars(PollCharge) /\ WF_vars(WatchBalance)
            /\ WF_vars(Elapse) /\ WF_vars(Interval)

Spec == Init /\ [][Next]_vars /\ Fairness

-----------------------------------------------------------------------------
(* Properties.                                                             *)

Ahead(s, o) == fourP[o] = None \/ Rank[s] > Rank[fourP[o]]

TypeOK ==
  /\ fourP \in [Order -> Status \cup {None}]
  /\ hooks \subseteq [order : Order, pulled : Status \cup {None}]
  /\ store \in [Order -> Status \cup {None}]
  /\ request \in [Order -> {"new", "create", "save", "answered", "shown", "failed"}]
  /\ receiver \in [Sale -> Receiver \cup {None}]
  /\ wallet \in 0..MaxWallet
  /\ landed \subseteq Charge
  /\ sent \in [Sale -> 0..1]
  /\ direction \in {"buy", "sell"}
  /\ buy \in BuyPanel
  /\ sell \in SellPanel

(* No panel shows success before its time: a sale shown as done is paid at *)
(* 4P and its dollars were sent, and a charge shown as done is paid at 4P  *)
(* or the balance was being watched.  Between 4P and the panel lie         *)
(* webhooks that pull and save in any order, saves that fail, and polls    *)
(* answered late ("never false success", Exchange.tsx).                    *)
NeverFalseSuccess ==
  /\ sell.step = "done" => fourP[sell.order] = "paid" /\ sent[sell.order] = 1
  /\ buy.step = "done" => fourP[buy.order] = "paid" \/ buy.baseline # None

(* Dollars leave the wallet for a sale at most once, to the pinned         *)
(* receiver and for an order 4P has accepted, however often the user       *)
(* retries after an exception or changes panels in between.                *)
TransfersAreOfOrders ==
  \A o \in Sale :
    sent[o] > 0 => sent[o] = 1 /\ receiver[o] = Pinned /\ fourP[o] # None

(* The seed "before the first webhook" (fourp.ts:183) never takes back a   *)
(* success: webhooks may overtake it, but none of them can bring news of a *)
(* payment before the panel has been answered.                             *)
SeedPrecedesPayment ==
  \A o \in Order :
    request[o] \in {"create", "save"} =>
      /\ fourP[o] \notin Done /\ store[o] \notin Done
      /\ \A h \in hooks : h.order = o => h.pulled \notin Done

(* The mirror and whatever is on its way into it are never ahead of 4P.    *)
MirrorIsBehind ==
  /\ \A o \in Order : store[o] # None => ~Ahead(store[o], o)
  /\ \A h \in hooks : h.pulled # None => ~Ahead(h.pulled, h.order)
  /\ \A s \in sell.answers : ~Ahead(s, sell.order)

(* A sale whose dollars are gone does not spin for ever: unless the user   *)
(* leaves the panel, it ends in success or in the recovery panel with the  *)
(* order's number, whatever happens to webhooks, polls and 4P.             *)
SaleIsTracked ==
  sell.step = "sending" ~> sell.step # "sending"

(* "Poll until settled (4P webhook-backed store)" (Exchange.tsx:122): a    *)
(* charge on display whose mirror says paid, and keeps saying so, is shown *)
(* as done.                                                                *)
PollUntilSettled ==
  (buy.step = "pix" /\ store[buy.order] = "paid")
    ~> (buy.step # "pix" \/ store[buy.order] # "paid")

-----------------------------------------------------------------------------
(* The inductive invariant behind the theorems of Exchange_proofs.         *)

(* Nothing is known of an order before 4P has accepted it, and 4P reports  *)
(* progress only of a charge whose code was shown or a sale that was sent. *)
OrderInv ==
  \A o \in Order :
    /\ request[o] \in {"new", "create"} => fourP[o] = None
    /\ request[o] \in {"save", "answered", "shown"} => fourP[o] # None
    /\ fourP[o] = None => store[o] = None /\ \A h \in hooks : h.order # o
    /\ fourP[o] \notin {None, "pending"} =>
         IF o \in Charge THEN request[o] = "shown" ELSE sent[o] > 0
    /\ o \in Sale /\ sent[o] > 0 => request[o] = "answered"

(* The sale in the panel has not been sent before it is confirmed.         *)
SellInv ==
  /\ sell.step \notin {"sending", "recovery", "done"} => sell.answers = {}
  /\ sell.step \notin {"form", "balance"} => sell.order \in Sale
  /\ sell.step = "create" =>
       request[sell.order] \in {"create", "save", "answered", "failed"} /\ sent[sell.order] = 0
  /\ sell.step \in {"modal", "send"} =>
       /\ request[sell.order] = "answered" /\ receiver[sell.order] = Pinned
       /\ sent[sell.order] = 0
  /\ sell.step \in {"sending", "recovery", "done"} => sent[sell.order] = 1

BuyInv ==
  /\ buy.call = "create" => buy.order \in Charge /\ buy.step \in {"amount", "identity"}
  /\ buy.step \in {"pix", "done"} => buy.order \in Charge

IInv ==
  /\ TypeOK
  /\ OrderInv
  /\ SellInv
  /\ BuyInv
  /\ MirrorIsBehind
  /\ TransfersAreOfOrders
  /\ NeverFalseSuccess
=============================================================================
