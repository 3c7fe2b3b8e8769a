--------------------------------- MODULE A2A ---------------------------------
(***************************************************************************)
(* An agent that pays for a resource by itself: runs of the buyer          *)
(* (apps/listener/a2a-buyer.mjs), all of one agent in one process, between *)
(* the gated resource (X402) and the integrity oracle (Attester).  A run   *)
(* asks for the resource, lets the oracle attest the payment it is quoted, *)
(* pays on the ledger, and asks again until it is served or out of time.   *)
(* The listener that settles the order is Settlement's; here it settles an *)
(* order that has been paid, some time or never.                           *)
(***************************************************************************)
EXTENDS X402

CONSTANTS
  max_per_window, window_seconds, Keep, max_amount,   \* see Attester
  Price,        \* the resource's usd_amount
  Patience,     \* pollMs, in the units of the clock
  MaxPays,      \* a bound on the payments of one order
  MaxTime       \* a bound on the clock

ASSUME A2AAssumption ==
  /\ max_per_window \in Nat /\ window_seconds \in Nat /\ Keep \in Nat
  /\ max_amount \in Nat /\ Price \in Nat
  /\ Patience \in Nat /\ MaxPays \in Nat /\ MaxTime \in Nat

VARIABLES
  now, recent, signing, attested,    \* see Attester
  run,          \* what each run is doing, the order it was quoted, when it paid
  pays,         \* payments on the ledger with each order's memo
  recorded      \* registry records of each order

INSTANCE Attester WITH Thread <- Visitor

attesterVars == <<now, recent, signing, attested>>
runVars == <<run, pays, recorded>>
vars == <<x402Vars, attesterVars, runVars>>

(* What a run is doing, for which order, and when it paid.                 *)
Run == [at : {"idle", "get", "decide", "sign", "pay", "poll", "asked"},
        order : 0..MaxOrders, start : 0..MaxTime]

Idle == [at |-> "idle", order |-> 0, start |-> 0]

Init ==
  /\ X402Init
  /\ AttesterInit
  /\ run = [v \in Visitor |-> Idle]
  /\ pays = [i \in 1..MaxOrders |-> 0]
  /\ recorded = [i \in 1..MaxOrders |-> 0]

Goto(v, at) == run' = [run EXCEPT ![v].at = at]
Halt(v) == run' = [run EXCEPT ![v] = Idle]

-----------------------------------------------------------------------------
Start(v) ==
  /\ run[v].at = "idle"
  /\ Ask(v)
  /\ Goto(v, "get")
  /\ UNCHANGED <<attesterVars, pays, recorded>>

(* Only a quote lets the run go on. *)
Answered(v) ==
  /\ run[v].at = "get"
  /\ get[v].at \in {"content", "quote", "refused"}
  /\ IF get[v].at = "quote"
     THEN run' = [run EXCEPT ![v] =
                     [at |-> "decide", order |-> get[v].order, start |-> 0]]
     ELSE Halt(v)
  /\ get' = [get EXCEPT ![v] = Nothing]
  /\ UNCHANGED <<orders, failures, attesterVars, pays, recorded>>

(* The surface is committed, with the quoted recipient as the only one     *)
(* allowed, and the action checked in the same turn.                       *)
Decide(v) ==
  /\ run[v].at = "decide"
  /\ \/ Check(v, Price) /\ Goto(v, "sign")
     \/ ~runIntegrityCheck(Price) /\ Halt(v) /\ UNCHANGED attesterVars
  /\ UNCHANGED <<x402Vars, pays, recorded>>

Attested(v) ==
  /\ run[v].at = "sign"
  /\ Sign(v)
  /\ Goto(v, "pay")
  /\ UNCHANGED <<x402Vars, pays, recorded>>

(* payUsdc submits a payment.  If it throws, the run ends, with the        *)
(* payment on the ledger or not.                                           *)
Pay(v) ==
  LET i == run[v].order IN
  /\ run[v].at = "pay"
  /\ \/ /\ pays[i] < MaxPays
        /\ pays' = [pays EXCEPT ![i] = @ + 1]
        /\ \/ run' = [run EXCEPT ![v].at = "poll", ![v].start = now]
           \/ Halt(v)
     \/ Halt(v) /\ UNCHANGED pays
  /\ UNCHANGED <<x402Vars, attesterVars, recorded>>

(* Two seconds later, while there is time. *)
Poll(v) ==
  /\ run[v].at = "poll"
  /\ now - run[v].start < Patience
  /\ Ask(v)
  /\ Goto(v, "asked")
  /\ UNCHANGED <<attesterVars, pays, recorded>>

\* Mutant: the loop goes on after the content has come.
FinishNoBreak(v) ==
  /\ recorded' = [recorded EXCEPT ![run[v].order] = @ + 1]
  /\ Goto(v, "poll")

Finish(v) ==
  /\ recorded' = [recorded EXCEPT ![run[v].order] = @ + 1]
  /\ Halt(v)

(* Content ends the run with a record; any other answer is dropped. *)
PollAnswered(v) ==
  /\ run[v].at = "asked"
  /\ get[v].at \in {"content", "quote", "refused"}
  /\ IF get[v].at = "content" THEN Finish(v)
     ELSE Goto(v, "poll") /\ UNCHANGED recorded
  /\ get' = [get EXCEPT ![v] = Nothing]
  /\ UNCHANGED <<orders, failures, attesterVars, pays>>

(* fetch throws and ends the run, without a record of what it has paid;    *)
(* the handler of its request does not notice.                             *)
Throw(v) ==
  /\ run[v].at \in {"get", "asked"}
  /\ Halt(v)
  /\ UNCHANGED <<x402Vars, attesterVars, pays, recorded>>

(* settle_timeout, which is recorded too. *)
GiveUp(v) ==
  /\ run[v].at = "poll"
  /\ now - run[v].start >= Patience
  /\ Finish(v)
  /\ UNCHANGED <<x402Vars, attesterVars, pays>>

(* The process ends; the handlers of its requests do not notice. *)
Crash ==
  /\ Restart
  /\ run' = [v \in Visitor |-> Idle]
  /\ UNCHANGED <<x402Vars, pays, recorded>>

(* An answer nobody waits for. *)
Drop(v) ==
  /\ run[v].at \notin {"get", "asked"}
  /\ get[v].at \in {"content", "quote", "refused"}
  /\ get' = [get EXCEPT ![v] = Nothing]
  /\ UNCHANGED <<orders, failures, attesterVars, runVars>>

Serve(v) == Handle(v) /\ UNCHANGED <<attesterVars, runVars>>

SettlePaid(i) ==
  /\ i \in DOMAIN orders /\ pays[i] > 0
  /\ Settle(i)

Advance(v) ==
  \/ Answered(v) \/ Decide(v) \/ Attested(v) \/ Pay(v)
  \/ Poll(v) \/ PollAnswered(v) \/ Throw(v) \/ GiveUp(v)

Next ==
  \/ \E v \in Visitor : Start(v) \/ Advance(v) \/ Serve(v) \/ Drop(v)
  \/ (\E i \in DOMAIN orders : Lapse(i) \/ Close(i) \/ SettlePaid(i))
       /\ UNCHANGED <<attesterVars, runVars>>
  \/ Crash
  \/ Tick /\ UNCHANGED <<x402Vars, runVars>>

Spec == Init /\ [][Next]_vars

-----------------------------------------------------------------------------
(* Properties.                                                             *)

TypeOK ==
  /\ X402Type
  /\ AttesterType
  /\ run \in [Visitor -> Run]
  /\ pays \in [1..MaxOrders -> 0..MaxPays]
  /\ recorded \in [1..MaxOrders -> Nat]

(* The content goes only to a client that has an order paid on the ledger, *)
(* and the registry has at most one record of each payment, whatever runs, *)
(* timeouts and crashes there are.                                         *)
ServedWasPaid ==
  /\ \A v \in Visitor : get[v].at = "content" =>
       \E i \in Of(From[v]) : orders[i].status = "paid" /\ pays[i] > 0
  /\ \A i \in 1..MaxOrders : recorded[i] <= pays[i]

(* The inductive invariant: besides the counts and windows, a run works on *)
(* an order that exists, and one that waits for the content has made a     *)
(* payment of its own that has no record yet.                              *)
Waiting(i) == {v \in Visitor : run[v].at \in {"poll", "asked"} /\ run[v].order = i}

RunInv ==
  /\ \A v \in Visitor : run[v].at \in {"decide", "sign", "pay", "poll", "asked"} =>
       run[v].order \in DOMAIN orders
  /\ \A i \in 1..MaxOrders : recorded[i] + Cardinality(Waiting(i)) <= pays[i]
  /\ \A i \in DOMAIN orders : orders[i].status = "paid" => pays[i] > 0

IInv ==
  /\ TypeOK
  /\ CountInv
  /\ MemoryInv
  /\ WindowInv
  /\ RunInv
  /\ ServedWasPaid

PaidNewest(c) == \E i \in DOMAIN orders : IsNewest(i, c) /\ orders[i].status = "paid"
Minting(c) == \E v \in Visitor : From[v] = c /\ get[v].at \in {"client", "resource", "insert"}

(* What a client has paid for stays open to it: once its newest order is   *)
(* paid and none of its requests is about to insert one, no later request  *)
(* starts to, unless its lookup fails.                                     *)
PaidStaysOpen ==
  [][\A c \in Client :
       PaidNewest(c) /\ ~Minting(c) /\ failures' = failures
         => PaidNewest(c)' /\ ~Minting(c)']_vars
=============================================================================
