-------------------------------- MODULE X402 --------------------------------
(***************************************************************************)
(* A gated resource (supabase/functions/api/routes/x402.ts): a visitor     *)
(* that has not paid is answered with 402 and the memo of a pending order, *)
(* one that has paid with the content.  Every query of the handler is a    *)
(* step of its own; requests of one client, and of several, interleave.    *)
(*                                                                         *)
(* Orders are numbered in the order of their creation, and an order's      *)
(* number stands for its memo.                                             *)
(***************************************************************************)
EXTENDS Naturals, Sequences, FiniteSets

CONSTANTS
  Visitor,      \* requests under way at once
  Client,       \* client ids: the visitors' addresses
  From,         \* the client each visitor is taken for
  MAX_PENDING_PER_CLIENT_RESOURCE,
  MAX_PENDING_PER_RESOURCE,
  MaxOrders,    \* a bound on the orders ever made
  MaxFailures   \* a bound on the queries that fail

ASSUME X402Assumption ==
  /\ IsFiniteSet(Visitor)
  /\ From \in [Visitor -> Client]
  /\ MAX_PENDING_PER_CLIENT_RESOURCE \in Nat \ {0}
  /\ MAX_PENDING_PER_RESOURCE \in Nat \ {0}
  /\ MaxOrders \in Nat
  /\ MaxFailures \in Nat

VARIABLES
  orders,       \* the resource's orders, oldest first
  get,          \* the handler of each visitor's GET, or its answer
  failures      \* queries that failed so far

x402Vars == <<orders, get, failures>>

(* "overdue" is pending in the table, with expires_at in the past;         *)
(* "closed" is expired, cancelled or underpaid.                            *)
OrderRow == [client : Client, status : {"pending", "overdue", "paid", "closed"}]

(* What a handler awaits, or how it has answered: with the content, with   *)
(* 402 and an order's memo, or with an error.                              *)
Get == [at : {"idle", "look", "client", "resource", "insert",
              "content", "quote", "refused"},
        order : Nat]

Nothing == [at |-> "idle", order |-> 0]
Mark(v, at) == get' = [get EXCEPT ![v].at = at]
Quote(v, i) == get' = [get EXCEPT ![v] = [at |-> "quote", order |-> i]]

X402Init ==
  /\ orders = << >>
  /\ get = [v \in Visitor |-> Nothing]
  /\ failures = 0

-----------------------------------------------------------------------------
(* GET /:slug.                                                             *)

Ask(v) ==
  /\ get[v].at = "idle"
  /\ Mark(v, "look")
  /\ UNCHANGED <<orders, failures>>

Of(c) == {i \in DOMAIN orders : orders[i].client = c}
IsNewest(i, c) == i \in Of(c) /\ \A j \in Of(c) : j <= i

\* Mutant: a paid order is not told from one that is over.
LookForPending(v) ==
  /\ get[v].at = "look"
  /\ \/ \E i \in Of(From[v]) : /\ IsNewest(i, From[v])
                               /\ orders[i].status = "pending"
                               /\ Quote(v, i)
     \/ /\ \A i \in Of(From[v]) : IsNewest(i, From[v]) => orders[i].status # "pending"
        /\ Mark(v, "client")
  /\ UNCHANGED <<orders, failures>>

(* The client's newest order decides: paid is served, an open one is       *)
(* quoted again, anything else is to be replaced.                          *)
Look(v) ==
  /\ get[v].at = "look"
  /\ \/ \E i \in Of(From[v]) :
          /\ IsNewest(i, From[v])
          /\ \/ orders[i].status = "paid" /\ Mark(v, "content")
             \/ orders[i].status = "pending" /\ Quote(v, i)
             \/ orders[i].status \in {"overdue", "closed"} /\ Mark(v, "client")
     \/ Of(From[v]) = {} /\ Mark(v, "client")
  /\ UNCHANGED <<orders, failures>>

Open == {i \in DOMAIN orders : orders[i].status = "pending"}
OpenOf(c) == Open \cap Of(c)

\* Mutant: the client's open orders are not counted.
CountNothing(v) ==
  /\ get[v].at = "client"
  /\ Mark(v, "resource")
  /\ UNCHANGED <<orders, failures>>

CountClient(v) ==
  /\ get[v].at = "client"
  /\ Mark(v, IF Cardinality(OpenOf(From[v])) >= MAX_PENDING_PER_CLIENT_RESOURCE
             THEN "refused" ELSE "resource")
  /\ UNCHANGED <<orders, failures>>

CountResource(v) ==
  /\ get[v].at = "resource"
  /\ Mark(v, IF Cardinality(Open) >= MAX_PENDING_PER_RESOURCE
             THEN "refused" ELSE "insert")
  /\ UNCHANGED <<orders, failures>>

(* The errors of these three queries are not looked at: the lookup then    *)
(* finds no order, and a count is taken for zero.                          *)
QueryFails(v) ==
  /\ failures < MaxFailures
  /\ failures' = failures + 1
  /\ \/ get[v].at = "look" /\ Mark(v, "client")
     \/ get[v].at = "client" /\ Mark(v, "resource")
     \/ get[v].at = "resource" /\ Mark(v, "insert")
  /\ UNCHANGED orders

\* Mutant: the insert's error is not looked at either.
MintUnchecked(v) ==
  /\ get[v].at = "insert"
  /\ orders' = IF Len(orders) < MaxOrders
               THEN Append(orders, [client |-> From[v], status |-> "pending"]) ELSE orders
  /\ Quote(v, Len(orders) + 1)
  /\ UNCHANGED failures

(* A memo is generated and the order inserted, whatever has been inserted  *)
(* since the counts; the reply may be an error all the same.               *)
Mint(v) ==
  /\ get[v].at = "insert"
  /\ \/ /\ Len(orders) < MaxOrders
        /\ orders' = Append(orders, [client |-> From[v], status |-> "pending"])
        /\ Quote(v, Len(orders) + 1) \/ Mark(v, "refused")
     \/ Mark(v, "refused") /\ UNCHANGED orders
  /\ UNCHANGED failures

Handle(v) ==
  \/ Look(v) \/ CountClient(v) \/ CountResource(v) \/ QueryFails(v) \/ Mint(v)

-----------------------------------------------------------------------------
(* What becomes of an order: expires_at passes; it is cancelled, expired   *)
(* by pg_cron or underpaid; or the listener settles it, late or not.       *)

Become(i, from, status) ==
  /\ i \in DOMAIN orders
  /\ orders[i].status \in from
  /\ orders' = [orders EXCEPT ![i].status = status]
  /\ UNCHANGED <<get, failures>>

Lapse(i) == Become(i, {"pending"}, "overdue")
Close(i) == Become(i, {"pending", "overdue"}, "closed")
Settle(i) == Become(i, {"pending", "overdue"}, "paid")

-----------------------------------------------------------------------------
X402Type ==
  /\ orders \in Seq(OrderRow)
  /\ Len(orders) <= MaxOrders
  /\ get \in [Visitor -> Get]
  /\ \A v \in Visitor : get[v].at = "quote" => get[v].order \in DOMAIN orders
  /\ failures \in 0..MaxFailures

(* Handlers that have passed the client's count but not inserted yet, and  *)
(* those that have passed both.                                            *)
PastClient(c) == {v \in Visitor : From[v] = c /\ get[v].at \in {"resource", "insert"}}
PastResource == {v \in Visitor : get[v].at = "insert"}

VisitorsOf(c) == {v \in Visitor : From[v] = c}

(* The caps, counted before an insert that is not conditional, are passed  *)
(* by no more than the other requests under way, and by one order for each *)
(* query that failed: "can't mint unbounded rows" (x402.ts:43-45).         *)
OpenIsBounded ==
  /\ \A c \in Client :
       VisitorsOf(c) # {} => Cardinality(OpenOf(c)) <=
         MAX_PENDING_PER_CLIENT_RESOURCE + Cardinality(VisitorsOf(c)) - 1 + failures
  /\ Visitor # {} => Cardinality(Open) <=
       MAX_PENDING_PER_RESOURCE + Cardinality(Visitor) - 1 + failures

(* A handler past a count holds a place that the count did not see.        *)
CountInv ==
  /\ \A c \in Client : VisitorsOf(c) # {} =>
       Cardinality(OpenOf(c)) + Cardinality(PastClient(c))
         < MAX_PENDING_PER_CLIENT_RESOURCE + Cardinality(VisitorsOf(c)) + failures
  /\ Visitor # {} =>
       Cardinality(Open) + Cardinality(PastResource)
         < MAX_PENDING_PER_RESOURCE + Cardinality(Visitor) + failures
=============================================================================
