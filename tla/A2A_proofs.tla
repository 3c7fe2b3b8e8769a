----------------------------- MODULE A2A_proofs -----------------------------
(***************************************************************************)
(* The bounds of the paywall, of the oracle and of their buyer for any     *)
(* number of visitors, clients and orders, any caps and any windows: IInv  *)
(* is inductive.  The paywall's part of it and the oracle's are preserved  *)
(* by their own steps; the buyer's actions combine them.                   *)
(***************************************************************************)
EXTENDS A2A, TLAPS, FiniteSetTheorems

-----------------------------------------------------------------------------
(* Counting.                                                               *)

LEMMA Fewer ==
  ASSUME NEW S, IsFiniteSet(S), NEW T \in SUBSET S
  PROVE  /\ IsFiniteSet(T)
         /\ Cardinality(T) \in Nat /\ Cardinality(S) \in Nat
         /\ Cardinality(T) <= Cardinality(S)
BY FS_Subset, FS_CardinalityType

LEMMA OneMore ==
  ASSUME NEW S, IsFiniteSet(S), NEW x, NEW T \in SUBSET (S \cup {x})
  PROVE  /\ IsFiniteSet(T)
         /\ Cardinality(T) \in Nat /\ Cardinality(S) \in Nat
         /\ Cardinality(T) <= Cardinality(S) + 1
<1>1. /\ IsFiniteSet(S \cup {x})
      /\ Cardinality(S \cup {x}) = IF x \in S THEN Cardinality(S) ELSE Cardinality(S) + 1
  BY FS_AddElement
<1>2. Cardinality(S) \in Nat
  BY FS_CardinalityType
<1>3. /\ IsFiniteSet(T) /\ Cardinality(T) \in Nat
      /\ Cardinality(T) <= Cardinality(S \cup {x})
  BY <1>1, Fewer
<1> QED BY <1>1, <1>2, <1>3

LEMMA OneLess ==
  ASSUME NEW S, IsFiniteSet(S), NEW x \in S, NEW T \in SUBSET (S \ {x})
  PROVE  /\ IsFiniteSet(T)
         /\ Cardinality(T) \in Nat /\ Cardinality(S) \in Nat
         /\ Cardinality(T) + 1 <= Cardinality(S)
<1>1. /\ IsFiniteSet(S \ {x})
      /\ Cardinality(S) \in Nat /\ Cardinality(S \ {x}) \in Nat
      /\ Cardinality(S \ {x}) = Cardinality(S) - 1
  BY FS_RemoveElement, FS_CardinalityType
<1>2. /\ IsFiniteSet(T) /\ Cardinality(T) \in Nat
      /\ Cardinality(T) <= Cardinality(S \ {x})
  BY <1>1, Fewer
<1> QED BY <1>1, <1>2

-----------------------------------------------------------------------------
(* The oracle.                                                             *)

AttesterInv == AttesterType /\ MemoryInv /\ WindowInv

LEMMA TickStep ==
  ASSUME AttesterInv, Tick
  PROVE  AttesterInv'
<1> USE A2AAssumption, X402Assumption
<1>1. AttesterType'
  BY DEF Tick, AttesterInv, AttesterType
<1>2. MemoryInv'
  BY DEF Tick, AttesterInv, AttesterType, MemoryInv, NotSigning
<1>3. WindowInv'
  BY DEF Tick, AttesterInv, WindowInv, Within, SigningWithin
<1> QED BY <1>1, <1>2, <1>3 DEF AttesterInv

LEMMA AttesterCounts ==
  ASSUME AttesterInv, NEW t
  PROVE  /\ IsFiniteSet(Visitor) /\ Cardinality(Visitor) \in Nat
         /\ IsFiniteSet(Within(attested, t, window_seconds))
         /\ Cardinality(Within(attested, t, window_seconds)) \in Nat
         /\ IsFiniteSet(SigningWithin(t)) /\ Cardinality(SigningWithin(t)) \in Nat
<1> USE A2AAssumption, X402Assumption
<1>1. /\ IsFiniteSet(attested) /\ IsFiniteSet(Visitor)
      /\ Within(attested, t, window_seconds) \subseteq attested
      /\ SigningWithin(t) \subseteq Visitor
  BY DEF AttesterInv, MemoryInv, Within, SigningWithin
<1> QED BY <1>1, Fewer, FS_CardinalityType

LEMMA CheckStep ==
  ASSUME AttesterInv, NEW v \in Visitor, NEW amount, Check(v, amount)
  PROVE  AttesterInv'
<1> USE A2AAssumption, X402Assumption
<1> USE DEF NotSigning
<1>1. AttesterType'
  BY DEF Check, AttesterInv, AttesterType
<1>2. MemoryInv'
  BY DEF Check, AttesterInv, AttesterType, MemoryInv
<1>3. WindowInv'
  <2> SUFFICES ASSUME max_per_window # 0, window_seconds <= Keep, NEW t \in 0..MaxTime
               PROVE  Cardinality(Within(attested, t, window_seconds))
                        + Cardinality(SigningWithin(t)') < max_per_window + Cardinality(Visitor)
    BY DEF WindowInv, Within, Check
  <2>1. /\ signing' = [signing EXCEPT ![v] = now] /\ now \in 0..MaxTime
        /\ signing \in [Visitor -> 0..(MaxTime + 1)]
        /\ max_per_window \in Nat /\ window_seconds \in Nat /\ Keep \in Nat /\ MaxTime \in Nat
    BY DEF Check, AttesterInv, AttesterType
  <2>2. CASE now <= t /\ t - now < window_seconds
    <3>1. Within(attested, t, window_seconds) \subseteq Within(recent, now, window_seconds)
      <4> SUFFICES ASSUME NEW e \in attested, e.at <= t, t - e.at < window_seconds
                   PROVE  e \in recent /\ e.at <= now /\ now - e.at < window_seconds
        BY DEF Within
      <4>1. e.at \in 0..MaxTime /\ e.at <= now
        BY DEF AttesterInv, AttesterType, MemoryInv
      <4>2. now - e.at < window_seconds
        BY <2>1, <2>2, <4>1
      <4>3. ~(now - e.at >= Keep)
        BY <2>1, <4>1, <4>2
      <4> QED
        BY <4>1, <4>2, <4>3 DEF AttesterInv, MemoryInv
    <3>2. IsFiniteSet(recent)
      BY Fewer DEF AttesterInv, AttesterType, MemoryInv
    <3>3. /\ IsFiniteSet(Within(recent, now, window_seconds))
          /\ Cardinality(Within(recent, now, window_seconds)) \in Nat
      BY <3>2, Fewer, FS_CardinalityType DEF Within
    <3>4. Cardinality(Within(recent, now, window_seconds)) < max_per_window
      BY <2>1, <3>3 DEF Check, runIntegrityCheck, velocityDeviation
    <3>5. Cardinality(Within(attested, t, window_seconds)) < max_per_window
      BY <2>1, <3>1, <3>3, <3>4, Fewer
    <3>6. SigningWithin(t)' \subseteq Visitor
      BY DEF SigningWithin
    <3>7. /\ Cardinality(SigningWithin(t)') <= Cardinality(Visitor)
          /\ Cardinality(SigningWithin(t)') \in Nat
      BY <3>6, AttesterCounts, Fewer
    <3> QED
      BY <2>1, <3>5, <3>7, AttesterCounts
  <2>3. CASE ~(now <= t /\ t - now < window_seconds)
    <3>1. SigningWithin(t)' \subseteq SigningWithin(t)
      BY <2>1, <2>3 DEF SigningWithin
    <3>2. /\ Cardinality(SigningWithin(t)') <= Cardinality(SigningWithin(t))
          /\ Cardinality(SigningWithin(t)') \in Nat
      BY <3>1, AttesterCounts, Fewer
    <3>3. Cardinality(Within(attested, t, window_seconds)) + Cardinality(SigningWithin(t))
            < max_per_window + Cardinality(Visitor)
      BY DEF AttesterInv, WindowInv
    <3> QED
      BY <2>1, <3>2, <3>3, AttesterCounts
  <2> QED
    BY <2>2, <2>3
<1> QED BY <1>1, <1>2, <1>3 DEF AttesterInv

LEMMA SignStep ==
  ASSUME AttesterInv, NEW v \in Visitor, Sign(v)
  PROVE  AttesterInv'
<1> USE A2AAssumption, X402Assumption
<1> USE DEF NotSigning
<1> DEFINE e == [number |-> Cardinality(attested) + 1, at |-> signing[v]]
<1>1. /\ signing[v] \in 0..MaxTime /\ signing[v] <= now
      /\ signing \in [Visitor -> 0..(MaxTime + 1)] /\ now \in 0..MaxTime
      /\ MaxTime \in Nat /\ Keep \in Nat /\ max_per_window \in Nat /\ window_seconds \in Nat
  BY DEF Sign, AttesterInv, AttesterType, MemoryInv
<1>2. /\ recent' = {r \in recent : signing[v] <= r.at \/ signing[v] - r.at < Keep} \cup {e}
      /\ attested' = attested \cup {e} /\ now' = now
      /\ signing' = [signing EXCEPT ![v] = MaxTime + 1]
  BY DEF Sign
<1>3. e \in [number : Nat, at : 0..MaxTime] /\ e.at = signing[v]
  BY <1>1, FS_CardinalityType DEF AttesterInv, MemoryInv
<1>4. AttesterType'
  BY <1>1, <1>2, <1>3 DEF AttesterInv, AttesterType
<1>5. MemoryInv'
  <2>1. IsFiniteSet(attested')
    BY <1>2, OneMore DEF AttesterInv, MemoryInv
  <2>2. \A x \in attested' : x.at <= now'
    BY <1>1, <1>2, <1>3 DEF AttesterInv, MemoryInv
  <2>3. \A x \in attested' \ recent' : now' - x.at >= Keep
    <3> SUFFICES ASSUME NEW x \in attested, x \notin recent'
                 PROVE  now - x.at >= Keep
      BY <1>2
    <3>1. x.at \in 0..MaxTime
      BY DEF AttesterInv, AttesterType
    <3>2. CASE x \in recent
      BY <1>1, <1>2, <3>1, <3>2
    <3>3. CASE x \notin recent
      BY <3>3 DEF AttesterInv, MemoryInv
    <3> QED
      BY <3>2, <3>3
  <2>4. \A s \in Visitor : signing'[s] # MaxTime + 1 => signing'[s] <= now'
    BY <1>1, <1>2 DEF AttesterInv, MemoryInv
  <2> QED
    BY <2>1, <2>2, <2>3, <2>4 DEF MemoryInv
<1>6. WindowInv'
  <2> SUFFICES ASSUME max_per_window # 0, window_seconds <= Keep, NEW t \in 0..MaxTime
               PROVE  Cardinality(Within(attested', t, window_seconds))
                        + Cardinality(SigningWithin(t)') < max_per_window + Cardinality(Visitor)
    BY DEF WindowInv, Within
  <2>1. Cardinality(Within(attested, t, window_seconds)) + Cardinality(SigningWithin(t))
          < max_per_window + Cardinality(Visitor)
    BY DEF AttesterInv, WindowInv
  <2>2. CASE signing[v] <= t /\ t - signing[v] < window_seconds
    <3>1. Within(attested', t, window_seconds)
            \subseteq Within(attested, t, window_seconds) \cup {e}
      BY <1>2 DEF Within
    <3>2. v \in SigningWithin(t) /\ SigningWithin(t)' \subseteq SigningWithin(t) \ {v}
      BY <1>1, <1>2, <2>2 DEF SigningWithin
    <3>3. /\ Cardinality(Within(attested', t, window_seconds)) \in Nat
          /\ Cardinality(Within(attested', t, window_seconds))
               <= Cardinality(Within(attested, t, window_seconds)) + 1
      BY <3>1, OneMore, AttesterCounts
    <3>4. /\ Cardinality(SigningWithin(t)') \in Nat
          /\ Cardinality(SigningWithin(t)') + 1 <= Cardinality(SigningWithin(t))
      BY <3>2, OneLess, AttesterCounts
    <3> QED
      BY <1>1, <2>1, <3>3, <3>4, AttesterCounts
  <2>3. CASE ~(signing[v] <= t /\ t - signing[v] < window_seconds)
    <3>1. Within(attested', t, window_seconds) \subseteq Within(attested, t, window_seconds)
      BY <1>2, <1>3, <2>3 DEF Within
    <3>2. SigningWithin(t)' \subseteq SigningWithin(t)
      BY <1>1, <1>2 DEF SigningWithin
    <3>3. /\ Cardinality(Within(attested', t, window_seconds)) \in Nat
          /\ Cardinality(Within(attested', t, window_seconds))
               <= Cardinality(Within(attested, t, window_seconds))
      BY <3>1, Fewer, AttesterCounts
    <3>4. /\ Cardinality(SigningWithin(t)') \in Nat
          /\ Cardinality(SigningWithin(t)') <= Cardinality(SigningWithin(t))
      BY <3>2, Fewer, AttesterCounts
    <3> QED
      BY <1>1, <2>1, <3>3, <3>4, AttesterCounts
  <2> QED
    BY <2>2, <2>3
<1> QED BY <1>4, <1>5, <1>6 DEF AttesterInv

(* A process that has just been started. *)
Fresh ==
  /\ now \in 0..MaxTime /\ recent = {} /\ attested = {}
  /\ signing = [v \in Visitor |-> NotSigning]

LEMMA FreshInv == Fresh => AttesterInv
<1> SUFFICES ASSUME Fresh PROVE AttesterInv
  OBVIOUS
<1>1. AttesterType
  BY A2AAssumption DEF Fresh, AttesterType, NotSigning
<1>2. MemoryInv
  BY FS_EmptySet DEF Fresh, MemoryInv, NotSigning
<1>3. WindowInv
  <2>1. \A t \in 0..MaxTime : Within(attested, t, window_seconds) = {} /\ SigningWithin(t) = {}
    BY A2AAssumption DEF Fresh, Within, SigningWithin, NotSigning
  <2>2. Cardinality(Visitor) \in Nat /\ Cardinality({}) = 0
    BY X402Assumption, FS_CardinalityType, FS_EmptySet
  <2> QED
    BY <2>1, <2>2, A2AAssumption DEF WindowInv
<1> QED BY <1>1, <1>2, <1>3 DEF AttesterInv

LEMMA RestartStep ==
  ASSUME AttesterInv, Restart
  PROVE  AttesterInv'
<1>1. Fresh'
  BY DEF Restart, Fresh, AttesterInv, AttesterType, NotSigning
<1> QED BY <1>1, FreshInv, PTL

-----------------------------------------------------------------------------
(* The paywall.                                                            *)

X402Inv == X402Type /\ CountInv

(* What the steps of the paywall need of the types.                        *)
LEMMA PaywallTypes ==
  ASSUME X402Type
  PROVE  /\ Len(orders) \in 0..MaxOrders /\ DOMAIN orders = 1..Len(orders)
         /\ \A i \in DOMAIN orders : orders[i] \in OrderRow
         /\ \A v \in Visitor : get[v] \in Get /\ From[v] \in Client
         /\ failures \in Nat
BY X402Assumption DEF X402Type

LEMMA PaywallCounts ==
  ASSUME X402Type, NEW c
  PROVE  /\ IsFiniteSet(Open) /\ Cardinality(Open) \in Nat
         /\ IsFiniteSet(OpenOf(c)) /\ Cardinality(OpenOf(c)) \in Nat
         /\ IsFiniteSet(PastClient(c)) /\ Cardinality(PastClient(c)) \in Nat
         /\ IsFiniteSet(PastResource) /\ Cardinality(PastResource) \in Nat
         /\ IsFiniteSet(VisitorsOf(c)) /\ Cardinality(VisitorsOf(c)) \in Nat
         /\ IsFiniteSet(Visitor) /\ Cardinality(Visitor) \in Nat
<1>1. IsFiniteSet(DOMAIN orders)
  BY PaywallTypes, FS_Interval
<1>2. /\ Open \subseteq DOMAIN orders /\ OpenOf(c) \subseteq DOMAIN orders
      /\ PastClient(c) \subseteq Visitor /\ PastResource \subseteq Visitor
      /\ VisitorsOf(c) \subseteq Visitor /\ IsFiniteSet(Visitor)
  BY X402Assumption DEF Open, OpenOf, Of, PastClient, PastResource, VisitorsOf
<1> QED BY <1>1, <1>2, Fewer, FS_CardinalityType

(* The counts are kept by a step that opens no order and lets no handler   *)
(* pass a count.                                                           *)
LEMMA CountsKept ==
  ASSUME X402Inv, failures' = failures,
         Open' \subseteq Open, PastResource' \subseteq PastResource,
         \A c \in Client : /\ OpenOf(c)' \subseteq OpenOf(c)
                           /\ PastClient(c)' \subseteq PastClient(c)
  PROVE  CountInv'
<1> USE X402Assumption DEF X402Inv
<1>1. ASSUME NEW c \in Client, VisitorsOf(c) # {}
      PROVE  Cardinality(OpenOf(c)') + Cardinality(PastClient(c)')
               < MAX_PENDING_PER_CLIENT_RESOURCE + Cardinality(VisitorsOf(c)) + failures'
  <2>1. /\ Cardinality(OpenOf(c)') \in Nat
        /\ Cardinality(OpenOf(c)') <= Cardinality(OpenOf(c))
    BY PaywallCounts, Fewer
  <2>2. /\ Cardinality(PastClient(c)') \in Nat
        /\ Cardinality(PastClient(c)') <= Cardinality(PastClient(c))
    BY PaywallCounts, Fewer
  <2>3. Cardinality(OpenOf(c)) + Cardinality(PastClient(c))
          < MAX_PENDING_PER_CLIENT_RESOURCE + Cardinality(VisitorsOf(c)) + failures
    BY <1>1 DEF CountInv
  <2> QED
    BY <2>1, <2>2, <2>3, PaywallCounts, PaywallTypes
<1>2. ASSUME Visitor # {}
      PROVE  Cardinality(Open') + Cardinality(PastResource')
               < MAX_PENDING_PER_RESOURCE + Cardinality(Visitor) + failures'
  <2>1. Cardinality(Open') \in Nat /\ Cardinality(Open') <= Cardinality(Open)
    BY PaywallCounts, Fewer
  <2>2. /\ Cardinality(PastResource') \in Nat
        /\ Cardinality(PastResource') <= Cardinality(PastResource)
    BY PaywallCounts, Fewer
  <2>3. Cardinality(Open) + Cardinality(PastResource)
          < MAX_PENDING_PER_RESOURCE + Cardinality(Visitor) + failures
    BY <1>2 DEF CountInv
  <2>4. /\ Cardinality(Open) \in Nat /\ Cardinality(PastResource) \in Nat
        /\ Cardinality(Visitor) \in Nat /\ failures \in Nat
    BY PaywallCounts, PaywallTypes
  <2> QED
    BY <2>1, <2>2, <2>3, <2>4
<1> QED BY <1>1, <1>2 DEF CountInv, VisitorsOf

(* A handler that ends, or turns to a step before the counts.              *)
LEMMA ShortStep ==
  ASSUME X402Inv, UNCHANGED <<orders, failures>>, NEW v \in Visitor,
         NEW g \in Get, get' = [get EXCEPT ![v] = g], g.at \notin {"resource", "insert"},
         g.at = "quote" => g.order \in DOMAIN orders
  PROVE  X402Inv'
<1>1. X402Type'
  BY DEF X402Inv, X402Type
<1>2. /\ Open' \subseteq Open /\ PastResource' \subseteq PastResource
      /\ \A c \in Client : /\ OpenOf(c)' \subseteq OpenOf(c)
                           /\ PastClient(c)' \subseteq PastClient(c)
  BY PaywallTypes DEF X402Inv, X402Type, Open, OpenOf, Of, PastResource, PastClient
<1> QED BY <1>1, <1>2, CountsKept DEF X402Inv

LEMMA BecomeStep ==
  ASSUME X402Inv, NEW i, NEW from, NEW status \in {"overdue", "closed", "paid"},
         Become(i, from, status)
  PROVE  X402Inv'
<1>1. /\ i \in DOMAIN orders /\ orders' = [orders EXCEPT ![i].status = status]
      /\ UNCHANGED <<get, failures>>
  BY DEF Become
<1>2. /\ orders' \in Seq(OrderRow) /\ Len(orders') = Len(orders)
      /\ DOMAIN orders' = DOMAIN orders
      /\ \A j \in DOMAIN orders : orders'[j].client = orders[j].client
      /\ \A j \in DOMAIN orders : j # i => orders'[j] = orders[j]
      /\ orders'[i].status = status
  <2> DEFINE r == [orders[i] EXCEPT !.status = status]
  <2>1. r \in OrderRow /\ r.client = orders[i].client /\ r.status = status
    BY <1>1, PaywallTypes DEF X402Inv, OrderRow
  <2>2. orders' = [orders EXCEPT ![i] = r]
    BY <1>1
  <2> HIDE DEF r
  <2>3. orders' \in Seq(OrderRow) /\ Len(orders') = Len(orders)
    BY <1>1, <2>1, <2>2 DEF X402Inv, X402Type
  <2> QED
    BY <1>1, <2>1, <2>2, <2>3 DEF X402Inv, X402Type
<1>3. X402Type'
  BY <1>1, <1>2 DEF X402Inv, X402Type
<1>4. /\ Open' \subseteq Open /\ PastResource' \subseteq PastResource
      /\ \A c \in Client : /\ OpenOf(c)' \subseteq OpenOf(c)
                           /\ PastClient(c)' \subseteq PastClient(c)
  BY <1>1, <1>2 DEF Open, OpenOf, Of, PastResource, PastClient
<1> QED BY <1>1, <1>3, <1>4, CountsKept DEF X402Inv

(* A handler passes the client's count, because there was room or because  *)
(* the query failed.                                                       *)
LEMMA PassClient ==
  ASSUME X402Inv, NEW v \in Visitor, get[v].at = "client", Mark(v, "resource"),
         UNCHANGED orders, failures' \in 0..MaxFailures,
         \/ /\ failures' = failures
            /\ Cardinality(OpenOf(From[v])) < MAX_PENDING_PER_CLIENT_RESOURCE
         \/ failures' = failures + 1
  PROVE  X402Inv'
<1> USE X402Assumption DEF X402Inv
<1>1. /\ get' = [get EXCEPT ![v] = [get[v] EXCEPT !.at = "resource"]]
      /\ [get[v] EXCEPT !.at = "resource"] \in Get
      /\ [get[v] EXCEPT !.at = "resource"].at = "resource"
  BY PaywallTypes DEF Mark, Get
<1>2. X402Type'
  BY <1>1 DEF X402Type
<1>3. failures \in Nat /\ failures' \in Nat
  BY PaywallTypes
<1>4. ASSUME NEW c \in Client, VisitorsOf(c) # {}
      PROVE  Cardinality(OpenOf(c)) + Cardinality(PastClient(c)')
               < MAX_PENDING_PER_CLIENT_RESOURCE + Cardinality(VisitorsOf(c)) + failures'
  <2>1. Cardinality(OpenOf(c)) + Cardinality(PastClient(c))
          < MAX_PENDING_PER_CLIENT_RESOURCE + Cardinality(VisitorsOf(c)) + failures
    BY <1>4 DEF CountInv
  <2>2. CASE c # From[v]
    <3>1. PastClient(c)' = PastClient(c)
      BY <1>1, <2>2, PaywallTypes DEF PastClient, X402Type
    <3> QED
      BY <1>3, <2>1, <3>1, PaywallCounts
  <2>3. CASE failures' = failures + 1
    <3>1. PastClient(c)' \subseteq PastClient(c) \cup {v}
      BY <1>1, PaywallTypes DEF PastClient, X402Type
    <3>2. /\ Cardinality(PastClient(c)') \in Nat
          /\ Cardinality(PastClient(c)') <= Cardinality(PastClient(c)) + 1
      BY <3>1, PaywallCounts, OneMore
    <3> QED
      BY <1>3, <2>1, <2>3, <3>2, PaywallCounts
  <2>4. CASE c = From[v] /\ Cardinality(OpenOf(c)) < MAX_PENDING_PER_CLIENT_RESOURCE
    <3>1. PastClient(c)' \subseteq VisitorsOf(c)
      BY DEF PastClient, VisitorsOf
    <3>2. /\ Cardinality(PastClient(c)') \in Nat
          /\ Cardinality(PastClient(c)') <= Cardinality(VisitorsOf(c))
      BY <3>1, PaywallCounts, Fewer
    <3> QED
      BY <1>3, <2>4, <3>2, PaywallCounts
  <2> QED
    BY <2>2, <2>3, <2>4
<1>5. ASSUME Visitor # {}
      PROVE  Cardinality(Open) + Cardinality(PastResource')
               < MAX_PENDING_PER_RESOURCE + Cardinality(Visitor) + failures'
  <2>1. PastResource' = PastResource
    BY <1>1, PaywallTypes DEF PastResource, X402Type
  <2> QED
    BY <1>3, <1>5, <2>1, PaywallCounts DEF CountInv
<1> QED
  BY <1>2, <1>4, <1>5 DEF CountInv, VisitorsOf, Open, OpenOf, Of

(* A handler passes the resource's count.                                  *)
LEMMA PassResource ==
  ASSUME X402Inv, NEW v \in Visitor, get[v].at = "resource", Mark(v, "insert"),
         UNCHANGED orders, failures' \in 0..MaxFailures,
         \/ /\ failures' = failures
            /\ Cardinality(Open) < MAX_PENDING_PER_RESOURCE
         \/ failures' = failures + 1
  PROVE  X402Inv'
<1> USE X402Assumption DEF X402Inv
<1>1. /\ get' = [get EXCEPT ![v] = [get[v] EXCEPT !.at = "insert"]]
      /\ [get[v] EXCEPT !.at = "insert"] \in Get
      /\ [get[v] EXCEPT !.at = "insert"].at = "insert"
  BY PaywallTypes DEF Mark, Get
<1>2. X402Type'
  BY <1>1 DEF X402Type
<1>3. failures \in Nat /\ failures' \in Nat
  BY PaywallTypes
<1>4. ASSUME NEW c \in Client, VisitorsOf(c) # {}
      PROVE  Cardinality(OpenOf(c)) + Cardinality(PastClient(c)')
               < MAX_PENDING_PER_CLIENT_RESOURCE + Cardinality(VisitorsOf(c)) + failures'
  <2>1. PastClient(c)' = PastClient(c)
    BY <1>1, PaywallTypes DEF PastClient, X402Type
  <2> QED
    BY <1>3, <1>4, <2>1, PaywallCounts DEF CountInv
<1>5. ASSUME Visitor # {}
      PROVE  Cardinality(Open) + Cardinality(PastResource')
               < MAX_PENDING_PER_RESOURCE + Cardinality(Visitor) + failures'
  <2>1. Cardinality(Open) + Cardinality(PastResource)
          < MAX_PENDING_PER_RESOURCE + Cardinality(Visitor) + failures
    BY <1>5 DEF CountInv
  <2>2. /\ IsFiniteSet(PastResource) /\ IsFiniteSet(Visitor)
        /\ Cardinality(Open) \in Nat /\ Cardinality(PastResource) \in Nat
        /\ Cardinality(Visitor) \in Nat
    BY PaywallCounts
  <2>3. CASE failures' = failures + 1
    <3>1. PastResource' \subseteq PastResource \cup {v}
      BY <1>1, PaywallTypes DEF PastResource, X402Type
    <3>2. /\ Cardinality(PastResource') \in Nat
          /\ Cardinality(PastResource') <= Cardinality(PastResource) + 1
      BY <2>2, <3>1, OneMore
    <3> QED
      BY <1>3, <2>1, <2>2, <2>3, <3>2
  <2>4. CASE Cardinality(Open) < MAX_PENDING_PER_RESOURCE
    <3>1. PastResource' \subseteq Visitor
      BY DEF PastResource
    <3>2. /\ Cardinality(PastResource') \in Nat
          /\ Cardinality(PastResource') <= Cardinality(Visitor)
      BY <2>2, <3>1, Fewer
    <3> QED
      BY <1>3, <2>2, <2>4, <3>2
  <2> QED
    BY <2>3, <2>4
<1> QED
  BY <1>2, <1>4, <1>5 DEF CountInv, VisitorsOf, Open, OpenOf, Of

(* The place a handler held becomes an open order.                         *)
LEMMA InsertStep ==
  ASSUME X402Inv, NEW v \in Visitor, get[v].at = "insert", Len(orders) < MaxOrders,
         orders' = Append(orders, [client |-> From[v], status |-> "pending"]),
         Quote(v, Len(orders) + 1) \/ Mark(v, "refused"), UNCHANGED failures
  PROVE  X402Inv'
<1> USE X402Assumption DEF X402Inv
<1> DEFINE n == Len(orders) + 1
<1>1. /\ n \in Nat /\ DOMAIN orders = 1..Len(orders) /\ DOMAIN orders' = 1..n
      /\ Len(orders') = n /\ orders' \in Seq(OrderRow)
      /\ \A i \in DOMAIN orders : orders'[i] = orders[i]
      /\ orders'[n] = [client |-> From[v], status |-> "pending"]
  <2>1. [client |-> From[v], status |-> "pending"] \in OrderRow
    BY PaywallTypes DEF OrderRow
  <2> QED
    BY <2>1, PaywallTypes DEF X402Type
<1>2. PICK g \in Get : /\ g.at \in {"quote", "refused"} /\ (g.at = "quote" => g.order = n)
                     /\ get' = [get EXCEPT ![v] = g]
  <2>1. CASE Quote(v, n)
    <3>1. [at |-> "quote", order |-> n] \in Get
      BY <1>1 DEF Get
    <3> QED
      BY <2>1, <3>1 DEF Quote
  <2>2. CASE Mark(v, "refused")
    <3>1. get[v] \in Get
      BY PaywallTypes DEF X402Type
    <3>2. /\ [get[v] EXCEPT !.at = "refused"] \in Get
          /\ [get[v] EXCEPT !.at = "refused"].at = "refused"
      BY <3>1 DEF Get
    <3> QED
      BY <2>2, <3>2 DEF Mark
  <2> QED
    BY <2>1, <2>2
<1> HIDE DEF n
<1>3. X402Type'
  BY <1>1, <1>2, PaywallTypes DEF X402Type, n
<1>4. failures \in Nat /\ failures' = failures
  BY PaywallTypes
<1>5. ASSUME NEW c \in Client, VisitorsOf(c) # {}
      PROVE  Cardinality(OpenOf(c)') + Cardinality(PastClient(c)')
               < MAX_PENDING_PER_CLIENT_RESOURCE + Cardinality(VisitorsOf(c)) + failures'
  <2>1. Cardinality(OpenOf(c)) + Cardinality(PastClient(c))
          < MAX_PENDING_PER_CLIENT_RESOURCE + Cardinality(VisitorsOf(c)) + failures
    BY <1>5 DEF CountInv
  <2>2. CASE c = From[v]
    <3>1. /\ OpenOf(c)' \subseteq OpenOf(c) \cup {n}
          /\ v \in PastClient(c) /\ PastClient(c)' \subseteq PastClient(c) \ {v}
      BY <1>1, <1>2, <2>2, PaywallTypes DEF OpenOf, Open, Of, PastClient, X402Type, n
    <3>2. /\ Cardinality(OpenOf(c)') \in Nat
          /\ Cardinality(OpenOf(c)') <= Cardinality(OpenOf(c)) + 1
      BY <3>1, PaywallCounts, OneMore
    <3>3. /\ Cardinality(PastClient(c)') \in Nat
          /\ Cardinality(PastClient(c)') + 1 <= Cardinality(PastClient(c))
      BY <3>1, PaywallCounts, OneLess
    <3> QED
      BY <1>4, <2>1, <3>2, <3>3, PaywallCounts
  <2>3. CASE c # From[v]
    <3>1. OpenOf(c)' = OpenOf(c) /\ PastClient(c)' = PastClient(c)
      BY <1>1, <1>2, <2>3, PaywallTypes DEF OpenOf, Open, Of, PastClient, X402Type, n
    <3> QED
      BY <1>4, <2>1, <3>1
  <2> QED
    BY <2>2, <2>3
<1>6. ASSUME Visitor # {}
      PROVE  Cardinality(Open') + Cardinality(PastResource')
               < MAX_PENDING_PER_RESOURCE + Cardinality(Visitor) + failures'
  <2>1. Cardinality(Open) + Cardinality(PastResource)
          < MAX_PENDING_PER_RESOURCE + Cardinality(Visitor) + failures
    BY <1>6 DEF CountInv
  <2>2. /\ IsFiniteSet(PastResource) /\ IsFiniteSet(Open)
        /\ Cardinality(Open) \in Nat /\ Cardinality(PastResource) \in Nat
        /\ Cardinality(Visitor) \in Nat
    BY PaywallCounts
  <2>3. /\ Open' \subseteq Open \cup {n}
        /\ v \in PastResource /\ PastResource' \subseteq PastResource \ {v}
    BY <1>1, <1>2, PaywallTypes DEF Open, PastResource, X402Type, n
  <2>4. Cardinality(Open') \in Nat /\ Cardinality(Open') <= Cardinality(Open) + 1
    BY <2>2, <2>3, OneMore
  <2>5. /\ Cardinality(PastResource') \in Nat
        /\ Cardinality(PastResource') + 1 <= Cardinality(PastResource)
    BY <2>2, <2>3, OneLess
  <2> QED
    BY <1>4, <2>1, <2>2, <2>4, <2>5
<1> QED
  BY <1>3, <1>5, <1>6 DEF CountInv, VisitorsOf

LEMMA HandleStep ==
  ASSUME X402Inv, NEW v \in Visitor, Handle(v)
  PROVE  X402Inv'
<1> DEFINE to(at) == [get[v] EXCEPT !.at = at]
<1>1. \A at \in {"idle", "look", "client", "resource", "insert", "content", "quote", "refused"} :
        to(at) \in Get /\ to(at).at = at
  BY PaywallTypes DEF X402Inv, Get
<1>2. ASSUME NEW at \in {"client", "content", "refused"}, Mark(v, at),
             UNCHANGED <<orders, failures>>
      PROVE  X402Inv'
  <2>1. get' = [get EXCEPT ![v] = to(at)]
    BY <1>2 DEF Mark
  <2>2. to(at) \in Get /\ to(at).at = at
    BY <1>1
  <2> HIDE DEF to
  <2> QED
    BY <1>2, <2>1, <2>2, ShortStep
<1>3. ASSUME NEW i \in DOMAIN orders, Quote(v, i), UNCHANGED <<orders, failures>>
      PROVE  X402Inv'
  <2>1. i \in Nat
    BY PaywallTypes DEF X402Inv
  <2>2. [at |-> "quote", order |-> i] \in Get
    BY <2>1 DEF Get
  <2> QED
    BY <1>3, <2>2, ShortStep DEF Quote
<1>4. CASE Look(v)
  BY <1>2, <1>3, <1>4 DEF Look, Of
<1>5. CASE CountClient(v)
  <2>1. CASE Cardinality(OpenOf(From[v])) >= MAX_PENDING_PER_CLIENT_RESOURCE
    BY <1>2, <1>5, <2>1 DEF CountClient
  <2>2. CASE ~(Cardinality(OpenOf(From[v])) >= MAX_PENDING_PER_CLIENT_RESOURCE)
    <3>1. Cardinality(OpenOf(From[v])) < MAX_PENDING_PER_CLIENT_RESOURCE
      BY <2>2, PaywallCounts, X402Assumption DEF X402Inv
    <3> QED
      BY <1>5, <2>2, <3>1, PassClient DEF CountClient, X402Inv, X402Type
  <2> QED
    BY <2>1, <2>2
<1>6. CASE CountResource(v)
  <2>1. CASE Cardinality(Open) >= MAX_PENDING_PER_RESOURCE
    BY <1>2, <1>6, <2>1 DEF CountResource
  <2>2. CASE ~(Cardinality(Open) >= MAX_PENDING_PER_RESOURCE)
    <3>1. Cardinality(Open) \in Nat
      BY PaywallCounts DEF X402Inv
    <3>2. Cardinality(Open) < MAX_PENDING_PER_RESOURCE
      BY <2>2, <3>1, X402Assumption
    <3> QED
      BY <1>6, <2>2, <3>2, PassResource DEF CountResource, X402Inv, X402Type
  <2> QED
    BY <2>1, <2>2
<1>7. CASE QueryFails(v)
  <2>1. UNCHANGED orders /\ failures' = failures + 1 /\ failures' \in 0..MaxFailures
    BY <1>7, X402Assumption DEF QueryFails, X402Inv, X402Type
  <2>2. CASE get[v].at = "look" /\ Mark(v, "client")
    <3>1. get' = [get EXCEPT ![v] = to("client")]
      BY <2>2 DEF Mark
    <3>2. to("client") \in Get /\ to("client").at = "client"
      BY <1>1
    <3>3. X402Type'
      BY <2>1, <3>1, <3>2 DEF X402Inv, X402Type
    <3>4. CountInv'
      <4>1. /\ Open' = Open /\ \A c \in Client : OpenOf(c)' = OpenOf(c)
            /\ PastResource' = PastResource
            /\ \A c \in Client : PastClient(c)' = PastClient(c)
        BY <2>1, <2>2, <3>1, <3>2 DEF Open, OpenOf, Of, PastResource, PastClient, X402Inv, X402Type
      <4>2. ASSUME NEW c \in Client, VisitorsOf(c) # {}
            PROVE  Cardinality(OpenOf(c)) + Cardinality(PastClient(c))
                     < MAX_PENDING_PER_CLIENT_RESOURCE + Cardinality(VisitorsOf(c)) + failures'
        <5>1. /\ Cardinality(OpenOf(c)) \in Nat /\ Cardinality(PastClient(c)) \in Nat
              /\ Cardinality(VisitorsOf(c)) \in Nat /\ failures \in Nat
          BY PaywallCounts, PaywallTypes DEF X402Inv
        <5> QED
          BY <2>1, <4>2, <5>1, X402Assumption DEF X402Inv, CountInv
      <4>3. ASSUME Visitor # {}
            PROVE  Cardinality(Open) + Cardinality(PastResource)
                     < MAX_PENDING_PER_RESOURCE + Cardinality(Visitor) + failures'
        <5>1. /\ Cardinality(Open) \in Nat /\ Cardinality(PastResource) \in Nat
              /\ Cardinality(Visitor) \in Nat /\ failures \in Nat
          BY PaywallCounts, PaywallTypes DEF X402Inv
        <5> QED
          BY <2>1, <4>3, <5>1, X402Assumption DEF X402Inv, CountInv
      <4> QED
        BY <4>1, <4>2, <4>3 DEF CountInv, VisitorsOf
    <3> QED
      BY <3>3, <3>4 DEF X402Inv
  <2>3. CASE get[v].at = "client" /\ Mark(v, "resource")
    BY <2>1, <2>3, PassClient
  <2>4. CASE get[v].at = "resource" /\ Mark(v, "insert")
    BY <2>1, <2>4, PassResource
  <2> QED
    BY <1>7, <2>2, <2>3, <2>4 DEF QueryFails
<1>8. CASE Mint(v)
  <2>1. CASE Mark(v, "refused") /\ UNCHANGED orders
    BY <1>2, <1>8, <2>1 DEF Mint
  <2>2. CASE /\ Len(orders) < MaxOrders
             /\ orders' = Append(orders, [client |-> From[v], status |-> "pending"])
             /\ Quote(v, Len(orders) + 1) \/ Mark(v, "refused")
    BY <1>8, <2>2, InsertStep DEF Mint
  <2> QED
    BY <1>8, <2>1, <2>2 DEF Mint
<1> QED
  BY <1>4, <1>5, <1>6, <1>7, <1>8 DEF Handle

-----------------------------------------------------------------------------
(* The buyer.                                                              *)

RunType ==
  /\ run \in [Visitor -> Run]
  /\ pays \in [1..MaxOrders -> 0..MaxPays]
  /\ recorded \in [1..MaxOrders -> Nat]

LEMMA Parts ==
  IInv <=> X402Inv /\ AttesterInv /\ RunType /\ RunInv /\ ServedWasPaid
BY DEF IInv, TypeOK, X402Inv, AttesterInv, RunType

(* What the handler of one visitor may do to the orders and to the others. *)
LEMMA HandleOrders ==
  ASSUME X402Inv, NEW v \in Visitor, Handle(v)
  PROVE  /\ \A i \in DOMAIN orders : i \in DOMAIN orders' /\ orders'[i] = orders[i]
         /\ \A i \in DOMAIN orders' \ DOMAIN orders :
              /\ i = Len(orders) + 1 /\ get[v].at = "insert"
              /\ orders'[i] = [client |-> From[v], status |-> "pending"]
         /\ \A u \in Visitor \ {v} : get'[u] = get[u]
         /\ get'[v].at = "content" =>
              \E i \in DOMAIN orders : orders[i].client = From[v] /\ orders[i].status = "paid"
<1> USE DEF X402Inv
<1>1. CASE Mint(v)
  <2>1. CASE UNCHANGED orders /\ Mark(v, "refused")
    BY <2>1, PaywallTypes DEF Mark, X402Type, Get
  <2>2. CASE /\ orders' = Append(orders, [client |-> From[v], status |-> "pending"])
             /\ Quote(v, Len(orders) + 1) \/ Mark(v, "refused")
    <3>1. DOMAIN orders = 1..Len(orders) /\ Len(orders) \in Nat /\ orders \in Seq(OrderRow)
      BY PaywallTypes DEF X402Type
    <3>2. /\ DOMAIN orders' = 1..(Len(orders) + 1)
          /\ \A i \in 1..Len(orders) : orders'[i] = orders[i]
          /\ orders'[Len(orders) + 1] = [client |-> From[v], status |-> "pending"]
      BY <2>2, <3>1
    <3>3. /\ \A u \in Visitor \ {v} : get'[u] = get[u]
          /\ get'[v].at \in {"quote", "refused"} /\ get[v].at = "insert"
      BY <1>1, <2>2, PaywallTypes DEF Mint, Quote, Mark, X402Type, Get
    <3> QED
      BY <3>1, <3>2, <3>3
  <2> QED
    BY <1>1, <2>1, <2>2 DEF Mint
<1>2. CASE ~Mint(v)
  <2>1. UNCHANGED orders
    BY <1>2 DEF Handle, Look, CountClient, CountResource, QueryFails
  <2>2. \E at \in {"client", "content", "refused", "resource", "insert"}, i \in DOMAIN orders \cup {0} :
          \/ Mark(v, at) /\ (at = "content" => i \in Of(From[v]) /\ orders[i].status = "paid")
          \/ Quote(v, i)
    BY <1>2 DEF Handle, Look, CountClient, CountResource, QueryFails, Of
  <2> QED
    BY <2>1, <2>2, PaywallTypes DEF Mark, Quote, Of, X402Type, Get
<1> QED BY <1>1, <1>2

LEMMA BuyerCounts ==
  ASSUME X402Inv, RunType, NEW i
  PROVE  /\ IsFiniteSet(Waiting(i)) /\ Cardinality(Waiting(i)) \in Nat
         /\ DOMAIN orders \subseteq 1..MaxOrders
<1>1. Waiting(i) \subseteq Visitor /\ IsFiniteSet(Visitor)
  BY X402Assumption DEF Waiting
<1>2. DOMAIN orders \subseteq 1..MaxOrders
  BY PaywallTypes, X402Assumption DEF X402Inv
<1> QED BY <1>1, <1>2, Fewer

(* A run goes on without paying or recording.                              *)
LEMMA RunKept ==
  ASSUME IInv, NEW v \in Visitor, NEW r \in Run, run' = [run EXCEPT ![v] = r],
         UNCHANGED <<orders, pays, recorded>>,
         r.at \in {"decide", "sign", "pay", "poll", "asked"} => r.order \in DOMAIN orders,
         r.at \in {"poll", "asked"} =>
           run[v].at \in {"poll", "asked"} /\ r.order = run[v].order
  PROVE  RunType' /\ RunInv'
<1> USE DEF RunType
<1>1. X402Inv /\ RunType /\ RunInv
  BY Parts
<1>2. \A u \in Visitor : run'[u] = IF u = v THEN r ELSE run[u]
  BY <1>1
<1>3. ASSUME NEW i \in 1..MaxOrders
      PROVE  recorded[i] + Cardinality(Waiting(i)') <= pays[i]
  <2>1. Waiting(i)' \subseteq Waiting(i)
    BY <1>2 DEF Waiting
  <2>2. /\ Cardinality(Waiting(i)') \in Nat
        /\ Cardinality(Waiting(i)') <= Cardinality(Waiting(i))
    BY <1>1, <2>1, BuyerCounts, Fewer
  <2>3. recorded[i] + Cardinality(Waiting(i)) <= pays[i]
    BY <1>1 DEF RunInv
  <2>4. Cardinality(Waiting(i)) \in Nat /\ recorded[i] \in Nat /\ pays[i] \in Nat
    BY <1>1, BuyerCounts, A2AAssumption
  <2> QED
    BY <2>2, <2>3, <2>4
<1> QED
  BY <1>1, <1>2, <1>3 DEF RunInv

(* The content was paid for, as long as orders stay paid.                  *)
LEMMA ServedKept ==
  ASSUME IInv, X402Inv', RunType', RunInv',
         \A i \in DOMAIN orders : /\ i \in DOMAIN orders'
                                  /\ orders'[i].client = orders[i].client
                                  /\ orders[i].status = "paid" => orders'[i].status = "paid",
         \A u \in Visitor : get'[u].at = "content" =>
           \/ get[u].at = "content"
           \/ \E i \in DOMAIN orders : orders[i].client = From[u] /\ orders[i].status = "paid"
  PROVE  ServedWasPaid'
<1>1. \A u \in Visitor : get'[u].at = "content" =>
        \E i \in Of(From[u])' : orders'[i].status = "paid" /\ pays'[i] > 0
  <2> SUFFICES ASSUME NEW u \in Visitor, get'[u].at = "content"
               PROVE  \E i \in Of(From[u])' : orders'[i].status = "paid" /\ pays'[i] > 0
    OBVIOUS
  <2>1. PICK i \in DOMAIN orders : orders[i].client = From[u] /\ orders[i].status = "paid"
    BY DEF IInv, ServedWasPaid, Of
  <2>2. i \in DOMAIN orders' /\ orders'[i].client = From[u] /\ orders'[i].status = "paid"
    BY <2>1
  <2> QED
    BY <2>2 DEF Of, RunInv
<1>2. \A i \in 1..MaxOrders : recorded'[i] <= pays'[i]
  <2> SUFFICES ASSUME NEW i \in 1..MaxOrders PROVE recorded'[i] <= pays'[i]
    OBVIOUS
  <2>1. IsFiniteSet(Waiting(i)') /\ Cardinality(Waiting(i)') \in Nat
    <3>1. Waiting(i)' \subseteq Visitor /\ IsFiniteSet(Visitor)
      BY X402Assumption DEF Waiting
    <3> QED BY <3>1, Fewer
  <2>2. recorded'[i] + Cardinality(Waiting(i)') <= pays'[i]
    BY DEF RunInv
  <2>3. recorded'[i] \in Nat /\ pays'[i] \in Nat
    BY A2AAssumption DEF RunType
  <2> QED
    BY <2>1, <2>2, <2>3
<1> QED BY <1>1, <1>2 DEF ServedWasPaid

(* The steps of a run that ask or drop an answer, and those that do        *)
(* neither, seen from the paywall.                                         *)
LEMMA AskStep ==
  ASSUME IInv, NEW v \in Visitor,
         \/ Ask(v)
         \/ get' = [get EXCEPT ![v] = Nothing] /\ UNCHANGED <<orders, failures>>
         \/ UNCHANGED x402Vars
  PROVE  /\ X402Inv' /\ UNCHANGED orders
         /\ \A u \in Visitor : get'[u].at = "content" => get[u].at = "content"
<1>1. X402Inv
  BY Parts
<1>2. CASE Ask(v)
  <2>1. /\ [get[v] EXCEPT !.at = "look"] \in Get
        /\ [get[v] EXCEPT !.at = "look"].at = "look"
        /\ get' = [get EXCEPT ![v] = [get[v] EXCEPT !.at = "look"]]
        /\ UNCHANGED <<orders, failures>>
    BY <1>1, <1>2, PaywallTypes DEF X402Inv, Ask, Mark, Get
  <2> QED
    BY <1>1, <2>1, ShortStep DEF X402Inv, X402Type
<1>3. CASE get' = [get EXCEPT ![v] = Nothing] /\ UNCHANGED <<orders, failures>>
  <2>1. Nothing \in Get /\ Nothing.at = "idle"
    BY DEF Nothing, Get
  <2> QED
    BY <1>1, <1>3, <2>1, ShortStep DEF X402Inv, X402Type
<1>4. CASE UNCHANGED x402Vars
  BY <1>1, <1>4 DEF x402Vars, X402Inv, X402Type, CountInv, VisitorsOf, OpenOf, Open, Of,
     PastClient, PastResource
<1> QED BY <1>2, <1>3, <1>4

LEMMA OracleKept ==
  ASSUME IInv, UNCHANGED attesterVars
  PROVE  AttesterInv'
BY Parts DEF attesterVars, AttesterInv, AttesterType, MemoryInv, WindowInv, Within, SigningWithin

(* A run goes on, and the paywall and the oracle with it.                  *)
LEMMA GoOn ==
  ASSUME IInv, NEW v \in Visitor, NEW r \in Run, run' = [run EXCEPT ![v] = r],
         UNCHANGED <<pays, recorded>>, AttesterInv',
         \/ Ask(v)
         \/ get' = [get EXCEPT ![v] = Nothing] /\ UNCHANGED <<orders, failures>>
         \/ UNCHANGED x402Vars,
         r.at \in {"decide", "sign", "pay", "poll", "asked"} => r.order \in DOMAIN orders,
         r.at \in {"poll", "asked"} =>
           run[v].at \in {"poll", "asked"} /\ r.order = run[v].order
  PROVE  IInv'
<1>1. /\ X402Inv' /\ UNCHANGED orders
      /\ \A u \in Visitor : get'[u].at = "content" => get[u].at = "content"
  BY AskStep
<1>2. RunType' /\ RunInv'
  BY <1>1, RunKept
<1>3. ServedWasPaid'
  BY <1>1, <1>2, ServedKept
<1> QED BY <1>1, <1>2, <1>3, Parts, PTL

(* What a run turns into.                                                  *)
LEMMA Turns ==
  ASSUME IInv, NEW v \in Visitor,
         NEW at \in {"get", "decide", "sign", "pay", "poll", "asked"}
  PROVE  /\ Idle \in Run /\ Idle.at = "idle"
         /\ [run[v] EXCEPT !.at = at] \in Run
         /\ [run[v] EXCEPT !.at = at].at = at
         /\ [run[v] EXCEPT !.at = at].order = run[v].order
         /\ \A i \in 1..MaxOrders : /\ [at |-> at, order |-> i, start |-> 0] \in Run
                                    /\ [at |-> at, order |-> i, start |-> 0].at = at
                                    /\ [at |-> at, order |-> i, start |-> 0].order = i
         /\ run[v].at \in {"decide", "sign", "pay", "poll", "asked"} =>
              run[v].order \in DOMAIN orders
<1>1. Idle \in Run /\ Idle.at = "idle" /\ MaxOrders \in Nat /\ MaxTime \in Nat
  BY X402Assumption, A2AAssumption DEF Run, Idle
<1>2. run[v] \in Run
  BY DEF IInv, TypeOK
<1>3. /\ [run[v] EXCEPT !.at = at] \in Run
      /\ [run[v] EXCEPT !.at = at].at = at
      /\ [run[v] EXCEPT !.at = at].order = run[v].order
  BY <1>2 DEF Run
<1>4. ASSUME NEW i \in 1..MaxOrders
      PROVE  /\ [at |-> at, order |-> i, start |-> 0] \in Run
             /\ [at |-> at, order |-> i, start |-> 0].at = at
             /\ [at |-> at, order |-> i, start |-> 0].order = i
  BY <1>1 DEF Run
<1> QED BY <1>1, <1>3, <1>4 DEF IInv, RunInv

LEMMA StartStep ==
  ASSUME IInv, NEW v \in Visitor, Start(v)
  PROVE  IInv'
<1> DEFINE r == [run[v] EXCEPT !.at = "get"]
<1>1. run' = [run EXCEPT ![v] = r]
  BY DEF Start, Goto
<1>2. r \in Run /\ r.at = "get"
  BY Turns
<1>3. AttesterInv'
  BY OracleKept DEF Start
<1> HIDE DEF r
<1> QED BY <1>1, <1>2, <1>3, GoOn DEF Start

LEMMA AnsweredStep ==
  ASSUME IInv, NEW v \in Visitor, Answered(v)
  PROVE  IInv'
<1>1. CASE get[v].at = "quote"
  <2>1. get[v].order \in DOMAIN orders /\ get[v].order \in 1..MaxOrders
    BY <1>1, PaywallTypes, X402Assumption DEF IInv, TypeOK, X402Type
  <2> DEFINE r == [at |-> "decide", order |-> get[v].order, start |-> 0]
  <2>2. run' = [run EXCEPT ![v] = r]
    BY <1>1 DEF Answered
  <2>3. r \in Run /\ r.at = "decide" /\ r.order = get[v].order
    <3>1. /\ [at |-> "decide", order |-> get[v].order, start |-> 0] \in Run
          /\ [at |-> "decide", order |-> get[v].order, start |-> 0].at = "decide"
          /\ [at |-> "decide", order |-> get[v].order, start |-> 0].order = get[v].order
      BY <2>1, Turns
    <3> QED
      BY <3>1
  <2>4. AttesterInv'
    BY OracleKept DEF Answered
  <2> HIDE DEF r
  <2> QED
    BY <2>1, <2>2, <2>3, <2>4, GoOn DEF Answered
<1>2. CASE get[v].at # "quote"
  <2>1. run' = [run EXCEPT ![v] = Idle]
    BY <1>2 DEF Answered, Halt
  <2> QED
    BY <2>1, GoOn, Turns, OracleKept DEF Answered
<1> QED BY <1>1, <1>2

LEMMA DecideStep ==
  ASSUME IInv, NEW v \in Visitor, Decide(v)
  PROVE  IInv'
<1>1. CASE Check(v, Price) /\ Goto(v, "sign")
  <2>1. AttesterInv'
    BY <1>1, CheckStep, Parts
  <2> DEFINE r == [run[v] EXCEPT !.at = "sign"]
  <2>2. run' = [run EXCEPT ![v] = r]
    BY <1>1 DEF Goto
  <2>3. r \in Run /\ r.at = "sign" /\ r.order \in DOMAIN orders
    BY Turns DEF Decide
  <2> HIDE DEF r
  <2> QED
    BY <2>1, <2>2, <2>3, GoOn DEF Decide
<1>2. CASE Halt(v) /\ UNCHANGED attesterVars
  BY <1>2, GoOn, Turns, OracleKept DEF Decide, Halt
<1> QED BY <1>1, <1>2 DEF Decide

LEMMA AttestedStep ==
  ASSUME IInv, NEW v \in Visitor, Attested(v)
  PROVE  IInv'
<1>1. AttesterInv'
  BY SignStep, Parts DEF Attested
<1> DEFINE r == [run[v] EXCEPT !.at = "pay"]
<1>2. run' = [run EXCEPT ![v] = r]
  BY DEF Attested, Goto
<1>3. r \in Run /\ r.at = "pay" /\ r.order \in DOMAIN orders
  BY Turns DEF Attested
<1> HIDE DEF r
<1> QED BY <1>1, <1>2, <1>3, GoOn DEF Attested

LEMMA PollStep ==
  ASSUME IInv, NEW v \in Visitor, Poll(v)
  PROVE  IInv'
<1> DEFINE r == [run[v] EXCEPT !.at = "asked"]
<1>1. run' = [run EXCEPT ![v] = r]
  BY DEF Poll, Goto
<1>2. /\ r \in Run /\ r.at = "asked"
      /\ r.order = run[v].order /\ r.order \in DOMAIN orders /\ run[v].at = "poll"
  BY Turns DEF Poll
<1>3. AttesterInv'
  BY OracleKept DEF Poll
<1> HIDE DEF r
<1> QED BY <1>1, <1>2, <1>3, GoOn DEF Poll

LEMMA DropStep ==
  ASSUME IInv, NEW v \in Visitor, Drop(v)
  PROVE  IInv'
<1>1. /\ X402Inv' /\ UNCHANGED orders
      /\ \A u \in Visitor : get'[u].at = "content" => get[u].at = "content"
  BY AskStep DEF Drop
<1>2. RunType' /\ RunInv'
  BY <1>1, Parts DEF Drop, runVars, RunType, RunInv, Waiting
<1>3. ServedWasPaid'
  BY <1>1, <1>2, ServedKept
<1>4. AttesterInv'
  BY OracleKept DEF Drop
<1> QED BY <1>1, <1>2, <1>3, <1>4, Parts, PTL

(* A payment is one more on the ledger, and at most one more to wait for.  *)
LEMMA PayStep ==
  ASSUME IInv, NEW v \in Visitor, Pay(v)
  PROVE  IInv'
<1> DEFINE i == run[v].order
<1>1. CASE Halt(v) /\ UNCHANGED pays
  BY <1>1, GoOn, Turns, OracleKept DEF Pay, Halt
<1>2. CASE pays[i] < MaxPays /\ pays' = [pays EXCEPT ![i] = @ + 1]
  <2>1. X402Inv /\ AttesterInv /\ RunType /\ RunInv /\ ServedWasPaid
    BY Parts
  <2>2. i \in DOMAIN orders /\ i \in 1..MaxOrders /\ run[v].at = "pay"
    BY <2>1, BuyerCounts, Turns DEF Pay
  <2>3. /\ X402Inv' /\ UNCHANGED orders
        /\ \A u \in Visitor : get'[u].at = "content" => get[u].at = "content"
    BY AskStep DEF Pay
  <2>4. PICK r \in Run : /\ run' = [run EXCEPT ![v] = r] /\ r.order \in {0, i}
                         /\ r.at \in {"poll", "idle"} /\ (r.at = "poll" => r.order = i)
    <3>1. CASE run' = [run EXCEPT ![v] = [run[v] EXCEPT !.at = "poll", !.start = now]]
      <4>1. now \in 0..MaxTime /\ run[v] \in Run
        BY <2>1 DEF AttesterInv, AttesterType, RunType
      <4>2. LET r == [run[v] EXCEPT !.at = "poll", !.start = now] IN
              r \in Run /\ r.at = "poll" /\ r.order = i
        BY <4>1 DEF Run
      <4> QED
        BY <3>1, <4>2
    <3>2. CASE run' = [run EXCEPT ![v] = Idle]
      BY <3>2, Turns DEF Idle
    <3>3. ~(UNCHANGED pays)
      BY <1>2, <2>1, <2>2, A2AAssumption DEF RunType
    <3> QED
      BY <3>1, <3>2, <3>3 DEF Pay, Halt
  <2>5. \A u \in Visitor : run'[u] = IF u = v THEN r ELSE run[u]
    BY <2>1, <2>4 DEF RunType
  <2>6. RunType'
    BY <1>2, <2>1, <2>2, <2>4, A2AAssumption DEF Pay, RunType
  <2>7. RunInv'
    <3>1. ASSUME NEW j \in 1..MaxOrders
          PROVE  recorded'[j] + Cardinality(Waiting(j)') <= pays'[j]
      <4>1. /\ recorded[j] + Cardinality(Waiting(j)) <= pays[j]
            /\ Cardinality(Waiting(j)) \in Nat /\ IsFiniteSet(Waiting(j))
            /\ recorded[j] \in Nat /\ pays[j] \in Nat /\ recorded' = recorded
        BY <2>1, BuyerCounts, A2AAssumption DEF RunInv, RunType, Pay
      <4>2. CASE j = i
        <5>1. Waiting(j)' \subseteq Waiting(j) \cup {v} /\ pays'[j] = pays[j] + 1
          BY <1>2, <2>1, <2>2, <2>5, <4>2 DEF Waiting, RunType
        <5>2. /\ Cardinality(Waiting(j)') \in Nat
              /\ Cardinality(Waiting(j)') <= Cardinality(Waiting(j)) + 1
          BY <4>1, <5>1, OneMore
        <5> QED
          BY <4>1, <5>1, <5>2
      <4>3. CASE j # i
        <5>1. Waiting(j)' \subseteq Waiting(j) /\ pays'[j] = pays[j]
          BY <1>2, <2>1, <2>4, <2>5, <4>3 DEF Waiting, RunType
        <5>2. /\ Cardinality(Waiting(j)') \in Nat
              /\ Cardinality(Waiting(j)') <= Cardinality(Waiting(j))
          BY <4>1, <5>1, Fewer
        <5> QED
          BY <4>1, <5>1, <5>2
      <4> QED
        BY <4>2, <4>3
    <3>2. \A j \in DOMAIN orders : orders[j].status = "paid" => pays'[j] > 0
      <4>1. \A j \in DOMAIN orders : j \in 1..MaxOrders
        BY <2>1, BuyerCounts
      <4> QED
        BY <1>2, <2>1, <2>2, <4>1, A2AAssumption DEF RunInv, RunType
    <3> QED
      BY <2>1, <2>2, <2>3, <2>4, <2>5, <3>1, <3>2 DEF RunInv
  <2>8. ServedWasPaid'
    BY <2>3, <2>6, <2>7, ServedKept
  <2>9. AttesterInv'
    BY OracleKept DEF Pay
  <2> QED
    BY <2>3, <2>6, <2>7, <2>8, <2>9, Parts, PTL
<1> QED BY <1>1, <1>2 DEF Pay

(* A record takes the place of the run that waited.                        *)
LEMMA FinishStep ==
  ASSUME IInv, NEW v \in Visitor, run[v].at \in {"poll", "asked"}, Finish(v),
         UNCHANGED <<attesterVars, pays>>,
         \/ get' = [get EXCEPT ![v] = Nothing] /\ UNCHANGED <<orders, failures>>
         \/ UNCHANGED x402Vars
  PROVE  IInv'
<1> DEFINE i == run[v].order
<1>1. X402Inv /\ AttesterInv /\ RunType /\ RunInv /\ ServedWasPaid
  BY Parts
<1>2. i \in DOMAIN orders /\ i \in 1..MaxOrders
  BY <1>1, BuyerCounts, Turns
<1>3. /\ X402Inv' /\ UNCHANGED orders
      /\ \A u \in Visitor : get'[u].at = "content" => get[u].at = "content"
  BY AskStep
<1>4. /\ run' = [run EXCEPT ![v] = Idle] /\ Idle \in Run /\ Idle.at = "idle"
      /\ recorded' = [recorded EXCEPT ![i] = @ + 1]
  BY Turns DEF Finish, Halt
<1>5. \A u \in Visitor : run'[u] = IF u = v THEN Idle ELSE run[u]
  BY <1>1, <1>4 DEF RunType
<1>6. RunType'
  BY <1>1, <1>2, <1>4 DEF RunType
<1>7. RunInv'
  <2>1. ASSUME NEW j \in 1..MaxOrders
        PROVE  recorded'[j] + Cardinality(Waiting(j)') <= pays[j]
    <3>1. /\ recorded[j] + Cardinality(Waiting(j)) <= pays[j]
          /\ Cardinality(Waiting(j)) \in Nat /\ IsFiniteSet(Waiting(j))
          /\ recorded[j] \in Nat /\ pays[j] \in Nat
      <4>1. Cardinality(Waiting(j)) \in Nat /\ IsFiniteSet(Waiting(j))
        BY <1>1, BuyerCounts
      <4>2. recorded[j] + Cardinality(Waiting(j)) <= pays[j]
        BY <1>1 DEF RunInv
      <4> QED
        BY <1>1, <4>1, <4>2, A2AAssumption DEF RunType
    <3>2. CASE j = i
      <4>1. /\ v \in Waiting(j) /\ Waiting(j)' \subseteq Waiting(j) \ {v}
            /\ recorded'[j] = recorded[j] + 1
        BY <1>1, <1>4, <1>5, <3>2 DEF Waiting, RunType
      <4>2. /\ Cardinality(Waiting(j)') \in Nat
            /\ Cardinality(Waiting(j)') + 1 <= Cardinality(Waiting(j))
        BY <3>1, <4>1, OneLess
      <4> QED
        BY <3>1, <4>1, <4>2
    <3>3. CASE j # i
      <4>1. Waiting(j)' \subseteq Waiting(j) /\ recorded'[j] = recorded[j]
        BY <1>1, <1>4, <1>5, <3>3 DEF Waiting, RunType
      <4>2. /\ Cardinality(Waiting(j)') \in Nat
            /\ Cardinality(Waiting(j)') <= Cardinality(Waiting(j))
        BY <3>1, <4>1, Fewer
      <4> QED
        BY <3>1, <4>1, <4>2
    <3> QED
      BY <3>2, <3>3
  <2> QED
    BY <1>1, <1>3, <1>4, <1>5, <2>1 DEF RunInv
<1>8. ServedWasPaid'
  BY <1>3, <1>6, <1>7, ServedKept
<1>9. AttesterInv'
  BY OracleKept
<1> QED BY <1>3, <1>6, <1>7, <1>8, <1>9, Parts, PTL

LEMMA PollAnsweredStep ==
  ASSUME IInv, NEW v \in Visitor, PollAnswered(v)
  PROVE  IInv'
<1>1. CASE Finish(v)
  BY <1>1, FinishStep DEF PollAnswered
<1>2. CASE Goto(v, "poll") /\ UNCHANGED recorded
  <2> DEFINE r == [run[v] EXCEPT !.at = "poll"]
  <2>1. run' = [run EXCEPT ![v] = r]
    BY <1>2 DEF Goto
  <2>2. /\ r \in Run /\ r.at = "poll"
        /\ r.order = run[v].order /\ r.order \in DOMAIN orders /\ run[v].at = "asked"
    BY Turns DEF PollAnswered
  <2>3. AttesterInv'
    BY OracleKept DEF PollAnswered
  <2> HIDE DEF r
  <2> QED
    BY <1>2, <2>1, <2>2, <2>3, GoOn DEF PollAnswered
<1> QED BY <1>1, <1>2 DEF PollAnswered

LEMMA ThrowStep ==
  ASSUME IInv, NEW v \in Visitor, Throw(v)
  PROVE  IInv'
BY GoOn, Turns, OracleKept DEF Throw, Halt

LEMMA GiveUpStep ==
  ASSUME IInv, NEW v \in Visitor, GiveUp(v)
  PROVE  IInv'
BY FinishStep DEF GiveUp

LEMMA ServeStep ==
  ASSUME IInv, NEW v \in Visitor, Serve(v)
  PROVE  IInv'
<1>1. X402Inv /\ AttesterInv /\ RunType /\ RunInv /\ ServedWasPaid
  BY Parts
<1>2. X402Inv'
  BY <1>1, HandleStep DEF Serve
<1>3. AttesterInv'
  BY OracleKept DEF Serve
<1>4. /\ \A i \in DOMAIN orders : i \in DOMAIN orders' /\ orders'[i] = orders[i]
      /\ \A i \in DOMAIN orders' \ DOMAIN orders : orders'[i].status = "pending"
      /\ \A u \in Visitor : get'[u].at = "content" =>
           \/ get[u].at = "content"
           \/ \E i \in DOMAIN orders : orders[i].client = From[u] /\ orders[i].status = "paid"
  BY <1>1, HandleOrders DEF Serve
<1>5. RunType' /\ RunInv'
  <2>1. UNCHANGED <<run, pays, recorded>>
    BY DEF Serve, runVars
  <2>2. \A i \in DOMAIN orders' : orders'[i].status = "paid" => pays[i] > 0
    BY <1>1, <1>4 DEF RunInv
  <2>3. \A u \in Visitor : run[u].at \in {"decide", "sign", "pay", "poll", "asked"} =>
          run[u].order \in DOMAIN orders'
    BY <1>1, <1>4 DEF RunInv
  <2> QED
    BY <1>1, <2>1, <2>2, <2>3 DEF RunType, RunInv, Waiting
<1>6. ServedWasPaid'
  BY <1>2, <1>4, <1>5, ServedKept
<1> QED BY <1>2, <1>3, <1>5, <1>6, Parts, PTL

(* What becomes of an order.                                               *)
LEMMA OrderStep ==
  ASSUME IInv, NEW i \in DOMAIN orders, Lapse(i) \/ Close(i) \/ SettlePaid(i),
         UNCHANGED <<attesterVars, runVars>>
  PROVE  IInv'
<1>1. X402Inv /\ AttesterInv /\ RunType /\ RunInv /\ ServedWasPaid
  BY Parts
<1>2. X402Inv'
  BY <1>1, BecomeStep DEF Lapse, Close, SettlePaid, Settle
<1>3. AttesterInv'
  BY OracleKept
<1>4. PICK status \in {"overdue", "closed", "paid"} :
        /\ orders' = [orders EXCEPT ![i].status = status]
        /\ orders[i].status \in {"pending", "overdue"}
        /\ status = "paid" => pays[i] > 0
        /\ UNCHANGED get
  BY DEF Lapse, Close, SettlePaid, Settle, Become
<1>5. /\ DOMAIN orders' = DOMAIN orders
      /\ \A j \in DOMAIN orders : j # i => orders'[j] = orders[j]
      /\ orders'[i].client = orders[i].client /\ orders'[i].status = status
  BY <1>1, <1>4, PaywallTypes DEF X402Inv, X402Type, OrderRow
<1>6. RunType' /\ RunInv'
  <2>1. UNCHANGED <<run, pays, recorded>>
    BY DEF runVars
  <2>2. \A j \in DOMAIN orders' : orders'[j].status = "paid" => pays[j] > 0
    BY <1>1, <1>4, <1>5 DEF RunInv
  <2> QED
    BY <1>1, <1>5, <2>1, <2>2 DEF RunType, RunInv, Waiting
<1>7. ServedWasPaid'
  <2>1. \A j \in DOMAIN orders : /\ j \in DOMAIN orders'
                                 /\ orders'[j].client = orders[j].client
                                 /\ orders[j].status = "paid" => orders'[j].status = "paid"
    BY <1>4, <1>5
  <2> QED
    BY <1>2, <1>4, <1>6, <2>1, ServedKept
<1> QED BY <1>2, <1>3, <1>6, <1>7, Parts, PTL

LEMMA CrashStep ==
  ASSUME IInv, Crash
  PROVE  IInv'
<1>1. X402Inv /\ AttesterInv /\ RunType /\ RunInv /\ ServedWasPaid
  BY Parts
<1>2. UNCHANGED <<orders, get, failures, pays, recorded>> /\ run' = [v \in Visitor |-> Idle]
  BY DEF Crash, x402Vars
<1>3. X402Inv'
  BY <1>1, <1>2 DEF X402Inv, X402Type, CountInv, VisitorsOf, OpenOf, Open, Of,
     PastClient, PastResource
<1>4. AttesterInv'
  BY <1>1, RestartStep DEF Crash
<1>5. Idle \in Run /\ Idle.at = "idle"
  BY X402Assumption, A2AAssumption DEF Run, Idle
<1>6. RunType' /\ RunInv'
  <2>1. \A i \in 1..MaxOrders : Waiting(i)' = {}
    BY <1>2, <1>5 DEF Waiting
  <2>2. \A i \in 1..MaxOrders : recorded[i] + Cardinality({}) <= pays[i]
    <3>1. Cardinality({}) = 0
      BY FS_EmptySet
    <3>2. \A i \in 1..MaxOrders : /\ recorded[i] <= pays[i]
                                  /\ recorded[i] \in Nat /\ pays[i] \in Nat
      BY <1>1, A2AAssumption DEF ServedWasPaid, RunType
    <3> QED
      BY <3>1, <3>2
  <2> QED
    BY <1>1, <1>2, <1>5, <2>1, <2>2 DEF RunType, RunInv
<1>7. ServedWasPaid'
  BY <1>2, <1>3, <1>6, ServedKept
<1> QED BY <1>3, <1>4, <1>6, <1>7, Parts, PTL

LEMMA ClockStep ==
  ASSUME IInv, Tick, UNCHANGED <<x402Vars, runVars>>
  PROVE  IInv'
<1>1. X402Inv /\ AttesterInv /\ RunType /\ RunInv /\ ServedWasPaid
  BY Parts
<1>2. AttesterInv'
  BY <1>1, TickStep
<1>3. X402Inv'
  BY <1>1 DEF x402Vars, X402Inv, X402Type, CountInv, VisitorsOf, OpenOf, Open, Of,
     PastClient, PastResource
<1>4. RunType' /\ RunInv' /\ ServedWasPaid'
  BY <1>1 DEF x402Vars, runVars, RunType, RunInv, Waiting, ServedWasPaid, Of
<1> QED BY <1>2, <1>3, <1>4, Parts, PTL

-----------------------------------------------------------------------------
LEMMA InitInv == Init => IInv
<1> SUFFICES ASSUME Init PROVE IInv
  OBVIOUS
<1>1. X402Inv
  <2>1. X402Type
    BY X402Assumption DEF Init, X402Init, X402Type, Nothing, Get
  <2>2. /\ Open = {} /\ PastResource = {} /\ Cardinality({}) = 0
        /\ \A c \in Client : OpenOf(c) = {} /\ PastClient(c) = {}
    BY FS_EmptySet DEF Init, X402Init, Open, OpenOf, Of, PastResource, PastClient, Nothing
  <2>3. failures = 0
    BY DEF Init, X402Init
  <2>4. Cardinality(Visitor) \in Nat /\ \A c \in Client : Cardinality(VisitorsOf(c)) \in Nat
    BY <2>1, PaywallCounts, FS_CardinalityType, X402Assumption
  <2> QED
    <3>1. ASSUME NEW c \in Client, VisitorsOf(c) # {}
          PROVE  0 + 0 < MAX_PENDING_PER_CLIENT_RESOURCE + Cardinality(VisitorsOf(c)) + 0
      BY <2>4, X402Assumption
    <3>2. 0 + 0 < MAX_PENDING_PER_RESOURCE + Cardinality(Visitor) + 0
      BY <2>4, X402Assumption
    <3> QED
      BY <2>1, <2>2, <2>3, <3>1, <3>2 DEF X402Inv, CountInv
<1>2. AttesterInv
  <2>1. Fresh
    BY A2AAssumption DEF Init, AttesterInit, Fresh
  <2> QED
    BY <2>1, FreshInv
<1>3. RunType
  BY X402Assumption, A2AAssumption DEF Init, RunType, Run, Idle
<1>4. RunInv
  <2>1. \A i \in 1..MaxOrders : Waiting(i) = {} /\ recorded[i] = 0 /\ pays[i] = 0
    BY DEF Init, Waiting, Idle
  <2>2. Cardinality({}) = 0 /\ DOMAIN orders = {}
    BY FS_EmptySet DEF Init, X402Init
  <2>3. \A i \in 1..MaxOrders : recorded[i] + Cardinality(Waiting(i)) <= pays[i]
    <3> SUFFICES ASSUME NEW i \in 1..MaxOrders
                 PROVE  recorded[i] + Cardinality(Waiting(i)) <= pays[i]
      OBVIOUS
    <3>1. Cardinality(Waiting(i)) = 0 /\ recorded[i] = 0 /\ pays[i] = 0
      BY <2>1, <2>2
    <3> QED
      BY <3>1
  <2>4. \A v \in Visitor : run[v].at = "idle"
    BY DEF Init, Idle
  <2> QED
    BY <2>2, <2>3, <2>4 DEF RunInv
<1>5. ServedWasPaid
  BY DEF Init, X402Init, ServedWasPaid, Nothing
<1> QED BY <1>1, <1>2, <1>3, <1>4, <1>5, Parts

LEMMA StepInv == IInv /\ [Next]_vars => IInv'
<1> SUFFICES ASSUME IInv, [Next]_vars PROVE IInv'
  OBVIOUS
<1>1. CASE UNCHANGED vars
  <2>1. X402Inv' /\ AttesterInv'
    BY <1>1, OracleKept, Parts DEF vars, x402Vars, X402Inv, X402Type, CountInv, VisitorsOf,
       OpenOf, Open, Of, PastClient, PastResource
  <2>2. RunType' /\ RunInv' /\ ServedWasPaid'
    BY <1>1, Parts DEF vars, x402Vars, runVars, RunType, RunInv, Waiting, ServedWasPaid, Of
  <2> QED
    BY <2>1, <2>2, Parts, PTL
<1>2. CASE Next
  BY <1>2, StartStep, AnsweredStep, DecideStep, AttestedStep, PayStep, PollStep,
     PollAnsweredStep, ThrowStep, GiveUpStep, ServeStep, DropStep, OrderStep, CrashStep, ClockStep
     DEF Next, Advance
<1> QED BY <1>1, <1>2

(* The inductive invariant holds.                                          *)
THEOREM Invariant == Spec => []IInv
BY InitInv, StepInv, PTL DEF Spec

(* The state of the paywall, the oracle and the runs stays well typed.     *)
THEOREM TypeCorrect == Spec => []TypeOK
<1>1. IInv => TypeOK  BY DEF IInv
<1> QED BY <1>1, Invariant, PTL

(* The content is served only to payers, and no payment is recorded twice. *)
THEOREM ServedWasPaidHolds == Spec => []ServedWasPaid
<1>1. IInv => ServedWasPaid  BY DEF IInv
<1> QED BY <1>1, Invariant, PTL

(* Open orders pass the caps by the other requests under way and by the    *)
(* failed queries at most.                                                 *)
THEOREM OpenIsBoundedHolds == Spec => []OpenIsBounded
<1>1. IInv => OpenIsBounded
  <2> SUFFICES ASSUME IInv PROVE OpenIsBounded
    OBVIOUS
  <2>1. X402Type /\ CountInv /\ failures \in Nat
    BY PaywallTypes DEF IInv, TypeOK
  <2>2. ASSUME NEW c \in Client, VisitorsOf(c) # {}
        PROVE  Cardinality(OpenOf(c)) <=
                 MAX_PENDING_PER_CLIENT_RESOURCE + Cardinality(VisitorsOf(c)) - 1 + failures
    <3>1. /\ Cardinality(OpenOf(c)) \in Nat /\ Cardinality(PastClient(c)) \in Nat
          /\ Cardinality(VisitorsOf(c)) \in Nat
      BY <2>1, PaywallCounts
    <3> QED
      BY <2>1, <2>2, <3>1, X402Assumption DEF CountInv
  <2>3. ASSUME Visitor # {}
        PROVE  Cardinality(Open) <=
                 MAX_PENDING_PER_RESOURCE + Cardinality(Visitor) - 1 + failures
    <3>1. /\ Cardinality(Open) \in Nat /\ Cardinality(PastResource) \in Nat
          /\ Cardinality(Visitor) \in Nat
      BY <2>1, PaywallCounts
    <3> QED
      BY <2>1, <2>3, <3>1, X402Assumption DEF CountInv
  <2> QED
    BY <2>2, <2>3 DEF OpenIsBounded
<1> QED BY <1>1, Invariant, PTL

(* A process attests no more in a window than the surface's limit and the  *)
(* other calls under way.                                                  *)
THEOREM AttestedInWindowHolds == Spec => []AttestedInWindow
<1>1. IInv => AttestedInWindow
  <2> SUFFICES ASSUME IInv, max_per_window # 0, window_seconds <= Keep, NEW t \in 0..MaxTime
               PROVE  Cardinality(Within(attested, t, window_seconds))
                        <= max_per_window + Cardinality(Visitor) - 1
    BY DEF AttestedInWindow
  <2>1. AttesterInv
    BY Parts
  <2>2. /\ Cardinality(Within(attested, t, window_seconds)) \in Nat
        /\ Cardinality(SigningWithin(t)) \in Nat /\ Cardinality(Visitor) \in Nat
    BY <2>1, AttesterCounts
  <2> QED
    BY <2>1, <2>2, A2AAssumption DEF AttesterInv, WindowInv
<1> QED BY <1>1, Invariant, PTL

-----------------------------------------------------------------------------
(* A lookup that finds a client's newest order paid leads to the content.  *)
LEMMA PaidStays ==
  ASSUME IInv, [Next]_vars, NEW c \in Client,
         PaidNewest(c), ~Minting(c), failures' = failures
  PROVE  PaidNewest(c)' /\ ~Minting(c)'
<1> DEFINE Busy == {"client", "resource", "insert"}
<1>1. X402Inv
  BY Parts
<1>2. PICK n \in DOMAIN orders :
        /\ orders[n].client = c /\ orders[n].status = "paid"
        /\ \A j \in DOMAIN orders : orders[j].client = c => j <= n
  BY DEF PaidNewest, IsNewest, Of
<1>3. DOMAIN orders = 1..Len(orders) /\ Len(orders) \in Nat
  BY <1>1, PaywallTypes, X402Assumption DEF X402Inv
<1>4. ASSUME NEW v \in Visitor, NEW g, get' = [get EXCEPT ![v] = g], g.at \notin Busy,
             UNCHANGED orders
      PROVE  PaidNewest(c)' /\ ~Minting(c)'
  BY <1>1, <1>4 DEF PaidNewest, IsNewest, Of, Minting, X402Inv, X402Type
<1>5. CASE UNCHANGED <<orders, get>>
  BY <1>5 DEF PaidNewest, IsNewest, Of, Minting
<1>6. ASSUME NEW v \in Visitor, Ask(v)
      PROVE  PaidNewest(c)' /\ ~Minting(c)'
  <2>1. [get[v] EXCEPT !.at = "look"].at = "look"
    BY <1>1, PaywallTypes DEF X402Inv, Get
  <2>2. get' = [get EXCEPT ![v] = [get[v] EXCEPT !.at = "look"]] /\ UNCHANGED orders
    BY <1>6 DEF Ask, Mark
  <2> QED
    BY <1>4, <2>1, <2>2
<1>7. ASSUME NEW v \in Visitor, get' = [get EXCEPT ![v] = Nothing], UNCHANGED orders
      PROVE  PaidNewest(c)' /\ ~Minting(c)'
  BY <1>4, <1>7 DEF Nothing
<1>8. ASSUME NEW v \in Visitor, Handle(v)
      PROVE  PaidNewest(c)' /\ ~Minting(c)'
  <2>1. CASE From[v] = c
    <3>1. Look(v)
      <4>1. get[v].at \notin Busy /\ failures \in Nat
        BY <1>1, <2>1, PaywallTypes DEF Minting, X402Inv
      <4> QED
        BY <1>8, <4>1 DEF Handle, CountClient, CountResource, QueryFails, Mint
    <3>2. \A i \in Of(c) : IsNewest(i, c) => i = n
      BY <1>2, <1>3 DEF IsNewest, Of
    <3>3. UNCHANGED orders /\ (Mark(v, "content") \/ \E i \in DOMAIN orders : Quote(v, i))
      BY <1>2, <2>1, <3>1, <3>2 DEF Look, Of
    <3>4. /\ [get[v] EXCEPT !.at = "content"].at = "content"
          /\ \A i \in DOMAIN orders : [at |-> "quote", order |-> i].at = "quote"
      BY <1>1, PaywallTypes DEF X402Inv, Get
    <3> QED
      BY <1>4, <3>3, <3>4 DEF Mark, Quote
  <2>2. CASE From[v] # c
    <3>1. /\ \A i \in DOMAIN orders : i \in DOMAIN orders' /\ orders'[i] = orders[i]
          /\ \A i \in DOMAIN orders' \ DOMAIN orders : orders'[i].client = From[v]
          /\ \A u \in Visitor \ {v} : get'[u] = get[u]
      BY <1>1, <1>8, HandleOrders
    <3>2. PaidNewest(c)'
      BY <1>2, <2>2, <3>1 DEF PaidNewest, IsNewest, Of
    <3>3. ~Minting(c)'
      BY <2>2, <3>1 DEF Minting
    <3> QED
      BY <3>2, <3>3
  <2> QED
    BY <2>1, <2>2
<1>9. ASSUME NEW i \in DOMAIN orders, Lapse(i) \/ Close(i) \/ SettlePaid(i)
      PROVE  PaidNewest(c)' /\ ~Minting(c)'
  <2>1. PICK status : /\ orders' = [orders EXCEPT ![i].status = status]
                      /\ orders[i].status \in {"pending", "overdue"} /\ UNCHANGED get
    BY <1>9 DEF Lapse, Close, SettlePaid, Settle, Become
  <2>2. /\ DOMAIN orders' = DOMAIN orders /\ orders'[n] = orders[n]
        /\ \A j \in DOMAIN orders : orders'[j].client = orders[j].client
    BY <1>1, <1>2, <2>1, PaywallTypes DEF X402Inv, X402Type, OrderRow
  <2> QED
    BY <1>2, <2>1, <2>2 DEF PaidNewest, IsNewest, Of, Minting
<1>10. CASE UNCHANGED vars
  BY <1>5, <1>10 DEF vars, x402Vars
<1>11. CASE Next
  BY <1>5, <1>6, <1>7, <1>8, <1>9, <1>11
     DEF Next, Advance, Start, Answered, Decide, Attested, Pay, Poll, PollAnswered, Throw, GiveUp,
         Serve, Drop, Crash, x402Vars
<1> QED BY <1>10, <1>11

(* What a client has paid for last stays open to it.                       *)
THEOREM PaidStaysOpenHolds == Spec => PaidStaysOpen
<1>1. IInv /\ [Next]_vars =>
        [\A c \in Client :
           PaidNewest(c) /\ ~Minting(c) /\ failures' = failures
             => PaidNewest(c)' /\ ~Minting(c)']_vars
  BY PaidStays
<1> QED BY <1>1, Invariant, PTL DEF Spec, PaidStaysOpen
=============================================================================
