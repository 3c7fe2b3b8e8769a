---------------------------- MODULE Stores_proofs ----------------------------
(***************************************************************************)
(* What the store connector and the webhook worker promise each other, for *)
(* any number of orders, pods, connector handlers, retries and failures:   *)
(* StoreInv is inductive.  One lemma per action; under it, one step for each   *)
(* part of StoreInv that the action can disturb.                               *)
(***************************************************************************)
EXTENDS Stores, FiniteSetTheorems, TLAPS

LEMMA EmptyDoing == Idle \in Doing /\ DOMAIN Idle.batch = {}
<1>1. [d \in {} |-> None] \in [{} -> Read]
  OBVIOUS
<1>2. {} \in SUBSET Row
  OBVIOUS
<1> QED
  BY <1>1, <1>2 DEF Idle, Doing

LEMMA BatchRows == TypeOK => \A w \in Worker : DOMAIN worker[w].batch \subseteq Row
BY DEF TypeOK, DeliveryType, Doing

LEMMA StillDoing ==
  ASSUME NEW s \in Doing, NEW a \in {"idle", "rows", "posting", "sent", "failed"}
  PROVE  /\ [s EXCEPT !.at = a] \in Doing
         /\ \A d \in Row : [s EXCEPT !.at = a, !.current = d] \in Doing
BY DEF Doing

(* Leaving a row behind leaves a well-typed pod that awaits nothing.       *)
LEMMA WithoutDoing ==
  ASSUME TypeOK, NEW w \in Worker, NEW d
  PROVE  /\ Without(w, d) \in Doing
         /\ DOMAIN Without(w, d).batch \subseteq DOMAIN worker[w].batch
         /\ Without(w, d).at \in {"idle", "rows"}
<1> DEFINE rest == DOMAIN worker[w].batch \ {d}
<1>1. rest \subseteq Row /\ \A e \in rest : worker[w].batch[e] \in Read
  BY DEF TypeOK, DeliveryType, Doing
<1>2. CASE rest = {}
  <2>1. Without(w, d) = Idle
    BY <1>2 DEF Without
  <2> QED
    BY <2>1, EmptyDoing DEF Idle
<1>3. CASE rest # {}
  <2>1. [e \in rest |-> worker[w].batch[e]] \in [rest -> Read]
    BY <1>1
  <2> QED
    BY <1>1, <1>3, <2>1 DEF Without, Doing
<1> QED BY <1>2, <1>3

LEMMA StoreInit == Init => StoreInv
<1> SUFFICES ASSUME Init PROVE StoreInv
  OBVIOUS
<1>1. TypeOK
  <2>1. [status |-> "none", attempt |-> 0, due |-> TRUE] \in RowState
    BY DeliveryAssumption DEF RowState
  <2>2. DeliveryType
    BY <2>1, EmptyDoing, DeliveryAssumption DEF Init, DeliveryInit, DeliveryType
  <2> QED
    BY <2>2 DEF Init, TypeOK
<1>2. DeliveryInv
  BY DeliveryAssumption DEF Init, DeliveryInit, DeliveryInv, Idle
<1> QED
  BY <1>1, <1>2 DEF Init, DeliveryInit, StoreInv, OrderInv, EntryInv, JobInv, AnswerInv, Idle,
     SentWasTried, MarkedWasPaid

LEMMA OrdersCreateStep ==
  ASSUME StoreInv, NEW h \in Hook, NEW x \in ShopOrder, NEW o \in Row, OrdersCreate(h, x, o)
  PROVE  StoreInv'
<1>1. TypeOK'
  BY DeliveryAssumption, StoresAssumption DEF OrdersCreate, RowState, store,
     deliveryVars, TypeOK, DeliveryType, DeliveryInv, OrderInv, EntryInv, JobInv, Doing,
     Read, Entry, Job, StoreInv
<1>2. OrderInv'
  BY DeliveryAssumption, StoresAssumption DEF OrdersCreate, RowState, store,
     deliveryVars, TypeOK, DeliveryType, DeliveryInv, OrderInv, JobInv, StoreInv
<1>3. EntryInv'
  BY DeliveryAssumption, StoresAssumption DEF OrdersCreate, store, deliveryVars, TypeOK,
     EntryInv, OrderInv, JobInv, Entry, StoreInv
<1>4. JobInv'
  BY DeliveryAssumption, StoresAssumption DEF OrdersCreate, store, deliveryVars, TypeOK,
     DeliveryType, DeliveryInv, OrderInv, EntryInv, JobInv, Doing, Entry, Job, StoreInv
<1>5. AnswerInv'
  BY DeliveryAssumption, StoresAssumption DEF OrdersCreate, store, deliveryVars, TypeOK,
     DeliveryType, DeliveryInv, OrderInv, EntryInv, JobInv, AnswerInv, Doing, StoreInv
<1>6. SentWasTried'
  BY DeliveryAssumption, StoresAssumption DEF OrdersCreate, store, deliveryVars, TypeOK,
     DeliveryType, DeliveryInv, OrderInv, AnswerInv, SentWasTried, StoreInv
<1>7. MarkedWasPaid'
  BY DeliveryAssumption, StoresAssumption DEF OrdersCreate, store, deliveryVars, TypeOK,
     OrderInv, EntryInv, JobInv, MarkedWasPaid, Entry, StoreInv
<1>8. DeliveryInv'
  BY DEF OrdersCreate, store, deliveryVars, StoreInv, DeliveryInv
<1> QED BY <1>1, <1>2, <1>3, <1>4, <1>5, <1>6, <1>7, <1>8 DEF StoreInv

LEMMA OrderRecordedStep ==
  ASSUME StoreInv, NEW h \in Hook, OrderRecorded(h)
  PROVE  StoreInv'
<1>1. /\ creating[h] \in Row
      /\ LET o == creating[h]
             x == order[o].ref
             e == [order |-> o, status |-> "pending"] IN
           /\ x \in ShopOrder /\ e \in Entry /\ e # None
           /\ entry' = [entry EXCEPT ![x] = e]
           /\ creating' = [creating EXCEPT ![h] = None]
  BY StoresAssumption, DeliveryAssumption DEF OrderRecorded, StoreInv, TypeOK, OrderInv, Entry
<1>2. UNCHANGED <<deliveryVars, order, shown, jobs, marked, tried, redacted>>
  BY DEF OrderRecorded
<1>3. TypeOK'
  BY <1>1, <1>2, DeliveryAssumption, StoresAssumption DEF store, deliveryVars, TypeOK,
     DeliveryType, DeliveryInv, OrderInv, EntryInv, JobInv, Entry, Job, StoreInv
<1>4. OrderInv'
  BY <1>1, <1>2, DeliveryAssumption, StoresAssumption DEF store, deliveryVars, TypeOK,
     DeliveryType, DeliveryInv, OrderInv, JobInv, StoreInv
<1>5. EntryInv'
  BY <1>1, <1>2, DeliveryAssumption, StoresAssumption DEF store, deliveryVars, TypeOK,
     EntryInv, OrderInv, JobInv, Entry, StoreInv
<1>6. MarkedWasPaid'
  BY <1>1, <1>2, DeliveryAssumption, StoresAssumption DEF store, deliveryVars, TypeOK,
     OrderInv, EntryInv, JobInv, MarkedWasPaid, Entry, StoreInv
<1>7. DeliveryInv' /\ JobInv' /\ AnswerInv' /\ SentWasTried'
  BY <1>1, <1>2 DEF store, deliveryVars, StoreInv, DeliveryInv, JobInv, AnswerInv,
     SentWasTried
<1> QED BY <1>1, <1>2, <1>3, <1>4, <1>5, <1>6, <1>7 DEF StoreInv

LEMMA FollowLinkStep ==
  ASSUME StoreInv, NEW x \in ShopOrder, FollowLink(x)
  PROVE  StoreInv'
<1>1. /\ entry[x] \in Entry /\ entry[x].order \in Row /\ order[entry[x].order].ref = x
      /\ shown' = shown \cup {entry[x].order}
  BY StoresAssumption DEF FollowLink, StoreInv, TypeOK, EntryInv, Entry
<1>2. UNCHANGED <<deliveryVars, order, entry, creating, jobs, marked, tried, redacted>>
  BY DEF FollowLink
<1>3. TypeOK'
  BY <1>1, <1>2, DeliveryAssumption, StoresAssumption DEF store, deliveryVars, TypeOK,
     DeliveryType, DeliveryInv, OrderInv, EntryInv, JobInv, Entry, Job, StoreInv
<1>4. OrderInv'
  BY <1>1, <1>2, DeliveryAssumption, StoresAssumption DEF store, deliveryVars, TypeOK,
     DeliveryType, DeliveryInv, OrderInv, JobInv, StoreInv
<1>5. DeliveryInv' /\ EntryInv' /\ JobInv' /\ AnswerInv' /\ SentWasTried' /\ MarkedWasPaid'
  BY <1>1, <1>2 DEF store, deliveryVars, StoreInv, DeliveryInv, EntryInv, JobInv, AnswerInv,
     SentWasTried, MarkedWasPaid
<1> QED BY <1>1, <1>2, <1>3, <1>4, <1>5 DEF StoreInv

LEMMA ShopRedactStep ==
  ASSUME StoreInv, NEW x \in ShopOrder, ShopRedact(x)
  PROVE  StoreInv'
<1>1. TypeOK'
  BY DeliveryAssumption, StoresAssumption DEF ShopRedact, RowState, store, deliveryVars,
     TypeOK, DeliveryType, DeliveryInv, OrderInv, EntryInv, JobInv, Doing, Read, Entry,
     Job, StoreInv
<1>2. OrderInv'
  BY DeliveryAssumption, StoresAssumption DEF ShopRedact, RowState, store, deliveryVars,
     TypeOK, DeliveryType, DeliveryInv, OrderInv, JobInv, StoreInv
<1>3. EntryInv'
  BY DeliveryAssumption, StoresAssumption DEF ShopRedact, store, deliveryVars, TypeOK,
     EntryInv, OrderInv, JobInv, Entry, StoreInv
<1>4. AnswerInv'
  BY DeliveryAssumption, StoresAssumption DEF ShopRedact, store, deliveryVars, TypeOK,
     DeliveryType, DeliveryInv, OrderInv, EntryInv, JobInv, AnswerInv, Doing, StoreInv
<1>5. SentWasTried'
  BY DeliveryAssumption, StoresAssumption DEF ShopRedact, store, deliveryVars, TypeOK,
     DeliveryType, DeliveryInv, OrderInv, AnswerInv, SentWasTried, StoreInv
<1>6. MarkedWasPaid'
  BY DeliveryAssumption, StoresAssumption DEF ShopRedact, store, deliveryVars, TypeOK,
     OrderInv, EntryInv, JobInv, MarkedWasPaid, Entry, StoreInv
<1>7. DeliveryInv' /\ JobInv'
  BY DEF ShopRedact, store, deliveryVars, StoreInv, DeliveryInv, JobInv
<1> QED BY <1>1, <1>2, <1>3, <1>4, <1>5, <1>6, <1>7 DEF StoreInv

LEMMA PayStep ==
  ASSUME StoreInv, NEW o \in Row, Pay(o)
  PROVE  StoreInv'
<1>1. TypeOK'
  <2>1. [row[o] EXCEPT !.status = "queued"] \in RowState
    BY DEF StoreInv, TypeOK, DeliveryType, RowState
  <2>2. row' = [row EXCEPT ![o] = [row[o] EXCEPT !.status = "queued"]]
    BY DEF Pay, Insert
  <2>3. row' \in [Row -> RowState]
    BY <2>1, <2>2 DEF StoreInv, TypeOK, DeliveryType
  <2> QED
    BY <2>3 DEF Pay, StoreInv, TypeOK, DeliveryType
<1>2. DeliveryInv'
  BY BatchRows, DeliveryAssumption, StoresAssumption DEF Pay, Insert, RowState, store,
     deliveryVars, TypeOK, DeliveryType, DeliveryInv, JobInv, Doing, StoreInv
<1>3. OrderInv'
  BY DeliveryAssumption, StoresAssumption DEF Pay, Insert, RowState, store,
     deliveryVars, TypeOK, DeliveryType, DeliveryInv, OrderInv, JobInv, StoreInv
<1>4. EntryInv'
  BY DeliveryAssumption, StoresAssumption DEF Pay, Insert, store, deliveryVars, TypeOK,
     EntryInv, OrderInv, JobInv, Entry, StoreInv
<1>5. JobInv'
  BY DeliveryAssumption, StoresAssumption DEF Pay, Insert, store, deliveryVars, TypeOK,
     DeliveryType, DeliveryInv, OrderInv, EntryInv, JobInv, Doing, Entry, Job, StoreInv
<1>6. AnswerInv'
  BY DeliveryAssumption, StoresAssumption DEF Pay, Insert, store, deliveryVars, TypeOK,
     DeliveryType, DeliveryInv, OrderInv, EntryInv, JobInv, AnswerInv, Doing, StoreInv
<1>7. SentWasTried'
  BY DeliveryAssumption, StoresAssumption DEF Pay, Insert, store, deliveryVars, TypeOK,
     DeliveryType, DeliveryInv, OrderInv, AnswerInv, SentWasTried, StoreInv
<1>8. MarkedWasPaid'
  BY DeliveryAssumption, StoresAssumption DEF Pay, Insert, store, deliveryVars, TypeOK,
     OrderInv, EntryInv, JobInv, MarkedWasPaid, Entry, StoreInv
<1> QED BY <1>1, <1>2, <1>3, <1>4, <1>5, <1>6, <1>7, <1>8 DEF StoreInv

(* No handler notices a step of a pod that waits for none. *)
LEMMA JobsStay ==
  ASSUME StoreInv, UNCHANGED <<store, jobs>>, NEW w \in Worker, worker[w].at # "posting",
         \A v \in Worker \ {w} : worker'[v] = worker[v],
         \A e \in Row : row[e].status # "none" => row'[e].status # "none"
  PROVE  JobInv'
<1>1. \A j \in jobs : j.order \in Row /\ (j.worker # None => worker'[j.worker] = worker[j.worker])
  BY DEF StoreInv, TypeOK, Job, JobInv
<1> QED
  BY <1>1 DEF store, StoreInv, JobInv

LEMMA SelectStep ==
  ASSUME StoreInv, NEW w \in Worker, Select(w), UNCHANGED <<store, jobs>>
  PROVE  StoreInv'
<1>1. /\ worker' \in [Worker -> Doing]
      /\ \A v \in Worker \ {w} : worker'[v] = worker[v]
      /\ worker[w].at = "idle" /\ worker'[w].at = "rows"
      /\ DOMAIN worker'[w].batch = {e \in Row : row[e].status # "none" /\ IsDue(e)}
  <2> DEFINE D == {e \in Row : IsDue(e)}
             B == [e \in D |-> [attempt |-> row[e].attempt, url |-> url]]
  <2>1. B \in [D -> Read]
    <3>1. \A e \in D : row[e].attempt \in 0..Retries
      BY DeliveryAssumption DEF IsDue, StoreInv, TypeOK, DeliveryType, DeliveryInv, RowState
    <3> QED
      BY <3>1 DEF Read, StoreInv, TypeOK, DeliveryType
  <2>2. [at |-> "rows", current |-> None, batch |-> B] \in Doing
    BY <2>1 DEF Doing
  <2>3. worker' = [worker EXCEPT ![w] = [at |-> "rows", current |-> None, batch |-> B]]
    BY DEF Select
  <2>4. D = {e \in Row : row[e].status # "none" /\ IsDue(e)}
    BY DEF IsDue
  <2> QED
    BY <2>2, <2>3, <2>4 DEF Select, StoreInv, TypeOK, DeliveryType
<1>2. UNCHANGED <<store, row, url, posts, losses, jobs>>
  BY DEF Select
<1>3. TypeOK'
  BY <1>1, <1>2, DeliveryAssumption, StoresAssumption DEF store, deliveryVars, TypeOK,
     DeliveryType, DeliveryInv, OrderInv, EntryInv, JobInv, Entry, Job, StoreInv
<1>4. DeliveryInv'
  BY <1>1, <1>2, BatchRows, DeliveryAssumption, StoresAssumption DEF store,
     deliveryVars, TypeOK, DeliveryType, DeliveryInv, JobInv, StoreInv
<1>5. JobInv'
  BY <1>1, <1>2, JobsStay
<1>6. AnswerInv'
  BY <1>1, <1>2, DeliveryAssumption, StoresAssumption DEF store, deliveryVars, TypeOK,
     DeliveryType, DeliveryInv, OrderInv, EntryInv, JobInv, AnswerInv, StoreInv
<1>7. OrderInv' /\ EntryInv' /\ SentWasTried' /\ MarkedWasPaid'
  BY <1>1, <1>2 DEF store, deliveryVars, StoreInv, OrderInv, EntryInv, SentWasTried,
     MarkedWasPaid
<1> QED BY <1>1, <1>2, <1>3, <1>4, <1>5, <1>6, <1>7 DEF StoreInv

LEMMA WriteStep ==
  ASSUME StoreInv, NEW w \in Worker, Write(w), UNCHANGED <<store, jobs>>
  PROVE  StoreInv'
<1>1. worker[w].at \in {"sent", "failed"} /\ worker[w].current \in DOMAIN worker[w].batch
      /\ worker[w].current \in Row /\ worker[w].batch[worker[w].current].attempt \in 0..Retries
  BY DEF Write, StoreInv, TypeOK, DeliveryType, DeliveryInv, Doing, Read
<1>2. /\ worker' \in [Worker -> Doing]
      /\ \A v \in Worker \ {w} : worker'[v] = worker[v]
      /\ worker[w].at # "posting" /\ worker'[w].at \in {"idle", "rows"}
      /\ DOMAIN worker'[w].batch \subseteq DOMAIN worker[w].batch
  BY WithoutDoing DEF Write, StoreInv, TypeOK, DeliveryType
<1>3. LET d == worker[w].current IN
      /\ row' \in [Row -> RowState]
      /\ \A e \in Row \ {d} : row'[e] = row[e]
      /\ row'[d].status = "sent" => row[d].status = "sent" \/ worker[w].at = "sent"
      /\ row'[d].status # "none"
      /\ row'[d].status \in {"queued", "failed"} => row'[d].attempt <= Retries
  <2> DEFINE d == worker[w].current
  <2>1. CASE row' = [row EXCEPT ![d] = After(w, worker[w].batch[d].attempt)]
    <3>1. /\ After(w, worker[w].batch[d].attempt) \in RowState
          /\ LET a == After(w, worker[w].batch[d].attempt) IN
               /\ a.status = "sent" => worker[w].at = "sent"
               /\ a.status \in {"sent", "failed", "dead"}
               /\ a.status = "failed" => a.attempt <= Retries
      BY <1>1, DeliveryAssumption DEF After, RowState, StoreInv, TypeOK, DeliveryType
    <3> QED
      BY <1>1, <2>1, <3>1 DEF StoreInv, TypeOK, DeliveryType
  <2>2. CASE UNCHANGED row
    BY <1>1, <2>2 DEF StoreInv, TypeOK, DeliveryType, DeliveryInv
  <2> QED
    BY <2>1, <2>2 DEF Write
<1>4. UNCHANGED <<store, jobs, url, posts>> /\ losses' \in 0..MaxLosses
  BY DeliveryAssumption DEF Write, Lose, StoreInv, TypeOK, DeliveryType
<1>5. TypeOK'
  BY <1>1, <1>2, <1>3, <1>4, DeliveryAssumption, StoresAssumption DEF store,
     deliveryVars, TypeOK, DeliveryType, DeliveryInv, OrderInv, EntryInv, JobInv, Entry,
     Job, StoreInv
<1>6. DeliveryInv'
  <2>1. \A e \in Row : row[e].status # "none" => row'[e].status # "none"
    BY <1>1, <1>2, <1>3, <1>4
  <2>2. \A e \in Row : row'[e].status \in {"none", "queued", "failed"} => row'[e].attempt <= Retries
    BY <1>1, <1>2, <1>3, <1>4 DEF StoreInv, DeliveryInv
  <2>3. \A v \in Worker : \A e \in DOMAIN worker'[v].batch : row'[e].status # "none"
    <3> SUFFICES ASSUME NEW v \in Worker, NEW e \in DOMAIN worker'[v].batch
                 PROVE  row'[e].status # "none"
      OBVIOUS
    <3>1. e \in DOMAIN worker[v].batch
      BY <1>1, <1>2, <1>3, <1>4
    <3> QED
      BY <2>1, <3>1, BatchRows DEF StoreInv, DeliveryInv
  <2>4. \A v \in Worker : worker'[v].at \in {"posting", "sent", "failed"} =>
          worker'[v].current \in DOMAIN worker'[v].batch
    BY <1>1, <1>2, <1>3, <1>4 DEF StoreInv, DeliveryInv
  <2> QED
    BY <2>2, <2>3, <2>4 DEF DeliveryInv
<1>7. OrderInv'
  BY <1>1, <1>2, <1>3, <1>4, DeliveryAssumption, StoresAssumption DEF store,
     deliveryVars, TypeOK, DeliveryType, DeliveryInv, OrderInv, JobInv, StoreInv
<1>8. JobInv'
  <2>1. \A e \in Row : row[e].status # "none" => row'[e].status # "none"
    BY <1>1, <1>2, <1>3, <1>4
  <2>2. \A j \in jobs : j.order \in Row /\ (j.worker # None => worker'[j.worker] = worker[j.worker])
    BY <1>1, <1>2, <1>3, <1>4 DEF StoreInv, TypeOK, Job, JobInv
  <2> QED
    BY <1>4, <2>1, <2>2 DEF store, StoreInv, JobInv
<1>9. AnswerInv'
  BY <1>1, <1>2, <1>3, <1>4, DeliveryAssumption, StoresAssumption DEF store,
     deliveryVars, TypeOK, DeliveryType, DeliveryInv, OrderInv, EntryInv, JobInv,
     AnswerInv, StoreInv
<1>10. SentWasTried'
  BY <1>1, <1>2, <1>3, <1>4, DeliveryAssumption, StoresAssumption DEF store,
     deliveryVars, TypeOK, DeliveryType, DeliveryInv, OrderInv, AnswerInv, SentWasTried,
     StoreInv
<1>11. EntryInv' /\ MarkedWasPaid'
  BY <1>1, <1>2, <1>3, <1>4 DEF store, deliveryVars, StoreInv, EntryInv, MarkedWasPaid
<1> QED BY <1>1, <1>2, <1>3, <1>4, <1>5, <1>6, <1>7, <1>8, <1>9, <1>10, <1>11 DEF StoreInv

LEMMA DiscardStep ==
  ASSUME StoreInv, NEW w \in Worker, NEW d \in Row, Discard(w, d), UNCHANGED <<store, jobs>>
  PROVE  StoreInv'
<1>1. /\ worker' \in [Worker -> Doing]
      /\ \A v \in Worker \ {w} : worker'[v] = worker[v]
      /\ worker[w].at # "posting" /\ worker'[w].at \in {"idle", "rows"}
      /\ DOMAIN worker'[w].batch \subseteq DOMAIN worker[w].batch
  BY WithoutDoing DEF Discard, StoreInv, TypeOK, DeliveryType
<1>2. /\ row' \in [Row -> RowState]
      /\ \A e \in Row \ {d} : row'[e] = row[e]
      /\ row'[d].status = "dead" \/ row'[d] = row[d]
      /\ row[d].status # "none"
  <2>1. row[d] \in RowState /\ d \in DOMAIN worker[w].batch
    BY DEF Discard, StoreInv, TypeOK, DeliveryType
  <2>2. row[d].status # "none"
    BY <2>1 DEF StoreInv, DeliveryInv
  <2>3. [row[d] EXCEPT !.status = "dead"] \in RowState /\ [row[d] EXCEPT !.status = "dead"].status = "dead"
    BY <2>1 DEF RowState
  <2>4. row' = [row EXCEPT ![d] = [row[d] EXCEPT !.status = "dead"]] \/ row' = row
    BY DEF Discard
  <2>5. CASE row' = [row EXCEPT ![d] = [row[d] EXCEPT !.status = "dead"]]
    BY <2>2, <2>3, <2>5 DEF StoreInv, TypeOK, DeliveryType
  <2>6. CASE row' = row
    BY <2>2, <2>6 DEF StoreInv, TypeOK, DeliveryType
  <2> QED
    BY <2>4, <2>5, <2>6
<1>3. UNCHANGED <<store, jobs, url, posts>> /\ losses' \in 0..MaxLosses
  BY DeliveryAssumption DEF Discard, Lose, StoreInv, TypeOK, DeliveryType
<1>4. TypeOK'
  BY <1>1, <1>2, <1>3, DeliveryAssumption, StoresAssumption DEF store, deliveryVars,
     TypeOK, DeliveryType, DeliveryInv, OrderInv, EntryInv, JobInv, Entry, Job, StoreInv
<1>5. DeliveryInv'
  <2>1. \A e \in Row : row[e].status # "none" => row'[e].status # "none"
    BY <1>1, <1>2, <1>3
  <2>2. \A e \in Row : row'[e].status \in {"none", "queued", "failed"} => row'[e].attempt <= Retries
    BY <1>1, <1>2, <1>3 DEF StoreInv, DeliveryInv
  <2>3. \A v \in Worker : \A e \in DOMAIN worker'[v].batch : row'[e].status # "none"
    <3> SUFFICES ASSUME NEW v \in Worker, NEW e \in DOMAIN worker'[v].batch
                 PROVE  row'[e].status # "none"
      OBVIOUS
    <3>1. e \in DOMAIN worker[v].batch
      BY <1>1, <1>2, <1>3
    <3> QED
      BY <2>1, <3>1, BatchRows DEF StoreInv, DeliveryInv
  <2>4. \A v \in Worker : worker'[v].at \in {"posting", "sent", "failed"} =>
          worker'[v].current \in DOMAIN worker'[v].batch
    BY <1>1, <1>2, <1>3 DEF StoreInv, DeliveryInv
  <2> QED
    BY <2>2, <2>3, <2>4 DEF DeliveryInv
<1>6. OrderInv'
  BY <1>1, <1>2, <1>3, DeliveryAssumption, StoresAssumption DEF store, deliveryVars,
     TypeOK, DeliveryType, DeliveryInv, OrderInv, JobInv, StoreInv
<1>7. JobInv'
  BY <1>1, <1>2, <1>3, JobsStay
<1>8. AnswerInv'
  BY <1>1, <1>2, <1>3, DeliveryAssumption, StoresAssumption DEF store, deliveryVars,
     TypeOK, DeliveryType, DeliveryInv, OrderInv, EntryInv, JobInv, AnswerInv, StoreInv
<1>9. SentWasTried'
  BY <1>1, <1>2, <1>3, DeliveryAssumption, StoresAssumption DEF store, deliveryVars,
     TypeOK, DeliveryType, DeliveryInv, OrderInv, AnswerInv, SentWasTried, StoreInv
<1>10. EntryInv' /\ MarkedWasPaid'
  BY <1>1, <1>2, <1>3 DEF store, deliveryVars, StoreInv, EntryInv, MarkedWasPaid
<1> QED BY <1>1, <1>2, <1>3, <1>4, <1>5, <1>6, <1>7, <1>8, <1>9, <1>10 DEF StoreInv

LEMMA DoesNotResolveStep ==
  ASSUME StoreInv, NEW w \in Worker, NEW d \in Row, DoesNotResolve(w, d), UNCHANGED <<store, jobs>>
  PROVE  StoreInv'
<1>1. /\ worker' \in [Worker -> Doing]
      /\ \A v \in Worker \ {w} : worker'[v] = worker[v]
      /\ worker[w].at = "rows" /\ worker'[w].at = "failed" /\ worker'[w].batch = worker[w].batch
      /\ worker'[w].current = d
      /\ d \in DOMAIN worker[w].batch
  <2>1. worker' = [worker EXCEPT ![w] = [worker[w] EXCEPT !.at = "failed", !.current = d]]
    BY DEF DoesNotResolve
  <2>2. worker[w] \in Doing
    BY DEF StoreInv, TypeOK, DeliveryType
  <2>3. worker'[w] \in Doing
    BY <2>1, <2>2, StillDoing DEF StoreInv, TypeOK, DeliveryType
  <2> QED
    BY <2>1, <2>2, <2>3 DEF DoesNotResolve, StoreInv, TypeOK, DeliveryType, Doing
<1>2. UNCHANGED <<store, row, url, posts, losses, jobs>>
  BY DEF DoesNotResolve
<1>3. TypeOK'
  BY <1>1, <1>2, DeliveryAssumption, StoresAssumption DEF store, deliveryVars, TypeOK,
     DeliveryType, DeliveryInv, OrderInv, EntryInv, JobInv, Entry, Job, StoreInv
<1>4. DeliveryInv'
  BY <1>1, <1>2, BatchRows, DeliveryAssumption, StoresAssumption DEF store,
     deliveryVars, TypeOK, DeliveryType, DeliveryInv, JobInv, StoreInv
<1>5. JobInv'
  BY <1>1, <1>2, JobsStay
<1>6. AnswerInv'
  BY <1>1, <1>2, DeliveryAssumption, StoresAssumption DEF store, deliveryVars, TypeOK,
     DeliveryType, DeliveryInv, OrderInv, EntryInv, JobInv, AnswerInv, StoreInv
<1>7. OrderInv' /\ EntryInv' /\ SentWasTried' /\ MarkedWasPaid'
  BY <1>1, <1>2 DEF store, deliveryVars, StoreInv, OrderInv, EntryInv, SentWasTried,
     MarkedWasPaid
<1> QED BY <1>1, <1>2, <1>3, <1>4, <1>5, <1>6, <1>7 DEF StoreInv

LEMMA PostToShopStep ==
  ASSUME StoreInv, NEW w \in Worker, NEW d \in Row, PostToShop(w, d)
  PROVE  StoreInv'
<1>1. /\ worker' \in [Worker -> Doing]
      /\ \A v \in Worker \ {w} : worker'[v] = worker[v]
      /\ worker[w].at = "rows" /\ worker'[w].at = "posting" /\ worker'[w].batch = worker[w].batch
      /\ worker'[w].current = d
      /\ d \in DOMAIN worker[w].batch
  <2>1. worker' = [worker EXCEPT ![w] = [worker[w] EXCEPT !.at = "posting", !.current = d]]
    BY DEF PostToShop, Post
  <2>2. worker[w] \in Doing
    BY DEF StoreInv, TypeOK, DeliveryType
  <2>3. worker'[w] \in Doing
    BY <2>1, <2>2, StillDoing DEF StoreInv, TypeOK, DeliveryType
  <2> QED
    BY <2>1, <2>2, <2>3 DEF PostToShop, Post, StoreInv, TypeOK, DeliveryType, Doing
<1>2. /\ UNCHANGED <<store, row, url, losses>> /\ posts' \in [Row -> Nat]
      /\ jobs' = jobs \cup {[worker |-> w, order |-> d, at |-> "start", seen |-> None]}
  BY DEF PostToShop, Post, StoreInv, TypeOK, DeliveryType
<1>3. TypeOK'
  BY <1>1, <1>2, DeliveryAssumption, StoresAssumption DEF store, deliveryVars, TypeOK,
     DeliveryType, DeliveryInv, OrderInv, EntryInv, JobInv, Entry, Job, StoreInv
<1>4. DeliveryInv'
  BY <1>1, <1>2, BatchRows, DeliveryAssumption, StoresAssumption DEF store,
     deliveryVars, TypeOK, DeliveryType, DeliveryInv, JobInv, StoreInv
<1>5. JobInv'
  BY <1>1, <1>2, DeliveryAssumption, StoresAssumption DEF store, deliveryVars, TypeOK,
     DeliveryType, DeliveryInv, OrderInv, EntryInv, JobInv, Entry, Job, StoreInv
<1>6. AnswerInv'
  BY <1>1, <1>2, DeliveryAssumption, StoresAssumption DEF store, deliveryVars, TypeOK,
     DeliveryType, DeliveryInv, OrderInv, EntryInv, JobInv, AnswerInv, StoreInv
<1>7. OrderInv' /\ EntryInv' /\ SentWasTried' /\ MarkedWasPaid'
  BY <1>1, <1>2 DEF store, deliveryVars, StoreInv, OrderInv, EntryInv, SentWasTried,
     MarkedWasPaid
<1> QED BY <1>1, <1>2, <1>3, <1>4, <1>5, <1>6, <1>7 DEF StoreInv

(* A pod that stops waiting leaves its handler to itself. *)
LEMMA LeftAlone ==
  ASSUME StoreInv, NEW w \in Worker,
         jobs' = {IF i.worker = w THEN [i EXCEPT !.worker = None] ELSE i : i \in jobs}
  PROVE  /\ \A k \in jobs' : k.worker # w
                             /\ \E i \in jobs : k.order = i.order /\ k.at = i.at /\ k.seen = i.seen
         /\ \A k \in jobs' : k.worker # None => k \in jobs
         /\ jobs' \subseteq Job
<1>1. \A i \in jobs : /\ i \in Job
                      /\ [i EXCEPT !.worker = None] \in Job
                      /\ LET k == [i EXCEPT !.worker = None] IN
                           k.worker = None /\ k.order = i.order /\ k.at = i.at /\ k.seen = i.seen
  BY DEF StoreInv, TypeOK, Job
<1>2. ASSUME NEW k \in jobs'
      PROVE  /\ k \in Job /\ k.worker # w /\ (k.worker # None => k \in jobs)
             /\ \E i \in jobs : k.order = i.order /\ k.at = i.at /\ k.seen = i.seen
  <2>1. PICK i \in jobs : k = IF i.worker = w THEN [i EXCEPT !.worker = None] ELSE i
    OBVIOUS
  <2>2. CASE i.worker = w
    BY <1>1, <2>1, <2>2, DeliveryAssumption
  <2>3. CASE i.worker # w
    BY <1>1, <2>1, <2>3
  <2> QED
    BY <2>2, <2>3
<1> QED
  BY <1>2

LEMMA GiveUpStep ==
  ASSUME StoreInv, NEW w \in Worker, GiveUp(w)
  PROVE  StoreInv'
<1>1. /\ worker' \in [Worker -> Doing]
      /\ \A v \in Worker \ {w} : worker'[v] = worker[v]
      /\ worker[w].at = "posting" /\ worker'[w].at = "failed" /\ worker'[w].batch = worker[w].batch
      /\ worker'[w].current = worker[w].current
  <2>1. worker' = [worker EXCEPT ![w] = [worker[w] EXCEPT !.at = "failed"]]
    BY DEF GiveUp, Answered
  <2>2. worker[w] \in Doing
    BY DEF StoreInv, TypeOK, DeliveryType
  <2>3. worker'[w] \in Doing
    BY <2>1, <2>2, StillDoing DEF StoreInv, TypeOK, DeliveryType
  <2> QED
    BY <2>1, <2>2, <2>3 DEF GiveUp, Answered, StoreInv, TypeOK, DeliveryType, Doing
<1>2. /\ \A k \in jobs' : k.worker # w
                          /\ \E i \in jobs : k.order = i.order /\ k.at = i.at /\ k.seen = i.seen
      /\ \A k \in jobs' : k.worker # None => k \in jobs
      /\ jobs' \subseteq Job
  BY LeftAlone DEF GiveUp
<1>3. UNCHANGED <<store, row, url, posts, losses>>
  BY DEF GiveUp, Answered
<1>4. TypeOK'
  BY <1>1, <1>2, <1>3, DeliveryAssumption, StoresAssumption DEF store, deliveryVars,
     TypeOK, DeliveryType, DeliveryInv, OrderInv, EntryInv, JobInv, Entry, Job, StoreInv
<1>5. DeliveryInv'
  BY <1>1, <1>2, <1>3, BatchRows, DeliveryAssumption, StoresAssumption DEF store,
     deliveryVars, TypeOK, DeliveryType, DeliveryInv, JobInv, StoreInv
<1>6. JobInv'
  BY <1>1, <1>2, <1>3, DeliveryAssumption, StoresAssumption DEF store, deliveryVars,
     TypeOK, DeliveryType, DeliveryInv, OrderInv, EntryInv, JobInv, Entry, Job, StoreInv
<1>7. AnswerInv'
  BY <1>1, <1>2, <1>3, DeliveryAssumption, StoresAssumption DEF store, deliveryVars,
     TypeOK, DeliveryType, DeliveryInv, OrderInv, EntryInv, JobInv, AnswerInv, StoreInv
<1>8. OrderInv' /\ EntryInv' /\ SentWasTried' /\ MarkedWasPaid'
  BY <1>1, <1>2, <1>3 DEF store, deliveryVars, StoreInv, OrderInv, EntryInv, SentWasTried,
     MarkedWasPaid
<1> QED BY <1>1, <1>2, <1>3, <1>4, <1>5, <1>6, <1>7, <1>8 DEF StoreInv

LEMMA WorkerCrashStep ==
  ASSUME StoreInv, NEW w \in Worker, WorkerCrash(w)
  PROVE  StoreInv'
<1>1. /\ worker' \in [Worker -> Doing]
      /\ \A v \in Worker \ {w} : worker'[v] = worker[v]
      /\ worker'[w].at = "idle" /\ DOMAIN worker'[w].batch = {}
  <2>1. worker' = [worker EXCEPT ![w] = Idle]
    BY DEF WorkerCrash, Crash
  <2> QED
    BY <2>1, EmptyDoing DEF StoreInv, TypeOK, DeliveryType, Idle
<1>2. /\ \A k \in jobs' : k.worker # w
                          /\ \E i \in jobs : k.order = i.order /\ k.at = i.at /\ k.seen = i.seen
      /\ \A k \in jobs' : k.worker # None => k \in jobs
      /\ jobs' \subseteq Job
  BY LeftAlone DEF WorkerCrash
<1>3. UNCHANGED <<store, row, url, posts>> /\ losses' \in 0..MaxLosses
  BY DeliveryAssumption DEF WorkerCrash, Crash, Lose, StoreInv, TypeOK, DeliveryType
<1>4. TypeOK'
  BY <1>1, <1>2, <1>3, DeliveryAssumption, StoresAssumption DEF store, deliveryVars,
     TypeOK, DeliveryType, DeliveryInv, OrderInv, EntryInv, JobInv, Entry, Job, StoreInv
<1>5. DeliveryInv'
  BY <1>1, <1>2, <1>3, BatchRows, DeliveryAssumption, StoresAssumption DEF store,
     deliveryVars, TypeOK, DeliveryType, DeliveryInv, JobInv, StoreInv
<1>6. JobInv'
  BY <1>1, <1>2, <1>3, DeliveryAssumption, StoresAssumption DEF store, deliveryVars,
     TypeOK, DeliveryType, DeliveryInv, OrderInv, EntryInv, JobInv, Entry, Job, StoreInv
<1>7. AnswerInv'
  BY <1>1, <1>2, <1>3, DeliveryAssumption, StoresAssumption DEF store, deliveryVars,
     TypeOK, DeliveryType, DeliveryInv, OrderInv, EntryInv, JobInv, AnswerInv, StoreInv
<1>8. OrderInv' /\ EntryInv' /\ SentWasTried' /\ MarkedWasPaid'
  BY <1>1, <1>2, <1>3 DEF store, deliveryVars, StoreInv, OrderInv, EntryInv, SentWasTried,
     MarkedWasPaid
<1> QED BY <1>1, <1>2, <1>3, <1>4, <1>5, <1>6, <1>7, <1>8 DEF StoreInv

LEMMA AcknowledgeStep ==
  ASSUME StoreInv, NEW j \in jobs, Acknowledge(j)
  PROVE  StoreInv'
<1>1. /\ worker' \in [Worker -> Doing]
      /\ \A v \in Worker : /\ worker'[v].batch = worker[v].batch
                           /\ worker'[v].current = worker[v].current
                           /\ worker'[v].at = worker[v].at \/ (v = j.worker /\ worker'[v].at \in {"sent", "failed"})
      /\ UNCHANGED <<row, url, posts, losses>>
      /\ jobs' = jobs \ {j} /\ j \in jobs
      /\ \A k \in jobs' : k.worker # None => k.worker # j.worker
  <2>1. CASE j.worker = None /\ UNCHANGED worker
    BY <2>1 DEF Acknowledge, Respond, Answered, StoreInv, TypeOK, DeliveryType, JobInv, Job
  <2>2. CASE j.worker # None
    <3> DEFINE w == j.worker
    <3>1. w \in Worker /\ worker[w] \in Doing /\ worker[w].at = "posting"
      BY <2>2 DEF StoreInv, TypeOK, DeliveryType, JobInv, Job
    <3>2. PICK a \in {"sent", "failed"} : worker' = [worker EXCEPT ![w] = [worker[w] EXCEPT !.at = a]]
      BY <2>2 DEF Acknowledge, Respond, Answered
    <3>3. [worker[w] EXCEPT !.at = a] \in Doing
      BY <3>1, <3>2, StillDoing DEF StoreInv, TypeOK
    <3>4. /\ worker' \in [Worker -> Doing] /\ \A v \in Worker \ {w} : worker'[v] = worker[v]
          /\ worker'[w].at = a /\ worker'[w].batch = worker[w].batch
          /\ worker'[w].current = worker[w].current
      BY <3>1, <3>2, <3>3 DEF StoreInv, TypeOK, DeliveryType, Doing
    <3> QED
      BY <2>2, <3>1, <3>2, <3>4 DEF Acknowledge, Respond, Answered, StoreInv, JobInv
  <2> QED
    BY <2>1, <2>2 DEF Acknowledge, Respond
<1>2. UNCHANGED store
  BY DEF Acknowledge
<1>3. \A v \in Worker : worker'[v].at = "sent" /\ worker[v].at # "sent" =>
        \/ order[j.order].status # "paid"
        \/ order[j.order].ref \in tried \cup redacted
  <2>1. SUFFICES ASSUME NEW v \in Worker, worker'[v].at = "sent", worker[v].at # "sent",
                        order[j.order].status = "paid"
                 PROVE  order[j.order].ref \in tried \cup redacted
    OBVIOUS
  <2>2. \/ Hit(j) = {}
        \/ \E x \in Hit(j) : entry[x].status = "paid"
    <3>1. j.worker # None
      BY <2>1 DEF Acknowledge, Respond
    <3>2. j.worker = v /\ worker[v] \in Doing
      BY <1>1, <2>1 DEF StoreInv, TypeOK, DeliveryType
    <3>3. ~Respond(j, "failed")
      BY <2>1, <3>1, <3>2 DEF Respond, Answered, Doing, StoreInv, TypeOK, DeliveryType
    <3> QED
      BY <2>1, <3>3 DEF Acknowledge, IsPayment
  <2>3. /\ j.order \in Row /\ order[j.order].ref \in ShopOrder
        /\ order[j.order].ref \in redacted \/ entry[order[j.order].ref] # None
    BY <2>1, StoresAssumption DEF StoreInv, TypeOK, OrderInv, Job
  <2>4. CASE Hit(j) = {}
    BY <2>3, <2>4 DEF Hit
  <2>5. CASE \E x \in Hit(j) : entry[x].status = "paid"
    BY <2>3, <2>5 DEF Hit, StoreInv, EntryInv
  <2> QED
    BY <2>2, <2>4, <2>5
<1>4. TypeOK'
  BY <1>1, <1>2, <1>3, DeliveryAssumption, StoresAssumption DEF store, deliveryVars,
     TypeOK, DeliveryType, DeliveryInv, OrderInv, EntryInv, JobInv, Entry, Job, StoreInv
<1>5. DeliveryInv'
  BY <1>1, <1>2, <1>3, BatchRows, DeliveryAssumption, StoresAssumption DEF store,
     deliveryVars, TypeOK, DeliveryType, DeliveryInv, JobInv, StoreInv
<1>6. JobInv'
  BY <1>1, <1>2, <1>3, DeliveryAssumption, StoresAssumption DEF store, deliveryVars,
     TypeOK, DeliveryType, DeliveryInv, OrderInv, EntryInv, JobInv, Entry, Job, StoreInv
<1>7. AnswerInv'
  BY <1>1, <1>2, <1>3, DeliveryAssumption, StoresAssumption DEF store, deliveryVars,
     TypeOK, DeliveryType, DeliveryInv, OrderInv, EntryInv, JobInv, AnswerInv, StoreInv
<1>8. OrderInv' /\ EntryInv' /\ SentWasTried' /\ MarkedWasPaid'
  BY <1>1, <1>2, <1>3 DEF store, deliveryVars, StoreInv, OrderInv, EntryInv, SentWasTried,
     MarkedWasPaid
<1> QED BY <1>1, <1>2, <1>3, <1>4, <1>5, <1>6, <1>7, <1>8 DEF StoreInv

LEMMA MatchStep ==
  ASSUME StoreInv, NEW j \in jobs, Match(j)
  PROVE  StoreInv'
<1>1. PICK x \in ShopOrder :
        /\ entry[x] \in Entry /\ order[entry[x].order].ref = x /\ order[j.order].ref = x
        /\ order[j.order].status = "paid"
        /\ jobs' = (jobs \ {j}) \cup {[j EXCEPT !.at = "mark", !.seen = entry[x]]}
  BY StoresAssumption DEF Match, IsPayment, Hit, StoreInv, EntryInv, TypeOK
<1>2. LET k == [j EXCEPT !.at = "mark", !.seen = entry[x]] IN
      /\ k \in Job /\ k.worker = j.worker /\ k.order = j.order /\ k.at = "mark" /\ k.seen = entry[x]
      /\ j \in Job
  BY <1>1 DEF Job, StoreInv, TypeOK
<1>3. UNCHANGED <<deliveryVars, store>>
  BY DEF Match
<1>4. TypeOK'
  BY <1>1, <1>2, <1>3, DeliveryAssumption, StoresAssumption DEF store, deliveryVars,
     TypeOK, DeliveryType, DeliveryInv, OrderInv, EntryInv, JobInv, Entry, Job, StoreInv
<1>5. JobInv'
  <2> DEFINE k == [j EXCEPT !.at = "mark", !.seen = entry[x]]
  <2> SUFFICES ASSUME NEW i \in jobs' PROVE JobInv!(i)'
    BY DEF JobInv
  <2>1. \A l \in jobs : l.worker # None => \A m \in jobs : m.worker = l.worker => m = l
    BY DEF StoreInv, JobInv
  <2>2. \A l \in jobs' : l = k \/ (l \in jobs /\ l # j)
    BY <1>1
  <2>3. i.worker # None => \A l \in jobs' : l.worker = i.worker => l = i
    BY <1>2, <2>1, <2>2
  <2>4. CASE i = k
    BY <1>1, <1>2, <1>3, <2>3, <2>4, StoresAssumption DEF deliveryVars, store, StoreInv,
       JobInv, Entry
  <2>5. CASE i \in jobs
    BY <1>3, <2>3, <2>5 DEF deliveryVars, store, StoreInv, JobInv
  <2> QED
    BY <2>2, <2>4, <2>5
<1>6. DeliveryInv' /\ OrderInv' /\ EntryInv' /\ AnswerInv' /\ SentWasTried' /\ MarkedWasPaid'
  BY <1>1, <1>2, <1>3 DEF store, deliveryVars, StoreInv, DeliveryInv, OrderInv, EntryInv,
     AnswerInv, SentWasTried, MarkedWasPaid
<1> QED BY <1>1, <1>2, <1>3, <1>4, <1>5, <1>6 DEF StoreInv

LEMMA MarkStep ==
  ASSUME StoreInv, NEW j \in jobs, Mark(j)
  PROVE  StoreInv'
<1>1. /\ j \in Job /\ j.seen \in Entry /\ order[j.order].status = "paid" /\ j.order \in Row
      /\ order[j.seen.order].ref = order[j.order].ref /\ order[j.order].ref \in ShopOrder
  BY StoresAssumption DEF Mark, StoreInv, TypeOK, JobInv, OrderInv, Job
<1>2. LET k == [j EXCEPT !.at = "record"]
          x == order[j.order].ref IN
      /\ k \in Job /\ k.worker = j.worker /\ k.order = j.order /\ k.at = "record" /\ k.seen = j.seen
      /\ jobs' = (jobs \ {j}) \cup {k} /\ tried' = tried \cup {x} /\ marked' \in [ShopOrder -> Nat]
      /\ \A y \in ShopOrder \ {x} : marked'[y] = marked[y]
  BY <1>1 DEF Mark, Job, StoreInv, TypeOK
<1>3. UNCHANGED <<deliveryVars, order, shown, entry, creating, redacted>>
  BY DEF Mark
<1>4. TypeOK'
  BY <1>1, <1>2, <1>3, DeliveryAssumption, StoresAssumption DEF store, deliveryVars,
     TypeOK, DeliveryType, DeliveryInv, OrderInv, EntryInv, JobInv, Entry, Job, StoreInv
<1>5. EntryInv'
  BY <1>1, <1>2, <1>3, DeliveryAssumption, StoresAssumption DEF store, deliveryVars,
     TypeOK, EntryInv, OrderInv, JobInv, Entry, StoreInv
<1>6. JobInv'
  <2> DEFINE k == [j EXCEPT !.at = "record"]
  <2> SUFFICES ASSUME NEW i \in jobs' PROVE JobInv!(i)'
    BY DEF JobInv
  <2>1. \A l \in jobs : l.worker # None => \A m \in jobs : m.worker = l.worker => m = l
    BY DEF StoreInv, JobInv
  <2>2. \A l \in jobs' : l = k \/ (l \in jobs /\ l # j)
    BY <1>2
  <2>3. i.worker # None => \A l \in jobs' : l.worker = i.worker => l = i
    BY <1>2, <2>1, <2>2
  <2>4. CASE i = k
    BY <1>1, <1>2, <1>3, <2>3, <2>4, StoresAssumption DEF deliveryVars, store, StoreInv,
       JobInv, Entry
  <2>5. CASE i \in jobs
    BY <1>2, <1>3, <2>3, <2>5 DEF deliveryVars, store, StoreInv, JobInv
  <2> QED
    BY <2>2, <2>4, <2>5
<1>7. AnswerInv'
  BY <1>1, <1>2, <1>3, DeliveryAssumption, StoresAssumption DEF store, deliveryVars,
     TypeOK, DeliveryType, DeliveryInv, OrderInv, EntryInv, JobInv, AnswerInv, StoreInv
<1>8. SentWasTried'
  BY <1>1, <1>2, <1>3, DeliveryAssumption, StoresAssumption DEF store, deliveryVars,
     TypeOK, DeliveryType, DeliveryInv, OrderInv, AnswerInv, SentWasTried, StoreInv
<1>9. MarkedWasPaid'
  BY <1>1, <1>2, <1>3, DeliveryAssumption, StoresAssumption DEF store, deliveryVars,
     TypeOK, OrderInv, EntryInv, JobInv, MarkedWasPaid, Entry, StoreInv
<1>10. DeliveryInv' /\ OrderInv'
  BY <1>1, <1>2, <1>3 DEF store, deliveryVars, StoreInv, DeliveryInv, OrderInv
<1> QED BY <1>1, <1>2, <1>3, <1>4, <1>5, <1>6, <1>7, <1>8, <1>9, <1>10 DEF StoreInv

LEMMA RecordStep ==
  ASSUME StoreInv, NEW j \in jobs, Record(j)
  PROVE  StoreInv'
<1>1. /\ worker' \in [Worker -> Doing]
      /\ \A v \in Worker : /\ worker'[v].batch = worker[v].batch
                           /\ worker'[v].current = worker[v].current
                           /\ worker'[v].at = worker[v].at \/ (v = j.worker /\ worker'[v].at = "sent")
      /\ UNCHANGED <<row, url, posts, losses>>
      /\ jobs' = jobs \ {j} /\ j \in jobs
      /\ \A k \in jobs' : k.worker # None => k.worker # j.worker
  <2>1. CASE j.worker = None /\ UNCHANGED worker
    BY <2>1 DEF Record, Respond, Answered, StoreInv, TypeOK, DeliveryType, JobInv, Job
  <2>2. CASE j.worker # None
    <3> DEFINE w == j.worker
    <3>1. w \in Worker /\ worker[w] \in Doing /\ worker[w].at = "posting"
      BY <2>2 DEF StoreInv, TypeOK, DeliveryType, JobInv, Job
    <3>2. PICK a \in {"sent"} : worker' = [worker EXCEPT ![w] = [worker[w] EXCEPT !.at = a]]
      BY <2>2 DEF Record, Respond, Answered
    <3>3. [worker[w] EXCEPT !.at = a] \in Doing
      BY <3>1, <3>2, StillDoing DEF StoreInv, TypeOK
    <3>4. /\ worker' \in [Worker -> Doing] /\ \A v \in Worker \ {w} : worker'[v] = worker[v]
          /\ worker'[w].at = a /\ worker'[w].batch = worker[w].batch
          /\ worker'[w].current = worker[w].current
      BY <3>1, <3>2, <3>3 DEF StoreInv, TypeOK, DeliveryType, Doing
    <3> QED
      BY <2>2, <3>1, <3>2, <3>4 DEF Record, Respond, Answered, StoreInv, JobInv
  <2> QED
    BY <2>1, <2>2 DEF Record, Respond
<1>2. /\ j.at = "record" /\ j \in Job /\ j.seen \in Entry
      /\ order[j.order].status = "paid" /\ j.order \in Row
      /\ order[j.order].ref = order[j.seen.order].ref
      /\ order[j.order].ref \in ShopOrder /\ order[j.order].ref \in tried
  <2>1. j \in Job /\ j.at = "record"
    BY DEF Record, StoreInv, TypeOK
  <2>2. /\ j.seen # None /\ order[j.order].status = "paid"
        /\ order[j.seen.order].ref = order[j.order].ref /\ order[j.order].ref \in tried
    BY <2>1 DEF StoreInv, JobInv
  <2> QED
    BY <2>1, <2>2 DEF StoreInv, TypeOK, Job
<1>3. LET e == [j.seen EXCEPT !.status = "paid"] IN
      /\ e \in Entry /\ e.order = j.seen.order /\ e.status = "paid"
      /\ entry' = [entry EXCEPT ![order[j.order].ref] = e]
  BY <1>2 DEF Record, Entry
<1>4. UNCHANGED <<order, shown, creating, marked, tried, redacted>>
  BY DEF Record
<1>5. TypeOK'
  BY <1>1, <1>2, <1>3, <1>4, DeliveryAssumption, StoresAssumption DEF store,
     deliveryVars, TypeOK, DeliveryType, DeliveryInv, OrderInv, EntryInv, JobInv, Entry,
     Job, StoreInv
<1>6. DeliveryInv'
  BY <1>1, <1>2, <1>3, <1>4, BatchRows, DeliveryAssumption, StoresAssumption DEF store,
     deliveryVars, TypeOK, DeliveryType, DeliveryInv, JobInv, StoreInv
<1>7. OrderInv'
  BY <1>1, <1>2, <1>3, <1>4, DeliveryAssumption, StoresAssumption DEF store,
     deliveryVars, TypeOK, DeliveryType, DeliveryInv, OrderInv, JobInv, StoreInv
<1>8. EntryInv'
  BY <1>1, <1>2, <1>3, <1>4, DeliveryAssumption, StoresAssumption DEF store,
     deliveryVars, TypeOK, EntryInv, OrderInv, JobInv, Entry, StoreInv
<1>9. JobInv'
  BY <1>1, <1>2, <1>3, <1>4, DeliveryAssumption, StoresAssumption DEF store,
     deliveryVars, TypeOK, DeliveryType, DeliveryInv, OrderInv, EntryInv, JobInv, Entry,
     Job, StoreInv
<1>10. AnswerInv'
  <2> SUFFICES ASSUME NEW v \in Worker, worker'[v].at = "sent",
                      order[worker[v].current].status = "paid"
               PROVE  order[worker[v].current].ref \in tried \cup redacted
    BY <1>1, <1>2, <1>3, <1>4 DEF AnswerInv
  <2>1. CASE worker[v].at = "sent"
    BY <2>1 DEF StoreInv, AnswerInv
  <2>2. CASE v = j.worker
    <3>1. j.worker # None
      BY <2>2, DeliveryAssumption
    <3>2. worker[v].current = j.order
      BY <2>2, <3>1 DEF StoreInv, JobInv
    <3> QED
      BY <1>1, <1>2, <1>3, <1>4, <3>2
  <2> QED
    BY <1>1, <1>2, <1>3, <1>4, <2>1, <2>2
<1>11. MarkedWasPaid'
  BY <1>1, <1>2, <1>3, <1>4, DeliveryAssumption, StoresAssumption DEF store,
     deliveryVars, TypeOK, OrderInv, EntryInv, JobInv, MarkedWasPaid, Entry, StoreInv
<1>12. SentWasTried'
  BY <1>1, <1>2, <1>3, <1>4 DEF store, deliveryVars, StoreInv, SentWasTried
<1> QED BY <1>1, <1>2, <1>3, <1>4, <1>5, <1>6, <1>7, <1>8, <1>9, <1>10, <1>11, <1>12 DEF StoreInv

LEMMA ConnectorCrashStep ==
  ASSUME StoreInv, ConnectorCrash
  PROVE  StoreInv'
<1>1. /\ worker' \in [Worker -> Doing]
      /\ \A v \in Worker : /\ worker'[v].batch = worker[v].batch
                           /\ worker'[v].current = worker[v].current
                           /\ \/ worker'[v].at = worker[v].at
                              \/ worker'[v].at = "failed" /\ worker[v].at = "posting"
  <2>1. \A v \in Worker : worker[v] \in Doing /\ [worker[v] EXCEPT !.at = "failed"] \in Doing
    BY DEF StoreInv, TypeOK, DeliveryType, Doing
  <2>2. \A v \in Worker : /\ [worker[v] EXCEPT !.at = "failed"].at = "failed"
                          /\ [worker[v] EXCEPT !.at = "failed"].batch = worker[v].batch
                          /\ [worker[v] EXCEPT !.at = "failed"].current = worker[v].current
    BY <2>1 DEF Doing
  <2> QED
    BY <2>1, <2>2 DEF ConnectorCrash
<1>2. /\ UNCHANGED <<row, url, posts, order, shown, entry, marked, tried, redacted>>
      /\ jobs' = {} /\ creating' = [h \in Hook |-> None] /\ losses' \in 0..MaxLosses
  BY DeliveryAssumption DEF ConnectorCrash, StoreInv, TypeOK, DeliveryType
<1>3. TypeOK'
  BY <1>1, <1>2, DeliveryAssumption, StoresAssumption DEF store, deliveryVars, TypeOK,
     DeliveryType, DeliveryInv, OrderInv, EntryInv, JobInv, Entry, Job, StoreInv
<1>4. DeliveryInv'
  BY <1>1, <1>2, BatchRows, DeliveryAssumption, StoresAssumption DEF store,
     deliveryVars, TypeOK, DeliveryType, DeliveryInv, JobInv, StoreInv
<1>5. JobInv'
  BY <1>1, <1>2, DeliveryAssumption, StoresAssumption DEF store, deliveryVars, TypeOK,
     DeliveryType, DeliveryInv, OrderInv, EntryInv, JobInv, Entry, Job, StoreInv
<1>6. AnswerInv'
  BY <1>1, <1>2, DeliveryAssumption, StoresAssumption DEF store, deliveryVars, TypeOK,
     DeliveryType, DeliveryInv, OrderInv, EntryInv, JobInv, AnswerInv, StoreInv
<1>7. OrderInv' /\ EntryInv' /\ SentWasTried' /\ MarkedWasPaid'
  BY <1>1, <1>2 DEF store, deliveryVars, StoreInv, OrderInv, EntryInv, SentWasTried,
     MarkedWasPaid
<1> QED BY <1>1, <1>2, <1>3, <1>4, <1>5, <1>6, <1>7 DEF StoreInv

LEMMA ElapseStep ==
  ASSUME StoreInv, NEW d \in Row, Elapse(d), UNCHANGED <<store, jobs>>
  PROVE  StoreInv'
<1>1. TypeOK'
  <2>1. [row[d] EXCEPT !.due = TRUE] \in RowState
    BY DEF StoreInv, TypeOK, DeliveryType, RowState
  <2>2. row' = [row EXCEPT ![d] = [row[d] EXCEPT !.due = TRUE]]
    BY DEF Elapse
  <2>3. row' \in [Row -> RowState]
    BY <2>1, <2>2 DEF StoreInv, TypeOK, DeliveryType
  <2> QED
    BY <2>3 DEF Elapse, store, StoreInv, TypeOK, DeliveryType
<1>2. DeliveryInv'
  BY BatchRows, DeliveryAssumption, StoresAssumption DEF Elapse, RowState, store,
     deliveryVars, TypeOK, DeliveryType, DeliveryInv, JobInv, Doing, StoreInv
<1>3. OrderInv'
  BY DeliveryAssumption, StoresAssumption DEF Elapse, RowState, store, deliveryVars,
     TypeOK, DeliveryType, DeliveryInv, OrderInv, JobInv, StoreInv
<1>4. JobInv'
  BY DeliveryAssumption, StoresAssumption DEF Elapse, store, deliveryVars, TypeOK,
     DeliveryType, DeliveryInv, OrderInv, EntryInv, JobInv, Doing, Entry, Job, StoreInv
<1>5. SentWasTried'
  BY DeliveryAssumption, StoresAssumption DEF Elapse, store, deliveryVars, TypeOK,
     DeliveryType, DeliveryInv, OrderInv, AnswerInv, SentWasTried, StoreInv
<1>6. EntryInv' /\ AnswerInv' /\ MarkedWasPaid'
  BY DEF Elapse, store, deliveryVars, StoreInv, EntryInv, AnswerInv, MarkedWasPaid
<1> QED BY <1>1, <1>2, <1>3, <1>4, <1>5, <1>6 DEF StoreInv

LEMMA SetUrlStep ==
  ASSUME StoreInv, SetUrl, UNCHANGED <<store, jobs>>
  PROVE  StoreInv'
<1>1. TypeOK'
  BY DeliveryAssumption, StoresAssumption DEF SetUrl, RowState, store, deliveryVars,
     TypeOK, DeliveryType, DeliveryInv, OrderInv, EntryInv, JobInv, Doing, Read, Entry,
     Job, StoreInv
<1>2. DeliveryInv' /\ OrderInv' /\ EntryInv' /\ JobInv' /\ AnswerInv' /\ SentWasTried' /\ MarkedWasPaid'
  BY DEF SetUrl, RowState, store, deliveryVars, StoreInv, DeliveryInv, OrderInv, EntryInv,
     JobInv, AnswerInv, SentWasTried, MarkedWasPaid
<1> QED BY <1>1, <1>2 DEF StoreInv

LEMMA StoreStep == StoreInv /\ [Next]_vars => StoreInv'
<1> SUFFICES ASSUME StoreInv, [Next]_vars PROVE StoreInv'
  OBVIOUS
<1>1. CASE UNCHANGED vars
  BY <1>1 DEF vars, deliveryVars, store, StoreInv, TypeOK, DeliveryType, DeliveryInv, OrderInv,
     EntryInv, JobInv, AnswerInv, SentWasTried, MarkedWasPaid
<1>2. CASE Next
  BY <1>2, OrdersCreateStep, OrderRecordedStep, FollowLinkStep, ShopRedactStep, PayStep, SelectStep, WriteStep, DiscardStep, DoesNotResolveStep, PostToShopStep, GiveUpStep, WorkerCrashStep, AcknowledgeStep, MatchStep, MarkStep, RecordStep, ConnectorCrashStep, ElapseStep, SetUrlStep
     DEF Next, WorkerStep
<1> QED BY <1>1, <1>2

-----------------------------------------------------------------------------
(* Profiles: they are finitely many, Lower orders them, and a profile has  *)
(* more below it the more pods may still post.                             *)

Upto == 0..(Retries + 1)

LEMMA Counting ==
  ASSUME NEW l, NEW k
  PROVE  LET W == {w \in Worker : l[w] <= k} IN
         /\ IsFiniteSet(W) /\ Cardinality(W) \in Nat
         /\ Cardinality(W) \in 0..Cardinality(Worker)
         /\ Cardinality(Worker) \in Nat
<1> DEFINE W == {w \in Worker : l[w] <= k}
<1>1. W \in SUBSET Worker /\ IsFiniteSet(Worker)
  BY DeliveryAssumption
<1>2. IsFiniteSet(W) /\ Cardinality(W) <= Cardinality(Worker)
  <2> HIDE DEF W
  <2> QED BY <1>1, FS_Subset
<1>3. Cardinality(W) \in Nat /\ Cardinality(Worker) \in Nat
  BY <1>1, <1>2, FS_CardinalityType
<1> QED BY <1>2, <1>3

LEMMA ProfileType ==
  ASSUME NEW l \in [Worker -> Upto]
  PROVE  Profile(l) \in Profiles
<1> DEFINE N == Profile(l)
           W(k) == {w \in Worker : l[w] <= k}
<1>1. N \in [0..Retries -> 0..Cardinality(Worker)]
  BY Counting DEF Profile
<1>2. ASSUME NEW j \in 0..Retries, NEW k \in 0..Retries, j <= k
      PROVE  N[j] <= N[k]
  <2>1. W(j) \in SUBSET W(k)
    BY <1>2, DeliveryAssumption DEF Upto
  <2>2. IsFiniteSet(W(k)) /\ N[j] = Cardinality(W(j)) /\ N[k] = Cardinality(W(k))
    BY Counting DEF Profile
  <2> HIDE DEF W, N
  <2> QED BY <2>1, <2>2, FS_Subset
<1> HIDE DEF N
<1> QED BY <1>1, <1>2 DEF Profiles, ProfilesOf, N

(* A profile is told by the pairs in its graph. *)
LEMMA ProfilesFinite == IsFiniteSet(Profiles)
<1> DEFINE A == 0..Retries
           B == 0..Cardinality(Worker)
           G == [N \in [A -> B] |-> {p \in A \X B : p[2] = N[p[1]]}]
<1>1. IsFiniteSet(A) /\ IsFiniteSet(B)
  <2>1. Cardinality(Worker) \in Nat /\ Retries \in Nat
    BY DeliveryAssumption, FS_CardinalityType
  <2> QED BY <2>1, FS_Interval
<1>2. IsFiniteSet(SUBSET (A \X B))
  <2> HIDE DEF A, B
  <2> QED BY <1>1, FS_Product, FS_SUBSET
<1>3. G \in Injection([A -> B], SUBSET (A \X B))
  <2> HIDE DEF A, B
  <2>1. G \in [[A -> B] -> SUBSET (A \X B)]
    OBVIOUS
  <2>2. ASSUME NEW M \in [A -> B], NEW N \in [A -> B], G[M] = G[N]
        PROVE  M = N
    <3>1. ASSUME NEW k \in A PROVE M[k] = N[k]
      <4>1. <<k, M[k]>> \in A \X B
        OBVIOUS
      <4>2. <<k, M[k]>> \in G[M]
        BY <4>1
      <4>3. <<k, M[k]>> \in G[N]
        BY <2>2, <4>2
      <4> QED BY <4>3
    <3> QED BY <3>1
  <2> HIDE DEF G
  <2> QED BY <2>1, <2>2 DEF Injection, IsInjective
<1>4. IsFiniteSet([A -> B])
  <2> HIDE DEF A, B, G
  <2> QED BY <1>2, <1>3, FS_Injection
<1>5. Profiles \in SUBSET [A -> B]
  BY DEF Profiles, ProfilesOf
<1> HIDE DEF A, B
<1> QED BY <1>4, <1>5, FS_Subset

LEMMA ProfileValues ==
  ASSUME NEW N \in Profiles
  PROVE  /\ \A k \in 0..Retries : N[k] \in Nat /\ N[k] <= Cardinality(Worker)
         /\ \A j, k \in 0..Retries : j <= k => N[j] <= N[k]
         /\ N = [k \in 0..Retries |-> N[k]]
         /\ Retries \in Nat /\ Cardinality(Worker) \in Nat
<1>1. Cardinality(Worker) \in Nat /\ Retries \in Nat
  BY DeliveryAssumption, FS_CardinalityType
<1>2. /\ N \in [0..Retries -> 0..Cardinality(Worker)]
      /\ \A j, k \in 0..Retries : j <= k => N[j] <= N[k]
  BY DEF Profiles, ProfilesOf
<1> QED BY <1>1, <1>2

LEMMA LowerOrder ==
  /\ \A N \in Profiles : ~Lower(N, N)
  /\ \A L, M, N \in Profiles : Lower(L, M) /\ Lower(M, N) => Lower(L, N)
<1>1. ASSUME NEW N \in Profiles PROVE ~Lower(N, N)
  BY ProfileValues DEF Lower
<1>2. ASSUME NEW L \in Profiles, NEW M \in Profiles, NEW N \in Profiles,
             Lower(L, M), Lower(M, N)
      PROVE  Lower(L, N)
  <2>1. PICK i \in 0..Retries : L[i] < M[i] /\ \A j \in 0..(i - 1) : L[j] = M[j]
    BY <1>2 DEF Lower
  <2>2. PICK k \in 0..Retries : M[k] < N[k] /\ \A j \in 0..(k - 1) : M[j] = N[j]
    BY <1>2 DEF Lower
  <2>3. L[i] \in Nat /\ M[i] \in Nat /\ L[k] \in Nat /\ M[k] \in Nat /\ N[i] \in Nat
        /\ N[k] \in Nat /\ Retries \in Nat
    BY ProfileValues
  <2>4. CASE i <= k
    <3>1. L[i] < N[i]
      <4>1. CASE i = k
        BY <2>1, <2>2, <2>3, <4>1
      <4>2. CASE i < k
        BY <2>1, <2>2, <2>3, <4>2
      <4> QED BY <2>3, <2>4, <4>1, <4>2
    <3>2. \A j \in 0..(i - 1) : L[j] = N[j]
      BY <2>1, <2>2, <2>3, <2>4
    <3> QED BY <3>1, <3>2 DEF Lower
  <2>5. CASE k < i
    <3>1. L[k] < N[k]
      BY <2>1, <2>2, <2>3, <2>5
    <3>2. \A j \in 0..(k - 1) : L[j] = N[j]
      BY <2>1, <2>2, <2>3, <2>5
    <3> QED BY <3>1, <3>2 DEF Lower
  <2> QED BY <2>3, <2>4, <2>5
<1> QED BY <1>1, <1>2

LEMMA BelowCount ==
  ASSUME NEW N \in Profiles
  PROVE  /\ IsFiniteSet(Below(N)) /\ Cardinality(Below(N)) \in Nat
         /\ Cardinality(Below(N)) <= MostPosts /\ MostPosts \in Nat
<1>1. IsFiniteSet(Profiles) /\ Cardinality(Profiles) \in Nat
  BY ProfilesFinite, FS_CardinalityType
<1> DEFINE O == Profiles \ {N}
<1>2. IsFiniteSet(O) /\ Cardinality(O) = MostPosts /\ Cardinality(O) \in Nat
  BY <1>1, FS_RemoveElement, FS_CardinalityType DEF MostPosts
<1>3. Below(N) \in SUBSET O
  BY LowerOrder DEF Below
<1> HIDE DEF O
<1> QED BY <1>2, <1>3, FS_Subset, FS_CardinalityType

LEMMA LowerHasFewer ==
  ASSUME NEW M \in Profiles, NEW N \in Profiles, Lower(M, N)
  PROVE  Cardinality(Below(M)) < Cardinality(Below(N))
<1>1. /\ IsFiniteSet(Below(N)) /\ Cardinality(Below(N)) \in Nat /\ Cardinality(Below(M)) \in Nat
  BY BelowCount
<1>2. Below(M) \in SUBSET Below(N) /\ M \in Below(N) /\ M \notin Below(M)
  BY LowerOrder DEF Below
<1>3. Cardinality(Below(M)) <= Cardinality(Below(N)) /\ Cardinality(Below(M)) # Cardinality(Below(N))
  BY <1>1, <1>2, FS_Subset
<1> QED BY <1>1, <1>3

LEMMA LevelsLower ==
  ASSUME NEW l \in [Worker -> Upto], NEW m \in [Worker -> Upto], NEW q \in 0..Retries,
         \A k \in 0..(q - 1) : \A w \in Worker : m[w] <= k <=> l[w] <= k,
         \A w \in Worker : m[w] <= q => l[w] <= q,
         NEW v \in Worker, l[v] <= q, ~ (m[v] <= q)
  PROVE  Lower(Profile(m), Profile(l))
<1> DEFINE W(f, k) == {w \in Worker : f[w] <= k}
<1>1. Profile(m)[q] < Profile(l)[q]
  <2>1. Profile(m)[q] = Cardinality(W(m, q)) /\ Profile(l)[q] = Cardinality(W(l, q))
    BY DEF Profile
  <2>2. W(m, q) \in SUBSET W(l, q) /\ W(m, q) # W(l, q)
    OBVIOUS
  <2>3. IsFiniteSet(W(l, q)) /\ Cardinality(W(l, q)) \in Nat /\ Cardinality(W(m, q)) \in Nat
    BY Counting
  <2>4. Cardinality(W(m, q)) <= Cardinality(W(l, q)) /\ Cardinality(W(m, q)) # Cardinality(W(l, q))
    <3> HIDE DEF W
    <3> QED BY <2>2, <2>3, FS_Subset
  <2> HIDE DEF W
  <2> QED BY <2>1, <2>3, <2>4
<1>2. ASSUME NEW k \in 0..(q - 1) PROVE Profile(m)[k] = Profile(l)[k]
  <2>1. k \in 0..Retries
    BY DeliveryAssumption
  <2>2. W(m, k) = W(l, k)
    OBVIOUS
  <2> QED BY <2>1, <2>2 DEF Profile
<1> QED BY <1>1, <1>2 DEF Lower

LEMMA LeastNumber ==
  ASSUME NEW S \in SUBSET Nat, S # {}
  PROVE  \E k \in S : \A j \in S : k <= j
<1>1. PICK k \in S : \A j \in S : ~ (<<j, k>> \in OpToRel(<, Nat))
  BY NatLessThanWellFounded, WFMin
<1>2. ASSUME NEW j \in S PROVE k <= j
  <2>1. j \in Nat /\ k \in Nat
    OBVIOUS
  <2>2. ~ (j < k)
    BY <1>1, <2>1 DEF OpToRel
  <2> QED BY <2>1, <2>2
<1> QED BY <1>2

(* Below a profile there are as many as it has pods not past the last      *)
(* retry: itself, cut off at each smaller number.                          *)
LEMMA EnoughBelow ==
  ASSUME NEW N \in Profiles
  PROVE  N[Retries] <= Cardinality(Below(N))
<1> DEFINE A == 0..Retries
           n == N[Retries]
           Cut(i) == [k \in A |-> IF N[k] <= i THEN N[k] ELSE i]
           F == [i \in 1..n |-> Cut(i - 1)]
<1>1. /\ Retries \in A /\ n \in Nat /\ Cardinality(Worker) \in Nat
      /\ \A k \in A : N[k] \in Nat /\ N[k] <= Cardinality(Worker) /\ N[k] <= n
      /\ \A j, k \in A : j <= k => N[j] <= N[k]
  BY ProfileValues, DeliveryAssumption
<1>2. ASSUME NEW i \in 0..(n - 1)
      PROVE  Cut(i) \in Below(N)
  <2>1. \A k \in A : Cut(i)[k] = IF N[k] <= i THEN N[k] ELSE i
    OBVIOUS
  <2>2. Cut(i) \in [A -> 0..Cardinality(Worker)]
    BY <1>1
  <2> HIDE DEF Cut
  <2>3. \A j, k \in A : j <= k => Cut(i)[j] <= Cut(i)[k]
    BY <1>1, <2>1
  <2>4. Cut(i) \in Profiles
    BY <2>2, <2>3 DEF Profiles, ProfilesOf
  <2> DEFINE S == {k \in A : N[k] > i}
  <2>5. S \in SUBSET Nat /\ S # {}
    BY <1>1
  <2>6. PICK k \in S : \A j \in S : k <= j
    <3> HIDE DEF S
    <3> QED BY <2>5, LeastNumber
  <2>7. Cut(i)[k] < N[k]
    BY <1>1, <2>1
  <2>8. ASSUME NEW j \in 0..(k - 1) PROVE Cut(i)[j] = N[j]
    <3>1. j \in A /\ j \notin S
      BY <2>6, DeliveryAssumption
    <3> QED BY <1>1, <2>1, <3>1
  <2> QED BY <2>4, <2>7, <2>8 DEF Below, Lower
<1>3. F \in [1..n -> Below(N)]
  <2> HIDE DEF Cut
  <2> QED BY <1>1, <1>2
<1>4. ASSUME NEW i \in 1..n, NEW j \in 1..n, F[i] = F[j]
      PROVE  i = j
  <2>1. \A k \in 1..n : F[k][Retries] = k - 1
    BY <1>1
  <2> HIDE DEF F
  <2> QED BY <1>1, <1>4, <2>1
<1>5. F \in Injection(1..n, Below(N))
  <2> HIDE DEF F
  <2> QED BY <1>3, <1>4 DEF Injection, IsInjective
<1>6. IsFiniteSet(Below(N))
  BY BelowCount
<1>7. Cardinality(1..n) = n
  <2>1. n \in Int /\ 1 \in Int /\ n >= 0
    BY <1>1
  <2> HIDE DEF n
  <2>2. Cardinality(1..n) = IF 1 > n THEN 0 ELSE n - 1 + 1
    BY <2>1, FS_Interval
  <2> QED BY <2>1, <2>2
<1>8. Cardinality(1..n) <= Cardinality(Below(N))
  <2> HIDE DEF F, n
  <2> QED BY <1>5, <1>6, FS_Injection
<1> QED BY <1>7, <1>8

-----------------------------------------------------------------------------
(* The posts of a row are paid for, through every step of the pods.        *)

Live == {"none", "queued", "failed"}
Busy == {"posting", "sent", "failed"}

Left(d) == Cardinality(Below(Profile(Levels(d))))
Covered(d) == posts[d] + Left(d) <= (losses + 1) * MostPosts + Cardinality(Posting(d))

LEMMA PodTypes ==
  ASSUME StoreInv
  PROVE  /\ row \in [Row -> RowState] /\ worker \in [Worker -> Doing]
         /\ posts \in [Row -> Nat] /\ losses \in Nat
         /\ \A w \in Worker : /\ DOMAIN worker[w].batch \subseteq Row
                              /\ \A d \in DOMAIN worker[w].batch :
                                   worker[w].batch[d].attempt \in 0..Retries
         /\ \A w \in Worker : worker[w].at \in Busy =>
              worker[w].current \in DOMAIN worker[w].batch
  BY DeliveryAssumption DEF StoreInv, TypeOK, DeliveryType, DeliveryInv, Doing, Read, Busy

LEMMA LevelsType ==
  ASSUME StoreInv, NEW d \in Row
  PROVE  Levels(d) \in [Worker -> Upto]
<1>1. row[d].attempt \in Upto /\ 0..Retries \subseteq Upto /\ Retries + 1 \in Upto
  BY PodTypes, DeliveryAssumption DEF RowState, Upto
<1> QED BY <1>1, PodTypes DEF Levels

LEMMA LevelsTypeNext ==
  ASSUME StoreInv', NEW d \in Row
  PROVE  Levels(d)' \in [Worker -> Upto]
<1>1. /\ row' \in [Row -> RowState]
      /\ \A w \in Worker : \A e \in DOMAIN worker'[w].batch :
           worker'[w].batch[e].attempt \in 0..Retries
  BY DEF StoreInv, TypeOK, DeliveryType, Doing, Read
<1>2. row'[d].attempt \in Upto /\ 0..Retries \subseteq Upto /\ Retries + 1 \in Upto
  BY <1>1, DeliveryAssumption DEF RowState, Upto
<1> QED BY <1>1, <1>2 DEF Levels

(* The terms of Covered are numbers. *)
LEMMA Numbers ==
  ASSUME StoreInv, StoreInv', NEW d \in Row
  PROVE  /\ posts[d] \in Nat /\ posts'[d] \in Nat /\ losses \in Nat /\ losses' \in Nat
         /\ Left(d) \in Nat /\ Left(d) <= MostPosts
         /\ Left(d)' \in Nat /\ Left(d)' <= MostPosts /\ MostPosts \in Nat
         /\ IsFiniteSet(Posting(d)) /\ Cardinality(Posting(d)) \in Nat
         /\ IsFiniteSet(Posting(d)') /\ Cardinality(Posting(d)') \in Nat
<1>1. Profile(Levels(d)) \in Profiles /\ Profile(Levels(d)') \in Profiles
  BY LevelsType, LevelsTypeNext, ProfileType
<1>2. Posting(d) \in SUBSET Worker /\ Posting(d)' \in SUBSET Worker
  BY DEF Posting
<1>3. /\ IsFiniteSet(Posting(d)) /\ Cardinality(Posting(d)) \in Nat
      /\ IsFiniteSet(Posting(d)') /\ Cardinality(Posting(d)') \in Nat
  BY <1>2, FS_Subset, FS_CardinalityType, DeliveryAssumption
<1>4. losses' \in Nat /\ posts' \in [Row -> Nat]
  BY DeliveryAssumption DEF StoreInv, TypeOK, DeliveryType
<1> QED BY <1>1, <1>3, <1>4, BelowCount, PodTypes DEF Left

LEMMA MoreLosses ==
  ASSUME NEW a \in Nat, NEW b \in Nat, NEW m \in Nat, a <= b
  PROVE  /\ (a + 1) * m <= (b + 1) * m /\ (a + 1) * m \in Nat /\ (b + 1) * m \in Nat
         /\ (a + 1 + 1) * m = (a + 1) * m + m
<1>1. (a + 1) * m \in Nat /\ (b + 1) * m \in Nat /\ (b - a) * m \in Nat
  OBVIOUS
<1>2. (b + 1) * m = (a + 1) * m + (b - a) * m
  OBVIOUS
<1> QED BY <1>1, <1>2

(* Steps after which the pods stand where they stood and post what they    *)
(* posted.                                                                 *)
LEMMA StillCovered ==
  ASSUME StoreInv, StoreInv', NEW d \in Row, Covered(d), posts'[d] = posts[d],
         losses' >= losses, Levels(d)' = Levels(d), Posting(d)' = Posting(d)
  PROVE  Covered(d)'
<1>1. Left(d)' = Left(d)
  BY DEF Left
<1>2. (losses + 1) * MostPosts <= (losses' + 1) * MostPosts
      /\ (losses + 1) * MostPosts \in Nat /\ (losses' + 1) * MostPosts \in Nat
  BY Numbers, MoreLosses
<1> QED BY <1>1, <1>2, Numbers DEF Covered

LEMMA QuietStep ==
  ASSUME StoreInv, StoreInv', PostsInv, posts' = posts, losses' >= losses,
         \A w \in Worker : /\ worker'[w].batch = worker[w].batch
                           /\ worker'[w].current = worker[w].current
                           /\ worker'[w].at \in Busy <=> worker[w].at \in Busy
                           /\ worker'[w].at = "idle" => worker[w].at = "idle",
         \A d \in Row : /\ row'[d].status \in Live <=> row[d].status \in Live
                        /\ row'[d].attempt = row[d].attempt
  PROVE  PostsInv'
<1>1. ASSUME NEW d \in Row PROVE Covered(d)'
  <2>1. Levels(d)' = Levels(d)
    BY DEF Levels, Live
  <2>2. Posting(d)' = Posting(d)
    BY DEF Posting, Busy
  <2> QED BY <2>1, <2>2, StillCovered DEF PostsInv, Covered, Left
<1>2. \A w \in Worker : worker'[w].at = "idle" => DOMAIN worker'[w].batch = {}
  BY DEF PostsInv
<1> QED BY <1>1, <1>2 DEF PostsInv, Covered, Left

(* A select reads the rows at the count they have. *)
LEMMA SelectPosts ==
  ASSUME StoreInv, StoreInv', PostsInv, NEW w \in Worker, Select(w)
  PROVE  PostsInv'
<1>1. /\ worker[w].at = "idle" /\ DOMAIN worker[w].batch = {}
      /\ worker'[w].at = "rows" /\ \A v \in Worker \ {w} : worker'[v] = worker[v]
      /\ DOMAIN worker'[w].batch = {e \in Row : IsDue(e)}
      /\ \A d \in DOMAIN worker'[w].batch : worker'[w].batch[d].attempt = row[d].attempt
      /\ UNCHANGED <<row, posts, losses>>
  BY PodTypes DEF Select, PostsInv
<1>2. ASSUME NEW d \in Row PROVE Covered(d)'
  <2>1. Levels(d)' = Levels(d)
    BY <1>1 DEF Levels, IsDue
  <2>2. Posting(d)' = Posting(d)
    BY <1>1 DEF Posting
  <2> QED BY <1>1, <2>1, <2>2, StillCovered, Numbers DEF PostsInv, Covered, Left
<1>3. \A v \in Worker : worker'[v].at = "idle" => DOMAIN worker'[v].batch = {}
  BY <1>1 DEF PostsInv
<1> QED BY <1>2, <1>3 DEF PostsInv, Covered, Left

(* A pod that begins to post, or fails before it does. *)
LEMMA PostPosts ==
  ASSUME StoreInv, StoreInv', PostsInv, NEW w \in Worker, NEW d \in Row,
         Post(w, d) \/ DoesNotResolve(w, d)
  PROVE  PostsInv'
<1>1. /\ worker[w].at = "rows" /\ worker'[w].at \in Busy /\ worker'[w].current = d
      /\ worker'[w].batch = worker[w].batch
      /\ \A v \in Worker \ {w} : worker'[v] = worker[v]
      /\ UNCHANGED <<row, losses>>
      /\ \A e \in Row \ {d} : posts'[e] = posts[e]
      /\ posts'[d] = posts[d] \/ posts'[d] = posts[d] + 1
  BY PodTypes DEF Post, DoesNotResolve, Busy, Doing
<1>2. \A e \in Row : Levels(e)' = Levels(e)
  BY <1>1 DEF Levels
<1>3. ASSUME NEW e \in Row \ {d} PROVE Covered(e)'
  <2>1. Posting(e)' = Posting(e)
    BY <1>1 DEF Posting, Busy
  <2> QED BY <1>1, <1>2, <2>1, StillCovered, Numbers DEF PostsInv, Covered, Left
<1>4. Covered(d)'
  <2>1. Posting(d)' = Posting(d) \cup {w} /\ w \notin Posting(d)
    BY <1>1 DEF Posting, Busy
  <2>2. Cardinality(Posting(d)') = Cardinality(Posting(d)) + 1
    BY <2>1, Numbers, FS_AddElement
  <2>3. Left(d)' = Left(d)
    BY <1>2 DEF Left
  <2>4. (losses + 1) * MostPosts \in Nat /\ losses' = losses /\ Covered(d)
    BY <1>1, Numbers, MoreLosses DEF PostsInv, Covered, Left
  <2> QED BY <1>1, <2>2, <2>3, <2>4, Numbers DEF Covered
<1>5. \A v \in Worker : worker'[v].at = "idle" => DOMAIN worker'[v].batch = {}
  BY <1>1 DEF PostsInv, Busy
<1> QED BY <1>3, <1>4, <1>5 DEF PostsInv, Covered, Left

LEMMA WithoutLeaves ==
  ASSUME NEW w \in Worker, NEW d
  PROVE  /\ DOMAIN Without(w, d).batch = DOMAIN worker[w].batch \ {d}
         /\ \A e \in DOMAIN Without(w, d).batch :
              Without(w, d).batch[e] = worker[w].batch[e]
         /\ Without(w, d).at \in {"idle", "rows"}
         /\ Without(w, d).at = "idle" => DOMAIN Without(w, d).batch = {}
  BY DEF Without, Idle

(* What a pod writes of a row leaves its profile for good: the row, and    *)
(* the pods that have not read it, are past what the pod read.             *)
LEMMA Settles ==
  ASSUME StoreInv, StoreInv', NEW w \in Worker, NEW d \in DOMAIN worker[w].batch,
         NEW f \in Upto, worker[w].batch[d].attempt < f,
         \A v \in Worker \ {w} : worker'[v] = worker[v],
         d \notin DOMAIN worker'[w].batch,
         f = IF row'[d].status \in Live THEN row'[d].attempt ELSE Retries + 1
  PROVE  Left(d)' < Left(d)
<1> DEFINE l == Levels(d)
           m == Levels(d)'
           r == worker[w].batch[d].attempt
           free == IF row[d].status \in Live THEN row[d].attempt ELSE Retries + 1
           F == {v \in Worker \ {w} : d \notin DOMAIN worker[v].batch}
           q == IF F # {} /\ free < r THEN free ELSE r
<1>1. d \in Row /\ r \in 0..Retries /\ Retries \in Nat
  BY PodTypes, DeliveryAssumption
<1>2. l \in [Worker -> Upto] /\ m \in [Worker -> Upto]
  BY <1>1, LevelsType, LevelsTypeNext
<1>3. free \in Upto
  BY <1>1, PodTypes DEF RowState, Upto
<1>4. /\ l[w] = r /\ m[w] = f
      /\ \A v \in F : l[v] = free /\ m[v] = f
      /\ \A v \in Worker \ (F \cup {w}) : m[v] = l[v]
  BY DEF Levels, Live
<1> HIDE DEF l, m, r, free, F
<1>5. q \in 0..Retries
  BY <1>1, <1>3 DEF Upto
<1>6. \A k \in 0..(q - 1) : \A v \in Worker : m[v] <= k <=> l[v] <= k
  BY <1>1, <1>2, <1>3, <1>4 DEF Upto, r
<1>7. \A v \in Worker : m[v] <= q => l[v] <= q
  BY <1>1, <1>2, <1>3, <1>4 DEF Upto, r
<1>8. \E v \in Worker : l[v] <= q /\ ~(m[v] <= q)
  BY <1>1, <1>2, <1>3, <1>4 DEF Upto, r, F
<1>9. Lower(Profile(m), Profile(l))
  <2> HIDE DEF q
  <2> QED BY <1>2, <1>5, <1>6, <1>7, <1>8, LevelsLower
<1>10. Profile(m) \in Profiles /\ Profile(l) \in Profiles
  BY <1>2, ProfileType
<1>11. Cardinality(Below(Profile(m))) < Cardinality(Below(Profile(l)))
  BY <1>9, <1>10, LowerHasFewer
<1> QED BY <1>11 DEF Left, l, m

LEMMA LandsPosts ==
  ASSUME StoreInv, StoreInv', PostsInv, NEW w \in Worker, NEW d \in DOMAIN worker[w].batch,
         worker[w].at \in Busy => worker[w].current = d,
         NEW s, row' = [row EXCEPT ![d] = s],
         s.status \in Live => worker[w].batch[d].attempt < s.attempt,
         worker' = [worker EXCEPT ![w] = Without(w, d)], UNCHANGED <<posts, losses>>
  PROVE  PostsInv'
<1>1. d \in Row /\ worker[w].batch[d].attempt \in 0..Retries /\ Retries \in Nat
  BY PodTypes, DeliveryAssumption
<1>2. /\ \A v \in Worker \ {w} : worker'[v] = worker[v] /\ worker'[w] = Without(w, d)
      /\ \A e \in Row \ {d} : row'[e] = row[e]
      /\ row'[d] = s
  BY <1>1, PodTypes
<1>3. /\ DOMAIN worker'[w].batch = DOMAIN worker[w].batch \ {d}
      /\ \A e \in DOMAIN worker'[w].batch : worker'[w].batch[e] = worker[w].batch[e]
      /\ worker'[w].at \in {"idle", "rows"}
      /\ worker'[w].at = "idle" => DOMAIN worker'[w].batch = {}
  BY <1>1, PodTypes, WithoutLeaves
<1>4. ASSUME NEW e \in Row \ {d} PROVE Covered(e)'
  <2>1. Levels(e)' = Levels(e)
    BY <1>2, <1>3 DEF Levels
  <2>2. Posting(e)' = Posting(e)
    BY <1>2, <1>3 DEF Posting, Busy
  <2> QED BY <2>1, <2>2, StillCovered, Numbers DEF PostsInv, Covered, Left
<1>5. Covered(d)'
  <2> DEFINE f == IF row'[d].status \in Live THEN row'[d].attempt ELSE Retries + 1
  <2>1. row' \in [Row -> RowState]
    BY DEF StoreInv, TypeOK, DeliveryType
  <2>2. f \in Upto /\ worker[w].batch[d].attempt < f
    BY <1>1, <1>2, <2>1 DEF Upto, RowState
  <2>3. d \notin DOMAIN worker'[w].batch
    BY <1>3
  <2>4. Left(d)' < Left(d)
    BY <1>2, <2>2, <2>3, Settles
  <2>5. Posting(d)' = Posting(d) \ {w}
    BY <1>2, <1>3 DEF Posting, Busy
  <2>6. Cardinality(Posting(d)') >= Cardinality(Posting(d)) - 1
    BY <1>1, <2>5, Numbers, FS_RemoveElement
  <2>7. (losses + 1) * MostPosts \in Nat /\ losses' = losses /\ posts' = posts /\ Covered(d)
    BY <1>1, Numbers, MoreLosses DEF PostsInv, Covered, Left
  <2> QED BY <1>1, <2>4, <2>6, <2>7, Numbers DEF Covered
<1>6. \A v \in Worker : worker'[v].at = "idle" => DOMAIN worker'[v].batch = {}
  BY <1>2, <1>3 DEF PostsInv
<1> QED BY <1>4, <1>5, <1>6 DEF PostsInv, Covered, Left

(* While a pod is busy with a row there is a profile below. *)
LEMMA PostingBelow ==
  ASSUME StoreInv, NEW d \in Row
  PROVE  Cardinality(Posting(d)) <= Left(d)
<1> DEFINE l == Levels(d)
           N == Profile(l)
           W == {w \in Worker : l[w] <= Retries}
<1>1. l \in [Worker -> Upto] /\ N \in Profiles /\ Retries \in Nat
  BY LevelsType, ProfileType, DeliveryAssumption
<1>2. N[Retries] = Cardinality(W) /\ IsFiniteSet(W) /\ Cardinality(W) \in Nat
  <2>1. Retries \in 0..Retries
    BY <1>1
  <2>2. N[Retries] = Cardinality(W)
    BY <2>1 DEF Profile
  <2> QED BY <2>2, Counting
<1>3. Posting(d) \in SUBSET W
  BY PodTypes DEF Posting, Levels, Busy
<1>4. Cardinality(Posting(d)) <= Cardinality(W) /\ Cardinality(Posting(d)) \in Nat
  <2> HIDE DEF W
  <2> QED BY <1>2, <1>3, FS_Subset, FS_CardinalityType
<1>5. N[Retries] <= Cardinality(Below(N)) /\ Cardinality(Below(N)) \in Nat
  <2> HIDE DEF N
  <2> QED BY <1>1, EnoughBelow, BelowCount
<1> HIDE DEF N, W
<1> QED BY <1>2, <1>4, <1>5 DEF Left, N

(* A loss pays for all profiles anew. *)
LEMMA LostPosts ==
  ASSUME StoreInv, StoreInv', PostsInv, NEW w \in Worker, NEW s,
         worker' = [worker EXCEPT ![w] = s], s.at \notin Busy,
         s.at = "idle" => DOMAIN s.batch = {}, losses' = losses + 1, posts' = posts
  PROVE  PostsInv'
<1>1. \A v \in Worker \ {w} : worker'[v] = worker[v] /\ worker'[w] = s
  BY PodTypes
<1>2. ASSUME NEW d \in Row PROVE Covered(d)'
  <2>1. Posting(d)' = Posting(d) \ {w}
    BY <1>1, PodTypes DEF Posting, Busy
  <2>2. Cardinality(Posting(d)') \in Nat
    BY Numbers
  <2>3. Cardinality(Posting(d)) <= Left(d)
    BY PostingBelow
  <2>4. /\ (losses + 1) * MostPosts \in Nat
        /\ (losses' + 1) * MostPosts = (losses + 1) * MostPosts + MostPosts
    BY Numbers, MoreLosses
  <2>5. Covered(d)
    BY DEF PostsInv, Covered, Left
  <2> QED BY <2>2, <2>3, <2>4, <2>5, Numbers DEF Covered
<1>3. \A v \in Worker : worker'[v].at = "idle" => DOMAIN worker'[v].batch = {}
  BY <1>1, PodTypes DEF PostsInv
<1> QED BY <1>2, <1>3 DEF PostsInv, Covered, Left

LEMMA WritePosts ==
  ASSUME StoreInv, StoreInv', PostsInv, NEW w \in Worker, Write(w)
  PROVE  PostsInv'
<1> DEFINE d == worker[w].current
           r == worker[w].batch[d].attempt
<1>1. /\ worker[w].at \in Busy /\ d \in DOMAIN worker[w].batch /\ r \in 0..Retries
      /\ Retries \in Nat
  BY PodTypes, DeliveryAssumption DEF Write, Busy
<1>2. /\ posts' = posts /\ worker' = [worker EXCEPT ![w] = Without(w, d)]
      /\ \/ row' = [row EXCEPT ![d] = After(w, r)] /\ losses' = losses
         \/ Lose
  BY DEF Write
<1>3. CASE row' = [row EXCEPT ![d] = After(w, r)] /\ losses' = losses
  <2>1. After(w, r).status \in Live => r < After(w, r).attempt
    BY <1>1 DEF After, Live
  <2> QED BY <1>1, <1>2, <1>3, <2>1, LandsPosts
<1>4. CASE Lose
  <2>1. /\ Without(w, d).at \notin Busy
        /\ Without(w, d).at = "idle" => DOMAIN Without(w, d).batch = {}
    BY WithoutLeaves DEF Busy
  <2> QED BY <1>2, <1>4, <2>1, LostPosts DEF Lose
<1> QED BY <1>2, <1>3, <1>4

LEMMA DiscardPosts ==
  ASSUME StoreInv, StoreInv', PostsInv, NEW w \in Worker, NEW d \in Row, Discard(w, d)
  PROVE  PostsInv'
<1>1. /\ worker[w].at = "rows" /\ d \in DOMAIN worker[w].batch
      /\ posts' = posts /\ worker' = [worker EXCEPT ![w] = Without(w, d)]
      /\ \/ row' = [row EXCEPT ![d] = [row[d] EXCEPT !.status = "dead"]] /\ losses' = losses
         \/ Lose
  BY DEF Discard
<1>2. CASE row' = [row EXCEPT ![d] = [row[d] EXCEPT !.status = "dead"]] /\ losses' = losses
  <2>1. [row[d] EXCEPT !.status = "dead"].status \notin Live
    BY PodTypes DEF RowState, Live
  <2>2. worker[w].at \notin Busy
    BY <1>1 DEF Busy
  <2> QED BY <1>1, <1>2, <2>1, <2>2, LandsPosts
<1>3. CASE Lose
  <2>1. /\ Without(w, d).at \notin Busy
        /\ Without(w, d).at = "idle" => DOMAIN Without(w, d).batch = {}
    BY WithoutLeaves DEF Busy
  <2> QED BY <1>1, <1>3, <2>1, LostPosts DEF Lose
<1> QED BY <1>1, <1>2, <1>3

LEMMA CrashPosts ==
  ASSUME StoreInv, StoreInv', PostsInv, NEW w \in Worker, Crash(w)
  PROVE  PostsInv'
<1>1. Idle.at \notin Busy /\ DOMAIN Idle.batch = {}
  BY DEF Idle, Busy
<1> QED BY <1>1, LostPosts DEF Crash, Lose

(* An answer, or none. *)
LEMMA AnsweredPosts ==
  ASSUME StoreInv, StoreInv', PostsInv, NEW w \in Worker,
         NEW result \in {"sent", "failed"}, Answered(w, result)
  PROVE  PostsInv'
<1>1. \A v \in Worker : /\ worker'[v].batch = worker[v].batch
                        /\ worker'[v].current = worker[v].current
                        /\ worker'[v].at \in Busy <=> worker[v].at \in Busy
                        /\ worker'[v].at = "idle" => worker[v].at = "idle"
  BY PodTypes DEF Answered, Doing, Busy
<1> QED BY <1>1, QuietStep, PodTypes DEF Answered

LEMMA RespondPosts ==
  ASSUME StoreInv, StoreInv', PostsInv, NEW j \in jobs, NEW result \in {"sent", "failed"},
         Respond(j, result)
  PROVE  PostsInv'
<1>1. CASE j.worker = None
  BY <1>1, QuietStep, PodTypes DEF Respond
<1>2. CASE j.worker # None
  <2>1. j.worker \in Worker
    BY <1>2 DEF StoreInv, TypeOK, Job
  <2> QED BY <1>2, <2>1, AnsweredPosts DEF Respond
<1> QED BY <1>1, <1>2

LEMMA ConnectorCrashPosts ==
  ASSUME StoreInv, StoreInv', PostsInv, ConnectorCrash
  PROVE  PostsInv'
<1>1. \A v \in Worker : /\ worker'[v].batch = worker[v].batch
                        /\ worker'[v].current = worker[v].current
                        /\ worker'[v].at \in Busy <=> worker[v].at \in Busy
                        /\ worker'[v].at = "idle" => worker[v].at = "idle"
  BY PodTypes DEF ConnectorCrash, Doing, Busy
<1>2. posts' = posts /\ row' = row /\ losses' >= losses
  BY PodTypes DEF ConnectorCrash
<1> QED BY <1>1, <1>2, QuietStep

(* A row changes in what no pod stands on. *)
LEMMA RowPosts ==
  ASSUME StoreInv, StoreInv', PostsInv, NEW d \in Row,
         Pay(d) \/ Elapse(d)
  PROVE  PostsInv'
<1>1. UNCHANGED <<worker, posts, losses>>
  BY DEF Pay, Elapse
<1>2. \A e \in Row : /\ row'[e].status \in Live <=> row[e].status \in Live
                     /\ row'[e].attempt = row[e].attempt
  BY PodTypes DEF Pay, Insert, Elapse, RowState, Live
<1>3. losses' >= losses
  BY <1>1, PodTypes
<1> QED BY <1>1, <1>2, <1>3, QuietStep

LEMMA StepPosts == StoreInv /\ StoreInv' /\ PostsInv /\ [Next]_vars => PostsInv'
<1> SUFFICES ASSUME StoreInv, StoreInv', PostsInv, [Next]_vars PROVE PostsInv'
  OBVIOUS
<1>1. ASSUME UNCHANGED <<row, worker, posts, losses>> PROVE PostsInv'
  BY <1>1, QuietStep, PodTypes
<1>2. ASSUME NEW h \in Hook,
             OrderRecorded(h) \/ \E x \in ShopOrder, o \in Row : OrdersCreate(h, x, o)
      PROVE  PostsInv'
  BY <1>1, <1>2 DEF OrderRecorded, OrdersCreate, deliveryVars
<1>3. ASSUME NEW x \in ShopOrder, FollowLink(x) \/ ShopRedact(x) PROVE PostsInv'
  BY <1>1, <1>3 DEF FollowLink, ShopRedact, deliveryVars
<1>4. ASSUME NEW w \in Worker, WorkerStep(w) PROVE PostsInv'
  BY <1>4, SelectPosts, WritePosts, DiscardPosts, PostPosts DEF WorkerStep
<1>5. ASSUME NEW w \in Worker, GiveUp(w) \/ WorkerCrash(w) PROVE PostsInv'
  BY <1>5, AnsweredPosts, CrashPosts DEF GiveUp, WorkerCrash
<1>6. ASSUME NEW w \in Worker, NEW d \in Row, PostToShop(w, d) PROVE PostsInv'
  BY <1>6, PostPosts DEF PostToShop
<1>7. ASSUME NEW j \in jobs, Acknowledge(j) \/ Record(j) PROVE PostsInv'
  BY <1>7, RespondPosts DEF Acknowledge, Record
<1>8. ASSUME NEW j \in jobs, Match(j) \/ Mark(j) PROVE PostsInv'
  BY <1>1, <1>8 DEF Match, Mark, deliveryVars
<1>9. ASSUME SetUrl \/ UNCHANGED vars PROVE PostsInv'
  BY <1>1, <1>9 DEF SetUrl, vars, deliveryVars
<1> QED
  BY <1>2, <1>3, <1>4, <1>5, <1>6, <1>7, <1>8, <1>9, RowPosts, ConnectorCrashPosts DEF Next

LEMMA InitPosts == Init => PostsInv
<1> SUFFICES ASSUME Init PROVE PostsInv
  OBVIOUS
<1>1. /\ posts = [d \in Row |-> 0] /\ losses = 0 /\ worker = [w \in Worker |-> Idle]
      /\ DOMAIN Idle.batch = {} /\ Idle.at = "idle"
      /\ \A d \in Row : row[d].attempt = 0 /\ row[d].status = "none"
  BY DEF Init, DeliveryInit, Idle
<1>2. ASSUME NEW d \in Row PROVE Covered(d)
  <2>1. Levels(d) \in [Worker -> Upto]
    BY <1>1, DeliveryAssumption DEF Levels, Upto
  <2>2. Left(d) \in Nat /\ Left(d) <= MostPosts /\ MostPosts \in Nat
    BY <2>1, ProfileType, BelowCount DEF Left
  <2>3. Posting(d) = {}
    BY <1>1 DEF Posting
  <2>4. Cardinality(Posting(d)) = 0
    BY <2>3, FS_EmptySet
  <2> QED BY <1>1, <2>2, <2>4 DEF Covered
<1> QED BY <1>1, <1>2 DEF PostsInv, Covered, Left

LEMMA PostsAreCovered == StoreInv /\ PostsInv => PostsAreBounded
<1> SUFFICES ASSUME StoreInv, PostsInv, NEW d \in Row
             PROVE  posts[d] <= (losses + 1) * MostPosts
  BY DEF PostsAreBounded
<1>1. Profile(Levels(d)) \in Profiles
  BY LevelsType, ProfileType
<1>2. Left(d) \in Nat /\ MostPosts \in Nat /\ posts[d] \in Nat /\ losses \in Nat
  BY <1>1, BelowCount, PodTypes DEF Left
<1>3. Posting(d) \in SUBSET Worker
  BY DEF Posting
<1>4. Cardinality(Posting(d)) <= Left(d) /\ Cardinality(Posting(d)) \in Nat
  BY <1>3, PostingBelow, FS_Subset, FS_CardinalityType, DeliveryAssumption
<1>5. (losses + 1) * MostPosts \in Nat
  BY <1>2, MoreLosses
<1>6. posts[d] + Left(d) <= (losses + 1) * MostPosts + Cardinality(Posting(d))
  BY DEF PostsInv, Left
<1> QED BY <1>2, <1>4, <1>5, <1>6

-----------------------------------------------------------------------------
(* The theorems.                                                           *)

LEMMA InitInv == Init => IInv
BY StoreInit, InitPosts DEF IInv

LEMMA StepInv == IInv /\ [Next]_vars => IInv'
BY StoreStep, StepPosts DEF IInv

(* The inductive invariant holds. *)
THEOREM Invariant == Spec => []IInv
BY InitInv, StepInv, PTL DEF Spec

(* The state of both programs stays well typed. *)
THEOREM TypeCorrect == Spec => []TypeOK
<1>1. IInv => TypeOK  BY DEF IInv, StoreInv
<1> QED BY <1>1, Invariant, PTL

(* A payment's event that counts as sent has had its Shopify order tried.  *)
THEOREM SentWasTriedHolds == Spec => []SentWasTried
<1>1. IInv => SentWasTried  BY DEF IInv, StoreInv
<1> QED BY <1>1, Invariant, PTL

(* Shopify and the buyer are told of no payment that was not made in full. *)
THEOREM MarkedWasPaidHolds == Spec => []MarkedWasPaid
<1>1. IInv => MarkedWasPaid  BY DEF IInv, StoreInv
<1> QED BY <1>1, Invariant, PTL

(* No row is posted more often than there are profiles to leave, however   *)
(* many pods post it at once and overwrite each other's attempt counts; a  *)
(* crash or a failed write starts the count afresh.                        *)
THEOREM PostsAreBoundedHolds == Spec => []PostsAreBounded
<1>1. IInv => PostsAreBounded  BY PostsAreCovered DEF IInv
<1> QED BY <1>1, Invariant, PTL
=============================================================================
