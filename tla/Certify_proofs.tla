--------------------------- MODULE Certify_proofs ---------------------------
(***************************************************************************)
(* What the obligations of smt.rs amount to, for all integers the solver   *)
(* may take, and what the gate's verdict is worth.                         *)
(***************************************************************************)
EXTENDS Certify, TLAPS

LEMMA QueryType ==
  ASSUME NEW q \in Query
  PROVE  /\ q.cap \in Nat /\ q.per_tx \in Nat /\ q.window \in Nat
         /\ q.elapsed \in Nat /\ q.amount \in Nat
         /\ q.prev \in Nat /\ q.cur \in Nat
         /\ 0 < q.per_tx /\ q.per_tx <= q.cap
         /\ q.window >= 60
         /\ 0 < q.amount /\ q.amount <= q.per_tx
  BY QueryAssumption DEF Query

\* The weighted part of the earlier epoch is never negative.
LEMMA WeightedNat ==
  ASSUME NEW q \in Query
  PROVE  Weighted(q) \in Nat
<1> DEFINE w == q.window
           left == w - InEpoch(q)
           product == Prev1(q) * left
<1>1. Prev1(q) \in Nat /\ left \in Nat /\ w \in Nat /\ w > 0
  BY QueryType DEF Prev1, InEpoch, Rolls
<1>2. product \in Nat
  <2> HIDE DEF left
  <2> QED BY <1>1
<1>3. product \div w \in Nat
  <2> HIDE DEF product, w
  <2> QED BY <1>1, <1>2
<1> QED BY <1>3 DEF Weighted

LEMMA SeveralWindows ==
  ASSUME NEW k \in Nat, k >= 2, NEW cap \in Nat
  PROVE  2 * cap <= k * cap
<1>1. PICK d \in Nat : k = d + 2
  <2>1. k - 2 \in Nat /\ k = (k - 2) + 2
    OBVIOUS
  <2> QED BY <2>1
<1>2. d * cap \in Nat
  OBVIOUS
<1>3. (d + 2) * cap = d * cap + 2 * cap
  OBVIOUS
<1> QED BY <1>1, <1>2, <1>3

\* What an accepted charge leaves, before the bound is looked at.
LEMMA Charged ==
  ASSUME NEW m \in Nat, NEW k \in Nat, NEW q \in Query,
         Within(k, q.cap, q.prev, q.cur), Accepts(m, q)
  PROVE  /\ Prev1(q) \in Nat /\ Prev1(q) <= q.cap
         /\ Cur2(q) \in Nat /\ Cur2(q) <= q.cap
<1>1. Prev1(q) \in Nat /\ Prev1(q) <= q.cap
  BY QueryType DEF Within, Prev1
<1>2. Cur1(q) \in Nat
  BY QueryType DEF Cur1
<1>3. Cur2(q) \in Nat /\ Cur2(q) <= q.cap
  BY <1>2, QueryType, WeightedNat DEF Cur2, Accepts
<1> QED BY <1>1, <1>3

\* Two windows or more bound the outflow under any ceiling: the weighted
\* check alone keeps each epoch within one.
LEMMA TwoWindows ==
  ASSUME NEW m \in Nat, NEW k \in Nat, k >= 2
  PROVE  Inductive(m, k)
<1> SUFFICES ASSUME NEW q \in Query,
                    Within(k, q.cap, q.prev, q.cur), Accepts(m, q)
             PROVE  Within(k, q.cap, Prev1(q), Cur2(q))
  BY DEF Inductive
<1>1. /\ Prev1(q) \in Nat /\ Prev1(q) <= q.cap
      /\ Cur2(q) \in Nat /\ Cur2(q) <= q.cap
  BY Charged
<1>2. q.cap \in Nat /\ 2 * q.cap <= k * q.cap /\ k * q.cap \in Nat
  BY QueryType, SeveralWindows
<1>3. Prev1(q) + Cur2(q) <= k * q.cap
  <2> DEFINE bound == k * q.cap
  <2>1. Prev1(q) + Cur2(q) <= 2 * q.cap
    BY <1>1, <1>2
  <2> HIDE DEF bound
  <2> QED BY <1>1, <1>2, <2>1 DEF bound
<1> QED BY <1>1, <1>3 DEF Within

\* A ceiling of k windows is its own bound.
LEMMA OneWindow == Inductive(1, 1)
<1> SUFFICES ASSUME NEW q \in Query,
                    Within(1, q.cap, q.prev, q.cur), Accepts(1, q)
             PROVE  Within(1, q.cap, Prev1(q), Cur2(q))
  BY DEF Inductive
<1>1. /\ Prev1(q) \in Nat /\ Prev1(q) <= q.cap
      /\ Cur2(q) \in Nat /\ Cur2(q) <= q.cap
  BY Charged
<1>2. q.cap \in Nat /\ Cur1(q) \in Nat /\ q.amount \in Nat
  BY QueryType DEF Cur1
<1>3. Prev1(q) + Cur2(q) <= 1 * q.cap
  BY <1>1, <1>2 DEF Accepts, Cur2
<1> QED BY <1>1, <1>3 DEF Within

\* The smallest charge there is, early in an epoch.
LEMMA SmallestQuery ==
  ASSUME NEW prev \in {0, 1}, NEW elapsed \in {0, 1}
  PROVE  \E q \in Query :
           /\ q.cap = 1 /\ q.amount = 1 /\ q.prev = prev /\ q.cur = 0
           /\ q.elapsed = elapsed
<1>1. PICK w \in Window : w >= 60
  BY QueryAssumption
<1> DEFINE q == [cap |-> 1, per_tx |-> 1, window |-> w, elapsed |-> elapsed,
                 amount |-> 1, prev |-> prev, cur |-> 0]
<1>2. q \in Query
  BY <1>1, QueryAssumption DEF Query
<1> QED BY <1>2

LEMMA NoWindow ==
  ASSUME NEW m \in Nat, m >= 1
  PROVE  ~Inductive(m, 0)
<1>1. PICK q \in Query : /\ q.cap = 1 /\ q.amount = 1 /\ q.prev = 0 /\ q.cur = 0
                         /\ q.elapsed = 0
  BY SmallestQuery
<1>2. ~Rolls(q) /\ q.window \in Nat /\ q.window > 0
  BY <1>1, QueryType DEF Rolls
<1>3. Prev1(q) = 0 /\ Cur1(q) = 0 /\ Cur2(q) = 1 /\ Weighted(q) = 0
  BY <1>1, <1>2 DEF Prev1, Cur1, Cur2, InEpoch, Weighted
<1>4. Within(0, q.cap, q.prev, q.cur) /\ Accepts(m, q)
  BY <1>1, <1>3 DEF Within, Accepts
<1>5. ~Within(0, q.cap, Prev1(q), Cur2(q))
  BY <1>1, <1>3 DEF Within
<1> QED BY <1>4, <1>5 DEF Inductive

\* One second into an epoch a spend of 1 in the one before weighs nothing.
LEMMA OneIsNotEnough ==
  ASSUME NEW m \in Nat, m >= 2
  PROVE  ~Inductive(m, 1)
<1>1. PICK q \in Query : /\ q.cap = 1 /\ q.amount = 1 /\ q.prev = 1 /\ q.cur = 0
                         /\ q.elapsed = 1
  BY SmallestQuery
<1>2. ~Rolls(q) /\ q.window \in Nat /\ q.window >= 60
  BY <1>1, QueryType DEF Rolls
<1>3. Prev1(q) = 1 /\ Cur1(q) = 0 /\ Cur2(q) = 1 /\ InEpoch(q) = 1
  BY <1>1, <1>2 DEF Prev1, Cur1, Cur2, InEpoch
<1>4. Weighted(q) = 0
  <2> DEFINE w == q.window
  <2>1. (1 * (w - 1)) \div w = 0
    BY <1>2
  <2> QED BY <1>3, <2>1 DEF Weighted
<1>5. Within(1, q.cap, q.prev, q.cur) /\ Accepts(m, q)
  BY <1>1, <1>3, <1>4 DEF Within, Accepts
<1>6. ~Within(1, q.cap, Prev1(q), Cur2(q))
  BY <1>1, <1>3 DEF Within
<1> QED BY <1>5, <1>6 DEF Inductive

\* Which bounds the compiler can prove, for every ceiling: from 2 windows on
\* all of them, and 1 window only under a ceiling of 1 (smt.rs, prove.rs).
THEOREM ProvableBounds ==
  ASSUME NEW m \in Nat \ {0}, NEW k \in Nat
  PROVE  Inductive(m, k) <=> k >= 2 \/ (m = 1 /\ k = 1)
<1>1. CASE k = 0
  BY <1>1, NoWindow
<1>2. CASE k = 1
  <2>1. m = 1 \/ m >= 2
    OBVIOUS
  <2> QED BY <1>2, <2>1, OneWindow, OneIsNotEnough
<1>3. CASE k >= 2
  BY <1>3, TwoWindows
<1> QED BY <1>1, <1>2, <1>3

\* A bound proved under any ceiling holds for a wallet that uses the bound
\* itself as its ceiling, as the deployed one does.
LEMMA BoundAsCeiling ==
  ASSUME NEW m \in Nat \ {0}, NEW k \in Nat, Inductive(m, k)
  PROVE  Inductive(k, k)
<1>1. k >= 1
  BY ProvableBounds
<1> QED BY <1>1, ProvableBounds

---------------------------------------------------------------------------
(* Discharges.                                                             *)

LEMMA PolicyFields ==
  ASSUME NEW p \in Policy
  PROVE  /\ p.ceiling \in Nat \cup {None} /\ p.bound \in Nat
         /\ p \in Provable => p.ceiling \in Nat \ {0}
  BY PolicyAssumption DEF PolicyType, Provable

\* A discharge is a certificate for the policy; issued, its replies say so.
LEMMA DischargeIs ==
  ASSUME NEW p \in Policy, NEW b \in Backend, NEW d \in Discharge(p, b)
  PROVE  \/ /\ p.ceiling = None
            /\ d = [cert |-> build_certificate(p, FALSE, FALSE, b),
                    decided |-> TRUE]
         \/ /\ p \in Provable
            /\ \E r \in Replies[p] :
                 d = [cert |-> build_certificate(p, Issues(r), Tight(r), b),
                      decided |-> Decisive(r)]
<1>1. CASE p.ceiling = None
  BY <1>1 DEF Discharge
<1>2. CASE p.ceiling = 0
  BY <1>2, NoneAssumption DEF Discharge
<1>3. CASE p.ceiling \notin {None, 0}
  BY <1>3 DEF Discharge, Provable
<1> QED BY <1>1, <1>2, <1>3

LEMMA CertificateFields ==
  ASSUME NEW p \in Policy, NEW b \in Backend,
         NEW issued \in BOOLEAN, NEW tight \in BOOLEAN
  PROVE  LET c == build_certificate(p, issued, tight, b)
         IN /\ c \in Certificate
            /\ c.spec = p /\ c.backend = b /\ c.bound = p.bound
            /\ c.ceiling = p.ceiling
            /\ issued <=> c.verdict = "ISSUED"
            /\ issued => c.tight = tight /\ c.onchain = Onchain(p)
            /\ ~issued => c.tight = None /\ c.onchain = None
<1>1. p.ceiling \in Nat \cup {None} /\ p.bound \in Nat
  BY PolicyFields
<1>2. Onchain(p) \in [ssl_hash: Policy, window_cap_multiplier: Nat]
  BY <1>1 DEF Onchain
<1> QED BY <1>1, <1>2 DEF build_certificate, Certificate

LEMMA DischargeType ==
  ASSUME NEW p \in Policy, NEW b \in Backend, NEW d \in Discharge(p, b)
  PROVE  /\ d = [cert |-> d.cert, decided |-> d.decided]
         /\ d.cert \in Certificate /\ d.decided \in BOOLEAN
         /\ d.cert.spec = p /\ d.cert.backend = b
<1>1. CASE d = [cert |-> build_certificate(p, FALSE, FALSE, b), decided |-> TRUE]
  BY <1>1, CertificateFields
<1>2. ASSUME NEW r \in Replies[p],
             d = [cert |-> build_certificate(p, Issues(r), Tight(r), b),
                  decided |-> Decisive(r)]
      PROVE  /\ d = [cert |-> d.cert, decided |-> d.decided]
             /\ d.cert \in Certificate /\ d.decided \in BOOLEAN
             /\ d.cert.spec = p /\ d.cert.backend = b
  <2>1. Issues(r) \in BOOLEAN /\ Tight(r) \in BOOLEAN /\ Decisive(r) \in BOOLEAN
    BY DEF Issues, Tight, Decisive
  <2> QED BY <1>2, <2>1, CertificateFields
<1> QED BY <1>1, <1>2, DischargeIs

\* What an issued certificate rests on.
LEMMA IssuedIs ==
  ASSUME NEW p \in Policy, NEW b \in Backend, NEW d \in Discharge(p, b),
         d.cert.onchain # None \/ d.cert.verdict = "ISSUED"
  PROVE  \E r \in Replies[p] :
           /\ p \in Provable
           /\ d = [cert |-> build_certificate(p, Issues(r), Tight(r), b),
                   decided |-> Decisive(r)]
           /\ Issues(r) /\ d.cert.tight = Tight(r)
           /\ d.cert.onchain = Onchain(p) /\ d.cert.verdict = "ISSUED"
<1>1. CASE d = [cert |-> build_certificate(p, FALSE, FALSE, b), decided |-> TRUE]
  BY <1>1, CertificateFields
<1>2. ASSUME NEW r \in Replies[p], p \in Provable,
             d = [cert |-> build_certificate(p, Issues(r), Tight(r), b),
                  decided |-> Decisive(r)]
      PROVE  Issues(r) /\ d.cert.tight = Tight(r)
             /\ d.cert.onchain = Onchain(p) /\ d.cert.verdict = "ISSUED"
  <2>1. Issues(r) \in BOOLEAN /\ Tight(r) \in BOOLEAN
    BY DEF Issues, Tight
  <2> QED BY <1>2, <2>1, CertificateFields
<1> QED BY <1>1, <1>2, DischargeIs

LEMMA RepliesAre ==
  ASSUME NEW p \in Provable, NEW r \in Replies[p]
  PROVE  /\ r.inductive \in Answers(~Inductive(p.ceiling, p.bound))
         /\ r.attainable \in Answers(Attainable(p.ceiling, p.bound))
         /\ p.bound <= 1 => r.predecessor = "sat"
         /\ ~(p.bound <= 1) =>
              r.predecessor \in Answers(~Inductive(p.ceiling, p.bound - 1))
         /\ r = [inductive |-> r.inductive, attainable |-> r.attainable,
                 predecessor |-> r.predecessor]
  BY DEF Replies

\* Two solvers that answer every query answer alike.
LEMMA DecisiveAgree ==
  ASSUME NEW p \in Provable, NEW r \in Replies[p], NEW s \in Replies[p],
         Decisive(r), Decisive(s)
  PROVE  r = s
<1>1. r.inductive = s.inductive
  BY RepliesAre DEF Decisive, Answers
<1>2. r.attainable = s.attainable
  BY RepliesAre DEF Decisive, Answers
<1>3. r.predecessor = s.predecessor
  BY RepliesAre DEF Decisive, Answers
<1> QED BY <1>1, <1>2, <1>3, RepliesAre

\* Only the solver's identity may differ in what verifies.
LEMMA VerifyIs ==
  ASSUME NEW c \in Certificate, NEW e \in Certificate
  PROVE  verify(c, e) <=> /\ c.spec = e.spec /\ c.ceiling = e.ceiling
                          /\ c.bound = e.bound /\ c.verdict = e.verdict
                          /\ c.tight = e.tight /\ c.onchain = e.onchain
  BY CertificateAssumption DEF verify, LoadBearing, Certificate

---------------------------------------------------------------------------
(* The invariant.                                                          *)

LEMMA InitInv == Init => IInv
  BY PolicyAssumption DEF Init, IInv, TypeOK, Written, Reproduced, Rejected, PassIsSound

LEMMA NextType == TypeOK /\ [Next]_vars => TypeOK'
<1> SUFFICES ASSUME TypeOK, [Next]_vars PROVE TypeOK'
  OBVIOUS
<1> USE DEF TypeOK
<1>1. ASSUME NEW p \in Policy, EditPolicy(p) PROVE TypeOK'
  BY <1>1 DEF EditPolicy
<1>2. ASSUME NEW c \in Contract, EditContract(c) PROVE TypeOK'
  BY <1>2 DEF EditContract
<1>3. CASE EditCert
  <2>1. cert' \in Certificate
    <3>0. cert \in Certificate
      BY <1>3 DEF EditCert
    <3>1. ASSUME NEW p \in Policy, cert' = [cert EXCEPT !.spec = p]
          PROVE  cert' \in Certificate
      BY <3>0, <3>1 DEF Certificate
    <3>2. ASSUME NEW k \in Constant,
                 \/ cert' = [cert EXCEPT !.ceiling = k]
                 \/ cert' = [cert EXCEPT !.bound = k]
          PROVE  cert' \in Certificate
      BY <3>0, <3>2, PolicyAssumption DEF Certificate
    <3>3. ASSUME NEW v \in {"ISSUED", "REFUSED"},
                 cert' = [cert EXCEPT !.verdict = v]
          PROVE  cert' \in Certificate
      BY <3>0, <3>3 DEF Certificate
    <3>4. ASSUME NEW t \in BOOLEAN, cert' = [cert EXCEPT !.tight = t]
          PROVE  cert' \in Certificate
      BY <3>0, <3>4 DEF Certificate
    <3>5. ASSUME cert.onchain # None, NEW p \in Policy,
                 cert' = [cert EXCEPT !.onchain.ssl_hash = p]
          PROVE  cert' \in Certificate
      BY <3>0, <3>5 DEF Certificate
    <3>6. ASSUME cert.onchain # None, NEW k \in Constant,
                 cert' = [cert EXCEPT !.onchain.window_cap_multiplier = k]
          PROVE  cert' \in Certificate
      BY <3>0, <3>6, PolicyAssumption DEF Certificate
    <3> QED BY <1>3, <3>1, <3>2, <3>3, <3>4, <3>5, <3>6 DEF EditCert
  <2>2. edits' \in 0..MaxEdits
    BY <1>3, PolicyAssumption DEF EditCert
  <2> QED BY <1>3, <2>1, <2>2 DEF EditCert
<1>4. ASSUME NEW b \in Backend, Certify(b) PROVE TypeOK'
  BY <1>4, DischargeType, PolicyAssumption DEF Certify
<1>5. CASE CertifyFails
  BY <1>5, PolicyAssumption DEF CertifyFails
<1>6. ASSUME NEW b \in Backend, RunGate(b) PROVE TypeOK'
  BY <1>6, DischargeType DEF RunGate
<1>7. CASE GateFails
  BY <1>7 DEF GateFails
<1>8. CASE UNCHANGED vars
  BY <1>8 DEF vars
<1> QED BY <1>1, <1>2, <1>3, <1>4, <1>5, <1>6, <1>7, <1>8 DEF Next

\* A pass gives the soundness of both ceilings.
LEMMA PassGivesSoundness ==
  ASSUME TypeOK, Reproduced PROVE PassIsSound
<1> SUFFICES ASSUME gate = "pass"
             PROVE  /\ policy.ceiling # None
                    /\ Inductive(policy.ceiling, policy.bound)
                    /\ Inductive(Enforced, policy.bound)
  BY DEF PassIsSound
<1>1. PICK b \in Backend : \E d \in Discharge(policy, b) : verify(cert, d.cert)
  BY DEF Reproduced
<1>2. PICK d \in Discharge(policy, b) : verify(cert, d.cert)
  BY <1>1
<1>3. cert \in Certificate /\ policy \in Policy /\ cert.onchain # None
      /\ contract.literal = None
      /\ contract.constant = cert.onchain.window_cap_multiplier
  BY <1>2 DEF TypeOK, Reproduced, Conforms, verify
<1>4. d.cert \in Certificate
  BY <1>3, DischargeType
<1>5. d.cert.onchain = cert.onchain
  BY <1>2, <1>3, <1>4, VerifyIs
<1>6. PICK r \in Replies[policy] :
        policy \in Provable /\ Issues(r) /\ d.cert.onchain = Onchain(policy)
  BY <1>3, <1>5, IssuedIs
<1>7. Inductive(policy.ceiling, policy.bound)
  BY <1>6, RepliesAre DEF Answers, Issues
<1>8. Enforced = policy.bound
  BY <1>3, <1>5, <1>6 DEF Enforced, Onchain
<1>9. policy.ceiling \in Nat \ {0} /\ policy.bound \in Nat
  BY <1>3, <1>6, PolicyFields
<1>10. Inductive(policy.bound, policy.bound)
  BY <1>7, <1>9, BoundAsCeiling
<1>11. policy.ceiling # None
  BY <1>9, NoneAssumption
<1> QED BY <1>7, <1>8, <1>10, <1>11

LEMMA NextInv == IInv /\ [Next]_vars => IInv'
<1> SUFFICES ASSUME IInv, [Next]_vars PROVE IInv'
  OBVIOUS
<1>0. TypeOK /\ TypeOK'
  BY NextType DEF IInv
<1> DEFINE Goal == Written' /\ Reproduced' /\ Rejected'
<1>1. ASSUME NEW p \in Policy, EditPolicy(p) PROVE Goal
  BY <1>1 DEF EditPolicy, IInv, Written, Reproduced, Rejected
<1>2. ASSUME NEW c \in Contract, EditContract(c) PROVE Goal
  BY <1>2 DEF EditContract, IInv, Written, Reproduced, Rejected
<1>3. ASSUME EditCert PROVE Goal
  <2>1. edits' # 0 /\ gate' = "none"
    BY <1>0, <1>3 DEF EditCert, TypeOK
  <2> QED BY <2>1 DEF Written, Reproduced, Rejected
<1>4. ASSUME NEW b \in Backend, Certify(b) PROVE Goal
  <2>1. PICK d \in Discharge(policy, b) :
          cert' = d.cert /\ decided' = [decided EXCEPT !.cert = d.decided]
    BY <1>4 DEF Certify
  <2>2. decided'.cert = d.decided /\ policy \in Policy
    BY <1>0, <2>1 DEF TypeOK
  <2>3. d.cert.spec = policy /\ d.cert.backend = b
        /\ d = [cert |-> d.cert, decided |-> d.decided]
    BY <2>2, DischargeType
  <2>4. Written'
    BY <2>1, <2>2, <2>3 DEF Written
  <2>5. gate' = "none"
    BY <1>4 DEF Certify
  <2> QED BY <2>4, <2>5 DEF Reproduced, Rejected
<1>5. ASSUME CertifyFails PROVE Goal
  BY <1>5 DEF CertifyFails, Written, Reproduced, Rejected
<1>6. ASSUME NEW b \in Backend, RunGate(b) PROVE Goal
  <2>1. PICK d \in Discharge(policy, b) :
          /\ gate' = IF verify(cert, d.cert) /\ Conforms THEN "pass" ELSE "drift"
          /\ decided' = [decided EXCEPT !.gate = d.decided]
    BY <1>6 DEF RunGate
  <2>2. UNCHANGED <<policy, cert, contract, edits>>
    BY <1>6 DEF RunGate
  <2>3. decided'.gate = d.decided /\ decided'.cert = decided.cert
    BY <1>0, <2>1 DEF TypeOK
  <2>4. Written'
    BY <2>2, <2>3 DEF IInv, Written
  <2>5. Reproduced'
    BY <2>1, <2>2, <2>3 DEF Reproduced, Conforms
  <2>6. Rejected'
    BY <2>1, <2>2, <2>3 DEF Rejected, Conforms
  <2> QED BY <2>4, <2>5, <2>6
<1>7. ASSUME GateFails PROVE Goal
  <2>1. ~decided'.gate /\ decided'.cert = decided.cert
        /\ gate' # "pass" /\ UNCHANGED <<cert, edits>>
    BY <1>0, <1>7 DEF GateFails, TypeOK
  <2> QED BY <2>1 DEF IInv, Written, Reproduced, Rejected
<1>8. ASSUME UNCHANGED vars PROVE Goal
  BY <1>8 DEF vars, IInv, Written, Reproduced, Rejected, Conforms
<1>9. Goal
  <2> HIDE DEF Goal
  <2> QED BY <1>1, <1>2, <1>3, <1>4, <1>5, <1>6, <1>7, <1>8 DEF Next
<1>10. PassIsSound'
  <2>1. TypeOK' /\ Reproduced' => PassIsSound'
    BY PassGivesSoundness, PTL
  <2> QED BY <1>0, <1>9, <2>1
<1> QED BY <1>0, <1>9, <1>10 DEF IInv

---------------------------------------------------------------------------
(* Theorems.                                                               *)

\* Every reachable state of the three files satisfies IInv, whatever the
\* solvers answered and whatever was edited.
THEOREM Invariant == Spec => []IInv
  BY InitInv, NextInv, PTL DEF Spec

\* A gate that passes vouches for the bound under the policy's ceiling and
\* under the contract's own (PassIsSound).
THEOREM PassIsSoundHolds == Spec => []PassIsSound
<1>1. IInv => PassIsSound
  BY DEF IInv
<1> QED BY <1>1, Invariant, PTL

\* Conforming files turn the gate red only where a solver gave up.
THEOREM NoFalseAlarmHolds == Spec => []NoFalseAlarm
<1>1. IInv => NoFalseAlarm
  <2> SUFFICES
        ASSUME IInv, cert # None, edits = 0, cert.verdict = "ISSUED",
               cert.spec = policy,
               contract = [constant |-> policy.bound, literal |-> None],
               decided = [cert |-> TRUE, gate |-> TRUE], gate = "drift"
        PROVE  FALSE
    BY DEF NoFalseAlarm
  <2>1. PICK b \in Backend : \E d \in Discharge(policy, b) :
          d.decided /\ ~(verify(cert, d.cert) /\ Conforms)
    BY DEF IInv, Rejected
  <2>2. PICK d \in Discharge(policy, b) :
          d.decided /\ ~(verify(cert, d.cert) /\ Conforms)
    BY <2>1
  <2>3. cert \in Certificate /\ policy \in Policy /\ cert.backend \in Backend
    BY DEF IInv, TypeOK, Certificate
  <2> DEFINE e == [cert |-> cert, decided |-> TRUE]
  <2>4. e \in Discharge(policy, cert.backend)
    BY DEF IInv, Written
  <2>5. PICK r \in Replies[policy] :
          /\ policy \in Provable
          /\ e = [cert |-> build_certificate(policy, Issues(r), Tight(r), cert.backend),
                  decided |-> Decisive(r)]
          /\ Issues(r) /\ cert.tight = Tight(r) /\ cert.onchain = Onchain(policy)
    <3>1. e.cert = cert /\ e.decided = TRUE
      OBVIOUS
    <3> HIDE DEF e
    <3> QED BY <2>3, <2>4, <3>1, IssuedIs
  <2>6. Decisive(r)
    BY <2>5
  <2>7. PICK s \in Replies[policy] :
          d = [cert |-> build_certificate(policy, Issues(s), Tight(s), b),
               decided |-> Decisive(s)]
    <3>1. policy.ceiling # None
      BY <2>5 DEF Provable
    <3> QED BY <2>3, <3>1, DischargeIs
  <2>8. s = r
    BY <2>2, <2>5, <2>6, <2>7, DecisiveAgree
  <2>9. d.cert = build_certificate(policy, TRUE, Tight(r), b)
    BY <2>5, <2>7, <2>8
  <2>10. d.cert \in Certificate
    BY <2>3, DischargeType
  <2>11. Tight(r) \in BOOLEAN
    BY DEF Tight
  <2>12. cert = build_certificate(policy, TRUE, Tight(r), cert.backend)
    BY <2>5
  <2>13. verify(cert, d.cert)
    BY <2>3, <2>9, <2>10, <2>12, VerifyIs DEF build_certificate
  <2>14. Conforms
    <3>1. Onchain(policy) \in [ssl_hash: Policy, window_cap_multiplier: Nat]
      BY <2>3, PolicyFields DEF Onchain
    <3>2. Onchain(policy) # None
      BY <3>1, CertificateAssumption
    <3> QED BY <2>5, <3>2 DEF Conforms, Onchain
  <2> QED BY <2>2, <2>13, <2>14
<1> QED BY <1>1, Invariant, PTL

\* The page's reader finds what the compiler and the gate found.
THEOREM ReaderAgreesHolds == Spec => []ReaderAgrees
<1>1. IInv => ReaderAgrees
  <2> SUFFICES ASSUME IInv, gate = "pass", decided.gate, cert.tight = TRUE
               PROVE  Green(cert, policy) /\ Confirmed(cert)
    BY DEF ReaderAgrees
  <2>1. PICK b \in Backend : \E d \in Discharge(policy, b) :
          verify(cert, d.cert) /\ d.decided = decided.gate
    BY DEF IInv, Reproduced
  <2>2. PICK d \in Discharge(policy, b) :
          verify(cert, d.cert) /\ d.decided = decided.gate
    BY <2>1
  <2>3. cert \in Certificate /\ policy \in Policy /\ cert.onchain # None
    BY <2>2 DEF IInv, TypeOK, Reproduced, Conforms, verify
  <2>4. d.cert \in Certificate
    BY <2>3, DischargeType
  <2>5. /\ cert.spec = d.cert.spec /\ cert.ceiling = d.cert.ceiling
        /\ cert.bound = d.cert.bound /\ cert.verdict = d.cert.verdict
        /\ cert.tight = d.cert.tight /\ cert.onchain = d.cert.onchain
    BY <2>2, <2>3, <2>4, VerifyIs
  <2>6. PICK r \in Replies[policy] :
          /\ policy \in Provable
          /\ d = [cert |-> build_certificate(policy, Issues(r), Tight(r), b),
                  decided |-> Decisive(r)]
          /\ Issues(r) /\ d.cert.tight = Tight(r)
          /\ d.cert.onchain = Onchain(policy) /\ d.cert.verdict = "ISSUED"
    BY <2>3, <2>5, IssuedIs
  <2>7. Tight(r) /\ Decisive(r)
    BY <2>2, <2>5, <2>6
  <2>8. d.cert.spec = policy /\ d.cert.bound = policy.bound
        /\ d.cert.ceiling = policy.ceiling
    BY <2>6 DEF build_certificate
  <2>9. Inductive(policy.ceiling, policy.bound)
        /\ Attainable(policy.ceiling, policy.bound)
    BY <2>6, <2>7, RepliesAre DEF Answers, Issues, Tight
  <2>10. policy.bound > 1 => ~Inductive(policy.ceiling, policy.bound - 1)
    <3>1. policy.bound \in Nat
      BY <2>3, PolicyFields
    <3> QED BY <2>6, <2>7, <3>1, RepliesAre DEF Answers, Tight, Decisive
  <2>11. policy.ceiling # None
    BY <2>6 DEF Provable
  <2>12. Green(cert, policy)
    <3>1. cert # None
      BY <2>2 DEF verify
    <3>2. cert.onchain.ssl_hash = policy
          /\ cert.onchain.window_cap_multiplier = policy.bound
      <4>1. cert.onchain = Onchain(policy)
        BY <2>5, <2>6
      <4> QED BY <4>1 DEF Onchain
    <3> QED BY <2>5, <2>6, <2>8, <3>1, <3>2 DEF Green
  <2> QED BY <2>5, <2>8, <2>9, <2>10, <2>11, <2>12 DEF Confirmed
<1> QED BY <1>1, Invariant, PTL
=============================================================================
