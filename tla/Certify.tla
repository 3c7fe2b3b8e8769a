------------------------------ MODULE Certify ------------------------------
(***************************************************************************)
(* How the wallet's spending bound stays tied to its proof: axl-compiler   *)
(* writes a certificate for the agent policy, the certificate is checked   *)
(* in, and axl-gate.sh runs on every change of the policy, the             *)
(* certificate or the contract.  The three files are edited by hand and    *)
(* independently; the proof is discharged anew by whatever solver the      *)
(* machine at hand has, and a solver may give up on any query.             *)
(***************************************************************************)
EXTENDS SlidingWindow

CONSTANTS
  Policy,     \* policy texts; a text stands for its SHA-256
  Constant,   \* values PROVED_WINDOW_MULTIPLIER is given
  Backend,    \* z3 binary, z3 in Python
  MaxEdits,   \* bound: hand edits of a certificate since it was written
  None        \* no ceiling, no certificate, no such field

\* `text' tells policies apart that differ in comments or the agent's name.
PolicyType == [ceiling: Nat \cup {None}, bound: Nat, text: Nat]

ASSUME PolicyAssumption ==
  Policy \subseteq PolicyType /\ Constant \subseteq Nat /\ MaxEdits \in Nat
ASSUME QueryAssumption ==
  /\ Quantity \subseteq Nat /\ {0, 1} \subseteq Quantity
  /\ Window \subseteq Nat
  /\ Elapsed \subseteq Nat /\ {0, 1} \subseteq Elapsed
  /\ \E w \in Window : w >= 60
ASSUME NoneAssumption == None \notin Nat \cup BOOLEAN

Certificate ==
  [spec: Policy, ceiling: Nat \cup {None}, bound: Nat,
   verdict: {"ISSUED", "REFUSED"}, tight: BOOLEAN \cup {None},
   onchain: [ssl_hash: Policy, window_cap_multiplier: Nat] \cup {None},
   backend: Backend]
ASSUME CertificateAssumption ==
  None \notin Certificate \cup [ssl_hash: Policy, window_cap_multiplier: Nat]

\* The wallet's constant; what the hot path multiplies window_cap by is the
\* session's pinned copy of it, or a literal.
Contract == [constant: Constant, literal: Constant \cup {None}]

VARIABLES
  policy,     \* examples/agent_wallet_m2.axl
  cert,       \* certified/agent_wallet.cert.json, None when not a certificate
  contract,   \* contracts/smart-wallet/src/lib.rs
  gate,       \* result of the gate on these files, "none" before it ran
  edits,      \* bound: hand edits of the certificate since it was written
  decided     \* history: no solver gave up in what cert and gate come from

vars == <<policy, cert, contract, gate, edits, decided>>

TypeOK ==
  /\ policy \in Policy
  /\ cert \in Certificate \cup {None}
  /\ contract \in Contract
  /\ gate \in {"none", "pass", "drift", "error"}
  /\ edits \in 0..MaxEdits
  /\ decided \in [cert: BOOLEAN, gate: BOOLEAN]

Init ==
  /\ policy \in Policy /\ contract \in Contract
  /\ cert = None /\ gate = "none" /\ edits = 0
  /\ decided = [cert |-> FALSE, gate |-> FALSE]

---------------------------------------------------------------------------
(* The compiler.                                                           *)

\* What a sound solver may say of a query.
Answers(satisfiable) ==
  {IF satisfiable THEN "sat" ELSE "unsat", "unknown"}

Provable == {p \in Policy : p.ceiling \notin {None, 0}}

\* The three queries of a policy with a ceiling and all the ways they may be
\* answered; that a bound of 1 has no smaller one is not asked.
Replies ==
  [p \in Provable |->
     [inductive: Answers(~Inductive(p.ceiling, p.bound)),
      attainable: Answers(Attainable(p.ceiling, p.bound)),
      predecessor: IF p.bound <= 1 THEN {"sat"}
                   ELSE Answers(~Inductive(p.ceiling, p.bound - 1))]]

Decisive(r) == "unknown" \notin {r.inductive, r.attainable, r.predecessor}

\* Mutant: a bound is issued unless the solver refutes it.
IssuesUnlessSat(r) == r.inductive # "sat"

Issues(r) == r.inductive = "unsat"

Tight(r) == r.attainable = "sat" /\ r.predecessor # "unsat"

\* Mutant: the contract is told the policy's ceiling, not the proved bound.
OnchainCeiling(p) == [ssl_hash |-> p, window_cap_multiplier |-> p.ceiling]

Onchain(p) == [ssl_hash |-> p, window_cap_multiplier |-> p.bound]

build_certificate(p, issued, tight, b) ==
  [spec |-> p, ceiling |-> p.ceiling, bound |-> p.bound,
   verdict |-> IF issued THEN "ISSUED" ELSE "REFUSED",
   tight |-> IF issued THEN tight ELSE None,
   onchain |-> IF issued THEN Onchain(p) ELSE None,
   backend |-> b]

\* What discharging p with backend b may come to: certificates, and whether
\* the solver answered every query.  A policy without a ceiling is refused
\* whatever the solver says; a ceiling of 0 is an error and gives nothing.
Discharge(p, b) ==
  CASE p.ceiling = None ->
         {[cert |-> build_certificate(p, FALSE, FALSE, b), decided |-> TRUE]}
    [] p.ceiling = 0 -> {}
    [] OTHER ->
         {[cert |-> build_certificate(p, Issues(r), Tight(r), b),
           decided |-> Decisive(r)] : r \in Replies[p]}

\* Mutant: the solver's identity has to reproduce, too.
LoadBearingAll(c) == c

LoadBearing(c) == [c EXCEPT !.backend = None]

verify(provided, recomputed) ==
  provided # None /\ LoadBearing(provided) = LoadBearing(recomputed)

---------------------------------------------------------------------------
(* Changes of the files, each of which waits for a new run of the gate.    *)

EditPolicy(p) ==
  /\ policy' = p /\ gate' = "none"
  /\ UNCHANGED <<cert, contract, edits, decided>>

EditContract(c) ==
  /\ contract' = c /\ gate' = "none"
  /\ UNCHANGED <<policy, cert, edits, decided>>

\* One value of the certificate, by hand or in a merge.
EditCert ==
  /\ cert # None /\ edits < MaxEdits
  /\ \/ \E p \in Policy : cert' = [cert EXCEPT !.spec = p]
     \/ \E m \in Constant : cert' = [cert EXCEPT !.ceiling = m]
     \/ \E k \in Constant : cert' = [cert EXCEPT !.bound = k]
     \/ \E v \in {"ISSUED", "REFUSED"} : cert' = [cert EXCEPT !.verdict = v]
     \/ \E t \in BOOLEAN :
          cert.tight # None /\ cert' = [cert EXCEPT !.tight = t]
     \/ \E p \in Policy :
          cert.onchain # None /\ cert' = [cert EXCEPT !.onchain.ssl_hash = p]
     \/ \E k \in Constant :
          /\ cert.onchain # None
          /\ cert' = [cert EXCEPT !.onchain.window_cap_multiplier = k]
  /\ edits' = edits + 1 /\ gate' = "none"
  /\ UNCHANGED <<policy, contract, decided>>

\* axlc certify policy > cert: issued or refused, the certificate is written.
Certify(b) ==
  /\ \E d \in Discharge(policy, b) :
       cert' = d.cert /\ decided' = [decided EXCEPT !.cert = d.decided]
  /\ edits' = 0 /\ gate' = "none"
  /\ UNCHANGED <<policy, contract>>

\* The policy is not lowered, there is no solver, or it fails: nothing is
\* printed, and the redirection has emptied the file.
CertifyFails ==
  /\ cert' = None /\ edits' = 0 /\ gate' = "none"
  /\ UNCHANGED <<policy, contract, decided>>

---------------------------------------------------------------------------
(* The gate.                                                               *)

\* Mutant: the hot path is not looked at.
ConformsAnyPath == cert.onchain # None /\
                   contract.constant = cert.onchain.window_cap_multiplier

\* Step 3 of axl-gate.sh, against the certificate as it is checked in.
Conforms ==
  /\ contract.literal = None
  /\ cert.onchain # None
  /\ contract.constant = cert.onchain.window_cap_multiplier

RunGate(b) ==
  /\ \E d \in Discharge(policy, b) :
       /\ gate' = IF verify(cert, d.cert) /\ Conforms THEN "pass" ELSE "drift"
       /\ decided' = [decided EXCEPT !.gate = d.decided]
  /\ UNCHANGED <<policy, cert, contract, edits>>

\* No solver is an error of the gate; a policy that is not lowered or a
\* solver that fails inside verify-cert counts as drift.
GateFails ==
  /\ gate' \in {"drift", "error"}
  /\ decided' = [decided EXCEPT !.gate = FALSE]
  /\ UNCHANGED <<policy, cert, contract, edits>>

Next ==
  \/ \E p \in Policy : EditPolicy(p)
  \/ \E c \in Contract : EditContract(c)
  \/ EditCert
  \/ \E b \in Backend : Certify(b) \/ RunGate(b)
  \/ CertifyFails
  \/ GateFails

Spec == Init /\ [][Next]_vars

---------------------------------------------------------------------------
(* The reader of a certificate on the /verify page, who has a solver too.  *)

Green(c, p) ==
  /\ c # None
  /\ c.spec = p
  /\ c.verdict = "ISSUED"
  /\ c.onchain # None =>
       /\ c.onchain.ssl_hash = c.spec
       /\ c.onchain.window_cap_multiplier = c.bound

\* The obligations the page shows come out as it says.
Confirmed(c) ==
  /\ c.ceiling # None
  /\ Inductive(c.ceiling, c.bound)
  /\ Attainable(c.ceiling, c.bound)
  /\ c.bound > 1 => ~Inductive(c.ceiling, c.bound - 1)

---------------------------------------------------------------------------
(* Properties.                                                             *)

\* The multiple of window_cap that the wallet holds a session to.
Enforced ==
  IF contract.literal = None THEN contract.constant ELSE contract.literal

\* When the gate passes, the policy's bound is proved for the ceiling the
\* policy states (prove.rs discharges that), and it also bounds a wallet
\* whose ceiling is the constant in the contract, which nobody asked the
\* solver about.
PassIsSound ==
  gate = "pass" =>
    /\ policy.ceiling # None /\ Inductive(policy.ceiling, policy.bound)
    /\ Inductive(Enforced, policy.bound)

\* Files that conform, with a certificate as the compiler wrote it, do not
\* turn the gate red on another machine with another solver; only a solver
\* that gave up, here or when the certificate was written, does.
NoFalseAlarm ==
  /\ cert # None /\ edits = 0 /\ cert.verdict = "ISSUED" /\ cert.spec = policy
  /\ contract = [constant |-> policy.bound, literal |-> None]
  /\ decided = [cert |-> TRUE, gate |-> TRUE]
  => gate # "drift"

\* The two implementations of the check agree: a certificate that passed the
\* gate as tight is green on the page, and each of the obligations the page
\* regenerates from it comes out as the page says.
ReaderAgrees ==
  gate = "pass" /\ decided.gate /\ cert.tight = TRUE =>
    Green(cert, policy) /\ Confirmed(cert)

---------------------------------------------------------------------------
(* The inductive invariant behind the theorems of Certify_proofs.          *)

\* A certificate nobody edited is one the compiler may write for its policy.
Written ==
  cert # None /\ edits = 0 =>
    [cert |-> cert, decided |-> decided.cert] \in Discharge(cert.spec, cert.backend)

\* A certificate that passed is what the gate's own discharge gave.
Reproduced ==
  gate = "pass" =>
    /\ Conforms
    /\ \E b \in Backend : \E d \in Discharge(policy, b) :
         verify(cert, d.cert) /\ d.decided = decided.gate

\* Red on a decisive discharge is a certificate or a contract that differs.
Rejected ==
  gate = "drift" /\ decided.gate =>
    \E b \in Backend : \E d \in Discharge(policy, b) :
      d.decided /\ ~(verify(cert, d.cert) /\ Conforms)

IInv == TypeOK /\ Written /\ Reproduced /\ Rejected /\ PassIsSound
=============================================================================
