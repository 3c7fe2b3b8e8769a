------------------------------ MODULE Attester ------------------------------
(***************************************************************************)
(* The integrity oracle (packages/slippay-attester/src/oracle.mjs) as one  *)
(* process sees it, for one agent: an action is checked against the        *)
(* committed surface and against the charges noted so far, then a          *)
(* signature is awaited, and only then is the charge noted, under the time *)
(* of the check.  Several calls may await their signatures at once.        *)
(*                                                                         *)
(* The surface is kept in a file, the noted charges in memory.             *)
(***************************************************************************)
EXTENDS Naturals, FiniteSets

CONSTANTS
  Thread,          \* calls under way at once
  max_per_window,  \* the surface's velocity limit
  window_seconds,
  Keep,            \* noteCharge forgets what is older, 86400 in the code
  max_amount,      \* the surface's cap, 0 for none
  MaxTime

VARIABLES
  now,         \* the clock
  recent,      \* the charges noted, each with a number of its own
  signing,     \* the time of the check of each call that awaits a signature
  attested     \* history: all attestations of this process

NotSigning == MaxTime + 1

AttesterInit ==
  /\ now = 0
  /\ recent = {}
  /\ signing = [t \in Thread |-> NotSigning]
  /\ attested = {}

(* A window ends at t. *)
Within(E, t, seconds) == {e \in E : e.at <= t /\ t - e.at < seconds}

\* Mutant: the window is off by one.
VelocityDeviationLate ==
  max_per_window # 0 /\ Cardinality(Within(recent, now, window_seconds)) > max_per_window

velocityDeviation ==
  max_per_window # 0 /\ Cardinality(Within(recent, now, window_seconds)) >= max_per_window

surfaceDeviation(amount) == max_amount # 0 /\ amount > max_amount

runIntegrityCheck(amount) == ~surfaceDeviation(amount) /\ ~velocityDeviation

(* attest, up to the signature. *)
Check(t, amount) ==
  /\ signing[t] = NotSigning
  /\ runIntegrityCheck(amount)
  /\ signing' = [signing EXCEPT ![t] = now]
  /\ UNCHANGED <<now, recent, attested>>

(* The signature is there: noteCharge, and the attestation is returned. *)
Sign(t) ==
  LET e == [number |-> Cardinality(attested) + 1, at |-> signing[t]] IN
  /\ signing[t] # NotSigning
  /\ recent' = {r \in recent : signing[t] <= r.at \/ signing[t] - r.at < Keep} \cup {e}
  /\ attested' = attested \cup {e}
  /\ signing' = [signing EXCEPT ![t] = NotSigning]
  /\ UNCHANGED now

(* The process ends and is started again. *)
Restart ==
  /\ recent' = {}
  /\ attested' = {}
  /\ signing' = [t \in Thread |-> NotSigning]
  /\ UNCHANGED now

Tick ==
  /\ now < MaxTime
  /\ now' = now + 1
  /\ UNCHANGED <<recent, signing, attested>>

-----------------------------------------------------------------------------
AttesterType ==
  /\ now \in 0..MaxTime
  /\ attested \subseteq [number : Nat, at : 0..MaxTime]
  /\ recent \subseteq attested
  /\ signing \in [Thread -> 0..(MaxTime + 1)]

(* However many calls were checked against the same memory, a process      *)
(* attests no more in any window than the surface's limit and the other    *)
(* calls under way, as long as the window is not longer than the memory.   *)
AttestedInWindow ==
  max_per_window # 0 /\ window_seconds <= Keep =>
    \A t \in 0..MaxTime :
      Cardinality(Within(attested, t, window_seconds))
        <= max_per_window + Cardinality(Thread) - 1

(* The inductive invariant of the two: charges are forgotten only once     *)
(* they are older than Keep, and a call that awaits its signature counts.  *)
MemoryInv ==
  /\ IsFiniteSet(attested)
  /\ \A e \in attested : e.at <= now
  /\ \A e \in attested \ recent : now - e.at >= Keep
  /\ \A t \in Thread : signing[t] # NotSigning => signing[t] <= now

SigningWithin(t) ==
  {s \in Thread : signing[s] <= t /\ t - signing[s] < window_seconds}

WindowInv ==
  max_per_window # 0 /\ window_seconds <= Keep =>
    \A t \in 0..MaxTime :
      Cardinality(Within(attested, t, window_seconds)) + Cardinality(SigningWithin(t))
        < max_per_window + Cardinality(Thread)
=============================================================================
