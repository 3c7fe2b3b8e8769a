--------------------------- MODULE SlidingWindow ---------------------------
(***************************************************************************)
(* What axl-compiler/src/smt.rs asks the solver about a sliding-window     *)
(* policy.  A query is one charge on a window in some state; an obligation *)
(* is a formula over all queries.  The solver's integers are the CONSTANTS *)
(* here: the theorems hold for any, TLC takes a few that matter.           *)
(***************************************************************************)
EXTENDS Integers

CONSTANTS
  Quantity,   \* amounts, caps and epoch totals
  Window,     \* window lengths
  Elapsed     \* seconds since the epoch opened

\* The install-time conditions of the contract and the charge's domain.
Query ==
  {q \in [cap: Quantity, per_tx: Quantity, window: Window, elapsed: Elapsed,
          amount: Quantity, prev: Quantity, cur: Quantity] :
     /\ 0 < q.per_tx /\ q.per_tx <= q.cap /\ q.cap <= 100 * q.per_tx
     /\ q.window >= 60
     /\ q.elapsed >= 0
     /\ 0 < q.amount /\ q.amount <= q.per_tx}

\* The epoch rolls after a window; its total is carried for one window more.
Rolls(q) == q.elapsed >= q.window
Prev1(q) ==
  IF ~Rolls(q) THEN q.prev
  ELSE IF q.elapsed < 2 * q.window THEN q.cur ELSE 0
Cur1(q) == IF Rolls(q) THEN 0 ELSE q.cur
InEpoch(q) == IF Rolls(q) THEN 0 ELSE q.elapsed
Weighted(q) == (Prev1(q) * (q.window - InEpoch(q))) \div q.window
Cur2(q) == Cur1(q) + q.amount

\* The charge passes the weighted check and the ceiling of m windows.
Accepts(m, q) ==
  /\ Weighted(q) + Cur1(q) + q.amount <= q.cap
  /\ Prev1(q) + Cur1(q) + q.amount <= m * q.cap

\* The two epochs hold at most k windows' worth between them.
Within(k, cap, prev, cur) ==
  /\ 0 <= prev /\ prev <= cap
  /\ 0 <= cur /\ cur <= cap
  /\ prev + cur <= k * cap

\* The solver's question is whether this fails: unsat means it holds.
Inductive(m, k) ==
  \A q \in Query :
    Within(k, q.cap, q.prev, q.cur) /\ Accepts(m, q)
      => Within(k, q.cap, Prev1(q), Cur2(q))

\* The bound is reached: sat means it holds.
Attainable(m, k) ==
  \E q \in Query :
    /\ Within(k, q.cap, q.prev, q.cur) /\ Accepts(m, q)
    /\ Prev1(q) + Cur2(q) = k * q.cap
=============================================================================
