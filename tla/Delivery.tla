------------------------------ MODULE Delivery ------------------------------
(***************************************************************************)
(* The webhook worker (apps/listener/src/webhook.ts): every pod selects    *)
(* the rows of webhook_deliveries that are due, posts them one by one to   *)
(* the merchant's URL and writes back what came of it.  Rows are not       *)
(* claimed: pods may post the same row at once, and each writes back the   *)
(* attempt count of the row as it read it, whatever the row says by then.  *)
(*                                                                         *)
(* The merchant's server is left to the module that uses this one: it      *)
(* decides when a post succeeds.                                           *)
(***************************************************************************)
EXTENDS Naturals, FiniteSets

CONSTANTS
  Row,          \* rows of webhook_deliveries
  Worker,       \* pods
  Retries,      \* the length of SCHEDULE, six in the code
  Url,          \* what merchants.webhook_url may be: "ok", "none", "unsafe"
  MaxLosses,    \* a bound on crashes and failed writes
  None

ASSUME DeliveryAssumption ==
  /\ Retries \in Nat
  /\ Url \subseteq {"ok", "none", "unsafe"}
  /\ MaxLosses \in Nat
  /\ IsFiniteSet(Worker)
  /\ None \notin Row \cup Worker

VARIABLES
  row,      \* webhook_deliveries: status, attempt_n, next_attempt_at <= now
  url,      \* the merchant's webhook_url
  worker,   \* what each pod is doing: the rows it read, and the current one
  posts,    \* how often each row has been posted
  losses    \* crashes and failed writes so far

deliveryVars == <<row, url, worker, posts, losses>>

(* A row, a row as the select reads it, and what a pod is doing. *)
RowState == [status : {"none", "queued", "failed", "sent", "dead"},
             attempt : 0..(Retries + 1), due : BOOLEAN]
Read == [attempt : 0..Retries, url : Url]
Doing == [at : {"idle", "rows", "posting", "sent", "failed"},
          batch : UNION {[D -> Read] : D \in SUBSET Row},
          current : Row \cup {None}]

Idle == [at |-> "idle", batch |-> [d \in {} |-> None], current |-> None]

DeliveryInit ==
  /\ row = [d \in Row |-> [status |-> "none", attempt |-> 0, due |-> TRUE]]
  /\ url \in Url
  /\ worker = [w \in Worker |-> Idle]
  /\ posts = [d \in Row |-> 0]
  /\ losses = 0

-----------------------------------------------------------------------------
(* A new row is due at once. *)
Insert(d) ==
  /\ row[d].status = "none"
  /\ row' = [row EXCEPT ![d].status = "queued"]

(* The select: every row that is due, joined with the merchant's URL.  A   *)
(* failed select looks like an empty one.                                  *)
IsDue(d) == row[d].status \in {"queued", "failed"} /\ row[d].due

Select(w) ==
  /\ worker[w].at = "idle"
  /\ \E d \in Row : IsDue(d)
  /\ worker' = [worker EXCEPT ![w] =
       [at |-> "rows", current |-> None,
        batch |-> [d \in {e \in Row : IsDue(e)} |->
                     [attempt |-> row[d].attempt, url |-> url]]]]
  /\ UNCHANGED <<row, url, posts, losses>>

(* The rows that remain after the current one. *)
Without(w, d) ==
  LET rest == DOMAIN worker[w].batch \ {d} IN
  IF rest = {} THEN Idle
  ELSE [at |-> "rows", current |-> None,
        batch |-> [e \in rest |-> worker[w].batch[e]]]

Lose ==
  /\ losses < MaxLosses
  /\ losses' = losses + 1

(* A row without a URL, or with one the pre-flight rejects, is dead.  The  *)
(* update's error is ignored.                                              *)
Discard(w, d) ==
  /\ worker[w].at = "rows"
  /\ d \in DOMAIN worker[w].batch
  /\ worker[w].batch[d].url # "ok"
  /\ \/ row' = [row EXCEPT ![d].status = "dead"] /\ UNCHANGED losses
     \/ Lose /\ UNCHANGED row
  /\ worker' = [worker EXCEPT ![w] = Without(w, d)]
  /\ UNCHANGED <<url, posts>>

(* deliverOnce sends the post, or fails before it: the name does not       *)
(* resolve, or resolves to an address that is not allowed.                 *)
Post(w, d) ==
  /\ worker[w].at = "rows"
  /\ d \in DOMAIN worker[w].batch
  /\ worker[w].batch[d].url = "ok"
  /\ worker' = [worker EXCEPT ![w].at = "posting", ![w].current = d]
  /\ posts' = [posts EXCEPT ![d] = @ + 1]
  /\ UNCHANGED <<row, url, losses>>

DoesNotResolve(w, d) ==
  /\ worker[w].at = "rows"
  /\ d \in DOMAIN worker[w].batch
  /\ worker[w].batch[d].url = "ok"
  /\ worker' = [worker EXCEPT ![w].at = "failed", ![w].current = d]
  /\ UNCHANGED <<row, url, posts, losses>>

(* The answer, or the lack of one in ten seconds. *)
Answered(w, result) ==
  /\ worker[w].at = "posting"
  /\ worker' = [worker EXCEPT ![w].at = result]
  /\ UNCHANGED <<row, url, posts, losses>>

\* Mutant: the attempt count is kept.
AfterKept(w, read) ==
  IF worker[w].at = "sent"
  THEN [status |-> "sent", attempt |-> read + 1, due |-> row[worker[w].current].due]
  ELSE [status |-> "failed", attempt |-> read, due |-> FALSE]

\* Mutant: one attempt too many.
AfterOneMore(w, read) ==
  IF worker[w].at = "sent"
  THEN [status |-> "sent", attempt |-> read + 1, due |-> row[worker[w].current].due]
  ELSE [status |-> IF read > Retries THEN "dead" ELSE "failed",
        attempt |-> read + 1, due |-> read > Retries]

(* What a pod makes of the row it read with that attempt count:            *)
(* nextBackoff is null past the end of SCHEDULE.                           *)
After(w, read) ==
  IF worker[w].at = "sent"
  THEN [status |-> "sent", attempt |-> read + 1, due |-> row[worker[w].current].due]
  ELSE [status |-> IF read >= Retries THEN "dead" ELSE "failed",
        attempt |-> read + 1, due |-> read >= Retries]

(* The update is by id alone. *)
Write(w) ==
  LET d == worker[w].current IN
  /\ worker[w].at \in {"sent", "failed"}
  /\ \/ /\ row' = [row EXCEPT ![d] = After(w, worker[w].batch[d].attempt)]
        /\ UNCHANGED losses
     \/ Lose /\ UNCHANGED row
  /\ worker' = [worker EXCEPT ![w] = Without(w, d)]
  /\ UNCHANGED <<url, posts>>

Crash(w) ==
  /\ worker[w] # Idle
  /\ Lose
  /\ worker' = [worker EXCEPT ![w] = Idle]
  /\ UNCHANGED <<row, url, posts>>

(* A backoff ends. *)
Elapse(d) ==
  /\ ~row[d].due
  /\ row' = [row EXCEPT ![d].due = TRUE]
  /\ UNCHANGED <<url, worker, posts, losses>>

SetUrl ==
  /\ url' \in Url \ {url}
  /\ UNCHANGED <<row, worker, posts, losses>>

-----------------------------------------------------------------------------
DeliveryType ==
  /\ row \in [Row -> RowState]
  /\ url \in Url
  /\ worker \in [Worker -> Doing]
  /\ posts \in [Row -> Nat]
  /\ losses \in 0..MaxLosses

(* A pod is busy with a row it has read, rows that were read exist, and    *)
(* those that may be read again have attempts left.                        *)
DeliveryInv ==
  /\ \A w \in Worker :
       /\ worker[w].at \in {"posting", "sent", "failed"} =>
            worker[w].current \in DOMAIN worker[w].batch
       /\ \A d \in DOMAIN worker[w].batch : row[d].status # "none"
  /\ \A d \in Row :
       row[d].status \in {"none", "queued", "failed"} => row[d].attempt <= Retries
=============================================================================
