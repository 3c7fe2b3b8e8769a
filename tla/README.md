# A verification development for SlipPay

SlipPay lets a merchant be paid in USDC on Stellar: once, by an order with a
memo; repeatedly, by a Soroban subscription or by invoices; by machine, through
smart wallets whose owner delegates bounded spending to agents and merchants.
This directory holds TLA+ models of the parts where correctness depends on the
order of events, the TLC runs that check them on small instances, and TLAPS
proofs for every instance. Paths below are relative to the repository's root.

## 1. The system

| Component | State | Operations | What is hard about it |
|---|---|---|---|
| **Smart wallet** `contracts/smart-wallet` | policies per merchant, agent sessions with two spend counters and an epoch, admin, ceiling | install/revoke policy, install/revoke session, `__check_auth` | storage is written context by context before the verdict; a budget over real time kept by counters over lazily opened epochs |
| **Subscription** `contracts/subscription` | subscriptions, attester keys; the token's balances and allowances | create, charge, autocharge, autocharge_attested, set_attester, cancel, pause, resume, mark_expired | three doors to one clock and counter; two token legs; replayed attestations |
| **Listener leases** `apps/listener/{lease,manager,main}.ts` | `listener_leases` rows; per pod the map of pollers, heartbeat timers | tick, acquire, heartbeat, release, stop | several pods, skewed clocks, stale clock samples, crashes, failing calls, overlapping ticks |
| **Settlement** `apps/listener/{horizon,matcher,reconciler}.ts` | `orders`, `subscriptions`, `webhook_deliveries`, `listener_state`, cursors in memory | poll, match, reconcile, count, enqueue, persist; pg_cron expiry | no transactions; overlapping polls, crash between any two writes, rotation, races with cancel and expiry |
| **Orders and subscriptions API** `supabase/functions/api/routes` | the same tables | create, cancel, charge, patch, rotate the address | check, await, insert |
| **Webhook worker** `apps/listener/{webhook,ssrf}.ts` | attempts, backoff, status per delivery; per pod the batch it read | select due rows, post, update | no claim on a row: pods post the same row and overwrite each other; lost answers, lost updates, crashes |
| **Shopify connector** `apps/shopify-connector/src/index.mjs` | one file with an entry per Shopify order | orders/create, pay, SlipPay's webhook, redaction | checks before awaits and writes after them; an exception in a handler ends the process |
| **x402** `routes/x402.ts` | pending orders per (resource, client) | quote, serve | caps counted before an insert; only the newest order is looked at |
| **Integrity attester** `packages/slippay-attester` | committed surfaces (file), recent charges (memory) | register, attest, verify | a velocity window read before and noted after an awaited signature |
| **Agent buyer** `apps/listener/a2a-buyer.mjs` | none but its registry file | get, attest, pay, ask again, record | timeouts against late settlement, a payment whose answer is lost |
| **4P ramp** `routes/fourp.ts`, `lib/fourp`, `lib/ramp/store.ts` | `ramp_transactions`, a mirror of 4P's statuses | webhook, on-ramp, off-ramp, status | webhooks overtake the seed and each other; failed upserts are only logged |
| **Exchange panels** `apps/web/src/pages/comex/base/Exchange.tsx` | React state of two panels | buy, sell, poll, watch the balance, toggle | effects re-run only on changes; answers after unmounting; a transfer whose answer is lost |
| **Charge schedulers** `scripts/*-scheduler.mjs` | none | read the counter, sign, submit, poll for the result | retries of what may have been done, deadlines |
| **Receipt contract** `contracts/receipt` | per mandate a head and a count | open, record | append-only hash chain |
| **Checkout contract** `contracts/checkout` | configuration only | pay | arithmetic of two legs |
| **Policy compiler and gate** `axl-compiler`, `pages/verify` | three files: policy, certificate, contract | certify, verify, gate, edit by hand, re-verify in a browser | three copies of one bound, edited independently; solvers that give up; a bound proved for one ceiling and enforced with another |
| **Relayer, other ramps, rate limits, tokens, other connectors, agents, other front ends** | providers' states, buckets | | mostly input validation and calls to outside services |

How they interact. Buyers pay on the ledger; the listener sees the payment by
polling Horizon for accounts on which it holds a lease, moves the order's row,
counts the subscription and enqueues a webhook, which the worker delivers. The
API writes the same rows without any lock. The schedulers call the subscription
contract, which pulls from an allowance; the buyer there may be a smart wallet,
whose `__check_auth` then decides without a human. A store's order comes in
through a connector, which creates the SlipPay order and is at the other end of
the webhook worker. Agents pay for gated resources: the oracle attests, the
buyer pays, the listener settles, the resource is served. Reais are exchanged for
dollars outside the settlement path, at 4P, whose progress the API mirrors for
the panels. The wallet's multiplier is a constant that a gate compares with the
certificate of a policy, which the compiler has proved. `PROJECT.json` lists every
component with its status, and under `hazards` every place found so far where a
test would hardly reach what can go wrong.

What makes each correct, in a sentence: the wallet never lets a key or a
merchant move more per stretch of real time than was granted; the subscription
never takes more, or sooner, than the buyer agreed; at most one poller per
account and in the end exactly the right ones; with a stored token only a failed query
or a rotated address loses a payment, and no settled order moves again; every event told is true; every event ends as sent or
dead after a bounded number of posts, and one that counts as sent has been acted
on; open x402 orders stay bounded, and the content goes to those who paid; the
attester signs no more per window than committed and under way; no panel shows
success before it happened, and no dollars leave twice for one sale; a green gate
means that the bound the wallet enforces is proved.

## 2. Modules

### SmartWallet (contracts/smart-wallet/src/lib.rs)

`policies` and `sessions` are the contract's storage, one record per stored
struct. `entry` is one authorization entry inside `__check_auth`: the code's loop
over contexts is `BeginAgent`/`BeginPasskey`, one step per context
(`TryAuthorizeAgentContext`, `TryMatchPolicy`, `NoPolicyMatches`), then
`AcceptEntry` or `RejectEntry`. Storage is written as the code writes it, during
the loop; `entry.saved` is the journal the ledger restores when the entry is
rejected or the transaction fails later. A rejected context is not an action: the
state does not change until the rollback. `RejectEntry` is always possible, since a
later call of the same transaction may fail. `outflow` and `pulled` are history:
running totals by ledger time of what was authorized under a session or under the
present installation of a policy. A session whose key has been revoked, or whose
storage exists at all, cannot be installed again, so `outflow` is never reset;
`InstallPolicy` resets `pulled`, because the code's charge clock starts again.

Signatures are a Boolean (WebAuthn) or a precondition (ed25519). Left out:
storage lifetimes, events, the argument parsing beyond "is it a well-formed
transfer". Amounts are naturals: the code rejects overflow with checked
arithmetic, and a negative amount fails in the session path and in the token.

### Subscription and Mandate (contracts/subscription/src/lib.rs)

A call that panics reverts, so every entry point is one action. `charge`,
`autocharge` and `autocharge_attested` share `Chargeable` and `Charged` as the
Rust functions share their checks and bookkeeping. An attestation is the record
of the signed fields; verification rebuilds the message from storage, so it
compares `key`, `domain`, `id` and `charges_done`. The token is external. A buyer is
not a merchant or the platform here (`ConstantsAssumption`), which the contract does
not check; with one who pays himself the books would have to net. `charges`
is history: time, door, attestation and debit of every settled charge.

`Mandate` is the abstract specification: what the buyer agreed to, with no doors,
statuses or allowances. `ImplementsMandate` is the refinement, under the mapping
at the end of `Subscription`: `terms` are the fixed fields of the stored
subscriptions, `debits` the times in `charges`, `closed` a terminal status,
`spent` what the buyer lost.

### Lease (apps/listener/src/lease.ts, manager.ts, main.ts)

One merchant account and several pods. A tick is a task that goes through the
code's awaits: `Query` (merchants), `Examine` (the two loops over the map),
`Insert`, `Select`, `Steal` (`acquireLease`), `Watch` or `WatchFails`, `Release`.
`Fail` is an error reply to any of the three calls, with the write landed or not.
`active` is the manager's map, `beating` the heartbeat timers, `watching` the
Horizon pollers. Time is relative: `row.left` until `expires_at`, `age` since a
task sampled the clock, `Skew` how far a pod's clock is ahead. `Sigterm` exits
without releasing because the code does.

### Settlement (apps/listener/src/{horizon,matcher,reconciler}.ts and the API)

Every database call is an action. A poll (`poll[w][s]`) walks a page record by
record: `Lookup` reads order and merchant and matches, `Reconcile` is the
conditional update, `ReadSub`/`WriteSub` the counter, `Enqueue` the webhook
insert, `Persist` the stored token; each has its failing variant. The API side is
`OrderRequest`/`ChargeRequest` (what is read), `CreateOrder` (what is inserted
later), `CancelOrder`, `PatchSub`, `Rotate`. `Expire` is the pg_cron job.
`Lapse` makes `expires_at` pass. `Pay` puts a payment on the ledger.

`OrderBook` is the abstract specification: what a merchant is promised about his
orders, without pollers, cursors, retries or crashes. Under the mapping at the end of
`Settlement` (`booked`, `invoiced` and `evidence` are columns of the orders, `counted`
is `charges_done`, the ledger and the queue of events are themselves) every step is an
issue, a payment, a settlement on the evidence of one payment, a cancellation, an
expiry that brings its events along, a true event of the order's own kind, or a count
that paid invoices back. It does not promise an event for every settled order: a crash
between the update and the insert loses it, and the code has no second look.

A watcher is opened in two steps, as `watchAccount` has two awaits. `OpenWatcher`
reads the stored token: with one the watcher polls; without one it is "fresh"; if the
query fails although a token is stored, its error is discarded and the watcher is
"blind" (horizon.ts:33). Both begin at the head that `FetchHead` then learns, and
pass over whatever is before it.

`history` is no state of the program. Three of its sets hold payments passed over
while their order was pending, by cause: `failed` (a query about the record, or the one
for the token, failed), `drifted` (the merchant's address was another one at the
lookup) and `behind` (a fresh watcher began at a head at or after them). `early` are
the payments made while their account had neither a token nor a watcher that would
have met them. `NothingSkipped` excuses `failed`, `drifted` and `behind` payments that
were `early`, and nothing else. So it does not promise what the code does not do: the
first token is stored only after a record is done with, and until then a pod that
dies takes with it the knowledge of every payment its successor begins behind. What it
does say is that this is the only way for a crash to lose a payment, that it can
happen only before the first token, and that afterwards restarts, overlapping polls
and pods that write old tokens lose nothing. Two texts promise more: a migration, that
a rotation does not matter, which `PinnedIsSettled` refutes, and the design, that after
a crash the cursor goes back (section 6, items 2 and 4).

Merged or left out: `ChargeRequest` performs two reads in one step (nothing stated
tells them apart, and the insert stays separate); `PatchSub` also stands for
`POST /:id/cancel`; `next_charge_at` and `last_charge_at` of the off-chain
subscription are written but guard none of the modelled steps and are left out.
One merchant, one network. The schema also allows an order to be `dead`; nothing in
the repository sets that status, so `Status` leaves it out.

### Delivery and Stores (apps/listener/src/webhook.ts, apps/shopify-connector)

`Delivery` is the worker: `row` the table, `worker[w]` a pod's batch as it read
it and the row it is busy with. `Select`, `Discard`, `Post` or `DoesNotResolve`,
`Answered`, `Write` are the loop's awaits; `After` is what the code writes,
from the attempt count as it was read. Backoffs are a row that is not due until
`Elapse`. `Delivery` leaves the receiver open. `Stores` extends it with one: the
Shopify connector, whose handler of a post is a `job` that outlives the worker's
patience (`GiveUp` leaves it running with nobody to answer). `Acknowledge`,
`Match`, `Mark`, `Record` are the handler of `/slippay-webhook`, `OrdersCreate` and
`OrderRecorded` the two halves of `/orders-create` around its await. Since the
connector is one process with synchronous saves, its state and its file are one
variable. `posts`, `tried` and `marked` are history or Shopify's.

An order has one event here; Settlement covers which. The batch limit of fifty and
the order of rows within a batch are left out: any order is allowed.

### X402, Attester and A2A (routes/x402.ts, packages/slippay-attester, a2a-buyer.mjs)

`X402` is the GET of one resource: `get[v]` is a handler at one of its queries,
or its answer. Orders are numbered by creation. "overdue" is a pending row whose
`expires_at` has passed, which still can be settled until pg_cron closes it.
`Attester` is one agent at one oracle process: the check and the signature are two
steps (`Check`, `Sign`), and `attested` is the history the bound is about. `A2A`
composes them: runs of the buyer are the visitors of the resource and the threads
of the oracle. The buyer commits its surface anew in each run with the quoted
recipient as the only one, so the recipient never binds, and the deployed CLI is one
process per run, so its velocity never does either (the header of a2a-buyer.mjs
says the former); the bound matters to the server, which serves many calls.
Concurrent runs in one process are the oracle's concurrency and the resource's.

An insert may land although its reply is an error (`Mint`), and a fetch of the buyer
that throws ends its run without a record, while the process with the oracle's memory
may live on (`Throw`; `Crash` is the end of the process).

Left out: the two reads before the lookup, the rate limiter, quotes that name the
merchant's present address while the order pins an old one, what the content is.

### Exchange (pages/comex/base/Exchange.tsx, routes/fourp.ts, lib/ramp/store.ts)

4P's own status of an order (`fourP`), the webhook calls under way (`hooks`), the
mirror (`store`), how far the API's handler of an order has come (`request`), and
the two panels. An order that 4P has accepted and whose answer was lost exists at 4P
alone (`CreateFails`). `Pull` and `Save` are the two awaits of the webhook, `CreateAt4P`
and `Seed` those of on-ramp and off-ramp. In the panels a step is a stretch between
awaits: `ConfirmBuy`, `ChargeAnswered`; `DoSell`, `ReadBalance`, `SaleAnswered`,
`Decide` (the modal), `Send`. `timer` says whether the purchase's poll is armed:
the effect arms it, and arms it again only if the status on display changes.
`Interval` and `Resolve` are the sale's poll, whose answers may come at any time
after. `Toggle` unmounts a panel: what it awaits goes on at the API, and a transfer
being sent may still go out.

One unit of dollars per order; quotes, forms and rendering are left out. The balance
read and the order's creation in `ConfirmBuy` are one step: what happens to the
balance in between is within what `OtherPayment` can do.

### SlidingWindow and Certify (axl-compiler, axl-gate.sh, axlVerify.ts)

`SlidingWindow` is the formula `smt.rs` emits: a `Query` is one charge on one window,
`Inductive` and `Attainable` are the obligations, with sets for the solver's integers.
`Certify` is what happens around it. `policy`, `cert` and `contract` are the three
files of the repository; a policy's `text` stands for its SHA-256. `Discharge` is all
that `discharge` and `build_certificate` may return: each query is answered with the
truth or with "unknown" (`Replies`), and `Issues` and `Tight` decide. `verify` is the
comparison of the load-bearing fields, `Conforms` the comparison of the contract with
the certificate, `RunGate` axl-gate.sh; `gate` is its result on the files as they are,
so every edit resets it. `EditCert` changes one value of the certificate and does not
add or remove fields. `decided` is history: whether a solver gave up. `Green` and
`Confirmed` are the page's checks and the obligations it shows to its reader.

The gate finds the contract's constant with the first textual match in the file
(axl-gate.sh:67-75); `Conforms` takes what it finds as the constant the hot path uses.

Left out: `kind`, `axl_version` and the agent's name in the certificate, which do not
change here (a new compiler version invalidates certificates by design); families
other than sliding windows, which are refused; the base obligation, which only the
page emits.

## 3. Runs

| Run | Question | Instance |
|---|---|---|
| `wallet` | Can a session key exceed its budget in some stretch of real time or revive, can merchants pull early, does an unsigned entry cover only pulls? | one key and one merchant's policy, windows and intervals of 2, amounts 0..2, 6 instants, two contexts per entry |
| `certify` | What do a green and a red gate mean, and does the page agree? | nine policies, three constants, two solvers, one hand edit |
| `subscription` | Spacing, single-use attestations, conservation, terminal states, refinement of `Mandate` | two interchangeable subscriptions on one allowance, fee 10 %, four time units |
| `lease` | One poller at a time, and the right one in the end | two pods one unit apart, TTL 3 |
| `settlement_pods` | Races of two pods, cancel, expiry, partial and duplicate payments on an invoice; refinement of `OrderBook` | one order, two payments |
| `settlement_rotation` | Is a payment lost or misattributed when the address rotates, polls overlap or a pod crashes? | two accounts, two polls of one pod with one cursor, two payments, wrong assets |
| `exchange` | Is success ever shown too early, are dollars sent twice, is the mirror ever ahead, does a sale end? | one charge, one sale, two webhook calls at once, two receivers |
| `stores` | Does an event end, after how many posts, and is a sent one acted on? | two pods, one order, one retry, one loss |
| `a2a` | Are the caps and the velocity kept, is only paid content served, and does it stay open? | two runs behind one address, caps 1 and 2, limit 1 per window of 2 |
| `settlement_topup`, `settlement_pinned`, `exchange_poll` | findings, section 6 | as above; `settlement_topup` and `settlement_pinned` with one poll |

`IInv`, in all but one of the passing runs, is the
inductive invariant of section 4: TLC checks on the instances what the proofs
establish for all. It is the strongest statement these modules make, so most
properties next to it say for a reader what it implies.

Each property of a passing run has a mutant in `PROJECT.json`: a plausible bug of
the code under which the same run finds the property violated. The mutated
operators stand beside the ones they change and are marked `Mutant:`.

### Bounds, and why they are enough

- *Wallet.* Windows of 2 units with `MaxTime` 5 give two epochs and one that is
  skipped, so that transfers can straddle adjacent and skipped epochs, which is where
  the two counters could lose track. A session and a policy exist side by side, and a
  transfer can be under both. Two contexts per entry are the least for which an earlier
  write and a later rejection meet. The multipliers are scaled down (2 for the code's 2,
  10, 10 and 100); the proofs cover every value.
- *Certify.* A cap of 2, amounts 0..2 and a window of 60, the least the contract
  installs, with elapsed times at the ends of the stretches the conditions tell apart,
  show each obligation both holding and failing. The policies are sound and tight, sound
  and not tight, unsound, equal but for their text, without a ceiling and with ceiling 0.
- *Subscription.* Two subscriptions share an allowance that does not cover both;
  `MaxPeriods` 2 and `Expiry` 4 are reached; the second period of a charge fits
  into `MaxTime`. `MinPeriod` 2 with a `Period` of 1 makes `create` refuse one.
- *Lease.* A unit is 20 s: `DEFAULT_LEASE_TTL_S` is 60, the heartbeat period 20.
  `MaxDelay` (from sampling `now` to the write) and `MaxSilence` (a live holder's
  longest time without a landed heartbeat) are one unit. The safe timing is that
  silence, delay and skew together do not exceed the TTL (section 6 says what
  happens beyond). `Slot` is one tick per pod, that is ticks that end before the next
  starts: liveness with two is too much for TLC. Overlapping ticks are in the theorems.
  With these bounds no lease lapses under a live holder and no delete is late: what
  goes wrong then is in section 6, item 5, and the theorems state what excludes it.
- *Settlement.* Price 7 and fee 98 basis points make the expected share 6, with a
  rounding loss: 5 is an underpayment, 6 settles. Two polls (of two pods, or of
  one pod in `settlement_rotation`) are the least that interleave. The page limit is
  not reached by two payments; the proofs cover every limit. Orders, accounts,
  requests, pods and the polls of a pod are interchangeable (`Symmetry`; none of these
  runs checks liveness). `NotLapsed` (`settlement_pods`) is a constraint: a
  subscription that has lapsed, which only a charge request looks at, is not followed
  further. With one order in a run, two orders of one subscription that undo each
  other's count (reconciler.ts:42) are in the theorems only.
- *Exchange.* One charge and one sale exist at once; a receiver that is not the
  pinned one, and a third status between pending and paid, so that news can be old.
  Two webhook calls can overtake each other. `MaxWallet` 2 is one unit above the
  price, so that the balance may rise for other reasons.
- *Stores.* With `Retries` 1 a row has two attempts, so that both exits of `After`
  and a count set back by the other pod happen. `MaxLosses` 1 is one crash or lost
  write. `MostPosts` is 5 for this instance, the six profiles of two pods and one retry
  but for the last, and is reached without a loss; with the code's six retries it is 7
  for one pod and 35 for two, which an `ASSUME` of `MCStores` compares with the binomial
  coefficients. One SlipPay order means that two handlers of orders/create
  cannot make two and overwrite each other's entry here: that is in the theorems, which
  have any number of orders and webhooks. The run has no deadlock check: once the
  order's event has ended and the shop is redacted, nothing remains.
- *A2A.* `ManyOrders` is a constraint: with more than two orders only behaviours
  with nothing paid at time 0 are followed further. Three and four open orders are
  there for the caps alone, which neither payments nor the clock affect. One failing
  query. Runs are interchangeable, and the one action property does not tell them apart.

### Fairness

`wallet`, `subscription`, `settlement_*`, `a2a` and `certify` are about safety alone.
`lease` checks liveness under `LiveSpec`. `setInterval` timers keep firing
while a process lives (weak fairness of ticks and heartbeats) and time passes. A
database that fails the same call every time would leave nothing to promise:
strong fairness of `Insert`, `Select`, `Watch` and of an insert or steal that
succeeds says that each succeeds again and again if tried again and again. The
steps are in a loop that abandons the tick on every error, so weak fairness of
each would not do. Crashes, SIGTERM, failures and the merchant's activation have
no fairness. `ActiveIsWatched` assumes a pod that runs for ever from some time on.

`stores` has weak fairness of each pod's loop: it always has an enabled next step,
since a post ends within ten seconds (`GiveUp`); and of each backoff's end. Nothing
is assumed of the connector. `MaxLosses` bounds crashes; a worker that crashes for
ever delivers nothing.

`exchange` has weak fairness of the timers of a mounted panel (`PollCharge`,
`WatchBalance`, `Interval`) and of time. Nothing is assumed of 4P, webhooks, the user
or the database, so `SaleIsTracked` says that a sale ends even if none of them ever
does anything. `PollUntilSettled` fails under the same fairness: the timeout that
fairness is about is not armed any more.

## 4. Proofs

`SmartWallet_proofs` proves, for all constants that satisfy `ConstantsAssumption`
and `NoneAssumption`, that `IInv` is inductive and with it `TypeOK`,
`WindowBound`, `SustainedRate`, `PullBound`, `GrantsAreBounded`,
`CredentialSeparation` and, as action properties, `RevokedIsFinal` and
`UnsignedIsAllPulls`. The assumptions say that the principals are
different, quantities are naturals, floors are positive and the multiplier the
code stores (`PROVED_WINDOW_MULTIPLIER`) is at least 2.

Why an invariant was needed. `WindowBound` speaks of any interval of
`window_seconds` of real time, the contract remembers only `epoch_start`,
`cur_spent` and `prev_spent`. `SessionInv` says what these know about the history:
`cur_spent` is what was authorized since `epoch_start`, all of it within a window
of it; any stretch of less than a window that ends just before the epoch opened
saw at most `window_cap`. An interval inside a window that contains the opening
is the sum of two such parts, one that does not lies in one. Notably the proof
needs neither the decaying estimate nor `prev_spent`: the bound of two caps rests
on `cur_spent <= window_cap` and the lazy roll alone. `PolicyInv` is the analogue
for `last_charge_at`. `RateInv` extends it to longer stretches: one that ends where the epoch opened saw at
most a cap for each window begun in it, since an epoch lasts at least a window; from
that `SustainedRate` follows for every length. `PullsInv` says that what a passkey
entry has covered was charged at this very time; as intervals are positive, the next
match is under another policy, so the charges count the merchants. Because
`RejectEntry` puts back what was saved, `EntryInv`
says the same of the journal, with the saved histories, and that the entry in
progress has changed no revoked session.

`CertifiedWindow` and `ChargesAreCertified` are the link to the policy compiler. The
contract and `smt.rs` are two translations of one algorithm: the second theorem says
that every charge the contract's action takes is one the solver's model accepts, with
the same counters afterwards; the first that the invariant the certificate is issued
for holds of every session. Both hold under the code's floors (`MinSeconds` at least
60, `MAX_WINDOW_MULTIPLIER` at most 100). `WindowBound` then is what
docs/axl/proofs-and-limits.md lists as not mechanized: the step from the invariant on
two counters to "any real-time window".

The lemmas go from one history (`RecordHistory`) through one session or policy
(`RolledSession`, `SessionCharge`, `PolicyCharge`, `SessionStart`,
`PolicyStart`) to one step per action. `IInv` is itself an invariant of the
wallet's run.

`Subscription_proofs` proves, under `TermsAssumption` and the other named
assumptions of `Subscription`, `TypeOK`, `ChargeSpacing`, `AttestationSingleUse`,
`TerminalIsFinal` and the refinement of `Mandate`. Its `IInv` ties what the contract
stores to what it did: `charges_done` is the number of charges settled,
`last_charge_at` the time of the last, consecutive charges are a period apart, and
a settled attestation names just the index of its charge, which is why it can
never be used again: the counter the message must name has moved on. All three
doors end in the same bookkeeping, so the step lemmas treat the charge once and the
doors only for what they demand beforehand. The refinement shows that the initial
states agree and that every step is a debit that the mandate allows, a closing, a
new mandate or a stutter.

`MandatesArePaid` accounts for all money: a buyer's loss is a sum over his
subscriptions, a merchant's or the platform's balance another. `SumFunctionOnSet` is a
fold defined by recursion; `SumsExist`, `SumsAgree` and `SumFirst` recover its equations
for finite sets, and `SumMoves` says that a sum moves by what one element moves. A
settled charge then adds to one element of each sum what `Debited` and `Credited` say
the transfers move (`BookPays`), and nothing else touches any (`QuietPays`). The number
of subscriptions has to be finite, and is otherwise free.

`Settlement_proofs` proves `TypeOK`, `NothingSkipped`, `SettledByPayment`,
`EventsAreTrue`, `CountedAtMostOnce`, `ForwardOnly` and the refinement of `OrderBook`
for any number of orders, accounts, watchers, overlapping polls, page sizes and payments; of the sets only
`Order` has to be finite (its paid members are counted). Its `IInv` is a
conjunction of the parts a reviewer would argue about one by one:

- `CursorInv`: neither a cursor in memory nor a stored one is ahead of a record
  that still needs somebody, one that is neither done with nor on record in `history`. It is kept although polls share a cursor and write in
  any order, because "handled" never becomes false (`HandledStable`) and each write
  takes the record it just finished.
- `PageInv`: a page has no gaps in its account's records, and all before its head
  is handled. Without it the cursor could jump. A payment that arrives meanwhile is
  newer than every record of every page (`WalksStable`).
- `DecisionInv`: what a poll decided is evidenced by its record, whatever happened
  to the order since it was read.
- `EarlyInv`: an account with neither a token nor a watcher past its start has seen
  only early payments, and only those are ever left behind. A stored token stays
  stored (`UntrackedStep`), which is why no crash after the first adds to them.
- `SettledByPayment`, `EventsAreTrue` and `RowsInv`.
- `CountInv`: the counter is read and written back in two calls by any number of
  polls, and lost updates do occur. It still never exceeds the paid orders: only
  the poll whose conditional update hit counts an order (`CountedOnce`), so each
  write that raises the counter comes with an order whose counting is over
  (`Counted`, `CountedOneMore`), and a stale read only lowers it.

The refinement (`StepBooks`, one case per action) asks for more than these
properties. That a poll enqueues the event of the order's own kind, a charge for an
invoice, needs `DecisionInv` to say which subscription the row it read belongs to, long
after the read. A `Settle` step may change nothing but status and evidence, so
`RowsInv` must say that an inserted row has no tx_hash yet. A write of the
counter is backed because it is one more than what was read, the order of the writing
poll is paid and is counted by no other poll (`WriteBooks`, on `CountInv`). And the
job inserts the event of every expired order that lacks one, which is an expiry together
with its events only if no order was expired without: `ExpiredAreTold`, a part of `IInv`
that each abstract step keeps (`ExpiredStep`).

`Kept` is what every step keeps of orders, ledger and `history`; nearly all other
lemmas rest on it. The steps of a poll are grouped by what they do to it
(`PollKinds`), which leaves each part of the invariant few cases.

`Exchange_proofs` proves `NeverFalseSuccess`, `TransfersAreOfOrders`,
`MirrorIsBehind` and `SeedPrecedesPayment` for any number of orders, receivers and
webhook calls. What makes the mirror harmless is that 4P's statuses only go forward
and that nothing is saved but what was pulled or the seed: `MirrorIsBehind` is
inductive with `OrderInv`, which says how API, 4P and panel order themselves (4P
reports progress of a charge only once its code was shown, of a sale only once its
dollars were sent). From it follows that the seed cannot come after a success.
`SellInv` carries the pin, the acceptance and "not sent yet" from the answer through
the modal to the transfer.

`Stores_proofs` proves `SentWasTried` and `MarkedWasPaid` for any number of pods,
handlers, orders, retries and losses. `JobInv` ties a handler to the pod that waits
for it (at most one, and it is posting that row), and a handler past its lookup to a
paid order of the same Shopify order; `AnswerInv` says the same of a pod that was
answered but has not written yet. Rows and entries are overwritten with stale copies;
the invariant shows that what they claim stays true, because `tried`, `redacted` and a
paid status only grow.

`PostsAreBounded` is harder, since pods that took the same row overwrite each other's
attempt counts and may set one back. The *profile* of a row says, for every count from
the last down to 0, how many pods are posting it having read that count or a lower
one. Each written outcome moves the profile strictly down in the lexicographic order
(`Below`): a pod that read r writes r + 1, and whoever takes the row then has read at
least that. So each post is paid for by a profile that was left for good (`PostsInv`),
there are finitely many, and a lost write or a crash, which starts over, pays for all
of them anew: at most `(losses + 1) * MostPosts` posts, for any number of pods. `IInv`
is the conjunction of `StoreInv`, what the other theorems need, and `PostsInv`.

`A2A_proofs` proves `OpenIsBounded`, `AttestedInWindow`, `ServedWasPaid` and
`PaidStaysOpen` for any caps, limits, windows and numbers of runs. The bounds are
counting arguments: `CountInv` adds to the open orders the handlers that have passed
a count and not inserted, `WindowInv` to the attestations in any window the calls
that were checked and not signed, and each step that adds to one takes from the other
or has just compared the sum. `MemoryInv` says that what the oracle has forgotten is
older than its memory, which is where the assumption `window_seconds <= Keep` is
needed (86400 in the code; `commitSurface` accepts longer windows, for which the
limit does not hold). `RunInv` pairs each run that waits with a payment of its own.

`Lease_proofs` proves `OneWatcher` for any number of pods, overlapping ticks, crashes,
losses and failing calls, under two hypotheses the code does not enforce and the
theorem therefore states: `Timing`, that delay, silence and skew together fit into the
TTL (the instance has them equal), and that `DeletesApart` always holds, a pod never
takes the lease while a delete of its own is under way. `OneTickWatches` is the special
case of ticks that end before the next one starts, which need no second hypothesis.
`HolderInv` is the reason: whoever's poller or timer runs is the holder, and what is
left of the lease exceeds what may pass before its next heartbeat, by any pod's clock.
`PodInv` says what several ticks of one pod may be doing at once: only one of them
starts a poller, and then none stops any. The second hypothesis is needed: a start
fails, the delete that undoes its lease is slow, the row expires, the next tick takes
it again, and the late delete, which goes by holder, removes the new lease.

`Certify_proofs` first settles the algorithm itself: `ProvableBounds` says that, over
all integers, a bound of k windows is inductive under a ceiling of m at least 1 exactly
if k is at least 2, or both are 1. The counterexamples are explicit charges, and the
weighted term's division is all the arithmetic there is. With it `IInv` is inductive:
an unedited certificate is one the compiler can have written (`Written`), a green gate
rests on a discharge that gave the same load-bearing fields (`Reproduced`), a red one
on one that did not (`Rejected`). `PassIsSound` is the point: the policy is proved for
the ceiling it states, the contract is held to a constant equal to the *bound*, which
is another query; that it is inductive, too, is not something the gate asks, but
follows from `ProvableBounds`.

All eight modules use the same argument: `Init => IInv`, `IInv` and a step give
`IInv'`, `IInv` implies the property.

Only model-checked: all liveness (fairness and ENABLED are beyond the prover); and the
three properties that runs refute. Every invariant and action property that a passing
run checks is the statement of a theorem. The library's induction theorems take an
operator as a parameter, which the provers cannot instantiate; where induction over
data is needed, the proofs take a least counterexample instead: the sets for which the
claim fails are a set of sets, and by the well-foundedness of strict inclusion one of
them has no proper subset in it (`LeastSubset`).

## 5. Not modelled

Storage lifetimes of Soroban entries, events and logs; gas; HTTP validation,
authentication and rate limiting; the policy compiler's parser, its predicates and the
contracts it compiles for agents (`compile`, `request`, `enforce`), which are pure
functions over texts and JSON; the OAuth and settings pages of the connectors. The VTEX and WooCommerce
connectors and the clients of the other ramp providers relay calls and keep no state
that two of their own steps could disagree about. The Solana panels share the
purchase's poll with the Base panels.

By lines most of the repository is presentation (the web and mobile apps, landing
pages, static texts), type declarations of providers' interfaces, deployment and
demonstration scripts. They have no state machine beyond showing a value or calling
one endpoint, and are listed in `PROJECT.json` with that reason; the models cover the
code that decides about money. Section 7 says what is planned.

## 6. Where the code and its texts disagree

Shown by a run:

1. `settlement_topup`: a top-up never reaches the reconciler's underpaid-to-paid
   transition, since the listener looks up pending orders only.
2. `settlement_pinned`: settlement goes by the merchant's present address
   (horizon.ts:80), not by the one pinned on the order, which
   20260531220000_orders_pin_recipient.sql:8-9 and x402.ts:208-209 promise. A payment to
   the pinned address after a rotation is passed over.
3. `exchange_poll`: the purchase panel polls once, and again only after the status
   has changed; "poll until settled" it does not. The balance watcher covers for it
   as long as the balance before the charge could be read.

Known from the models, without a run of their own:

4. The design says that after a crash the "cursor goes back" and the conditional update
   "covers reprocess" (slippay-design.md:69). Before the first token is stored the cursor
   has nowhere to go back to: the successor begins at the head, behind the payment that
   was in hand (`history.behind`). And of an order that was settled just before the crash
   the event and the count are lost, since it is not pending any more (horizon.ts:66).
5. A pod that loses its lease never learns it and keeps polling (lease.ts:86-88), so
   two pods can poll one account after a lapse longer than the TTL, contrary to
   manager.ts:22-23. With `MaxSilence` 4 in MCLease.cfg `OneWatcher` fails. So it does
   with two slots and two handles and `MaxSilence` 1, by the late delete of section 4.
   `Settlement` is checked and proved with several pods on one account for that reason.
6. A client with a paid x402 order is quoted a new one if another order of its is newer
   (x402.ts:156-157): after an expiry that a late settlement overtook, or when two first
   requests overlapped and the older quote was paid. The header (x402.ts:13-14) promises
   the content. `PaidStaysOpen` is what does hold.
7. The Shopify connector's README.md:51 names "dedup de redelivery". Two deliveries of
   one orders/create webhook at once make two SlipPay orders (index.mjs:336 is checked
   before an await, the entry written after it), and both can be paid.
8. A failed query for the stored token is taken for no token (horizon.ts:33), and one
    for the order for no order (horizon.ts:63): the payments concerned are passed over for
    good. `NothingSkipped` names them as `history.failed`; no text promises otherwise.
9. SIGTERM exits (main.ts:11) before `stop()` has deleted any lease, contrary to lease.ts:6.
10. Two concurrent charge calls open two invoices (subscriptions.ts:137-158), and the
    later write of `charges_done` can undo the other's count (reconciler.ts:42);
    `CountedAtMostOnce` is the half that holds.
11. The Shopify connector's header promises that a paid order is marked paid at Shopify
    (index.mjs:18-19). A capture and a sale that are both refused, or a shop without a
    token, are recorded as paid and answered 200, so nothing tries again (index.mjs:400-403).
    `SentWasTried` therefore says "tried".
12. The oracle's Stellar message (oracle.mjs:44-54) lacks the domain that the contract
    verifies (lib.rs:363-372); the attested scheduler builds its own, with the domain.
13. The compiler's header says that ISSUED means tight and minimal (prove.rs:7-9). A
    bound that is proved and not attained is issued with `tight` false:
    examples/axl_strategist.axl states ceiling 5 and bound 5. And K-1 counts as not
    inductive although the solver gave up (prove.rs:208 says `sat`, prove.rs:251 accepts
    unknown), so `ReaderAgrees` speaks of discharges that were decided.
14. `ONCHAIN_ENFORCED_MULTIPLIER` (certify.rs:44-48) is a copy of the contract's
    constant that neither `verify` nor the gate compares with anything.

Two comments are merely out of date: smart-wallet `lib.rs:180-181` speaks of
re-installing a session, which `SessionExists` refuses; subscription `lib.rs:324`
leaves the domain and the counter out of the signed message.

## 7. Plan

Done, each with its proofs: SmartWallet, Subscription with Mandate, Lease, Settlement
with OrderBook, Delivery with Stores, X402 and Attester with A2A, Exchange, SlidingWindow with Certify.

Next, in this order:

1. The schedulers composed with `Subscription`: read the counter, sign, submit, poll,
   retry. Property: an honest attestation within its deadline is accepted unless
   somebody charged first.
2. Liveness of Lease with overlapping ticks (the theorems have them; the run, for which
   liveness with two slots is too much, has one tick per pod).
3. `Receipt` and `Checkout`: small, mostly for their arithmetic and for theorems.
4. Several events per order in Stores, so that it refines Settlement's queue.
