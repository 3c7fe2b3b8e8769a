---------------------------- MODULE SmartWallet ----------------------------
(***************************************************************************)
(* The Soroban custom account contracts/smart-wallet: per-merchant pull    *)
(* policies, delegated agent sessions with a sliding-window budget, and    *)
(* __check_auth, which the ledger calls once per authorization entry with  *)
(* all the contexts (contract calls) the entry covers.                     *)
(*                                                                         *)
(* __check_auth walks the contexts one at a time and writes storage as it  *)
(* goes; the ledger undoes those writes if any context is rejected or the  *)
(* enclosing transaction fails later.  `entry' is the authorization entry  *)
(* being processed and entry.saved the storage the ledger would restore.   *)
(* No other transaction runs, and the ledger clock stands still, while an  *)
(* entry is in progress.                                                   *)
(***************************************************************************)
EXTENDS Integers, FiniteSets

CONSTANTS
  Address,          \* addresses a transfer may go to
  Admin,            \* the address whose signature gates install and revoke
  Self,             \* the wallet's own contract address
  Merchant,         \* addresses the admin is asked to install policies for
  Agent,            \* ed25519 session public keys
  Passkey,          \* the one human principal, the signer of Passkey entries
  Token,            \* token contracts
  Amount,           \* transfer amounts and caps that occur
  Seconds,          \* intervals and windows that occur
  Expiry,           \* expiry timestamps that occur, 0 for none
  MaxAbsolute,      \* max_absolute_per_charge, fixed by the constructor
  MAX_CAP_MULTIPLIER, MAX_WINDOW_MULTIPLIER, PROVED_WINDOW_MULTIPLIER,
  MinSeconds,       \* floor of interval_seconds and window_seconds (60)
  MaxTime,          \* bound: the last ledger timestamp
  MaxContexts,      \* bound: contexts in one authorization entry
  None              \* no policy, no session, no entry

ASSUME ConstantsAssumption ==
  /\ Admin \in Address /\ Self \in Address /\ Merchant \subseteq Address
  /\ Passkey \notin Agent
  /\ Amount \subseteq Nat /\ Seconds \subseteq Nat /\ Expiry \subseteq Nat
  /\ MaxAbsolute \in Nat \ {0}
  /\ MAX_CAP_MULTIPLIER \in Nat /\ MAX_WINDOW_MULTIPLIER \in Nat
  /\ PROVED_WINDOW_MULTIPLIER \in 2..MAX_CAP_MULTIPLIER
  /\ MinSeconds \in Nat \ {0}
  /\ MaxTime \in Nat \ {0} /\ MaxContexts \in Nat

Time == 0..MaxTime

\* A stored policy; expires_at = 0 is "no expiry", last_charge_at = 0 "never".
Policy == [token: Token, max_per_charge: Nat, interval_seconds: Nat,
           expires_at: Nat, last_charge_at: Time, revoked: BOOLEAN]

Session == [token: Token, per_tx_cap: Nat, window_seconds: Nat \ {0},
            window_cap: Nat, epoch_start: Time, cur_spent: Nat,
            prev_spent: Nat, expires_at: Nat, revoked: BOOLEAN,
            allow_recipients: SUBSET Address, window_cap_multiplier: Nat]

\* What one context asks for: a well-formed token.transfer, any other
\* contract call, or the creation of a contract.
Transfer == [kind: {"transfer"}, token: Token, to: Address, amount: Amount]
Context == Transfer \cup [kind: {"call", "create"}]

\* What was authorized so far, as a running total by ledger time:
\* History[t] is the amount authorized at or before t.
History == [Time -> Nat]
NoHistory == [t \in Time |-> 0]

Storage == [policies: [Address -> Policy \cup {None}],
            sessions: [Agent -> Session \cup {None}],
            outflow: [Agent -> History], pulled: [Address -> History]]

Entry == [signer: Agent \cup {Passkey}, signed: BOOLEAN, all_matched: BOOLEAN,
          count: 0..MaxContexts, covered: SUBSET Transfer, saved: Storage]

ASSUME NoneAssumption ==
  None \notin Policy /\ None \notin Session /\ None \notin Entry

VARIABLES
  now,       \* ledger timestamp, never 0 on a live ledger
  policies,  \* DataKey::Policy
  sessions,  \* DataKey::AgentSession
  entry,     \* the authorization entry inside __check_auth, or None
  outflow,   \* history: authorized under each session key
  pulled     \* history: authorized under each merchant's current policy

vars == <<now, policies, sessions, entry, outflow, pulled>>
storage == <<policies, sessions, outflow, pulled>>

TypeOK ==
  /\ now \in Time \ {0}
  /\ policies \in [Address -> Policy \cup {None}]
  /\ sessions \in [Agent -> Session \cup {None}]
  /\ entry \in Entry \cup {None}
  /\ outflow \in [Agent -> History]
  /\ pulled \in [Address -> History]

\* The constructor: a wallet with an owner, a ceiling and no grants.
Init ==
  /\ now \in Time \ {0}
  /\ policies = [a \in Address |-> None]
  /\ sessions = [k \in Agent |-> None]
  /\ entry = None
  /\ outflow = [k \in Agent |-> NoHistory]
  /\ pulled = [a \in Address |-> NoHistory]

Record(history, amount) ==
  [t \in Time |-> IF t >= now THEN history[t] + amount ELSE history[t]]

Live(expires_at) == expires_at = 0 \/ now < expires_at

---------------------------------------------------------------------------
(* Grants: every call below is authorized by the admin address itself.     *)

InstallablePolicy(m, amount, p) ==
  /\ amount > 0 /\ p.max_per_charge >= amount
  /\ p.max_per_charge <= amount * MAX_CAP_MULTIPLIER
  /\ amount <= MaxAbsolute /\ p.max_per_charge <= MaxAbsolute
  /\ p.interval_seconds >= MinSeconds
  /\ Live(p.expires_at)
  /\ m \notin {Admin, Self}

\* Replaces any policy of the merchant, revoked or not: the charge clock
\* starts again at "never charged".
InstallPolicy(m, token, amount, max, interval, expires) ==
  LET p == [token |-> token, max_per_charge |-> max,
            interval_seconds |-> interval, expires_at |-> expires,
            last_charge_at |-> 0, revoked |-> FALSE]
  IN /\ entry = None
     /\ InstallablePolicy(m, amount, p)
     /\ policies' = [policies EXCEPT ![m] = p]
     /\ pulled' = [pulled EXCEPT ![m] = NoHistory]
     /\ UNCHANGED <<now, sessions, entry, outflow>>

RevokePolicy(m) ==
  /\ entry = None
  /\ policies[m] # None
  /\ policies' = [policies EXCEPT ![m].revoked = TRUE]
  /\ UNCHANGED <<now, sessions, entry, outflow, pulled>>

InstallableSession(s) ==
  /\ s.per_tx_cap > 0 /\ s.window_cap >= s.per_tx_cap
  /\ s.window_cap <= s.per_tx_cap * MAX_WINDOW_MULTIPLIER
  /\ s.per_tx_cap <= MaxAbsolute
  /\ s.window_seconds >= MinSeconds
  /\ Live(s.expires_at)
  /\ s.allow_recipients # {}
  /\ s.allow_recipients \cap {Admin, Self} = {}

\* A session key is single-use: an existing one, revoked or not, is refused.
InstallAgentSession(k, token, cap, window, wcap, expires, allow) ==
  LET s == [token |-> token, per_tx_cap |-> cap, window_seconds |-> window,
            window_cap |-> wcap, epoch_start |-> now, cur_spent |-> 0,
            prev_spent |-> 0, expires_at |-> expires, revoked |-> FALSE,
            allow_recipients |-> allow,
            window_cap_multiplier |-> PROVED_WINDOW_MULTIPLIER]
  IN /\ entry = None
     /\ sessions[k] = None
     /\ InstallableSession(s)
     /\ sessions' = [sessions EXCEPT ![k] = s]
     /\ UNCHANGED <<now, policies, entry, outflow, pulled>>

RevokeAgentSession(k) ==
  /\ entry = None
  /\ sessions[k] # None
  /\ sessions' = [sessions EXCEPT ![k].revoked = TRUE]
  /\ UNCHANGED <<now, policies, entry, outflow, pulled>>

---------------------------------------------------------------------------
(* __check_auth, agent credential.                                         *)

\* Mutant: the roll forgets to restart the epoch.
RolledInPlace(s) ==
  IF now - s.epoch_start < s.window_seconds THEN s
  ELSE [s EXCEPT !.prev_spent = s.cur_spent, !.cur_spent = 0]

\* The epoch rolls lazily, at the first transfer a window or more after it
\* opened; the closed epoch's spend is carried only if it is adjacent.
Rolled(s) ==
  LET elapsed == now - s.epoch_start IN
  IF elapsed < s.window_seconds THEN s
  ELSE [s EXCEPT !.prev_spent =
                   IF elapsed < 2 * s.window_seconds THEN s.cur_spent ELSE 0,
                 !.cur_spent = 0,
                 !.epoch_start = now]

\* The previous epoch's spend, decaying to nothing across the current one.
WeightedPrev(s) ==
  (s.prev_spent * (s.window_seconds - (now - s.epoch_start)))
     \div s.window_seconds

WithinBudget(s, amount) ==
  /\ WeightedPrev(s) + s.cur_spent + amount <= s.window_cap
  /\ s.prev_spent + s.cur_spent + amount
       <= s.window_cap * s.window_cap_multiplier

\* Mutant: a revoked session goes on working.
AuthorizesRevoked(s, c) ==
  /\ s.token = c.token
  /\ s.allow_recipients = {} \/ c.to \in s.allow_recipients
  /\ Live(s.expires_at)
  /\ c.amount > 0 /\ c.amount <= s.per_tx_cap
  /\ WithinBudget(Rolled(s), c.amount)

AuthorizesTransfer(s, c) ==
  /\ s.token = c.token
  /\ s.allow_recipients = {} \/ c.to \in s.allow_recipients
  /\ ~s.revoked /\ Live(s.expires_at)
  /\ c.amount > 0 /\ c.amount <= s.per_tx_cap
  /\ WithinBudget(Rolled(s), c.amount)

\* The ledger's journal for the entry that starts now.
Begin(signer, signed) ==
  /\ entry = None
  /\ entry' = [signer |-> signer, signed |-> signed, all_matched |-> TRUE,
               count |-> 0, covered |-> {},
               saved |-> [policies |-> policies, sessions |-> sessions,
                          outflow |-> outflow, pulled |-> pulled]]
  /\ UNCHANGED <<now, storage>>

\* ed25519_verify of the payload under k succeeded; it does not yet say that
\* k has a session.
BeginAgent(k) == Begin(k, TRUE)

Step(covered, all_matched) ==
  /\ entry.count < MaxContexts
  /\ entry' = [entry EXCEPT !.count = @ + 1, !.covered = covered,
                            !.all_matched = all_matched]

\* One context of an agent entry: authorized against the session, or the
\* whole entry is rejected (RejectEntry).
TryAuthorizeAgentContext(c) ==
  LET k == entry.signer
      s == Rolled(sessions[k])
  IN /\ entry # None /\ k \in Agent
     /\ c.kind = "transfer"
     /\ sessions[k] # None /\ AuthorizesTransfer(sessions[k], c)
     /\ sessions' = [sessions EXCEPT ![k] =
                       [s EXCEPT !.cur_spent = @ + c.amount]]
     /\ outflow' = [outflow EXCEPT ![k] = Record(@, c.amount)]
     /\ Step(entry.covered \cup {c}, entry.all_matched)
     /\ UNCHANGED <<now, policies, pulled>>

---------------------------------------------------------------------------
(* __check_auth, passkey credential: the pull policies first, the passkey  *)
(* signature if they do not cover every context.                           *)

\* `signed' says whether the WebAuthn assertion verifies for this payload.
BeginPasskey(signed) == Begin(Passkey, signed)

\* The context is a transfer some policy speaks about.
HasPolicy(c) ==
  /\ c.kind = "transfer"
  /\ policies[c.to] # None
  /\ policies[c.to].token = c.token

\* Mutant: the interval ends a second early.
MatchesEarly(p, c) ==
  /\ ~p.revoked /\ Live(p.expires_at)
  /\ c.amount <= p.max_per_charge
  /\ p.last_charge_at = 0 \/ now + 1 >= p.last_charge_at + p.interval_seconds

Matches(p, c) ==
  /\ ~p.revoked /\ Live(p.expires_at)
  /\ c.amount <= p.max_per_charge
  /\ p.last_charge_at = 0 \/ now >= p.last_charge_at + p.interval_seconds

\* A context whose policy it violates rejects the entry, signed or not.
TryMatchPolicy(c) ==
  /\ entry # None /\ entry.signer = Passkey
  /\ HasPolicy(c) /\ Matches(policies[c.to], c)
  /\ policies' = [policies EXCEPT ![c.to].last_charge_at = now]
  /\ pulled' = [pulled EXCEPT ![c.to] = Record(@, c.amount)]
  /\ Step(entry.covered \cup {c}, entry.all_matched)
  /\ UNCHANGED <<now, sessions, outflow>>

\* A context no policy speaks about leaves the decision to the signature;
\* charges already recorded for earlier contexts stay.
NoPolicyMatches(c) ==
  /\ entry # None /\ entry.signer = Passkey
  /\ c.kind # "create" /\ ~HasPolicy(c)
  /\ Step(entry.covered, FALSE)
  /\ UNCHANGED <<now, storage>>

---------------------------------------------------------------------------
(* The end of an entry.                                                    *)

\* Mutant: one matched context is enough.
AcceptAnyMatched ==
  /\ entry # None
  /\ entry.signer \in Agent \/ entry.covered # {} \/ entry.signed
  /\ entry' = None
  /\ UNCHANGED <<now, storage>>

AcceptEntry ==
  /\ entry # None
  /\ \/ entry.signer \in Agent
     \/ entry.count > 0 /\ entry.all_matched
     \/ entry.signed
  /\ entry' = None
  /\ UNCHANGED <<now, storage>>

\* __check_auth returned an error or panicked, or a later step of the same
\* transaction failed: the ledger restores the storage.
RejectEntry ==
  /\ entry # None
  /\ policies' = entry.saved.policies
  /\ sessions' = entry.saved.sessions
  /\ outflow' = entry.saved.outflow
  /\ pulled' = entry.saved.pulled
  /\ entry' = None
  /\ UNCHANGED now

\* A later ledger closes.
Tick ==
  /\ entry = None
  /\ \E t \in Time : t > now /\ now' = t
  /\ UNCHANGED <<entry, storage>>

Next ==
  \/ \E m \in Merchant, token \in Token, amount, max \in Amount,
        interval \in Seconds, expires \in Expiry :
        InstallPolicy(m, token, amount, max, interval, expires)
  \/ \E m \in Merchant : RevokePolicy(m)
  \/ \E k \in Agent, token \in Token, cap, wcap \in Amount,
        window \in Seconds, expires \in Expiry, allow \in SUBSET Address :
        InstallAgentSession(k, token, cap, window, wcap, expires, allow)
  \/ \E k \in Agent : RevokeAgentSession(k)
  \/ \E k \in Agent : BeginAgent(k)
  \/ \E signed \in BOOLEAN : BeginPasskey(signed)
  \/ \E c \in Context :
        TryAuthorizeAgentContext(c) \/ TryMatchPolicy(c) \/ NoPolicyMatches(c)
  \/ AcceptEntry
  \/ RejectEntry
  \/ Tick

Spec == Init /\ [][Next]_vars

---------------------------------------------------------------------------
(* Properties.                                                             *)

\* The amount authorized in the closed interval t..u of ledger time.
Between(h, t, u) == h[u] - h[t - 1]

\* The bound the session is installed with (PROVED_WINDOW_MULTIPLIER): in
\* no interval of window_seconds, wherever it starts, does a session key
\* authorize more than the multiplier times window_cap.  The counter kept in
\* storage only knows two epochs that open whenever a transfer happens to
\* come; the interval is of real time.
WindowBound ==
  \A k \in Agent : sessions[k] # None =>
    \A t, u \in Time \ {0} :
      t <= u /\ u - t < sessions[k].window_seconds =>
        Between(outflow[k], t, u)
          <= PROVED_WINDOW_MULTIPLIER * sessions[k].window_cap

\* Over a long interval the epochs cannot be opened faster than one per
\* window: an interval touches at most two epochs and one more for every
\* further window it spans.
SustainedRate ==
  \A k \in Agent : sessions[k] # None =>
    \A t, u \in Time \ {0} : t < u =>
      Between(outflow[k], t, u)
        <= (2 + ((u - t - 1) \div sessions[k].window_seconds))
             * sessions[k].window_cap

\* Within one installation of a policy no interval shorter than
\* interval_seconds sees more than one charge's worth pulled, however the
\* pulls are spread over contexts, entries and transactions.
PullBound ==
  \A m \in Address : policies[m] # None =>
    \A t, u \in Time \ {0} :
      t <= u /\ u - t < policies[m].interval_seconds =>
        Between(pulled[m], t, u) <= policies[m].max_per_charge

\* A transfer that a stored grant authorizes, with no human signature, never
\* exceeds the wallet's immutable ceiling nor pays the admin or the wallet
\* itself, whatever the admin installed (audit C3, H3, A2.2).
GrantsAreBounded ==
  entry # None =>
    \A c \in entry.covered :
      c.amount <= MaxAbsolute /\ c.to \notin {Admin, Self}

\* One authorization model per entry (audit A1): while an agent entry runs
\* no policy moves, while a passkey entry runs no session is charged.
CredentialSeparation ==
  entry # None =>
    IF entry.signer \in Agent
    THEN policies = entry.saved.policies /\ pulled = entry.saved.pulled
    ELSE sessions = entry.saved.sessions /\ outflow = entry.saved.outflow

\* A passkey entry accepted without a valid signature consists of policy
\* charges only, each under a policy of its own.
UnsignedIsAllPulls ==
  [][AcceptEntry /\ entry.signer = Passkey /\ ~entry.signed =>
       /\ entry.count > 0
       /\ Cardinality({c.to : c \in entry.covered}) = entry.count]_vars

\* A revoked session key is retired: nothing, a re-install or the rollback
\* of an entry included, revives it or authorizes anything under it again.
RevokedIsFinal ==
  [][\A k \in Agent : sessions[k] # None /\ sessions[k].revoked =>
       sessions'[k] = sessions[k] /\ outflow'[k] = outflow[k]]_vars
---------------------------------------------------------------------------
(* The inductive invariant behind the theorems of SmartWallet_proofs.      *)

HistoryInv(n, h) ==
  /\ h[0] = 0
  /\ \A t, u \in Time : t <= u => h[t] <= h[u]
  /\ \A t \in Time : t >= n => h[t] = h[n]

\* The stretch that ends where the epoch opened saw at most window_cap for each
\* window begun in it, since an epoch lasts at least a window; an interval may
\* see an epoch more.
RateInv(s, h) ==
  LET e == s.epoch_start
      w == s.window_seconds
  IN /\ \A t \in Time \ {0}, n \in Time :
          t < e /\ e - t <= (n + 1) * w => h[e - 1] - h[t - 1] <= (n + 1) * s.window_cap
     /\ \A t, u \in Time \ {0}, n \in Time :
          t < u /\ u - t <= (n + 1) * w => Between(h, t, u) <= (n + 2) * s.window_cap

\* cur_spent is exactly what was authorized since epoch_start, all of it less
\* than a window after it; the stretch of less than a window that ends where
\* the epoch opened lies in one epoch, so it saw at most window_cap; an
\* interval inside a window is covered by both.
SessionInv(n, s, h) ==
  LET e == s.epoch_start IN
  /\ s.window_cap_multiplier = PROVED_WINDOW_MULTIPLIER
  /\ s.per_tx_cap <= MaxAbsolute
  /\ s.allow_recipients # {} /\ s.allow_recipients \cap {Admin, Self} = {}
  /\ 0 < e /\ e <= n
  /\ s.cur_spent <= s.window_cap
  /\ h[n] - h[e - 1] = s.cur_spent
  /\ \A t \in Time : t - e >= s.window_seconds - 1 => h[t] = h[n]
  /\ \A t \in Time \ {0} :
       t <= e /\ e - t < s.window_seconds => h[e - 1] - h[t - 1] <= s.window_cap
  /\ \A t, u \in Time \ {0} :
       t <= u /\ u - t < s.window_seconds => Between(h, t, u) <= 2 * s.window_cap
  /\ RateInv(s, h)

\* Since last_charge_at at most one charge was recorded, none later than it,
\* and none in the stretch of less than an interval that ends there.
PolicyInv(n, m, p, h) ==
  LET last == p.last_charge_at IN
  /\ m \notin {Admin, Self}
  /\ p.max_per_charge <= MaxAbsolute
  /\ 0 < p.interval_seconds
  /\ last <= n
  /\ last = 0 => \A t \in Time : h[t] = 0
  /\ last # 0 =>
       /\ h[n] - h[last - 1] <= p.max_per_charge
       /\ \A t \in Time : t >= last => h[t] = h[n]
       /\ \A t \in Time \ {0} :
            t <= last /\ last - t < p.interval_seconds => h[last - 1] = h[t - 1]
  /\ \A t, u \in Time \ {0} :
       t <= u /\ u - t < p.interval_seconds => Between(h, t, u) <= p.max_per_charge

SessionsInv(n, ss, out) ==
  \A k \in Agent :
    /\ HistoryInv(n, out[k])
    /\ ss[k] = None => out[k] = NoHistory
    /\ ss[k] # None => SessionInv(n, ss[k], out[k])

PoliciesInv(n, ps, pull) ==
  \A m \in Address :
    /\ HistoryInv(n, pull[m])
    /\ ps[m] # None => PolicyInv(n, m, ps[m], pull[m])

\* What the journal holds is as good as what storage holds, and the entry in
\* progress has changed no revoked session.
EntryInv ==
  entry # None =>
    /\ SessionsInv(now, entry.saved.sessions, entry.saved.outflow)
    /\ PoliciesInv(now, entry.saved.policies, entry.saved.pulled)
    /\ \A k \in Agent : sessions[k] # None /\ sessions[k].revoked =>
         /\ entry.saved.sessions[k] = sessions[k]
         /\ entry.saved.outflow[k] = outflow[k]

\* Every transfer that the passkey entry in progress has covered was charged
\* just now, and since an interval is not nothing, each under another policy.
PullsInv ==
  entry # None /\ entry.signer = Passkey =>
    LET paid == {c.to : c \in entry.covered}
    IN /\ \A m \in paid : policies[m] # None /\ policies[m].last_charge_at = now
       /\ entry.all_matched => IsFiniteSet(paid) /\ Cardinality(paid) = entry.count

IInv ==
  /\ TypeOK
  /\ SessionsInv(now, sessions, outflow)
  /\ PoliciesInv(now, policies, pulled)
  /\ EntryInv
  /\ GrantsAreBounded
  /\ CredentialSeparation
=============================================================================
