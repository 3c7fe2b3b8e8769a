-------------------------------- MODULE Lease --------------------------------
(***************************************************************************)
(* apps/listener: several pods, one watched merchant account.  Every pod   *)
(* polls (manager.ts tick), takes the account's row of listener_leases     *)
(* (lease.ts acquireLease) before it opens a Horizon poller, heartbeats    *)
(* while it lives and deletes the row when the merchant goes away.  A tick *)
(* waits for the database between its steps, and nothing keeps a slow tick *)
(* from overlapping the next one of the same pod: `task' holds the ticks   *)
(* in progress.  A pod is one run of the process, with its own HOLDER_ID.  *)
(*                                                                         *)
(* Time is relative: row.left is what remains until expires_at (negative   *)
(* when it has passed), a task's age the time since it sampled `now'.      *)
(***************************************************************************)
EXTENDS Integers, FiniteSets

CONSTANTS
  Pod,          \* runs of the listener process
  Slot,         \* bound: ticks of one pod that may overlap
  Handle,       \* bound: lease handles alive in one pod
  Skew,         \* per pod: how far its clock is ahead of the slowest one
  MaxSkew,      \* the largest of these
  TTL,          \* DEFAULT_LEASE_TTL_S
  MaxDelay,     \* longest time from sampling `now' to the write it dates
  MaxSilence,   \* longest time a live holder goes without a heartbeat landing
  None

ASSUME ConstantsAssumption ==
  /\ Skew \in [Pod -> 0..MaxSkew] /\ MaxSkew \in Nat
  /\ TTL \in Nat \ {0} /\ MaxDelay \in Nat /\ MaxSilence \in Nat
  /\ None \notin Handle

VARIABLES
  desired,   \* the merchant row is active
  row,       \* the lease row of the account, or None
  process,   \* per pod: "new", "running", "exited" (SIGTERM) or "crashed"
  task,      \* per pod and slot: the tick in progress
  active,    \* per pod: manager.ts active.get(addr), a handle or None
  beating,   \* per pod: handles whose heartbeat timer runs
  watching,  \* per pod: handles whose Horizon poller runs
  silence    \* per pod: time since it took the lease or last sent a heartbeat

vars == <<desired, row, process, task, active, beating, watching, silence>>
pod == <<process, active, beating, watching, silence>>

\* A row this long past its expiry is expired by any clock after any delay.
Floor == -(MaxSkew + MaxDelay + 1)
Left == Floor..(TTL + MaxSkew)

Row == [holder: Pod, left: Left]
ASSUME NoneAssumption == None \notin Row

Idle == [pc |-> "idle", age |-> 0, wanted |-> FALSE, handle |-> None]

TypeOK ==
  /\ desired \in BOOLEAN
  /\ row \in Row \cup {None}
  /\ process \in [Pod -> {"new", "running", "exited", "crashed"}]
  /\ task \in [Pod -> [Slot ->
       [pc: {"idle", "examine", "insert", "select", "steal", "watch", "undo", "release"},
        age: 0..MaxDelay, wanted: BOOLEAN, handle: Handle \cup {None}]]]
  /\ active \in [Pod -> Handle \cup {None}]
  /\ beating \in [Pod -> SUBSET Handle]
  /\ watching \in [Pod -> SUBSET Handle]
  /\ silence \in [Pod -> 0..MaxSilence]

Init ==
  /\ desired \in BOOLEAN
  /\ row = None
  /\ process = [p \in Pod |-> "new"]
  /\ task = [p \in Pod |-> [s \in Slot |-> Idle]]
  /\ active = [p \in Pod |-> None]
  /\ beating = [p \in Pod |-> {}]
  /\ watching = [p \in Pod |-> {}]
  /\ silence = [p \in Pod |-> 0]

At(p, s, pc) == process[p] = "running" /\ task[p][s].pc = pc
Goto(p, s, pc) == task' = [task EXCEPT ![p][s].pc = pc]
Done(p, s) == task' = [task EXCEPT ![p][s] = Idle]

\* Inside acquireLease, its clock sample taken.
Acquiring(p, s) == \E pc \in {"insert", "select", "steal"} : At(p, s, pc)

Start(p) ==
  /\ process[p] = "new"
  /\ process' = [process EXCEPT ![p] = "running"]
  /\ UNCHANGED <<desired, row, task, active, beating, watching, silence>>

---------------------------------------------------------------------------
(* manager.ts tick.                                                        *)

\* The merchants query: the answer is used by every later step of this tick.
Query(p, s) ==
  /\ At(p, s, "idle")
  /\ task' = [task EXCEPT ![p][s].pc = "examine", ![p][s].wanted = desired]
  /\ UNCHANGED <<desired, row, pod>>

\* The tick reaches this account, perhaps after waiting on others.
Examine(p, s) ==
  /\ At(p, s, "examine")
  /\ \/ /\ task[p][s].wanted /\ active[p] = None
        /\ Goto(p, s, "insert")
        /\ UNCHANGED <<beating, watching>>
     \/ /\ ~task[p][s].wanted /\ active[p] # None
        /\ watching' = [watching EXCEPT ![p] = @ \ {active[p]}]
        /\ beating' = [beating EXCEPT ![p] = @ \ {active[p]}]
        /\ Goto(p, s, "release")
     \/ /\ task[p][s].wanted <=> active[p] # None
        /\ Done(p, s)
        /\ UNCHANGED <<beating, watching>>
  /\ UNCHANGED <<desired, row, process, active, silence>>

---------------------------------------------------------------------------
(* lease.ts acquireLease.                                                  *)

\* Mutant: the lease is written for twice its time.
TakenTwice(p, age) == [holder |-> p, left |-> 2 * TTL - age + Skew[p]]

\* The row as this task writes it: expires_at dates from when the task
\* sampled its own clock.
Taken(p, age) == [holder |-> p, left |-> TTL - age + Skew[p]]

\* The lease is ours: the heartbeat timer starts, then watchAccount is called.
Acquire(p, s) ==
  \E h \in Handle \ (beating[p] \cup watching[p] \cup {active[p]}) :
    /\ row' = Taken(p, task[p][s].age)
    /\ beating' = [beating EXCEPT ![p] = @ \cup {h}]
    /\ silence' = [silence EXCEPT ![p] = 0]
    /\ task' = [task EXCEPT ![p][s] = [Idle EXCEPT !.pc = "watch", !.handle = h]]
    /\ UNCHANGED <<desired, process, active, watching>>

Insert(p, s) ==
  /\ At(p, s, "insert")
  /\ \/ row = None /\ Acquire(p, s)
     \/ /\ row # None
        /\ Goto(p, s, "select")
        /\ UNCHANGED <<desired, row, pod>>

\* expires_at against the clock sample, positive while in the future.
Remaining(p, s) == row.left + task[p][s].age - Skew[p]

\* Mutant: another pod's row is respected even when it has expired.
HeldForever(p, s) == row.holder # p

\* Mutant: the update that steals is not conditional on the expiry.
ExpiredOrNot(p, s) == row # None

HeldElsewhere(p, s) == row.holder # p /\ Remaining(p, s) > 0
Expired(p, s) == row # None /\ Remaining(p, s) <= -1

Select(p, s) ==
  /\ At(p, s, "select")
  /\ IF row = None THEN Done(p, s)
     ELSE IF HeldElsewhere(p, s) THEN Done(p, s)
     ELSE Goto(p, s, "steal")
  /\ UNCHANGED <<desired, row, pod>>

\* The conditional update; no row updated means another pod was faster.
Steal(p, s) ==
  /\ At(p, s, "steal")
  /\ \/ Expired(p, s) /\ Acquire(p, s)
     \/ ~Expired(p, s) /\ Done(p, s) /\ UNCHANGED <<desired, row, pod>>

\* A database error: the task gives the tick up, whether the write had
\* landed before the error or not.
Fail(p, s) ==
  /\ Acquiring(p, s)
  /\ \/ UNCHANGED row
     \/ /\ (At(p, s, "insert") /\ row = None) \/ (At(p, s, "steal") /\ Expired(p, s))
        /\ row' = Taken(p, task[p][s].age)
  /\ Done(p, s)
  /\ UNCHANGED <<desired, pod>>

\* Mutant: the manager does not remember the poller it started.
WatchForgotten(p, s) ==
  /\ At(p, s, "watch")
  /\ watching' = [watching EXCEPT ![p] = @ \cup {task[p][s].handle}]
  /\ Done(p, s)
  /\ UNCHANGED <<desired, row, process, active, beating, silence>>

\* watchAccount resolved: the poller runs and the manager remembers it.
Watch(p, s) ==
  LET h == task[p][s].handle IN
  /\ At(p, s, "watch")
  /\ watching' = [watching EXCEPT ![p] = @ \cup {h}]
  /\ active' = [active EXCEPT ![p] = h]
  /\ Done(p, s)
  /\ UNCHANGED <<desired, row, process, beating, silence>>

\* watchAccount threw: release() stops the heartbeat at once.
WatchFails(p, s) ==
  /\ At(p, s, "watch")
  /\ beating' = [beating EXCEPT ![p] = @ \ {task[p][s].handle}]
  /\ Goto(p, s, "undo")
  /\ UNCHANGED <<desired, row, process, active, watching, silence>>

\* release()'s delete, or its failure, which is only logged; after a stop the
\* manager then forgets whatever it has for this account.
Release(p, s) ==
  /\ At(p, s, "undo") \/ At(p, s, "release")
  /\ \/ row # None /\ row.holder = p /\ row' = None
     \/ UNCHANGED row
  /\ active' = [active EXCEPT ![p] = IF At(p, s, "release") THEN None ELSE @]
  /\ Done(p, s)
  /\ UNCHANGED <<desired, process, beating, watching, silence>>

\* The timer of one handle: extends the row if it still is this pod's, and
\* does not look whether it was.
Heartbeat(p, h) ==
  /\ process[p] = "running" /\ h \in beating[p]
  /\ \E age \in 0..MaxDelay :
       row' = IF row # None /\ row.holder = p THEN Taken(p, age) ELSE row
  /\ silence' = [silence EXCEPT ![p] = 0]
  /\ UNCHANGED <<desired, process, task, active, beating, watching>>

---------------------------------------------------------------------------
(* The process and its environment.                                        *)

Stop(p, how) ==
  /\ process[p] = "running"
  /\ process' = [process EXCEPT ![p] = how]
  /\ task' = [task EXCEPT ![p] = [s \in Slot |-> Idle]]
  /\ active' = [active EXCEPT ![p] = None]
  /\ beating' = [beating EXCEPT ![p] = {}]
  /\ watching' = [watching EXCEPT ![p] = {}]
  /\ silence' = [silence EXCEPT ![p] = 0]
  /\ UNCHANGED <<desired, row>>

Crash(p) == Stop(p, "crashed")

\* main.ts on SIGTERM calls stop() and exits without waiting for it: the
\* deletes stop() would await are never sent.
Sigterm(p) == Stop(p, "exited")

\* The merchant is deactivated or activated.
SetActive ==
  /\ desired' = ~desired
  /\ UNCHANGED <<row, task, pod>>

\* Time passes, within the bounds on delays and missed heartbeats.
Elapse ==
  /\ \A p \in Pod : beating[p] # {} => silence[p] < MaxSilence
  /\ \A p \in Pod, s \in Slot : Acquiring(p, s) => task[p][s].age < MaxDelay
  /\ row' = IF row # None /\ row.left > Floor
            THEN [row EXCEPT !.left = @ - 1] ELSE row
  /\ task' = [p \in Pod |-> [s \in Slot |->
       IF Acquiring(p, s) THEN [task[p][s] EXCEPT !.age = @ + 1] ELSE task[p][s]]]
  /\ silence' = [p \in Pod |-> IF beating[p] # {} THEN silence[p] + 1 ELSE 0]
  /\ UNCHANGED <<desired, process, active, beating, watching>>

Tick(p, s) ==
  Query(p, s) \/ Examine(p, s) \/ Insert(p, s) \/ Select(p, s) \/ Steal(p, s)
    \/ Watch(p, s) \/ Release(p, s)

Next ==
  \/ \E p \in Pod : Start(p) \/ Crash(p) \/ Sigterm(p)
  \/ \E p \in Pod, s \in Slot : Tick(p, s) \/ Fail(p, s) \/ WatchFails(p, s)
  \/ \E p \in Pod, h \in Handle : Heartbeat(p, h)
  \/ SetActive
  \/ Elapse

Spec == Init /\ [][Next]_vars

\* The timers fire, a started tick goes on, time passes, and the database does
\* not fail the same call every time.
Fairness ==
  /\ WF_vars(Elapse)
  /\ \A p \in Pod, h \in Handle : WF_vars(Heartbeat(p, h))
  /\ \A p \in Pod, s \in Slot :
       /\ WF_vars(Tick(p, s))
       /\ SF_vars(Insert(p, s)) /\ SF_vars(Select(p, s)) /\ SF_vars(Watch(p, s))
       /\ SF_vars((Insert(p, s) \/ Steal(p, s)) /\ beating' # beating)

LiveSpec == Spec /\ Fairness

---------------------------------------------------------------------------
(* Properties.                                                             *)

\* manager.ts: the lease is there "so two pods can never run Horizon streams
\* against the same merchant"; nor can one pod run two.
OneWatcher ==
  \A p, q \in Pod : \A g \in watching[p], h \in watching[q] :
    p = q /\ g = h

\* While some pod keeps running an active merchant is in the end watched for
\* good: leases of crashed pods, of half-failed inserts and of failed starts
\* all give way.
ActiveIsWatched ==
  (\E p \in Pod : <>[](process[p] = "running")) /\ <>[]desired
    => <>[](\E p \in Pod : watching[p] # {})

\* A merchant deactivated for good is in the end watched by nobody: no tick
\* that is still under way restarts a poller that nobody will stop.
InactiveIsUnwatched ==
  <>[]~desired => <>[](\A p \in Pod : watching[p] = {})
---------------------------------------------------------------------------
(* The inductive invariant behind the theorems of Lease_proofs.  It needs  *)
(* what lease.ts takes for granted, neither of which the code enforces.    *)

\* The lease outlives every silence of its holder, by any clock and however
\* late the write was that dated it.
Timing == TTL >= MaxDelay + MaxSilence + MaxSkew

\* A pod does not take the lease while a delete of its is under way.  release()
\* deletes by holder, not by acquisition: a delete that a slow tick sent for one
\* lease takes away the next one of the same pod.  So it is at least when a
\* tick ends before the pod's next one starts.
Deleting(p, s) == At(p, s, "undo") \/ At(p, s, "release")
DeletesApart == \A p \in Pod, s, t \in Slot : Acquiring(p, s) => ~Deleting(p, t)

\* A handle is known from its acquisition on.
HandleInv ==
  \A p \in Pod, s \in Slot : task[p][s].pc = "watch" => task[p][s].handle \in Handle

\* What a pod runs follows from how far its ticks are and what it remembers: a
\* timer but no poller while one of them starts a poller, and then no other one
\* starts or stops any; nothing while one gives the lease up; else a poller and
\* a timer for the handle it remembers.
Runs(p) ==
  LET mine == {active[p]} \ {None}
      Changing(s) == task[p][s].pc \in {"watch", "undo", "release"}
  IN /\ (\A s \in Slot : ~Changing(s)) => watching[p] = mine /\ beating[p] = mine
     /\ \A s \in Slot :
          /\ Changing(s) => watching[p] = {}
          /\ task[p][s].pc \in {"undo", "release"} => beating[p] = {}
          /\ task[p][s].pc \in {"watch", "undo"} => active[p] = None
          /\ task[p][s].pc = "watch" =>
               beating[p] = {task[p][s].handle} /\ \A t \in Slot \ {s} : ~Changing(t)

PodInv == \A p \in Pod : Runs(p)

\* A pod whose timer runs holds the lease, and long enough.
Holds(p) == row # None /\ row.holder = p /\ row.left >= TTL - MaxDelay - silence[p]

HolderInv == \A p \in Pod : beating[p] # {} => Holds(p)

IInv == TypeOK /\ HandleInv /\ PodInv /\ HolderInv
=============================================================================
