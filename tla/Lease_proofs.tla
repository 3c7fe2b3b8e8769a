---------------------------- MODULE Lease_proofs ----------------------------
(***************************************************************************)
(* Proofs about Lease.  Its types hold whatever the timing.  That no two   *)
(* pollers run needs the two hypotheses the code leaves to its schedule:   *)
(* Timing, and that DeletesApart always holds.                             *)
(***************************************************************************)
EXTENDS Lease, TLAPS

TaskRecord ==
  [pc: {"idle", "examine", "insert", "select", "steal", "watch", "undo", "release"},
   age: 0..MaxDelay, wanted: BOOLEAN, handle: Handle \cup {None}]

(* What a pod writes is a row. *)
LEMMA TakenIsRow ==
  ASSUME NEW p \in Pod, NEW age \in 0..MaxDelay
  PROVE  /\ Taken(p, age) \in Row /\ Taken(p, age).holder = p
         /\ Taken(p, age).left >= TTL - MaxDelay
  BY ConstantsAssumption DEF Taken, Row, Left, Floor

LEMMA IdleIsTask == Idle \in TaskRecord
  BY ConstantsAssumption DEF Idle, TaskRecord

LEMMA StillTask ==
  ASSUME NEW t \in TaskRecord, NEW h \in Handle
  PROVE  [t EXCEPT !.pc = "watch", !.handle = h] \in TaskRecord
  BY DEF TaskRecord

LEMMA InitInv == Init => IInv
<1> SUFFICES ASSUME Init PROVE IInv
  OBVIOUS
<1>1. TypeOK
  BY IdleIsTask, ConstantsAssumption DEF Init, TypeOK, TaskRecord
<1>2. HandleInv /\ PodInv /\ HolderInv
  BY DEF Init, HandleInv, PodInv, Runs, HolderInv, Idle
<1> QED
  BY <1>1, <1>2 DEF IInv

---------------------------------------------------------------------------
(* Types.                                                                  *)

LEMMA TickType ==
  ASSUME TypeOK, HandleInv, NEW p \in Pod, NEW s \in Slot,
         Tick(p, s) \/ Fail(p, s) \/ WatchFails(p, s)
  PROVE  TypeOK' /\ HandleInv'
<1> USE DEF At, Goto, Done, pod
<1>1. task \in [Pod -> [Slot -> TaskRecord]] /\ task[p][s] \in TaskRecord
  BY DEF TypeOK, TaskRecord
<1>2. \A r : /\ r \in TaskRecord /\ (r.pc = "watch" => r.handle \in Handle)
             /\ task' = [task EXCEPT ![p][s] = r]
             => /\ task' \in [Pod -> [Slot -> TaskRecord]]
                /\ HandleInv'
  <2> SUFFICES ASSUME NEW r \in TaskRecord, r.pc = "watch" => r.handle \in Handle,
                      task' = [task EXCEPT ![p][s] = r]
               PROVE  task' \in [Pod -> [Slot -> TaskRecord]] /\ HandleInv'
    OBVIOUS
  <2>1. task' \in [Pod -> [Slot -> TaskRecord]]
    BY <1>1
  <2>2. \A q \in Pod, t \in Slot : task'[q][t] = task[q][t] \/ task'[q][t] = r
    BY <1>1
  <2> QED
    BY <2>1, <2>2 DEF HandleInv
<1>3. \A pc \in {"examine", "insert", "select", "steal", "undo", "release"} :
        task' = [task EXCEPT ![p][s].pc = pc] =>
          task' \in [Pod -> [Slot -> TaskRecord]] /\ HandleInv'
  <2> SUFFICES ASSUME NEW pc \in {"examine", "insert", "select", "steal", "undo", "release"},
                      task' = [task EXCEPT ![p][s].pc = pc]
               PROVE  task' \in [Pod -> [Slot -> TaskRecord]] /\ HandleInv'
    OBVIOUS
  <2>1. [task[p][s] EXCEPT !.pc = pc] \in TaskRecord /\ [task[p][s] EXCEPT !.pc = pc].pc = pc
    BY <1>1 DEF TaskRecord
  <2>2. task' = [task EXCEPT ![p][s] = [task[p][s] EXCEPT !.pc = pc]]
    OBVIOUS
  <2> QED
    BY <1>2, <2>1, <2>2
<1>4. Done(p, s) => task' \in [Pod -> [Slot -> TaskRecord]] /\ HandleInv'
  BY <1>2, IdleIsTask DEF Idle
<1>5. ASSUME Acquire(p, s) PROVE TypeOK' /\ HandleInv'
  <2>1. PICK h \in Handle :
          /\ row' = Taken(p, task[p][s].age)
          /\ beating' = [beating EXCEPT ![p] = @ \cup {h}]
          /\ silence' = [silence EXCEPT ![p] = 0]
          /\ task' = [task EXCEPT ![p][s] = [Idle EXCEPT !.pc = "watch", !.handle = h]]
          /\ UNCHANGED <<desired, process, active, watching>>
    BY <1>5 DEF Acquire
  <2>2. [Idle EXCEPT !.pc = "watch", !.handle = h] \in TaskRecord
    BY <2>1, StillTask, IdleIsTask
  <2>3. [Idle EXCEPT !.pc = "watch", !.handle = h].handle = h
    BY DEF Idle
  <2>4. task' \in [Pod -> [Slot -> TaskRecord]] /\ HandleInv'
    BY <1>2, <2>1, <2>2, <2>3
  <2>5. row' \in Row
    BY <1>1, <2>1, TakenIsRow DEF TaskRecord
  <2>6. beating' \in [Pod -> SUBSET Handle] /\ silence' \in [Pod -> 0..MaxSilence]
    BY <2>1, ConstantsAssumption DEF TypeOK
  <2> QED
    BY <2>1, <2>4, <2>5, <2>6 DEF TypeOK, TaskRecord
<1>6. CASE Query(p, s)
  <2>1. [task[p][s] EXCEPT !.pc = "examine", !.wanted = desired] \in TaskRecord
    BY <1>1 DEF TypeOK, TaskRecord
  <2>2. task' = [task EXCEPT ![p][s] = [task[p][s] EXCEPT !.pc = "examine", !.wanted = desired]]
    BY <1>1, <1>6 DEF Query, TaskRecord
  <2>3. [task[p][s] EXCEPT !.pc = "examine", !.wanted = desired].pc = "examine"
    BY <1>1 DEF TaskRecord
  <2>4. task' \in [Pod -> [Slot -> TaskRecord]] /\ HandleInv'
    BY <1>2, <2>1, <2>2, <2>3
  <2> QED
    BY <1>6, <2>4 DEF Query, TypeOK, TaskRecord
<1>7. CASE Examine(p, s)
  <2>1. task' \in [Pod -> [Slot -> TaskRecord]] /\ HandleInv'
    BY <1>3, <1>4, <1>7 DEF Examine
  <2>2. watching' \in [Pod -> SUBSET Handle] /\ beating' \in [Pod -> SUBSET Handle]
    <3>1. watching \in [Pod -> SUBSET Handle] /\ beating \in [Pod -> SUBSET Handle]
      BY DEF TypeOK
    <3>2. /\ \/ watching' = watching
             \/ watching' = [watching EXCEPT ![p] = @ \ {active[p]}]
          /\ \/ beating' = beating
             \/ beating' = [beating EXCEPT ![p] = @ \ {active[p]}]
      BY <1>7, Zenon DEF Examine
    <3> QED
      BY <3>1, <3>2
  <2> QED
    BY <1>7, <2>1, <2>2 DEF Examine, TypeOK, TaskRecord
<1>8. CASE Insert(p, s)
  BY <1>3, <1>5, <1>8 DEF Insert, TypeOK, TaskRecord
<1>9. CASE Select(p, s)
  BY <1>3, <1>4, <1>9 DEF Select, TypeOK, TaskRecord
<1>10. CASE Steal(p, s)
  BY <1>4, <1>5, <1>10 DEF Steal, TypeOK, TaskRecord
<1>11. CASE Watch(p, s)
  <2>1. task[p][s].handle \in Handle
    BY <1>11 DEF Watch, HandleInv
  <2>2. watching' \in [Pod -> SUBSET Handle] /\ active' \in [Pod -> Handle \cup {None}]
    BY <1>11, <2>1 DEF Watch, TypeOK
  <2> QED
    BY <1>4, <1>11, <2>2 DEF Watch, TypeOK, TaskRecord
<1>12. CASE Release(p, s)
  <2>1. active' \in [Pod -> Handle \cup {None}] /\ row' \in Row \cup {None}
    BY <1>12 DEF Release, TypeOK
  <2> QED
    BY <1>4, <1>12, <2>1 DEF Release, TypeOK, TaskRecord
<1>13. CASE Fail(p, s)
  <2>1. row' \in Row \cup {None}
    BY <1>1, <1>13, TakenIsRow DEF Fail, TypeOK, TaskRecord
  <2> QED
    BY <1>4, <1>13, <2>1 DEF Fail, TypeOK, TaskRecord
<1>14. CASE WatchFails(p, s)
  <2>1. beating' \in [Pod -> SUBSET Handle]
    BY <1>14 DEF WatchFails, TypeOK
  <2> QED
    BY <1>3, <1>14, <2>1 DEF WatchFails, TypeOK, TaskRecord
<1> QED
  BY <1>6, <1>7, <1>8, <1>9, <1>10, <1>11, <1>12, <1>13, <1>14 DEF Tick

LEMMA EnvironmentType ==
  ASSUME TypeOK, HandleInv,
         \/ \E p \in Pod : Start(p) \/ Crash(p) \/ Sigterm(p)
         \/ \E p \in Pod, h \in Handle : Heartbeat(p, h)
         \/ SetActive
         \/ Elapse
  PROVE  TypeOK' /\ HandleInv'
<1>1. CASE \E p \in Pod : Start(p)
  BY <1>1 DEF Start, TypeOK, HandleInv
<1>2. ASSUME NEW p \in Pod, NEW how \in {"crashed", "exited"}, Stop(p, how)
      PROVE  TypeOK' /\ HandleInv'
  <2>1. task' \in [Pod -> [Slot -> TaskRecord]]
    BY <1>2, IdleIsTask DEF Stop, TypeOK, TaskRecord
  <2>2. \A q \in Pod, t \in Slot : task'[q][t] = task[q][t] \/ task'[q][t] = Idle
    BY <1>2 DEF Stop, TypeOK
  <2>3. HandleInv'
    BY <2>2 DEF HandleInv, Idle
  <2>4. /\ process' \in [Pod -> {"new", "running", "exited", "crashed"}]
        /\ active' \in [Pod -> Handle \cup {None}]
        /\ beating' \in [Pod -> SUBSET Handle] /\ watching' \in [Pod -> SUBSET Handle]
        /\ silence' \in [Pod -> 0..MaxSilence]
    BY <1>2, ConstantsAssumption DEF Stop, TypeOK
  <2> QED
    BY <1>2, <2>1, <2>3, <2>4 DEF Stop, TypeOK, TaskRecord
<1>3. CASE \E p \in Pod : Crash(p) \/ Sigterm(p)
  BY <1>2, <1>3 DEF Crash, Sigterm
<1>4. ASSUME NEW p \in Pod, NEW h \in Handle, Heartbeat(p, h)
      PROVE  TypeOK' /\ HandleInv'
  <2>1. row' \in Row \cup {None}
    BY <1>4, TakenIsRow DEF Heartbeat, TypeOK
  <2>2. silence' \in [Pod -> 0..MaxSilence]
    BY <1>4, ConstantsAssumption DEF Heartbeat, TypeOK
  <2> QED
    BY <1>4, <2>1, <2>2 DEF Heartbeat, TypeOK, HandleInv
<1>5. CASE SetActive
  BY <1>5 DEF SetActive, pod, TypeOK, HandleInv
<1>6. CASE Elapse
  <2>1. row' \in Row \cup {None}
    BY <1>6, ConstantsAssumption DEF Elapse, TypeOK, Row, Left, Floor
  <2>2. \A p \in Pod, s \in Slot :
          /\ task[p][s] \in TaskRecord
          /\ Acquiring(p, s) => [task[p][s] EXCEPT !.age = @ + 1] \in TaskRecord
    <3> SUFFICES ASSUME NEW p \in Pod, NEW s \in Slot
                 PROVE  /\ task[p][s] \in TaskRecord
                        /\ Acquiring(p, s) => [task[p][s] EXCEPT !.age = @ + 1] \in TaskRecord
      OBVIOUS
    <3>1. task[p][s] \in TaskRecord
      BY DEF TypeOK, TaskRecord
    <3>2. Acquiring(p, s) => task[p][s].age < MaxDelay
      BY <1>6 DEF Elapse
    <3> QED
      BY <3>1, <3>2, ConstantsAssumption DEF TaskRecord
  <2>3. task' \in [Pod -> [Slot -> TaskRecord]]
    BY <1>6, <2>2 DEF Elapse
  <2>4. \A p \in Pod, s \in Slot :
          task'[p][s].pc = task[p][s].pc /\ task'[p][s].handle = task[p][s].handle
    BY <1>6, <2>2 DEF Elapse, TaskRecord
  <2>5. silence' \in [Pod -> 0..MaxSilence]
    <3>1. \A p \in Pod : silence[p] \in 0..MaxSilence
      BY DEF TypeOK
    <3>2. \A p \in Pod : beating[p] # {} => silence[p] + 1 \in 0..MaxSilence
      BY <1>6, <3>1, ConstantsAssumption DEF Elapse
    <3> QED
      BY <1>6, <3>2, ConstantsAssumption DEF Elapse
  <2> QED
    BY <1>6, <2>1, <2>3, <2>4, <2>5 DEF Elapse, TypeOK, HandleInv, TaskRecord
<1> QED
  BY <1>1, <1>3, <1>4, <1>5, <1>6

LEMMA TypeStep == TypeOK /\ HandleInv /\ [Next]_vars => TypeOK' /\ HandleInv'
<1>1. ASSUME TypeOK, HandleInv, UNCHANGED vars PROVE TypeOK' /\ HandleInv'
  BY <1>1 DEF vars, TypeOK, HandleInv
<1> QED
  BY <1>1, TickType, EnvironmentType DEF Next

(* Every variable keeps its type, however slow and skewed the pods are, and *)
(* however many of their ticks overlap.                                     *)
THEOREM TypeCorrect == Spec => []TypeOK
<1>1. Init => TypeOK /\ HandleInv
  BY InitInv DEF IInv
<1> QED
  BY <1>1, TypeStep, PTL DEF Spec
---------------------------------------------------------------------------
(* One watcher.                                                            *)

(* While some pod's timer runs, the lease is neither free nor expired for  *)
(* anybody who is about to take it.                                        *)
LEMMA Taking ==
  ASSUME Timing, IInv, NEW p \in Pod, NEW s \in Slot, row = None \/ Expired(p, s)
  PROVE  \A q \in Pod : beating[q] = {}
<1> SUFFICES ASSUME NEW q \in Pod, beating[q] # {} PROVE FALSE
  OBVIOUS
<1>1. row # None /\ row.left >= TTL - MaxDelay - silence[q]
  BY DEF IInv, HolderInv, Holds
<1>2. /\ row.left \in Int /\ silence[q] \in 0..MaxSilence /\ task[p][s].age \in 0..MaxDelay
      /\ Skew[p] \in 0..MaxSkew
  BY <1>1, ConstantsAssumption DEF IInv, TypeOK, Row, Left, Floor
<1>3. Remaining(p, s) <= -1
  BY <1>1 DEF Expired
<1> QED
  BY <1>1, <1>2, <1>3, ConstantsAssumption DEF Timing, Remaining

(* A step of one pod's tick leaves what the others run alone. *)
LEMMA OthersRun ==
  ASSUME IInv, NEW p \in Pod,
         \A q \in Pod \ {p} : /\ task'[q] = task[q] /\ active'[q] = active[q]
                              /\ beating'[q] = beating[q] /\ watching'[q] = watching[q],
         Runs(p)'
  PROVE  PodInv'
<1> SUFFICES ASSUME NEW q \in Pod, q # p PROVE Runs(q)'
  BY DEF PodInv
<1> QED
  BY DEF IInv, PodInv, Runs

LEMMA AcquireInv ==
  ASSUME Timing, DeletesApart, IInv, NEW p \in Pod, NEW s \in Slot,
         At(p, s, "insert") \/ At(p, s, "steal"), row = None \/ Expired(p, s), Acquire(p, s)
  PROVE  PodInv' /\ HolderInv'
<1>1. PICK h \in Handle :
        /\ row' = Taken(p, task[p][s].age)
        /\ beating' = [beating EXCEPT ![p] = @ \cup {h}]
        /\ silence' = [silence EXCEPT ![p] = 0]
        /\ task' = [task EXCEPT ![p][s] = [Idle EXCEPT !.pc = "watch", !.handle = h]]
        /\ UNCHANGED <<desired, process, active, watching>>
  BY DEF Acquire
<1>2. [Idle EXCEPT !.pc = "watch", !.handle = h].pc = "watch"
      /\ [Idle EXCEPT !.pc = "watch", !.handle = h].handle = h
  BY DEF Idle
<1>3. /\ task'[p][s].pc = "watch" /\ task'[p][s].handle = h
      /\ \A t \in Slot \ {s} : task'[p][t] = task[p][t]
      /\ \A q \in Pod \ {p} : task'[q] = task[q]
  BY <1>1, <1>2 DEF IInv, TypeOK
<1>4. \A q \in Pod : beating[q] = {}
  BY Taking
<1>5. /\ beating'[p] = {h} /\ silence'[p] = 0
      /\ \A q \in Pod \ {p} : beating'[q] = {}
  BY <1>1, <1>4 DEF IInv, TypeOK
<1>6. \A t \in Slot : task[p][t].pc \notin {"watch", "undo", "release"}
  <2>1. \A t \in Slot : task[p][t].pc \notin {"undo", "release"}
    BY DEF DeletesApart, Deleting, Acquiring, At
  <2>2. \A t \in Slot : task[p][t].pc # "watch"
    BY <1>4 DEF IInv, PodInv, Runs
  <2> QED
    BY <2>1, <2>2
<1>7. watching[p] = {} /\ active[p] = None
  BY <1>4, <1>6 DEF IInv, PodInv, Runs
<1>8. PodInv'
  <2>1. Runs(p)'
    BY <1>1, <1>3, <1>5, <1>6, <1>7 DEF Runs
  <2> QED
    BY <1>1, <1>3, <1>4, <1>5, <2>1, OthersRun
<1>9. Holds(p)'
  <2>1. task[p][s].age \in 0..MaxDelay
    BY DEF IInv, TypeOK
  <2>2. row' # None
    BY <1>1, <2>1, TakenIsRow, NoneAssumption
  <2>3. row'.left >= TTL - MaxDelay - 0
    BY <1>1, <2>1, TakenIsRow, ConstantsAssumption DEF Row, Left, Floor
  <2> QED
    BY <1>1, <1>5, <2>1, <2>2, <2>3, TakenIsRow DEF Holds
<1> QED
  BY <1>5, <1>8, <1>9 DEF HolderInv

LEMMA TickInv ==
  ASSUME Timing, DeletesApart, IInv, NEW p \in Pod, NEW s \in Slot,
         Tick(p, s) \/ Fail(p, s) \/ WatchFails(p, s)
  PROVE  PodInv' /\ HolderInv'
<1> USE DEF At, pod
<1> DEFINE Others == /\ \A t \in Slot \ {s} : task'[p][t] = task[p][t]
                     /\ \A q \in Pod \ {p} : task'[q] = task[q]
<1>1. /\ task \in [Pod -> [Slot -> TaskRecord]]
      /\ active \in [Pod -> Handle \cup {None}]
      /\ beating \in [Pod -> SUBSET Handle] /\ watching \in [Pod -> SUBSET Handle]
      /\ silence \in [Pod -> 0..MaxSilence]
      /\ Runs(p)
  BY DEF IInv, TypeOK, TaskRecord, PodInv
<1>2. \A pc : Goto(p, s, pc) => /\ task'[p][s].pc = pc
                                /\ task'[p][s].handle = task[p][s].handle
                                /\ Others
  <2> SUFFICES ASSUME NEW pc, task' = [task EXCEPT ![p][s].pc = pc]
               PROVE  /\ task'[p][s].pc = pc
                      /\ task'[p][s].handle = task[p][s].handle
                      /\ Others
    BY DEF Goto
  <2>1. task'[p][s] = [task[p][s] EXCEPT !.pc = pc]
    BY <1>1
  <2>2. task[p][s] \in TaskRecord
    BY <1>1
  <2> QED
    BY <1>1, <2>1, <2>2 DEF TaskRecord
<1>3. Done(p, s) => task'[p][s].pc = "idle" /\ Others
  BY <1>1 DEF Done, Idle
<1>4. ASSUME UNCHANGED <<row, beating, silence>> PROVE HolderInv'
  BY <1>4 DEF IInv, HolderInv, Holds
<1>5. ASSUME task[p][s].pc \notin {"watch", "undo", "release"},
             task'[p][s].pc \notin {"watch", "undo", "release"}, Others,
             UNCHANGED <<active, beating, watching>>
      PROVE  PodInv'
  <2>1. Runs(p)'
    BY <1>1, <1>5 DEF Runs
  <2> QED
    BY <1>5, <2>1, OthersRun
<1>6. CASE Query(p, s)
  <2>1. task' = [task EXCEPT ![p][s] = [task[p][s] EXCEPT !.pc = "examine", !.wanted = desired]]
    BY <1>1, <1>6 DEF Query
  <2>2. [task[p][s] EXCEPT !.pc = "examine", !.wanted = desired].pc = "examine"
    BY <1>1 DEF TaskRecord
  <2>3. task'[p][s].pc = "examine" /\ Others
    BY <1>1, <2>1, <2>2
  <2> QED
    BY <1>4, <1>5, <1>6, <2>3 DEF Query
<1>7. CASE Examine(p, s)
  <2>1. CASE Goto(p, s, "insert") /\ UNCHANGED <<beating, watching>>
    BY <1>2, <1>4, <1>5, <1>7, <2>1 DEF Examine
  <2>2. CASE Done(p, s) /\ UNCHANGED <<beating, watching>>
    BY <1>3, <1>4, <1>5, <1>7, <2>2 DEF Examine
  <2>3. CASE /\ active[p] # None
             /\ watching' = [watching EXCEPT ![p] = @ \ {active[p]}]
             /\ beating' = [beating EXCEPT ![p] = @ \ {active[p]}]
             /\ Goto(p, s, "release")
    <3>1. \A t \in Slot : task[p][t].pc \notin {"watch", "undo"}
      BY <1>1, <2>3 DEF Runs
    <3>2. watching[p] \subseteq {active[p]} /\ beating[p] \subseteq {active[p]}
      BY <1>1, <3>1 DEF Runs
    <3>3. /\ watching'[p] = {} /\ beating'[p] = {}
          /\ \A q \in Pod \ {p} : watching'[q] = watching[q] /\ beating'[q] = beating[q]
      BY <1>1, <2>3, <3>2
    <3>4. /\ task'[p][s].pc = "release" /\ Others
          /\ \A t \in Slot : task'[p][t].pc \notin {"watch", "undo"}
      BY <1>2, <2>3, <3>1
    <3>5. Runs(p)'
      BY <3>3, <3>4 DEF Runs
    <3>6. PodInv'
      BY <1>7, <3>3, <3>4, <3>5, OthersRun DEF Examine
    <3>7. HolderInv'
      BY <1>7, <3>3 DEF Examine, IInv, HolderInv, Holds
    <3> QED
      BY <3>6, <3>7
  <2> QED
    BY <1>7, <2>1, <2>2, <2>3 DEF Examine
<1>8. ASSUME task[p][s].pc \in {"insert", "select", "steal"},
             Goto(p, s, "select") \/ Goto(p, s, "steal") \/ Done(p, s),
             UNCHANGED <<row, pod>>
      PROVE  PodInv' /\ HolderInv'
  <2>1. task'[p][s].pc \notin {"watch", "undo", "release"} /\ Others
    BY <1>2, <1>3, <1>8
  <2> QED
    BY <1>4, <1>5, <1>8, <2>1
<1>9. CASE Insert(p, s)
  BY <1>8, <1>9, AcquireInv DEF Insert
<1>10. CASE Select(p, s)
  BY <1>8, <1>10 DEF Select
<1>11. CASE Steal(p, s)
  BY <1>8, <1>11, AcquireInv DEF Steal
<1>12. CASE Fail(p, s)
  <2>1. task[p][s].pc \in {"insert", "select", "steal"}
    BY <1>12 DEF Fail, Acquiring
  <2>2. CASE UNCHANGED row
    BY <1>8, <1>12, <2>1, <2>2 DEF Fail
  <2>3. CASE row = None \/ Expired(p, s)
    <3>1. \A q \in Pod : beating'[q] = {}
      BY <1>12, <2>3, Taking DEF Fail
    <3>2. PodInv'
      BY <1>3, <1>5, <1>12, <2>1 DEF Fail
    <3> QED
      BY <3>1, <3>2 DEF HolderInv
  <2> QED
    BY <1>12, <2>2, <2>3 DEF Fail
<1>13. CASE Watch(p, s)
  <2>1. /\ watching[p] = {} /\ beating[p] = {task[p][s].handle}
        /\ \A t \in Slot \ {s} : task[p][t].pc \notin {"watch", "undo", "release"}
    BY <1>1, <1>13 DEF Watch, Runs
  <2>2. task[p][s].handle \in Handle
    BY <1>13 DEF Watch, IInv, HandleInv
  <2>3. /\ watching'[p] = {task[p][s].handle} /\ active'[p] = task[p][s].handle
        /\ beating'[p] = {task[p][s].handle}
        /\ \A q \in Pod \ {p} : watching'[q] = watching[q] /\ active'[q] = active[q]
    BY <1>1, <1>13, <2>1 DEF Watch
  <2>4. Others /\ \A t \in Slot : task'[p][t].pc \notin {"watch", "undo", "release"}
    BY <1>3, <1>13, <2>1 DEF Watch
  <2>5. Runs(p)'
    BY <2>2, <2>3, <2>4, ConstantsAssumption DEF Runs
  <2> QED
    BY <1>4, <1>13, <2>3, <2>4, <2>5, OthersRun DEF Watch
<1>14. CASE WatchFails(p, s)
  <2>1. /\ watching[p] = {} /\ beating[p] = {task[p][s].handle} /\ active[p] = None
        /\ \A t \in Slot \ {s} : task[p][t].pc \notin {"watch", "undo", "release"}
    BY <1>1, <1>14 DEF WatchFails, Runs
  <2>2. /\ beating'[p] = {}
        /\ \A q \in Pod \ {p} : beating'[q] = beating[q]
    BY <1>1, <1>14, <2>1 DEF WatchFails
  <2>3. /\ task'[p][s].pc = "undo" /\ Others
        /\ \A t \in Slot : task'[p][t].pc # "watch"
    BY <1>2, <1>14, <2>1 DEF WatchFails
  <2>4. Runs(p)'
    BY <1>14, <2>1, <2>2, <2>3 DEF WatchFails, Runs
  <2>5. PodInv'
    BY <1>14, <2>2, <2>3, <2>4, OthersRun DEF WatchFails
  <2>6. HolderInv'
    BY <1>14, <2>2 DEF WatchFails, IInv, HolderInv, Holds
  <2> QED
    BY <2>5, <2>6
<1>15. CASE Release(p, s)
  <2>1. /\ watching[p] = {} /\ beating[p] = {}
        /\ task[p][s].pc # "release" => active[p] = None
        /\ \A t \in Slot : task[p][t].pc # "watch"
    BY <1>1, <1>15 DEF Release, Runs
  <2>2. active'[p] = None /\ \A q \in Pod \ {p} : active'[q] = active[q]
    BY <1>1, <1>15, <2>1 DEF Release
  <2>3. Others /\ \A t \in Slot : task'[p][t].pc # "watch"
    BY <1>3, <1>15, <2>1 DEF Release
  <2>4. Runs(p)'
    BY <1>15, <2>1, <2>2, <2>3 DEF Release, Runs
  <2>5. PodInv'
    BY <1>15, <2>2, <2>3, <2>4, OthersRun DEF Release
  <2>6. HolderInv'
    <3> SUFFICES ASSUME NEW q \in Pod, beating'[q] # {} PROVE Holds(q)'
      BY DEF HolderInv
    <3>1. q # p /\ Holds(q)
      BY <1>15, <2>1 DEF Release, IInv, HolderInv
    <3> QED
      BY <1>15, <3>1 DEF Release, Holds
  <2> QED
    BY <2>5, <2>6
<1> QED
  BY <1>6, <1>7, <1>9, <1>10, <1>11, <1>12, <1>13, <1>14, <1>15 DEF Tick

LEMMA EnvironmentInv ==
  ASSUME IInv,
         \/ \E p \in Pod : Start(p) \/ Crash(p) \/ Sigterm(p)
         \/ \E p \in Pod, h \in Handle : Heartbeat(p, h)
         \/ SetActive
         \/ Elapse
  PROVE  PodInv' /\ HolderInv'
<1>1. ASSUME UNCHANGED <<row, task, active, beating, watching, silence>>
      PROVE  PodInv' /\ HolderInv'
  BY <1>1 DEF IInv, PodInv, Runs, HolderInv, Holds
<1>2. CASE (\E p \in Pod : Start(p)) \/ SetActive
  BY <1>1, <1>2 DEF Start, SetActive, pod
<1>3. ASSUME NEW p \in Pod, NEW how, Stop(p, how)
      PROVE  PodInv' /\ HolderInv'
  <2>1. /\ \A s \in Slot : task'[p][s] = Idle
        /\ active'[p] = None /\ beating'[p] = {} /\ watching'[p] = {}
        /\ \A q \in Pod \ {p} : /\ task'[q] = task[q] /\ active'[q] = active[q]
                                /\ beating'[q] = beating[q] /\ watching'[q] = watching[q]
                                /\ silence'[q] = silence[q]
    BY <1>3 DEF Stop, IInv, TypeOK
  <2>2. Runs(p)'
    BY <2>1 DEF Runs, Idle
  <2>3. PodInv'
    BY <2>1, <2>2, OthersRun
  <2>4. HolderInv'
    BY <1>3, <2>1 DEF Stop, IInv, HolderInv, Holds
  <2> QED
    BY <2>3, <2>4
<1>4. CASE \E p \in Pod : Crash(p) \/ Sigterm(p)
  BY <1>3, <1>4 DEF Crash, Sigterm
<1>5. ASSUME NEW p \in Pod, NEW h \in Handle, Heartbeat(p, h)
      PROVE  PodInv' /\ HolderInv'
  <2>1. PodInv'
    BY <1>5 DEF Heartbeat, IInv, PodInv, Runs
  <2>2. Holds(p)
    BY <1>5 DEF Heartbeat, IInv, HolderInv
  <2>3. PICK age \in 0..MaxDelay : row' = Taken(p, age)
    BY <1>5, <2>2 DEF Heartbeat, Holds
  <2>4. silence'[p] = 0 /\ beating' = beating
    BY <1>5 DEF Heartbeat, IInv, TypeOK
  <2>5. Holds(p)'
    <3>1. row'.left >= TTL - MaxDelay - 0
      BY <2>3, TakenIsRow, ConstantsAssumption DEF Row, Left, Floor
    <3> QED
      BY <2>3, <2>4, <3>1, TakenIsRow, NoneAssumption DEF Holds
  <2>6. \A q \in Pod \ {p} : beating[q] = {}
    BY <2>2 DEF Holds, IInv, HolderInv
  <2> QED
    BY <2>1, <2>4, <2>5, <2>6 DEF HolderInv
<1>6. CASE Elapse
  <2>1. \A p \in Pod, s \in Slot : task[p][s] \in TaskRecord
    BY DEF IInv, TypeOK, TaskRecord
  <2>2. \A p \in Pod, s \in Slot :
          task'[p][s].pc = task[p][s].pc /\ task'[p][s].handle = task[p][s].handle
    BY <1>6, <2>1 DEF Elapse, TaskRecord
  <2>3. PodInv'
    BY <1>6, <2>2 DEF Elapse, IInv, PodInv, Runs
  <2>4. ASSUME NEW p \in Pod, beating'[p] # {} PROVE Holds(p)'
    <3>1. Holds(p) /\ silence'[p] = silence[p] + 1
      BY <1>6, <2>4 DEF Elapse, IInv, HolderInv
    <3>2. row \in Row /\ row.left \in Int /\ silence[p] \in 0..MaxSilence
      BY <3>1, ConstantsAssumption DEF Holds, IInv, TypeOK, Row, Left, Floor
    <3>3. /\ row' # None /\ row'.holder = row.holder
          /\ row'.left \in {row.left, row.left - 1}
      <4>1. CASE row' = row
        BY <3>1, <4>1 DEF Holds
      <4>2. CASE row' = [row EXCEPT !.left = @ - 1] /\ row.left > Floor
        <5>1. row' \in Row
          BY <3>2, <4>2, ConstantsAssumption DEF Row, Left, Floor
        <5>2. row'.holder = row.holder /\ row'.left = row.left - 1
          BY <3>2, <4>2 DEF Row
        <5> QED
          BY <5>1, <5>2, NoneAssumption
      <4> QED
        BY <1>6, <4>1, <4>2 DEF Elapse
    <3> QED
      BY <3>1, <3>2, <3>3, ConstantsAssumption DEF Holds
  <2> QED
    BY <2>3, <2>4 DEF HolderInv
<1> QED
  BY <1>2, <1>4, <1>5, <1>6

LEMMA StepInv ==
  ASSUME Timing
  PROVE  IInv /\ DeletesApart /\ [Next]_vars => IInv'
<1> SUFFICES ASSUME IInv, DeletesApart, [Next]_vars PROVE IInv'
  OBVIOUS
<1>1. TypeOK' /\ HandleInv'
  BY TypeStep DEF IInv
<1>2. ASSUME UNCHANGED vars PROVE PodInv' /\ HolderInv'
  BY <1>2 DEF vars, IInv, PodInv, Runs, HolderInv, Holds
<1>3. PodInv' /\ HolderInv'
  BY <1>2, TickInv, EnvironmentInv DEF Next
<1> QED
  BY <1>1, <1>3 DEF IInv

(* With leases that outlive every silence and deletes that do not run into  *)
(* a pod's next acquisition, a pod whose timer runs holds the lease, and    *)
(* what it runs follows from how far its ticks are.                         *)
THEOREM Invariant ==
  ASSUME Timing
  PROVE  Spec /\ []DeletesApart => []IInv
  BY InitInv, StepInv, PTL DEF Spec

(* No two pollers run where the invariant holds. *)
LEMMA InvariantWatches == IInv => OneWatcher
<1> SUFFICES ASSUME IInv, NEW p \in Pod, NEW q \in Pod,
                    NEW g \in watching[p], NEW h \in watching[q]
             PROVE  p = q /\ g = h
  BY DEF OneWatcher
<1>1. \A r \in Pod : watching[r] # {} =>
        watching[r] = {active[r]} \ {None} /\ beating[r] = watching[r]
  BY DEF IInv, PodInv, Runs
<1>2. p = q
  BY <1>1 DEF IInv, HolderInv, Holds
<1> QED
  BY <1>1, <1>2

(* Then no two Horizon pollers ever watch the account, whether in two pods *)
(* or in one, however many ticks of a pod overlap (manager.ts:51): through *)
(* crashes, errors whose writes have landed, skewed clocks, late writes.   *)
THEOREM OneWatcherHolds ==
  ASSUME Timing
  PROVE  Spec /\ []DeletesApart => []OneWatcher
  BY Invariant, InvariantWatches, PTL

(* Ticks that end before the next one starts keep deletes apart: nothing    *)
(* but Timing is then assumed.                                              *)
THEOREM OneTickWatches ==
  ASSUME Timing, NEW s \in Slot, Slot = {s}
  PROVE  Spec => []OneWatcher
<1>1. DeletesApart
  BY DEF DeletesApart, Deleting, Acquiring, At
<1> QED
  BY <1>1, OneWatcherHolds, PTL
=============================================================================
