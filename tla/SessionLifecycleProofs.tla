----------------------- MODULE SessionLifecycleProofs -----------------------
(***************************************************************************)
(* Proofs about SessionLifecycle, for every number of drain tasks, callers  *)
(* and reconcile tasks, every bound on the queue and every set of events.   *)
(*                                                                          *)
(* First the types and the writes: which task writes, and what is stored.   *)
(* Then, built on that, that the lifecycle of a session agrees with the     *)
(* evidence it is derived from: a turn that runs is shown as work, and a    *)
(* session at rest shows neither more nor less than its tasks and its       *)
(* window account for.                                                      *)
(***************************************************************************)
EXTENDS SessionLifecycle, TLAPS

-----------------------------------------------------------------------------
(* Tasks.                                                                   *)

LEMMA OffType == OffTask \in Task
  BY DEF OffTask, Task, Pcs, Jobs, Lifecycles, Waiting, Working

LEMMA AtPcType == ASSUME NEW p \in Pcs PROVE AtPc(p) \in Task
  BY OffType DEF AtPc, Task, OffTask

LEMMA WantingType == ASSUME NEW j \in Jobs PROVE Wanting(j) \in Task
  BY OffType DEF Wanting, Task, OffTask, Pcs

\* A task may be set to work on anything that is well typed.
LEMMA TaskUpdate ==
    ASSUME TypeOK, NEW w \in Tasks, NEW r \in Task,
           task' = [task EXCEPT ![w] = r]
    PROVE  task' \in [Tasks -> Task]
  BY DEF TypeOK

LEMMA GotoType ==
    ASSUME TypeOK, NEW w \in Tasks, NEW p \in Pcs, Goto(w, p)
    PROVE  task' \in [Tasks -> Task]
  BY AtPcType, TaskUpdate DEF Goto

LEMMA BackType == ASSUME NEW w \in Tasks PROVE Back(w) \in Pcs
  BY DEF Back, Pcs

LEMMA FinishType ==
    ASSUME TypeOK, NEW w \in Tasks, Finish(w)
    PROVE  lock' \in Tasks \cup {NoTask} /\ task' \in [Tasks -> Task]
  BY BackType, GotoType DEF Finish

LEMMA DeriveType ==
    ASSUME NEW a, NEW b, NEW c
    PROVE  /\ Derive(a, b, c) \in Lifecycles
           /\ Derive(a, b, c) # "done"
  BY DEF Derive, Lifecycles, Working, Waiting

LEMMA KickType ==
    ASSUME TypeOK, NEW ts \in [Tasks -> Task], KickDrain(ts)
    PROVE  /\ task' \in [Tasks -> Task]
           /\ running' \in BOOLEAN /\ window' \in BOOLEAN
           /\ current' \in BOOLEAN
<1>1. AtPc("loop") \in Task
  BY AtPcType DEF Pcs
<1> QED
  BY <1>1 DEF KickDrain, TypeOK, Tasks

LEMMA BootType ==
    ASSUME NEW s \in Lifecycles
    PROVE  Boot(s) \in Lifecycles /\ (s # "done" => Boot(s) # "done")
  BY DEF Boot, Swept, Recovered, Lifecycles, Working, Waiting

-----------------------------------------------------------------------------
(* Type correctness.                                                        *)

LEMMA TypeInit == Init => TypeOK
<1> SUFFICES ASSUME Init PROVE TypeOK
  OBVIOUS
<1>1. AtPc("watch") \in Task
  BY AtPcType DEF Pcs
<1>2. task \in [Tasks -> Task]
  BY <1>1, OffType DEF Init
<1>3. /\ queued \in 0..MaxQueue /\ sending \subseteq BOOLEAN
      /\ lock \in Tasks \cup {NoTask}
  BY LifecycleAssumption DEF Init
<1>4. last \in Lifecycles /\ stored \in Lifecycles
  BY DEF Init, Lifecycles, Waiting
<1> QED
  BY <1>2, <1>3, <1>4 DEF Init, TypeOK

LEMMA TypeWriter ==
    ASSUME TypeOK, NEW w \in Tasks, WriterStep(w)
    PROVE  TypeOK'
<1> USE DEF engineVars, windowVars, registryVars
<1>1. ASSUME ReadInputs(w)
      PROVE  lock' \in Tasks \cup {NoTask} /\ task' \in [Tasks -> Task]
  <2>1. CASE Finish(w)
    BY <2>1, FinishType
  <2>2. CASE /\ lock' = w
             /\ task' = [task EXCEPT ![w].pc = "weigh", ![w].open = window,
                                     ![w].owed = unann]
    <3>1. [task[w] EXCEPT !.pc = "weigh", !.open = window, !.owed = unann]
            \in Task
      BY DEF TypeOK, Task, Pcs, LockedPcs
    <3> QED
      BY <2>2, <3>1, TaskUpdate DEF TypeOK
  <2> QED
    BY <1>1, <2>1, <2>2 DEF ReadInputs
<1>2. CASE Reconcile(w)
  BY <1>1, <1>2 DEF Reconcile, TypeOK
<1>3. CASE ReconcileLocked(w)
  BY <1>1, <1>3 DEF ReconcileLocked, TypeOK
<1>4. CASE Weigh(w)
  <2> DEFINE target == Derive(task[w].open, hold, task[w].owed)
  <2>1. target \in Lifecycles
    BY DeriveType
  <2>2. \/ Finish(w)
        \/ /\ \E p \in {"clear", "write"} :
                task' = [task EXCEPT ![w].pc = p, ![w].to = target]
           /\ UNCHANGED lock
    BY <1>4 DEF Weigh
  <2>3. lock' \in Tasks \cup {NoTask} /\ task' \in [Tasks -> Task]
    BY <2>1, <2>2, FinishType DEF TypeOK, Task, Pcs, LockedPcs
  <2>4. told' \in BOOLEAN /\ wakeup' \in BOOLEAN
    BY <1>4 DEF Weigh, TypeOK
  <2> QED
    BY <1>4, <2>3, <2>4 DEF Weigh, TypeOK
<1>5. CASE ClearOwed(w)
  <2>1. lock' \in Tasks \cup {NoTask} /\ task' \in [Tasks -> Task]
    BY <1>5, FinishType DEF ClearOwed, TypeOK, Task, Pcs, LockedPcs
  <2> QED
    BY <1>5, <2>1 DEF ClearOwed, TypeOK
<1>6. CASE Write(w)
  <2>1. lock' \in Tasks \cup {NoTask} /\ task' \in [Tasks -> Task]
    BY <1>6, FinishType DEF Write, TypeOK, Task, Pcs, LockedPcs
  <2>2. last' \in Lifecycles
    BY <1>6 DEF Write, TypeOK, Task
  <2> QED
    BY <1>6, <2>1, <2>2 DEF Write, TypeOK
<1>7. CASE Store(w)
  <2>1. lock' \in Tasks \cup {NoTask} /\ task' \in [Tasks -> Task]
    BY <1>7, FinishType DEF Store
  <2>2. stored' \in Lifecycles
    BY <1>7 DEF Store, TypeOK, Task
  <2> QED
    BY <1>7, <2>1, <2>2 DEF Store, TypeOK
<1> QED
  BY <1>2, <1>3, <1>4, <1>5, <1>6, <1>7 DEF WriterStep

LEMMA EmptyQueue == 0 \in 0..MaxQueue
  BY LifecycleAssumption

LEMMA TypeCall ==
    ASSUME TypeOK, NEW c \in Callers, CallStep(c) \/ Request(c)
    PROVE  TypeOK'
<1> USE DEF engineVars, windowVars, registryVars
<1>1. /\ c \in Tasks
      /\ {"kick", "latch", "empty", "sync", "abort", "done", "off"} \subseteq Pcs
  BY DEF Tasks, Pcs
<1>2. CASE KickSent(c)
  <2>1. [task EXCEPT ![c] = Wanting("human")] \in [Tasks -> Task]
    BY WantingType DEF TypeOK, Jobs
  <2> QED
    BY <1>2, <2>1, KickType DEF KickSent, TypeOK
<1>3. CASE WriteWorking(c)
  <2>1. [task[c] EXCEPT !.pc = "write", !.to = "working"] \in Task
    BY <1>1 DEF TypeOK, Task, Pcs, LockedPcs, Lifecycles, Working
  <2>2. task' \in [Tasks -> Task] /\ lock' \in Tasks \cup {NoTask}
    <3>1. CASE Live
      BY <1>1, <1>3, <2>1, <3>1, TaskUpdate DEF WriteWorking, TypeOK
    <3>2. CASE ~Live
      BY <1>1, <1>3, <3>2, FinishType DEF WriteWorking
    <3> QED
      BY <3>1, <3>2
  <2> QED
    BY <1>3, <2>2 DEF WriteWorking, TypeOK
<1>4. CASE ReleaseEmpty(c)
  BY <1>1, <1>4, GotoType DEF ReleaseEmpty, TypeOK
<1>5. CASE ReleaseSync(c)
  BY <1>1, <1>5, GotoType DEF ReleaseSync, TypeOK
<1>6. CASE ReleaseAbort(c)
  BY <1>1, <1>6, GotoType, EmptyQueue DEF ReleaseAbort, TypeOK
<1>7. CASE MarkDone(c)
  BY <1>1, <1>7, GotoType DEF MarkDone, TypeOK, Lifecycles
<1>8. CASE Send(c)
  BY <1>1, <1>8, GotoType, LifecycleAssumption DEF Send, TypeOK
<1>9. CASE Withdraw(c)
  BY <1>9, LifecycleAssumption DEF Withdraw, MayWithdraw, TypeOK
<1>10. CASE Release(c)
  BY <1>1, <1>10, GotoType DEF Release, TypeOK
<1>11. CASE ReleaseLatch(c)
  BY <1>1, <1>11, GotoType DEF ReleaseLatch, TypeOK
<1> QED
  BY <1>2, <1>3, <1>4, <1>5, <1>6, <1>7, <1>8, <1>9, <1>10, <1>11
     DEF CallStep, Request

LEMMA TypeDrain ==
    ASSUME TypeOK, NEW d \in Drains, DrainStep(d)
    PROVE  TypeOK'
<1> USE DEF engineVars, windowVars, registryVars
<1>1. d \in Tasks /\ {"turn", "loop", "fin"} \subseteq Pcs
  BY DEF Tasks, Pcs
<1>2. Wanting("notice") \in Task /\ Wanting("reconcile") \in Task
  BY WantingType DEF Jobs
<1>3. CASE DrainTurn(d)
  BY <1>1, <1>3, GotoType, LifecycleAssumption DEF DrainTurn, TypeOK
<1>4. CASE DrainNotice(d)
  BY <1>1, <1>2, <1>4, TaskUpdate DEF DrainNotice, TypeOK
<1>5. CASE WriteNotice(d)
  <2>1. [task[d] EXCEPT !.pc = "write", !.to = "notice"] \in Task
    BY <1>1 DEF TypeOK, Task, Pcs, LockedPcs, Lifecycles, Working
  <2> QED
    BY <1>1, <1>5, <2>1, TaskUpdate DEF WriteNotice, TypeOK
<1>6. CASE TurnOver(d)
  BY <1>1, <1>6, GotoType DEF TurnOver, TypeOK
<1>7. CASE DrainLeave(d)
  BY <1>1, <1>7, GotoType DEF DrainLeave, TypeOK
<1>8. CASE DrainFin(d)
  BY <1>1, <1>2, <1>8, TaskUpdate DEF DrainFin, TypeOK
<1>9. CASE DrainTail(d)
  <2> DEFINE ts == [task EXCEPT ![d] = OffTask]
  <2>1. ts \in [Tasks -> Task]
    BY OffType DEF TypeOK
  <2>2. KickDrain(ts) \/ (task' = ts /\ UNCHANGED <<running, window, current>>)
    BY <1>9 DEF DrainTail
  <2>3. /\ task' \in [Tasks -> Task] /\ running' \in BOOLEAN
        /\ window' \in BOOLEAN /\ current' \in BOOLEAN
    BY <2>1, <2>2, KickType DEF TypeOK
  <2> QED
    BY <1>9, <2>3 DEF DrainTail, TypeOK
<1>10. CASE DrainPrune(d)
  BY <1>10 DEF DrainPrune, TypeOK
<1> QED
  BY <1>3, <1>4, <1>5, <1>6, <1>7, <1>8, <1>9, <1>10 DEF DrainStep

LEMMA TypeTimer ==
    ASSUME TypeOK, TimerStep \/ Quieten
    PROVE  TypeOK'
<1> USE DEF engineVars, windowVars, registryVars
<1>1. Timer \in Tasks /\ {"off", "read"} \subseteq Pcs
  BY DEF Tasks, Pcs, LockedPcs
<1>2. CASE TimerExit
  BY <1>1, <1>2, GotoType DEF TimerExit, TypeOK
<1>3. CASE TimerFire
  <2>1. Wanting("settle") \in Task
    BY WantingType DEF Jobs
  <2> QED
    BY <1>1, <1>3, <2>1, TaskUpdate DEF TimerFire, TypeOK
<1>4. CASE Settle
  <2>1. /\ lock' \in Tasks \cup {NoTask} /\ task' \in [Tasks -> Task]
        /\ window' \in BOOLEAN
    BY <1>1, <1>4, GotoType, FinishType DEF Settle, TypeOK
  <2> QED
    BY <1>4, <2>1 DEF Settle, TypeOK
<1>5. CASE Quieten
  BY <1>5 DEF Quieten, TypeOK
<1> QED
  BY <1>2, <1>3, <1>4, <1>5 DEF TimerStep

\* Events from outside: background activity, notices, tasks, a restart.
LEMMA TypeEvent ==
    ASSUME TypeOK,
           \/ \E r \in Spawned : Content(r)
           \/ Notify \/ KickNotice \/ HoldChange
           \/ (\E v \in BOOLEAN : SendHold(v)) \/ FollowHold \/ Restart
    PROVE  TypeOK'
<1> USE DEF engineVars, windowVars, registryVars
<1>1. /\ Wanting("reconcile") \in Task /\ AtPc("check") \in Task
      /\ AtPc("watch") \in Task
  BY WantingType, AtPcType DEF Jobs, Pcs
<1>2. ASSUME NEW r \in Spawned, Content(r) PROVE TypeOK'
  <2>1. task' \in [Tasks -> Task]
    BY <1>1, <1>2 DEF Content, TypeOK
  <2> QED
    BY <1>2, <2>1 DEF Content, TypeOK
<1>3. CASE Notify
  BY <1>3 DEF Notify, TypeOK
<1>4. CASE KickNotice
  BY <1>4, KickType DEF KickNotice, TypeOK
<1>5. CASE HoldChange
  BY <1>5 DEF HoldChange, TypeOK
<1>6. ASSUME NEW v \in BOOLEAN, SendHold(v) PROVE TypeOK'
  BY <1>6 DEF SendHold, TypeOK
<1>7. CASE FollowHold
  <2>1. task' \in [Tasks -> Task]
    BY <1>1, <1>7, OffType, TaskUpdate DEF FollowHold, Tasks
  <2> QED
    BY <1>7, <2>1 DEF FollowHold, TypeOK
<1>8. CASE Restart
  <2>1. task' \in [Tasks -> Task]
    BY <1>1, <1>8, OffType DEF Restart
  <2>2. stored' \in Lifecycles /\ last' \in Lifecycles
    BY <1>8, BootType DEF Restart, TypeOK
  <2> QED
    BY <1>8, <2>1, <2>2, EmptyQueue DEF Restart, TypeOK
<1> QED
  BY <1>2, <1>3, <1>4, <1>5, <1>6, <1>7, <1>8

\* Every reachable state is well typed.
THEOREM TypeCorrect == Spec => []TypeOK
<1>1. TypeOK /\ [Next]_vars => TypeOK'
  <2> SUFFICES ASSUME TypeOK, [Next]_vars PROVE TypeOK'
    OBVIOUS
  <2>1. CASE Next
    BY <2>1, TypeWriter, TypeCall, TypeDrain, TypeTimer, TypeEvent DEF Next
  <2>2. CASE UNCHANGED vars
    BY <2>2 DEF vars, engineVars, windowVars, registryVars, TypeOK
  <2> QED
    BY <2>1, <2>2
<1> QED
  BY <1>1, TypeInit, PTL DEF Spec

-----------------------------------------------------------------------------
(* What is stored.  LastIsStored and DoneAtLast rest on the discipline of    *)
(* lifecycle_lock: whoever is at work on a write holds it, so a write that   *)
(* has set `last` and not yet the store is the only one, and a release that  *)
(* has seen the lock free knows that no such write is left.                  *)

ReleasePcs == {"latch", "empty", "sync", "abort", "done"}
BusyPcs == LockedPcs \cup ReleasePcs

LockHeld == \A w \in Tasks : task[w].pc \in LockedPcs => lock = w

NeverAimsAtDone == \A w \in Tasks : task[w].to # "done"

StoresLast == \A w \in Tasks : At(w, "store") => last = task[w].to

NoStore == \A w \in Tasks : ~At(w, "store")

Mirror == Registered /\ NoStore => last = stored

\* Whoever marks a session done has taken its engine out of the registry, or
\* found that gone.
Releasing ==
    \A c \in Callers :
        /\ MarkingDone(c) => ~Registered
        /\ task[c].pc \in {"empty", "sync", "abort"} => released

\* A write let through before the latch is waited out by the release.
WaitsOut == \E c \in Callers : task[c].pc \in {"empty", "sync"}
Waited == released => NoStore \/ WaitsOut

DoneStays == stored = "done" => ~Registered

WriteInv ==
    /\ LockHeld /\ NeverAimsAtDone /\ StoresLast /\ Mirror
    /\ Releasing /\ Waited /\ DoneStays /\ DoneAtLast

LEMMA CallerTasks == Callers \subseteq Tasks
  BY DEF Tasks

\* With the lock free or its own, a task is the only one at work on a write.
LEMMA Alone ==
    ASSUME LockHeld, NEW w \in Tasks, lock \in {w, NoTask}
    PROVE  \A v \in Tasks \ {w} : task[v].pc \notin LockedPcs
  BY LifecycleAssumption DEF LockHeld

LEMMA NobodyAtWork ==
    ASSUME LockHeld, lock = NoTask
    PROVE  NoStore
  BY LifecycleAssumption DEF LockHeld, NoStore, At, LockedPcs

\* Steps of which the callers that mark the session done are no part.
LEMMA NoReleaseStep ==
    ASSUME UNCHANGED released,
           \A c \in Callers :
              \/ task'[c].pc = task[c].pc
              \/ task[c].pc \notin ReleasePcs /\ task'[c].pc \notin ReleasePcs
    PROVE  /\ Registered' <=> Registered
           /\ \A c \in Callers : MarkingDone(c)' <=> MarkingDone(c)
           /\ WaitsOut' <=> WaitsOut
           /\ Releasing => Releasing'
<1>1. Registered' <=> Registered
  BY DEF Registered, At, ReleasePcs
<1>2. \A c \in Callers : MarkingDone(c)' <=> MarkingDone(c)
  BY DEF MarkingDone, ReleasePcs
<1>3. WaitsOut' <=> WaitsOut
  BY DEF WaitsOut, ReleasePcs
<1>4. Releasing => Releasing'
  BY <1>1, <1>2 DEF Releasing, ReleasePcs
<1> QED
  BY <1>1, <1>2, <1>3, <1>4

-----------------------------------------------------------------------------
(* The kinds of step there are.                                             *)

\* Tasks move about outside the lock; nothing is written.
QuietStep ==
    /\ UNCHANGED <<released, lock, last, stored>>
    /\ \A w \in Tasks :
          \/ task'[w] = task[w]
          \/ /\ task[w].pc \notin BusyPcs
             /\ task'[w].pc \notin BusyPcs
             /\ task'[w].to # "done"

\* A part of it, which the steps of mark-done share.
OutsideStep ==
    /\ UNCHANGED last
    /\ \A w \in Tasks :
          \/ task'[w] = task[w]
          \/ task[w].pc \notin LockedPcs /\ task'[w].pc \notin LockedPcs

LEMMA QuietIsOutside ==
    ASSUME QuietStep
    PROVE  OutsideStep
  BY DEF QuietStep, OutsideStep, BusyPcs

LEMMA MarkingIsOutside ==
    ASSUME TypeOK, NEW c \in Callers, Release(c) \/ MarkDone(c)
    PROVE  /\ OutsideStep
           /\ UNCHANGED <<queued, running, notice, released, unann, window,
                          hold, told, sending, wakeup, lock>>
           /\ task[c].pc \in {"off", "done"}
           /\ \A v \in Tasks \ {c} : task'[v] = task[v]
           /\ task'[c].pc \in {"off", "latch", "done"}
<1> USE DEF engineVars, windowVars, registryVars
<1>1. c \in Tasks
  BY DEF Tasks
<1>2. /\ \E p \in {"off", "latch", "done"} : Goto(c, p)
      /\ UNCHANGED last /\ task[c].pc \in {"off", "done"}
  BY DEF Release, MarkDone, Starts, At
<1>3. /\ \A v \in Tasks \ {c} : task'[v] = task[v]
      /\ task'[c].pc \in {"off", "latch", "done"}
  BY <1>1, <1>2 DEF Goto, TypeOK, AtPc, OffTask
<1>4. OutsideStep
  BY <1>2, <1>3 DEF OutsideStep, LockedPcs
<1> QED
  BY <1>2, <1>3, <1>4 DEF Release, MarkDone

LEMMA QuietKeeps ==
    ASSUME WriteInv, QuietStep
    PROVE  WriteInv'
<1> USE DEF BusyPcs
<1>1. \A w \in Tasks : At(w, "store")' <=> At(w, "store")
  BY DEF QuietStep, At, LockedPcs
<1>2. NoStore' <=> NoStore
  BY <1>1 DEF NoStore
<1>3. LockHeld' /\ NeverAimsAtDone'
  BY DEF QuietStep, WriteInv, LockHeld, NeverAimsAtDone
<1>4. StoresLast'
  BY DEF QuietStep, WriteInv, StoresLast, At, LockedPcs
<1>5. /\ Registered' <=> Registered
      /\ \A c \in Callers : MarkingDone(c)' <=> MarkingDone(c)
      /\ WaitsOut' <=> WaitsOut
      /\ Releasing'
  BY NoReleaseStep, CallerTasks DEF QuietStep, WriteInv
<1>6. Mirror' /\ Waited' /\ DoneStays' /\ DoneAtLast'
  BY <1>2, <1>5
     DEF QuietStep, WriteInv, Mirror, Waited, DoneStays, DoneAtLast
<1> QED
  BY <1>3, <1>4, <1>5, <1>6 DEF WriteInv

\* Task w, with the lock free or its own, goes on preparing a write,
WorkStep(w) ==
    /\ lock \in {w, NoTask} /\ lock' = w
    /\ ~At(w, "store") /\ task[w].pc \notin ReleasePcs
    /\ task'[w].pc \in LockedPcs \ {"store"}
    /\ task'[w].to # "done"
    /\ \A v \in Tasks \ {w} : task'[v] = task[v]
    /\ UNCHANGED <<released, last, stored>>

LEMMA WorkKeeps ==
    ASSUME WriteInv, NEW w \in Tasks, WorkStep(w)
    PROVE  WriteInv'
<1>1. \A v \in Tasks \ {w} : task[v].pc \notin LockedPcs
  BY Alone DEF WriteInv, WorkStep
<1>2. NoStore /\ NoStore'
  BY <1>1 DEF NoStore, WorkStep, At, LockedPcs
<1>3. LockHeld' /\ NeverAimsAtDone'
  BY <1>1 DEF WorkStep, WriteInv, LockHeld, NeverAimsAtDone
<1>4. task'[w].pc \notin ReleasePcs
  BY DEF WorkStep, LockedPcs, ReleasePcs
<1>5. /\ Registered' <=> Registered
      /\ \A c \in Callers : MarkingDone(c)' <=> MarkingDone(c)
      /\ Releasing'
  BY <1>4, NoReleaseStep, CallerTasks DEF WorkStep, WriteInv
<1>6. StoresLast' /\ Mirror' /\ Waited' /\ DoneStays' /\ DoneAtLast'
  BY <1>2, <1>5 DEF WorkStep, WriteInv, StoresLast, NoStore, Mirror, Waited,
     DoneStays, DoneAtLast
<1> QED
  BY <1>3, <1>5, <1>6 DEF WriteInv

\* or gives the lock up without having written.
YieldStep(w) ==
    /\ lock \in {w, NoTask} /\ ~At(w, "store") /\ task[w].pc \notin ReleasePcs
    /\ Finish(w)
    /\ UNCHANGED <<released, last, stored>>

\* A task that has given the lock up is out of the way.
LEMMA Finished ==
    ASSUME TypeOK, LockHeld, NEW w \in Tasks, lock \in {w, NoTask}, Finish(w)
    PROVE  /\ \A v \in Tasks \ {w} : task'[v] = task[v]
           /\ task'[w].pc \notin BusyPcs
           /\ task'[w].to = "ready"
           /\ \A v \in Tasks : task'[v].pc \notin LockedPcs
           /\ NoStore'
<1>1. task' = [task EXCEPT ![w] = AtPc(Back(w))]
  BY DEF Finish, Goto
<1>2. task'[w] = AtPc(Back(w)) /\ \A v \in Tasks \ {w} : task'[v] = task[v]
  BY <1>1 DEF TypeOK
<1>3. Back(w) \notin BusyPcs
  BY DEF Back, BusyPcs, LockedPcs, ReleasePcs
<1>4. AtPc(Back(w)).pc = Back(w) /\ AtPc(Back(w)).to = "ready"
  BY DEF AtPc, OffTask
<1>5. \A v \in Tasks : task'[v].pc \notin LockedPcs
  BY <1>2, <1>3, <1>4, Alone DEF BusyPcs
<1>6. NoStore'
  BY <1>5 DEF NoStore, At, LockedPcs
<1> QED
  BY <1>2, <1>3, <1>4, <1>5, <1>6

LEMMA YieldKeeps ==
    ASSUME TypeOK, WriteInv, NEW w \in Tasks, YieldStep(w)
    PROVE  WriteInv'
<1>1. /\ \A v \in Tasks \ {w} : task'[v] = task[v]
      /\ task'[w].pc \notin BusyPcs
      /\ task'[w].to = "ready"
      /\ \A v \in Tasks : task'[v].pc \notin LockedPcs
      /\ NoStore'
  BY Finished DEF WriteInv, YieldStep
<1>2. NoStore
  BY Alone DEF NoStore, YieldStep, At, LockedPcs, WriteInv
<1>3. LockHeld' /\ NeverAimsAtDone'
  BY <1>1 DEF YieldStep, WriteInv, LockHeld, NeverAimsAtDone
<1>4. /\ Registered' <=> Registered
      /\ \A c \in Callers : MarkingDone(c)' <=> MarkingDone(c)
      /\ Releasing'
  BY <1>1, NoReleaseStep, CallerTasks DEF YieldStep, WriteInv, BusyPcs
<1>5. StoresLast' /\ Mirror' /\ Waited' /\ DoneStays' /\ DoneAtLast'
  BY <1>1, <1>2, <1>4 DEF YieldStep, WriteInv, StoresLast, NoStore, Mirror,
     Waited, DoneStays, DoneAtLast
<1> QED
  BY <1>3, <1>4, <1>5 DEF WriteInv

-----------------------------------------------------------------------------
(* Every step is one of these kinds, or a write, a release or a restart.     *)

\* Where tasks go outside the lock.
OutPcs == Pcs \ BusyPcs

LEMMA OutTask ==
    /\ \A p \in OutPcs : AtPc(p).pc = p /\ AtPc(p).to = "ready"
    /\ \A j \in Jobs : Wanting(j).pc = "wait" /\ Wanting(j).to = "ready"
    /\ OffTask.pc = "off" /\ OffTask.to = "ready"
    /\ {"off", "wait", "loop", "turn", "fin", "tail", "check", "watch", "kick"}
         \subseteq OutPcs
  BY DEF AtPc, Wanting, OffTask, OutPcs, Pcs, BusyPcs, LockedPcs, ReleasePcs

\* One task moves from outside the lock to outside the lock.
LEMMA OneMoves ==
    ASSUME TypeOK, NEW w \in Tasks, NEW r,
           task' = [task EXCEPT ![w] = r],
           task[w].pc \notin BusyPcs, r.pc \in OutPcs, r.to = "ready",
           UNCHANGED <<released, lock, last, stored>>
    PROVE  QuietStep
<1>1. task'[w] = r /\ \A v \in Tasks \ {w} : task'[v] = task[v]
  BY DEF TypeOK
<1> QED
  BY <1>1 DEF QuietStep, OutPcs

LEMMA GoesQuietly ==
    ASSUME TypeOK, NEW w \in Tasks, NEW p \in OutPcs, Goto(w, p),
           task[w].pc \notin BusyPcs,
           UNCHANGED <<released, lock, last, stored>>
    PROVE  QuietStep
<1>1. AtPc(p).pc \in OutPcs /\ AtPc(p).to = "ready"
  BY OutTask
<1> QED
  BY <1>1, OneMoves DEF Goto

LEMMA WantsQuietly ==
    ASSUME TypeOK, NEW w \in Tasks, NEW j \in Jobs,
           task' = [task EXCEPT ![w] = Wanting(j)],
           task[w].pc \notin BusyPcs,
           UNCHANGED <<released, lock, last, stored>>
    PROVE  QuietStep
<1>1. Wanting(j).pc \in OutPcs /\ Wanting(j).to = "ready"
  BY OutTask
<1> QED
  BY <1>1, OneMoves

LEMMA StopsQuietly ==
    ASSUME TypeOK, NEW w \in Tasks,
           task' = [task EXCEPT ![w] = OffTask],
           task[w].pc \notin BusyPcs,
           UNCHANGED <<released, lock, last, stored>>
    PROVE  QuietStep
<1>1. OffTask.pc \in OutPcs /\ OffTask.to = "ready"
  BY OutTask
<1> QED
  BY <1>1, OneMoves

\* kick_drain starts a task that was off, if any.
LEMMA KickMoves ==
    ASSUME TypeOK, NEW ts \in [Tasks -> Task], KickDrain(ts),
           \A w \in Tasks :
              \/ ts[w] = task[w]
              \/ task[w].pc \notin BusyPcs /\ ts[w].pc \in OutPcs
                 /\ ts[w].to = "ready",
           UNCHANGED <<released, lock, last, stored>>
    PROVE  QuietStep
<1>1. CASE task' = ts
  BY <1>1 DEF QuietStep, OutPcs
<1>2. ASSUME NEW d \in Drains, ts[d].pc = "off",
             task' = [ts EXCEPT ![d] = AtPc("loop")]
      PROVE  QuietStep
  <2>1. d \in Tasks
    BY DEF Tasks
  <2>2. task'[d] = AtPc("loop") /\ \A v \in Tasks \ {d} : task'[v] = ts[v]
    BY <1>2, <2>1
  <2>3. task[d].pc \notin BusyPcs
    BY <1>2, <2>1 DEF BusyPcs, LockedPcs, ReleasePcs
  <2> QED
    BY <2>1, <2>2, <2>3, OutTask DEF QuietStep, OutPcs
<1> QED
  BY <1>1, <1>2 DEF KickDrain

LEMMA DrainQuiet ==
    ASSUME TypeOK, NEW d \in Drains,
           \/ DrainTurn(d) \/ DrainNotice(d) \/ DrainPrune(d) \/ TurnOver(d)
           \/ DrainLeave(d) \/ DrainFin(d) \/ DrainTail(d)
    PROVE  QuietStep
<1> USE DEF engineVars, windowVars, registryVars
<1>1. d \in Tasks
  BY DEF Tasks
<1>2. CASE DrainTurn(d) \/ TurnOver(d) \/ DrainLeave(d)
  <2>1. /\ \E p \in {"turn", "loop", "fin"} : Goto(d, p)
        /\ task[d].pc \notin BusyPcs
        /\ UNCHANGED <<released, lock, last, stored>>
    BY <1>2 DEF DrainTurn, TurnOver, DrainLeave, At, BusyPcs, LockedPcs, ReleasePcs
  <2> QED
    BY <1>1, <2>1, OutTask, GoesQuietly
<1>3. CASE DrainNotice(d) \/ DrainFin(d)
  <2>1. /\ \E j \in {"notice", "reconcile"} :
              task' = [task EXCEPT ![d] = Wanting(j)]
        /\ task[d].pc \notin BusyPcs
        /\ UNCHANGED <<released, lock, last, stored>>
    BY <1>3 DEF DrainNotice, DrainFin, At, BusyPcs, LockedPcs, ReleasePcs
  <2>2. {"notice", "reconcile"} \subseteq Jobs
    BY DEF Jobs
  <2> QED
    BY <1>1, <2>1, <2>2, WantsQuietly
<1>4. CASE DrainTail(d)
  <2> DEFINE ts == [task EXCEPT ![d] = OffTask]
  <2>1. ts \in [Tasks -> Task]
    BY OffType DEF TypeOK
  <2>2. /\ task[d].pc \notin BusyPcs
        /\ UNCHANGED <<released, lock, last, stored>>
        /\ KickDrain(ts) \/ task' = ts
    BY <1>4 DEF DrainTail, At, BusyPcs, LockedPcs, ReleasePcs
  <2>3. ts[d] = OffTask /\ \A v \in Tasks \ {d} : ts[v] = task[v]
    BY <1>1 DEF TypeOK
  <2>4. OffTask.pc \in OutPcs /\ OffTask.to = "ready"
    BY OutTask
  <2>5. CASE task' = ts
    BY <1>1, <2>2, <2>5, StopsQuietly
  <2>6. CASE KickDrain(ts)
    <3>1. \A w \in Tasks :
             \/ ts[w] = task[w]
             \/ task[w].pc \notin BusyPcs /\ ts[w].pc \in OutPcs
                /\ ts[w].to = "ready"
      BY <2>2, <2>3, <2>4
    <3> HIDE DEF ts
    <3> QED
      BY <2>1, <2>2, <2>6, <3>1, KickMoves
  <2> QED
    BY <2>2, <2>5, <2>6
<1>5. CASE DrainPrune(d)
  BY <1>5 DEF DrainPrune, QuietStep
<1> QED
  BY <1>2, <1>3, <1>4, <1>5

LEMMA CallQuiet ==
    ASSUME TypeOK, NEW c \in Callers, Send(c) \/ KickSent(c) \/ Withdraw(c)
    PROVE  QuietStep
<1>1. c \in Tasks
  BY DEF Tasks
<1>2. CASE Send(c)
  <2>1. /\ Goto(c, "kick") /\ task[c].pc \notin BusyPcs
        /\ UNCHANGED <<released, lock, last, stored>>
    BY <1>2 DEF Send, Starts, At, BusyPcs, LockedPcs, ReleasePcs
  <2> QED
    BY <1>1, <2>1, OutTask, GoesQuietly
<1>3. CASE KickSent(c)
  <2> DEFINE ts == [task EXCEPT ![c] = Wanting("human")]
  <2>1. "human" \in Jobs
    BY DEF Jobs
  <2>2. ts \in [Tasks -> Task]
    BY <2>1, WantingType DEF TypeOK
  <2>3. /\ task[c].pc \notin BusyPcs
        /\ UNCHANGED <<released, lock, last, stored>>
        /\ KickDrain(ts)
    BY <1>3 DEF KickSent, At, BusyPcs, LockedPcs, ReleasePcs
  <2>4. Wanting("human").pc \in OutPcs /\ Wanting("human").to = "ready"
    BY <2>1, OutTask
  <2>5. ts[c] = Wanting("human") /\ \A v \in Tasks \ {c} : ts[v] = task[v]
    BY <1>1 DEF TypeOK
  <2>6. \A w \in Tasks :
           \/ ts[w] = task[w]
           \/ task[w].pc \notin BusyPcs /\ ts[w].pc \in OutPcs
              /\ ts[w].to = "ready"
    BY <2>3, <2>4, <2>5
  <2> HIDE DEF ts
  <2> QED
    BY <2>2, <2>3, <2>6, KickMoves
<1>4. CASE Withdraw(c)
  BY <1>4 DEF Withdraw, QuietStep
<1> QED
  BY <1>2, <1>3, <1>4

LEMMA EventQuiet ==
    ASSUME TypeOK,
           \/ \E r \in Spawned : Content(r)
           \/ Notify \/ KickNotice \/ Quieten \/ TimerExit \/ TimerFire
           \/ HoldChange \/ (\E v \in BOOLEAN : SendHold(v)) \/ FollowHold
    PROVE  QuietStep
<1> USE DEF engineVars, windowVars, registryVars
<1>1. Timer \in Tasks /\ Follower \in Tasks /\ Spawned \subseteq Tasks
  BY DEF Tasks
<1>2. ASSUME NEW r \in Spawned, Content(r) PROVE QuietStep
  <2>1. "reconcile" \in Jobs
    BY DEF Jobs
  <2>2. Wanting("reconcile").pc = "wait" /\ Wanting("reconcile").to = "ready"
    BY <2>1, OutTask
  <2>3. AtPc("check").pc = "check" /\ AtPc("check").to = "ready"
    BY OutTask
  <2>4. /\ UNCHANGED <<released, lock, last, stored>>
        /\ \A w \in Tasks :
              \/ task'[w] = task[w]
              \/ task[w].pc = "off" /\ task'[w] = Wanting("reconcile")
              \/ task[w].pc = "off" /\ task'[w] = AtPc("check")
    BY <1>2 DEF Content, At
  <2> QED
    BY <2>2, <2>3, <2>4 DEF QuietStep, BusyPcs, LockedPcs, ReleasePcs
<1>3. CASE Notify \/ HoldChange \/ Quieten \/ \E v \in BOOLEAN : SendHold(v)
  BY <1>3 DEF Notify, HoldChange, SendHold, Quieten, QuietStep
<1>4. CASE KickNotice
  <2>1. KickDrain(task) /\ UNCHANGED <<released, lock, last, stored>>
    BY <1>4 DEF KickNotice
  <2>2. task \in [Tasks -> Task]
    BY DEF TypeOK
  <2> QED
    BY <2>1, <2>2, KickMoves
<1>5. CASE TimerExit
  <2>1. /\ task[Timer].pc \notin BusyPcs /\ Goto(Timer, "off")
        /\ UNCHANGED <<released, lock, last, stored>>
    BY <1>5 DEF TimerExit, At, BusyPcs, LockedPcs, ReleasePcs
  <2> QED
    BY <1>1, <2>1, OutTask, GoesQuietly
<1>6. CASE TimerFire
  <2>1. /\ task[Timer].pc \notin BusyPcs /\ "settle" \in Jobs
        /\ task' = [task EXCEPT ![Timer] = Wanting("settle")]
        /\ UNCHANGED <<released, lock, last, stored>>
    BY <1>6 DEF TimerFire, At, BusyPcs, LockedPcs, ReleasePcs, Jobs
  <2> QED
    BY <1>1, <2>1, WantsQuietly
<1>7. CASE FollowHold
  <2>1. /\ task[Follower].pc \notin BusyPcs /\ "reconcile" \in Jobs
        /\ \/ task' = [task EXCEPT ![Follower] = OffTask]
           \/ task' = [task EXCEPT ![Follower] = Wanting("reconcile")]
        /\ UNCHANGED <<released, lock, last, stored>>
    BY <1>7 DEF FollowHold, At, BusyPcs, LockedPcs, ReleasePcs, Jobs
  <2> QED
    BY <1>1, <2>1, WantsQuietly, StopsQuietly
<1> QED
  BY <1>2, <1>3, <1>4, <1>5, <1>6, <1>7

\* reconcile_lifecycle, up to the write.
LEMMA WriterPrepares ==
    ASSUME TypeOK, WriteInv, NEW w \in Tasks,
           Reconcile(w) \/ ReconcileLocked(w) \/ Weigh(w) \/ ClearOwed(w)
    PROVE  WorkStep(w) \/ YieldStep(w)
<1>1. ASSUME lock \in {w, NoTask}, ~At(w, "store"),
             task[w].pc \notin ReleasePcs, ReadInputs(w),
             UNCHANGED <<released, last, stored>>
      PROVE  WorkStep(w) \/ YieldStep(w)
  <2>1. CASE Finish(w)
    BY <1>1, <2>1 DEF YieldStep
  <2>2. CASE /\ lock' = w
             /\ task' = [task EXCEPT ![w].pc = "weigh", ![w].open = window,
                                     ![w].owed = unann]
    <3>1. /\ \A v \in Tasks \ {w} : task'[v] = task[v]
          /\ task'[w].pc = "weigh" /\ task'[w].to = task[w].to
      BY <2>2 DEF TypeOK, Task
    <3> QED
      BY <1>1, <2>2, <3>1
         DEF WorkStep, WriteInv, NeverAimsAtDone, LockedPcs
  <2> QED
    BY <1>1, <2>1, <2>2 DEF ReadInputs
<1>2. CASE Reconcile(w)
  BY <1>1, <1>2 DEF Reconcile, Wants, At, engineVars, ReleasePcs
<1>3. CASE ReconcileLocked(w)
  BY <1>1, <1>3 DEF ReconcileLocked, At, engineVars, WriteInv, LockHeld,
     LockedPcs, ReleasePcs
<1>4. CASE Weigh(w)
  <2> DEFINE target == Derive(task[w].open, hold, task[w].owed)
  <2>1. /\ lock = w /\ ~At(w, "store") /\ task[w].pc \notin ReleasePcs
        /\ UNCHANGED <<released, last, stored>>
    BY <1>4 DEF Weigh, At, engineVars, WriteInv, LockHeld, LockedPcs,
       ReleasePcs
  <2>2. \/ Finish(w)
        \/ /\ \E p \in {"clear", "write"} :
                task' = [task EXCEPT ![w].pc = p, ![w].to = target]
           /\ UNCHANGED lock
    BY <1>4 DEF Weigh
  <2>3. CASE Finish(w)
    BY <2>1, <2>3 DEF YieldStep
  <2>4. ASSUME NEW p \in {"clear", "write"}, UNCHANGED lock,
               task' = [task EXCEPT ![w].pc = p, ![w].to = target]
        PROVE  WorkStep(w)
    <3>1. target # "done"
      BY DeriveType
    <3> HIDE DEF target
    <3>2. /\ \A v \in Tasks \ {w} : task'[v] = task[v]
          /\ task'[w].pc = p /\ task'[w].to = target
      BY <2>4 DEF TypeOK, Task
    <3> QED
      BY <2>1, <2>4, <3>1, <3>2 DEF WorkStep, LockedPcs
  <2> QED
    BY <2>2, <2>3, <2>4
<1>5. CASE ClearOwed(w)
  <2>1. /\ lock = w /\ ~At(w, "store") /\ task[w].pc \notin ReleasePcs
        /\ UNCHANGED <<released, last, stored>>
    BY <1>5 DEF ClearOwed, At, engineVars, WriteInv, LockHeld, LockedPcs,
       ReleasePcs
  <2>2. CASE Finish(w)
    BY <2>1, <2>2 DEF YieldStep
  <2>3. CASE task' = [task EXCEPT ![w].pc = "write"] /\ UNCHANGED lock
    <3>1. /\ \A v \in Tasks \ {w} : task'[v] = task[v]
          /\ task'[w].pc = "write" /\ task'[w].to = task[w].to
      BY <2>3 DEF TypeOK, Task
    <3> QED
      BY <2>1, <2>3, <3>1 DEF WorkStep, WriteInv, NeverAimsAtDone, LockedPcs
  <2> QED
    BY <1>5, <2>2, <2>3 DEF ClearOwed
<1> QED
  BY <1>2, <1>3, <1>4, <1>5

\* The writes of the routes, of the notice turn and of the quiet timer.
LEMMA OthersPrepare ==
    ASSUME TypeOK, WriteInv
    PROVE  /\ \A c \in Callers : WriteWorking(c) => WorkStep(c) \/ YieldStep(c)
           /\ \A d \in Drains : WriteNotice(d) => WorkStep(d)
           /\ Settle => WorkStep(Timer) \/ YieldStep(Timer)
<1>1. ASSUME NEW w \in Tasks, NEW to \in {"working", "notice"},
             lock = NoTask, At(w, "wait"), lock' = w,
             task' = [task EXCEPT ![w].pc = "write", ![w].to = to],
             UNCHANGED <<released, last, stored>>
      PROVE  WorkStep(w)
  <2>1. /\ \A v \in Tasks \ {w} : task'[v] = task[v]
        /\ task'[w].pc = "write" /\ task'[w].to = to
    BY <1>1 DEF TypeOK, Task
  <2> QED
    BY <1>1, <2>1 DEF WorkStep, At, LockedPcs, ReleasePcs
<1>2. ASSUME NEW c \in Callers, WriteWorking(c)
      PROVE  WorkStep(c) \/ YieldStep(c)
  <2>1. c \in Tasks
    BY DEF Tasks
  <2>2. lock = NoTask /\ At(c, "wait") /\ UNCHANGED <<released, last, stored>>
    BY <1>2 DEF WriteWorking, Wants, engineVars
  <2>3. CASE Live
    BY <1>1, <1>2, <2>1, <2>2, <2>3 DEF WriteWorking
  <2>4. CASE ~Live
    BY <1>2, <2>2, <2>4 DEF WriteWorking, YieldStep, At, ReleasePcs
  <2> QED
    BY <2>3, <2>4
<1>3. ASSUME NEW d \in Drains, WriteNotice(d)
      PROVE  WorkStep(d)
  <2>1. d \in Tasks
    BY DEF Tasks
  <2> QED
    BY <1>1, <1>3, <2>1 DEF WriteNotice, Wants, engineVars
<1>4. ASSUME Settle
      PROVE  WorkStep(Timer) \/ YieldStep(Timer)
  <2>1. /\ lock = NoTask /\ At(Timer, "wait") /\ Timer \in Tasks
        /\ UNCHANGED <<released, last, stored>>
    BY <1>4 DEF Settle, Wants, engineVars, Tasks
  <2>2. CASE Finish(Timer)
    BY <2>1, <2>2 DEF YieldStep, At, ReleasePcs
  <2>3. CASE lock' = Timer /\ Goto(Timer, "read")
    <3>1. AtPc("read").pc = "read" /\ AtPc("read").to = "ready"
      BY DEF AtPc, OffTask
    <3>2. /\ task'[Timer] = AtPc("read")
          /\ \A v \in Tasks \ {Timer} : task'[v] = task[v]
      BY <2>1, <2>3 DEF Goto, TypeOK
    <3> QED
      BY <2>1, <2>3, <3>1, <3>2 DEF WorkStep, At, LockedPcs, ReleasePcs
  <2> QED
    BY <1>4, <2>2, <2>3 DEF Settle
<1> QED
  BY <1>2, <1>3, <1>4

\* write_lifecycle_locked: a write sets `last` ...
LEMMA WriteKeeps ==
    ASSUME TypeOK, WriteInv, NEW w \in Tasks, Write(w)
    PROVE  WriteInv'
<1>1. /\ lock = w /\ task[w].pc = "write" /\ ~At(w, "store")
      /\ task[w].pc \notin ReleasePcs
      /\ UNCHANGED <<released, stored>>
  BY DEF Write, At, engineVars, WriteInv, LockHeld, LockedPcs, ReleasePcs
<1>2. CASE released
  BY <1>1, <1>2, YieldKeeps DEF Write, YieldStep
<1>3. CASE ~released
  <2>1. /\ last' = task[w].to /\ UNCHANGED lock
        /\ task' = [task EXCEPT ![w].pc = "store"]
    BY <1>3 DEF Write
  <2>2. /\ \A v \in Tasks \ {w} : task'[v] = task[v]
        /\ task'[w].pc = "store" /\ task'[w].to = task[w].to
    BY <2>1 DEF TypeOK, Task
  <2>3. \A v \in Tasks \ {w} : task[v].pc \notin LockedPcs
    BY <1>1, Alone DEF WriteInv
  <2>4. LockHeld' /\ NeverAimsAtDone'
    BY <1>1, <2>1, <2>2 DEF WriteInv, LockHeld, NeverAimsAtDone
  <2>5. StoresLast' /\ ~NoStore'
    BY <2>1, <2>2, <2>3 DEF StoresLast, NoStore, At, LockedPcs
  <2>6. (Registered' <=> Registered) /\ Releasing'
    <3>1. task'[w].pc \notin ReleasePcs
      BY <2>2 DEF ReleasePcs
    <3> QED
      BY <1>1, <2>2, <3>1, NoReleaseStep, CallerTasks DEF WriteInv
  <2>7. Mirror' /\ Waited' /\ DoneStays' /\ DoneAtLast'
    BY <1>1, <1>3, <2>5, <2>6
       DEF WriteInv, Mirror, Waited, DoneStays, DoneAtLast
  <2> QED
    BY <2>4, <2>5, <2>6, <2>7 DEF WriteInv
<1> QED
  BY <1>2, <1>3

\* ... and then stores it, which the release that raised the latch awaits.
LEMMA StoreKeeps ==
    ASSUME TypeOK, WriteInv, NEW w \in Tasks, Store(w)
    PROVE  WriteInv'
<1>1. /\ lock = w /\ task[w].pc = "store" /\ Finish(w)
      /\ stored' = task[w].to /\ UNCHANGED <<released, last>>
  BY DEF Store, At, engineVars, WriteInv, LockHeld, LockedPcs
<1>2. /\ \A v \in Tasks \ {w} : task'[v] = task[v]
      /\ task'[w].pc \notin BusyPcs
      /\ task'[w].to = "ready"
      /\ \A v \in Tasks : task'[v].pc \notin LockedPcs
      /\ NoStore'
  BY <1>1, Finished DEF WriteInv
<1>3. stored' = last /\ stored' # "done"
  BY <1>1 DEF WriteInv, StoresLast, At, NeverAimsAtDone
<1>4. LockHeld' /\ NeverAimsAtDone'
  BY <1>2 DEF WriteInv, LockHeld, NeverAimsAtDone, BusyPcs
<1>5. /\ \A c \in Callers : MarkingDone(c)' <=> MarkingDone(c)
      /\ Releasing'
  <2>1. task[w].pc \notin ReleasePcs
    BY <1>1 DEF ReleasePcs
  <2> QED
    BY <1>1, <1>2, <2>1, NoReleaseStep, CallerTasks DEF WriteInv, BusyPcs
<1>6. StoresLast' /\ Mirror' /\ Waited' /\ DoneStays'
  BY <1>1, <1>2, <1>3 DEF StoresLast, NoStore, Mirror, Waited, DoneStays
<1>7. DoneAtLast'
  <2>1. released => \E c \in Callers : MarkingDone(c)
    BY <1>1 DEF WriteInv, Waited, NoStore, At, WaitsOut, MarkingDone
  <2> QED
    BY <1>1, <1>5, <2>1 DEF DoneAtLast
<1> QED
  BY <1>4, <1>5, <1>6, <1>7 DEF WriteInv

\* What the steps of mark-done have in common: the caller moves outside the
\* lock, and a session that is being marked done stays so.
MarkStep(c, p) ==
    /\ Goto(c, p) /\ task[c].pc \notin LockedPcs
    /\ UNCHANGED <<lock, last>>
    /\ released' \/ (task[c].pc # "latch" /\ UNCHANGED released)
    /\ p = "latch" \/ released' \/ ~Registered
    /\ p \in {"empty", "sync", "abort"} => released'
    /\ \/ p \in {"empty", "sync"} \/ NoStore
       \/ task[c].pc \notin {"empty", "sync"} /\ UNCHANGED released
    /\ \/ stored' = stored /\ p # "off"
       \/ stored' = "done" /\ ~Registered

LEMMA Marks ==
    ASSUME TypeOK, WriteInv, NEW c \in Callers,
           \/ Release(c) \/ ReleaseLatch(c) \/ ReleaseEmpty(c)
           \/ ReleaseSync(c) \/ ReleaseAbort(c) \/ MarkDone(c)
    PROVE  \E p \in ReleasePcs \cup {"off"} : MarkStep(c, p)
<1> USE DEF engineVars, windowVars, registryVars, At, LockedPcs
<1>1. CASE Release(c)
  <2>1. MarkStep(c, "latch") \/ MarkStep(c, "done")
    BY <1>1 DEF Release, Starts, MarkStep
  <2> QED
    BY <2>1 DEF ReleasePcs
<1>2. CASE ReleaseLatch(c)
  <2>1. MarkStep(c, "empty")
    BY <1>2 DEF ReleaseLatch, MarkStep
  <2> QED
    BY <2>1 DEF ReleasePcs
<1>3. CASE ReleaseEmpty(c)
  <2>1. MarkStep(c, "sync")
    BY <1>3 DEF ReleaseEmpty, MarkStep, WriteInv, Releasing
  <2> QED
    BY <2>1 DEF ReleasePcs
<1>4. CASE ReleaseSync(c)
  <2>1. released /\ NoStore
    BY <1>4, NobodyAtWork DEF ReleaseSync, InFlight, WriteInv, Releasing
  <2>2. MarkStep(c, "abort")
    BY <1>4, <2>1 DEF ReleaseSync, MarkStep
  <2> QED
    BY <2>2 DEF ReleasePcs
<1>5. CASE ReleaseAbort(c)
  <2>1. MarkStep(c, "done")
    BY <1>5 DEF ReleaseAbort, MarkStep, WriteInv, Releasing
  <2> QED
    BY <2>1 DEF ReleasePcs
<1>6. CASE MarkDone(c)
  <2>1. ~Registered
    BY <1>6 DEF MarkDone, WriteInv, Releasing, MarkingDone
  <2>2. MarkStep(c, "off")
    BY <1>6, <2>1 DEF MarkDone, MarkStep
  <2> QED
    BY <2>2
<1> QED
  BY <1>1, <1>2, <1>3, <1>4, <1>5, <1>6

LEMMA ReleaseKeeps ==
    ASSUME TypeOK, WriteInv, NEW c \in Callers,
           \/ Release(c) \/ ReleaseLatch(c) \/ ReleaseEmpty(c)
           \/ ReleaseSync(c) \/ ReleaseAbort(c) \/ MarkDone(c)
    PROVE  WriteInv'
<1> USE DEF MarkStep
<1>1. c \in Tasks
  BY DEF Tasks
<1>2. PICK p \in ReleasePcs \cup {"off"} : MarkStep(c, p)
  BY Marks
<1>3. /\ task'[c].pc = p /\ task'[c].to = "ready"
      /\ \A v \in Tasks \ {c} : task'[v] = task[v]
  BY <1>1, <1>2 DEF Goto, TypeOK, AtPc, OffTask
<1>4. \A w \in Tasks : At(w, "store")' <=> At(w, "store")
  BY <1>2, <1>3 DEF At, LockedPcs, ReleasePcs
<1>5. NoStore' <=> NoStore
  BY <1>4 DEF NoStore
<1>6. LockHeld' /\ NeverAimsAtDone' /\ StoresLast'
  <2>1. LockHeld'
    BY <1>2, <1>3 DEF WriteInv, LockHeld, LockedPcs, ReleasePcs
  <2>2. NeverAimsAtDone'
    BY <1>3 DEF WriteInv, NeverAimsAtDone
  <2>3. StoresLast'
    BY <1>2, <1>3, <1>4 DEF WriteInv, StoresLast, At, LockedPcs
  <2> QED
    BY <2>1, <2>2, <2>3
<1>7. Registered' => Registered
  BY <1>2, <1>3, CallerTasks DEF Registered, At
<1>8. p # "off" => ~Registered'
  BY <1>2, <1>3, <1>7 DEF Registered, At
<1>9. Mirror' /\ DoneStays'
  BY <1>2, <1>5, <1>7 DEF WriteInv, Mirror, DoneStays
<1>10. Releasing'
  <2>1. released => released'
    BY <1>2
  <2>2. ASSUME NEW b \in Callers \ {c}
        PROVE  /\ MarkingDone(b)' => ~Registered'
               /\ task'[b].pc \in {"empty", "sync", "abort"} => released'
    BY <1>3, <1>7, <2>1, CallerTasks DEF WriteInv, Releasing, MarkingDone
  <2>3. MarkingDone(c)' => ~Registered'
    BY <1>3, <1>8 DEF MarkingDone
  <2>4. task'[c].pc \in {"empty", "sync", "abort"} => released'
    BY <1>2, <1>3
  <2> QED
    BY <2>2, <2>3, <2>4 DEF Releasing
<1>11. Waited'
  <2>1. CASE p \in {"empty", "sync"}
    BY <1>3, <2>1 DEF Waited, WaitsOut
  <2>2. CASE NoStore
    BY <1>5, <2>2 DEF Waited
  <2>3. CASE task[c].pc \notin {"empty", "sync"} /\ UNCHANGED released
    <3>1. WaitsOut => WaitsOut'
      BY <1>3, <2>3, CallerTasks DEF WaitsOut
    <3> QED
      BY <1>5, <2>3, <3>1 DEF WriteInv, Waited
  <2> QED
    BY <1>2, <2>1, <2>2, <2>3
<1>12. DoneAtLast'
  BY <1>2, <1>3 DEF DoneAtLast, MarkingDone, ReleasePcs
<1> QED
  BY <1>6, <1>9, <1>10, <1>11, <1>12 DEF WriteInv

\* After a start or restart nobody is at work and `last` is what is stored.
LEMMA FreshInv ==
    ASSUME stored # "done", last = stored, ~released,
           task = [w \in Tasks |->
                     IF w = Follower THEN AtPc("watch") ELSE OffTask]
    PROVE  WriteInv
<1>1. \A w \in Tasks : task[w].pc \in {"watch", "off"} /\ task[w].to = "ready"
  BY DEF AtPc, OffTask
<1> QED
  BY <1>1, CallerTasks DEF WriteInv, LockHeld, NeverAimsAtDone, StoresLast, At,
     Mirror, Releasing, MarkingDone, Waited, DoneStays, DoneAtLast, LockedPcs

LEMMA RestartKeeps ==
    ASSUME TypeOK, Restart
    PROVE  WriteInv'
<1>1. stored' # "done" /\ last' = stored' /\ ~released'
  BY BootType DEF Restart, TypeOK
<1>2. task' = [w \in Tasks |->
                 IF w = Follower THEN AtPc("watch") ELSE OffTask]
  BY DEF Restart
<1>3. \A w \in Tasks : task'[w].pc \in {"watch", "off"} /\ task'[w].to = "ready"
  BY <1>2 DEF AtPc, OffTask
<1> QED
  BY <1>1, <1>3, CallerTasks DEF WriteInv, LockHeld, NeverAimsAtDone,
     StoresLast, At, Mirror, Releasing, MarkingDone, Waited, DoneStays,
     DoneAtLast, LockedPcs

LEMMA WriteInvStep == TypeOK /\ WriteInv /\ [Next]_vars => WriteInv'
<1> SUFFICES ASSUME TypeOK, WriteInv, [Next]_vars PROVE WriteInv'
  OBVIOUS
<1>1. ASSUME NEW w \in Tasks, WriterStep(w) PROVE WriteInv'
  BY <1>1, WriterPrepares, WorkKeeps, YieldKeeps, WriteKeeps, StoreKeeps
     DEF WriterStep
<1>2. ASSUME NEW c \in Callers, CallStep(c) \/ Request(c) PROVE WriteInv'
  <2>1. c \in Tasks
    BY DEF Tasks
  <2>2. CASE WriteWorking(c)
    BY <2>1, <2>2, OthersPrepare, WorkKeeps, YieldKeeps
  <2>3. CASE Send(c) \/ KickSent(c) \/ Withdraw(c)
    BY <2>3, CallQuiet, QuietKeeps
  <2> QED
    BY <1>2, <2>2, <2>3, ReleaseKeeps DEF CallStep, Request
<1>3. ASSUME NEW d \in Drains, DrainStep(d) PROVE WriteInv'
  <2>1. d \in Tasks
    BY DEF Tasks
  <2>2. CASE WriteNotice(d)
    BY <2>1, <2>2, OthersPrepare, WorkKeeps
  <2> QED
    BY <1>3, <2>2, DrainQuiet, QuietKeeps DEF DrainStep
<1>4. CASE TimerStep
  <2>1. Timer \in Tasks
    BY DEF Tasks
  <2> QED
    BY <1>4, <2>1, OthersPrepare, WorkKeeps, YieldKeeps, EventQuiet, QuietKeeps
       DEF TimerStep
<1>5. CASE \/ \E r \in Spawned : Content(r)
           \/ Quieten \/ Notify \/ KickNotice
           \/ HoldChange \/ (\E v \in BOOLEAN : SendHold(v)) \/ FollowHold
  BY <1>5, EventQuiet, QuietKeeps
<1>6. CASE UNCHANGED vars
  <2>1. QuietStep
    BY <1>6 DEF vars, engineVars, windowVars, registryVars, QuietStep
  <2> QED
    BY <2>1, QuietKeeps
<1> QED
  BY <1>1, <1>2, <1>3, <1>4, <1>5, <1>6, RestartKeeps DEF Next

LEMMA WriteInvInit == Init => WriteInv
  BY FreshInv DEF Init

\* Whenever no write is under way, the lifecycle a session compares its next
\* write with is the one in the store.
THEOREM LastStored == Spec => []LastIsStored
<1>1. WriteInv => LastIsStored
  BY NobodyAtWork DEF WriteInv, Mirror, LastIsStored
<1> QED
  BY <1>1, WriteInvInit, WriteInvStep, TypeCorrect, PTL DEF Spec

\* However many callers mark a session done at the same time, and whatever
\* writes are under way as they do, it ends up stored as done, and stays so.
THEOREM DoneLast == Spec => []DoneAtLast
<1>1. WriteInv => DoneAtLast
  BY DEF WriteInv
<1> QED
  BY <1>1, WriteInvInit, WriteInvStep, TypeCorrect, PTL DEF Spec

-----------------------------------------------------------------------------
(* The window and its timer.                                                *)

\* Steps that neither open the window, nor lower the latch, nor send the timer
\* home.
LEMMA TimerStays ==
    ASSUME WindowHasTimer, window' => window, released => released',
           At(Timer, "off")' => At(Timer, "off")
    PROVE  WindowHasTimer'
  BY DEF WindowHasTimer

\* A task that moves does not send the timer home, unless it is the timer.
LEMMA OtherMoves ==
    ASSUME TypeOK, NEW w \in Tasks \ {Timer}, NEW r,
           task' = [task EXCEPT ![w] = r]
    PROVE  At(Timer, "off")' => At(Timer, "off")
  BY DEF TypeOK, At, Tasks

LEMMA FinishTimer ==
    ASSUME TypeOK, NEW w \in Tasks, Finish(w)
    PROVE  At(Timer, "off")' => At(Timer, "off")
<1>1. CASE w = Timer
  <2>1. Back(w) = "check"
    BY <1>1, LifecycleAssumption DEF Back
  <2>2. task'[Timer].pc = "check"
    BY <1>1, <2>1 DEF Finish, Goto, TypeOK, AtPc, OffTask
  <2> QED
    BY <2>2 DEF At
<1>2. CASE w # Timer
  BY <1>2, OtherMoves DEF Finish, Goto
<1> QED
  BY <1>1, <1>2

LEMMA KickTimer ==
    ASSUME TypeOK, NEW ts \in [Tasks -> Task], KickDrain(ts),
           ts[Timer] = task[Timer]
    PROVE  /\ At(Timer, "off")' => At(Timer, "off")
           /\ window' => window
<1>1. CASE task' = ts /\ UNCHANGED window
  BY <1>1 DEF At
<1>2. ASSUME NEW d \in Drains, task' = [ts EXCEPT ![d] = AtPc("loop")], ~window'
      PROVE  /\ At(Timer, "off")' => At(Timer, "off")
             /\ window' => window
  <2>1. d # Timer /\ d \in Tasks /\ Timer \in Tasks
    BY LifecycleAssumption DEF Tasks
  <2>2. task'[Timer] = task[Timer]
    BY <1>2, <2>1
  <2> QED
    BY <1>2, <2>2 DEF At
<1> QED
  BY <1>1, <1>2 DEF KickDrain

\* A task within the lock, or on its way there, is not "off" afterwards.
LEMMA WorkTimer ==
    ASSUME TypeOK, NEW w \in Tasks, WorkStep(w)
    PROVE  At(Timer, "off")' => At(Timer, "off")
<1>1. CASE w = Timer
  BY <1>1 DEF WorkStep, At, LockedPcs
<1>2. CASE w # Timer
  BY <1>2 DEF WorkStep, At, Tasks
<1> QED
  BY <1>1, <1>2

LEMMA LockTimer ==
    ASSUME TypeOK, NEW w \in Tasks, WorkStep(w) \/ YieldStep(w)
    PROVE  At(Timer, "off")' => At(Timer, "off")
  BY WorkTimer, FinishTimer DEF YieldStep

\* The steps of a writer.
LEMMA WindowWriter ==
    ASSUME TypeOK, WriteInv, WindowHasTimer, NEW w \in Tasks, WriterStep(w)
    PROVE  WindowHasTimer'
<1>1. UNCHANGED <<window, released>>
  BY DEF WriterStep, Reconcile, ReconcileLocked, Weigh, ClearOwed, Write, Store,
     engineVars, windowVars
<1>2. CASE Reconcile(w) \/ ReconcileLocked(w) \/ Weigh(w) \/ ClearOwed(w)
  BY <1>1, <1>2, WriterPrepares, LockTimer, TimerStays
<1>3. CASE Write(w)
  <2>1. CASE Finish(w)
    BY <1>1, <2>1, FinishTimer, TimerStays
  <2>2. CASE task' = [task EXCEPT ![w].pc = "store"]
    <3>1. At(Timer, "off")' => At(Timer, "off")
      BY <2>2 DEF TypeOK, At, Task, Tasks
    <3> QED
      BY <1>1, <3>1, TimerStays
  <2> QED
    BY <1>3, <2>1, <2>2 DEF Write
<1>4. CASE Store(w)
  BY <1>1, <1>4, FinishTimer, TimerStays DEF Store
<1> QED
  BY <1>2, <1>3, <1>4 DEF WriterStep

LEMMA WindowCall ==
    ASSUME TypeOK, WriteInv, WindowHasTimer, NEW c \in Callers,
           CallStep(c) \/ Request(c)
    PROVE  WindowHasTimer'
<1> USE DEF engineVars, windowVars
<1>1. c \in Tasks \ {Timer} /\ Timer \in Tasks
  BY LifecycleAssumption DEF Tasks
<1>2. CASE KickSent(c)
  <2> DEFINE ts == [task EXCEPT ![c] = Wanting("human")]
  <2>1. ts \in [Tasks -> Task]
    BY WantingType DEF TypeOK, Jobs
  <2>2. ts[Timer] = task[Timer] /\ KickDrain(ts) /\ UNCHANGED released
    BY <1>1, <1>2 DEF TypeOK, KickSent
  <2> HIDE DEF ts
  <2> QED
    BY <2>1, <2>2, KickTimer, TimerStays
<1>3. CASE WriteWorking(c)
  <2>1. UNCHANGED <<window, released>>
    BY <1>3 DEF WriteWorking
  <2> QED
    BY <1>1, <1>3, <2>1, OthersPrepare, LockTimer, TimerStays
<1>4. CASE Withdraw(c)
  BY <1>4 DEF Withdraw, WindowHasTimer, At
<1>5. CASE \/ ReleaseLatch(c) \/ ReleaseEmpty(c) \/ ReleaseSync(c)
           \/ ReleaseAbort(c) \/ MarkDone(c) \/ Send(c) \/ Release(c)
  <2>1. /\ window' => window
        /\ released => released'
        /\ \E p \in Pcs : Goto(c, p)
    BY <1>5 DEF ReleaseLatch, ReleaseEmpty, ReleaseSync, ReleaseAbort,
       MarkDone, Send, Release, Pcs
  <2> QED
    BY <1>1, <2>1, OtherMoves, TimerStays DEF Goto
<1> QED
  BY <1>2, <1>3, <1>4, <1>5 DEF CallStep, Request

LEMMA WindowDrain ==
    ASSUME TypeOK, WriteInv, WindowHasTimer, NEW d \in Drains, DrainStep(d)
    PROVE  WindowHasTimer'
<1> USE DEF engineVars, windowVars
<1>1. d \in Tasks \ {Timer} /\ Timer \in Tasks
  BY LifecycleAssumption DEF Tasks
<1>2. CASE WriteNotice(d)
  <2>1. UNCHANGED <<window, released>>
    BY <1>2 DEF WriteNotice
  <2> QED
    BY <1>1, <1>2, <2>1, OthersPrepare, LockTimer, TimerStays
<1>3. CASE DrainTail(d)
  <2> DEFINE ts == [task EXCEPT ![d] = OffTask]
  <2>1. ts \in [Tasks -> Task]
    BY OffType DEF TypeOK
  <2>2. /\ ts[Timer] = task[Timer] /\ UNCHANGED released
        /\ KickDrain(ts) \/ (task' = ts /\ UNCHANGED window)
    BY <1>1, <1>3 DEF TypeOK, DrainTail
  <2>3. CASE KickDrain(ts)
    <3> HIDE DEF ts
    <3> QED
      BY <2>1, <2>2, <2>3, KickTimer, TimerStays
  <2>4. CASE task' = ts /\ UNCHANGED window
    BY <1>1, <2>2, <2>4, OtherMoves, TimerStays
  <2> QED
    BY <2>2, <2>3, <2>4
<1>4. CASE \/ DrainTurn(d) \/ DrainNotice(d) \/ TurnOver(d) \/ DrainLeave(d)
           \/ DrainFin(d)
  <2>1. /\ UNCHANGED <<window, released>>
        /\ \E r : task' = [task EXCEPT ![d] = r]
    BY <1>4 DEF DrainTurn, DrainNotice, TurnOver, DrainLeave, DrainFin, Goto
  <2> QED
    BY <1>1, <2>1, OtherMoves, TimerStays
<1>5. CASE DrainPrune(d)
  BY <1>5 DEF DrainPrune, WindowHasTimer, At
<1> QED
  BY <1>2, <1>3, <1>4, <1>5 DEF DrainStep

LEMMA WindowTimer ==
    ASSUME TypeOK, WriteInv, WindowHasTimer, TimerStep
    PROVE  WindowHasTimer'
<1> USE DEF engineVars, windowVars
<1>1. Timer \in Tasks
  BY DEF Tasks
<1>2. CASE TimerExit
  BY <1>2 DEF TimerExit, TimerMayExit, WindowHasTimer
<1>3. CASE TimerFire
  <2>1. task'[Timer].pc = "wait"
    BY <1>1, <1>3 DEF TimerFire, TypeOK, Wanting, OffTask
  <2> QED
    BY <2>1 DEF WindowHasTimer, At
<1>4. CASE Settle
  <2>1. (window' => window) /\ UNCHANGED released
    BY <1>4 DEF Settle
  <2> QED
    BY <1>1, <1>4, <2>1, OthersPrepare, LockTimer, TimerStays
<1> QED
  BY <1>2, <1>3, <1>4 DEF TimerStep

LEMMA WindowEvent ==
    ASSUME TypeOK, WindowHasTimer,
           \/ \E r \in Spawned : Content(r)
           \/ Quieten \/ Notify \/ KickNotice \/ HoldChange
           \/ (\E v \in BOOLEAN : SendHold(v)) \/ FollowHold \/ Restart
    PROVE  WindowHasTimer'
<1> USE DEF engineVars, windowVars
<1>1. Timer \in Tasks /\ Follower \in Tasks \ {Timer}
  BY LifecycleAssumption DEF Tasks
<1>2. ASSUME NEW r \in Spawned, Content(r) PROVE WindowHasTimer'
  <2>1. r # Timer
    BY LifecycleAssumption
  <2>2. At(Timer, "off") => task'[Timer] = AtPc("check")
    BY <1>1, <1>2, <2>1 DEF Content
  <2>3. ~At(Timer, "off") => task'[Timer] = task[Timer]
    BY <1>1, <1>2, <2>1 DEF Content
  <2> QED
    BY <2>2, <2>3 DEF WindowHasTimer, At, AtPc, OffTask
<1>3. CASE Quieten \/ Notify \/ HoldChange \/ \E v \in BOOLEAN : SendHold(v)
  <2>1. UNCHANGED <<window, released, task>>
    BY <1>3 DEF Quieten, Notify, HoldChange, SendHold
  <2> QED
    BY <2>1 DEF WindowHasTimer, At
<1>4. CASE KickNotice
  <2>1. KickDrain(task) /\ task \in [Tasks -> Task] /\ UNCHANGED released
    BY <1>4 DEF KickNotice, TypeOK
  <2> QED
    BY <2>1, KickTimer, TimerStays
<1>5. CASE FollowHold
  <2>1. /\ UNCHANGED <<window, released>>
        /\ \E r : task' = [task EXCEPT ![Follower] = r]
    BY <1>5 DEF FollowHold
  <2> QED
    BY <1>1, <2>1, OtherMoves, TimerStays
<1>6. CASE Restart
  BY <1>6 DEF Restart, WindowHasTimer
<1> QED
  BY <1>2, <1>3, <1>4, <1>5, <1>6

\* Whoever opens the out-of-band window finds or starts a quiet timer, and the
\* timer does not leave while a window is open, whatever its generation.
THEOREM WindowTimed == Spec => []WindowHasTimer
<1>1. Init => WindowHasTimer
  BY DEF Init, WindowHasTimer
<1>2. TypeOK /\ WriteInv /\ WindowHasTimer /\ [Next]_vars => WindowHasTimer'
  <2> SUFFICES ASSUME TypeOK, WriteInv, WindowHasTimer, [Next]_vars
               PROVE  WindowHasTimer'
    OBVIOUS
  <2>1. CASE UNCHANGED vars
    BY <2>1 DEF vars, engineVars, windowVars, WindowHasTimer, At
  <2>2. CASE Next
    BY <2>2, WindowWriter, WindowCall, WindowDrain, WindowTimer, WindowEvent
       DEF Next
  <2> QED
    BY <2>1, <2>2
<1> QED
  BY <1>1, <1>2, WriteInvInit, WriteInvStep, TypeCorrect, PTL DEF Spec

-----------------------------------------------------------------------------
(* The drain in the loop.  `running` stands for exactly one drain task,      *)
(* which also owns the write of the notice turn it is about to run.          *)

LoopTask(r) ==
    \/ r.pc \in {"loop", "turn", "fin"}
    \/ r.job = "notice" /\ r.pc \in {"wait", "write", "store"}

InLoop(d) == LoopTask(task[d])

\* Only the write of a notice turn is made for one.
ForNotice(r) ==
    r.job = "notice" =>
        /\ r.pc \notin {"read", "weigh", "clear"}
        /\ r.pc \in {"write", "store"} => r.to = "notice"

OneLoop ==
    /\ \A d \in Drains : InLoop(d) => running
    /\ \A d, e \in Drains : InLoop(d) /\ InLoop(e) => d = e
    /\ running => \E d \in Drains : InLoop(d)

Loops == OneLoop /\ \A w \in Tasks : ForNotice(task[w])

LEMMA Fields ==
    /\ OffTask.pc = "off" /\ OffTask.job = "none"
    /\ \A p : AtPc(p).pc = p /\ AtPc(p).job = "none"
    /\ \A j : Wanting(j).pc = "wait" /\ Wanting(j).job = j
  BY DEF OffTask, AtPc, Wanting

LEMMA ForNoticeFields ==
    /\ ForNotice(OffTask)
    /\ \A p : ForNotice(AtPc(p))
    /\ \A j : ForNotice(Wanting(j))
  BY Fields DEF ForNotice

LEMMA KindsOfTask ==
    /\ Drains \subseteq Tasks /\ Callers \subseteq Tasks
    /\ Spawned \subseteq Tasks /\ Timer \in Tasks /\ Follower \in Tasks
    /\ Drains \cap Callers = {} /\ Drains \cap Spawned = {}
    /\ Callers \cap Spawned = {}
    /\ Timer \notin Drains \cup Callers /\ Follower \notin Drains \cup Callers
  BY LifecycleAssumption DEF Tasks

\* No drain enters or leaves the loop.
LEMMA LoopsStay ==
    ASSUME Loops, UNCHANGED running,
           \A d \in Drains : LoopTask(task'[d]) <=> LoopTask(task[d]),
           \A w \in Tasks : ForNotice(task'[w])
    PROVE  Loops'
  BY DEF Loops, OneLoop, InLoop

\* One task moves, on the side of the loop where it was.
LEMMA MoveLoop ==
    ASSUME TypeOK, Loops, NEW w \in Tasks, NEW r, UNCHANGED running,
           task' = [task EXCEPT ![w] = r], ForNotice(r),
           w \in Drains => (LoopTask(r) <=> LoopTask(task[w]))
    PROVE  Loops'
<1>1. task'[w] = r /\ \A v \in Tasks \ {w} : task'[v] = task[v]
  BY DEF TypeOK
<1>2. \A d \in Drains : LoopTask(task'[d]) <=> LoopTask(task[d])
  BY <1>1, KindsOfTask
<1>3. \A v \in Tasks : ForNotice(task'[v])
  BY <1>1 DEF Loops
<1> QED
  BY <1>2, <1>3, LoopsStay

\* A task that gives the lock up: only a notice turn's drain goes on to a turn.
LEMMA FinishLoop ==
    ASSUME TypeOK, Loops, NEW w \in Tasks, Finish(w), UNCHANGED running,
           task[w].pc \in LockedPcs \cup {"wait"}
    PROVE  Loops'
<1>1. task' = [task EXCEPT ![w] = AtPc(Back(w))]
  BY DEF Finish, Goto
<1>2. w \in Drains => (LoopTask(AtPc(Back(w))) <=> LoopTask(task[w]))
  BY Fields DEF LoopTask, Back, Loops, ForNotice, LockedPcs
<1> QED
  BY <1>1, <1>2, ForNoticeFields, MoveLoop

\* kick_drain starts a drain when none is in the loop.
LEMMA KickLoop ==
    ASSUME Loops, NEW ts \in [Tasks -> Task], KickDrain(ts),
           \A d \in Drains : LoopTask(ts[d]) <=> LoopTask(task[d]),
           \A w \in Tasks : ForNotice(ts[w])
    PROVE  Loops'
<1>1. CASE task' = ts /\ UNCHANGED running
  BY <1>1, LoopsStay
<1>2. ASSUME NEW d \in Drains, task' = [ts EXCEPT ![d] = AtPc("loop")],
             ~running, running'
      PROVE  Loops'
  <2>1. task'[d] = AtPc("loop") /\ \A v \in Tasks \ {d} : task'[v] = ts[v]
    BY <1>2, KindsOfTask
  <2>2. \A e \in Drains : LoopTask(task'[e]) <=> e = d
    BY <1>2, <2>1, Fields, KindsOfTask DEF Loops, OneLoop, InLoop, LoopTask
  <2>3. \A v \in Tasks : ForNotice(task'[v])
    BY <2>1, ForNoticeFields
  <2> QED
    BY <1>2, <2>2, <2>3 DEF Loops, OneLoop, InLoop
<1> QED
  BY <1>1, <1>2 DEF KickDrain

LEMMA LoopWriter ==
    ASSUME TypeOK, Loops, NEW w \in Tasks, WriterStep(w)
    PROVE  Loops'
<1>1. UNCHANGED running /\ task[w].pc \in LockedPcs \cup {"wait"}
  BY DEF WriterStep, Reconcile, ReconcileLocked, Weigh, ClearOwed, Write, Store,
     engineVars, Wants, At, LockedPcs
<1>2. CASE Finish(w)
  BY <1>1, <1>2, FinishLoop
\* A task that reconciles goes on within the lock,
<1>3. ASSUME NEW p \in {"weigh", "clear", "write"}, NEW to, NEW open, NEW owed,
             task' = [task EXCEPT ![w].pc = p, ![w].to = to, ![w].open = open,
                                  ![w].owed = owed],
             \/ task[w].pc \in {"read", "weigh", "clear"}
             \/ At(w, "wait") /\ task[w].job = "reconcile"
      PROVE  Loops'
  <2> DEFINE r == [task[w] EXCEPT !.pc = p, !.to = to, !.open = open,
                                  !.owed = owed]
  <2>1. task' = [task EXCEPT ![w] = r] /\ r.pc = p /\ r.job = task[w].job
    BY <1>3 DEF TypeOK, Task
  <2>2. task[w].job # "notice"
    BY <1>3 DEF Loops, ForNotice
  <2>3. ForNotice(r) /\ ~LoopTask(r) /\ ~LoopTask(task[w])
    BY <1>3, <2>1, <2>2 DEF ForNotice, LoopTask, At
  <2> HIDE DEF r
  <2> QED
    BY <1>1, <2>1, <2>3, MoveLoop
\* or has written and goes on to store.
<1>4. CASE Write(w) /\ task' = [task EXCEPT ![w].pc = "store"]
  <2> DEFINE r == [task[w] EXCEPT !.pc = "store"]
  <2>1. /\ task' = [task EXCEPT ![w] = r] /\ r.pc = "store"
        /\ r.job = task[w].job /\ r.to = task[w].to /\ task[w].pc = "write"
    BY <1>4 DEF TypeOK, Task, Write, At
  <2>2. ForNotice(r) /\ (LoopTask(r) <=> LoopTask(task[w]))
    BY <2>1 DEF ForNotice, LoopTask, Loops
  <2> HIDE DEF r
  <2> QED
    BY <1>1, <2>1, <2>2, MoveLoop
<1>5. ASSUME ReadInputs(w), ~(Finish(w)),
             At(w, "read") \/ (At(w, "wait") /\ task[w].job = "reconcile")
      PROVE  Loops'
  <2>1. task' = [task EXCEPT ![w].pc = "weigh", ![w].to = task[w].to,
                             ![w].open = window, ![w].owed = unann]
    BY <1>5 DEF ReadInputs, TypeOK, Task
  <2> QED
    BY <1>3, <1>5, <2>1 DEF At
<1>6. CASE Weigh(w)
  <2> DEFINE target == Derive(task[w].open, hold, task[w].owed)
  <2>1. \/ Finish(w)
        \/ \E p \in {"clear", "write"} :
              task' = [task EXCEPT ![w].pc = p, ![w].to = target]
    BY <1>6 DEF Weigh
  <2>2. ASSUME NEW p \in {"clear", "write"},
               task' = [task EXCEPT ![w].pc = p, ![w].to = target]
        PROVE  Loops'
    <3> HIDE DEF target
    <3>1. task' = [task EXCEPT ![w].pc = p, ![w].to = target,
                               ![w].open = task[w].open,
                               ![w].owed = task[w].owed]
      BY <2>2 DEF TypeOK, Task
    <3>2. task[w].pc = "weigh"
      BY <1>6 DEF Weigh, At
    <3> QED
      BY <1>3, <3>1, <3>2
  <2> QED
    BY <1>2, <2>1, <2>2
<1>7. CASE ClearOwed(w) /\ task' = [task EXCEPT ![w].pc = "write"]
  <2>1. task' = [task EXCEPT ![w].pc = "write", ![w].to = task[w].to,
                             ![w].open = task[w].open,
                             ![w].owed = task[w].owed]
    BY <1>7 DEF TypeOK, Task
  <2>2. task[w].pc = "clear"
    BY <1>7 DEF ClearOwed, At
  <2> QED
    BY <1>3, <2>1, <2>2
<1> QED
  BY <1>2, <1>4, <1>5, <1>6, <1>7
     DEF WriterStep, Reconcile, ReconcileLocked, ClearOwed, Write, Store, Wants

LEMMA LoopCall ==
    ASSUME TypeOK, Loops, NEW c \in Callers, CallStep(c) \/ Request(c)
    PROVE  Loops'
<1> USE DEF engineVars, windowVars
<1>1. c \in Tasks \ Drains
  BY KindsOfTask
<1>2. CASE KickSent(c)
  <2> DEFINE ts == [task EXCEPT ![c] = Wanting("human")]
  <2>1. /\ ts \in [Tasks -> Task] /\ KickDrain(ts)
        /\ ts[c] = Wanting("human") /\ \A v \in Tasks \ {c} : ts[v] = task[v]
    BY <1>1, <1>2, WantingType DEF KickSent, TypeOK, Jobs
  <2> HIDE DEF ts
  <2>2. /\ \A d \in Drains : LoopTask(ts[d]) <=> LoopTask(task[d])
        /\ \A w \in Tasks : ForNotice(ts[w])
    BY <1>1, <2>1, KindsOfTask, ForNoticeFields DEF Loops
  <2> QED
    BY <2>1, <2>2, KickLoop
<1>3. CASE WriteWorking(c)
  <2>1. At(c, "wait") /\ task[c].job = "human" /\ UNCHANGED running
    BY <1>3 DEF WriteWorking, Wants
  <2>2. CASE Finish(c)
    BY <1>1, <2>1, <2>2, FinishLoop DEF At
  <2>3. CASE task' = [task EXCEPT ![c].pc = "write", ![c].to = "working"]
    <3> DEFINE r == [task[c] EXCEPT !.pc = "write", !.to = "working"]
    <3>1. task' = [task EXCEPT ![c] = r] /\ r.job = "human"
      BY <1>1, <2>1, <2>3 DEF TypeOK, Task
    <3>2. ForNotice(r)
      BY <3>1 DEF ForNotice
    <3> HIDE DEF r
    <3> QED
      BY <1>1, <2>1, <3>1, <3>2, MoveLoop
  <2> QED
    BY <1>3, <2>2, <2>3 DEF WriteWorking
<1>4. CASE Withdraw(c)
  BY <1>4, LoopsStay DEF Withdraw, Loops
<1>5. CASE \/ ReleaseLatch(c) \/ ReleaseEmpty(c) \/ ReleaseSync(c)
           \/ ReleaseAbort(c) \/ MarkDone(c) \/ Send(c) \/ Release(c)
  <2>1. /\ UNCHANGED running
        /\ \E p : task' = [task EXCEPT ![c] = AtPc(p)]
    BY <1>5 DEF ReleaseLatch, ReleaseEmpty, ReleaseSync, ReleaseAbort,
       MarkDone, Send, Release, Goto
  <2> QED
    BY <1>1, <2>1, ForNoticeFields, MoveLoop
<1> QED
  BY <1>2, <1>3, <1>4, <1>5 DEF CallStep, Request

LEMMA LoopDrain ==
    ASSUME TypeOK, Loops, NEW d \in Drains, DrainStep(d)
    PROVE  Loops'
<1> USE DEF engineVars, windowVars
<1>1. d \in Tasks
  BY KindsOfTask
\* The turns,
<1>2. CASE DrainTurn(d) \/ DrainNotice(d) \/ TurnOver(d) \/ DrainLeave(d)
  <2>1. /\ UNCHANGED running /\ LoopTask(task[d])
        /\ \E r \in {AtPc("turn"), AtPc("loop"), AtPc("fin"),
                     Wanting("notice")} : task' = [task EXCEPT ![d] = r]
    BY <1>2 DEF DrainTurn, DrainNotice, TurnOver, DrainLeave, Goto, LoopTask, At
  <2>2. \A r \in {AtPc("turn"), AtPc("loop"), AtPc("fin"), Wanting("notice")} :
           LoopTask(r) /\ ForNotice(r)
    BY Fields, ForNoticeFields DEF LoopTask
  <2> QED
    BY <1>1, <2>1, <2>2, MoveLoop
<1>3. CASE WriteNotice(d)
  <2> DEFINE r == [task[d] EXCEPT !.pc = "write", !.to = "notice"]
  <2>1. /\ UNCHANGED running /\ LoopTask(task[d])
        /\ task' = [task EXCEPT ![d] = r] /\ r.pc = "write"
        /\ r.job = "notice" /\ r.to = "notice"
    BY <1>1, <1>3 DEF WriteNotice, Wants, LoopTask, At, TypeOK, Task
  <2>2. LoopTask(r) /\ ForNotice(r)
    BY <2>1 DEF LoopTask, ForNotice
  <2> HIDE DEF r
  <2> QED
    BY <1>1, <2>1, <2>2, MoveLoop
<1>4. CASE DrainPrune(d)
  BY <1>4, LoopsStay DEF DrainPrune, Loops
\* the end of the loop,
<1>5. CASE DrainFin(d)
  <2>1. /\ ~running' /\ InLoop(d)
        /\ task' = [task EXCEPT ![d] = Wanting("reconcile")]
    BY <1>5 DEF DrainFin, InLoop, LoopTask, At
  <2>2. /\ task'[d] = Wanting("reconcile")
        /\ \A v \in Tasks \ {d} : task'[v] = task[v]
    BY <1>1, <2>1 DEF TypeOK
  <2>3. \A e \in Drains : ~LoopTask(task'[e])
    BY <2>1, <2>2, Fields, KindsOfTask DEF Loops, OneLoop, InLoop, LoopTask
  <2>4. \A v \in Tasks : ForNotice(task'[v])
    BY <2>2, ForNoticeFields DEF Loops
  <2> QED
    BY <2>1, <2>3, <2>4 DEF Loops, OneLoop, InLoop
\* and what comes after it.
<1>6. CASE DrainTail(d)
  <2> DEFINE ts == [task EXCEPT ![d] = OffTask]
  <2>1. /\ ts \in [Tasks -> Task]
        /\ KickDrain(ts) \/ (task' = ts /\ UNCHANGED running)
        /\ task[d].pc = "tail" /\ ts[d] = OffTask
        /\ \A v \in Tasks \ {d} : ts[v] = task[v]
    BY <1>1, <1>6, OffType DEF DrainTail, TypeOK, At
  <2> HIDE DEF ts
  <2>2. /\ \A e \in Drains : LoopTask(ts[e]) <=> LoopTask(task[e])
        /\ \A w \in Tasks : ForNotice(ts[w])
    BY <2>1, Fields, KindsOfTask, ForNoticeFields DEF Loops, LoopTask
  <2> QED
    BY <2>1, <2>2, KickLoop, LoopsStay
<1> QED
  BY <1>2, <1>3, <1>4, <1>5, <1>6 DEF DrainStep

LEMMA LoopEvent ==
    ASSUME TypeOK, Loops,
           \/ \E r \in Spawned : Content(r)
           \/ TimerStep \/ Quieten \/ Notify \/ KickNotice \/ HoldChange
           \/ (\E v \in BOOLEAN : SendHold(v)) \/ FollowHold \/ Restart
    PROVE  Loops'
<1> USE DEF engineVars, windowVars
<1>1. {Timer, Follower} \subseteq Tasks \ Drains
  BY KindsOfTask
<1>2. ASSUME NEW r \in Spawned, Content(r) PROVE Loops'
  <2>1. /\ UNCHANGED running
        /\ \A w \in Tasks : task'[w] \in {Wanting("reconcile"),
                                          AtPc("check"), task[w]}
        /\ \A d \in Drains : task'[d] = task[d]
    BY <1>1, <1>2, KindsOfTask DEF Content
  <2> QED
    BY <2>1, LoopsStay, ForNoticeFields DEF Loops
<1>3. CASE Quieten \/ Notify \/ HoldChange \/ \E v \in BOOLEAN : SendHold(v)
  <2>1. UNCHANGED <<running, task>>
    BY <1>3 DEF Quieten, Notify, HoldChange, SendHold
  <2> QED
    BY <2>1, LoopsStay DEF Loops
<1>4. CASE KickNotice
  BY <1>4, KickLoop DEF KickNotice, TypeOK, Loops
<1>5. CASE TimerExit \/ TimerFire \/ FollowHold
  <2>1. /\ UNCHANGED running
        /\ \E w \in {Timer, Follower},
              r \in {AtPc("off"), OffTask, Wanting("settle"),
                     Wanting("reconcile")} :
              task' = [task EXCEPT ![w] = r]
    BY <1>5 DEF TimerExit, TimerFire, FollowHold, Goto
  <2>2. PICK w \in {Timer, Follower},
             r \in {AtPc("off"), OffTask, Wanting("settle"),
                    Wanting("reconcile")} :
             task' = [task EXCEPT ![w] = r]
    BY <2>1
  <2>3. ForNotice(r) /\ w \in Tasks \ Drains
    BY <1>1, ForNoticeFields
  <2> QED
    BY <2>1, <2>2, <2>3, MoveLoop
<1>6. CASE Settle
  <2>1. /\ UNCHANGED running /\ At(Timer, "wait")
        /\ Finish(Timer) \/ Goto(Timer, "read")
    BY <1>6 DEF Settle, Wants
  <2>2. CASE Finish(Timer)
    BY <1>1, <2>1, <2>2, FinishLoop DEF At
  <2>3. CASE Goto(Timer, "read")
    BY <1>1, <2>1, <2>3, ForNoticeFields, MoveLoop DEF Goto
  <2> QED
    BY <2>1, <2>2, <2>3
<1>7. CASE Restart
  <2>1. /\ ~running'
        /\ \A w \in Tasks : task'[w] \in {AtPc("watch"), OffTask}
    BY <1>7 DEF Restart
  <2>2. \A w \in Tasks : ForNotice(task'[w]) /\ ~LoopTask(task'[w])
    BY <2>1, ForNoticeFields, Fields DEF LoopTask
  <2> QED
    BY <2>1, <2>2, KindsOfTask DEF Loops, OneLoop, InLoop
<1> QED
  BY <1>2, <1>3, <1>4, <1>5, <1>6, <1>7 DEF TimerStep

LEMMA LoopsInit == Init => Loops
<1> SUFFICES ASSUME Init PROVE Loops
  OBVIOUS
<1>1. ~running /\ \A w \in Tasks : task[w] \in {AtPc("watch"), OffTask}
  BY DEF Init
<1>2. \A w \in Tasks : ForNotice(task[w]) /\ ~LoopTask(task[w])
  BY <1>1, ForNoticeFields, Fields DEF LoopTask
<1> QED
  BY <1>1, <1>2, KindsOfTask DEF Loops, OneLoop, InLoop

LEMMA LoopsStep == TypeOK /\ Loops /\ [Next]_vars => Loops'
<1> SUFFICES ASSUME TypeOK, Loops, [Next]_vars PROVE Loops'
  OBVIOUS
<1>1. CASE UNCHANGED vars
  BY <1>1, LoopsStay DEF vars, engineVars, Loops
<1>2. CASE Next
  BY <1>2, LoopWriter, LoopCall, LoopDrain, LoopEvent DEF Next
<1> QED
  BY <1>1, <1>2

-----------------------------------------------------------------------------
(* A turn that runs or waits to run.  Either a client call still owes its    *)
(* "working", or "working" is what is written or about to be, and nobody is  *)
(* on the way to write anything else.                                        *)

\* A client call that has yet to have its say.
ToSay(r) == r.pc = "kick" \/ (r.pc = "wait" /\ r.job = "human")

Sender == \E c \in Callers : ToSay(task[c])

\* A writer that will write something other than work.
Against(r) ==
    \/ r.pc \in {"weigh", "clear"}
    \/ r.pc \in {"write", "store"} /\ r.to \notin Working

Shown ==
    /\ \A w \in Tasks : ~Against(task[w])
    /\ last \in Working \/ \E w \in Tasks : At(w, "write")

Turning == ~released /\ (queued > 0 \/ \E d \in Drains : At(d, "turn"))

TurnSaid == Turning => Sender \/ Shown

\* Tasks move outside the lock, no turn is new and no call withdraws its say.
LEMMA OutsideSays ==
    ASSUME TurnSaid, OutsideStep, Turning' => Turning,
           \A c \in Callers : ToSay(task[c]) => ToSay(task'[c])
    PROVE  TurnSaid'
<1> SUFFICES ASSUME Turning' PROVE Sender' \/ Shown'
  BY DEF TurnSaid
<1>1. Sender => Sender'
  BY DEF Sender
<1>2. ASSUME Shown PROVE Shown'
  <2>1. \A w \in Tasks : ~Against(task'[w])
    BY <1>2 DEF OutsideStep, Shown, Against, LockedPcs
  <2>2. \A w \in Tasks : At(w, "write") => At(w, "write")'
    BY DEF OutsideStep, At, LockedPcs
  <2> QED
    BY <1>2, <2>1, <2>2 DEF OutsideStep, Shown
<1> QED
  BY <1>1, <1>2 DEF TurnSaid

LEMMA QuietSays ==
    ASSUME TurnSaid, QuietStep, Turning' => Turning,
           \A c \in Callers : ToSay(task[c]) => ToSay(task'[c])
    PROVE  TurnSaid'
  BY OutsideSays, QuietIsOutside

\* A task that gives the lock up leaves nobody at work.
LEMMA FinishSays ==
    ASSUME TypeOK, WriteInv, TurnSaid, NEW w \in Tasks,
           lock \in {w, NoTask}, Finish(w), Turning' => Turning,
           ~ToSay(task[w]),
           UNCHANGED last, ~At(w, "write") \/ released
    PROVE  TurnSaid'
<1> SUFFICES ASSUME Turning' PROVE Sender' \/ Shown'
  BY DEF TurnSaid
<1>1. /\ \A v \in Tasks \ {w} : task'[v] = task[v]
      /\ \A v \in Tasks : task'[v].pc \notin LockedPcs
  BY Finished DEF WriteInv
<1>2. Sender => Sender'
  BY <1>1, KindsOfTask DEF Sender
<1>3. ASSUME Shown PROVE Shown'
  <2>1. \A v \in Tasks : ~Against(task'[v])
    BY <1>1 DEF Against, LockedPcs
  <2>2. \A v \in Tasks : ~At(v, "write")
    BY Alone DEF WriteInv, At, LockedPcs, Turning
  <2> QED
    BY <1>3, <2>1, <2>2 DEF Shown
<1> QED
  BY <1>2, <1>3 DEF TurnSaid

\* Whoever takes the lock to write work says it.
LEMMA WorkSaid ==
    ASSUME TypeOK, WriteInv, NEW w \in Tasks, WorkStep(w),
           task'[w].pc = "write", task'[w].to \in Working
    PROVE  TurnSaid'
<1>1. \A v \in Tasks \ {w} : task'[v].pc \notin LockedPcs
  BY Alone DEF WriteInv, WorkStep
<1>2. \A v \in Tasks : ~Against(task'[v])
  BY <1>1 DEF Against, LockedPcs
<1> QED
  BY <1>2 DEF TurnSaid, Shown, At

LEMMA SaidWriter ==
    ASSUME TypeOK, WriteInv, Loops, TurnSaid, NEW w \in Tasks, WriterStep(w)
    PROVE  TurnSaid'
<1> USE DEF engineVars
<1>1. UNCHANGED <<queued, running, released>>
  BY DEF WriterStep, Reconcile, ReconcileLocked, Weigh, ClearOwed, Write, Store
<1>2. ~ToSay(task[w]) /\ lock \in {w, NoTask}
  BY DEF WriterStep, Reconcile, ReconcileLocked, Weigh, ClearOwed, Write, Store,
     Wants, At, ToSay, WriteInv, LockHeld, LockedPcs
\* A task that has finished runs a turn only if it wrote for the notice turn.
<1>3. ASSUME Finish(w), task[w].job # "notice"
      PROVE  Turning' => Turning
  <2>1. task'[w].pc # "turn" /\ \A v \in Tasks \ {w} : task'[v] = task[v]
    BY <1>3, Fields DEF Finish, Goto, Back, TypeOK
  <2> QED
    BY <1>1, <2>1, KindsOfTask DEF Turning, At
<1>4. ASSUME ReadInputs(w), UNCHANGED last, task[w].job # "notice",
             At(w, "read") \/ At(w, "wait")
      PROVE  TurnSaid'
  <2>1. CASE Finish(w)
    BY <1>2, <1>3, <1>4, <2>1, FinishSays DEF At
  <2>2. CASE ~released /\ ~Live /\ task' = [task EXCEPT ![w].pc = "weigh",
                                  ![w].open = window, ![w].owed = unann]
    <3>1. task'[w].pc = "weigh" /\ \A v \in Tasks \ {w} : task'[v] = task[v]
      BY <2>2 DEF TypeOK, Task
    <3>2. \A d \in Drains : ~At(d, "turn")'
      BY <2>2, <3>1, KindsOfTask
         DEF At, Live, Loops, OneLoop, InLoop, LoopTask
    <3>3. ~(queued > 0)
      BY <2>2 DEF Live
    <3> QED
      BY <1>1, <3>2, <3>3 DEF TurnSaid, Turning
  <2> QED
    BY <1>4, <2>1, <2>2 DEF ReadInputs
\* While one weighs or clears, a turn's call has yet to have its say.
<1>5. ASSUME At(w, "weigh") \/ At(w, "clear"),
             \A v \in Tasks \ {w} : task'[v] = task[v], Turning' => Turning
      PROVE  TurnSaid'
  <2>1. ~Shown
    BY <1>5 DEF Shown, Against, At
  <2>2. Sender => Sender'
    BY <1>2, <1>5, KindsOfTask DEF Sender
  <2> QED
    BY <1>5, <2>1, <2>2 DEF TurnSaid
<1>6. CASE Weigh(w) \/ ClearOwed(w)
  <2>1. (At(w, "weigh") \/ At(w, "clear")) /\ task[w].job # "notice"
    BY <1>6 DEF Weigh, ClearOwed, At, Loops, ForNotice
  <2>2. CASE Finish(w)
    <3>1. \A v \in Tasks \ {w} : task'[v] = task[v]
      BY <2>2, Finished, <1>2 DEF WriteInv
    <3> QED
      BY <1>3, <1>5, <2>1, <2>2, <3>1
  <2>3. CASE ~Finish(w)
    <3>1. WorkStep(w)
      BY <1>6, <2>3, WriterPrepares DEF YieldStep
    <3>2. /\ \A v \in Tasks \ {w} : task'[v] = task[v]
          /\ task'[w].pc \in LockedPcs
      BY <3>1 DEF WorkStep
    <3>3. Turning' => Turning
      BY <1>1, <3>2, KindsOfTask DEF Turning, At, LockedPcs
    <3> QED
      BY <1>5, <2>1, <3>2, <3>3
  <2> QED
    BY <2>2, <2>3
<1>7. CASE Write(w)
  <2>1. CASE released
    BY <1>1, <2>1 DEF TurnSaid, Turning
  <2>2. CASE ~released
    <3>1. /\ last' = task[w].to
          /\ task' = [task EXCEPT ![w].pc = "store"]
          /\ At(w, "write")
      BY <1>7, <2>2 DEF Write
    <3>2. /\ task'[w].pc = "store" /\ task'[w].to = task[w].to
          /\ \A v \in Tasks \ {w} : task'[v] = task[v]
      BY <3>1 DEF TypeOK, Task
    <3>3. Turning' => Turning
      BY <1>1, <3>2, KindsOfTask DEF Turning, At
    <3>4. Sender => Sender'
      BY <1>2, <3>2, KindsOfTask DEF Sender
    <3>5. Shown => Shown'
      BY <3>1, <3>2 DEF Shown, Against, At
    <3> QED
      BY <3>3, <3>4, <3>5 DEF TurnSaid
  <2> QED
    BY <2>1, <2>2
<1>8. CASE Store(w)
  <2>1. Finish(w) /\ UNCHANGED last /\ At(w, "store")
    BY <1>8 DEF Store
  <2>2. CASE task[w].job # "notice"
    BY <1>2, <1>3, <2>1, <2>2, FinishSays DEF At
  <2>3. CASE task[w].job = "notice"
    <3>1. last = "notice"
      BY <2>1, <2>3 DEF Loops, ForNotice, At, WriteInv, StoresLast
    <3>2. \A v \in Tasks : task'[v].pc \notin LockedPcs
      BY <1>2, <2>1, Finished DEF WriteInv
    <3>3. Shown'
      BY <2>1, <3>1, <3>2 DEF Shown, Against, LockedPcs, Working
    <3> QED
      BY <3>3 DEF TurnSaid
  <2> QED
    BY <2>2, <2>3
<1>9. CASE Reconcile(w)
  BY <1>4, <1>9 DEF Reconcile, Wants
<1>10. CASE ReconcileLocked(w)
  BY <1>4, <1>10 DEF ReconcileLocked, At, Loops, ForNotice
<1> QED
  BY <1>6, <1>7, <1>8, <1>9, <1>10 DEF WriterStep

LEMMA SaidCall ==
    ASSUME TypeOK, WriteInv, Loops, TurnSaid, NEW c \in Callers,
           CallStep(c) \/ Request(c)
    PROVE  TurnSaid'
<1> USE DEF engineVars
<1>1. c \in Tasks \ Drains
  BY KindsOfTask
<1>2. CASE Send(c)
  <2>1. task'[c].pc = "kick"
    BY <1>1, <1>2, Fields DEF Send, Goto, TypeOK
  <2> QED
    BY <2>1 DEF TurnSaid, Sender, ToSay
<1>3. CASE KickSent(c)
  <2> DEFINE ts == [task EXCEPT ![c] = Wanting("human")]
  <2>1. KickDrain(ts) /\ ts[c] = Wanting("human")
    BY <1>1, <1>3 DEF KickSent, TypeOK
  <2>2. ts \in [Tasks -> Task]
    BY WantingType DEF TypeOK, Jobs
  <2> HIDE DEF ts
  <2>3. task'[c] = Wanting("human")
    BY <1>1, <2>1, <2>2, KindsOfTask DEF KickDrain
  <2> QED
    BY <2>3, Fields DEF TurnSaid, Sender, ToSay
<1>4. CASE WriteWorking(c)
  <2>1. CASE Live
    <3>1. task' = [task EXCEPT ![c].pc = "write", ![c].to = "working"]
      BY <1>4, <2>1 DEF WriteWorking
    <3>2. task'[c].pc = "write" /\ task'[c].to = "working"
      BY <1>1, <3>1 DEF TypeOK, Task
    <3>3. WorkStep(c)
      BY <1>1, <1>4, <3>2, OthersPrepare, Fields, Finished
         DEF YieldStep, WriteInv, LockedPcs
    <3> QED
      BY <1>1, <3>2, <3>3, WorkSaid DEF Working
  <2>2. CASE ~Live
    <3>1. Finish(c) /\ UNCHANGED queued
      BY <1>4, <2>2 DEF WriteWorking
    <3>2. task'[c].pc = "off" /\ \A v \in Tasks \ {c} : task'[v] = task[v]
      BY <1>1, <3>1, Fields, KindsOfTask DEF Finish, Goto, Back, TypeOK
    <3>3. \A d \in Drains : ~At(d, "turn")'
      BY <1>1, <2>2, <3>2, KindsOfTask
         DEF At, Live, Loops, OneLoop, InLoop, LoopTask
    <3>4. ~(queued > 0)
      BY <2>2 DEF Live
    <3> QED
      BY <3>1, <3>3, <3>4 DEF TurnSaid, Turning
  <2> QED
    BY <2>1, <2>2
<1>5. CASE Withdraw(c)
  <2>1. QuietStep
    BY <1>5, CallQuiet
  <2>2. Turning' => Turning
    BY <1>5 DEF Withdraw, MayWithdraw, Turning, At
  <2> QED
    BY <1>5, <2>1, <2>2, QuietSays DEF Withdraw
<1>6. CASE \/ ReleaseLatch(c) \/ ReleaseEmpty(c) \/ ReleaseSync(c)
           \/ ReleaseAbort(c)
  <2>1. released'
    BY <1>6 DEF ReleaseLatch, ReleaseEmpty, ReleaseSync, ReleaseAbort, At,
       WriteInv, Releasing
  <2> QED
    BY <2>1 DEF TurnSaid, Turning
<1>7. CASE Release(c) \/ MarkDone(c)
  <2>1. \A b \in Callers : ToSay(task[b]) => ToSay(task'[b])
    BY <1>7, MarkingIsOutside, CallerTasks DEF ToSay
  <2>2. Turning' => Turning
    BY <1>7, MarkingIsOutside, KindsOfTask DEF Turning, At
  <2> QED
    BY <1>7, <2>1, <2>2, MarkingIsOutside, OutsideSays
<1> QED
  BY <1>2, <1>3, <1>4, <1>5, <1>6, <1>7 DEF CallStep, Request

LEMMA SaidDrain ==
    ASSUME TypeOK, WriteInv, Loops, TurnSaid, NEW d \in Drains, DrainStep(d)
    PROVE  TurnSaid'
<1> USE DEF engineVars
<1>1. d \in Tasks \ Callers
  BY KindsOfTask
<1>2. CASE WriteNotice(d)
  <2>1. task' = [task EXCEPT ![d].pc = "write", ![d].to = "notice"]
    BY <1>2 DEF WriteNotice
  <2>2. task'[d].pc = "write" /\ task'[d].to = "notice"
    BY <1>1, <2>1 DEF TypeOK, Task
  <2> QED
    BY <1>1, <1>2, <2>2, OthersPrepare, WorkSaid DEF Working
<1>3. CASE \/ DrainTurn(d) \/ DrainNotice(d) \/ DrainPrune(d) \/ TurnOver(d)
           \/ DrainLeave(d) \/ DrainFin(d)
  <2>1. QuietStep
    BY <1>3, DrainQuiet
  <2>2. /\ \A v \in Tasks \ {d} : task'[v] = task[v]
        /\ UNCHANGED released
    BY <1>1, <1>3 DEF DrainTurn, DrainNotice, DrainPrune, TurnOver, DrainLeave,
       DrainFin, Goto, TypeOK
  <2>3. Turning' => Turning
    <3>1. CASE DrainTurn(d)
      BY <2>2, <3>1 DEF DrainTurn, Turning
    <3>2. CASE DrainPrune(d)
      BY <2>2, <3>2 DEF DrainPrune, Turning, At
    <3>3. CASE DrainNotice(d) \/ TurnOver(d) \/ DrainLeave(d) \/ DrainFin(d)
      <4>1. /\ UNCHANGED queued
            /\ task' \in {[task EXCEPT ![d] = AtPc("loop")],
                          [task EXCEPT ![d] = AtPc("fin")],
                          [task EXCEPT ![d] = Wanting("notice")],
                          [task EXCEPT ![d] = Wanting("reconcile")]}
        BY <3>3 DEF DrainNotice, TurnOver, DrainLeave, DrainFin, Goto
      <4>2. task'[d].pc # "turn"
        BY <1>1, <4>1, Fields DEF TypeOK
      <4> QED
        BY <2>2, <4>1, <4>2, KindsOfTask DEF Turning, At
    <3> QED
      BY <1>3, <3>1, <3>2, <3>3
  <2>4. \A c \in Callers : task'[c] = task[c]
    BY <1>1, <2>2, KindsOfTask
  <2> QED
    BY <2>1, <2>3, <2>4, QuietSays
<1>4. CASE DrainTail(d)
  <2> DEFINE ts == [task EXCEPT ![d] = OffTask]
  <2>1. /\ ts \in [Tasks -> Task] /\ ts[d] = OffTask
        /\ \A v \in Tasks \ {d} : ts[v] = task[v]
        /\ KickDrain(ts) \/ task' = ts
        /\ UNCHANGED <<queued, released>>
    BY <1>1, <1>4, OffType DEF DrainTail, TypeOK
  <2> HIDE DEF ts
  <2>2. task' = ts \/ \E e \in Drains : task' = [ts EXCEPT ![e] = AtPc("loop")]
    BY <2>1 DEF KickDrain
  <2>3. /\ \A v \in Tasks : task'[v].pc = "turn" => task[v].pc = "turn"
        /\ \A c \in Callers : task'[c] = task[c]
    BY <1>1, <2>1, <2>2, Fields, KindsOfTask
  <2>4. Turning' => Turning
    BY <2>1, <2>3, KindsOfTask DEF Turning, At
  <2> QED
    BY <1>4, <2>3, <2>4, DrainQuiet, QuietSays
<1> QED
  BY <1>2, <1>3, <1>4 DEF DrainStep

LEMMA SaidEvent ==
    ASSUME TypeOK, WriteInv, Loops, TurnSaid,
           \/ \E r \in Spawned : Content(r)
           \/ TimerStep \/ Quieten \/ Notify \/ KickNotice \/ HoldChange
           \/ (\E v \in BOOLEAN : SendHold(v)) \/ FollowHold
    PROVE  TurnSaid'
<1> USE DEF engineVars
<1>1. /\ {Timer, Follower} \subseteq Tasks \ (Drains \cup Callers)
      /\ Drains \cup Callers \subseteq Tasks
  BY KindsOfTask
\* Whatever leaves the drains alone, or at most starts one, brings no turn.
<1>2. ASSUME \A d \in Drains : task'[d] \in {task[d], AtPc("loop")},
             UNCHANGED <<queued, released>>
      PROVE  Turning' => Turning
  BY <1>2, Fields DEF Turning, At
<1>3. ASSUME QuietStep, UNCHANGED <<queued, released>>,
             \A d \in Drains : task'[d] \in {task[d], AtPc("loop")},
             \A c \in Callers : task'[c] = task[c]
      PROVE  TurnSaid'
  BY <1>2, <1>3, QuietSays
<1>4. ASSUME NEW r \in Spawned, Content(r) PROVE TurnSaid'
  <2>1. \A w \in Drains \cup Callers : task'[w] = task[w]
    BY <1>1, <1>4, KindsOfTask DEF Content
  <2> QED
    BY <1>3, <1>4, <2>1, EventQuiet DEF Content
<1>5. CASE Quieten \/ Notify \/ HoldChange \/ \E v \in BOOLEAN : SendHold(v)
  <2>1. UNCHANGED <<queued, released, task>>
    BY <1>5 DEF Quieten, Notify, HoldChange, SendHold
  <2> QED
    BY <1>3, <1>5, <2>1, EventQuiet
<1>6. CASE KickNotice
  <2>1. /\ UNCHANGED <<queued, released>>
        /\ \/ task' = task
           \/ \E d \in Drains : task' = [task EXCEPT ![d] = AtPc("loop")]
    BY <1>6 DEF KickNotice, KickDrain
  <2>2. /\ \A d \in Drains : task'[d] \in {task[d], AtPc("loop")}
        /\ \A c \in Callers : task'[c] = task[c]
    BY <1>1, <2>1, KindsOfTask DEF TypeOK
  <2> QED
    BY <1>3, <1>6, <2>1, <2>2, EventQuiet
<1>7. CASE TimerExit \/ TimerFire \/ FollowHold
  <2>1. /\ UNCHANGED <<queued, released>>
        /\ \A w \in Tasks \ {Timer, Follower} : task'[w] = task[w]
    BY <1>1, <1>7 DEF TimerExit, TimerFire, FollowHold, Goto, TypeOK
  <2> QED
    BY <1>1, <1>3, <1>7, <2>1, EventQuiet
<1>8. CASE Settle
  <2>1. /\ lock = NoTask /\ At(Timer, "wait") /\ task[Timer].job = "settle"
        /\ UNCHANGED <<queued, released, last>>
        /\ Finish(Timer) \/ (Goto(Timer, "read") /\ lock' = Timer)
    BY <1>8 DEF Settle, Wants
  <2>2. \A w \in Tasks \ {Timer} : task'[w] = task[w]
    BY <2>1 DEF Finish, Goto, TypeOK
  <2>3. Turning' => Turning
    BY <1>1, <1>2, <2>1, <2>2
  <2>4. CASE Finish(Timer)
    BY <1>1, <2>1, <2>3, <2>4, FinishSays DEF At, ToSay
  <2>5. CASE Goto(Timer, "read")
    <3>1. task'[Timer].pc = "read"
      BY <1>1, <2>5, Fields DEF Goto, TypeOK
    <3>2. \A v \in Tasks : ~At(v, "write")
      BY <1>1, <2>1, Alone DEF WriteInv, At, LockedPcs
    <3>3. Shown => Shown'
      BY <2>1, <2>2, <3>1, <3>2 DEF Shown, Against
    <3>4. Sender => Sender'
      BY <1>1, <2>2 DEF Sender
    <3> QED
      BY <2>3, <3>3, <3>4 DEF TurnSaid
  <2> QED
    BY <2>1, <2>4, <2>5
<1> QED
  BY <1>4, <1>5, <1>6, <1>7, <1>8 DEF TimerStep

LEMMA SaidStep ==
    TypeOK /\ WriteInv /\ Loops /\ TurnSaid /\ [Next]_vars => TurnSaid'
<1> SUFFICES ASSUME TypeOK, WriteInv, Loops, TurnSaid, [Next]_vars
             PROVE  TurnSaid'
  OBVIOUS
<1>1. CASE UNCHANGED vars
  <2>1. QuietStep /\ Turning' = Turning
    BY <1>1 DEF vars, engineVars, windowVars, registryVars, QuietStep, Turning,
       At
  <2> QED
    BY <1>1, <2>1, QuietSays DEF vars
<1>2. CASE Restart
  <2>1. \A d \in Drains : ~At(d, "turn")'
    BY <1>2, Fields, KindsOfTask DEF Restart, At
  <2> QED
    BY <1>2, <2>1 DEF Restart, TurnSaid, Turning
<1>3. CASE Next /\ ~Restart
  BY <1>3, SaidWriter, SaidCall, SaidDrain, SaidEvent DEF Next
<1> QED
  BY <1>1, <1>2, <1>3

\* Once the calls that queued them have had their say, a turn that runs is
\* stored as work, whichever reconcile, settle or follower is late.
THEOREM TurnIsShown == Spec => []RunningTurnShown
<1>1. Init => TurnSaid
  <2> SUFFICES ASSUME Init PROVE ~Turning
    BY DEF TurnSaid
  <2>1. \A d \in Drains : ~At(d, "turn")
    BY Fields, KindsOfTask DEF Init, At
  <2> QED
    BY <2>1 DEF Init, Turning
<1>2. TypeOK /\ WriteInv /\ TurnSaid => RunningTurnShown
  <2> SUFFICES ASSUME TypeOK, WriteInv, TurnSaid, NEW d \in Drains,
                      At(d, "turn"), lock = NoTask, ~released,
                      \A c \in Callers : At(c, "off")
               PROVE  stored \in Working
    BY DEF RunningTurnShown
  <2>1. Turning /\ ~Sender
    BY DEF Turning, Sender, ToSay, At
  <2>2. \A v \in Tasks : task[v].pc \notin LockedPcs
    BY LifecycleAssumption DEF WriteInv, LockHeld
  <2>3. last \in Working
    BY <2>1, <2>2 DEF TurnSaid, Shown, At, LockedPcs
  <2>4. last = stored
    BY <2>2 DEF WriteInv, Mirror, NoStore, Registered, At, LockedPcs
  <2> QED
    BY <2>3, <2>4
<1> QED
  BY <1>1, <1>2, SaidStep, LoopsInit, LoopsStep, WriteInvInit, WriteInvStep,
     TypeCorrect, PTL DEF Spec

-----------------------------------------------------------------------------
(* A session at rest.  While something is due (a turn queued or run, a       *)
(* reconcile under way, a change of the hold the follower has not seen), the *)
(* lifecycle may lag behind; when nothing is, what is written, and what a    *)
(* writer is about to write, agrees with the window and with the hold the    *)
(* registry has told or is about to tell.                                    *)

Due ==
    \/ wakeup \/ queued > 0 \/ running
    \/ \E w \in Tasks : \/ At(w, "wait") /\ task[w].job = "reconcile"
                        \/ At(w, "read")

\* The channel says so, and the registry does too or has said so since.
HoldTrue  == told /\ (hold \/ FALSE \in sending)
HoldFalse == ~told /\ (~hold \/ TRUE \in sending)

\* Lifecycle x is what the evidence asks for, and no turn end is forgotten.
Agrees(x) ==
    /\ x \in Working \/ HoldFalse
    /\ x \in Working => window \/ HoldTrue
    /\ unann => window \/ HoldTrue

\* What a task that writes has read or is about to write is not stale.
Fresh(r) ==
    /\ r.pc = "weigh" => (r.open => window) /\ (unann => r.owed)
    /\ r.pc = "clear" => r.to = "waiting" /\ HoldFalse
    /\ r.pc = "write" => Agrees(r.to)
    /\ r.pc = "store" => Agrees(last)

NoWriter == \A w \in Tasks : task[w].pc \notin LockedPcs

Accounted ==
    /\ NoWriter => Agrees(last)
    /\ \A w \in Tasks : Fresh(task[w])

Evidence == released \/ Due \/ Accounted

\* Nothing the evidence is made of changes, and nothing due is dropped.
LEMMA OutsideEvidence ==
    ASSUME Evidence, OutsideStep, ~Due' => ~Due,
           UNCHANGED <<released, unann, window, hold, told, sending>>
    PROVE  Evidence'
<1> SUFFICES ASSUME Accounted PROVE Accounted'
  BY DEF Evidence, OutsideStep
<1>1. NoWriter' <=> NoWriter
  BY DEF OutsideStep, NoWriter
<1>2. (HoldTrue' <=> HoldTrue) /\ (HoldFalse' <=> HoldFalse)
  BY DEF HoldTrue, HoldFalse
<1>3. \A x : Agrees(x)' <=> Agrees(x)
  BY <1>2 DEF Agrees
<1>4. NoWriter' => Agrees(last)'
  BY <1>1, <1>3 DEF Accounted, OutsideStep
<1>5. ASSUME NEW w \in Tasks PROVE Fresh(task[w])'
  BY <1>2, <1>3 DEF Accounted, Fresh, OutsideStep, LockedPcs
<1> QED
  BY <1>4, <1>5 DEF Accounted

LEMMA QuietEvidence ==
    ASSUME Evidence, QuietStep, ~Due' => ~Due,
           UNCHANGED <<unann, window, hold, told, sending>>
    PROVE  Evidence'
<1>1. UNCHANGED released
  BY DEF QuietStep
<1> QED
  BY <1>1, QuietIsOutside, OutsideEvidence

\* A task that gives the lock up leaves nobody at work.
LEMMA YieldEvidence ==
    ASSUME TypeOK, WriteInv, NEW w \in Tasks, lock \in {w, NoTask}, Finish(w),
           Agrees(last)'
    PROVE  Evidence'
<1>1. \A v \in Tasks : task'[v].pc \notin LockedPcs
  BY Finished DEF WriteInv
<1>2. \A v \in Tasks : Fresh(task[v])'
  BY <1>1 DEF Fresh, LockedPcs
<1> QED
  BY <1>2 DEF Evidence, Accounted

\* A task that has the lock is the only one whose reading counts.
LEMMA HolderEvidence ==
    ASSUME TypeOK, WriteInv, NEW w \in Tasks, lock \in {w, NoTask},
           \A v \in Tasks \ {w} : task'[v] = task[v],
           task'[w].pc \in LockedPcs, Fresh(task[w])'
    PROVE  Evidence'
<1>1. \A v \in Tasks \ {w} : task'[v].pc \notin LockedPcs
  BY Alone DEF WriteInv
<1>2. \A v \in Tasks : Fresh(task[v])'
  BY <1>1 DEF Fresh, LockedPcs
<1> QED
  BY <1>2 DEF Evidence, Accounted, NoWriter

LEMMA EvidenceWriter ==
    ASSUME TypeOK, WriteInv, Evidence, NEW w \in Tasks, WriterStep(w)
    PROVE  Evidence'
<1> USE DEF engineVars, windowVars, registryVars
<1> SUFFICES ASSUME ~released', ~Due' PROVE Evidence'
  BY DEF Evidence
<1>1. UNCHANGED <<queued, running, released, window, hold, sending>>
  BY DEF WriterStep, Reconcile, ReconcileLocked, Weigh, ClearOwed, Write, Store
<1>2. lock \in {w, NoTask}
  BY DEF WriterStep, Reconcile, ReconcileLocked, Weigh, ClearOwed, Write, Store,
     Wants, At, WriteInv, LockHeld, LockedPcs
\* The reading is fresh when it is made;
<1>3. ASSUME ReadInputs(w), UNCHANGED unann PROVE Evidence'
  <2>1. ~released /\ ~Live
    BY <1>1 DEF Due, Live
  <2>2. task' = [task EXCEPT ![w].pc = "weigh", ![w].open = window,
                             ![w].owed = unann]
    BY <1>3, <2>1 DEF ReadInputs
  <2>3. /\ \A v \in Tasks \ {w} : task'[v] = task[v]
        /\ task'[w].pc = "weigh" /\ task'[w].open = window
        /\ task'[w].owed = unann
    BY <2>2 DEF TypeOK, Task
  <2>4. Fresh(task[w])'
    BY <1>1, <1>3, <2>3 DEF Fresh
  <2> QED
    BY <1>2, <2>3, <2>4, HolderEvidence DEF LockedPcs
\* it is weighed against a hold the follower has been told of.
<1>4. CASE Weigh(w)
  <2>0. PICK target : target = Derive(task[w].open, hold, task[w].owed)
    OBVIOUS
  <2>1. /\ told' = hold /\ ~wakeup' /\ ~wakeup
        /\ At(w, "weigh") /\ UNCHANGED <<unann, last>>
    BY <1>4 DEF Weigh, Due
  <2>2. \A v \in Tasks \ {w} : task'[v] = task[v]
    <3>1. WorkStep(w) \/ YieldStep(w)
      BY <1>4, WriterPrepares
    <3> QED
      BY <1>2, <3>1, Finished DEF WorkStep, YieldStep, WriteInv
  <2>3. ~Due
    <3>1. \A v \in Tasks \ {w} :
             ~(At(v, "wait") /\ task[v].job = "reconcile") /\ ~At(v, "read")
      BY <2>2 DEF Due, At
    <3> QED
      BY <1>1, <2>1, <3>1 DEF Due, At
  <2>4. (task[w].open => window) /\ (unann => task[w].owed)
    BY <1>1, <2>1, <2>3 DEF Evidence, Accounted, Fresh, At
  <2>5. (HoldTrue' <=> hold) /\ (HoldFalse' <=> ~hold)
    BY <1>1, <2>1 DEF HoldTrue, HoldFalse, TypeOK
  <2>6. \A x : (Agrees(x))' <=> /\ x \in Working \/ ~hold
                                /\ x \in Working => window \/ hold
                                /\ unann => window \/ hold
    BY <1>1, <2>1, <2>5 DEF Agrees
  <2>7. target # "waiting" \/ ~hold
    BY <2>0 DEF Derive
  <2>8. ASSUME target # "waiting" PROVE (Agrees(target))'
    <3>1. CASE task[w].open \/ hold
      BY <2>0, <2>4, <2>6, <3>1 DEF Derive, Working
    <3>2. CASE ~(task[w].open \/ hold)
      <4>1. target = "settled" /\ ~task[w].owed
        BY <2>0, <2>8, <3>2 DEF Derive
      <4> QED
        BY <2>4, <2>6, <3>2, <4>1 DEF Working
    <3> QED
      BY <3>1, <3>2
  <2>9. ASSUME KeepsReason(target, task[w].owed) PROVE (Agrees(last))'
    <3>1. last \notin Working /\ target \notin Working /\ ~task[w].owed
      BY <2>9 DEF KeepsReason, Waiting, Working
    <3>2. ~hold
      BY <2>0, <3>1 DEF Derive, Working
    <3> QED
      BY <2>1, <2>4, <2>6, <3>1, <3>2
  <2>10. \/ Finish(w) /\ (Agrees(last))'
         \/ /\ task' = [task EXCEPT ![w].pc = "clear", ![w].to = target]
            /\ target = "waiting"
         \/ /\ task' = [task EXCEPT ![w].pc = "write", ![w].to = target]
            /\ target # "waiting"
    BY <1>4, <2>0, <2>1, <2>8, <2>9 DEF Weigh
  <2>11. CASE Finish(w) /\ (Agrees(last))'
    BY <1>2, <2>11, YieldEvidence
  <2>12. CASE /\ task' = [task EXCEPT ![w].pc = "clear", ![w].to = target]
              /\ target = "waiting"
    <3>1. task'[w].pc = "clear" /\ task'[w].to = "waiting"
      BY <2>12 DEF TypeOK, Task
    <3>2. Fresh(task[w])'
      BY <2>5, <2>7, <2>12, <3>1 DEF Fresh
    <3> QED
      BY <1>2, <2>2, <3>1, <3>2, HolderEvidence DEF LockedPcs
  <2>13. CASE /\ task' = [task EXCEPT ![w].pc = "write", ![w].to = target]
              /\ target # "waiting"
    <3>1. task'[w].pc = "write" /\ task'[w].to = target
      BY <2>13 DEF TypeOK, Task
    <3>2. (Agrees(task[w].to))'
      BY <2>6, <2>8, <2>13, <3>1
    <3>3. Fresh(task[w])'
      BY <3>1, <3>2 DEF Fresh
    <3> QED
      BY <1>2, <2>2, <3>1, <3>3, HolderEvidence DEF LockedPcs
  <2> QED
    BY <2>10, <2>11, <2>12, <2>13
\* From there on nothing is due, unless something new is.
<1>5. ASSUME \A v \in Tasks \ {w} : task'[v] = task[v], UNCHANGED wakeup,
             task[w].pc \in {"clear", "write", "store"}
      PROVE  ~Due /\ Fresh(task[w])
  <2>1. ~Due
    BY <1>1, <1>5 DEF Due, At
  <2> QED
    BY <1>1, <2>1 DEF Evidence, Accounted
<1>6. CASE ClearOwed(w)
  <2>1. /\ task[w].pc = "clear" /\ unann' = FALSE
        /\ UNCHANGED <<wakeup, told, last>>
    BY <1>6 DEF ClearOwed, At
  <2>2. \A v \in Tasks \ {w} : task'[v] = task[v]
    <3>1. WorkStep(w) \/ YieldStep(w)
      BY <1>6, WriterPrepares
    <3> QED
      BY <1>2, <3>1, Finished DEF WorkStep, YieldStep, WriteInv
  <2>3. task[w].to = "waiting" /\ HoldFalse
    BY <1>5, <2>1, <2>2 DEF Fresh
  <2>4. (Agrees("waiting"))'
    BY <1>1, <2>1, <2>3 DEF Agrees, HoldFalse, Working
  <2>5. CASE task[w].to = last
    <3>1. (Agrees(last))'
      BY <2>1, <2>3, <2>4, <2>5
    <3> QED
      BY <1>2, <1>6, <2>5, <3>1, YieldEvidence DEF ClearOwed
  <2>6. CASE task[w].to # last
    <3>1. task' = [task EXCEPT ![w].pc = "write"]
      BY <1>6, <2>6 DEF ClearOwed
    <3>2. task'[w].pc = "write" /\ task'[w].to = "waiting"
      BY <2>3, <3>1 DEF TypeOK, Task
    <3>3. Fresh(task[w])'
      BY <2>4, <3>2 DEF Fresh
    <3> QED
      BY <1>2, <2>2, <3>2, <3>3, HolderEvidence DEF LockedPcs
  <2> QED
    BY <2>5, <2>6
<1>7. CASE Write(w)
  <2>1. /\ task[w].pc = "write" /\ last' = task[w].to
        /\ UNCHANGED <<unann, wakeup, told>>
        /\ task' = [task EXCEPT ![w].pc = "store"]
    BY <1>1, <1>7 DEF Write, At
  <2>2. task'[w].pc = "store" /\ \A v \in Tasks \ {w} : task'[v] = task[v]
    BY <2>1 DEF TypeOK, Task
  <2>3. Agrees(task[w].to)
    BY <1>5, <2>1, <2>2 DEF Fresh
  <2>4. (Agrees(last))'
    BY <1>1, <2>1, <2>3 DEF Agrees, HoldTrue, HoldFalse
  <2>5. Fresh(task[w])'
    BY <2>2, <2>4 DEF Fresh
  <2> QED
    BY <1>2, <2>2, <2>5, HolderEvidence DEF LockedPcs
<1>8. CASE Store(w)
  <2>1. /\ task[w].pc = "store" /\ Finish(w)
        /\ UNCHANGED <<unann, wakeup, told, last>>
    BY <1>8 DEF Store, At
  <2>2. \A v \in Tasks \ {w} : task'[v] = task[v]
    BY <2>1 DEF Finish, Goto, TypeOK
  <2>3. Agrees(last)
    BY <1>5, <2>1, <2>2 DEF Fresh
  <2>4. (Agrees(last))'
    BY <1>1, <2>1, <2>3 DEF Agrees, HoldTrue, HoldFalse
  <2> QED
    BY <1>2, <2>1, <2>4, YieldEvidence
<1> QED
  BY <1>3, <1>4, <1>6, <1>7, <1>8 DEF WriterStep, Reconcile, ReconcileLocked

\* kick_drain makes a turn due, or does nothing.
LEMMA KickEvidence ==
    ASSUME TypeOK, Evidence, NEW ts \in [Tasks -> Task], KickDrain(ts),
           QuietStep, UNCHANGED <<queued, wakeup, unann, hold, told, sending>>,
           \A w \in Tasks : \/ ts[w] = task[w]
                            \/ ~At(w, "wait") /\ ~At(w, "read")
                            \/ At(w, "wait") /\ task[w].job # "reconcile"
    PROVE  Evidence'
<1>1. CASE running'
  BY <1>1 DEF Evidence, Due
<1>2. CASE task' = ts /\ UNCHANGED <<running, window>>
  <2>1. Due => Due'
    BY <1>2 DEF Due, At
  <2> QED
    BY <1>2, <2>1, QuietEvidence
<1> QED
  BY <1>1, <1>2 DEF KickDrain

LEMMA EvidenceCall ==
    ASSUME "withdraw" \notin Ops, TypeOK, WriteInv, Evidence,
           NEW c \in Callers, CallStep(c) \/ Request(c)
    PROVE  Evidence'
<1> USE DEF engineVars, windowVars, registryVars
<1>1. c \in Tasks \ Drains
  BY KindsOfTask
<1>2. CASE Send(c)
  <2>1. queued' > 0
    BY <1>2, LifecycleAssumption DEF Send, TypeOK
  <2> QED
    BY <2>1 DEF Evidence, Due
<1>3. CASE KickSent(c)
  <2> DEFINE ts == [task EXCEPT ![c] = Wanting("human")]
  <2>1. ts \in [Tasks -> Task]
    BY WantingType DEF TypeOK, Jobs
  <2>2. /\ KickDrain(ts) /\ At(c, "kick")
        /\ \A w \in Tasks \ {c} : ts[w] = task[w]
        /\ UNCHANGED <<queued, wakeup, unann, hold, told, sending>>
    BY <1>1, <1>3 DEF KickSent, TypeOK
  <2>3. \A w \in Tasks : \/ ts[w] = task[w]
                         \/ ~At(w, "wait") /\ ~At(w, "read")
    BY <2>2 DEF At
  <2>4. QuietStep
    BY <1>3, CallQuiet
  <2> HIDE DEF ts
  <2> QED
    BY <2>1, <2>2, <2>3, <2>4, KickEvidence
<1>4. CASE WriteWorking(c)
  <2>1. /\ lock = NoTask /\ At(c, "wait") /\ task[c].job = "human"
        /\ UNCHANGED <<queued, running, released, unann, window, hold, told,
                       sending, wakeup, last>>
    BY <1>4 DEF WriteWorking, Wants
  <2>2. CASE Live
    BY <2>1, <2>2 DEF Live, Evidence, Due
  <2>3. CASE ~Live
    <3>1. Finish(c)
      BY <1>4, <2>3 DEF WriteWorking
    <3>2. \A v \in Tasks \ {c} : task'[v] = task[v]
      BY <3>1 DEF Finish, Goto, TypeOK
    <3>3. Due => Due'
      BY <2>1, <3>2 DEF Due, At
    <3>4. NoWriter
      BY <2>1, LifecycleAssumption DEF WriteInv, LockHeld, NoWriter
    <3>5. CASE released \/ Due
      BY <2>1, <3>3, <3>5 DEF Evidence
    <3>6. CASE Agrees(last)
      <4>1. (Agrees(last))'
        BY <2>1, <3>6 DEF Agrees, HoldTrue, HoldFalse
      <4> QED
        BY <1>1, <2>1, <3>1, <4>1, YieldEvidence
    <3> QED
      BY <3>4, <3>5, <3>6 DEF Evidence, Accounted
  <2> QED
    BY <2>2, <2>3
<1>5. CASE \/ ReleaseLatch(c) \/ ReleaseEmpty(c) \/ ReleaseSync(c)
           \/ ReleaseAbort(c)
  <2>1. released'
    BY <1>5 DEF ReleaseLatch, ReleaseEmpty, ReleaseSync, ReleaseAbort, At,
       WriteInv, Releasing
  <2> QED
    BY <2>1 DEF Evidence
<1>6. ~Withdraw(c)
  BY DEF Withdraw, Starts
<1>7. CASE Release(c) \/ MarkDone(c)
  <2>1. Due => Due'
    BY <1>7, MarkingIsOutside DEF Due, At
  <2> QED
    BY <1>7, <2>1, MarkingIsOutside, OutsideEvidence
<1> QED
  BY <1>2, <1>3, <1>4, <1>5, <1>6, <1>7 DEF CallStep, Request

LEMMA EvidenceDrain ==
    ASSUME TypeOK, Loops, Evidence, NEW d \in Drains, DrainStep(d)
    PROVE  Evidence'
<1> USE DEF engineVars, windowVars, registryVars
<1>1. d \in Tasks
  BY KindsOfTask
\* A drain in the loop is running, which is due.
<1>2. CASE \/ DrainTurn(d) \/ DrainNotice(d) \/ DrainPrune(d)
           \/ WriteNotice(d) \/ TurnOver(d) \/ DrainLeave(d)
  <2>1. InLoop(d) /\ UNCHANGED running
    BY <1>2 DEF DrainTurn, DrainNotice, DrainPrune, WriteNotice, TurnOver,
       DrainLeave, Wants, At, InLoop, LoopTask
  <2> QED
    BY <2>1 DEF Loops, OneLoop, Evidence, Due
\* At its end it reconciles,
<1>3. CASE DrainFin(d)
  <2>1. task'[d] = Wanting("reconcile")
    BY <1>1, <1>3 DEF DrainFin, TypeOK
  <2> QED
    BY <1>1, <2>1, Fields DEF Evidence, Due, At
\* and after that it kicks.
<1>4. CASE DrainTail(d)
  <2> DEFINE ts == [task EXCEPT ![d] = OffTask]
  <2>1. /\ ts \in [Tasks -> Task] /\ At(d, "tail")
        /\ \A v \in Tasks \ {d} : ts[v] = task[v]
        /\ \/ KickDrain(ts)
           \/ task' = ts /\ UNCHANGED <<running, window>>
        /\ UNCHANGED <<queued, wakeup, unann, hold, told, sending>>
    BY <1>1, <1>4, OffType DEF DrainTail, TypeOK
  <2> HIDE DEF ts
  <2>2. QuietStep
    BY <1>4, DrainQuiet
  <2>3. \A w \in Tasks : \/ ts[w] = task[w]
                         \/ ~At(w, "wait") /\ ~At(w, "read")
    BY <2>1 DEF At
  <2>4. CASE KickDrain(ts)
    BY <2>1, <2>2, <2>3, <2>4, KickEvidence
  <2>5. CASE task' = ts /\ UNCHANGED <<running, window>>
    <3>1. Due => Due'
      BY <2>1, <2>3, <2>5 DEF Due, At
    <3> QED
      BY <2>1, <2>2, <2>5, <3>1, QuietEvidence
  <2> QED
    BY <2>1, <2>4, <2>5
<1> QED
  BY <1>2, <1>3, <1>4 DEF DrainStep

\* Background activity opens the window; it is written as work, or a reconcile
\* for it is due.
LEMMA EvidenceContent ==
    ASSUME TypeOK, WriteInv, Evidence, NEW r \in Spawned, Content(r)
    PROVE  Evidence'
<1> USE DEF engineVars, registryVars
<1>1. r \in Tasks /\ r # Timer
  BY KindsOfTask, LifecycleAssumption
<1>2. CASE NeedsWrite
  <2>1. task'[r] = Wanting("reconcile")
    BY <1>1, <1>2 DEF Content
  <2> QED
    BY <1>1, <2>1, Fields DEF Evidence, Due, At
<1>3. CASE ~NeedsWrite
  <2>1. /\ QuietStep /\ window' = TRUE
        /\ UNCHANGED <<queued, running, wakeup, unann, hold, told, sending>>
    BY EventQuiet DEF Content
  <2>2. \A w \in Tasks : task'[w] = task[w] \/ At(w, "off")
    BY <1>3 DEF Content
  <2>3. Due => Due'
    BY <2>1, <2>2 DEF Due, At
  <2>4. ASSUME Accounted PROVE Accounted'
    <3>1. (HoldTrue' <=> HoldTrue) /\ (HoldFalse' <=> HoldFalse)
      BY <2>1 DEF HoldTrue, HoldFalse
    <3>2. \A x : Agrees(x) => (Agrees(x))'
      BY <2>1, <3>1 DEF Agrees
    <3>3. NoWriter' => (Agrees(last))'
      BY <2>1, <2>4, <3>2, QuietIsOutside DEF Accounted, OutsideStep, NoWriter
    <3>4. ASSUME NEW w \in Tasks PROVE Fresh(task[w])'
      BY <2>1, <2>4, <3>1, <3>2, QuietIsOutside
         DEF Accounted, Fresh, OutsideStep, LockedPcs
    <3> QED
      BY <3>3, <3>4 DEF Accounted
  <2> QED
    BY <2>1, <2>3, <2>4 DEF Evidence, QuietStep
<1> QED
  BY <1>2, <1>3

\* The registry's hold changes, or its channel is told of it.
LEMMA EvidenceHold ==
    ASSUME TypeOK, Evidence, HoldChange \/ \E v \in BOOLEAN : SendHold(v)
    PROVE  Evidence'
<1> USE DEF engineVars, windowVars
<1> SUFFICES ASSUME ~released', ~Due' PROVE Evidence'
  BY DEF Evidence
<1>1. UNCHANGED <<queued, running, released, unann, window, last, task>>
  BY DEF HoldChange, SendHold
<1>2. (HoldTrue => HoldTrue') /\ (HoldFalse => HoldFalse') /\ ~wakeup
  <2>1. CASE HoldChange
    BY <2>1 DEF HoldChange, HoldTrue, HoldFalse, TypeOK, Due
  <2>2. ASSUME NEW v \in BOOLEAN, SendHold(v)
        PROVE  (HoldTrue => HoldTrue') /\ (HoldFalse => HoldFalse') /\ ~wakeup
    <3>1. told' = told /\ told = v /\ ~wakeup
      BY <2>2 DEF SendHold, Due
    <3>2. hold' = hold /\ sending' = sending \ {v}
      BY <2>2 DEF SendHold
    <3>3. CASE v = TRUE
      BY <3>1, <3>2, <3>3 DEF HoldTrue, HoldFalse
    <3>4. CASE v = FALSE
      BY <3>1, <3>2, <3>4 DEF HoldTrue, HoldFalse
    <3> QED
      BY <3>3, <3>4
  <2> QED
    BY <2>1, <2>2
<1>3. ~Due
  BY <1>1, <1>2 DEF Due, At
<1>4. \A x : Agrees(x) => (Agrees(x))'
  BY <1>1, <1>2 DEF Agrees
<1>5. NoWriter' => (Agrees(last))'
  BY <1>1, <1>3, <1>4 DEF Evidence, Accounted, NoWriter
<1>6. ASSUME NEW w \in Tasks PROVE Fresh(task[w])'
  BY <1>1, <1>2, <1>3, <1>4 DEF Evidence, Accounted, Fresh
<1> QED
  BY <1>5, <1>6 DEF Evidence, Accounted

LEMMA EvidenceEvent ==
    ASSUME TypeOK, WriteInv, Evidence,
           \/ TimerStep \/ Quieten \/ Notify \/ KickNotice \/ FollowHold
    PROVE  Evidence'
<1> USE DEF engineVars, windowVars, registryVars
<1>1. {Timer, Follower} \subseteq Tasks
  BY KindsOfTask
<1>2. CASE Quieten \/ Notify \/ TimerExit \/ TimerFire
  <2>1. /\ QuietStep
        /\ UNCHANGED <<queued, running, wakeup, unann, window, hold, told,
                       sending>>
        /\ \A w \in Tasks : task'[w] = task[w] \/ At(w, "check")
    BY <1>2, EventQuiet DEF Quieten, Notify, TimerExit, TimerFire, Goto, TypeOK
  <2>2. Due => Due'
    BY <2>1 DEF Due, At
  <2> QED
    BY <2>1, <2>2, QuietEvidence
<1>3. CASE KickNotice
  <2>1. QuietStep
    BY <1>3, EventQuiet
  <2> QED
    BY <1>3, <2>1, KickEvidence DEF KickNotice, TypeOK
<1>4. CASE FollowHold
  <2>1. CASE released
    BY <1>4, <2>1 DEF FollowHold, Evidence
  <2>2. CASE ~released
    <3>1. task'[Follower] = Wanting("reconcile")
      BY <1>1, <1>4, <2>2 DEF FollowHold, TypeOK
    <3> QED
      BY <1>1, <3>1, Fields DEF Evidence, Due, At
  <2> QED
    BY <2>1, <2>2
<1>5. CASE Settle
  <2>1. CASE MaySettle
    <3>1. task'[Timer].pc = "read"
      BY <1>1, <1>5, <2>1, Fields DEF Settle, Goto, TypeOK
    <3> QED
      BY <1>1, <3>1 DEF Evidence, Due, At
  <2>2. CASE ~MaySettle
    <3>1. /\ lock = NoTask /\ At(Timer, "wait") /\ task[Timer].job = "settle"
          /\ Finish(Timer)
          /\ UNCHANGED <<queued, running, released, unann, window, hold, told,
                         sending, wakeup, last>>
      BY <1>5, <2>2 DEF Settle, Wants
    <3>2. \A v \in Tasks \ {Timer} : task'[v] = task[v]
      BY <3>1 DEF Finish, Goto, TypeOK
    <3>3. Due => Due'
      BY <3>1, <3>2 DEF Due, At
    <3>4. NoWriter
      BY <3>1, LifecycleAssumption DEF WriteInv, LockHeld, NoWriter
    <3>5. Agrees(last) => (Agrees(last))'
      BY <3>1 DEF Agrees, HoldTrue, HoldFalse
    <3>6. Agrees(last) => Evidence'
      BY <1>1, <3>1, <3>5, YieldEvidence
    <3> QED
      BY <3>1, <3>3, <3>4, <3>6 DEF Evidence, Accounted
  <2> QED
    BY <2>1, <2>2
<1> QED
  BY <1>2, <1>3, <1>4, <1>5 DEF TimerStep

\* A session starts with nothing to show and nothing owed.
LEMMA EvidenceStart ==
    ASSUME ~hold, ~told, ~unann, last \notin Working,
           task = [w \in Tasks |->
                     IF w = Follower THEN AtPc("watch") ELSE OffTask]
    PROVE  Evidence
<1>1. \A w \in Tasks : task[w].pc \in {"watch", "off"}
  BY Fields
<1>2. Agrees(last)
  BY DEF Agrees, HoldFalse
<1> QED
  BY <1>1, <1>2 DEF Evidence, Accounted, Fresh

LEMMA EvidenceRestart == ASSUME TypeOK, Restart PROVE Evidence'
<1>1. /\ ~hold' /\ ~told' /\ ~unann' /\ last' \notin Working
      /\ task' = [w \in Tasks |->
                    IF w = Follower THEN AtPc("watch") ELSE OffTask]
  BY DEF Restart, Boot, Swept, Recovered, Working, TypeOK, Lifecycles, Waiting
<1>2. \A w \in Tasks : task'[w].pc \in {"watch", "off"}
  BY <1>1, Fields
<1>3. (Agrees(last))'
  BY <1>1 DEF Agrees, HoldFalse
<1>4. \A w \in Tasks : Fresh(task[w])'
  BY <1>2 DEF Fresh
<1> QED
  BY <1>3, <1>4 DEF Evidence, Accounted

LEMMA EvidenceStep ==
    ASSUME "withdraw" \notin Ops
    PROVE  TypeOK /\ WriteInv /\ Loops /\ Evidence /\ [Next]_vars => Evidence'
<1> SUFFICES ASSUME TypeOK, WriteInv, Loops, Evidence, [Next]_vars
             PROVE  Evidence'
  OBVIOUS
<1>1. CASE UNCHANGED vars
  <2>1. QuietStep
    BY <1>1 DEF vars, engineVars, windowVars, registryVars, QuietStep
  <2>2. Due' <=> Due
    BY <1>1 DEF vars, engineVars, registryVars, Due, At
  <2> QED
    BY <1>1, <2>1, <2>2, QuietEvidence DEF vars, windowVars, registryVars
<1>2. CASE Next
  BY <1>2, EvidenceWriter, EvidenceCall, EvidenceDrain, EvidenceContent,
     EvidenceHold, EvidenceEvent, EvidenceRestart DEF Next
<1> QED
  BY <1>1, <1>2

\* At rest nothing is due, nobody writes, and what the registry has told is so.
LEMMA RestAgrees ==
    ASSUME TypeOK, WriteInv, Loops, Evidence, Rest
    PROVE  /\ stored = last
           /\ (stored \in Working \/ ~hold)
           /\ (stored \in Working => window \/ hold)
           /\ (unann => window \/ hold)
<1>1. NoWriter
  BY DEF Rest, NoWriter, LockedPcs
<1>2. ~running
  BY KindsOfTask DEF Rest, Loops, OneLoop, InLoop, LoopTask
<1>3. ~Due
  BY <1>2 DEF Rest, Due, At
<1>4. Agrees(last)
  BY <1>1, <1>3 DEF Rest, Evidence, Accounted
<1>5. (HoldTrue => hold) /\ (HoldFalse => ~hold)
  BY DEF Rest, HoldTrue, HoldFalse
<1>6. stored = last
  BY <1>1, CallerTasks DEF Rest, WriteInv, Mirror, NoStore, NoWriter,
     Registered, At, LockedPcs
<1> QED
  BY <1>4, <1>5, <1>6 DEF Agrees

LEMMA EvidenceInit == Init => Evidence
<1> SUFFICES ASSUME Init PROVE Evidence
  OBVIOUS
<1>1. last \notin Working
  BY DEF Init, Working
<1> QED
  BY <1>1, EvidenceStart DEF Init

\* However a drain, the follower, the timer and the calls interleave, a session
\* at rest with a live background task is shown as work, and one shown as work
\* has a live task or an open window to show for it.  A turn withdrawn behind a
\* finishing drain breaks the second part (NeverStuckWorking); nothing else does.
THEOREM StoredReason ==
    ASSUME "withdraw" \notin Ops
    PROVE  Spec => []StoredHasReason
<1>1. TypeOK /\ WriteInv /\ Loops /\ Evidence => StoredHasReason
  BY RestAgrees DEF StoredHasReason
<1> QED
  BY <1>1, EvidenceInit, EvidenceStep, LoopsInit, LoopsStep, WriteInvInit,
     WriteInvStep, TypeCorrect, PTL DEF Spec

\* Nor does the announcement of a turn's end stay owed at rest, but for
\* background work that has yet to end.
THEOREM TurnEndAnnounced ==
    ASSUME "withdraw" \notin Ops
    PROVE  Spec => []TurnEndNotForgotten
<1>1. TypeOK /\ WriteInv /\ Loops /\ Evidence => TurnEndNotForgotten
  BY RestAgrees DEF TurnEndNotForgotten
<1> QED
  BY <1>1, EvidenceInit, EvidenceStep, LoopsInit, LoopsStep, WriteInvInit,
     WriteInvStep, TypeCorrect, PTL DEF Spec
=============================================================================
