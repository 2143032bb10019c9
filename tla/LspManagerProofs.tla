-------------------------- MODULE LspManagerProofs --------------------------
(***************************************************************************)
(* Proofs about LspManager, for every number of servers and callers, every  *)
(* restart limit and every set of operations.                               *)
(***************************************************************************)
EXTENDS LspManager, TLAPS

UnderLock == {"plan", "swap", "spawn"}
WithHandle == {"await", "open", "wake", "rpc"}

\* A task that restarts a crashed server only waits and starts it.
TimerType ==
    \A s \in Servers :
        /\ ~call[s].asks
        /\ call[s].at \in {"none", "ensure", "backoff"} \cup UnderLock

CallType == /\ call \in [Actors -> Call]
            /\ \A p \in Actors : call[p].handle # None <=> call[p].at \in WithHandle
            /\ TimerType
LockType == /\ lock \in Actors \cup {None}
            /\ \A p \in Actors : lock = p <=> call[p].at \in UnderLock
SlotType == /\ current \in Servers \cup {None}
            /\ failure \in Failure \cup {None}
            /\ count \in 0..(MaxRestarts + 1)
            /\ guard \in {"none", "spent", "disproved"}
ServerType == server \in [Servers -> Server]

TypeInv == TypeOK /\ TimerType

LEMMA TypeParts == TypeInv <=> CallType /\ LockType /\ SlotType /\ ServerType
  BY DEF TypeInv, TypeOK, CallType, LockType, SlotType, ServerType, UnderLock,
         WithHandle

LEMMA NoneApart == /\ None \notin Servers /\ None \notin Callers /\ None \notin Actors
                   /\ \A s \in Servers : s \notin Callers
  BY LspAssumption DEF Actors

-----------------------------------------------------------------------------
(* The calls.                                                               *)

\* A call moves on between two steps of the same kind.
LEMMA GoType ==
    ASSUME CallType, LockType, NEW p \in Actors, NEW step \in CallSteps, Go(p, step),
           step \in WithHandle <=> call[p].at \in WithHandle,
           p \in Servers => step \in {"none", "ensure", "backoff"} \cup UnderLock
    PROVE  /\ CallType' /\ call'[p].at = step
           /\ \A q \in Actors \ {p} : call'[q] = call[q]
  BY DEF CallType, LockType, TimerType, Go, Call, Actors

LEMMA DoneType ==
    ASSUME CallType, NEW p \in Actors, Done(p)
    PROVE  /\ CallType' /\ call'[p].at = "none"
           /\ \A q \in Actors \ {p} : call'[q] = call[q]
  BY DEF CallType, TimerType, Done, NoCall, Call, CallSteps, WithHandle, Actors

LEMMA GotType ==
    ASSUME CallType, NEW p \in Actors, NEW s \in Servers, Got(p, s)
    PROVE  /\ CallType' /\ call'[p].at \in {"none", "await"}
           /\ \A q \in Actors \ {p} : call'[q] = call[q]
<1>1. CASE call[p].asks
  <2>1. p \notin Servers
    BY <1>1 DEF CallType, TimerType
  <2>2. call'[p] = [NoCall EXCEPT !.at = "await", !.handle = s]
    BY <1>1 DEF Got, CallType
  <2>3. call'[p] \in Call /\ call'[p].at = "await" /\ call'[p].handle = s
    BY <2>2 DEF NoCall, Call, CallSteps
  <2> QED
    BY <1>1, <2>1, <2>3, NoneApart DEF Got, CallType, TimerType, WithHandle, Actors
<1>2. CASE ~call[p].asks
  BY <1>2, DoneType DEF Got
<1> QED
  BY <1>1, <1>2

\* The lock and the steps made under it agree after a step of p.
LEMMA LockAfter ==
    ASSUME LockType, NEW p \in Actors,
           \A q \in Actors \ {p} : call'[q] = call[q],
           \/ lock = p /\ lock' = p /\ call'[p].at \in UnderLock
           \/ lock = p /\ lock' = None /\ call'[p].at \notin UnderLock
           \/ lock = None /\ lock' = p /\ call'[p].at \in UnderLock
           \/ lock # p /\ lock' = lock /\ call'[p].at \notin UnderLock
    PROVE  LockType'
  BY NoneApart DEF LockType

LEMMA SameCalls == ASSUME CallType, UNCHANGED call PROVE CallType'
  BY DEF CallType, TimerType

LEMMA SameLock == ASSUME LockType, UNCHANGED <<call, lock>> PROVE LockType'
  BY DEF LockType

LEMMA SameSlot == ASSUME SlotType, UNCHANGED <<current, failure, count, guard>>
                  PROVE  SlotType'
  BY DEF SlotType

LEMMA SameServers == ASSUME ServerType, UNCHANGED server PROVE ServerType'
  BY DEF ServerType

-----------------------------------------------------------------------------
(* Servers and failures.                                                    *)

LEMMA StoppedType ==
    ASSUME ServerType, NEW s \in Servers, server' = Stopped(s)
    PROVE  ServerType'
<1> DEFINE stopped == [server[s] EXCEPT !.status = "stopped", !.proc = "dead"]
<1>1. server[s] \in Server
  BY DEF ServerType
<1>2. stopped \in Server
  BY <1>1 DEF Server, Status
<1>3. server' = [server EXCEPT ![s] = stopped]
  BY DEF ServerType, Stopped
<1> HIDE DEF stopped
<1> QED
  BY <1>2, <1>3 DEF ServerType

LEMMA NewServerType == \A b \in BOOLEAN : NewServer(b) \in Server
  BY DEF NewServer, Server, Status, TaskSteps

LEMMA FailureType ==
    /\ DependencyFailure \in Failure /\ StartFailure \in Failure
    /\ \A auto \in BOOLEAN, s \in Servers :
          Latched("crashed", auto, FALSE, s) \in Failure
  BY DEF DependencyFailure, StartFailure, Latched, Failure

LEMMA RecordType ==
    ASSUME ServerType, SlotType, NEW s \in Servers, NEW what \in Failure,
           NEW next \in TaskSteps, Record(s, what, next),
           UNCHANGED <<current, count, guard>>
    PROVE  ServerType' /\ SlotType'
<1>1. CASE Mine(s)
  BY <1>1 DEF Record, ServerType, SlotType, Server, Status
<1>2. CASE ~Mine(s)
  BY <1>2 DEF Record, ServerType, SlotType, Server
<1> QED
  BY <1>1, <1>2

-----------------------------------------------------------------------------
(* Type correctness, one handler at a time.                                 *)

Parts == CallType /\ LockType /\ SlotType /\ ServerType

LEMMA EnsureStep ==
    ASSUME Parts, NEW p \in Actors, Ensure(p)
    PROVE  Parts'
<1> USE DEF Parts
<1>1. CASE EnsureLook(p)
  <2> SUFFICES ASSUME At(p, "ensure"), lock = None
               PROVE  CallType' /\ LockType'
    BY <1>1, SameSlot, SameServers DEF EnsureLook, Free
  <2>1. CASE Up /\ Got(p, current) /\ UNCHANGED lock
    <3>1. current \in Servers
      BY <2>1 DEF Up, SlotType
    <3>2. lock # p
      BY NoneApart
    <3> QED
      BY <2>1, <3>1, <3>2, GotType, LockAfter DEF UnderLock
  <2>2. CASE lock' = p /\ Go(p, "plan")
    BY <2>2, GoType, LockAfter DEF CallSteps, WithHandle, UnderLock, At
  <2>3. CASE Done(p) /\ UNCHANGED lock
    <3>1. lock # p
      BY NoneApart
    <3> QED
      BY <2>3, <3>1, DoneType, LockAfter DEF UnderLock
  <2> QED
    BY <1>1, <2>1, <2>2, <2>3 DEF EnsureLook
<1>2. CASE EnsurePlan(p)
  <2>1. lock = p /\ At(p, "plan")
    BY <1>2 DEF EnsurePlan, LockType, UnderLock, At
  <2>2. CASE Go(p, "swap") /\ UNCHANGED <<failure, guard, lock>>
    BY <1>2, <2>1, <2>2, GoType, LockAfter, SameSlot, SameServers
       DEF EnsurePlan, CallSteps, WithHandle, UnderLock, At
  <2>3. CASE /\ guard' = "spent" /\ UNCHANGED <<failure, lock>>
             /\ call' = [call EXCEPT ![p].at = "swap", ![p].pending = TRUE]
    <3> DEFINE planned == [call[p] EXCEPT !.at = "swap", !.pending = TRUE]
    <3>a. call' = [call EXCEPT ![p] = planned]
      BY <2>3 DEF CallType
    <3>b. /\ planned \in Call /\ planned.at = "swap"
          /\ planned.asks = call[p].asks /\ planned.handle = call[p].handle
      BY DEF CallType, Call, CallSteps
    <3> HIDE DEF planned
    <3>1. CallType' /\ call'[p].at = "swap"
      BY <2>1, <3>a, <3>b DEF CallType, TimerType, WithHandle, UnderLock, At, Actors
    <3>2. \A q \in Actors \ {p} : call'[q] = call[q]
      BY <3>a DEF CallType
    <3>3. SlotType' /\ ServerType'
      BY <1>2, <2>3, SameServers DEF EnsurePlan, SlotType
    <3> QED
      BY <2>1, <2>3, <3>1, <3>2, <3>3, LockAfter DEF UnderLock
  <2>4. CASE failure' = DependencyFailure /\ Refuse(p) /\ UNCHANGED guard
    <3>1. SlotType' /\ ServerType'
      BY <1>2, <2>4, FailureType, SameServers DEF EnsurePlan, SlotType
    <3> QED
      BY <2>1, <2>4, <3>1, DoneType, LockAfter DEF Refuse, UnderLock
  <2> QED
    BY <1>2, <2>2, <2>3, <2>4 DEF EnsurePlan
<1>3. CASE EnsureSwap(p)
  <2>1. CallType' /\ LockType'
    BY <1>3, GoType, LockAfter
       DEF EnsureSwap, CallSteps, WithHandle, UnderLock, At, LockType
  <2>2. SlotType' /\ ServerType'
    <3>1. CASE current = None
      BY <1>3, <3>1, SameSlot, SameServers DEF EnsureSwap
    <3>2. CASE current # None
      BY <1>3, <3>2, StoppedType DEF EnsureSwap, SlotType
    <3> QED
      BY <3>1, <3>2
  <2> QED
    BY <2>1, <2>2
<1>4. CASE EnsureSpawn(p)
  <2>1. lock = p
    BY <1>4 DEF EnsureSpawn, LockType, UnderLock, At
  <2>2. ASSUME NEW s \in Servers, Got(p, s), lock' = None, current' = s,
               UNCHANGED failure,
               server' = [server EXCEPT ![s] = NewServer(call[p].pending)]
        PROVE  Parts'
    <3>1. call[p].pending \in BOOLEAN
      BY DEF CallType, Call
    <3>2. SlotType' /\ ServerType'
      BY <1>4, <2>2, <3>1, NewServerType DEF EnsureSpawn, SlotType, ServerType
    <3> QED
      BY <2>1, <2>2, <3>2, GotType, LockAfter DEF UnderLock
  <2>3. CASE failure' = StartFailure /\ Refuse(p) /\ UNCHANGED <<server, current>>
    <3>1. SlotType' /\ ServerType'
      BY <1>4, <2>3, FailureType, SameServers DEF EnsureSpawn, SlotType
    <3> QED
      BY <2>1, <2>3, <3>1, DoneType, LockAfter DEF Refuse, UnderLock
  <2>4. CASE Refuse(p) /\ UNCHANGED <<server, current, failure>>
    <3>1. SlotType' /\ ServerType'
      BY <1>4, <2>4, SameSlot, SameServers DEF EnsureSpawn
    <3> QED
      BY <2>1, <2>4, <3>1, DoneType, LockAfter DEF Refuse, UnderLock
  <2> QED
    BY <1>4, <2>2, <2>3, <2>4 DEF EnsureSpawn
<1> QED
  BY <1>1, <1>2, <1>3, <1>4 DEF Ensure

LEMMA HandlerStep ==
    ASSUME Parts, NEW p \in Callers, Client(p) \/ Handler(p)
    PROVE  Parts'
<1> USE DEF Parts
<1>0. p \in Actors /\ p \notin Servers
  BY NoneApart DEF Actors
<1>1. CASE Request(p)
  <2> DEFINE asking == [call[p] EXCEPT !.at = "ensure", !.asks = TRUE]
  <2>1. call' = [call EXCEPT ![p] = asking] /\ call[p].at = "none"
    BY <1>0, <1>1 DEF Request, CallType, At
  <2>2. asking \in Call /\ asking.at = "ensure" /\ asking.handle = call[p].handle
    BY <1>0 DEF CallType, Call, CallSteps
  <2> HIDE DEF asking
  <2>3. CallType' /\ call'[p].at = "ensure"
    BY <1>0, <2>1, <2>2 DEF CallType, TimerType, WithHandle, Actors
  <2>4. \A q \in Actors \ {p} : call'[q] = call[q]
    BY <2>1 DEF CallType
  <2>5. lock # p
    BY <1>0, <2>1 DEF LockType, UnderLock
  <2> QED
    BY <1>0, <1>1, <2>3, <2>4, <2>5, LockAfter, SameSlot, SameServers
       DEF Request, UnderLock
<1>2. ASSUME NEW from \in CallSteps \ UnderLock, NEW to \in CallSteps \ UnderLock,
             At(p, from), Go(p, to), from \in WithHandle <=> to \in WithHandle,
             UNCHANGED lock
      PROVE  CallType' /\ LockType'
  <2>1. lock # p
    BY <1>0, <1>2 DEF LockType, At
  <2> QED
    BY <1>0, <1>2, <2>1, GoType, LockAfter DEF At
<1>3. ASSUME NEW from \in CallSteps \ UnderLock, At(p, from), Done(p), UNCHANGED lock
      PROVE  CallType' /\ LockType'
  <2>1. lock # p
    BY <1>0, <1>3 DEF LockType, At
  <2> QED
    BY <1>0, <1>3, <2>1, DoneType, LockAfter DEF At, UnderLock
<1>4. CASE Restart(p) \/ Poll(p)
  BY <1>2, <1>4, SameSlot, SameServers
     DEF Restart, Poll, CallSteps, UnderLock, WithHandle
<1>5. CASE RequestAwait(p) \/ RequestOpen(p) \/ RequestEnd(p)
  BY <1>2, <1>3, <1>5, SameSlot, SameServers
     DEF RequestAwait, RequestOpen, RequestEnd, CallSteps, UnderLock, WithHandle
<1>6. CASE RequestWake(p)
  <2>1. CallType' /\ LockType'
    BY <1>2, <1>6 DEF RequestWake, CallSteps, UnderLock, WithHandle
  <2>2. call[p].handle \in Servers
    BY <1>0, <1>6 DEF RequestWake, At, CallType, Call, WithHandle
  <2>3. ServerType'
    BY <1>6, <2>2 DEF RequestWake, ServerType, Server, Status
  <2> QED
    BY <1>6, <2>1, <2>3, SameSlot DEF RequestWake
<1>7. CASE RestartStop(p)
  <2>1. CallType' /\ LockType'
    BY <1>2, <1>7 DEF RestartStop, CallSteps, UnderLock, WithHandle
  <2>2. SlotType' /\ ServerType'
    <3>1. CASE current = None
      BY <1>7, <3>1, SameSlot, SameServers DEF RestartStop
    <3>2. CASE current # None
      BY <1>7, <3>2, StoppedType DEF RestartStop, SlotType
    <3> QED
      BY <3>1, <3>2
  <2> QED
    BY <2>1, <2>2
<1>8. CASE RestartClear(p) \/ RestartHistory(p) \/ RestartGuard(p)
  <2>1. CallType' /\ LockType'
    BY <1>2, <1>8 DEF RestartClear, RestartHistory, RestartGuard, CallSteps,
                      UnderLock, WithHandle
  <2>2. SlotType' /\ ServerType'
    BY <1>8, LspAssumption, SameServers
       DEF RestartClear, RestartHistory, RestartGuard, SlotType
  <2> QED
    BY <2>1, <2>2
<1>9. CASE PollEnd(p)
  <2>1. CallType' /\ LockType'
    BY <1>2, <1>3, <1>9 DEF PollEnd, CallSteps, UnderLock, WithHandle
  <2>2. SlotType' /\ ServerType'
    <3>1. failure # None => [failure EXCEPT !.kind = "dependency", !.auto = TRUE] \in Failure
      BY DEF SlotType, Failure
    <3> QED
      BY <1>9, <3>1, SameServers DEF PollEnd, SlotType
  <2> QED
    BY <2>1, <2>2
<1> QED
  BY <1>1, <1>4, <1>5, <1>6, <1>7, <1>8, <1>9 DEF Client, Handler

LEMMA TaskStep ==
    ASSUME Parts, NEW s \in Servers, Task(s) \/ Crash(s)
    PROVE  Parts'
<1> USE DEF Parts
<1>0. s \in Actors
  BY DEF Actors
<1>1. CASE \/ InitOk(s) \/ InitFail(s) \/ InitKill(s) \/ InitDrop(s)
           \/ Readiness(s) \/ Eof(s) \/ Tally(s) \/ CountCrash(s) \/ Crash(s)
  <2>1. UNCHANGED <<call, lock>>
    BY <1>1 DEF InitOk, InitFail, InitKill, InitDrop, Readiness, Eof, Tally,
                CountCrash, Crash
  <2>2. ServerType'
    BY <1>1 DEF InitOk, InitFail, InitKill, InitDrop, Readiness, Eof, Tally,
                CountCrash, Crash, ServerType, Server, Status, TaskSteps
  <2>3. SlotType'
    BY <1>1, LspAssumption
       DEF InitOk, InitFail, InitKill, InitDrop, Readiness, Eof, Tally,
           CountCrash, Crash, SlotType
  <2> QED
    BY <2>1, <2>2, <2>3, SameCalls, SameLock
<1>2. CASE InitRecord(s)
  <2>1. ServerType' /\ SlotType'
    BY <1>2, RecordType, FailureType DEF InitRecord, TaskSteps
  <2> QED
    BY <1>2, <2>1, SameCalls, SameLock DEF InitRecord
<1>3. CASE CrashRecord(s)
  <2>1. PICK auto \in BOOLEAN :
          /\ Record(s, Latched("crashed", auto, FALSE, s), "off")
          /\ IF Restarts(s, auto) THEN Go(s, "backoff") ELSE UNCHANGED call
    BY <1>3 DEF CrashRecord
  <2>2. ServerType' /\ SlotType'
    BY <1>3, <2>1, RecordType, FailureType DEF CrashRecord, TaskSteps
  <2>3. CASE Go(s, "backoff")
    <3>1. call[s].at \notin WithHandle /\ lock # s
      BY <1>0, <1>3, NoneApart
         DEF CrashRecord, Free, CallType, TimerType, WithHandle, UnderLock
    <3> QED
      BY <1>0, <1>3, <2>2, <2>3, <3>1, GoType, LockAfter
         DEF CrashRecord, CallSteps, WithHandle, UnderLock
  <2>4. CASE UNCHANGED call
    BY <1>3, <2>2, <2>4, SameCalls, SameLock DEF CrashRecord
  <2> QED
    BY <2>1, <2>3, <2>4
<1>4. CASE AutoRestart(s)
  <2>1. lock # s
    BY <1>0, <1>4 DEF AutoRestart, At, LockType, UnderLock
  <2>2. CallType' /\ LockType'
    BY <1>0, <1>4, <2>1, GoType, DoneType, LockAfter
       DEF AutoRestart, At, CallSteps, WithHandle, UnderLock
  <2>3. SlotType' /\ ServerType'
    BY <1>4, SameServers DEF AutoRestart, SlotType
  <2> QED
    BY <2>2, <2>3
<1> QED
  BY <1>1, <1>2, <1>3, <1>4 DEF Task

LEMMA SweepStep ==
    ASSUME Parts, SweepIdle \/ SweepStop
    PROVE  Parts'
<1> USE DEF Parts
<1>1. current \in Servers
  BY DEF SweepIdle, SweepStop, SlotType
<1>2. ServerType'
  BY <1>1, StoppedType DEF SweepIdle, SweepStop, ServerType, Server, Status
<1> QED
  BY <1>2, SameCalls, SameLock, SameSlot DEF SweepIdle, SweepStop

\* The file watcher leaves everything but its own note as it is.
LEMMA WatchOnly ==
    ASSUME ServerType, SlotType, WatchNotify
    PROVE  /\ ServerType'
           /\ UNCHANGED <<current, failure, count, guard, lock, call>>
           /\ \A s \in Servers : /\ server'[s].status = server[s].status
                                /\ server'[s].proc = server[s].proc
                                /\ server'[s].init = server[s].init
                                /\ server'[s].task = server[s].task
<1> DEFINE early == \/ server[current].early
                    \/ /\ server[current].init # "done"
                       /\ server[current].proc # "dead"
           told == [server[current] EXCEPT !.early = early]
<1>1. current \in Servers /\ server[current] \in Server
  BY DEF WatchNotify, SlotType, ServerType
<1>2. early \in BOOLEAN
  OBVIOUS
<1>3. server' = [server EXCEPT ![current] = told]
  BY <1>1 DEF WatchNotify, ServerType
<1> HIDE DEF early
<1>4. /\ told \in Server
      /\ told.status = server[current].status /\ told.proc = server[current].proc
      /\ told.init = server[current].init /\ told.task = server[current].task
  BY <1>1, <1>2 DEF Server
<1> HIDE DEF told
<1> QED
  BY <1>1, <1>3, <1>4 DEF WatchNotify, ServerType

LEMMA TypeStep == TypeInv /\ [Next]_vars => TypeInv'
<1> SUFFICES ASSUME Parts, [Next]_vars PROVE Parts'
  BY TypeParts, PTL DEF Parts
<1>1. CASE UNCHANGED vars
  BY <1>1, SameCalls, SameLock, SameSlot, SameServers DEF vars, Parts
<1>2. CASE WatchNotify
  BY <1>2, WatchOnly, SameCalls, SameLock, SameSlot DEF Parts
<1> QED
  BY <1>1, <1>2, EnsureStep, HandlerStep, TaskStep, SweepStep DEF Next

LEMMA TypeInit == Init => TypeInv
  BY NoneApart, LspAssumption
     DEF Init, TypeInv, TypeOK, TimerType, NoServer, NoCall, Server, Status,
         TaskSteps, Call, CallSteps, UnderLock, Actors

\* TypeOK: the map is locked by exactly the handler that is about to start a
\* server, and a request has a handle exactly from ensure_server_handle on.
THEOREM TypeCorrect == Spec => []TypeOK
<1>1. TypeInv => TypeOK
  BY DEF TypeInv
<1> QED
  BY <1>1, TypeInit, TypeStep, PTL DEF Spec

-----------------------------------------------------------------------------
(* One server process at a time, none over a latched failure.               *)

\* Only the current server is alive; once its predecessor is gone and the
\* latch has been looked at, nothing comes before the launch.
Slot ==
    /\ \A s \in Servers : server[s].proc # "dead" => s = current
    /\ \A p \in Actors : /\ call[p].at \in UnderLock => failure = None
                         /\ call[p].at = "spawn" => current = None

LEMMA SlotUnlocked ==
    ASSUME LockType', lock' = None,
           \A s \in Servers : server'[s].proc # "dead" => s = current'
    PROVE  Slot'
  BY NoneApart DEF Slot, LockType, UnderLock

LEMMA SlotSame ==
    ASSUME Slot, UNCHANGED <<current, failure, call>>,
           \A s \in Servers : server'[s].proc # "dead" => server[s].proc # "dead"
    PROVE  Slot'
  BY DEF Slot

\* A step of p that ends outside the lock.
LEMMA SlotMoved ==
    ASSUME Slot, NEW p \in Actors, call'[p].at \notin UnderLock,
           \A q \in Actors \ {p} : call'[q] = call[q],
           UNCHANGED <<current, server>>, failure' = failure \/ failure' = None
    PROVE  Slot'
  BY DEF Slot, UnderLock

LEMMA StoppedDead ==
    ASSUME ServerType, NEW s \in Servers, server' = Stopped(s)
    PROVE  /\ server'[s].proc = "dead" /\ server'[s].status = "stopped"
           /\ server'[s].init = server[s].init /\ server'[s].task = server[s].task
           /\ \A t \in Servers \ {s} : server'[t] = server[t]
  BY DEF ServerType, Stopped, Server

\* The current server, the only one alive, is stopped.
LEMMA AllDead ==
    ASSUME Parts, Slot,
           IF current = None THEN UNCHANGED server ELSE server' = Stopped(current)
    PROVE  \A s \in Servers : server'[s].proc = "dead"
<1>1. CASE current = None
  BY <1>1, NoneApart DEF Slot
<1>2. CASE current # None
  <2>1. current \in Servers
    BY <1>2 DEF Parts, SlotType
  <2> QED
    BY <1>2, <2>1, StoppedDead DEF Parts, Slot
<1> QED
  BY <1>1, <1>2

LEMMA GoAt == ASSUME CallType, NEW p \in Actors, NEW step, Go(p, step)
              PROVE  /\ call'[p].at = step
                     /\ call'[p].handle = call[p].handle
                     /\ call'[p].asks = call[p].asks
                     /\ \A q \in Actors \ {p} : call'[q] = call[q]
  BY DEF CallType, Go, Call

LEMMA DoneAt == ASSUME CallType, NEW p \in Actors, Done(p)
                PROVE  /\ call'[p].at = "none" /\ call'[p].handle = None
                       /\ \A q \in Actors \ {p} : call'[q] = call[q]
  BY DEF CallType, Done, NoCall

LEMMA SlotEnsure ==
    ASSUME Parts, Parts', Slot, NEW p \in Actors, Ensure(p)
    PROVE  Slot'
<1> USE DEF Parts
<1>1. CASE EnsureLook(p)
  <2>1. CASE lock' = p /\ Go(p, "plan") /\ MustSpawn
    BY <1>1, <2>1, GoAt, NoneApart DEF EnsureLook, Slot, Free, LockType, UnderLock, MustSpawn
  <2>2. CASE UNCHANGED lock
    BY <1>1, <2>2, SlotUnlocked DEF EnsureLook, Free, Slot
  <2> QED
    BY <1>1, <2>1, <2>2 DEF EnsureLook
<1>2. CASE EnsurePlan(p)
  <2>1. CASE lock' = None
    BY <1>2, <2>1, SlotUnlocked DEF EnsurePlan, Slot
  <2>2. CASE UNCHANGED <<failure, lock>>
    <3>1. call[p].at = "plan" /\ lock = p
      BY <1>2 DEF EnsurePlan, At, LockType, UnderLock
    <3>2. CASE Go(p, "swap")
      BY <1>2, <2>2, <3>1, <3>2, GoAt DEF EnsurePlan, Slot, UnderLock
    <3>3. CASE call' = [call EXCEPT ![p].at = "swap", ![p].pending = TRUE]
      <4>1. call'[p].at = "swap" /\ \A q \in Actors \ {p} : call'[q] = call[q]
        BY <3>3 DEF CallType, Call
      <4> QED
        BY <1>2, <2>2, <3>1, <4>1 DEF EnsurePlan, Slot, UnderLock
    <3>4. ~Refuse(p)
      BY <2>2, <3>1, NoneApart DEF Refuse
    <3> QED
      BY <1>2, <3>2, <3>3, <3>4 DEF EnsurePlan
  <2> QED
    BY <1>2, <2>1, <2>2 DEF EnsurePlan, Refuse
<1>3. CASE EnsureSwap(p)
  <2>1. /\ call[p].at = "swap" /\ call'[p].at = "spawn"
        /\ \A q \in Actors \ {p} : call'[q] = call[q]
    BY <1>3, GoAt DEF EnsureSwap, At
  <2>2. \A s \in Servers : server'[s].proc = "dead"
    BY <1>3, AllDead DEF EnsureSwap
  <2>3. current' = None /\ failure' = failure
    BY <1>3 DEF EnsureSwap
  <2> QED
    BY <2>1, <2>2, <2>3 DEF Slot, UnderLock
<1>4. CASE EnsureSpawn(p)
  <2>1. lock' = None /\ current = None
    BY <1>4 DEF EnsureSpawn, Refuse, Slot, At
  <2>2. ASSUME NEW s \in Servers, current' = s,
               server' = [server EXCEPT ![s] = NewServer(call[p].pending)]
        PROVE  Slot'
    BY <2>1, <2>2, SlotUnlocked, NoneApart DEF Slot, ServerType
  <2>3. CASE UNCHANGED <<server, current>>
    BY <2>1, <2>3, SlotUnlocked DEF Slot
  <2> QED
    BY <1>4, <2>2, <2>3 DEF EnsureSpawn
<1> QED
  BY <1>1, <1>2, <1>3, <1>4 DEF Ensure

LEMMA SlotHandler ==
    ASSUME Parts, Parts', Slot, NEW p \in Callers, Client(p) \/ Handler(p)
    PROVE  Slot'
<1> USE DEF Parts
<1>0. p \in Actors
  BY DEF Actors
<1>1. ASSUME NEW step \in CallSteps \ UnderLock, Go(p, step) \/ Done(p),
             UNCHANGED <<current, server>>, failure' = failure \/ failure' = None
      PROVE  Slot'
  BY <1>0, <1>1, GoAt, DoneAt, SlotMoved DEF UnderLock
<1>2. CASE Request(p)
  <2>1. call'[p].at = "ensure" /\ \A q \in Actors \ {p} : call'[q] = call[q]
    BY <1>0, <1>2 DEF Request, CallType, Call
  <2> QED
    BY <1>0, <1>2, <2>1, SlotMoved DEF Request, UnderLock
<1>3. CASE \/ Restart(p) \/ Poll(p) \/ RequestAwait(p) \/ RequestOpen(p)
           \/ RequestEnd(p) \/ RestartClear(p) \/ RestartHistory(p) \/ RestartGuard(p)
  BY <1>1, <1>3 DEF Restart, Poll, RequestAwait, RequestOpen, RequestEnd,
                    RestartClear, RestartHistory, RestartGuard, CallSteps, UnderLock
<1>4. CASE RequestWake(p)
  <2>1. \A s \in Servers : server'[s].proc = server[s].proc
    BY <1>4 DEF RequestWake, ServerType, Server
  <2>2. call'[p].at = "rpc" /\ \A q \in Actors \ {p} : call'[q] = call[q]
    BY <1>0, <1>4, GoAt DEF RequestWake
  <2> QED
    BY <1>4, <2>1, <2>2 DEF RequestWake, Slot, UnderLock
<1>5. CASE RestartStop(p)
  <2>1. \A s \in Servers : server'[s].proc = "dead"
    BY <1>5, AllDead DEF RestartStop
  <2> QED
    BY <1>5, <2>1, SlotUnlocked DEF RestartStop, Free
<1>6. CASE PollEnd(p)
  <2>1. CASE failure' = failure \/ failure' = None
    BY <1>1, <1>6, <2>1 DEF PollEnd, CallSteps, UnderLock
  <2>2. CASE failure # None
    <3>1. lock = None
      BY <2>2 DEF LockType, Slot
    <3> QED
      BY <1>6, <3>1, SlotUnlocked DEF PollEnd, Slot
  <2> QED
    BY <1>6, <2>1, <2>2 DEF PollEnd
<1> QED
  BY <1>2, <1>3, <1>4, <1>5, <1>6 DEF Client, Handler

\* No task of a server brings a process to life, and it latches a failure only
\* when the map is free.
LEMMA SlotTask ==
    ASSUME Parts, Parts', Slot, NEW s \in Servers, Task(s) \/ Crash(s)
    PROVE  Slot'
<1> USE DEF Parts
<1>0. s \in Actors
  BY DEF Actors
<1>1. CASE \/ InitOk(s) \/ InitFail(s) \/ InitKill(s) \/ InitDrop(s)
           \/ Readiness(s) \/ Eof(s) \/ Tally(s) \/ CountCrash(s) \/ Crash(s)
  <2>1. UNCHANGED <<current, failure, call>>
    BY <1>1 DEF InitOk, InitFail, InitKill, InitDrop, Readiness, Eof, Tally,
                CountCrash, Crash
  <2>2. \A t \in Servers : server'[t].proc # "dead" => server[t].proc # "dead"
    BY <1>1 DEF InitOk, InitFail, InitKill, InitDrop, Readiness, Eof, Tally,
                CountCrash, Crash, ServerType, Server
  <2> QED
    BY <2>1, <2>2, SlotSame
<1>2. ASSUME NEW what, NEW next, Record(s, what, next), lock' = None,
             UNCHANGED current
      PROVE  Slot'
  <2>1. \A t \in Servers : server'[t].proc = server[t].proc
    BY <1>2 DEF Record, ServerType, Server
  <2> QED
    BY <1>2, <2>1, SlotUnlocked DEF Slot
<1>3. CASE InitRecord(s) \/ CrashRecord(s)
  BY <1>2, <1>3 DEF InitRecord, CrashRecord, Free
<1>4. CASE AutoRestart(s)
  BY <1>0, <1>4, GoAt, DoneAt, SlotMoved DEF AutoRestart, UnderLock
<1> QED
  BY <1>1, <1>3, <1>4 DEF Task

LEMMA SlotStep == TypeInv /\ Slot /\ [Next]_vars => Slot'
<1> SUFFICES ASSUME Parts, Parts', Slot, [Next]_vars PROVE Slot'
  BY TypeStep, TypeParts, PTL DEF Parts
<1>1. CASE UNCHANGED vars
  BY <1>1 DEF vars, Slot
<1>2. CASE SweepIdle \/ SweepStop
  <2>1. current \in Servers
    BY <1>2 DEF SweepIdle, SweepStop, Parts, SlotType
  <2>2. \A s \in Servers : server'[s].proc # "dead" => server[s].proc # "dead"
    BY <1>2, <2>1, StoppedDead DEF SweepIdle, SweepStop, Parts, ServerType, Server
  <2> QED
    BY <1>2, <2>2, SlotSame DEF SweepIdle, SweepStop
<1>3. CASE WatchNotify
  BY <1>3, WatchOnly, SlotSame DEF Parts
<1> QED
  BY <1>1, <1>2, <1>3, SlotEnsure, SlotHandler, SlotTask DEF Next

LEMMA SpawnStep ==
    ASSUME Parts, Slot, [Next]_vars, current' # current, current' # None
    PROVE  failure = None /\ \A s \in Servers : server[s].proc = "dead"
<1>1. PICK p \in Actors : Ensure(p)
  BY DEF Next, vars, Client, Handler, Task, SweepIdle, SweepStop, WatchNotify,
         Crash, Request,
         Restart, Poll, RequestAwait, RequestOpen, RequestWake, RequestEnd,
         RestartStop, RestartClear, RestartHistory, RestartGuard, PollEnd, InitOk,
         InitFail, InitRecord, InitKill, InitDrop, Readiness, Eof, Tally,
         CountCrash, CrashRecord, AutoRestart
<1>2. At(p, "spawn")
  BY <1>1 DEF Ensure, EnsureLook, EnsurePlan, EnsureSwap, EnsureSpawn
<1>3. failure = None /\ current = None
  BY <1>2 DEF At, Slot, UnderLock
<1> QED
  BY <1>3, NoneApart DEF Slot

\* SpawnsClean: a server process is started only while no other one lives, so
\* none is leaked, and never over a latched failure.
THEOREM CleanSpawns == Spec => SpawnsClean
<1>1. Init => Slot
  BY NoneApart DEF Init, Slot, NoServer, NoCall, UnderLock
<1>2. TypeInv /\ Slot /\ [Next]_vars =>
        (current' # current /\ current' # None =>
            failure = None /\ \A s \in Servers : server[s].proc = "dead")
  BY SpawnStep, TypeParts DEF Parts
<1>3. TypeInv /\ Slot /\ [Next]_vars =>
        [current' # current /\ current' # None =>
            failure = None /\ \A s \in Servers : server[s].proc = "dead"]_vars
  BY <1>2
<1> QED
  BY <1>1, <1>3, TypeInit, TypeStep, SlotStep, PTL DEF Spec, SpawnsClean

-----------------------------------------------------------------------------
(* No request is sent before the handshake is complete.                     *)

Sent == {"open", "wake", "rpc"}

\* The wait for a handshake is given up only once the process is dead.
Shaken ==
    /\ \A s \in Servers : server[s].init = "dropped" \/ TaskAt(s, "initDrop") =>
                              server[s].proc = "dead"
    /\ RequestsAfterInit

LEMMA ShakenOn ==
    ASSUME Shaken, CallType,
           \A s \in Servers :
              /\ server'[s].init = "dropped" \/ server'[s].task = "initDrop" =>
                     server'[s].proc = "dead"
              /\ server[s].init = "done" => server'[s].init = "done"
              /\ server[s].proc = "dead" => server'[s].proc = "dead",
           \A p \in Callers : call'[p].at \in Sent =>
              /\ call[p].at \in Sent
              /\ call'[p].handle = call[p].handle
    PROVE  Shaken'
<1>1. \A p \in Callers : call[p].at \in Sent => call[p].handle \in Servers
  BY DEF CallType, Call, Sent, WithHandle, Actors
<1> QED
  BY <1>1 DEF Shaken, RequestsAfterInit, Sent, TaskAt

\* A handler that only stops servers, or does nothing to them.
LEMMA StopsOnly ==
    ASSUME ServerType, Shaken,
           \/ UNCHANGED server
           \/ \E s \in Servers : server' = Stopped(s)
    PROVE  \A s \in Servers :
              /\ server'[s].init = server[s].init /\ server'[s].task = server[s].task
              /\ server'[s].init = "dropped" \/ server'[s].task = "initDrop" =>
                     server'[s].proc = "dead"
              /\ server[s].proc = "dead" => server'[s].proc = "dead"
<1>1. CASE UNCHANGED server
  BY <1>1 DEF Shaken, TaskAt
<1>2. ASSUME NEW t \in Servers, server' = Stopped(t)
      PROVE  \A s \in Servers :
              /\ server'[s].init = server[s].init /\ server'[s].task = server[s].task
              /\ server'[s].init = "dropped" \/ server'[s].task = "initDrop" =>
                     server'[s].proc = "dead"
              /\ server[s].proc = "dead" => server'[s].proc = "dead"
  BY <1>2, StoppedDead DEF Shaken, TaskAt
<1> QED
  BY <1>1, <1>2

\* Where a step of ensure_server_handle takes its caller, and what it does to
\* the servers.
LEMMA EnsureCalls ==
    ASSUME Parts, NEW p \in Actors, Ensure(p)
    PROVE  /\ call'[p].at \in {"none", "await", "plan", "swap", "spawn"}
           /\ \A q \in Actors \ {p} : call'[q] = call[q]
           /\ call[p].at \notin {"probe", "backoff"} \cup Sent
<1> USE DEF Parts
<1>1. CASE EnsureLook(p)
  <2>1. Up => current \in Servers
    BY DEF Up, SlotType
  <2> QED
    BY <1>1, <2>1, GotType, GoAt, DoneAt DEF EnsureLook, At, Sent
<1>2. CASE EnsurePlan(p)
  <2>1. CASE call' = [call EXCEPT ![p].at = "swap", ![p].pending = TRUE]
    BY <1>2, <2>1 DEF EnsurePlan, CallType, Call, At, Sent
  <2> QED
    BY <1>2, <2>1, GoAt, DoneAt DEF EnsurePlan, Refuse, At, Sent
<1>3. CASE EnsureSwap(p)
  BY <1>3, GoAt DEF EnsureSwap, At, Sent
<1>4. CASE EnsureSpawn(p)
  BY <1>4, GotType, DoneAt DEF EnsureSpawn, Refuse, At, Sent
<1> QED
  BY <1>1, <1>2, <1>3, <1>4 DEF Ensure

LEMMA EnsureServers ==
    ASSUME Parts, NEW p \in Actors, Ensure(p)
    PROVE  \/ UNCHANGED server
           \/ Unwatched(current) /\ server' = Stopped(current) /\ current \in Servers
           \/ \E s \in Servers :
                /\ Unused(s) /\ current' = s
                /\ \E b \in BOOLEAN : server' = [server EXCEPT ![s] = NewServer(b)]
<1> USE DEF Parts
<1>1. CASE EnsureSpawn(p)
  <2>1. call[p].pending \in BOOLEAN
    BY DEF CallType, Call
  <2> QED
    BY <1>1, <2>1 DEF EnsureSpawn
<1>2. CASE EnsureSwap(p)
  BY <1>2 DEF EnsureSwap, SlotType
<1> QED
  BY <1>1, <1>2 DEF Ensure, EnsureLook, EnsurePlan

LEMMA NewServerIs ==
    ASSUME ServerType, NEW s \in Servers, NEW b \in BOOLEAN,
           server' = [server EXCEPT ![s] = NewServer(b)]
    PROVE  /\ server'[s] = NewServer(b)
           /\ server'[s].status = "busy" /\ server'[s].task = "init"
           /\ server'[s].init = "waiting" /\ server'[s].proc = "up"
           /\ \A t \in Servers \ {s} : server'[t] = server[t]
  BY DEF ServerType, NewServer

\* What the other steps do to the calls.
LEMMA ClientCalls ==
    ASSUME Parts, NEW p \in Callers, Client(p) \/ Handler(p)
    PROVE  /\ p \in Actors
           /\ \A q \in Actors \ {p} : call'[q] = call[q]
           /\ call'[p].at \in Sent => call'[p].handle = call[p].handle
           /\ call[p].at \notin {"await"} \cup Sent => call'[p].at \notin Sent
<1> USE DEF Parts
<1>0. p \in Actors
  BY DEF Actors
<1>1. CASE Request(p)
  <2>1. call'[p].at = "ensure" /\ \A q \in Actors \ {p} : call'[q] = call[q]
    BY <1>0, <1>1 DEF Request, CallType, Call
  <2> QED
    BY <1>0, <2>1 DEF Sent
<1>2. ASSUME NEW to, Go(p, to), to \in Sent => call[p].at \in {"await"} \cup Sent
      PROVE  /\ \A q \in Actors \ {p} : call'[q] = call[q]
             /\ call'[p].at \in Sent => call'[p].handle = call[p].handle
             /\ call[p].at \notin {"await"} \cup Sent => call'[p].at \notin Sent
  BY <1>0, <1>2, GoAt
<1>3. CASE Done(p)
  BY <1>0, <1>3, DoneAt DEF Sent
<1>4. CASE Restart(p) \/ RestartStop(p) \/ RestartClear(p) \/ RestartHistory(p)
           \/ RestartGuard(p) \/ Poll(p) \/ PollEnd(p)
  BY <1>0, <1>2, <1>3, <1>4
     DEF Restart, RestartStop, RestartClear, RestartHistory, RestartGuard, Poll,
         PollEnd, Sent
<1>5. CASE RequestAwait(p) \/ RequestOpen(p) \/ RequestWake(p) \/ RequestEnd(p)
  BY <1>0, <1>2, <1>3, <1>5
     DEF RequestAwait, RequestOpen, RequestWake, RequestEnd, Sent, At
<1> QED
  BY <1>0, <1>1, <1>4, <1>5 DEF Client, Handler

LEMMA TaskCalls ==
    ASSUME Parts, NEW s \in Servers, Task(s) \/ Crash(s)
    PROVE  \A p \in Callers : call'[p] = call[p]
<1> USE DEF Parts
<1>1. s \in Actors /\ s \notin Callers
  BY NoneApart DEF Actors
<1>2. CASE UNCHANGED call
  BY <1>2
<1>3. CASE \E step : Go(s, step)
  BY <1>1, <1>3, GoAt DEF Actors
<1>4. CASE Done(s)
  BY <1>1, <1>4, DoneAt DEF Actors
<1> QED
  BY <1>2, <1>3, <1>4
     DEF Task, Crash, InitOk, InitFail, InitRecord, InitKill, InitDrop, Readiness,
         Eof, Tally, CountCrash, CrashRecord, AutoRestart

LEMMA ShakenStep == TypeInv /\ Shaken /\ [Next]_vars => Shaken'
<1> SUFFICES ASSUME Parts, Shaken, [Next]_vars PROVE Shaken'
  BY TypeParts DEF Parts
<1> USE DEF Parts
<1>1. CASE UNCHANGED vars
  BY <1>1 DEF vars, Shaken, RequestsAfterInit, TaskAt
<1>2. ASSUME NEW p \in Actors, Ensure(p)
      PROVE  Shaken'
  <2>1. \A q \in Callers : call'[q].at \in Sent =>
             call[q].at \in Sent /\ call'[q].handle = call[q].handle
    BY <1>2, EnsureCalls DEF Actors, Sent
  <2>2. CASE UNCHANGED server \/ (\E s \in Servers : server' = Stopped(s))
    BY <2>1, <2>2, StopsOnly, ShakenOn
  <2>3. ASSUME NEW s \in Servers, NEW b \in BOOLEAN, Unused(s),
               server' = [server EXCEPT ![s] = NewServer(b)]
        PROVE  Shaken'
    <3>1. \A q \in Callers : call[q].handle # s
      BY <2>3 DEF Unused, Actors
    <3>2. \A q \in Callers : call[q].at \in Sent => call[q].handle \in Servers
      BY DEF CallType, Call, Sent, WithHandle, Actors
    <3>3. /\ server'[s].init = "waiting" /\ server'[s].task = "init"
          /\ \A t \in Servers \ {s} : server'[t] = server[t]
      BY <2>3, NewServerIs
    <3>4. \A t \in Servers :
             server'[t].init = "dropped" \/ server'[t].task = "initDrop" =>
                 server'[t].proc = "dead"
      BY <3>3 DEF Shaken, TaskAt
    <3>5. \A q \in Callers : call'[q].at \in Sent =>
             /\ call'[q].handle \in Servers \ {s}
             /\ \/ server[call'[q].handle].init = "done"
                \/ server[call'[q].handle].proc = "dead"
      BY <2>1, <3>1, <3>2 DEF Shaken, RequestsAfterInit, Sent
    <3> QED
      BY <3>3, <3>4, <3>5 DEF Shaken, RequestsAfterInit, Sent, TaskAt
  <2> QED
    BY <1>2, <2>2, <2>3, EnsureServers
<1>3. ASSUME NEW p \in Callers, Client(p) \/ Handler(p)
      PROVE  Shaken'
  <2>1. CASE RequestAwait(p)
    <3>1. call[p].at = "await" /\ call[p].handle \in Servers
      BY <2>1 DEF RequestAwait, At, CallType, Call, WithHandle, Actors
    <3>2. /\ \A q \in Callers \ {p} : call'[q] = call[q]
          /\ call'[p].at \in Sent => call'[p].handle = call[p].handle /\ MayOpen(call[p].handle)
      BY <1>3, <2>1, ClientCalls, DoneAt DEF RequestAwait, Actors, Sent
    <3>3. MayOpen(call[p].handle) => \/ server[call[p].handle].init = "done"
                                     \/ server[call[p].handle].proc = "dead"
      BY <3>1 DEF MayOpen, ServerType, Server, Shaken
    <3> QED
      BY <2>1, <3>2, <3>3 DEF RequestAwait, Shaken, RequestsAfterInit, Sent, TaskAt
  <2>2. CASE ~RequestAwait(p)
    <3>1. \A q \in Callers : call'[q].at \in Sent =>
             call[q].at \in Sent /\ call'[q].handle = call[q].handle
      <4>1. call[p].at = "await" => FALSE
        BY <1>3, <2>2 DEF Client, Handler, Request, Restart, Poll, RequestOpen,
           RequestWake, RequestEnd, RestartStop, RestartClear, RestartHistory,
           RestartGuard, PollEnd, At
      <4> QED
        BY <1>3, <4>1, ClientCalls DEF Actors
    <3>2. CASE RequestWake(p)
      <4>1. \A s \in Servers : /\ server'[s].init = server[s].init
                               /\ server'[s].proc = server[s].proc
                               /\ server'[s].task = server[s].task
        BY <3>2 DEF RequestWake, ServerType, Server
      <4> QED
        BY <3>1, <4>1, ShakenOn DEF Shaken, TaskAt
    <3>3. CASE UNCHANGED server \/ (\E s \in Servers : server' = Stopped(s))
      BY <3>1, <3>3, StopsOnly, ShakenOn
    <3>4. RequestWake(p) \/ UNCHANGED server \/ (\E s \in Servers : server' = Stopped(s))
      BY <1>3, <2>2
         DEF Client, Handler, Request, Restart, Poll, RequestOpen, RequestEnd,
             RestartStop, RestartClear, RestartHistory, RestartGuard, PollEnd, SlotType
    <3> QED
      BY <3>2, <3>3, <3>4
  <2> QED
    BY <2>1, <2>2
<1>4. ASSUME NEW s \in Servers, Task(s) \/ Crash(s)
      PROVE  Shaken'
  <2>1. \A q \in Callers : call'[q].at \in Sent =>
             call[q].at \in Sent /\ call'[q].handle = call[q].handle
    BY <1>4, TaskCalls
  <2>2. CASE UNCHANGED server
    BY <2>1, <2>2, StopsOnly, ShakenOn
  <2>3. CASE InitRecord(s) \/ CrashRecord(s)
    <3>1. PICK what, next : /\ Record(s, what, next)
                            /\ next \in {"initKill", "off"}
      BY <2>3 DEF InitRecord, CrashRecord
    <3>2. \A t \in Servers : /\ server'[t].init = server[t].init
                             /\ server'[t].proc = server[t].proc
                             /\ server'[t].task = "initDrop" => server[t].task = "initDrop"
      BY <3>1 DEF Record, ServerType, Server
    <3> QED
      BY <2>1, <3>2, ShakenOn DEF Shaken, TaskAt
  <2>4. CASE \/ InitOk(s) \/ InitFail(s) \/ InitKill(s) \/ InitDrop(s) \/ Readiness(s)
             \/ Eof(s) \/ Tally(s) \/ CountCrash(s) \/ Crash(s)
    <3>1. \A t \in Servers :
              /\ server'[t].init = "dropped" \/ server'[t].task = "initDrop" =>
                     server'[t].proc = "dead"
              /\ server[t].init = "done" /\ ~InitDrop(s) => server'[t].init = "done"
              /\ server[t].init = "done" /\ t # s => server'[t].init = "done"
              /\ server[t].proc = "dead" => server'[t].proc = "dead"
      BY <2>4 DEF InitOk, InitFail, InitKill, InitDrop, Readiness, Eof, Tally,
                  CountCrash, Crash, ServerType, Server, Shaken, TaskAt
    <3>2. CASE ~InitDrop(s)
      BY <2>1, <3>1, <3>2, ShakenOn
    <3>3. CASE InitDrop(s)
      <4>1. server'[s].proc = "dead"
        BY <3>3 DEF InitDrop, ServerType, Server, Shaken
      <4>2. \A q \in Callers : call[q].at \in Sent => call[q].handle \in Servers
        BY DEF CallType, Call, Sent, WithHandle, Actors
      <4> QED
        BY <2>1, <3>1, <4>1, <4>2 DEF Shaken, RequestsAfterInit, Sent, TaskAt
    <3> QED
      BY <3>2, <3>3
  <2> QED
    BY <1>4, <2>2, <2>3, <2>4 DEF Task, AutoRestart
<1>5. CASE SweepIdle \/ SweepStop
  <2>1. current \in Servers
    BY <1>5 DEF SweepIdle, SweepStop, SlotType
  <2>2. UNCHANGED call
    BY <1>5 DEF SweepIdle, SweepStop
  <2>3. CASE SweepIdle
    <3>1. \A s \in Servers : /\ server'[s].init = server[s].init
                             /\ server'[s].proc = server[s].proc
                             /\ server'[s].task = server[s].task
      BY <2>1, <2>3 DEF SweepIdle, ServerType, Server
    <3> QED
      BY <2>2, <3>1, ShakenOn DEF Shaken, TaskAt
  <2>4. CASE SweepStop
    BY <2>1, <2>2, <2>4, StopsOnly, ShakenOn DEF SweepStop
  <2> QED
    BY <1>5, <2>3, <2>4
<1>6. CASE WatchNotify
  BY <1>6, WatchOnly, ShakenOn DEF Shaken, TaskAt
<1> QED
  BY <1>1, <1>2, <1>3, <1>4, <1>5, <1>6 DEF Next

\* RequestsAfterInit: a request that reaches a live server finds the handshake
\* complete; only the file watcher sends anything before "initialized".
THEOREM Handshake == Spec => []RequestsAfterInit
<1>1. Init => Shaken
  BY DEF Init, Shaken, RequestsAfterInit, NoServer, NoCall, Actors, TaskAt
<1>2. Shaken => RequestsAfterInit
  BY DEF Shaken
<1> QED
  BY <1>1, <1>2, TypeInit, TypeStep, ShakenStep, PTL DEF Spec

-----------------------------------------------------------------------------
(* A server that is shown as up has a task that watches it, if nobody stops *)
(* or fails it between the look of a request at its status and the write.   *)

Live == {"busy", "ready", "idle"}

\* A request that is about to mark its server as ready has a live one.
WakesLive == \A p \in Callers :
                call[p].at = "wake" => server[call[p].handle].status \in Live
Watched == ShownServerWatched /\ WakesLive

LEMMA UpIs == ASSUME ServerType, current \in Servers
              PROVE  Up <=> server[current].status \in Live
  BY NoneApart DEF Up, ServerType, Server, Status, Live

LEMMA WatchedOn ==
    ASSUME Parts, Parts', Watched, current' = current \/ current' = None,
           current \in Servers /\ server'[current].status \in Live =>
              /\ server[current].status \in Live
              /\ server[current].task \in Watching => server'[current].task \in Watching
    PROVE  ShownServerWatched'
<1>1. CASE current' = None
  BY <1>1 DEF ShownServerWatched, Up
<1>2. CASE current' = current /\ current \in Servers
  <2>1. Up' <=> server'[current].status \in Live
    BY <1>2, NoneApart DEF Up, Parts, ServerType, Server, Status, Live
  <2> QED
    BY <1>2, <2>1, UpIs DEF Parts, Watched, ShownServerWatched
<1> QED
  BY <1>1, <1>2 DEF Parts, SlotType

LEMMA WakesOn ==
    ASSUME Prompt, Parts, Parts', Watched,
           \A s \in Servers : server[s].status \in Live /\ server'[s].status \notin Live
                                 => Unwatched(s),
           \A p \in Callers : call'[p].at = "wake" =>
              call[p].at = "wake" /\ call'[p].handle = call[p].handle
    PROVE  WakesLive'
<1> SUFFICES ASSUME NEW p \in Callers, call'[p].at = "wake"
             PROVE  server'[call'[p].handle].status \in Live
  BY DEF WakesLive
<1>1. call[p].handle \in Servers
  BY DEF Parts, CallType, Call, WithHandle, Actors
<1>2. ~Unwatched(call[p].handle)
  BY DEF Unwatched, At
<1> QED
  BY <1>1, <1>2 DEF Watched, WakesLive

LEMMA WakeSame ==
    ASSUME Parts, Watched, UNCHANGED server,
           \A p \in Callers : call'[p].at = "wake" =>
              call[p].at = "wake" /\ call'[p].handle = call[p].handle
    PROVE  WakesLive'
  BY DEF Watched, WakesLive

LEMMA WatchedStep ==
    ASSUME Prompt
    PROVE  TypeInv /\ Watched /\ [Next]_vars => Watched'
<1> SUFFICES ASSUME Parts, Parts', Watched, [Next]_vars PROVE Watched'
  BY TypeStep, TypeParts, PTL DEF Parts
<1>1. CASE UNCHANGED vars
  BY <1>1 DEF vars, Watched, WakesLive, ShownServerWatched, Up
<1>2. ASSUME NEW s \in Servers, current' = current \/ current' = None,
             Unwatched(s), server' = Stopped(s),
             \A p \in Callers : call'[p].at = "wake" =>
                call[p].at = "wake" /\ call'[p].handle = call[p].handle
      PROVE  Watched'
  <2>1. /\ server'[s].status \notin Live
        /\ \A t \in Servers \ {s} : server'[t] = server[t]
    BY <1>2, StoppedDead DEF Parts, Live
  <2>2. ShownServerWatched'
    BY <1>2, <2>1, WatchedOn
  <2>3. WakesLive'
    BY <1>2, <2>1, WakesOn
  <2> QED
    BY <2>2, <2>3 DEF Watched
<1>3. ASSUME current' = current \/ current' = None, UNCHANGED server,
             \A p \in Callers : call'[p].at = "wake" =>
                call[p].at = "wake" /\ call'[p].handle = call[p].handle
      PROVE  Watched'
  <2>1. ShownServerWatched'
    BY <1>3, WatchedOn
  <2> QED
    BY <1>3, <2>1, WakeSame DEF Watched
<1>4. ASSUME NEW p \in Actors, Ensure(p)
      PROVE  Watched'
  <2>1. \A q \in Callers : call'[q].at = "wake" =>
             call[q].at = "wake" /\ call'[q].handle = call[q].handle
    BY <1>4, EnsureCalls DEF Actors
  <2>2. CASE UNCHANGED server
    <3>1. UNCHANGED current \/ current' = None
      <4>1. ASSUME NEW s \in Servers, NEW b \in BOOLEAN, Unused(s),
                   server' = [server EXCEPT ![s] = NewServer(b)]
            PROVE  FALSE
        BY <2>2, <4>1, NewServerIs DEF Unused, TaskAt, Parts
      <4>2. CASE EnsureSpawn(p)
        <5>1. call[p].pending \in BOOLEAN
          BY DEF Parts, CallType, Call
        <5> QED
          BY <4>1, <4>2, <5>1 DEF EnsureSpawn
      <4> QED
        BY <1>4, <4>2 DEF Ensure, EnsureLook, EnsurePlan, EnsureSwap
    <3> QED
      BY <1>3, <2>1, <2>2, <3>1
  <2>3. CASE EnsureSwap(p) /\ current # None
    BY <1>2, <2>1, <2>3 DEF EnsureSwap, Parts, SlotType
  <2>4. ASSUME NEW s \in Servers, NEW b \in BOOLEAN, Unused(s), current' = s,
               server' = [server EXCEPT ![s] = NewServer(b)]
        PROVE  Watched'
    <3>1. /\ server'[s].status = "busy" /\ server'[s].task = "init"
          /\ \A t \in Servers \ {s} : server'[t] = server[t]
      BY <2>4, NewServerIs DEF Parts
    <3>2. ShownServerWatched'
      BY <2>4, <3>1 DEF ShownServerWatched, Watching, TaskSteps
    <3>3. \A q \in Callers : call[q].at = "wake" => call[q].handle \in Servers
      BY DEF Parts, CallType, Call, WithHandle, Actors
    <3>4. WakesLive'
      BY <2>1, <2>4, <3>1, <3>3 DEF Watched, WakesLive, Live
    <3> QED
      BY <3>2, <3>4 DEF Watched
  <2>5. CASE EnsureSpawn(p)
    <3>1. call[p].pending \in BOOLEAN
      BY DEF Parts, CallType, Call
    <3> QED
      BY <2>2, <2>4, <2>5, <3>1 DEF EnsureSpawn
  <2>6. CASE EnsureLook(p) \/ EnsurePlan(p) \/ EnsureSwap(p)
    BY <2>2, <2>3, <2>6 DEF EnsureLook, EnsurePlan, EnsureSwap
  <2> QED
    BY <1>4, <2>5, <2>6 DEF Ensure
<1>5. ASSUME NEW p \in Callers, Client(p) \/ Handler(p)
      PROVE  Watched'
  <2>1. \A q \in Callers \ {p} : call'[q] = call[q]
    BY <1>5, ClientCalls DEF Actors
  <2>2. p \in Actors
    BY DEF Actors
  <2>3. CASE RequestOpen(p)
    <3>1. call[p].handle \in Servers
      BY <2>2, <2>3 DEF RequestOpen, At, Parts, CallType, Call, WithHandle
    <3>2. call'[p].at = "wake" => /\ server[call[p].handle].status \in Live
                                  /\ call'[p].handle = call[p].handle
      BY <2>2, <2>3, GoAt, DoneAt DEF RequestOpen, Live, Parts
    <3>3. WakesLive'
      BY <2>1, <2>3, <3>2 DEF RequestOpen, Watched, WakesLive
    <3>4. ShownServerWatched'
      BY <2>3, WatchedOn DEF RequestOpen
    <3> QED
      BY <3>3, <3>4 DEF Watched
  <2>4. CASE RequestWake(p)
    <3>1. call[p].handle \in Servers /\ call[p].at = "wake"
      BY <2>2, <2>4 DEF RequestWake, At, Parts, CallType, Call, WithHandle
    <3>2. server[call[p].handle].status \in Live
      BY <3>1 DEF Watched, WakesLive
    <3>3. /\ server'[call[p].handle].status = "ready"
          /\ server'[call[p].handle].task = server[call[p].handle].task
          /\ \A t \in Servers \ {call[p].handle} : server'[t] = server[t]
      BY <2>4, <3>1 DEF RequestWake, Parts, ServerType, Server
    <3>4. ShownServerWatched'
      BY <2>4, <3>2, <3>3, WatchedOn DEF RequestWake
    <3>5. \A q \in Callers : call'[q].at = "wake" =>
             call[q].at = "wake" /\ call'[q].handle = call[q].handle
      BY <2>1, <2>2, <2>4, GoAt DEF RequestWake, Parts
    <3>6. WakesLive'
      BY <3>3, <3>5, WakesOn DEF Live
    <3> QED
      BY <3>4, <3>6 DEF Watched
  <2>5. CASE ~RequestOpen(p) /\ ~RequestWake(p)
    <3>1. call'[p].at # "wake"
      BY <1>5, <2>2, <2>5, GoAt, DoneAt
         DEF Client, Handler, Request, Restart, Poll, RequestAwait, RequestEnd,
             RestartStop, RestartClear, RestartHistory, RestartGuard, PollEnd,
             Parts, CallType, Call
    <3>2. \A q \in Callers : call'[q].at = "wake" =>
             call[q].at = "wake" /\ call'[q].handle = call[q].handle
      BY <2>1, <3>1
    <3>3. CASE RestartStop(p) /\ current # None
      BY <1>2, <3>2, <3>3 DEF RestartStop, Parts, SlotType
    <3>4. CASE UNCHANGED <<server, current>>
      BY <1>3, <3>2, <3>4
    <3> QED
      BY <1>5, <2>5, <3>3, <3>4
         DEF Client, Handler, Request, Restart, Poll, RequestAwait, RequestEnd,
             RestartStop, RestartClear, RestartHistory, RestartGuard, PollEnd
  <2> QED
    BY <2>3, <2>4, <2>5
<1>6. ASSUME NEW s \in Servers, Task(s) \/ Crash(s)
      PROVE  Watched'
  <2>1. \A q \in Callers : call'[q].at = "wake" =>
             call[q].at = "wake" /\ call'[q].handle = call[q].handle
    BY <1>6, TaskCalls
  <2>2. current' = current
    BY <1>6 DEF Task, Crash, InitOk, InitFail, InitRecord, InitKill, InitDrop,
                Readiness, Eof, Tally, CountCrash, CrashRecord, AutoRestart
  <2>3. CASE UNCHANGED server
    BY <1>3, <2>1, <2>2, <2>3
  <2>4. ASSUME NEW what, NEW next, Record(s, what, next) PROVE Watched'
    <3>1. CASE Mine(s)
      <4>1. /\ server'[s].status = "error" /\ Unwatched(s)
            /\ \A t \in Servers \ {s} : server'[t] = server[t]
        BY <2>4, <3>1 DEF Record, Parts, ServerType, Server
      <4> QED
        BY <2>1, <2>2, <4>1, WatchedOn, WakesOn DEF Live, Watched
    <3>2. CASE ~Mine(s)
      <4>1. \A t \in Servers : server'[t].status = server[t].status
        BY <2>4, <3>2 DEF Record, Parts, ServerType, Server
      <4>2. \A t \in Servers \ {s} : server'[t] = server[t]
        BY <2>4, <3>2 DEF Record, Parts, ServerType
      <4>3. current = s => server[s].status \notin Live
        BY <3>2 DEF Mine, OnPurpose, Live
      <4> QED
        BY <2>1, <2>2, <4>1, <4>2, <4>3, WatchedOn, WakesOn DEF Watched
    <3> QED
      BY <3>1, <3>2
  <2>5. CASE \/ InitOk(s) \/ InitFail(s) \/ InitKill(s) \/ InitDrop(s) \/ Readiness(s)
             \/ Eof(s) \/ Tally(s) \/ CountCrash(s) \/ Crash(s)
    <3>1. \A t \in Servers : server[t].status \in Live <=> server'[t].status \in Live
      BY <2>5 DEF InitOk, InitFail, InitKill, InitDrop, Readiness, Eof, Tally,
                  CountCrash, Crash, Parts, ServerType, Server, Live
    <3>2. \A t \in Servers : server[t].status \in Live /\ server[t].task \in Watching
                                => server'[t].task \in Watching
      BY <2>5 DEF InitOk, InitFail, InitKill, InitDrop, Readiness, Eof, Tally,
                  CountCrash, Crash, Parts, ServerType, Server, Live, Watching,
                  TaskSteps, TaskAt, OnPurpose
    <3> QED
      BY <2>1, <2>2, <3>1, <3>2, WatchedOn, WakesOn DEF Watched
  <2> QED
    BY <1>6, <2>3, <2>4, <2>5 DEF Task, AutoRestart, InitRecord, CrashRecord
<1>7. CASE SweepIdle \/ SweepStop
  <2>1. current \in Servers /\ UNCHANGED <<current, call>>
    BY <1>7 DEF SweepIdle, SweepStop, Parts, SlotType
  <2>2. CASE SweepIdle
    <3>1. \A s \in Servers : /\ server'[s].status \in Live <=> server[s].status \in Live
                             /\ server'[s].task = server[s].task
      BY <2>1, <2>2 DEF SweepIdle, Parts, ServerType, Server, Live
    <3> QED
      BY <2>1, <3>1, WatchedOn, WakesOn DEF Watched
  <2>3. CASE SweepStop
    BY <1>2, <2>1, <2>3 DEF SweepStop
  <2> QED
    BY <1>7, <2>2, <2>3
<1>8. CASE WatchNotify
  BY <1>8, WatchOnly, WatchedOn, WakesOn DEF Parts, Watched
<1> QED
  BY <1>1, <1>4, <1>5, <1>6, <1>7, <1>8 DEF Next

\* ShownServerWatched: a server that is not shown as failed or stopped is
\* watched by its task, when requests look and write in one go.
THEOREM StatusNotStale == ASSUME Prompt PROVE Spec => []ShownServerWatched
<1>1. Init => Watched
  BY DEF Init, Watched, ShownServerWatched, WakesLive, Up, NoCall, Actors
<1>2. Watched => ShownServerWatched
  BY DEF Watched
<1>3. TypeInv /\ Watched /\ [Next]_vars => Watched'
  BY WatchedStep
<1> QED
  BY <1>1, <1>2, <1>3, TypeInit, TypeStep, PTL DEF Spec

-----------------------------------------------------------------------------
(* A failure that promises a retry has somebody who will do it, if no       *)
(* failure is latched while a dependency probe runs.                        *)

\* Only crashes are promised without a probe; a poll probes for the failure it
\* has seen.
Promised ==
    /\ RetryPromised
    /\ failure # None /\ failure.auto /\ ~failure.reprobe => failure.kind = "crashed"
    /\ \A p \in Callers : call[p].at = "probe" => failure = None \/ failure.reprobe

LEMMA PromisedOn ==
    ASSUME Parts, Promised, failure' = failure \/ failure' = None,
           \A p \in Callers : call'[p].at = "probe" => call[p].at = "probe",
           \A s \in Servers : call[s].at = "backoff" => call'[s].at = "backoff"
    PROVE  Promised'
<1>1. CASE failure' = None
  BY <1>1 DEF Promised, RetryPromised
<1>2. CASE failure' = failure /\ failure # None
  <2>1. failure.by \in Servers \cup {None}
    BY <1>2 DEF Parts, SlotType, Failure
  <2> QED
    BY <1>2, <2>1 DEF Promised, RetryPromised, At
<1> QED
  BY <1>1, <1>2

\* A failure that is latched anew, while nobody probes.
LEMMA LatchedOn ==
    ASSUME Prompt, Promised, NoProbe,
           \A p \in Callers : call'[p].at = "probe" => call[p].at = "probe",
           \/ failure' \in {DependencyFailure, StartFailure}
           \/ \E s \in Servers, auto \in BOOLEAN :
                /\ failure' = Latched("crashed", auto, FALSE, s)
                /\ auto => call'[s].at = "backoff"
    PROVE  Promised'
<1>1. \A p \in Callers : call'[p].at # "probe"
  BY DEF NoProbe, At
<1>2. CASE failure' \in {DependencyFailure, StartFailure}
  BY <1>1, <1>2 DEF Promised, RetryPromised, DependencyFailure, StartFailure, Latched
<1>3. ASSUME NEW s \in Servers, NEW auto \in BOOLEAN,
             failure' = Latched("crashed", auto, FALSE, s),
             auto => call'[s].at = "backoff"
      PROVE  Promised'
  <2>1. /\ failure'.auto = auto /\ failure'.reprobe = FALSE
        /\ failure'.by = s /\ failure'.kind = "crashed"
    BY <1>3 DEF Latched
  <2> QED
    BY <1>1, <1>3, <2>1, NoneApart DEF Promised, RetryPromised, At
<1> QED
  BY <1>2, <1>3

LEMMA PromisedStep ==
    ASSUME Prompt
    PROVE  TypeInv /\ Promised /\ [Next]_vars => Promised'
<1> SUFFICES ASSUME Parts, Promised, [Next]_vars PROVE Promised'
  BY TypeParts DEF Parts
<1>1. CASE UNCHANGED vars
  BY <1>1, PromisedOn DEF vars
<1>2. ASSUME NEW p \in Actors, Ensure(p)
      PROVE  Promised'
  <2>1. /\ \A q \in Callers : call'[q].at = "probe" => call[q].at = "probe"
        /\ \A s \in Servers : call[s].at = "backoff" => call'[s].at = "backoff"
    BY <1>2, EnsureCalls DEF Actors
  <2>2. CASE UNCHANGED failure
    BY <2>1, <2>2, PromisedOn
  <2>3. CASE NoProbe /\ failure' \in {DependencyFailure, StartFailure}
    BY <2>1, <2>3, LatchedOn
  <2> QED
    BY <1>2, <2>2, <2>3 DEF Ensure, EnsureLook, EnsurePlan, EnsureSwap, EnsureSpawn
<1>3. ASSUME NEW p \in Callers, Client(p) \/ Handler(p)
      PROVE  Promised'
  <2>1. p \in Actors /\ \A q \in Actors \ {p} : call'[q] = call[q]
    BY <1>3, ClientCalls
  <2>2. \A s \in Servers : call'[s] = call[s]
    BY <2>1, NoneApart DEF Actors
  <2>3. CASE Poll(p)
    <3>1. failure # None /\ failure.reprobe /\ UNCHANGED failure
      BY <2>3 DEF Poll
    <3> QED
      BY <2>2, <3>1 DEF Promised, RetryPromised
  <2>4. CASE ~Poll(p)
    <3>1. \A q \in Callers : call'[q].at = "probe" => call[q].at = "probe"
      BY <1>3, <2>1, <2>4, GoAt, DoneAt
         DEF Client, Handler, Request, Restart, RequestAwait, RequestOpen,
             RequestWake, RequestEnd, RestartStop, RestartClear, RestartHistory,
             RestartGuard, PollEnd, Parts, CallType, Call, Actors
    <3>2. CASE failure' = failure \/ failure' = None
      BY <2>2, <3>1, <3>2, PromisedOn
    <3>3. CASE /\ PollEnd(p) /\ failure # None
               /\ failure' = [failure EXCEPT !.kind = "dependency", !.auto = TRUE]
      <4>1. failure.reprobe /\ failure'.reprobe = failure.reprobe
        BY <3>3 DEF PollEnd, At, Promised, Parts, SlotType, Failure
      <4> QED
        BY <4>1 DEF Promised, RetryPromised
    <3> QED
      BY <1>3, <2>4, <3>2, <3>3
         DEF Client, Handler, Request, Restart, RequestAwait, RequestOpen,
             RequestWake, RequestEnd, RestartStop, RestartClear, RestartHistory,
             RestartGuard, PollEnd
  <2> QED
    BY <2>3, <2>4
<1>4. ASSUME NEW s \in Servers, Task(s) \/ Crash(s)
      PROVE  Promised'
  <2>1. \A q \in Callers : call'[q] = call[q]
    BY <1>4, TaskCalls
  <2>2. s \in Actors
    BY DEF Actors
  <2>3. CASE InitRecord(s)
    <3>1. UNCHANGED call
      BY <2>3 DEF InitRecord
    <3>2. CASE Mine(s)
      BY <2>3, <3>1, <3>2, LatchedOn DEF InitRecord, Record
    <3>3. CASE ~Mine(s)
      BY <2>3, <3>1, <3>3, PromisedOn DEF InitRecord, Record
    <3> QED
      BY <3>2, <3>3
  <2>4. CASE CrashRecord(s)
    <3>1. PICK auto \in BOOLEAN :
            /\ Record(s, Latched("crashed", auto, FALSE, s), "off")
            /\ IF Restarts(s, auto) THEN Go(s, "backoff") ELSE UNCHANGED call
      BY <2>4 DEF CrashRecord
    <3>2. CASE Mine(s)
      <4>1. auto => call'[s].at = "backoff"
        BY <2>2, <3>1, <3>2, GoAt DEF Restarts, Parts
      <4> QED
        BY <2>1, <3>1, <3>2, <4>1, LatchedOn DEF Record
    <3>3. CASE ~Mine(s)
      BY <3>1, <3>3, PromisedOn DEF Record, Restarts
    <3> QED
      BY <3>2, <3>3
  <2>5. CASE AutoRestart(s)
    <3>1. CASE failure' = None
      BY <2>1, <3>1 DEF Promised, RetryPromised
    <3>2. CASE /\ UNCHANGED failure /\ Done(s)
               /\ ~(failure # None /\ failure.by = s /\ failure.kind = "crashed")
      <4>1. \A q \in Actors \ {s} : call'[q] = call[q]
        BY <2>2, <3>2, DoneAt DEF Parts
      <4>2. failure # None => failure.by \in Servers \cup {None}
        BY DEF Parts, SlotType, Failure
      <4> QED
        BY <2>1, <3>2, <4>1, <4>2 DEF Promised, RetryPromised, At, Actors
    <3> QED
      BY <2>5, <3>1, <3>2 DEF AutoRestart
  <2>6. CASE \/ InitOk(s) \/ InitFail(s) \/ InitKill(s) \/ InitDrop(s) \/ Readiness(s)
             \/ Eof(s) \/ Tally(s) \/ CountCrash(s) \/ Crash(s)
    <3>1. UNCHANGED <<failure, call>>
      BY <2>6 DEF InitOk, InitFail, InitKill, InitDrop, Readiness, Eof, Tally,
                  CountCrash, Crash
    <3> QED
      BY <3>1, PromisedOn
  <2> QED
    BY <1>4, <2>3, <2>4, <2>5, <2>6 DEF Task
<1>5. CASE SweepIdle \/ SweepStop
  BY <1>5, PromisedOn DEF SweepIdle, SweepStop
<1>6. CASE WatchNotify
  BY <1>6, PromisedOn DEF WatchNotify
<1> QED
  BY <1>1, <1>2, <1>3, <1>4, <1>5, <1>6 DEF Next

\* RetryPromised: a failure that is shown with an automatic retry will be
\* retried, when no failure is latched during a probe.
THEOREM RetryKept == ASSUME Prompt PROVE Spec => []RetryPromised
<1>1. Init => Promised
  BY DEF Init, Promised, RetryPromised, NoCall, Actors
<1>2. Promised => RetryPromised
  BY DEF Promised
<1>3. TypeInv /\ Promised /\ [Next]_vars => Promised'
  BY PromisedStep
<1> QED
  BY <1>1, <1>2, <1>3, TypeInit, TypeStep, PTL DEF Spec
=============================================================================
