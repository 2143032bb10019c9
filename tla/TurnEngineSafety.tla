--------------------------- MODULE TurnEngineSafety ---------------------------
(***************************************************************************)
(* More about the turn engine, for every value of the constants: what a     *)
(* stop, a dismissal and a release reach, what a session at rest has left   *)
(* behind, and that every review comment is settled.                        *)
(***************************************************************************)
EXTENDS TurnEngineProofs

(* Tasks that run a turn.                                                   *)

\* Where a drain task is from the registration of its turn to its end.
TurnPcs == {"turn", "steer", "steerRpc", "steerRow", "end"}

\* ... and from just before it: the task has made up its mind.
HandPcs == TurnPcs \cup {"begin"}

\* Drain task d runs turn t.
Runs(d, t) == drain[d].pc \in TurnPcs /\ drain[d].turn = t

\* A driver that may still talk to the agent, or will.
Alive(t) == driver[t] \in {"spawned", "connecting", "prompted"}
Talks(t) == driver[t] \in {"connecting", "prompted"}

\* The active turn is the turn of the task in the loop ...
ActiveRuns == active # NoTurn => \E d \in Drains : Runs(d, active)

\* ... and that turn is the active one, until a release takes it away.
RunsActive ==
    \A d \in Drains : drain[d].pc \in TurnPcs =>
        active = drain[d].turn \/ released

\* A turn ends because it was cancelled or because its driver is through.
EndIsOver ==
    \A d \in Drains : At(d, "end") =>
        drain[d].turn \in cancelled \/ driver[drain[d].turn] = "closed"

\* A driver that is alive has been told to stop, or its turn still runs.
AliveRuns ==
    \A t \in TurnIds : Alive(t) =>
        t \in cancelled \/ \E d \in Drains : Runs(d, t)

\* Past its latch, a release has latched.
Latched ==
    \A c \in Callers : call[c].pc \in {"clear", "abort", "settle"} => released

\* A release has yet to cancel the active turn.
AbortAhead == \E c \in Callers : call[c].pc \in {"clear", "abort"}

\* A driver that talks to the agent unasked belongs to the active turn, which
\* a release that has latched is still going to cancel.
TalksActive ==
    \A t \in TurnIds : Talks(t) /\ t \notin cancelled =>
        active = t /\ (released => AbortAhead)

Reins ==
    /\ ActiveRuns /\ RunsActive /\ EndIsOver /\ AliveRuns
    /\ Latched /\ TalksActive

-----------------------------------------------------------------------------
(* Steps that leave the turn that runs alone: stopping it is no more than   *)
(* putting its id into the set of cancelled turns.                          *)

\* No task starts, ends or changes a turn, and the drivers stay.
KeepsRunning ==
    /\ \A d \in Drains :
         \/ drain'[d] = drain[d]
         \/ drain[d].pc \notin HandPcs /\ drain'[d].pc \notin TurnPcs
    /\ UNCHANGED <<active, driver>>
    /\ cancelled \subseteq cancelled'

\* The calls of a release stay where they are.
KeepsRelease ==
    /\ \A c \in Callers :
         \/ call'[c] = call[c]
         \/ /\ call[c].pc \notin {"clear", "abort"}
            /\ call'[c].pc \notin {"clear", "abort", "settle"}
    /\ released' = released

LEMMA ReinsKept ==
    ASSUME Reins, KeepsRunning, KeepsRelease
    PROVE  Reins'
<1> USE DEF Reins, KeepsRunning, HandPcs
<1>1. ActiveRuns'
  BY DEF ActiveRuns, Runs
<1>2. RunsActive'
  BY DEF RunsActive, KeepsRelease
<1>3. EndIsOver'
  BY DEF EndIsOver, At, TurnPcs
<1>4. AliveRuns'
  BY DEF AliveRuns, Alive, Runs
<1>5. Latched'
  BY DEF Latched, KeepsRelease
<1>6. TalksActive'
  BY DEF TalksActive, Talks, AbortAhead, KeepsRelease
<1> QED
  BY <1>1, <1>2, <1>3, <1>4, <1>5, <1>6

\* kick_drain starts a task at the top of its loop.
LEMMA KickKeeps ==
    ASSUME NEW ds \in [Drains -> DrainTask], KickDrain(ds),
           \A e \in Drains : \/ ds[e] = drain[e]
                             \/ /\ drain[e].pc \notin HandPcs
                                /\ ds[e].pc \notin TurnPcs,
           UNCHANGED <<active, driver, cancelled>>
    PROVE  KeepsRunning
<1> DEFINE r == [OffDrain EXCEPT !.pc = "start"]
<1>1. r.pc \notin TurnPcs
  BY DEF OffDrain, TurnPcs
<1>2. CASE drain' = ds
  BY <1>2 DEF KeepsRunning
<1>3. ASSUME NEW d \in Drains, ds[d].pc = "off",
             drain' = [ds EXCEPT ![d] = r]
      PROVE  KeepsRunning
  BY <1>1, <1>3 DEF KeepsRunning, HandPcs, TurnPcs
<1> QED
  BY <1>2, <1>3 DEF KickDrain

-----------------------------------------------------------------------------
(* Who changes what.                                                        *)

\* A call and a request change the record of their own caller only.
LEMMA CallsAlone ==
    ASSUME TypeOK, NEW c \in Callers, CallStep(c) \/ Request(c)
    PROVE  \A b \in Callers \ {c} : call'[b] = call[b]
<1> USE DEF taskVars, TypeOK, CallOK
<1>1. CASE CallStep(c)
  BY <1>1 DEF CallStep, PushTurn, KickCall, SubmitInjected, SubmitRefused,
     SubmitRow, SubmitEnqueue, CancelRow, StopCaptured, ReleaseLatch,
     ReleaseClear, AbortAndDrain, ReleaseDispose, Return
<1>2. CASE Request(c)
  BY <1>2 DEF Request, Enqueue, Submit, CancelQueued, BeginEdit, Promote,
     Resubmit, Populate, PruneChild, Stop, PromoteNotice, Dismiss,
     ReleaseSweep
<1> QED
  BY <1>1, <1>2

\* A request starts from an idle caller, and a stop of a captured turn is
\* asked for by a dismissal only.
LEMMA RequestFromIdle ==
    ASSUME TypeOK, NEW c \in Callers, Request(c)
    PROVE  /\ call[c].pc = "idle" \/ call'[c] = call[c]
           /\ call'[c].pc \in {"idle", "steerRpc", "enqueue", "push", "kick",
                               "cancelRow", "stopKick", "stop", "latch"}
                \/ call'[c] = call[c]
           /\ call'[c].pc = "stop" /\ call'[c] # call[c] => Dismiss(c)
<1> USE DEF Starts, TypeOK, CallOK, ClientCall
<1> DEFINE Goal ==
             /\ call[c].pc = "idle" \/ call'[c] = call[c]
             /\ call'[c].pc \in {"idle", "steerRpc", "enqueue", "push", "kick",
                                 "cancelRow", "stopKick", "stop", "latch"}
                  \/ call'[c] = call[c]
             /\ call'[c].pc = "stop" /\ call'[c] # call[c] => Dismiss(c)
<1>1. ASSUME NEW t \in Turns,
             \/ Enqueue(c, t) \/ Submit(c, t) \/ CancelQueued(c, t)
             \/ BeginEdit(c, t) \/ Promote(c, t)
      PROVE  Goal
  BY <1>1 DEF Enqueue, Submit, CancelQueued, BeginEdit, Promote, taskVars
<1>2. ASSUME NEW t \in Turns, NEW keep \in BOOLEAN, Resubmit(c, t, keep)
      PROVE  Goal
  BY <1>2 DEF Resubmit
<1>3. ASSUME NEW k \in Children, Populate(c, k) \/ PruneChild(c, k)
      PROVE  Goal
  BY <1>3 DEF Populate, PruneChild, taskVars
<1>4. CASE Stop(c) \/ PromoteNotice(c) \/ ReleaseSweep(c)
  BY <1>4 DEF Stop, PromoteNotice, ReleaseSweep, taskVars
<1>5. CASE Dismiss(c)
  BY <1>5 DEF Dismiss
<1> QED
  BY <1>1, <1>2, <1>3, <1>4, <1>5 DEF Request

\* A drain task leaves the calls and the latch alone.
LEMMA DrainsAlone ==
    ASSUME NEW d \in Drains, DrainStep(d)
    PROVE  UNCHANGED <<call, released>>
  BY DEF DrainStep, DrainStart, DrainTop, DrainInner, DrainPop,
     DrainRow, DrainBegin, TurnStep, TurnStopped, TurnWoken, TurnEvent,
     TurnClosed, TurnEnd, SteerStep, SteerCheck, SteerInjected, SteerRow,
     SteerTooEarly, SteerFailed, DrainAfter, DrainFlag, DrainLeft,
     NoticeStep, DrainPromo, DrainSlot, TakeNotice, PruneNotice, DrainFin,
     DrainSignal, DrainRekick, sessionVars

\* So does a driver, and it leaves the tasks alone too.
LEMMA DriversAlone ==
    ASSUME NEW t \in TurnIds, DriverStep(t)
    PROVE  UNCHANGED <<call, released, drain>>
  BY DEF DriverStep, DriverConnect, DriverPrompt, DriverError, DriverResult,
     DriverQuit, sessionVars

\* Of a drain task, the steps outside a turn keep whatever runs.
OutsideStep(d) ==
    \/ DrainStart(d) \/ DrainTop(d) \/ DrainInner(d) \/ DrainPop(d)
    \/ DrainRow(d) \/ DrainAfter(d) \/ DrainFlag(d) \/ DrainLeft(d)
    \/ NoticeStep(d) \/ DrainFin(d) \/ DrainSignal(d) \/ DrainRekick(d)

LEMMA OutsideKeeps ==
    ASSUME TypeOK, NEW d \in Drains, OutsideStep(d)
    PROVE  KeepsRunning
<1> USE DEF stateVars, turnVars, noticeVars, taskVars, outVars, sessionVars
<1>1. ASSUME DrainStart(d)
     PROVE  KeepsRunning
  BY <1>1 DEF KeepsRunning, DrainStart, At, Goto, TypeOK, DrainOK, DrainTask, HandPcs, TurnPcs
<1>2. ASSUME DrainTop(d)
     PROVE  KeepsRunning
  BY <1>2 DEF KeepsRunning, DrainTop, At, Goto, TypeOK, DrainOK, DrainTask, HandPcs, TurnPcs
<1>3. ASSUME DrainInner(d)
     PROVE  KeepsRunning
  BY <1>3 DEF KeepsRunning, DrainInner, At, Goto, TypeOK, DrainOK, DrainTask, HandPcs, TurnPcs
<1>4. ASSUME DrainPop(d)
     PROVE  KeepsRunning
  BY <1>4 DEF KeepsRunning, DrainPop, At, Goto, TypeOK, DrainOK, DrainTask, HandPcs, TurnPcs
<1>5. ASSUME DrainRow(d)
     PROVE  KeepsRunning
  BY <1>5 DEF KeepsRunning, DrainRow, At, Goto, TypeOK, DrainOK, DrainTask, HandPcs, TurnPcs
<1>6. ASSUME DrainAfter(d)
     PROVE  KeepsRunning
  BY <1>6 DEF KeepsRunning, DrainAfter, At, Goto, TypeOK, DrainOK, DrainTask, HandPcs, TurnPcs
<1>7. ASSUME DrainFlag(d)
     PROVE  KeepsRunning
  BY <1>7 DEF KeepsRunning, DrainFlag, At, Goto, TypeOK, DrainOK, DrainTask, HandPcs, TurnPcs, AfterFlag
<1>8. ASSUME DrainLeft(d)
     PROVE  KeepsRunning
  BY <1>8 DEF KeepsRunning, DrainLeft, At, Goto, TypeOK, DrainOK, DrainTask, HandPcs, TurnPcs
<1>9. ASSUME DrainPromo(d)
     PROVE  KeepsRunning
  BY <1>9 DEF KeepsRunning, DrainPromo, At, Goto, TypeOK, DrainOK, DrainTask, HandPcs, TurnPcs
<1>10. ASSUME DrainSlot(d)
     PROVE  KeepsRunning
  BY <1>10 DEF KeepsRunning, DrainSlot, At, Goto, TypeOK, DrainOK, DrainTask, HandPcs, TurnPcs
<1>11. ASSUME TakeNotice(d)
     PROVE  KeepsRunning
  BY <1>11 DEF KeepsRunning, TakeNotice, At, Goto, TypeOK, DrainOK, DrainTask, HandPcs, TurnPcs
<1>12. ASSUME PruneNotice(d)
     PROVE  KeepsRunning
  BY <1>12 DEF KeepsRunning, PruneNotice, At, Goto, TypeOK, DrainOK, DrainTask, HandPcs, TurnPcs, TurnIds
<1>13. ASSUME DrainFin(d)
     PROVE  KeepsRunning
  BY <1>13 DEF KeepsRunning, DrainFin, At, Goto, TypeOK, DrainOK, DrainTask, HandPcs, TurnPcs
<1>14. ASSUME DrainSignal(d)
     PROVE  KeepsRunning
  BY <1>14 DEF KeepsRunning, DrainSignal, At, Goto, TypeOK, DrainOK, DrainTask, HandPcs, TurnPcs
<1>15. ASSUME DrainRekick(d)
      PROVE  KeepsRunning
  <2> DEFINE ds == [drain EXCEPT ![d] = OffDrain]
  <2>1. ds \in [Drains -> DrainTask]
    BY OffType DEF TypeOK, DrainOK
  <2>2. \A e \in Drains : \/ ds[e] = drain[e]
                          \/ drain[e].pc \notin HandPcs /\ ds[e].pc \notin TurnPcs
    BY <1>15 DEF DrainRekick, At, TypeOK, DrainOK, OffDrain, HandPcs,
       TurnPcs
  <2>3. UNCHANGED <<active, driver, cancelled>>
    BY <1>15 DEF DrainRekick
  <2>4. CASE KickDrain(ds)
    BY <2>1, <2>2, <2>3, <2>4, KickKeeps
  <2>5. CASE drain' = ds
    BY <2>2, <2>3, <2>5 DEF KeepsRunning
  <2> QED
    BY <1>15, <2>4, <2>5 DEF DrainRekick
<1> QED
  BY <1>1, <1>2, <1>3, <1>4, <1>5, <1>6, <1>7, <1>8, <1>9, <1>10, <1>11, <1>12, <1>13, <1>14, <1>15 DEF OutsideStep, NoticeStep

\* A task that goes on with its turn, or comes to the end of one that is over.
GoesOn(d) ==
    /\ drain[d].pc \in TurnPcs /\ drain'[d].pc \in TurnPcs
    /\ drain'[d].turn = drain[d].turn
    /\ \A e \in Drains \ {d} : drain'[e] = drain[e]
    /\ drain'[d].pc = "end" =>
           drain[d].turn \in cancelled \/ driver'[drain[d].turn] = "closed"
    /\ \A t \in TurnIds : driver'[t] = driver[t] \/ driver'[t] = "closed"
    /\ UNCHANGED <<active, cancelled, released, call>>

LEMMA ReinsGoOn ==
    ASSUME Reins, NEW d \in Drains, GoesOn(d), TypeOK, TypeOK'
    PROVE  Reins'
<1> USE DEF Reins, GoesOn
<1>1. \A t, e : e \in Drains => (Runs(e, t)' <=> Runs(e, t))
  BY DEF Runs
<1>2. ActiveRuns'
  BY <1>1 DEF ActiveRuns
<1>3. RunsActive'
  BY DEF RunsActive
<1>4. EndIsOver'
  <2> SUFFICES ASSUME NEW e \in Drains, At(e, "end")', e # d
               PROVE  (drain[e].turn \in cancelled
                         \/ driver[drain[e].turn] = "closed")'
    BY DEF EndIsOver, At
  <2>1. drain[e].turn \in TurnIds
    BY DEF At, TypeOK, DrainOK, KnowsTurn
  <2> QED
    BY <2>1 DEF EndIsOver, At
<1>5. AliveRuns'
  BY <1>1 DEF AliveRuns, Alive
<1>6. Latched'
  BY DEF Latched
<1>7. TalksActive'
  BY DEF TalksActive, Talks, AbortAhead
<1> QED
  BY <1>2, <1>3, <1>4, <1>5, <1>6, <1>7

\* The steps of a turn but its first and its last.
LEMMA MiddleGoesOn ==
    ASSUME TypeOK, NEW d \in Drains,
           \/ TurnStopped(d) \/ TurnWoken(d) \/ TurnEvent(d) \/ TurnClosed(d)
           \/ SteerStep(d)
    PROVE  GoesOn(d)
<1> USE DEF stateVars, turnVars, noticeVars, taskVars, outVars, sessionVars,
            GoesOn, At, Goto, TypeOK, DrainOK, DrainTask, TurnPcs, OutOK
<1>1. CASE TurnStopped(d)
  BY <1>1 DEF TurnStopped, Uncancelled
<1>2. CASE TurnWoken(d)
  BY <1>2 DEF TurnWoken
<1>3. CASE TurnEvent(d)
  BY <1>3 DEF TurnEvent, KnowsTurn
<1>4. CASE TurnClosed(d)
  BY <1>4 DEF TurnClosed
<1>5. CASE SteerCheck(d)
  BY <1>5 DEF SteerCheck
<1>6. CASE SteerInjected(d)
  BY <1>6 DEF SteerInjected
<1>7. CASE SteerRow(d)
  BY <1>7 DEF SteerRow
<1>8. CASE SteerTooEarly(d)
  BY <1>8 DEF SteerTooEarly
<1>9. CASE SteerFailed(d)
  BY <1>9 DEF SteerFailed
<1> QED
  BY <1>1, <1>2, <1>3, <1>4, <1>5, <1>6, <1>7, <1>8, <1>9 DEF SteerStep

\* run_one_turn registers a turn: none was registered, since no other task is
\* in the loop.
LEMMA ReinsBegin ==
    ASSUME TypeOK, SingleDrain, Reins, NEW d \in Drains, DrainBegin(d)
    PROVE  Reins'
<1> USE DEF Reins
<1>1. /\ drain[d].pc = "begin" /\ drain[d] \in DrainTask
      /\ drain[d].turn \in TurnIds
  BY DEF DrainBegin, At, TypeOK, DrainOK, KnowsTurn
<1>2. \A e \in Drains : drain[e].pc \notin TurnPcs
  BY <1>1 DEF SingleDrain, InLoop, LoopPcs, TurnPcs
<1>3. active = NoTurn
  BY <1>2 DEF ActiveRuns, Runs
<1>4. /\ drain'[d].pc = "turn" /\ drain'[d].turn = drain[d].turn
      /\ \A e \in Drains \ {d} : drain'[e] = drain[e]
  BY <1>1 DEF DrainBegin, Goto, TypeOK, DrainOK, DrainTask
<1>5. /\ active' = drain[d].turn
      /\ driver' = [driver EXCEPT ![drain[d].turn] = "spawned"]
      /\ UNCHANGED <<cancelled, released, call>>
  BY DEF DrainBegin, turnVars, sessionVars
<1>6. ActiveRuns'
  BY <1>4, <1>5 DEF ActiveRuns, Runs, TurnPcs
<1>7. RunsActive'
  BY <1>2, <1>4, <1>5 DEF RunsActive
<1>8. EndIsOver'
  BY <1>2, <1>4 DEF EndIsOver, At, TurnPcs
<1>9. AliveRuns'
  <2> SUFFICES ASSUME NEW t \in TurnIds, Alive(t)', t \notin cancelled
               PROVE  \E e \in Drains : Runs(e, t)'
    BY <1>5 DEF AliveRuns
  <2>1. CASE t = drain[d].turn
    BY <2>1, <1>4 DEF Runs, TurnPcs
  <2>2. CASE t # drain[d].turn
    <3>1. Alive(t)
      BY <2>2, <1>5 DEF Alive, TypeOK, OutOK
    <3> QED
      BY <3>1, <1>2 DEF AliveRuns, Runs
  <2> QED
    BY <2>1, <2>2
<1>10. Latched'
  BY <1>5 DEF Latched
<1>11. TalksActive'
  <2> SUFFICES ASSUME NEW t \in TurnIds, Talks(t)', t \notin cancelled
               PROVE  FALSE
    BY <1>5 DEF TalksActive
  <2>1. Talks(t)
    BY <1>5 DEF Talks, TypeOK, OutOK
  <2>2. NoTurn \notin TurnIds
    BY TurnAssumption DEF TurnIds
  <2> QED
    BY <1>3, <2>1, <2>2 DEF TalksActive
<1> QED
  BY <1>6, <1>7, <1>8, <1>9, <1>10, <1>11

\* ... and the end of run_one_turn takes its registration away.
LEMMA ReinsEnd ==
    ASSUME TypeOK, SingleDrain, Reins, NEW d \in Drains, TurnEnd(d)
    PROVE  Reins'
<1> USE DEF Reins
<1>1. /\ drain[d].pc = "end" /\ drain[d] \in DrainTask
      /\ drain[d].turn \in TurnIds
  BY DEF TurnEnd, At, TypeOK, DrainOK, KnowsTurn
<1>2. \A e \in Drains \ {d} : drain[e].pc \notin TurnPcs
  BY <1>1 DEF SingleDrain, InLoop, LoopPcs, TurnPcs
<1>3. /\ drain'[d].pc \notin TurnPcs
      /\ \A e \in Drains \ {d} : drain'[e] = drain[e]
  BY <1>1 DEF TurnEnd, TypeOK, DrainOK, OffDrain, TurnPcs
<1>4. /\ active' = NoTurn
      /\ \A t \in TurnIds : driver'[t] = driver[t] \/ driver'[t] = "closed"
      /\ UNCHANGED <<cancelled, released, call>>
  BY <1>1 DEF TurnEnd, turnVars, sessionVars, TypeOK, OutOK
<1>5. ActiveRuns'
  BY <1>4 DEF ActiveRuns
<1>6. RunsActive'
  BY <1>2, <1>3 DEF RunsActive
<1>7. EndIsOver'
  BY <1>2, <1>3 DEF EndIsOver, At, TurnPcs
<1>8. \A t \in TurnIds : Alive(t)' => t \in cancelled
  <2> SUFFICES ASSUME NEW t \in TurnIds, Alive(t)', t \notin cancelled
               PROVE  FALSE
    OBVIOUS
  <2>1. Alive(t) /\ driver[t] # "closed"
    BY <1>4 DEF Alive
  <2>2. drain[d].turn = t
    BY <2>1, <1>2 DEF AliveRuns, Runs
  <2> QED
    BY <1>1, <2>1, <2>2 DEF EndIsOver, At
<1>9. AliveRuns'
  BY <1>4, <1>8 DEF AliveRuns
<1>10. Latched'
  BY <1>4 DEF Latched
<1>11. TalksActive'
  BY <1>4, <1>8 DEF TalksActive, Talks, Alive
<1> QED
  BY <1>5, <1>6, <1>7, <1>9, <1>10, <1>11

\* The steps of a driver: it is alive no longer than before, except that one
\* that connects on a live session is that of a turn that runs.
LEMMA ReinsDriver ==
    ASSUME TypeOK, Reins, NEW u \in TurnIds, DriverStep(u)
    PROVE  Reins'
<1> USE DEF Reins, stateVars, turnVars, noticeVars, outVars, sessionVars
<1>1. /\ UNCHANGED <<active, cancelled, released, call, drain>>
      /\ \E s \in DriverStates : driver' = [driver EXCEPT ![u] = s]
  BY DEF DriverStep, DriverConnect, DriverPrompt, DriverError, DriverResult,
     DriverQuit, AfterSpawn, DriverStates
<1>2. \A t \in TurnIds : t # u => driver'[t] = driver[t]
  BY <1>1 DEF TypeOK, OutOK
<1>3. /\ Alive(u)' => Alive(u)
      /\ driver[u] # "closed"
      /\ Talks(u)' => Talks(u) \/ (driver[u] = "spawned" /\ ~released)
  BY DEF DriverStep, DriverConnect, DriverPrompt, DriverError, DriverResult,
     DriverQuit, AfterSpawn, Alive, Talks, TypeOK, OutOK
<1>4. ActiveRuns' /\ RunsActive' /\ Latched'
  BY <1>1 DEF ActiveRuns, RunsActive, Latched, Runs
<1>5. EndIsOver'
  BY <1>1, <1>2, <1>3 DEF EndIsOver, At, TypeOK, DrainOK, KnowsTurn
<1>6. AliveRuns'
  BY <1>1, <1>2, <1>3 DEF AliveRuns, Alive, Runs
<1>7. TalksActive'
  <2> SUFFICES ASSUME NEW t \in TurnIds, Talks(t)', t \notin cancelled
               PROVE  active = t /\ (released => AbortAhead)
    BY <1>1 DEF TalksActive, AbortAhead
  <2>1. CASE Talks(t)
    BY <2>1 DEF TalksActive
  <2>2. CASE ~Talks(t)
    <3>1. t = u /\ driver[u] = "spawned" /\ ~released
      BY <2>2, <1>2, <1>3 DEF Talks
    <3> QED
      BY <3>1 DEF AliveRuns, Alive, Runs, RunsActive
  <2> QED
    BY <2>1, <2>2
<1> QED
  BY <1>4, <1>5, <1>6, <1>7

\* The steps of the calls and the requests, but for those of a release that
\* has swept the queue.
LEMMA CallKeeps ==
    ASSUME TypeOK, NEW c \in Callers, CallStep(c) \/ Request(c),
           ~ReleaseLatch(c), ~ReleaseClear(c), ~AbortAndDrain(c),
           ~ReleaseDispose(c)
    PROVE  KeepsRunning /\ KeepsRelease
<1> USE DEF stateVars, turnVars, noticeVars, taskVars, outVars, sessionVars
<1> DEFINE R == {"clear", "abort", "settle"}
<1>1. CASE KickCall(c)
  <2>1. KeepsRunning
    BY <1>1, KickKeeps DEF KickCall, TypeOK, DrainOK
  <2>2. KeepsRelease
    BY <1>1 DEF KickCall, KeepsRelease, Return, IdleCall, TypeOK, CallOK
  <2> QED
    BY <2>1, <2>2
<1>2. ASSUME CallStep(c), ~KickCall(c)
      PROVE  KeepsRunning /\ KeepsRelease
  <2>1. /\ drain' = drain
        /\ UNCHANGED <<active, driver>> /\ cancelled \subseteq cancelled'
    BY <1>2 DEF CallStep, PushTurn, SubmitInjected, SubmitRefused, SubmitRow,
       SubmitEnqueue, CancelRow, StopCaptured, StopActiveTurn
  <2>2. \A b \in Callers \ {c} : call'[b] = call[b]
    BY <1>2, CallsAlone
  <2>3. /\ call[c].pc \notin R /\ call'[c].pc \notin R
        /\ released' = released
    BY <1>2 DEF CallStep, PushTurn, SubmitInjected, SubmitRefused, SubmitRow,
       SubmitEnqueue, CancelRow, StopCaptured, Return, TypeOK, CallOK,
       ClientCall, IdleCall
  <2> QED
    BY <2>1, <2>2, <2>3 DEF KeepsRunning, KeepsRelease
<1>3. ASSUME Request(c)
      PROVE  KeepsRunning /\ KeepsRelease
  <2>1. /\ drain' = drain
        /\ UNCHANGED <<active, driver>> /\ cancelled \subseteq cancelled'
    BY <1>3 DEF Request, Enqueue, Submit, CancelQueued, BeginEdit, Promote,
       Resubmit, Populate, PruneChild, Stop, StopActiveTurn, PromoteNotice,
       Dismiss, ReleaseSweep
  <2>2. \A b \in Callers \ {c} : call'[b] = call[b]
    BY <1>3, CallsAlone
  <2>3. released' = released
    BY <1>3 DEF Request, Enqueue, Submit, CancelQueued, BeginEdit, Promote,
       Resubmit, Populate, PruneChild, Stop, PromoteNotice, Dismiss,
       ReleaseSweep
  <2>4. call'[c] = call[c] \/ (call[c].pc \notin R /\ call'[c].pc \notin R)
    BY <1>3, RequestFromIdle
  <2> QED
    BY <2>1, <2>2, <2>3, <2>4 DEF KeepsRunning, KeepsRelease
<1> QED
  BY <1>1, <1>2, <1>3

\* A release latches, clears the notice slot, cancels the active turn and is
\* done.
LEMMA ReinsRelease ==
    ASSUME TypeOK, Reins, NEW c \in Callers,
           \/ ReleaseLatch(c) \/ ReleaseClear(c) \/ AbortAndDrain(c)
           \/ ReleaseDispose(c)
    PROVE  Reins'
<1> USE DEF Reins, stateVars, turnVars, noticeVars, outVars, sessionVars
<1>1. UNCHANGED <<drain, driver>> /\ \A b \in Callers \ {c} : call'[b] = call[b]
  BY DEF ReleaseLatch, ReleaseClear, AbortAndDrain, ReleaseDispose, Return,
     TypeOK, CallOK
<1>2. CASE ReleaseLatch(c)
  <2>1. /\ UNCHANGED <<active, cancelled>> /\ released'
        /\ call[c].pc = "latch"
        /\ ~released => call'[c].pc = "clear"
    BY <1>2 DEF ReleaseLatch, TypeOK, CallOK, ClientCall
  <2>2. AbortAhead => AbortAhead'
    BY <1>1, <2>1 DEF AbortAhead
  <2>3. ~released => AbortAhead'
    BY <2>1 DEF AbortAhead
  <2> QED
    BY <1>1, <2>1, <2>2, <2>3 DEF ActiveRuns, RunsActive, EndIsOver, At,
       AliveRuns, Alive, Latched, TalksActive, Talks, Runs
<1>3. CASE ReleaseClear(c)
  <2>1. /\ UNCHANGED <<active, cancelled, released>> /\ call[c].pc = "clear"
        /\ call'[c].pc = "abort"
    BY <1>3 DEF ReleaseClear, TypeOK, CallOK, ClientCall
  <2>2. AbortAhead'
    BY <2>1 DEF AbortAhead
  <2> QED
    BY <1>1, <2>1, <2>2 DEF ActiveRuns, RunsActive, EndIsOver, At,
       AliveRuns, Alive, Latched, TalksActive, Talks, Runs
<1>4. CASE AbortAndDrain(c)
  <2>1. /\ active' = NoTurn /\ UNCHANGED released
        /\ cancelled' = cancelled \cup ({active} \ {NoTurn})
        /\ call[c].pc = "abort" /\ call'[c].pc = "settle"
    BY <1>4 DEF AbortAndDrain, TypeOK, CallOK, ClientCall
  <2>2. released
    BY <2>1 DEF Latched
  <2>3. NoTurn \notin TurnIds
    BY TurnAssumption DEF TurnIds
  <2>4. \A t \in TurnIds : Talks(t)' => t \in cancelled'
    BY <1>1, <2>1, <2>3 DEF TalksActive, Talks
  <2> QED
    BY <1>1, <2>1, <2>2, <2>4 DEF ActiveRuns, RunsActive, EndIsOver, At,
       AliveRuns, Alive, Latched, TalksActive, Runs
<1>5. CASE ReleaseDispose(c)
  <2>1. /\ UNCHANGED <<active, cancelled, released>> /\ call[c].pc = "settle"
        /\ call'[c].pc = "idle"
    BY <1>5 DEF ReleaseDispose, Return, IdleCall, TypeOK, CallOK
  <2>2. AbortAhead => AbortAhead'
    BY <1>1, <2>1 DEF AbortAhead
  <2> QED
    BY <1>1, <2>1, <2>2 DEF ActiveRuns, RunsActive, EndIsOver, At,
       AliveRuns, Alive, Latched, TalksActive, Talks, Runs
<1> QED
  BY <1>2, <1>3, <1>4, <1>5

\* Reins is inductive, given the types and that one task is in the loop.
LEMMA ReinsStep ==
    ASSUME TypeOK, TypeOK', SingleDrain, Reins, [Next]_vars
    PROVE  Reins'
<1>1. ASSUME NEW d \in Drains, DrainStep(d)
      PROVE  Reins'
  <2>1. UNCHANGED <<call, released>>
    BY <1>1, DrainsAlone
  <2>2. KeepsRelease
    BY <2>1 DEF KeepsRelease
  <2>3. CASE OutsideStep(d)
    BY <2>2, <2>3, OutsideKeeps, ReinsKept
  <2>4. CASE DrainBegin(d)
    BY <2>4, ReinsBegin
  <2>5. CASE TurnEnd(d)
    BY <2>5, ReinsEnd
  <2>6. CASE ~OutsideStep(d) /\ ~DrainBegin(d) /\ ~TurnEnd(d)
    BY <1>1, <2>6, MiddleGoesOn, ReinsGoOn DEF DrainStep, TurnStep,
       OutsideStep
  <2> QED
    BY <2>3, <2>4, <2>5, <2>6
<1>2. ASSUME NEW c \in Callers, CallStep(c) \/ Request(c)
      PROVE  Reins'
  BY <1>2, CallKeeps, ReinsKept, ReinsRelease
<1>3. CASE UNCHANGED vars
  <2>1. KeepsRunning /\ KeepsRelease
    BY <1>3 DEF vars, turnVars, taskVars, sessionVars, KeepsRunning,
       KeepsRelease
  <2> QED
    BY <2>1, ReinsKept
<1> QED
  BY <1>1, <1>2, <1>3, ReinsDriver DEF Next

\* ... and so it holds.
LEMMA ReinsHold == Spec => []Reins
<1>1. Init => Reins
  BY DEF Init, Reins, ActiveRuns, RunsActive, EndIsOver, AliveRuns, Latched,
     TalksActive, Alive, Talks, At, TurnPcs, OffDrain, IdleCall
<1>2. TypeOK /\ TypeOK' /\ SingleDrain /\ Reins /\ [Next]_vars => Reins'
  BY ReinsStep
<1> QED
  BY <1>1, <1>2, TypeCorrect, SingleOwner, PTL DEF Spec

\* Once a release has cleared the queue, no driver is left with the agent, or
\* on its way there, that has not been cancelled: the latch that a late driver
\* looks at and the abort of the active turn leave no gap between them.
THEOREM ReleaseComplete == Spec => []ReleaseLeavesNoLiveTurn
<1>1. Reins => ReleaseLeavesNoLiveTurn
  BY DEF Reins, ReleaseLeavesNoLiveTurn, TalksActive, Talks, AbortAhead
<1> QED
  BY <1>1, ReinsHold, PTL

-----------------------------------------------------------------------------
(* A dismissal and the turn it stops.                                       *)

\* While active_notice is set, the task in the loop has a notice turn in hand.
NoticeInHand ==
    activeNotice # {} =>
        \E d \in Drains :
            drain[d].pc \in HandPcs /\ drain[d].turn \in NoticeIds

\* What a dismissal is about to stop is a notice turn.
StopsNotice ==
    \A c \in Callers : call[c].pc = "stop" => call[c].turn \in NoticeIds

\* A turn in hand stays in hand until its end, and active_notice is set and
\* cleared with the notice turn.
LEMMA HandStays ==
    ASSUME TypeOK, NEW d \in Drains, DrainStep(d), ~PruneNotice(d), ~TurnEnd(d)
    PROVE  /\ activeNotice' = activeNotice
           /\ \A e \in Drains : drain[e].pc \in HandPcs =>
                  /\ drain'[e].pc \in HandPcs
                  /\ drain'[e].turn = drain[e].turn
<1>1. activeNotice' = activeNotice
  BY DEF DrainStep, DrainStart, DrainTop, DrainInner, DrainPop,
     DrainRow, DrainBegin, TurnStep, TurnStopped, TurnWoken, TurnEvent,
     TurnClosed, SteerStep, SteerCheck, SteerInjected, SteerRow,
     SteerTooEarly, SteerFailed, DrainAfter, DrainFlag, DrainLeft,
     NoticeStep, DrainPromo, DrainSlot, TakeNotice, DrainFin,
     DrainSignal, DrainRekick, noticeVars
<1>2. CASE OutsideStep(d)
  BY <1>1, <1>2, OutsideKeeps DEF KeepsRunning
<1>3. CASE DrainBegin(d)
  BY <1>1, <1>3 DEF DrainBegin, At, Goto, TypeOK, DrainOK, DrainTask, HandPcs,
     TurnPcs
<1>4. CASE ~OutsideStep(d) /\ ~DrainBegin(d)
  BY <1>1, <1>4, MiddleGoesOn DEF DrainStep, TurnStep, OutsideStep, GoesOn,
     HandPcs
<1> QED
  BY <1>2, <1>3, <1>4

\* Both are inductive, given the types, one task in the loop and Reins.
LEMMA NoticeStepKept ==
    ASSUME TypeOK, TypeOK', SingleDrain, Reins, NoticeInHand, StopsNotice,
           [Next]_vars
    PROVE  NoticeInHand' /\ StopsNotice'
<1> USE DEF stateVars, turnVars, noticeVars, taskVars, outVars, sessionVars
<1>1. ASSUME NEW d \in Drains, DrainStep(d)
      PROVE  NoticeInHand' /\ StopsNotice'
  <2>1. call' = call
    BY <1>1, DrainsAlone
  <2>2. StopsNotice'
    BY <2>1 DEF StopsNotice
  <2>3. CASE PruneNotice(d)
    <3>1. SUFFICES ASSUME activeNotice' # {}
                   PROVE  NoticeInHand'
      BY <2>2 DEF NoticeInHand
    <3>2. CASE drain'[d].pc = "begin" /\ drain'[d].turn \in NoticeIds
      BY <3>2 DEF NoticeInHand, HandPcs
    <3>3. CASE /\ drain' = [drain EXCEPT ![d].pc = "top", ![d].kids = {}]
               /\ UNCHANGED activeNotice
      BY <2>3, <3>1, <3>3 DEF NoticeInHand, PruneNotice, At, TypeOK, DrainOK,
         HandPcs, TurnPcs
    <3> QED
      BY <2>3, <3>2, <3>3 DEF PruneNotice, TypeOK, DrainOK, DrainTask
  <2>4. CASE TurnEnd(d)
    <3>1. /\ drain[d].pc = "end"
          /\ drain[d].turn \in NoticeIds => activeNotice' = {}
          /\ drain[d].turn \notin NoticeIds => activeNotice' = activeNotice
      BY <2>4 DEF TurnEnd, At
    <3>2. \A e \in Drains \ {d} : drain[e].pc \notin HandPcs
      BY <3>1 DEF SingleDrain, InLoop, LoopPcs, HandPcs, TurnPcs
    <3> QED
      BY <2>2, <3>1, <3>2 DEF NoticeInHand
  <2>5. CASE ~PruneNotice(d) /\ ~TurnEnd(d)
    BY <1>1, <2>2, <2>5, HandStays DEF NoticeInHand
  <2> QED
    BY <2>3, <2>4, <2>5
<1>2. ASSUME NEW t \in TurnIds, DriverStep(t)
      PROVE  NoticeInHand' /\ StopsNotice'
  <2>1. UNCHANGED <<drain, call, activeNotice>>
    BY <1>2 DEF DriverStep, DriverConnect, DriverPrompt, DriverError,
       DriverResult, DriverQuit
  <2> QED
    BY <2>1 DEF NoticeInHand, StopsNotice
<1>3. ASSUME NEW c \in Callers, CallStep(c)
      PROVE  NoticeInHand' /\ StopsNotice'
  <2>1. activeNotice' = activeNotice \/ activeNotice' = {}
    BY <1>3 DEF CallStep, PushTurn, KickCall, SubmitInjected, SubmitRefused,
       SubmitRow, SubmitEnqueue, CancelRow, StopCaptured, ReleaseLatch,
       ReleaseClear, AbortAndDrain, ReleaseDispose
  <2>2. \A e \in Drains : drain[e].pc \in HandPcs => drain'[e] = drain[e]
    <3>1. CASE KickCall(c)
      BY <3>1, KickKeeps DEF KickCall, KeepsRunning, TypeOK, DrainOK
    <3>2. CASE ~KickCall(c)
      BY <1>3, <3>2 DEF CallStep, PushTurn, SubmitInjected, SubmitRefused,
         SubmitRow, SubmitEnqueue, CancelRow, StopCaptured, ReleaseLatch,
         ReleaseClear, AbortAndDrain, ReleaseDispose
    <3> QED
      BY <3>1, <3>2
  <2>3. NoticeInHand'
    BY <2>1, <2>2 DEF NoticeInHand
  <2>4. /\ \A b \in Callers \ {c} : call'[b] = call[b]
        /\ call'[c].pc # "stop"
    BY <1>3 DEF CallStep, PushTurn, KickCall, SubmitInjected, SubmitRefused,
       SubmitRow, SubmitEnqueue, CancelRow, StopCaptured, ReleaseLatch,
       ReleaseClear, AbortAndDrain, ReleaseDispose, Return, IdleCall, TypeOK,
       CallOK, ClientCall
  <2> QED
    BY <2>3, <2>4 DEF StopsNotice
<1>4. ASSUME NEW c \in Callers, Request(c)
      PROVE  NoticeInHand' /\ StopsNotice'
  <2>1. UNCHANGED <<drain, activeNotice>>
    BY <1>4 DEF Request, Enqueue, Submit, CancelQueued, BeginEdit, Promote,
       Resubmit, Populate, PruneChild, Stop, PromoteNotice, Dismiss,
       ReleaseSweep
  <2>2. NoticeInHand'
    BY <2>1 DEF NoticeInHand
  <2>3. CASE Dismiss(c)
    <3>1. NoticeRuns => active \in NoticeIds
      BY DEF NoticeRuns, NoticeInHand, Reins, ActiveRuns, Runs, SingleDrain,
         InLoop, LoopPcs, HandPcs, TurnPcs
    <3> QED
      BY <2>2, <2>3, <3>1 DEF Dismiss, StopsNotice, TypeOK, CallOK
  <2>4. CASE ~Dismiss(c)
    <3>1. call'[c] = call[c] \/ call'[c].pc # "stop"
      BY <1>4, <2>4, RequestFromIdle
    <3>2. \A b \in Callers \ {c} : call'[b] = call[b]
      BY <1>4, CallsAlone
    <3> QED
      BY <2>2, <3>1, <3>2 DEF StopsNotice
  <2> QED
    BY <2>3, <2>4
<1>5. CASE UNCHANGED vars
  BY <1>5 DEF vars, NoticeInHand, StopsNotice
<1> QED
  BY <1>1, <1>2, <1>3, <1>4, <1>5 DEF Next

LEMMA NoticeHold == Spec => [](NoticeInHand /\ StopsNotice)
<1>1. Init => NoticeInHand /\ StopsNotice
  BY DEF Init, NoticeInHand, StopsNotice, IdleCall
<1>2. TypeOK /\ TypeOK' /\ SingleDrain /\ Reins /\ NoticeInHand /\ StopsNotice
      /\ [Next]_vars => (NoticeInHand /\ StopsNotice)'
  BY NoticeStepKept
<1> QED
  BY <1>1, <1>2, TypeCorrect, SingleOwner, ReinsHold, PTL DEF Spec

\* A dismissal never stops a human turn, although the turn it saw may be over
\* and another one active by the time it stops what it saw.
THEOREM DismissalSpares == Spec => DismissSparesHumans
<1>1. TypeOK /\ StopsNotice /\ [Next]_vars =>
        \A c \in Callers : call[c].pc = "stop" /\ call'[c].pc = "idle" =>
            cancelled' \cap Turns = cancelled \cap Turns
  <2> SUFFICES ASSUME TypeOK, StopsNotice, [Next]_vars, NEW c \in Callers,
                      call[c].pc = "stop", call'[c].pc = "idle"
               PROVE  cancelled' \cap Turns = cancelled \cap Turns
    OBVIOUS
  <2>1. call' # call
    OBVIOUS
  <2>2. CASE StopCaptured(c)
    BY <2>2, TurnAssumption DEF StopCaptured, StopActiveTurn, StopHits,
       StopsNotice
  <2>3. CASE CallStep(c)
    BY <2>2, <2>3 DEF CallStep, PushTurn, KickCall, SubmitInjected,
       SubmitRefused, SubmitRow, SubmitEnqueue, CancelRow, ReleaseLatch,
       ReleaseClear, AbortAndDrain, ReleaseDispose
  <2>4. \A b \in Callers : CallStep(b) \/ Request(b) => b = c /\ CallStep(c)
    BY CallsAlone, RequestFromIdle
  <2> QED
    BY <2>1, <2>3, <2>4, DrainsAlone, DriversAlone DEF Next, vars, taskVars
<1> QED
  BY <1>1, TypeCorrect, NoticeHold, PTL DEF Spec, DismissSparesHumans

-----------------------------------------------------------------------------
(* A session at rest.                                                       *)

\* A call that is going to kick the drain.
KickAhead == \E c \in Callers : call[c].pc \in {"kick", "stopKick"}

\* Turns that wait have a drain, or somebody on the way to start one.
WorkOwed ==
    queue # <<>> /\ ~released =>
        running \/ KickAhead \/ \E d \in Drains : drain[d].pc \in TailPcs

\* So have notices, as long as nothing was stopped: a drain that broke off for
\* an abort does not look at the slot again.
NoticeOwed ==
    noticeSlot # {} /\ ~released /\ cancelled = {} =>
        \/ running \/ KickAhead
        \/ \E d \in Drains : drain[d].pc \in TailPcs /\ ~drain[d].broke

\* A drain breaks off only because some turn was stopped.
BrokeStopped ==
    ~released =>
        /\ aborted => cancelled # {}
        /\ \A d \in Drains :
             At(d, "left") \/ drain[d].broke => cancelled # {}

\* A state that says there is work is that of a drain, of a queue, or of a
\* cancel that has yet to recompute it.
StateOwed ==
    turnState \in {"busy", "queued"} /\ ~released =>
        running \/ queue # <<>> \/ \E c \in Callers : call[c].pc = "cancelRow"

\* Whoever stopped running has signalled, or is about to.
IdleOwed == ~running => drainIdle \/ \E d \in Drains : At(d, "signal")

Rest == WorkOwed /\ NoticeOwed /\ BrokeStopped /\ StateOwed /\ IdleOwed

\* A sequence is not empty after one more element was put into it.
LEMMA ConsNonEmpty ==
    ASSUME NEW S, NEW s \in Seq(S), NEW e \in S
    PROVE  Cons(e, s) # <<>>
<1>1. <<e>> \in Seq(S) /\ Len(<<e>>) = 1 /\ Len(s) \in Nat
  BY LenProperties
<1>2. Len(<<e>> \o s) = 1 + Len(s)
  BY <1>1, ConcatProperties
<1> QED
  BY <1>1, <1>2 DEF Cons

\* kick_drain: after it the session runs, or there is nothing to run.
LEMMA KickRests ==
    ASSUME NEW ds, KickDrain(ds)
    PROVE  /\ running' \/ (running' = running /\ drain' = ds
                           /\ drainIdle' = drainIdle)
           /\ released \/ running' \/ (queue = <<>> /\ noticeSlot = {})
  BY DEF KickDrain, MayStartDrain, HasWork

\* A drain task in its loop, up to the last step of it, keeps `running`, and
\* takes note of an abort only where there was one.
LEMMA LoopRests ==
    ASSUME TypeOK, SingleDrain, Rest, NEW d \in Drains, DrainStep(d),
           ~DrainFin(d), ~DrainSignal(d), ~DrainRekick(d)
    PROVE  Rest'
<1> USE DEF stateVars, turnVars, noticeVars, taskVars, outVars, sessionVars
<1>1. InLoop(d) /\ UNCHANGED <<running, cancelled, released>>
  BY DEF DrainStep, DrainStart, DrainTop, DrainInner, DrainPop,
     DrainRow, DrainBegin, TurnStep, TurnStopped, TurnWoken, TurnEvent,
     TurnClosed, TurnEnd, SteerStep, SteerCheck, SteerInjected, SteerRow,
     SteerTooEarly, SteerFailed, DrainAfter, DrainFlag, DrainLeft,
     NoticeStep, DrainPromo, DrainSlot, TakeNotice, PruneNotice, At, InLoop,
     LoopPcs
<1>2. running'
  BY <1>1 DEF SingleDrain
<1>3. BrokeStopped'
  <2> SUFFICES ASSUME ~released
               PROVE  /\ aborted' => cancelled # {}
                      /\ \A e \in Drains :
                           (At(e, "left") \/ drain[e].broke)' => cancelled # {}
    BY <1>1 DEF BrokeStopped
  <2>1. aborted' => aborted
    BY DEF DrainStep, DrainStart, DrainTop, DrainInner, DrainPop,
       DrainRow, DrainBegin, TurnStep, TurnStopped, TurnWoken, TurnEvent,
       TurnClosed, TurnEnd, SteerStep, SteerCheck, SteerInjected, SteerRow,
       SteerTooEarly, SteerFailed, DrainAfter, DrainFlag, DrainLeft,
       NoticeStep, DrainPromo, DrainSlot, TakeNotice, PruneNotice
  <2>2. CASE DrainFlag(d)
    BY <2>1, <2>2 DEF DrainFlag, AfterFlag, Goto, At, BrokeStopped, Rest,
       TypeOK, DrainOK, DrainTask
  <2>3. CASE DrainLeft(d)
    BY <2>1, <2>3 DEF DrainLeft, Goto, At, BrokeStopped, Rest, TypeOK,
       DrainOK, DrainTask
  <2>4. CASE ~DrainFlag(d) /\ ~DrainLeft(d)
    <3>1. \A e \in Drains \ {d} : drain'[e] = drain[e]
      BY <2>4 DEF DrainStep, DrainStart, DrainTop, DrainInner, DrainPop,
         DrainRow, DrainBegin, TurnStep, TurnStopped, TurnWoken, TurnEvent,
         TurnClosed, TurnEnd, SteerStep, SteerCheck, SteerInjected, SteerRow,
         SteerTooEarly, SteerFailed, DrainAfter,
         NoticeStep, DrainPromo, DrainSlot, TakeNotice, PruneNotice, Goto,
         TypeOK, DrainOK
    <3>2. /\ drain'[d].pc # "left"
          /\ drain'[d].broke => drain[d].broke
      <4> USE DEF Goto, TypeOK, DrainOK, DrainTask
      <4>1. CASE DrainStart(d)
        BY <4>1 DEF DrainStart
      <4>2. CASE DrainTop(d)
        BY <4>2 DEF DrainTop
      <4>3. CASE DrainInner(d)
        BY <4>3 DEF DrainInner
      <4>4. CASE DrainPop(d)
        BY <4>4 DEF DrainPop
      <4>5. CASE DrainRow(d)
        BY <4>5 DEF DrainRow
      <4>6. CASE DrainBegin(d)
        BY <4>6 DEF DrainBegin
      <4>7. CASE TurnStopped(d)
        BY <4>7 DEF TurnStopped
      <4>8. CASE TurnWoken(d)
        BY <4>8 DEF TurnWoken
      <4>9. CASE TurnEvent(d)
        BY <4>9 DEF TurnEvent, At
      <4>10. CASE TurnClosed(d)
        BY <4>10 DEF TurnClosed
      <4>11. CASE TurnEnd(d)
        BY <4>11 DEF TurnEnd, OffDrain
      <4>12. CASE SteerCheck(d)
        BY <4>12 DEF SteerCheck
      <4>13. CASE SteerInjected(d)
        BY <4>13 DEF SteerInjected
      <4>14. CASE SteerRow(d)
        BY <4>14 DEF SteerRow
      <4>15. CASE SteerTooEarly(d)
        BY <4>15 DEF SteerTooEarly
      <4>16. CASE SteerFailed(d)
        BY <4>16 DEF SteerFailed
      <4>17. CASE DrainAfter(d)
        BY <4>17 DEF DrainAfter
      <4>18. CASE DrainPromo(d)
        BY <4>18 DEF DrainPromo
      <4>19. CASE DrainSlot(d)
        BY <4>19 DEF DrainSlot
      <4>20. CASE TakeNotice(d)
        BY <4>20 DEF TakeNotice
      <4>21. CASE PruneNotice(d)
        BY <4>21 DEF PruneNotice, TurnIds
      <4> QED
        BY <2>4, <4>1, <4>2, <4>3, <4>4, <4>5, <4>6, <4>7, <4>8, <4>9,
           <4>10, <4>11, <4>12, <4>13, <4>14, <4>15, <4>16, <4>17,
           <4>18, <4>19, <4>20, <4>21 DEF DrainStep, TurnStep,
           SteerStep, NoticeStep
    <3> QED
      BY <2>1, <3>1, <3>2 DEF BrokeStopped, Rest, At
  <2> QED
    BY <2>2, <2>3, <2>4
<1> QED
  BY <1>2, <1>3 DEF Rest, WorkOwed, NoticeOwed, StateOwed, IdleOwed

\* The finally block hands the work over: through the signal to the re-kick.
LEMMA TailRests ==
    ASSUME TypeOK, SingleDrain, Rest, NEW d \in Drains,
           DrainFin(d) \/ DrainSignal(d) \/ DrainRekick(d)
    PROVE  Rest'
<1> USE DEF stateVars, turnVars, noticeVars, taskVars, outVars, sessionVars,
            Rest, At
<1>1. UNCHANGED <<queue, noticeSlot, cancelled, aborted, released, call>>
  BY DEF DrainFin, DrainSignal, DrainRekick
<1>2. CASE DrainFin(d)
  <2>1. /\ drain'[d].pc = "signal" /\ drain'[d].broke = drain[d].broke
        /\ \A e \in Drains \ {d} : drain'[e] = drain[e]
    BY <1>2 DEF DrainFin, Goto, TypeOK, DrainOK, DrainTask
  <2>2. BrokeStopped'
    BY <1>1, <2>1 DEF BrokeStopped
  <2>3. WorkOwed' /\ IdleOwed'
    BY <2>1 DEF WorkOwed, IdleOwed, TailPcs
  <2>4. NoticeOwed'
    <3>1. drain[d].broke \in BOOLEAN
      BY DEF TypeOK, DrainOK, DrainTask
    <3> QED
      BY <1>1, <2>1, <3>1 DEF NoticeOwed, BrokeStopped, TailPcs
  <2>5. StateOwed'
    BY <1>1, <1>2 DEF DrainFin, StateOwed
  <2> QED
    BY <2>2, <2>3, <2>4, <2>5
<1>3. CASE DrainSignal(d)
  <2>1. /\ drain[d].pc = "signal" /\ drain'[d].pc = "rekick"
        /\ drain'[d].broke = drain[d].broke
        /\ \A e \in Drains \ {d} : drain'[e] = drain[e]
        /\ UNCHANGED <<running, turnState>>
        /\ drainIdle' = (drainIdle \/ ~running)
    BY <1>3 DEF DrainSignal, IdleSignal, Goto, TypeOK, DrainOK, DrainTask
  <2> QED
    BY <1>1, <2>1 DEF WorkOwed, NoticeOwed, BrokeStopped, StateOwed, IdleOwed,
       KickAhead, TailPcs
<1>4. CASE DrainRekick(d)
  <2> DEFINE ds == [drain EXCEPT ![d] = OffDrain]
  <2>1. /\ drain[d].pc = "rekick" /\ ds[d].pc = "off" /\ ~ds[d].broke
        /\ \A e \in Drains \ {d} : ds[e] = drain[e]
        /\ turnState' = turnState
    BY <1>4 DEF DrainRekick, TypeOK, DrainOK, OffDrain
  <2>2. BrokeStopped'
    <3> DEFINE r == [OffDrain EXCEPT !.pc = "start"]
    <3>1. /\ r.pc = "start" /\ ~r.broke
          /\ ds \in [Drains -> DrainTask]
      BY OffType DEF OffDrain, TypeOK, DrainOK
    <3>2. \A e \in Drains : drain'[e] = ds[e] \/ drain'[e] = r
      BY <1>4, <3>1 DEF DrainRekick, KickDrain
    <3> QED
      BY <1>1, <2>1, <3>1, <3>2 DEF BrokeStopped
  <2>3. \/ running'
        \/ /\ drain' = ds /\ running' = running /\ drainIdle' = drainIdle
           /\ released \/ ~OwesRekick(d)
    BY <1>4, KickRests DEF DrainRekick, OwesRekick
  <2>4. CASE running'
    BY <2>2, <2>4 DEF WorkOwed, NoticeOwed, StateOwed, IdleOwed
  <2>5. CASE /\ drain' = ds /\ running' = running /\ drainIdle' = drainIdle
             /\ released \/ ~OwesRekick(d)
    <3>1. WorkOwed' /\ NoticeOwed'
      BY <1>1, <2>1, <2>5 DEF WorkOwed, NoticeOwed, KickAhead, OwesRekick
    <3>2. StateOwed' /\ IdleOwed'
      BY <1>1, <2>1, <2>5 DEF StateOwed, IdleOwed
    <3> QED
      BY <2>2, <3>1, <3>2
  <2> QED
    BY <2>3, <2>4, <2>5
<1> QED
  BY <1>2, <1>3, <1>4

\* kick_drain at the end of a call.
LEMMA KickCallRests ==
    ASSUME TypeOK, Rest, NEW c \in Callers, KickCall(c)
    PROVE  Rest'
<1> USE DEF stateVars, noticeVars, Rest, At
<1>1. /\ UNCHANGED <<queue, noticeSlot, cancelled, aborted, released,
                     turnState>>
      /\ KickDrain(drain)
      /\ call[c].pc = "kick"
      /\ \A b \in Callers \ {c} : call'[b] = call[b]
  BY DEF KickCall, Return, TypeOK, CallOK
<1>2. BrokeStopped'
  <2> DEFINE r == [OffDrain EXCEPT !.pc = "start"]
  <2>1. r.pc = "start" /\ ~r.broke
    BY DEF OffDrain
  <2>2. \A e \in Drains : drain'[e] = drain[e] \/ drain'[e] = r
    BY <1>1 DEF KickDrain, TypeOK, DrainOK
  <2> QED
    BY <1>1, <2>1, <2>2 DEF BrokeStopped
<1>3. CASE running'
  BY <1>2, <1>3 DEF WorkOwed, NoticeOwed, StateOwed, IdleOwed
<1>4. CASE /\ running' = running /\ drain' = drain /\ drainIdle' = drainIdle
           /\ released \/ running \/ (queue = <<>> /\ noticeSlot = {})
  <2>1. WorkOwed' /\ NoticeOwed'
    BY <1>1, <1>4 DEF WorkOwed, NoticeOwed
  <2>2. StateOwed' /\ IdleOwed'
    BY <1>1, <1>4 DEF StateOwed, IdleOwed
  <2> QED
    BY <1>2, <2>1, <2>2
<1> QED
  BY <1>1, <1>3, <1>4, KickRests, Zenon

\* What the other steps of a client do to a session that lives: whoever adds
\* work is about to kick the drain, whoever notes an abort has cancelled a
\* turn, and whoever empties the queue recomputes the state, or is about to.
LEMMA ClientRests ==
    ASSUME UNCHANGED <<drain, running, drainIdle>>,
           released => released',
           cancelled \subseteq cancelled',
           ~released' =>
             /\ aborted' => aborted \/ cancelled' # {}
             /\ queue' # <<>> => queue # <<>> \/ KickAhead'
             /\ ~(noticeSlot' \subseteq noticeSlot) => KickAhead'
             /\ KickAhead => KickAhead'
             /\ turnState' \in {"busy", "queued"} =>
                  \/ running \/ queue' # <<>>
                  \/ \E c \in Callers : call'[c].pc = "cancelRow"
                  \/ /\ turnState' = turnState /\ queue = <<>>
                     /\ \A c \in Callers : call[c].pc # "cancelRow",
           Rest
    PROVE  Rest'
<1> USE DEF Rest, At
<1>1. IdleOwed'
  BY DEF IdleOwed
<1>2. CASE released'
  BY <1>1, <1>2 DEF WorkOwed, NoticeOwed, BrokeStopped, StateOwed
<1>3. CASE ~released'
  <2>1. WorkOwed'
    BY <1>3 DEF WorkOwed
  <2>2. NoticeOwed'
    BY <1>3 DEF NoticeOwed
  <2>3. BrokeStopped'
    BY <1>3 DEF BrokeStopped
  <2>4. StateOwed'
    BY <1>3 DEF StateOwed
  <2> QED
    BY <1>1, <2>1, <2>2, <2>3, <2>4
<1> QED
  BY <1>2, <1>3

\* The steps of a call under way.
LEMMA CallRests ==
    ASSUME TypeOK, Reins, Rest, NEW c \in Callers, CallStep(c)
    PROVE  Rest'
<1> USE DEF stateVars, turnVars, noticeVars, taskVars, outVars, sessionVars
<1> DEFINE Cancels == \E b \in Callers : call[b].pc = "cancelRow"
<1>1. \A b \in Callers \ {c} : call'[b] = call[b]
  BY CallsAlone
<1>2. CASE KickCall(c)
  BY <1>2, KickCallRests
<1>3. CASE PushTurn(c)
  <2>1. queue' # <<>>
    BY <1>3 DEF PushTurn, TypeOK, QueueOK, CallOK
  <2>2. KickAhead'
    BY <1>3 DEF PushTurn, KickAhead, TypeOK, CallOK, ClientCall
  <2> QED
    BY <1>3, <2>1, <2>2, ClientRests DEF PushTurn
<1>4. CASE \/ SubmitInjected(c) \/ SubmitRefused(c) \/ SubmitRow(c)
           \/ SubmitEnqueue(c)
  <2>1. KickAhead => KickAhead'
    BY <1>1, <1>4 DEF KickAhead, SubmitInjected, SubmitRefused, SubmitRow,
       SubmitEnqueue
  <2>2. Cancels => Cancels'
    BY <1>1, <1>4 DEF SubmitInjected, SubmitRefused, SubmitRow, SubmitEnqueue
  <2>3. UNCHANGED <<drain, running, drainIdle, released, cancelled, aborted,
                    queue, noticeSlot, turnState>>
    BY <1>4 DEF SubmitInjected, SubmitRefused, SubmitRow, SubmitEnqueue
  <2> QED
    BY <2>1, <2>2, <2>3, ClientRests
<1>5. CASE CancelRow(c)
  <2>1. KickAhead => KickAhead'
    BY <1>1, <1>5 DEF KickAhead, CancelRow
  <2>2. turnState' \in {"busy", "queued"} => running \/ queue' # <<>>
    BY <1>5 DEF CancelRow, IdleState
  <2> QED
    BY <1>5, <2>1, <2>2, ClientRests DEF CancelRow
<1>6. CASE StopCaptured(c)
  <2>1. KickAhead => KickAhead'
    BY <1>1, <1>6 DEF KickAhead, StopCaptured, Return, IdleCall, TypeOK, CallOK
  <2>2. Cancels => Cancels'
    BY <1>1, <1>6 DEF StopCaptured
  <2>3. UNCHANGED <<drain, running, drainIdle, released, queue, noticeSlot,
                    turnState>>
    BY <1>6 DEF StopCaptured
  <2>4. /\ cancelled \subseteq cancelled'
        /\ aborted' => aborted \/ cancelled' # {}
    BY <1>6 DEF StopCaptured, StopActiveTurn
  <2> QED
    BY <2>1, <2>2, <2>3, <2>4, ClientRests
<1>7. CASE \/ ReleaseLatch(c) \/ ReleaseClear(c) \/ AbortAndDrain(c)
           \/ ReleaseDispose(c)
  <2>1. released'
    BY <1>7 DEF ReleaseLatch, ReleaseClear, AbortAndDrain, ReleaseDispose,
       Reins, Latched
  <2>2. UNCHANGED <<drain, running, drainIdle>> /\ cancelled \subseteq cancelled'
    BY <1>7 DEF ReleaseLatch, ReleaseClear, AbortAndDrain, ReleaseDispose
  <2> QED
    BY <2>1, <2>2, ClientRests
<1> QED
  BY <1>2, <1>3, <1>4, <1>5, <1>6, <1>7 DEF CallStep

\* The requests.
LEMMA RequestRests ==
    ASSUME TypeOK, TypeOK', Reins, Rest, NEW c \in Callers, Request(c)
    PROVE  Rest'
<1> USE DEF stateVars, turnVars, noticeVars, taskVars, outVars, sessionVars
<1> DEFINE Cancels == \E b \in Callers : call[b].pc = "cancelRow"
<1>1. \A b \in Callers \ {c} : call'[b] = call[b]
  BY CallsAlone
<1>2. call[c].pc = "idle" \/ call'[c] = call[c]
  BY RequestFromIdle
<1>3. (KickAhead => KickAhead') /\ (Cancels => Cancels')
  BY <1>1, <1>2 DEF KickAhead
<1>4. /\ UNCHANGED <<drain, running, drainIdle, released>>
      /\ cancelled \subseteq cancelled'
      /\ aborted' => aborted \/ cancelled' # {}
  <2>1. UNCHANGED <<drain, running, drainIdle, released>>
    BY DEF Request, Enqueue, Submit, CancelQueued, BeginEdit, Promote,
       Resubmit, Populate, PruneChild, Stop, PromoteNotice, Dismiss,
       ReleaseSweep
  <2>2. CASE Stop(c)
    BY <2>1, <2>2 DEF Stop, StopActiveTurn
  <2>3. CASE ~Stop(c)
    <3>1. UNCHANGED <<cancelled, aborted>>
      BY <2>3 DEF Request, Enqueue, Submit, CancelQueued, BeginEdit, Promote,
         Resubmit, Populate, PruneChild, PromoteNotice, Dismiss, ReleaseSweep
    <3> QED
      BY <2>1, <3>1
  <2> QED
    BY <2>2, <2>3
<1>5. ASSUME NEW t \in Turns, NEW keep \in BOOLEAN, Resubmit(c, t, keep)
      PROVE  Rest'
  <2>1. KickAhead'
    BY <1>5 DEF Resubmit, KickAhead, TypeOK, CallOK, ClientCall
  <2>2. turnState' \in {"busy", "queued"} => running \/ queue' # <<>>
    BY <1>5 DEF Resubmit, IdleState
  <2> QED
    BY <1>4, <1>5, <2>1, <2>2, ClientRests DEF Resubmit
<1>6. ASSUME NEW t \in Turns, Promote(c, t)
      PROVE  Rest'
  <2>1. queue' # <<>>
    BY <1>6, ConsNonEmpty, RemoveAtType DEF Promote, TypeOK, QueueOK
  <2>2. KickAhead'
    BY <1>6 DEF Promote, KickAhead, TypeOK, CallOK
  <2> QED
    BY <1>3, <1>4, <1>6, <2>1, <2>2, ClientRests DEF Promote
<1>7. ASSUME NEW t \in Turns, CancelQueued(c, t)
      PROVE  Rest'
  <2>1. Cancels'
    BY <1>7 DEF CancelQueued, TypeOK, CallOK
  <2>2. queue' # <<>> => queue # <<>>
    BY <1>7 DEF CancelQueued, TypeOK, QueueOK
  <2> QED
    BY <1>3, <1>4, <1>7, <2>1, <2>2, ClientRests DEF CancelQueued
<1>8. ASSUME NEW t \in Turns, BeginEdit(c, t)
      PROVE  Rest'
  <2>1. turnState' \in {"busy", "queued"} => running \/ queue' # <<>>
    BY <1>8 DEF BeginEdit, IdleState
  <2>2. queue' # <<>> => queue # <<>>
    BY <1>8 DEF BeginEdit, TypeOK, QueueOK
  <2> QED
    BY <1>3, <1>4, <1>8, <2>1, <2>2, ClientRests DEF BeginEdit
<1>9. ASSUME NEW t \in Turns, Enqueue(c, t) \/ Submit(c, t)
      PROVE  Rest'
  BY <1>3, <1>4, <1>9, ClientRests DEF Enqueue, Submit
<1>10. ASSUME NEW k \in Children, Populate(c, k)
       PROVE  Rest'
  <2>1. KickAhead'
    BY <1>10 DEF Populate, KickAhead, TypeOK, CallOK, ClientCall
  <2> QED
    BY <1>3, <1>4, <1>10, <2>1, ClientRests DEF Populate
<1>11. ASSUME NEW k \in Children, PruneChild(c, k)
       PROVE  Rest'
  BY <1>3, <1>4, <1>11, ClientRests DEF PruneChild
<1>12. CASE PromoteNotice(c)
  <2>1. KickAhead'
    BY <1>12 DEF PromoteNotice, KickAhead, TypeOK, CallOK
  <2> QED
    BY <1>3, <1>4, <1>12, <2>1, ClientRests DEF PromoteNotice
<1>13. CASE Stop(c) \/ Dismiss(c) \/ ReleaseSweep(c)
  <2>1. UNCHANGED <<queue, turnState>> /\ noticeSlot' \subseteq noticeSlot
    BY <1>13 DEF Stop, Dismiss, ReleaseSweep
  <2> QED
    BY <1>3, <1>4, <2>1, ClientRests
<1> QED
  BY <1>5, <1>6, <1>7, <1>8, <1>9, <1>10, <1>11, <1>12, <1>13 DEF Request

LEMMA RestHold == Spec => []Rest
<1>1. Init => Rest
  BY DEF Init, Rest, WorkOwed, NoticeOwed, BrokeStopped, StateOwed, IdleOwed,
     At, OffDrain
<1>2. TypeOK /\ TypeOK' /\ SingleDrain /\ Reins /\ Rest /\ [Next]_vars => Rest'
  <2> SUFFICES ASSUME TypeOK, TypeOK', SingleDrain, Reins, Rest, [Next]_vars
               PROVE  Rest'
    OBVIOUS
  <2>1. ASSUME NEW d \in Drains, DrainStep(d)
        PROVE  Rest'
    BY <2>1, LoopRests, TailRests
  <2>2. ASSUME NEW t \in TurnIds, DriverStep(t)
        PROVE  Rest'
    <3>1. UNCHANGED <<drain, call, running, drainIdle, released, cancelled,
                      aborted, queue, noticeSlot, turnState>>
      BY <2>2 DEF DriverStep, DriverConnect, DriverPrompt, DriverError,
         DriverResult, DriverQuit, stateVars, turnVars, noticeVars, sessionVars
    <3> QED
      BY <3>1 DEF Rest, WorkOwed, NoticeOwed, BrokeStopped, StateOwed,
         IdleOwed, At, KickAhead
  <2>3. CASE UNCHANGED vars
    BY <2>3 DEF vars, stateVars, turnVars, noticeVars, taskVars, sessionVars,
       Rest, WorkOwed, NoticeOwed, BrokeStopped, StateOwed, IdleOwed, At,
       KickAhead
  <2> QED
    BY <2>1, <2>2, <2>3, CallRests, RequestRests DEF Next
<1> QED
  BY <1>1, <1>2, TypeCorrect, SingleOwner, ReinsHold, PTL DEF Spec

\* A session at rest has run everything it was sent: whoever found it busy and
\* left work behind is answered by the re-kick of the drain that was ending.
THEOREM NothingStranded == Spec => []NoStrandedQueue
<1>1. TypeOK /\ SingleDrain /\ Reins /\ Rest => NoStrandedQueue
  BY DEF NoStrandedQueue, Quiet, TypeOK, TurnOK, SingleDrain, InLoop, LoopPcs,
     TailPcs, At, Rest, WorkOwed, StateOwed, IdleOwed, KickAhead, Reins,
     ActiveRuns, Runs, TurnPcs
<1> QED
  BY <1>1, TypeCorrect, SingleOwner, ReinsHold, RestHold, PTL

\* ... and the notices of its children, unless a turn was stopped.
THEOREM NoticesAnnounced == Spec => []NoticeNotForgotten
<1>1. SingleDrain /\ Rest => NoticeNotForgotten
  BY DEF NoticeNotForgotten, Quiet, SingleDrain, InLoop, LoopPcs, TailPcs, At,
     Rest, NoticeOwed, KickAhead
<1> QED
  BY <1>1, SingleOwner, RestHold, PTL

-----------------------------------------------------------------------------
(* What the operations on the queue do to the turns in it.                  *)

\* Taking out one element: the others stay, once each if they were there once.
LEMMA RemoveAtSet ==
    ASSUME NEW S, NEW s \in Seq(S), NEW i \in DOMAIN s
    PROVE  /\ ToSet(RemoveAt(s, i)) \subseteq ToSet(s)
           /\ ToSet(s) \ {s[i]} \subseteq ToSet(RemoveAt(s, i))
           /\ IsInjective(s) => /\ IsInjective(RemoveAt(s, i))
                                /\ s[i] \notin ToSet(RemoveAt(s, i))
<1> DEFINE r == RemoveAt(s, i)
           a == SubSeq(s, 1, i - 1)
           b == SubSeq(s, i + 1, Len(s))
           n == Len(s)
<1>1. /\ DOMAIN s = 1..n /\ n \in Nat /\ i \in 1..n
      /\ \A j \in 1..n : s[j] \in S
  BY LenProperties, ElementOfSeq
<1>2. /\ a \in Seq(S) /\ Len(a) = i - 1
      /\ \A j \in 1..(i - 1) : a[j] = s[j]
  <2>1. \A j \in 1..(i - 1) : s[j] \in S
    BY <1>1
  <2> QED
    BY <1>1, <2>1, SubSeqProperties
<1>3. /\ b \in Seq(S) /\ Len(b) = n - i
      /\ \A j \in 1..(n - i) : b[j] = s[i + j]
  <2>1. \A j \in (i + 1)..n : s[j] \in S
    BY <1>1
  <2> QED
    BY <1>1, <2>1, SubSeqProperties
<1>10. r = a \o b
  BY DEF RemoveAt
<1> HIDE DEF r, a, b
<1>11. /\ r \in Seq(S) /\ Len(r) = Len(a) + Len(b)
       /\ \A j \in 1..(Len(a) + Len(b)) :
            r[j] = IF j <= Len(a) THEN a[j] ELSE b[j - Len(a)]
  <2>1. a \in Seq(S) /\ b \in Seq(S)
    BY <1>2, <1>3
  <2> QED
    BY <1>10, <2>1, ConcatProperties
<1>4. r \in Seq(S) /\ Len(r) = n - 1 /\ DOMAIN r = 1..(n - 1)
  <2>1. r \in Seq(S) /\ Len(r) = (i - 1) + (n - i)
    BY <1>2, <1>3, <1>11
  <2>2. DOMAIN r = 1..Len(r)
    BY <2>1, LenProperties
  <2> QED
    BY <1>1, <2>1, <2>2
<1>5. \A j \in 1..(n - 1) : r[j] = IF j < i THEN s[j] ELSE s[j + 1]
  <2>1. \A j \in 1..((i - 1) + (n - i)) :
          r[j] = IF j <= i - 1 THEN a[j] ELSE b[j - (i - 1)]
    BY <1>2, <1>3, <1>11
  <2>4. (i - 1) + (n - i) = n - 1
    BY <1>1
  <2> SUFFICES ASSUME NEW j \in 1..(n - 1)
               PROVE  r[j] = IF j < i THEN s[j] ELSE s[j + 1]
    OBVIOUS
  <2>2. CASE j < i
    <3>1. j \in 1..(i - 1) /\ j <= i - 1
      BY <1>1, <2>2
    <3> QED
      BY <2>1, <2>4, <2>2, <3>1, <1>2
  <2>3. CASE ~(j < i)
    <3>1. /\ j - (i - 1) \in 1..(n - i) /\ ~(j <= i - 1)
          /\ i + (j - (i - 1)) = j + 1
      BY <1>1, <2>3
    <3> QED
      BY <2>1, <2>4, <2>3, <3>1, <1>3
  <2> QED
    BY <2>2, <2>3
<1>6. ToSet(r) \subseteq ToSet(s)
  BY <1>1, <1>4, <1>5 DEF ToSet
<1>7. ToSet(s) \ {s[i]} \subseteq ToSet(r)
  <2> SUFFICES ASSUME NEW k \in 1..n, s[k] # s[i]
               PROVE  \E j \in 1..(n - 1) : r[j] = s[k]
    BY <1>1, <1>4 DEF ToSet
  <2>1. CASE k < i
    BY <1>1, <1>5, <2>1
  <2>2. CASE k > i
    <3>1. /\ k - 1 \in 1..(n - 1) /\ ~(k - 1 < i) /\ (k - 1) + 1 = k
      BY <1>1, <2>2
    <3> QED
      BY <1>5, <3>1
  <2> QED
    BY <1>1, <2>1, <2>2
<1>8. ASSUME IsInjective(s)
      PROVE  IsInjective(r) /\ s[i] \notin ToSet(r)
  <2> DEFINE f(j) == IF j < i THEN j ELSE j + 1
  <2>1. \A j \in 1..(n - 1) : f(j) \in 1..n /\ f(j) # i /\ r[j] = s[f(j)]
    BY <1>1, <1>5
  <2>2. \A j, k \in 1..(n - 1) : f(j) = f(k) => j = k
    BY <1>1
  <2> HIDE DEF f
  <2>3. \A j, k \in 1..n : s[j] = s[k] => j = k
    BY <1>1, <1>8 DEF IsInjective
  <2>4. \A j, k \in 1..(n - 1) : r[j] = r[k] => j = k
    BY <2>1, <2>2, <2>3
  <2>5. \A j \in 1..(n - 1) : r[j] # s[i]
    BY <1>1, <2>1, <2>3
  <2> QED
    BY <1>4, <2>4, <2>5 DEF IsInjective, ToSet
<1> QED
  BY <1>6, <1>7, <1>8 DEF r

\* Putting one in: it and the others are there.
LEMMA InsertAtSet ==
    ASSUME NEW S, NEW s \in Seq(S), NEW e \in S, NEW i \in 1..(Len(s) + 1)
    PROVE  /\ ToSet(InsertAt(s, i, e)) = ToSet(s) \cup {e}
           /\ InsertAt(s, i, e) # <<>>
           /\ IsInjective(s) /\ e \notin ToSet(s) =>
                  IsInjective(InsertAt(s, i, e))
<1> DEFINE r == InsertAt(s, i, e)
           a == SubSeq(s, 1, i - 1)
           b == SubSeq(s, i, Len(s))
           n == Len(s)
<1>1. /\ DOMAIN s = 1..n /\ n \in Nat /\ i \in 1..(n + 1)
      /\ \A j \in 1..n : s[j] \in S
  BY LenProperties, ElementOfSeq
<1>2. /\ a \in Seq(S) /\ Len(a) = i - 1
      /\ \A j \in 1..(i - 1) : a[j] = s[j]
  <2>1. \A j \in 1..(i - 1) : s[j] \in S
    BY <1>1
  <2> QED
    BY <1>1, <2>1, SubSeqProperties
<1>3. /\ b \in Seq(S) /\ Len(b) = n - i + 1
      /\ \A j \in 1..(n - i + 1) : b[j] = s[i + j - 1]
  <2>1. \A j \in i..n : s[j] \in S
    BY <1>1
  <2> QED
    BY <1>1, <2>1, SubSeqProperties
<1>4. <<e>> \in Seq(S) /\ Len(<<e>>) = 1 /\ <<e>>[1] = e
  OBVIOUS
<1>5. /\ a \o <<e>> \in Seq(S) /\ Len(a \o <<e>>) = i
      /\ \A j \in 1..i : (a \o <<e>>)[j] = IF j < i THEN s[j] ELSE e
  <2>1. /\ a \o <<e>> \in Seq(S) /\ Len(a \o <<e>>) = i
        /\ \A j \in 1..i : (a \o <<e>>)[j] =
               IF j <= i - 1 THEN a[j] ELSE <<e>>[j - (i - 1)]
    BY <1>1, <1>2, <1>4, ConcatProperties
  <2>2. \A j \in 1..i : IF j < i THEN j \in 1..(i - 1) /\ j <= i - 1
                        ELSE j - (i - 1) = 1 /\ ~(j <= i - 1)
    BY <1>1
  <2> QED
    BY <1>2, <1>4, <2>1, <2>2
<1>12. r = (a \o <<e>>) \o b
  BY DEF InsertAt
<1> HIDE DEF r, a, b
<1>6. /\ r \in Seq(S) /\ Len(r) = n + 1
      /\ \A j \in 1..(n + 1) : r[j] = IF j <= i THEN (a \o <<e>>)[j] ELSE b[j - i]
  <2>1. /\ r \in Seq(S) /\ Len(r) = i + (n - i + 1)
        /\ \A j \in 1..(i + (n - i + 1)) :
             r[j] = IF j <= i THEN (a \o <<e>>)[j] ELSE b[j - i]
    BY <1>3, <1>5, <1>12, ConcatProperties
  <2>2. i + (n - i + 1) = n + 1
    BY <1>1
  <2> QED
    BY <2>1, <2>2
<1>7. \A j \in 1..(n + 1) :
        r[j] = IF j < i THEN s[j] ELSE IF j = i THEN e ELSE s[j - 1]
  <2> SUFFICES ASSUME NEW j \in 1..(n + 1)
               PROVE  r[j] = IF j < i THEN s[j]
                             ELSE IF j = i THEN e ELSE s[j - 1]
    OBVIOUS
  <2>1. CASE j <= i
    <3>1. j \in 1..i /\ (j < i \/ j = i)
      BY <1>1, <2>1
    <3>2. r[j] = (a \o <<e>>)[j]
      BY <1>6, <2>1
    <3>3. (a \o <<e>>)[j] = IF j < i THEN s[j] ELSE e
      BY <1>5, <3>1
    <3> QED
      BY <1>1, <3>1, <3>2, <3>3
  <2>2. CASE ~(j <= i)
    <3>1. /\ j - i \in 1..(n - i + 1) /\ i + (j - i) - 1 = j - 1
          /\ ~(j < i) /\ j # i
      BY <1>1, <2>2
    <3> QED
      BY <1>3, <1>6, <2>2, <3>1
  <2> QED
    BY <2>1, <2>2
<1>8. DOMAIN r = 1..(n + 1) /\ r # <<>>
  BY <1>1, <1>6, LenProperties, EmptySeq
<1>9. ToSet(r) \subseteq ToSet(s) \cup {e}
  <2> SUFFICES ASSUME NEW j \in 1..(n + 1), r[j] # e
               PROVE  \E k \in 1..n : s[k] = r[j]
    BY <1>1, <1>8 DEF ToSet
  <2>1. CASE j < i
    BY <1>1, <1>7, <2>1
  <2>2. CASE j > i
    <3>1. j - 1 \in 1..n
      BY <1>1, <2>2
    <3> QED
      BY <1>1, <1>7, <2>2, <3>1
  <2> QED
    BY <1>1, <1>7, <2>1, <2>2
<1>10. ToSet(s) \cup {e} \subseteq ToSet(r)
  <2>1. r[i] = e
    BY <1>1, <1>7
  <2>2. ASSUME NEW k \in 1..n
        PROVE  \E j \in 1..(n + 1) : r[j] = s[k]
    <3>1. CASE k < i
      BY <1>1, <1>7, <3>1
    <3>2. CASE ~(k < i)
      <4>1. k + 1 \in 1..(n + 1) /\ ~(k + 1 < i) /\ k + 1 # i /\ (k + 1) - 1 = k
        BY <1>1, <3>2
      <4> QED
        BY <1>7, <4>1
    <3> QED
      BY <3>1, <3>2
  <2> QED
    BY <1>1, <1>8, <2>1, <2>2 DEF ToSet
<1>11. ASSUME IsInjective(s), e \notin ToSet(s)
       PROVE  IsInjective(r)
  <2>1. \A j, k \in 1..n : s[j] = s[k] => j = k
    BY <1>1, <1>11 DEF IsInjective
  <2>2. \A k \in 1..n : s[k] # e
    BY <1>1, <1>11 DEF ToSet
  <2> SUFFICES ASSUME NEW j \in 1..(n + 1), NEW k \in 1..(n + 1), r[j] = r[k]
               PROVE  j = k
    BY <1>8 DEF IsInjective
  <2> DEFINE f(m) == IF m < i THEN m ELSE m - 1
  <2>3. \A m \in 1..(n + 1) : m # i => f(m) \in 1..n /\ r[m] = s[f(m)]
    BY <1>1, <1>7
  <2>4. r[i] = e
    BY <1>1, <1>7
  <2>5. CASE j = i \/ k = i
    BY <2>2, <2>3, <2>4, <2>5
  <2>6. CASE j # i /\ k # i
    <3>1. f(j) = f(k)
      BY <2>1, <2>3, <2>6
    <3> QED
      BY <1>1, <2>6, <3>1
  <2> QED
    BY <2>5, <2>6
<1> QED
  BY <1>8, <1>9, <1>10, <1>11 DEF r

\* Putting one in front.
LEMMA ConsSet ==
    ASSUME NEW S, NEW s \in Seq(S), NEW e \in S
    PROVE  /\ ToSet(Cons(e, s)) = ToSet(s) \cup {e}
           /\ IsInjective(s) /\ e \notin ToSet(s) => IsInjective(Cons(e, s))
<1> DEFINE n == Len(s)
<1>1. /\ DOMAIN s = 1..n /\ n \in Nat /\ \A j \in 1..n : s[j] \in S
  BY LenProperties, ElementOfSeq
<1>2. <<e>> \in Seq(S) /\ Len(<<e>>) = 1 /\ <<e>>[1] = e
  OBVIOUS
<1>3. /\ Cons(e, s) \in Seq(S) /\ Len(Cons(e, s)) = 1 + n
      /\ \A j \in 1..(1 + n) :
           Cons(e, s)[j] = IF j <= 1 THEN <<e>>[j] ELSE s[j - 1]
  BY <1>2, ConcatProperties DEF Cons
<1>4. DOMAIN Cons(e, s) = 1..(1 + n)
  BY <1>1, <1>3, LenProperties
<1>5. Cons(e, s)[1] = e /\ \A j \in 2..(1 + n) : Cons(e, s)[j] = s[j - 1]
  BY <1>1, <1>2, <1>3
<1> DEFINE r == Cons(e, s)
<1> HIDE DEF r
<1>6. /\ DOMAIN r = 1..(1 + n) /\ r[1] = e
      /\ \A j \in 2..(1 + n) : r[j] = s[j - 1]
  BY <1>4, <1>5 DEF r
<1>7. \A j \in 1..(1 + n) : j = 1 \/ (j \in 2..(1 + n) /\ j - 1 \in 1..n)
  BY <1>1
<1>8. \A k \in 1..n : k + 1 \in 2..(1 + n) /\ (k + 1) - 1 = k
  BY <1>1
<1>9. ToSet(r) = ToSet(s) \cup {e}
  <2>1. ToSet(r) \subseteq ToSet(s) \cup {e}
    BY <1>1, <1>6, <1>7 DEF ToSet
  <2>2. e \in ToSet(r)
    BY <1>1, <1>6 DEF ToSet
  <2>3. ASSUME NEW k \in 1..n
        PROVE  s[k] \in ToSet(r)
    <3>1. k + 1 \in 1..(1 + n) /\ r[k + 1] = s[k]
      BY <1>1, <1>6, <1>8
    <3> QED
      BY <1>6, <3>1 DEF ToSet
  <2> QED
    BY <1>1, <2>1, <2>2, <2>3 DEF ToSet
<1>10. ASSUME IsInjective(s), e \notin ToSet(s)
       PROVE  IsInjective(r)
  <2>1. /\ \A j, k \in 1..n : s[j] = s[k] => j = k
        /\ \A k \in 1..n : s[k] # e
    BY <1>1, <1>10 DEF IsInjective, ToSet
  <2> SUFFICES ASSUME NEW j \in 1..(1 + n), NEW k \in 1..(1 + n), r[j] = r[k]
               PROVE  j = k
    BY <1>6 DEF IsInjective
  <2>2. CASE j = 1 \/ k = 1
    BY <1>6, <1>7, <2>1, <2>2
  <2>3. CASE j # 1 /\ k # 1
    <3>1. j - 1 = k - 1
      BY <1>6, <1>7, <2>1, <2>3
    <3> QED
      BY <1>1, <3>1
  <2> QED
    BY <2>2, <2>3
<1> QED
  BY <1>9, <1>10 DEF r

\* Putting one at the end.
LEMMA AppendSet ==
    ASSUME NEW S, NEW s \in Seq(S), NEW e \in S
    PROVE  /\ ToSet(Append(s, e)) = ToSet(s) \cup {e}
           /\ IsInjective(s) /\ e \notin ToSet(s) => IsInjective(Append(s, e))
<1> DEFINE n == Len(s)
           r == Append(s, e)
<1>1. DOMAIN s = 1..n /\ n \in Nat
  BY LenProperties
<1>2. /\ DOMAIN r = 1..(n + 1) /\ r[n + 1] = e
      /\ \A j \in 1..n : r[j] = s[j]
  OBVIOUS
<1> HIDE DEF r
<1>3. \A j \in 1..(n + 1) : j \in 1..n \/ j = n + 1
  BY <1>1
<1>4. 1..n \subseteq 1..(n + 1) /\ n + 1 \in 1..(n + 1)
  BY <1>1
<1>5. ToSet(r) = ToSet(s) \cup {e}
  BY <1>1, <1>2, <1>3, <1>4 DEF ToSet
<1>6. IsInjective(s) /\ e \notin ToSet(s) => IsInjective(r)
  BY <1>1, <1>2, <1>3 DEF ToSet, IsInjective
<1> QED
  BY <1>5, <1>6 DEF r

\* Taking the first.
LEMMA TailSet ==
    ASSUME NEW S, NEW s \in Seq(S), s # <<>>
    PROVE  /\ Head(s) \in ToSet(s)
           /\ ToSet(s) = ToSet(Tail(s)) \cup {Head(s)}
           /\ IsInjective(s) => /\ IsInjective(Tail(s))
                                /\ Head(s) \notin ToSet(Tail(s))
<1> DEFINE n == Len(s)
           r == Tail(s)
<1>1. DOMAIN s = 1..n /\ n \in Nat \ {0} /\ Head(s) = s[1]
  BY LenProperties, EmptySeq
<1>2. /\ DOMAIN r = 1..(n - 1)
      /\ \A j \in 1..(n - 1) : r[j] = s[j + 1]
  BY <1>1, HeadTailProperties, LenProperties
<1> HIDE DEF r
<1>3. \A j \in 1..(n - 1) : j + 1 \in 1..n /\ j + 1 # 1
  BY <1>1
<1>4. \A k \in 1..n : k = 1 \/ (k - 1 \in 1..(n - 1) /\ (k - 1) + 1 = k)
  BY <1>1
<1>5. 1 \in 1..n
  BY <1>1
<1>6. Head(s) \in ToSet(s)
  BY <1>1, <1>5 DEF ToSet
<1>7. ToSet(r) \subseteq ToSet(s)
  BY <1>1, <1>2, <1>3 DEF ToSet
<1>8. ToSet(s) \subseteq ToSet(r) \cup {Head(s)}
  <2>1. ASSUME NEW k \in 1..n, k # 1
        PROVE  s[k] \in ToSet(r)
    <3>1. r[k - 1] = s[k] /\ k - 1 \in 1..(n - 1)
      BY <1>2, <1>4, <2>1
    <3> QED
      BY <1>2, <3>1 DEF ToSet
  <2>2. s[1] \in {Head(s)}
    BY <1>1
  <2> QED
    BY <1>1, <2>1, <2>2 DEF ToSet
<1>9. ASSUME IsInjective(s)
      PROVE  IsInjective(r) /\ Head(s) \notin ToSet(r)
  <2>1. \A j, k \in 1..n : s[j] = s[k] => j = k
    BY <1>1, <1>9 DEF IsInjective
  <2>2. \A j, k \in 1..(n - 1) : r[j] = r[k] => j = k
    <3> SUFFICES ASSUME NEW j \in 1..(n - 1), NEW k \in 1..(n - 1), r[j] = r[k]
                 PROVE  j = k
      OBVIOUS
    <3>1. j + 1 = k + 1
      BY <1>2, <1>3, <2>1
    <3> QED
      BY <1>1, <3>1
  <2>3. \A j \in 1..(n - 1) : r[j] # s[1]
    BY <1>2, <1>3, <1>5, <2>1
  <2> QED
    BY <1>1, <1>2, <2>2, <2>3 DEF IsInjective, ToSet
<1> QED
  BY <1>6, <1>7, <1>8, <1>9 DEF r

-----------------------------------------------------------------------------
(* Review comments.                                                         *)

\* A call in one of these steps has a turn in hand.
CallHandPcs == {"steerRpc", "steerRow", "enqueue", "push", "cancelRow"}

\* Only turns that were sent wait, or are in the hands of a call.
KnownTurns ==
    /\ ToSet(queue) \cup held \subseteq accepted
    /\ \A c \in Callers :
         call[c].pc \in CallHandPcs => call[c].turn \in accepted

\* A head that is being steered was sent without comments.
SteeredPlain ==
    \A d \in Drains : At(d, "steerRpc") => drain[d].head \in accepted \ carries

\* The comments of t have neither gone with it nor back to the panel.
Unsettled(t) == t \in accepted \cap ReviewTurns /\ reports[t] = {}

\* Somebody has t in hand who is going to settle them, or t waits.
InSight(t) ==
    \/ t \in ToSet(queue) \cup held
    \/ \E c \in Callers :
         call[c].pc \in {"push", "cancelRow"} /\ call[c].turn = t
    \/ \E d \in Drains : At(d, "row") /\ drain[d].turn = t

CommentsInSight == \A t \in Turns : Unsettled(t) => t \in carries /\ InSight(t)

\* After the abort of a release nothing that waits is unsettled: a turn pushed
\* or popped late is settled on the spot.
SweptSettled ==
    released /\ ~AbortAhead =>
        \A t \in ToSet(queue) \cup held : ~Unsettled(t)

Review == KnownTurns /\ SteeredPlain /\ CommentsInSight /\ SweptSettled

\* What the observer was told is not taken back, and who is told of a turn
\* that carries comments knows.
LEMMA ReportTells ==
    ASSUME TypeOK, NEW T, NEW o, reports' = Report(T, o), NEW t \in Turns
    PROVE  /\ reports[t] \subseteq reports'[t]
           /\ t \in T \cap carries => reports'[t] # {}
  BY DEF Report

\* A step that moves no turn and settles no comments.
LEMMA ReviewStays ==
    ASSUME Review, TypeOK,
           UNCHANGED <<queue, held, carries, reports>>,
           accepted \subseteq accepted',
           accepted' \cap ReviewTurns \subseteq accepted,
           \A d \in Drains : At(d, "row") \/ drain'[d].pc \in {"row", "steerRpc"}
                               => drain'[d] = drain[d],
           \A c \in Callers : call[c].pc \in {"push", "cancelRow"}
                                => call'[c] = call[c],
           \A c \in Callers : call'[c].pc \in CallHandPcs =>
               \/ call'[c].turn \in accepted'
               \/ call[c].pc \in CallHandPcs /\ call'[c].turn = call[c].turn,
           released' /\ ~AbortAhead' => released /\ ~AbortAhead
    PROVE  Review'
<1> USE DEF Review
<1>1. KnownTurns'
  BY DEF KnownTurns
<1>2. SteeredPlain'
  BY DEF SteeredPlain, At
<1>3. \A t : Unsettled(t)' => Unsettled(t)
  BY DEF Unsettled
<1>4. \A t \in Turns : InSight(t) => InSight(t)'
  BY DEF InSight, At
<1>5. CommentsInSight'
  BY <1>3, <1>4 DEF CommentsInSight
<1>6. SweptSettled'
  BY <1>3 DEF SweptSettled
<1> QED
  BY <1>1, <1>2, <1>5, <1>6

\* The steps of a drain task: it pops, writes a row and steers; the others
\* move no turn.
LEMMA ReviewDrain ==
    ASSUME TypeOK, Review, NEW d \in Drains, DrainStep(d)
    PROVE  Review'
<1> USE DEF stateVars, turnVars, noticeVars, taskVars, outVars, sessionVars
<1>1. UNCHANGED <<call, released>>
  BY DrainsAlone
<1>2. UNCHANGED AbortAhead
  BY <1>1 DEF AbortAhead
<1>3. CASE DrainPop(d) /\ queue # <<>>
  <2>1. /\ UNCHANGED <<held, carries, reports, accepted>>
        /\ queue' = Tail(queue)
        /\ drain'[d].pc = "row" /\ drain'[d].turn = Head(queue)
        /\ drain[d].pc = "pop"
        /\ \A e \in Drains \ {d} : drain'[e] = drain[e]
    BY <1>3 DEF DrainPop, PopHead, At, TypeOK, DrainOK, DrainTask
  <2>2. ToSet(queue) = ToSet(queue') \cup {Head(queue)}
    BY <1>3, <2>1, TailSet DEF TypeOK, QueueOK
  <2>3. KnownTurns'
    BY <1>1, <2>1, <2>2 DEF Review, KnownTurns
  <2>4. SteeredPlain'
    BY <2>1 DEF Review, SteeredPlain, At
  <2>5. \A t : Unsettled(t)' <=> Unsettled(t)
    BY <2>1 DEF Unsettled
  <2>6. ASSUME NEW t, InSight(t)
        PROVE  InSight(t)'
    <3>1. CASE t = Head(queue)
      BY <2>1, <3>1 DEF InSight, At
    <3>2. CASE t # Head(queue)
      BY <1>1, <2>1, <2>2, <2>6, <3>2 DEF InSight, At
    <3> QED
      BY <3>1, <3>2
  <2>7. CommentsInSight'
    BY <2>1, <2>5, <2>6 DEF Review, CommentsInSight
  <2>8. SweptSettled'
    BY <1>1, <1>2, <2>1, <2>2, <2>5 DEF Review, SweptSettled
  <2> QED
    BY <2>3, <2>4, <2>7, <2>8 DEF Review
<1>4. CASE DrainRow(d)
  <2>8. PICK t \in Turns : t = drain[d].turn
    BY <1>4 DEF DrainRow, At, TypeOK, DrainOK, KnowsTurn
  <2>1. /\ UNCHANGED <<queue, held, accepted>>
        /\ \E o \in {"persisted", "cancelled"} : reports' = Report({t}, o)
        /\ carries \ {t} \subseteq carries' /\ carries' \subseteq carries
        /\ drain'[d].pc \notin {"row", "steerRpc"}
        /\ \A e \in Drains \ {d} : drain'[e] = drain[e]
    BY <1>4, <2>8 DEF DrainRow, WithoutReview, TypeOK, DrainOK, DrainTask
  <2>2. \A u \in Turns : Unsettled(u)' => Unsettled(u)
    BY <2>1, ReportTells DEF Unsettled
  <2>3. ~Unsettled(t)'
    <3>1. Unsettled(t)' => t \in {t} \cap carries
      BY <2>2 DEF Review, CommentsInSight
    <3> QED
      BY <2>1, <3>1, ReportTells DEF Unsettled
  <2>4. KnownTurns' /\ SteeredPlain'
    BY <1>1, <2>1 DEF Review, KnownTurns, SteeredPlain, At
  <2>5. ASSUME NEW u \in Turns, u # t, InSight(u)
        PROVE  InSight(u)'
    BY <1>1, <2>1, <2>5, <2>8 DEF InSight, At
  <2>6. CommentsInSight'
    <3> SUFFICES ASSUME NEW u \in Turns, Unsettled(u)'
                 PROVE  u \in carries' /\ InSight(u)'
      BY DEF CommentsInSight
    <3>1. u # t /\ Unsettled(u)
      BY <2>2, <2>3
    <3>2. u \in carries /\ InSight(u)
      BY <3>1 DEF Review, CommentsInSight
    <3> QED
      BY <2>1, <2>5, <3>1, <3>2
  <2>7. SweptSettled'
    BY <1>1, <1>2, <2>1, <2>2, TurnAssumption DEF Review, SweptSettled,
       Unsettled
  <2> QED
    BY <2>4, <2>6, <2>7 DEF Review
<1>5. CASE SteerInjected(d)
  <2>9. PICK h \in Turns : h = drain[d].head
    BY <1>5 DEF SteerInjected, At, TypeOK, DrainOK, KnowsTurn
  <2>1. /\ UNCHANGED <<held, carries, accepted, reports>>
        /\ drain[d].pc = "steerRpc" /\ drain'[d].pc = "steerRow"
        /\ \A e \in Drains \ {d} : drain'[e] = drain[e]
    BY <1>5 DEF SteerInjected, Goto, At, TypeOK, DrainOK, DrainTask
  <2>2. /\ ToSet(queue') \subseteq ToSet(queue)
        /\ ToSet(queue) \ {h} \subseteq ToSet(queue')
    BY <1>5, <2>9, RemoveAtSet DEF SteerInjected, HeadOut, TypeOK, QueueOK
  <2>3. KnownTurns' /\ SteeredPlain'
    BY <1>1, <2>1, <2>2 DEF Review, KnownTurns, SteeredPlain, At
  <2>4. \A u : Unsettled(u)' <=> Unsettled(u)
    BY <2>1 DEF Unsettled
  <2>5. \A u \in Turns : Unsettled(u) => u # h
    BY <2>1, <2>9 DEF Review, CommentsInSight, SteeredPlain, At
  <2>6. ASSUME NEW u \in Turns, u # h, InSight(u)
        PROVE  InSight(u)'
    BY <1>1, <2>1, <2>2, <2>6 DEF InSight, At
  <2>7. CommentsInSight'
    BY <2>1, <2>4, <2>5, <2>6 DEF Review, CommentsInSight
  <2>8. SweptSettled'
    BY <1>1, <1>2, <2>1, <2>2, <2>4 DEF Review, SweptSettled
  <2> QED
    BY <2>3, <2>7, <2>8 DEF Review
<1>6. CASE SteerCheck(d)
  <2>1. /\ UNCHANGED <<queue, held, carries, accepted, reports>>
        /\ drain[d].pc = "steer" /\ drain'[d].pc # "row"
        /\ drain'[d].pc = "steerRpc" =>
             /\ queue # <<>> /\ Head(queue) \notin carries
             /\ drain'[d].head = Head(queue)
        /\ \A e \in Drains \ {d} : drain'[e] = drain[e]
    BY <1>6 DEF SteerCheck, HeadSteers, Goto, At, TypeOK, DrainOK, DrainTask
  <2>2. queue # <<>> => Head(queue) \in accepted
    BY TailSet DEF TypeOK, QueueOK, Review, KnownTurns
  <2>3. KnownTurns' /\ SteeredPlain'
    BY <1>1, <2>1, <2>2 DEF Review, KnownTurns, SteeredPlain, At
  <2>4. \A u : Unsettled(u)' <=> Unsettled(u)
    BY <2>1 DEF Unsettled
  <2>5. \A u : InSight(u) => InSight(u)'
    BY <1>1, <2>1 DEF InSight, At
  <2>6. CommentsInSight'
    BY <2>1, <2>4, <2>5 DEF Review, CommentsInSight
  <2>7. SweptSettled'
    BY <1>1, <1>2, <2>1, <2>4 DEF Review, SweptSettled
  <2> QED
    BY <2>3, <2>6, <2>7 DEF Review
<1>7. CASE DrainPop(d) /\ queue = <<>>
  <2>1. UNCHANGED <<queue, held, carries, reports, accepted>>
    BY <1>7 DEF DrainPop
  <2>2. /\ drain[d].pc = "pop" /\ drain'[d].pc = "after"
        /\ \A e \in Drains \ {d} : drain'[e] = drain[e]
    BY <1>7 DEF DrainPop, Goto, At, TypeOK, DrainOK, DrainTask
  <2> QED
    BY <1>1, <1>2, <2>1, <2>2, ReviewStays DEF At
<1>8. CASE /\ ~DrainPop(d) /\ ~DrainRow(d) /\ ~SteerInjected(d)
           /\ ~SteerCheck(d) /\ ~DrainRekick(d)
  <2>1. UNCHANGED <<queue, held, carries, reports>>
    BY <1>8 DEF DrainStep, DrainStart, DrainTop, DrainInner, DrainBegin,
       TurnStep, TurnStopped, TurnWoken, TurnEvent, TurnClosed, TurnEnd,
       SteerStep, SteerRow, SteerTooEarly, SteerFailed, DrainAfter, DrainFlag,
       DrainLeft, NoticeStep, DrainPromo, DrainSlot, TakeNotice, PruneNotice,
       DrainFin, DrainSignal
  <2>2. /\ accepted \subseteq accepted'
        /\ accepted' \subseteq accepted \cup NoticeIds
    BY <1>8 DEF DrainStep, DrainStart, DrainTop, DrainInner, DrainBegin,
       TurnStep, TurnStopped, TurnWoken, TurnEvent, TurnClosed, TurnEnd,
       SteerStep, SteerRow, SteerTooEarly, SteerFailed, DrainAfter, DrainFlag,
       DrainLeft, NoticeStep, DrainPromo, DrainSlot, TakeNotice, PruneNotice,
       DrainFin, DrainSignal
  <2>3. \A e \in Drains \ {d} : drain'[e] = drain[e]
    BY <1>8 DEF DrainStep, DrainStart, DrainTop, DrainInner, DrainBegin,
       TurnStep, TurnStopped, TurnWoken, TurnEvent, TurnClosed, TurnEnd,
       SteerStep, SteerRow, SteerTooEarly, SteerFailed, DrainAfter, DrainFlag,
       DrainLeft, NoticeStep, DrainPromo, DrainSlot, TakeNotice, PruneNotice,
       DrainFin, DrainSignal, Goto, TypeOK, DrainOK
  <2>4. drain[d].pc # "row"
    BY <1>8 DEF DrainStep, DrainStart, DrainTop, DrainInner, DrainBegin,
       TurnStep, TurnStopped, TurnWoken, TurnEvent, TurnClosed, TurnEnd,
       SteerStep, SteerRow, SteerTooEarly, SteerFailed, DrainAfter, DrainFlag,
       DrainLeft, NoticeStep, DrainPromo, DrainSlot, TakeNotice, PruneNotice,
       DrainFin, DrainSignal, At
  <2>5. drain'[d].pc \notin {"row", "steerRpc"}
    <3> USE DEF TypeOK, DrainOK, DrainTask, At, Goto
    <3>1. CASE DrainStart(d) \/ DrainTop(d) \/ DrainInner(d) \/ DrainBegin(d)
      <4>1. CASE DrainStart(d)
        BY <4>1 DEF DrainStart
      <4>2. CASE DrainTop(d)
        BY <4>2 DEF DrainTop
      <4>3. CASE DrainInner(d)
        BY <4>3 DEF DrainInner
      <4>4. CASE DrainBegin(d)
        BY <4>4 DEF DrainBegin
      <4> QED
        BY <3>1, <4>1, <4>2, <4>3, <4>4
    <3>2. CASE TurnStep(d)
      BY <3>2 DEF TurnStep, TurnStopped, TurnWoken, TurnEvent, TurnClosed,
         TurnEnd, OffDrain
    <3>3. CASE SteerStep(d)
      BY <1>8, <3>3 DEF SteerStep, SteerRow, SteerTooEarly, SteerFailed
    <3>4. CASE DrainAfter(d) \/ DrainFlag(d) \/ DrainLeft(d)
      BY <3>4 DEF DrainAfter, DrainFlag, AfterFlag, DrainLeft
    <3>5. CASE NoticeStep(d)
      <4>1. CASE DrainPromo(d) \/ DrainSlot(d) \/ TakeNotice(d)
        BY <4>1 DEF DrainPromo, DrainSlot, TakeNotice
      <4>2. CASE PruneNotice(d)
        BY <4>2 DEF PruneNotice
      <4> QED
        BY <3>5, <4>1, <4>2 DEF NoticeStep
    <3>6. CASE DrainFin(d) \/ DrainSignal(d)
      BY <3>6 DEF DrainFin, DrainSignal
    <3> QED
      BY <1>8, <3>1, <3>2, <3>3, <3>4, <3>5, <3>6 DEF DrainStep
  <2>6. accepted' \cap ReviewTurns \subseteq accepted
    BY <2>2, TurnAssumption
  <2> QED
    BY <1>1, <1>2, <2>1, <2>2, <2>3, <2>4, <2>5, <2>6, ReviewStays DEF At
<1>9. CASE DrainRekick(d)
  <2>1. UNCHANGED <<queue, held, carries, reports, accepted>>
    BY <1>9 DEF DrainRekick
  <2> DEFINE ds == [drain EXCEPT ![d] = OffDrain]
             r == [OffDrain EXCEPT !.pc = "start"]
  <2>2. OffDrain.pc = "off" /\ r.pc = "start"
    BY DEF OffDrain
  <2>3. \A e \in Drains : drain'[e] = ds[e] \/ (ds[e].pc = "off" /\ drain'[e] = r)
    BY <1>9 DEF DrainRekick, KickDrain, TypeOK, DrainOK
  <2>4. drain[d].pc = "rekick" /\ \A e \in Drains : ds[e] = drain[e] \/ (e = d /\ ds[e] = OffDrain)
    BY <1>9 DEF DrainRekick, At, TypeOK, DrainOK
  <2>5. \A e \in Drains : At(e, "row") \/ drain'[e].pc \in {"row", "steerRpc"}
                            => drain'[e] = drain[e]
    BY <2>2, <2>3, <2>4 DEF At
  <2> QED
    BY <1>1, <1>2, <2>1, <2>5, ReviewStays
<1> QED
  BY <1>3, <1>4, <1>5, <1>6, <1>7, <1>8, <1>9

\* The steps of a call under way: it pushes its turn, settles the one it
\* cancelled, or settles all there is when it releases the session.
LEMMA ReviewCall ==
    ASSUME TypeOK, Reins, Review, NEW c \in Callers, CallStep(c)
    PROVE  Review'
<1> USE DEF stateVars, turnVars, noticeVars, taskVars, outVars, sessionVars
<1>1. \A b \in Callers \ {c} : call'[b] = call[b]
  BY CallsAlone
<1>2. call \in [Callers -> ClientCall]
  BY DEF TypeOK, CallOK
<1>3. CASE PushTurn(c)
  <2>1. PICK t \in Turns : t = call[c].turn
    BY <1>3 DEF PushTurn, TypeOK, CallOK
  <2>2. /\ UNCHANGED <<held, drain, accepted, released>>
        /\ queue' = Append(queue, t)
        /\ carries' = carries \ Stranded(t)
        /\ reports' = Report(Stranded(t), "cancelled")
        /\ call[c].pc = "push" /\ call'[c].pc = "kick"
    BY <1>2, <1>3, <2>1 DEF PushTurn, ClientCall
  <2>3. ToSet(queue') = ToSet(queue) \cup {t}
    BY <2>2, AppendSet DEF TypeOK, QueueOK
  <2>4. t \in accepted
    BY <2>1, <2>2 DEF Review, KnownTurns, CallHandPcs
  <2>5. KnownTurns' /\ SteeredPlain'
    BY <1>1, <2>2, <2>3, <2>4 DEF Review, KnownTurns, SteeredPlain, At,
       CallHandPcs
  <2>6. \A u \in Turns : Unsettled(u)' => Unsettled(u)
    BY <2>2, ReportTells DEF Unsettled
  <2>7. ASSUME NEW u \in Turns, Unsettled(u)'
        PROVE  u \in carries' /\ ~(u = t /\ released)
    <3>1. u \in carries
      BY <2>6, <2>7 DEF Review, CommentsInSight
    <3>2. u = t /\ released => u \in Stranded(t) \cap carries
      BY <3>1 DEF Stranded
    <3>3. ~(u = t /\ released)
      BY <2>2, <2>7, <3>2, ReportTells DEF Unsettled
    <3> QED
      BY <2>2, <3>1, <3>3 DEF Stranded
  <2>8. ASSUME NEW u \in Turns, InSight(u)
        PROVE  InSight(u)'
    BY <1>1, <2>1, <2>2, <2>3, <2>8 DEF InSight, At
  <2>9. CommentsInSight'
    BY <2>6, <2>7, <2>8 DEF Review, CommentsInSight
  <2>10. AbortAhead' <=> AbortAhead
    BY <1>1, <2>2 DEF AbortAhead
  <2>11. SweptSettled'
    <3> SUFFICES ASSUME released, ~AbortAhead,
                        NEW u \in ToSet(queue) \cup {t} \cup held, Unsettled(u)'
                 PROVE  FALSE
      BY <2>2, <2>3, <2>10 DEF SweptSettled
    <3>1. u \in Turns
      BY TurnAssumption DEF Unsettled
    <3> QED
      BY <2>6, <2>7, <3>1 DEF Review, SweptSettled
  <2> QED
    BY <2>5, <2>9, <2>11 DEF Review
<1>4. CASE CancelRow(c)
  <2>1. PICK t \in Turns : t = call[c].turn
    BY <1>4 DEF CancelRow, TypeOK, CallOK
  <2>2. /\ UNCHANGED <<queue, held, carries, drain, accepted, released>>
        /\ reports' = Report({t}, "cancelled")
        /\ call[c].pc = "cancelRow" /\ call'[c].pc = "idle"
    BY <1>2, <1>4, <2>1 DEF CancelRow, Return, IdleCall
  <2>3. KnownTurns' /\ SteeredPlain'
    BY <1>1, <2>2 DEF Review, KnownTurns, SteeredPlain, At, CallHandPcs
  <2>4. \A u \in Turns : Unsettled(u)' => Unsettled(u)
    BY <2>2, ReportTells DEF Unsettled
  <2>5. ASSUME NEW u \in Turns, Unsettled(u)'
        PROVE  u \in carries /\ u # t
    <3>1. u \in carries
      BY <2>4, <2>5 DEF Review, CommentsInSight
    <3> QED
      BY <2>2, <2>5, <3>1, ReportTells DEF Unsettled
  <2>6. ASSUME NEW u \in Turns, u # t, InSight(u)
        PROVE  InSight(u)'
    BY <1>1, <2>1, <2>2, <2>6 DEF InSight, At
  <2>7. CommentsInSight'
    BY <2>2, <2>4, <2>5, <2>6 DEF Review, CommentsInSight
  <2>8. AbortAhead' <=> AbortAhead
    BY <1>1, <2>2 DEF AbortAhead
  <2>9. SweptSettled'
    BY <2>2, <2>4, <2>8, TurnAssumption DEF Review, SweptSettled, Unsettled
  <2> QED
    BY <2>3, <2>7, <2>9 DEF Review
<1>5. CASE AbortAndDrain(c)
  <2>1. /\ UNCHANGED <<carries, drain, accepted, released>>
        /\ reports' = Report(Pending, "cancelled")
        /\ queue' = <<>> /\ held' = {}
        /\ call[c].pc = "abort" /\ call'[c].pc = "settle"
    BY <1>2, <1>5 DEF AbortAndDrain, ClientCall
  <2>2. ToSet(queue') = {}
    BY <2>1 DEF ToSet
  <2>3. KnownTurns' /\ SteeredPlain'
    BY <1>1, <2>1, <2>2 DEF Review, KnownTurns, SteeredPlain, At, CallHandPcs
  <2>4. \A u \in Turns : Unsettled(u)' => Unsettled(u)
    BY <2>1, ReportTells DEF Unsettled
  <2>5. ASSUME NEW u \in Turns, Unsettled(u)'
        PROVE  u \in carries /\ u \notin Pending
    <3>1. u \in carries
      BY <2>4, <2>5 DEF Review, CommentsInSight
    <3> QED
      BY <2>1, <2>5, <3>1, ReportTells DEF Unsettled
  <2>6. ASSUME NEW u \in Turns, u \notin Pending, InSight(u)
        PROVE  InSight(u)'
    BY <1>1, <2>1, <2>6 DEF InSight, At, Pending
  <2>7. CommentsInSight'
    BY <2>1, <2>4, <2>5, <2>6 DEF Review, CommentsInSight
  <2>8. SweptSettled'
    BY <2>1, <2>2 DEF SweptSettled
  <2> QED
    BY <2>3, <2>7, <2>8 DEF Review
<1>6. CASE KickCall(c)
  <2>1. UNCHANGED <<queue, held, carries, reports, accepted, released>>
    BY <1>6 DEF KickCall
  <2>2. call[c].pc = "kick" /\ call'[c].pc = "idle"
    BY <1>2, <1>6 DEF KickCall, Return, IdleCall
  <2>3. \A e \in Drains : At(e, "row") \/ drain'[e].pc \in {"row", "steerRpc"}
                            => drain'[e] = drain[e]
    <3> DEFINE r == [OffDrain EXCEPT !.pc = "start"]
    <3>1. r.pc = "start"
      BY DEF OffDrain
    <3>2. \A e \in Drains :
            drain'[e] = drain[e] \/ (drain[e].pc = "off" /\ drain'[e] = r)
      BY <1>6 DEF KickCall, KickDrain, TypeOK, DrainOK
    <3> QED
      BY <3>1, <3>2 DEF At
  <2>4. AbortAhead' <=> AbortAhead
    BY <1>1, <2>2 DEF AbortAhead
  <2> QED
    BY <1>1, <2>1, <2>2, <2>3, <2>4, ReviewStays DEF CallHandPcs
<1>7. CASE \/ SubmitInjected(c) \/ SubmitRefused(c) \/ SubmitRow(c)
           \/ SubmitEnqueue(c) \/ StopCaptured(c)
  <2>1. UNCHANGED <<queue, held, carries, reports, accepted, released, drain>>
    BY <1>7 DEF SubmitInjected, SubmitRefused, SubmitRow, SubmitEnqueue,
       StopCaptured
  <2>2. /\ call[c].pc \notin {"push", "cancelRow"}
        /\ call[c].pc \notin {"clear", "abort"}
        /\ call'[c].pc \notin {"clear", "abort"}
        /\ call'[c].pc \in CallHandPcs => call[c].pc \in CallHandPcs
                                          /\ call'[c].turn = call[c].turn
    BY <1>2, <1>7 DEF SubmitInjected, SubmitRefused, SubmitRow, SubmitEnqueue,
       StopCaptured, Return, IdleCall, CallHandPcs, ClientCall
  <2>3. AbortAhead' <=> AbortAhead
    BY <1>1, <2>2 DEF AbortAhead
  <2> QED
    BY <1>1, <2>1, <2>2, <2>3, ReviewStays DEF Review, KnownTurns
<1>8. CASE ReleaseLatch(c) \/ ReleaseClear(c) \/ ReleaseDispose(c)
  <2>1. UNCHANGED <<queue, held, carries, reports, accepted, drain>>
    BY <1>8 DEF ReleaseLatch, ReleaseClear, ReleaseDispose
  <2>2. /\ call[c].pc \in {"latch", "clear", "settle"}
        /\ call'[c].pc \in {"idle", "clear", "abort"}
    BY <1>2, <1>8 DEF ReleaseLatch, ReleaseClear, ReleaseDispose, Return,
       IdleCall, ClientCall
  <2>3. \/ call'[c].pc \in {"clear", "abort"}
        \/ released /\ call[c].pc \notin {"clear", "abort"}
    <3>1. CASE ReleaseLatch(c)
      BY <1>2, <3>1 DEF ReleaseLatch, ClientCall
    <3>2. CASE ReleaseClear(c)
      BY <1>2, <3>2 DEF ReleaseClear, ClientCall
    <3>3. CASE ReleaseDispose(c)
      BY <3>3 DEF ReleaseDispose, Reins, Latched
    <3> QED
      BY <1>8, <3>1, <3>2, <3>3
  <2>4. ~AbortAhead' => released /\ ~AbortAhead
    BY <1>1, <2>3 DEF AbortAhead
  <2> QED
    BY <1>1, <2>1, <2>2, <2>4, ReviewStays DEF CallHandPcs
<1> QED
  BY <1>3, <1>4, <1>5, <1>6, <1>7, <1>8 DEF CallStep

\* The requests: a turn is sent, withdrawn, held, put back or moved, or the
\* sweep of a release settles all that waits.
LEMMA ReviewRequest ==
    ASSUME TypeOK, Review, NEW c \in Callers, Request(c)
    PROVE  Review'
<1> USE DEF stateVars, turnVars, noticeVars, taskVars, outVars, sessionVars
<1>1. \A b \in Callers \ {c} : call'[b] = call[b]
  BY CallsAlone
<1>2. call \in [Callers -> ClientCall]
  BY DEF TypeOK, CallOK
<1>3. /\ call[c].pc = "idle" \/ call'[c] = call[c]
      /\ call'[c] = call[c] \/ call'[c].pc \notin {"clear", "abort"}
  BY RequestFromIdle
<1>4. AbortAhead' <=> AbortAhead
  BY <1>1, <1>3 DEF AbortAhead
<1>5. ASSUME NEW t \in Turns, Enqueue(c, t) \/ Submit(c, t)
      PROVE  Review'
  <2>1. /\ UNCHANGED <<queue, held, reports, drain, released>>
        /\ accepted' = accepted \cup {t} /\ t \notin accepted
        /\ carries' = carries \cup ({t} \cap ReviewTurns)
        /\ call'[c].turn = t /\ t \in ReviewTurns => call'[c].pc = "push"
        /\ call[c].pc = "idle"
    BY <1>2, <1>5 DEF Enqueue, Submit, Fresh, Starts
  <2>2. call'[c].turn = t
    BY <1>2, <1>5 DEF Enqueue, Submit
  <2>3. KnownTurns'
    BY <1>1, <2>1, <2>2 DEF Review, KnownTurns
  <2>4. SteeredPlain'
    BY <2>1 DEF Review, SteeredPlain, At
  <2>5. \A u \in Turns \ {t} : Unsettled(u)' => Unsettled(u)
    BY <2>1 DEF Unsettled
  <2>6. ASSUME NEW u \in Turns, InSight(u)
        PROVE  InSight(u)'
    BY <1>1, <2>1, <2>6 DEF InSight, At
  <2>7. Unsettled(t)' => t \in carries' /\ InSight(t)'
    BY <2>1, <2>2 DEF Unsettled, InSight
  <2>8. CommentsInSight'
    BY <2>1, <2>5, <2>6, <2>7 DEF Review, CommentsInSight
  <2>9. SweptSettled'
    <3>1. t \notin ToSet(queue) \cup held
      BY <2>1 DEF Review, KnownTurns
    <3>2. \A u : Unsettled(u)' => u \in Turns
      BY TurnAssumption DEF Unsettled
    <3> QED
      BY <1>4, <2>1, <2>5, <3>1, <3>2 DEF Review, SweptSettled
  <2> QED
    BY <2>3, <2>4, <2>8, <2>9 DEF Review
<1>6. ASSUME NEW t \in Turns, CancelQueued(c, t)
      PROVE  Review'
  <2>1. /\ UNCHANGED <<carries, reports, accepted, drain, released>>
        /\ call'[c].pc = "cancelRow" /\ call'[c].turn = t
        /\ held' \subseteq held /\ held \ {t} \subseteq held'
    BY <1>2, <1>6 DEF CancelQueued
  <2>2. /\ ToSet(queue') \subseteq ToSet(queue)
        /\ ToSet(queue) \ {t} \subseteq ToSet(queue')
    BY <1>6, RemoveAtSet DEF CancelQueued, TypeOK, QueueOK
  <2>3. t \in ToSet(queue) \cup held
    BY <1>6 DEF CancelQueued, ToSet
  <2>4. KnownTurns' /\ SteeredPlain'
    BY <1>1, <2>1, <2>2, <2>3 DEF Review, KnownTurns, SteeredPlain, At
  <2>5. \A u : Unsettled(u)' <=> Unsettled(u)
    BY <2>1 DEF Unsettled
  <2>6. ASSUME NEW u \in Turns, InSight(u)
        PROVE  InSight(u)'
    BY <1>1, <1>3, <2>1, <2>2, <2>6 DEF InSight, At
  <2>7. CommentsInSight'
    BY <2>1, <2>5, <2>6 DEF Review, CommentsInSight
  <2>8. SweptSettled'
    BY <1>4, <2>1, <2>2, <2>5 DEF Review, SweptSettled
  <2> QED
    BY <2>4, <2>7, <2>8 DEF Review
<1>7. ASSUME NEW t \in Turns, BeginEdit(c, t)
      PROVE  Review'
  <2>1. /\ UNCHANGED <<carries, reports, accepted, drain, released, call>>
        /\ held' = held \cup {t}
    BY <1>7 DEF BeginEdit
  <2>2. /\ ToSet(queue') \subseteq ToSet(queue)
        /\ ToSet(queue) \ {t} \subseteq ToSet(queue')
    BY <1>7, RemoveAtSet DEF BeginEdit, TypeOK, QueueOK
  <2>3. t \in ToSet(queue)
    BY <1>7 DEF BeginEdit, ToSet
  <2>4. KnownTurns' /\ SteeredPlain'
    BY <2>1, <2>2, <2>3 DEF Review, KnownTurns, SteeredPlain, At
  <2>5. \A u : Unsettled(u)' <=> Unsettled(u)
    BY <2>1 DEF Unsettled
  <2>6. ASSUME NEW u \in Turns, InSight(u)
        PROVE  InSight(u)'
    BY <2>1, <2>2, <2>6 DEF InSight, At
  <2>7. CommentsInSight'
    BY <2>1, <2>5, <2>6 DEF Review, CommentsInSight
  <2>8. SweptSettled'
    BY <1>4, <2>1, <2>2, <2>3, <2>5 DEF Review, SweptSettled
  <2> QED
    BY <2>4, <2>7, <2>8 DEF Review
<1>8. ASSUME NEW t \in Turns, NEW keep \in BOOLEAN, Resubmit(c, t, keep)
      PROVE  Review'
  <2>1. PICK dropped : /\ dropped \subseteq {t} \cap carries
                       /\ carries' = carries \ dropped
                       /\ reports' = Report(dropped, "cancelled")
    BY <1>8 DEF Resubmit
  <2>2. /\ UNCHANGED <<accepted, drain, released>>
        /\ call[c].pc = "idle" /\ call'[c].pc = "kick"
        /\ t \in held /\ held' = held \ {t}
    BY <1>2, <1>8 DEF Resubmit, Starts, ClientCall
  <2>3. ToSet(queue') = ToSet(queue) \cup {t}
    BY <1>8, InsertAtSet DEF Resubmit, TypeOK, QueueOK
  <2>4. KnownTurns' /\ SteeredPlain'
    BY <1>1, <2>1, <2>2, <2>3 DEF Review, KnownTurns, SteeredPlain, At,
       CallHandPcs
  <2>5. \A u \in Turns : Unsettled(u)' => Unsettled(u)
    BY <2>1, <2>2, ReportTells DEF Unsettled
  <2>6. ASSUME NEW u \in Turns, Unsettled(u)'
        PROVE  u \in carries'
    <3>1. u \in carries
      BY <2>5, <2>6 DEF Review, CommentsInSight
    <3> QED
      BY <2>1, <2>6, <3>1, ReportTells DEF Unsettled
  <2>7. ASSUME NEW u \in Turns, InSight(u)
        PROVE  InSight(u)'
    BY <1>1, <2>2, <2>3, <2>7 DEF InSight, At
  <2>8. CommentsInSight'
    BY <2>5, <2>6, <2>7 DEF Review, CommentsInSight
  <2>9. SweptSettled'
    <3>1. \A u : Unsettled(u)' => u \in Turns
      BY TurnAssumption DEF Unsettled
    <3> QED
      BY <1>4, <2>2, <2>3, <2>5, <3>1 DEF Review, SweptSettled
  <2> QED
    BY <2>4, <2>8, <2>9 DEF Review
<1>9. ASSUME NEW t \in Turns, Promote(c, t)
      PROVE  Review'
  <2>1. /\ UNCHANGED <<held, carries, reports, accepted, drain, released>>
        /\ call[c].pc = "idle" /\ call'[c].pc \in {"kick", "stopKick"}
    BY <1>2, <1>9 DEF Promote, Starts
  <2>2. ToSet(queue') = ToSet(queue)
    <3>1. PICK i \in DOMAIN queue : queue[i] = t
                                    /\ queue' = Cons(t, RemoveAt(queue, i))
      BY <1>9 DEF Promote
    <3>2. /\ RemoveAt(queue, i) \in Seq(Turns)
          /\ ToSet(RemoveAt(queue, i)) \subseteq ToSet(queue)
          /\ ToSet(queue) \ {t} \subseteq ToSet(RemoveAt(queue, i))
      BY <3>1, RemoveAtType, RemoveAtSet DEF TypeOK, QueueOK
    <3>3. t \in ToSet(queue)
      BY <3>1 DEF ToSet
    <3>4. ToSet(queue') = ToSet(RemoveAt(queue, i)) \cup {t}
      BY <3>1, <3>2, ConsSet
    <3> QED
      BY <3>2, <3>3, <3>4
  <2>3. KnownTurns' /\ SteeredPlain'
    BY <1>1, <2>1, <2>2 DEF Review, KnownTurns, SteeredPlain, At, CallHandPcs
  <2>4. \A u : Unsettled(u)' <=> Unsettled(u)
    BY <2>1 DEF Unsettled
  <2>5. ASSUME NEW u \in Turns, InSight(u)
        PROVE  InSight(u)'
    BY <1>1, <2>1, <2>2, <2>5 DEF InSight, At
  <2>6. CommentsInSight'
    BY <2>1, <2>4, <2>5 DEF Review, CommentsInSight
  <2>7. SweptSettled'
    BY <1>4, <2>1, <2>2, <2>4 DEF Review, SweptSettled
  <2> QED
    BY <2>3, <2>6, <2>7 DEF Review
<1>10. CASE ReleaseSweep(c)
  <2>1. /\ UNCHANGED <<queue, held, carries, accepted, drain, released>>
        /\ reports' = Report(Pending, "cancelled")
        /\ call[c].pc = "idle" /\ call'[c].pc = "latch"
    BY <1>2, <1>10 DEF ReleaseSweep, Starts, ClientCall
  <2>2. KnownTurns' /\ SteeredPlain'
    BY <1>1, <2>1 DEF Review, KnownTurns, SteeredPlain, At, CallHandPcs
  <2>3. \A u \in Turns : Unsettled(u)' => Unsettled(u)
    BY <2>1, ReportTells DEF Unsettled
  <2>4. ASSUME NEW u \in Turns, InSight(u)
        PROVE  InSight(u)'
    BY <1>1, <2>1, <2>4 DEF InSight, At
  <2>5. CommentsInSight'
    BY <2>1, <2>3, <2>4 DEF Review, CommentsInSight
  <2>6. SweptSettled'
    BY <1>4, <2>1, <2>3, TurnAssumption DEF Review, SweptSettled, Unsettled
  <2> QED
    BY <2>2, <2>5, <2>6 DEF Review
<1>11. CASE \/ \E k \in Children : Populate(c, k) \/ PruneChild(c, k)
            \/ Stop(c) \/ PromoteNotice(c) \/ Dismiss(c)
  <2>1. UNCHANGED <<queue, held, carries, reports, accepted, drain, released>>
    BY <1>11 DEF Populate, PruneChild, Stop, PromoteNotice, Dismiss
  <2>2. call'[c] = call[c] \/ (call[c].pc = "idle"
                               /\ call'[c].pc \in {"kick", "stopKick", "stop"})
    BY <1>2, <1>11 DEF Populate, PruneChild, Stop, PromoteNotice, Dismiss,
       Starts, ClientCall
  <2> QED
    BY <1>1, <1>4, <2>1, <2>2, ReviewStays DEF CallHandPcs
<1> QED
  BY <1>5, <1>6, <1>7, <1>8, <1>9, <1>10, <1>11 DEF Request

LEMMA ReviewHold == Spec => []Review
<1>1. Init => Review
  BY DEF Init, Review, KnownTurns, SteeredPlain, CommentsInSight, Unsettled,
     SweptSettled, ToSet, At, OffDrain, IdleCall, CallHandPcs
<1>2. TypeOK /\ Reins /\ Review /\ [Next]_vars => Review'
  <2> SUFFICES ASSUME TypeOK, Reins, Review, [Next]_vars
               PROVE  Review'
    OBVIOUS
  <2>1. ASSUME NEW t \in TurnIds, DriverStep(t)
        PROVE  Review'
    <3>1. UNCHANGED <<queue, held, carries, reports, accepted, released, drain,
                      call>>
      BY <2>1 DEF DriverStep, DriverConnect, DriverPrompt, DriverError,
         DriverResult, DriverQuit, stateVars, outVars, sessionVars
    <3>2. AbortAhead' <=> AbortAhead
      BY <3>1 DEF AbortAhead
    <3> QED
      BY <3>1, <3>2, ReviewStays
  <2>2. CASE UNCHANGED vars
    <3>1. UNCHANGED <<queue, held, carries, reports, accepted, released, drain,
                      call>>
      BY <2>2 DEF vars, stateVars, outVars, taskVars, sessionVars
    <3>2. AbortAhead' <=> AbortAhead
      BY <3>1 DEF AbortAhead
    <3> QED
      BY <3>1, <3>2, ReviewStays
  <2> QED
    BY <2>1, <2>2, ReviewDrain, ReviewCall, ReviewRequest DEF Next
<1> QED
  BY <1>1, <1>2, TypeCorrect, ReinsHold, PTL DEF Spec

\* At rest the comments of every turn that was sent have gone with it or are
\* back in the panel, also when a release cut in between any two of the steps
\* that send, pop, edit or cancel it.
THEOREM CommentsSettled == Spec => []ReviewNeverStranded
<1>1. TypeOK /\ NoStrandedQueue /\ Review => ReviewNeverStranded
  <2> SUFFICES ASSUME TypeOK, NoStrandedQueue, Review, Quiet,
                      NEW t \in accepted \cap ReviewTurns, t \notin held,
                      reports[t] = {}
               PROVE  FALSE
    BY DEF ReviewNeverStranded
  <2>1. Unsettled(t) /\ t \in Turns
    BY TurnAssumption DEF Unsettled
  <2>2. t \in ToSet(queue)
    BY <2>1 DEF Review, CommentsInSight, InSight, Quiet, At
  <2>3. queue # <<>>
    BY <2>2 DEF ToSet
  <2>4. released /\ ~AbortAhead
    BY <2>3 DEF NoStrandedQueue, Quiet, AbortAhead
  <2> QED
    BY <2>1, <2>2, <2>4 DEF Review, SweptSettled
<1> QED
  BY <1>1, TypeCorrect, NothingStranded, ReviewHold, PTL
=============================================================================
