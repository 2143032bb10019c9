-------------------------- MODULE TurnEngineProofs --------------------------
(***************************************************************************)
(* Proofs about TurnEngine, for every number of turns, clients, drain tasks *)
(* and children, every SteerTries and every set of operations.              *)
(***************************************************************************)
EXTENDS TurnEngine, SequenceTheorems, TLAPS

(* Facts about the sequence operators the queue is changed with.            *)

\* Taking one element out of a sequence.
LEMMA RemoveAtType ==
    ASSUME NEW S, NEW s \in Seq(S), NEW i \in DOMAIN s
    PROVE  RemoveAt(s, i) \in Seq(S)
<1>1. DOMAIN s = 1..Len(s) /\ Len(s) \in Nat
  BY LenProperties
<1>2. \A j \in 1..Len(s) : s[j] \in S
  BY ElementOfSeq
<1>3. SubSeq(s, 1, i - 1) \in Seq(S)
  <2>1. \A j \in 1..(i - 1) : s[j] \in S
    BY <1>1, <1>2
  <2> QED
    BY <1>1, <2>1, SubSeqProperties
<1>4. SubSeq(s, i + 1, Len(s)) \in Seq(S)
  <2>1. \A j \in (i + 1)..Len(s) : s[j] \in S
    BY <1>1, <1>2
  <2> QED
    BY <1>1, <2>1, SubSeqProperties
<1> QED
  BY <1>3, <1>4, ConcatProperties DEF RemoveAt

\* Putting one element into a sequence.
LEMMA InsertAtType ==
    ASSUME NEW S, NEW s \in Seq(S), NEW e \in S, NEW i \in 1..(Len(s) + 1)
    PROVE  InsertAt(s, i, e) \in Seq(S)
<1>1. Len(s) \in Nat
  BY LenProperties
<1>2. \A j \in 1..Len(s) : s[j] \in S
  BY ElementOfSeq
<1>3. SubSeq(s, 1, i - 1) \in Seq(S)
  <2>1. \A j \in 1..(i - 1) : s[j] \in S
    BY <1>1, <1>2
  <2> QED
    BY <1>1, <2>1, SubSeqProperties
<1>4. SubSeq(s, i, Len(s)) \in Seq(S)
  <2>1. \A j \in i..Len(s) : s[j] \in S
    BY <1>1, <1>2
  <2> QED
    BY <1>1, <2>1, SubSeqProperties
<1>5. <<e>> \in Seq(S)
  OBVIOUS
<1>6. SubSeq(s, 1, i - 1) \o <<e>> \in Seq(S)
  BY <1>3, <1>5, ConcatProperties
<1> QED
  BY <1>4, <1>6, ConcatProperties DEF InsertAt

\* Putting an element in front of a sequence.
LEMMA ConsType ==
    ASSUME NEW S, NEW s \in Seq(S), NEW e \in S
    PROVE  Cons(e, s) \in Seq(S)
<1>1. <<e>> \in Seq(S)
  OBVIOUS
<1> QED
  BY <1>1, ConcatProperties DEF Cons

-----------------------------------------------------------------------------
(* Facts about tasks and calls.                                             *)

\* A drain task may be given any locals that name the turn it deals with.
LEMMA DrainUpdate ==
    ASSUME DrainOK, NEW d \in Drains, NEW r \in DrainTask, KnowsTurn(r),
           drain' = [drain EXCEPT ![d] = r]
    PROVE  DrainOK'
  BY DEF DrainOK

LEMMA OffType == OffDrain \in DrainTask /\ KnowsTurn(OffDrain)
  BY DEF OffDrain, DrainTask, DrainPcs, KnowsTurn

LEMMA IdleType == IdleCall \in ClientCall
  BY DEF IdleCall, ClientCall, CallPcs

\* Starting a drain task leaves the tasks well typed.
LEMMA KickType ==
    ASSUME NEW ds \in [Drains -> DrainTask], \A e \in Drains : KnowsTurn(ds[e]),
           KickDrain(ds)
    PROVE  DrainOK'
<1> DEFINE r == [OffDrain EXCEPT !.pc = "start"]
<1>1. r \in DrainTask /\ KnowsTurn(r)
  BY OffType DEF DrainTask, DrainPcs, LoopPcs, KnowsTurn, OffDrain
<1>2. CASE drain' = ds
  BY <1>2 DEF DrainOK
<1>3. ASSUME NEW d \in Drains, drain' = [ds EXCEPT ![d] = r]
      PROVE  DrainOK'
  BY <1>1, <1>3 DEF DrainOK
<1> QED
  BY <1>2, <1>3 DEF KickDrain

\* A call may go to any step that deals with no turn.
LEMMA CallUpdate ==
    ASSUME CallOK, NEW c \in Callers, NEW r \in ClientCall,
           r.pc \notin {"steerRpc", "steerRow", "enqueue", "push", "cancelRow"},
           call' = [call EXCEPT ![c] = r]
    PROVE  CallOK'
  BY DEF CallOK

LEMMA ReturnType ==
    ASSUME CallOK, NEW c \in Callers, Return(c)
    PROVE  CallOK'
  BY CallUpdate, IdleType DEF Return, IdleCall

-----------------------------------------------------------------------------
(* Type correctness, one step per action and under it one per part of the   *)
(* state the action disturbs.                                               *)

\* The initial state is well typed.
LEMMA TypeInit == Init => TypeOK
<1> SUFFICES ASSUME Init PROVE TypeOK
  OBVIOUS
<1>1. QueueOK
  BY DEF Init, QueueOK
<1>2. TurnOK
  BY TurnAssumption DEF Init, TurnOK
<1>3. NoticeOK
  BY DEF Init, NoticeOK
<1>4. DrainOK
  BY OffType DEF Init, DrainOK
<1>5. CallOK
  BY IdleType DEF Init, CallOK, IdleCall
<1>6. OutOK
  BY DEF Init, OutOK, DriverStates
<1> QED
  BY <1>1, <1>2, <1>3, <1>4, <1>5, <1>6 DEF TypeOK

\* The steps of a client call keep the state well typed.
LEMMA CallStepType ==
    ASSUME TypeOK, NEW c \in Callers, CallStep(c)
    PROVE  TypeOK'
<1> USE DEF stateVars, turnVars, noticeVars, taskVars, outVars, sessionVars
<1>1. ASSUME PushTurn(c)
      PROVE  TypeOK'
  <2>1. QueueOK'
    BY <1>1, AppendProperties DEF TypeOK, QueueOK, CallOK, PushTurn,
       Stranded
  <2>2. TurnOK'
    BY <1>1 DEF TypeOK, TurnOK, PushTurn
  <2>3. CallOK'
    BY <1>1 DEF TypeOK, CallOK, PushTurn, ClientCall, CallPcs
  <2>4. OutOK'
    BY <1>1 DEF TypeOK, OutOK, PushTurn, Report, DriverStates
  <2> QED
    BY <1>1, <2>1, <2>2, <2>3, <2>4 DEF TypeOK, NoticeOK, DrainOK, PushTurn
<1>2. ASSUME KickCall(c)
      PROVE  TypeOK'
  <2>1. TurnOK'
    BY <1>2 DEF TypeOK, TurnOK, KickCall, KickDrain
  <2>2. DrainOK'
    BY <1>2, KickType DEF TypeOK, DrainOK, KickCall, OffDrain, DrainTask,
       DrainPcs, LoopPcs, KnowsTurn
  <2>3. CallOK'
    BY <1>2 DEF TypeOK, CallOK, KickCall, Return, IdleCall, ClientCall,
       CallPcs
  <2> QED
    BY <1>2, <2>1, <2>2, <2>3 DEF TypeOK, QueueOK, NoticeOK, OutOK, KickCall
<1>3. ASSUME SubmitInjected(c)
      PROVE  TypeOK'
  <2>1. CallOK'
    BY <1>3 DEF TypeOK, CallOK, SubmitInjected, ClientCall, CallPcs
  <2>2. OutOK'
    BY <1>3 DEF TypeOK, OutOK, CallOK, SubmitInjected, DriverStates
  <2> QED
    BY <1>3, <2>1, <2>2 DEF TypeOK, QueueOK, TurnOK, NoticeOK, DrainOK,
       SubmitInjected
<1>4. ASSUME SubmitRefused(c)
      PROVE  TypeOK'
  <2>1. CallOK'
    BY <1>4 DEF TypeOK, CallOK, SubmitRefused, ClientCall, CallPcs
  <2> QED
    BY <1>4, <2>1 DEF TypeOK, QueueOK, TurnOK, NoticeOK, DrainOK, OutOK,
       SubmitRefused
<1>5. ASSUME SubmitRow(c)
      PROVE  TypeOK'
  <2>1. CallOK'
    BY <1>5 DEF TypeOK, CallOK, SubmitRow, Return, IdleCall, ClientCall,
       CallPcs
  <2>2. OutOK'
    BY <1>5 DEF TypeOK, OutOK, CallOK, SubmitRow, WithRow, DriverStates
  <2> QED
    BY <1>5, <2>1, <2>2 DEF TypeOK, QueueOK, TurnOK, NoticeOK, DrainOK,
       SubmitRow
<1>6. ASSUME SubmitEnqueue(c)
      PROVE  TypeOK'
  <2>1. CallOK'
    BY <1>6 DEF TypeOK, CallOK, SubmitEnqueue, ClientCall, CallPcs
  <2> QED
    BY <1>6, <2>1 DEF TypeOK, QueueOK, TurnOK, NoticeOK, DrainOK, OutOK,
       SubmitEnqueue
<1>7. ASSUME CancelRow(c)
      PROVE  TypeOK'
  <2>1. TurnOK'
    BY <1>7 DEF TypeOK, TurnOK, CancelRow, IdleState, WakeSteer
  <2>2. CallOK'
    BY <1>7 DEF TypeOK, CallOK, CancelRow, Return, IdleCall, ClientCall,
       CallPcs
  <2>3. OutOK'
    BY <1>7 DEF TypeOK, OutOK, CallOK, CancelRow, WithRow, Report,
       DriverStates
  <2> QED
    BY <1>7, <2>1, <2>2, <2>3 DEF TypeOK, QueueOK, NoticeOK, DrainOK,
       CancelRow
<1>8. ASSUME StopCaptured(c)
      PROVE  TypeOK'
  <2>1. TurnOK'
    BY <1>8 DEF TypeOK, TurnOK, StopCaptured, StopActiveTurn, StopHits
  <2>2. CallOK'
    <3> DEFINE r == [IdleCall EXCEPT !.pc = "kick"]
    <3>1. r \in ClientCall
      BY IdleType DEF ClientCall, CallPcs, IdleCall
    <3>2. CASE call' = [call EXCEPT ![c] = r]
      BY <3>1, <3>2, CallUpdate DEF TypeOK, IdleCall
    <3> QED
      BY <1>8, <3>2, ReturnType DEF StopCaptured, TypeOK
  <2> QED
    BY <1>8, <2>1, <2>2 DEF TypeOK, QueueOK, NoticeOK, DrainOK, OutOK,
       StopCaptured
<1>9. ASSUME ReleaseLatch(c)
      PROVE  TypeOK'
  <2>1. TurnOK'
    BY <1>9 DEF TypeOK, TurnOK, ReleaseLatch
  <2>2. CallOK'
    <3>1. CASE call' = [call EXCEPT ![c].pc = "clear"]
      BY <3>1 DEF TypeOK, CallOK, ClientCall, CallPcs
    <3> QED
      BY <1>9, <3>1, ReturnType DEF ReleaseLatch, TypeOK
  <2> QED
    BY <1>9, <2>1, <2>2 DEF TypeOK, QueueOK, NoticeOK, DrainOK, OutOK,
       ReleaseLatch
<1>10. ASSUME ReleaseClear(c)
       PROVE  TypeOK'
  <2>1. NoticeOK'
    BY <1>10 DEF TypeOK, NoticeOK, ReleaseClear
  <2>2. CallOK'
    BY <1>10 DEF TypeOK, CallOK, ReleaseClear, ClientCall, CallPcs
  <2> QED
    BY <1>10, <2>1, <2>2 DEF TypeOK, QueueOK, TurnOK, DrainOK, OutOK,
       ReleaseClear
<1>11. ASSUME AbortAndDrain(c)
       PROVE  TypeOK'
  <2>1. QueueOK'
    BY <1>11 DEF TypeOK, QueueOK, AbortAndDrain
  <2>2. TurnOK'
    BY <1>11 DEF TypeOK, TurnOK, AbortAndDrain
  <2>3. CallOK'
    BY <1>11 DEF TypeOK, CallOK, AbortAndDrain, ClientCall, CallPcs
  <2>4. OutOK'
    BY <1>11 DEF TypeOK, OutOK, AbortAndDrain, Report, Pending, DriverStates
  <2> QED
    BY <1>11, <2>1, <2>2, <2>3, <2>4 DEF TypeOK, NoticeOK, DrainOK,
       AbortAndDrain
<1>12. ASSUME ReleaseDispose(c)
       PROVE  TypeOK'
  <2>1. CallOK'
    BY <1>12 DEF TypeOK, CallOK, ReleaseDispose, Return, IdleCall,
       ClientCall, CallPcs
  <2> QED
    BY <1>12, <2>1 DEF TypeOK, QueueOK, TurnOK, NoticeOK, DrainOK, OutOK,
       ReleaseDispose
<1> QED
  BY <1>1, <1>2, <1>3, <1>4, <1>5, <1>6, <1>7, <1>8, <1>9, <1>10, <1>11,
     <1>12 DEF CallStep

\* So do the requests of clients.
LEMMA RequestType ==
    ASSUME TypeOK, NEW c \in Callers, Request(c)
    PROVE  TypeOK'
<1> USE DEF stateVars, turnVars, noticeVars, taskVars, outVars, sessionVars
<1>1. ASSUME NEW t \in Turns, Enqueue(c, t)
      PROVE  TypeOK'
  <2>1. QueueOK'
    BY <1>1 DEF TypeOK, QueueOK, Enqueue
  <2>2. CallOK'
    BY <1>1 DEF TypeOK, CallOK, Enqueue, Starts, ClientCall, CallPcs,
       TurnIds
  <2>3. OutOK'
    BY <1>1 DEF TypeOK, OutOK, Enqueue, DriverStates, TurnIds
  <2> QED
    BY <1>1, <2>1, <2>2, <2>3 DEF TypeOK, TurnOK, NoticeOK, DrainOK, Enqueue
<1>2. ASSUME NEW t \in Turns, Submit(c, t)
      PROVE  TypeOK'
  <2>1. CallOK'
    BY <1>2 DEF TypeOK, CallOK, Submit, Starts, ClientCall, CallPcs, TurnIds
  <2>2. OutOK'
    BY <1>2 DEF TypeOK, OutOK, Submit, DriverStates, TurnIds
  <2> QED
    BY <1>2, <2>1, <2>2 DEF TypeOK, QueueOK, TurnOK, NoticeOK, DrainOK,
       Submit
<1>3. ASSUME NEW t \in Turns, CancelQueued(c, t)
      PROVE  TypeOK'
  <2>1. QueueOK'
    BY <1>3, RemoveAtType DEF TypeOK, QueueOK, CancelQueued
  <2>2. CallOK'
    BY <1>3 DEF TypeOK, CallOK, QueueOK, CancelQueued, Starts, ClientCall,
       CallPcs, TurnIds
  <2> QED
    BY <1>3, <2>1, <2>2 DEF TypeOK, TurnOK, NoticeOK, DrainOK, OutOK,
       CancelQueued
<1>4. ASSUME NEW t \in Turns, BeginEdit(c, t)
      PROVE  TypeOK'
  <2>1. QueueOK'
    BY <1>4, RemoveAtType, ElementOfSeq, LenProperties DEF TypeOK, QueueOK,
       BeginEdit
  <2>2. TurnOK'
    BY <1>4 DEF TypeOK, TurnOK, BeginEdit, IdleState
  <2> QED
    BY <1>4, <2>1, <2>2 DEF TypeOK, NoticeOK, DrainOK, CallOK, OutOK,
       BeginEdit
<1>5. ASSUME NEW t \in Turns, Promote(c, t)
      PROVE  TypeOK'
  <2>1. QueueOK'
    <3>1. PICK i \in DOMAIN queue : queue' = Cons(t, RemoveAt(queue, i))
      BY <1>5 DEF Promote
    <3>2. queue' \in Seq(Turns)
      BY <3>1, RemoveAtType, ConsType DEF TypeOK, QueueOK
    <3> QED
      BY <1>5, <3>2 DEF TypeOK, QueueOK, Promote
  <2>2. CallOK'
    BY <1>5 DEF TypeOK, CallOK, TurnOK, Promote, Starts, ClientCall, CallPcs
  <2> QED
    BY <1>5, <2>1, <2>2 DEF TypeOK, TurnOK, NoticeOK, DrainOK, OutOK,
       Promote
<1>6. ASSUME NEW t \in Turns, NEW keep \in BOOLEAN, Resubmit(c, t, keep)
      PROVE  TypeOK'
  <2>1. QueueOK'
    BY <1>6, InsertAtType DEF TypeOK, QueueOK, Resubmit
  <2>2. TurnOK'
    BY <1>6 DEF TypeOK, TurnOK, Resubmit, IdleState, WakeSteer
  <2>3. CallOK'
    BY <1>6 DEF TypeOK, CallOK, Resubmit, Starts, ClientCall, CallPcs
  <2>4. OutOK'
    BY <1>6 DEF TypeOK, OutOK, Resubmit, Report, DriverStates
  <2> QED
    BY <1>6, <2>1, <2>2, <2>3, <2>4 DEF TypeOK, NoticeOK, DrainOK, Resubmit
<1>7. ASSUME NEW k \in Children, Populate(c, k)
      PROVE  TypeOK'
  <2>1. NoticeOK'
    BY <1>7 DEF TypeOK, NoticeOK, Populate
  <2>2. CallOK'
    BY <1>7 DEF TypeOK, CallOK, Populate, Starts, ClientCall, CallPcs
  <2> QED
    BY <1>7, <2>1, <2>2 DEF TypeOK, QueueOK, TurnOK, DrainOK, OutOK,
       Populate
<1>8. ASSUME NEW k \in Children, PruneChild(c, k)
      PROVE  TypeOK'
  <2>1. NoticeOK'
    BY <1>8 DEF TypeOK, NoticeOK, PruneChild
  <2> QED
    BY <1>8, <2>1 DEF TypeOK, QueueOK, TurnOK, DrainOK, CallOK, OutOK,
       PruneChild
<1>9. ASSUME Stop(c)
      PROVE  TypeOK'
  <2>1. TurnOK'
    BY <1>9 DEF TypeOK, TurnOK, Stop, StopActiveTurn, StopHits
  <2> QED
    BY <1>9, <2>1 DEF TypeOK, QueueOK, NoticeOK, DrainOK, CallOK, OutOK,
       Stop
<1>10. ASSUME PromoteNotice(c)
       PROVE  TypeOK'
  <2>1. NoticeOK'
    BY <1>10 DEF TypeOK, NoticeOK, PromoteNotice
  <2>2. CallOK'
    BY <1>10 DEF TypeOK, CallOK, TurnOK, PromoteNotice, Starts, ClientCall,
       CallPcs
  <2> QED
    BY <1>10, <2>1, <2>2 DEF TypeOK, QueueOK, TurnOK, DrainOK, OutOK,
       PromoteNotice
<1>11. ASSUME Dismiss(c)
       PROVE  TypeOK'
  <2>1. NoticeOK'
    BY <1>11 DEF TypeOK, NoticeOK, Dismiss
  <2>2. CallOK'
    <3> DEFINE r == [pc |-> "stop", turn |-> active, busy |-> FALSE]
    <3>1. r \in ClientCall
      BY DEF TypeOK, TurnOK, ClientCall, CallPcs
    <3>2. CASE call' = [call EXCEPT ![c] = r]
      BY <3>1, <3>2, CallUpdate DEF TypeOK
    <3>3. CASE UNCHANGED call
      BY <3>3 DEF TypeOK, CallOK
    <3> QED
      BY <1>11, <3>2, <3>3 DEF Dismiss
  <2> QED
    BY <1>11, <2>1, <2>2 DEF TypeOK, QueueOK, TurnOK, DrainOK, OutOK,
       Dismiss
<1>12. ASSUME ReleaseSweep(c)
       PROVE  TypeOK'
  <2>1. CallOK'
    BY <1>12 DEF TypeOK, CallOK, ReleaseSweep, Starts, ClientCall, CallPcs
  <2>2. OutOK'
    BY <1>12 DEF TypeOK, OutOK, ReleaseSweep, WithRow, Report, Pending,
       DriverStates
  <2> QED
    BY <1>12, <2>1, <2>2 DEF TypeOK, QueueOK, TurnOK, NoticeOK, DrainOK,
       ReleaseSweep
<1> QED
  BY <1>1, <1>2, <1>3, <1>4, <1>5, <1>6, <1>7, <1>8, <1>9, <1>10, <1>11,
     <1>12 DEF Request

\* So do the steps of a driver.
LEMMA DriverStepType ==
    ASSUME TypeOK, NEW t \in TurnIds, DriverStep(t)
    PROVE  TypeOK'
<1> USE DEF stateVars, turnVars, noticeVars, taskVars, outVars, sessionVars
<1>1. ASSUME DriverConnect(t)
      PROVE  TypeOK'
  <2>1. OutOK'
    BY <1>1 DEF TypeOK, OutOK, DriverConnect, AfterSpawn, DriverStates
  <2> QED
    BY <1>1, <2>1 DEF TypeOK, QueueOK, TurnOK, NoticeOK, DrainOK, CallOK,
       DriverConnect
<1>2. ASSUME DriverPrompt(t)
      PROVE  TypeOK'
  <2>1. TurnOK'
    BY <1>2 DEF TypeOK, TurnOK, DriverPrompt, TurnIds
  <2>2. OutOK'
    BY <1>2 DEF TypeOK, OutOK, DriverPrompt, DriverStates, TurnIds
  <2> QED
    BY <1>2, <2>1, <2>2 DEF TypeOK, QueueOK, NoticeOK, DrainOK, CallOK,
       DriverPrompt
<1>3. ASSUME DriverError(t)
      PROVE  TypeOK'
  <2>1. OutOK'
    BY <1>3 DEF TypeOK, OutOK, DriverError, DriverStates
  <2> QED
    BY <1>3, <2>1 DEF TypeOK, QueueOK, TurnOK, NoticeOK, DrainOK, CallOK,
       DriverError
<1>4. ASSUME DriverResult(t)
      PROVE  TypeOK'
  <2>1. OutOK'
    BY <1>4 DEF TypeOK, OutOK, DriverResult, DriverStates
  <2> QED
    BY <1>4, <2>1 DEF TypeOK, QueueOK, TurnOK, NoticeOK, DrainOK, CallOK,
       DriverResult
<1>5. ASSUME DriverQuit(t)
      PROVE  TypeOK'
  <2>1. OutOK'
    BY <1>5 DEF TypeOK, OutOK, DriverQuit, DriverStates
  <2> QED
    BY <1>5, <2>1 DEF TypeOK, QueueOK, TurnOK, NoticeOK, DrainOK, CallOK,
       DriverQuit
<1> QED
  BY <1>1, <1>2, <1>3, <1>4, <1>5 DEF DriverStep

\* So do the steps of a drain task.
LEMMA DrainStepType ==
    ASSUME TypeOK, NEW d \in Drains, DrainStep(d)
    PROVE  TypeOK'
<1> USE DEF stateVars, turnVars, noticeVars, taskVars, outVars, sessionVars
<1>1. ASSUME DrainStart(d)
      PROVE  TypeOK'
  <2>1. TurnOK'
    BY <1>1 DEF TypeOK, TurnOK, DrainStart
  <2>2. DrainOK'
    BY <1>1 DEF TypeOK, DrainOK, DrainStart, At, Goto, DrainTask, DrainPcs,
       LoopPcs, KnowsTurn
  <2> QED
    BY <1>1, <2>1, <2>2 DEF TypeOK, QueueOK, NoticeOK, CallOK, OutOK,
       DrainStart
<1>2. ASSUME DrainTop(d)
      PROVE  TypeOK'
  <2>1. DrainOK'
    BY <1>2 DEF TypeOK, DrainOK, DrainTop, At, Goto, DrainTask, DrainPcs,
       LoopPcs, KnowsTurn
  <2> QED
    BY <1>2, <2>1 DEF TypeOK, QueueOK, TurnOK, NoticeOK, CallOK, OutOK,
       DrainTop
<1>3. ASSUME DrainInner(d)
      PROVE  TypeOK'
  <2>1. DrainOK'
    BY <1>3 DEF TypeOK, DrainOK, DrainInner, At, Goto, DrainTask, DrainPcs,
       LoopPcs, KnowsTurn
  <2> QED
    BY <1>3, <2>1 DEF TypeOK, QueueOK, TurnOK, NoticeOK, CallOK, OutOK,
       DrainInner
<1>4. ASSUME DrainPop(d)
      PROVE  TypeOK'
  <2>1. QueueOK'
    <3>1. queue # <<>> => Tail(queue) \in Seq(Turns)
      BY HeadTailProperties DEF TypeOK, QueueOK
    <3> QED
      BY <1>4, <3>1 DEF TypeOK, QueueOK, DrainPop, PopHead
  <2>2. DrainOK'
    <3>1. drain[d] \in DrainTask /\ At(d, "pop")
      BY <1>4 DEF TypeOK, DrainOK, DrainPop
    <3>2. CASE queue # <<>>
      <4> DEFINE r == [drain[d] EXCEPT !.pc = "row", !.turn = Head(queue)]
      <4>1. Head(queue) \in Turns
        BY <3>2, HeadTailProperties DEF TypeOK, QueueOK
      <4>2. r \in DrainTask /\ KnowsTurn(r)
        BY <3>1, <4>1 DEF DrainTask, DrainPcs, LoopPcs, KnowsTurn, TurnIds
      <4>3. drain' = [drain EXCEPT ![d] = r]
        BY <1>4, <3>2, <3>1 DEF DrainPop, TypeOK, DrainOK
      <4> QED
        BY <4>2, <4>3, DrainUpdate DEF TypeOK
    <3>3. CASE queue = <<>>
      <4> DEFINE r == [drain[d] EXCEPT !.pc = "after"]
      <4>1. r \in DrainTask /\ KnowsTurn(r)
        BY <3>1 DEF DrainTask, DrainPcs, LoopPcs, KnowsTurn
      <4>2. drain' = [drain EXCEPT ![d] = r]
        BY <1>4, <3>3, <3>1 DEF DrainPop, Goto, TypeOK, DrainOK
      <4> QED
        BY <4>1, <4>2, DrainUpdate DEF TypeOK
    <3> QED
      BY <3>2, <3>3
  <2> QED
    BY <1>4, <2>1, <2>2 DEF TypeOK, TurnOK, NoticeOK, CallOK, OutOK,
       DrainPop
<1>5. ASSUME DrainRow(d)
      PROVE  TypeOK'
  <2>1. QueueOK'
    BY <1>5 DEF TypeOK, QueueOK, DrainRow, WithoutReview, TurnIds
  <2>2. DrainOK'
    <3> DEFINE r == IF released
                    THEN [drain[d] EXCEPT !.pc = "after", !.turn = NoTurn]
                    ELSE [drain[d] EXCEPT !.pc = "begin"]
    <3>1. drain[d] \in DrainTask /\ KnowsTurn(drain[d]) /\ At(d, "row")
      BY <1>5 DEF TypeOK, DrainOK, DrainRow
    <3>2. r \in DrainTask /\ KnowsTurn(r)
      BY <3>1 DEF DrainTask, DrainPcs, LoopPcs, KnowsTurn, At, TurnIds
    <3>3. drain' = [drain EXCEPT ![d] = r]
      BY <1>5, <3>1 DEF DrainRow, TypeOK, DrainOK
    <3> QED
      BY <3>2, <3>3, DrainUpdate DEF TypeOK
  <2>3. OutOK'
    BY <1>5 DEF TypeOK, OutOK, DrainOK, DrainRow, WithRow, Report,
       DriverStates, KnowsTurn, At, TurnIds
  <2> QED
    BY <1>5, <2>1, <2>2, <2>3 DEF TypeOK, TurnOK, NoticeOK, CallOK, DrainRow
<1>6. ASSUME DrainBegin(d)
      PROVE  TypeOK'
  <2>1. TurnOK'
    BY <1>6 DEF TypeOK, TurnOK, DrainOK, DrainBegin, KnowsTurn, At, TurnIds
  <2>2. DrainOK'
    BY <1>6 DEF TypeOK, DrainOK, DrainBegin, At, Goto, DrainTask, DrainPcs,
       LoopPcs, KnowsTurn
  <2>3. OutOK'
    BY <1>6 DEF TypeOK, OutOK, DrainOK, DrainBegin, DriverStates, KnowsTurn,
       At, TurnIds
  <2> QED
    BY <1>6, <2>1, <2>2, <2>3 DEF TypeOK, QueueOK, NoticeOK, CallOK,
       DrainBegin
<1>7. ASSUME TurnStopped(d)
      PROVE  TypeOK'
  <2>1. DrainOK'
    BY <1>7 DEF TypeOK, DrainOK, TurnStopped, At, Goto, DrainTask, DrainPcs,
       LoopPcs, KnowsTurn
  <2> QED
    BY <1>7, <2>1 DEF TypeOK, QueueOK, TurnOK, NoticeOK, CallOK, OutOK,
       TurnStopped
<1>8. ASSUME TurnWoken(d)
      PROVE  TypeOK'
  <2>1. TurnOK'
    BY <1>8 DEF TypeOK, TurnOK, TurnWoken
  <2>2. DrainOK'
    <3> DEFINE r == [drain[d] EXCEPT !.pc = "steer", !.tries = 0]
    <3>1. drain[d] \in DrainTask /\ KnowsTurn(drain[d]) /\ At(d, "turn")
      BY <1>8 DEF TypeOK, DrainOK, TurnWoken
    <3>2. r \in DrainTask /\ KnowsTurn(r)
      BY <3>1 DEF DrainTask, DrainPcs, LoopPcs, KnowsTurn, At
    <3>3. drain' = [drain EXCEPT ![d] = r]
      BY <1>8, <3>1 DEF TurnWoken, TypeOK, DrainOK
    <3> QED
      BY <3>2, <3>3, DrainUpdate DEF TypeOK
  <2> QED
    BY <1>8, <2>1, <2>2 DEF TypeOK, QueueOK, NoticeOK, CallOK, OutOK,
       TurnWoken
<1>9. ASSUME TurnEvent(d)
      PROVE  TypeOK'
  <2>1. TurnOK'
    BY <1>9 DEF TypeOK, TurnOK, TurnEvent
  <2>2. DrainOK'
    <3> DEFINE r == [drain[d] EXCEPT !.saw = (driver[drain[d].turn] = "result")]
    <3>1. drain[d] \in DrainTask /\ KnowsTurn(drain[d]) /\ At(d, "turn")
      BY <1>9 DEF TypeOK, DrainOK, TurnEvent
    <3>2. r \in DrainTask /\ KnowsTurn(r)
      BY <3>1 DEF DrainTask, DrainPcs, LoopPcs, KnowsTurn, At
    <3>3. drain' = [drain EXCEPT ![d] = r]
      BY <1>9, <3>1 DEF TurnEvent, TypeOK, DrainOK
    <3> QED
      BY <3>2, <3>3, DrainUpdate DEF TypeOK
  <2>3. OutOK'
    BY <1>9 DEF TypeOK, OutOK, DrainOK, TurnEvent, DriverStates, KnowsTurn,
       At
  <2> QED
    BY <1>9, <2>1, <2>2, <2>3 DEF TypeOK, QueueOK, NoticeOK, CallOK,
       TurnEvent
<1>10. ASSUME TurnClosed(d)
       PROVE  TypeOK'
  <2>1. DrainOK'
    BY <1>10 DEF TypeOK, DrainOK, TurnClosed, At, Goto, DrainTask, DrainPcs,
       LoopPcs, KnowsTurn
  <2> QED
    BY <1>10, <2>1 DEF TypeOK, QueueOK, TurnOK, NoticeOK, CallOK, OutOK,
       TurnClosed
<1>11. ASSUME TurnEnd(d)
       PROVE  TypeOK'
  <2>1. TurnOK'
    BY <1>11 DEF TypeOK, TurnOK, TurnEnd, TurnIds
  <2>2. NoticeOK'
    BY <1>11 DEF TypeOK, NoticeOK, TurnEnd, TurnIds
  <2>3. DrainOK'
    BY <1>11 DEF TypeOK, DrainOK, TurnEnd, At, OffDrain, DrainTask,
       DrainPcs, LoopPcs, KnowsTurn, TurnIds
  <2>4. OutOK'
    BY <1>11 DEF TypeOK, OutOK, DrainOK, TurnEnd, DriverStates, KnowsTurn,
       At, TurnIds
  <2> QED
    BY <1>11, <2>1, <2>2, <2>3, <2>4 DEF TypeOK, QueueOK, CallOK, TurnEnd
<1>12. ASSUME SteerCheck(d)
       PROVE  TypeOK'
  <2>1. QueueOK'
    BY <1>12, HeadTailProperties DEF TypeOK, QueueOK, SteerCheck, HeadSteers
  <2>2. DrainOK'
    <3>1. drain[d] \in DrainTask /\ KnowsTurn(drain[d]) /\ At(d, "steer")
      BY <1>12 DEF TypeOK, DrainOK, SteerCheck
    <3>2. CASE ~released /\ HeadSteers
      <4> DEFINE r == [drain[d] EXCEPT !.pc = "steerRpc", !.head = Head(queue)]
      <4>1. Head(queue) \in Turns
        BY <3>2, HeadTailProperties DEF HeadSteers, TypeOK, QueueOK
      <4>2. r \in DrainTask /\ KnowsTurn(r)
        BY <3>1, <4>1 DEF DrainTask, DrainPcs, LoopPcs, KnowsTurn, At
      <4>3. drain' = [drain EXCEPT ![d] = r]
        BY <1>12, <3>2, <3>1 DEF SteerCheck, TypeOK, DrainOK
      <4> QED
        BY <4>2, <4>3, DrainUpdate DEF TypeOK
    <3>3. CASE ~(~released /\ HeadSteers)
      <4> DEFINE r == [drain[d] EXCEPT !.pc = "turn"]
      <4>1. r \in DrainTask /\ KnowsTurn(r)
        BY <3>1 DEF DrainTask, DrainPcs, LoopPcs, KnowsTurn, At
      <4>2. drain' = [drain EXCEPT ![d] = r]
        BY <1>12, <3>3, <3>1 DEF SteerCheck, Goto, TypeOK, DrainOK
      <4> QED
        BY <4>1, <4>2, DrainUpdate DEF TypeOK
    <3> QED
      BY <3>2, <3>3
  <2> QED
    BY <1>12, <2>1, <2>2 DEF TypeOK, TurnOK, NoticeOK, CallOK, OutOK,
       SteerCheck
<1>13. ASSUME SteerInjected(d)
       PROVE  TypeOK'
  <2>1. QueueOK'
    BY <1>13, RemoveAtType DEF TypeOK, QueueOK, SteerInjected, HeadOut
  <2>2. TurnOK'
    BY <1>13 DEF TypeOK, TurnOK, SteerInjected, IdleState
  <2>3. DrainOK'
    <3> DEFINE r == [drain[d] EXCEPT !.pc = "steerRow"]
    <3>1. drain[d] \in DrainTask /\ KnowsTurn(drain[d]) /\ At(d, "steerRpc")
      BY <1>13 DEF TypeOK, DrainOK, SteerInjected
    <3>2. r \in DrainTask /\ KnowsTurn(r)
      BY <3>1 DEF DrainTask, DrainPcs, LoopPcs, KnowsTurn, At
    <3>3. drain' = [drain EXCEPT ![d] = r]
      BY <1>13, <3>1 DEF SteerInjected, Goto, TypeOK, DrainOK
    <3> QED
      BY <3>2, <3>3, DrainUpdate DEF TypeOK
  <2>4. OutOK'
    BY <1>13 DEF TypeOK, OutOK, DrainOK, SteerInjected, DriverStates,
       KnowsTurn, At
  <2> QED
    BY <1>13, <2>1, <2>2, <2>3, <2>4 DEF TypeOK, NoticeOK, CallOK,
       SteerInjected
<1>14. ASSUME SteerRow(d)
       PROVE  TypeOK'
  <2>1. DrainOK'
    <3> DEFINE r == [drain[d] EXCEPT !.pc = "steer", !.head = NoTurn, !.tries = 0]
    <3>1. drain[d] \in DrainTask /\ KnowsTurn(drain[d]) /\ At(d, "steerRow")
      BY <1>14 DEF TypeOK, DrainOK, SteerRow
    <3>2. r \in DrainTask /\ KnowsTurn(r)
      BY <3>1 DEF DrainTask, DrainPcs, LoopPcs, KnowsTurn, At
    <3>3. drain' = [drain EXCEPT ![d] = r]
      BY <1>14, <3>1 DEF SteerRow, TypeOK, DrainOK
    <3> QED
      BY <3>2, <3>3, DrainUpdate DEF TypeOK
  <2>2. OutOK'
    BY <1>14 DEF TypeOK, OutOK, DrainOK, SteerRow, WithRow, DriverStates,
       KnowsTurn, At
  <2> QED
    BY <1>14, <2>1, <2>2 DEF TypeOK, QueueOK, TurnOK, NoticeOK, CallOK,
       SteerRow
<1>15. ASSUME SteerTooEarly(d)
       PROVE  TypeOK'
  <2>1. QueueOK'
    BY <1>15 DEF TypeOK, QueueOK, SteerTooEarly
  <2>2. DrainOK'
    <3> DEFINE r(p, n) == [drain[d] EXCEPT !.pc = p, !.tries = n, !.head = NoTurn]
    <3>1. drain[d] \in DrainTask /\ KnowsTurn(drain[d]) /\ At(d, "steerRpc")
      BY <1>15 DEF TypeOK, DrainOK, SteerTooEarly
    <3>2. \A p \in {"turn", "steer"}, n \in Nat :
            r(p, n) \in DrainTask /\ KnowsTurn(r(p, n))
      BY <3>1 DEF DrainTask, DrainPcs, LoopPcs, KnowsTurn, At
    <3>3. drain[d].tries \in Nat
      BY <3>1 DEF DrainTask
    <3>4. CASE drain[d].tries + 1 >= SteerTries
      <4>1. drain' = [drain EXCEPT ![d] = r("turn", 0)]
        BY <1>15, <3>1, <3>4 DEF SteerTooEarly, TypeOK, DrainOK
      <4> QED
        BY <3>2, <4>1, DrainUpdate DEF TypeOK
    <3>5. CASE ~(drain[d].tries + 1 >= SteerTries)
      <4>1. drain' = [drain EXCEPT ![d] = r("steer", drain[d].tries + 1)]
        BY <1>15, <3>1, <3>5 DEF SteerTooEarly, TypeOK, DrainOK
      <4>2. drain[d].tries + 1 \in Nat
        BY <3>3
      <4>3. r("steer", drain[d].tries + 1) \in DrainTask
            /\ KnowsTurn(r("steer", drain[d].tries + 1))
        BY <3>2, <4>2
      <4> QED
        BY <4>1, <4>3, DrainUpdate DEF TypeOK
    <3> QED
      BY <3>4, <3>5
  <2> QED
    BY <1>15, <2>1, <2>2 DEF TypeOK, TurnOK, NoticeOK, CallOK, OutOK,
       SteerTooEarly
<1>16. ASSUME SteerFailed(d)
       PROVE  TypeOK'
  <2>1. QueueOK'
    BY <1>16 DEF TypeOK, QueueOK, SteerFailed
  <2>2. DrainOK'
    <3> DEFINE r == [drain[d] EXCEPT !.pc = "turn", !.tries = 0, !.head = NoTurn]
    <3>1. drain[d] \in DrainTask /\ KnowsTurn(drain[d]) /\ At(d, "steerRpc")
      BY <1>16 DEF TypeOK, DrainOK, SteerFailed
    <3>2. r \in DrainTask /\ KnowsTurn(r)
      BY <3>1 DEF DrainTask, DrainPcs, LoopPcs, KnowsTurn, At
    <3>3. drain' = [drain EXCEPT ![d] = r]
      BY <1>16, <3>1 DEF SteerFailed, TypeOK, DrainOK
    <3> QED
      BY <3>2, <3>3, DrainUpdate DEF TypeOK
  <2>3. OutOK'
    BY <1>16 DEF TypeOK, OutOK, DrainOK, SteerFailed, DriverStates,
       KnowsTurn, At
  <2> QED
    BY <1>16, <2>1, <2>2, <2>3 DEF TypeOK, TurnOK, NoticeOK, CallOK,
       SteerFailed
<1>17. ASSUME DrainAfter(d)
       PROVE  TypeOK'
  <2>1. DrainOK'
    BY <1>17 DEF TypeOK, DrainOK, DrainAfter, At, Goto, DrainTask, DrainPcs,
       LoopPcs, KnowsTurn
  <2> QED
    BY <1>17, <2>1 DEF TypeOK, QueueOK, TurnOK, NoticeOK, CallOK, OutOK,
       DrainAfter
<1>18. ASSUME DrainFlag(d)
       PROVE  TypeOK'
  <2>1. TurnOK'
    BY <1>18 DEF TypeOK, TurnOK, DrainFlag
  <2>2. DrainOK'
    BY <1>18 DEF TypeOK, DrainOK, DrainFlag, At, Goto, AfterFlag, DrainTask,
       DrainPcs, LoopPcs, KnowsTurn
  <2> QED
    BY <1>18, <2>1, <2>2 DEF TypeOK, QueueOK, NoticeOK, CallOK, OutOK,
       DrainFlag
<1>19. ASSUME DrainLeft(d)
       PROVE  TypeOK'
  <2>1. DrainOK'
    BY <1>19 DEF TypeOK, DrainOK, DrainLeft, At, Goto, DrainTask, DrainPcs,
       LoopPcs, KnowsTurn
  <2> QED
    BY <1>19, <2>1 DEF TypeOK, QueueOK, TurnOK, NoticeOK, CallOK, OutOK,
       DrainLeft
<1>20. ASSUME DrainPromo(d)
       PROVE  TypeOK'
  <2>1. TurnOK'
    BY <1>20 DEF TypeOK, TurnOK, DrainPromo
  <2>2. NoticeOK'
    BY <1>20 DEF TypeOK, NoticeOK, DrainPromo
  <2>3. DrainOK'
    BY <1>20 DEF TypeOK, DrainOK, DrainPromo, At, Goto, DrainTask, DrainPcs,
       LoopPcs, KnowsTurn
  <2> QED
    BY <1>20, <2>1, <2>2, <2>3 DEF TypeOK, QueueOK, CallOK, OutOK,
       DrainPromo
<1>21. ASSUME DrainSlot(d)
       PROVE  TypeOK'
  <2>1. DrainOK'
    BY <1>21 DEF TypeOK, DrainOK, DrainSlot, At, Goto, DrainTask, DrainPcs,
       LoopPcs, KnowsTurn
  <2> QED
    BY <1>21, <2>1 DEF TypeOK, QueueOK, TurnOK, NoticeOK, CallOK, OutOK,
       DrainSlot
<1>22. ASSUME TakeNotice(d)
       PROVE  TypeOK'
  <2>1. NoticeOK'
    BY <1>22 DEF TypeOK, NoticeOK, TakeNotice
  <2>2. DrainOK'
    <3> DEFINE r(p) == [drain[d] EXCEPT !.pc = p, !.kids = noticeSlot]
    <3>1. drain[d] \in DrainTask /\ noticeSlot \subseteq Children
      BY DEF TypeOK, DrainOK, NoticeOK
    <3>2. \A p \in {"top", "prune"} : r(p) \in DrainTask /\ KnowsTurn(r(p))
      BY <3>1 DEF DrainTask, DrainPcs, LoopPcs, KnowsTurn
    <3>3. \E p \in {"top", "prune"} : drain' = [drain EXCEPT ![d] = r(p)]
      BY <1>22 DEF TakeNotice, TypeOK, DrainOK
    <3> QED
      BY <3>2, <3>3, DrainUpdate DEF TypeOK
  <2> QED
    BY <1>22, <2>1, <2>2 DEF TypeOK, QueueOK, TurnOK, CallOK, OutOK,
       TakeNotice
<1>23. ASSUME PruneNotice(d)
       PROVE  TypeOK'
  <2>1. NoticeOK'
    BY <1>23 DEF TypeOK, NoticeOK, DrainOK, DrainTask, PruneNotice, TurnIds
  <2>2. DrainOK'
    BY <1>23 DEF TypeOK, DrainOK, PruneNotice, At, DrainTask, DrainPcs,
       LoopPcs, KnowsTurn, TurnIds
  <2>3. OutOK'
    BY <1>23 DEF TypeOK, OutOK, PruneNotice, DriverStates, TurnIds
  <2> QED
    BY <1>23, <2>1, <2>2, <2>3 DEF TypeOK, QueueOK, TurnOK, CallOK,
       PruneNotice
<1>24. ASSUME DrainFin(d)
       PROVE  TypeOK'
  <2>1. TurnOK'
    BY <1>24 DEF TypeOK, TurnOK, DrainFin
  <2>2. DrainOK'
    <3> DEFINE r == [drain[d] EXCEPT !.pc = "signal"]
    <3>1. drain[d] \in DrainTask /\ KnowsTurn(drain[d]) /\ At(d, "fin")
      BY <1>24 DEF TypeOK, DrainOK, DrainFin
    <3>2. r \in DrainTask /\ KnowsTurn(r)
      BY <3>1 DEF DrainTask, DrainPcs, LoopPcs, TailPcs, KnowsTurn, At
    <3>3. drain' = [drain EXCEPT ![d] = r]
      BY <1>24, <3>1 DEF DrainFin, Goto, TypeOK, DrainOK
    <3> QED
      BY <3>2, <3>3, DrainUpdate DEF TypeOK
  <2> QED
    BY <1>24, <2>1, <2>2 DEF TypeOK, QueueOK, NoticeOK, CallOK, OutOK,
       DrainFin
<1>25. ASSUME DrainSignal(d)
       PROVE  TypeOK'
  <2>1. TurnOK'
    BY <1>25 DEF TypeOK, TurnOK, DrainSignal, IdleSignal
  <2>2. DrainOK'
    BY <1>25 DEF TypeOK, DrainOK, DrainSignal, At, Goto, DrainTask,
       DrainPcs, LoopPcs, TailPcs, KnowsTurn
  <2> QED
    BY <1>25, <2>1, <2>2 DEF TypeOK, QueueOK, NoticeOK, CallOK, OutOK,
       DrainSignal
<1>26. ASSUME DrainRekick(d)
       PROVE  TypeOK'
  <2>1. TurnOK'
    BY <1>26 DEF TypeOK, TurnOK, DrainRekick, KickDrain
  <2>2. DrainOK'
    <3> DEFINE ds == [drain EXCEPT ![d] = OffDrain]
    <3>1. ds \in [Drains -> DrainTask] /\ \A e \in Drains : KnowsTurn(ds[e])
      BY OffType DEF TypeOK, DrainOK, KnowsTurn, OffDrain
    <3>2. CASE KickDrain(ds)
      BY <3>1, <3>2, KickType
    <3>3. CASE drain' = ds
      BY <3>1, <3>3 DEF DrainOK
    <3> QED
      BY <3>2, <3>3, <1>26 DEF DrainRekick
  <2> QED
    BY <1>26, <2>1, <2>2 DEF TypeOK, QueueOK, NoticeOK, CallOK, OutOK,
       DrainRekick
<1> QED
  BY <1>1, <1>2, <1>3, <1>4, <1>5, <1>6, <1>7, <1>8, <1>9, <1>10, <1>11,
     <1>12, <1>13, <1>14, <1>15, <1>16, <1>17, <1>18, <1>19, <1>20, <1>21,
     <1>22, <1>23, <1>24, <1>25, <1>26 DEF DrainStep, TurnStep, SteerStep,
     NoticeStep

\* Every reachable state of the engine is well typed, and no task or call ever
\* deals with a turn without knowing which.
THEOREM TypeCorrect == Spec => []TypeOK
<1>1. TypeOK /\ [Next]_vars => TypeOK'
  <2> SUFFICES ASSUME TypeOK, [Next]_vars PROVE TypeOK'
    OBVIOUS
  <2>1. CASE Next
    BY <2>1, CallStepType, RequestType, DriverStepType, DrainStepType DEF Next
  <2>2. CASE UNCHANGED vars
    BY <2>2 DEF vars, stateVars, turnVars, noticeVars, taskVars, outVars,
                sessionVars, TypeOK, QueueOK, TurnOK, NoticeOK, DrainOK, CallOK,
                OutOK
  <2> QED
    BY <2>1, <2>2
<1> QED
  BY <1>1, TypeInit, PTL DEF Spec
-----------------------------------------------------------------------------
(* One drain at a time.  SingleDrain and SettledIsIdle are inductive once    *)
(* the tasks are well typed: `running` names the owner of the loop, and only *)
(* kick_drain's check-and-set takes it and the finally block gives it up.    *)

OneOwner == DrainOK /\ SingleDrain /\ SettledIsIdle

\* A step that leaves the tasks and the two flags alone.
LEMMA OwnerStays ==
    ASSUME OneOwner, UNCHANGED <<drain, running, drainIdle>>
    PROVE  SingleDrain' /\ SettledIsIdle'
  BY DEF OneOwner, SingleDrain, SettledIsIdle, InLoop

\* Task d stays in its loop, and nothing else happens to tasks and flags.
KeepsLoop(d) ==
    /\ InLoop(d) /\ drain'[d].pc \in LoopPcs
    /\ \A e \in Drains \ {d} : drain'[e] = drain[e]
    /\ UNCHANGED <<running, drainIdle>>

\* A task in its loop that takes a step of the loop.
LEMMA OwnerSteps ==
    ASSUME OneOwner, NEW d \in Drains, KeepsLoop(d)
    PROVE  SingleDrain' /\ SettledIsIdle'
<1>1. \A e \in Drains : InLoop(e)' <=> InLoop(e)
  BY DEF KeepsLoop, InLoop
<1> QED
  BY <1>1 DEF KeepsLoop, OneOwner, SingleDrain, SettledIsIdle

\* kick_drain, from tasks ds of which none gained or lost the loop: it starts
\* a task only when there is no owner.
LEMMA OwnerStarts ==
    ASSUME OneOwner, NEW ds \in [Drains -> DrainTask],
           \A e \in Drains : ds[e].pc \in LoopPcs <=> InLoop(e),
           KickDrain(ds)
    PROVE  SingleDrain' /\ SettledIsIdle'
<1>1. CASE drain' = ds /\ UNCHANGED <<running, drainIdle>>
  <2>1. \A e \in Drains : InLoop(e)' <=> InLoop(e)
    BY <1>1 DEF InLoop
  <2> QED
    BY <1>1, <2>1 DEF OneOwner, SingleDrain, SettledIsIdle
<1>2. ASSUME NEW d \in Drains, ~running, running', ~drainIdle',
             drain' = [ds EXCEPT ![d] = [OffDrain EXCEPT !.pc = "start"]]
      PROVE  SingleDrain' /\ SettledIsIdle'
  <2>1. \A e \in Drains : ~InLoop(e)
    BY <1>2 DEF OneOwner, SingleDrain
  <2>2. \A e \in Drains : InLoop(e)' <=> e = d
    BY <1>2, <2>1 DEF InLoop, OffDrain, LoopPcs
  <2> QED
    BY <1>2, <2>2 DEF SingleDrain, SettledIsIdle
<1> QED
  BY <1>1, <1>2 DEF KickDrain, MayStartDrain

\* The steps of a drain task keep one owner.
LEMMA OwnerDrainStep ==
    ASSUME OneOwner, NEW d \in Drains, DrainStep(d)
    PROVE  SingleDrain' /\ SettledIsIdle'
<1> USE DEF stateVars, turnVars, noticeVars, taskVars, outVars, sessionVars
<1>1. CASE DrainStart(d)
  <2>1. KeepsLoop(d)
    BY <1>1 DEF KeepsLoop, DrainStart, At, OneOwner, DrainOK, LoopPcs,
       InLoop, Goto
  <2> QED
    BY <2>1, OwnerSteps
<1>2. CASE DrainTop(d)
  <2>1. KeepsLoop(d)
    BY <1>2 DEF KeepsLoop, DrainTop, At, OneOwner, DrainOK, LoopPcs, InLoop,
       Goto
  <2> QED
    BY <2>1, OwnerSteps
<1>3. CASE DrainInner(d)
  <2>1. KeepsLoop(d)
    BY <1>3 DEF KeepsLoop, DrainInner, At, OneOwner, DrainOK, LoopPcs,
       InLoop, Goto
  <2> QED
    BY <2>1, OwnerSteps
<1>4. CASE DrainPop(d)
  <2>1. KeepsLoop(d)
    <3>1. \/ drain' = [drain EXCEPT ![d].pc = "after"]
          \/ drain' = [drain EXCEPT ![d].pc = "row", ![d].turn = Head(queue)]
      BY <1>4 DEF DrainPop, Goto
    <3>2. At(d, "pop") /\ UNCHANGED <<running, drainIdle>>
      BY <1>4 DEF DrainPop
    <3>3. CASE drain' = [drain EXCEPT ![d].pc = "after"]
      BY <3>2, <3>3 DEF KeepsLoop, At, OneOwner, DrainOK, LoopPcs, InLoop
    <3>4. CASE drain' = [drain EXCEPT ![d].pc = "row", ![d].turn = Head(queue)]
      BY <3>2, <3>4 DEF KeepsLoop, At, OneOwner, DrainOK, LoopPcs, InLoop
    <3> QED
      BY <3>1, <3>3, <3>4
  <2> QED
    BY <2>1, OwnerSteps
<1>5. CASE DrainRow(d)
  <2>1. KeepsLoop(d)
    BY <1>5 DEF KeepsLoop, DrainRow, At, OneOwner, DrainOK, LoopPcs, InLoop
  <2> QED
    BY <2>1, OwnerSteps
<1>6. CASE DrainBegin(d)
  <2>1. KeepsLoop(d)
    BY <1>6 DEF KeepsLoop, DrainBegin, At, OneOwner, DrainOK, LoopPcs,
       InLoop, Goto
  <2> QED
    BY <2>1, OwnerSteps
<1>7. CASE TurnStopped(d)
  <2>1. KeepsLoop(d)
    BY <1>7 DEF KeepsLoop, TurnStopped, At, OneOwner, DrainOK, LoopPcs,
       InLoop, Goto
  <2> QED
    BY <2>1, OwnerSteps
<1>8. CASE TurnWoken(d)
  <2>1. KeepsLoop(d)
    BY <1>8 DEF KeepsLoop, TurnWoken, At, OneOwner, DrainOK, LoopPcs, InLoop
  <2> QED
    BY <2>1, OwnerSteps
<1>9. CASE TurnEvent(d)
  <2>1. KeepsLoop(d)
    BY <1>9 DEF KeepsLoop, TurnEvent, At, OneOwner, DrainOK, LoopPcs, InLoop
  <2> QED
    BY <2>1, OwnerSteps
<1>10. CASE TurnClosed(d)
  <2>1. KeepsLoop(d)
    BY <1>10 DEF KeepsLoop, TurnClosed, At, OneOwner, DrainOK, LoopPcs,
       InLoop, Goto
  <2> QED
    BY <2>1, OwnerSteps
<1>11. CASE TurnEnd(d)
  <2>1. KeepsLoop(d)
    BY <1>11 DEF KeepsLoop, TurnEnd, At, OneOwner, DrainOK, LoopPcs, InLoop,
       OffDrain
  <2> QED
    BY <2>1, OwnerSteps
<1>12. CASE SteerCheck(d)
  <2>1. KeepsLoop(d)
    <3>1. \/ drain' = [drain EXCEPT ![d].pc = "steerRpc",
                                ![d].head = Head(queue)]
          \/ drain' = [drain EXCEPT ![d].pc = "turn"]
      BY <1>12 DEF SteerCheck, Goto
    <3>2. At(d, "steer") /\ UNCHANGED <<running, drainIdle>>
      BY <1>12 DEF SteerCheck
    <3>3. CASE drain' = [drain EXCEPT ![d].pc = "steerRpc",
                                ![d].head = Head(queue)]
      BY <3>2, <3>3 DEF KeepsLoop, At, OneOwner, DrainOK, LoopPcs, InLoop
    <3>4. CASE drain' = [drain EXCEPT ![d].pc = "turn"]
      BY <3>2, <3>4 DEF KeepsLoop, At, OneOwner, DrainOK, LoopPcs, InLoop
    <3> QED
      BY <3>1, <3>3, <3>4
  <2> QED
    BY <2>1, OwnerSteps
<1>13. CASE SteerInjected(d)
  <2>1. KeepsLoop(d)
    BY <1>13 DEF KeepsLoop, SteerInjected, At, OneOwner, DrainOK, LoopPcs,
       InLoop, Goto
  <2> QED
    BY <2>1, OwnerSteps
<1>14. CASE SteerRow(d)
  <2>1. KeepsLoop(d)
    BY <1>14 DEF KeepsLoop, SteerRow, At, OneOwner, DrainOK, LoopPcs, InLoop
  <2> QED
    BY <2>1, OwnerSteps
<1>15. CASE SteerTooEarly(d)
  <2>1. KeepsLoop(d)
    BY <1>15 DEF KeepsLoop, SteerTooEarly, At, OneOwner, DrainOK, LoopPcs,
       InLoop
  <2> QED
    BY <2>1, OwnerSteps
<1>16. CASE SteerFailed(d)
  <2>1. KeepsLoop(d)
    BY <1>16 DEF KeepsLoop, SteerFailed, At, OneOwner, DrainOK, LoopPcs,
       InLoop
  <2> QED
    BY <2>1, OwnerSteps
<1>17. CASE DrainAfter(d)
  <2>1. KeepsLoop(d)
    BY <1>17 DEF KeepsLoop, DrainAfter, At, OneOwner, DrainOK, LoopPcs,
       InLoop, Goto
  <2> QED
    BY <2>1, OwnerSteps
<1>18. CASE DrainFlag(d)
  <2>1. KeepsLoop(d)
    BY <1>18 DEF KeepsLoop, DrainFlag, At, OneOwner, DrainOK, LoopPcs,
       InLoop, Goto, AfterFlag
  <2> QED
    BY <2>1, OwnerSteps
<1>19. CASE DrainLeft(d)
  <2>1. KeepsLoop(d)
    <3>1. \/ drain' = [drain EXCEPT ![d].pc = "top"]
          \/ drain' = [drain EXCEPT ![d].pc = "fin", ![d].broke = TRUE]
      BY <1>19 DEF DrainLeft, Goto
    <3>2. At(d, "left") /\ UNCHANGED <<running, drainIdle>>
      BY <1>19 DEF DrainLeft
    <3>3. CASE drain' = [drain EXCEPT ![d].pc = "top"]
      BY <3>2, <3>3 DEF KeepsLoop, At, OneOwner, DrainOK, LoopPcs, InLoop
    <3>4. CASE drain' = [drain EXCEPT ![d].pc = "fin", ![d].broke = TRUE]
      BY <3>2, <3>4 DEF KeepsLoop, At, OneOwner, DrainOK, LoopPcs, InLoop
    <3> QED
      BY <3>1, <3>3, <3>4
  <2> QED
    BY <2>1, OwnerSteps
<1>20. CASE DrainPromo(d)
  <2>1. KeepsLoop(d)
    BY <1>20 DEF KeepsLoop, DrainPromo, At, OneOwner, DrainOK, LoopPcs,
       InLoop, Goto
  <2> QED
    BY <2>1, OwnerSteps
<1>21. CASE DrainSlot(d)
  <2>1. KeepsLoop(d)
    BY <1>21 DEF KeepsLoop, DrainSlot, At, OneOwner, DrainOK, LoopPcs,
       InLoop, Goto
  <2> QED
    BY <2>1, OwnerSteps
<1>22. CASE TakeNotice(d)
  <2>1. KeepsLoop(d)
    BY <1>22 DEF KeepsLoop, TakeNotice, At, OneOwner, DrainOK, LoopPcs,
       InLoop
  <2> QED
    BY <2>1, OwnerSteps
<1>23. CASE PruneNotice(d)
  <2>1. KeepsLoop(d)
    <3>1. PICK r \in {[drain[d] EXCEPT !.pc = "top", !.kids = {}]} \cup
                     {[drain[d] EXCEPT !.pc = "begin", !.turn = n,
                                      !.kids = {}] : n \in NoticeIds} :
               drain' = [drain EXCEPT ![d] = r]
      BY <1>23 DEF PruneNotice, OneOwner, DrainOK
    <3>2. drain[d] \in DrainTask
      BY DEF OneOwner, DrainOK
    <3>3. r.pc \in {"top", "begin"}
      BY <3>2 DEF DrainTask
    <3> QED
      BY <1>23, <3>1, <3>3 DEF KeepsLoop, PruneNotice, At, OneOwner,
         DrainOK, LoopPcs, InLoop
  <2> QED
    BY <2>1, OwnerSteps
<1>24. CASE DrainFin(d)
  <2>1. \A e \in Drains : ~InLoop(e)'
    BY <1>24 DEF DrainFin, At, Goto, OneOwner, DrainOK, SingleDrain,
       InLoop, LoopPcs
  <2> QED
    BY <1>24, <2>1 DEF DrainFin, SingleDrain, SettledIsIdle
<1>25. CASE DrainSignal(d)
  <2>1. \A e \in Drains : InLoop(e)' <=> InLoop(e)
    BY <1>25 DEF DrainSignal, At, Goto, OneOwner, DrainOK, InLoop, LoopPcs
  <2> QED
    BY <1>25, <2>1 DEF DrainSignal, IdleSignal, OneOwner, SingleDrain,
       SettledIsIdle
<1>26. CASE DrainRekick(d)
  <2> DEFINE ds == [drain EXCEPT ![d] = OffDrain]
  <2>1. ds \in [Drains -> DrainTask]
    BY OffType DEF OneOwner, DrainOK
  <2>2. \A e \in Drains : ds[e].pc \in LoopPcs <=> InLoop(e)
    BY <1>26 DEF DrainRekick, At, OneOwner, DrainOK, OffDrain, InLoop, LoopPcs
  <2>3. CASE KickDrain(ds)
    BY <2>1, <2>2, <2>3, OwnerStarts
  <2>4. CASE drain' = ds /\ UNCHANGED <<running, drainIdle>>
    <3>1. \A e \in Drains : InLoop(e)' <=> InLoop(e)
      BY <2>2, <2>4 DEF InLoop
    <3> QED
      BY <2>4, <3>1 DEF OneOwner, SingleDrain, SettledIsIdle
  <2> QED
    BY <1>26, <2>3, <2>4 DEF DrainRekick
<1> QED
  BY <1>1, <1>2, <1>3, <1>4, <1>5, <1>6, <1>7, <1>8, <1>9, <1>10, <1>11,
     <1>12, <1>13, <1>14, <1>15, <1>16, <1>17, <1>18, <1>19, <1>20, <1>21,
     <1>22, <1>23, <1>24, <1>25, <1>26 DEF DrainStep, TurnStep, SteerStep,
     NoticeStep

\* Of the other steps only the kick of a call touches the tasks.
LEMMA OwnerOtherStep ==
    ASSUME OneOwner,
           \/ \E t \in TurnIds : DriverStep(t)
           \/ \E c \in Callers : CallStep(c) \/ Request(c)
    PROVE  SingleDrain' /\ SettledIsIdle'
<1> USE DEF stateVars, turnVars, noticeVars, taskVars, outVars, sessionVars
<1>1. ASSUME NEW t \in TurnIds, DriverStep(t)
      PROVE  UNCHANGED <<drain, running, drainIdle>>
  BY <1>1 DEF DriverStep, DriverConnect, DriverPrompt, DriverError,
     DriverResult, DriverQuit
<1>2. ASSUME NEW c \in Callers, CallStep(c), ~KickCall(c)
      PROVE  UNCHANGED <<drain, running, drainIdle>>
  BY <1>2 DEF CallStep, PushTurn, SubmitInjected, SubmitRefused, SubmitRow,
     SubmitEnqueue, CancelRow, StopCaptured, ReleaseLatch, ReleaseClear,
     AbortAndDrain, ReleaseDispose
<1>3. ASSUME NEW c \in Callers, KickCall(c)
      PROVE  SingleDrain' /\ SettledIsIdle'
  BY <1>3, OwnerStarts DEF KickCall, OneOwner, DrainOK, InLoop
<1>4. ASSUME NEW c \in Callers, Request(c)
      PROVE  UNCHANGED <<drain, running, drainIdle>>
  BY <1>4 DEF Request, Enqueue, Submit, CancelQueued, BeginEdit, Promote,
     Resubmit, Populate, PruneChild, Stop, PromoteNotice, Dismiss,
     ReleaseSweep
<1> QED
  BY <1>1, <1>2, <1>3, <1>4, OwnerStays

\* In every behaviour one drain task at most is in its loop, `running` says
\* whether one is, and nobody who awaits the idle signal is let through while
\* one is: kick_drain's check-and-set and the guarded signal are enough.
THEOREM SingleOwner == Spec => [](SingleDrain /\ SettledIsIdle)
<1>1. Init => SingleDrain /\ SettledIsIdle
  BY DEF Init, SingleDrain, SettledIsIdle, InLoop, OffDrain, LoopPcs
<1>2. TypeOK /\ (SingleDrain /\ SettledIsIdle) /\ [Next]_vars
      => (SingleDrain /\ SettledIsIdle)'
  <2> SUFFICES ASSUME TypeOK, SingleDrain, SettledIsIdle, [Next]_vars
               PROVE  SingleDrain' /\ SettledIsIdle'
    OBVIOUS
  <2>1. OneOwner
    BY DEF OneOwner, TypeOK
  <2>2. CASE Next
    BY <2>1, <2>2, OwnerDrainStep, OwnerOtherStep DEF Next
  <2>3. CASE UNCHANGED vars
    BY <2>1, <2>3, OwnerStays DEF vars, turnVars, taskVars, sessionVars
  <2> QED
    BY <2>2, <2>3
<1> QED
  BY <1>1, <1>2, TypeCorrect, PTL DEF Spec
=============================================================================
