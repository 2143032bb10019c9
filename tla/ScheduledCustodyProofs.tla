----------------------- MODULE ScheduledCustodyProofs -----------------------
(***************************************************************************)
(* What the owners of a row do for it, for every number of rows, sessions,  *)
(* jobs and callers (ScheduledDeliveryProofs has who may own a row):         *)
(*   HoldsSettled  comments under a hold have somebody who settles it;       *)
(*   ClaimsOwned   a claimed row is never stranded;                          *)
(*   SentOnce      a message goes out once, and once more after a Retry;     *)
(*   CommentsKept  a comment that has left the panel is not lost;            *)
(*   FailedGiveBack  a failed row gives its comments back.                   *)
(* Each part states its inductive invariant (HoldInv; KnownInv and ClaimInv; *)
(* SentInv; HandInv and CareInv; MindInv and FailInv), what a step may do    *)
(* without disturbing it, and then the steps.                                *)
(***************************************************************************)
EXTENDS ScheduledDeliveryProofs

-----------------------------------------------------------------------------
(* Who acts: a step of one handler leaves the others where they are.         *)

Alone(p) == \A q \in Handlers \ {p} : call'[q] = call[q]

LEMMA AloneForms ==
    ASSUME CallInv, NEW p \in Handlers,
           \/ Return(p) \/ (\E pc : Goto(p, pc))
           \/ (\E x : call' = [call EXCEPT ![p] = x])
    PROVE  Alone(p)
  BY DEF Alone, CallInv, Return, Goto

LEMMA AloneRoute ==
    ASSUME Parts, NEW p \in Handlers, Route(p) \/ Fire(p)
    PROVE  Alone(p)
<1> USE DEF Parts
<1>1. ASSUME NEW r, NEW s, Register(p, r, s) PROVE Alone(p)
  <2>1. \E x : call' = [call EXCEPT ![p] = x]
    BY <1>1 DEF Register
  <2> QED
    BY <2>1, AloneForms
<1>2. CASE Route(p)
  BY <1>1, <1>2, AloneForms DEF Route
<1>3. CASE SendFire(p) \/ FireCas(p) \/ FireCheck(p) \/ FireEnqueue(p)
  BY <1>1, <1>3, AloneForms DEF SendFire, FireCas, FireCheck, FireEnqueue
<1> QED
  BY <1>2, <1>3 DEF Fire

LEMMA AloneJson ==
    ASSUME Parts, NEW p \in Handlers, Json(p) \/ JsonTimeout(p)
    PROVE  Alone(p)
<1> USE DEF Parts
<1>1. CASE JsonAdopt(p)
  <2>1. CASE \E a, b : call' = [call EXCEPT ![p].pc = a, ![p].turn = b]
    BY <2>1 DEF Alone, CallInv
  <2> QED
    BY <1>1, <2>1, AloneForms DEF JsonAdopt
<1>2. CASE JsonTimeout(p) \/ JsonAble(p) \/ JsonGiveBack(p) \/ JsonEnqueue(p)
  BY <1>2, AloneForms DEF JsonTimeout, JsonAble, JsonGiveBack, JsonEnqueue
<1>3. CASE JsonAfter(p) \/ JsonHoldBack(p) \/ JsonFailMark(p) \/ JsonSentMark(p)
  BY <1>3, AloneForms DEF JsonAfter, JsonHoldBack, JsonFailMark, JsonSentMark
<1> QED
  BY <1>1, <1>2, <1>3 DEF Json

LEMMA AloneClaim ==
    ASSUME Parts, NEW p \in Handlers, NEW r \in Rows, Claim(p, r)
    PROVE  Alone(p)
  BY AloneForms DEF Claim, Parts

LEMMA AloneRequest ==
    ASSUME Parts, NEW p \in Callers, Request(p)
    PROVE  Alone(p) /\ At(p, "off")
<1> USE DEF Parts
<1>0. p \in Handlers
  BY CallerIsHandler
<1>1. At(p, "off")
  BY DEF Request, SendNow, CancelStart, RetryStart, DismissStart, CreateStart,
         SendStart, Discard, Toggle, ResetStart, DeleteStart, Starts
<1>2. ASSUME \E r \in Rows :
               \/ SendNow(p, r) \/ CancelStart(p, r) \/ RetryStart(p, r)
               \/ DismissStart(p, r)
               \/ \E s \in Sessions : CreateStart(p, r, s) \/ SendStart(p, r, s)
      PROVE  Alone(p)
  <2>1. \E x : call' = [call EXCEPT ![p] = x]
    BY <1>2 DEF SendNow, Claim, CancelStart, RetryStart, DismissStart,
                CreateStart, SendStart
  <2> QED
    BY <1>0, <2>1, AloneForms
<1>3. ASSUME NEW s \in Sessions, Toggle(p, s) \/ ResetStart(p, s) \/ DeleteStart(p, s)
      PROVE  Alone(p)
  <2>1. UNCHANGED call \/ \E x : call' = [call EXCEPT ![p] = x]
    BY <1>3 DEF Toggle, ResetStart, DeleteStart
  <2> QED
    BY <1>0, <2>1, AloneForms DEF Alone
<1>4. ASSUME NEW c \in Comments, Discard(p, c) PROVE Alone(p)
  BY <1>4 DEF Discard, Alone
<1>5. Alone(p)
  BY <1>2, <1>3, <1>4 DEF Request
<1> QED
  BY <1>1, <1>5

LEMMA AloneProceed ==
    ASSUME Parts, NEW p \in Callers, Proceed(p)
    PROVE  Alone(p)
<1> USE DEF Parts
<1>0. p \in Handlers
  BY CallerIsHandler
<1>1. CASE \/ CreateTake(p) \/ SendTake(p) \/ CancelErase(p) \/ CancelTell(p)
           \/ ReturnComments(p) \/ RetryRow(p) \/ DismissRow(p)
  BY <1>0, <1>1, AloneForms DEF CreateTake, SendTake, CancelErase, CancelTell,
                                ReturnComments, RetryRow, DismissRow
<1>2. CASE CancelBefore(p) \/ Rehold(p)
  <2>1. ASSUME NEW a, NEW b, call' = [call EXCEPT ![p].pc = a, ![p].held = b]
        PROVE  Alone(p)
    BY <2>1 DEF Alone, CallInv
  <2> QED
    BY <1>0, <1>2, <2>1, AloneForms DEF CancelBefore, Rehold
<1>3. CASE ResetList(p) \/ ResetGivenUp(p) \/ ResetMove(p) \/ DeleteList(p)
           \/ (\E r \in Rows : ResetStop(p, r) \/ ResetRearm(p, r) \/ DeleteGive(p, r))
  BY <1>0, <1>3, AloneForms DEF ResetList, ResetGivenUp, ResetMove, DeleteList,
     ResetStop, ResetRearm, DeleteGive, Alone, CallInv
<1>4. CASE ResetArchive(p)
  <2>1. ASSUME NEW a, NEW b, call' = [call EXCEPT ![p].pc = a, ![p].to = b]
        PROVE  Alone(p)
    BY <2>1 DEF Alone, CallInv
  <2> QED
    BY <1>0, <1>4, <2>1, AloneForms DEF ResetArchive
<1>5. CASE DeleteRows(p) \/ DeleteGone(p) \/ DeletePurge(p)
  BY <1>0, <1>5, AloneForms DEF DeleteRows, DeleteGone, DeletePurge, Alone, CallInv
<1> QED
  BY <1>1, <1>2, <1>3, <1>4, <1>5 DEF Proceed

\* The rest of a client call is never at a step of a Rich Chat delivery.
JsonPcs == {"able", "giveBack", "adopt", "plain", "after", "holdBack",
            "failMark", "sentMark"}

LEMMA ProceedAt ==
    ASSUME NEW p, Proceed(p)
    PROVE  call[p].pc \notin JsonPcs \cup {"off", "route"} /\ boot = "up"
  BY DEF Proceed, CreateTake, SendTake, CancelErase, CancelTell, ReturnComments,
         RetryRow, DismissRow, CancelBefore, Rehold, ResetList, ResetGivenUp,
         ResetMove, DeleteList, ResetStop, ResetRearm, DeleteGive, ResetArchive,
         DeleteRows, DeleteGone, DeletePurge, At, JsonPcs

-----------------------------------------------------------------------------
(* Holds: comments under a hold have a turn or a delivery.                   *)

Delivers(p, r) == /\ call[p].row = r /\ call[p].turn > 0
                  /\ call[p].pc \in {"plain", "holdBack"}
HasTurn(r) == \/ \E t \in turns : t.row = r
              \/ \E p \in Handlers : Delivers(p, r)

HoldInv == /\ boot = "up" =>
                \A c \in Comments, r \in Rows : panel[c] = r => HasTurn(r)
           /\ boot \in {"rows", "orphans"} =>
                \A c \in Comments, r \in Rows : panel[c] # r

\* No comment comes under a hold.
NoNewHold == \A c \in Comments, r \in Rows : panel'[c] = r => panel[c] = r

LEMMA HoldPanel ==
    ASSUME PanelType, NEW q,
           \/ UNCHANGED panel \/ (\E cs : PutBack(cs)) \/ (\E cs : RestoreRow(q, cs))
    PROVE  NoNewHold
<1>1. ASSUME NEW cs, PutBack(cs) PROVE NoNewHold
  BY <1>1, DeliveryAssumption DEF PutBack, Restored, NoNewHold
<1> QED
  BY <1>1 DEF RestoreRow, storeVars, NoNewHold

LEMMA HoldEnds ==
    ASSUME PanelType, NEW q \in Rows, RestoreHold(q) \/ RemoveHold(q)
    PROVE  NoNewHold /\ \A c \in Comments : panel'[c] # q
  BY DeliveryAssumption DEF RestoreHold, RemoveHold, NoNewHold, PanelType

\* A step that takes no turn away, of a handler that has none under way.
LEMMA HoldQuiet ==
    ASSUME HoldInv, NoNewHold, turns \subseteq turns', UNCHANGED boot,
           \/ UNCHANGED call
           \/ \E p \in Handlers : /\ Alone(p)
                                  /\ call[p].pc \notin {"plain", "holdBack"}
    PROVE  HoldInv'
<1>1. ASSUME NEW r \in Rows, HasTurn(r) PROVE HasTurn(r)'
  BY <1>1 DEF HasTurn, Delivers, Alone
<1> QED
  BY <1>1 DEF HoldInv, NoNewHold

LEMMA HoldClient ==
    ASSUME Parts, HoldInv, NEW p \in Callers, Request(p) \/ Proceed(p)
    PROVE  HoldInv'
<1> USE DEF Parts
<1>1. ASSUME NEW cs, panel' = [c \in Comments |-> IF c \in cs THEN "gone" ELSE panel[c]]
      PROVE  NoNewHold
  BY <1>1, DeliveryAssumption DEF NoNewHold
<1>2. ASSUME Request(p) PROVE NoNewHold /\ UNCHANGED <<turns, boot>>
  <2>1. UNCHANGED <<turns, boot>>
    BY <1>2 DEF Request, SendNow, Claim, CancelStart, RetryStart, DismissStart,
       CreateStart, SendStart, Discard, Toggle, ResetStart, DeleteStart, turnVars
  <2>2. ASSUME NEW c \in Comments, Discard(p, c) PROVE NoNewHold
    BY <2>2, DeliveryAssumption DEF Discard, NoNewHold
  <2>3. UNCHANGED panel \/ \E c \in Comments : Discard(p, c)
    BY <1>2 DEF Request, SendNow, Claim, CancelStart, RetryStart, DismissStart,
       CreateStart, SendStart, Toggle, ResetStart, DeleteStart, storeVars
  <2> QED
    BY <2>1, <2>2, <2>3 DEF NoNewHold
<1>3. ASSUME Proceed(p) PROVE NoNewHold /\ UNCHANGED <<turns, boot>>
  <2>1. CASE CreateTake(p) \/ SendTake(p) \/ Rehold(p)
    <3>1. \/ UNCHANGED panel
          \/ \E cs : panel' = [c \in Comments |-> IF c \in cs THEN "gone" ELSE panel[c]]
      BY <2>1 DEF CreateTake, SendTake, Rehold, storeVars
    <3>2. UNCHANGED <<turns, boot>>
      BY <2>1 DEF CreateTake, SendTake, Rehold, turnVars
    <3> QED
      BY <1>1, <3>1, <3>2 DEF NoNewHold
  <2>2. CASE ReturnComments(p) \/ \E r \in Rows : DeleteGive(p, r)
    BY <2>2, HoldPanel DEF ReturnComments, DeleteGive, turnVars
  <2>3. CASE \/ CancelBefore(p) \/ CancelErase(p) \/ CancelTell(p)
             \/ RetryRow(p) \/ DismissRow(p)
    BY <2>3 DEF CancelBefore, CancelErase, CancelTell, RetryRow, DismissRow,
                storeVars, turnVars, NoNewHold
  <2>4. CASE \/ ResetList(p) \/ ResetArchive(p) \/ ResetGivenUp(p) \/ ResetMove(p)
             \/ \E r \in Rows : ResetStop(p, r) \/ ResetRearm(p, r)
    BY <2>4 DEF ResetList, ResetArchive, ResetGivenUp, ResetMove, ResetStop,
                ResetRearm, storeVars, turnVars, NoNewHold
  <2>5. CASE DeleteList(p) \/ DeleteRows(p) \/ DeleteGone(p) \/ DeletePurge(p)
    BY <2>5 DEF DeleteList, DeleteRows, DeleteGone, DeletePurge, storeVars,
                turnVars, NoNewHold
  <2> QED
    BY <1>3, <2>1, <2>2, <2>3, <2>4, <2>5 DEF Proceed
<1>4. Alone(p) /\ call[p].pc \notin {"plain", "holdBack"}
  BY AloneRequest, AloneProceed, ProceedAt DEF JsonPcs, At
<1> QED
  BY <1>2, <1>3, <1>4, CallerIsHandler, HoldQuiet

LEMMA HoldFire ==
    ASSUME Parts, HoldInv, NEW p \in Handlers, Route(p) \/ Fire(p)
    PROVE  HoldInv'
<1>1. NoNewHold /\ UNCHANGED <<turns, boot>>
  BY DEF Route, Fire, SendFire, FireCas, FireCheck, FireEnqueue, storeVars,
         turnVars, NoNewHold
<1>2. call[p].pc \notin {"plain", "holdBack"}
  BY DEF Route, Fire, SendFire, FireCas, FireCheck, FireEnqueue, At
<1> QED
  BY <1>1, <1>2, AloneRoute, HoldQuiet

LEMMA HoldClaim ==
    ASSUME Parts, HoldInv, NEW p \in Handlers, NEW r \in Rows, At(p, "off"),
           Claim(p, r)
    PROVE  HoldInv'
<1>1. NoNewHold /\ UNCHANGED <<turns, boot>>
  BY DEF Claim, turnVars, NoNewHold
<1> QED
  BY <1>1, AloneClaim, HoldQuiet DEF At

LEMMA HoldWork ==
    ASSUME Parts, HoldInv,
           \/ \E k \in Jobs : WorkerNext(k) \/ Work(k) \/ TickTimeout(k)
           \/ \E t \in told : Observe(t)
    PROVE  HoldInv'
<1> USE DEF Parts
<1>1. ASSUME NEW k \in Jobs, WorkerNext(k) \/ Work(k) \/ TickTimeout(k)
      PROVE  UNCHANGED <<panel, call, turns, boot>>
  BY <1>1 DEF WorkerNext, Work, TickTimeout, TickRead, TickResolve, JobRearm, JobFail,
     DeliverCas, DeliverPaste, DeliverMark, storeVars, turnVars
<1>2. ASSUME NEW t \in told, Observe(t)
      PROVE  NoNewHold /\ UNCHANGED <<call, turns, boot>>
  <2>1. UNCHANGED <<call, turns, boot>>
    BY <1>2 DEF Observe, ObserverStart, ObserverRestore, ObserverMark, ObserverDrop,
                turnVars
  <2>2. \/ UNCHANGED panel \/ (\E cs : PutBack(cs)) \/ (\E cs : RestoreRow(t.row, cs))
    BY <1>2 DEF Observe, ObserverStart, ObserverRestore, ObserverMark, ObserverDrop,
                storeVars
  <2> QED
    BY <2>1, <2>2, HoldPanel
<1> QED
  BY <1>1, <1>2, HoldPanel, HoldQuiet

LEMMA HoldJson ==
    ASSUME Parts, HoldInv, NEW p \in Handlers, Json(p) \/ JsonTimeout(p)
    PROVE  HoldInv'
<1> USE DEF Parts
<1>0. Alone(p) /\ UNCHANGED boot
  BY AloneJson DEF Json, JsonAble, JsonGiveBack, JsonAdopt, JsonEnqueue, JsonAfter,
     JsonHoldBack, JsonFailMark, JsonSentMark, JsonTimeout
<1>a. PICK pc \in JsonPcs : At(p, pc)
  BY DEF Json, JsonAble, JsonGiveBack, JsonAdopt, JsonEnqueue, JsonAfter,
         JsonHoldBack, JsonFailMark, JsonSentMark, JsonTimeout, JsonPcs
<1>b. call[p].row \in Rows /\ call[p] \in Call /\ boot = "up"
  BY <1>a, AtRow, RowPcs DEF JsonPcs, Dispatching, At
<1>1. CASE JsonAble(p) \/ JsonGiveBack(p) \/ JsonAfter(p) \/ JsonFailMark(p)
           \/ JsonSentMark(p)
  <2>1. call[p].pc \notin {"plain", "holdBack"} /\ UNCHANGED turns
    BY <1>1 DEF JsonAble, JsonGiveBack, JsonAfter, JsonFailMark, JsonSentMark, At,
                turnVars
  <2>2. UNCHANGED panel \/ \E cs : RestoreRow(call[p].row, cs)
    BY <1>1 DEF JsonAble, JsonGiveBack, JsonAfter, JsonFailMark, JsonSentMark,
                storeVars
  <2>3. NoNewHold
    BY <2>2, HoldPanel
  <2> QED
    BY <1>0, <2>1, <2>3, HoldQuiet
<1>2. CASE JsonAdopt(p)
  <2>1. CASE UNCHANGED panel /\ Goto(p, "failMark")
    BY <1>0, <1>2, <2>1, HoldPanel, HoldQuiet DEF JsonAdopt, At
  <2>2. CASE Adopt(call[p].row, call[p].held)
             /\ call' = [call EXCEPT ![p].pc = "plain",
                                     ![p].turn = adoption[call[p].row] + 1]
    <3>1. call'[p].row = call[p].row /\ call'[p].pc = "plain" /\ call'[p].turn > 0
      BY <1>b, <2>2 DEF CallInv, Call, Rest
    <3>2. \A c \in Comments, r \in Rows : panel'[c] = r =>
             panel[c] = r \/ r = call[p].row
      BY <2>2 DEF Adopt
    <3>3. UNCHANGED turns /\ call[p].pc = "adopt"
      BY <1>2 DEF JsonAdopt, At
    <3>4. ASSUME NEW r \in Rows, HasTurn(r) PROVE HasTurn(r)'
      BY <1>0, <3>3, <3>4 DEF HasTurn, Delivers, Alone
    <3>5. HasTurn(call[p].row)'
      BY <3>1 DEF HasTurn, Delivers
    <3> QED
      BY <1>0, <1>b, <3>1, <3>2, <3>4, <3>5 DEF HoldInv
  <2> QED
    BY <1>2, <2>1, <2>2 DEF JsonAdopt, storeVars
<1>3. CASE JsonEnqueue(p)
  <2>1. UNCHANGED panel /\ call[p].pc = "plain"
    BY <1>3 DEF JsonEnqueue, storeVars, At
  <2>2. turns \subseteq turns'
    BY <1>3 DEF JsonEnqueue
  <2>3. call[p].turn > 0 => HasTurn(call[p].row)'
    <3>1. ASSUME call[p].turn > 0, Goto(p, "holdBack") PROVE HasTurn(call[p].row)'
      <4>1. call'[p].row = call[p].row /\ call'[p].pc = "holdBack"
            /\ call'[p].turn > 0
        BY <1>b, <3>1 DEF Goto, CallInv, Call
      <4> QED
        BY <4>1 DEF HasTurn, Delivers
    <3>2. ASSUME call[p].turn > 0,
                 turns' = turns \cup {[row |-> call[p].row, n |-> call[p].turn,
                                       body |-> call[p].held, pc |-> "queued"]}
          PROVE  HasTurn(call[p].row)'
      <4>1. [row |-> call[p].row, n |-> call[p].turn,
             body |-> call[p].held, pc |-> "queued"].row = call'[p].row
        BY <1>3, <1>b DEF JsonEnqueue, Goto, CallInv, Call
      <4>2. call'[p].row = call[p].row
        BY <4>1
      <4> QED
        BY <3>2, <4>1, <4>2 DEF HasTurn
    <3> QED
      BY <1>3, <1>b, <3>1, <3>2 DEF JsonEnqueue
  <2>4. call'[p].row = call[p].row
    BY <1>3, <1>b DEF JsonEnqueue, Goto, CallInv, Call
  <2>5. ASSUME NEW r \in Rows, HasTurn(r) PROVE HasTurn(r)'
    <3>1. CASE Delivers(p, r)
      BY <2>3, <2>4, <3>1 DEF HasTurn, Delivers
    <3>2. CASE ~Delivers(p, r)
      BY <1>0, <2>2, <2>5, <3>2 DEF HasTurn, Delivers, Alone
    <3> QED
      BY <3>1, <3>2
  <2> QED
    BY <1>0, <1>b, <2>1, <2>5 DEF HoldInv
<1>4. CASE JsonHoldBack(p) \/ JsonTimeout(p)
  <2>1. UNCHANGED turns
    BY <1>4 DEF JsonHoldBack, JsonTimeout, turnVars
  <2>2. CASE RestoreHold(call[p].row)
    <3>1. NoNewHold /\ \A c \in Comments : panel'[c] # call[p].row
      BY <1>b, <2>2, HoldEnds
    <3>2. ASSUME NEW r \in Rows, r # call[p].row, HasTurn(r) PROVE HasTurn(r)'
      BY <1>0, <2>1, <3>2 DEF HasTurn, Delivers, Alone
    <3> QED
      BY <1>0, <1>b, <3>1, <3>2 DEF HoldInv, NoNewHold
  <2>3. CASE UNCHANGED panel /\ call[p].turn = 0
    <3>1. ASSUME NEW r \in Rows, HasTurn(r) PROVE HasTurn(r)'
      BY <1>0, <2>1, <2>3, <3>1 DEF HasTurn, Delivers, Alone
    <3> QED
      BY <1>0, <1>b, <2>3, <3>1 DEF HoldInv
  <2> QED
    BY <1>4, <2>2, <2>3 DEF JsonHoldBack, JsonTimeout, storeVars
<1> QED
  BY <1>1, <1>2, <1>3, <1>4 DEF Json

LEMMA HoldTurn ==
    ASSUME Parts, HoldInv, NEW t \in turns,
           TurnPersist(t) \/ TurnWithdraw(t) \/ TurnSettle(t)
    PROVE  HoldInv'
<1> USE DEF Parts
<1>0. t.row \in Rows /\ boot = "up" /\ UNCHANGED <<call, boot>>
  BY DEF Rest, Turn, TurnPersist, TurnWithdraw, TurnSettle
<1>1. CASE TurnPersist(t) \/ TurnWithdraw(t)
  <2>1. PICK pc : turns' = (turns \ {t}) \cup {[t EXCEPT !.pc = pc]}
    BY <1>1 DEF TurnPersist, TurnWithdraw, Advance
  <2>2. [t EXCEPT !.pc = pc].row = t.row
    BY DEF Rest, Turn
  <2>3. ASSUME NEW r \in Rows, HasTurn(r) PROVE HasTurn(r)'
    BY <1>0, <2>1, <2>2, <2>3 DEF HasTurn, Delivers
  <2>4. UNCHANGED panel
    BY <1>1 DEF TurnPersist, TurnWithdraw, storeVars
  <2> QED
    BY <1>0, <2>3, <2>4 DEF HoldInv
<1>2. CASE TurnSettle(t)
  <2>1. RemoveHold(t.row) \/ RestoreHold(t.row)
    BY <1>2 DEF TurnSettle
  <2>2. NoNewHold /\ \A c \in Comments : panel'[c] # t.row
    BY <1>0, <2>1, HoldEnds
  <2>3. ASSUME NEW r \in Rows, r # t.row, HasTurn(r) PROVE HasTurn(r)'
    BY <1>0, <1>2, <2>3 DEF TurnSettle, HasTurn, Delivers
  <2> QED
    BY <1>0, <2>2, <2>3 DEF HoldInv, NoNewHold
<1> QED
  BY <1>1, <1>2

LEMMA HoldBoot ==
    ASSUME Parts, HoldInv, Boot
    PROVE  HoldInv'
<1> USE DEF Parts
<1>1. ASSUME NEW r \in Rows, BootHold(r) PROVE HoldInv'
  BY <1>1 DEF BootHold, HoldInv
<1>2. ASSUME NEW r \in Rows, BootGive(r) PROVE HoldInv'
  <2>1. NoNewHold
    BY <1>2, HoldPanel DEF BootGive
  <2> QED
    BY <1>2, <2>1 DEF BootGive, HoldInv, NoNewHold
<1>3. CASE BootNext
  BY <1>3 DEF BootNext, HoldInv, HeldUnder, storeVars
<1>4. CASE BootRecover
  BY <1>4 DEF BootRecover, HoldInv
<1> QED
  BY <1>1, <1>2, <1>3, <1>4 DEF Boot

LEMMA HoldStep ==
    ASSUME Parts, HoldInv, [Next]_vars
    PROVE  HoldInv'
<1>1. CASE UNCHANGED vars
  BY <1>1 DEF vars, storeVars, turnVars, HoldInv, HasTurn, Delivers
<1>2. CASE Crash
  BY <1>2 DEF Crash, HoldInv
<1>3. ASSUME NEW r \in Rows, Poll(r) PROVE HoldInv'
  BY <1>3, HoldClaim DEF Poll, Handlers
<1> QED
  BY <1>1, <1>2, <1>3, HoldFire, HoldJson, HoldClient, HoldWork, HoldTurn, HoldBoot
     DEF Next

\* Comments under the hold of a row always have somebody who will settle them:
\* the Rich Chat turn they were adopted for, or the delivery that has adopted them
\* and not queued it yet; whatever is cancelled, timed out, withdrawn or restarted.
\* After a restart no hold is left once the daemon serves again.
THEOREM HoldsSettled == Spec => []HoldHasTurn
<1>1. TypeInv /\ HoldInv /\ [Next]_vars => (TypeInv /\ HoldInv)'
  <2>1. (Parts /\ FireJobs)' => TypeInv'
    BY TypeIsParts, PTL
  <2> QED
    BY <2>1, TypeIsParts, TypeStep, FireStep, HoldStep
<1>2. Init => HoldInv
  BY DeliveryAssumption DEF Init, HoldInv
<1>3. HoldInv => HoldHasTurn
  BY DEF HoldInv, HoldHasTurn, HasTurn, Delivers
<1> QED
  BY <1>1, <1>2, <1>3, TypeInit, PTL DEF Spec

-----------------------------------------------------------------------------
(* Claims: whoever has claimed a row goes on with it.                        *)

Late == {"paste", "mark", "fail"}
Doomed(r, s) == Gone(r) \/ sess[s] = "deleted"

\* A row that is not claimed is in no phase of a delivery.
RowOK(r) == Pending(r) /\ ~row[r].claimed => row[r].phase = "null"

\* A delivery to a Rich Chat session: its row is in no phase, so that after a
\* crash it is failed, never sent again.
Richly == JsonPcs \cup {"route"}

\* What a call may rely on.
CallOK(p) ==
    LET r == call[p].row IN
    /\ Armed(p) => Gone(r) \/ row[r].phase # "pasting"
    /\ call[p].pc \in Richly => Gone(r) \/ row[r].phase = "null"
    /\ call[p].pc \in {"check", "enq"} => Gone(r) \/ Waiting(r)
    /\ call[p].pc = "tell" => Gone(r)
    /\ call[p].pc \in Deleting => sess[call[p].sess] = "deleted"
    /\ call[p].pc = "gone" =>
         \A q \in call[p].todo : Gone(q) \/ (Exists(q) /\ row[q].sess = call[p].sess)
    /\ Firing(p) => \/ Doomed(r, call[p].sess)
                    \/ known[r] = call[p].job /\ ~job[call[p].job].stopped

\* What a job that has its row may rely on.
JobOK(k) ==
    LET r == job[k].row IN
    Owning(k) =>
        /\ job[k].pc \notin Late => Gone(r) \/ Waiting(r)
        /\ job[k].pc \in {"paste", "mark"} => Gone(r) \/ row[r].phase = "pasting"
        /\ job[k].pc = "resolve" => Gone(r) \/ job[k].imm = row[r].imm
        /\ job[k].pc = "rearm" => Gone(r) \/ ~row[r].imm
        /\ job[k].stopped => Doomed(r, job[k].sess)

\* Who has a claimed row: a dispatch, or a job that is registered and not stopped
\* or that cannot be stopped any more.
HasJob(k, r) == /\ Owning(k) /\ job[k].row = r
                /\ job[k].pc \in Late \/ (known[r] = k /\ ~job[k].stopped)
Holder(r) == \/ \E p \in Handlers : Armed(p) /\ call[p].row = r
             \/ \E k \in Jobs : HasJob(k, r)
Live(r) == Claimed(r) /\ sess[row[r].sess] # "deleted"

ClaimInv == /\ \A r \in Rows : RowOK(r)
            /\ \A p \in Handlers : CallOK(p)
            /\ \A k \in Jobs : JobOK(k)
            /\ boot = "up" => \A r \in Rows : Live(r) => Holder(r)

-----------------------------------------------------------------------------
(* What a step does to rows, calls and jobs.                                 *)

RowStill(r) == /\ row'[r].status = row[r].status
               /\ row'[r].claimed = row[r].claimed
               /\ row'[r].phase = row[r].phase
               /\ row'[r].sess = row[r].sess /\ row'[r].imm = row[r].imm

\* A row stays as it is or is deleted; or it is nobody's claim afterwards; or
\* its owner has changed it and knows.
RowGoes(r) ==
    \/ RowStill(r)
    \/ Gone(r)'
    \/ /\ ~Gone(r) /\ (Exists(r) => Exists(r)' /\ row'[r].sess = row[r].sess)
       /\ \/ ~Claimed(r)' /\ RowOK(r)'
          \/ /\ Claimed(r)'
             /\ \/ \E p \in Handlers : Armed(p)' /\ call'[p].row = r /\ CallOK(p)'
                \/ \E k \in Jobs : HasJob(k, r)' /\ JobOK(k)'
RowsGo == \A r \in Rows : RowGoes(r)

CallStill(p) == /\ call'[p] = call[p]
                /\ Firing(p) => /\ job'[call[p].job].stopped = job[call[p].job].stopped
                                /\ known'[call[p].row] = known[call[p].row]
CallsGo == \A p \in Handlers : CallStill(p) \/ CallOK(p)'

JobStill(k) == /\ job'[k].pc = job[k].pc /\ job'[k].row = job[k].row
               /\ job'[k].sess = job[k].sess /\ job'[k].imm = job[k].imm
               /\ job'[k].stopped = job[k].stopped
JobsGo == \A k \in Jobs : JobStill(k) \/ JobOK(k)'

SessLast == \A s \in Sessions : sess[s] = "deleted" => sess'[s] = "deleted"
HoldersGo == boot' = "up" =>
    \A r \in Rows : Live(r) /\ Live(r)' /\ Holder(r) => Holder(r)'
BootGoes == boot' = "up" => boot = "up" \/ \A r \in Rows : ~Claimed(r)'

LEMMA RichKinds ==
    /\ Richly \subseteq Owners \ FirePcs
    /\ Richly \cap ({"made", "check", "enq", "tell"} \cup Deleting) = {}
  BY DEF Richly, JsonPcs, Owners, Dispatching, FirePcs, Deleting

LEMMA CallStillOK ==
    ASSUME Parts, OwnInv', NEW p \in Handlers, CallOK(p), CallStill(p), RowsGo,
           SessLast
    PROVE  CallOK(p)'
<1> USE DEF Parts
<1> DEFINE r == call[p].row
<1>0. call'[p] = call[p] /\ (Armed(p)' <=> Armed(p)) /\ (Firing(p)' <=> Firing(p))
  BY DEF CallStill, Armed, Firing
<1>1. ASSUME Armed(p) PROVE CallOK(p)' \/ (r \in Rows /\ RowStill(r)) \/ row'[r].status = "gone"
  <2>1. r \in Rows
    BY <1>1, OwnRows
  <2>2. ASSUME ~Claimed(r)' PROVE row'[r].status = "gone"
    BY <1>0, <1>1, <2>2 DEF OwnInv, CallsOwn, Owned, Gone
  <2>3. ASSUME NEW q \in Handlers, Armed(q)', call'[q].row = r, CallOK(q)'
        PROVE  CallOK(p)'
    BY <1>0, <1>1, <2>3 DEF OwnInv, OneCall
  <2>4. ASSUME NEW k \in Jobs, HasJob(k, r)' PROVE FALSE
    BY <1>0, <1>1, <2>4 DEF OwnInv, CallOrJob, HasJob
  <2> QED
    BY <1>0, <2>1, <2>2, <2>3, <2>4 DEF RowsGo, RowGoes, Gone
<1>2. ASSUME NEW q \in Rows, Gone(q) PROVE Gone(q)'
  BY <1>2 DEF RowsGo, RowGoes, RowStill, Gone
<1>3. ASSUME NEW q \in Rows, Exists(q), ~Gone(q)'
      PROVE  Exists(q)' /\ row'[q].sess = row[q].sess
  BY <1>3 DEF RowsGo, RowGoes, RowStill, Exists
<1>4. CASE Armed(p)
  <2>1. call[p].pc \notin {"tell"} \cup Deleting
    BY <1>4, PcKinds DEF Armed, Idlers
  <2>2. CASE RowStill(r) \/ row'[r].status = "gone"
    <3>1. call[p].sess \in Sessions /\ r \in Rows
      BY <1>4, CallType, OwnRows, PcKinds DEF CallKnown, Armed
    <3>2. (Armed(p) => Gone(r) \/ row[r].phase # "pasting")'
      BY <1>0, <1>4, <2>2 DEF RowStill, Gone, CallOK
    <3>2a. (call[p].pc \in Richly => Gone(r) \/ row[r].phase = "null")'
      BY <1>0, <2>2 DEF RowStill, Gone, CallOK
    <3>3. (call[p].pc \in {"check", "enq"} => Gone(r) \/ Waiting(r))'
      BY <1>0, <2>2 DEF RowStill, Gone, CallOK, Waiting, Pending
    <3>4. Firing(p)' => \/ row'[r].status = "gone" \/ sess'[call[p].sess] = "deleted"
                        \/ /\ known'[r] = call[p].job
                           /\ ~job'[call[p].job].stopped
      BY <1>0, <2>2, <3>1 DEF CallStill, RowStill, Gone, CallOK, Doomed, SessLast
    <3> QED
      BY <1>0, <2>1, <3>2, <3>2a, <3>3, <3>4 DEF CallOK, Deleting, Doomed, Gone
  <2> QED
    BY <1>1, <1>4, <2>2
<1>5. CASE ~Armed(p)
  <2>1. ~Firing(p) /\ call[p].pc \notin {"check", "enq"} \cup Richly
    BY <1>5, PcKinds, RichKinds DEF Armed, Firing, FirePcs
  <2>2. call[p].pc = "tell" => r \in Rows
    BY CallType DEF CallKnown, Rowless, Resetting, Deleting
  <2>3. call[p].pc \in Deleting => call[p].sess \in Sessions
    BY CallType DEF CallKnown, Deleting
  <2>4. call[p].todo \subseteq Rows
    BY CallType DEF Call
  <2>5. (call[p].pc = "tell" => Gone(r))'
    BY <1>0, <1>2, <2>2 DEF CallOK, Gone
  <2>6. (call[p].pc \in Deleting => sess[call[p].sess] = "deleted")'
    BY <1>0, <2>3 DEF CallOK, SessLast
  <2>7. (call[p].pc = "gone" =>
          \A q \in call[p].todo : Gone(q) \/ (Exists(q) /\ row[q].sess = call[p].sess))'
    <3> SUFFICES ASSUME call[p].pc = "gone", NEW q \in call[p].todo, ~Gone(q)'
                 PROVE  Exists(q)' /\ row'[q].sess = call[p].sess
      BY <1>0
    <3>1. q \in Rows /\ ~Gone(q)
      BY <1>2, <2>4
    <3> QED
      BY <1>3, <3>1 DEF CallOK
  <2> QED
    BY <1>0, <1>5, <2>1, <2>5, <2>6, <2>7 DEF CallOK
<1> QED
  BY <1>4, <1>5

LEMMA JobStillOK ==
    ASSUME Parts, OwnInv', NEW k \in Jobs, JobOK(k), JobStill(k), RowsGo,
           SessLast
    PROVE  JobOK(k)'
<1> USE DEF Parts
<1> SUFFICES ASSUME Owning(k)' PROVE JobOK(k)'
  BY DEF JobOK
<1>b. Owning(k) /\ job[k].row \in Rows /\ job[k].sess \in Sessions
  BY JobType DEF JobStill, JobKnown, Owning
<1>a. PICK r \in Rows : r = job[k].row
  BY <1>b
<1>0. Owning(k) /\ job[k].row = r /\ job'[k].row = r /\ job'[k].sess = job[k].sess
  BY <1>b, <1>a DEF JobStill
<1>1. r \in Rows /\ job[k].sess \in Sessions
  BY <1>b
<1>2. ASSUME ~Claimed(r)' PROVE row'[r].status = "gone"
  BY <1>0, <1>2 DEF OwnInv, JobsOwn, Owned, Gone
<1>3. ASSUME NEW p \in Handlers, Armed(p)', call'[p].row = r PROVE FALSE
  BY <1>0, <1>3 DEF OwnInv, CallOrJob
<1>4. ASSUME NEW l \in Jobs, HasJob(l, r)', JobOK(l)' PROVE JobOK(k)'
  BY <1>0, <1>4 DEF OwnInv, OneJob, HasJob
<1>5. CASE RowStill(r) \/ row'[r].status = "gone"
  <2>1. (job[k].pc \notin Late => Gone(r) \/ Waiting(r))'
    BY <1>0, <1>5 DEF JobStill, RowStill, JobOK, Gone, Waiting, Pending
  <2>2. (job[k].pc \in {"paste", "mark"} => Gone(r) \/ row[r].phase = "pasting")'
    BY <1>0, <1>5 DEF JobStill, RowStill, JobOK, Gone
  <2>3. /\ (job[k].pc = "resolve" => Gone(r) \/ job[k].imm = row[r].imm)'
        /\ (job[k].pc = "rearm" => Gone(r) \/ ~row[r].imm)'
    BY <1>0, <1>5 DEF JobStill, RowStill, JobOK, Gone
  <2>4. (job[k].stopped => Doomed(r, job[k].sess))'
    BY <1>0, <1>1, <1>5 DEF JobStill, RowStill, JobOK, Gone, Doomed, SessLast
  <2> QED
    BY <1>0, <2>1, <2>2, <2>3, <2>4 DEF JobOK, Gone, Waiting, Pending, Doomed
<1>6. RowGoes(r)
  BY DEF RowsGo
<1> QED
  BY <1>1, <1>2, <1>3, <1>4, <1>5, <1>6 DEF RowGoes, Gone

LEMMA ClaimFrame ==
    ASSUME Parts, OwnInv', ClaimInv, RowsGo, CallsGo, JobsGo, SessLast, HoldersGo,
           BootGoes
    PROVE  ClaimInv'
<1>1. ASSUME NEW r \in Rows PROVE RowOK(r)'
  <2>1. CASE RowStill(r)
    BY <2>1 DEF RowStill, ClaimInv, RowOK, Pending
  <2>2. CASE ~RowStill(r)
    BY <2>2 DEF RowsGo, RowGoes, RowOK, Gone, Pending, Claimed
  <2> QED
    BY <2>1, <2>2
<1>2. ASSUME NEW p \in Handlers PROVE CallOK(p)'
  BY CallStillOK DEF CallsGo, ClaimInv
<1>3. ASSUME NEW k \in Jobs PROVE JobOK(k)'
  BY JobStillOK DEF JobsGo, ClaimInv
<1>4. ASSUME boot' = "up", NEW r \in Rows, Live(r)' PROVE Holder(r)'
  <2>1. Claimed(r)' /\ boot = "up"
    BY <1>4 DEF BootGoes, Live
  <2>2. CASE RowStill(r)
    <3>1. Claimed(r) /\ row'[r].sess = row[r].sess /\ row[r].sess \in Sessions
      BY <2>1, <2>2, RowType DEF RowStill, Claimed, Pending, Parts, RowKnown
    <3>2. Live(r)
      BY <1>4, <3>1 DEF Live, SessLast
    <3> QED
      BY <1>4, <2>1, <3>2 DEF HoldersGo, ClaimInv
  <2>3. CASE ~RowStill(r)
    BY <2>1, <2>3 DEF RowsGo, RowGoes, Gone, Claimed, Pending, Holder
  <2> QED
    BY <2>2, <2>3
<1> QED
  BY <1>1, <1>2, <1>3, <1>4 DEF ClaimInv

-----------------------------------------------------------------------------
(* The registered job of a row is a job of that row.                         *)

KnownInv == \A r \in Rows :
    known[r] # None => job[known[r]].pc # "off" /\ job[known[r]].row = r

\* All but the queue and what the job has read of its comments.
Copies(y, x) == /\ y.pc = x.pc /\ y.row = x.row /\ y.sess = x.sess
                /\ y.imm = x.imm /\ y.stopped = x.stopped

\* What stopping the jobs ks does to job l.
LEMMA StopEffect ==
    ASSUME Parts, NEW ks, NEW l \in Jobs, NEW y, y = Stopped(ks, job)[l]
    PROVE  \/ l \notin ks /\ Copies(y, job[l])
           \/ /\ l \in ks
              /\ \/ y = OffJob
                 \/ /\ y.pc = job[l].pc /\ y.row = job[l].row
                    /\ y.sess = job[l].sess /\ y.imm = job[l].imm
<1>1. CASE l \in ks /\ job[l].pc = "queued"
  BY <1>1 DEF Stopped
<1>2. CASE ~(l \in ks /\ job[l].pc = "queued")
  <2>1. y = [job[l] EXCEPT !.stopped = @ \/ l \in ks, !.ahead = @ \ ks]
    BY <1>2 DEF Stopped
  <2>2. /\ y.pc = job[l].pc /\ y.row = job[l].row /\ y.sess = job[l].sess
        /\ y.imm = job[l].imm /\ y.stopped = (job[l].stopped \/ l \in ks)
    BY <2>1, JobType DEF Parts, Job
  <2>3. l \notin ks => y.stopped = job[l].stopped
    <3>1. job[l].stopped \in BOOLEAN
      BY JobType DEF Parts, Job
    <3> QED
      BY <2>2, <3>1
  <2> QED
    BY <2>2, <2>3 DEF Copies
<1> QED
  BY <1>1, <1>2

\* The jobs that a stop of rows rs finds are those the rows are registered to.
LEMMA StopFinds ==
    ASSUME KnownInv, NEW rs, rs \subseteq Rows, NEW ks,
           ks = {known[r] : r \in rs} \ {None}, NEW l \in Jobs
    PROVE  /\ (l \in ks) <=> (\E r \in rs : known[r] = l)
           /\ l \in ks => job[l].row \in rs /\ known[job[l].row] = l
<1>1. (l \in ks) <=> (\E r \in rs : known[r] = l)
  BY DeliveryAssumption
<1> QED
  BY <1>1, DeliveryAssumption DEF KnownInv

LEMMA StopKnown ==
    ASSUME Parts, NEW rs, StopJobs(rs)
    PROVE  \A r \in Rows : known'[r] = IF r \in rs THEN None ELSE known[r]
  BY DEF StopJobs

\* A row's registration is forgotten, or its job works on.
LEMMA KnownKept ==
    ASSUME Parts, KnownInv,
           \A r \in Rows : \/ known'[r] = None
                           \/ known'[r] = known[r] /\ JobStays(known[r])
    PROVE  KnownInv'
<1> SUFFICES ASSUME NEW r \in Rows, known'[r] # None
             PROVE  job'[known'[r]].pc # "off" /\ job'[known'[r]].row = r
  BY DEF KnownInv
<1>1. known'[r] = known[r] /\ JobStays(known[r])
  OBVIOUS
<1> QED
  BY <1>1 DEF KnownInv, JobStays

LEMMA KnownSame == ASSUME KnownInv, UNCHANGED <<known, job>> PROVE KnownInv'
  BY DEF KnownInv

\* Job k is done.
LEMMA KnownEnd ==
    ASSUME Parts, KnownInv, NEW k \in Jobs, job'[k].pc = "off",
           \A l \in Jobs \ {k} : JobStays(l), Forget(job[k].row, k)
    PROVE  KnownInv'
<1> SUFFICES ASSUME NEW r \in Rows
             PROVE  known'[r] = None \/ (known'[r] = known[r] /\ JobStays(known[r]))
  BY KnownKept
<1>1. known[r] \in Jobs \cup {None}
  BY DEF Parts, KnownType
<1>2. CASE known[r] = None
  BY <1>2 DEF Forget, Parts, KnownType
<1>3. CASE known[r] = k
  BY <1>3, DeliveryAssumption DEF Forget, Parts, KnownType, KnownInv
<1>4. CASE known[r] \in Jobs \ {k}
  BY <1>4 DEF Forget, Parts, KnownType
<1> QED
  BY <1>1, <1>2, <1>3, <1>4

LEMMA KnownStops ==
    ASSUME Parts, KnownInv, NEW rs, rs \subseteq Rows, StopJobs(rs)
    PROVE  KnownInv'
<1> DEFINE ks == {known[r] : r \in rs} \ {None}
<1>1. job' = Stopped(ks, job)
  BY DEF StopJobs
<1> SUFFICES ASSUME NEW r \in Rows, known'[r] # None
             PROVE  known'[r] = known[r] /\ JobStays(known[r])
  BY KnownKept
<1>2. r \notin rs /\ known'[r] = known[r] /\ known[r] \in Jobs
  BY StopKnown DEF Parts, KnownType
<1>3. PICK l \in Jobs : l = known[r]
  BY <1>2
<1>4. job[l].row = r
  BY <1>2, <1>3 DEF KnownInv
<1>5. Copies(job'[l], job[l])
  <2>1. l \in ks => job[l].row \in rs
    BY StopFinds
  <2>2. PICK y : y = job'[l]
    OBVIOUS
  <2> HIDE DEF ks
  <2> QED
    BY <1>1, <1>2, <1>4, <2>1, <2>2, StopEffect
<1> QED
  BY <1>2, <1>3, <1>5 DEF Copies, JobStays

-----------------------------------------------------------------------------
(* A step of a worker.                                                       *)

\* Job k goes on; the others stay as they are.
JobTurns(k) == /\ job'[k].pc \notin {"off", "fire"}
               /\ job'[k].row = job[k].row /\ job'[k].sess = job[k].sess
               /\ job'[k].stopped = job[k].stopped
               /\ \A l \in Jobs \ {k} : job'[l] = job[l]
               /\ UNCHANGED known

LEMMA GotoTurns ==
    ASSUME JobInv, NEW k \in Jobs, NEW pc \in {"fail", "rearm", "cas", "tick", "mark",
           "paste"}, JobGoto(k, pc), UNCHANGED known
    PROVE  JobTurns(k) /\ job'[k].pc = pc /\ job'[k].imm = job[k].imm
<1>1. job'[k] = [job[k] EXCEPT !.pc = pc] /\ \A l \in Jobs \ {k} : job'[l] = job[l]
  BY DEF JobGoto, JobInv
<1> QED
  BY <1>1, JobType DEF JobTurns, Job

LEMMA WorkKinds ==
    ASSUME Parts, NEW k \in Jobs, Work(k) \/ TickTimeout(k)
    PROVE  Owning(k) /\ (EndJob(k) \/ JobTurns(k))
<1> USE DEF Parts
<1>1. Owning(k)
  BY DEF Work, TickTimeout, TickRead, TickResolve, JobRearm, JobFail, DeliverCas,
         DeliverPaste, DeliverMark, InJob, Owning
<1>2. CASE TickRead(k) /\ ~EndJob(k)
  <2>1. PICK h, i : /\ job' = [job EXCEPT ![k].pc = "resolve", ![k].held = h,
                                          ![k].imm = i]
                    /\ UNCHANGED known
    BY <1>2 DEF TickRead
  <2>2. job'[k] = [job[k] EXCEPT !.pc = "resolve", !.held = h, !.imm = i]
        /\ \A l \in Jobs \ {k} : job'[l] = job[l]
    BY <2>1 DEF JobInv
  <2>3. /\ job'[k].pc = "resolve" /\ job'[k].row = job[k].row
        /\ job'[k].sess = job[k].sess /\ job'[k].stopped = job[k].stopped
    BY <2>2, JobType DEF Job
  <2> QED
    BY <1>1, <2>1, <2>2, <2>3 DEF JobTurns
<1>3. CASE \/ TickTimeout(k) \/ DeliverPaste(k)
           \/ (TickResolve(k) /\ ~EndJob(k)) \/ (DeliverCas(k) /\ ~EndJob(k))
  <2>1. \E pc \in {"fail", "rearm", "cas", "tick", "mark", "paste"} :
           JobGoto(k, pc) /\ UNCHANGED known
    BY <1>3 DEF TickTimeout, DeliverPaste, TickResolve, DeliverCas
  <2> QED
    BY <1>1, <2>1, GotoTurns
<1>4. CASE JobRearm(k) \/ JobFail(k) \/ DeliverMark(k) \/ EndJob(k)
  BY <1>1, <1>4 DEF JobRearm, JobFail, DeliverMark
<1> QED
  BY <1>2, <1>3, <1>4 DEF Work

\* The worker takes job k from the queue, or finds it stopped.
LEMMA NextKinds ==
    ASSUME Parts, NEW k \in Jobs, WorkerNext(k)
    PROVE  /\ job[k].pc = "queued"
           /\ \A l \in Jobs \ {k} : Copies(job'[l], job[l])
           /\ \/ /\ job[k].stopped /\ job'[k] = OffJob /\ Forget(job[k].row, k)
              \/ /\ ~job[k].stopped /\ job'[k] = [job[k] EXCEPT !.pc = "tick"]
                 /\ UNCHANGED known
<1>1. ASSUME NEW x, job' = Popped(k, x)
      PROVE  job'[k] = x /\ \A l \in Jobs \ {k} : Copies(job'[l], job[l])
  <2>1. job'[k] = x
    BY <1>1 DEF Popped
  <2>2. ASSUME NEW l \in Jobs \ {k} PROVE Copies(job'[l], job[l])
    <3>1. job'[l] = [job[l] EXCEPT !.ahead = @ \ {k}]
      BY <1>1 DEF Popped
    <3> QED
      BY <3>1, JobType DEF Parts, Job, Copies
  <2> QED
    BY <2>1, <2>2
<1> QED
  BY <1>1 DEF WorkerNext, InJob

LEMMA KnownWork ==
    ASSUME Parts, KnownInv, NEW k \in Jobs,
           WorkerNext(k) \/ Work(k) \/ TickTimeout(k)
    PROVE  KnownInv'
<1> USE DEF Parts
<1>1. CASE EndJob(k)
  <2>1. job'[k].pc = "off" /\ \A l \in Jobs \ {k} : job'[l] = job[l]
    BY <1>1 DEF EndJob, JobInv, OffJob
  <2> QED
    BY <1>1, <2>1, KnownEnd DEF EndJob, JobStays
<1>2. CASE JobTurns(k)
  <2>1. \A r \in Rows : /\ known'[r] = known[r]
                        /\ known[r] # None => known[r] \in Jobs
    BY <1>2 DEF JobTurns, KnownType
  <2>2. ASSUME NEW r \in Rows, known[r] # None
        PROVE  job'[known[r]].pc # "off" /\ job'[known[r]].row = r
    BY <1>2, <2>1, <2>2 DEF JobTurns, KnownInv
  <2> QED
    BY <2>1, <2>2 DEF KnownInv
<1>3. CASE WorkerNext(k)
  <2>1. \A l \in Jobs \ {k} : JobStays(l)
    BY <1>3, NextKinds DEF Copies, JobStays
  <2>2. CASE job'[k] = OffJob /\ Forget(job[k].row, k)
    BY <2>1, <2>2, KnownEnd DEF OffJob
  <2>3. CASE job'[k] = [job[k] EXCEPT !.pc = "tick"] /\ UNCHANGED known
    <3>1. JobStays(k)
      BY <1>3, <2>3, NextKinds, JobType DEF Job, JobStays
    <3> QED
      BY <2>1, <2>3, <3>1, KnownKept DEF KnownType
  <2> QED
    BY <1>3, <2>2, <2>3, NextKinds
<1> QED
  BY <1>1, <1>2, <1>3, WorkKinds

\* The stop of one row's registration.
LEMMA StopOne ==
    ASSUME Parts, KnownInv, NEW r \in Rows, NEW ks, ks = {known[r]} \ {None},
           NEW l \in Jobs, NEW y, y = Stopped(ks, job)[l]
    PROVE  \/ Copies(y, job[l]) /\ known[r] # l
           \/ /\ job[l].row = r /\ known[r] = l
              /\ \/ y = OffJob
                 \/ /\ y.pc = job[l].pc /\ y.row = r
                    /\ y.sess = job[l].sess /\ y.imm = job[l].imm
<1>1. l \in ks <=> known[r] = l
  BY DeliveryAssumption
<1>2. known[r] = l => job[l].row = r
  BY DeliveryAssumption DEF KnownInv
<1> QED
  BY <1>1, <1>2, StopEffect

LEMMA RegisterEffect ==
    ASSUME Parts, KnownInv, NEW p \in Handlers, NEW r \in Rows,
           NEW s \in Sessions, Register(p, r, s)
    PROVE  \E k \in Jobs :
             /\ job[k].pc = "off" /\ job'[k].pc = "fire" /\ job'[k].row = r
             /\ job'[k].sess = s /\ ~job'[k].stopped
             /\ known'[r] = k /\ \A q \in Rows \ {r} : known'[q] = known[q]
             /\ call'[p].pc = "cas" /\ call'[p].row = r
             /\ call'[p].sess = s /\ call'[p].job = k
             /\ Alone(p)
             /\ \A l \in Jobs \ {k} :
                  \/ Copies(job'[l], job[l]) /\ known[r] # l
                  \/ /\ job[l].row = r /\ known[r] = l
                     /\ \/ job'[l] = OffJob
                        \/ /\ job'[l].pc = job[l].pc /\ job'[l].row = r
                           /\ job'[l].sess = job[l].sess
                           /\ job'[l].imm = job[l].imm
<1> DEFINE old == {known[r]} \ {None}
           x == [OffJob EXCEPT !.pc = "fire", !.row = r, !.sess = s]
<1>1. PICK k \in Jobs :
        /\ job[k].pc = "off" /\ known' = [known EXCEPT ![r] = k]
        /\ job' = [Stopped(old, job) EXCEPT ![k] = x]
        /\ call' = [call EXCEPT ![p] = [Begin("cas", r, s) EXCEPT !.job = k]]
  BY DEF Register
<1>2. job'[k] = x /\ \A l \in Jobs \ {k} : job'[l] = Stopped(old, job)[l]
  BY <1>1 DEF Stopped
<1>3. x.pc = "fire" /\ x.row = r /\ x.sess = s /\ ~x.stopped
  BY DEF OffJob
<1>4. known'[r] = k /\ \A q \in Rows \ {r} : known'[q] = known[q]
  BY <1>1 DEF Parts, KnownType
<1>5. call'[p] = [Begin("cas", r, s) EXCEPT !.job = k] /\ Alone(p)
  BY <1>1 DEF Parts, CallInv, Alone
<1>6. call'[p].pc = "cas" /\ call'[p].row = r /\ call'[p].sess = s
      /\ call'[p].job = k
  BY <1>5 DEF Begin, OffCall
<1> HIDE DEF old, x
<1>8. ASSUME NEW l \in Jobs \ {k}
      PROVE  \/ Copies(job'[l], job[l]) /\ known[r] # l
             \/ /\ job[l].row = r /\ known[r] = l
                /\ \/ job'[l] = OffJob
                   \/ /\ job'[l].pc = job[l].pc /\ job'[l].row = r
                      /\ job'[l].sess = job[l].sess /\ job'[l].imm = job[l].imm
  <2>1. old = {known[r]} \ {None}
    BY DEF old
  <2>2. PICK y, ks : y = job'[l] /\ ks = old /\ y = Stopped(ks, job)[l]
    BY <1>2
  <2> QED
    BY <2>1, <2>2, StopOne
<1> QED
  BY <1>1, <1>2, <1>3, <1>4, <1>5, <1>6, <1>8

LEMMA KnownRegister ==
    ASSUME Parts, KnownInv, NEW p \in Handlers, NEW r \in Rows,
           NEW s \in Sessions, Register(p, r, s)
    PROVE  KnownInv'
<1>1. PICK k \in Jobs :
        /\ job[k].pc = "off" /\ job'[k].pc = "fire" /\ job'[k].row = r
        /\ known'[r] = k /\ \A q \in Rows \ {r} : known'[q] = known[q]
        /\ \A l \in Jobs \ {k} : \/ Copies(job'[l], job[l])
                                 \/ job[l].row = r
  BY RegisterEffect
<1> SUFFICES ASSUME NEW q \in Rows \ {r}, known'[q] # None
             PROVE  job'[known'[q]].pc # "off" /\ job'[known'[q]].row = q
  BY <1>1 DEF KnownInv
<1>2. PICK l \in Jobs : l = known[q] /\ l = known'[q]
  BY <1>1 DEF Parts, KnownType
<1>3. job[l].pc # "off" /\ job[l].row = q
  BY <1>1, <1>2 DEF KnownInv
<1> QED
  BY <1>1, <1>2, <1>3 DEF Copies

\* A call's fired job goes to the queue, or to nothing.
LEMMA KnownFire ==
    ASSUME Parts, FireJobs, KnownInv, NEW p \in Handlers, Fire(p) \/ Route(p)
    PROVE  KnownInv'
<1> USE DEF Parts
<1>1. CASE Route(p)
  <2>1. call[p].row \in Rows /\ call[p].sess \in Sessions
    BY <1>1, AtRow, RowPcs DEF Route, At, Dispatching
  <2> QED
    BY <1>1, <2>1, KnownRegister, KnownSame DEF Route, jobVars
<1>2. CASE SendFire(p)
  <2>1. call[p].row \in Rows /\ call[p].sess \in Sessions
    BY <1>2, AtRow, RowPcs DEF SendFire, At
  <2> QED
    BY <1>2, <2>1, KnownRegister, KnownSame DEF SendFire, jobVars
<1>3. CASE FireCas(p)
  BY <1>3, KnownSame DEF FireCas, jobVars
<1>4. CASE FireCheck(p)
  <2>1. Firing(p) /\ call[p].job \in Jobs
    BY <1>4, AtRow, RowPcs DEF FireCheck, At, Firing, Dispatching
  <2>2. PICK k \in Jobs : k = call[p].job
    BY <2>1
  <2>3. job[k].row = call[p].row
    BY <2>1, <2>2 DEF FireJobs
  <2>4. CASE UNCHANGED jobVars
    BY <2>4, KnownSame DEF jobVars
  <2>5. CASE Forget(call[p].row, k) /\ job' = [job EXCEPT ![k] = OffJob]
    <3>1. job'[k].pc = "off" /\ \A l \in Jobs \ {k} : JobStays(l)
      BY <2>5 DEF JobInv, OffJob, JobStays
    <3> QED
      BY <2>3, <2>5, <3>1, KnownEnd
  <2> QED
    BY <1>4, <2>2, <2>4, <2>5 DEF FireCheck
<1>5. CASE FireEnqueue(p)
  <2>1. call[p].job \in Jobs
    BY <1>5, AtRow, RowPcs DEF FireEnqueue, At, Dispatching
  <2>2. PICK k \in Jobs : k = call[p].job
    BY <2>1
  <2>3. PICK ls : job' = [job EXCEPT ![k].pc = "queued", ![k].ahead = ls]
    BY <1>5, <2>2 DEF FireEnqueue
  <2>4. job'[k] = [job[k] EXCEPT !.pc = "queued", !.ahead = ls]
        /\ \A l \in Jobs \ {k} : job'[l] = job[l]
    BY <2>3 DEF JobInv
  <2>5. job'[k].pc = "queued" /\ job'[k].row = job[k].row
    BY <2>4, JobType DEF Job
  <2>6. UNCHANGED known
    BY <1>5 DEF FireEnqueue
  <2>7. \A l \in Jobs : job[l].pc # "off" => job'[l].pc # "off"
    BY <2>4, <2>5
  <2>8. \A l \in Jobs : job'[l].row = job[l].row
    BY <2>4, <2>5
  <2> QED
    BY <2>6, <2>7, <2>8 DEF KnownInv, KnownType
<1> QED
  BY <1>1, <1>2, <1>3, <1>4, <1>5 DEF Fire

LEMMA KnownStep ==
    ASSUME Parts, FireJobs, KnownInv, [Next]_vars
    PROVE  KnownInv'
<1> USE DEF Parts
<1>1. CASE UNCHANGED vars
  BY <1>1, KnownSame DEF vars, jobVars
<1>2. CASE Crash
  BY <1>2 DEF Crash, KnownInv
<1>3. CASE \/ \E t \in told : Observe(t)
           \/ \E t \in turns : TurnPersist(t) \/ TurnWithdraw(t) \/ TurnSettle(t)
           \/ Boot
  <2>1. UNCHANGED jobVars
    BY <1>3 DEF Observe, ObserverStart, ObserverRestore, ObserverMark, ObserverDrop,
       TurnPersist, TurnWithdraw, TurnSettle,
       Boot, BootHold, BootGive, BootNext, BootRecover
  <2> QED
    BY <2>1, KnownSame DEF jobVars
<1>4. ASSUME NEW p \in Handlers, Json(p) \/ JsonTimeout(p) PROVE KnownInv'
  <2>1. UNCHANGED jobVars
    BY <1>4 DEF Json, JsonTimeout, JsonAble, JsonGiveBack, JsonAdopt, JsonEnqueue,
       JsonAfter, JsonHoldBack, JsonFailMark, JsonSentMark
  <2> QED
    BY <2>1, KnownSame DEF jobVars
<1>5. ASSUME NEW p \in Callers, Request(p) PROVE KnownInv'
  <2>1. UNCHANGED jobVars
    BY <1>5 DEF Request, SendNow, Claim, CancelStart, RetryStart, DismissStart,
       CreateStart, SendStart, Discard, Toggle, ResetStart, DeleteStart
  <2> QED
    BY <2>1, KnownSame DEF jobVars
<1>6. ASSUME NEW p \in Callers, Proceed(p) PROVE KnownInv'
  <2>1. p \in Handlers
    BY CallerIsHandler
  <2>2. CASE CancelTell(p)
    <3>1. call[p].row \in Rows
      BY <2>1, <2>2, AtRow, RowPcs DEF CancelTell, At
    <3>2. PICK rs : rs = {call[p].row}
      OBVIOUS
    <3>3. rs \subseteq Rows /\ StopJobs(rs)
      BY <2>2, <3>1, <3>2 DEF CancelTell
    <3> QED
      BY <3>3, KnownStops
  <2>3. CASE DeleteGone(p)
    <3>1. call[p].todo \subseteq Rows
      BY <2>1, CallType DEF Call
    <3> QED
      BY <2>3, <3>1, KnownStops DEF DeleteGone
  <2>4. CASE \E r \in Rows : ResetStop(p, r) \/ ResetRearm(p, r)
    <3>1. PICK r \in Rows : StopJobs({r})
      BY <2>4 DEF ResetStop, ResetRearm
    <3>2. PICK rs : rs = {r}
      OBVIOUS
    <3>3. rs \subseteq Rows /\ StopJobs(rs)
      BY <3>1, <3>2
    <3> QED
      BY <3>3, KnownStops
  <2>5. CASE ~(\/ CancelTell(p) \/ DeleteGone(p)
               \/ \E r \in Rows : ResetStop(p, r) \/ ResetRearm(p, r))
    <3>1. UNCHANGED jobVars
      BY <1>6, <2>5 DEF Proceed, CreateTake, SendTake, CancelBefore, CancelErase,
         ReturnComments, Rehold, RetryRow, DismissRow, ResetList, ResetArchive,
         ResetGivenUp, ResetMove, DeleteList, DeleteRows, DeletePurge, DeleteGive
    <3> QED
      BY <3>1, KnownSame DEF jobVars
  <2> QED
    BY <2>2, <2>3, <2>4, <2>5
<1>7. ASSUME NEW r \in Rows, Poll(r) PROVE KnownInv'
  BY <1>7, KnownSame DEF Poll, Claim, jobVars
<1> QED
  BY <1>1, <1>2, <1>3, <1>4, <1>5, <1>6, <1>7, KnownFire, KnownWork DEF Next

LEMMA KnownInit == Init => KnownInv
  BY DEF Init, KnownInv

-----------------------------------------------------------------------------
(* The claims over the steps of calls.                                       *)

\* A step of call p that touches no job.
LEMMA ClaimCall ==
    ASSUME Parts, OwnInv', ClaimInv, NEW p \in Handlers, Alone(p),
           UNCHANGED <<known, job, boot>>, RowsGo, SessLast, CallOK(p)',
           \/ ~Armed(p)
           \/ Armed(p)' /\ call'[p].row = call[p].row
           \/ \E r \in Rows : r = call[p].row /\ ~Live(r)'
    PROVE  ClaimInv'
<1>1. CallsGo
  BY DEF Alone, CallsGo, CallStill
<1>2. JobsGo
  BY DEF JobsGo, JobStill
<1>3. HoldersGo
  <2> SUFFICES ASSUME NEW r \in Rows, Live(r)', Holder(r) PROVE Holder(r)'
    BY DEF HoldersGo
  <2>1. CASE \E k \in Jobs : HasJob(k, r)
    BY <2>1 DEF Holder, HasJob, Owning
  <2>2. CASE \E q \in Handlers \ {p} : Armed(q) /\ call[q].row = r
    BY <2>2 DEF Holder, Alone, Armed
  <2>3. CASE Armed(p) /\ call[p].row = r
    BY <2>3 DEF Holder
  <2> QED
    BY <2>1, <2>2, <2>3 DEF Holder
<1> QED
  BY <1>1, <1>2, <1>3, ClaimFrame DEF BootGoes

LEMMA GoesAlone == ASSUME UNCHANGED row PROVE RowsGo
  BY DEF RowsGo, RowGoes, RowStill

LEMMA GoesRow ==
    ASSUME RowInv, NEW r \in Rows, NEW x, SetRow(r, x), RowGoes(r)
    PROVE  RowsGo /\ row'[r] = x
<1>1. row'[r] = x /\ \A q \in Rows \ {r} : row'[q] = row[q]
  BY DEF SetRow, RowInv
<1> QED
  BY <1>1 DEF RowsGo, RowGoes, RowStill

\* The comments of a row are no matter of its claim.
LEMMA GoesPay ==
    ASSUME RowInv, NEW r \in Rows, NEW p, NEW c,
           SetRow(r, [row[r] EXCEPT !.pay = p, !.snap = c])
           \/ SetRow(r, [row[r] EXCEPT !.pay = p])
    PROVE  RowsGo /\ RowStill(r)
<1>1. row'[r] = [row[r] EXCEPT !.pay = p, !.snap = c]
      \/ row'[r] = [row[r] EXCEPT !.pay = p]
  BY DEF SetRow, RowInv
<1>2. RowStill(r)
  BY <1>1, RowType DEF RowStill, Row
<1>3. \A q \in Rows \ {r} : row'[q] = row[q]
  BY DEF SetRow, RowInv
<1> QED
  BY <1>2, <1>3 DEF RowsGo, RowGoes, RowStill

LEMMA GoesRestore ==
    ASSUME RowInv, NEW r \in Rows, RestoreHold(r) \/ \E cs : RestoreRow(r, cs)
    PROVE  RowsGo /\ RowStill(r)
<1>1. CASE UNCHANGED row
  BY <1>1, GoesAlone DEF RowStill
<1>2. CASE ~UNCHANGED row
  BY <1>2, GoesPay DEF RestoreHold, RestoreRow, storeVars
<1> QED
  BY <1>1, <1>2

LEMMA GoesGone ==
    ASSUME RowInv, NEW r \in Rows, SetRow(r, Blank("gone"))
    PROVE  RowsGo /\ Gone(r)'
<1>1. row'[r] = Blank("gone") /\ Gone(r)'
  BY DEF SetRow, RowInv, Blank, Gone
<1> QED
  BY <1>1, GoesRow DEF RowGoes

\* A row that exists is freed.
LEMMA GoesFree ==
    ASSUME RowInv, NEW r \in Rows, Exists(r), NEW x, SetRow(r, x),
           \/ x = Failed(row[r]) \/ x = Sent(row[r]) \/ x = Unclaimed(row[r])
           \/ x = [Unclaimed(row[r]) EXCEPT !.status = "pending"]
    PROVE  RowsGo /\ ~Claimed(r)' /\ ~Live(r)'
<1>1. row'[r] = x
  BY DEF SetRow, RowInv
<1>2. /\ x.claimed = FALSE /\ x.phase = "null" /\ x.sess = row[r].sess
      /\ x.status \in {"pending", "failed", "sent", row[r].status}
  BY RowType DEF Failed, Sent, Unclaimed, Row
<1>3. ~Gone(r) /\ Exists(r)' /\ ~Claimed(r)' /\ RowOK(r)'
  BY <1>1, <1>2 DEF Exists, Gone, Claimed, Pending, RowOK
<1> QED
  BY <1>1, <1>2, <1>3, GoesRow DEF RowGoes, Live

\* An owner goes on, and its row is as it was but for the comments.
LEMMA StillArmed ==
    ASSUME NEW p \in Handlers, Armed(p), CallOK(p), NEW r \in Rows,
           r = call[p].row, RowStill(r), call'[p].row = r,
           call'[p].pc \in Owners \ FirePcs,
           call'[p].pc \in Richly => call[p].pc \in Richly
    PROVE  Armed(p)' /\ CallOK(p)'
<1>1. /\ call'[p].pc \notin {"check", "enq", "tell"} \cup Deleting
      /\ ~Firing(p)'
  BY PcKinds DEF FirePcs, Firing
<1>2. "gone" \in Deleting
  BY DEF Deleting
<1>3. row'[r].status = "gone" \/ row'[r].phase # "pasting"
  BY DEF CallOK, RowStill, Gone
<1>4. call'[p].pc \in Richly => row'[r].status = "gone" \/ row'[r].phase = "null"
  BY DEF CallOK, RowStill, Gone
<1> QED
  BY <1>1, <1>2, <1>3, <1>4 DEF CallOK, Armed, Gone

\* A call at these steps relies on nothing.
Plainly == {"off", "take", "takeNow", "before", "erase", "return", "rehold",
            "retry", "dismiss"}

LEMMA PlainCall ==
    ASSUME NEW p \in Handlers, call'[p].pc \in Plainly
    PROVE  CallOK(p)' /\ ~Armed(p)'
<1>1. /\ call'[p].pc \notin Owners \cup Deleting \cup {"tell"}
      /\ "gone" \in Deleting /\ {"cas", "check", "enq"} \subseteq Owners
      /\ Richly \subseteq Owners
  BY RichKinds DEF Plainly, Owners, Dispatching, Deleting
<1> QED
  BY <1>1 DEF CallOK, Armed, Firing

LEMMA ReturnPlain ==
    ASSUME CallInv, NEW p \in Handlers, Return(p)
    PROVE  Alone(p) /\ CallOK(p)' /\ ~Armed(p)'
<1>1. call'[p].pc = "off"
  BY DEF Return, CallInv, OffCall
<1> QED
  BY <1>1, AloneForms, PlainCall DEF Plainly

LEMMA GotoFields ==
    ASSUME CallInv, NEW p \in Handlers, NEW pc, Goto(p, pc)
    PROVE  /\ call'[p].pc = pc /\ call'[p].row = call[p].row
           /\ call'[p].sess = call[p].sess /\ call'[p].job = call[p].job
           /\ call'[p].todo = call[p].todo /\ Alone(p)
  BY CallType DEF Goto, CallInv, Call, Alone

LEMMA ClaimClaim ==
    ASSUME Parts, OwnInv', ClaimInv, NEW p \in Handlers, NEW r \in Rows,
           call[p].pc = "off", Claim(p, r), UNCHANGED boot
    PROVE  ClaimInv'
<1> USE DEF Parts
<1>1. Alone(p) /\ UNCHANGED <<known, job, sess>>
  BY AloneClaim DEF Claim, jobVars, sessVars
<1>2. call'[p].pc = "route" /\ call'[p].row = r
  BY DEF Claim, CallInv, Begin, OffCall
<1>3. row'[r] = [row[r] EXCEPT !.claimed = TRUE]
  BY DEF Claim, SetRow, RowInv
<1>4. /\ row'[r].phase = row[r].phase /\ row'[r].status = "pending"
      /\ row'[r].claimed /\ row'[r].sess = row[r].sess
  BY <1>3, RowType DEF Row, Claim, Pending
<1>5. row[r].phase = "null"
  BY DEF Claim, ClaimInv, RowOK
<1>6. Armed(p)' /\ ~Armed(p) /\ {"check", "enq", "tell"} \cap {"route"} = {}
      /\ "route" \notin Deleting /\ "gone" \in Deleting
  BY <1>2, PcKinds DEF Armed, Owners, Dispatching, Deleting
<1>7. CallOK(p)'
  BY <1>2, <1>4, <1>5, <1>6 DEF CallOK, Firing
<1>8. RowGoes(r)
  BY <1>2, <1>4, <1>6, <1>7 DEF RowGoes, Claim, Pending, Claimed, Gone, Exists
<1>9. RowsGo
  BY <1>3, <1>8, GoesRow DEF Claim
<1> QED
  BY <1>1, <1>6, <1>7, <1>9, ClaimCall DEF SessLast

LEMMA ClaimJson ==
    ASSUME Parts, OwnInv, OwnInv', ClaimInv, NEW p \in Handlers,
           Json(p) \/ JsonTimeout(p)
    PROVE  ClaimInv'
<1> USE DEF Parts
<1>1. call[p].pc \in JsonPcs /\ UNCHANGED <<known, job, sess, boot>>
  BY DEF Json, JsonTimeout, JsonAble, JsonGiveBack, JsonAdopt, JsonEnqueue,
         JsonAfter, JsonHoldBack, JsonFailMark, JsonSentMark, At, JsonPcs,
         jobVars, sessVars
<1>2. JsonPcs \subseteq Owners \ FirePcs
  BY DEF JsonPcs, Owners, Dispatching, FirePcs
<1>3. Armed(p) /\ call[p].row \in Rows /\ CallOK(p) /\ call[p].pc \in Richly
  BY <1>1, <1>2, OwnRows DEF Armed, ClaimInv, Richly
<1>4. PICK r \in Rows : r = call[p].row
  BY <1>3
<1>5. Alone(p)
  BY AloneJson
<1>6. ASSUME NEW pc \in JsonPcs, Goto(p, pc), RowsGo, RowStill(r) PROVE ClaimInv'
  <2>1. call'[p].pc = pc /\ call'[p].row = call[p].row
    BY <1>6, GotoFields
  <2>2. Armed(p)' /\ CallOK(p)'
    BY <1>2, <1>3, <1>4, <1>6, <2>1, StillArmed
  <2> QED
    BY <1>1, <1>5, <1>6, <2>1, <2>2, ClaimCall DEF SessLast
<1>7. UNCHANGED row => RowStill(r) /\ RowsGo
  BY GoesAlone DEF RowStill
<1>8. CASE \/ JsonAble(p) \/ JsonGiveBack(p) \/ JsonEnqueue(p) \/ JsonAfter(p)
           \/ JsonHoldBack(p) \/ JsonTimeout(p)
  <2>1. \E pc \in JsonPcs : Goto(p, pc)
    BY <1>8 DEF JsonAble, JsonGiveBack, JsonEnqueue, JsonAfter, JsonHoldBack,
               JsonTimeout, JsonPcs
  <2>2. \/ UNCHANGED row \/ RestoreHold(r) \/ RestoreRow(r, call[p].held)
    BY <1>4, <1>8 DEF JsonAble, JsonGiveBack, JsonEnqueue, JsonAfter,
               JsonHoldBack, JsonTimeout, storeVars
  <2>3. RowStill(r) /\ RowsGo
    BY <1>7, <2>2, GoesRestore
  <2> QED
    BY <1>6, <2>1, <2>3
<1>9. CASE JsonAdopt(p)
  <2>1. RowStill(r) /\ RowsGo
    <3>1. CASE UNCHANGED row
      BY <1>7, <3>1
    <3>2. CASE ~UNCHANGED row
      <4>1. Adopt(r, call[p].held)
        BY <1>4, <1>9, <3>2 DEF JsonAdopt, storeVars
      <4>2. \E v : SetRow(r, [row[r] EXCEPT !.pay = v])
        BY <4>1 DEF Adopt
      <4> QED
        BY <4>2, GoesPay
    <3> QED
      BY <3>1, <3>2
  <2>2. CASE Goto(p, "failMark")
    BY <1>6, <2>1, <2>2 DEF JsonPcs
  <2>3. CASE call' = [call EXCEPT ![p].pc = "plain", ![p].turn = adoption[r] + 1]
    <3>1. call'[p] = [call[p] EXCEPT !.pc = "plain", !.turn = adoption[r] + 1]
      BY <2>3 DEF CallInv
    <3>2. call'[p].pc = "plain" /\ call'[p].row = call[p].row
      BY <3>1, CallType DEF Call
    <3>3. "plain" \in JsonPcs
      BY DEF JsonPcs
    <3>4. Armed(p)' /\ CallOK(p)'
      BY <1>2, <1>3, <1>4, <2>1, <3>2, <3>3, StillArmed
    <3> QED
      BY <1>1, <1>5, <2>1, <3>2, <3>4, ClaimCall DEF SessLast
  <2> QED
    BY <1>4, <1>9, <2>2, <2>3 DEF JsonAdopt
<1>10. CASE JsonFailMark(p) \/ JsonSentMark(p)
  <2>1. Return(p)
    BY <1>10 DEF JsonFailMark, JsonSentMark
  <2>2. CASE UNCHANGED row /\ ~Claimed(r)
    <3>1. ~Live(r)'
      BY <2>2 DEF Live, Claimed, Pending
    <3> QED
      BY <1>1, <1>4, <1>5, <2>1, <2>2, <3>1, ReturnPlain, GoesAlone, ClaimCall
         DEF SessLast
  <2>3. CASE Claimed(r) /\ (SetRow(r, Failed(row[r])) \/ SetRow(r, Sent(row[r])))
    <3>1. Exists(r)
      BY <2>3 DEF Claimed, Pending, Exists
    <3>2. PICK x : SetRow(r, x) /\ (x = Failed(row[r]) \/ x = Sent(row[r]))
      BY <2>3
    <3>3. RowsGo /\ ~Live(r)'
      BY <3>1, <3>2, GoesFree
    <3> QED
      BY <1>1, <1>4, <1>5, <2>1, <3>3, ReturnPlain, ClaimCall DEF SessLast
  <2> QED
    BY <1>4, <1>10, <2>2, <2>3 DEF JsonFailMark, JsonSentMark
<1> QED
  BY <1>8, <1>9, <1>10 DEF Json

\* A client call begins.
LEMMA ClaimRequest ==
    ASSUME Parts, OwnInv, OwnInv', ClaimInv, "reset" \notin Ops,
           NEW p \in Callers, Request(p)
    PROVE  ClaimInv'
<1> USE DEF Parts
<1>1. p \in Handlers /\ Alone(p) /\ call[p].pc = "off" /\ UNCHANGED boot
  <2>1. UNCHANGED boot
    BY DEF Request, SendNow, Claim, CancelStart, RetryStart, DismissStart, Starts,
           CreateStart, SendStart, Discard, Toggle, ResetStart, DeleteStart
  <2> QED
    BY <2>1, CallerIsHandler, AloneRequest DEF At
<1>2. ~Armed(p)
  BY <1>1, PcKinds DEF Armed
<1>3. CASE \E r \in Rows : SendNow(p, r)
  BY <1>1, <1>3, ClaimClaim DEF SendNow
<1>4. ASSUME call'[p].pc \in Plainly, UNCHANGED <<known, job, row>>, SessLast
      PROVE  ClaimInv'
  BY <1>1, <1>2, <1>4, PlainCall, GoesAlone, ClaimCall
<1>5. ASSUME NEW r \in Rows, CancelStart(p, r) \/ RetryStart(p, r) \/ DismissStart(p, r)
      PROVE  ClaimInv'
  <2>1. call'[p].pc \in {"before", "erase", "rehold", "retry", "dismiss"}
    <3>1. CASE CancelStart(p, r)
      <4> DEFINE pc == IF DeliveryRow(row[r]) THEN "before" ELSE "erase"
      <4>1. call'[p] = [Begin(pc, r, row[r].sess)
                          EXCEPT !.tmux = DeliveryRow(row[r]), !.held = HeldBy(row[r])]
        BY <1>1, <3>1 DEF CancelStart, CallInv
      <4> HIDE DEF pc
      <4>2. call'[p].pc = pc
        BY <4>1, BeginFields
      <4> QED
        BY <4>2 DEF pc
    <3>2. CASE RetryStart(p, r)
      <4> DEFINE back == row[r].pay = "restored"
                 pc == IF back THEN "rehold" ELSE "retry"
                 h == IF back THEN row[r].snap ELSE {}
      <4>1. call'[p] = [Begin(pc, r, row[r].sess) EXCEPT !.held = h]
        BY <1>1, <3>2 DEF RetryStart, CallInv
      <4> HIDE DEF pc, h
      <4>2. call'[p].pc = pc
        BY <4>1, BeginFields
      <4> QED
        BY <4>2 DEF pc
    <3>3. CASE DismissStart(p, r)
      <4> DEFINE h == IF DeliveryRow(row[r]) THEN {} ELSE HeldBy(row[r])
      <4>1. call'[p] = [Begin("dismiss", r, row[r].sess) EXCEPT !.held = h]
        BY <1>1, <3>3 DEF DismissStart, CallInv
      <4> HIDE DEF h
      <4> QED
        BY <4>1, BeginFields
    <3> QED
      BY <1>5, <3>1, <3>2, <3>3
  <2> QED
    BY <1>4, <1>5, <2>1 DEF CancelStart, RetryStart, DismissStart, storeVars,
       jobVars, sessVars, SessLast, Plainly
<1>6. ASSUME NEW r \in Rows, NEW s \in Sessions, CreateStart(p, r, s) \/ SendStart(p, r, s)
      PROVE  ClaimInv'
  <2>1. PICK y : /\ call'[p] = y
                 /\ \/ y = [Begin("take", r, s) EXCEPT !.tmux = (chan[s] = "tmux")]
                    \/ y = Begin("takeNow", r, s)
    BY <1>1, <1>6 DEF CreateStart, SendStart, CallInv
  <2>2. call'[p].pc \in {"take", "takeNow"}
    BY <2>1 DEF Begin, OffCall
  <2> QED
    BY <1>4, <1>6, <2>2 DEF CreateStart, SendStart, storeVars, jobVars, sessVars,
       SessLast, Plainly
<1>7. ASSUME NEW s \in Sessions, Toggle(p, s) PROVE ClaimInv'
  BY <1>1, <1>4, <1>7 DEF Toggle, storeVars, jobVars, SessLast, Plainly
<1>8. ASSUME NEW c \in Comments, Discard(p, c) PROVE ClaimInv'
  BY <1>1, <1>4, <1>8 DEF Discard, sessVars, jobVars, SessLast, Plainly
<1>9. ASSUME NEW s \in Sessions, ResetStart(p, s) PROVE ClaimInv'
  BY <1>9 DEF ResetStart, Starts
<1>10. ASSUME NEW s \in Sessions, DeleteStart(p, s) PROVE ClaimInv'
  <2>1. call'[p].pc = "listHeld" /\ call'[p].sess = s
    BY <1>1, <1>10 DEF DeleteStart, CallInv, Begin, OffCall
  <2>2. sess' = [sess EXCEPT ![s] = "deleted"] /\ UNCHANGED <<row, known, job>>
    BY <1>10 DEF DeleteStart, storeVars, jobVars
  <2>3. SessLast /\ sess'[s] = "deleted"
    BY <2>2 DEF SessLast, Rest
  <2>4. "listHeld" \notin Owners \cup {"check", "enq", "tell", "gone", "cas"}
    BY DEF Owners, Dispatching
  <2>5. CallOK(p)'
    BY <2>1, <2>3, <2>4, RichKinds DEF CallOK, Armed, Firing
  <2> QED
    BY <1>1, <1>2, <2>2, <2>3, <2>5, GoesAlone, ClaimCall
<1> QED
  BY <1>3, <1>5, <1>6, <1>7, <1>8, <1>9, <1>10 DEF Request

\* A delete of a session goes on to x.
LEMMA ClaimDelete ==
    ASSUME Parts, OwnInv', ClaimInv, NEW p \in Handlers, call[p].pc \in Deleting,
           UNCHANGED <<known, job, sess, boot>>, RowsGo,
           NEW x, call' = [call EXCEPT ![p] = x], x.pc \in {"giveAll", "gone"},
           x.sess = call[p].sess,
           x.pc = "gone" => x.todo = Listed(call[p].sess) /\ UNCHANGED row
    PROVE  ClaimInv'
<1>1. call'[p] = x /\ Alone(p)
  BY DEF Parts, CallInv, Alone
<1>2. sess'[x.sess] = "deleted" /\ CallOK(p)
  BY DEF ClaimInv, CallOK
<1>3. /\ {"giveAll", "gone"} \cap (Owners \cup {"check", "enq", "cas", "tell"}) = {}
      /\ Deleting \cap Owners = {}
  BY PcKinds DEF Deleting
<1>4. ASSUME x.pc = "gone", NEW q \in x.todo
      PROVE  row'[q].status = "pending" /\ row'[q].sess = x.sess
  BY <1>4 DEF Listed, Pending
<1>5. ~Armed(p) /\ ~Armed(p)' /\ ~Firing(p)' /\ call'[p].pc \notin {"check", "enq", "tell"}
  BY <1>1, <1>3 DEF Armed, Firing
<1>6. (call[p].pc = "gone" =>
         \A q \in call[p].todo : Gone(q) \/ (Exists(q) /\ row[q].sess = call[p].sess))'
  BY <1>1, <1>4 DEF Exists
<1>7. (call[p].pc \in Deleting => sess[call[p].sess] = "deleted")'
  BY <1>1, <1>2
<1>8. CallOK(p)'
  BY <1>1, <1>5, <1>6, <1>7, RichKinds DEF CallOK, Armed
<1> QED
  BY <1>1, <1>5, <1>8, ClaimCall DEF SessLast

\* The steps of a client call that stop no job.
LEMMA ClaimProceed ==
    ASSUME Parts, OwnInv, OwnInv', ClaimInv, NEW p \in Callers, Proceed(p),
           ~CancelTell(p), ~DeleteGone(p)
    PROVE  ClaimInv'
<1> USE DEF Parts
<1>1. p \in Handlers /\ CallOK(p) /\ call[p].pc \notin Resetting
  BY CallerIsHandler DEF ClaimInv, OwnInv, NoReset
<1>2. ~(\/ ResetList(p) \/ ResetArchive(p) \/ ResetGivenUp(p) \/ ResetMove(p)
        \/ \E r \in Rows : ResetStop(p, r) \/ ResetRearm(p, r))
  BY <1>1 DEF ResetList, ResetArchive, ResetGivenUp, ResetMove, ResetStop,
              ResetRearm, At, Resetting
<1>3. UNCHANGED <<known, job, sess, boot>>
  BY <1>2 DEF Proceed, CreateTake, SendTake, CancelBefore, CancelErase,
     ReturnComments, Rehold, RetryRow, DismissRow, DeleteList, DeleteRows,
     DeletePurge, DeleteGive, sessVars, jobVars
<1>4. SessLast
  BY <1>3 DEF SessLast
<1>5. ASSUME ~Armed(p), RowsGo, call'[p].pc \in Plainly, Alone(p) PROVE ClaimInv'
  BY <1>1, <1>3, <1>4, <1>5, PlainCall, ClaimCall
<1>6. {"take", "takeNow", "before", "erase", "return", "rehold", "retry", "dismiss"}
        \cap Owners = {} /\ Deleting \cap Owners = {}
  BY PcKinds
<1>7. CASE CreateTake(p)
  <2>1. call[p].row \in Rows /\ ~Armed(p)
    BY <1>1, <1>6, <1>7, AtRow, RowPcs DEF CreateTake, At, Armed
  <2>2. PICK r \in Rows : r = call[p].row
    BY <2>1
  <2>3. row[r].status = "unused"
    BY <1>1, <1>7, <2>2 DEF CreateTake, At, OwnInv, TakesUnused, Taking
  <2>4. PICK cs : SetRow(r, [Blank("pending") EXCEPT
                        !.sess = call[p].sess, !.tmux = call[p].tmux,
                        !.pay = IF cs = {} THEN "none" ELSE "held", !.snap = cs])
    BY <1>7, <2>2 DEF CreateTake
  <2>5. ~row'[r].claimed /\ row'[r].phase = "null"
    BY <2>4 DEF SetRow, RowInv, Blank
  <2>6. RowGoes(r)
    BY <2>3, <2>5 DEF RowGoes, Gone, Exists, Claimed, RowOK
  <2>7. RowsGo
    BY <2>4, <2>6, GoesRow
  <2> QED
    BY <1>1, <1>5, <1>7, <2>1, <2>7, ReturnPlain DEF CreateTake, Return, CallInv,
       OffCall, Plainly
<1>8. CASE SendTake(p)
  <2>1. call[p].row \in Rows /\ ~Armed(p)
    BY <1>1, <1>6, <1>8, AtRow, RowPcs DEF SendTake, At, Armed
  <2>2. PICK r \in Rows : r = call[p].row
    BY <2>1
  <2>3. row[r].status = "unused"
    BY <1>1, <1>8, <2>2 DEF SendTake, At, OwnInv, TakesUnused, Taking
  <2>4. CASE Return(p) /\ UNCHANGED row
    BY <1>1, <1>5, <2>1, <2>4, ReturnPlain, GoesAlone DEF Return, CallInv, OffCall,
       Plainly
  <2>5. CASE ~(Return(p) /\ UNCHANGED row)
    <3>1. PICK cs : /\ SetRow(r, [Blank("pending") EXCEPT
                                    !.claimed = TRUE, !.phase = "waiting",
                                    !.sess = call[p].sess, !.imm = TRUE, !.tmux = TRUE,
                                    !.pay = "held", !.snap = cs])
                    /\ Goto(p, "made")
      BY <1>8, <2>2, <2>5 DEF SendTake, storeVars
    <3>2. /\ row'[r].claimed /\ row'[r].phase = "waiting"
          /\ row'[r].status = "pending"
      BY <3>1 DEF SetRow, RowInv, Blank
    <3>3. call'[p].pc = "made" /\ call'[p].row = r /\ Alone(p)
      BY <1>1, <2>2, <3>1, GotoFields
    <3>4. "made" \in Owners \ (Deleting \cup {"cas", "check", "enq", "tell"})
          /\ "gone" \in Deleting
      BY DEF Owners, Deleting
    <3>5. Armed(p)' /\ CallOK(p)'
      BY <3>2, <3>3, <3>4, RichKinds DEF Armed, CallOK, Firing
    <3>6. RowGoes(r)
      BY <1>1, <2>3, <3>2, <3>3, <3>5 DEF RowGoes, Gone, Exists, Claimed, Pending
    <3>7. RowsGo
      BY <3>1, <3>6, GoesRow
    <3> QED
      BY <1>1, <1>3, <1>4, <2>1, <3>3, <3>5, <3>7, ClaimCall
  <2> QED
    BY <2>4, <2>5
<1>9. CASE CancelBefore(p)
  <2>1. ~Armed(p) /\ UNCHANGED row
    BY <1>6, <1>9 DEF CancelBefore, At, Armed, storeVars
  <2>2. Alone(p) /\ call'[p].pc = "erase"
    <3>1. call' = [call EXCEPT ![p].pc = "erase", ![p].held = row[call[p].row].snap]
      BY <1>9 DEF CancelBefore
    <3> QED
      BY <1>1, <3>1, CallType DEF CallInv, Call, Alone
  <2> QED
    BY <1>5, <2>1, <2>2, GoesAlone DEF Plainly
<1>10. CASE CancelErase(p) \/ DismissRow(p)
  <2>1. call[p].row \in Rows /\ ~Armed(p)
    BY <1>1, <1>6, <1>10, AtRow, RowPcs DEF CancelErase, DismissRow, At, Armed
  <2>2. PICK r \in Rows : r = call[p].row
    BY <2>1
  <2>3. ASSUME Return(p) PROVE call'[p].pc \in Plainly /\ Alone(p)
    BY <1>1, <2>3, ReturnPlain DEF Return, CallInv, OffCall, Plainly
  <2>4. ASSUME Goto(p, "return") PROVE call'[p].pc \in Plainly /\ Alone(p)
    BY <1>1, <2>4, GotoFields DEF Plainly
  <2>5. SetRow(r, Blank("gone")) \/ UNCHANGED row
    BY <1>10, <2>2 DEF CancelErase, DismissRow
  <2>6. RowsGo
    BY <2>5, GoesGone, GoesAlone
  <2>7. CASE Goto(p, "tell") /\ SetRow(r, Blank("gone"))
    <3>1. call'[p].pc = "tell" /\ call'[p].row = r /\ Alone(p) /\ row'[r].status = "gone"
      BY <1>1, <2>2, <2>7, GotoFields, GoesGone DEF Gone
    <3>2. "tell" \notin Owners \cup Deleting \cup {"check", "enq", "gone", "cas"}
      BY DEF Owners, Dispatching, Deleting
    <3>3. CallOK(p)'
      BY <3>1, <3>2 DEF CallOK, Armed, Firing, Gone
    <3> QED
      BY <1>1, <1>3, <1>4, <2>1, <2>6, <3>1, <3>3, ClaimCall
  <2>8. CASE Goto(p, "return") \/ Return(p)
    BY <1>5, <2>1, <2>3, <2>4, <2>6, <2>8
  <2> QED
    BY <1>10, <2>2, <2>7, <2>8 DEF CancelErase, DismissRow
<1>11. CASE ReturnComments(p)
  <2>1. ~Armed(p) /\ UNCHANGED row /\ Return(p)
    BY <1>6, <1>11 DEF ReturnComments, At, Armed
  <2> QED
    BY <1>1, <1>5, <2>1, ReturnPlain, GoesAlone DEF Return, CallInv, OffCall, Plainly
<1>12. CASE Rehold(p) \/ RetryRow(p)
  <2>1. call[p].row \in Rows /\ ~Armed(p)
    BY <1>1, <1>6, <1>12, AtRow, RowPcs DEF Rehold, RetryRow, At, Armed
  <2>2. PICK r \in Rows : r = call[p].row
    BY <2>1
  <2>3. call'[p].pc \in Plainly /\ Alone(p)
    <3>1. ASSUME Return(p) PROVE call'[p].pc \in Plainly /\ Alone(p)
      BY <1>1, <3>1, ReturnPlain DEF Return, CallInv, OffCall, Plainly
    <3>2. ASSUME NEW pc \in {"return", "retry"}, Goto(p, pc)
          PROVE  call'[p].pc \in Plainly /\ Alone(p)
      BY <1>1, <3>2, GotoFields DEF Plainly
    <3>3. ASSUME call' = [call EXCEPT ![p].pc = "retry", ![p].held = {}]
          PROVE  call'[p].pc \in Plainly /\ Alone(p)
      BY <1>1, <3>3, CallType DEF CallInv, Call, Alone, Plainly
    <3> QED
      BY <1>12, <3>1, <3>2, <3>3 DEF Rehold, RetryRow
  <2>4. RowsGo
    <3>1. CASE UNCHANGED row
      BY <3>1, GoesAlone
    <3>2. CASE Rehold(p) /\ ~UNCHANGED row
      <4>1. \E v, c : SetRow(r, [row[r] EXCEPT !.pay = v, !.snap = c])
        BY <2>2, <3>2 DEF Rehold, storeVars
      <4> QED
        BY <4>1, GoesPay
    <3>3. CASE RetryRow(p) /\ ~UNCHANGED row
      <4>1. SetRow(r, [Unclaimed(row[r]) EXCEPT !.status = "pending"])
            /\ row[r].status = "failed"
        BY <2>2, <3>3 DEF RetryRow
      <4>2. PICK x : x = [Unclaimed(row[r]) EXCEPT !.status = "pending"]
        OBVIOUS
      <4> QED
        BY <4>1, <4>2, GoesFree DEF Exists
    <3> QED
      BY <1>12, <3>1, <3>2, <3>3
  <2> QED
    BY <1>5, <2>1, <2>3, <2>4
<1>13. CASE DeletePurge(p)
  <2>1. ~Armed(p) /\ Return(p)
    BY <1>6, <1>13 DEF DeletePurge, At, Armed, Deleting
  <2>2. \A r \in Rows : row'[r] = row[r] \/ row'[r] = Blank("gone")
    BY <1>13 DEF DeletePurge
  <2>3. RowsGo
    BY <2>2 DEF RowsGo, RowGoes, RowStill, Gone, Blank
  <2> QED
    BY <1>1, <1>5, <2>1, <2>3, ReturnPlain DEF Return, CallInv, OffCall, Plainly
<1>15. CASE DeleteList(p)
  <2> DEFINE rs == {r \in Rows : /\ Pending(r) /\ ~row[r].tmux
                                 /\ row[r].sess = call[p].sess
                                 /\ row[r].pay = "held"}
             x == [call[p] EXCEPT !.pc = "giveAll", !.todo = rs]
  <2>1. call' = [call EXCEPT ![p] = x] /\ UNCHANGED row /\ call[p].pc \in Deleting
    BY <1>15 DEF DeleteList, CallInv, storeVars, At, Deleting
  <2>2. x.pc = "giveAll" /\ x.sess = call[p].sess
    BY <1>1, CallType DEF Call
  <2> HIDE DEF x
  <2> QED
    BY <1>1, <1>3, <2>1, <2>2, GoesAlone, ClaimDelete
<1>16. CASE DeleteRows(p)
  <2> DEFINE rs == Listed(call[p].sess)
             seen == [r \in Rows |-> IF r \in rs THEN row[r].snap ELSE {}]
             x == [call[p] EXCEPT !.pc = "gone", !.todo = rs, !.seen = seen]
  <2>1. call' = [call EXCEPT ![p] = x] /\ UNCHANGED row /\ call[p].pc \in Deleting
    BY <1>16 DEF DeleteRows, CallInv, storeVars, At, Deleting
  <2>2. x.pc = "gone" /\ x.sess = call[p].sess /\ x.todo = Listed(call[p].sess)
    BY <1>1, CallType DEF Call
  <2> HIDE DEF x
  <2> QED
    BY <1>1, <1>3, <2>1, <2>2, GoesAlone, ClaimDelete
<1>17. CASE \E r \in Rows : DeleteGive(p, r)
  <2>1. PICK r \in Rows : DeleteGive(p, r)
    BY <1>17
  <2> DEFINE x == [call[p] EXCEPT !.todo = @ \ {r}]
  <2>2. call' = [call EXCEPT ![p] = x] /\ call[p].pc = "giveAll"
    BY <2>1 DEF DeleteGive, CallInv, At
  <2>3. x.pc = "giveAll" /\ x.sess = call[p].sess
    BY <1>1, <2>2, CallType DEF Call
  <2>4. RowsGo
    BY <2>1, GoesRestore DEF DeleteGive
  <2> HIDE DEF x
  <2> QED
    BY <1>1, <1>3, <2>2, <2>3, <2>4, ClaimDelete DEF Deleting
<1> QED
  BY <1>2, <1>7, <1>8, <1>9, <1>10, <1>11, <1>12, <1>13, <1>15, <1>16, <1>17
     DEF Proceed

\* A call registers a job for its row, and stops the one registered before.
LEMMA ClaimRegister ==
    ASSUME Parts, FireJobs, OwnInv, OwnInv', KnownInv, ClaimInv, NEW p \in Handlers,
           Armed(p), ~Firing(p), NEW r \in Rows, r = call[p].row,
           NEW s \in Sessions, Register(p, r, s), UNCHANGED <<row, sess, boot>>
    PROVE  ClaimInv'
<1> USE DEF Parts
<1>1. PICK k \in Jobs :
             /\ job[k].pc = "off" /\ job'[k].pc = "fire" /\ job'[k].row = r
             /\ job'[k].sess = s /\ ~job'[k].stopped
             /\ known'[r] = k /\ \A q \in Rows \ {r} : known'[q] = known[q]
             /\ call'[p].pc = "cas" /\ call'[p].row = r
             /\ call'[p].sess = s /\ call'[p].job = k
             /\ Alone(p)
             /\ \A l \in Jobs \ {k} :
                  \/ Copies(job'[l], job[l]) /\ known[r] # l
                  \/ /\ job[l].row = r /\ known[r] = l
                     /\ \/ job'[l] = OffJob
                        \/ /\ job'[l].pc = job[l].pc /\ job'[l].row = r
                           /\ job'[l].sess = job[l].sess
                           /\ job'[l].imm = job[l].imm
  BY RegisterEffect
<1>2. \A l \in Jobs : job[l].row = r => ~Owning(l)
  BY DEF OwnInv, CallOrJob
<1>3. JobsGo
  <2> SUFFICES ASSUME NEW l \in Jobs PROVE JobStill(l) \/ JobOK(l)'
    BY DEF JobsGo
  <2>1. CASE l = k
    BY <1>1, <2>1 DEF JobOK, Owning
  <2>2. CASE l # k /\ Copies(job'[l], job[l])
    BY <2>2 DEF JobStill, Copies
  <2>3. CASE l # k /\ ~Copies(job'[l], job[l])
    <3>1. job[l].row = r /\ (job'[l].pc = "off" \/ job'[l].pc = job[l].pc)
      BY <1>1, <2>3 DEF OffJob
    <3>2. ~Owning(l)'
      BY <1>2, <3>1 DEF Owning
    <3> QED
      BY <3>2 DEF JobOK
  <2> QED
    BY <2>1, <2>2, <2>3
<1>4. ASSUME NEW q \in Handlers \ {p} PROVE CallStill(q)
  <2>1. call'[q] = call[q]
    BY <1>1 DEF Alone
  <2>2. CASE Firing(q)
    <3>1. Armed(q) /\ call[q].job \in Jobs /\ call[q].row \in Rows
      BY <2>2, PcKinds, OwnRows, CallType DEF Firing, FirePcs, Armed, CallKnown
    <3>2. call[q].row # r
      BY <3>1 DEF OwnInv, OneCall
    <3>3. job[call[q].job].pc = "fire" /\ job[call[q].job].row = call[q].row
      BY <2>2 DEF FireJobs
    <3>4. job'[call[q].job].stopped = job[call[q].job].stopped
      BY <1>1, <3>1, <3>2, <3>3 DEF Copies
    <3> QED
      BY <1>1, <2>1, <3>1, <3>2, <3>4 DEF CallStill
  <2> QED
    BY <2>1, <2>2 DEF CallStill
<1>5. Armed(p)' /\ Firing(p)'
  BY <1>1, PcKinds DEF Armed, Firing, FirePcs
<1>6. CallOK(p)'
  <2>1. Gone(r) \/ row[r].phase # "pasting"
    BY DEF ClaimInv, CallOK
  <2>2. "cas" \notin Deleting \cup {"check", "enq", "tell", "gone"}
    BY DEF Deleting
  <2>3. "cas" \notin Richly
    BY RichKinds DEF FirePcs
  <2> QED
    BY <1>1, <2>1, <2>2, <2>3 DEF CallOK, Gone
<1>7. CallsGo
  BY <1>4, <1>6 DEF CallsGo
<1>8. HoldersGo
  <2> SUFFICES ASSUME NEW q \in Rows, Live(q), Holder(q) PROVE Holder(q)'
    BY DEF HoldersGo
  <2>1. CASE q = r
    BY <1>1, <1>5, <2>1 DEF Holder
  <2>2. CASE q # r /\ \E o \in Handlers : Armed(o) /\ call[o].row = q
    BY <1>1, <2>2 DEF Holder, Alone, Armed
  <2>3. CASE q # r /\ \E l \in Jobs : HasJob(l, q)
    <3>1. PICK l \in Jobs : HasJob(l, q)
      BY <2>3
    <3>2. l # k /\ job[l].row = q
      BY <1>1, <3>1 DEF HasJob, Owning
    <3>3. Copies(job'[l], job[l])
      BY <1>1, <2>3, <3>2
    <3>4. HasJob(l, q)'
      BY <1>1, <2>3, <3>1, <3>3 DEF HasJob, Copies, Owning
    <3> QED
      BY <3>4 DEF Holder
  <2> QED
    BY <2>1, <2>2, <2>3 DEF Holder
<1> QED
  BY <1>3, <1>7, <1>8, GoesAlone, ClaimFrame DEF SessLast, BootGoes

LEMMA ClaimRoute ==
    ASSUME Parts, FireJobs, OwnInv, OwnInv', KnownInv, ClaimInv, NEW p \in Handlers,
           Route(p) \/ SendFire(p)
    PROVE  ClaimInv'
<1> USE DEF Parts
<1>1. /\ call[p].row \in Rows /\ call[p].sess \in Sessions
      /\ call[p].pc \in {"route", "made"}
  BY AtRow, RowPcs DEF Route, SendFire, At, Dispatching
<1>2. Armed(p) /\ ~Firing(p)
  BY <1>1 DEF Armed, Owners, Dispatching, Firing
<1>3. PICK r \in Rows : r = call[p].row
  BY <1>1
<1>4. UNCHANGED <<row, sess, boot>>
  BY DEF Route, SendFire, storeVars, sessVars
<1>5. CASE Register(p, r, call[p].sess)
  BY <1>1, <1>2, <1>3, <1>4, <1>5, ClaimRegister
<1>6. CASE Route(p) /\ ~Register(p, r, call[p].sess)
  <2>1. PICK pc \in {"plain", "giveBack", "able"} : Goto(p, pc) /\ UNCHANGED jobVars
    BY <1>3, <1>6 DEF Route
  <2>2. pc \in Owners \ FirePcs
    BY DEF Owners, Dispatching, FirePcs
  <2>3. call'[p].pc = pc /\ call'[p].row = call[p].row /\ Alone(p)
    BY <2>1, GotoFields
  <2>4. CallOK(p) /\ RowStill(r)
    BY <1>4 DEF ClaimInv, RowStill
  <2>5. call[p].pc \in Richly
    BY <1>6 DEF Route, At, Richly
  <2>6. Armed(p)' /\ CallOK(p)'
    BY <1>2, <1>3, <2>2, <2>3, <2>4, <2>5, StillArmed
  <2> QED
    BY <1>4, <2>1, <2>3, <2>6, GoesAlone, ClaimCall DEF SessLast, jobVars
<1>7. CASE SendFire(p) /\ ~Register(p, r, call[p].sess)
  <2>1. Return(p) /\ UNCHANGED jobVars /\ ~Exists(r)
    BY <1>3, <1>7 DEF SendFire
  <2>2. ~Live(r)'
    BY <1>4, <2>1 DEF Live, Claimed, Pending, Exists
  <2> QED
    BY <1>3, <1>4, <2>1, <2>2, ReturnPlain, GoesAlone, ClaimCall DEF SessLast, jobVars
<1> QED
  BY <1>5, <1>6, <1>7

LEMMA ClaimCas ==
    ASSUME Parts, OwnInv, OwnInv', ClaimInv, NEW p \in Handlers, FireCas(p)
    PROVE  ClaimInv'
<1> USE DEF Parts
<1>1. call[p].row \in Rows /\ call[p].pc = "cas" /\ call[p].sess \in Sessions
  BY AtRow, RowPcs DEF FireCas, At, Dispatching
<1>2. Armed(p) /\ Firing(p) /\ {"enq", "check"} \subseteq Owners
  BY <1>1, PcKinds DEF Armed, Firing, FirePcs
<1>3. PICK r \in Rows : r = call[p].row
  BY <1>1
<1>4. UNCHANGED <<sess, boot, known, job>>
  BY DEF FireCas, sessVars, jobVars
<1>5. CallOK(p) /\ row[r].phase \in {"null", "waiting", "pasting"}
  BY RowType DEF ClaimInv, Row
<1>6. Gone(r) \/ (Claimed(r) /\ row[r].phase # "pasting")
  BY <1>2, <1>3, <1>5 DEF CallOK, OwnInv, CallsOwn, Owned
<1>7. ASSUME NEW pc \in {"enq", "check"}, Goto(p, pc),
             row'[r].status = row[r].status,
             row'[r].status = "gone" \/ (Waiting(r))'
      PROVE  Armed(p)' /\ CallOK(p)' /\ call'[p].row = r /\ Alone(p)
  <2>1. /\ call'[p].pc = pc /\ call'[p].row = r /\ Alone(p)
        /\ call'[p].sess = call[p].sess /\ call'[p].job = call[p].job
    BY <1>3, <1>7, GotoFields
  <2>2. {"enq", "check"} \cap (Deleting \cup Richly \cup {"tell", "gone"}) = {}
    BY RichKinds DEF Deleting
  <2>3. row'[r].status = "gone" \/ row'[r].phase # "pasting"
    BY <1>7 DEF Waiting
  <2>4. \/ row'[r].status = "gone" \/ sess'[call[p].sess] = "deleted"
        \/ known'[r] = call[p].job /\ ~job'[call[p].job].stopped
    BY <1>2, <1>3, <1>4, <1>5, <1>7 DEF CallOK, Doomed, Gone
  <2> QED
    BY <1>2, <1>7, <2>1, <2>2, <2>3, <2>4 DEF CallOK, Armed, Firing, Doomed, Gone
<1>8. CASE SetRow(r, [row[r] EXCEPT !.phase = "waiting"]) /\ Goto(p, "enq") /\ Pending(r)
  <2>1. row'[r] = [row[r] EXCEPT !.phase = "waiting"]
    BY <1>8 DEF SetRow, RowInv
  <2>2. /\ row'[r].status = row[r].status /\ row'[r].phase = "waiting"
        /\ row'[r].sess = row[r].sess /\ row'[r].claimed = row[r].claimed
    BY <2>1, RowType DEF Row
  <2>3. Armed(p)' /\ CallOK(p)' /\ call'[p].row = r /\ Alone(p)
    BY <1>7, <1>8, <2>2 DEF Waiting, Pending
  <2>4. RowGoes(r)
    BY <1>6, <1>8, <2>2, <2>3 DEF RowGoes, Claimed, Pending, Gone, Exists
  <2>5. PICK x : x = [row[r] EXCEPT !.phase = "waiting"]
    OBVIOUS
  <2>6. RowsGo
    BY <1>8, <2>4, <2>5, GoesRow
  <2> QED
    BY <1>3, <1>4, <2>3, <2>6, ClaimCall DEF SessLast
<1>9. CASE UNCHANGED row /\ Goto(p, "check") /\ ~(Pending(r) /\ row[r].phase = "null")
  <2>1. row'[r].status = "gone" \/ (Waiting(r))'
    BY <1>5, <1>6, <1>9 DEF Claimed, Waiting, Pending, Gone
  <2>2. Armed(p)' /\ CallOK(p)' /\ call'[p].row = r /\ Alone(p)
    BY <1>7, <1>9, <2>1
  <2> QED
    BY <1>3, <1>4, <1>9, <2>2, GoesAlone, ClaimCall DEF SessLast
<1> QED
  BY <1>3, <1>8, <1>9 DEF FireCas

LEMMA ClaimCheck ==
    ASSUME Parts, FireJobs, OwnInv, OwnInv', ClaimInv, NEW p \in Handlers, FireCheck(p)
    PROVE  ClaimInv'
<1> USE DEF Parts
<1>1. /\ call[p].row \in Rows /\ call[p].pc = "check" /\ call[p].sess \in Sessions
      /\ call[p].job \in Jobs
  BY AtRow, RowPcs DEF FireCheck, At, Dispatching
<1>2. Armed(p) /\ Firing(p) /\ "enq" \in Owners /\ CallOK(p)
  BY <1>1, PcKinds DEF Armed, Firing, FirePcs, ClaimInv
<1>3. PICK r \in Rows, k \in Jobs : r = call[p].row /\ k = call[p].job
  BY <1>1
<1>4. UNCHANGED <<row, sess, boot>>
  BY DEF FireCheck, sessVars, storeVars
<1>5. CASE Goto(p, "enq") /\ UNCHANGED jobVars
  <2>1. /\ call'[p].pc = "enq" /\ call'[p].row = r /\ Alone(p)
        /\ call'[p].sess = call[p].sess /\ call'[p].job = call[p].job
    BY <1>3, <1>5, GotoFields
  <2>2. "enq" \notin Deleting \cup Richly \cup {"tell", "gone"}
    BY RichKinds DEF Deleting
  <2>3. Armed(p)' /\ CallOK(p)'
    BY <1>1, <1>2, <1>3, <1>4, <1>5, <2>1, <2>2 DEF CallOK, Armed, Firing, Doomed,
       Gone, Waiting, Pending, jobVars
  <2> QED
    BY <1>3, <1>4, <1>5, <2>1, <2>3, GoesAlone, ClaimCall DEF SessLast, jobVars
<1>6. CASE ~Waiting(r) /\ Forget(r, k) /\ job' = [job EXCEPT ![k] = OffJob] /\ Return(p)
  <2>1. Gone(r)
    BY <1>1, <1>2, <1>3, <1>6 DEF CallOK
  <2>2. job[k].pc = "fire" /\ job[k].row = r
    BY <1>2, <1>3 DEF FireJobs
  <2>3. job'[k].pc = "off" /\ \A l \in Jobs \ {k} : job'[l] = job[l]
    BY <1>6 DEF JobInv, OffJob
  <2>4. \A q \in Rows \ {r} : known'[q] = known[q]
    BY <1>6 DEF Forget, KnownType
  <2>5. JobsGo
    BY <2>3 DEF JobsGo, JobStill, JobOK, Owning
  <2>6. Alone(p) /\ CallOK(p)'
    BY <1>6, ReturnPlain
  <2>7. ASSUME NEW q \in Handlers \ {p} PROVE CallStill(q)
    <3>1. call'[q] = call[q]
      BY <2>6 DEF Alone
    <3>2. CASE Firing(q)
      <4>1. call[q].job \in Jobs /\ call[q].job # k
        BY <1>2, <1>3, <3>2, CallType DEF FireJobs, Firing, CallKnown
      <4>2. call[q].row \in Rows /\ call[q].row # r
        BY <1>2, <1>3, <3>2, PcKinds, OwnRows DEF OwnInv, OneCall, Armed, Firing,
           FirePcs
      <4> QED
        BY <2>3, <2>4, <3>1, <4>1, <4>2 DEF CallStill
    <3> QED
      BY <3>1, <3>2 DEF CallStill
  <2>8. CallsGo
    BY <2>6, <2>7 DEF CallsGo
  <2>9. HoldersGo
    <3> SUFFICES ASSUME NEW q \in Rows, Live(q), Holder(q) PROVE Holder(q)'
      BY DEF HoldersGo
    <3>1. q # r
      BY <2>1 DEF Live, Claimed, Pending, Gone
    <3>2. CASE \E o \in Handlers : Armed(o) /\ call[o].row = q
      BY <1>3, <2>6, <3>1, <3>2 DEF Holder, Alone, Armed
    <3>3. CASE \E l \in Jobs : HasJob(l, q)
      <4>1. PICK l \in Jobs : HasJob(l, q)
        BY <3>3
      <4>2. l # k
        BY <2>2, <4>1 DEF HasJob, Owning
      <4>3. HasJob(l, q)'
        BY <2>3, <2>4, <3>1, <4>1, <4>2 DEF HasJob, Owning
      <4> QED
        BY <4>3 DEF Holder
    <3> QED
      BY <3>2, <3>3 DEF Holder
  <2> QED
    BY <1>4, <2>5, <2>8, <2>9, GoesAlone, ClaimFrame DEF SessLast, BootGoes
<1> QED
  BY <1>3, <1>5, <1>6 DEF FireCheck

\* The call hands its row to the job it queues.
LEMMA ClaimEnqueue ==
    ASSUME Parts, FireJobs, OwnInv, OwnInv', ClaimInv, NEW p \in Handlers,
           FireEnqueue(p)
    PROVE  ClaimInv'
<1> USE DEF Parts
<1>1. /\ call[p].row \in Rows /\ call[p].pc = "enq" /\ call[p].sess \in Sessions
      /\ call[p].job \in Jobs
  BY AtRow, RowPcs DEF FireEnqueue, At, Dispatching
<1>2. Armed(p) /\ Firing(p) /\ CallOK(p)
  BY <1>1, PcKinds DEF Armed, Firing, FirePcs, ClaimInv
<1>3. PICK r \in Rows, k \in Jobs : r = call[p].row /\ k = call[p].job
  BY <1>1
<1>4. UNCHANGED <<row, sess, boot, known>>
  BY DEF FireEnqueue, sessVars, storeVars
<1>5. /\ job[k].pc = "fire" /\ job[k].row = r /\ job[k].sess = call[p].sess
  BY <1>2, <1>3 DEF FireJobs
<1>6. /\ job'[k].pc = "queued" /\ job'[k].row = r /\ job'[k].sess = call[p].sess
      /\ job'[k].stopped = job[k].stopped
      /\ \A l \in Jobs \ {k} : job'[l] = job[l]
  <2>1. PICK ls : job' = [job EXCEPT ![k].pc = "queued", ![k].ahead = ls]
    BY <1>3 DEF FireEnqueue
  <2>2. job'[k] = [job[k] EXCEPT !.pc = "queued", !.ahead = ls]
        /\ \A l \in Jobs \ {k} : job'[l] = job[l]
    BY <2>1 DEF JobInv
  <2> QED
    BY <1>5, <2>2, JobType DEF Job
<1>7. Alone(p) /\ CallOK(p)'
  BY ReturnPlain DEF FireEnqueue
<1>8. Gone(r) \/ Waiting(r)
  BY <1>1, <1>2, <1>3 DEF CallOK
<1>9. \/ Doomed(r, call[p].sess) \/ (known[r] = k /\ ~job[k].stopped)
  BY <1>2, <1>3 DEF CallOK
<1>10. Owned(call[p])
  BY <1>2 DEF OwnInv, CallsOwn
<1>11. JobOK(k)'
  <2>1. "queued" \notin Late \cup {"paste", "mark", "resolve", "rearm"}
    BY DEF Late
  <2>2. job'[k].stopped => row'[r].status = "gone" \/ sess'[call[p].sess] = "deleted"
    <3>1. CASE Doomed(r, call[p].sess)
      BY <1>4, <3>1 DEF Doomed, Gone
    <3>2. CASE known[r] = k /\ ~job[k].stopped
      BY <1>6, <3>2
    <3> QED
      BY <1>9, <3>1, <3>2
  <2> QED
    BY <1>4, <1>6, <1>8, <2>1, <2>2 DEF JobOK, Gone, Waiting, Pending, Doomed
<1>12. JobsGo
  BY <1>6, <1>11 DEF JobsGo, JobStill
<1>13. ASSUME NEW q \in Handlers \ {p} PROVE CallStill(q)
  <2>1. call'[q] = call[q]
    BY <1>7 DEF Alone
  <2>2. CASE Firing(q)
    <3>1. call[q].job \in Jobs /\ call[q].job # k
      BY <1>2, <1>3, <2>2, CallType DEF FireJobs, Firing, CallKnown
    <3> QED
      BY <1>4, <1>6, <2>1, <3>1 DEF CallStill
  <2> QED
    BY <2>1, <2>2 DEF CallStill
<1>14. CallsGo
  BY <1>7, <1>13 DEF CallsGo
<1>15. HoldersGo
  <2> SUFFICES ASSUME NEW q \in Rows, Live(q), Holder(q) PROVE Holder(q)'
    BY DEF HoldersGo
  <2>1. CASE q = r
    <3>1. ~Doomed(r, call[p].sess)
      BY <1>3, <1>10, <2>1 DEF Doomed, Live, Owned, Gone, Claimed, Pending
    <3>2. HasJob(k, r)'
      BY <1>4, <1>6, <1>9, <3>1 DEF HasJob, Owning
    <3> QED
      BY <2>1, <3>2 DEF Holder
  <2>2. CASE q # r /\ \E o \in Handlers : Armed(o) /\ call[o].row = q
    BY <1>3, <1>7, <2>2 DEF Holder, Alone, Armed
  <2>3. CASE \E l \in Jobs : HasJob(l, q)
    <3>1. PICK l \in Jobs : HasJob(l, q)
      BY <2>3
    <3>2. l # k
      BY <1>5, <3>1 DEF HasJob, Owning
    <3>3. HasJob(l, q)'
      BY <1>4, <1>6, <3>1, <3>2 DEF HasJob, Owning
    <3> QED
      BY <3>3 DEF Holder
  <2> QED
    BY <2>1, <2>2, <2>3 DEF Holder
<1> QED
  BY <1>4, <1>12, <1>14, <1>15, GoesAlone, ClaimFrame DEF SessLast, BootGoes

\* A step of job k for its row.
LEMMA ClaimJob ==
    ASSUME Parts, FireJobs, OwnInv, OwnInv', ClaimInv, NEW k \in Jobs, Owning(k),
           NEW r \in Rows, r = job[k].row, UNCHANGED <<call, sess, boot>>,
           \A l \in Jobs \ {k} : Copies(job'[l], job[l]),
           \A q \in Rows \ {r} : known'[q] = known[q],
           RowsGo, JobOK(k)', ~Live(r)' \/ HasJob(k, r)'
    PROVE  ClaimInv'
<1> USE DEF Parts
<1>1. JobsGo
  BY DEF JobsGo, JobStill, Copies
<1>2. ASSUME NEW p \in Handlers PROVE CallStill(p)
  <2>1. CASE Firing(p)
    <3>1. call[p].job \in Jobs /\ call[p].job # k
      BY <2>1, CallType DEF FireJobs, Firing, CallKnown, Owning
    <3>2. call[p].row \in Rows /\ call[p].row # r
      BY <2>1, PcKinds, OwnRows DEF OwnInv, CallOrJob, Armed, Firing, FirePcs
    <3> QED
      BY <3>1, <3>2 DEF CallStill, Copies
  <2> QED
    BY <2>1 DEF CallStill
<1>3. CallsGo
  BY <1>2 DEF CallsGo
<1>4. HoldersGo
  <2> SUFFICES ASSUME NEW q \in Rows, Live(q)', Holder(q) PROVE Holder(q)'
    BY DEF HoldersGo
  <2>1. CASE q = r
    BY <2>1 DEF Holder
  <2>2. CASE \E p \in Handlers : Armed(p) /\ call[p].row = q
    BY <2>2 DEF Holder, Armed
  <2>3. CASE q # r /\ \E l \in Jobs : HasJob(l, q)
    <3>1. PICK l \in Jobs : HasJob(l, q)
      BY <2>3
    <3>2. l # k
      BY <2>3, <3>1 DEF HasJob
    <3>3. Copies(job'[l], job[l]) /\ known'[q] = known[q]
      BY <2>3, <3>2
    <3>4. HasJob(l, q)'
      BY <3>1, <3>3 DEF HasJob, Owning, Copies
    <3> QED
      BY <3>4 DEF Holder
  <2> QED
    BY <2>1, <2>2, <2>3 DEF Holder
<1> QED
  BY <1>1, <1>3, <1>4, ClaimFrame DEF SessLast, BootGoes

\* Job k is done with a row that is not claimed any more, or of a session that
\* is gone.
LEMMA ClaimEnd ==
    ASSUME Parts, FireJobs, OwnInv, OwnInv', ClaimInv, NEW k \in Jobs, Owning(k),
           NEW r \in Rows, r = job[k].row, UNCHANGED <<call, sess, boot>>,
           \A l \in Jobs \ {k} : Copies(job'[l], job[l]),
           job'[k].pc = "off", Forget(r, k), RowsGo, ~Live(r)'
    PROVE  ClaimInv'
<1>1. \A q \in Rows \ {r} : known'[q] = known[q]
  BY DEF Forget, Parts, KnownType
<1>2. JobOK(k)'
  BY DEF JobOK, Owning
<1> QED
  BY <1>1, <1>2, ClaimJob

LEMMA DeadEnd ==
    ASSUME Parts, OwnInv, ClaimInv, NEW k \in Jobs, Owning(k),
           NEW r \in Rows, r = job[k].row, UNCHANGED <<row, sess>>,
           Gone(r) \/ sess[job[k].sess] = "deleted" \/ job[k].stopped
    PROVE  ~Live(r)' /\ RowsGo
<1>1. Doomed(r, job[k].sess)
  BY DEF ClaimInv, JobOK, Doomed
<1>2. ~Live(r)'
  BY <1>1 DEF Doomed, Gone, Live, Claimed, Pending, OwnInv, JobsOwn, Owned
<1> QED
  BY <1>2, GoesAlone

\* Job k goes on to pc, and its row stays as it is.
LEMMA ClaimTurn ==
    ASSUME Parts, FireJobs, OwnInv, OwnInv', ClaimInv, NEW k \in Jobs, Owning(k),
           NEW r \in Rows, r = job[k].row, UNCHANGED <<row, call, sess, boot>>,
           JobTurns(k),
           \/ job'[k].pc = "fail"
           \/ job'[k].pc \in {"tick", "cas", "rearm", "resolve"} /\ job[k].pc \notin Late
           \/ job'[k].pc = "mark" /\ job[k].pc = "paste",
           job'[k].pc = "resolve" => job'[k].imm = row[r].imm,
           job'[k].pc = "rearm" => Gone(r) \/ ~row[r].imm
    PROVE  ClaimInv'
<1>1. Doomed(r, job[k].sess) \/ ~job[k].stopped
  BY DEF ClaimInv, JobOK
<1>2. /\ job'[k].row = r /\ job'[k].sess = job[k].sess
      /\ job'[k].stopped = job[k].stopped /\ UNCHANGED known
  BY DEF JobTurns
<1>3. /\ job'[k].pc \notin Late => Gone(r) \/ Waiting(r)
      /\ job'[k].pc \in {"paste", "mark"} => Gone(r) \/ row[r].phase = "pasting"
      /\ job'[k].stopped => Doomed(r, job[k].sess)
  BY <1>1, <1>2 DEF ClaimInv, JobOK, Late
<1>4. JobOK(k)'
  BY <1>2, <1>3 DEF JobOK, Gone, Waiting, Pending, Doomed
<1>5. ~Live(r)' \/ HasJob(k, r)'
  <2>1. CASE Holder(r)
    <3>1. HasJob(k, r)
      BY <2>1 DEF Holder, HasJob, OwnInv, CallOrJob, OneJob
    <3>2. job[k].pc \in Late => job'[k].pc \in Late
      BY DEF Late
    <3> QED
      BY <1>2, <3>1, <3>2 DEF HasJob, JobTurns, Owning
  <2>2. CASE ~Holder(r) /\ boot = "up"
    <3>1. ~Live(r)
      BY <2>2 DEF ClaimInv
    <3> QED
      BY <3>1 DEF Live, Claimed, Pending
  <2>3. CASE boot # "up"
    BY <2>3 DEF OwnInv, BootQuiet, Owning
  <2> QED
    BY <2>1, <2>2, <2>3
<1>6. \A l \in Jobs \ {k} : Copies(job'[l], job[l])
  BY DEF JobTurns, Copies
<1> QED
  BY <1>2, <1>4, <1>5, <1>6, GoesAlone, ClaimJob

LEMMA ClaimWork ==
    ASSUME Parts, FireJobs, OwnInv, OwnInv', ClaimInv, NEW k \in Jobs,
           WorkerNext(k) \/ Work(k) \/ TickTimeout(k)
    PROVE  ClaimInv'
<1> USE DEF Parts
<1>1. Owning(k) /\ UNCHANGED <<call, sess, boot>>
  BY DEF WorkerNext, Work, TickTimeout, TickRead, TickResolve, JobRearm, JobFail,
         DeliverCas, DeliverPaste, DeliverMark, InJob, Owning, sessVars
<1>2. PICK r \in Rows : r = job[k].row
  BY <1>1, OwnRows
<1>3. JobOK(k) /\ Owned(job[k])
  BY <1>1 DEF ClaimInv, OwnInv, JobsOwn
<1>4. ASSUME EndJob(k)
      PROVE  /\ job'[k].pc = "off" /\ Forget(r, k)
             /\ \A l \in Jobs \ {k} : Copies(job'[l], job[l])
  BY <1>2, <1>4 DEF EndJob, JobInv, OffJob, Copies
<1>5. ASSUME EndJob(k), UNCHANGED row,
             Gone(r) \/ sess[job[k].sess] = "deleted" \/ job[k].stopped
      PROVE  ClaimInv'
  BY <1>1, <1>2, <1>4, <1>5, DeadEnd, ClaimEnd
<1>6. ASSUME EndJob(k), Exists(r), NEW x, SetRow(r, x),
             x = Failed(row[r]) \/ x = Sent(row[r]) \/ x = Unclaimed(row[r])
      PROVE  ClaimInv'
  <2>1. RowsGo /\ ~Live(r)'
    BY <1>6, GoesFree
  <2> QED
    BY <1>1, <1>2, <1>4, <1>6, <2>1, ClaimEnd
<1>7. ASSUME NEW pc \in {"fail", "rearm", "cas", "tick", "mark"}, JobGoto(k, pc),
             UNCHANGED <<row, known>>,
             pc = "rearm" => Gone(r) \/ ~row[r].imm,
             pc = "mark" => job[k].pc = "paste",
             pc \in {"rearm", "cas", "tick"} => job[k].pc \notin Late
      PROVE  ClaimInv'
  <2>1. JobTurns(k) /\ job'[k].pc = pc
    BY <1>7, GotoTurns
  <2> QED
    BY <1>1, <1>2, <1>7, <2>1, ClaimTurn
<1>8. CASE WorkerNext(k)
  <2>1. /\ job[k].pc = "queued" /\ \A l \in Jobs \ {k} : Copies(job'[l], job[l])
        /\ \/ /\ job[k].stopped /\ job'[k] = OffJob /\ Forget(r, k)
           \/ /\ ~job[k].stopped /\ job'[k] = [job[k] EXCEPT !.pc = "tick"]
              /\ UNCHANGED known
    BY <1>2, <1>8, NextKinds
  <2>2. UNCHANGED row
    BY <1>8 DEF WorkerNext, storeVars
  <2>3. CASE job[k].stopped
    <3>1. RowsGo /\ ~Live(r)'
      BY <1>1, <1>2, <2>2, <2>3, DeadEnd
    <3>2. job'[k].pc = "off"
      BY <2>1, <2>3 DEF OffJob
    <3> QED
      BY <1>1, <1>2, <2>1, <2>3, <3>1, <3>2, ClaimEnd
  <2>4. CASE ~job[k].stopped
    <3>1. /\ job'[k].pc = "tick" /\ job'[k].row = r /\ job'[k].sess = job[k].sess
          /\ job'[k].stopped = job[k].stopped
      BY <1>2, <2>1, <2>4, JobType DEF Job
    <3>2. Gone(r) \/ Waiting(r)
      BY <1>1, <1>2, <1>3, <2>1 DEF JobOK, Late
    <3>3. "tick" \notin Late \cup {"paste", "mark", "resolve", "rearm"}
          /\ "queued" \notin Late
      BY DEF Late
    <3>4. JobOK(k)'
      BY <2>2, <2>4, <3>1, <3>2, <3>3 DEF JobOK, Gone, Waiting, Pending
    <3>5. ~Live(r)' \/ HasJob(k, r)'
      <4>1. CASE Holder(r)
        <5>1. HasJob(k, r)
          BY <1>1, <1>2, <4>1 DEF Holder, HasJob, OwnInv, CallOrJob, OneJob
        <5> QED
          BY <2>1, <2>4, <3>1, <3>3, <5>1 DEF HasJob, Owning
      <4>2. CASE ~Holder(r)
        BY <1>1, <1>8, <2>2, <4>2 DEF WorkerNext, ClaimInv, Live, Claimed, Pending
      <4> QED
        BY <4>1, <4>2
    <3>6. UNCHANGED known
      BY <2>1, <2>4
    <3> QED
      BY <1>1, <1>2, <2>1, <2>2, <3>4, <3>5, <3>6, GoesAlone, ClaimJob
  <2> QED
    BY <2>3, <2>4
<1>9. CASE TickRead(k)
  <2>1. job[k].pc = "tick" /\ UNCHANGED row
    BY <1>9 DEF TickRead, InJob, storeVars
  <2>2. Gone(r) \/ (Waiting(r) /\ row[r].sess = job[k].sess)
    BY <1>1, <1>2, <1>3, <2>1 DEF JobOK, Late, Owned, Gone
  <2>3. CASE EndJob(k) /\ (job[k].stopped \/ ~(Waiting(r) /\ row[r].sess = job[k].sess))
    BY <1>5, <2>1, <2>2, <2>3
  <2>4. CASE ~(EndJob(k) /\ (job[k].stopped \/ ~(Waiting(r) /\ row[r].sess = job[k].sess)))
    <3>1. PICK h : /\ job' = [job EXCEPT ![k].pc = "resolve", ![k].held = h,
                                         ![k].imm = row[r].imm]
                   /\ UNCHANGED known
      BY <1>2, <1>9, <2>4 DEF TickRead
    <3>2. job'[k] = [job[k] EXCEPT !.pc = "resolve", !.held = h, !.imm = row[r].imm]
          /\ \A l \in Jobs \ {k} : job'[l] = job[l]
      BY <3>1 DEF JobInv
    <3>3. /\ job'[k].pc = "resolve" /\ job'[k].row = job[k].row
          /\ job'[k].sess = job[k].sess /\ job'[k].stopped = job[k].stopped
          /\ job'[k].imm = row[r].imm
      BY <3>2, JobType DEF Job
    <3>4. JobTurns(k)
      BY <3>1, <3>2, <3>3 DEF JobTurns
    <3> QED
      BY <1>1, <1>2, <2>1, <3>3, <3>4, ClaimTurn DEF Late
  <2> QED
    BY <2>3, <2>4
<1>10. CASE TickTimeout(k)
  BY <1>7, <1>10 DEF TickTimeout, storeVars
<1>11. CASE TickResolve(k)
  <2>1. job[k].pc = "resolve" /\ UNCHANGED row
    BY <1>11 DEF TickResolve, InJob, storeVars
  <2>2. Gone(r) \/ job[k].imm = row[r].imm
    BY <1>1, <1>2, <1>3, <2>1 DEF JobOK
  <2>3. CASE EndJob(k) /\ (sess[job[k].sess] = "deleted" \/ job[k].stopped)
    BY <1>5, <2>1, <2>3
  <2>4. CASE ~(EndJob(k) /\ (sess[job[k].sess] = "deleted" \/ job[k].stopped))
    <3>1. \E pc \in {"fail", "rearm", "cas", "tick"} :
             /\ JobGoto(k, pc) /\ UNCHANGED known
             /\ pc = "rearm" => ~job[k].imm
      <4>1. CASE JobGoto(k, IF sess[job[k].sess] = "archived" THEN "fail"
                            ELSE IF chan[job[k].sess] = "json"
                            THEN IF job[k].imm THEN "fail" ELSE "rearm"
                            ELSE "cas") /\ UNCHANGED known
        BY <4>1
      <4>2. CASE \E pc \in {"tick", "fail"} : JobGoto(k, pc) /\ UNCHANGED known
        BY <4>2
      <4> QED
        BY <1>11, <2>4, <4>1, <4>2 DEF TickResolve
    <3> QED
      BY <1>7, <2>1, <2>2, <3>1 DEF Late
  <2> QED
    BY <2>3, <2>4
<1>12. CASE JobRearm(k)
  <2>1. job[k].pc = "rearm" /\ EndJob(k)
    BY <1>12 DEF JobRearm, InJob
  <2>2. Gone(r) \/ Rearmable(r)
    BY <1>1, <1>2, <1>3, <2>1 DEF JobOK, Late, Rearmable
  <2>3. CASE Rearmable(r)
    BY <1>2, <1>6, <1>12, <2>1, <2>3 DEF JobRearm, Rearmable, Waiting, Pending, Exists
  <2>4. CASE ~Rearmable(r)
    BY <1>2, <1>5, <1>12, <2>1, <2>2, <2>4 DEF JobRearm
  <2> QED
    BY <2>3, <2>4
<1>13. CASE JobFail(k)
  <2>1. EndJob(k) /\ (Gone(r) \/ Claimed(r))
    BY <1>2, <1>3, <1>13 DEF JobFail, Owned
  <2>2. CASE Claimed(r)
    BY <1>2, <1>6, <1>13, <2>1, <2>2 DEF JobFail, Claimed, Pending, Exists
  <2>3. CASE ~Claimed(r)
    BY <1>2, <1>5, <1>13, <2>1, <2>3 DEF JobFail
  <2> QED
    BY <2>2, <2>3
<1>14. CASE DeliverMark(k)
  <2>1. job[k].pc = "mark" /\ EndJob(k)
    BY <1>14 DEF DeliverMark, InJob
  <2>2. Gone(r) \/ (Pending(r) /\ row[r].phase = "pasting")
    BY <1>1, <1>2, <1>3, <2>1 DEF JobOK, Owned, Claimed
  <2>3. CASE Pending(r) /\ row[r].phase = "pasting"
    BY <1>2, <1>6, <1>14, <2>1, <2>3 DEF DeliverMark, Pending, Exists
  <2>4. CASE ~(Pending(r) /\ row[r].phase = "pasting")
    BY <1>2, <1>5, <1>14, <2>1, <2>2, <2>4 DEF DeliverMark
  <2> QED
    BY <2>3, <2>4
<1>15. CASE DeliverPaste(k)
  <2>1. job[k].pc = "paste" /\ UNCHANGED <<row, known>>
    BY <1>15 DEF DeliverPaste, InJob, storeVars
  <2> QED
    BY <1>7, <1>15, <2>1 DEF DeliverPaste
<1>16. CASE DeliverCas(k)
  <2>1. job[k].pc = "cas"
    BY <1>16 DEF DeliverCas, InJob
  <2>2. Gone(r) \/ Waiting(r)
    BY <1>1, <1>2, <1>3, <2>1 DEF JobOK, Late
  <2>3. CASE ~Waiting(r)
    BY <1>2, <1>5, <1>16, <2>2, <2>3 DEF DeliverCas
  <2>4. CASE Waiting(r)
    <3>1. /\ SetRow(r, [row[r] EXCEPT !.phase = "pasting"])
          /\ JobGoto(k, "paste") /\ UNCHANGED known
      BY <1>2, <1>16, <2>4 DEF DeliverCas
    <3>2. JobTurns(k) /\ job'[k].pc = "paste"
      BY <3>1, GotoTurns
    <3>3. row'[r] = [row[r] EXCEPT !.phase = "pasting"]
      BY <3>1 DEF SetRow, RowInv
    <3>4. /\ row'[r].status = row[r].status /\ row'[r].phase = "pasting"
          /\ row'[r].sess = row[r].sess /\ row'[r].claimed = row[r].claimed
      BY <3>3, RowType DEF Row
    <3>5. Claimed(r)
      BY <1>2, <1>3, <2>4 DEF Owned, Gone, Waiting, Pending
    <3>6. "paste" \in Late /\ "paste" \notin {"mark", "resolve", "rearm", "off", "fire"}
      BY DEF Late
    <3>7. HasJob(k, r)'
      BY <1>2, <3>2, <3>6 DEF HasJob, JobTurns, Owning
    <3>8. JobOK(k)'
      <4>1. job'[k].stopped => row'[r].status = "gone" \/ sess'[job[k].sess] = "deleted"
        BY <1>1, <1>2, <1>3, <3>2, <3>4 DEF JobOK, JobTurns, Doomed, Gone
      <4> QED
        BY <1>2, <3>2, <3>4, <3>6, <4>1 DEF JobOK, JobTurns, Doomed, Gone
    <3>9. RowGoes(r)
      BY <3>4, <3>5, <3>7, <3>8 DEF RowGoes, Claimed, Pending, Gone, Exists
    <3>10. PICK x : x = [row[r] EXCEPT !.phase = "pasting"]
      OBVIOUS
    <3>11. RowsGo
      BY <3>1, <3>9, <3>10, GoesRow
    <3>12. /\ \A l \in Jobs \ {k} : Copies(job'[l], job[l])
           /\ \A q \in Rows \ {r} : known'[q] = known[q]
      BY <3>1, <3>2 DEF JobTurns, Copies
    <3> QED
      BY <1>1, <1>2, <3>7, <3>8, <3>11, <3>12, ClaimJob
  <2> QED
    BY <2>3, <2>4
<1> QED
  BY <1>8, <1>9, <1>10, <1>11, <1>12, <1>13, <1>14, <1>15, <1>16 DEF Work

Halts(l, rs) ==
    /\ job[l].row \in rs
    /\ \/ job'[l] = OffJob
       \/ /\ job'[l].pc = job[l].pc /\ job'[l].row = job[l].row
          /\ job'[l].sess = job[l].sess /\ job'[l].imm = job[l].imm

LEMMA StopHalts ==
    ASSUME Parts, KnownInv, NEW rs, rs \subseteq Rows, StopJobs(rs), NEW l \in Jobs
    PROVE  Copies(job'[l], job[l]) \/ Halts(l, rs)
<1>1. PICK ks : ks = {known[r] : r \in rs} \ {None}
  OBVIOUS
<1>2. job'[l] = Stopped(ks, job)[l]
  BY <1>1 DEF StopJobs
<1>3. PICK y : y = job'[l]
  OBVIOUS
<1>4. y = Stopped(ks, job)[l]
  BY <1>2, <1>3
<1>5. \/ Copies(y, job[l]) /\ \A q \in rs : known[q] # l
      \/ /\ job[l].row \in rs /\ known[job[l].row] = l
         /\ \/ y = OffJob
            \/ /\ y.pc = job[l].pc /\ y.row = job[l].row
               /\ y.sess = job[l].sess /\ y.imm = job[l].imm
  <2>1. /\ (l \in ks) <=> (\E r \in rs : known[r] = l)
        /\ l \in ks => job[l].row \in rs /\ known[job[l].row] = l
    BY <1>1, StopFinds
  <2> QED
    BY <1>4, <2>1, StopEffect
<1> QED
  BY <1>3, <1>5 DEF Halts

\* The jobs of rows rs are stopped; each of them is gone, or of a session that is.
LEMMA ClaimStops ==
    ASSUME Parts, FireJobs, OwnInv, OwnInv', KnownInv, ClaimInv, NEW p \in Handlers,
           NEW rs, rs \subseteq Rows, StopJobs(rs), Alone(p), CallOK(p)', ~Armed(p),
           UNCHANGED <<row, sess, boot>>,
           \A r \in rs : Gone(r) \/ (Exists(r) /\ sess[row[r].sess] = "deleted")
    PROVE  ClaimInv'
<1> USE DEF Parts
<1>1. ASSUME NEW l \in Jobs PROVE Copies(job'[l], job[l]) \/ Halts(l, rs)
  BY StopHalts
<1>2. \A r \in Rows \ rs : known'[r] = known[r]
  BY StopKnown
<1>3. ASSUME NEW x, x.row \in rs, Owned(x) PROVE Doomed(x.row, x.sess)
  BY <1>3 DEF Owned, Doomed, Gone
<1>4. JobsGo
  <2> SUFFICES ASSUME NEW l \in Jobs, ~Copies(job'[l], job[l]) PROVE JobOK(l)'
    BY DEF JobsGo, JobStill, Copies
  <2>1. CASE job'[l].pc = "off"
    BY <2>1 DEF JobOK, Owning
  <2>2. CASE job'[l].pc # "off" /\ Owning(l)
    <3>1. /\ job[l].row \in rs /\ job'[l].pc = job[l].pc /\ job'[l].row = job[l].row
          /\ job'[l].sess = job[l].sess /\ job'[l].imm = job[l].imm
      BY <1>1, <2>2 DEF Halts, OffJob
    <3>2. PICK r \in Rows : r = job[l].row
      BY <3>1
    <3>3. Doomed(r, job[l].sess)
      BY <1>3, <2>2, <3>1, <3>2 DEF OwnInv, JobsOwn
    <3>4. JobOK(l)
      BY DEF ClaimInv
    <3> QED
      BY <2>2, <3>1, <3>2, <3>3, <3>4 DEF JobOK, Doomed, Gone, Waiting, Pending, Owning
  <2>3. CASE ~Owning(l)
    <3>1. ~Owning(l)'
      BY <1>1, <2>3 DEF Owning, Halts, Copies, OffJob
    <3> QED
      BY <3>1 DEF JobOK
  <2> QED
    BY <2>1, <2>2, <2>3
<1>5. ASSUME NEW q \in Handlers \ {p} PROVE CallStill(q) \/ CallOK(q)'
  <2>1. call'[q] = call[q] /\ CallOK(q)
    BY DEF Alone, ClaimInv
  <2>2. CASE ~Firing(q)
    BY <2>1, <2>2 DEF CallStill
  <2>3. CASE Firing(q)
    <3>1. Armed(q) /\ call[q].job \in Jobs /\ call[q].row \in Rows
      BY <2>3, PcKinds, OwnRows, CallType DEF Firing, FirePcs, Armed, CallKnown
    <3>2. PICK r \in Rows, l \in Jobs : r = call[q].row /\ l = call[q].job
      BY <3>1
    <3>3. job[l].row = r /\ job[l].pc = "fire"
      BY <2>3, <3>2 DEF FireJobs
    <3>4. CASE r \notin rs
      <4>1. Copies(job'[l], job[l]) /\ known'[r] = known[r]
        BY <1>1, <1>2, <3>3, <3>4 DEF Halts
      <4> QED
        BY <2>1, <3>2, <4>1 DEF CallStill, Copies
    <3>5. CASE r \in rs
      <4>1. Doomed(r, call[q].sess)
        BY <1>3, <3>1, <3>2, <3>5 DEF OwnInv, CallsOwn
      <4>2. call[q].pc \notin Deleting \cup {"tell", "gone"}
        BY <2>3 DEF Firing, Deleting
      <4> QED
        BY <2>1, <2>3, <3>1, <3>2, <4>1, <4>2 DEF CallOK, Firing, Armed, Doomed, Gone,
           Waiting, Pending
    <3> QED
      BY <3>4, <3>5
  <2> QED
    BY <2>2, <2>3
<1>6. CallsGo
  BY <1>5 DEF CallsGo
<1>7. HoldersGo
  <2> SUFFICES ASSUME NEW q \in Rows, Live(q), Holder(q) PROVE Holder(q)'
    BY DEF HoldersGo
  <2>1. q \notin rs
    BY DEF Live, Claimed, Pending, Gone
  <2>2. CASE \E o \in Handlers : Armed(o) /\ call[o].row = q
    BY <2>2 DEF Holder, Alone, Armed
  <2>3. CASE \E l \in Jobs : HasJob(l, q)
    <3>1. PICK l \in Jobs : HasJob(l, q)
      BY <2>3
    <3>2. Copies(job'[l], job[l]) /\ known'[q] = known[q]
      BY <1>1, <1>2, <2>1, <3>1 DEF HasJob, Halts
    <3>3. HasJob(l, q)'
      BY <3>1, <3>2 DEF HasJob, Copies, Owning
    <3> QED
      BY <3>3 DEF Holder
  <2> QED
    BY <2>2, <2>3 DEF Holder
<1> QED
  BY <1>4, <1>6, <1>7, GoesAlone, ClaimFrame DEF SessLast, BootGoes

LEMMA ClaimTell ==
    ASSUME Parts, FireJobs, OwnInv, OwnInv', KnownInv, ClaimInv, NEW p \in Handlers,
           CancelTell(p) \/ DeleteGone(p)
    PROVE  ClaimInv'
<1> USE DEF Parts
<1>1. CallOK(p) /\ UNCHANGED <<row, sess, boot>>
  BY DEF ClaimInv, CancelTell, DeleteGone, storeVars, sessVars
<1>2. CASE CancelTell(p)
  <2>1. call[p].row \in Rows /\ call[p].pc = "tell"
    BY <1>2, AtRow, RowPcs DEF CancelTell, At
  <2>2. PICK rs : rs = {call[p].row}
    OBVIOUS
  <2>3. StopJobs(rs) /\ rs \subseteq Rows /\ \A r \in rs : Gone(r)
    BY <1>1, <1>2, <2>1, <2>2 DEF CancelTell, CallOK
  <2>4. Alone(p) /\ CallOK(p)' /\ ~Armed(p)
    BY <1>2, <2>1, ReturnPlain DEF CancelTell, Armed, Owners, Dispatching
  <2> QED
    BY <1>1, <2>3, <2>4, ClaimStops
<1>3. CASE DeleteGone(p)
  <2>1. /\ call[p].pc = "gone" /\ call[p].todo \subseteq Rows
        /\ call[p].sess \in Sessions /\ "gone" \in Deleting \ Owners
    BY <1>3, CallType DEF DeleteGone, At, Call, CallKnown, Deleting, Owners, Dispatching
  <2>2. /\ StopJobs(call[p].todo)
        /\ \A r \in call[p].todo : Gone(r) \/ (Exists(r) /\ sess[row[r].sess] = "deleted")
    BY <1>1, <1>3, <2>1 DEF DeleteGone, CallOK
  <2>3. call'[p] = Begin("purge", None, call[p].sess) /\ Alone(p) /\ ~Armed(p)
    BY <1>3, <2>1 DEF DeleteGone, CallInv, Alone, Armed
  <2>4. call'[p].pc = "purge" /\ call'[p].sess = call[p].sess
    BY <2>3 DEF Begin, OffCall
  <2>5. sess'[call[p].sess] = "deleted"
    BY <1>1, <2>1 DEF CallOK
  <2>6. "purge" \notin Owners \cup {"check", "enq", "cas", "tell", "gone"}
    BY DEF Owners, Dispatching
  <2>7. CallOK(p)'
    BY <2>4, <2>5, <2>6, RichKinds DEF CallOK, Armed, Firing
  <2> QED
    BY <1>1, <2>1, <2>2, <2>3, <2>7, ClaimStops
<1> QED
  BY <1>2, <1>3

\* A step that leaves calls and jobs alone.
LEMMA ClaimQuiet ==
    ASSUME Parts, OwnInv', ClaimInv, UNCHANGED <<call, job, known, sess>>, RowsGo,
           BootGoes
    PROVE  ClaimInv'
<1>1. CallsGo /\ JobsGo /\ SessLast
  BY DEF CallsGo, CallStill, JobsGo, JobStill, SessLast
<1>2. HoldersGo
  BY DEF HoldersGo, Holder, HasJob, Owning, Armed
<1> QED
  BY <1>1, <1>2, ClaimFrame

LEMMA ClaimBoot ==
    ASSUME Parts, OwnInv', ClaimInv, Boot
    PROVE  ClaimInv'
<1> USE DEF Parts
<1>1. UNCHANGED <<call, job, known, sess>>
  BY DEF Boot, BootHold, BootGive, BootNext, BootRecover, jobVars, sessVars
<1>2. CASE BootRecover
  <2> DEFINE lost == {r \in Rows : Exists(r) /\ sess[row[r].sess] = "deleted"}
             back == {r \in Rows \ lost : Claimed(r)}
  <2>1. row' = [r \in Rows |-> IF r \in lost THEN Blank("gone")
                               ELSE IF r \in back THEN Recovered(row[r])
                               ELSE row[r]]
    BY <1>2 DEF BootRecover
  <2>2. ASSUME NEW r \in Rows PROVE RowGoes(r) /\ ~Claimed(r)'
    <3>1. CASE r \in lost
      <4>1. row'[r].status = "gone"
        BY <2>1, <3>1 DEF Blank
      <4> QED
        BY <4>1 DEF RowGoes, Gone, Claimed, Pending
    <3>2. CASE r \in back
      <4>1. row'[r] = Failed(row[r]) \/ row'[r] = Unclaimed(row[r])
        BY <2>1, <3>2 DEF Recovered
      <4>2. /\ ~row'[r].claimed /\ row'[r].phase = "null"
            /\ row'[r].sess = row[r].sess
            /\ row'[r].status \in {"failed", row[r].status}
        BY <4>1, RowType DEF Failed, Unclaimed, Row
      <4> QED
        BY <3>2, <4>2 DEF RowGoes, Claimed, Pending, RowOK, Exists, Gone
    <3>3. CASE r \notin lost \cup back
      <4>1. row'[r] = row[r]
        BY <2>1, <3>3
      <4>2. ~Claimed(r)
        BY <3>3
      <4> QED
        BY <4>1, <4>2 DEF RowGoes, RowStill, Claimed, Pending
    <3> QED
      BY <3>1, <3>2, <3>3
  <2>3. RowsGo /\ BootGoes
    BY <2>2 DEF RowsGo, BootGoes
  <2> QED
    BY <1>1, <2>3, ClaimQuiet
<1>3. CASE BootNext
  <2>1. UNCHANGED row /\ boot' # "up"
    BY <1>3 DEF BootNext, storeVars
  <2> QED
    BY <1>1, <2>1, GoesAlone, ClaimQuiet DEF BootGoes
<1>4. CASE \E r \in Rows : BootHold(r) \/ BootGive(r)
  <2>1. PICK r \in Rows : BootHold(r) \/ BootGive(r)
    BY <1>4
  <2>2. UNCHANGED row \/ RestoreHold(r) \/ RestoreRow(r, row[r].snap)
    BY <2>1 DEF BootHold, BootGive
  <2>3. RowsGo /\ UNCHANGED boot
    BY <2>1, <2>2, GoesAlone, GoesRestore DEF BootHold, BootGive
  <2> QED
    BY <1>1, <2>3, ClaimQuiet DEF BootGoes
<1> QED
  BY <1>2, <1>3, <1>4 DEF Boot

LEMMA ClaimOther ==
    ASSUME Parts, OwnInv', ClaimInv,
           \/ \E t \in told : Observe(t)
           \/ \E t \in turns : TurnPersist(t) \/ TurnWithdraw(t) \/ TurnSettle(t)
    PROVE  ClaimInv'
<1> USE DEF Parts
<1>1. CASE \E t \in told : Observe(t)
  <2>1. PICK t \in told : Observe(t)
    BY <1>1
  <2>2. t.row \in Rows
    BY <2>1 DEF Rest, Task
  <2>3. PICK r \in Rows : r = t.row
    BY <2>2
  <2>4. UNCHANGED <<call, job, known, sess, boot>>
    BY <2>1 DEF Observe, ObserverStart, ObserverRestore, ObserverMark, ObserverDrop,
       jobVars, sessVars
  <2>5. \/ UNCHANGED row \/ RestoreRow(r, t.held)
        \/ SetRow(r, [row[r] EXCEPT !.pay = "restored"])
        \/ SetRow(r, Blank("gone"))
    BY <2>1, <2>3 DEF Observe, ObserverStart, ObserverRestore, ObserverMark,
       ObserverDrop, storeVars
  <2>6. RowsGo
    BY <2>5, GoesAlone, GoesRestore, GoesPay, GoesGone
  <2> QED
    BY <2>4, <2>6, ClaimQuiet DEF BootGoes
<1>2. CASE \E t \in turns : TurnPersist(t) \/ TurnWithdraw(t) \/ TurnSettle(t)
  <2>1. PICK t \in turns : TurnPersist(t) \/ TurnWithdraw(t) \/ TurnSettle(t)
    BY <1>2
  <2>2. t.row \in Rows
    BY <2>1 DEF Rest, Turn
  <2>3. UNCHANGED <<call, job, known, sess, boot>>
    BY <2>1 DEF TurnPersist, TurnWithdraw, TurnSettle, jobVars, sessVars
  <2>4. UNCHANGED row \/ RestoreHold(t.row)
    BY <2>1 DEF TurnPersist, TurnWithdraw, TurnSettle, storeVars
  <2>5. RowsGo
    BY <2>2, <2>4, GoesAlone, GoesRestore
  <2> QED
    BY <2>3, <2>5, ClaimQuiet DEF BootGoes
<1> QED
  BY <1>1, <1>2

LEMMA ClaimCrash ==
    ASSUME Parts, OwnInv', ClaimInv, Crash
    PROVE  ClaimInv'
<1>1. /\ \A p \in Handlers : call'[p].pc = "off"
      /\ \A k \in Jobs : job'[k].pc = "off"
      /\ UNCHANGED <<row, sess>> /\ boot' # "up"
  BY DEF Crash, OffCall, OffJob, storeVars, sessVars
<1>2. CallsGo
  BY <1>1, PlainCall DEF CallsGo, Plainly
<1>3. JobsGo
  BY <1>1 DEF JobsGo, JobOK, Owning
<1> QED
  BY <1>1, <1>2, <1>3, GoesAlone, ClaimFrame DEF SessLast, HoldersGo, BootGoes

LEMMA ClaimStep ==
    ASSUME Parts, FireJobs, OwnInv, OwnInv', KnownInv, ClaimInv, "reset" \notin Ops,
           [Next]_vars
    PROVE  ClaimInv'
<1>1. CASE UNCHANGED vars
  <2>1. UNCHANGED <<row, call, job, known, sess, boot>>
    BY <1>1 DEF vars, storeVars, jobVars, sessVars
  <2> QED
    BY <2>1, GoesAlone, ClaimQuiet DEF BootGoes
<1>2. ASSUME NEW r \in Rows, Poll(r) PROVE ClaimInv'
  BY <1>2, ClaimClaim DEF Poll, Handlers, At, Claim
<1>3. ASSUME NEW p \in Callers, Request(p) PROVE ClaimInv'
  BY <1>3, ClaimRequest
<1>4. ASSUME NEW p \in Callers, Proceed(p) PROVE ClaimInv'
  BY <1>4, CallerIsHandler, ClaimProceed, ClaimTell
<1>5. ASSUME NEW p \in Handlers, Fire(p) \/ Route(p) PROVE ClaimInv'
  BY <1>5, ClaimRoute, ClaimCas, ClaimCheck, ClaimEnqueue DEF Fire
<1>6. ASSUME NEW p \in Handlers, Json(p) \/ JsonTimeout(p) PROVE ClaimInv'
  BY <1>6, ClaimJson
<1>7. ASSUME NEW k \in Jobs, WorkerNext(k) \/ Work(k) \/ TickTimeout(k)
      PROVE  ClaimInv'
  BY <1>7, ClaimWork
<1> QED
  BY <1>1, <1>2, <1>3, <1>4, <1>5, <1>6, <1>7, ClaimOther, ClaimBoot, ClaimCrash
     DEF Next

LEMMA ClaimInit == Init => ClaimInv
<1> SUFFICES ASSUME Init PROVE ClaimInv
  OBVIOUS
<1>1. /\ \A p \in Handlers : call[p].pc = "off"
      /\ \A k \in Jobs : job[k].pc = "off"
      /\ \A r \in Rows : row[r].status = "unused"
  BY DEF Init, OffCall, OffJob, Blank
<1>2. "off" \notin Owners \cup Deleting \cup {"check", "enq", "tell", "gone", "cas"}
  BY PcKinds DEF Deleting
<1>3. \A p \in Handlers : CallOK(p)
  BY <1>1, <1>2, RichKinds DEF CallOK, Armed, Firing
<1> QED
  BY <1>1, <1>3 DEF ClaimInv, RowOK, JobOK, Owning, Live, Claimed, Pending

\* What the claims say of a claimed row is what a run asks of it.
LEMMA ClaimOwner == Parts /\ ClaimInv => ClaimHasOwner
<1> SUFFICES ASSUME Parts, ClaimInv, boot = "up", NEW r \in Rows, Claimed(r),
                    sess[row[r].sess] # "deleted"
             PROVE  \/ Registered(r)
                    \/ \E p \in Handlers : /\ call[p].row = r
                                           /\ call[p].pc \in Dispatching \cup {"made"}
  BY DEF ClaimHasOwner
<1>1. Holder(r)
  BY DEF ClaimInv, Live
<1>2. CASE \E p \in Handlers : Armed(p) /\ call[p].row = r
  BY <1>2 DEF Armed, Owners
<1>3. CASE \E k \in Jobs : HasJob(k, r)
  BY <1>3 DEF HasJob, Registered, Late
<1> QED
  BY <1>1, <1>2, <1>3 DEF Holder

\* Where no session is reset: a claimed row of a session that is there is never
\* stranded.  Whoever claimed it (the poller, "send now", or send_terminal, which
\* makes its row claimed) still dispatches it, or a job that can finish it is
\* registered for it; the registration a new fire replaces, the stop of a
\* cancelled row's job and the early exits of `fire` and run_job never leave a
\* claim behind.
THEOREM ClaimsOwned ==
    ASSUME "reset" \notin Ops
    PROVE  Spec => []ClaimHasOwner
<1>1. TypeInv /\ OwnInv /\ KnownInv /\ ClaimInv /\ [Next]_vars
        => (TypeInv /\ OwnInv /\ KnownInv /\ ClaimInv)'
  <2>1. (Parts /\ FireJobs)' => TypeInv'
    BY TypeIsParts, PTL
  <2> QED
    BY <2>1, TypeIsParts, TypeStep, FireStep, OwnStep, KnownStep, ClaimStep
<1>2. TypeInv /\ ClaimInv => ClaimHasOwner
  BY TypeIsParts, ClaimOwner
<1> QED
  BY <1>1, <1>2, TypeInit, OwnInit, KnownInit, ClaimInit, PTL DEF Spec

-----------------------------------------------------------------------------
(* Messages: whoever may still send a row's message knows that it is not out. *)

\* No turn of the row is queued; and the message has not gone out either.
NoTurn(r) == \A t \in turns : t.row = r => t.pc # "queued"
Unsent(r) == shown[r] = 0 /\ NoTurn(r)

\* A row that somebody may yet claim, or that a restart would put back.
Fresh(r) == \/ row[r].status = "unused"
            \/ Pending(r) /\ ~row[r].claimed
            \/ Waiting(r)

\* A delivery that has not queued its turn.
Sending == {"made", "cas", "check", "enq", "route", "able", "giveBack", "adopt",
            "plain", "holdBack"}

RowSaid(r) == /\ Fresh(r) => Unsent(r)
              /\ "timeout" \notin Ops /\ row[r].status = "failed" => NoTurn(r)
CallSaid(p) ==
    /\ call[p].pc \in Sending => Unsent(call[p].row)
    /\ "timeout" \notin Ops /\ call[p].pc = "failMark" => NoTurn(call[p].row)
    /\ "retry" \notin Ops => call[p].pc \notin {"rehold", "retry"}
JobSaid(k) == Owning(k) => IF job[k].pc = "mark" THEN NoTurn(job[k].row)
                                                 ELSE Unsent(job[k].row)
TurnSaid(t) == t.pc = "queued" =>
    /\ shown[t.row] = 0
    /\ \A u \in turns : u.pc = "queued" /\ u.row = t.row => u = t
BootSaid == /\ boot \in {"rows", "orphans"} => turns = {}
            /\ boot # "up" => \A t \in turns : t.pc # "queued"

SentInv == /\ \A r \in Rows : RowSaid(r) /\ shown[r] < 2
           /\ \A p \in Handlers : CallSaid(p)
           /\ \A k \in Jobs : JobSaid(k)
           /\ \A t \in turns : TurnSaid(t)
           /\ BootSaid

LEMMA SendingKinds ==
    /\ Sending \cup {"failMark"} \subseteq Owners
    /\ Sending \cap {"failMark", "rehold", "retry"} = {}
    /\ {"failMark", "rehold", "retry"} \cap Sending = {}
  BY DEF Sending, Owners, Dispatching

\* What a step leaves as it was.
Quiet(r) == (Unsent(r) => Unsent(r)') /\ (NoTurn(r) => NoTurn(r)')
RowSent(r) ==
    \/ RowSaid(r)'
    \/ /\ Quiet(r)
       /\ Fresh(r)' => Fresh(r)
       /\ row'[r].status = "failed" => row[r].status = "failed"
CallSent(p) ==
    \/ CallSaid(p)'
    \/ call'[p] = call[p] /\ (Armed(p) => Quiet(call[p].row))
JobSent(k) ==
    \/ JobSaid(k)'
    \/ /\ job'[k].row = job[k].row
       /\ Owning(k) /\ job'[k].pc = job[k].pc
       /\ Quiet(job[k].row)

LEMMA SentFrame ==
    ASSUME Parts, SentInv,
           \A r \in Rows : RowSent(r) /\ shown'[r] < 2,
           \A p \in Handlers : CallSent(p), \A k \in Jobs : JobSent(k),
           \A t \in turns' : TurnSaid(t)', BootSaid'
    PROVE  SentInv'
<1>1. ASSUME NEW r \in Rows PROVE RowSaid(r)'
  BY DEF RowSent, RowSaid, Quiet, SentInv
<1>2. ASSUME NEW p \in Handlers PROVE CallSaid(p)'
  <2>1. CASE call'[p] = call[p] /\ (Armed(p) => Quiet(call[p].row))
    <3>1. call[p].pc \in Sending \cup {"failMark"} => Quiet(call[p].row)
      BY <2>1, SendingKinds DEF Armed
    <3>2. CallSaid(p)
      BY DEF SentInv
    <3> QED
      BY <2>1, <3>1, <3>2 DEF CallSaid, Quiet
  <2> QED
    BY <2>1 DEF CallSent
<1>3. ASSUME NEW k \in Jobs PROVE JobSaid(k)'
  <2>1. CASE ~JobSaid(k)'
    <3>1. JobSaid(k) /\ JobSent(k)
      BY DEF SentInv
    <3> QED
      BY <2>1, <3>1 DEF JobSent, JobSaid, Quiet, Owning
  <2> QED
    BY <2>1
<1> QED
  BY <1>1, <1>2, <1>3 DEF SentInv

\* A step that queues no turn and lets no message out is quiet.
NoneOut == /\ \A t \in turns' : t.pc = "queued" => t \in turns
           /\ UNCHANGED shown

LEMMA NoneOutSaid ==
    ASSUME SentInv, NoneOut
    PROVE  /\ \A r : Quiet(r)
           /\ \A r \in Rows : shown'[r] < 2
           /\ \A t \in turns' : TurnSaid(t)'
<1>1. ASSUME NEW r PROVE Quiet(r)
  BY DEF Quiet, Unsent, NoTurn, NoneOut
<1>2. ASSUME NEW t \in turns', t.pc = "queued" PROVE TurnSaid(t)'
  <2>1. t \in turns /\ TurnSaid(t)
    BY <1>2 DEF NoneOut, SentInv
  <2> QED
    BY <1>2, <2>1 DEF NoneOut, TurnSaid
<1> QED
  BY <1>1, <1>2 DEF SentInv, NoneOut, TurnSaid

\* The rows, calls and jobs of a quiet step.
RowMild(r) == \/ RowSaid(r)'
              \/ /\ Fresh(r)' => Fresh(r)
                 /\ row'[r].status = "failed" => row[r].status = "failed"
CallMild(p) == call'[p] = call[p] \/ CallSaid(p)'
JobMild(k) == \/ ~Owning(k)'
              \/ job'[k].row = job[k].row /\ job'[k].pc = job[k].pc
              \/ JobSaid(k)'

LEMMA SentQuiet ==
    ASSUME Parts, SentInv, NoneOut, \A r \in Rows : RowMild(r),
           \A p \in Handlers : CallMild(p), \A k \in Jobs : JobMild(k),
           BootSaid'
    PROVE  SentInv'
<1>1. \A r \in Rows : RowSent(r)
  BY NoneOutSaid DEF RowMild, RowSent
<1>2. \A p \in Handlers : CallSent(p)
  BY NoneOutSaid DEF CallMild, CallSent
<1>3. ASSUME NEW k \in Jobs PROVE JobSent(k)
  <2>1. CASE Owning(k)' /\ job'[k].row = job[k].row /\ job'[k].pc = job[k].pc
    BY <2>1, NoneOutSaid DEF JobSent, Owning
  <2> QED
    BY <2>1 DEF JobMild, JobSent, JobSaid
<1> QED
  BY <1>1, <1>2, <1>3, NoneOutSaid, SentFrame

LEMMA MildAlone == ASSUME UNCHANGED row PROVE \A r \in Rows : RowMild(r)
  BY DEF RowMild, Fresh, Pending, Waiting

LEMMA MildRow ==
    ASSUME RowInv, NEW r \in Rows, NEW x, SetRow(r, x),
           \/ RowSaid(r)'
           \/ x.status \in {"sent", "gone"}
           \/ /\ x.status = row[r].status /\ x.claimed = row[r].claimed
              /\ x.phase = row[r].phase
    PROVE  \A q \in Rows : RowMild(q)
<1>1. row'[r] = x /\ \A q \in Rows \ {r} : row'[q] = row[q]
  BY DEF SetRow, RowInv
<1>2. RowMild(r)
  BY <1>1 DEF RowMild, Fresh, Pending, Waiting
<1>3. \A q \in Rows \ {r} : RowMild(q)
  BY <1>1 DEF RowMild, Fresh, Pending, Waiting
<1> QED
  BY <1>2, <1>3

LEMMA MildPay ==
    ASSUME RowInv, NEW r \in Rows, NEW p, NEW c,
           SetRow(r, [row[r] EXCEPT !.pay = p, !.snap = c])
           \/ SetRow(r, [row[r] EXCEPT !.pay = p])
    PROVE  \A q \in Rows : RowMild(q)
<1>1. PICK x : SetRow(r, x) /\ (\/ x = [row[r] EXCEPT !.pay = p, !.snap = c]
                                \/ x = [row[r] EXCEPT !.pay = p])
  OBVIOUS
<1>2. /\ x.status = row[r].status /\ x.claimed = row[r].claimed
      /\ x.phase = row[r].phase
  BY <1>1, RowType DEF Row
<1> QED
  BY <1>1, <1>2, MildRow

LEMMA MildRestore ==
    ASSUME RowInv, NEW r \in Rows, RestoreHold(r) \/ \E cs : RestoreRow(r, cs)
    PROVE  \A q \in Rows : RowMild(q)
<1>1. CASE UNCHANGED row
  BY <1>1, MildAlone
<1>2. CASE ~UNCHANGED row
  BY <1>2, MildPay DEF RestoreHold, RestoreRow, storeVars
<1> QED
  BY <1>1, <1>2

LEMMA MildGone ==
    ASSUME RowInv, NEW r \in Rows, SetRow(r, Blank("gone"))
    PROVE  \A q \in Rows : RowMild(q)
<1>1. Blank("gone").status = "gone"
  BY DEF Blank
<1> QED
  BY <1>1, MildRow

\* A row that exists is freed.
LEMMA MildFree ==
    ASSUME RowInv, NEW r \in Rows, NEW x, SetRow(r, x),
           \/ x = Sent(row[r])
           \/ x = Failed(row[r]) /\ NoTurn(r)'
           \/ x = Unclaimed(row[r]) /\ Pending(r) /\ Unsent(r)'
    PROVE  \A q \in Rows : RowMild(q)
<1>1. row'[r] = x
  BY DEF SetRow, RowInv
<1>2. CASE x = Sent(row[r])
  <2>1. x.status = "sent"
    BY <1>2, RowType DEF Sent, Unclaimed, Row
  <2> QED
    BY <2>1, MildRow
<1>3. CASE x = Failed(row[r]) /\ NoTurn(r)'
  <2>1. x.status = "failed"
    BY <1>3, RowType DEF Failed, Unclaimed, Row
  <2>2. RowSaid(r)'
    BY <1>1, <1>3, <2>1 DEF RowSaid, Fresh, Pending, Waiting
  <2> QED
    BY <2>2, MildRow
<1>4. CASE x = Unclaimed(row[r]) /\ Pending(r) /\ Unsent(r)'
  <2>1. x.status = "pending"
    BY <1>4, RowType DEF Unclaimed, Row, Pending
  <2>2. RowSaid(r)'
    BY <1>1, <1>4, <2>1 DEF RowSaid
  <2> QED
    BY <2>2, MildRow
<1> QED
  BY <1>2, <1>3, <1>4

LEMMA MildStops ==
    ASSUME JobInv, UNCHANGED job \/ \E rs : StopJobs(rs)
    PROVE  \A k \in Jobs : JobMild(k)
<1>1. ASSUME NEW ks, job' = Stopped(ks, job), NEW k \in Jobs PROVE JobMild(k)
  <2>1. CASE k \in ks /\ job[k].pc = "queued"
    BY <1>1, <2>1 DEF Stopped, OffJob, JobMild, Owning
  <2>2. CASE ~(k \in ks /\ job[k].pc = "queued")
    <3>1. job'[k] = [job[k] EXCEPT !.stopped = @ \/ k \in ks, !.ahead = @ \ ks]
      BY <1>1, <2>2 DEF Stopped
    <3>2. job'[k].pc = job[k].pc /\ job'[k].row = job[k].row
      BY <3>1, JobType DEF Job
    <3> QED
      BY <3>2 DEF JobMild
  <2> QED
    BY <2>1, <2>2
<1> QED
  BY <1>1 DEF StopJobs, JobMild

\* A call at a step that sends nothing.
Silent == Pcs \ (Sending \cup {"failMark", "rehold", "retry"})

LEMMA MildCall ==
    ASSUME NEW p \in Handlers, Alone(p), call'[p].pc \in Silent \/ CallSaid(p)'
    PROVE  \A q \in Handlers : CallMild(q)
  BY DEF Alone, CallMild, CallSaid, Silent

LEMMA SilentKinds ==
    /\ {"off", "take", "takeNow", "before", "erase", "tell", "return", "dismiss",
        "after", "sentMark"} \subseteq Silent
    /\ Deleting \cup Resetting \subseteq Silent
  BY DEF Silent, Pcs, Sending, Dispatching, Deleting, Resetting

LEMMA MildReturn ==
    ASSUME CallInv, NEW p \in Handlers,
           \/ Return(p)
           \/ \E pc \in Silent : Goto(p, pc)
           \/ \E x : call' = [call EXCEPT ![p] = x] /\ x.pc \in Silent
    PROVE  \A q \in Handlers : CallMild(q)
<1>1. call'[p].pc \in Silent
  BY SilentKinds, CallType DEF Return, OffCall, Goto, CallInv, Call
<1> QED
  BY <1>1, AloneForms, MildCall

LEMMA BootSame ==
    ASSUME BootSaid, UNCHANGED boot, boot = "up" \/ UNCHANGED turns
    PROVE  BootSaid'
  BY DEF BootSaid

LEMMA SentRequest ==
    ASSUME Parts, SentInv, NEW p \in Callers, Request(p)
    PROVE  SentInv'
<1> USE DEF Parts
<1>1. p \in Handlers /\ Alone(p) /\ call[p].pc = "off"
  BY AloneRequest, CallerIsHandler DEF At
<1>2. UNCHANGED <<turns, shown, boot>> /\ UNCHANGED job
  BY DEF Request, SendNow, Claim, CancelStart, RetryStart, DismissStart,
     CreateStart, SendStart, Discard, Toggle, ResetStart, DeleteStart, turnVars,
     jobVars, historyVars
<1>3. NoneOut /\ BootSaid' /\ \A k \in Jobs : JobMild(k)
  BY <1>2, BootSame, MildStops DEF NoneOut, SentInv
<1>4. ASSUME \A q \in Handlers : CallMild(q), \A r \in Rows : RowMild(r)
      PROVE  SentInv'
  BY <1>3, <1>4, SentQuiet
<1>5. ASSUME NEW r \in Rows, SendNow(p, r) PROVE SentInv'
  <2>1. row[r].status = "pending" /\ ~row[r].claimed
    BY <1>5 DEF SendNow, Claim, Pending
  <2>2. Unsent(r)
    BY <2>1 DEF SentInv, RowSaid, Fresh, Pending
  <2>3. call'[p].pc = "route" /\ call'[p].row = r
    BY <1>1, <1>5 DEF SendNow, Claim, CallInv, Begin, OffCall
  <2>4. Unsent(r)' 
    BY <1>2, <2>2 DEF Unsent, NoTurn
  <2>5. CallSaid(p)'
    BY <2>3, <2>4 DEF CallSaid
  <2>6. PICK x : SetRow(r, x) /\ x = [row[r] EXCEPT !.claimed = TRUE]
    BY <1>5 DEF SendNow, Claim
  <2>7. row'[r] = x
    BY <2>6 DEF SetRow, RowInv
  <2>8. RowSaid(r)'
    <3>1. x.status = "pending"
      BY <2>1, <2>6, RowType DEF Row
    <3> QED
      BY <2>4, <2>7, <3>1 DEF RowSaid
  <2> QED
    BY <1>1, <1>4, <2>5, <2>6, <2>8, MildRow, MildCall
<1>6. ASSUME NEW r \in Rows, RetryStart(p, r) PROVE SentInv'
  <2>1. UNCHANGED row /\ "retry" \in Ops
    BY <1>6 DEF RetryStart, storeVars, Starts
  <2>2. PICK x, b, cs :
          /\ call' = [call EXCEPT ![p] = x]
          /\ x = [Begin(IF b THEN "rehold" ELSE "retry", r, row[r].sess)
                     EXCEPT !.held = cs]
    BY <1>6 DEF RetryStart
  <2>a. x.pc \in {"rehold", "retry"}
    BY <2>2 DEF Begin, OffCall
  <2>3. call'[p].pc \in {"rehold", "retry"}
    BY <1>1, <2>2, <2>a DEF CallInv
  <2>4. CallSaid(p)'
    BY <2>1, <2>3, SendingKinds DEF CallSaid
  <2> QED
    BY <1>1, <1>4, <2>1, <2>4, MildAlone, MildCall
<1>7. ASSUME NEW x, call' = [call EXCEPT ![p] = x], UNCHANGED row,
             x.pc \in {"before", "erase", "dismiss", "take", "takeNow"}
      PROVE  SentInv'
  <2>1. call'[p].pc \in Silent
    BY <1>1, <1>7, SilentKinds DEF CallInv
  <2> QED
    BY <1>1, <1>4, <1>7, <2>1, MildAlone, MildCall
<1>8. ASSUME NEW r \in Rows, CancelStart(p, r) PROVE SentInv'
  <2>1. PICK x, t : /\ call' = [call EXCEPT ![p] = x]
                    /\ x = [Begin(IF t THEN "before" ELSE "erase", r, row[r].sess)
                              EXCEPT !.tmux = t, !.held = HeldBy(row[r])]
    BY <1>8 DEF CancelStart
  <2>2. x.pc \in {"before", "erase"}
    BY <2>1 DEF Begin, OffCall
  <2> QED
    BY <1>7, <1>8, <2>1, <2>2 DEF CancelStart, storeVars
<1>12. ASSUME NEW r \in Rows, DismissStart(p, r) PROVE SentInv'
  <2>1. PICK x, cs : /\ call' = [call EXCEPT ![p] = x]
                     /\ x = [Begin("dismiss", r, row[r].sess) EXCEPT !.held = cs]
    BY <1>12 DEF DismissStart
  <2>2. x.pc = "dismiss"
    BY <2>1 DEF Begin, OffCall
  <2> QED
    BY <1>7, <1>12, <2>1, <2>2 DEF DismissStart, storeVars
<1>13. ASSUME NEW r \in Rows, NEW s \in Sessions, CreateStart(p, r, s) \/ SendStart(p, r, s)
       PROVE  SentInv'
  <2>1. PICK x : /\ call' = [call EXCEPT ![p] = x]
                 /\ \/ x = [Begin("take", r, s) EXCEPT !.tmux = (chan[s] = "tmux")]
                    \/ x = Begin("takeNow", r, s)
    BY <1>13 DEF CreateStart, SendStart
  <2>2. x.pc \in {"take", "takeNow"}
    BY <2>1 DEF Begin, OffCall
  <2> QED
    BY <1>7, <1>13, <2>1, <2>2 DEF CreateStart, SendStart, storeVars
<1>9. ASSUME NEW s \in Sessions, Toggle(p, s) \/ ResetStart(p, s) \/ DeleteStart(p, s)
      PROVE  SentInv'
  <2>1. \/ UNCHANGED call
        \/ \E pc \in {"list", "listHeld"} : call' = [call EXCEPT ![p] = Begin(pc, None, s)]
    BY <1>9 DEF Toggle, ResetStart, DeleteStart
  <2>2. UNCHANGED call \/ call'[p].pc \in {"list", "listHeld"}
    BY <1>1, <2>1 DEF CallInv, Begin, OffCall
  <2>3. {"list", "listHeld"} \subseteq Silent
    BY SilentKinds DEF Resetting, Deleting
  <2>4. UNCHANGED row
    BY <1>9 DEF Toggle, ResetStart, DeleteStart, storeVars
  <2>5. \A q \in Handlers : CallMild(q)
    BY <1>1, <2>2, <2>3, MildCall DEF CallMild
  <2> QED
    BY <1>4, <2>4, <2>5, MildAlone
<1>10. ASSUME NEW c \in Comments, Discard(p, c) PROVE SentInv'
  BY <1>4, <1>10, MildAlone DEF Discard, CallMild
<1>11. CASE \E r \in Rows : SendNow(p, r) \/ RetryStart(p, r)
  BY <1>5, <1>6, <1>11
<1> QED
  BY <1>8, <1>9, <1>10, <1>11, <1>12, <1>13 DEF Request

\* A failed row is pending again, and its message may go out once more.
LEMMA SentRetry ==
    ASSUME Parts, SentInv, ~({"timeout", "retry"} \subseteq Ops), NEW p \in Callers,
           RetryRow(p)
    PROVE  SentInv'
<1> USE DEF Parts
<1>1. p \in Handlers /\ call[p].pc = "retry" /\ call[p].row \in Rows
  BY CallerIsHandler, AtRow, RowPcs DEF RetryRow, At
<1>2. PICK r \in Rows : r = call[p].row
  BY <1>1
<1>3. "retry" \in Ops /\ "timeout" \notin Ops
  BY <1>1 DEF SentInv, CallSaid
<1>4. UNCHANGED <<turns, job, boot>>
  BY DEF RetryRow, turnVars, jobVars
<1>5. BootSaid' /\ \A k \in Jobs : JobMild(k)
  BY <1>4, BootSame, MildStops DEF SentInv
<1>6. Alone(p) /\ call'[p].pc \in {"off", "return"}
  BY <1>1, AloneForms, CallType DEF RetryRow, Return, Goto, CallInv, OffCall, Call
<1>7. \A q \in Handlers : CallMild(q)
  BY <1>1, <1>6, SilentKinds, MildCall
<1>8. CASE UNCHANGED <<row, shown>>
  BY <1>4, <1>5, <1>7, <1>8, MildAlone, SentQuiet DEF NoneOut
<1>9. CASE /\ row[r].status = "failed"
           /\ SetRow(r, [Unclaimed(row[r]) EXCEPT !.status = "pending"])
           /\ shown' = [shown EXCEPT ![r] = 0]
  <2>1. shown'[r] = 0 /\ \A q \in Rows \ {r} : shown'[q] = shown[q]
    BY <1>9 DEF HistoryType
  <2>2. NoTurn(r)
    BY <1>3, <1>9 DEF SentInv, RowSaid
  <2>3. Unsent(r)'
    BY <1>4, <2>1, <2>2 DEF Unsent, NoTurn
  <2>4. \A q \in Rows : Quiet(q)
    BY <1>4, <2>1 DEF Quiet, Unsent, NoTurn
  <2>5. /\ row'[r].status # "failed"
        /\ \A q \in Rows \ {r} : row'[q] = row[q]
    BY <1>9, RowType DEF SetRow, RowInv, Row, Unclaimed
  <2>6. \A q \in Rows : RowSent(q) /\ shown'[q] < 2
    <3>1. RowSent(r) /\ shown'[r] < 2
      BY <2>1, <2>3, <2>5 DEF RowSent, RowSaid
    <3>2. ASSUME NEW q \in Rows \ {r} PROVE RowSent(q) /\ shown'[q] < 2
      BY <2>1, <2>4, <2>5 DEF RowSent, Fresh, Pending, Waiting, SentInv
    <3> QED
      BY <3>1, <3>2
  <2>7. \A q \in Handlers : CallSent(q)
    BY <1>7, <2>4, OwnRows DEF CallMild, CallSent
  <2>8. ASSUME NEW k \in Jobs PROVE JobSent(k)
    BY <1>4, <2>4, OwnRows DEF JobSent, JobSaid, Owning
  <2>9. ASSUME NEW t \in turns' PROVE TurnSaid(t)'
    <3>1. t \in turns /\ t.row \in Rows /\ TurnSaid(t)
      BY <1>4 DEF SentInv, Rest, Turn
    <3> QED
      BY <1>4, <2>1, <3>1 DEF TurnSaid
  <2> QED
    BY <1>5, <2>6, <2>7, <2>8, <2>9, SentFrame
<1> QED
  BY <1>2, <1>8, <1>9 DEF RetryRow

LEMMA SentProceed ==
    ASSUME Parts, OwnInv, SentInv, ~({"timeout", "retry"} \subseteq Ops),
           NEW p \in Callers, Proceed(p)
    PROVE  SentInv'
<1> USE DEF Parts
<1>0. CASE RetryRow(p)
  BY <1>0, SentRetry
<1> SUFFICES ASSUME ~RetryRow(p) PROVE SentInv'
  BY <1>0
<1>1. p \in Handlers /\ call[p].pc \notin Resetting /\ Alone(p)
  BY CallerIsHandler, AloneProceed DEF OwnInv, NoReset
<1>2. ~(\/ ResetList(p) \/ ResetArchive(p) \/ ResetGivenUp(p) \/ ResetMove(p)
        \/ \E r \in Rows : ResetStop(p, r) \/ ResetRearm(p, r))
  BY <1>1 DEF ResetList, ResetArchive, ResetGivenUp, ResetMove, ResetStop,
              ResetRearm, At, Resetting
<1>3. /\ UNCHANGED <<turns, shown, boot>>
      /\ UNCHANGED job \/ \E rs : StopJobs(rs)
  BY <1>2 DEF Proceed, CreateTake, SendTake, CancelBefore, CancelErase, CancelTell,
     ReturnComments, Rehold, RetryRow, DismissRow, DeleteList, DeleteRows, DeleteGone,
     DeletePurge, DeleteGive, turnVars, jobVars, historyVars
<1>4. NoneOut /\ BootSaid' /\ \A k \in Jobs : JobMild(k)
  BY <1>3, BootSame, MildStops DEF NoneOut, SentInv
<1>5. ASSUME \A q \in Handlers : CallMild(q), \A r \in Rows : RowMild(r)
      PROVE  SentInv'
  BY <1>4, <1>5, SentQuiet
<1>6. ASSUME NEW r \in Rows, row[r].status = "unused", NEW x, SetRow(r, x),
             x.status = "pending"
      PROVE  Unsent(r)' /\ \A q \in Rows : RowMild(q)
  <2>1. Unsent(r)
    BY <1>6 DEF SentInv, RowSaid, Fresh
  <2>2. Unsent(r)'
    BY <1>3, <2>1 DEF Unsent, NoTurn
  <2>3. row'[r] = x
    BY <1>6 DEF SetRow, RowInv
  <2>4. RowSaid(r)'
    BY <1>6, <2>2, <2>3 DEF RowSaid
  <2> QED
    BY <1>6, <2>2, <2>4, MildRow
<1>7. ASSUME CreateTake(p) \/ SendTake(p)
      PROVE  call[p].row \in Rows /\ row[call[p].row].status = "unused"
  BY <1>1, <1>7, AtRow, RowPcs DEF CreateTake, SendTake, At, OwnInv, TakesUnused, Taking
<1>8. CASE CreateTake(p)
  <2>1. PICK r \in Rows : r = call[p].row /\ row[r].status = "unused"
    BY <1>7, <1>8
  <2>2. PICK cs, x : /\ SetRow(r, x)
                     /\ x = [Blank("pending") EXCEPT
                        !.sess = call[p].sess, !.tmux = call[p].tmux,
                        !.pay = IF cs = {} THEN "none" ELSE "held", !.snap = cs]
    BY <1>8, <2>1 DEF CreateTake
  <2>3. x.status = "pending"
    BY <2>2 DEF Blank
  <2> QED
    BY <1>1, <1>5, <1>6, <1>8, <2>1, <2>2, <2>3, MildReturn DEF CreateTake
<1>9. CASE SendTake(p)
  <2>1. PICK r \in Rows : r = call[p].row /\ row[r].status = "unused"
    BY <1>7, <1>9
  <2>2. CASE Return(p) /\ UNCHANGED row
    BY <1>1, <1>5, <2>2, MildReturn, MildAlone
  <2>3. CASE ~(Return(p) /\ UNCHANGED row)
    <3>1. PICK cs, x : /\ SetRow(r, x) /\ Goto(p, "made")
                       /\ x = [Blank("pending") EXCEPT
                            !.claimed = TRUE, !.phase = "waiting",
                            !.sess = call[p].sess, !.imm = TRUE, !.tmux = TRUE,
                            !.pay = "held", !.snap = cs]
      BY <1>9, <2>1, <2>3 DEF SendTake, storeVars
    <3>2. x.status = "pending"
      BY <3>1 DEF Blank
    <3>3. call'[p].pc = "made" /\ call'[p].row = r
      BY <1>1, <2>1, <3>1, GotoFields
    <3>4. CallSaid(p)'
      BY <1>6, <2>1, <3>1, <3>2, <3>3 DEF CallSaid
    <3> QED
      BY <1>1, <1>5, <1>6, <2>1, <3>1, <3>2, <3>4, MildCall
  <2> QED
    BY <2>2, <2>3
<1>10. CASE Rehold(p)
  <2>1. call[p].row \in Rows /\ call[p].pc = "rehold" /\ "retry" \in Ops
    BY <1>1, <1>10, AtRow, RowPcs DEF Rehold, At, SentInv, CallSaid
  <2>2. call'[p].pc \in {"retry", "off"}
    BY <1>1, <1>10, CallType DEF Rehold, Return, Goto, CallInv, OffCall, Call
  <2>3. CallSaid(p)'
    BY <2>1, <2>2, SendingKinds, SilentKinds DEF CallSaid, Sending
  <2>4. \/ UNCHANGED row
        \/ \E v, c : SetRow(call[p].row, [row[call[p].row] EXCEPT !.pay = v, !.snap = c])
    BY <1>10 DEF Rehold, storeVars
  <2> QED
    BY <1>1, <1>5, <2>1, <2>3, <2>4, MildAlone, MildPay, MildCall
<1>11. CASE CancelBefore(p) \/ CancelErase(p) \/ CancelTell(p)
            \/ ReturnComments(p) \/ DismissRow(p)
  <2>1. call'[p].pc \in {"erase", "tell", "return", "off"}
    BY <1>1, <1>11, CallType DEF CancelBefore, CancelErase, CancelTell, ReturnComments,
       DismissRow, Return, Goto, CallInv, OffCall, Call
  <2>2. \/ UNCHANGED row
        \/ SetRow(call[p].row, Blank("gone")) /\ call[p].row \in Rows
    BY <1>1, <1>11, AtRow, RowPcs DEF CancelBefore, CancelErase, CancelTell,
       ReturnComments, DismissRow, storeVars
  <2> QED
    BY <1>1, <1>5, <2>1, <2>2, SilentKinds, MildCall, MildAlone, MildGone
<1>12. CASE DeleteList(p) \/ DeleteRows(p) \/ DeleteGone(p)
  <2>a. ASSUME NEW pc, NEW rs, call' = [call EXCEPT ![p].pc = pc, ![p].todo = rs]
        PROVE  call'[p].pc = pc
    BY <1>1, <2>a, CallType DEF CallInv, Call
  <2>b. ASSUME NEW pc, NEW rs, NEW cs,
               call' = [call EXCEPT ![p].pc = pc, ![p].todo = rs, ![p].seen = cs]
        PROVE  call'[p].pc = pc
    BY <1>1, <2>b, CallType DEF CallInv, Call
  <2>c. DeleteGone(p) => call'[p].pc = "purge"
    BY <1>1 DEF DeleteGone, CallInv, Begin, OffCall
  <2>1. call'[p].pc \in Deleting
    BY <1>12, <2>a, <2>b, <2>c DEF DeleteList, DeleteRows, Deleting
  <2>2. UNCHANGED row
    BY <1>12 DEF DeleteList, DeleteRows, DeleteGone, storeVars
  <2> QED
    BY <1>1, <1>5, <2>1, <2>2, SilentKinds, MildCall, MildAlone
<1>13. CASE DeletePurge(p)
  <2>1. \A r \in Rows : row'[r] = row[r] \/ row'[r] = Blank("gone")
    BY <1>13 DEF DeletePurge
  <2>2. Blank("gone").status = "gone"
    BY DEF Blank
  <2>3. \A r \in Rows : RowMild(r)
    BY <2>1, <2>2 DEF RowMild, Fresh, Pending, Waiting
  <2> QED
    BY <1>1, <1>5, <1>13, <2>3, MildReturn DEF DeletePurge
<1>14. ASSUME NEW r \in Rows, DeleteGive(p, r) PROVE SentInv'
  <2>1. call'[p] = [call[p] EXCEPT !.todo = @ \ {r}] /\ call[p].pc \in Deleting
    BY <1>1, <1>14 DEF DeleteGive, CallInv, At, Deleting
  <2>2. call'[p].pc \in Deleting
    BY <1>1, <2>1, CallType DEF Call
  <2> QED
    BY <1>1, <1>5, <1>14, <2>2, SilentKinds, MildCall, MildRestore DEF DeleteGive
<1> QED
  BY <1>2, <1>8, <1>9, <1>10, <1>11, <1>12, <1>13, <1>14 DEF Proceed

LEMMA SentPoll ==
    ASSUME Parts, SentInv, NEW r \in Rows, Poll(r)
    PROVE  SentInv'
<1> USE DEF Parts
<1>1. PICK p \in Handlers : p = Poller
  BY DEF Handlers
<1>2. Claim(p, r) /\ UNCHANGED <<turns, shown, boot, job>>
  BY <1>1 DEF Poll, Claim, turnVars, historyVars, jobVars
<1>3. Alone(p)
  BY <1>2, AloneClaim
<1>4. NoneOut /\ BootSaid' /\ \A k \in Jobs : JobMild(k)
  BY <1>2, BootSame, MildStops DEF NoneOut, SentInv
<1>5. Unsent(r)
  BY <1>2 DEF Claim, SentInv, RowSaid, Fresh
<1>6. Unsent(r)'
  BY <1>2, <1>5 DEF Unsent, NoTurn
<1>7. call'[p].pc = "route" /\ call'[p].row = r
  BY <1>2 DEF Claim, CallInv, Begin, OffCall
<1>8. CallSaid(p)'
  BY <1>6, <1>7 DEF CallSaid
<1>9. PICK x : SetRow(r, x) /\ x = [row[r] EXCEPT !.claimed = TRUE]
  BY <1>2 DEF Claim
<1>10. row'[r] = x /\ x.status = "pending"
  BY <1>2, <1>9, RowType DEF SetRow, RowInv, Row, Claim, Pending
<1>11. RowSaid(r)'
  BY <1>6, <1>10 DEF RowSaid
<1> QED
  BY <1>3, <1>4, <1>8, <1>9, <1>11, MildRow, MildCall, SentQuiet

LEMMA SentFire ==
    ASSUME Parts, FireJobs, OwnInv, KnownInv, SentInv, NEW p \in Handlers,
           Route(p) \/ Fire(p)
    PROVE  SentInv'
<1> USE DEF Parts
<1>1. /\ call[p].row \in Rows /\ call[p].sess \in Sessions
      /\ call[p].pc \in Sending
  BY AtRow, RowPcs DEF Route, Fire, SendFire, FireCas, FireCheck, FireEnqueue, At,
     Dispatching, Sending
<1>2. PICK r \in Rows : r = call[p].row
  BY <1>1
<1>3. UNCHANGED <<turns, shown, boot>> /\ Alone(p)
  BY AloneRoute DEF Route, Fire, SendFire, FireCas, FireCheck, FireEnqueue, turnVars,
     historyVars
<1>4. NoneOut /\ BootSaid'
  BY <1>3, BootSame DEF NoneOut, SentInv
<1>5. Unsent(r)'
  <2>1. Unsent(r)
    BY <1>1, <1>2 DEF SentInv, CallSaid
  <2> QED
    BY <1>3, <2>1 DEF Unsent, NoTurn
<1>6. ASSUME call'[p].row = r, call'[p].pc \in Sending PROVE CallSaid(p)'
  BY <1>5, <1>6, SendingKinds DEF CallSaid
<1>7. ASSUME \A k \in Jobs : JobMild(k), \A q \in Rows : RowMild(q),
             \/ Return(p)
             \/ \E pc \in Sending : Goto(p, pc)
             \/ call'[p].row = r /\ call'[p].pc \in Sending
      PROVE  SentInv'
  <2>1. \A q \in Handlers : CallMild(q)
    BY <1>2, <1>3, <1>6, <1>7, GotoFields, MildReturn, MildCall
  <2> QED
    BY <1>4, <1>7, <2>1, SentQuiet
<1>8. ASSUME Register(p, r, call[p].sess), UNCHANGED row PROVE SentInv'
  <2>1. PICK s \in Sessions : s = call[p].sess
    BY <1>1
  <2>2. PICK k \in Jobs :
          /\ job'[k].pc = "fire" /\ call'[p].pc = "cas" /\ call'[p].row = r
          /\ \A l \in Jobs \ {k} :
               \/ Copies(job'[l], job[l])
               \/ job[l].row = r /\ (job'[l] = OffJob \/ (/\ job'[l].pc = job[l].pc
                                                          /\ job'[l].row = r))
    BY <1>8, <2>1, RegisterEffect
  <2>3. \A l \in Jobs : JobMild(l)
    BY <2>2 DEF JobMild, Owning, Copies, OffJob
  <2> QED
    BY <1>7, <1>8, <2>2, <2>3, MildAlone DEF Sending
<1>9. CASE Route(p)
  <2>1. UNCHANGED row /\ (Register(p, r, call[p].sess) \/
           (UNCHANGED job /\ \E pc \in {"plain", "giveBack", "able"} : Goto(p, pc)))
    BY <1>2, <1>9 DEF Route, storeVars, jobVars
  <2> QED
    BY <1>7, <1>8, <2>1, MildAlone, MildStops DEF Sending
<1>10. CASE SendFire(p)
  <2>1. UNCHANGED row /\ (Register(p, r, call[p].sess) \/ (UNCHANGED job /\ Return(p)))
    BY <1>2, <1>10 DEF SendFire, storeVars, jobVars
  <2> QED
    BY <1>7, <1>8, <2>1, MildAlone, MildStops
<1>11. CASE FireCas(p)
  <2>1. \E pc \in Sending : Goto(p, pc)
    BY <1>11 DEF FireCas, Sending
  <2>2. UNCHANGED job
    BY <1>11 DEF FireCas, jobVars
  <2>3. CASE UNCHANGED row
    BY <1>7, <2>1, <2>2, <2>3, MildAlone, MildStops
  <2>4. CASE ~UNCHANGED row
    <3>1. PICK x : SetRow(r, x) /\ x = [row[r] EXCEPT !.phase = "waiting"] /\ Pending(r)
      BY <1>2, <1>11, <2>4 DEF FireCas
    <3>2. row'[r] = x /\ x.status = "pending"
      BY <3>1, RowType DEF SetRow, RowInv, Row, Pending
    <3>3. RowSaid(r)'
      BY <1>5, <3>2 DEF RowSaid
    <3> QED
      BY <1>7, <2>1, <2>2, <3>1, <3>3, MildRow, MildStops
  <2> QED
    BY <2>3, <2>4
<1>12. CASE FireCheck(p)
  <2>1. UNCHANGED row
    BY <1>12 DEF FireCheck, storeVars
  <2>2. CASE Goto(p, "enq") /\ UNCHANGED jobVars
    BY <1>7, <2>1, <2>2, MildAlone, MildStops DEF Sending, jobVars
  <2>3. CASE Return(p) /\ job' = [job EXCEPT ![call[p].job] = OffJob]
    <3>1. \A l \in Jobs : job'[l] = job[l] \/ job'[l] = OffJob
      BY <2>3 DEF JobInv
    <3>2. \A l \in Jobs : JobMild(l)
      BY <3>1 DEF JobMild, Owning, OffJob
    <3> QED
      BY <1>7, <2>1, <2>3, <3>2, MildAlone
  <2> QED
    BY <1>12, <2>2, <2>3 DEF FireCheck
<1>13. CASE FireEnqueue(p)
  <2>1. call[p].job \in Jobs /\ Firing(p)
    BY <1>13, AtRow, RowPcs DEF FireEnqueue, At, Dispatching, Firing
  <2>2. PICK k \in Jobs : k = call[p].job
    BY <2>1
  <2>3. job[k].row = r
    BY <1>2, <2>1, <2>2 DEF FireJobs
  <2>4. PICK ls : job' = [job EXCEPT ![k].pc = "queued", ![k].ahead = ls]
    BY <1>13, <2>2 DEF FireEnqueue
  <2>5. job'[k].pc = "queued" /\ job'[k].row = r
    BY <2>3, <2>4, JobType DEF JobInv, Job
  <2>6. \A l \in Jobs \ {k} : job'[l] = job[l]
    BY <2>4 DEF JobInv
  <2>7. JobSaid(k)'
    BY <1>5, <2>5 DEF JobSaid
  <2>8. \A l \in Jobs : JobMild(l)
    BY <2>6, <2>7 DEF JobMild
  <2> QED
    BY <1>7, <1>13, <2>8, MildAlone DEF FireEnqueue, storeVars
<1> QED
  BY <1>9, <1>10, <1>11, <1>12, <1>13 DEF Fire

\* The steps of a Rich Chat delivery that queue no turn.
LEMMA SentJson ==
    ASSUME Parts, SentInv, NEW p \in Handlers, Json(p) \/ JsonTimeout(p),
           UNCHANGED <<turns, shown>>
    PROVE  SentInv'
<1> USE DEF Parts
<1>1. /\ call[p].pc \in JsonPcs /\ boot = "up" /\ UNCHANGED <<job, boot>>
      /\ JsonTimeout(p) => "timeout" \in Ops
  BY DEF Json, JsonTimeout, JsonAble, JsonGiveBack, JsonAdopt, JsonEnqueue,
         JsonAfter, JsonHoldBack, JsonFailMark, JsonSentMark, At, JsonPcs, jobVars
<1>2. Alone(p) /\ call[p].row \in Rows
  BY <1>1, AloneJson, AtRow, RowPcs DEF At, JsonPcs, Dispatching
<1>3. PICK r \in Rows : r = call[p].row
  BY <1>2
<1>4. NoneOut /\ BootSaid' /\ \A k \in Jobs : JobMild(k)
  BY <1>1, BootSame, MildStops DEF NoneOut, SentInv
<1>5. ASSUME CallSaid(p)' \/ call'[p].pc \in Silent, \A q \in Rows : RowMild(q)
      PROVE  SentInv'
  BY <1>2, <1>4, <1>5, MildCall, SentQuiet
<1>6. \A q \in Rows : Quiet(q)
  BY <1>4, NoneOutSaid
<1>7. ASSUME call[p].pc \in Sending, call'[p].row = r,
             call'[p].pc \in Sending \cup {"failMark"}
      PROVE  CallSaid(p)'
  <2>1. Unsent(r)'
    BY <1>3, <1>6, <1>7 DEF SentInv, CallSaid, Quiet
  <2> QED
    BY <1>7, <2>1, SendingKinds DEF CallSaid, Unsent
<1>8. CASE JsonAble(p) \/ JsonGiveBack(p) \/ JsonEnqueue(p) \/ JsonHoldBack(p)
  <2>1. /\ \E pc \in Sending \cup {"failMark", "after"} : Goto(p, pc)
        /\ call[p].pc \in Sending
    BY <1>8 DEF JsonAble, JsonGiveBack, JsonEnqueue, JsonHoldBack, At, Sending
  <2>2. call'[p].pc \in Sending \cup {"failMark", "after"} /\ call'[p].row = r
    BY <1>3, <2>1, GotoFields
  <2>3. UNCHANGED row \/ RestoreHold(r) \/ RestoreRow(r, call[p].held)
    BY <1>3, <1>8 DEF JsonAble, JsonGiveBack, JsonEnqueue, JsonHoldBack, storeVars
  <2> QED
    BY <1>5, <1>7, <2>1, <2>2, <2>3, SilentKinds, MildAlone, MildRestore
<1>9. CASE JsonAdopt(p)
  <2>1. call[p].pc \in Sending
    BY <1>9 DEF JsonAdopt, At, Sending
  <2>2. call'[p].pc \in {"plain", "failMark"} /\ call'[p].row = r
    <3>1. CASE Goto(p, "failMark")
      BY <1>3, <3>1, GotoFields
    <3>2. CASE call' = [call EXCEPT ![p].pc = "plain", ![p].turn = adoption[r] + 1]
      <4>1. call'[p] = [call[p] EXCEPT !.pc = "plain", !.turn = adoption[r] + 1]
        BY <3>2 DEF CallInv
      <4> QED
        BY <1>3, <4>1, CallType DEF Call
    <3> QED
      BY <1>3, <1>9, <3>1, <3>2 DEF JsonAdopt
  <2>3. UNCHANGED row \/ \E v : SetRow(r, [row[r] EXCEPT !.pay = v])
    BY <1>3, <1>9 DEF JsonAdopt, Adopt, storeVars
  <2>4. \A q \in Rows : RowMild(q)
    BY <2>3, MildAlone, MildPay
  <2>5. {"plain", "failMark"} \subseteq Sending \cup {"failMark"}
    BY DEF Sending
  <2> QED
    BY <1>5, <1>7, <2>1, <2>2, <2>4, <2>5
<1>10. CASE JsonAfter(p)
  BY <1>5, <1>10, GotoFields, SilentKinds, MildAlone DEF JsonAfter, storeVars
<1>11. CASE JsonTimeout(p)
  <2>1. "timeout" \in Ops /\ call'[p].pc = "failMark"
    BY <1>11, GotoFields DEF JsonTimeout
  <2>2. CallSaid(p)'
    BY <2>1, SendingKinds DEF CallSaid
  <2>3. UNCHANGED row \/ RestoreHold(r)
    BY <1>3, <1>11 DEF JsonTimeout, storeVars
  <2> QED
    BY <1>5, <2>2, <2>3, MildAlone, MildRestore
<1>12. CASE JsonFailMark(p)
  <2>1. "timeout" \in Ops \/ NoTurn(r)'
    BY <1>3, <1>6, <1>12 DEF JsonFailMark, At, SentInv, CallSaid, Quiet
  <2>2. \A q \in Rows : RowMild(q)
    <3>1. CASE UNCHANGED row
      BY <3>1, MildAlone
    <3>2. CASE ~UNCHANGED row
      <4>1. PICK x : SetRow(r, x) /\ x = Failed(row[r])
        BY <1>3, <1>12, <3>2 DEF JsonFailMark
      <4>2. row'[r] = x /\ x.status = "failed"
        BY <4>1, RowType DEF SetRow, RowInv, Row, Failed, Unclaimed
      <4>3. RowSaid(r)'
        BY <2>1, <4>2 DEF RowSaid, Fresh, Pending, Waiting
      <4> QED
        BY <4>1, <4>3, MildRow
    <3> QED
      BY <3>1, <3>2
  <2>3. call'[p].pc \in Silent
    BY <1>12, SilentKinds DEF JsonFailMark, Return, CallInv, OffCall
  <2> QED
    BY <1>5, <2>2, <2>3
<1>13. CASE JsonSentMark(p)
  <2>1. UNCHANGED row \/ SetRow(r, Sent(row[r]))
    BY <1>3, <1>13 DEF JsonSentMark
  <2>2. \A q \in Rows : RowMild(q)
    BY <2>1, MildAlone, MildFree
  <2>3. call'[p].pc \in Silent
    BY <1>13, SilentKinds DEF JsonSentMark, Return, CallInv, OffCall
  <2> QED
    BY <1>5, <2>2, <2>3
<1> QED
  BY <1>8, <1>9, <1>10, <1>11, <1>12, <1>13 DEF Json

\* One owner of row r lets its message out: nobody else knows it unsent.
LEMMA SentOut ==
    ASSUME Parts, SentInv, NEW r \in Rows,
           ~Fresh(r), row[r].status # "failed", UNCHANGED <<row, boot>>, boot = "up",
           \A q \in Rows \ {r} : Quiet(q) /\ shown'[q] = shown[q],
           shown'[r] < 2,
           \A p \in Handlers : Armed(p) /\ call[p].row = r => CallSaid(p)',
           \A p \in Handlers : call'[p] = call[p] \/ CallSaid(p)',
           \A k \in Jobs : Owning(k) /\ job[k].row = r => JobSaid(k)',
           \A k \in Jobs : job'[k] = job[k] \/ JobSaid(k)',
           \A t \in turns' : TurnSaid(t)'
    PROVE  SentInv'
<1>1. ASSUME NEW q \in Rows PROVE RowSent(q) /\ shown'[q] < 2
  <2>1. CASE q = r
    BY <2>1 DEF RowSent, RowSaid, Fresh, Pending, Waiting
  <2>2. CASE q # r
    BY <2>2 DEF RowSent, SentInv, Fresh, Pending, Waiting
  <2> QED
    BY <2>1, <2>2
<1>2. \A p \in Handlers : CallSent(p)
  BY OwnRows DEF CallSent
<1>3. ASSUME NEW k \in Jobs PROVE JobSent(k)
  <2>1. CASE Owning(k)
    BY <2>1, OwnRows DEF JobSent
  <2>2. CASE ~Owning(k)
    BY <2>2 DEF JobSent, JobSaid, Owning
  <2> QED
    BY <2>1, <2>2
<1>4. BootSaid'
  BY DEF BootSaid
<1> QED
  BY <1>1, <1>2, <1>3, <1>4, SentFrame

\* A delivery queues its turn, or a turn without comments goes out at once.
LEMMA SentEnqueue ==
    ASSUME Parts, OwnInv, ClaimInv, SentInv, NEW p \in Handlers, JsonEnqueue(p),
           ~UNCHANGED <<turns, shown>>
    PROVE  SentInv'
<1> USE DEF Parts
<1>1. /\ call[p].row \in Rows /\ call[p].pc = "plain" /\ Armed(p) /\ boot = "up"
      /\ UNCHANGED <<row, job, boot>>
  BY AtRow, RowPcs DEF JsonEnqueue, At, Dispatching, Armed, Owners, storeVars, jobVars
<1>2. PICK r \in Rows : r = call[p].row
  BY <1>1
<1>3. Unsent(r)
  BY <1>1, <1>2 DEF SentInv, CallSaid, Sending
<1>4. ~Fresh(r) /\ row[r].status # "failed"
  <2>1. Gone(r) \/ row[r].phase = "null"
    BY <1>1, <1>2 DEF ClaimInv, CallOK, Richly, JsonPcs
  <2>2. Gone(r) \/ Claimed(r)
    BY <1>1, <1>2 DEF OwnInv, CallsOwn, Owned
  <2> QED
    BY <2>1, <2>2 DEF Gone, Claimed, Pending, Fresh, Waiting
<1>5. Goto(p, "after")
  BY <1>3 DEF JsonEnqueue, historyVars
<1>6. call'[p].pc = "after" /\ Alone(p)
  BY <1>5, GotoFields
<1>7. CallSaid(p)'
  BY <1>6 DEF CallSaid, Sending
<1>8. /\ \A q \in Handlers : Armed(q) /\ call[q].row = r => CallSaid(q)'
      /\ \A q \in Handlers : call'[q] = call[q] \/ CallSaid(q)'
      /\ \A k \in Jobs : ~(Owning(k) /\ job[k].row = r)
  BY <1>1, <1>2, <1>6, <1>7 DEF OwnInv, OneCall, CallOrJob, Alone
<1>9. ASSUME GoOut(r, {}), UNCHANGED turns PROVE SentInv'
  <2>1. shown'[r] = 1 /\ \A q \in Rows \ {r} : shown'[q] = shown[q]
    BY <1>3, <1>9 DEF GoOut, HistoryType, Unsent
  <2>2. \A q \in Rows \ {r} : Quiet(q)
    BY <1>9, <2>1 DEF Quiet, Unsent, NoTurn
  <2>3. ASSUME NEW t \in turns' PROVE TurnSaid(t)'
    <3>1. t \in turns /\ t.row \in Rows /\ TurnSaid(t)
      BY <1>9 DEF SentInv, Rest, Turn
    <3> QED
      BY <1>3, <1>9, <2>1, <3>1 DEF TurnSaid, Unsent, NoTurn
  <2> QED
    BY <1>1, <1>4, <1>8, <2>1, <2>2, <2>3, SentOut
<1>10. ASSUME NEW u, u.row = r, turns' = turns \cup {u}, UNCHANGED shown
       PROVE  SentInv'
  <2>1. \A q \in Rows \ {r} : Quiet(q)
    BY <1>10 DEF Quiet, Unsent, NoTurn
  <2>2. ASSUME NEW t \in turns' PROVE TurnSaid(t)'
    <3>1. t \in turns => TurnSaid(t)
      BY DEF SentInv
    <3> QED
      BY <1>3, <1>10, <3>1 DEF TurnSaid, Unsent, NoTurn
  <2>3. shown'[r] < 2
    BY <1>10 DEF SentInv
  <2> QED
    BY <1>1, <1>4, <1>8, <1>10, <2>1, <2>2, <2>3, SentOut
<1>11. PICK u : u = [row |-> r, n |-> call[p].turn, body |-> call[p].held,
                     pc |-> "queued"]
  OBVIOUS
<1>12. u.row = r
  BY <1>11
<1>13. \/ GoOut(r, {}) /\ UNCHANGED turns
       \/ turns' = turns \cup {u} /\ UNCHANGED shown
  BY <1>2, <1>11 DEF JsonEnqueue, historyVars
<1> QED
  BY <1>9, <1>10, <1>12, <1>13

\* A paste is in.
LEMMA SentPaste ==
    ASSUME Parts, OwnInv, ClaimInv, SentInv, NEW k \in Jobs, DeliverPaste(k),
           ~UNCHANGED shown
    PROVE  SentInv'
<1> USE DEF Parts
<1>1. /\ job[k].row \in Rows /\ job[k].pc = "paste" /\ Owning(k)
      /\ UNCHANGED <<row, boot, call, turns>>
  BY JobType DEF DeliverPaste, InJob, JobKnown, Owning, storeVars, turnVars
<1>2. boot = "up"
  BY <1>1 DEF OwnInv, BootQuiet
<1>3. PICK r \in Rows : r = job[k].row
  BY <1>1
<1>4. Unsent(r)
  BY <1>1, <1>3 DEF SentInv, JobSaid
<1>5. ~Fresh(r) /\ row[r].status # "failed"
  <2>1. Gone(r) \/ row[r].phase = "pasting"
    BY <1>1, <1>3 DEF ClaimInv, JobOK
  <2>2. Gone(r) \/ Claimed(r)
    BY <1>1, <1>3 DEF OwnInv, JobsOwn, Owned
  <2> QED
    BY <2>1, <2>2 DEF Gone, Claimed, Pending, Fresh, Waiting
<1>6. GoOut(r, job[k].held) /\ JobGoto(k, "mark")
  BY <1>3 DEF DeliverPaste, historyVars
<1>7. /\ job'[k].pc = "mark" /\ job'[k].row = r
      /\ \A l \in Jobs \ {k} : job'[l] = job[l]
  BY <1>3, <1>6, JobType DEF JobGoto, JobInv, Job
<1>8. shown'[r] = 1 /\ \A q \in Rows \ {r} : shown'[q] = shown[q]
  BY <1>4, <1>6 DEF GoOut, HistoryType, Unsent
<1>9. \A q \in Rows \ {r} : Quiet(q)
  BY <1>1, <1>8 DEF Quiet, Unsent, NoTurn
<1>10. JobSaid(k)'
  BY <1>1, <1>4, <1>7 DEF JobSaid, Unsent, NoTurn
<1>11. /\ \A l \in Jobs : Owning(l) /\ job[l].row = r => JobSaid(l)'
       /\ \A l \in Jobs : job'[l] = job[l] \/ JobSaid(l)'
       /\ \A p \in Handlers : ~(Armed(p) /\ call[p].row = r)
  BY <1>1, <1>3, <1>7, <1>10 DEF OwnInv, OneJob, CallOrJob
<1>12. ASSUME NEW t \in turns' PROVE TurnSaid(t)'
  <2>1. t \in turns /\ t.row \in Rows /\ TurnSaid(t)
    BY <1>1 DEF SentInv, Rest, Turn
  <2> QED
    BY <1>1, <1>4, <1>8, <2>1 DEF TurnSaid, Unsent, NoTurn
<1> QED
  BY <1>1, <1>2, <1>5, <1>8, <1>9, <1>11, <1>12, SentOut

\* The text of a turn with comments goes out when the turn runs.
LEMMA SentTurn ==
    ASSUME Parts, SentInv, NEW t \in turns,
           TurnPersist(t) \/ TurnWithdraw(t) \/ TurnSettle(t)
    PROVE  SentInv'
<1> USE DEF Parts
<1>1. UNCHANGED <<call, job, boot>> /\ boot = "up" /\ t.row \in Rows
  BY DEF TurnPersist, TurnWithdraw, TurnSettle, jobVars, Rest, Turn
<1>2. BootSaid'
  BY <1>1, BootSame DEF SentInv
<1>3. ASSUME NEW pc, pc # "queued", Advance(t, pc)
      PROVE  \A u \in turns' : u.pc = "queued" => u \in turns /\ u # t
  <2>1. turns \subseteq Turn
    BY DEF Rest
  <2>2. [t EXCEPT !.pc = pc].pc # "queued"
    BY <1>3, <2>1 DEF Turn
  <2> QED
    BY <1>3, <2>2 DEF Advance
<1>4. CASE TurnPersist(t)
  <2>1. t.pc = "queued" /\ UNCHANGED row /\ Advance(t, "kept") /\ GoOut(t.row, t.body)
    BY <1>4 DEF TurnPersist, storeVars
  <2>2. PICK r \in Rows : r = t.row
    BY <1>1
  <2>3. shown[r] = 0 /\ \A u \in turns : u.pc = "queued" /\ u.row = r => u = t
    BY <2>1, <2>2 DEF SentInv, TurnSaid
  <2>4. \A u \in turns' : u.pc = "queued" => u \in turns /\ u # t
    BY <1>3, <2>1
  <2>5. shown'[r] = 1 /\ \A q \in Rows \ {r} : shown'[q] = shown[q]
    BY <2>1, <2>2, <2>3 DEF GoOut, HistoryType
  <2>6. \A q \in Rows : Quiet(q) /\ shown'[q] < 2
    <3>1. ~NoTurn(r)
      BY <2>1, <2>2 DEF NoTurn
    <3>2. Quiet(r) /\ shown'[r] < 2
      BY <2>4, <2>5, <3>1 DEF Quiet, Unsent
    <3>3. ASSUME NEW q \in Rows \ {r} PROVE Quiet(q) /\ shown'[q] < 2
      BY <2>4, <2>5 DEF Quiet, Unsent, NoTurn, SentInv
    <3> QED
      BY <3>2, <3>3
  <2>7. \A q \in Rows : RowSent(q)
    BY <2>1, <2>6 DEF RowSent, Fresh, Pending, Waiting
  <2>8. \A p \in Handlers : CallSent(p)
    BY <1>1, <2>6, OwnRows DEF CallSent
  <2>9. ASSUME NEW k \in Jobs PROVE JobSent(k)
    BY <1>1, <2>6, OwnRows DEF JobSent, JobSaid, Owning
  <2>10. ASSUME NEW u \in turns', u.pc = "queued" PROVE TurnSaid(u)'
    <3>1. u \in turns /\ u.row \in Rows /\ TurnSaid(u) /\ u # t
      BY <2>4, <2>10 DEF SentInv, Rest, Turn
    <3>2. u.row # r
      BY <2>3, <2>10, <3>1
    <3> QED
      BY <2>4, <2>5, <2>10, <3>1, <3>2 DEF TurnSaid
  <2>11. \A u \in turns' : TurnSaid(u)'
    BY <2>10 DEF TurnSaid
  <2> QED
    BY <1>2, <2>6, <2>7, <2>8, <2>9, <2>11, SentFrame
<1>5. CASE TurnWithdraw(t) \/ TurnSettle(t)
  <2>1. NoneOut
    BY <1>3, <1>5 DEF NoneOut, TurnWithdraw, TurnSettle, historyVars
  <2>2. UNCHANGED row \/ RestoreHold(t.row)
    BY <1>5 DEF TurnWithdraw, TurnSettle, storeVars
  <2> QED
    BY <1>1, <1>2, <2>1, <2>2, MildAlone, MildRestore, SentQuiet DEF CallMild, JobMild
<1> QED
  BY <1>4, <1>5

LEMMA SentWork ==
    ASSUME Parts, OwnInv, ClaimInv, SentInv, NEW k \in Jobs,
           WorkerNext(k) \/ Work(k) \/ TickTimeout(k)
    PROVE  SentInv'
<1> USE DEF Parts
<1>1. CASE DeliverPaste(k) /\ ~UNCHANGED shown
  BY <1>1, SentPaste
<1> SUFFICES ASSUME DeliverPaste(k) => UNCHANGED shown PROVE SentInv'
  BY <1>1
<1>2. UNCHANGED <<turns, shown, boot, call>>
  BY DEF WorkerNext, Work, TickTimeout, TickRead, TickResolve, JobRearm, JobFail,
     DeliverCas, DeliverPaste, DeliverMark, turnVars, historyVars
<1>3. NoneOut /\ BootSaid' /\ (\A p \in Handlers : CallMild(p))
  BY <1>2, BootSame DEF NoneOut, SentInv, CallMild
<1>4. Owning(k) /\ job[k].row \in Rows
  BY WorkKinds, NextKinds, OwnRows DEF Owning
<1>5. PICK r \in Rows : r = job[k].row
  BY <1>4
<1>6. (Unsent(r) => Unsent(r)') /\ (NoTurn(r) => NoTurn(r)')
  BY <1>3, NoneOutSaid DEF Quiet
<1>7. job[k].pc # "mark" => Unsent(r)'
  BY <1>4, <1>5, <1>6 DEF SentInv, JobSaid
<1>8. \A l \in Jobs : JobMild(l)
  <2>1. ASSUME NEW l \in Jobs \ {k} PROVE JobMild(l)
    <3>1. CASE WorkerNext(k)
      BY <3>1, NextKinds DEF Copies, JobMild
    <3>2. CASE EndJob(k)
      BY <3>2 DEF EndJob, JobInv, JobMild
    <3>3. CASE JobTurns(k)
      BY <3>3 DEF JobTurns, JobMild
    <3> QED
      BY <3>1, <3>2, <3>3, WorkKinds
  <2>2. CASE ~Owning(k)'
    BY <2>1, <2>2 DEF JobMild
  <2>3. CASE Owning(k)'
    <3>1. ~EndJob(k)
      BY <2>3 DEF EndJob, JobInv, OffJob, Owning
    <3>2. job[k].pc # "mark"
      BY <3>1 DEF WorkerNext, Work, TickTimeout, TickRead, TickResolve, JobRearm,
         JobFail, DeliverCas, DeliverPaste, DeliverMark, InJob
    <3>3. job'[k].row = r
      <4>1. CASE WorkerNext(k)
        <5>1. job'[k] = [job[k] EXCEPT !.pc = "tick"]
          BY <2>3, <4>1, NextKinds DEF Owning, OffJob
        <5> QED
          BY <1>5, <5>1, JobType DEF Job
      <4>2. CASE JobTurns(k)
        BY <1>5, <4>2 DEF JobTurns
      <4> QED
        BY <3>1, <4>1, <4>2, WorkKinds
    <3>4. JobSaid(k)'
      BY <1>7, <3>2, <3>3 DEF JobSaid, Unsent
    <3> QED
      BY <2>1, <3>4 DEF JobMild
  <2> QED
    BY <2>2, <2>3
<1>9. \A q \in Rows : RowMild(q)
  <2>1. CASE UNCHANGED row
    BY <2>1, MildAlone
  <2>2. CASE ~UNCHANGED row
    <3>1. CASE JobRearm(k)
      <4>1. SetRow(r, Unclaimed(row[r])) /\ Pending(r) /\ Unsent(r)'
        BY <1>5, <1>7, <2>2, <3>1 DEF JobRearm, InJob, Rearmable, Waiting
      <4> QED
        BY <4>1, MildFree
    <3>2. CASE JobFail(k)
      <4>1. SetRow(r, Failed(row[r])) /\ NoTurn(r)'
        BY <1>5, <1>7, <2>2, <3>2 DEF JobFail, InJob, Unsent
      <4> QED
        BY <4>1, MildFree
    <3>3. CASE DeliverMark(k)
      <4>1. SetRow(r, Sent(row[r]))
        BY <1>5, <2>2, <3>3 DEF DeliverMark
      <4> QED
        BY <4>1, MildFree
    <3>4. CASE DeliverCas(k)
      <4>1. PICK x : SetRow(r, x) /\ x = [row[r] EXCEPT !.phase = "pasting"] /\ Pending(r)
        BY <1>5, <2>2, <3>4 DEF DeliverCas, Waiting
      <4>2. row'[r] = x /\ x.status = "pending"
        BY <4>1, RowType DEF SetRow, RowInv, Row, Pending
      <4>3. Unsent(r)'
        BY <1>7, <3>4 DEF DeliverCas, InJob
      <4>4. RowSaid(r)'
        BY <4>2, <4>3 DEF RowSaid
      <4> QED
        BY <4>1, <4>4, MildRow
    <3>5. ~(WorkerNext(k) \/ TickTimeout(k) \/ TickRead(k) \/ TickResolve(k)
            \/ DeliverPaste(k))
      BY <2>2 DEF WorkerNext, TickTimeout, TickRead, TickResolve, DeliverPaste,
         storeVars
    <3> QED
      BY <3>1, <3>2, <3>3, <3>4, <3>5 DEF Work
  <2> QED
    BY <2>1, <2>2
<1> QED
  BY <1>3, <1>8, <1>9, SentQuiet

LEMMA SentObserve ==
    ASSUME Parts, SentInv, NEW t \in told, Observe(t)
    PROVE  SentInv'
<1> USE DEF Parts
<1>1. t.row \in Rows
  BY DEF Rest, Task
<1>2. PICK r \in Rows : r = t.row
  BY <1>1
<1>3. UNCHANGED <<call, job, turns, shown, boot>>
  BY DEF Observe, ObserverStart, ObserverRestore, ObserverMark, ObserverDrop,
     jobVars, turnVars, historyVars
<1>4. \/ UNCHANGED row \/ RestoreRow(r, t.held)
      \/ SetRow(r, [row[r] EXCEPT !.pay = "restored"])
      \/ SetRow(r, Blank("gone"))
  BY <1>2 DEF Observe, ObserverStart, ObserverRestore, ObserverMark, ObserverDrop,
     storeVars
<1>5. \A q \in Rows : RowMild(q)
  BY <1>4, MildAlone, MildRestore, MildPay, MildGone
<1> QED
  BY <1>3, <1>5, BootSame, SentQuiet DEF NoneOut, CallMild, JobMild, SentInv

LEMMA SentBoot ==
    ASSUME Parts, OwnInv, SentInv, Boot
    PROVE  SentInv'
<1> USE DEF Parts
<1>1. UNCHANGED <<call, job, shown>> /\ boot # "up"
  BY DEF Boot, BootHold, BootGive, BootNext, BootRecover, jobVars, historyVars
<1>2. (\A p \in Handlers : CallMild(p)) /\ (\A k \in Jobs : JobMild(k))
  BY <1>1 DEF CallMild, JobMild
<1>3. CASE BootRecover
  <2> DEFINE lost == {r \in Rows : Exists(r) /\ sess[row[r].sess] = "deleted"}
             back == {r \in Rows \ lost : Claimed(r)}
  <2>1. /\ row' = [r \in Rows |-> IF r \in lost THEN Blank("gone")
                                  ELSE IF r \in back THEN Recovered(row[r])
                                  ELSE row[r]]
        /\ boot = "orphans" /\ UNCHANGED turns /\ boot' = "up"
    BY <1>3 DEF BootRecover, turnVars
  <2>2. turns = {} /\ NoneOut /\ BootSaid'
    BY <1>1, <2>1 DEF SentInv, BootSaid, NoneOut
  <2>3. ASSUME NEW r \in Rows PROVE RowMild(r)
    <3>1. CASE r \in lost
      <4>1. row'[r].status = "gone"
        BY <2>1, <3>1 DEF Blank
      <4> QED
        BY <4>1 DEF RowMild, Fresh, Pending, Waiting
    <3>2. CASE r \in back /\ row'[r] = Failed(row[r])
      <4>1. row'[r].status = "failed"
        BY <3>2, RowType DEF Failed, Unclaimed, Row
      <4> QED
        BY <2>1, <2>2, <4>1 DEF RowMild, RowSaid, Fresh, Pending, Waiting, NoTurn
    <3>3. CASE r \in back /\ row'[r] = Unclaimed(row[r]) /\ row[r].phase = "waiting"
      <4>1. row'[r].status = "pending" /\ Fresh(r)
        BY <3>3, RowType DEF Unclaimed, Row, Claimed, Pending, Fresh, Waiting
      <4> QED
        BY <4>1 DEF RowMild
    <3>4. CASE r \notin lost \cup back
      BY <2>1, <3>4 DEF RowMild, Fresh, Pending, Waiting
    <3> QED
      BY <2>1, <3>1, <3>2, <3>3, <3>4 DEF Recovered
  <2> QED
    BY <1>2, <2>2, <2>3, SentQuiet
<1>4. CASE BootNext
  <2>1. UNCHANGED row /\ (turns' = {} \/ (UNCHANGED turns /\ boot = "rows"))
    BY <1>4 DEF BootNext, storeVars
  <2>2. NoneOut /\ turns' = {}
    BY <1>1, <2>1 DEF SentInv, BootSaid, NoneOut
  <2>3. BootSaid'
    BY <2>2 DEF BootSaid
  <2> QED
    BY <1>2, <2>1, <2>2, <2>3, MildAlone, SentQuiet
<1>5. CASE \E r \in Rows : BootHold(r) \/ BootGive(r)
  <2>1. PICK r \in Rows : BootHold(r) \/ BootGive(r)
    BY <1>5
  <2>2. UNCHANGED row \/ RestoreHold(r) \/ RestoreRow(r, row[r].snap)
    BY <2>1 DEF BootHold, BootGive
  <2>3. UNCHANGED <<turns, boot>>
    BY <2>1 DEF BootHold, BootGive, turnVars
  <2>4. NoneOut /\ BootSaid'
    BY <1>1, <2>3, BootSame DEF NoneOut, SentInv
  <2>5. \A q \in Rows : RowMild(q)
    BY <2>2, MildAlone, MildRestore
  <2> QED
    BY <1>2, <2>4, <2>5, SentQuiet
<1> QED
  BY <1>3, <1>4, <1>5 DEF Boot

\* A crash takes every handler, every job and every turn that is not on disk.
LEMMA SentCrash ==
    ASSUME Parts, SentInv, Crash
    PROVE  SentInv'
<1>1. /\ \A p \in Handlers : call'[p].pc = "off"
      /\ \A k \in Jobs : job'[k].pc = "off"
      /\ UNCHANGED <<row, shown>> /\ boot' = "holds"
      /\ \A t \in turns' : t \in turns /\ t.pc = "kept"
  BY DEF Crash, OffCall, OffJob, storeVars, historyVars
<1>2. NoneOut /\ BootSaid'
  BY <1>1 DEF NoneOut, BootSaid
<1>3. \A p \in Handlers : CallMild(p)
  BY <1>1, SilentKinds DEF CallMild, CallSaid, Sending
<1>4. \A k \in Jobs : JobMild(k)
  BY <1>1 DEF JobMild, Owning
<1> QED
  BY <1>1, <1>2, <1>3, <1>4, MildAlone, SentQuiet

LEMMA SentStep ==
    ASSUME Parts, FireJobs, OwnInv, KnownInv, ClaimInv, SentInv,
           ~({"timeout", "retry"} \subseteq Ops), [Next]_vars
    PROVE  SentInv'
<1>1. CASE UNCHANGED vars
  <2>1. UNCHANGED <<row, call, job, turns, shown, boot>>
    BY <1>1 DEF vars, storeVars, jobVars, turnVars, historyVars
  <2> QED
    BY <2>1, MildAlone, BootSame, SentQuiet DEF NoneOut, CallMild, JobMild, SentInv
<1>2. ASSUME NEW p \in Handlers, Json(p) \/ JsonTimeout(p) PROVE SentInv'
  <2>1. UNCHANGED <<turns, shown>> \/ JsonEnqueue(p)
    BY <1>2 DEF Json, JsonTimeout, JsonAble, JsonGiveBack, JsonAdopt, JsonAfter,
       JsonHoldBack, JsonFailMark, JsonSentMark, turnVars, historyVars
  <2> QED
    BY <1>2, <2>1, SentJson, SentEnqueue
<1> QED
  BY <1>1, <1>2, SentRequest, SentProceed, SentPoll, SentFire, SentWork, SentObserve,
     SentTurn, SentBoot, SentCrash DEF Next

LEMMA SentInit == Init => SentInv
<1> SUFFICES ASSUME Init PROVE SentInv
  OBVIOUS
<1>1. /\ \A p \in Handlers : call[p].pc = "off"
      /\ \A k \in Jobs : job[k].pc = "off"
      /\ \A r \in Rows : row[r].status = "unused" /\ shown[r] = 0
      /\ turns = {} /\ boot = "up"
  BY DEF Init, OffCall, OffJob, Blank
<1> QED
  BY <1>1 DEF SentInv, RowSaid, CallSaid, JobSaid, BootSaid, Unsent, NoTurn, Owning,
              Sending

\* Where no session is reset, and a delivery either never times out or its row is
\* never retried: a message goes out once, and once more at most after each Retry.
\* Claims, jobs that are replaced or stopped, switches between Terminal and Rich
\* Chat, failed pastes, crashes and the recovery of claimed rows never send it twice.
THEOREM SentOnce ==
    ASSUME "reset" \notin Ops, ~({"timeout", "retry"} \subseteq Ops)
    PROVE  Spec => []MessageOnce
<1>1. TypeInv /\ OwnInv /\ KnownInv /\ ClaimInv /\ SentInv /\ [Next]_vars
        => (TypeInv /\ OwnInv /\ KnownInv /\ ClaimInv /\ SentInv)'
  <2>1. (Parts /\ FireJobs)' => TypeInv'
    BY TypeIsParts, PTL
  <2> QED
    BY <2>1, TypeIsParts, TypeStep, FireStep, OwnStep, KnownStep, ClaimStep, SentStep
<1>2. SentInv => MessageOnce
  BY DEF SentInv, MessageOnce
<1> QED
  BY <1>1, <1>2, TypeInit, OwnInit, KnownInit, ClaimInit, SentInit, PTL DEF Spec

-----------------------------------------------------------------------------
(* Comments: whoever has read a row knows what of its comments is at stake.   *)

\* The comments an agent has received or the user has deleted.
Fated == {c \in Comments : fate[c] # "none"}

\* A row that has been made; one that holds no comments any more; one that holds
\* none but cs.
Born(r) == row[r].status # "unused"
Spent(r) == Born(r) /\ row[r].pay # "held"
Carried(r, cs) == Born(r) /\ HeldBy(row[r]) \subseteq cs

RowKept(r) == /\ Gone(r) => row[r].pay # "held"
              /\ row[r].pay = "held" => row[r].snap # {}
              /\ HeldUnder(r) # {} => Spent(r)
CallKept(p) ==
    LET x == call[p] r == call[p].row IN
    /\ x.pc \in {"route", "able", "giveBack", "adopt"} =>
         Carried(r, x.held) /\ x.turn = 0
    /\ x.pc \in {"plain", "after", "sentMark"} => Spent(r)
    /\ x.pc = "plain" /\ x.turn > 0 => HeldUnder(r) \subseteq x.held
    /\ x.pc = "before" => Born(r)
    /\ x.pc = "erase" => Carried(r, x.held)
    /\ x.pc = "tell" => Gone(r)
    /\ x.pc \notin Deleting \cup {"rehold", "retry", "dismiss"}
JobKept(k) ==
    /\ job[k].pc \in {"resolve", "cas", "paste"} => Carried(job[k].row, job[k].held)
    /\ job[k].pc = "mark" => Carried(job[k].row, Fated)
TurnKept(t) ==
    /\ Spent(t.row)
    /\ t.pc = "queued" => boot = "up" /\ HeldUnder(t.row) \subseteq t.body
    /\ t.pc = "kept" => HeldUnder(t.row) \subseteq Fated
    /\ boot # "up" => t.pc = "kept"
TaskKept(t) ==
    /\ Born(t.row)
    /\ t.pc = "restore" => t.cap \/ Carried(t.row, t.held)
    /\ t.pc = "mark" => t.cap
    /\ t.pc = "drop" => Spent(t.row)
    /\ t.cap => Gone(t.row)
    /\ t.pc = "start" => ~t.cap
    /\ t.pc = "start" /\ t.out = "sent" => ~Pending(t.row)

HandInv ==
    /\ TakesUnused
    /\ \A r \in Rows : RowKept(r) /\ (captured[r] # {} => Gone(r))
    /\ \A p \in Handlers : CallKept(p)
    /\ \A k \in Jobs : JobKept(k)
    /\ \A t \in turns : TurnKept(t)
    /\ \A t \in told : TaskKept(t)
    /\ \A s \in Sessions : sess[s] # "deleted"

\* A row is made by the handler that has its id, or goes on: it takes no comments
\* back, and when it is deleted it holds none.
RowBegins(r) ==
    /\ ~Born(r) /\ Born(r)' /\ ~Gone(r)'
    /\ row'[r].pay = "held" => row'[r].snap # {}
    /\ \E q \in Handlers : Taking(q) /\ call[q].row = r /\ ~Taking(q)'
RowGoesOn(r) ==
    /\ Born(r) /\ Born(r)'
    /\ Gone(r) => Gone(r)'
    /\ Gone(r)' => Gone(r) \/ row'[r].pay # "held"
    /\ row'[r].pay = "held" => row[r].pay = "held" /\ row'[r].snap = row[r].snap
    /\ Pending(r)' => Pending(r)
RowFades(r) == row'[r] = row[r] \/ RowGoesOn(r) \/ RowBegins(r)

\* No comment comes under the hold of a row, but with the row's own comments.
HoldFades(r) == HeldUnder(r)' \subseteq HeldUnder(r) \/ (~Spent(r) /\ Spent(r)')

TakeGoes(p) ==
    \/ call'[p].row = call[p].row /\ (Taking(p)' => Taking(p))
    \/ ~Taking(p)' /\ (call'[p].row \notin Rows \/ Born(call'[p].row))
    \/ CallTakes(p)

LEMMA FadesKeep ==
    ASSUME NEW r \in Rows, RowFades(r), RowKept(r), HoldFades(r)
    PROVE  /\ RowKept(r)'
           /\ Born(r) => Born(r)'
           /\ Gone(r) => Gone(r)'
           /\ Spent(r) => Spent(r)' /\ HeldUnder(r)' \subseteq HeldUnder(r)
           /\ \A cs : Carried(r, cs) => Carried(r, cs)'
           /\ Born(r) /\ ~Pending(r) => ~Pending(r)'
<1>1. CASE row'[r] = row[r]
  BY <1>1 DEF RowKept, HoldFades, Gone, Spent, Born, Carried, Pending
<1>2. CASE RowGoesOn(r)
  BY <1>2 DEF RowGoesOn, RowKept, HoldFades, Gone, Spent, Born, Carried, HeldBy
<1>3. CASE RowBegins(r)
  BY <1>3 DEF RowBegins, RowKept, HoldFades, Gone, Spent, Born, Carried, HeldBy
<1> QED
  BY <1>1, <1>2, <1>3 DEF RowFades

LEMMA TakeFrame ==
    ASSUME Parts, TakesUnused, \A r \in Rows : RowFades(r), \A p \in Handlers : TakeGoes(p)
    PROVE  TakesUnused'
<1> SUFFICES ASSUME NEW p \in Handlers, Taking(p)'
             PROVE  /\ row'[call'[p].row].status = "unused"
                    /\ \A q \in Handlers : call'[q].row = call'[p].row => q = p
  BY DEF TakesUnused, Born
<1>1. CASE CallTakes(p)
  <2>1. PICK r \in Rows : r = call'[p].row
    BY <1>1 DEF CallTakes
  <2>2. ~Born(r)
    BY <1>1, <2>1 DEF CallTakes, Born
  <2>3. ~RowBegins(r)
    BY <1>1, <2>1 DEF CallTakes, RowBegins
  <2>4. ~Born(r)'
    BY <2>2, <2>3 DEF RowFades, RowGoesOn, Born
  <2> QED
    BY <1>1, <2>1, <2>4 DEF CallTakes, Born
<1>2. CASE ~CallTakes(p)
  <2>1. call'[p].row = call[p].row /\ Taking(p) /\ call[p].row \in Rows
    BY <1>2, OwnRows DEF TakeGoes
  <2>2. PICK r \in Rows : r = call[p].row
    BY <2>1
  <2>3. ~Born(r) /\ \A q \in Handlers : call[q].row = r => q = p
    BY <2>1, <2>2 DEF TakesUnused, Born
  <2>4. ~RowBegins(r)
    BY <2>2, <2>3 DEF RowBegins
  <2>5. ~Born(r)'
    BY <2>3, <2>4 DEF RowFades, RowGoesOn, Born
  <2>6. ASSUME NEW q \in Handlers, call'[q].row = r PROVE q = p
    BY <2>1, <2>2, <2>3, <2>6 DEF TakeGoes, CallTakes
  <2> QED
    BY <2>1, <2>2, <2>5, <2>6 DEF Born
<1> QED
  BY <1>1, <1>2

\* What is known of the rows stays known.
LEMMA HandFrame ==
    ASSUME Parts, HandInv, \A r \in Rows : RowFades(r) /\ HoldFades(r),
           Fated \subseteq Fated',
           \A r \in Rows : captured'[r] # {} => captured[r] # {} \/ Gone(r)',
           \A p \in Handlers : TakeGoes(p) /\ (call'[p] = call[p] \/ CallKept(p)'),
           \A k \in Jobs : \/ job'[k].pc = job[k].pc /\ job'[k].row = job[k].row
                              /\ job'[k].held = job[k].held
                           \/ JobKept(k)',
           \A t \in turns' : (t \in turns /\ UNCHANGED boot) \/ TurnKept(t)',
           \A t \in told' : t \in told \/ TaskKept(t)',
           \A s \in Sessions : sess'[s] # "deleted"
    PROVE  HandInv'
<1>1. ASSUME NEW r \in Rows
      PROVE  /\ RowKept(r)'
             /\ Born(r) => Born(r)'
             /\ Gone(r) => Gone(r)'
             /\ Spent(r) => Spent(r)' /\ HeldUnder(r)' \subseteq HeldUnder(r)
             /\ \A cs : Carried(r, cs) => Carried(r, cs)'
             /\ Born(r) /\ ~Pending(r) => ~Pending(r)'
  <2>1. RowFades(r) /\ RowKept(r) /\ HoldFades(r)
    BY DEF HandInv
  <2> QED
    BY <2>1, FadesKeep
<1>2. \A r \in Rows : captured'[r] # {} => Gone(r)'
  BY <1>1 DEF HandInv
<1>3. ASSUME NEW p \in Handlers, call'[p] = call[p] PROVE CallKept(p)'
  <2>1. CASE call[p].row \in Rows
    <3>1. CallKept(p)
      BY DEF HandInv
    <3> QED
      BY <1>1, <1>3, <2>1, <3>1 DEF CallKept, Carried
  <2>2. CASE call[p].row \notin Rows
    <3>1. call[p].pc \in Rowless
      BY <2>2, CallType DEF Parts, CallKnown
    <3>2. call[p].pc \notin Deleting \cup {"rehold", "retry", "dismiss"}
      BY DEF HandInv, CallKept
    <3> QED
      BY <1>3, <3>1, <3>2 DEF CallKept, Rowless, Resetting
  <2> QED
    BY <2>1, <2>2
<1>4. ASSUME NEW k \in Jobs, job'[k].pc = job[k].pc, job'[k].row = job[k].row,
             job'[k].held = job[k].held
      PROVE  JobKept(k)'
  <2>1. JobKept(k) /\ (Owning(k) => job[k].row \in Rows)
    BY OwnRows DEF HandInv
  <2>2. ASSUME NEW r \in Rows, Carried(r, Fated) PROVE Carried(r, Fated)'
    BY <1>1, <2>2 DEF Carried
  <2> QED
    BY <1>1, <1>4, <2>1, <2>2 DEF JobKept, Owning, Carried
<1>5. ASSUME NEW t \in turns, t \in turns', UNCHANGED boot PROVE TurnKept(t)'
  <2>1. TurnKept(t) /\ t.row \in Rows
    BY DEF HandInv, Parts, Rest, Turn
  <2> QED
    BY <1>1, <1>5, <2>1 DEF TurnKept
<1>6. ASSUME NEW t \in told PROVE TaskKept(t)'
  <2>1. TaskKept(t) /\ t.row \in Rows
    BY DEF HandInv, Parts, Rest, Task
  <2> QED
    BY <1>1, <2>1 DEF TaskKept, Carried
<1>7. TakesUnused'
  BY TakeFrame DEF HandInv
<1> QED
  BY <1>1, <1>2, <1>3, <1>4, <1>5, <1>6, <1>7 DEF HandInv

RowsFade == \A r \in Rows : RowFades(r)
HoldsFade == \A r \in Rows : HoldFades(r)

LEMMA FadeAlone == ASSUME UNCHANGED row PROVE RowsFade
  BY DEF RowsFade, RowFades

\* A row that is there becomes x.
LEMMA FadeRow ==
    ASSUME RowInv, NEW r \in Rows, Born(r), NEW x, SetRow(r, x), x.status # "unused",
           Gone(r) => x.status = "gone",
           x.status = "gone" => Gone(r) \/ x.pay # "held",
           x.pay = "held" => row[r].pay = "held" /\ x.snap = row[r].snap,
           x.status = "pending" => Pending(r)
    PROVE  RowsFade /\ row'[r] = x
<1>1. row'[r] = x /\ \A q \in Rows \ {r} : row'[q] = row[q]
  BY DEF SetRow, RowInv
<1>2. RowFades(r)
  BY <1>1 DEF RowFades, RowGoesOn, Born, Gone, Pending
<1> QED
  BY <1>1, <1>2 DEF RowsFade, RowFades

\* It no longer holds its comments.
LEMMA FadePay ==
    ASSUME RowInv, NEW r \in Rows, Born(r), NEW v, v # "held",
           SetRow(r, [row[r] EXCEPT !.pay = v])
    PROVE  RowsFade /\ Spent(r)'
<1>1. PICK x : x = [row[r] EXCEPT !.pay = v]
  OBVIOUS
<1>2. x.status = row[r].status /\ x.pay = v
  BY <1>1, RowType DEF Row
<1>3. RowsFade /\ row'[r] = x
  BY <1>1, <1>2, FadeRow DEF Born, Gone, Pending
<1> QED
  BY <1>2, <1>3 DEF Spent, Born

LEMMA FadeRestore ==
    ASSUME RowInv, PanelType, NEW r \in Rows, Born(r), NEW cs, RestoreRow(r, cs)
    PROVE  RowsFade /\ HoldsFade /\ Spent(r)'
<1>1. HoldsFade
  BY HoldPanel DEF HoldsFade, HoldFades, NoNewHold, HeldUnder
<1>2. RowsFade /\ Spent(r)'
  BY FadePay, FadeAlone DEF RestoreRow, storeVars, Spent, Born
<1> QED
  BY <1>1, <1>2

LEMMA FadeHold ==
    ASSUME RowInv, PanelType, NEW r \in Rows, RowKept(r), RestoreHold(r)
    PROVE  RowsFade /\ HoldsFade
<1>1. HoldsFade
  BY HoldEnds DEF HoldsFade, HoldFades, NoNewHold, HeldUnder
<1>2. RowsFade
  BY FadePay, FadeAlone DEF RestoreHold, RowKept, Spent
<1> QED
  BY <1>1, <1>2

LEMMA FadeGone ==
    ASSUME RowInv, NEW r \in Rows, Born(r), SetRow(r, Blank("gone"))
    PROVE  RowsFade /\ Gone(r)'
<1>1. PICK x : x = Blank("gone")
  OBVIOUS
<1>2. x.status = "gone" /\ x.pay # "held"
  BY <1>1 DEF Blank
<1> QED
  BY <1>1, <1>2, FadeRow DEF Gone

\* A pending row changes its state but not its comments.
LEMMA FadeFree ==
    ASSUME RowInv, NEW r \in Rows, Pending(r), NEW x, SetRow(r, x),
           \/ x = Failed(row[r]) \/ x = Sent(row[r]) \/ x = Unclaimed(row[r])
           \/ x = [row[r] EXCEPT !.claimed = TRUE]
           \/ \E ph : x = [row[r] EXCEPT !.phase = ph]
    PROVE  /\ RowsFade /\ row'[r] = x
           /\ row'[r].pay = row[r].pay /\ row'[r].snap = row[r].snap
           /\ row'[r].status \in {"pending", "sent", "failed"}
<1>1. /\ x.status \in {"pending", "sent", "failed"}
      /\ x.pay = row[r].pay /\ x.snap = row[r].snap
  BY RowType DEF Row, Failed, Sent, Unclaimed, Pending
<1>2. RowsFade /\ row'[r] = x
  BY <1>1, FadeRow DEF Born, Gone, Pending
<1> QED
  BY <1>1, <1>2

LEMMA HoldsAlone == ASSUME UNCHANGED panel PROVE HoldsFade
  BY DEF HoldsFade, HoldFades, HeldUnder

JobGoes(k) == \/ job'[k].pc = job[k].pc /\ job'[k].row = job[k].row
                 /\ job'[k].held = job[k].held
              \/ JobKept(k)'
JobsGoOn == \A k \in Jobs : JobGoes(k)

LEMMA JobsAlone == ASSUME UNCHANGED job PROVE JobsGoOn
  BY DEF JobsGoOn, JobGoes

LEMMA GoesStopped ==
    ASSUME JobInv, NEW ks, NEW k \in Jobs, NEW y, y = Stopped(ks, job)[k]
    PROVE  \/ y.pc = job[k].pc /\ y.row = job[k].row /\ y.held = job[k].held
           \/ y.pc = "off"
<1>1. CASE k \in ks /\ job[k].pc = "queued"
  BY <1>1 DEF Stopped, OffJob
<1>2. CASE ~(k \in ks /\ job[k].pc = "queued")
  <2>1. y = [job[k] EXCEPT !.stopped = @ \/ k \in ks, !.ahead = @ \ ks]
    BY <1>2 DEF Stopped
  <2> QED
    BY <2>1, JobType DEF Job
<1> QED
  BY <1>1, <1>2

LEMMA JobsStops ==
    ASSUME JobInv,
           \/ \E rs : StopJobs(rs)
           \/ \E p, r, s : Register(p, r, s)
    PROVE  JobsGoOn
<1>1. ASSUME NEW k \in Jobs, job'[k].pc \in {"off", "fire"} PROVE JobGoes(k)
  BY <1>1 DEF JobGoes, JobKept
<1>2. ASSUME NEW k \in Jobs, NEW ks, job'[k] = Stopped(ks, job)[k] PROVE JobGoes(k)
  <2>1. PICK y : y = job'[k]
    OBVIOUS
  <2> QED
    BY <1>1, <1>2, <2>1, GoesStopped DEF JobGoes
<1>3. CASE \E rs : StopJobs(rs)
  BY <1>2, <1>3 DEF StopJobs, JobsGoOn
<1>4. ASSUME NEW p, NEW r, NEW s, Register(p, r, s) PROVE JobsGoOn
  <2> DEFINE ks == {known[r]} \ {None}
             x == [OffJob EXCEPT !.pc = "fire", !.row = r, !.sess = s]
  <2>1. PICK k \in Jobs : job' = [Stopped(ks, job) EXCEPT ![k] = x]
    BY <1>4 DEF Register
  <2>2. job'[k] = x /\ \A l \in Jobs \ {k} : job'[l] = Stopped(ks, job)[l]
    BY <2>1 DEF Stopped
  <2>3. x.pc = "fire"
    BY DEF OffJob
  <2> HIDE DEF ks, x
  <2>4. JobGoes(k)
    BY <1>1, <2>2, <2>3
  <2>5. ASSUME NEW l \in Jobs \ {k} PROVE JobGoes(l)
    BY <1>2, <2>2
  <2> QED
    BY <2>4, <2>5 DEF JobsGoOn
<1> QED
  BY <1>3, <1>4

\* A step of handler p.
LEMMA HandCall ==
    ASSUME Parts, HandInv, NEW p \in Handlers, Alone(p),
           UNCHANGED boot, RowsFade, HoldsFade,
           \A t \in told' : t \in told \/ TaskKept(t)',
           \A r \in Rows : captured'[r] # {} => captured[r] # {} \/ Gone(r)',
           Fated \subseteq Fated', JobsGoOn, TakeGoes(p), call'[p] = call[p] \/ CallKept(p)',
           \A t \in turns' : t \in turns \/ TurnKept(t)',
           \A s \in Sessions : sess'[s] # "deleted"
    PROVE  HandInv'
<1>1. ASSUME NEW q \in Handlers PROVE TakeGoes(q) /\ (call'[q] = call[q] \/ CallKept(q)')
  <2>1. CASE q = p
    BY <2>1
  <2>2. CASE q # p
    BY <2>2 DEF Alone, TakeGoes, Taking
  <2> QED
    BY <2>1, <2>2
<1>2. \A k \in Jobs : \/ job'[k].pc = job[k].pc /\ job'[k].row = job[k].row
                         /\ job'[k].held = job[k].held
                      \/ JobKept(k)'
  BY DEF JobsGoOn, JobGoes
<1> QED
  BY <1>1, <1>2, HandFrame DEF RowsFade, HoldsFade

\* The steps at which a call relies on nothing.
Careless == Pcs \ ({"route", "able", "giveBack", "adopt", "plain", "after", "sentMark",
                    "before", "erase", "tell", "rehold", "retry", "dismiss"} \cup Deleting)

LEMMA CarelessKinds ==
    /\ {"off", "take", "takeNow", "made", "return", "cas", "check", "enq", "holdBack",
        "failMark"} \subseteq Careless
    /\ Resetting \subseteq Careless
  BY DEF Careless, Pcs, Dispatching, Deleting, Resetting

LEMMA CarelessKept ==
    ASSUME NEW p, call'[p].pc \in Careless
    PROVE  CallKept(p)'
  BY DEF CallKept, Careless

LEMMA TakeReturn ==
    ASSUME CallInv, NEW p \in Handlers, Return(p)
    PROVE  Alone(p) /\ TakeGoes(p) /\ CallKept(p)'
<1>1. call'[p] = OffCall
  BY DEF Return, CallInv
<1>2. call'[p].pc = "off" /\ call'[p].row \notin Rows
  BY <1>1, DeliveryAssumption DEF OffCall
<1> QED
  BY <1>2, AloneForms, CarelessKept, CarelessKinds DEF TakeGoes, Taking

LEMMA TakeGoto ==
    ASSUME CallInv, NEW p \in Handlers, NEW pc, pc \notin {"take", "takeNow"},
           Goto(p, pc)
    PROVE  /\ Alone(p) /\ TakeGoes(p) /\ call'[p] = [call[p] EXCEPT !.pc = pc]
           /\ call'[p].pc = pc /\ call'[p].row = call[p].row
           /\ call'[p].held = call[p].held /\ call'[p].turn = call[p].turn
<1>1. call'[p] = [call[p] EXCEPT !.pc = pc] /\ Alone(p)
  BY DEF Goto, CallInv, Alone
<1> QED
  BY <1>1, CallType DEF Call, TakeGoes, Taking

LEMMA HandClaim ==
    ASSUME Parts, HandInv, NEW p \in Handlers, NEW r \in Rows, Claim(p, r),
           UNCHANGED boot
    PROVE  HandInv'
<1> USE DEF Parts
<1>1. Alone(p) /\ UNCHANGED <<turns, boot, told, captured, sess, panel, fate, job>>
  BY AloneClaim DEF Claim, turnVars, sessVars, historyVars, jobVars
<1>2. PICK x : SetRow(r, x) /\ x = [row[r] EXCEPT !.claimed = TRUE] /\ Pending(r)
  BY DEF Claim
<1>3. /\ RowsFade /\ row'[r].pay = row[r].pay /\ row'[r].snap = row[r].snap
      /\ row'[r].status # "unused"
  BY <1>2, FadeFree
<1>4. /\ call'[p].pc = "route" /\ call'[p].row = r /\ call'[p].turn = 0
      /\ call'[p].held = HeldBy(row[r])
  BY DEF Claim, CallInv, Begin, OffCall
<1>5. Carried(r, HeldBy(row[r]))'
  BY <1>1, <1>3 DEF Carried, Born, HeldBy
<1>6. CallKept(p)'
  BY <1>3, <1>4, <1>5 DEF CallKept, Carried, Deleting, Born, HeldBy
<1>7. TakeGoes(p)
  BY <1>2, <1>4 DEF TakeGoes, Taking, Born, Pending
<1> QED
  BY <1>1, <1>3, <1>6, <1>7, HoldsAlone, JobsAlone, HandCall DEF Fated, HandInv

LEMMA HandRequest ==
    ASSUME Parts, HandInv, Ops \cap {"retry", "dismiss", "delete"} = {},
           NEW p \in Callers, Request(p)
    PROVE  HandInv'
<1> USE DEF Parts
<1>1. p \in Handlers /\ Alone(p)
  BY AloneRequest, CallerIsHandler
<1>2. ASSUME NEW r \in Rows, SendNow(p, r) PROVE HandInv'
  BY <1>1, <1>2, HandClaim DEF SendNow, Claim
<1>3. CASE \E r \in Rows : SendNow(p, r)
  BY <1>2, <1>3
<1> SUFFICES ASSUME ~\E r \in Rows : SendNow(p, r) PROVE HandInv'
  BY <1>3
<1>4. /\ ~\E r \in Rows : RetryStart(p, r) \/ DismissStart(p, r)
      /\ ~\E s \in Sessions : DeleteStart(p, s)
  BY DEF RetryStart, DismissStart, DeleteStart, Starts
<1>5. /\ UNCHANGED <<turns, boot, told, captured, sess, row, job>>
      /\ \A c \in Comments : fate[c] # "none" => fate'[c] # "none"
      /\ \A c \in Comments, r \in Rows : panel'[c] = r => panel[c] = r
  <2>1. CASE \E c \in Comments : Discard(p, c)
    BY <2>1, DeliveryAssumption DEF Discard, turnVars, sessVars, jobVars, HistoryType,
       PanelType
  <2>2. CASE ~\E c \in Comments : Discard(p, c)
    <3>1. UNCHANGED <<turns, boot, told, captured, sess, row, job, fate, panel>>
      BY <1>4, <2>2 DEF Request, CancelStart, CreateStart, SendStart, Toggle,
         ResetStart, turnVars, sessVars, jobVars, historyVars, storeVars
    <3> QED
      BY <3>1
  <2> QED
    BY <2>1, <2>2
<1>6. ASSUME TakeGoes(p), call'[p] = call[p] \/ CallKept(p)' PROVE HandInv'
  <2>1. HoldsFade /\ Fated \subseteq Fated'
    BY <1>5 DEF HoldsFade, HoldFades, HeldUnder, Fated
  <2> QED
    BY <1>1, <1>5, <1>6, <2>1, FadeAlone, JobsAlone, HandCall DEF HandInv
<1>7. CASE UNCHANGED call
  BY <1>6, <1>7 DEF TakeGoes, Taking
<1>8. ASSUME NEW r \in Rows, NEW s \in Sessions, CreateStart(p, r, s) \/ SendStart(p, r, s)
      PROVE  HandInv'
  <2>1. /\ call'[p].pc \in {"take", "takeNow"} /\ call'[p].row = r /\ ~Born(r)
        /\ \A q \in Handlers : call[q].row # r
    BY <1>1, <1>8 DEF CreateStart, SendStart, CallInv, Begin, OffCall, Born
  <2>2. TakeGoes(p)
    BY <1>1, <2>1 DEF TakeGoes, CallTakes, Taking, Alone, Born
  <2> QED
    BY <1>6, <2>1, <2>2, CarelessKinds, CarelessKept
<1>9. ASSUME NEW r \in Rows, CancelStart(p, r) PROVE HandInv'
  <2>1. /\ call'[p].pc \in {"before", "erase"} /\ call'[p].row = r /\ Born(r)
        /\ call'[p].held = HeldBy(row[r])
    BY <1>1, <1>9 DEF CancelStart, CallInv, Begin, OffCall, Born, Exists
  <2>2. TakeGoes(p)
    BY <2>1 DEF TakeGoes, Taking
  <2>3. CallKept(p)'
    BY <1>5, <2>1 DEF CallKept, Carried, Born, Deleting
  <2> QED
    BY <1>6, <2>2, <2>3
<1>10. ASSUME NEW s \in Sessions, ResetStart(p, s) PROVE HandInv'
  <2>1. call'[p].pc = "list" /\ call'[p].row \notin Rows
    BY <1>1, <1>10, DeliveryAssumption DEF ResetStart, CallInv, Begin, OffCall
  <2>2. TakeGoes(p) /\ CallKept(p)'
    BY <2>1, CarelessKinds, CarelessKept DEF TakeGoes, Taking, Resetting
  <2> QED
    BY <1>6, <2>2
<1> QED
  BY <1>4, <1>7, <1>8, <1>9, <1>10 DEF Request, Discard, Toggle

LEMMA HandFire ==
    ASSUME Parts, HandInv, NEW p \in Handlers, Route(p) \/ Fire(p)
    PROVE  HandInv'
<1> USE DEF Parts
<1>1. /\ Alone(p) /\ call[p].row \in Rows
      /\ UNCHANGED <<turns, boot, told, captured, sess, panel, fate>>
      /\ call[p].pc \notin {"off", "take", "takeNow"}
  BY AloneRoute, AtRow, RowPcs DEF Route, Fire, SendFire, FireCas, FireCheck,
     FireEnqueue, At, Dispatching, turnVars, sessVars, storeVars, historyVars
<1>2. PICK r \in Rows : r = call[p].row
  BY <1>1
<1>3. CallKept(p) /\ RowKept(r)
  BY DEF HandInv
<1>4. ASSUME RowsFade, JobsGoOn, TakeGoes(p), CallKept(p)' PROVE HandInv'
  BY <1>1, <1>4, HoldsAlone, HandCall DEF Fated, HandInv
<1>5. ASSUME Register(p, r, call[p].sess), UNCHANGED row PROVE HandInv'
  <2>1. call'[p].pc = "cas" /\ call'[p].row = r
    BY <1>5 DEF Register, CallInv, Begin, OffCall
  <2> QED
    BY <1>2, <1>4, <1>5, <2>1, JobsStops, FadeAlone, CarelessKinds, CarelessKept
       DEF TakeGoes, Taking
<1>6. CASE Route(p) /\ ~Register(p, r, call[p].sess)
  <2>1. PICK pc \in {"plain", "giveBack", "able"} :
          /\ Goto(p, pc) /\ call[p].pc = "route"
          /\ pc = "plain" => call[p].held = {}
    BY <1>2, <1>6 DEF Route, At
  <2>2. Carried(r, call[p].held) /\ call[p].turn = 0
    BY <1>2, <1>3, <2>1 DEF CallKept
  <2>3. UNCHANGED <<row, job>>
    BY <1>2, <1>6 DEF Route, storeVars, jobVars
  <2>4. /\ TakeGoes(p) /\ call'[p].pc = pc /\ call'[p].row = r
        /\ call'[p].held = call[p].held /\ call'[p].turn = 0
    BY <1>2, <2>1, <2>2, TakeGoto
  <2>5. CallKept(p)'
    <3>1. pc = "plain" => Spent(r)
      BY <1>3, <2>1, <2>2 DEF Carried, Spent, RowKept, HeldBy
    <3> QED
      BY <2>2, <2>3, <2>4, <3>1 DEF CallKept, Carried, Spent, Born, Deleting
  <2> QED
    BY <1>4, <2>3, <2>4, <2>5, FadeAlone, JobsAlone
<1>7. ASSUME RowsFade, JobsGoOn, Return(p) \/ \E pc \in {"enq", "check"} : Goto(p, pc)
      PROVE  HandInv'
  <2>1. ASSUME NEW pc \in {"enq", "check"}, Goto(p, pc) PROVE TakeGoes(p) /\ CallKept(p)'
    <3>1. TakeGoes(p) /\ call'[p].pc = pc
      BY <2>1, TakeGoto
    <3> QED
      BY <3>1, CarelessKinds, CarelessKept
  <2>2. TakeGoes(p) /\ CallKept(p)'
    BY <1>7, <2>1, TakeReturn
  <2> QED
    BY <1>4, <1>7, <2>2
<1>8. CASE SendFire(p)
  BY <1>2, <1>5, <1>7, <1>8, FadeAlone, JobsAlone DEF SendFire, storeVars, jobVars
<1>9. CASE FireCas(p)
  <2>1. RowsFade
    BY <1>2, <1>9, FadeAlone, FadeFree DEF FireCas
  <2> QED
    BY <1>7, <1>9, <2>1, JobsAlone DEF FireCas, jobVars
<1>10. CASE FireCheck(p)
  <2>1. JobsGoOn
    <3>1. \A k \in Jobs : job'[k] = job[k] \/ job'[k] = OffJob
      BY <1>10 DEF FireCheck, jobVars, JobInv
    <3> QED
      BY <3>1 DEF JobsGoOn, JobGoes, JobKept, OffJob
  <2> QED
    BY <1>7, <1>10, <2>1, FadeAlone DEF FireCheck, storeVars
<1>11. CASE FireEnqueue(p)
  <2>1. JobsGoOn
    <3>1. PICK k, ls : job' = [job EXCEPT ![k].pc = "queued", ![k].ahead = ls]
      BY <1>11 DEF FireEnqueue
    <3>2. ASSUME NEW l \in Jobs PROVE JobGoes(l)
      <4>1. job'[l] = job[l] \/ job'[l] = [job[l] EXCEPT !.pc = "queued", !.ahead = ls]
        BY <3>1 DEF JobInv
      <4> QED
        BY <4>1, JobType DEF JobGoes, JobKept, Job
    <3> QED
      BY <3>2 DEF JobsGoOn
  <2> QED
    BY <1>7, <1>11, <2>1, FadeAlone DEF FireEnqueue, storeVars
<1> QED
  BY <1>2, <1>5, <1>6, <1>8, <1>9, <1>10, <1>11 DEF Fire, Route, storeVars

LEMMA HandJson ==
    ASSUME Parts, HandInv, NEW p \in Handlers, Json(p) \/ JsonTimeout(p)
    PROVE  HandInv'
<1> USE DEF Parts
<1>1. /\ call[p].pc \in JsonPcs /\ boot = "up"
      /\ UNCHANGED <<boot, told, captured, sess, job>>
  BY DEF Json, JsonTimeout, JsonAble, JsonGiveBack, JsonAdopt, JsonEnqueue,
         JsonAfter, JsonHoldBack, JsonFailMark, JsonSentMark, At, JsonPcs, jobVars,
         sessVars
<1>2. Alone(p) /\ call[p].row \in Rows
  BY <1>1, AloneJson, AtRow, RowPcs DEF At, JsonPcs, Dispatching
<1>3. PICK r \in Rows : r = call[p].row
  BY <1>2
<1>4. CallKept(p) /\ RowKept(r) /\ JobsGoOn
  BY <1>1, JobsAlone DEF HandInv
<1>5. ASSUME RowsFade, HoldsFade, Fated \subseteq Fated', TakeGoes(p), CallKept(p)',
             \A t \in turns' : t \in turns \/ TurnKept(t)'
      PROVE  HandInv'
  BY <1>1, <1>2, <1>4, <1>5, HandCall DEF HandInv
<1>6. ASSUME RowsFade, HoldsFade, UNCHANGED <<turns, fate>>,
             \/ Return(p)
             \/ \E pc \in {"failMark", "holdBack"} : Goto(p, pc)
      PROVE  HandInv'
  <2>1. ASSUME NEW pc \in {"failMark", "holdBack"}, Goto(p, pc)
        PROVE  TakeGoes(p) /\ CallKept(p)'
    <3>1. TakeGoes(p) /\ call'[p].pc = pc
      BY <2>1, TakeGoto
    <3> QED
      BY <3>1, CarelessKinds, CarelessKept
  <2> QED
    BY <1>5, <1>6, <2>1, TakeReturn DEF Fated
<1>7. CASE JsonAble(p)
  <2>1. PICK pc \in {"adopt", "giveBack"} : Goto(p, pc)
    BY <1>7 DEF JsonAble
  <2>2. /\ TakeGoes(p) /\ call'[p].pc = pc /\ call'[p].row = r
        /\ call'[p].held = call[p].held /\ call'[p].turn = call[p].turn
    BY <1>3, <2>1, TakeGoto
  <2>3. Carried(r, call[p].held) /\ call[p].turn = 0
    BY <1>3, <1>4, <1>7 DEF CallKept, JsonAble, At
  <2>4. UNCHANGED <<row, panel, turns, fate>>
    BY <1>7 DEF JsonAble, storeVars, turnVars, historyVars
  <2>5. CallKept(p)'
    BY <2>2, <2>3, <2>4 DEF CallKept, Carried, Born, Deleting
  <2> QED
    BY <1>5, <2>2, <2>4, <2>5, FadeAlone, HoldsAlone DEF Fated
<1>8. CASE JsonGiveBack(p)
  <2>1. Born(r)
    BY <1>3, <1>4, <1>8 DEF CallKept, JsonGiveBack, At, Carried
  <2>2. RowsFade /\ HoldsFade
    BY <1>3, <1>8, <2>1, FadeRestore DEF JsonGiveBack
  <2> QED
    BY <1>6, <1>8, <2>2 DEF JsonGiveBack, turnVars, historyVars
<1>9. CASE JsonAdopt(p) /\ ~Adopt(r, call[p].held)
  BY <1>3, <1>6, <1>9, FadeAlone, HoldsAlone DEF JsonAdopt, storeVars, historyVars
<1>10. CASE JsonAdopt(p) /\ Adopt(r, call[p].held)
  <2>1. Born(r) /\ row[r].pay = "held" /\ HeldUnder(r) = {}
    BY <1>3, <1>4, <1>10 DEF CallKept, JsonAdopt, At, Carried, Adopt, RowKept, Spent
  <2>2. RowsFade /\ Spent(r)'
    BY <1>10, <2>1, FadePay DEF Adopt
  <2>3. ASSUME NEW c \in Comments, NEW q \in Rows, panel'[c] = q
        PROVE  panel[c] = q \/ (q = r /\ c \in call[p].held)
    BY <1>10, <2>3 DEF Adopt
  <2>4. HoldsFade /\ HeldUnder(r)' \subseteq call[p].held
    BY <2>1, <2>2, <2>3 DEF HoldsFade, HoldFades, HeldUnder, Spent
  <2>5. call'[p] = [call[p] EXCEPT !.pc = "plain", !.turn = adoption[r] + 1]
    <3>1. call' = [call EXCEPT ![p].pc = "plain", ![p].turn = adoption[r] + 1]
      BY <1>3, <1>10, <2>1 DEF JsonAdopt
    <3> QED
      BY <3>1 DEF CallInv
  <2>6. call'[p].pc = "plain" /\ call'[p].row = r /\ call'[p].held = call[p].held
    BY <1>3, <2>5, CallType DEF Call
  <2>7. TakeGoes(p) /\ CallKept(p)'
    BY <1>3, <2>2, <2>4, <2>6 DEF TakeGoes, Taking, CallKept, Deleting
  <2> QED
    BY <1>5, <1>10, <2>2, <2>4, <2>7 DEF JsonAdopt, historyVars, Fated
<1>11. CASE JsonEnqueue(p)
  <2>1. /\ Spent(r) /\ (call[p].turn > 0 => HeldUnder(r) \subseteq call[p].held)
        /\ UNCHANGED <<row, panel>>
    BY <1>3, <1>4, <1>11 DEF CallKept, JsonEnqueue, At, storeVars
  <2>2. CASE ~Goto(p, "after")
    BY <1>6, <1>11, <2>1, <2>2, FadeAlone, HoldsAlone DEF JsonEnqueue, historyVars
  <2>3. CASE Goto(p, "after")
    <3>1. TakeGoes(p) /\ call'[p].pc = "after" /\ call'[p].row = r
      BY <1>3, <2>3, TakeGoto
    <3>2. CallKept(p)'
      BY <2>1, <3>1 DEF CallKept, Spent, Born, Deleting
    <3>3. \A t \in turns' : t \in turns \/ TurnKept(t)'
      <4>1. call[p].turn \in Nat
        BY CallType DEF Call
      <4>2. ASSUME NEW t \in turns', t \notin turns PROVE TurnKept(t)'
        <5>1. /\ t.row = r /\ t.body = call[p].held /\ t.pc = "queued"
              /\ call[p].turn # 0
          BY <1>3, <1>11, <4>2 DEF JsonEnqueue
        <5> QED
          BY <1>1, <2>1, <4>1, <5>1 DEF TurnKept, Spent, Born, HeldUnder
      <4> QED
        BY <4>2
    <3>4. Fated \subseteq Fated'
      BY <1>11 DEF JsonEnqueue, GoOut, historyVars, Fated
    <3> QED
      BY <1>5, <2>1, <3>1, <3>2, <3>3, <3>4, FadeAlone, HoldsAlone
  <2> QED
    BY <2>2, <2>3
<1>12. CASE JsonAfter(p)
  <2>1. Goto(p, "sentMark") /\ Spent(r) /\ UNCHANGED <<row, panel, turns, fate>>
    BY <1>3, <1>4, <1>12 DEF JsonAfter, At, CallKept, storeVars, turnVars, historyVars
  <2>2. TakeGoes(p) /\ call'[p].pc = "sentMark" /\ call'[p].row = r
    BY <1>3, <2>1, TakeGoto
  <2>3. CallKept(p)'
    BY <2>1, <2>2 DEF CallKept, Spent, Born, Deleting
  <2> QED
    BY <1>5, <2>1, <2>2, <2>3, FadeAlone, HoldsAlone DEF Fated
<1>13. CASE JsonHoldBack(p) \/ JsonTimeout(p)
  <2>1. Goto(p, "failMark") /\ UNCHANGED <<turns, fate>>
        /\ (UNCHANGED <<row, panel>> \/ RestoreHold(r))
    BY <1>3, <1>13 DEF JsonHoldBack, JsonTimeout, storeVars, turnVars, historyVars
  <2>2. RowsFade /\ HoldsFade
    BY <1>4, <2>1, FadeHold, FadeAlone, HoldsAlone
  <2> QED
    BY <1>6, <2>1, <2>2
<1>14. CASE JsonFailMark(p) \/ JsonSentMark(p)
  <2>1. RowsFade
    BY <1>3, <1>14, FadeFree, FadeAlone DEF JsonFailMark, JsonSentMark, Claimed
  <2> QED
    BY <1>6, <1>14, <2>1, HoldsAlone DEF JsonFailMark, JsonSentMark, turnVars, historyVars
<1> QED
  BY <1>7, <1>8, <1>9, <1>10, <1>11, <1>12, <1>13, <1>14 DEF Json

LEMMA NewsKept ==
    ASSUME NEW r \in Rows, Born(r)', NEW o, NEW t, t = News(r, o),
           o = "sent" => ~Pending(r)'
    PROVE  TaskKept(t)'
<1>1. t.row = r /\ t.pc = "start" /\ ~t.cap /\ t.out = o
  BY DEF News
<1> QED
  BY <1>1 DEF TaskKept, Born, Pending

\* A row is made.
LEMMA FadeTake ==
    ASSUME Parts, TakesUnused, NEW p \in Handlers, Taking(p), ~Taking(p)',
           NEW r \in Rows, r = call[p].row, NEW x, SetRow(r, x), x.status = "pending",
           x.pay = "held" => x.snap # {}
    PROVE  RowsFade /\ row'[r] = x
<1>1. row'[r] = x /\ \A q \in Rows \ {r} : row'[q] = row[q]
  BY DEF SetRow, RowInv, Parts
<1>2. RowBegins(r)
  BY <1>1 DEF RowBegins, Born, Gone, TakesUnused
<1> QED
  BY <1>1, <1>2 DEF RowsFade, RowFades

LEMMA HandTake ==
    ASSUME Parts, HandInv, NEW p \in Callers, CreateTake(p) \/ SendTake(p)
    PROVE  HandInv'
<1> USE DEF Parts
<1>1. p \in Handlers /\ Taking(p) /\ Alone(p)
      /\ UNCHANGED <<boot, told, captured, sess, fate, turns, job>>
  BY CallerIsHandler, AloneProceed DEF Proceed, CreateTake, SendTake, At, Taking,
     sessVars, historyVars, turnVars, jobVars
<1>2. PICK r \in Rows : r = call[p].row
  BY <1>1, OwnRows
<1>3. \A pc \in {"made"} : Goto(p, pc) => TakeGoes(p) /\ CallKept(p)' /\ ~Taking(p)'
  <2>1. Goto(p, "made") => TakeGoes(p) /\ call'[p].pc = "made"
    BY <1>1, TakeGoto
  <2> QED
    BY <2>1, CarelessKinds, CarelessKept DEF Taking
<1>4. Return(p) => TakeGoes(p) /\ CallKept(p)' /\ ~Taking(p)'
  <2>1. Return(p) => call'[p].pc = "off"
    BY <1>1 DEF Return, CallInv, OffCall
  <2> QED
    BY <1>1, <2>1, TakeReturn DEF Taking
<1>5. Return(p) \/ Goto(p, "made")
  BY DEF CreateTake, SendTake
<1>6. HoldsFade
  <2>1. ASSUME NEW c \in Comments, NEW q \in Rows, panel'[c] = q PROVE panel[c] = q
    BY <2>1, DeliveryAssumption DEF CreateTake, SendTake, storeVars
  <2> QED
    BY <2>1 DEF HoldsFade, HoldFades, HeldUnder
<1>7. RowsFade
  <2>1. CASE CreateTake(p)
    <3>1. PICK cs, x : /\ SetRow(r, x)
                       /\ x = [Blank("pending") EXCEPT
                          !.sess = call[p].sess, !.tmux = call[p].tmux,
                          !.pay = IF cs = {} THEN "none" ELSE "held", !.snap = cs]
      BY <1>2, <2>1 DEF CreateTake
    <3>2. x.status = "pending" /\ (x.pay = "held" => x.snap # {})
      BY <3>1 DEF Blank
    <3> QED
      BY <1>1, <1>2, <1>3, <1>4, <1>5, <3>1, <3>2, FadeTake DEF HandInv
  <2>2. CASE SendTake(p) /\ ~UNCHANGED row
    <3>1. PICK cs, x : /\ SetRow(r, x) /\ cs # {}
                       /\ x = [Blank("pending") EXCEPT
                            !.claimed = TRUE, !.phase = "waiting",
                            !.sess = call[p].sess, !.imm = TRUE, !.tmux = TRUE,
                            !.pay = "held", !.snap = cs]
      BY <1>2, <2>2 DEF SendTake, storeVars
    <3>2. x.status = "pending" /\ (x.pay = "held" => x.snap # {})
      BY <3>1 DEF Blank
    <3> QED
      BY <1>1, <1>2, <1>3, <1>4, <1>5, <3>1, <3>2, FadeTake DEF HandInv
  <2> QED
    BY <2>1, <2>2, FadeAlone
<1> QED
  BY <1>1, <1>3, <1>4, <1>5, <1>6, <1>7, JobsAlone, HandCall DEF Fated, HandInv

LEMMA HandCancel ==
    ASSUME Parts, HandInv, NEW p \in Callers,
           CancelBefore(p) \/ CancelErase(p) \/ CancelTell(p) \/ ReturnComments(p)
    PROVE  HandInv'
<1> USE DEF Parts
<1>1. p \in Handlers /\ Alone(p) /\ call[p].row \in Rows
      /\ UNCHANGED <<boot, sess, fate, turns>>
  BY CallerIsHandler, AloneProceed, AtRow, RowPcs DEF Proceed, CancelBefore,
     CancelErase, CancelTell, ReturnComments, sessVars, historyVars, turnVars
<1>2. PICK r \in Rows : r = call[p].row
  BY <1>1
<1>3. CallKept(p)
  BY <1>1 DEF HandInv
<1>4. ASSUME RowsFade, HoldsFade, JobsGoOn, TakeGoes(p), CallKept(p)',
             \A t \in told' : t \in told \/ TaskKept(t)',
             \A q \in Rows : captured'[q] # {} => captured[q] # {} \/ Gone(q)'
      PROVE  HandInv'
  BY <1>1, <1>4, HandCall DEF Fated, HandInv
<1>5. CASE CancelBefore(p)
  <2>1. call'[p] = [call[p] EXCEPT !.pc = "erase", !.held = row[r].snap]
    <3>1. call' = [call EXCEPT ![p].pc = "erase", ![p].held = row[r].snap]
      BY <1>2, <1>5 DEF CancelBefore
    <3> QED
      BY <1>1, <3>1 DEF CallInv
  <2>2. call'[p].pc = "erase" /\ call'[p].row = r /\ call'[p].held = row[r].snap
    BY <1>1, <1>2, <2>1, CallType DEF Call
  <2>3. Born(r) /\ UNCHANGED <<row, panel, told, captured, job>>
    BY <1>2, <1>3, <1>5 DEF CancelBefore, CallKept, At, storeVars, jobVars
  <2>4. TakeGoes(p) /\ CallKept(p)'
    BY <1>2, <2>2, <2>3 DEF TakeGoes, Taking, CallKept, Carried, HeldBy, Born, Deleting
  <2> QED
    BY <1>4, <2>3, <2>4, FadeAlone, HoldsAlone, JobsAlone
<1>6. CASE CancelErase(p)
  <2>1. UNCHANGED <<panel, told, captured, job>>
    BY <1>6 DEF CancelErase, jobVars
  <2>2. CASE UNCHANGED row /\ Return(p)
    BY <1>1, <1>4, <2>1, <2>2, FadeAlone, HoldsAlone, JobsAlone, TakeReturn
  <2>3. CASE Cancellable(r, call[p].sess)
    <3>1. SetRow(r, Blank("gone")) /\ Born(r)
      BY <1>2, <1>6, <2>3 DEF CancelErase, Cancellable, Pending, Born
    <3>2. RowsFade /\ Gone(r)'
      BY <3>1, FadeGone
    <3>3. ASSUME NEW pc \in {"tell", "return"}, Goto(p, pc)
          PROVE  TakeGoes(p) /\ CallKept(p)'
      <4>1. TakeGoes(p) /\ call'[p].pc = pc /\ call'[p].row = r
        BY <1>1, <1>2, <3>3, TakeGoto
      <4> QED
        BY <3>2, <4>1 DEF CallKept, Gone, Deleting
    <3>4. Return(p) \/ \E pc \in {"tell", "return"} : Goto(p, pc)
      BY <1>2, <1>6, <2>3 DEF CancelErase
    <3> QED
      BY <1>1, <1>4, <2>1, <3>2, <3>3, <3>4, HoldsAlone, JobsAlone, TakeReturn
  <2> QED
    BY <1>2, <1>6, <2>2, <2>3 DEF CancelErase
<1>7. CASE CancelTell(p)
  <2>1. /\ Gone(r) /\ UNCHANGED <<row, panel>> /\ JobsGoOn
        /\ told' = told \cup {News(r, "cancelled")}
    BY <1>2, <1>3, <1>7, JobsStops DEF CancelTell, CallKept, At, storeVars
  <2>2. \A q \in Rows : captured'[q] # {} => captured[q] # {} \/ Gone(q)'
    BY <1>2, <1>7, <2>1 DEF CancelTell, Gone, Rest
  <2>3. \A t \in told' : t \in told \/ TaskKept(t)'
    BY <2>1, NewsKept DEF Born, Gone
  <2> QED
    BY <1>1, <1>4, <1>7, <2>1, <2>2, <2>3, FadeAlone, HoldsAlone, TakeReturn
       DEF CancelTell
<1>8. CASE ReturnComments(p)
  <2>1. HoldsFade
    BY <1>8, HoldPanel DEF ReturnComments, HoldsFade, HoldFades, NoNewHold, HeldUnder
  <2> QED
    BY <1>1, <1>4, <1>8, <2>1, FadeAlone, JobsAlone, TakeReturn
       DEF ReturnComments, jobVars
<1> QED
  BY <1>5, <1>6, <1>7, <1>8

LEMMA HandReset ==
    ASSUME Parts, HandInv, NEW p \in Callers,
           \/ ResetList(p) \/ ResetArchive(p) \/ ResetGivenUp(p) \/ ResetMove(p)
           \/ \E r \in Rows : ResetStop(p, r) \/ ResetRearm(p, r)
    PROVE  HandInv'
<1> USE DEF Parts
<1>1. p \in Handlers /\ Alone(p) /\ UNCHANGED <<boot, fate, turns, captured, panel>>
  BY CallerIsHandler, AloneProceed DEF Proceed, ResetList, ResetArchive, ResetGivenUp,
     ResetMove, ResetStop, ResetRearm, storeVars, historyVars, turnVars
<1>2. TakeGoes(p) /\ CallKept(p)'
  <2>1. CASE Return(p)
    BY <1>1, <2>1, TakeReturn
  <2>2. CASE ~Return(p)
    <3>a. ASSUME NEW pc, NEW to, call' = [call EXCEPT ![p].pc = pc, ![p].to = to]
          PROVE  call'[p].pc = pc /\ call'[p].row = call[p].row
      <4>1. call'[p] = [call[p] EXCEPT !.pc = pc, !.to = to]
        BY <1>1, <3>a DEF CallInv
      <4> QED
        BY <1>1, <4>1, CallType DEF Call
    <3>b. ASSUME NEW pc, NEW rs, call' = [call EXCEPT ![p].pc = pc, ![p].todo = rs]
          PROVE  call'[p].pc = pc /\ call'[p].row = call[p].row
      <4>1. call'[p] = [call[p] EXCEPT !.pc = pc, !.todo = rs]
        BY <1>1, <3>b DEF CallInv
      <4> QED
        BY <1>1, <4>1, CallType DEF Call
    <3>c. ASSUME NEW rs, call' = [call EXCEPT ![p].todo = rs]
          PROVE  call'[p].pc = call[p].pc /\ call'[p].row = call[p].row
      <4>1. call'[p] = [call[p] EXCEPT !.todo = rs]
        BY <1>1, <3>c DEF CallInv
      <4> QED
        BY <1>1, <4>1, CallType DEF Call
    <3>d. ASSUME NEW pc, Goto(p, pc)
          PROVE  call'[p].pc = pc /\ call'[p].row = call[p].row
      BY <1>1, <3>d, GotoFields
    <3>1. CASE ResetList(p)
      <4>1. PICK pc, rs : /\ call' = [call EXCEPT ![p].pc = pc, ![p].todo = rs]
                          /\ pc \in {"stop", "rearm"}
        <5>1. call[p].pc = "list" => call' = [call EXCEPT ![p].pc = "stop",
                 ![p].todo = {r \in Listed(call[p].sess) : row[r].phase = "waiting"}]
          BY <1>1, <3>1 DEF ResetList, CallInv
        <5>2. call[p].pc # "list" => call' = [call EXCEPT ![p].pc = "rearm",
                 ![p].todo = {r \in Listed(call[p].sess) : row[r].phase = "waiting"}]
          BY <1>1, <3>1 DEF ResetList, CallInv
        <5> QED
          BY <5>1, <5>2
      <4>2. call'[p].pc \in Resetting /\ call'[p].row = call[p].row
        BY <3>b, <4>1 DEF Resetting
      <4> QED
        BY <4>2, CarelessKinds, CarelessKept DEF TakeGoes, Taking, Resetting
    <3>2. CASE ResetArchive(p)
      <4>1. call'[p].pc \in Resetting /\ call'[p].row = call[p].row
        <5>1. (\E to : call' = [call EXCEPT ![p].pc = "move", ![p].to = to])
              \/ Goto(p, "relist")
          BY <3>2 DEF ResetArchive
        <5> QED
          BY <3>a, <3>d, <5>1 DEF Resetting
      <4> QED
        BY <4>1, CarelessKinds, CarelessKept DEF TakeGoes, Taking, Resetting
    <3>3. CASE \E r \in Rows : ResetStop(p, r) \/ ResetRearm(p, r)
      <4>1. PICK r \in Rows : ResetStop(p, r) \/ ResetRearm(p, r)
        BY <3>3
      <4>2. call'[p] = [call[p] EXCEPT !.todo = @ \ {r}] /\ call[p].pc \in Resetting
        BY <1>1, <4>1 DEF ResetStop, ResetRearm, At, Resetting, CallInv
      <4>3. call'[p].pc \in Resetting /\ call'[p].row = call[p].row
        BY <1>1, <4>2, CallType DEF Call
      <4> QED
        BY <4>3, CarelessKinds, CarelessKept DEF TakeGoes, Taking, Resetting
    <3> QED
      BY <2>2, <3>1, <3>2, <3>3 DEF ResetGivenUp, ResetMove
  <2> QED
    BY <2>1, <2>2
<1>3. \A s \in Sessions : sess'[s] # "deleted"
  BY DEF HandInv, Rest, ResetList, ResetArchive, ResetGivenUp, ResetMove, ResetStop,
         ResetRearm, sessVars
<1>4. ASSUME RowsFade, JobsGoOn, \A t \in told' : t \in told \/ TaskKept(t)'
      PROVE  HandInv'
  BY <1>1, <1>2, <1>3, <1>4, HoldsAlone, HandCall DEF Fated
<1>5. CASE ResetList(p) \/ ResetArchive(p) \/ ResetGivenUp(p)
  BY <1>4, <1>5, FadeAlone, JobsAlone DEF ResetList, ResetArchive, ResetGivenUp,
     storeVars, jobVars
<1>6. CASE ResetMove(p)
  <2>1. ASSUME NEW r \in Rows PROVE RowFades(r)
    <3>1. \/ row'[r] = row[r]
          \/ /\ row'[r] = [Unclaimed(row[r]) EXCEPT !.sess = call[p].to]
             /\ row[r].status \in {"pending", "failed"}
      BY <1>6 DEF ResetMove
    <3>2. CASE row'[r] = [Unclaimed(row[r]) EXCEPT !.sess = call[p].to]
               /\ row[r].status \in {"pending", "failed"}
      <4>1. row'[r].status = row[r].status /\ row'[r].pay = row[r].pay
            /\ row'[r].snap = row[r].snap
        BY <3>2, RowType DEF Unclaimed, Row
      <4> QED
        BY <3>2, <4>1 DEF RowFades, RowGoesOn, Born, Gone, Pending
    <3> QED
      BY <3>1, <3>2 DEF RowFades
  <2> QED
    BY <1>4, <1>6, <2>1, JobsAlone DEF RowsFade, ResetMove, jobVars
<1>7. CASE \E r \in Rows : ResetStop(p, r) \/ ResetRearm(p, r)
  <2>1. PICK r \in Rows : ResetStop(p, r) \/ ResetRearm(p, r)
    BY <1>7
  <2>2. JobsGoOn
    BY <2>1, JobsStops DEF ResetStop, ResetRearm
  <2>3. CASE UNCHANGED <<row, told>>
    BY <1>4, <2>2, <2>3, FadeAlone
  <2>4. CASE ~UNCHANGED <<row, told>>
    <3>1. PICK o, x : /\ SetRow(r, x) /\ told' = told \cup {News(r, o)} /\ Pending(r)
                      /\ x = Failed(row[r]) \/ x = Unclaimed(row[r])
                      /\ o # "sent"
      BY <2>1, <2>4 DEF ResetStop, ResetRearm, Rearmable, Waiting
    <3>2. RowsFade /\ row'[r].status # "unused"
      BY <3>1, FadeFree
    <3>3. \A t \in told' : t \in told \/ TaskKept(t)'
      BY <3>1, <3>2, NewsKept DEF Born
    <3> QED
      BY <1>4, <2>2, <3>2, <3>3
  <2> QED
    BY <2>3, <2>4
<1> QED
  BY <1>5, <1>6, <1>7

LEMMA HandProceed ==
    ASSUME Parts, HandInv, NEW p \in Callers, Proceed(p)
    PROVE  HandInv'
<1>1. call[p].pc \notin Deleting \cup {"rehold", "retry", "dismiss"}
  BY CallerIsHandler DEF HandInv, CallKept
<1>2. ~(\/ Rehold(p) \/ RetryRow(p) \/ DismissRow(p)
        \/ DeleteList(p) \/ DeleteRows(p) \/ DeleteGone(p) \/ DeletePurge(p)
        \/ \E r \in Rows : DeleteGive(p, r))
  BY <1>1 DEF Rehold, RetryRow, DismissRow, DeleteList, DeleteRows, DeleteGone,
              DeletePurge, DeleteGive, At, Deleting
<1> QED
  BY <1>2, HandTake, HandCancel, HandReset DEF Proceed

\* A step of no handler.
LEMMA HandQuiet ==
    ASSUME Parts, HandInv, UNCHANGED <<boot, call>>, RowsFade, HoldsFade,
           \A t \in told' : t \in told \/ TaskKept(t)',
           \A r \in Rows : captured'[r] # {} => captured[r] # {} \/ Gone(r)',
           Fated \subseteq Fated', JobsGoOn,
           \A t \in turns' : t \in turns \/ TurnKept(t)',
           UNCHANGED sess
    PROVE  HandInv'
<1>1. Poller \in Handlers /\ Alone(Poller) /\ TakeGoes(Poller)
  BY DEF Handlers, Alone, TakeGoes, Taking
<1> QED
  BY <1>1, HandCall DEF HandInv

LEMMA MoveGoes ==
    ASSUME JobInv, NEW k \in Jobs, NEW pc, JobGoto(k, pc)
    PROVE  /\ job'[k].pc = pc /\ job'[k].row = job[k].row /\ job'[k].held = job[k].held
           /\ \A l \in Jobs \ {k} : JobGoes(l)
<1>1. job'[k] = [job[k] EXCEPT !.pc = pc] /\ \A l \in Jobs \ {k} : job'[l] = job[l]
  BY DEF JobGoto, JobInv
<1> QED
  BY <1>1, JobType DEF Job, JobGoes

LEMMA EndGoes ==
    ASSUME JobInv, NEW k \in Jobs, EndJob(k)
    PROVE  JobsGoOn
<1>1. job'[k].pc = "off" /\ \A l \in Jobs \ {k} : job'[l] = job[l]
  BY DEF EndJob, JobInv, OffJob
<1> QED
  BY <1>1 DEF JobsGoOn, JobGoes, JobKept

LEMMA HandWork ==
    ASSUME Parts, HandInv, NEW k \in Jobs, WorkerNext(k) \/ Work(k) \/ TickTimeout(k)
    PROVE  HandInv'
<1> USE DEF Parts
<1>1. /\ UNCHANGED <<boot, call, captured, turns, sess, panel>>
      /\ Owning(k) /\ job[k].row \in Rows
  <2>1. Owning(k)
    BY WorkKinds, NextKinds DEF Owning
  <2> QED
    BY <2>1, OwnRows DEF WorkerNext, Work, TickTimeout, TickRead, TickResolve, JobRearm,
       JobFail, DeliverCas, DeliverPaste, DeliverMark, turnVars, storeVars, sessVars
<1>2. PICK r \in Rows : r = job[k].row
  BY <1>1
<1>3. JobKept(k)
  BY DEF HandInv
<1>4. ASSUME RowsFade, JobsGoOn, Fated \subseteq Fated',
             \A t \in told' : t \in told \/ TaskKept(t)'
      PROVE  HandInv'
  BY <1>1, <1>4, HoldsAlone, HandQuiet
<1>5. ASSUME NEW o, NEW x, SetRow(r, x), told' = told \cup {News(r, o)}, Pending(r),
             x = Sent(row[r]) \/ (o # "sent" /\ (x = Failed(row[r]) \/ x = Unclaimed(row[r])))
      PROVE  RowsFade /\ \A t \in told' : t \in told \/ TaskKept(t)'
  <2>1. RowsFade /\ row'[r].status # "unused" /\ row'[r] = x
    BY <1>5, FadeFree
  <2>2. o = "sent" => ~Pending(r)'
    BY <1>5, <2>1, RowType DEF Sent, Unclaimed, Row, Pending
  <2>3. \A t \in told' : t \in told \/ TaskKept(t)'
    BY <1>5, <2>1, <2>2, NewsKept DEF Born
  <2> QED
    BY <2>1, <2>3
<1>6. CASE WorkerNext(k)
  <2>1. PICK x : job' = Popped(k, x) /\ (x = OffJob \/ x = [job[k] EXCEPT !.pc = "tick"])
    BY <1>6 DEF WorkerNext
  <2>2. x.pc \in {"off", "tick"}
    BY <2>1, JobType DEF OffJob, Job
  <2>3. job'[k] = x
    BY <2>1 DEF Popped
  <2>4. ASSUME NEW l \in Jobs \ {k} PROVE JobGoes(l)
    <3>1. job'[l] = [job[l] EXCEPT !.ahead = @ \ {k}]
      BY <2>1 DEF Popped
    <3> QED
      BY <3>1, JobType DEF Job, JobGoes
  <2>5. JobGoes(k)
    BY <2>2, <2>3 DEF JobGoes, JobKept
  <2>6. UNCHANGED <<row, fate, told>>
    BY <1>6 DEF WorkerNext, storeVars, historyVars
  <2> QED
    BY <1>4, <2>4, <2>5, <2>6, FadeAlone DEF JobsGoOn, Fated
<1>7. CASE EndJob(k)
  <2>1. CASE UNCHANGED <<row, fate, told>>
    BY <1>4, <1>7, <2>1, FadeAlone, EndGoes DEF Fated
  <2>2. CASE JobRearm(k)
    <3>1. CASE Rearmable(r)
      <4>1. SetRow(r, Unclaimed(row[r])) /\ told' = told \cup {News(r, "rearmed")}
            /\ Pending(r) /\ UNCHANGED fate
        BY <1>2, <2>2, <3>1 DEF JobRearm, Rearmable, Waiting, historyVars
      <4> QED
        BY <1>4, <1>5, <1>7, <4>1, EndGoes DEF Fated
    <3> QED
      BY <1>2, <2>1, <2>2, <3>1 DEF JobRearm, historyVars
  <2>3. CASE JobFail(k)
    <3>1. CASE Claimed(r)
      <4>1. SetRow(r, Failed(row[r])) /\ told' = told \cup {News(r, "failed")}
            /\ Pending(r) /\ UNCHANGED fate
        BY <1>2, <2>3, <3>1 DEF JobFail, Claimed, historyVars
      <4> QED
        BY <1>4, <1>5, <1>7, <4>1, EndGoes DEF Fated
    <3> QED
      BY <1>2, <2>1, <2>3, <3>1 DEF JobFail, historyVars
  <2>4. CASE DeliverMark(k)
    <3>1. CASE Pending(r) /\ row[r].phase = "pasting"
      <4>1. SetRow(r, Sent(row[r])) /\ told' = told \cup {News(r, "sent")}
            /\ Pending(r) /\ UNCHANGED fate
        BY <1>2, <2>4, <3>1 DEF DeliverMark, historyVars
      <4> QED
        BY <1>4, <1>5, <1>7, <4>1, EndGoes DEF Fated
    <3> QED
      BY <1>2, <2>1, <2>4, <3>1 DEF DeliverMark, historyVars
  <2>5. CASE WorkerNext(k) \/ TickRead(k) \/ TickResolve(k) \/ TickTimeout(k)
    BY <2>1, <2>5 DEF WorkerNext, TickRead, TickResolve, TickTimeout, storeVars,
       historyVars
  <2>6. CASE DeliverCas(k)
    <3>1. job'[k].pc = "off"
      BY <1>7 DEF EndJob, JobInv, OffJob
    <3>2. ~JobGoto(k, "paste")
      BY <3>1, MoveGoes
    <3> QED
      BY <2>1, <2>6, <3>2 DEF DeliverCas, historyVars
  <2>7. CASE DeliverPaste(k)
    <3>1. job'[k].pc = "off"
      BY <1>7 DEF EndJob, JobInv, OffJob
    <3>2. ~JobGoto(k, "mark") /\ ~JobGoto(k, "fail")
      BY <3>1, MoveGoes
    <3> QED
      BY <2>7, <3>2 DEF DeliverPaste
  <2> QED
    BY <2>2, <2>3, <2>4, <2>5, <2>6, <2>7 DEF Work
<1>8. CASE TickRead(k) /\ ~EndJob(k)
  <2>1. /\ job' = [job EXCEPT ![k].pc = "resolve", ![k].held = HeldBy(row[r]),
                              ![k].imm = row[r].imm]
        /\ Pending(r) /\ UNCHANGED <<row, fate, told>>
    BY <1>2, <1>8 DEF TickRead, Waiting, storeVars, historyVars
  <2>2. /\ job'[k] = [job[k] EXCEPT !.pc = "resolve", !.held = HeldBy(row[r]),
                                    !.imm = row[r].imm]
        /\ \A l \in Jobs \ {k} : job'[l] = job[l]
    BY <2>1 DEF JobInv
  <2>3. job'[k].pc = "resolve" /\ job'[k].row = r /\ job'[k].held = HeldBy(row[r])
    BY <1>2, <2>2, JobType DEF Job
  <2>4. JobKept(k)'
    BY <2>1, <2>3 DEF JobKept, Carried, Born, Pending
  <2> QED
    BY <1>4, <2>1, <2>2, <2>4, FadeAlone DEF JobsGoOn, JobGoes, Fated
<1>9. CASE TickTimeout(k) \/ (TickResolve(k) /\ ~EndJob(k))
  <2>1. PICK pc \in {"fail", "rearm", "cas", "tick"} :
          /\ JobGoto(k, pc) /\ UNCHANGED <<row, fate, told>>
          /\ pc = "cas" => job[k].pc = "resolve"
    BY <1>9 DEF TickTimeout, TickResolve, InJob, storeVars, historyVars
  <2>2. JobKept(k)'
    BY <1>3, <2>1, MoveGoes DEF JobKept, Carried, Born
  <2>3. JobsGoOn
    BY <2>1, <2>2, MoveGoes DEF JobsGoOn, JobGoes
  <2> QED
    BY <1>4, <2>1, <2>3, FadeAlone DEF Fated
<1>10. CASE DeliverCas(k) /\ ~EndJob(k)
  <2>1. PICK x : /\ SetRow(r, x) /\ x = [row[r] EXCEPT !.phase = "pasting"] /\ Pending(r)
                 /\ JobGoto(k, "paste") /\ UNCHANGED <<fate, told>>
                 /\ job[k].pc = "cas"
    BY <1>2, <1>10 DEF DeliverCas, Waiting, InJob, historyVars
  <2>2. /\ RowsFade /\ row'[r].pay = row[r].pay /\ row'[r].snap = row[r].snap
        /\ row'[r].status # "unused"
    BY <2>1, FadeFree
  <2>3. job'[k].pc = "paste" /\ job'[k].row = r /\ job'[k].held = job[k].held
    BY <1>2, <2>1, MoveGoes
  <2>4. JobKept(k)'
    BY <1>2, <1>3, <2>1, <2>2, <2>3 DEF JobKept, Carried, Born, HeldBy
  <2>5. JobsGoOn
    BY <2>1, <2>4, MoveGoes DEF JobsGoOn, JobGoes
  <2> QED
    BY <1>4, <2>1, <2>2, <2>5 DEF Fated
<1>11. CASE DeliverPaste(k)
  <2>1. PICK pc \in {"mark", "fail"} :
          /\ JobGoto(k, pc) /\ job[k].pc = "paste" /\ UNCHANGED <<row, told>>
          /\ pc = "mark" => GoOut(r, job[k].held)
          /\ pc = "fail" => UNCHANGED fate
    BY <1>2, <1>11 DEF DeliverPaste, InJob, storeVars, historyVars
  <2>2. Fated \subseteq Fated' /\ (pc = "mark" => Comments \cap job[k].held \subseteq Fated')
    BY <2>1 DEF GoOut, Fated
  <2>3. Carried(r, job[k].held) /\ HeldBy(row[r]) \subseteq Comments
    BY <1>2, <1>3, <2>1, RowType DEF JobKept, HeldBy, Row
  <2>4. job'[k].pc = pc /\ job'[k].row = r
    BY <1>2, <2>1, MoveGoes
  <2>5. pc = "mark" => HeldBy(row[r]) \subseteq Fated'
    BY <2>2, <2>3 DEF Carried
  <2>6. JobKept(k)'
    BY <2>1, <2>3, <2>4, <2>5 DEF JobKept, Carried, Born
  <2>7. JobsGoOn
    BY <2>1, <2>6, MoveGoes DEF JobsGoOn, JobGoes
  <2> QED
    BY <1>4, <2>1, <2>2, <2>7, FadeAlone
<1> QED
  BY <1>6, <1>7, <1>8, <1>9, <1>10, <1>11 DEF Work, JobRearm, JobFail, DeliverMark

LEMMA HandObserve ==
    ASSUME Parts, HandInv, NEW t \in told, Observe(t)
    PROVE  HandInv'
<1> USE DEF Parts
<1>1. /\ UNCHANGED <<boot, call, turns, sess, fate>> /\ JobsGoOn
      /\ \A q \in Rows : captured'[q] = captured[q] \/ captured'[q] = {}
  BY JobsAlone DEF Observe, ObserverStart, ObserverRestore, ObserverMark, ObserverDrop,
     turnVars, sessVars, historyVars, jobVars, Rest
<1>2. TaskKept(t) /\ t \in Task
  BY DEF HandInv, Rest
<1>3. PICK r \in Rows : r = t.row
  BY <1>2 DEF Task
<1>4. Born(r) /\ RowKept(r) /\ (captured[r] # {} => Gone(r))
  BY <1>2, <1>3 DEF TaskKept, HandInv
<1>5. ASSUME RowsFade, HoldsFade, NEW y, told' \subseteq told \cup {y}, TaskKept(y)'
      PROVE  HandInv'
  BY <1>1, <1>5, HandQuiet DEF Fated
<1>6. CASE ObserverStart(t)
  <2>1. PICK cap, held, y :
          /\ told' \subseteq told \cup {y} /\ UNCHANGED <<row, panel>>
          /\ cap = (captured[r] # {})
          /\ held = IF cap THEN captured[r] ELSE row[r].snap
          /\ y = [t EXCEPT !.pc = "restore", !.held = held, !.cap = cap,
                          !.imm = row[r].imm]
    BY <1>3, <1>6 DEF ObserverStart, storeVars
  <2>2. y.row = r /\ y.pc = "restore" /\ y.held = held /\ y.cap = cap
    BY <1>2, <1>3, <2>1 DEF Task
  <2>3. cap \/ Carried(r, held)
    BY <1>4, <2>1 DEF Carried, HeldBy
  <2>4. cap => Gone(r)
    BY <1>4, <2>1
  <2>5. TaskKept(y)'
    BY <1>4, <2>1, <2>2, <2>3, <2>4 DEF TaskKept, Carried, Born, Gone
  <2> QED
    BY <1>5, <2>1, <2>5, FadeAlone, HoldsAlone
<1>7. CASE ObserverRestore(t)
  <2>1. PICK pc, y : /\ told' \subseteq told \cup {y} /\ y = [t EXCEPT !.pc = pc]
                     /\ pc = (IF t.cap THEN "mark" ELSE "drop")
    BY <1>7 DEF ObserverRestore
  <2>2. y.row = r /\ y.pc = pc /\ y.cap = t.cap
    BY <1>2, <1>3, <2>1 DEF Task
  <2>3. CASE t.cap
    <3>1. PutBack(t.held) /\ UNCHANGED row
      BY <1>7, <2>3 DEF ObserverRestore
    <3>2. HoldsFade
      BY <3>1, HoldPanel DEF HoldsFade, HoldFades, NoNewHold, HeldUnder
    <3>3. Gone(r)
      BY <1>2, <1>3, <2>3 DEF TaskKept
    <3>4. TaskKept(y)'
      BY <1>4, <2>1, <2>2, <2>3, <3>1, <3>3 DEF TaskKept, Born, Gone
    <3> QED
      BY <1>5, <2>1, <3>1, <3>2, <3>4, FadeAlone
  <2>4. CASE ~t.cap
    <3>1. RestoreRow(r, t.held)
      BY <1>3, <1>7, <2>4 DEF ObserverRestore
    <3>2. RowsFade /\ HoldsFade /\ Spent(r)'
      BY <1>4, <3>1, FadeRestore
    <3>3. TaskKept(y)'
      BY <2>1, <2>2, <2>4, <3>2 DEF TaskKept, Spent, Born
    <3> QED
      BY <1>5, <2>1, <3>2, <3>3
  <2> QED
    BY <2>3, <2>4
<1>8. CASE ObserverMark(t)
  <2>1. PICK y : told' \subseteq told \cup {y} /\ y = [t EXCEPT !.pc = "drop"]
    BY <1>8 DEF ObserverMark
  <2>2. y.row = r /\ y.pc = "drop" /\ y.cap = t.cap
    BY <1>2, <1>3, <2>1 DEF Task
  <2>3. Gone(r)
    BY <1>2, <1>3, <1>8 DEF TaskKept, ObserverMark
  <2>4. row[r].pay # "held" /\ UNCHANGED <<row, panel>>
    BY <1>3, <1>4, <1>8, <2>3 DEF RowKept, ObserverMark
  <2>5. TaskKept(y)'
    BY <1>4, <2>2, <2>3, <2>4 DEF TaskKept, Spent, Born, Gone
  <2> QED
    BY <1>5, <2>1, <2>4, <2>5, FadeAlone, HoldsAlone
<1>9. CASE ObserverDrop(t)
  <2>1. told' \subseteq told /\ (UNCHANGED row \/ SetRow(r, Blank("gone"))) /\ UNCHANGED panel
    BY <1>3, <1>9 DEF ObserverDrop
  <2>2. RowsFade
    BY <1>4, <2>1, FadeAlone, FadeGone
  <2> QED
    BY <1>1, <2>1, <2>2, HoldsAlone, HandQuiet DEF Fated
<1> QED
  BY <1>6, <1>7, <1>8, <1>9 DEF Observe

LEMMA HandTurn ==
    ASSUME Parts, HandInv, NEW t \in turns,
           TurnPersist(t) \/ TurnWithdraw(t) \/ TurnSettle(t)
    PROVE  HandInv'
<1> USE DEF Parts
<1>1. /\ UNCHANGED <<boot, call, told, captured, sess>> /\ JobsGoOn /\ boot = "up"
  BY JobsAlone DEF TurnPersist, TurnWithdraw, TurnSettle, sessVars, jobVars
<1>2. TurnKept(t) /\ t \in Turn
  BY DEF HandInv, Rest
<1>3. PICK r \in Rows : r = t.row
  BY <1>2 DEF Turn
<1>4. ASSUME RowsFade, HoldsFade, Fated \subseteq Fated',
             \A u \in turns' : u \in turns \/ TurnKept(u)'
      PROVE  HandInv'
  BY <1>1, <1>4, HandQuiet
<1>5. CASE TurnSettle(t)
  <2>1. (RemoveHold(r) /\ UNCHANGED row) \/ RestoreHold(r)
    BY <1>3, <1>5 DEF TurnSettle
  <2>2. RowKept(r)
    BY DEF HandInv
  <2>3. RemoveHold(r) => HoldsFade
    BY HoldEnds DEF HoldsFade, HoldFades, NoNewHold, HeldUnder
  <2>4. RowsFade /\ HoldsFade
    BY <2>1, <2>2, <2>3, FadeHold, FadeAlone
  <2> QED
    BY <1>4, <1>5, <2>4 DEF TurnSettle, historyVars, Fated
<1>6. CASE TurnPersist(t) \/ TurnWithdraw(t)
  <2>1. PICK pc \in {"kept", "cancelled"} :
          /\ Advance(t, pc) /\ UNCHANGED <<row, panel>> /\ t.pc = "queued"
          /\ pc = "kept" => GoOut(r, t.body)
          /\ pc = "cancelled" => UNCHANGED fate
    BY <1>3, <1>6 DEF TurnPersist, TurnWithdraw, storeVars, historyVars
  <2>2. Fated \subseteq Fated' /\ (pc = "kept" => Comments \cap t.body \subseteq Fated')
    BY <2>1 DEF GoOut, Fated
  <2>3. PICK y : y = [t EXCEPT !.pc = pc] /\ turns' = (turns \ {t}) \cup {y}
    BY <2>1 DEF Advance
  <2>4. y.row = r /\ y.pc = pc
    BY <1>2, <1>3, <2>3 DEF Turn
  <2>5. Spent(r) /\ HeldUnder(r) \subseteq Comments \cap t.body
    BY <1>2, <1>3, <2>1 DEF TurnKept, HeldUnder
  <2>6. Spent(r)' /\ HeldUnder(r)' = HeldUnder(r)
    BY <2>1, <2>5 DEF Spent, Born, HeldUnder
  <2>7. pc = "kept" => HeldUnder(r)' \subseteq Fated'
    BY <2>2, <2>5, <2>6
  <2>8. TurnKept(y)'
    BY <1>1, <2>1, <2>4, <2>6, <2>7 DEF TurnKept
  <2> QED
    BY <1>4, <2>1, <2>2, <2>3, <2>8, FadeAlone, HoldsAlone
<1> QED
  BY <1>5, <1>6

LEMMA HandBoot ==
    ASSUME Parts, HandInv, Boot
    PROVE  HandInv'
<1> USE DEF Parts
<1>1. UNCHANGED <<call, job, captured, sess, fate>> /\ boot # "up"
  BY DEF Boot, BootHold, BootGive, BootNext, BootRecover, jobVars, sessVars, historyVars
<1>2. JobsGoOn /\ \A p \in Handlers : TakeGoes(p)
  BY <1>1, JobsAlone DEF TakeGoes, Taking
<1>3. ASSUME NEW r \in Rows, BootHold(r) PROVE HandInv'
  <2>1. (RemoveHold(r) /\ UNCHANGED row) \/ RestoreHold(r)
    BY <1>3 DEF BootHold
  <2>2. RowKept(r)
    BY DEF HandInv
  <2>3. RemoveHold(r) => HoldsFade
    BY HoldEnds DEF HoldsFade, HoldFades, NoNewHold, HeldUnder
  <2>4. RowsFade /\ HoldsFade
    BY <2>1, <2>2, <2>3, FadeHold, FadeAlone
  <2> QED
    BY <1>1, <1>2, <1>3, <2>4, HandQuiet DEF BootHold, turnVars, Fated
<1>4. ASSUME NEW r \in Rows, BootGive(r) PROVE HandInv'
  <2>1. RestoreRow(r, row[r].snap) /\ Born(r)
    BY <1>4 DEF BootGive, InFlight, Orphaned, Claimed, Pending, Born
  <2>2. RowsFade /\ HoldsFade
    BY <2>1, FadeRestore
  <2> QED
    BY <1>1, <1>2, <1>4, <2>2, HandQuiet DEF BootGive, turnVars, Fated
<1>5. ASSUME RowsFade, UNCHANGED panel, turns' \subseteq turns,
             \A t \in told' : t \in told \/ TaskKept(t)'
      PROVE  HandInv'
  <2>1. HoldsFade
    BY <1>5, HoldsAlone
  <2>2. ASSUME NEW t \in turns' PROVE TurnKept(t)'
    <3>1. t \in turns /\ TurnKept(t) /\ t.row \in Rows
      BY <1>5 DEF HandInv, Rest, Turn
    <3>2. PICK r \in Rows : r = t.row
      BY <3>1
    <3>3. RowFades(r) /\ RowKept(r) /\ HoldFades(r)
      BY <1>5, <2>1 DEF RowsFade, HoldsFade, HandInv
    <3>4. Spent(r)' /\ HeldUnder(r)' \subseteq HeldUnder(r)
      BY <3>1, <3>2, <3>3, FadesKeep DEF TurnKept
    <3>5. t.pc = "kept" /\ HeldUnder(r) \subseteq Fated
      BY <1>1, <3>1, <3>2 DEF TurnKept
    <3>6. Fated' = Fated
      BY <1>1 DEF Fated
    <3> QED
      BY <3>2, <3>4, <3>5, <3>6 DEF TurnKept
  <2>3. \A k \in Jobs : job'[k] = job[k]
    BY <1>1
  <2>4. Fated \subseteq Fated'
    BY <1>1 DEF Fated
  <2>5. \A s \in Sessions : sess'[s] # "deleted"
    BY <1>1 DEF HandInv
  <2>6. \A r \in Rows : RowFades(r) /\ HoldFades(r)
    BY <1>5, <2>1 DEF RowsFade, HoldsFade
  <2> QED
    BY <1>1, <1>2, <1>5, <2>2, <2>3, <2>4, <2>5, <2>6, HandFrame
<1>6. CASE BootNext
  <2>1. UNCHANGED <<row, panel, told>> /\ turns' \subseteq turns
    BY <1>6 DEF BootNext, storeVars
  <2> QED
    BY <1>5, <2>1, FadeAlone
<1>7. CASE BootRecover
  <2> DEFINE lost == {r \in Rows : Exists(r) /\ sess[row[r].sess] = "deleted"}
             back == {r \in Rows \ lost : Claimed(r)}
             tell == {r \in back : row[r].tmux \/ row[r].phase # "null"}
  <2>1. lost = {}
    BY RowType DEF RowKnown, Exists, HandInv
  <2>2. \A r \in Rows : row'[r] = IF r \in back THEN Recovered(row[r]) ELSE row[r]
    BY <1>7, <2>1 DEF BootRecover
  <2>3. ASSUME NEW r \in back PROVE RowGoesOn(r)
    <3>1. r \in Rows /\ Pending(r) /\ row'[r] = Recovered(row[r])
      BY <2>2 DEF Claimed
    <3>2. /\ row'[r].status \in {"pending", "failed"} /\ row'[r].pay = row[r].pay
          /\ row'[r].snap = row[r].snap
      BY <3>1, RowType DEF Recovered, Failed, Unclaimed, Row, Pending
    <3> QED
      BY <3>1, <3>2 DEF RowGoesOn, Born, Gone, Pending
  <2>4. RowsFade
    BY <2>2, <2>3 DEF RowsFade, RowFades
  <2>5. ASSUME NEW t \in told' PROVE TaskKept(t)'
    <3>1. PICK r \in tell : \E o \in {"rearmed", "failed"} : t = News(r, o)
      BY <1>7 DEF BootRecover
    <3>2. r \in Rows /\ Born(r)'
      BY <2>3 DEF RowGoesOn
    <3> QED
      BY <3>1, <3>2, NewsKept
  <2>6. UNCHANGED <<panel, turns>>
    BY <1>7 DEF BootRecover, turnVars
  <2> QED
    BY <1>5, <2>4, <2>5, <2>6
<1> QED
  BY <1>3, <1>4, <1>6, <1>7 DEF Boot

LEMMA HandCrash ==
    ASSUME Parts, HandInv, Crash
    PROVE  HandInv'
<1> USE DEF Parts
<1>1. /\ \A p \in Handlers : call'[p] = OffCall
      /\ \A k \in Jobs : job'[k] = OffJob
      /\ UNCHANGED <<row, panel, fate, sess>> /\ boot' = "holds"
      /\ \A r \in Rows : captured'[r] = {}
      /\ told' = {} /\ \A t \in turns' : t \in turns /\ t.pc = "kept"
  BY DEF Crash, storeVars, historyVars, sessVars
<1>2. OffCall.pc = "off" /\ OffCall.row \notin Rows /\ OffJob.pc = "off"
  BY DeliveryAssumption DEF OffCall, OffJob
<1>3. ASSUME NEW p \in Handlers PROVE TakeGoes(p) /\ CallKept(p)'
  <2>1. call'[p].pc = "off" /\ call'[p].row \notin Rows
    BY <1>1, <1>2
  <2> QED
    BY <2>1, CarelessKinds, CarelessKept DEF TakeGoes, Taking
<1>4. \A k \in Jobs : JobKept(k)'
  BY <1>1, <1>2 DEF JobKept
<1>5. ASSUME NEW t \in turns' PROVE TurnKept(t)'
  <2>1. TurnKept(t) /\ t.pc = "kept"
    BY <1>1 DEF HandInv
  <2> QED
    BY <1>1, <2>1 DEF TurnKept, Spent, Born, HeldUnder, Fated
<1>6. RowsFade /\ HoldsFade /\ Fated \subseteq Fated'
  BY <1>1, FadeAlone, HoldsAlone DEF Fated
<1>7. \A s \in Sessions : sess'[s] # "deleted"
  BY <1>1 DEF HandInv
<1> QED
  BY <1>1, <1>3, <1>4, <1>5, <1>6, <1>7, HandFrame DEF RowsFade, HoldsFade

LEMMA HandStep ==
    ASSUME Parts, HandInv, Ops \cap {"retry", "dismiss", "delete"} = {}, [Next]_vars
    PROVE  HandInv'
<1>1. CASE UNCHANGED vars
  <2>1. UNCHANGED <<row, panel, call, job, turns, told, captured, boot, fate, sess>>
    BY <1>1 DEF vars, storeVars, jobVars, turnVars, historyVars, sessVars
  <2> QED
    BY <2>1, FadeAlone, HoldsAlone, JobsAlone, HandQuiet DEF Fated
<1>2. ASSUME NEW r \in Rows, Poll(r) PROVE HandInv'
  <2>1. Poller \in Handlers /\ Claim(Poller, r) /\ UNCHANGED boot
    BY <1>2 DEF Handlers, Poll, Claim
  <2> QED
    BY <2>1, HandClaim
<1> QED
  BY <1>1, <1>2, HandRequest, HandProceed, HandFire, HandJson, HandWork, HandObserve,
     HandTurn, HandBoot, HandCrash DEF Next

LEMMA HandInit == Init => HandInv
<1> SUFFICES ASSUME Init PROVE HandInv
  OBVIOUS
<1>1. /\ \A p \in Handlers : call[p].pc = "off"
      /\ \A k \in Jobs : job[k].pc = "off"
      /\ \A r \in Rows : row[r].status = "unused" /\ row[r].pay = "none"
      /\ \A r \in Rows : captured[r] = {} /\ HeldUnder(r) = {}
      /\ turns = {} /\ told = {}
      /\ \A s \in Sessions : sess[s] # "deleted"
  BY DeliveryAssumption DEF Init, OffCall, OffJob, Blank, HeldUnder
<1>2. TakesUnused /\ \A p \in Handlers : CallKept(p)
  BY <1>1 DEF TakesUnused, Taking, CallKept, Deleting
<1>3. (\A r \in Rows : RowKept(r)) /\ \A k \in Jobs : JobKept(k)
  BY <1>1 DEF RowKept, JobKept, Gone
<1> QED
  BY <1>1, <1>2, <1>3 DEF HandInv

-----------------------------------------------------------------------------
(* Comments of a row being cancelled: how they reach the observer.            *)

\* The steps of a cancel, and of an immediate send up to its row's dispatch.
Hot == {"takeNow", "made", "before", "erase", "tell", "return"}
Cools(p) == call'[p] = call[p] \/ call'[p].pc \notin Hot
Heats(p) == \/ \E r \in Rows, s \in Sessions : SendStart(p, r, s)
            \/ SendTake(p) \/ (\E r \in Rows : CancelStart(p, r))
            \/ CancelBefore(p) \/ CancelErase(p)

LEMMA CoolForms ==
    ASSUME CallInv, NEW p \in Handlers,
           \/ Return(p) \/ (\E pc \in Pcs \ Hot : Goto(p, pc))
           \/ (\E r, s : Register(p, r, s)) \/ (\E r : Claim(p, r))
    PROVE  Cools(p)
<1>1. CASE Return(p)
  BY <1>1 DEF Return, CallInv, OffCall, Cools, Hot
<1>2. CASE \E pc \in Pcs \ Hot : Goto(p, pc)
  BY <1>2, GotoFields DEF Cools
<1>3. ASSUME NEW r, NEW s, Register(p, r, s) PROVE Cools(p)
  <2>1. call'[p].pc = "cas"
    BY <1>3 DEF Register, CallInv, Begin, OffCall
  <2> QED
    BY <2>1 DEF Cools, Hot
<1>4. ASSUME NEW r, Claim(p, r) PROVE Cools(p)
  <2>1. call'[p].pc = "route"
    BY <1>4 DEF Claim, CallInv, Begin, OffCall
  <2> QED
    BY <2>1 DEF Cools, Hot
<1> QED
  BY <1>1, <1>2, <1>3, <1>4

LEMMA CoolDelivery ==
    ASSUME Parts, NEW p \in Handlers, Route(p) \/ Fire(p) \/ Json(p) \/ JsonTimeout(p)
    PROVE  Cools(p)
<1> USE DEF Parts
<1>1. {"plain", "giveBack", "able", "enq", "check", "adopt", "failMark", "after",
       "holdBack", "sentMark"} \subseteq Pcs \ Hot
  BY DEF Pcs, Hot, Dispatching
<1>2. CASE Route(p) \/ Fire(p)
  BY <1>1, <1>2, CoolForms DEF Route, Fire, SendFire, FireCas, FireCheck, FireEnqueue
<1>3. CASE JsonAdopt(p)
  <2>1. ASSUME NEW n, call' = [call EXCEPT ![p].pc = "plain", ![p].turn = n]
        PROVE  Cools(p)
    <3>1. call'[p] = [call[p] EXCEPT !.pc = "plain", !.turn = n]
      BY <2>1 DEF CallInv
    <3> QED
      BY <3>1, CallType DEF Call, Cools, Hot
  <2> QED
    BY <1>1, <1>3, <2>1, CoolForms DEF JsonAdopt
<1>4. CASE (Json(p) /\ ~JsonAdopt(p)) \/ JsonTimeout(p)
  BY <1>1, <1>4, CoolForms DEF Json, JsonAble, JsonGiveBack, JsonEnqueue, JsonAfter,
     JsonHoldBack, JsonFailMark, JsonSentMark, JsonTimeout
<1> QED
  BY <1>2, <1>3, <1>4

LEMMA CoolRequest ==
    ASSUME Parts, NEW p \in Callers, Request(p), ~Heats(p)
    PROVE  Cools(p)
<1> USE DEF Parts
<1>0. p \in Handlers
  BY CallerIsHandler
<1>1. \/ UNCHANGED call \/ (\E r : Claim(p, r))
      \/ (\E r \in Rows, s \in Sessions : CreateStart(p, r, s))
      \/ (\E r \in Rows : RetryStart(p, r) \/ DismissStart(p, r))
      \/ (\E s \in Sessions : ResetStart(p, s) \/ DeleteStart(p, s))
  BY DEF Request, Heats, SendNow, Discard, Toggle
<1>2. ASSUME NEW r \in Rows, NEW s \in Sessions, CreateStart(p, r, s) PROVE Cools(p)
  <2>1. call'[p].pc = "take"
    BY <1>0, <1>2 DEF CreateStart, CallInv, Begin, OffCall
  <2> QED
    BY <2>1 DEF Cools, Hot
<1>3. ASSUME NEW r \in Rows, RetryStart(p, r) \/ DismissStart(p, r) PROVE Cools(p)
  <2>1. call'[p].pc \in {"rehold", "retry", "dismiss"}
    BY <1>0, <1>3 DEF RetryStart, DismissStart, CallInv, Begin, OffCall
  <2> QED
    BY <2>1 DEF Cools, Hot
<1>4. ASSUME NEW s \in Sessions, ResetStart(p, s) \/ DeleteStart(p, s) PROVE Cools(p)
  <2>1. call'[p].pc \in {"list", "listHeld"}
    BY <1>0, <1>4 DEF ResetStart, DeleteStart, CallInv, Begin, OffCall
  <2> QED
    BY <2>1 DEF Cools, Hot
<1> QED
  BY <1>0, <1>1, <1>2, <1>3, <1>4, CoolForms DEF Cools

LEMMA CoolProceed ==
    ASSUME Parts, HandInv, NEW p \in Callers, Proceed(p), ~Heats(p)
    PROVE  Cools(p)
<1> USE DEF Parts
<1>0. p \in Handlers
  BY CallerIsHandler
<1>1. call[p].pc \notin Deleting \cup {"rehold", "retry", "dismiss"}
  BY <1>0 DEF HandInv, CallKept
<1>2. ~(\/ Rehold(p) \/ RetryRow(p) \/ DismissRow(p)
        \/ DeleteList(p) \/ DeleteRows(p) \/ DeleteGone(p) \/ DeletePurge(p)
        \/ \E r \in Rows : DeleteGive(p, r))
  BY <1>1 DEF Rehold, RetryRow, DismissRow, DeleteList, DeleteRows, DeleteGone,
              DeletePurge, DeleteGive, At, Deleting
<1>3. CASE \/ CreateTake(p) \/ CancelTell(p) \/ ReturnComments(p)
           \/ ResetGivenUp(p) \/ ResetMove(p)
  BY <1>0, <1>3, CoolForms DEF CreateTake, CancelTell, ReturnComments, ResetGivenUp,
     ResetMove
<1>4. ASSUME call[p].pc \in Resetting, call'[p].pc \in Resetting PROVE Cools(p)
  BY <1>4 DEF Cools, Hot, Resetting
<1>5. CASE ResetList(p)
  <2>1. PICK rs : call'[p] = [call[p] EXCEPT
                     !.pc = IF call[p].pc = "list" THEN "stop" ELSE "rearm", !.todo = rs]
    BY <1>0, <1>5 DEF ResetList, CallInv
  <2>2. call'[p].pc \in {"stop", "rearm"}
    BY <1>0, <2>1, CallType DEF Call
  <2> QED
    BY <2>2 DEF Cools, Hot
<1>6. CASE ResetArchive(p)
  <2>1. CASE \E n : call' = [call EXCEPT ![p].pc = "move", ![p].to = n]
    <3>1. PICK n : call'[p] = [call[p] EXCEPT !.pc = "move", !.to = n]
      BY <1>0, <2>1 DEF CallInv
    <3>2. call'[p].pc = "move"
      BY <1>0, <3>1, CallType DEF Call
    <3> QED
      BY <3>2 DEF Cools, Hot
  <2>2. CASE Goto(p, "relist")
    BY <1>0, <2>2, CoolForms DEF Pcs, Hot, Resetting
  <2> QED
    BY <1>6, <2>1, <2>2 DEF ResetArchive
<1>7. ASSUME NEW r \in Rows, ResetStop(p, r) \/ ResetRearm(p, r) PROVE Cools(p)
  <2>1. call'[p] = [call[p] EXCEPT !.todo = @ \ {r}] /\ call[p].pc \in {"stop", "rearm"}
    BY <1>0, <1>7 DEF ResetStop, ResetRearm, CallInv, At
  <2>2. call'[p].pc \in {"stop", "rearm"}
    BY <1>0, <2>1, CallType DEF Call
  <2> QED
    BY <2>2 DEF Cools, Hot
<1> QED
  BY <1>2, <1>3, <1>5, <1>6, <1>7 DEF Proceed, Heats

LEMMA CallSteps ==
    ASSUME Parts, HandInv, NEW p \in Handlers, [Next]_vars
    PROVE  Cools(p) \/ (p \in Callers /\ Heats(p))
<1>1. CASE UNCHANGED call
  BY <1>1 DEF Cools
<1>2. ASSUME NEW q \in Handlers, Alone(q), Cools(q) \/ (q \in Callers /\ Heats(q))
      PROVE  Cools(p) \/ (p \in Callers /\ Heats(p))
  BY <1>2 DEF Alone, Cools
<1>3. ASSUME NEW q \in Handlers, Route(q) \/ Fire(q) \/ Json(q) \/ JsonTimeout(q)
      PROVE  Cools(p) \/ (p \in Callers /\ Heats(p))
  BY <1>2, <1>3, AloneRoute, AloneJson, CoolDelivery
<1>4. ASSUME NEW q \in Callers, Request(q) \/ Proceed(q)
      PROVE  Cools(p) \/ (p \in Callers /\ Heats(p))
  BY <1>2, <1>4, CallerIsHandler, AloneRequest, AloneProceed, CoolRequest, CoolProceed
<1>5. ASSUME NEW r \in Rows, Poll(r) PROVE Cools(p)
  <2>1. Poller \in Handlers /\ Claim(Poller, r)
    BY <1>5 DEF Handlers, Poll
  <2>2. Cools(Poller) /\ Alone(Poller)
    BY <2>1, CoolForms, AloneClaim DEF Parts
  <2> QED
    BY <2>2 DEF Alone, Cools
<1>6. CASE Crash
  <2>1. call'[p].pc = "off"
    BY <1>6 DEF Crash, OffCall
  <2> QED
    BY <2>1 DEF Cools, Hot
<1>7. CASE \/ \E k \in Jobs : WorkerNext(k) \/ Work(k) \/ TickTimeout(k)
           \/ \E t \in told : Observe(t)
           \/ \E t \in turns : TurnPersist(t) \/ TurnWithdraw(t) \/ TurnSettle(t)
           \/ Boot \/ UNCHANGED vars
  <2>1. UNCHANGED call
    BY <1>7 DEF WorkerNext, Work, TickTimeout, TickRead, TickResolve, JobRearm, JobFail,
       DeliverCas, DeliverPaste, DeliverMark, Observe, ObserverStart, ObserverRestore,
       ObserverMark, ObserverDrop, TurnPersist, TurnWithdraw, TurnSettle, Boot,
       BootHold, BootGive, BootNext, BootRecover, vars
  <2> QED
    BY <1>1, <2>1
<1> QED
  BY <1>3, <1>4, <1>5, <1>6, <1>7 DEF Next

LEMMA HeatForms ==
    ASSUME Parts, NEW p \in Handlers
    PROVE  /\ \A r \in Rows, s \in Sessions :
                SendStart(p, r, s) => call'[p].pc = "takeNow" /\ call'[p].sess = s
           /\ SendTake(p) => \/ call'[p].pc = "off"
                             \/ call'[p].pc = "made" /\ call'[p].sess = call[p].sess
           /\ \A r \in Rows : CancelStart(p, r) => call'[p].pc \in {"before", "erase"}
           /\ CancelBefore(p) => call'[p].pc = "erase"
           /\ CancelErase(p) => call'[p].pc \in {"tell", "return", "off"}
<1> USE DEF Parts
<1>1. Return(p) => call'[p].pc = "off"
  BY DEF Return, CallInv, OffCall
<1>2. \A r \in Rows, s \in Sessions :
         SendStart(p, r, s) => call'[p].pc = "takeNow" /\ call'[p].sess = s
  BY DEF SendStart, CallInv, Begin, OffCall
<1>3. ASSUME SendTake(p)
      PROVE  \/ call'[p].pc = "off"
             \/ call'[p].pc = "made" /\ call'[p].sess = call[p].sess
  <2>1. Return(p) \/ Goto(p, "made")
    BY <1>3 DEF SendTake
  <2> QED
    BY <1>1, <2>1, GotoFields
<1>4. \A r \in Rows : CancelStart(p, r) => call'[p].pc \in {"before", "erase"}
  BY DEF CancelStart, CallInv, Begin, OffCall
<1>5. ASSUME CancelBefore(p) PROVE call'[p].pc = "erase"
  <2>1. PICK h : call'[p] = [call[p] EXCEPT !.pc = "erase", !.held = h]
    BY <1>5 DEF CancelBefore, CallInv
  <2> QED
    BY <2>1, CallType DEF Call
<1>6. ASSUME CancelErase(p) PROVE call'[p].pc \in {"tell", "return", "off"}
  <2>1. Return(p) \/ Goto(p, "tell") \/ Goto(p, "return")
    BY <1>6 DEF CancelErase
  <2> QED
    BY <1>1, <2>1, GotoFields
<1> QED
  BY <1>2, <1>3, <1>4, <1>5, <1>6

\* The row of a captured comment is gone, the observer is about to be told so, and
\* is not told anything else.
Deaf(r) == \A t \in told : t.row = r /\ t.pc = "start" =>
                             t.out \notin {"sent", "rearmed"}
TellKept == \A p \in Handlers : call[p].pc = "tell" =>
              /\ captured[call[p].row] = {} /\ Deaf(call[p].row)
              /\ \A q \in Handlers : call[q].pc = "tell" /\ call[q].row = call[p].row
                                       => q = p
CaptureKept == \A r \in Rows : captured[r] # {} =>
                 News(r, "cancelled") \in told /\ Deaf(r)

\* Where nothing is cancelled.
Uncancelled ==
    /\ \A p \in Handlers : call[p].pc \notin {"before", "erase", "tell", "return"}
    /\ \A r \in Rows : captured[r] = {}
    /\ \A t \in told : ~t.cap

\* Where no session changes its channel, is reset, or loses its daemon: no outcome
\* puts a row back for the poller.
Unarmed ==
    /\ boot = "up"
    /\ \A p \in Handlers : call[p].pc \in {"takeNow", "made"} => chan[call[p].sess] = "tmux"
    /\ \A k \in Jobs : /\ job[k].pc # "rearm"
                       /\ job[k].pc # "off" => chan[job[k].sess] = "tmux"
    /\ \A t \in told : t.out # "rearmed"

\* Where an outcome for the observer comes from.
Passed(t) == \E u \in told : /\ t.pc # "start" /\ t.out = u.out
                             /\ t.cap => u.cap \/ captured[u.row] # {}
Cancelled(t) == \E p \in Callers : CancelTell(p) /\ t = News(call[p].row, "cancelled")
Reported(t) == \E r \in Rows, o \in Outcomes :
                 /\ t = News(r, o) /\ Pending(r)
                 /\ o = "rearmed" => \/ boot # "up"
                                     \/ \E k \in Jobs : job[k].pc = "rearm"
                                     \/ \E p \in Handlers : call[p].pc \in Resetting

LEMMA ToldSteps ==
    ASSUME Parts, HandInv, [Next]_vars, NEW t \in told'
    PROVE  t \in told \/ Passed(t) \/ Cancelled(t) \/ Reported(t)
<1> USE DEF Parts
<1>1. CASE told' \subseteq told
  BY <1>1
<1>2. ASSUME NEW u \in told, Observe(u) PROVE t \in told \/ Passed(t)
  <2>1. CASE ObserverStart(u)
    <3>1. t \in told \/ t = [u EXCEPT !.pc = "restore", !.held =
             IF captured[u.row] # {} THEN captured[u.row] ELSE row[u.row].snap,
             !.cap = (captured[u.row] # {}), !.imm = row[u.row].imm]
      BY <2>1 DEF ObserverStart
    <3>2. u \in Task
      BY DEF Rest
    <3> QED
      BY <3>1, <3>2 DEF Passed, Task
  <2>2. CASE ObserverRestore(u) \/ ObserverMark(u)
    <3>1. t \in told \/ \E pc \in {"mark", "drop"} : t = [u EXCEPT !.pc = pc]
      BY <2>2 DEF ObserverRestore, ObserverMark
    <3>2. u \in Task
      BY DEF Rest
    <3> QED
      BY <3>1, <3>2 DEF Passed, Task
  <2> QED
    BY <1>2, <2>1, <2>2 DEF Observe, ObserverDrop
<1>3. ASSUME NEW p \in Callers, Proceed(p) PROVE t \in told \/ Cancelled(t) \/ Reported(t)
  <2>1. p \in Handlers
    BY CallerIsHandler
  <2>2. CASE CancelTell(p)
    BY <2>2 DEF CancelTell, Cancelled
  <2>3. ASSUME NEW r \in Rows, ResetStop(p, r) \/ ResetRearm(p, r)
        PROVE  t \in told \/ Reported(t)
    <3>1. call[p].pc \in Resetting
      BY <2>3 DEF ResetStop, ResetRearm, At, Resetting
    <3>2. t \in told \/ (Pending(r) /\ \E o \in {"failed", "rearmed"} : t = News(r, o))
      BY <2>3 DEF ResetStop, ResetRearm, Rearmable, Waiting
    <3> QED
      BY <2>1, <3>1, <3>2 DEF Reported, Outcomes
  <2>4. ~DeleteGone(p)
    BY <2>1 DEF HandInv, CallKept, DeleteGone, At, Deleting
  <2>5. CASE ~CancelTell(p) /\ ~\E r \in Rows : ResetStop(p, r) \/ ResetRearm(p, r)
    BY <1>1, <1>3, <2>4, <2>5 DEF Proceed, CreateTake, SendTake, CancelBefore,
       CancelErase, ReturnComments, Rehold, RetryRow, DismissRow, ResetList, ResetArchive,
       ResetGivenUp, ResetMove, DeleteList, DeleteRows, DeletePurge, DeleteGive
  <2> QED
    BY <2>2, <2>3, <2>5
<1>4. ASSUME NEW k \in Jobs, WorkerNext(k) \/ Work(k) \/ TickTimeout(k)
      PROVE  t \in told \/ Reported(t)
  <2>1. job[k].row \in Rows
    BY <1>4, WorkKinds, NextKinds, OwnRows DEF Owning
  <2>2. CASE JobRearm(k)
    BY <2>1, <2>2 DEF JobRearm, InJob, Rearmable, Waiting, Reported, Outcomes
  <2>3. CASE JobFail(k) \/ DeliverMark(k)
    <3>1. t \in told \/ (Pending(job[k].row)
                         /\ \E o \in {"failed", "sent"} : t = News(job[k].row, o))
      BY <2>3 DEF JobFail, DeliverMark, Claimed
    <3> QED
      BY <2>1, <3>1 DEF Reported, Outcomes
  <2> QED
    BY <1>1, <1>4, <2>2, <2>3 DEF WorkerNext, Work, TickTimeout, TickRead, TickResolve,
       DeliverCas, DeliverPaste
<1>5. CASE Boot
  <2>1. CASE BootRecover
    <3>1. \E r \in Rows, o \in {"rearmed", "failed"} : t = News(r, o) /\ Pending(r)
      <4>1. PICK r \in Rows : Claimed(r) /\ t = News(r,
              IF row[r].phase = "waiting" /\ ~row[r].imm THEN "rearmed" ELSE "failed")
        BY <2>1 DEF BootRecover
      <4> QED
        BY <4>1 DEF Claimed
    <3>2. boot # "up"
      BY <2>1 DEF BootRecover
    <3> QED
      BY <3>1, <3>2 DEF Reported, Outcomes
  <2> QED
    BY <1>1, <1>5, <2>1 DEF Boot, BootHold, BootGive, BootNext
<1>6. ASSUME NEW p \in Handlers, Route(p) \/ Fire(p) \/ Json(p) \/ JsonTimeout(p)
      PROVE  t \in told
  BY <1>6 DEF Route, Fire, SendFire, FireCas, FireCheck, FireEnqueue, Json, JsonTimeout,
     JsonAble, JsonGiveBack, JsonAdopt, JsonEnqueue, JsonAfter, JsonHoldBack,
     JsonFailMark, JsonSentMark
<1>7. ASSUME NEW p \in Callers, Request(p) PROVE t \in told
  BY <1>7 DEF Request, SendNow, Claim, CancelStart, RetryStart, DismissStart, CreateStart,
     SendStart, Discard, Toggle, ResetStart, DeleteStart
<1>8. CASE \/ \E r \in Rows : Poll(r)
           \/ \E u \in turns : TurnPersist(u) \/ TurnWithdraw(u) \/ TurnSettle(u)
           \/ Crash \/ UNCHANGED vars
  BY <1>8 DEF Poll, Claim, TurnPersist, TurnWithdraw, TurnSettle, Crash, vars
<1> QED
  BY <1>2, <1>3, <1>4, <1>5, <1>6, <1>7, <1>8 DEF Next

LEMMA CapturedSteps ==
    ASSUME Parts, HandInv, [Next]_vars, NEW r \in Rows
    PROVE  \/ captured'[r] = captured[r]
           \/ captured'[r] = {} /\ (Crash \/ \E t \in told : ObserverStart(t) /\ t.row = r)
           \/ \E p \in Callers : CancelTell(p) /\ call[p].row = r
                                 /\ captured'[r] = call[p].held
<1> USE DEF Parts
<1>1. CASE UNCHANGED captured
  BY <1>1
<1>2. CASE Crash
  BY <1>2 DEF Crash
<1>3. ASSUME NEW u \in told, Observe(u)
      PROVE  \/ captured'[r] = captured[r]
             \/ captured'[r] = {} /\ ObserverStart(u) /\ u.row = r
  BY <1>3 DEF Observe, ObserverStart, ObserverRestore, ObserverMark, ObserverDrop, Rest
<1>4. ASSUME NEW p \in Callers, CancelTell(p)
      PROVE  captured'[r] = captured[r] \/ (call[p].row = r /\ captured'[r] = call[p].held)
  BY <1>4 DEF CancelTell, Rest
<1>5. ASSUME NEW p \in Callers, Proceed(p), ~CancelTell(p) PROVE UNCHANGED captured
  <2>1. ~DeleteGone(p)
    BY CallerIsHandler DEF HandInv, CallKept, DeleteGone, At, Deleting
  <2> QED
    BY <1>5, <2>1 DEF Proceed, CreateTake, SendTake, CancelBefore,
       CancelErase, ReturnComments, Rehold, RetryRow, DismissRow, ResetList, ResetArchive,
       ResetGivenUp, ResetMove, ResetStop, ResetRearm, DeleteList, DeleteRows,
       DeletePurge, DeleteGive
<1>6. ASSUME NEW p \in Handlers, Route(p) \/ Fire(p) \/ Json(p) \/ JsonTimeout(p)
      PROVE  UNCHANGED captured
  BY <1>6 DEF Route, Fire, SendFire, FireCas, FireCheck, FireEnqueue, Json, JsonTimeout,
     JsonAble, JsonGiveBack, JsonAdopt, JsonEnqueue, JsonAfter, JsonHoldBack,
     JsonFailMark, JsonSentMark
<1>7. ASSUME NEW p \in Callers, Request(p) PROVE UNCHANGED captured
  BY <1>7 DEF Request, SendNow, Claim, CancelStart, RetryStart, DismissStart, CreateStart,
     SendStart, Discard, Toggle, ResetStart, DeleteStart
<1>8. CASE \/ \E q \in Rows : Poll(q)
           \/ \E u \in turns : TurnPersist(u) \/ TurnWithdraw(u) \/ TurnSettle(u)
           \/ \E k \in Jobs : WorkerNext(k) \/ Work(k) \/ TickTimeout(k)
           \/ Boot \/ UNCHANGED vars
  <2>1. UNCHANGED captured
    BY <1>8 DEF Poll, Claim, TurnPersist, TurnWithdraw, TurnSettle, WorkerNext, Work,
       TickTimeout, TickRead, TickResolve, JobRearm, JobFail, DeliverCas, DeliverPaste,
       DeliverMark, Boot, BootHold, BootGive, BootNext, BootRecover, vars
  <2> QED
    BY <1>1, <2>1
<1> QED
  BY <1>1, <1>2, <1>3, <1>4, <1>5, <1>6, <1>7, <1>8 DEF Next

LEMMA UncancelledStep ==
    ASSUME Parts, HandInv, Uncancelled, "cancel" \notin Ops, [Next]_vars
    PROVE  Uncancelled'
<1>1. ASSUME NEW p \in Handlers
      PROVE  call'[p].pc \notin {"before", "erase", "tell", "return"}
  <2>1. ~(\E r \in Rows : CancelStart(p, r)) /\ ~CancelBefore(p) /\ ~CancelErase(p)
    BY <1>1 DEF CancelStart, CancelBefore, CancelErase, Starts, At, Uncancelled
  <2>2. CASE Cools(p)
    BY <2>2 DEF Cools, Hot, Uncancelled
  <2> QED
    BY <2>1, <2>2, CallSteps, HeatForms DEF Heats
<1>2. ASSUME NEW p PROVE ~CancelTell(p) \/ p \notin Callers
  BY CallerIsHandler DEF CancelTell, At, Uncancelled
<1>3. \A r \in Rows : captured'[r] = {}
  BY <1>2, CapturedSteps DEF Uncancelled
<1>4. ASSUME NEW t \in told' PROVE ~t.cap
  <2>1. CASE Passed(t)
    <3>1. \A u \in told : u.row \in Rows /\ ~u.cap
      BY DEF Parts, Rest, Task, Uncancelled
    <3> QED
      BY <2>1, <3>1 DEF Passed, Uncancelled
  <2>2. CASE Reported(t)
    BY <2>2 DEF Reported, News
  <2> QED
    BY <1>2, <2>1, <2>2, ToldSteps DEF Cancelled, Uncancelled
<1> QED
  BY <1>1, <1>3, <1>4 DEF Uncancelled

LEMMA UncancelledInit == Init => Uncancelled
  BY DEF Init, Uncancelled, OffCall

\* No channel changes but by a switch and a reset.
LEMMA ChanSteps ==
    ASSUME OwnInv, "toggle" \notin Ops, [Next]_vars
    PROVE  UNCHANGED chan
<1>1. ASSUME NEW p \in Callers, Proceed(p) PROVE UNCHANGED chan
  <2>1. ~ResetArchive(p)
    BY CallerIsHandler DEF OwnInv, NoReset, ResetArchive, At, Resetting
  <2> QED
    BY <1>1, <2>1 DEF Proceed, CreateTake, SendTake, CancelBefore, CancelErase, CancelTell,
       ReturnComments, Rehold, RetryRow, DismissRow, ResetList, ResetGivenUp, ResetMove,
       ResetStop, ResetRearm, DeleteList, DeleteRows, DeleteGone, DeletePurge, DeleteGive,
       sessVars
<1>2. ASSUME NEW p \in Handlers, Route(p) \/ Fire(p) \/ Json(p) \/ JsonTimeout(p)
      PROVE  UNCHANGED chan
  BY <1>2 DEF Route, Fire, SendFire, FireCas, FireCheck, FireEnqueue, Json, JsonTimeout,
     JsonAble, JsonGiveBack, JsonAdopt, JsonEnqueue, JsonAfter, JsonHoldBack,
     JsonFailMark, JsonSentMark, sessVars
<1>3. ASSUME NEW p \in Callers, Request(p) PROVE UNCHANGED chan
  BY <1>3 DEF Request, SendNow, Claim, CancelStart, RetryStart, DismissStart, CreateStart,
     SendStart, Discard, Toggle, ResetStart, DeleteStart, Starts, sessVars
<1>4. CASE \/ \E q \in Rows : Poll(q)
           \/ \E u \in turns : TurnPersist(u) \/ TurnWithdraw(u) \/ TurnSettle(u)
           \/ \E k \in Jobs : WorkerNext(k) \/ Work(k) \/ TickTimeout(k)
           \/ \E u \in told : Observe(u)
           \/ Crash \/ Boot \/ UNCHANGED vars
  BY <1>4 DEF Poll, Claim, TurnPersist, TurnWithdraw, TurnSettle, WorkerNext, Work,
     TickTimeout, TickRead, TickResolve, JobRearm, JobFail, DeliverCas, DeliverPaste,
     DeliverMark, Observe, ObserverStart, ObserverRestore, ObserverMark, ObserverDrop,
     Crash, Boot, BootHold, BootGive, BootNext, BootRecover, vars, sessVars
<1> QED
  BY <1>1, <1>2, <1>3, <1>4 DEF Next

\* What a job may turn to.
JobTurnsTo(k) ==
    \/ job'[k].pc = "off"
    \/ /\ job[k].pc # "off" /\ job'[k].sess = job[k].sess
       /\ job'[k].pc = "rearm" => job[k].pc = "rearm" \/ chan[job[k].sess] = "json"
    \/ /\ job'[k].pc = "fire"
       /\ \/ chan[job'[k].sess] = "tmux"
          \/ \E p \in Handlers : call[p].pc = "made" /\ job'[k].sess = call[p].sess

LEMMA JobSteps ==
    ASSUME Parts, FireJobs, KnownInv, [Next]_vars, NEW k \in Jobs
    PROVE  JobTurnsTo(k)
<1> USE DEF Parts
<1>1. CASE job'[k] = job[k]
  BY <1>1 DEF JobTurnsTo
<1>2. ASSUME NEW l \in Jobs, WorkerNext(l) PROVE JobTurnsTo(k)
  <2>1. CASE k # l
    BY <1>2, <2>1, NextKinds DEF Copies, JobTurnsTo
  <2>2. CASE k = l
    <3>1. job[k].pc = "queued" /\ (job'[k] = OffJob \/ job'[k] = [job[k] EXCEPT !.pc = "tick"])
      BY <1>2, <2>2, NextKinds
    <3> QED
      BY <3>1, JobType DEF Job, OffJob, JobTurnsTo
  <2> QED
    BY <2>1, <2>2
<1>3. ASSUME NEW l \in Jobs, Work(l) \/ TickTimeout(l) PROVE JobTurnsTo(k)
  <2>1. Owning(l) /\ (EndJob(l) \/ JobTurns(l))
    BY <1>3, WorkKinds
  <2>2. CASE EndJob(l)
    <3>1. job'[k] = job[k] \/ job'[k] = OffJob
      BY <2>2 DEF EndJob, JobInv
    <3> QED
      BY <1>1, <3>1 DEF OffJob, JobTurnsTo
  <2>3. CASE JobTurns(l) /\ k = l
    <3>1. job[k].pc # "off" /\ job'[k].sess = job[k].sess
      BY <2>1, <2>3 DEF JobTurns, Owning
    <3>2. job'[k].pc = "rearm" => chan[job[k].sess] = "json"
      <4>1. \A pc : JobGoto(k, pc) => job'[k].pc = pc
        BY MoveGoes
      <4>2. CASE TickRead(k) /\ ~EndJob(k)
        <5>0. PICK h, i : job' = [job EXCEPT ![k].pc = "resolve", ![k].held = h,
                                             ![k].imm = i]
          BY <4>2 DEF TickRead
        <5>1. job'[k] = [job[k] EXCEPT !.pc = "resolve", !.held = h, !.imm = i]
          BY <5>0 DEF JobInv
        <5>2. job'[k].pc = "resolve"
          BY <5>1, JobType DEF Job
        <5> QED
          BY <5>2
      <4>3. CASE EndJob(k)
        BY <4>3 DEF EndJob, JobInv, OffJob
      <4>4. CASE TickTimeout(k) \/ DeliverPaste(k) \/ (DeliverCas(k) /\ ~EndJob(k))
        BY <4>1, <4>4 DEF TickTimeout, DeliverPaste, DeliverCas
      <4>5. CASE TickResolve(k) /\ ~EndJob(k)
        BY <4>1, <4>5 DEF TickResolve
      <4>6. ~(JobRearm(k) \/ JobFail(k) \/ DeliverMark(k)) \/ EndJob(k)
        BY DEF JobRearm, JobFail, DeliverMark
      <4> QED
        BY <1>3, <2>3, <4>2, <4>3, <4>4, <4>5, <4>6 DEF Work
    <3> QED
      BY <3>1, <3>2 DEF JobTurnsTo
  <2>4. CASE JobTurns(l) /\ k # l
    BY <1>1, <2>4 DEF JobTurns
  <2> QED
    BY <2>1, <2>2, <2>3, <2>4
<1>4. ASSUME NEW rs, StopJobs(rs) PROVE JobTurnsTo(k)
  <2>1. PICK ks, y : y = job'[k] /\ y = Stopped(ks, job)[k]
    BY <1>4 DEF StopJobs
  <2>2. y = OffJob \/ (y.pc = job[k].pc /\ y.sess = job[k].sess)
    BY <2>1, StopEffect DEF Copies
  <2> QED
    BY <2>1, <2>2 DEF OffJob, JobTurnsTo
<1>5. ASSUME NEW p \in Handlers, NEW r \in Rows, NEW s \in Sessions, Register(p, r, s),
             s = call[p].sess, call[p].pc = "made" \/ chan[s] = "tmux"
      PROVE  JobTurnsTo(k)
  <2>1. \/ job'[k].pc = "fire" /\ job'[k].sess = s
        \/ job'[k] = OffJob \/ (job'[k].pc = job[k].pc /\ job'[k].sess = job[k].sess)
    BY <1>5, RegisterEffect DEF Copies
  <2> QED
    BY <1>5, <2>1 DEF OffJob, JobTurnsTo
<1>6. ASSUME NEW p \in Handlers, Route(p) \/ Fire(p) PROVE JobTurnsTo(k)
  <2>1. call[p].row \in Rows /\ call[p].sess \in Sessions
    BY <1>6, AtRow, RowPcs DEF Route, Fire, SendFire, FireCas, FireCheck, FireEnqueue,
       At, Dispatching
  <2>2. CASE Route(p) \/ SendFire(p)
    BY <1>1, <1>5, <2>1, <2>2 DEF Route, SendFire, At, jobVars
  <2>3. CASE FireCas(p) \/ FireCheck(p)
    <3>1. job'[k] = job[k] \/ job'[k] = OffJob
      BY <2>3 DEF FireCas, FireCheck, jobVars, JobInv
    <3> QED
      BY <1>1, <3>1 DEF OffJob, JobTurnsTo
  <2>4. CASE FireEnqueue(p)
    <3>1. Firing(p) /\ call[p].job \in Jobs
      BY <2>4, AtRow, RowPcs DEF FireEnqueue, At, Firing, Dispatching
    <3>2. PICK l \in Jobs : l = call[p].job
      BY <3>1
    <3>3. job[l].pc = "fire"
      BY <3>1, <3>2 DEF FireJobs
    <3>4. PICK ls : job' = [job EXCEPT ![l].pc = "queued", ![l].ahead = ls]
      BY <2>4, <3>2 DEF FireEnqueue
    <3>5. CASE k = l
      <4>1. job'[k] = [job[k] EXCEPT !.pc = "queued", !.ahead = ls]
        BY <3>4, <3>5 DEF JobInv
      <4>2. job'[k].pc = "queued" /\ job'[k].sess = job[k].sess
        BY <4>1, JobType DEF Job
      <4> QED
        BY <3>3, <3>5, <4>2 DEF JobTurnsTo
    <3>6. CASE k # l
      BY <1>1, <3>4, <3>6 DEF JobInv
    <3> QED
      BY <3>5, <3>6
  <2> QED
    BY <1>6, <2>2, <2>3, <2>4 DEF Fire
<1>7. ASSUME NEW p \in Callers, Proceed(p) PROVE JobTurnsTo(k)
  <2>1. CASE \E rs : StopJobs(rs)
    BY <1>4, <2>1
  <2>2. CASE ~\E rs : StopJobs(rs)
    <3>1. UNCHANGED job
      BY <1>7, <2>2 DEF Proceed, CreateTake, SendTake, CancelBefore, CancelErase,
         CancelTell, ReturnComments, Rehold, RetryRow, DismissRow, ResetList,
         ResetArchive, ResetGivenUp, ResetMove, ResetStop, ResetRearm, DeleteList,
         DeleteRows, DeleteGone, DeletePurge, DeleteGive, jobVars
    <3> QED
      BY <1>1, <3>1
  <2> QED
    BY <2>1, <2>2
<1>8. CASE Crash
  BY <1>8 DEF Crash, OffJob, JobTurnsTo
<1>9. ASSUME UNCHANGED job PROVE JobTurnsTo(k)
  BY <1>1, <1>9
<1>10. ASSUME NEW p \in Callers, Request(p) PROVE UNCHANGED job
  BY <1>10 DEF Request, SendNow, Claim, CancelStart, RetryStart, DismissStart, CreateStart,
     SendStart, Discard, Toggle, ResetStart, DeleteStart, jobVars
<1>11. ASSUME NEW p \in Handlers, Json(p) \/ JsonTimeout(p) PROVE UNCHANGED job
  BY <1>11 DEF Json, JsonTimeout, JsonAble, JsonGiveBack, JsonAdopt, JsonEnqueue,
     JsonAfter, JsonHoldBack, JsonFailMark, JsonSentMark, jobVars
<1>12. CASE \/ \E q \in Rows : Poll(q)
            \/ \E t \in told : Observe(t)
            \/ \E u \in turns : TurnPersist(u) \/ TurnWithdraw(u) \/ TurnSettle(u)
            \/ Boot \/ UNCHANGED vars
  <2>1. UNCHANGED job
    BY <1>12 DEF Poll, Claim, Observe, ObserverStart, ObserverRestore, ObserverMark,
       ObserverDrop, TurnPersist, TurnWithdraw, TurnSettle, Boot, BootHold, BootGive,
       BootNext, BootRecover, vars, jobVars
  <2> QED
    BY <1>9, <2>1
<1> QED
  BY <1>2, <1>3, <1>6, <1>7, <1>8, <1>9, <1>10, <1>11, <1>12 DEF Next

LEMMA BootSteps ==
    ASSUME [Next]_vars, ~Crash, ~Boot
    PROVE  UNCHANGED boot
<1>1. ASSUME NEW p \in Handlers, Route(p) \/ Fire(p) \/ Json(p) \/ JsonTimeout(p)
      PROVE  UNCHANGED boot
  BY <1>1 DEF Route, Fire, SendFire, FireCas, FireCheck, FireEnqueue, Json, JsonTimeout,
     JsonAble, JsonGiveBack, JsonAdopt, JsonEnqueue, JsonAfter, JsonHoldBack,
     JsonFailMark, JsonSentMark
<1>2. ASSUME NEW p \in Callers, Request(p) PROVE UNCHANGED boot
  BY <1>2 DEF Request, SendNow, Claim, CancelStart, RetryStart, DismissStart, CreateStart,
     SendStart, Discard, Toggle, ResetStart, DeleteStart
<1>3. ASSUME NEW p \in Callers, Proceed(p) PROVE UNCHANGED boot
  BY <1>3 DEF Proceed, CreateTake, SendTake, CancelBefore, CancelErase, CancelTell,
     ReturnComments, Rehold, RetryRow, DismissRow, ResetList, ResetArchive, ResetGivenUp,
     ResetMove, ResetStop, ResetRearm, DeleteList, DeleteRows, DeleteGone, DeletePurge,
     DeleteGive
<1>4. CASE \/ \E q \in Rows : Poll(q)
           \/ \E u \in turns : TurnPersist(u) \/ TurnWithdraw(u) \/ TurnSettle(u)
           \/ \E k \in Jobs : WorkerNext(k) \/ Work(k) \/ TickTimeout(k)
           \/ \E u \in told : Observe(u)
           \/ UNCHANGED vars
  BY <1>4 DEF Poll, Claim, TurnPersist, TurnWithdraw, TurnSettle, WorkerNext, Work,
     TickTimeout, TickRead, TickResolve, JobRearm, JobFail, DeliverCas, DeliverPaste,
     DeliverMark, Observe, ObserverStart, ObserverRestore, ObserverMark, ObserverDrop, vars
<1> QED
  BY <1>1, <1>2, <1>3, <1>4 DEF Next

LEMMA UnarmedStep ==
    ASSUME Parts, FireJobs, HandInv, OwnInv, KnownInv, Unarmed,
           "toggle" \notin Ops, MaxCrashes = 0, [Next]_vars
    PROVE  Unarmed'
<1>1. ~Crash
  <2>1. crashes \in Nat
    BY DEF Parts, Rest
  <2> QED
    BY <2>1 DEF Crash
<1>2. boot' = "up"
  <2>1. ~Boot
    BY DEF Unarmed, Boot, BootHold, BootGive, BootNext, BootRecover
  <2> QED
    BY <1>1, <2>1, BootSteps DEF Unarmed
<1>3. UNCHANGED chan
  BY ChanSteps
<1>4. ASSUME NEW p \in Handlers, call'[p].pc \in {"takeNow", "made"}
      PROVE  chan[call'[p].sess] = "tmux"
  <2>1. CASE Cools(p)
    BY <1>4, <2>1 DEF Cools, Hot, Unarmed
  <2>2. CASE \E r \in Rows, s \in Sessions : SendStart(p, r, s)
    BY <2>2, HeatForms DEF SendStart
  <2>3. CASE SendTake(p)
    BY <1>4, <2>3, HeatForms DEF SendTake, At, Unarmed
  <2> QED
    BY <1>4, <2>1, <2>2, <2>3, CallSteps, HeatForms DEF Heats
<1>5. ASSUME NEW k \in Jobs
      PROVE  job'[k].pc # "rearm" /\ (job'[k].pc # "off" => chan[job'[k].sess] = "tmux")
  <2>1. JobTurnsTo(k)
    BY JobSteps
  <2> QED
    BY <2>1 DEF JobTurnsTo, Unarmed
<1>6. ASSUME NEW t \in told' PROVE t.out # "rearmed"
  <2>1. ASSUME NEW r, NEW o, t = News(r, o) PROVE t.out = o
    BY <2>1 DEF News
  <2> QED
    BY <2>1, ToldSteps DEF Passed, Cancelled, Reported, Unarmed, OwnInv, NoReset
<1> QED
  BY <1>2, <1>3, <1>4, <1>5, <1>6 DEF Unarmed

LEMMA UnarmedInit == Init => Unarmed
  BY DEF Init, Unarmed, OffCall, OffJob

\* The observer is told something new of a row only while it is pending.
LEMMA DeafStays ==
    ASSUME Parts, HandInv, [Next]_vars, NEW r \in Rows, Gone(r), Deaf(r)
    PROVE  Deaf(r)'
<1> SUFFICES ASSUME NEW t \in told', t.row = r, t.pc = "start"
             PROVE  t.out \notin {"sent", "rearmed"}
  BY DEF Deaf
<1>1. ~Passed(t)
  BY DEF Passed
<1>2. Cancelled(t) => t.out = "cancelled"
  BY DEF Cancelled, News
<1>3. ~Reported(t)
  <2>1. ASSUME NEW q, NEW o, t = News(q, o) PROVE q = r
    BY <2>1 DEF News
  <2> QED
    BY <2>1 DEF Reported, Pending, Gone
<1> QED
  BY <1>1, <1>2, <1>3, ToldSteps DEF Deaf

\* An outcome waits for the observer.
LEMMA ToldStays ==
    ASSUME [Next]_vars, ~Crash, ~Boot, NEW t \in told
    PROVE  t \in told' \/ Observe(t)
<1>1. CASE told \subseteq told'
  BY <1>1
<1>2. ASSUME NEW u \in told, Observe(u), u # t PROVE t \in told'
  BY <1>2 DEF Observe, ObserverStart, ObserverRestore, ObserverMark, ObserverDrop
<1>3. ASSUME NEW p \in Callers, Proceed(p) PROVE told \subseteq told'
  BY <1>3 DEF Proceed, CreateTake, SendTake, CancelBefore, CancelErase, CancelTell,
     ReturnComments, Rehold, RetryRow, DismissRow, ResetList, ResetArchive, ResetGivenUp,
     ResetMove, ResetStop, ResetRearm, DeleteList, DeleteRows, DeleteGone, DeletePurge,
     DeleteGive
<1>4. ASSUME NEW k \in Jobs, WorkerNext(k) \/ Work(k) \/ TickTimeout(k)
      PROVE  told \subseteq told'
  BY <1>4 DEF WorkerNext, Work, TickTimeout, TickRead, TickResolve, JobRearm, JobFail,
     DeliverCas, DeliverPaste, DeliverMark
<1>5. ASSUME NEW p \in Handlers, Route(p) \/ Fire(p) \/ Json(p) \/ JsonTimeout(p)
      PROVE  told \subseteq told'
  BY <1>5 DEF Route, Fire, SendFire, FireCas, FireCheck, FireEnqueue, Json, JsonTimeout,
     JsonAble, JsonGiveBack, JsonAdopt, JsonEnqueue, JsonAfter, JsonHoldBack,
     JsonFailMark, JsonSentMark
<1>6. ASSUME NEW p \in Callers, Request(p) PROVE told \subseteq told'
  BY <1>6 DEF Request, SendNow, Claim, CancelStart, RetryStart, DismissStart, CreateStart,
     SendStart, Discard, Toggle, ResetStart, DeleteStart
<1>7. CASE \/ \E q \in Rows : Poll(q)
           \/ \E u \in turns : TurnPersist(u) \/ TurnWithdraw(u) \/ TurnSettle(u)
           \/ UNCHANGED vars
  BY <1>7 DEF Poll, Claim, TurnPersist, TurnWithdraw, TurnSettle, vars
<1> QED
  BY <1>1, <1>2, <1>3, <1>4, <1>5, <1>6, <1>7 DEF Next

LEMMA TellStep ==
    ASSUME Parts, HandInv, Unarmed, TellKept, [Next]_vars
    PROVE  TellKept'
<1> USE DEF Parts
<1>1. ASSUME NEW p \in Handlers, CancelErase(p), call'[p].pc = "tell"
      PROVE  Pending(call[p].row) /\ call'[p].row = call[p].row /\ Alone(p)
  <2>1. CASE Return(p)
    BY <1>1, <2>1 DEF Return, CallInv, OffCall
  <2>2. CASE ~Return(p)
    BY <1>1, <2>2, GotoFields DEF CancelErase, Cancellable
  <2> QED
    BY <2>1, <2>2
<1>2. ASSUME NEW p \in Handlers, call'[p].pc = "tell"
      PROVE  \/ call'[p] = call[p] /\ Gone(call[p].row)
             \/ CancelErase(p)
  <2>1. Cools(p) \/ CancelErase(p)
    BY <1>2, CallSteps, HeatForms DEF Heats
  <2> QED
    BY <1>2, <2>1 DEF Cools, Hot, HandInv, CallKept
<1> SUFFICES ASSUME NEW p \in Handlers, call'[p].pc = "tell"
             PROVE  \E r \in Rows :
                      /\ r = call'[p].row /\ captured'[r] = {} /\ Deaf(r)'
                      /\ \A q \in Handlers :
                           call'[q].pc = "tell" /\ call'[q].row = r => q = p
  BY DEF TellKept, Deaf
<1>3. CASE call'[p] = call[p] /\ Gone(call[p].row)
  <2>1. PICK r \in Rows : r = call[p].row
    BY <1>3, RowPcs DEF CallInv, CallsKnown, CallKnown
  <2>2. captured'[r] = {}
    <3>1. ASSUME NEW q \in Callers, CancelTell(q), call[q].row = r PROVE FALSE
      <4>1. q \in Handlers /\ q = p
        BY <1>3, <2>1, <3>1, CallerIsHandler DEF CancelTell, At, TellKept
      <4>2. call'[q].pc = "off"
        BY <3>1, <4>1 DEF CancelTell, Return, CallInv, OffCall
      <4> QED
        BY <4>1, <4>2
    <3> QED
      BY <1>3, <2>1, <3>1, CapturedSteps DEF TellKept
  <2>3. Deaf(r)'
    BY <1>3, <2>1, DeafStays DEF TellKept
  <2>4. ASSUME NEW q \in Handlers, call'[q].pc = "tell", call'[q].row = r PROVE q = p
    <3>1. ~CancelErase(q)
      BY <1>1, <1>3, <2>1, <2>4 DEF Pending, Gone
    <3> QED
      BY <1>2, <1>3, <2>1, <2>4, <3>1 DEF TellKept
  <2> QED
    BY <1>3, <2>1, <2>2, <2>3, <2>4
<1>4. CASE CancelErase(p)
  <2>1. PICK r \in Rows : r = call[p].row /\ r = call'[p].row /\ Pending(r) /\ Alone(p)
    BY <1>1, <1>4, AtRow, RowPcs DEF CancelErase
  <2>2. captured'[r] = {} /\ told' = told
    BY <1>4, <2>1 DEF CancelErase, HandInv, Pending, Gone
  <2>3. Deaf(r)'
    BY <2>1, <2>2 DEF Deaf, HandInv, TaskKept, Unarmed
  <2>4. ASSUME NEW q \in Handlers, call'[q].pc = "tell", call'[q].row = r PROVE q = p
    BY <2>1, <2>4 DEF Alone, HandInv, CallKept, Pending, Gone
  <2> QED
    BY <2>1, <2>2, <2>3, <2>4
<1> QED
  BY <1>2, <1>3, <1>4

LEMMA CaptureStep ==
    ASSUME Parts, HandInv, boot = "up", TellKept, CaptureKept, [Next]_vars
    PROVE  CaptureKept'
<1> USE DEF Parts
<1> SUFFICES ASSUME NEW r \in Rows, captured'[r] # {}
             PROVE  News(r, "cancelled") \in told' /\ Deaf(r)'
  BY DEF CaptureKept, Deaf
<1>1. ~Crash /\ ~Boot
  BY DEF Crash, Boot, BootHold, BootGive, BootNext, BootRecover
<1>2. CASE captured'[r] = captured[r]
  <2>1. Gone(r) /\ Deaf(r) /\ News(r, "cancelled") \in told
    BY <1>2 DEF CaptureKept, HandInv
  <2>2. PICK t \in told : t = News(r, "cancelled")
    BY <2>1
  <2>3. t.row = r /\ t.pc = "start"
    BY <2>2 DEF News
  <2>4. ~Observe(t)
    BY <2>3 DEF Observe, ObserverStart, ObserverRestore, ObserverMark, ObserverDrop, Rest
  <2> QED
    BY <1>1, <2>1, <2>2, <2>4, ToldStays, DeafStays
<1>3. ASSUME NEW p \in Callers, CancelTell(p), call[p].row = r
      PROVE  News(r, "cancelled") \in told' /\ Deaf(r)'
  <2>1. p \in Handlers /\ call[p].pc = "tell"
    BY <1>3, CallerIsHandler DEF CancelTell, At
  <2>2. Gone(r) /\ Deaf(r)
    BY <1>3, <2>1 DEF HandInv, CallKept, TellKept
  <2>3. News(r, "cancelled") \in told'
    BY <1>3 DEF CancelTell
  <2> QED
    BY <2>2, <2>3, DeafStays
<1> QED
  BY <1>2, <1>3, CapturedSteps

-----------------------------------------------------------------------------
(* No comment is lost.                                                        *)

\* The comments of a row that the user can act on.
Staked(r) == IF row[r].status \in {"pending", "failed"} THEN HeldBy(row[r]) ELSE {}

\* A comment that is in a row, or on its way back after a cancel.
Cared(c) == \/ \E r \in Rows : c \in Staked(r) \/ c \in captured[r]
            \/ \E p \in Handlers : /\ call[p].pc \in {"tell", "return"}
                                   /\ c \in call[p].held
            \/ \E t \in told : t.pc = "restore" /\ t.cap /\ c \in t.held

\* Nothing is lost with comment c.
Clear(c) == panel[c] # "gone" \/ fate[c] # "none" \/ Cared(c)
CareInv == \A c \in Comments : Clear(c)

\* What a step must see to: the comments of rows, calls, tasks and captures, and
\* those that need no care before it.
RowsClear == \A r \in Rows, c \in Comments : c \in Staked(r) => Clear(c)'
CallsClear == \A p \in Handlers, c \in Comments :
                call[p].pc \in {"tell", "return"} /\ c \in call[p].held => Clear(c)'
TasksClear == \A t \in told, c \in Comments :
                t.pc = "restore" /\ t.cap /\ c \in t.held => Clear(c)'
CapturedClear == \A r \in Rows, c \in Comments : c \in captured[r] => Clear(c)'
LeftClear == \A c \in Comments : panel[c] # "gone" \/ fate[c] # "none" => Clear(c)'

LEMMA ClearFrame ==
    ASSUME CareInv, RowsClear, CallsClear, TasksClear, CapturedClear, LeftClear
    PROVE  CareInv'
<1> SUFFICES ASSUME NEW c \in Comments PROVE Clear(c)'
  BY DEF CareInv
<1>1. Clear(c)
  BY DEF CareInv
<1> QED
  BY <1>1 DEF Clear, Cared, RowsClear, CallsClear, TasksClear, CapturedClear, LeftClear

\* The daemon does not go down while comments are on their way back.
Calm == (boot = "up" /\ ~Crash) \/ Uncancelled

\* A call tells of a cancel, or puts its comments back, in one step.
LEMMA TellSteps ==
    ASSUME Parts, NEW p \in Handlers, call[p].pc \in {"tell", "return"}, [Next]_vars
    PROVE  \/ call'[p] = call[p] \/ Crash
           \/ p \in Callers /\ (CancelTell(p) \/ ReturnComments(p))
<1>1. ASSUME NEW q \in Handlers, Alone(q) PROVE call'[p] = call[p] \/ p = q
  BY <1>1 DEF Alone
<1>2. ~(Route(p) \/ Fire(p) \/ Json(p) \/ JsonTimeout(p))
  BY DEF Route, Fire, SendFire, FireCas, FireCheck, FireEnqueue, Json, JsonTimeout,
     JsonAble, JsonGiveBack, JsonAdopt, JsonEnqueue, JsonAfter, JsonHoldBack,
     JsonFailMark, JsonSentMark, At
<1>3. ASSUME NEW q \in Handlers, Route(q) \/ Fire(q) \/ Json(q) \/ JsonTimeout(q)
      PROVE  call'[p] = call[p]
  BY <1>1, <1>2, <1>3, AloneRoute, AloneJson
<1>4. Request(p) => UNCHANGED call
  BY DEF Request, SendNow, CancelStart, RetryStart, DismissStart, CreateStart, SendStart,
     Discard, Toggle, ResetStart, DeleteStart, Starts, At
<1>5. Proceed(p) => CancelTell(p) \/ ReturnComments(p)
  BY DEF Proceed, CreateTake, SendTake, CancelBefore, CancelErase, Rehold, RetryRow,
     DismissRow, ResetList, ResetArchive, ResetGivenUp, ResetMove, ResetStop, ResetRearm,
     DeleteList, DeleteRows, DeleteGone, DeletePurge, DeleteGive, At
<1>6. ASSUME NEW q \in Callers, Request(q) \/ Proceed(q)
      PROVE  call'[p] = call[p] \/ (p = q /\ (CancelTell(p) \/ ReturnComments(p)))
  BY <1>1, <1>4, <1>5, <1>6, CallerIsHandler, AloneRequest, AloneProceed
<1>7. ASSUME NEW r \in Rows, Poll(r) PROVE call'[p] = call[p]
  <2>1. Poller \in Handlers /\ Claim(Poller, r) /\ p # Poller
    BY <1>7 DEF Handlers, Poll, At
  <2> QED
    BY <1>1, <2>1, AloneClaim DEF Parts
<1>8. CASE \/ \E k \in Jobs : WorkerNext(k) \/ Work(k) \/ TickTimeout(k)
           \/ \E t \in told : Observe(t)
           \/ \E t \in turns : TurnPersist(t) \/ TurnWithdraw(t) \/ TurnSettle(t)
           \/ Boot \/ UNCHANGED vars
  <2>1. UNCHANGED call
    BY <1>8 DEF WorkerNext, Work, TickTimeout, TickRead, TickResolve, JobRearm, JobFail,
       DeliverCas, DeliverPaste, DeliverMark, Observe, ObserverStart, ObserverRestore,
       ObserverMark, ObserverDrop, TurnPersist, TurnWithdraw, TurnSettle, Boot,
       BootHold, BootGive, BootNext, BootRecover, vars
  <2> QED
    BY <2>1
<1> QED
  BY <1>3, <1>6, <1>7, <1>8 DEF Next

LEMMA CareCalls ==
    ASSUME Parts, Calm, [Next]_vars
    PROVE  CallsClear
<1> SUFFICES ASSUME NEW p \in Handlers, NEW c \in Comments,
                    call[p].pc \in {"tell", "return"}, c \in call[p].held
             PROVE  Clear(c)'
  BY DEF CallsClear
<1>1. ~Crash
  BY DEF Calm, Uncancelled
<1>2. CASE call'[p] = call[p]
  BY <1>2 DEF Clear, Cared
<1>3. CASE CancelTell(p)
  <2>1. call[p].row \in Rows
    BY <1>3, AtRow, RowPcs DEF CancelTell, Parts
  <2>2. c \in captured'[call[p].row]
    BY <1>3, <2>1 DEF CancelTell, Parts, Rest
  <2> QED
    BY <2>1, <2>2 DEF Clear, Cared
<1>4. CASE ReturnComments(p)
  <2>1. panel'[c] # "gone"
    BY <1>4 DEF ReturnComments, PutBack, Restored
  <2> QED
    BY <2>1 DEF Clear
<1> QED
  BY <1>1, <1>2, <1>3, <1>4, TellSteps

LEMMA CareCaptured ==
    ASSUME Parts, TellKept, CaptureKept, Calm, HandInv, [Next]_vars
    PROVE  CapturedClear
<1> SUFFICES ASSUME NEW r \in Rows, NEW c \in Comments, c \in captured[r]
             PROVE  Clear(c)'
  BY DEF CapturedClear
<1>1. ~Crash
  BY DEF Calm, Uncancelled
<1>2. CASE captured'[r] = captured[r]
  BY <1>2 DEF Clear, Cared
<1>3. ASSUME NEW t \in told, ObserverStart(t), t.row = r PROVE Clear(c)'
  <2>1. t.pc = "start" /\ captured[r] # {} /\ t \in Task
    BY <1>3 DEF ObserverStart, Parts, Rest
  <2>2. t.out \notin {"sent", "rearmed"}
    BY <1>3, <2>1 DEF CaptureKept, Deaf
  <2>3. PICK u : u = [t EXCEPT !.pc = "restore", !.held = captured[r], !.cap = TRUE,
                               !.imm = row[r].imm]
    OBVIOUS
  <2>4. u \in told'
    BY <1>3, <2>1, <2>2, <2>3 DEF ObserverStart
  <2>5. u.pc = "restore" /\ u.cap /\ u.held = captured[r]
    BY <2>1, <2>3 DEF Task
  <2> QED
    BY <2>4, <2>5 DEF Clear, Cared
<1>4. ASSUME NEW p \in Callers, CancelTell(p), call[p].row = r PROVE FALSE
  <2>1. p \in Handlers /\ call[p].pc = "tell"
    BY <1>4, CallerIsHandler DEF CancelTell, At
  <2> QED
    BY <1>4, <2>1 DEF TellKept
<1> QED
  BY <1>1, <1>2, <1>3, <1>4, CapturedSteps

LEMMA CareTasks ==
    ASSUME Parts, Calm, [Next]_vars
    PROVE  TasksClear
<1> SUFFICES ASSUME NEW t \in told, NEW c \in Comments,
                    t.pc = "restore", t.cap, c \in t.held
             PROVE  Clear(c)'
  BY DEF TasksClear
<1>1. ~Crash /\ ~Boot
  BY DEF Calm, Uncancelled, Boot, BootHold, BootGive, BootNext, BootRecover
<1>2. CASE t \in told'
  BY <1>2 DEF Clear, Cared
<1>3. CASE Observe(t)
  <2>1. panel'[c] # "gone"
    BY <1>3 DEF Observe, ObserverStart, ObserverRestore, ObserverMark, ObserverDrop,
       PutBack, Restored
  <2> QED
    BY <2>1 DEF Clear
<1> QED
  BY <1>1, <1>2, <1>3, ToldStays

\* A comment leaves the panel for a row, or has met its fate.
PanelClear == \A c \in Comments : panel'[c] = "gone" => panel[c] = "gone" \/ Clear(c)'

LEMMA FateSteps ==
    ASSUME Parts, [Next]_vars, NEW c \in Comments, fate[c] # "none"
    PROVE  fate'[c] # "none"
<1>1. CASE UNCHANGED fate
  BY <1>1
<1>2. ASSUME NEW r, NEW cs, GoOut(r, cs) PROVE fate'[c] # "none"
  BY <1>2 DEF GoOut
<1>3. ASSUME NEW p \in Callers, Request(p) PROVE fate'[c] # "none"
  <2>1. ASSUME NEW d \in Comments, Discard(p, d) PROVE fate'[c] # "none"
    BY <2>1 DEF Discard, Parts, HistoryType
  <2> QED
    BY <1>3, <2>1 DEF Request, SendNow, Claim, CancelStart, RetryStart, DismissStart,
       CreateStart, SendStart, Toggle, ResetStart, DeleteStart, historyVars
<1>4. ASSUME NEW p \in Callers, Proceed(p) PROVE UNCHANGED fate
  BY <1>4 DEF Proceed, CreateTake, SendTake, CancelBefore, CancelErase, CancelTell,
     ReturnComments, Rehold, RetryRow, DismissRow, ResetList, ResetArchive, ResetGivenUp,
     ResetMove, ResetStop, ResetRearm, DeleteList, DeleteRows, DeleteGone, DeletePurge,
     DeleteGive, historyVars
<1>5. ASSUME NEW k \in Jobs, WorkerNext(k) \/ Work(k) \/ TickTimeout(k)
      PROVE  UNCHANGED fate \/ \E r, cs : GoOut(r, cs)
  BY <1>5 DEF WorkerNext, Work, TickTimeout, TickRead, TickResolve, JobRearm, JobFail,
     DeliverCas, DeliverPaste, DeliverMark, historyVars
<1>6. ASSUME NEW p \in Handlers, Route(p) \/ Fire(p) \/ Json(p) \/ JsonTimeout(p)
      PROVE  UNCHANGED fate \/ \E r, cs : GoOut(r, cs)
  BY <1>6 DEF Route, Fire, SendFire, FireCas, FireCheck, FireEnqueue, Json, JsonTimeout,
     JsonAble, JsonGiveBack, JsonAdopt, JsonEnqueue, JsonAfter, JsonHoldBack,
     JsonFailMark, JsonSentMark, historyVars
<1>7. CASE \/ \E q \in Rows : Poll(q)
           \/ \E u \in turns : TurnPersist(u) \/ TurnWithdraw(u) \/ TurnSettle(u)
           \/ \E u \in told : Observe(u)
           \/ Crash \/ Boot \/ UNCHANGED vars
  <2>1. UNCHANGED fate \/ \E r, cs : GoOut(r, cs)
    BY <1>7 DEF Poll, Claim, TurnPersist, TurnWithdraw, TurnSettle, Observe, ObserverStart,
       ObserverRestore, ObserverMark, ObserverDrop, Crash, Boot, BootHold, BootGive,
       BootNext, BootRecover, vars, historyVars
  <2> QED
    BY <1>1, <1>2, <2>1
<1> QED
  BY <1>1, <1>2, <1>3, <1>4, <1>5, <1>6, <1>7 DEF Next

LEMMA LeftStep ==
    ASSUME Parts, PanelClear, [Next]_vars
    PROVE  LeftClear
  BY FateSteps DEF PanelClear, LeftClear, Clear

LEMMA ClearAlone == ASSUME UNCHANGED row PROVE RowsClear
  BY DEF RowsClear, Staked, HeldBy, Clear, Cared

LEMMA ClearRow ==
    ASSUME RowInv, NEW r \in Rows, NEW x, SetRow(r, x),
           \A c \in Comments : c \in Staked(r) => Clear(c)'
    PROVE  RowsClear
<1>1. \A q \in Rows \ {r} : row'[q] = row[q]
  BY DEF SetRow, RowInv
<1>2. \A q \in Rows \ {r} : Staked(q)' = Staked(q)
  BY <1>1 DEF Staked, HeldBy
<1> QED
  BY <1>2 DEF RowsClear, Clear, Cared

\* A row changes its state but not its comments.
LEMMA ClearFree ==
    ASSUME RowInv, NEW r \in Rows, NEW x, SetRow(r, x),
           \/ x = Failed(row[r]) \/ x = Unclaimed(row[r])
           \/ x = [row[r] EXCEPT !.claimed = TRUE]
           \/ \E ph : x = [row[r] EXCEPT !.phase = ph]
    PROVE  RowsClear
<1>1. x.status \in {row[r].status, "failed"} /\ x.pay = row[r].pay /\ x.snap = row[r].snap
  BY RowType DEF Row, Failed, Unclaimed
<1>2. row'[r] = x
  BY DEF SetRow, RowInv
<1>3. Staked(r) \subseteq Staked(r)'
  BY <1>1, <1>2 DEF Staked, HeldBy
<1> QED
  BY <1>3, ClearRow DEF Clear, Cared

\* The comments of the row go back.
LEMMA ClearRestore ==
    ASSUME RowInv, NEW r \in Rows, NEW cs, HeldBy(row[r]) \subseteq cs, RestoreRow(r, cs)
    PROVE  RowsClear /\ PanelClear
<1>1. ASSUME PutBack(cs), NEW c \in Comments, c \in cs PROVE Clear(c)'
  BY <1>1 DEF PutBack, Restored, Clear
<1>2. RowsClear
  BY <1>1, ClearAlone, ClearRow DEF RestoreRow, storeVars, Staked, HeldBy
<1>3. PanelClear
  BY DEF RestoreRow, storeVars, PutBack, Restored, PanelClear
<1> QED
  BY <1>2, <1>3

LEMMA ClearHold ==
    ASSUME RowInv, PanelType, NEW r \in Rows, RestoreHold(r)
    PROVE  RowsClear /\ PanelClear
<1>1. RowsClear
  BY ClearAlone, ClearRow DEF RestoreHold, Staked, HeldBy
<1>2. PanelClear
  BY DEF RestoreHold, PanelClear
<1> QED
  BY <1>1, <1>2

\* The hold of comments that have met their fate goes.
LEMMA ClearSettled ==
    ASSUME PanelType, NEW r \in Rows, RemoveHold(r), UNCHANGED <<row, fate>>,
           HeldUnder(r) \subseteq Fated
    PROVE  RowsClear /\ PanelClear
<1>1. PanelClear
  BY DEF RemoveHold, PanelClear, HeldUnder, Fated, Clear
<1> QED
  BY <1>1, ClearAlone

LEMMA PanelAlone == ASSUME UNCHANGED panel PROVE PanelClear
  BY DEF PanelClear

LEMMA CareTake ==
    ASSUME Parts, HandInv, NEW p \in Callers, CreateTake(p) \/ SendTake(p)
    PROVE  RowsClear /\ PanelClear
<1> USE DEF Parts
<1>1. Taking(p) /\ p \in Handlers
  BY CallerIsHandler DEF CreateTake, SendTake, At, Taking
<1>2. PICK r \in Rows : r = call[p].row
  BY <1>1, OwnRows
<1>3. Staked(r) = {}
  BY <1>1, <1>2 DEF HandInv, TakesUnused, Staked
<1>4. ASSUME NEW cs, NEW x, SetRow(r, x), x.status = "pending", x.snap = cs,
             cs # {} => x.pay = "held",
             panel' = [c \in Comments |-> IF c \in cs THEN "gone" ELSE panel[c]]
      PROVE  RowsClear /\ PanelClear
  <2>1. row'[r] = x
    BY <1>4 DEF SetRow, RowInv
  <2>2. \A c \in cs : c \in Staked(r)'
    BY <1>4, <2>1 DEF Staked, HeldBy
  <2>3. PanelClear
    BY <1>4, <2>2 DEF PanelClear, Clear, Cared
  <2> QED
    BY <1>3, <1>4, <2>3, ClearRow
<1>5. CASE CreateTake(p)
  <2>1. PICK cs, x : /\ SetRow(r, x)
                     /\ x = [Blank("pending") EXCEPT
                          !.sess = call[p].sess, !.tmux = call[p].tmux,
                          !.pay = IF cs = {} THEN "none" ELSE "held", !.snap = cs]
                     /\ panel' = [c \in Comments |-> IF c \in cs THEN "gone" ELSE panel[c]]
    BY <1>2, <1>5 DEF CreateTake
  <2>2. x.status = "pending" /\ x.snap = cs /\ (cs # {} => x.pay = "held")
    BY <2>1 DEF Blank
  <2> QED
    BY <1>4, <2>1, <2>2
<1>6. CASE SendTake(p) /\ ~UNCHANGED storeVars
  <2>1. PICK cs, x : /\ SetRow(r, x)
                     /\ x = [Blank("pending") EXCEPT
                          !.claimed = TRUE, !.phase = "waiting",
                          !.sess = call[p].sess, !.imm = TRUE, !.tmux = TRUE,
                          !.pay = "held", !.snap = cs]
                     /\ panel' = [c \in Comments |-> IF c \in cs THEN "gone" ELSE panel[c]]
    BY <1>2, <1>6 DEF SendTake
  <2>2. x.status = "pending" /\ x.snap = cs /\ x.pay = "held"
    BY <2>1 DEF Blank
  <2> QED
    BY <1>4, <2>1, <2>2
<1> QED
  BY <1>5, <1>6, ClearAlone, PanelAlone DEF storeVars

LEMMA CareErase ==
    ASSUME Parts, HandInv, NEW p \in Callers, CancelErase(p)
    PROVE  RowsClear /\ PanelClear
<1> USE DEF Parts
<1>1. p \in Handlers /\ call[p].pc = "erase"
  BY CallerIsHandler DEF CancelErase, At
<1>2. PICK r \in Rows : r = call[p].row
  BY <1>1, AtRow, RowPcs DEF CancelErase
<1>3. HeldBy(row[r]) \subseteq call[p].held
  BY <1>1, <1>2 DEF HandInv, CallKept, Carried
<1>4. ASSUME Cancellable(r, call[p].sess), NEW c \in Comments, c \in Staked(r) PROVE Clear(c)'
  <2>1. c \in call[p].held
    BY <1>3, <1>4 DEF Staked
  <2>2. PICK pc \in {"tell", "return"} : Goto(p, pc)
    BY <1>2, <1>4, <2>1 DEF CancelErase
  <2>3. call'[p] = [call[p] EXCEPT !.pc = pc]
    BY <1>1, <2>2 DEF Goto, CallInv
  <2>4. call'[p].pc = pc /\ call'[p].held = call[p].held
    BY <1>1, <2>3, CallType DEF Call
  <2> QED
    BY <1>1, <2>1, <2>4 DEF Clear, Cared
<1>5. RowsClear
  BY <1>2, <1>4, ClearRow, ClearAlone DEF CancelErase
<1> QED
  BY <1>5, PanelAlone DEF CancelErase

LEMMA CareClaim ==
    ASSUME Parts, NEW p, NEW r \in Rows, Claim(p, r)
    PROVE  RowsClear /\ PanelClear
  BY ClearFree, PanelAlone DEF Claim, Parts

LEMMA CareRequest ==
    ASSUME Parts, NEW p \in Callers, Request(p)
    PROVE  RowsClear /\ PanelClear
<1>1. ASSUME NEW r \in Rows, SendNow(p, r) PROVE RowsClear /\ PanelClear
  BY <1>1, CareClaim DEF SendNow
<1>2. ASSUME NEW c \in Comments, Discard(p, c) PROVE RowsClear /\ PanelClear
  <2>1. Clear(c)'
    BY <1>2 DEF Discard, Clear, Parts, HistoryType
  <2>2. PanelClear
    BY <1>2, <2>1 DEF Discard, PanelClear, Parts, PanelType
  <2> QED
    BY <1>2, <2>2, ClearAlone DEF Discard
<1>3. CASE UNCHANGED storeVars
  BY <1>3, ClearAlone, PanelAlone DEF storeVars
<1> QED
  BY <1>1, <1>2, <1>3 DEF Request, CancelStart, RetryStart, DismissStart, CreateStart,
     SendStart, Toggle, ResetStart, DeleteStart

LEMMA CareProceed ==
    ASSUME Parts, HandInv, NEW p \in Callers, Proceed(p)
    PROVE  RowsClear /\ PanelClear
<1> USE DEF Parts
<1>1. call[p].pc \notin Deleting \cup {"rehold", "retry", "dismiss"}
  BY CallerIsHandler DEF HandInv, CallKept
<1>2. CASE CreateTake(p) \/ SendTake(p)
  BY <1>2, CareTake
<1>3. CASE CancelErase(p)
  BY <1>3, CareErase
<1>4. CASE ReturnComments(p)
  <2>1. PanelClear
    BY <1>4 DEF ReturnComments, PutBack, Restored, PanelClear
  <2> QED
    BY <1>4, <2>1, ClearAlone DEF ReturnComments
<1>5. ASSUME NEW r \in Rows, ResetStop(p, r) \/ ResetRearm(p, r)
      PROVE  RowsClear /\ PanelClear
  BY <1>5, ClearFree, ClearAlone, PanelAlone DEF ResetStop, ResetRearm
<1>6. CASE ResetMove(p)
  <2>1. ASSUME NEW r \in Rows PROVE Staked(r) \subseteq Staked(r)'
    <3>1. \/ row'[r] = row[r]
          \/ row'[r] = [Unclaimed(row[r]) EXCEPT !.sess = call[p].to]
      BY <1>6 DEF ResetMove
    <3>2. /\ row'[r].status = row[r].status /\ row'[r].pay = row[r].pay
          /\ row'[r].snap = row[r].snap
      BY <3>1, RowType DEF Unclaimed, Row
    <3> QED
      BY <3>2 DEF Staked, HeldBy
  <2>2. RowsClear
    BY <2>1 DEF RowsClear, Clear, Cared
  <2> QED
    BY <1>6, <2>2, PanelAlone DEF ResetMove
<1>7. CASE UNCHANGED storeVars
  BY <1>7, ClearAlone, PanelAlone DEF storeVars
<1>8. ~(\/ Rehold(p) \/ RetryRow(p) \/ DismissRow(p)
        \/ DeletePurge(p) \/ \E r \in Rows : DeleteGive(p, r))
  BY <1>1 DEF Rehold, RetryRow, DismissRow, DeletePurge, DeleteGive, At, Deleting
<1> QED
  BY <1>2, <1>3, <1>4, <1>5, <1>6, <1>7, <1>8 DEF Proceed, CancelBefore, CancelTell,
     ResetList, ResetArchive, ResetGivenUp, DeleteList, DeleteRows, DeleteGone

LEMMA CareFire ==
    ASSUME Parts, NEW p \in Handlers, Route(p) \/ Fire(p)
    PROVE  RowsClear /\ PanelClear
<1>1. CASE FireCas(p)
  <2>1. PICK r \in Rows : r = call[p].row
    BY <1>1, AtRow, RowPcs DEF FireCas, Parts, Dispatching
  <2> QED
    BY <1>1, <2>1, ClearFree, ClearAlone, PanelAlone DEF FireCas, Parts
<1>2. CASE UNCHANGED storeVars
  BY <1>2, ClearAlone, PanelAlone DEF storeVars
<1> QED
  BY <1>1, <1>2 DEF Route, Fire, SendFire, FireCheck, FireEnqueue

LEMMA CareJson ==
    ASSUME Parts, HandInv, NEW p \in Handlers, Json(p) \/ JsonTimeout(p)
    PROVE  RowsClear /\ PanelClear
<1> USE DEF Parts
<1>1. call[p].pc \in JsonPcs /\ boot = "up"
  BY DEF Json, JsonTimeout, JsonAble, JsonGiveBack, JsonAdopt, JsonEnqueue,
         JsonAfter, JsonHoldBack, JsonFailMark, JsonSentMark, At, JsonPcs
<1>2. PICK r \in Rows : r = call[p].row
  BY <1>1, AtRow, RowPcs DEF At, JsonPcs, Dispatching
<1>3. CallKept(p)
  BY DEF HandInv
<1>4. CASE UNCHANGED storeVars
  BY <1>4, ClearAlone, PanelAlone DEF storeVars
<1>5. CASE JsonGiveBack(p)
  <2>1. HeldBy(row[r]) \subseteq call[p].held
    BY <1>2, <1>3, <1>5 DEF CallKept, Carried, JsonGiveBack, At
  <2> QED
    BY <1>2, <1>5, <2>1, ClearRestore DEF JsonGiveBack
<1>6. CASE JsonAdopt(p) /\ Adopt(r, call[p].held)
  <2>1. HeldBy(row[r]) \subseteq call[p].held
    BY <1>2, <1>3, <1>6 DEF CallKept, Carried, JsonAdopt, At
  <2>2. ASSUME NEW c \in Comments, c \in call[p].held PROVE Clear(c)'
    BY <1>6, <2>2, DeliveryAssumption DEF Adopt, Clear
  <2>3. RowsClear
    BY <1>6, <2>1, <2>2, ClearRow DEF Adopt, Staked
  <2>4. PanelClear
    BY <1>6, DeliveryAssumption DEF Adopt, PanelClear
  <2> QED
    BY <2>3, <2>4
<1>7. CASE JsonHoldBack(p) \/ JsonTimeout(p)
  BY <1>2, <1>4, <1>7, ClearHold DEF JsonHoldBack, JsonTimeout
<1>8. CASE JsonFailMark(p)
  BY <1>2, <1>8, ClearFree, ClearAlone, PanelAlone DEF JsonFailMark
<1>9. CASE JsonSentMark(p)
  <2>1. Staked(r) = {}
    BY <1>2, <1>3, <1>9 DEF JsonSentMark, At, CallKept, Spent, Staked, HeldBy
  <2> QED
    BY <1>2, <1>9, <2>1, ClearRow, ClearAlone, PanelAlone DEF JsonSentMark
<1> QED
  BY <1>2, <1>4, <1>5, <1>6, <1>7, <1>8, <1>9 DEF Json, JsonAble, JsonAdopt, JsonEnqueue,
     JsonAfter

LEMMA CareWork ==
    ASSUME Parts, HandInv, NEW k \in Jobs, WorkerNext(k) \/ Work(k) \/ TickTimeout(k)
    PROVE  RowsClear /\ PanelClear
<1> USE DEF Parts
<1>1. PICK r \in Rows : r = job[k].row
  BY WorkKinds, NextKinds, OwnRows DEF Owning
<1>2. PanelClear
  BY PanelAlone DEF WorkerNext, Work, TickTimeout, TickRead, TickResolve, JobRearm, JobFail,
     DeliverCas, DeliverPaste, DeliverMark, storeVars
<1>3. CASE DeliverMark(k)
  <2>1. HeldBy(row[r]) \subseteq Fated /\ UNCHANGED fate
    BY <1>1, <1>3 DEF DeliverMark, InJob, HandInv, JobKept, Carried, historyVars
  <2>2. \A c \in Comments : c \in Staked(r) => Clear(c)'
    BY <2>1 DEF Staked, Fated, Clear
  <2> QED
    BY <1>1, <1>2, <1>3, <2>2, ClearRow, ClearAlone DEF DeliverMark
<1>4. CASE JobRearm(k) \/ JobFail(k) \/ DeliverCas(k)
  BY <1>1, <1>2, <1>4, ClearFree, ClearAlone DEF JobRearm, JobFail, DeliverCas
<1>5. CASE UNCHANGED row
  BY <1>2, <1>5, ClearAlone
<1> QED
  BY <1>3, <1>4, <1>5 DEF WorkerNext, Work, TickTimeout, TickRead, TickResolve,
     DeliverPaste, storeVars

LEMMA CareObserve ==
    ASSUME Parts, HandInv, NEW t \in told, Observe(t)
    PROVE  RowsClear /\ PanelClear
<1> USE DEF Parts
<1>1. TaskKept(t) /\ t \in Task
  BY DEF HandInv, Rest
<1>2. PICK r \in Rows : r = t.row
  BY <1>1 DEF Task
<1>3. CASE ObserverStart(t)
  BY <1>3, ClearAlone, PanelAlone DEF ObserverStart, storeVars
<1>4. CASE ObserverRestore(t) /\ t.cap
  <2>1. PanelClear /\ UNCHANGED row
    BY <1>4 DEF ObserverRestore, PutBack, Restored, PanelClear
  <2> QED
    BY <2>1, ClearAlone
<1>5. CASE ObserverRestore(t) /\ ~t.cap
  <2>1. HeldBy(row[r]) \subseteq t.held
    BY <1>1, <1>2, <1>5 DEF ObserverRestore, TaskKept, Carried
  <2> QED
    BY <1>2, <1>5, <2>1, ClearRestore DEF ObserverRestore
<1>6. CASE ObserverMark(t) \/ ObserverDrop(t)
  <2>1. Staked(r) = {}
    BY <1>1, <1>2, <1>6 DEF TaskKept, ObserverMark, ObserverDrop, Staked, HeldBy, Spent, Gone
  <2>2. UNCHANGED row \/ \E x : SetRow(r, x)
    BY <1>2, <1>6 DEF ObserverMark, ObserverDrop
  <2>3. PanelClear
    BY <1>6, PanelAlone DEF ObserverMark, ObserverDrop
  <2> QED
    BY <2>1, <2>2, <2>3, ClearAlone, ClearRow
<1> QED
  BY <1>3, <1>4, <1>5, <1>6 DEF Observe

LEMMA CareTurn ==
    ASSUME Parts, HandInv, NEW t \in turns,
           TurnPersist(t) \/ TurnWithdraw(t) \/ TurnSettle(t)
    PROVE  RowsClear /\ PanelClear
<1> USE DEF Parts
<1>1. TurnKept(t) /\ t \in Turn
  BY DEF HandInv, Rest
<1>2. PICK r \in Rows : r = t.row
  BY <1>1 DEF Turn
<1>3. CASE UNCHANGED storeVars
  BY <1>3, ClearAlone, PanelAlone DEF storeVars
<1>4. CASE TurnSettle(t) /\ t.pc = "kept"
  <2>1. HeldUnder(r) \subseteq Fated
    BY <1>1, <1>2, <1>4 DEF TurnKept
  <2> QED
    BY <1>2, <1>4, <2>1, ClearSettled DEF TurnSettle, historyVars
<1>5. CASE TurnSettle(t) /\ t.pc # "kept"
  BY <1>2, <1>5, ClearHold DEF TurnSettle
<1> QED
  BY <1>3, <1>4, <1>5 DEF TurnPersist, TurnWithdraw

LEMMA CareBoot ==
    ASSUME Parts, HandInv, Boot
    PROVE  RowsClear /\ PanelClear
<1> USE DEF Parts
<1>1. ASSUME NEW r \in Rows, BootHold(r) PROVE RowsClear /\ PanelClear
  <2>1. CASE RestoreHold(r)
    BY <2>1, ClearHold
  <2>2. CASE RemoveHold(r) /\ UNCHANGED row /\ Kept(r)
    <3>1. PICK t \in turns : t.row = r
      BY <2>2 DEF Kept
    <3>2. HeldUnder(r) \subseteq Fated
      BY <1>1, <3>1 DEF HandInv, TurnKept, BootHold
    <3> QED
      BY <1>1, <2>2, <3>2, ClearSettled DEF BootHold, historyVars
  <2> QED
    BY <1>1, <2>1, <2>2 DEF BootHold
<1>2. ASSUME NEW r \in Rows, BootGive(r) PROVE RowsClear /\ PanelClear
  BY <1>2, ClearRestore DEF BootGive, HeldBy
<1>3. CASE BootNext
  BY <1>3, ClearAlone, PanelAlone DEF BootNext, storeVars
<1>4. CASE BootRecover
  <2> DEFINE lost == {r \in Rows : Exists(r) /\ sess[row[r].sess] = "deleted"}
             back == {r \in Rows \ lost : Claimed(r)}
  <2>1. lost = {}
    BY RowType DEF RowKnown, Exists, HandInv
  <2>2. \A r \in Rows : row'[r] = IF r \in back THEN Recovered(row[r]) ELSE row[r]
    BY <1>4, <2>1 DEF BootRecover
  <2>3. ASSUME NEW r \in Rows PROVE Staked(r) \subseteq Staked(r)'
    <3>1. row'[r] = row[r] \/ row'[r] = Failed(row[r]) \/ row'[r] = Unclaimed(row[r])
      BY <2>2 DEF Recovered
    <3>2. /\ row'[r].status \in {row[r].status, "failed"} /\ row'[r].pay = row[r].pay
          /\ row'[r].snap = row[r].snap
      BY <3>1, RowType DEF Failed, Unclaimed, Row
    <3> QED
      BY <3>2 DEF Staked, HeldBy
  <2>4. RowsClear
    BY <2>3 DEF RowsClear, Clear, Cared
  <2> QED
    BY <1>4, <2>4, PanelAlone DEF BootRecover
<1> QED
  BY <1>1, <1>2, <1>3, <1>4 DEF Boot

LEMMA CareStep ==
    ASSUME Parts, HandInv, TellKept, CaptureKept, Calm, CareInv, [Next]_vars
    PROVE  CareInv'
<1>1. RowsClear /\ PanelClear
  <2>1. ASSUME NEW r \in Rows, Poll(r) PROVE RowsClear /\ PanelClear
    BY <2>1, CareClaim DEF Poll
  <2>2. CASE Crash \/ UNCHANGED vars
    BY <2>2, ClearAlone, PanelAlone DEF Crash, vars, storeVars
  <2> QED
    BY <2>1, <2>2, CareRequest, CareProceed, CareFire, CareJson, CareWork, CareObserve,
       CareTurn, CareBoot DEF Next
<1> QED
  BY <1>1, CareCalls, CareCaptured, CareTasks, LeftStep, ClearFrame

LEMMA CareInit == Init => CareInv
  BY DEF Init, CareInv, Clear

\* Whoever cares for a comment is one that the property names.
LEMMA CareKeeps == CareInv /\ CaptureKept => NoCommentLost
<1> SUFFICES ASSUME CareInv, CaptureKept, NEW c \in Comments,
                    panel[c] = "gone", fate[c] = "none"
             PROVE  InPayload(c) \/ InHand(c)
  BY DEF NoCommentLost
<1>1. Cared(c)
  BY DEF CareInv, Clear
<1>2. ASSUME NEW r \in Rows, c \in Staked(r) PROVE InPayload(c)
  BY <1>2 DEF Staked, InPayload
<1>3. ASSUME NEW r \in Rows, c \in captured[r] PROVE InHand(c)
  <2>1. PICK t \in told : t = News(r, "cancelled")
    BY <1>3 DEF CaptureKept
  <2>2. t.pc = "start" /\ t.out = "cancelled" /\ t.row = r
    BY <2>1 DEF News
  <2> QED
    BY <1>3, <2>2 DEF InHand
<1> QED
  BY <1>1, <1>2, <1>3 DEF Cared, InHand

\* Where nothing is retried, dismissed or deleted, and nothing is cancelled in a
\* daemon that goes down or while sessions are switched or reset: a comment that
\* has left the panel is with an agent, under a hold, in the payload of a row the
\* user can still act on, or on its way back.  No claim, adoption, withdrawn or
\* settled turn, failed or timed-out delivery, crash, or cancel that races with a
\* delivery and with the observer's earlier outcomes for the row, loses one.
THEOREM CommentsKept ==
    ASSUME Ops \cap {"retry", "dismiss", "delete"} = {},
           "cancel" \in Ops => Ops \cap {"toggle", "reset"} = {} /\ MaxCrashes = 0
    PROVE  Spec => []NoCommentLost
<1>1. TypeInv /\ HandInv /\ [Next]_vars => (TypeInv /\ HandInv)'
  <2>1. (Parts /\ FireJobs)' => TypeInv'
    BY TypeIsParts, PTL
  <2> QED
    BY <2>1, TypeIsParts, TypeStep, FireStep, HandStep
<1>2. CASE "cancel" \notin Ops
  <2>1. Uncancelled => TellKept /\ CaptureKept /\ Calm
    BY DEF Uncancelled, TellKept, CaptureKept, Calm
  <2>2. TypeInv /\ HandInv /\ Uncancelled /\ CareInv /\ [Next]_vars
          => (Uncancelled /\ CareInv)'
    BY <1>2, <2>1, TypeIsParts, UncancelledStep, CareStep
  <2>3. Uncancelled /\ CareInv => NoCommentLost
    BY <2>1, CareKeeps
  <2> QED
    BY <1>1, <2>2, <2>3, TypeInit, HandInit, UncancelledInit, CareInit, PTL DEF Spec
<1>3. CASE "cancel" \in Ops
  <2>1. "toggle" \notin Ops /\ "reset" \notin Ops /\ MaxCrashes = 0
    BY <1>3
  <2>2. TypeInv /\ Unarmed /\ [Next]_vars => Calm
    <3>1. TypeInv => crashes \in Nat
      BY DEF TypeInv, TypeOK
    <3> QED
      BY <2>1, <3>1 DEF Calm, Unarmed, Crash
  <2>3. TypeInv /\ OwnInv /\ KnownInv /\ HandInv /\ Unarmed /\ [Next]_vars
          => (OwnInv /\ KnownInv /\ Unarmed)'
    BY <2>1, TypeIsParts, OwnStep, KnownStep, UnarmedStep
  <2>4. TypeInv /\ HandInv /\ Unarmed /\ TellKept /\ CaptureKept /\ CareInv /\ [Next]_vars
          => (TellKept /\ CaptureKept /\ CareInv)'
    <3>1. Unarmed => boot = "up"
      BY DEF Unarmed
    <3> QED
      BY <2>2, <3>1, TypeIsParts, TellStep, CaptureStep, CareStep
  <2>5. Init => TellKept /\ CaptureKept
    BY DEF Init, TellKept, CaptureKept, OffCall
  <2>6. CareInv /\ CaptureKept => NoCommentLost
    BY CareKeeps
  <2> QED
    BY <1>1, <2>3, <2>4, <2>5, <2>6, TypeInit, OwnInit, KnownInit, HandInit, UnarmedInit,
       CareInit, PTL DEF Spec
<1> QED
  BY <1>2, <1>3

-----------------------------------------------------------------------------
(* A failed row gives its comments back.                                      *)

\* What a step may do to a row: nothing that matters here, ...
RowRests(r) ==
    /\ Born(r) <=> Born(r)'
    /\ Gone(r) => Gone(r)'
    /\ row'[r].pay = "held" => row[r].pay = "held" /\ row'[r].snap = row[r].snap
    /\ row'[r].status = "failed" /\ row'[r].pay = "held" => row[r].status = "failed"
    /\ row'[r].sess = row[r].sess \/ Gone(r)' \/ \E p \in Callers : ResetMove(p)
RowsRest == \A r \in Rows : RowRests(r)

\* ... make it, take its comments out of the panel again, or fail it.
RowMade(r) ==
    /\ row'[r].status = "pending" /\ (row'[r].pay = "held" => row'[r].snap # {})
    /\ \E p \in Callers : Taking(p) /\ call[p].row = r /\ ~Taking(p)'
RowReheld(r) ==
    /\ row[r].status = "failed" /\ row'[r].status = "failed"
    /\ row'[r].snap # {} /\ row'[r].sess = row[r].sess
    /\ \E p \in Callers : Rehold(p) /\ Goto(p, "retry") /\ call[p].row = r
RowFails(r) ==
    /\ Pending(r) /\ row'[r].status = "failed"
    /\ row'[r].pay = row[r].pay /\ row'[r].snap = row[r].snap
    /\ row'[r].sess = row[r].sess
    /\ \/ News(r, "failed") \in told'
       \/ \E p \in Handlers : JsonFailMark(p) /\ call[p].row = r
RowTurns(r) == RowRests(r) \/ RowMade(r) \/ RowReheld(r) \/ RowFails(r)

LEMMA RestsAlone == ASSUME UNCHANGED row PROVE RowsRest
  BY DEF RowsRest, RowRests, Born, Gone

LEMMA RestsRow ==
    ASSUME RowInv, NEW r \in Rows, NEW x, SetRow(r, x),
           x.status = "unused" <=> ~Born(r), Gone(r) => x.status = "gone",
           x.pay = "held" => row[r].pay = "held" /\ x.snap = row[r].snap,
           x.status = "failed" => row[r].status = "failed" \/ x.pay # "held",
           x.sess = row[r].sess \/ x.status = "gone"
    PROVE  RowsRest
<1>1. row'[r] = x /\ \A q \in Rows \ {r} : row'[q] = row[q]
  BY DEF SetRow, RowInv
<1>2. RowRests(r)
  BY <1>1 DEF RowRests, Born, Gone
<1>3. \A q \in Rows \ {r} : RowRests(q)
  BY <1>1 DEF RowRests, Born, Gone
<1> QED
  BY <1>2, <1>3 DEF RowsRest

LEMMA RestsPay ==
    ASSUME RowInv, NEW r \in Rows, NEW v, v # "held", SetRow(r, [row[r] EXCEPT !.pay = v])
    PROVE  RowsRest
<1>1. PICK x : x = [row[r] EXCEPT !.pay = v]
  OBVIOUS
<1>2. x.status = row[r].status /\ x.pay = v /\ x.sess = row[r].sess
  BY <1>1, RowType DEF Row
<1> QED
  BY <1>1, <1>2, RestsRow DEF Born, Gone

LEMMA RestsRestore ==
    ASSUME RowInv, NEW r \in Rows, RestoreHold(r) \/ \E cs : RestoreRow(r, cs)
    PROVE  RowsRest
  BY RestsPay, RestsAlone DEF RestoreHold, RestoreRow, storeVars

LEMMA RestsGone ==
    ASSUME RowInv, NEW r \in Rows, Born(r), SetRow(r, Blank("gone"))
    PROVE  RowsRest
<1>1. PICK x : x = Blank("gone")
  OBVIOUS
<1>2. x.status = "gone" /\ x.pay # "held"
  BY <1>1 DEF Blank
<1> QED
  BY <1>1, <1>2, RestsRow DEF Born

LEMMA RestsFree ==
    ASSUME RowInv, NEW r \in Rows, NEW x, SetRow(r, x),
           \/ /\ Pending(r)
              /\ \/ x = Sent(row[r]) \/ x = Unclaimed(row[r])
                 \/ x = [row[r] EXCEPT !.claimed = TRUE]
                 \/ \E ph : x = [row[r] EXCEPT !.phase = ph]
           \/ row[r].status = "failed" /\ x = [Unclaimed(row[r]) EXCEPT !.status = "pending"]
    PROVE  RowsRest
<1>1. /\ x.status \in {"pending", "sent"} /\ Born(r) /\ ~Gone(r)
      /\ x.pay = row[r].pay /\ x.snap = row[r].snap /\ x.sess = row[r].sess
  BY RowType DEF Row, Sent, Unclaimed, Pending, Born, Gone
<1> QED
  BY <1>1, RestsRow

LEMMA FailsRow ==
    ASSUME RowInv, NEW r \in Rows, Pending(r), SetRow(r, Failed(row[r])),
           \/ News(r, "failed") \in told'
           \/ \E p \in Handlers : JsonFailMark(p) /\ call[p].row = r
    PROVE  \A q \in Rows : RowTurns(q)
<1>1. row'[r] = Failed(row[r]) /\ \A q \in Rows \ {r} : row'[q] = row[q]
  BY DEF SetRow, RowInv
<1>2. RowFails(r)
  BY <1>1, RowType DEF RowFails, Failed, Unclaimed, Row
<1>3. \A q \in Rows \ {r} : RowRests(q)
  BY <1>1 DEF RowRests, Born, Gone
<1> QED
  BY <1>2, <1>3 DEF RowTurns

LEMMA RestsTurn == ASSUME RowsRest PROVE \A r \in Rows : RowTurns(r)
  BY DEF RowsRest, RowTurns

LEMMA RowsFire ==
    ASSUME Parts, NEW p \in Handlers, Route(p) \/ Fire(p) \/ Json(p)
    PROVE  \A r \in Rows : RowTurns(r)
<1> USE DEF Parts
<1>1. ASSUME NEW pc \in Dispatching, At(p, pc) PROVE call[p].row \in Rows
  BY <1>1, RowPcs, AtRow
<1>2. CASE UNCHANGED row
  BY <1>2, RestsAlone, RestsTurn
<1>3. CASE FireCas(p)
  <2>1. \/ UNCHANGED row
        \/ /\ Pending(call[p].row)
           /\ SetRow(call[p].row, [row[call[p].row] EXCEPT !.phase = "waiting"])
    BY <1>3 DEF FireCas
  <2>2. call[p].row \in Rows
    BY <1>1, <1>3 DEF FireCas, Dispatching
  <2> QED
    BY <1>2, <2>1, <2>2, RestsFree, RestsTurn
<1>4. CASE JsonGiveBack(p) \/ JsonHoldBack(p)
  <2>1. call[p].row \in Rows
    BY <1>1, <1>4 DEF JsonGiveBack, JsonHoldBack, Dispatching
  <2> QED
    BY <1>4, <2>1, RestsRestore, RestsTurn DEF JsonGiveBack, JsonHoldBack
<1>5. CASE JsonAdopt(p)
  <2>1. call[p].row \in Rows
    BY <1>1, <1>5 DEF JsonAdopt, Dispatching
  <2>2. \/ UNCHANGED row
        \/ \E v \in {"restored", "adopted"} :
              SetRow(call[p].row, [row[call[p].row] EXCEPT !.pay = v])
    BY <1>5 DEF JsonAdopt, Adopt, storeVars
  <2> QED
    BY <1>2, <2>1, <2>2, RestsPay, RestsTurn
<1>6. CASE JsonSentMark(p)
  <2>1. call[p].row \in Rows
    BY <1>1, <1>6 DEF JsonSentMark, Dispatching
  <2> QED
    BY <1>2, <1>6, <2>1, RestsFree, RestsTurn DEF JsonSentMark, Claimed
<1>7. CASE JsonFailMark(p)
  <2>1. call[p].row \in Rows
    BY <1>1, <1>7 DEF JsonFailMark, Dispatching
  <2> QED
    BY <1>2, <1>7, <2>1, FailsRow DEF JsonFailMark, Claimed
<1>8. CASE Route(p) \/ (Fire(p) /\ ~FireCas(p))
           \/ JsonAble(p) \/ JsonEnqueue(p) \/ JsonAfter(p)
  BY <1>2, <1>8 DEF Route, Fire, SendFire, FireCheck, FireEnqueue, JsonAble, JsonEnqueue,
     JsonAfter, storeVars
<1> QED
  BY <1>3, <1>4, <1>5, <1>6, <1>7, <1>8 DEF Json

LEMMA RowsWork ==
    ASSUME Parts, NEW k \in Jobs, WorkerNext(k) \/ Work(k) \/ TickTimeout(k)
    PROVE  \A r \in Rows : RowTurns(r)
<1> USE DEF Parts
<1>1. job[k].row \in Rows
  BY WorkKinds, NextKinds, OwnRows DEF Owning
<1>2. CASE UNCHANGED row
  BY <1>2, RestsAlone, RestsTurn
<1>3. CASE JobFail(k)
  BY <1>1, <1>2, <1>3, FailsRow DEF JobFail, Claimed
<1>4. CASE JobRearm(k) \/ DeliverMark(k)
  BY <1>1, <1>2, <1>4, RestsFree, RestsTurn DEF JobRearm, DeliverMark, Rearmable, Waiting
<1>5. CASE DeliverCas(k)
  BY <1>1, <1>2, <1>5, RestsFree, RestsTurn DEF DeliverCas, Waiting
<1>6. CASE \/ WorkerNext(k) \/ TickTimeout(k) \/ TickRead(k) \/ TickResolve(k)
           \/ DeliverPaste(k)
  BY <1>2, <1>6 DEF WorkerNext, TickTimeout, TickRead, TickResolve, DeliverPaste, storeVars
<1> QED
  BY <1>3, <1>4, <1>5, <1>6 DEF Work

LEMMA RowsObserve ==
    ASSUME Parts, NEW t \in told, Observe(t)
    PROVE  \A r \in Rows : RowTurns(r)
<1> USE DEF Parts
<1>1. t.row \in Rows
  BY DEF Rest, Task
<1>2. CASE UNCHANGED row
  BY <1>2, RestsAlone, RestsTurn
<1>3. CASE ObserverRestore(t)
  BY <1>1, <1>2, <1>3, RestsRestore, RestsTurn DEF ObserverRestore
<1>4. CASE ObserverMark(t)
  BY <1>1, <1>2, <1>4, RestsPay, RestsTurn DEF ObserverMark
<1>5. CASE ObserverDrop(t)
  BY <1>1, <1>2, <1>5, RestsGone, RestsTurn DEF ObserverDrop, Exists, Born
<1>6. CASE ObserverStart(t)
  BY <1>2, <1>6 DEF ObserverStart, storeVars
<1> QED
  BY <1>3, <1>4, <1>5, <1>6 DEF Observe

LEMMA RowsRequest ==
    ASSUME Parts,
           \/ \E r \in Rows : Poll(r)
           \/ \E p \in Callers : Request(p)
           \/ \E t \in turns : TurnPersist(t) \/ TurnWithdraw(t) \/ TurnSettle(t)
    PROVE  \A r \in Rows : RowTurns(r)
<1> USE DEF Parts
<1>1. CASE UNCHANGED row
  BY <1>1, RestsAlone, RestsTurn
<1>2. ASSUME NEW p \in Handlers, NEW r \in Rows, Claim(p, r)
      PROVE  \A q \in Rows : RowTurns(q)
  BY <1>2, RestsFree, RestsTurn DEF Claim
<1>3. ASSUME NEW t \in turns, TurnPersist(t) \/ TurnWithdraw(t) \/ TurnSettle(t)
      PROVE  \A q \in Rows : RowTurns(q)
  <2>1. t.row \in Rows
    BY DEF Rest, Turn
  <2> QED
    BY <1>1, <1>3, <2>1, RestsRestore, RestsTurn DEF TurnPersist, TurnWithdraw, TurnSettle,
       storeVars
<1>4. ASSUME NEW p \in Callers, Request(p), ~\E r \in Rows : SendNow(p, r)
      PROVE  UNCHANGED row
  BY <1>4 DEF Request, CancelStart, RetryStart, DismissStart, CreateStart, SendStart,
     Discard, Toggle, ResetStart, DeleteStart, storeVars
<1>5. Callers \subseteq Handlers /\ Poller \in Handlers
  BY DEF Handlers
<1> QED
  BY <1>1, <1>2, <1>3, <1>4, <1>5 DEF Poll, SendNow

LEMMA RowsTake ==
    ASSUME Parts, NEW p \in Callers, CreateTake(p) \/ SendTake(p)
    PROVE  \A r \in Rows : RowTurns(r)
<1> USE DEF Parts
<1>1. p \in Handlers
  BY CallerIsHandler
<1>2. CASE UNCHANGED row
  BY <1>2, RestsAlone, RestsTurn
<1>3. ASSUME NEW x, SetRow(call[p].row, x), x.status = "pending",
             x.pay = "held" => x.snap # {}, call[p].row \in Rows, Taking(p), ~Taking(p)'
      PROVE  \A r \in Rows : RowTurns(r)
  <2>1. /\ row'[call[p].row] = x
        /\ \A q \in Rows \ {call[p].row} : row'[q] = row[q]
    BY <1>3 DEF SetRow, RowInv
  <2>2. RowMade(call[p].row)
    BY <1>3, <2>1 DEF RowMade
  <2>3. \A q \in Rows \ {call[p].row} : RowRests(q)
    BY <2>1 DEF RowRests, Born, Gone
  <2> QED
    BY <2>2, <2>3 DEF RowTurns
<1>4. CASE CreateTake(p)
  <2>1. PICK cs : SetRow(call[p].row,
                   [Blank("pending") EXCEPT
                      !.sess = call[p].sess, !.tmux = call[p].tmux,
                      !.pay = IF cs = {} THEN "none" ELSE "held", !.snap = cs])
    BY <1>4 DEF CreateTake
  <2>2. PICK x : x = [Blank("pending") EXCEPT
                      !.sess = call[p].sess, !.tmux = call[p].tmux,
                      !.pay = IF cs = {} THEN "none" ELSE "held", !.snap = cs]
    OBVIOUS
  <2>3. x.status = "pending" /\ (x.pay = "held" => x.snap # {})
    BY <2>2 DEF Blank
  <2>4. Taking(p) /\ ~Taking(p)'
    BY <1>1, <1>4 DEF CreateTake, At, Return, CallInv, OffCall, Taking
  <2>5. call[p].row \in Rows
    BY <1>1, <2>4, OwnRows
  <2> QED
    BY <1>3, <2>1, <2>2, <2>3, <2>4, <2>5
<1>5. CASE SendTake(p) /\ ~UNCHANGED row
  <2>1. PICK cs : /\ cs # {}
                  /\ SetRow(call[p].row,
                         [Blank("pending") EXCEPT
                            !.claimed = TRUE, !.phase = "waiting", !.sess = call[p].sess,
                            !.imm = TRUE, !.tmux = TRUE, !.pay = "held",
                            !.snap = cs])
    BY <1>5 DEF SendTake, storeVars
  <2>2. PICK x : x = [Blank("pending") EXCEPT
                            !.claimed = TRUE, !.phase = "waiting", !.sess = call[p].sess,
                            !.imm = TRUE, !.tmux = TRUE, !.pay = "held",
                            !.snap = cs]
    OBVIOUS
  <2>3. x.status = "pending" /\ (x.pay = "held" => x.snap # {})
    BY <2>1, <2>2 DEF Blank
  <2>4. Taking(p) /\ ~Taking(p)'
    BY <1>1, <1>5, HeatForms DEF SendTake, At, Taking
  <2>5. call[p].row \in Rows
    BY <1>1, <2>4, OwnRows
  <2> QED
    BY <1>3, <2>1, <2>2, <2>3, <2>4, <2>5
<1> QED
  BY <1>2, <1>4, <1>5

LEMMA RowsRehold ==
    ASSUME Parts, NEW p \in Callers, Rehold(p)
    PROVE  \A r \in Rows : RowTurns(r)
<1> USE DEF Parts
<1>1. p \in Handlers /\ call[p].row \in Rows
  BY CallerIsHandler, RowPcs, AtRow DEF Rehold
<1>2. PICK r \in Rows : r = call[p].row
  BY <1>1
<1>3. CASE UNCHANGED row
  BY <1>3, RestsAlone, RestsTurn
<1>4. CASE SetRow(r, [row[r] EXCEPT !.pay = "none", !.snap = {}])
  <2>1. PICK x : x = [row[r] EXCEPT !.pay = "none", !.snap = {}]
    OBVIOUS
  <2>2. x.status = row[r].status /\ x.pay = "none" /\ x.sess = row[r].sess
    BY <2>1, RowType DEF Row
  <2> QED
    BY <1>4, <2>1, <2>2, RestsRow, RestsTurn DEF Born, Gone
<1>5. ASSUME NEW left, left # {}, row[r].status = "failed",
             SetRow(r, [row[r] EXCEPT !.pay = "held", !.snap = left]), Goto(p, "retry")
      PROVE  \A q \in Rows : RowTurns(q)
  <2>1. PICK x : x = [row[r] EXCEPT !.pay = "held", !.snap = left]
    OBVIOUS
  <2>2. x.status = "failed" /\ x.snap = left /\ x.sess = row[r].sess
    BY <1>5, <2>1, RowType DEF Row
  <2>3. row'[r] = x /\ \A q \in Rows \ {r} : row'[q] = row[q]
    BY <1>5, <2>1 DEF SetRow, RowInv
  <2>4. RowReheld(r)
    BY <1>2, <1>5, <2>2, <2>3 DEF RowReheld
  <2>5. \A q \in Rows \ {r} : RowRests(q)
    BY <2>3 DEF RowRests, Born, Gone
  <2> QED
    BY <2>4, <2>5 DEF RowTurns
<1> QED
  BY <1>2, <1>3, <1>4, <1>5 DEF Rehold, storeVars

LEMMA RowsProceed ==
    ASSUME Parts, NEW p \in Callers, Proceed(p)
    PROVE  \A r \in Rows : RowTurns(r)
<1> USE DEF Parts
<1>1. p \in Handlers
  BY CallerIsHandler
<1>2. CASE UNCHANGED row
  BY <1>2, RestsAlone, RestsTurn
<1>3. CASE CancelErase(p) \/ DismissRow(p) \/ RetryRow(p)
  <2>1. PICK r \in Rows : r = call[p].row
    BY <1>1, <1>3, RowPcs, AtRow DEF CancelErase, DismissRow, RetryRow
  <2>2. \/ UNCHANGED row
        \/ Born(r) /\ SetRow(r, Blank("gone"))
        \/ row[r].status = "failed" /\ SetRow(r, [Unclaimed(row[r]) EXCEPT !.status = "pending"])
    BY <1>3, <2>1 DEF CancelErase, DismissRow, RetryRow, Cancellable, Pending, Born
  <2> QED
    BY <1>2, <2>2, RestsGone, RestsFree, RestsTurn
<1>4. ASSUME NEW r \in Rows, ResetStop(p, r)
      PROVE  \A q \in Rows : RowTurns(q)
  <2>1. UNCHANGED row \/ (/\ Pending(r) /\ SetRow(r, Failed(row[r]))
                          /\ News(r, "failed") \in told')
    BY <1>4 DEF ResetStop, Waiting
  <2> QED
    BY <1>2, <2>1, FailsRow
<1>5. ASSUME NEW r \in Rows, ResetRearm(p, r)
      PROVE  \A q \in Rows : RowTurns(q)
  BY <1>2, <1>5, RestsFree, RestsTurn DEF ResetRearm, Rearmable, Waiting
<1>6. ASSUME NEW r \in Rows, DeleteGive(p, r)
      PROVE  \A q \in Rows : RowTurns(q)
  BY <1>6, RestsRestore, RestsTurn DEF DeleteGive
<1>7. CASE ResetMove(p)
  <2>1. ASSUME NEW r \in Rows PROVE RowRests(r)
    <3>1. \/ row'[r] = row[r]
          \/ row'[r] = [Unclaimed(row[r]) EXCEPT !.sess = call[p].to]
      BY <1>7 DEF ResetMove
    <3> QED
      BY <1>7, <3>1, RowType DEF Row, Unclaimed, RowRests, Born, Gone
  <2> QED
    BY <2>1 DEF RowTurns
<1>8. CASE DeletePurge(p)
  <2>1. ASSUME NEW r \in Rows PROVE RowRests(r)
    <3>1. row'[r] = row[r] \/ (row'[r] = Blank("gone") /\ Born(r))
      BY <1>8 DEF DeletePurge, Exists, Born
    <3> QED
      BY <3>1 DEF Blank, RowRests, Born, Gone
  <2> QED
    BY <2>1 DEF RowTurns
<1>9. CASE \/ CancelBefore(p) \/ CancelTell(p) \/ ReturnComments(p) \/ ResetList(p)
           \/ ResetArchive(p) \/ ResetGivenUp(p) \/ DeleteList(p) \/ DeleteRows(p)
           \/ DeleteGone(p)
  BY <1>2, <1>9 DEF CancelBefore, CancelTell, ReturnComments, ResetList, ResetArchive,
     ResetGivenUp, DeleteList, DeleteRows, DeleteGone, storeVars
<1> QED
  BY <1>3, <1>4, <1>5, <1>6, <1>7, <1>8, <1>9, RowsTake, RowsRehold DEF Proceed

LEMMA RowSteps ==
    ASSUME Parts, boot = "up", MaxCrashes = 0, "timeout" \notin Ops, [Next]_vars,
           NEW r \in Rows
    PROVE  RowTurns(r) /\ ~Crash /\ ~Boot
<1>1. ~Crash
  BY DEF Crash, Parts, Rest
<1>2. ~Boot
  BY DEF Boot, BootHold, BootGive, BootNext, BootRecover
<1>3. CASE UNCHANGED vars
  BY <1>1, <1>2, <1>3, RestsAlone, RestsTurn DEF vars, storeVars
<1> QED
  BY <1>1, <1>2, <1>3, RowsFire, RowsWork, RowsObserve, RowsRequest, RowsProceed
     DEF Next, JsonTimeout

\* The steps at which a call counts on its row, and where a call may come to one.
Mindful == {"take", "takeNow", "rehold", "retry", "route", "able", "giveBack", "adopt",
            "plain", "holdBack", "failMark"}
Minds(p) == \/ CallTakes(p) \/ Route(p) \/ Json(p)
            \/ p \in Callers /\ Rehold(p)
            \/ \E r \in Rows : Claim(p, r) \/ (p \in Callers /\ RetryStart(p, r))
CallTurns(p) == call'[p] = call[p] \/ call'[p].pc \notin Mindful \/ Minds(p)

LEMMA RegisterFires ==
    ASSUME CallInv, NEW p \in Handlers, NEW r, NEW s, Register(p, r, s)
    PROVE  call'[p].pc = "cas"
  BY DEF Register, CallInv, Begin, OffCall

LEMMA TurnForms ==
    ASSUME CallInv, NEW p \in Handlers,
           \/ UNCHANGED call \/ Return(p) \/ (\E pc : pc \notin Mindful /\ Goto(p, pc))
           \/ (\E x : x.pc \notin Mindful /\ call' = [call EXCEPT ![p] = x])
           \/ (\E r, s : Register(p, r, s))
    PROVE  CallTurns(p)
<1>1. CASE Return(p)
  BY <1>1 DEF Return, CallInv, OffCall, CallTurns, Mindful
<1>2. CASE \E pc : pc \notin Mindful /\ Goto(p, pc)
  BY <1>2, GotoFields DEF CallTurns
<1>3. CASE \E x : x.pc \notin Mindful /\ call' = [call EXCEPT ![p] = x]
  BY <1>3 DEF CallInv, CallTurns
<1>4. CASE \E r, s : Register(p, r, s)
  BY <1>4, RegisterFires DEF CallTurns, Mindful
<1> QED
  BY <1>1, <1>2, <1>3, <1>4 DEF CallTurns

LEMMA TurnsFire ==
    ASSUME Parts, NEW p \in Handlers, Fire(p)
    PROVE  CallTurns(p)
<1>1. {"enq", "check"} \cap Mindful = {}
  BY DEF Mindful
<1> QED
  BY <1>1, TurnForms DEF Parts, Fire, SendFire, FireCas, FireCheck, FireEnqueue

LEMMA TakesForms ==
    ASSUME Parts, NEW p \in Callers, NEW r \in Rows, NEW s \in Sessions,
           CreateStart(p, r, s) \/ SendStart(p, r, s)
    PROVE  CallTakes(p)
<1> USE DEF Parts
<1>1. p \in Handlers
  BY CallerIsHandler
<1>2. row[r].status = "unused" /\ \A q \in Handlers : call[q].row # r
  BY DEF CreateStart, SendStart
<1>3. PICK x : call' = [call EXCEPT ![p] = x] /\ x.row = r
               /\ x.pc \in {"take", "takeNow"}
  <2>1. CASE CreateStart(p, r, s)
    <3> DEFINE x == [Begin("take", r, s) EXCEPT !.tmux = (chan[s] = "tmux")]
    <3>1. x.row = r /\ x.pc = "take"
      BY DEF Begin, OffCall
    <3> QED
      BY <2>1, <3>1 DEF CreateStart
  <2>2. CASE SendStart(p, r, s)
    <3> DEFINE x == Begin("takeNow", r, s)
    <3>1. x.row = r /\ x.pc = "takeNow"
      BY BeginFields
    <3> QED
      BY <2>2, <3>1 DEF SendStart
  <2> QED
    BY <2>1, <2>2
<1>4. call'[p] = x /\ \A q \in Handlers \ {p} : call'[q] = call[q]
  BY <1>1, <1>3 DEF CallInv
<1> QED
  BY <1>2, <1>3, <1>4 DEF CallTakes, Taking

LEMMA TurnsRequest ==
    ASSUME Parts, NEW p \in Callers, Request(p)
    PROVE  CallTurns(p)
<1> USE DEF Parts
<1>1. p \in Handlers
  BY CallerIsHandler
<1>2. ASSUME NEW r \in Rows, \/ SendNow(p, r) \/ RetryStart(p, r)
                            \/ \E s \in Sessions : CreateStart(p, r, s) \/ SendStart(p, r, s)
      PROVE  CallTurns(p)
  BY <1>2, TakesForms DEF SendNow, CallTurns, Minds
<1>3. ASSUME NEW r \in Rows, CancelStart(p, r) \/ DismissStart(p, r) PROVE CallTurns(p)
  <2>1. call'[p].pc \in {"before", "erase", "dismiss"}
    BY <1>1, <1>3 DEF CancelStart, DismissStart, CallInv, Begin, OffCall
  <2> QED
    BY <2>1 DEF CallTurns, Mindful
<1>4. ASSUME NEW s \in Sessions, Toggle(p, s) \/ ResetStart(p, s) \/ DeleteStart(p, s)
      PROVE  CallTurns(p)
  <2>1. UNCHANGED call \/ call'[p].pc \in {"list", "listHeld"}
    BY <1>1, <1>4 DEF Toggle, ResetStart, DeleteStart, CallInv, Begin, OffCall
  <2> QED
    BY <2>1 DEF CallTurns, Mindful
<1>5. (\E c \in Comments : Discard(p, c)) => UNCHANGED call
  BY DEF Discard
<1> QED
  BY <1>2, <1>3, <1>4, <1>5 DEF Request, CallTurns

LEMMA TurnsProceed ==
    ASSUME Parts, NEW p \in Callers, Proceed(p)
    PROVE  CallTurns(p)
<1> USE DEF Parts
<1>1. p \in Handlers
  BY CallerIsHandler
<1>2. {"made", "tell", "return", "relist"} \cap Mindful = {}
  BY DEF Mindful
<1>3. CASE \/ CreateTake(p) \/ SendTake(p) \/ CancelErase(p) \/ CancelTell(p)
           \/ ReturnComments(p) \/ RetryRow(p) \/ DismissRow(p)
           \/ ResetGivenUp(p) \/ ResetMove(p) \/ DeletePurge(p)
  BY <1>1, <1>2, <1>3, TurnForms DEF CreateTake, SendTake, CancelErase, CancelTell,
     ReturnComments, RetryRow, DismissRow, ResetGivenUp, ResetMove, DeletePurge
<1>4. CASE Rehold(p)
  BY <1>4 DEF CallTurns, Minds
<1>5. CASE CancelBefore(p)
  BY <1>1, <1>5, HeatForms DEF CallTurns, Mindful
<1>6. CASE ResetList(p) \/ DeleteList(p)
  <2>1. \/ call'[p] = [call[p] EXCEPT !.pc = IF @ = "list" THEN "stop" ELSE "rearm",
                         !.todo = {r \in Listed(call[p].sess) : row[r].phase = "waiting"}]
        \/ call'[p] = [call[p] EXCEPT !.pc = "giveAll",
                         !.todo = {r \in Rows : /\ Pending(r) /\ ~row[r].tmux
                                                /\ row[r].sess = call[p].sess
                                                /\ row[r].pay = "held"}]
    BY <1>1, <1>6 DEF ResetList, DeleteList, CallInv
  <2>2. call'[p].pc \in {"stop", "rearm", "giveAll"}
    BY <1>1, <2>1, CallType DEF Call
  <2> QED
    BY <2>2 DEF CallTurns, Mindful
<1>7. CASE ResetArchive(p)
  <2>1. CASE \E n : call' = [call EXCEPT ![p].pc = "move", ![p].to = n]
    <3>1. PICK n : call'[p] = [call[p] EXCEPT !.pc = "move", !.to = n]
      BY <1>1, <2>1 DEF CallInv
    <3>2. call'[p].pc = "move"
      BY <1>1, <3>1, CallType DEF Call
    <3> QED
      BY <3>2 DEF CallTurns, Mindful
  <2>2. CASE Goto(p, "relist")
    BY <1>1, <1>2, <2>2, TurnForms
  <2> QED
    BY <1>7, <2>1, <2>2 DEF ResetArchive
<1>8. ASSUME NEW r \in Rows, ResetStop(p, r) \/ ResetRearm(p, r) \/ DeleteGive(p, r)
      PROVE  CallTurns(p)
  <2>1. call'[p] = [call[p] EXCEPT !.todo = @ \ {r}] /\ call[p].pc \in {"stop", "rearm", "giveAll"}
    BY <1>1, <1>8 DEF ResetStop, ResetRearm, DeleteGive, CallInv, At
  <2>2. call'[p].pc \in {"stop", "rearm", "giveAll"}
    BY <1>1, <2>1, CallType DEF Call
  <2> QED
    BY <2>2 DEF CallTurns, Mindful
<1>9. CASE DeleteRows(p)
  <2>1. PICK rs, f : call'[p] = [call[p] EXCEPT !.pc = "gone", !.todo = rs, !.seen = f]
    BY <1>1, <1>9 DEF DeleteRows, CallInv
  <2>2. call'[p].pc = "gone"
    BY <1>1, <2>1, CallType DEF Call
  <2> QED
    BY <2>2 DEF CallTurns, Mindful
<1>10. CASE DeleteGone(p)
  <2>1. call'[p].pc = "purge"
    BY <1>1, <1>10 DEF DeleteGone, CallInv, Begin, OffCall
  <2> QED
    BY <2>1 DEF CallTurns, Mindful
<1> QED
  BY <1>3, <1>4, <1>5, <1>6, <1>7, <1>8, <1>9, <1>10 DEF Proceed

\* How a call comes to a step that counts on its row, and how a Retry ends.
LEMMA TurnSteps ==
    ASSUME Parts, "timeout" \notin Ops, ~Crash, ~Boot, [Next]_vars, NEW p \in Handlers
    PROVE  /\ CallTurns(p)
           /\ call[p].pc = "retry" => call'[p] = call[p] \/ (p \in Callers /\ RetryRow(p))
<1> USE DEF Parts
<1> DEFINE Goal == /\ CallTurns(p)
                   /\ call[p].pc = "retry" => call'[p] = call[p] \/ (p \in Callers /\ RetryRow(p))
<1>1. CASE UNCHANGED call
  BY <1>1 DEF CallTurns
<1>2. ASSUME NEW q \in Handlers, Alone(q), CallTurns(q),
             call[q].pc = "retry" => q \in Callers /\ RetryRow(q)
      PROVE  Goal
  BY <1>2 DEF Alone, CallTurns
<1>3. ASSUME NEW q \in Handlers, Route(q) \/ Fire(q) \/ Json(q) PROVE Goal
  <2>1. CallTurns(q) /\ Alone(q)
    BY <1>3, AloneRoute, AloneJson, TurnsFire DEF CallTurns, Minds
  <2>2. call[q].pc # "retry"
    BY <1>3 DEF Route, Fire, SendFire, FireCas, FireCheck, FireEnqueue, Json, JsonAble,
       JsonGiveBack, JsonAdopt, JsonEnqueue, JsonAfter, JsonHoldBack, JsonFailMark,
       JsonSentMark, At
  <2> QED
    BY <1>2, <2>1, <2>2
<1>4. ASSUME NEW q \in Callers, Request(q) PROVE Goal
  BY <1>2, <1>4, CallerIsHandler, AloneRequest, TurnsRequest DEF At
<1>5. ASSUME NEW q \in Callers, Proceed(q) PROVE Goal
  <2>1. call[q].pc = "retry" => RetryRow(q)
    BY <1>5 DEF Proceed, CreateTake, SendTake, CancelBefore, CancelErase, CancelTell,
       ReturnComments, Rehold, DismissRow, ResetList, ResetArchive, ResetGivenUp,
       ResetMove, ResetStop, ResetRearm, DeleteList, DeleteRows, DeleteGone, DeletePurge,
       DeleteGive, At
  <2> QED
    BY <1>2, <1>5, <2>1, CallerIsHandler, AloneProceed, TurnsProceed
<1>6. ASSUME NEW r \in Rows, Poll(r) PROVE Goal
  <2>1. Poller \in Handlers /\ Claim(Poller, r) /\ call[Poller].pc = "off"
    BY <1>6 DEF Handlers, Poll, At
  <2>2. CallTurns(Poller) /\ Alone(Poller)
    BY <2>1, AloneClaim DEF CallTurns, Minds
  <2> QED
    BY <1>2, <2>1, <2>2
<1>7. CASE \/ \E k \in Jobs : WorkerNext(k) \/ Work(k) \/ TickTimeout(k)
           \/ \E t \in told : Observe(t)
           \/ \E t \in turns : TurnPersist(t) \/ TurnWithdraw(t) \/ TurnSettle(t)
           \/ UNCHANGED vars
  <2>1. UNCHANGED call
    BY <1>7 DEF WorkerNext, Work, TickTimeout, TickRead, TickResolve, JobRearm, JobFail,
       DeliverCas, DeliverPaste, DeliverMark, Observe, ObserverStart, ObserverRestore,
       ObserverMark, ObserverDrop, TurnPersist, TurnWithdraw, TurnSettle, vars
  <2> QED
    BY <1>1, <2>1
<1> QED
  BY <1>3, <1>4, <1>5, <1>6, <1>7 DEF Next, JsonTimeout

\* What a call that counts on its row knows of it.
MindTake(p) == Taking(p) => /\ ~Born(call[p].row)
                            /\ \A q \in Handlers : Taking(q) /\ call[q].row = call[p].row
                                                     => q = p
MindRich(p) ==
    LET x == call[p] r == call[p].row IN
    /\ x.pc \in {"route", "able", "giveBack", "adopt"} => Born(r)
    /\ x.pc = "route" /\ x.held = {} => Spent(r)
    /\ x.pc \in {"plain", "holdBack", "failMark"} => Spent(r)
MindRetry(p) ==
    LET x == call[p] r == call[p].row IN
    x.pc \in {"rehold", "retry"} => /\ "retry" \in Ops /\ Born(r)
                                    /\ Gone(r) \/ row[r].sess = x.sess
MindInv == /\ boot = "up"
           /\ \A r \in Rows : row[r].pay = "held" => row[r].snap # {}
           /\ \A p \in Handlers : MindTake(p) /\ MindRich(p) /\ MindRetry(p)

LEMMA MindPcs ==
    ASSUME Parts, NEW p \in Handlers, call[p].pc \in Mindful
    PROVE  call[p].row \in Rows
  BY CallType DEF Parts, CallKnown, Mindful, Rowless, Resetting, Deleting

\* What a step does to a row that somebody counts on.
LEMMA MindRow ==
    ASSUME Parts, MindInv, "retry" \in Ops => OwnInv, MaxCrashes = 0, "timeout" \notin Ops,
           [Next]_vars, NEW r \in Rows
    PROVE  /\ Born(r) => Born(r)'
           /\ Born(r) /\ Gone(r) => Gone(r)'
           /\ "retry" \in Ops /\ Born(r) => Gone(r)' \/ row'[r].sess = row[r].sess
           /\ row'[r].pay = "held" => row'[r].snap # {}
           /\ \A p \in Handlers : Spent(r) /\ Armed(p) /\ call[p].row = r => Spent(r)'
           /\ ~Born(r) => \/ ~Born(r)'
                          \/ \E q \in Callers : Taking(q) /\ call[q].row = r /\ ~Taking(q)'
<1> USE DEF Parts
<1>1. RowTurns(r)
  BY RowSteps DEF MindInv
<1>2. Callers \subseteq Handlers
  BY CallerIsHandler
<1>3. RowMade(r) => ~Born(r)
  BY <1>2 DEF RowMade, MindInv, MindTake
<1>4. ASSUME NEW p \in Callers, Rehold(p)
      PROVE  call[p].pc = "rehold" /\ "retry" \in Ops
  BY <1>2, <1>4 DEF Rehold, At, MindInv, MindRetry
<1>5. "retry" \in Ops => \A p \in Callers : ~ResetMove(p)
  BY <1>2 DEF OwnInv, NoReset, ResetMove, At, Resetting
<1>6. RowReheld(r) => \A p \in Handlers : Armed(p) => call[p].row # r
  <2>1. RowReheld(r) => OwnInv /\ row[r].status = "failed"
    BY <1>4 DEF RowReheld
  <2> QED
    BY <2>1 DEF OwnInv, CallsOwn, Owned, Gone, Claimed, Pending
<1>7. CASE RowRests(r)
  BY <1>5, <1>7 DEF RowRests, Born, Gone, Spent, MindInv
<1>8. CASE RowMade(r)
  BY <1>3, <1>8 DEF RowMade, Born, Gone, Spent
<1>9. CASE RowReheld(r)
  BY <1>6, <1>9 DEF RowReheld, Born, Gone, Spent
<1>10. CASE RowFails(r)
  BY <1>10 DEF RowFails, Born, Gone, Spent, Pending, MindInv
<1> QED
  BY <1>1, <1>7, <1>8, <1>9, <1>10 DEF RowTurns

Minded(p) == MindTake(p) /\ MindRich(p) /\ MindRetry(p) /\ ~Taking(p)

LEMMA MindClaim ==
    ASSUME Parts, MindInv, NEW p \in Handlers, NEW r \in Rows, Claim(p, r)
    PROVE  Minded(p)'
<1> USE DEF Parts
<1>1. call'[p].pc = "route" /\ call'[p].row = r /\ call'[p].held = HeldBy(row[r])
  BY DEF Claim, CallInv, Begin, OffCall
<1>2. Pending(r) /\ row'[r] = [row[r] EXCEPT !.claimed = TRUE]
  BY DEF Claim, SetRow, RowInv
<1>3. row'[r].status = "pending" /\ row'[r].pay = row[r].pay
  BY <1>2, RowType DEF Row, Pending
<1>4. HeldBy(row[r]) = {} => row[r].pay # "held"
  BY DEF HeldBy, MindInv
<1> QED
  BY <1>1, <1>3, <1>4 DEF Minded, MindTake, MindRich, MindRetry, Taking, Born, Spent

LEMMA MindRetrying ==
    ASSUME Parts, NEW p \in Callers, NEW r \in Rows, RetryStart(p, r)
    PROVE  Minded(p)'
<1> USE DEF Parts
<1>1. p \in Handlers
  BY CallerIsHandler
<1>2. /\ call'[p].pc \in {"rehold", "retry"} /\ call'[p].row = r
      /\ call'[p].sess = row[r].sess
  BY <1>1 DEF RetryStart, CallInv, Begin, OffCall
<1>3. row' = row /\ row[r].status = "failed" /\ "retry" \in Ops
  BY DEF RetryStart, Starts, storeVars
<1> QED
  BY <1>2, <1>3 DEF Minded, MindTake, MindRich, MindRetry, Taking, Born

LEMMA MindRehold ==
    ASSUME Parts, MindInv, "retry" \in Ops => OwnInv, MaxCrashes = 0, "timeout" \notin Ops,
           [Next]_vars, NEW p \in Callers, Rehold(p)
    PROVE  Minded(p)'
<1> USE DEF Parts
<1>1. p \in Handlers
  BY CallerIsHandler
<1>2. call[p].pc = "rehold" /\ call[p].row \in Rows
  BY <1>1, AtRow, RowPcs DEF Rehold, At
<1>3. \/ call'[p].pc = "off"
      \/ call'[p].pc = "retry" /\ call'[p].row = call[p].row /\ call'[p].sess = call[p].sess
  <2>1. Return(p) => call'[p].pc = "off"
    BY <1>1 DEF Return, CallInv, OffCall
  <2>2. Return(p) \/ Goto(p, "retry") \/ call'[p] = [call[p] EXCEPT !.pc = "retry", !.held = {}]
    BY <1>1 DEF Rehold, CallInv
  <2> QED
    BY <1>1, <2>1, <2>2, GotoFields, CallType DEF Call
<1>4. MindRetry(p)
  BY <1>1 DEF MindInv
<1> QED
  BY <1>2, <1>3, <1>4, MindRow DEF Minded, MindTake, MindRich, MindRetry, Taking

LEMMA MindJson ==
    ASSUME Parts, MindInv, NEW p \in Handlers, Route(p) \/ Json(p)
    PROVE  Minded(p)'
<1> USE DEF Parts
<1>1. PICK r \in Rows : r = call[p].row
  <2>1. \E pc \in Dispatching : At(p, pc)
    BY DEF Route, Json, JsonAble, JsonGiveBack, JsonAdopt, JsonEnqueue, JsonAfter,
           JsonHoldBack, JsonFailMark, JsonSentMark, Dispatching
  <2> QED
    BY <2>1, AtRow, RowPcs
<1>2. MindRich(p)
  BY DEF MindInv
<1>3. Return(p) => call'[p].pc = "off"
  BY DEF Return, CallInv, OffCall
<1>4. ASSUME NEW pc, Goto(p, pc) PROVE call'[p].pc = pc /\ call'[p].row = r
  BY <1>1, <1>4, GotoFields
<1>5. ASSUME call'[p].pc \in {"off", "cas", "after", "sentMark"}
      PROVE  Minded(p)'
  BY <1>5 DEF Minded, MindTake, MindRich, MindRetry, Taking
<1>6. ASSUME call'[p].pc \in {"able", "giveBack", "adopt"}, call'[p].row = r, Born(r)'
      PROVE  Minded(p)'
  BY <1>6 DEF Minded, MindTake, MindRich, MindRetry, Taking
<1>7. ASSUME call'[p].pc \in {"plain", "holdBack", "failMark"}, call'[p].row = r, Spent(r)'
      PROVE  Minded(p)'
  BY <1>7 DEF Minded, MindTake, MindRich, MindRetry, Taking
<1>8. ASSUME Born(r), NEW v, v # "held", SetRow(r, [row[r] EXCEPT !.pay = v])
      PROVE  Spent(r)'
  BY <1>8, RowType DEF SetRow, RowInv, Row, Spent, Born
<1>9. CASE Route(p)
  <2>1. Born(r)' /\ (call[p].held = {} => Spent(r)')
    BY <1>1, <1>2, <1>9 DEF Route, MindRich, At, storeVars, Born, Spent
  <2>2. CASE \E s : Register(p, r, s)
    BY <1>5, <2>2, RegisterFires
  <2>3. CASE Goto(p, IF call[p].held = {} THEN "plain"
                     ELSE IF call[p].imm THEN "giveBack" ELSE "able")
    BY <1>4, <1>6, <1>7, <2>1, <2>3
  <2> QED
    BY <1>1, <1>9, <2>2, <2>3 DEF Route
<1>10. CASE JsonAble(p)
  <2>1. Born(r)'
    BY <1>1, <1>2, <1>10 DEF JsonAble, MindRich, At, storeVars, Born
  <2> QED
    BY <1>4, <1>6, <1>10, <2>1 DEF JsonAble
<1>11. CASE JsonGiveBack(p)
  <2>1. Born(r) /\ Goto(p, "failMark") /\ RestoreRow(r, call[p].held)
    BY <1>1, <1>2, <1>11 DEF JsonGiveBack, MindRich, At
  <2>2. Spent(r)'
    BY <1>8, <2>1 DEF RestoreRow, storeVars, Spent, Born
  <2> QED
    BY <1>4, <1>7, <2>1, <2>2
<1>12. CASE JsonAdopt(p)
  <2>1. Born(r)
    BY <1>1, <1>2, <1>12 DEF JsonAdopt, MindRich, At
  <2>2. Spent(r)'
    <3>1. CASE Adopt(r, call[p].held)
      BY <1>8, <2>1, <3>1 DEF Adopt
    <3>2. CASE row[r].pay # "held" /\ UNCHANGED row
      BY <2>1, <3>2 DEF Spent, Born
    <3> QED
      BY <1>1, <1>12, <3>1, <3>2 DEF JsonAdopt, storeVars
  <2>3. call'[p].pc \in {"plain", "failMark"} /\ call'[p].row = r
    <3>1. \/ Goto(p, "failMark")
          \/ call'[p] = [call[p] EXCEPT !.pc = "plain", !.turn = adoption[call[p].row] + 1]
      BY <1>12 DEF JsonAdopt, CallInv
    <3> QED
      BY <1>1, <1>4, <3>1, CallType DEF Call
  <2> QED
    BY <1>7, <2>2, <2>3
<1>13. CASE JsonEnqueue(p)
  <2>1. Spent(r)'
    BY <1>1, <1>2, <1>13 DEF JsonEnqueue, MindRich, At, storeVars, Spent, Born
  <2> QED
    BY <1>4, <1>5, <1>7, <1>13, <2>1 DEF JsonEnqueue
<1>14. CASE JsonHoldBack(p)
  <2>1. Spent(r) /\ Goto(p, "failMark") /\ RestoreHold(r)
    BY <1>1, <1>2, <1>14 DEF JsonHoldBack, MindRich, At
  <2>2. Spent(r)'
    BY <1>8, <2>1 DEF RestoreHold, Spent, Born
  <2> QED
    BY <1>4, <1>7, <2>1, <2>2
<1>15. CASE JsonAfter(p) \/ JsonFailMark(p) \/ JsonSentMark(p)
  BY <1>3, <1>4, <1>5, <1>15 DEF JsonAfter, JsonFailMark, JsonSentMark
<1> QED
  BY <1>9, <1>10, <1>11, <1>12, <1>13, <1>14, <1>15 DEF Json

\* A call comes to a step that counts on its row knowing what it needs.
LEMMA MindArrives ==
    ASSUME Parts, MindInv, "retry" \in Ops => OwnInv, MaxCrashes = 0, "timeout" \notin Ops,
           [Next]_vars, NEW p \in Handlers
    PROVE  \/ call'[p] = call[p] \/ CallTakes(p)
           \/ Minded(p)'
<1>1. CallTurns(p) /\ ~Crash /\ ~Boot
  <2>1. ~Crash
    BY DEF Parts, Rest, Crash
  <2>2. ~Boot
    BY DEF MindInv, Boot, BootHold, BootGive, BootNext, BootRecover
  <2> QED
    BY <2>1, <2>2, TurnSteps
<1>2. CASE call'[p].pc \notin Mindful
  BY <1>2 DEF Minded, MindTake, MindRich, MindRetry, Taking, Mindful
<1>3. CASE Route(p) \/ Json(p)
  BY <1>3, MindJson
<1>4. CASE p \in Callers /\ Rehold(p)
  BY <1>4, MindRehold
<1>5. ASSUME NEW r \in Rows, Claim(p, r) \/ (p \in Callers /\ RetryStart(p, r))
      PROVE  Minded(p)'
  BY <1>5, MindClaim, MindRetrying
<1> QED
  BY <1>1, <1>2, <1>3, <1>4, <1>5 DEF CallTurns, Minds

LEMMA MindStep ==
    ASSUME Parts, MindInv, "retry" \in Ops => OwnInv, MaxCrashes = 0, "timeout" \notin Ops,
           [Next]_vars
    PROVE  MindInv'
<1> USE DEF Parts
<1>1. boot' = "up"
  <2>1. ~Crash /\ ~Boot
    BY DEF MindInv, Rest, Crash, Boot, BootHold, BootGive, BootNext, BootRecover
  <2> QED
    BY <2>1, BootSteps DEF MindInv
<1>2. \A r \in Rows : row'[r].pay = "held" => row'[r].snap # {}
  BY MindRow
<1>3. ASSUME NEW p \in Handlers, call'[p] = call[p] \/ CallTakes(p), Taking(p)'
      PROVE  MindTake(p)'
  <2>1. PICK r \in Rows : r = call'[p].row
    BY <1>3, OwnRows DEF CallTakes, Taking
  <2>2. ~Born(r)
    BY <1>3, <2>1 DEF CallTakes, MindInv, MindTake, Taking, Born
  <2>3. ASSUME NEW q \in Callers, Taking(q), call[q].row = r, ~Taking(q)' PROVE FALSE
    BY <1>3, <2>1, <2>3, CallerIsHandler DEF CallTakes, MindInv, MindTake, Taking
  <2>4. ASSUME NEW q \in Handlers, Taking(q)', call'[q].row = r PROVE q = p
    <3>1. call'[q] = call[q] \/ CallTakes(q)
      BY <2>4, MindArrives DEF Minded
    <3> QED
      BY <1>3, <2>1, <2>4, <3>1 DEF CallTakes, MindInv, MindTake, Taking
  <2> QED
    BY <2>1, <2>2, <2>3, <2>4, MindRow DEF MindTake, Born
<1>4. ASSUME NEW p \in Handlers
      PROVE  MindTake(p)' /\ MindRich(p)' /\ MindRetry(p)'
  <2>1. CASE CallTakes(p)
    BY <1>3, <2>1 DEF MindRich, MindRetry, CallTakes, Taking
  <2>2. CASE call'[p] = call[p] /\ call[p].pc \in Mindful
    <3>1. PICK r \in Rows : r = call[p].row
      BY <2>2, MindPcs
    <3>2. MindRich(p) /\ MindRetry(p)
      BY DEF MindInv
    <3>3. Born(r) => Born(r)'
      BY MindRow
    <3>4. call[p].pc \in {"route", "plain", "holdBack", "failMark"} /\ Spent(r) => Spent(r)'
      <4>1. {"route", "plain", "holdBack", "failMark"} \subseteq Owners
        BY DEF Owners, Dispatching
      <4> QED
        BY <3>1, <4>1, MindRow DEF Armed
    <3>5. MindRich(p)'
      BY <2>2, <3>1, <3>2, <3>3, <3>4 DEF MindRich
    <3>6. MindRetry(p)'
      BY <2>2, <3>1, <3>2, MindRow DEF MindRetry
    <3>7. MindTake(p)'
      BY <1>3, <2>2 DEF MindTake, Taking
    <3> QED
      BY <3>5, <3>6, <3>7
  <2>3. CASE call'[p] = call[p] /\ call[p].pc \notin Mindful
    BY <2>3 DEF MindTake, MindRich, MindRetry, Taking, Mindful
  <2> QED
    BY <2>1, <2>2, <2>3, MindArrives DEF Minded
<1> QED
  BY <1>1, <1>2, <1>4 DEF MindInv

LEMMA MindInit == Init => MindInv
  BY DEF Init, MindInv, MindTake, MindRich, MindRetry, Taking, OffCall, Blank

\* The observer will put back the comments of the row it is told of.
Returns(t) == (t.pc = "start" /\ t.out = "failed") \/ t.pc \in {"restore", "mark"}
FailKept(r) ==
    row[r].status = "failed" /\ row[r].pay = "held" =>
        \/ \E t \in told : t.row = r /\ Returns(t)
        \/ \E p \in Callers : call[p].pc = "retry" /\ call[p].row = r
FailInv == \A r \in Rows : FailKept(r)

\* The observer goes on to return the comments, or has.
LEMMA ReturnsOn ==
    ASSUME Parts, NEW t \in told, Observe(t), Returns(t), row[t.row].snap # {}
    PROVE  \/ row'[t.row].pay # "held"
           \/ \E u \in told' : u.row = t.row /\ Returns(u)
<1> USE DEF Parts
<1>1. t \in Task /\ t.row \in Rows
  BY DEF Rest, Task
<1>2. CASE ObserverStart(t)
  <2> DEFINE held == IF captured[t.row] # {} THEN captured[t.row] ELSE row[t.row].snap
             u == [t EXCEPT !.pc = "restore", !.held = held,
                            !.cap = (captured[t.row] # {}), !.imm = row[t.row].imm]
  <2>1. held # {} /\ t.out = "failed"
    BY <1>2 DEF ObserverStart, Returns
  <2>2. u \in told'
    BY <1>2, <2>1 DEF ObserverStart
  <2>3. u.row = t.row /\ u.pc = "restore"
    BY <1>1 DEF Task
  <2> QED
    BY <2>2, <2>3 DEF Returns
<1>3. CASE ObserverRestore(t) /\ t.cap
  <2> DEFINE u == [t EXCEPT !.pc = "mark"]
  <2>1. u \in told'
    BY <1>3 DEF ObserverRestore
  <2>2. u.row = t.row /\ u.pc = "mark"
    BY <1>1 DEF Task
  <2> QED
    BY <2>1, <2>2 DEF Returns
<1>4. ASSUME SetRow(t.row, [row[t.row] EXCEPT !.pay = "restored"])
      PROVE  row'[t.row].pay # "held"
  BY <1>1, <1>4, RowType DEF SetRow, RowInv, Row
<1>5. CASE ObserverRestore(t) /\ ~t.cap
  BY <1>4, <1>5 DEF ObserverRestore, RestoreRow, storeVars
<1>6. CASE ObserverMark(t)
  BY <1>4, <1>6 DEF ObserverMark
<1>7. ~ObserverDrop(t)
  BY DEF ObserverDrop, Returns
<1> QED
  BY <1>2, <1>3, <1>5, <1>6, <1>7 DEF Observe

LEMMA FailStep ==
    ASSUME Parts, MindInv, FailInv, "retry" \in Ops => OwnInv, MaxCrashes = 0,
           "timeout" \notin Ops, [Next]_vars
    PROVE  FailInv'
<1> USE DEF Parts
<1> SUFFICES ASSUME NEW r \in Rows, row'[r].status = "failed", row'[r].pay = "held"
             PROVE  \/ \E t \in told' : t.row = r /\ Returns(t)
                    \/ \E p \in Callers : call'[p].pc = "retry" /\ call'[p].row = r
  BY DEF FailInv, FailKept, Returns
<1>1. RowTurns(r) /\ ~Crash /\ ~Boot
  BY RowSteps DEF MindInv
<1>2. CASE RowRests(r)
  <2>1. row[r].status = "failed" /\ row[r].pay = "held" /\ row[r].snap # {}
    BY <1>2 DEF RowRests, MindInv
  <2>2. CASE \E t \in told : t.row = r /\ Returns(t)
    <3>1. PICK t \in told : t.row = r /\ Returns(t)
      BY <2>2
    <3> QED
      BY <1>1, <2>1, <3>1, ToldStays, ReturnsOn
  <2>3. CASE \E p \in Callers : call[p].pc = "retry" /\ call[p].row = r
    <3>1. PICK p \in Callers : call[p].pc = "retry" /\ call[p].row = r
      BY <2>3
    <3>2. p \in Handlers
      BY CallerIsHandler
    <3>3. ~RetryRow(p)
      <4>1. row[r].sess = call[p].sess
        BY <2>1, <3>1, <3>2 DEF MindInv, MindRetry, Gone
      <4>2. [Unclaimed(row[r]) EXCEPT !.status = "pending"].status = "pending"
        BY RowType DEF Unclaimed, Row
      <4> QED
        BY <2>1, <3>1, <4>1, <4>2 DEF RetryRow, SetRow, RowInv
    <3>4. call'[p] = call[p]
      BY <1>1, <3>1, <3>2, <3>3, TurnSteps
    <3> QED
      BY <3>1, <3>4
  <2> QED
    BY <2>1, <2>2, <2>3 DEF FailInv, FailKept
<1>3. CASE RowReheld(r)
  <2>1. PICK p \in Callers : Goto(p, "retry") /\ call[p].row = r
    BY <1>3 DEF RowReheld
  <2> QED
    BY <2>1, GotoFields, CallerIsHandler
<1>4. CASE RowFails(r)
  <2>1. ASSUME NEW p \in Handlers, JsonFailMark(p), call[p].row = r PROVE FALSE
    BY <1>4, <2>1 DEF JsonFailMark, At, MindInv, MindRich, Spent, RowFails
  <2>2. PICK t \in told' : t = News(r, "failed")
    BY <1>4, <2>1 DEF RowFails
  <2> QED
    BY <2>2 DEF News, Returns
<1>5. ~RowMade(r)
  BY DEF RowMade
<1> QED
  BY <1>1, <1>2, <1>3, <1>4, <1>5 DEF RowTurns

LEMMA FailKeeps == FailInv => FailedGivesBack
  BY DEF FailInv, FailKept, FailedGivesBack, AtRest, Handlers

\* Where no delivery times out, the daemon does not go down, and no session is reset
\* whose failed rows are retried: once nobody is at work, no failed row keeps its
\* comments from the panel.  A row that fails with comments in it is one the observer
\* is told of, whatever is cancelled, dismissed, deleted, switched or settled before
\* it comes to the row; a Rich Chat delivery fails its row only when the comments
\* have left it; and a Retry that takes them again goes on to re-arm the row.
THEOREM FailedGiveBack ==
    ASSUME "timeout" \notin Ops, MaxCrashes = 0, "retry" \in Ops => "reset" \notin Ops
    PROVE  Spec => []FailedGivesBack
<1>1. TypeInv /\ [Next]_vars => TypeInv'
  <2>1. (Parts /\ FireJobs)' => TypeInv'
    BY TypeIsParts, PTL
  <2> QED
    BY <2>1, TypeIsParts, TypeStep, FireStep
<1>2. Init => FailInv
  BY DEF Init, FailInv, FailKept, Blank
<1>3. CASE "retry" \in Ops
  <2>1. TypeInv /\ OwnInv /\ [Next]_vars => OwnInv'
    BY <1>3, TypeIsParts, OwnStep
  <2>2. TypeInv /\ OwnInv /\ MindInv /\ FailInv /\ [Next]_vars => (MindInv /\ FailInv)'
    BY TypeIsParts, MindStep, FailStep
  <2> QED
    BY <1>1, <1>2, <2>1, <2>2, TypeInit, OwnInit, MindInit, FailKeeps, PTL DEF Spec
<1>4. CASE "retry" \notin Ops
  <2>1. TypeInv /\ MindInv /\ FailInv /\ [Next]_vars => (MindInv /\ FailInv)'
    BY <1>4, TypeIsParts, MindStep, FailStep
  <2> QED
    BY <1>1, <1>2, <2>1, TypeInit, MindInit, FailKeeps, PTL DEF Spec
<1> QED
  BY <1>3, <1>4

=============================================================================
