--------------------------- MODULE TurnLedgerProofs ---------------------------
(***************************************************************************)
(* The turn engine of a session that is not released, for every value of    *)
(* the constants.  Every turn a client sends is in exactly one place; it    *)
(* moves between its places, and reaches the agent, only as the ledger of   *)
(* TurnLedger allows; review comments do not both go with it and come back; *)
(* and a stop parks the notice.                                             *)
(***************************************************************************)
EXTENDS TurnEngineSafety

(* Where a turn is.                                                         *)

\* The turn a call, or a drain task, has in hand.
CallTurns(r) == IF r.pc \in CallHandPcs THEN {r.turn} ELSE {}
DrainTurns(r) ==
    IF r.pc \in {"row", "begin"} THEN {r.turn}
    ELSE IF r.pc = "steerRow" THEN {r.head} ELSE {}

InCall(t) == \E c \in Callers : t \in CallTurns(call[c])
InHand(t) == \E d \in Drains : t \in DrainTurns(drain[d])
Past(t) == rows[t] # {} \/ driver[t] # "none"

\* Turn t is in one place: with one call, in the queue, held, with the drain,
\* or past; while the drain has it no driver has, and a turn with a cancelled
\* row never started.
OnePlace(t) ==
    /\ t \in accepted <=>
         \/ InCall(t) \/ t \in ToSet(queue) \/ t \in held \/ InHand(t)
         \/ Past(t)
    /\ \A b, c \in Callers :
         t \in CallTurns(call[b]) /\ t \in CallTurns(call[c]) => b = c
    /\ InCall(t) =>
         t \notin ToSet(queue) /\ t \notin held /\ ~InHand(t) /\ ~Past(t)
    /\ t \in ToSet(queue) => t \notin held /\ ~InHand(t) /\ ~Past(t)
    /\ t \in held => ~InHand(t) /\ ~Past(t)
    /\ \A d \in Drains : t \in DrainTurns(drain[d]) =>
         /\ driver[t] = "none" /\ "cancelled" \notin rows[t]
         /\ drain[d].pc # "begin" => rows[t] = {}
    /\ "cancelled" \in rows[t] =>
         rows[t] = {"cancelled"} /\ driver[t] = "none"

\* The session is not released, nor being released.
Unreleased ==
    /\ ~released
    /\ \A c \in Callers : call[c].pc \notin {"latch", "clear", "abort", "settle"}

\* The head that is being steered is marked, and cannot leave the queue.
SteersHead ==
    \A d \in Drains : At(d, "steerRpc") =>
        steering = drain[d].head /\ drain[d].head \in ToSet(queue)

Kept ==
    /\ Unreleased
    /\ IsInjective(queue)
    /\ SteersHead
    /\ \A t \in Turns : OnePlace(t)

\* What OnePlace says of the places the properties speak of.
LEMMA PlacesOf ==
    ASSUME NEW t \in Turns
    PROVE  /\ Places(t) =
                [call |-> InCall(t), queue |-> t \in ToSet(queue),
                 held |-> t \in held, drain |-> InHand(t), past |-> Past(t)]
           /\ Places(t)' =
                [call |-> InCall(t)', queue |-> (t \in ToSet(queue))',
                 held |-> (t \in held)', drain |-> InHand(t)', past |-> Past(t)']
<1>1. \A c \in Callers :
        (call[c].turn = t /\ call[c].pc \in CallHandPcs)
            <=> t \in CallTurns(call[c])
  BY DEF CallTurns
<1>2. \A d \in Drains :
        (\/ drain[d].turn = t /\ drain[d].pc \in {"row", "begin"}
         \/ drain[d].head = t /\ drain[d].pc = "steerRow")
            <=> t \in DrainTurns(drain[d])
  BY DEF DrainTurns
<1>3. \A c \in Callers :
        (call'[c].turn = t /\ call'[c].pc \in CallHandPcs)
            <=> t \in CallTurns(call'[c])
  BY DEF CallTurns
<1>4. \A d \in Drains :
        (\/ drain'[d].turn = t /\ drain'[d].pc \in {"row", "begin"}
         \/ drain'[d].head = t /\ drain'[d].pc = "steerRow")
            <=> t \in DrainTurns(drain'[d])
  BY DEF DrainTurns
<1>5. Places(t) =
        [call |-> InCall(t), queue |-> t \in ToSet(queue),
         held |-> t \in held, drain |-> InHand(t), past |-> Past(t)]
  BY <1>1, <1>2 DEF Places, InCall, InHand, Past, CallHandPcs
<1>6. Places(t)' =
        [call |-> InCall(t)', queue |-> (t \in ToSet(queue))',
         held |-> (t \in held)', drain |-> InHand(t)', past |-> Past(t)']
  BY <1>3, <1>4 DEF Places, InCall, InHand, Past, CallHandPcs
<1> QED
  BY <1>5, <1>6

\* The status of a turn, by its place.
StatusIs(t) ==
    /\ t \notin accepted => Status(t) = "new"
    /\ \A c \in Callers : t \in CallTurns(call[c]) =>
         Status(t) = IF call[c].pc = "cancelRow" THEN "withdrawn"
                     ELSE IF call[c].pc = "steerRow" THEN "taken"
                     ELSE "waiting"
    /\ t \in ToSet(queue) => Status(t) = "waiting"
    /\ t \in held => Status(t) = "editing"
    /\ InHand(t) => Status(t) = "taken"
    /\ Past(t) => Status(t) = IF "cancelled" \in rows[t] THEN "withdrawn"
                              ELSE "taken"

LEMMA StatusOf ==
    ASSUME NEW t \in Turns
    PROVE  /\ OnePlace(t) => StatusIs(t)
           /\ OnePlace(t)' => StatusIs(t)'
<1> DEFINE With(p) == \E c \in Callers : call[c].turn = t /\ call[c].pc = p
<1>1. Status(t) = IF t \notin accepted THEN "new"
                  ELSE IF "cancelled" \in rows[t] \/ With("cancelRow")
                       THEN "withdrawn"
                  ELSE IF t \in held THEN "editing"
                  ELSE IF With("steerRow") \/ InHand(t) \/ Past(t) THEN "taken"
                  ELSE "waiting"
  BY PlacesOf DEF Status
<1>2. Status(t)' = IF (t \notin accepted)' THEN "new"
                   ELSE IF ("cancelled" \in rows[t])' \/ With("cancelRow")'
                        THEN "withdrawn"
                   ELSE IF (t \in held)' THEN "editing"
                   ELSE IF With("steerRow")' \/ InHand(t)' \/ Past(t)'
                        THEN "taken"
                   ELSE "waiting"
  BY PlacesOf DEF Status
<1>3. ASSUME OnePlace(t)
      PROVE  StatusIs(t)
  <2>1. \A c \in Callers, p \in CallHandPcs :
          call[c].turn = t /\ call[c].pc = p => t \in CallTurns(call[c])
    BY DEF CallTurns
  <2>2. \A c \in Callers, p \in {"cancelRow", "steerRow"} :
          t \in CallTurns(call[c]) => (With(p) <=> call[c].pc = p)
    BY <1>3, <2>1 DEF OnePlace, CallTurns, CallHandPcs
  <2>3. \A p \in {"cancelRow", "steerRow"} : With(p) => InCall(t)
    BY <2>1 DEF InCall, CallHandPcs
  <2> HIDE DEF With
  <2>4. \A c \in Callers : t \in CallTurns(call[c]) =>
          Status(t) = IF call[c].pc = "cancelRow" THEN "withdrawn"
                      ELSE IF call[c].pc = "steerRow" THEN "taken"
                      ELSE "waiting"
    BY <1>1, <1>3, <2>2 DEF OnePlace, InCall, Past
  <2>5. /\ t \notin accepted => Status(t) = "new"
        /\ t \in ToSet(queue) => Status(t) = "waiting"
        /\ t \in held => Status(t) = "editing"
        /\ Past(t) => Status(t) = IF "cancelled" \in rows[t] THEN "withdrawn"
                                  ELSE "taken"
    BY <1>1, <1>3, <2>3 DEF OnePlace, Past
  <2>6. InHand(t) => Status(t) = "taken"
    BY <1>1, <1>3, <2>3 DEF OnePlace, InHand
  <2> QED
    BY <2>4, <2>5, <2>6 DEF StatusIs
<1>4. ASSUME OnePlace(t)'
      PROVE  StatusIs(t)'
  <2>1. \A c \in Callers, p \in CallHandPcs :
          call'[c].turn = t /\ call'[c].pc = p => t \in CallTurns(call'[c])
    BY DEF CallTurns
  <2>2. \A c \in Callers, p \in {"cancelRow", "steerRow"} :
          t \in CallTurns(call'[c]) => (With(p)' <=> call'[c].pc = p)
    BY <1>4, <2>1 DEF OnePlace, CallTurns, CallHandPcs
  <2>3. \A p \in {"cancelRow", "steerRow"} : With(p)' => InCall(t)'
    BY <2>1 DEF InCall, CallHandPcs
  <2> HIDE DEF With
  <2>4. \A c \in Callers : t \in CallTurns(call'[c]) =>
          Status(t)' = IF call'[c].pc = "cancelRow" THEN "withdrawn"
                       ELSE IF call'[c].pc = "steerRow" THEN "taken"
                       ELSE "waiting"
    BY <1>2, <1>4, <2>2 DEF OnePlace, InCall, Past
  <2>5. /\ (t \notin accepted)' => Status(t)' = "new"
        /\ (t \in ToSet(queue))' => Status(t)' = "waiting"
        /\ (t \in held)' => Status(t)' = "editing"
        /\ Past(t)' => Status(t)' = IF ("cancelled" \in rows[t])' THEN "withdrawn"
                                    ELSE "taken"
    BY <1>2, <1>4, <2>3 DEF OnePlace, Past
  <2>6. InHand(t)' => Status(t)' = "taken"
    BY <1>2, <1>4, <2>3 DEF OnePlace, InHand
  <2> QED
    BY <2>4, <2>5, <2>6 DEF StatusIs
<1> QED
  BY <1>3, <1>4

-----------------------------------------------------------------------------
(* Moves between places.                                                    *)

\* A step that concerns the turns of T at most.
Only(T) ==
    /\ \A u \in Turns \ T :
         /\ u \in accepted' <=> u \in accepted
         /\ u \in ToSet(queue') <=> u \in ToSet(queue)
         /\ u \in held' <=> u \in held
         /\ rows'[u] = rows[u] /\ driver'[u] = driver[u]
    /\ \A c \in Callers :
         \/ call'[c] = call[c]
         \/ CallTurns(call[c]) \cup CallTurns(call'[c]) \subseteq T
    /\ \A d \in Drains :
         \/ drain'[d] = drain[d]
         \/ DrainTurns(drain[d]) \cup DrainTurns(drain'[d]) \subseteq T

\* What the ledger lets the status of a turn do.
StatusMoves(t) ==
    Status(t)' = Status(t)
    \/ <<Status(t), Status(t)'>> \in
         {<<"new", "waiting">>, <<"waiting", "editing">>,
          <<"editing", "waiting">>, <<"waiting", "withdrawn">>,
          <<"editing", "withdrawn">>, <<"waiting", "taken">>}

\* The other turns stay where they are, with the status they have.
LEMMA Stays ==
    ASSUME NEW T, Only(T), NEW u \in Turns \ T, OnePlace(u)
    PROVE  OnePlace(u)' /\ Status(u)' = Status(u)
<1>1. /\ \A c \in Callers : u \in CallTurns(call'[c]) <=> u \in CallTurns(call[c])
      /\ \A c \in Callers : u \in CallTurns(call[c]) => call'[c] = call[c]
  BY DEF Only
<1>2. /\ \A d \in Drains : u \in DrainTurns(drain'[d]) <=> u \in DrainTurns(drain[d])
      /\ \A d \in Drains : u \in DrainTurns(drain[d]) => drain'[d] = drain[d]
  BY DEF Only
<1>3. /\ u \in accepted' <=> u \in accepted
      /\ u \in ToSet(queue') <=> u \in ToSet(queue)
      /\ u \in held' <=> u \in held
      /\ rows'[u] = rows[u] /\ driver'[u] = driver[u]
  BY DEF Only
<1>4. InCall(u)' <=> InCall(u)
  BY <1>1 DEF InCall
<1>5. InHand(u)' <=> InHand(u)
  BY <1>2 DEF InHand
<1>6. Past(u)' <=> Past(u)
  BY <1>3 DEF Past
<1>7. OnePlace(u)'
  BY <1>1, <1>2, <1>3, <1>4, <1>5, <1>6 DEF OnePlace
<1>8. StatusIs(u) /\ StatusIs(u)'
  BY <1>7, StatusOf
<1>9. CASE InCall(u)
  BY <1>1, <1>7, <1>8, <1>9 DEF StatusIs, InCall
<1>10. CASE ~InCall(u)
  BY <1>3, <1>5, <1>6, <1>7, <1>8, <1>10 DEF StatusIs, OnePlace
<1> QED
  BY <1>7, <1>9, <1>10

\* A step of one caller: its turn is with it, or with no call.
LEMMA CallerMoves ==
    ASSUME NEW t, NEW c \in Callers, OnePlace(t),
           \A b \in Callers \ {c} : call'[b] = call[b],
           t \in CallTurns(call[c]) \/ ~InCall(t)
    PROVE  /\ InCall(t)' <=> t \in CallTurns(call'[c])
           /\ \A a, b \in Callers :
                t \in CallTurns(call'[a]) /\ t \in CallTurns(call'[b]) => a = b
           /\ \A b \in Callers : t \in CallTurns(call'[b]) => b = c
<1>1. \A b \in Callers \ {c} : t \notin CallTurns(call'[b])
  BY DEF OnePlace, InCall
<1> QED
  BY <1>1 DEF InCall

\* A step of the drain task in the loop: no other task has a turn in hand.
LEMMA DrainMoves ==
    ASSUME SingleDrain, NEW d \in Drains, InLoop(d),
           \A e \in Drains \ {d} : drain'[e] = drain[e], NEW t
    PROVE  /\ InHand(t) <=> t \in DrainTurns(drain[d])
           /\ InHand(t)' <=> t \in DrainTurns(drain'[d])
           /\ \A e \in Drains : t \in DrainTurns(drain'[e]) => e = d
<1>1. \A e \in Drains \ {d} : DrainTurns(drain[e]) = {}
  BY DEF SingleDrain, InLoop, LoopPcs, DrainTurns
<1>2. \A e \in Drains \ {d} : DrainTurns(drain'[e]) = {}
  BY <1>1
<1> QED
  BY <1>1, <1>2 DEF InHand

\* A step of a call that leaves the tasks and what is past alone: where the
\* turn of the call is afterwards says whether it is in one place.
LEMMA CallPlace ==
    ASSUME NEW t \in Turns, NEW c \in Callers, OnePlace(t),
           \A b \in Callers \ {c} : call'[b] = call[b],
           t \in CallTurns(call[c]) \/ ~InCall(t),
           UNCHANGED <<drain, driver>>,
           ~Past(t), ~InHand(t), t \in accepted',
           rows'[t] = {} \/ rows'[t] = {"cancelled"}
             \/ rows'[t] = {"user"},
           \/ /\ t \in CallTurns(call'[c]) /\ t \notin ToSet(queue')
              /\ t \notin held' /\ rows'[t] = {}
           \/ /\ t \notin CallTurns(call'[c]) /\ t \in ToSet(queue')
              /\ t \notin held' /\ rows'[t] = {}
           \/ /\ t \notin CallTurns(call'[c]) /\ t \notin ToSet(queue')
              /\ t \in held' /\ rows'[t] = {}
           \/ /\ t \notin CallTurns(call'[c]) /\ t \notin ToSet(queue')
              /\ t \notin held' /\ rows'[t] # {}
    PROVE  OnePlace(t)' /\ StatusIs(t) /\ StatusIs(t)'
<1>1. /\ InCall(t)' <=> t \in CallTurns(call'[c])
      /\ \A a, b \in Callers :
           t \in CallTurns(call'[a]) /\ t \in CallTurns(call'[b]) => a = b
  BY CallerMoves
<1>2. /\ ~InHand(t)' /\ (\A d \in Drains : t \notin DrainTurns(drain'[d]))
      /\ Past(t)' <=> rows'[t] # {}
      /\ driver'[t] = "none"
  BY DEF InHand, Past
<1>3. OnePlace(t)'
  BY <1>1, <1>2 DEF OnePlace
<1> QED
  BY <1>3, StatusOf

\* A step that keeps every turn in one place, moves none but as the ledger
\* allows, and moves one at most.
KeepsPlaces ==
    /\ Kept'
    /\ \A t \in Turns : StatusMoves(t)
    /\ \A t, u \in Turns :
         t = u \/ Status(t)' = Status(t) \/ Status(u)' = Status(u)

LEMMA OneMove ==
    ASSUME Kept, NEW T, Only(T), Unreleased', IsInjective(queue'), SteersHead',
           \A t \in Turns \cap T : OnePlace(t)' /\ StatusMoves(t),
           \A t, u \in Turns \cap T : t = u
    PROVE  KeepsPlaces
<1>1. \A u \in Turns \ T : OnePlace(u)' /\ Status(u)' = Status(u)
  BY Stays DEF Kept
<1> QED
  BY <1>1 DEF Kept, KeepsPlaces, StatusMoves

\* A request, or a call that does not release the session, leaves it alive.
LEMMA StaysUnreleased ==
    ASSUME "release" \notin Ops, TypeOK, Unreleased,
           NEW c \in Callers, CallStep(c) \/ Request(c)
    PROVE  Unreleased'
<1> USE DEF stateVars, turnVars, noticeVars, taskVars, outVars, sessionVars
<1> DEFINE R == {"latch", "clear", "abort", "settle"}
<1>1. \A b \in Callers \ {c} : call'[b] = call[b]
  BY CallsAlone
<1>2. call \in [Callers -> ClientCall] /\ call[c].pc \notin R /\ ~released
  BY DEF TypeOK, CallOK, Unreleased
<1>3. CASE CallStep(c)
  <2>1. released' = released
    BY <1>2, <1>3 DEF CallStep, PushTurn, KickCall, SubmitInjected,
       SubmitRefused, SubmitRow, SubmitEnqueue, CancelRow, StopCaptured,
       ReleaseLatch, ReleaseClear, AbortAndDrain, ReleaseDispose
  <2>2. call'[c].pc \notin R
    BY <1>2, <1>3 DEF CallStep, PushTurn, KickCall, SubmitInjected,
       SubmitRefused, SubmitRow, SubmitEnqueue, CancelRow, StopCaptured,
       ReleaseLatch, ReleaseClear, AbortAndDrain, ReleaseDispose, Return,
       IdleCall, ClientCall
  <2> QED
    BY <1>1, <1>2, <2>1, <2>2 DEF Unreleased
<1>4. CASE Request(c)
  <2>1. ~ReleaseSweep(c)
    BY DEF ReleaseSweep, Starts
  <2>2. released' = released
    BY <1>4, <2>1 DEF Request, Enqueue, Submit, CancelQueued, BeginEdit,
       Promote, Resubmit, Populate, PruneChild, Stop, PromoteNotice, Dismiss
  <2>3. call'[c].pc \notin R
    <3>1. ASSUME NEW t \in Turns,
                 \/ Enqueue(c, t) \/ Submit(c, t) \/ CancelQueued(c, t)
                 \/ BeginEdit(c, t) \/ Promote(c, t)
          PROVE  call'[c].pc \notin R
      BY <1>2, <3>1 DEF Enqueue, Submit, CancelQueued, BeginEdit, Promote
    <3>2. ASSUME NEW t \in Turns, NEW keep \in BOOLEAN, Resubmit(c, t, keep)
          PROVE  call'[c].pc \notin R
      BY <1>2, <3>2 DEF Resubmit, ClientCall
    <3>3. ASSUME NEW k \in Children, Populate(c, k) \/ PruneChild(c, k)
          PROVE  call'[c].pc \notin R
      BY <1>2, <3>3 DEF Populate, PruneChild, ClientCall
    <3>4. CASE Stop(c) \/ PromoteNotice(c) \/ Dismiss(c)
      BY <1>2, <3>4 DEF Stop, PromoteNotice, Dismiss
    <3> QED
      BY <1>4, <2>1, <3>1, <3>2, <3>3, <3>4 DEF Request
  <2> QED
    BY <1>1, <1>2, <2>2, <2>3 DEF Unreleased
<1> QED
  BY <1>3, <1>4

\* A call, or a request, that deals with turn t.
LEMMA CallOnly ==
    ASSUME Kept, TypeOK, NEW t \in Turns, NEW c \in Callers,
           \A b \in Callers \ {c} : call'[b] = call[b],
           CallTurns(call[c]) \cup CallTurns(call'[c]) \subseteq {t},
           UNCHANGED <<drain, driver, steering>>,
           accepted' \ {t} = accepted \ {t},
           ToSet(queue') \ {t} = ToSet(queue) \ {t},
           held' \ {t} = held \ {t},
           \A u \in Turns \ {t} : rows'[u] = rows[u],
           steering = t => (t \in ToSet(queue') <=> t \in ToSet(queue))
    PROVE  Only({t}) /\ SteersHead'
<1>1. Only({t})
  BY DEF Only
<1>2. SteersHead'
  <2> SUFFICES ASSUME NEW d \in Drains, At(d, "steerRpc")
               PROVE  drain[d].head \in ToSet(queue')
    BY DEF SteersHead, Kept, At
  <2>1. steering = drain[d].head /\ drain[d].head \in ToSet(queue)
    BY DEF Kept, SteersHead
  <2> QED
    BY <2>1
<1> QED
  BY <1>1, <1>2

\* A client sends a turn: new -> waiting.
LEMMA KeptSend ==
    ASSUME "release" \notin Ops, TypeOK, Kept, NEW c \in Callers,
           NEW t \in Turns, Enqueue(c, t) \/ Submit(c, t)
    PROVE  KeepsPlaces
<1> USE DEF stateVars, turnVars, noticeVars, outVars, sessionVars
<1>1. \A b \in Callers \ {c} : call'[b] = call[b]
  BY CallsAlone DEF Request
<1>2. Unreleased'
  BY StaysUnreleased DEF Request, Kept
<1>3. call \in [Callers -> ClientCall]
  BY DEF TypeOK, CallOK
<1>4. /\ UNCHANGED <<queue, held, rows, drain, driver, steering>>
      /\ accepted' = accepted \cup {t} /\ t \notin accepted
      /\ call[c].pc = "idle"
      /\ call'[c].pc \in {"push", "steerRpc", "enqueue"}
      /\ call'[c].turn = t
  BY <1>3 DEF Enqueue, Submit, Fresh, Starts
<1>5. CallTurns(call[c]) = {} /\ CallTurns(call'[c]) = {t}
  BY <1>4 DEF CallTurns, CallHandPcs
<1>6. Only({t}) /\ SteersHead'
  BY <1>1, <1>4, <1>5, CallOnly
<1>7. /\ OnePlace(t) /\ ~InCall(t) /\ t \notin ToSet(queue) /\ t \notin held
      /\ ~InHand(t) /\ ~Past(t)
  BY <1>4 DEF Kept, OnePlace
<1>8. rows[t] = {}
  BY <1>7 DEF Past
<1>9. OnePlace(t)' /\ StatusIs(t) /\ StatusIs(t)'
  BY <1>1, <1>4, <1>5, <1>7, <1>8, CallPlace
<1>10. StatusMoves(t)
  BY <1>4, <1>5, <1>9 DEF StatusIs, StatusMoves
<1>11. IsInjective(queue')
  BY <1>4 DEF Kept
<1> QED
  BY <1>2, <1>6, <1>9, <1>10, <1>11, OneMove

\* A call goes on with its turn: pushes it, steers it, or cancels it.
LEMMA KeptGoOn ==
    ASSUME "release" \notin Ops, TypeOK, Kept, NEW c \in Callers,
           \/ PushTurn(c) \/ SubmitInjected(c) \/ SubmitRefused(c)
           \/ SubmitRow(c) \/ SubmitEnqueue(c) \/ CancelRow(c)
    PROVE  KeepsPlaces
<1> USE DEF stateVars, turnVars, noticeVars, outVars, sessionVars
<1>1. \A b \in Callers \ {c} : call'[b] = call[b]
  BY CallsAlone DEF CallStep
<1>2. Unreleased'
  BY StaysUnreleased DEF CallStep, Kept
<1>3. call \in [Callers -> ClientCall]
  BY DEF TypeOK, CallOK
<1>4. PICK t \in Turns : t = call[c].turn /\ call[c].pc \in CallHandPcs
  BY DEF PushTurn, SubmitInjected, SubmitRefused, SubmitRow, SubmitEnqueue,
     CancelRow, TypeOK, CallOK, CallHandPcs
<1>5. CallTurns(call[c]) = {t}
  BY <1>4 DEF CallTurns
<1>6. /\ OnePlace(t) /\ InCall(t) /\ t \notin ToSet(queue) /\ t \notin held
      /\ ~InHand(t) /\ ~Past(t) /\ t \in accepted /\ rows[t] = {}
  BY <1>5 DEF Kept, OnePlace, InCall, Past
<1>7. UNCHANGED <<held, drain, driver, steering, accepted>>
  BY DEF PushTurn, SubmitInjected, SubmitRefused, SubmitRow, SubmitEnqueue,
     CancelRow
<1>8. CASE PushTurn(c)
  <2>1. /\ queue' = Append(queue, t) /\ call'[c].pc = "kick" /\ UNCHANGED rows
        /\ call[c].pc = "push"
    BY <1>3, <1>4, <1>8 DEF PushTurn, ClientCall
  <2>2. ToSet(queue') = ToSet(queue) \cup {t} /\ IsInjective(queue')
    BY <1>6, <2>1, AppendSet DEF TypeOK, QueueOK, Kept
  <2>3. CallTurns(call'[c]) = {}
    BY <2>1 DEF CallTurns, CallHandPcs
  <2>5. Only({t})
    BY <1>1, <1>5, <1>7, <2>1, <2>2, <2>3 DEF Only
  <2>6. SteersHead'
    BY <1>7, <2>2 DEF Kept, SteersHead, At
  <2>7. OnePlace(t)' /\ StatusIs(t) /\ StatusIs(t)'
    BY <1>1, <1>5, <1>6, <1>7, <2>1, <2>2, <2>3, CallPlace
  <2>8. StatusMoves(t)
    BY <1>5, <2>1, <2>2, <2>7 DEF StatusIs, StatusMoves
  <2> QED
    BY <1>2, <2>2, <2>5, <2>6, <2>7, <2>8, OneMove
<1>9. CASE SubmitInjected(c) \/ SubmitRefused(c) \/ SubmitEnqueue(c)
  <2>1. /\ UNCHANGED <<queue, rows>> /\ call'[c].turn = t
        /\ \/ call[c].pc = "steerRpc" /\ call'[c].pc \in {"steerRow", "enqueue"}
           \/ call[c].pc = "enqueue" /\ call'[c].pc = "push"
    BY <1>3, <1>4, <1>9 DEF SubmitInjected, SubmitRefused, SubmitEnqueue,
       ClientCall
  <2>2. CallTurns(call'[c]) = {t}
    BY <2>1 DEF CallTurns, CallHandPcs
  <2>3. Only({t}) /\ SteersHead'
    BY <1>1, <1>5, <1>7, <2>1, <2>2, CallOnly
  <2>4. OnePlace(t)' /\ StatusIs(t) /\ StatusIs(t)'
    BY <1>1, <1>5, <1>6, <1>7, <2>1, <2>2, CallPlace
  <2>5. StatusMoves(t)
    BY <1>5, <2>1, <2>2, <2>4 DEF StatusIs, StatusMoves
  <2>6. IsInjective(queue')
    BY <2>1 DEF Kept
  <2> QED
    BY <1>2, <2>3, <2>4, <2>5, <2>6, OneMove
<1>10. CASE SubmitRow(c) \/ CancelRow(c)
  <2>1. /\ UNCHANGED queue /\ call'[c].pc = "idle"
        /\ \/ call[c].pc = "steerRow" /\ rows' = WithRow(t, "user")
           \/ call[c].pc = "cancelRow" /\ rows' = WithRow(t, "cancelled")
    BY <1>3, <1>4, <1>10 DEF SubmitRow, CancelRow, Return, IdleCall
  <2>2. CallTurns(call'[c]) = {}
    BY <2>1 DEF CallTurns, CallHandPcs
  <2>3. ~released /\ rows \in [Turns -> SUBSET {"user", "cancelled"}]
    BY DEF Kept, Unreleased, TypeOK, OutOK
  <2>4. /\ \A u \in Turns \ {t} : rows'[u] = rows[u]
        /\ call[c].pc = "steerRow" => rows'[t] = {"user"}
        /\ call[c].pc = "cancelRow" => rows'[t] = {"cancelled"}
    BY <1>6, <2>1, <2>3 DEF WithRow
  <2>5. Only({t}) /\ SteersHead'
    BY <1>1, <1>5, <1>7, <2>1, <2>2, <2>4, CallOnly
  <2>6. OnePlace(t)' /\ StatusIs(t) /\ StatusIs(t)'
    BY <1>1, <1>5, <1>6, <1>7, <2>1, <2>2, <2>4, CallPlace
  <2>7. Past(t)' /\ ("cancelled" \in rows'[t] <=> call[c].pc = "cancelRow")
    BY <2>1, <2>4 DEF Past
  <2>8. StatusMoves(t)
    BY <1>5, <2>1, <2>6, <2>7 DEF StatusIs, StatusMoves
  <2>9. IsInjective(queue')
    BY <2>1 DEF Kept
  <2> QED
    BY <1>2, <2>5, <2>6, <2>8, <2>9, OneMove
<1> QED
  BY <1>8, <1>9, <1>10

\* A turn is withdrawn: waiting or editing -> withdrawn.
LEMMA KeptCancel ==
    ASSUME "release" \notin Ops, TypeOK, Kept, NEW c \in Callers,
           NEW t \in Turns, CancelQueued(c, t)
    PROVE  KeepsPlaces
<1> USE DEF stateVars, turnVars, noticeVars, outVars, sessionVars
<1>1. \A b \in Callers \ {c} : call'[b] = call[b]
  BY CallsAlone DEF Request
<1>2. Unreleased'
  BY StaysUnreleased DEF Request, Kept
<1>3. call \in [Callers -> ClientCall] /\ queue \in Seq(Turns)
  BY DEF TypeOK, CallOK, QueueOK
<1>4. /\ UNCHANGED <<rows, drain, driver, steering, accepted>>
      /\ call[c].pc = "idle" /\ call'[c].pc = "cancelRow" /\ call'[c].turn = t
      /\ steering # t
  BY <1>3 DEF CancelQueued, Starts, Withdrawable
<1>5. CallTurns(call[c]) = {} /\ CallTurns(call'[c]) = {t}
  BY <1>4 DEF CallTurns, CallHandPcs
<1>6. /\ OnePlace(t) /\ IsInjective(queue)
      /\ t \in ToSet(queue) \/ t \in held
  BY DEF Kept, CancelQueued, ToSet
<1>7. /\ ToSet(queue') = ToSet(queue) \ {t} /\ held' = held \ {t}
      /\ IsInjective(queue')
  <2>1. ASSUME NEW i \in DOMAIN queue, queue[i] = t,
               queue' = RemoveAt(queue, i), held' = held
        PROVE  /\ ToSet(queue') = ToSet(queue) \ {t} /\ held' = held \ {t}
               /\ IsInjective(queue')
    <3>1. t \in ToSet(queue)
      BY <2>1 DEF ToSet
    <3>2. t \notin held
      BY <1>6, <3>1 DEF OnePlace
    <3> QED
      BY <1>3, <1>6, <2>1, <3>2, RemoveAtSet
  <2>2. ASSUME t \in held, held' = held \ {t}, queue' = queue
        PROVE  /\ ToSet(queue') = ToSet(queue) \ {t} /\ held' = held \ {t}
               /\ IsInjective(queue')
    BY <1>6, <2>2 DEF OnePlace
  <2> QED
    BY <2>1, <2>2 DEF CancelQueued
<1>8. /\ ~InCall(t) /\ ~InHand(t) /\ ~Past(t) /\ t \in accepted
      /\ rows[t] = {}
  BY <1>6 DEF OnePlace, Past
<1>9. Only({t}) /\ SteersHead'
  BY <1>1, <1>4, <1>5, <1>7, CallOnly
<1>10. OnePlace(t)' /\ StatusIs(t) /\ StatusIs(t)'
  BY <1>1, <1>4, <1>5, <1>6, <1>7, <1>8, CallPlace
<1>11. StatusMoves(t)
  BY <1>4, <1>5, <1>6, <1>10 DEF StatusIs, StatusMoves
<1> QED
  BY <1>2, <1>7, <1>9, <1>10, <1>11, OneMove

\* A turn is held for editing and put back: waiting -> editing -> waiting.
LEMMA KeptEdit ==
    ASSUME "release" \notin Ops, TypeOK, Kept, NEW c \in Callers,
           NEW t \in Turns,
           BeginEdit(c, t) \/ \E keep \in BOOLEAN : Resubmit(c, t, keep)
    PROVE  KeepsPlaces
<1> USE DEF stateVars, turnVars, noticeVars, taskVars, outVars, sessionVars
<1>1. \A b \in Callers \ {c} : call'[b] = call[b]
  BY CallsAlone DEF Request
<1>2. Unreleased'
  BY StaysUnreleased DEF Request, Kept
<1>3. call \in [Callers -> ClientCall] /\ queue \in Seq(Turns)
  BY DEF TypeOK, CallOK, QueueOK
<1>4. /\ UNCHANGED <<rows, drain, driver, steering, accepted>>
      /\ call[c].pc = "idle" /\ call'[c].pc \in {"idle", "kick"}
      /\ steering # t
  BY <1>3 DEF BeginEdit, Resubmit, Starts, Withdrawable, ClientCall
<1>5. CallTurns(call[c]) = {} /\ CallTurns(call'[c]) = {}
  BY <1>4 DEF CallTurns, CallHandPcs
<1>6. OnePlace(t) /\ IsInjective(queue)
  BY DEF Kept
<1>7. CASE BeginEdit(c, t)
  <2>1. PICK i \in DOMAIN queue : /\ queue[i] = t
                                  /\ queue' = RemoveAt(queue, i)
    BY <1>7 DEF BeginEdit
  <2>2. t \in ToSet(queue) /\ held' = held \cup {t}
    BY <1>7, <2>1 DEF BeginEdit, ToSet
  <2>3. ToSet(queue') = ToSet(queue) \ {t} /\ IsInjective(queue')
    BY <1>3, <1>6, <2>1, RemoveAtSet
  <2>4. /\ ~InCall(t) /\ ~InHand(t) /\ ~Past(t) /\ t \in accepted
        /\ rows[t] = {}
    BY <1>6, <2>2 DEF OnePlace, Past
  <2>5. Only({t}) /\ SteersHead'
    BY <1>1, <1>4, <1>5, <2>2, <2>3, CallOnly
  <2>6. OnePlace(t)' /\ StatusIs(t) /\ StatusIs(t)'
    BY <1>1, <1>4, <1>5, <1>6, <2>2, <2>3, <2>4, CallPlace
  <2>7. StatusMoves(t)
    BY <2>2, <2>6 DEF StatusIs, StatusMoves
  <2> QED
    BY <1>2, <2>3, <2>5, <2>6, <2>7, OneMove
<1>8. CASE \E keep \in BOOLEAN : Resubmit(c, t, keep)
  <2>1. PICK p \in 1..(Len(queue) + 1) : queue' = InsertAt(queue, p, t)
    BY <1>8 DEF Resubmit
  <2>2. t \in held /\ held' = held \ {t}
    BY <1>8 DEF Resubmit
  <2>3. /\ t \notin ToSet(queue) /\ ~InCall(t) /\ ~InHand(t) /\ ~Past(t)
        /\ t \in accepted /\ rows[t] = {}
    BY <1>6, <2>2 DEF OnePlace, Past
  <2>4. ToSet(queue') = ToSet(queue) \cup {t} /\ IsInjective(queue')
    BY <1>3, <1>6, <2>1, <2>3, InsertAtSet
  <2>5. Only({t}) /\ SteersHead'
    BY <1>1, <1>4, <1>5, <2>2, <2>4, CallOnly
  <2>6. OnePlace(t)' /\ StatusIs(t) /\ StatusIs(t)'
    BY <1>1, <1>4, <1>5, <1>6, <2>2, <2>3, <2>4, CallPlace
  <2>7. StatusMoves(t)
    BY <2>2, <2>4, <2>6 DEF StatusIs, StatusMoves
  <2> QED
    BY <1>2, <2>4, <2>5, <2>6, <2>7, OneMove
<1> QED
  BY <1>7, <1>8

\* "Send now" only reorders the queue.
LEMMA KeptPromote ==
    ASSUME "release" \notin Ops, TypeOK, Kept, NEW c \in Callers,
           NEW t \in Turns, Promote(c, t)
    PROVE  KeepsPlaces
<1> USE DEF stateVars, turnVars, noticeVars, outVars, sessionVars
<1>1. \A b \in Callers \ {c} : call'[b] = call[b]
  BY CallsAlone DEF Request
<1>2. Unreleased'
  BY StaysUnreleased DEF Request, Kept
<1>3. queue \in Seq(Turns) /\ IsInjective(queue) /\ call \in [Callers -> ClientCall]
  BY DEF TypeOK, CallOK, QueueOK, Kept
<1>4. /\ UNCHANGED <<held, rows, drain, driver, steering, accepted>>
      /\ call[c].pc = "idle" /\ call'[c].pc \in {"kick", "stopKick"}
  BY <1>3 DEF Promote, Starts
<1>5. CallTurns(call[c]) = {} /\ CallTurns(call'[c]) = {}
  BY <1>4 DEF CallTurns, CallHandPcs
<1>6. PICK i \in DOMAIN queue : queue[i] = t
                                /\ queue' = Cons(t, RemoveAt(queue, i))
  BY DEF Promote
<1>7. /\ RemoveAt(queue, i) \in Seq(Turns)
      /\ ToSet(RemoveAt(queue, i)) = ToSet(queue) \ {t}
      /\ IsInjective(RemoveAt(queue, i))
  BY <1>3, <1>6, RemoveAtType, RemoveAtSet
<1>8. /\ ToSet(queue') = ToSet(RemoveAt(queue, i)) \cup {t}
      /\ IsInjective(queue')
  BY <1>6, <1>7, ConsSet
<1>9. ToSet(queue') = ToSet(queue)
  <2>1. t \in ToSet(queue)
    BY <1>6 DEF ToSet
  <2> QED
    BY <1>7, <1>8, <2>1
<1>10. Only({})
  BY <1>1, <1>4, <1>5, <1>9 DEF Only
<1>11. SteersHead'
  BY <1>4, <1>9 DEF Kept, SteersHead, At
<1> QED
  BY <1>2, <1>8, <1>10, <1>11, OneMove

\* The calls and requests that deal with no turn of their own.
LEMMA KeptOther ==
    ASSUME "release" \notin Ops, TypeOK, Kept, NEW c \in Callers,
           \/ KickCall(c) \/ StopCaptured(c) \/ Stop(c)
           \/ \E k \in Children : Populate(c, k) \/ PruneChild(c, k)
           \/ PromoteNotice(c) \/ Dismiss(c)
    PROVE  KeepsPlaces
<1> USE DEF stateVars, turnVars, noticeVars, taskVars, outVars, sessionVars
<1>1. \A b \in Callers \ {c} : call'[b] = call[b]
  BY CallsAlone DEF CallStep, Request
<1>2. Unreleased'
  BY StaysUnreleased DEF CallStep, Request, Kept
<1>3. call \in [Callers -> ClientCall]
  BY DEF TypeOK, CallOK
<1>4. UNCHANGED <<queue, held, rows, driver, steering, accepted>>
  BY DEF KickCall, StopCaptured, Stop, Populate, PruneChild, PromoteNotice,
     Dismiss
<1>5. (CallTurns(call[c]) = {} /\ CallTurns(call'[c]) = {}) \/ call'[c] = call[c]
  <2>1. \/ call'[c] = call[c]
        \/ /\ call[c].pc \in {"kick", "stopKick", "stop", "idle"}
           /\ call'[c].pc \in {"idle", "kick", "stopKick", "stop"}
    BY <1>3 DEF KickCall, StopCaptured, Stop, Populate, PruneChild,
       PromoteNotice, Dismiss, Return, IdleCall, Starts, ClientCall
  <2> QED
    BY <2>1 DEF CallTurns, CallHandPcs
<1>6. \A e \in Drains :
        \/ drain'[e] = drain[e]
        \/ drain[e].pc = "off" /\ drain'[e].pc = "start"
  <2>1. CASE KickCall(c)
    <3> DEFINE r == [OffDrain EXCEPT !.pc = "start"]
    <3>1. r.pc = "start"
      BY DEF OffDrain
    <3>2. \A e \in Drains :
            drain'[e] = drain[e] \/ (drain[e].pc = "off" /\ drain'[e] = r)
      BY <2>1 DEF KickCall, KickDrain, TypeOK, DrainOK
    <3> QED
      BY <3>1, <3>2
  <2>2. CASE ~KickCall(c)
    BY <2>2 DEF StopCaptured, Stop, Populate, PruneChild, PromoteNotice, Dismiss
  <2> QED
    BY <2>1, <2>2
<1>7. Only({})
  BY <1>1, <1>4, <1>5, <1>6 DEF Only, DrainTurns
<1>8. SteersHead'
  BY <1>4, <1>6 DEF Kept, SteersHead, At
<1>9. IsInjective(queue')
  BY <1>4 DEF Kept
<1> QED
  BY <1>2, <1>7, <1>8, <1>9, OneMove

\* A step of the drain task in the loop: where its turn is afterwards says
\* whether it is in one place.
LEMMA DrainPlace ==
    ASSUME SingleDrain, NEW d \in Drains, InLoop(d),
           \A e \in Drains \ {d} : drain'[e] = drain[e],
           NEW t \in Turns, OnePlace(t), UNCHANGED call, ~InCall(t),
           t \in accepted',
           t \notin ToSet(queue'), t \notin held', "cancelled" \notin rows'[t],
           \/ /\ t \in DrainTurns(drain'[d]) /\ driver'[t] = "none"
              /\ drain'[d].pc # "begin" => rows'[t] = {}
           \/ /\ t \notin DrainTurns(drain'[d])
              /\ rows'[t] # {} \/ driver'[t] # "none"
    PROVE  OnePlace(t)' /\ StatusIs(t) /\ StatusIs(t)'
<1>1. ~InCall(t)' /\ \A c \in Callers : t \notin CallTurns(call'[c])
  BY DEF InCall
<1>2. /\ InHand(t)' <=> t \in DrainTurns(drain'[d])
      /\ \A e \in Drains : t \in DrainTurns(drain'[e]) => e = d
  BY DrainMoves
<1>3. OnePlace(t)'
  BY <1>1, <1>2 DEF OnePlace, Past
<1> QED
  BY <1>3, StatusOf

\* The steps of a drain task that deal with a turn of the queue: it pops the
\* head, or is told that the agent took the head it steered.
LEMMA KeptPop ==
    ASSUME TypeOK, SingleDrain, Kept, NEW d \in Drains,
           (DrainPop(d) /\ queue # <<>>) \/ SteerInjected(d)
    PROVE  KeepsPlaces
<1> USE DEF stateVars, turnVars, noticeVars, outVars, sessionVars
<1>1. /\ InLoop(d) /\ queue \in Seq(Turns) /\ drain \in [Drains -> DrainTask]
      /\ IsInjective(queue)
  BY DEF DrainPop, SteerInjected, At, InLoop, LoopPcs, TypeOK, QueueOK, DrainOK,
     Kept
<1>2. /\ UNCHANGED <<held, rows, driver, call, accepted, released>>
      /\ \A e \in Drains \ {d} : drain'[e] = drain[e]
  BY <1>1 DEF DrainPop, SteerInjected, Goto
<1>3. PICK t \in ToSet(queue) :
        /\ ToSet(queue') = ToSet(queue) \ {t} /\ IsInjective(queue')
        /\ DrainTurns(drain[d]) = {} /\ DrainTurns(drain'[d]) = {t}
        /\ drain'[d].pc \in {"row", "steerRow"}
  <2>1. CASE DrainPop(d) /\ queue # <<>>
    <3>1. /\ queue' = Tail(queue) /\ drain[d].pc = "pop"
          /\ drain'[d].pc = "row" /\ drain'[d].turn = Head(queue)
      BY <1>1, <2>1 DEF DrainPop, PopHead, At, DrainTask
    <3>2. /\ Head(queue) \in ToSet(queue)
          /\ ToSet(queue') = ToSet(queue) \ {Head(queue)}
          /\ IsInjective(queue')
      BY <1>1, <2>1, <3>1, TailSet
    <3> QED
      BY <3>1, <3>2 DEF DrainTurns
  <2>2. CASE SteerInjected(d)
    <3>1. PICK h : h = drain[d].head
      OBVIOUS
    <3>2. /\ drain[d].pc = "steerRpc" /\ drain'[d].pc = "steerRow"
          /\ drain'[d].head = h
      BY <1>1, <2>2, <3>1 DEF SteerInjected, Goto, At, DrainTask
    <3>3. h \in ToSet(queue)
      BY <3>1, <3>2 DEF Kept, SteersHead, At
    <3>4. PICK i \in DOMAIN queue : queue[i] = h /\ queue' = RemoveAt(queue, i)
      BY <2>2, <3>1, <3>3 DEF SteerInjected, HeadOut
    <3>5. ToSet(queue') = ToSet(queue) \ {h} /\ IsInjective(queue')
      BY <1>1, <3>4, RemoveAtSet
    <3> QED
      BY <3>2, <3>3, <3>5 DEF DrainTurns
  <2> QED
    BY <2>1, <2>2
<1>4. t \in Turns /\ OnePlace(t)
  BY <1>1, ElementOfSeq, LenProperties DEF ToSet, Kept
<1>5. /\ ~InCall(t) /\ t \notin held /\ rows[t] = {} /\ driver[t] = "none"
      /\ t \in accepted
  BY <1>3, <1>4 DEF OnePlace, Past
<1>6. Only({t})
  BY <1>2, <1>3 DEF Only
<1>7. OnePlace(t)' /\ StatusIs(t) /\ StatusIs(t)'
  BY <1>1, <1>2, <1>3, <1>4, <1>5, DrainPlace
<1>8. StatusMoves(t)
  BY <1>3, <1>7 DEF StatusIs, StatusMoves, InHand
<1>9. Unreleased'
  BY <1>2 DEF Kept, Unreleased
<1>10. SteersHead'
  <2>1. \A e \in Drains : drain'[e].pc # "steerRpc"
    BY <1>1, <1>2, <1>3 DEF SingleDrain, InLoop, LoopPcs
  <2> QED
    BY <2>1 DEF SteersHead, At
<1> QED
  BY <1>3, <1>6, <1>7, <1>8, <1>9, <1>10, OneMove

\* The steps that deal with the turn the task has in hand or runs.
LEMMA KeptHand ==
    ASSUME TypeOK, SingleDrain, Kept, NEW d \in Drains,
           \/ DrainRow(d) \/ DrainBegin(d) \/ SteerRow(d) \/ TurnEvent(d)
           \/ TurnEnd(d)
    PROVE  KeepsPlaces
<1> USE DEF stateVars, turnVars, noticeVars, outVars, sessionVars
<1>1. /\ InLoop(d) /\ drain \in [Drains -> DrainTask]
      /\ rows \in [Turns -> SUBSET {"user", "cancelled"}]
      /\ driver \in [TurnIds -> DriverStates]
      /\ ~released
  BY DEF DrainRow, DrainBegin, SteerRow, TurnEvent, TurnEnd, At, InLoop,
     LoopPcs, TypeOK, DrainOK, OutOK, Kept, Unreleased
<1>2. /\ UNCHANGED <<queue, held, call, accepted, released>>
      /\ \A e \in Drains \ {d} : drain'[e] = drain[e]
  BY <1>1 DEF DrainRow, DrainBegin, SteerRow, TurnEvent, TurnEnd, Goto
<1>3. drain'[d].pc # "steerRpc"
  <2>1. CASE DrainRow(d) \/ DrainBegin(d) \/ SteerRow(d)
    BY <1>1, <2>1 DEF DrainRow, DrainBegin, SteerRow, Goto, DrainTask
  <2>2. CASE TurnEvent(d)
    BY <1>1, <2>2 DEF TurnEvent, At, DrainTask
  <2>3. CASE TurnEnd(d)
    BY <1>1, <2>3 DEF TurnEnd, OffDrain
  <2> QED
    BY <2>1, <2>2, <2>3
<1>4. Unreleased' /\ IsInjective(queue')
  BY <1>2 DEF Kept, Unreleased
<1>5. SteersHead'
  <2>1. \A e \in Drains : drain'[e].pc # "steerRpc"
    BY <1>1, <1>2, <1>3 DEF SingleDrain, InLoop, LoopPcs
  <2> QED
    BY <2>1 DEF SteersHead, At
<1>6. CASE DrainRow(d)
  <2>1. PICK t \in Turns : t = drain[d].turn
    BY <1>6 DEF DrainRow, At, TypeOK, DrainOK, KnowsTurn
  <2>2. /\ drain[d].pc = "row" /\ drain'[d].pc = "begin" /\ drain'[d].turn = t
        /\ driver' = driver
        /\ \A u \in Turns \ {t} : rows'[u] = rows[u]
        /\ rows'[t] \subseteq rows[t] \cup {"user"}
    BY <1>1, <1>6, <2>1 DEF DrainRow, WithRow, At, DrainTask
  <2>3. DrainTurns(drain[d]) = {t} /\ DrainTurns(drain'[d]) = {t}
    BY <2>1, <2>2 DEF DrainTurns
  <2>4. Only({t})
    BY <1>2, <2>2, <2>3 DEF Only
  <2>5. /\ OnePlace(t) /\ InHand(t) /\ driver[t] = "none" /\ rows[t] = {}
        /\ t \notin ToSet(queue) /\ t \notin held /\ t \in accepted /\ ~InCall(t)
    BY <2>2, <2>3 DEF Kept, OnePlace, InHand
  <2>6. OnePlace(t)' /\ StatusIs(t) /\ StatusIs(t)'
    BY <1>1, <1>2, <2>2, <2>3, <2>5, DrainPlace
  <2>7. StatusMoves(t)
    BY <2>3, <2>5, <2>6 DEF StatusIs, StatusMoves, InHand
  <2> QED
    BY <1>4, <1>5, <2>4, <2>6, <2>7, OneMove
<1>7. CASE SteerRow(d)
  <2>1. PICK t \in Turns : t = drain[d].head
    BY <1>7 DEF SteerRow, At, TypeOK, DrainOK, KnowsTurn
  <2>2. /\ drain[d].pc = "steerRow" /\ drain'[d].pc = "steer"
        /\ driver' = driver
        /\ \A u \in Turns \ {t} : rows'[u] = rows[u]
        /\ rows'[t] = rows[t] \cup {"user"}
    BY <1>1, <1>7, <2>1 DEF SteerRow, WithRow, At, DrainTask
  <2>3. DrainTurns(drain[d]) = {t} /\ DrainTurns(drain'[d]) = {}
    BY <2>1, <2>2 DEF DrainTurns
  <2>4. Only({t})
    BY <1>2, <2>2, <2>3 DEF Only
  <2>5. /\ OnePlace(t) /\ InHand(t) /\ driver[t] = "none" /\ rows[t] = {}
        /\ t \notin ToSet(queue) /\ t \notin held /\ t \in accepted /\ ~InCall(t)
    BY <2>2, <2>3 DEF Kept, OnePlace, InHand
  <2>6. OnePlace(t)' /\ StatusIs(t) /\ StatusIs(t)'
    BY <1>1, <1>2, <2>2, <2>3, <2>5, DrainPlace
  <2>7. StatusMoves(t)
    BY <2>2, <2>5, <2>6 DEF StatusIs, StatusMoves, Past
  <2> QED
    BY <1>4, <1>5, <2>4, <2>6, <2>7, OneMove
<1>8. CASE DrainBegin(d)
  <2>1. PICK t \in TurnIds : t = drain[d].turn
    BY <1>8 DEF DrainBegin, At, TypeOK, DrainOK, KnowsTurn
  <2>2. /\ drain[d].pc = "begin" /\ drain'[d].pc = "turn"
        /\ driver' = [driver EXCEPT ![t] = "spawned"] /\ rows' = rows
    BY <1>1, <1>8, <2>1 DEF DrainBegin, At, Goto, DrainTask
  <2>3. DrainTurns(drain[d]) = {t} /\ DrainTurns(drain'[d]) = {}
    BY <2>1, <2>2 DEF DrainTurns
  <2>4. Only({t})
    BY <1>1, <1>2, <2>2, <2>3 DEF Only, TurnIds
  <2>5. ASSUME t \in Turns
        PROVE  OnePlace(t)' /\ StatusMoves(t)
    <3>1. /\ OnePlace(t) /\ InHand(t) /\ "cancelled" \notin rows[t]
          /\ t \notin ToSet(queue) /\ t \notin held /\ t \in accepted
          /\ ~InCall(t)
      BY <2>3, <2>5 DEF Kept, OnePlace, InHand
    <3>2. driver'[t] = "spawned"
      BY <1>1, <2>2
    <3>3. OnePlace(t)' /\ StatusIs(t) /\ StatusIs(t)'
      BY <1>1, <1>2, <2>2, <2>3, <2>5, <3>1, <3>2, DrainPlace
    <3> QED
      BY <2>2, <3>1, <3>2, <3>3 DEF StatusIs, StatusMoves, Past
  <2> QED
    BY <1>4, <1>5, <2>4, <2>5, OneMove
<1>9. CASE TurnEvent(d) \/ TurnEnd(d)
  <2>1. PICK t \in TurnIds : t = drain[d].turn
    BY <1>9 DEF TurnEvent, TurnEnd, At, TypeOK, DrainOK, KnowsTurn
  <2>2. /\ drain[d].pc \in {"turn", "end"}
        /\ drain'[d].pc \in {"turn", "top", "inner"}
        /\ driver' = driver \/ (driver' = [driver EXCEPT ![t] = "closed"]
                                /\ driver[t] # "none")
        /\ rows' = rows
    <3>1. CASE TurnEvent(d)
      BY <1>1, <2>1, <3>1 DEF TurnEvent, At, DrainTask
    <3>2. CASE TurnEnd(d)
      BY <1>1, <2>1, <3>2 DEF TurnEnd, At, OffDrain
    <3> QED
      BY <1>9, <3>1, <3>2
  <2>3. DrainTurns(drain[d]) = {} /\ DrainTurns(drain'[d]) = {}
    BY <2>2 DEF DrainTurns
  <2>4. CASE driver' = driver
    <3>1. Only({})
      BY <1>2, <2>2, <2>3, <2>4 DEF Only
    <3> QED
      BY <1>4, <1>5, <3>1, OneMove
  <2>5. CASE driver' = [driver EXCEPT ![t] = "closed"] /\ driver[t] # "none"
    <3>1. Only({t})
      BY <1>1, <1>2, <2>2, <2>3, <2>5 DEF Only, TurnIds
    <3>2. ASSUME t \in Turns
          PROVE  OnePlace(t)' /\ StatusMoves(t)
      <4>1. /\ OnePlace(t) /\ Past(t) /\ "cancelled" \notin rows[t]
            /\ t \notin ToSet(queue) /\ t \notin held /\ t \in accepted
            /\ ~InCall(t)
        BY <2>5, <3>2 DEF Kept, OnePlace, Past
      <4>2. driver'[t] = "closed"
        BY <1>1, <2>5
      <4>3. OnePlace(t)' /\ StatusIs(t) /\ StatusIs(t)'
        BY <1>1, <1>2, <2>2, <2>3, <3>2, <4>1, <4>2, DrainPlace
      <4> QED
        BY <2>2, <4>1, <4>2, <4>3 DEF StatusIs, StatusMoves, Past
    <3> QED
      BY <1>4, <1>5, <3>1, <3>2, OneMove
  <2> QED
    BY <2>2, <2>4, <2>5
<1> QED
  BY <1>6, <1>7, <1>8, <1>9

\* The other steps of a drain task move no turn.
LEMMA KeptRest ==
    ASSUME TypeOK, SingleDrain, Kept, NEW d \in Drains, DrainStep(d),
           ~(DrainPop(d) /\ queue # <<>>), ~SteerInjected(d), ~DrainRow(d),
           ~DrainBegin(d), ~SteerRow(d), ~TurnEvent(d), ~TurnEnd(d)
    PROVE  KeepsPlaces
<1> USE DEF stateVars, turnVars, noticeVars, taskVars, outVars, sessionVars
<1>1. UNCHANGED <<call, released>>
  BY DrainsAlone
<1>2. /\ UNCHANGED <<queue, held, rows, driver>>
      /\ \A t \in Turns : t \in accepted' <=> t \in accepted
  <2>1. UNCHANGED <<queue, held, rows, driver>>
    BY DEF DrainStep, DrainStart, DrainTop, DrainInner, DrainPop, TurnStep,
       TurnStopped, TurnWoken, TurnClosed, SteerStep, SteerCheck,
       SteerTooEarly, SteerFailed, DrainAfter, DrainFlag, DrainLeft,
       NoticeStep, DrainPromo, DrainSlot, TakeNotice, PruneNotice, DrainFin,
       DrainSignal, DrainRekick
  <2>2. CASE PruneNotice(d)
    BY <2>1, <2>2, TurnAssumption DEF PruneNotice
  <2>3. CASE ~PruneNotice(d)
    <3>1. accepted' = accepted
      BY <2>3 DEF DrainStep, DrainStart, DrainTop, DrainInner, DrainPop,
         TurnStep, TurnStopped, TurnWoken, TurnClosed, SteerStep, SteerCheck,
         SteerTooEarly, SteerFailed, DrainAfter, DrainFlag, DrainLeft,
         NoticeStep, DrainPromo, DrainSlot, TakeNotice, DrainFin,
         DrainSignal, DrainRekick
    <3> QED
      BY <2>1, <3>1
  <2> QED
    BY <2>2, <2>3
<1>3. drain \in [Drains -> DrainTask]
  BY DEF TypeOK, DrainOK
<1>4. Unreleased' /\ IsInjective(queue')
  BY <1>1, <1>2 DEF Kept, Unreleased
<1>5. CASE DrainSignal(d) \/ DrainRekick(d)
  <2>1. steering' = steering
    BY <1>5 DEF DrainSignal, DrainRekick
  <2>2. \A e \in Drains :
          \/ drain'[e] = drain[e]
          \/ /\ drain[e].pc \in {"off", "signal", "rekick"}
             /\ drain'[e].pc \in {"off", "rekick", "start"}
    <3>1. CASE DrainSignal(d)
      BY <1>3, <3>1 DEF DrainSignal, Goto, At, DrainTask
    <3>2. CASE DrainRekick(d)
      <4> DEFINE r == [OffDrain EXCEPT !.pc = "start"]
                 ds == [drain EXCEPT ![d] = OffDrain]
      <4>1. OffDrain.pc = "off" /\ r.pc = "start"
        BY DEF OffDrain
      <4>2. drain[d].pc = "rekick"
            /\ \A e \in Drains : ds[e] = drain[e] \/ (e = d /\ ds[e] = OffDrain)
        BY <1>3, <3>2 DEF DrainRekick, At
      <4>3. \A e \in Drains :
              drain'[e] = ds[e] \/ (ds[e].pc = "off" /\ drain'[e] = r)
        BY <1>3, <3>2 DEF DrainRekick, KickDrain
      <4> QED
        BY <4>1, <4>2, <4>3
    <3> QED
      BY <1>5, <3>1, <3>2
  <2>3. Only({})
    BY <1>1, <1>2, <2>2 DEF Only, DrainTurns
  <2>4. SteersHead'
    BY <1>2, <2>1, <2>2 DEF Kept, SteersHead, At
  <2> QED
    BY <1>4, <2>3, <2>4, OneMove
<1>6. CASE ~DrainSignal(d) /\ ~DrainRekick(d)
  <2>1. InLoop(d)
    BY <1>6 DEF DrainStep, DrainStart, DrainTop, DrainInner, DrainPop,
       TurnStep, TurnStopped, TurnWoken, TurnClosed, SteerStep, SteerCheck,
       SteerTooEarly, SteerFailed, DrainAfter, DrainFlag, DrainLeft,
       NoticeStep, DrainPromo, DrainSlot, TakeNotice, PruneNotice, DrainFin,
       At, InLoop, LoopPcs
  <2>2. \A e \in Drains \ {d} : drain'[e] = drain[e]
    BY <1>3, <1>6 DEF DrainStep, DrainStart, DrainTop, DrainInner, DrainPop,
       TurnStep, TurnStopped, TurnWoken, TurnClosed, SteerStep, SteerCheck,
       SteerTooEarly, SteerFailed, DrainAfter, DrainFlag, DrainLeft,
       NoticeStep, DrainPromo, DrainSlot, TakeNotice, PruneNotice, DrainFin,
       Goto
  <2>3. DrainTurns(drain[d]) = {}
    BY <1>6 DEF DrainStep, DrainStart, DrainTop, DrainInner, DrainPop,
       TurnStep, TurnStopped, TurnWoken, TurnClosed, SteerStep, SteerCheck,
       SteerTooEarly, SteerFailed, DrainAfter, DrainFlag, DrainLeft,
       NoticeStep, DrainPromo, DrainSlot, TakeNotice, PruneNotice, DrainFin,
       At, DrainTurns
  <2>4. /\ DrainTurns(drain'[d]) \cap Turns = {}
        /\ drain'[d].pc = "steerRpc" => SteerCheck(d)
    <3>1. CASE \/ DrainStart(d) \/ DrainTop(d) \/ DrainInner(d) \/ DrainAfter(d)
               \/ DrainFlag(d) \/ DrainFin(d)
      BY <1>3, <3>1 DEF DrainStart, DrainTop, DrainInner, DrainAfter, DrainFlag,
         AfterFlag, DrainFin, Goto, DrainTask, DrainTurns
    <3>2. CASE DrainPop(d) \/ DrainLeft(d)
      BY <1>3, <3>2 DEF DrainPop, DrainLeft, Goto, DrainTask, DrainTurns
    <3>3. CASE TurnStopped(d) \/ TurnWoken(d) \/ TurnClosed(d)
      BY <1>3, <3>3 DEF TurnStopped, TurnWoken, TurnClosed, Goto, DrainTask,
         DrainTurns
    <3>4. CASE SteerCheck(d) \/ SteerTooEarly(d) \/ SteerFailed(d)
      BY <1>3, <3>4 DEF SteerCheck, SteerTooEarly, SteerFailed, Goto, DrainTask,
         DrainTurns
    <3>5. CASE DrainPromo(d) \/ DrainSlot(d) \/ TakeNotice(d)
      BY <1>3, <3>5 DEF DrainPromo, DrainSlot, TakeNotice, Goto, DrainTask,
         DrainTurns
    <3>6. CASE PruneNotice(d)
      BY <1>3, <3>6, TurnAssumption DEF PruneNotice, DrainTask, DrainTurns
    <3> QED
      BY <1>6, <3>1, <3>2, <3>3, <3>4, <3>5, <3>6 DEF DrainStep, TurnStep,
         SteerStep, NoticeStep
  <2>5. Only(TurnIds \ Turns)
    <3>1. DrainTurns(drain'[d]) \subseteq TurnIds
      <4>1. CASE PruneNotice(d)
        BY <1>3, <4>1 DEF PruneNotice, DrainTask, DrainTurns, TurnIds
      <4>2. CASE ~PruneNotice(d)
        <5>1. drain'[d].pc \notin {"row", "begin", "steerRow"}
          <6>1. CASE \/ DrainStart(d) \/ DrainTop(d) \/ DrainInner(d)
                     \/ DrainAfter(d) \/ DrainFlag(d) \/ DrainFin(d)
            BY <1>3, <6>1 DEF DrainStart, DrainTop, DrainInner, DrainAfter,
               DrainFlag, AfterFlag, DrainFin, Goto, DrainTask
          <6>2. CASE DrainPop(d) \/ DrainLeft(d)
            BY <1>3, <6>2 DEF DrainPop, DrainLeft, Goto, DrainTask
          <6>3. CASE TurnStopped(d) \/ TurnWoken(d) \/ TurnClosed(d)
            BY <1>3, <6>3 DEF TurnStopped, TurnWoken, TurnClosed, Goto, DrainTask
          <6>4. CASE SteerCheck(d) \/ SteerTooEarly(d) \/ SteerFailed(d)
            BY <1>3, <6>4 DEF SteerCheck, SteerTooEarly, SteerFailed, Goto,
               DrainTask
          <6>5. CASE DrainPromo(d) \/ DrainSlot(d) \/ TakeNotice(d)
            BY <1>3, <6>5 DEF DrainPromo, DrainSlot, TakeNotice, Goto, DrainTask
          <6> QED
            BY <1>6, <4>2, <6>1, <6>2, <6>3, <6>4, <6>5 DEF DrainStep, TurnStep,
               SteerStep, NoticeStep
        <5> QED
          BY <5>1 DEF DrainTurns
      <4> QED
        BY <4>1, <4>2
    <3> QED
      BY <1>1, <1>2, <2>2, <2>3, <2>4, <3>1 DEF Only
  <2>6. SteersHead'
    <3> SUFFICES ASSUME NEW e \in Drains, drain'[e].pc = "steerRpc"
                 PROVE  steering' = drain'[e].head
                        /\ drain'[e].head \in ToSet(queue')
      BY DEF SteersHead, At
    <3>1. e = d
      BY <2>1, <2>2 DEF SingleDrain, InLoop, LoopPcs
    <3>2. /\ queue # <<>> /\ steering' = Head(queue)
          /\ drain'[d].head = Head(queue)
      BY <1>3, <2>4, <3>1 DEF SteerCheck, HeadSteers, Goto, DrainTask
    <3>3. Head(queue) \in ToSet(queue)
      BY <3>2, TailSet DEF TypeOK, QueueOK
    <3> QED
      BY <1>2, <3>1, <3>2, <3>3
  <2> QED
    BY <1>4, <2>5, <2>6, OneMove
<1> QED
  BY <1>5, <1>6

\* A driver is about a turn that is past.
LEMMA KeptDriver ==
    ASSUME TypeOK, Kept, NEW t \in TurnIds, DriverStep(t)
    PROVE  KeepsPlaces
<1> USE DEF stateVars, turnVars, noticeVars, outVars, sessionVars
<1>1. /\ UNCHANGED <<queue, held, call, drain, accepted, rows, released,
                     steering>>
      /\ driver[t] # "none"
      /\ \E s \in DriverStates \ {"none"} : driver' = [driver EXCEPT ![t] = s]
  BY DEF DriverStep, DriverConnect, DriverPrompt, DriverError, DriverResult,
     DriverQuit, AfterSpawn, DriverStates
<1>2. driver \in [TurnIds -> DriverStates]
  BY DEF TypeOK, OutOK
<1>3. Only({t})
  BY <1>1, <1>2 DEF Only, TurnIds
<1>4. Unreleased' /\ IsInjective(queue') /\ SteersHead'
  BY <1>1 DEF Kept, Unreleased, SteersHead, At
<1>5. ASSUME t \in Turns
      PROVE  OnePlace(t)' /\ StatusMoves(t)
  <2>1. OnePlace(t) /\ Past(t) /\ Past(t)'
    BY <1>1, <1>2, <1>5 DEF Kept, Past
  <2>2. (InCall(t)' <=> InCall(t)) /\ (InHand(t)' <=> InHand(t)) /\ ~InHand(t)
    BY <1>1, <2>1 DEF InCall, InHand, OnePlace
  <2>3. OnePlace(t)'
    BY <1>1, <2>1, <2>2 DEF OnePlace, InHand
  <2>4. StatusIs(t) /\ StatusIs(t)'
    BY <1>5, <2>1, <2>3, StatusOf
  <2> QED
    BY <1>1, <2>1, <2>3, <2>4 DEF StatusIs, StatusMoves
<1> QED
  BY <1>3, <1>4, <1>5, OneMove

\* Every step keeps every turn in one place and moves it as the ledger allows.
LEMMA KeptStep ==
    ASSUME "release" \notin Ops, TypeOK, SingleDrain, Kept, [Next]_vars
    PROVE  KeepsPlaces
<1>1. ASSUME NEW d \in Drains, DrainStep(d)
      PROVE  KeepsPlaces
  BY <1>1, KeptPop, KeptHand, KeptRest
<1>2. ASSUME NEW c \in Callers, CallStep(c)
      PROVE  KeepsPlaces
  <2>1. ~ReleaseLatch(c) /\ ~ReleaseClear(c) /\ ~AbortAndDrain(c)
        /\ ~ReleaseDispose(c)
    BY DEF Kept, Unreleased, ReleaseLatch, ReleaseClear, AbortAndDrain,
       ReleaseDispose
  <2> QED
    BY <1>2, <2>1, KeptGoOn, KeptOther DEF CallStep
<1>3. ASSUME NEW c \in Callers, Request(c)
      PROVE  KeepsPlaces
  <2>1. ~ReleaseSweep(c)
    BY DEF ReleaseSweep, Starts
  <2> QED
    BY <1>3, <2>1, KeptSend, KeptCancel, KeptEdit, KeptPromote, KeptOther
    DEF Request
<1>4. CASE UNCHANGED vars
  <2>1. UNCHANGED <<queue, held, call, drain, accepted, rows, released,
                    steering, driver>>
    BY <1>4 DEF vars, stateVars, outVars, taskVars, sessionVars
  <2>2. Only({})
    BY <2>1 DEF Only
  <2>3. Unreleased' /\ IsInjective(queue') /\ SteersHead'
    BY <2>1 DEF Kept, Unreleased, SteersHead, At
  <2> QED
    BY <2>2, <2>3, OneMove
<1> QED
  BY <1>1, <1>2, <1>3, <1>4, KeptDriver DEF Next

LEMMA KeptInit == Init => Kept
<1> SUFFICES ASSUME Init
             PROVE  Kept
  OBVIOUS
<1> USE DEF Init
<1>1. /\ \A c \in Callers : call[c].pc = "idle" /\ CallTurns(call[c]) = {}
      /\ \A d \in Drains : drain[d].pc = "off" /\ DrainTurns(drain[d]) = {}
  BY DEF IdleCall, OffDrain, CallTurns, CallHandPcs, DrainTurns
<1>2. ToSet(queue) = {} /\ IsInjective(queue)
  BY DEF ToSet, IsInjective
<1>3. Unreleased /\ SteersHead
  BY <1>1 DEF Unreleased, SteersHead, At
<1>4. ASSUME NEW t \in Turns
      PROVE  OnePlace(t)
  BY <1>1, <1>2 DEF OnePlace, InCall, InHand, Past, TurnIds
<1> QED
  BY <1>2, <1>3, <1>4 DEF Kept

LEMMA KeptHold == ASSUME "release" \notin Ops PROVE Spec => []Kept
<1>1. TypeOK /\ SingleDrain /\ Kept /\ [Next]_vars => Kept'
  BY KeptStep DEF KeepsPlaces
<1> QED
  BY <1>1, KeptInit, TypeCorrect, SingleOwner, PTL DEF Spec

\* A record that says of five places which of them a turn is in.
LEMMA OneOfFive ==
    ASSUME NEW p,
           p = [call |-> p.call, queue |-> p.queue, held |-> p.held,
                drain |-> p.drain, past |-> p.past],
           p.drain \in BOOLEAN, p.past \in BOOLEAN, p.call \in BOOLEAN,
           p.queue \in BOOLEAN, p.held \in BOOLEAN,
           p.call \/ p.queue \/ p.held \/ p.drain \/ p.past,
           p.call => ~p.queue /\ ~p.held /\ ~p.drain /\ ~p.past,
           p.queue => ~p.held /\ ~p.drain /\ ~p.past,
           p.held => ~p.drain /\ ~p.past
    PROVE  \E only \in DOMAIN p :
             \/ \A k \in DOMAIN p : p[k] <=> k = only
             \/ p = [call |-> FALSE, queue |-> FALSE, held |-> FALSE,
                     drain |-> TRUE, past |-> TRUE]
<1> DEFINE a == p.call
           b == p.queue
           c == p.held
           d == p.drain
           e == p.past
<1>1. /\ DOMAIN p = {"call", "queue", "held", "drain", "past"}
      /\ p["call"] = a /\ p["queue"] = b /\ p["held"] = c /\ p["drain"] = d
      /\ p["past"] = e
  OBVIOUS
<1>2. CASE d = TRUE /\ e = TRUE
  <2>1. a = FALSE /\ b = FALSE /\ c = FALSE
    BY <1>2
  <2> QED
    BY <1>1, <1>2, <2>1
<1>3. CASE ~(d /\ e)
  <2>1. CASE a
    <3>1. /\ p["call"] <=> "call" = "call"
          /\ p["queue"] <=> "queue" = "call"
          /\ p["held"] <=> "held" = "call"
          /\ p["drain"] <=> "drain" = "call"
          /\ p["past"] <=> "past" = "call"
      BY <1>1, <1>3, <2>1
    <3>2. "call" \in DOMAIN p /\ \A k \in DOMAIN p : p[k] <=> k = "call"
      BY <1>1, <3>1
    <3> QED
      BY <3>2
  <2>2. CASE b
    <3>1. /\ p["call"] <=> "call" = "queue"
          /\ p["queue"] <=> "queue" = "queue"
          /\ p["held"] <=> "held" = "queue"
          /\ p["drain"] <=> "drain" = "queue"
          /\ p["past"] <=> "past" = "queue"
      BY <1>1, <1>3, <2>2
    <3>2. "queue" \in DOMAIN p /\ \A k \in DOMAIN p : p[k] <=> k = "queue"
      BY <1>1, <3>1
    <3> QED
      BY <3>2
  <2>3. CASE c
    <3>1. /\ p["call"] <=> "call" = "held"
          /\ p["queue"] <=> "queue" = "held"
          /\ p["held"] <=> "held" = "held"
          /\ p["drain"] <=> "drain" = "held"
          /\ p["past"] <=> "past" = "held"
      BY <1>1, <1>3, <2>3
    <3>2. "held" \in DOMAIN p /\ \A k \in DOMAIN p : p[k] <=> k = "held"
      BY <1>1, <3>1
    <3> QED
      BY <3>2
  <2>4. CASE d
    <3>1. /\ p["call"] <=> "call" = "drain"
          /\ p["queue"] <=> "queue" = "drain"
          /\ p["held"] <=> "held" = "drain"
          /\ p["drain"] <=> "drain" = "drain"
          /\ p["past"] <=> "past" = "drain"
      BY <1>1, <1>3, <2>4
    <3>2. "drain" \in DOMAIN p /\ \A k \in DOMAIN p : p[k] <=> k = "drain"
      BY <1>1, <3>1
    <3> QED
      BY <3>2
  <2>5. CASE e
    <3>1. /\ p["call"] <=> "call" = "past"
          /\ p["queue"] <=> "queue" = "past"
          /\ p["held"] <=> "held" = "past"
          /\ p["drain"] <=> "drain" = "past"
          /\ p["past"] <=> "past" = "past"
      BY <1>1, <1>3, <2>5
    <3>2. "past" \in DOMAIN p /\ \A k \in DOMAIN p : p[k] <=> k = "past"
      BY <1>1, <3>1
    <3> QED
      BY <3>2
  <2> QED
    BY <2>1, <2>2, <2>3, <2>4, <2>5
<1> QED
  BY <1>2, <1>3

\* No turn is lost and none is duplicated, whatever clients cancel, edit,
\* resubmit, promote, steer and stop, and however their calls interleave with
\* the drain, as long as nobody releases the session.
THEOREM NothingLost ==
    ASSUME "release" \notin Ops PROVE Spec => []NoTurnLost
<1>1. Kept => NoTurnLost
  <2> SUFFICES ASSUME Kept, NEW t \in accepted \cap Turns
               PROVE  LET p == Places(t)
                      IN \E only \in DOMAIN p :
                           \/ \A k \in DOMAIN p : p[k] <=> k = only
                           \/ p = [call |-> FALSE, queue |-> FALSE,
                                   held |-> FALSE, drain |-> TRUE,
                                   past |-> TRUE]
    BY DEF NoTurnLost, Kept
  <2>1. OnePlace(t)
    BY DEF Kept
  <2>2. /\ InCall(t) \in BOOLEAN /\ InHand(t) \in BOOLEAN
        /\ Past(t) \in BOOLEAN
    BY DEF InCall, InHand, Past
  <2>3. /\ InCall(t) \/ t \in ToSet(queue) \/ t \in held \/ InHand(t) \/ Past(t)
        /\ InCall(t) => /\ ~(t \in ToSet(queue)) /\ ~(t \in held)
                        /\ ~InHand(t) /\ ~Past(t)
        /\ t \in ToSet(queue) => ~(t \in held) /\ ~InHand(t) /\ ~Past(t)
        /\ t \in held => ~InHand(t) /\ ~Past(t)
    BY <2>1 DEF OnePlace
  <2>4. Places(t) = [call |-> InCall(t), queue |-> t \in ToSet(queue),
                     held |-> t \in held, drain |-> InHand(t),
                     past |-> Past(t)]
    BY PlacesOf
  <2>5. \A p : p = Places(t) =>
          \E only \in DOMAIN p :
            \/ \A k \in DOMAIN p : p[k] <=> k = only
            \/ p = [call |-> FALSE, queue |-> FALSE, held |-> FALSE,
                    drain |-> TRUE, past |-> TRUE]
    <3> SUFFICES ASSUME NEW p, p = Places(t)
                 PROVE  \E only \in DOMAIN p :
                          \/ \A k \in DOMAIN p : p[k] <=> k = only
                          \/ p = [call |-> FALSE, queue |-> FALSE,
                                  held |-> FALSE, drain |-> TRUE,
                                  past |-> TRUE]
      OBVIOUS
    <3>1. /\ p.call = InCall(t) /\ p.queue = (t \in ToSet(queue))
          /\ p.held = (t \in held) /\ p.drain = InHand(t) /\ p.past = Past(t)
          /\ p = [call |-> p.call, queue |-> p.queue, held |-> p.held,
                  drain |-> p.drain, past |-> p.past]
      BY <2>4
    <3>2. /\ p.drain \in BOOLEAN /\ p.past \in BOOLEAN /\ p.call \in BOOLEAN
          /\ p.queue \in BOOLEAN /\ p.held \in BOOLEAN
      BY <2>2, <3>1
    <3>3. /\ p.call \/ p.queue \/ p.held \/ p.drain \/ p.past
          /\ p.call => ~p.queue /\ ~p.held /\ ~p.drain /\ ~p.past
          /\ p.queue => ~p.held /\ ~p.drain /\ ~p.past
          /\ p.held => ~p.drain /\ ~p.past
      BY <2>3, <3>1
    <3> QED
      BY <3>1, <3>2, <3>3, OneOfFive
  <2> QED
    BY <2>5
<1> QED
  BY <1>1, KeptHold, PTL

-----------------------------------------------------------------------------
(* What the agent is given.                                                 *)

\* The places of a turn, and the states of its driver, from which the agent
\* may still be given it.
NotYet(t) ==
    \/ Status(t) # "taken"
    \/ \E d \in Drains : drain[d].pc \in {"row", "begin"} /\ drain[d].turn = t
    \/ driver[t] \in {"spawned", "connecting"}

\* The agent is given a turn once at most, and then for good.
Given ==
    \A t \in Turns :
        /\ delivered[t] \in {0, 1}
        /\ NotYet(t) => delivered[t] = 0

LEMMA GivenInit == Init => Given
  BY DEF Init, Given

\* A task gets a turn in hand only from the queue, a driver only from a task.
Comes(t) ==
    /\ \A d \in Drains :
         drain'[d].pc \in {"row", "begin"} /\ drain'[d].turn = t =>
             \/ t \in ToSet(queue)
             \/ drain[d].pc \in {"row", "begin"} /\ drain[d].turn = t
    /\ driver'[t] \in {"spawned", "connecting"} =>
             \/ driver[t] \in {"spawned", "connecting"}
             \/ \E d \in Drains : At(d, "begin") /\ drain[d].turn = t

LEMMA DrainComes ==
    ASSUME TypeOK, NEW d \in Drains, DrainStep(d), NEW t \in Turns
    PROVE  Comes(t)
<1> USE DEF stateVars, turnVars, noticeVars, taskVars, outVars, sessionVars
<1>1. /\ drain \in [Drains -> DrainTask] /\ queue \in Seq(Turns)
      /\ driver \in [TurnIds -> DriverStates] /\ t \in TurnIds
  BY DEF TypeOK, DrainOK, QueueOK, OutOK, TurnIds
<1>2. CASE \/ DrainStart(d) \/ DrainTop(d) \/ DrainInner(d) \/ DrainAfter(d)
           \/ DrainFlag(d) \/ DrainLeft(d) \/ DrainFin(d) \/ DrainSignal(d)
  <2>1. /\ driver' = driver
        /\ \A e \in Drains \ {d} : drain'[e] = drain[e]
        /\ drain'[d].pc \notin {"row", "begin"}
    <3>1. CASE \/ DrainStart(d) \/ DrainTop(d) \/ DrainInner(d) \/ DrainAfter(d)
      BY <1>1, <3>1 DEF DrainStart, DrainTop, DrainInner, DrainAfter, Goto,
         DrainTask
    <3>2. CASE DrainFlag(d) \/ DrainLeft(d) \/ DrainFin(d) \/ DrainSignal(d)
      BY <1>1, <3>2 DEF DrainFlag, AfterFlag, DrainLeft, DrainFin, DrainSignal,
         Goto, DrainTask
    <3> QED
      BY <1>2, <3>1, <3>2
  <2> QED
    BY <2>1 DEF Comes
<1>3. CASE DrainPop(d) \/ DrainRow(d)
  <2>1. CASE DrainPop(d)
    <3>1. driver' = driver /\ \A e \in Drains \ {d} : drain'[e] = drain[e]
      BY <1>1, <2>1 DEF DrainPop, Goto
    <3>2. CASE queue = <<>>
      BY <1>1, <2>1, <3>1, <3>2 DEF DrainPop, Goto, DrainTask, Comes
    <3>3. CASE queue # <<>>
      BY <1>1, <2>1, <3>1, <3>3, TailSet DEF DrainPop, DrainTask, Comes
    <3> QED
      BY <3>2, <3>3
  <2>2. CASE DrainRow(d)
    BY <1>1, <2>2 DEF DrainRow, At, DrainTask, Comes
  <2> QED
    BY <1>3, <2>1, <2>2
<1>4. CASE DrainBegin(d)
  BY <1>1, <1>4 DEF DrainBegin, At, Goto, DrainTask, Comes, KnowsTurn
<1>5. CASE TurnStep(d) \/ SteerStep(d)
  <2>1. CASE TurnEnd(d)
    <3>1. /\ \A e \in Drains \ {d} : drain'[e] = drain[e]
          /\ drain'[d].pc \notin {"row", "begin"}
      BY <1>1, <2>1 DEF TurnEnd, OffDrain
    <3>2. \A u \in TurnIds : driver'[u] = driver[u] \/ driver'[u] = "closed"
      BY <1>1, <2>1 DEF TurnEnd, At, TypeOK, DrainOK, KnowsTurn
    <3> QED
      BY <1>1, <3>1, <3>2 DEF Comes
  <2>2. CASE ~TurnEnd(d)
    <3>1. GoesOn(d)
      BY <1>5, <2>2, MiddleGoesOn DEF TurnStep
    <3> QED
      BY <1>1, <3>1 DEF GoesOn, TurnPcs, Comes
  <2> QED
    BY <2>1, <2>2
<1>6. CASE NoticeStep(d)
  <2>1. driver' = driver /\ \A e \in Drains \ {d} : drain'[e] = drain[e]
    BY <1>1, <1>6 DEF NoticeStep, DrainPromo, DrainSlot, TakeNotice,
       PruneNotice, Goto
  <2>2. \/ drain'[d].pc \notin {"row", "begin"}
        \/ drain'[d].turn \in NoticeIds
    <3>1. CASE DrainPromo(d) \/ DrainSlot(d) \/ TakeNotice(d)
      BY <1>1, <3>1 DEF DrainPromo, DrainSlot, TakeNotice, Goto, DrainTask
    <3>2. CASE PruneNotice(d)
      BY <1>1, <3>2 DEF PruneNotice, DrainTask
    <3> QED
      BY <1>6, <3>1, <3>2 DEF NoticeStep
  <2> QED
    BY <2>1, <2>2, TurnAssumption DEF Comes
<1>7. CASE DrainRekick(d)
  <2> DEFINE r == [OffDrain EXCEPT !.pc = "start"]
             ds == [drain EXCEPT ![d] = OffDrain]
  <2>1. OffDrain.pc = "off" /\ r.pc = "start"
    BY DEF OffDrain
  <2>2. \A e \in Drains : ds[e] = drain[e] \/ ds[e] = OffDrain
    BY <1>1
  <2>3. /\ \A e \in Drains : drain'[e] = ds[e] \/ drain'[e] = r
        /\ driver' = driver
    BY <1>1, <1>7 DEF DrainRekick, KickDrain
  <2> QED
    BY <2>1, <2>2, <2>3 DEF Comes
<1> QED
  BY <1>2, <1>3, <1>4, <1>5, <1>6, <1>7 DEF DrainStep

LEMMA StepComes ==
    ASSUME TypeOK, [Next]_vars, NEW t \in Turns
    PROVE  Comes(t)
<1> USE DEF stateVars, turnVars, noticeVars, taskVars, outVars, sessionVars
<1>1. /\ drain \in [Drains -> DrainTask]
      /\ driver \in [TurnIds -> DriverStates] /\ t \in TurnIds
  BY DEF TypeOK, DrainOK, OutOK, TurnIds
<1>2. ASSUME NEW c \in Callers, CallStep(c) \/ Request(c)
      PROVE  Comes(t)
  <2>1. CASE KickCall(c)
    <3> DEFINE r == [OffDrain EXCEPT !.pc = "start"]
    <3>1. r.pc = "start"
      BY DEF OffDrain
    <3>2. /\ \A e \in Drains : drain'[e] = drain[e] \/ drain'[e] = r
          /\ driver' = driver
      BY <1>1, <2>1 DEF KickCall, KickDrain
    <3> QED
      BY <3>1, <3>2 DEF Comes
  <2>2. CASE ~KickCall(c)
    <3>1. UNCHANGED <<drain, driver>>
      BY <1>2, <2>2 DEF CallStep, PushTurn, SubmitInjected, SubmitRefused,
         SubmitRow, SubmitEnqueue, CancelRow, StopCaptured, ReleaseLatch,
         ReleaseClear, AbortAndDrain, ReleaseDispose, Request, Enqueue, Submit,
         CancelQueued, BeginEdit, Promote, Resubmit, Populate, PruneChild,
         Stop, PromoteNotice, Dismiss, ReleaseSweep
    <3> QED
      BY <3>1 DEF Comes
  <2> QED
    BY <2>1, <2>2
<1>3. ASSUME NEW u \in TurnIds, DriverStep(u)
      PROVE  Comes(t)
  <2>1. drain' = drain
    BY <1>3, DriversAlone
  <2>2. \/ driver'[t] = driver[t]
        \/ driver[t] = "spawned"
        \/ driver'[t] \notin {"spawned", "connecting"}
    <3>1. CASE t # u
      BY <1>1, <1>3, <3>1 DEF DriverStep, DriverConnect, DriverPrompt,
         DriverError, DriverResult, DriverQuit
    <3>2. CASE t = u /\ DriverConnect(u)
      BY <3>2 DEF DriverConnect
    <3>3. CASE t = u /\ ~DriverConnect(u)
      <4>1. PICK s \in {"prompted", "error", "result", "closed"} :
              driver' = [driver EXCEPT ![u] = s]
        BY <1>3, <3>3 DEF DriverStep, DriverPrompt, DriverError, DriverResult,
           DriverQuit
      <4> QED
        BY <1>1, <3>3, <4>1
    <3> QED
      BY <3>1, <3>2, <3>3
  <2> QED
    BY <2>1, <2>2 DEF Comes
<1>4. CASE UNCHANGED vars
  BY <1>4 DEF vars, Comes
<1> QED
  BY <1>2, <1>3, <1>4, DrainComes DEF Next

\* Of a turn that the agent may no longer be given, that stays so.
LEMMA NotYetBefore ==
    ASSUME TypeOK, SingleDrain, Kept, KeepsPlaces, [Next]_vars,
           NEW t \in Turns, NotYet(t)'
    PROVE  NotYet(t)
<1>1. OnePlace(t) /\ StatusIs(t) /\ StatusMoves(t) /\ Comes(t)
  BY StatusOf, StepComes DEF Kept, KeepsPlaces
<1>2. t \in ToSet(queue) => Status(t) # "taken"
  BY <1>1 DEF StatusIs
<1>3. CASE Status(t)' # "taken"
  BY <1>1, <1>3 DEF StatusMoves, NotYet
<1>4. CASE \E d \in Drains : drain'[d].pc \in {"row", "begin"}
                             /\ drain'[d].turn = t
  BY <1>1, <1>2, <1>4 DEF Comes, NotYet
<1>5. CASE driver'[t] \in {"spawned", "connecting"}
  BY <1>1, <1>5 DEF Comes, NotYet, At
<1> QED
  BY <1>3, <1>4, <1>5 DEF NotYet

\* A step that gives the agent turn t, once.
GivesOnce(t) ==
    /\ NotYet(t) /\ ~NotYet(t)'
    /\ delivered' = [delivered EXCEPT ![t] = @ + 1]
    /\ Status(t) \in {"waiting", "taken"}
    /\ \A u \in Turns \ {t} : Status(u)' = Status(u)

\* The steer of a client's own message reaches the agent.
LEMMA SubmitGives ==
    ASSUME TypeOK, Kept, KeepsPlaces, NEW c \in Callers, SubmitInjected(c)
    PROVE  \E t \in Turns : GivesOnce(t)
<1> USE DEF stateVars, turnVars, noticeVars, outVars, sessionVars
<1>1. PICK t \in Turns : t = call[c].turn
  BY DEF SubmitInjected, TypeOK, CallOK
<1>2. /\ call[c].pc = "steerRpc" /\ call'[c].pc = "steerRow"
      /\ call'[c].turn = t
      /\ delivered' = [delivered EXCEPT ![t] = @ + 1]
      /\ UNCHANGED <<drain, driver>>
  BY <1>1 DEF SubmitInjected, TypeOK, CallOK, ClientCall
<1>3. t \in CallTurns(call[c]) /\ t \in CallTurns(call'[c])
  BY <1>1, <1>2 DEF CallTurns, CallHandPcs
<1>4. OnePlace(t) /\ StatusIs(t) /\ OnePlace(t)' /\ StatusIs(t)'
  BY StatusOf DEF Kept, KeepsPlaces
<1>5. Status(t) = "waiting" /\ Status(t)' = "taken"
  BY <1>2, <1>3, <1>4 DEF StatusIs
<1>6. \A u \in Turns \ {t} : Status(u)' = Status(u)
  BY <1>5 DEF KeepsPlaces
<1>7. ~InHand(t) /\ ~Past(t)
  BY <1>3, <1>4 DEF OnePlace, InCall
<1>8. ~NotYet(t)'
  BY <1>2, <1>5, <1>7 DEF NotYet, InHand, DrainTurns, Past
<1> QED
  BY <1>2, <1>5, <1>6, <1>8 DEF NotYet, GivesOnce

\* The steer of the queue's head reaches the agent.
LEMMA SteerGives ==
    ASSUME TypeOK, SingleDrain, Kept, KeepsPlaces,
           NEW d \in Drains, SteerInjected(d)
    PROVE  \E t \in Turns : GivesOnce(t)
<1> USE DEF stateVars, turnVars, noticeVars, outVars, sessionVars
<1>1. PICK t \in Turns : t = drain[d].head
  BY DEF SteerInjected, At, TypeOK, DrainOK, KnowsTurn
<1>2. /\ drain[d].pc = "steerRpc" /\ drain'[d].pc = "steerRow"
      /\ drain'[d].head = t /\ driver' = driver
      /\ \A e \in Drains \ {d} : drain'[e] = drain[e]
      /\ delivered' = [delivered EXCEPT ![t] = @ + 1]
  BY <1>1 DEF SteerInjected, Goto, At, TypeOK, DrainOK, DrainTask
<1>3. t \in ToSet(queue) /\ t \in DrainTurns(drain'[d])
  BY <1>1, <1>2 DEF Kept, SteersHead, At, DrainTurns
<1>4. OnePlace(t) /\ StatusIs(t) /\ OnePlace(t)' /\ StatusIs(t)'
  BY StatusOf DEF Kept, KeepsPlaces
<1>5. Status(t) = "waiting" /\ Status(t)' = "taken"
  BY <1>3, <1>4 DEF StatusIs, InHand
<1>6. \A u \in Turns \ {t} : Status(u)' = Status(u)
  BY <1>5 DEF KeepsPlaces
<1>7. ~InHand(t) /\ ~Past(t)
  BY <1>3, <1>4 DEF OnePlace
<1>8. ~NotYet(t)'
  BY <1>2, <1>5, <1>7 DEF NotYet, InHand, DrainTurns, Past
<1> QED
  BY <1>2, <1>5, <1>6, <1>8 DEF NotYet, GivesOnce

\* The prompt of a turn reaches the agent.
LEMMA PromptGives ==
    ASSUME TypeOK, Kept, KeepsPlaces, NEW t \in Turns, DriverPrompt(t)
    PROVE  GivesOnce(t)
<1> USE DEF stateVars, turnVars, noticeVars, outVars, sessionVars
<1>1. /\ driver[t] = "connecting" /\ driver' = [driver EXCEPT ![t] = "prompted"]
      /\ delivered' = [delivered EXCEPT ![t] = @ + 1]
      /\ UNCHANGED <<queue, held, call, drain, accepted, rows>>
  BY DEF DriverPrompt
<1>2. driver'[t] = "prompted"
      /\ \A u \in Turns \ {t} : driver'[u] = driver[u]
  BY <1>1 DEF TypeOK, OutOK, TurnIds
<1>3. OnePlace(t) /\ StatusIs(t) /\ OnePlace(t)' /\ StatusIs(t)'
  BY StatusOf DEF Kept, KeepsPlaces
<1>4. Past(t) /\ ~InHand(t) /\ "cancelled" \notin rows[t]
  BY <1>1, <1>3 DEF OnePlace, Past, InHand
<1>5. Status(t) = "taken" /\ Status(t)' = "taken"
  BY <1>1, <1>2, <1>3, <1>4 DEF StatusIs, Past
<1>6. \A u \in Turns \ {t} : Status(u)' = Status(u)
  <2>1. Only({t})
    BY <1>1, <1>2 DEF Only
  <2> QED
    BY <2>1, Stays DEF Kept
<1>7. ~NotYet(t)'
  BY <1>1, <1>2, <1>4, <1>5 DEF NotYet, InHand, DrainTurns
<1> QED
  BY <1>1, <1>5, <1>6, <1>7 DEF NotYet, GivesOnce

\* No other step gives the agent anything.
LEMMA GivesNothing ==
    ASSUME ~SteerMayTimeOut, [Next]_vars,
           \A c \in Callers : ~SubmitInjected(c),
           \A d \in Drains : ~SteerInjected(d),
           \A t \in Turns : ~DriverPrompt(t)
    PROVE  delivered' = delivered
<1> USE DEF stateVars, turnVars, noticeVars, taskVars, outVars, sessionVars
<1>1. ASSUME NEW c \in Callers, CallStep(c) \/ Request(c)
      PROVE  delivered' = delivered
  BY <1>1 DEF CallStep, PushTurn, KickCall, SubmitRefused,
     SubmitRow, SubmitEnqueue, CancelRow, StopCaptured, ReleaseLatch,
     ReleaseClear, AbortAndDrain, ReleaseDispose, Request, Enqueue, Submit,
     CancelQueued, BeginEdit, Promote, Resubmit, Populate, PruneChild,
     Stop, PromoteNotice, Dismiss, ReleaseSweep
<1>2. ASSUME NEW u \in TurnIds, DriverStep(u)
      PROVE  delivered' = delivered
  BY <1>2 DEF DriverStep, DriverConnect, DriverPrompt, DriverError,
     DriverResult, DriverQuit
<1>3. ASSUME NEW d \in Drains, DrainStep(d)
      PROVE  delivered' = delivered
  BY <1>3 DEF DrainStep, DrainStart, DrainTop, DrainInner, DrainPop, DrainRow,
     DrainBegin, TurnStep, TurnStopped, TurnWoken, TurnEvent, TurnClosed,
     TurnEnd, SteerStep, SteerCheck, SteerRow, SteerTooEarly, SteerFailed,
     DrainAfter, DrainFlag, DrainLeft, NoticeStep, DrainPromo, DrainSlot,
     TakeNotice, PruneNotice, DrainFin, DrainSignal, DrainRekick
<1>4. CASE UNCHANGED vars
  BY <1>4 DEF vars
<1> QED
  BY <1>1, <1>2, <1>3, <1>4 DEF Next

\* What a step does to the agent's count of each turn.
LEMMA Gives ==
    ASSUME "release" \notin Ops, ~SteerMayTimeOut, TypeOK, SingleDrain, Kept,
           [Next]_vars
    PROVE  /\ KeepsPlaces
           /\ \A t \in Turns : NotYet(t)' => NotYet(t)
           /\ delivered' = delivered \/ \E t \in Turns : GivesOnce(t)
<1>1. KeepsPlaces
  BY KeptStep
<1>2. \A t \in Turns : NotYet(t)' => NotYet(t)
  BY <1>1, NotYetBefore
<1>3. delivered' = delivered \/ \E t \in Turns : GivesOnce(t)
  BY <1>1, SubmitGives, SteerGives, PromptGives, GivesNothing
<1> QED
  BY <1>1, <1>2, <1>3

LEMMA GivenStep ==
    ASSUME "release" \notin Ops, ~SteerMayTimeOut, TypeOK, SingleDrain, Kept,
           Given, [Next]_vars
    PROVE  Given'
<1>1. /\ \A t \in Turns : NotYet(t)' => NotYet(t)
      /\ delivered' = delivered \/ \E t \in Turns : GivesOnce(t)
  BY Gives
<1>2. CASE delivered' = delivered
  BY <1>1, <1>2 DEF Given
<1>3. ASSUME NEW t \in Turns, GivesOnce(t)
      PROVE  Given'
  <2>1. delivered[t] = 0
    BY <1>3 DEF GivesOnce, Given
  <2>2. delivered'[t] = 1 /\ \A u \in Turns \ {t} : delivered'[u] = delivered[u]
    BY <1>3, <2>1 DEF GivesOnce, TypeOK, OutOK
  <2>3. ASSUME NEW u \in Turns
        PROVE  delivered'[u] \in {0, 1} /\ (NotYet(u)' => delivered'[u] = 0)
    BY <1>1, <1>3, <2>2 DEF GivesOnce, Given
  <2> QED
    BY <2>3 DEF Given
<1> QED
  BY <1>1, <1>2, <1>3

LEMMA GivenHold ==
    ASSUME "release" \notin Ops, ~SteerMayTimeOut PROVE Spec => []Given
<1>1. TypeOK /\ SingleDrain /\ Kept /\ Given /\ [Next]_vars => Given'
  BY GivenStep
<1> QED
  BY <1>1, GivenInit, KeptHold, TypeCorrect, SingleOwner, PTL DEF Spec

\* As long as no steer reaches an agent that answers too late, the agent is
\* given each message once at most: a head that was steered does not run again,
\* and neither does a message steered straight into the running turn.
THEOREM GivenOnce ==
    ASSUME "release" \notin Ops, ~SteerMayTimeOut
    PROVE  Spec => []DeliveredAtMostOnce
<1>1. Given => DeliveredAtMostOnce
  BY DEF Given, DeliveredAtMostOnce
<1> QED
  BY <1>1, GivenHold, PTL

-----------------------------------------------------------------------------
(* The refinement.                                                          *)

Statuses == [t \in Turns |-> Status(t)]

\* One turn's status changes.
LEMMA OneStatus ==
    ASSUME NEW t \in Turns, \A u \in Turns \ {t} : Status(u)' = Status(u)
    PROVE  Statuses' = [Statuses EXCEPT ![t] = Status(t)']
<1> DEFINE s == [u \in Turns |-> Status(u)']
<1>1. Statuses' = s
  BY DEF Statuses
<1>2. s = [Statuses EXCEPT ![t] = Status(t)']
  BY DEF Statuses
<1> QED
  BY <1>1, <1>2

LEMMA LedgerStep ==
    ASSUME "release" \notin Ops, ~SteerMayTimeOut, TypeOK, SingleDrain, Kept,
           Given, [Next]_vars
    PROVE  [Ledger!LedgerNext]_<<Statuses, delivered>>
<1>1. /\ KeepsPlaces
      /\ delivered' = delivered \/ \E t \in Turns : GivesOnce(t)
  BY Gives
<1>2. ASSUME NEW t \in Turns, GivesOnce(t)
      PROVE  Ledger!Give(t)
  <2>1. /\ delivered[t] = 0 /\ Status(t)' = "taken"
        /\ Statuses[t] \in {"waiting", "taken"}
    BY <1>2 DEF GivesOnce, Given, NotYet, Statuses
  <2>2. Statuses' = [Statuses EXCEPT ![t] = "taken"]
    BY <1>2, <2>1, OneStatus DEF GivesOnce
  <2>3. delivered' = [delivered EXCEPT ![t] = 1]
    BY <1>2, <2>1 DEF GivesOnce
  <2> QED
    BY <2>1, <2>2, <2>3 DEF Ledger!Give, Statuses
<1>3. ASSUME NEW t \in Turns, Status(t)' # Status(t), delivered' = delivered
      PROVE  \/ Ledger!Accept(t) \/ Ledger!Hold(t) \/ Ledger!PutBack(t)
             \/ Ledger!Withdraw(t) \/ Ledger!Take(t)
  <2>1. Statuses[t] = Status(t)
    BY DEF Statuses
  <2>2. Statuses' = [Statuses EXCEPT ![t] = Status(t)']
    BY <1>1, <1>3, OneStatus DEF KeepsPlaces
  <2>3. <<Status(t), Status(t)'>> \in
          {<<"new", "waiting">>, <<"waiting", "editing">>,
           <<"editing", "waiting">>, <<"waiting", "withdrawn">>,
           <<"editing", "withdrawn">>, <<"waiting", "taken">>}
    BY <1>1, <1>3 DEF KeepsPlaces, StatusMoves
  <2>4. ASSUME NEW from, NEW to, Status(t) = from, Status(t)' = to
        PROVE  Ledger!Move(t, from, to)
    BY <2>1, <2>2, <2>4 DEF Ledger!Move, Statuses
  <2> QED
    BY <1>3, <2>3, <2>4 DEF Ledger!Accept, Ledger!Hold, Ledger!PutBack,
       Ledger!Withdraw, Ledger!Take
<1>4. CASE delivered' = delivered /\ \A t \in Turns : Status(t)' = Status(t)
  <2>1. Statuses' = Statuses
    BY <1>4 DEF Statuses
  <2> QED
    BY <1>4, <2>1
<1> QED
  BY <1>1, <1>2, <1>3, <1>4 DEF Ledger!LedgerNext

LEMMA LedgerStart == Init => Ledger!LedgerInit
<1> SUFFICES ASSUME Init
             PROVE  Ledger!LedgerInit
  OBVIOUS
<1>1. \A t \in Turns : Status(t) = "new"
  BY DEF Init, Status
<1> QED
  BY <1>1 DEF Init, Ledger!LedgerInit

\* The engine implements the ledger: from its first call to its last, each step
\* of a client, of the drain or of a driver is a step of one message's ledger,
\* or none, unless the session is released or a steer is answered too late.
THEOREM EngineImplementsLedger ==
    ASSUME "release" \notin Ops, ~SteerMayTimeOut
    PROVE  Spec => ImplementsLedger
<1>1. TypeOK /\ SingleDrain /\ Kept /\ Given /\ [Next]_vars
        => [Ledger!LedgerNext]_<<Statuses, delivered>>
  BY LedgerStep
<1>2. Spec => [](TypeOK /\ SingleDrain /\ Kept /\ Given)
  BY TypeCorrect, SingleOwner, KeptHold, GivenHold, PTL
<1> QED
  BY <1>1, <1>2, LedgerStart, PTL
  DEF Spec, ImplementsLedger, Ledger!LedgerSpec, Statuses

-----------------------------------------------------------------------------
(* Comments go with their message or back to the panel, not both.           *)

\* Comments go with a message that is not steered; once they are back in the
\* panel, the message that still carries them has been withdrawn.
Carried ==
    /\ carries \subseteq accepted \cap ReviewTurns
    /\ \A c \in Callers : call[c].pc \in {"steerRpc", "steerRow", "enqueue"} =>
         call[c].turn \notin ReviewTurns
    /\ \A t \in Turns \ accepted : delivered[t] = 0 /\ reports[t] = {}
    /\ \A t \in carries :
         /\ NotYet(t) => delivered[t] = 0
         /\ "cancelled" \in reports[t] => "cancelled" \in rows[t]

\* What a step does to what is carried, and to what was said of it.
CarriedMoves ==
    /\ accepted \subseteq accepted'
    /\ carries' \subseteq carries \cup ((accepted' \ accepted) \cap ReviewTurns)
    /\ \A t \in Turns : rows[t] \subseteq rows'[t]
    /\ \A t \in Turns :
         \/ reports'[t] = reports[t]
         \/ /\ t \in carries
            /\ "cancelled" \in reports'[t] =>
                 \/ "cancelled" \in reports[t]
                 \/ t \notin carries'
                 \/ "cancelled" \in rows'[t]

LEMMA CarriedDrain ==
    ASSUME TypeOK, Kept, NEW d \in Drains, DrainStep(d)
    PROVE  CarriedMoves
<1> USE DEF stateVars, turnVars, noticeVars, taskVars, outVars, sessionVars
<1>1. /\ rows \in [Turns -> SUBSET {"user", "cancelled"}] /\ ~released
      /\ carries \subseteq Turns
      /\ reports \in [Turns -> SUBSET {"persisted", "cancelled"}]
  BY DEF TypeOK, OutOK, QueueOK, Kept, Unreleased
<1>2. CASE DrainRow(d)
  <2>1. PICK t \in Turns, ok \in BOOLEAN :
          /\ rows' = IF ok THEN WithRow(t, "user") ELSE rows
          /\ reports' = Report({t}, IF ok THEN "persisted" ELSE "cancelled")
          /\ carries' = WithoutReview(t, ok)
    BY <1>2 DEF DrainRow, At, TypeOK, DrainOK, KnowsTurn
  <2>2. accepted' = accepted
    BY <1>2 DEF DrainRow
  <2>3. carries' \subseteq carries /\ (~ok => t \notin carries')
    BY <2>1 DEF WithoutReview
  <2>4. \A u \in Turns : rows[u] \subseteq rows'[u]
    BY <1>1, <2>1 DEF WithRow
  <2>5. \A u \in Turns : \/ reports'[u] = reports[u]
                         \/ /\ u \in carries /\ u = t
                            /\ ok => reports'[u] = reports[u] \cup {"persisted"}
    BY <2>1 DEF Report
  <2> QED
    BY <2>2, <2>3, <2>4, <2>5 DEF CarriedMoves
<1>3. CASE SteerRow(d)
  <2>1. /\ UNCHANGED <<accepted, carries, reports>>
        /\ \A u \in Turns : rows[u] \subseteq rows'[u]
    BY <1>1, <1>3 DEF SteerRow, WithRow
  <2> QED
    BY <2>1 DEF CarriedMoves
<1>4. CASE ~DrainRow(d) /\ ~SteerRow(d)
  <2>1. UNCHANGED <<carries, reports, rows>>
    BY <1>4 DEF DrainStep, DrainStart, DrainTop, DrainInner, DrainPop,
       DrainBegin, TurnStep, TurnStopped, TurnWoken, TurnEvent, TurnClosed,
       TurnEnd, SteerStep, SteerCheck, SteerInjected, SteerTooEarly,
       SteerFailed, DrainAfter, DrainFlag, DrainLeft, NoticeStep, DrainPromo,
       DrainSlot, TakeNotice, PruneNotice, DrainFin, DrainSignal, DrainRekick
  <2>2. accepted \subseteq accepted'
    <3>1. CASE PruneNotice(d)
      BY <3>1 DEF PruneNotice
    <3>2. CASE ~PruneNotice(d)
      BY <1>4, <3>2 DEF DrainStep, DrainStart, DrainTop, DrainInner, DrainPop,
         DrainBegin, TurnStep, TurnStopped, TurnWoken, TurnEvent, TurnClosed,
         TurnEnd, SteerStep, SteerCheck, SteerInjected, SteerTooEarly,
         SteerFailed, DrainAfter, DrainFlag, DrainLeft, NoticeStep, DrainPromo,
         DrainSlot, TakeNotice, DrainFin, DrainSignal, DrainRekick
    <3> QED
      BY <3>1, <3>2
  <2> QED
    BY <2>1, <2>2 DEF CarriedMoves
<1> QED
  BY <1>2, <1>3, <1>4

LEMMA CarriedClient ==
    ASSUME "release" \notin Ops, TypeOK, Kept, NEW c \in Callers,
           CallStep(c) \/ Request(c)
    PROVE  CarriedMoves
<1> USE DEF stateVars, turnVars, noticeVars, taskVars, outVars, sessionVars
<1>1. /\ rows \in [Turns -> SUBSET {"user", "cancelled"}] /\ ~released
      /\ carries \subseteq Turns
      /\ reports \in [Turns -> SUBSET {"persisted", "cancelled"}]
  BY DEF TypeOK, OutOK, QueueOK, Kept, Unreleased
<1>2. CASE PushTurn(c)
  <2>1. UNCHANGED <<accepted, rows>> /\ carries' = carries
        /\ reports' = Report({}, "cancelled")
    BY <1>1, <1>2 DEF PushTurn, Stranded
  <2>2. \A u \in Turns : reports'[u] = reports[u]
    BY <2>1 DEF Report
  <2> QED
    BY <2>1, <2>2 DEF CarriedMoves
<1>3. CASE SubmitRow(c)
  <2>1. /\ UNCHANGED <<accepted, carries, reports>>
        /\ \A u \in Turns : rows[u] \subseteq rows'[u]
    BY <1>1, <1>3 DEF SubmitRow, WithRow
  <2> QED
    BY <2>1 DEF CarriedMoves
<1>4. CASE CancelRow(c)
  <2>1. PICK t \in Turns : t = call[c].turn
    BY <1>4 DEF CancelRow, TypeOK, CallOK
  <2>2. /\ UNCHANGED <<accepted, carries>>
        /\ \A u \in Turns : rows[u] \subseteq rows'[u]
        /\ "cancelled" \in rows'[t]
    BY <1>1, <1>4, <2>1 DEF CancelRow, WithRow
  <2>3. \A u \in Turns : reports'[u] = reports[u] \/ (u \in carries /\ u = t)
    BY <1>4, <2>1 DEF CancelRow, Report
  <2> QED
    BY <2>2, <2>3 DEF CarriedMoves
<1>5. ASSUME NEW t \in Turns, NEW keep \in BOOLEAN, Resubmit(c, t, keep)
      PROVE  CarriedMoves
  <2>1. PICK dropped \in {{}, {t} \cap carries} :
          /\ carries' = carries \ dropped
          /\ reports' = Report(dropped, "cancelled")
    BY <1>5 DEF Resubmit
  <2>2. UNCHANGED <<accepted, rows>>
    BY <1>5 DEF Resubmit
  <2>3. \A u \in Turns : reports'[u] = reports[u] \/ u \in dropped \cap carries
    BY <2>1 DEF Report
  <2> QED
    BY <2>1, <2>2, <2>3 DEF CarriedMoves
<1>6. ASSUME NEW t \in Turns, Enqueue(c, t) \/ Submit(c, t)
      PROVE  CarriedMoves
  <2>1. UNCHANGED <<rows, reports>>
    BY <1>6 DEF Enqueue, Submit
  <2>2. /\ accepted' = accepted \cup {t} /\ t \notin accepted
        /\ carries' \subseteq carries \cup ({t} \cap ReviewTurns)
    BY <1>6 DEF Enqueue, Submit, Fresh
  <2> QED
    BY <2>1, <2>2 DEF CarriedMoves
<1>7. CASE /\ UNCHANGED <<accepted, carries, reports, rows>>
  BY <1>7 DEF CarriedMoves
<1>8. CASE CallStep(c)
  <2>1. ~ReleaseLatch(c) /\ ~ReleaseClear(c) /\ ~AbortAndDrain(c)
        /\ ~ReleaseDispose(c)
    BY DEF Kept, Unreleased, ReleaseLatch, ReleaseClear, AbortAndDrain,
       ReleaseDispose
  <2>2. CASE ~PushTurn(c) /\ ~SubmitRow(c) /\ ~CancelRow(c)
    <3>1. UNCHANGED <<accepted, carries, reports, rows>>
      BY <1>8, <2>1, <2>2 DEF CallStep, KickCall, SubmitInjected,
         SubmitRefused, SubmitEnqueue, StopCaptured
    <3> QED
      BY <1>7, <3>1
  <2> QED
    BY <1>2, <1>3, <1>4, <2>2
<1>9. CASE Request(c)
  <2>1. ~ReleaseSweep(c)
    BY DEF ReleaseSweep, Starts
  <2>2. ASSUME NEW t \in Turns,
               CancelQueued(c, t) \/ BeginEdit(c, t) \/ Promote(c, t)
        PROVE  CarriedMoves
    BY <1>7, <2>2 DEF CancelQueued, BeginEdit, Promote
  <2>3. ASSUME NEW k \in Children, Populate(c, k) \/ PruneChild(c, k)
        PROVE  CarriedMoves
    BY <1>7, <2>3 DEF Populate, PruneChild
  <2>4. CASE Stop(c) \/ PromoteNotice(c) \/ Dismiss(c)
    BY <1>7, <2>4 DEF Stop, PromoteNotice, Dismiss
  <2> QED
    BY <1>5, <1>6, <1>9, <2>1, <2>2, <2>3, <2>4 DEF Request
<1> QED
  BY <1>8, <1>9

\* What was sent with comments reaches the agent as a turn of its own.
LEMMA CarriedGiven ==
    ASSUME TypeOK, Review, Carried, [Next]_vars,
           NEW t \in Turns, t \in carries \/ t \notin accepted
    PROVE  delivered'[t] = delivered[t] \/ DriverPrompt(t)
<1> USE DEF stateVars, turnVars, noticeVars, taskVars, outVars, sessionVars
<1>1. delivered \in [Turns -> Nat]
  BY DEF TypeOK, OutOK
<1>2. ASSUME NEW c \in Callers, SubmitInjected(c)
      PROVE  delivered'[t] = delivered[t]
  <2>1. call[c].turn # t
    BY <1>2 DEF SubmitInjected, Carried, Review, KnownTurns, CallHandPcs
  <2> QED
    BY <1>1, <1>2, <2>1 DEF SubmitInjected
<1>3. ASSUME NEW d \in Drains, SteerInjected(d) \/ SteerFailed(d)
      PROVE  delivered'[t] = delivered[t]
  <2>1. drain[d].head # t
    BY <1>3 DEF SteerInjected, SteerFailed, Review, SteeredPlain
  <2> QED
    BY <1>1, <1>3, <2>1 DEF SteerInjected, SteerFailed
<1>4. ASSUME NEW u \in TurnIds, DriverStep(u), ~DriverPrompt(t)
      PROVE  delivered'[t] = delivered[t]
  BY <1>1, <1>4 DEF DriverStep, DriverConnect, DriverPrompt, DriverError,
     DriverResult, DriverQuit
<1>5. ASSUME NEW c \in Callers, CallStep(c) \/ Request(c), ~SubmitInjected(c)
      PROVE  delivered' = delivered
  BY <1>5 DEF CallStep, PushTurn, KickCall, SubmitRefused,
     SubmitRow, SubmitEnqueue, CancelRow, StopCaptured, ReleaseLatch,
     ReleaseClear, AbortAndDrain, ReleaseDispose, Request, Enqueue, Submit,
     CancelQueued, BeginEdit, Promote, Resubmit, Populate, PruneChild,
     Stop, PromoteNotice, Dismiss, ReleaseSweep
<1>6. ASSUME NEW d \in Drains, DrainStep(d), ~SteerInjected(d), ~SteerFailed(d)
      PROVE  delivered' = delivered
  BY <1>6 DEF DrainStep, DrainStart, DrainTop, DrainInner, DrainPop, DrainRow,
     DrainBegin, TurnStep, TurnStopped, TurnWoken, TurnEvent, TurnClosed,
     TurnEnd, SteerStep, SteerCheck, SteerRow, SteerTooEarly,
     DrainAfter, DrainFlag, DrainLeft, NoticeStep, DrainPromo, DrainSlot,
     TakeNotice, PruneNotice, DrainFin, DrainSignal, DrainRekick
<1>7. CASE UNCHANGED vars
  BY <1>7 DEF vars
<1> QED
  BY <1>2, <1>3, <1>4, <1>5, <1>6, <1>7 DEF Next

\* A call that steers, or falls back to the queue, has no comments in hand.
LEMMA CarriedCalls ==
    ASSUME TypeOK, Carried, NEW c \in Callers, CallStep(c) \/ Request(c)
    PROVE  \A b \in Callers :
             call'[b].pc \in {"steerRpc", "steerRow", "enqueue"} =>
                 call'[b].turn \notin ReviewTurns
<1> USE DEF stateVars, turnVars, noticeVars, taskVars, outVars, sessionVars
<1> DEFINE S == {"steerRpc", "steerRow", "enqueue"}
<1>1. \A b \in Callers \ {c} : call'[b] = call[b]
  BY CallsAlone
<1>2. call \in [Callers -> ClientCall]
  BY DEF TypeOK, CallOK
<1>3. call'[c].pc \in S => call'[c].turn \notin ReviewTurns
  <2>1. CASE CallStep(c)
    <3>1. \/ call'[c].pc \notin S
          \/ call[c].pc \in S /\ call'[c].turn = call[c].turn
      BY <1>2, <2>1 DEF CallStep, PushTurn, KickCall, SubmitInjected,
         SubmitRefused, SubmitRow, SubmitEnqueue, CancelRow, StopCaptured,
         ReleaseLatch, ReleaseClear, AbortAndDrain, ReleaseDispose, Return,
         IdleCall, ClientCall
    <3> QED
      BY <3>1 DEF Carried
  <2>2. ASSUME NEW t \in Turns, Submit(c, t)
        PROVE  call'[c].pc \in S => call'[c].turn \notin ReviewTurns
    BY <1>2, <2>2 DEF Submit
  <2>3. ASSUME NEW t \in Turns,
               Enqueue(c, t) \/ CancelQueued(c, t) \/ BeginEdit(c, t)
                 \/ Promote(c, t)
        PROVE  call'[c].pc \notin S
    BY <1>2, <2>3 DEF Enqueue, CancelQueued, BeginEdit, Promote, Starts
  <2>4. ASSUME NEW t \in Turns, NEW keep \in BOOLEAN, Resubmit(c, t, keep)
        PROVE  call'[c].pc \notin S
    BY <1>2, <2>4 DEF Resubmit, ClientCall
  <2>5. ASSUME NEW k \in Children, Populate(c, k) \/ PruneChild(c, k)
        PROVE  call'[c].pc \notin S
    BY <1>2, <2>5 DEF Populate, PruneChild, Starts, ClientCall
  <2>6. CASE Stop(c) \/ PromoteNotice(c) \/ Dismiss(c) \/ ReleaseSweep(c)
    BY <1>2, <2>6 DEF Stop, PromoteNotice, Dismiss, ReleaseSweep, Starts,
       ClientCall, Carried
  <2> QED
    BY <2>1, <2>2, <2>3, <2>4, <2>5, <2>6 DEF Request
<1> QED
  BY <1>1, <1>3 DEF Carried

LEMMA CarriedStep ==
    ASSUME "release" \notin Ops, TypeOK, SingleDrain, Kept, Review, Carried,
           [Next]_vars
    PROVE  Carried'
<1> USE DEF stateVars, turnVars, noticeVars, taskVars, outVars, sessionVars
<1>1. CarriedMoves
  <2>1. ASSUME NEW u \in TurnIds, DriverStep(u)
        PROVE  CarriedMoves
    <3>1. UNCHANGED <<accepted, carries, reports, rows>>
      BY <2>1 DEF DriverStep, DriverConnect, DriverPrompt, DriverError,
         DriverResult, DriverQuit
    <3> QED
      BY <3>1 DEF CarriedMoves
  <2>2. CASE UNCHANGED vars
    BY <2>2 DEF vars, CarriedMoves
  <2> QED
    BY <2>1, <2>2, CarriedDrain, CarriedClient DEF Next
<1>2. \A t \in Turns : t \in carries \/ t \notin accepted =>
        delivered'[t] = delivered[t] \/ DriverPrompt(t)
  BY CarriedGiven
<1>3. KeepsPlaces /\ Kept'
  BY KeptStep DEF KeepsPlaces
<1>4. carries' \subseteq accepted' \cap ReviewTurns
  BY <1>1 DEF Carried, CarriedMoves
<1>5. \A c \in Callers : call'[c].pc \in {"steerRpc", "steerRow", "enqueue"} =>
         call'[c].turn \notin ReviewTurns
  <2>1. CASE call' = call
    BY <2>1 DEF Carried
  <2>2. CASE call' # call
    <3>1. \E c \in Callers : CallStep(c) \/ Request(c)
      BY <2>2, DrainsAlone, DriversAlone DEF Next, vars
    <3> QED
      BY <3>1, CarriedCalls
  <2> QED
    BY <2>1, <2>2
<1>6. ASSUME NEW t \in Turns \ accepted
      PROVE  ~DriverPrompt(t)
  <2>1. driver[t] = "none"
    BY <1>6 DEF Kept, OnePlace, Past
  <2> QED
    BY <2>1 DEF DriverPrompt
<1>7. \A t \in Turns \ accepted' : delivered'[t] = 0 /\ reports'[t] = {}
  BY <1>1, <1>2, <1>6 DEF Carried, CarriedMoves
<1>8. ASSUME NEW t \in carries'
      PROVE  /\ NotYet(t)' => delivered'[t] = 0
             /\ "cancelled" \in reports'[t] => "cancelled" \in rows'[t]
  <2>1. t \in Turns
    BY <1>1, <1>8, TurnAssumption DEF CarriedMoves, TypeOK, QueueOK
  <2>2. CASE t \in carries
    <3>1. "cancelled" \in reports'[t] => "cancelled" \in rows'[t]
      BY <1>1, <1>8, <2>1, <2>2 DEF Carried, CarriedMoves
    <3>2. CASE DriverPrompt(t)
      BY <1>3, <2>1, <3>1, <3>2, PromptGives DEF GivesOnce
    <3>3. CASE delivered'[t] = delivered[t]
      BY <1>3, <2>1, <2>2, <3>1, <3>3, NotYetBefore DEF Carried
    <3> QED
      BY <1>2, <2>1, <2>2, <3>2, <3>3
  <2>3. CASE t \notin carries
    <3>1. t \notin accepted
      BY <1>1, <1>8, <2>3 DEF CarriedMoves
    <3>2. delivered'[t] = 0 /\ reports'[t] = {}
      BY <1>1, <1>2, <1>6, <2>1, <2>3, <3>1 DEF Carried, CarriedMoves
    <3> QED
      BY <3>2
  <2> QED
    BY <2>2, <2>3
<1> QED
  BY <1>4, <1>5, <1>7, <1>8 DEF Carried

\* Comments that went to the agent with a message are not also back in the
\* panel, as long as nobody releases the session: a message is withdrawn, or
\* its comments dropped, only while the agent cannot get it any more.
THEOREM CommentsInOnePlace ==
    ASSUME "release" \notin Ops PROVE Spec => []NotBothPanelAndAgent
<1>1. Init => Carried
  BY DEF Init, Carried, IdleCall
<1>2. TypeOK /\ SingleDrain /\ Kept /\ Review /\ Carried /\ [Next]_vars
        => Carried'
  BY CarriedStep
<1>3. TypeOK /\ Kept /\ Carried => NotBothPanelAndAgent
  <2> SUFFICES ASSUME TypeOK, Kept, Carried, NEW t \in carries,
                      delivered[t] > 0, "cancelled" \in reports[t]
               PROVE  FALSE
    BY DEF NotBothPanelAndAgent
  <2>1. t \in Turns /\ "cancelled" \in rows[t] /\ ~NotYet(t)
    BY DEF Carried, TypeOK, QueueOK
  <2>2. StatusIs(t) /\ Past(t)
    BY <2>1, StatusOf DEF Kept, Past
  <2> QED
    BY <2>1, <2>2 DEF StatusIs, NotYet
<1> QED
  BY <1>1, <1>2, <1>3, KeptHold, ReviewHold, TypeCorrect, SingleOwner, PTL
  DEF Spec

-----------------------------------------------------------------------------
(* A stop parks the notice.                                                 *)

\* Nothing but a drain task takes turns out of the queue, and nobody asks for
\* the notice.
Quiescent == Ops \cap {"cancel", "edit", "promoteNotice", "release"} = {}

\* What drain task d knows of a stop of the turn it has, or of its last one:
\* the abort flag is up until the flag is read, or a turn waits that will run.
Parks(d) ==
    LET r == drain[d]
    IN /\ r.pc # "promo"
       /\ r.pc = "begin" =>
            driver[r.turn] = "none" /\ r.turn \in Turns \cup accepted
       /\ r.pc \in TurnPcs =>
            driver[r.turn] # "none" /\ (r.turn \in cancelled => aborted)
       /\ r.pc \in {"top", "inner", "pop"} =>
            (r.prev \in cancelled => aborted \/ queue # <<>>)
       /\ r.pc \in {"after", "flag"} => (r.prev \in cancelled => aborted)
       /\ r.pc \in {"start", "slot", "take", "prune"} => r.prev \notin cancelled

Parked ==
    /\ ~promoted
    /\ \A t \in cancelled : driver[t] # "none"
    /\ \A n \in NoticeIds \ accepted : driver[n] = "none"
    /\ \A d \in Drains : Parks(d)

\* A step that leaves the task in the loop where it is, or takes it out, gives
\* no turn away and cancels only what is active, with the abort flag.
ParkStays ==
    /\ \A d \in Drains :
         \/ drain'[d] = drain[d]
         \/ drain'[d].pc \in {"off", "fin", "signal", "rekick"}
         \/ drain'[d].pc = "start" /\ drain'[d].prev = NoTurn
    /\ \/ UNCHANGED <<cancelled, aborted>>
       \/ /\ active # NoTurn /\ aborted'
          /\ cancelled' = cancelled \cup {active}
    /\ queue # <<>> => queue' # <<>>
    /\ \A t \in TurnIds : driver'[t] = "none" <=> driver[t] = "none"
    /\ promoted' => promoted
    /\ accepted \subseteq accepted'

LEMMA ParkKept ==
    ASSUME TypeOK, TypeOK', SingleDrain, Reins, Parked, ParkStays
    PROVE  Parked'
<1> USE DEF Parked, ParkStays
<1>1. active # NoTurn => driver[active] # "none"
  BY DEF Reins, ActiveRuns, Runs, Parks
<1>2. /\ cancelled \subseteq TurnIds /\ cancelled' \subseteq TurnIds
      /\ NoticeIds \subseteq TurnIds /\ NoTurn \notin TurnIds
  BY TurnAssumption DEF TypeOK, TurnOK, TurnIds
<1>3. \A t \in cancelled' : driver'[t] # "none"
  BY <1>1, <1>2
<1>4. \A n \in NoticeIds \ accepted' : driver'[n] = "none"
  BY <1>2
<1>5. ASSUME NEW d \in Drains
      PROVE  Parks(d)'
  <2>1. CASE drain'[d] # drain[d]
    BY <1>2, <1>5, <2>1 DEF Parks, TurnPcs
  <2>2. CASE drain'[d] = drain[d]
    <3>1. drain[d].pc \in TurnPcs \cup {"begin"} => drain[d].turn \in TurnIds
      BY DEF TypeOK, DrainOK, KnowsTurn, TurnPcs
    <3>2. CASE UNCHANGED <<cancelled, aborted>>
      BY <2>2, <3>1, <3>2 DEF Parks
    <3>3. CASE /\ active # NoTurn /\ aborted'
               /\ cancelled' = cancelled \cup {active}
      <4>1. PICK e \in Drains : Runs(e, active)
        BY <3>3 DEF Reins, ActiveRuns
      <4>2. drain[d].pc \in LoopPcs => d = e
        BY <4>1 DEF Runs, TurnPcs, SingleDrain, InLoop, LoopPcs
      <4>3. drain[d].pc \notin {"start", "slot", "take", "prune"}
        BY <4>1, <4>2 DEF Runs, TurnPcs, LoopPcs
      <4> QED
        BY <2>2, <3>1, <3>3, <4>3 DEF Parks
    <3> QED
      BY <3>2, <3>3
  <2> QED
    BY <2>1, <2>2
<1> QED
  BY <1>3, <1>4, <1>5

\* Of the calls, the drivers and the last steps of a task.
LEMMA ParkOutside ==
    ASSUME Quiescent, TypeOK, Kept, Parked,
           \/ \E c \in Callers : CallStep(c) \/ Request(c)
           \/ \E t \in TurnIds : DriverStep(t)
           \/ \E d \in Drains : DrainFin(d) \/ DrainSignal(d) \/ DrainRekick(d)
    PROVE  ParkStays
<1> USE DEF stateVars, turnVars, noticeVars, taskVars, outVars, sessionVars
<1> DEFINE r == [OffDrain EXCEPT !.pc = "start"]
<1>1. /\ r.pc = "start" /\ r.prev = NoTurn /\ OffDrain.pc = "off"
      /\ drain \in [Drains -> DrainTask]
      /\ driver \in [TurnIds -> DriverStates]
      /\ queue \in Seq(Turns)
  BY DEF OffDrain, TypeOK, DrainOK, OutOK, QueueOK
<1>2. ASSUME NEW c \in Callers, CallStep(c) \/ Request(c)
      PROVE  ParkStays
  <2>1. CASE KickCall(c)
    <3>1. \A e \in Drains : drain'[e] = drain[e] \/ drain'[e] = r
      BY <1>1, <2>1 DEF KickCall, KickDrain
    <3>2. UNCHANGED <<queue, cancelled, aborted, driver, promoted, accepted>>
      BY <2>1 DEF KickCall
    <3> QED
      BY <1>1, <3>1, <3>2 DEF ParkStays
  <2>2. CASE StopCaptured(c) \/ Stop(c)
    <3>1. /\ UNCHANGED <<drain, queue, driver, promoted, accepted>>
          /\ \/ UNCHANGED <<cancelled, aborted>>
             \/ /\ active # NoTurn /\ aborted'
                /\ cancelled' = cancelled \cup {active}
      BY <2>2 DEF StopCaptured, Stop, StopActiveTurn, StopHits
    <3> QED
      BY <3>1 DEF ParkStays
  <2>3. CASE PushTurn(c)
    <3>1. queue' = Append(queue, call[c].turn)
      BY <2>3 DEF PushTurn
    <3>2. queue' # <<>>
      <4>1. call[c].turn \in Turns
        BY <2>3 DEF PushTurn, TypeOK, CallOK
      <4>2. Len(queue') = Len(queue) + 1 /\ Len(queue) \in Nat
        BY <1>1, <3>1, <4>1
      <4> QED
        BY <4>2
    <3>3. UNCHANGED <<drain, cancelled, aborted, driver, promoted, accepted>>
      BY <2>3 DEF PushTurn
    <3> QED
      BY <3>2, <3>3 DEF ParkStays
  <2>4. ASSUME NEW t \in Turns, Promote(c, t)
        PROVE  ParkStays
    <3>1. PICK i \in DOMAIN queue : queue' = Cons(t, RemoveAt(queue, i))
      BY <2>4 DEF Promote
    <3>2. RemoveAt(queue, i) \in Seq(Turns)
      BY <1>1, <3>1, RemoveAtType
    <3>3. queue' # <<>>
      BY <3>1, <3>2, ConsNonEmpty
    <3>4. UNCHANGED <<drain, cancelled, aborted, driver, promoted, accepted>>
      BY <2>4 DEF Promote
    <3> QED
      BY <3>3, <3>4 DEF ParkStays
  <2>5. ~(\E t \in Turns : \/ CancelQueued(c, t) \/ BeginEdit(c, t)
                           \/ \E keep \in BOOLEAN : Resubmit(c, t, keep))
        /\ ~PromoteNotice(c) /\ ~ReleaseSweep(c)
    BY DEF Quiescent, CancelQueued, BeginEdit, Resubmit, PromoteNotice,
       ReleaseSweep, Starts
  <2>6. ~ReleaseLatch(c) /\ ~ReleaseClear(c) /\ ~AbortAndDrain(c)
        /\ ~ReleaseDispose(c)
    BY DEF Kept, Unreleased, ReleaseLatch, ReleaseClear, AbortAndDrain,
       ReleaseDispose
  <2>7. ASSUME CallStep(c), ~KickCall(c), ~StopCaptured(c), ~PushTurn(c)
        PROVE  ParkStays
    <3>1. UNCHANGED <<drain, queue, cancelled, aborted, driver, promoted,
                      accepted>>
      BY <2>6, <2>7 DEF CallStep, SubmitInjected, SubmitRefused, SubmitRow,
         SubmitEnqueue, CancelRow
    <3> QED
      BY <3>1 DEF ParkStays
  <2>8. ASSUME NEW t \in Turns, Enqueue(c, t) \/ Submit(c, t)
        PROVE  ParkStays
    BY <2>8 DEF Enqueue, Submit, ParkStays
  <2>9. ASSUME NEW k \in Children, Populate(c, k) \/ PruneChild(c, k)
        PROVE  ParkStays
    BY <2>9 DEF Populate, PruneChild, ParkStays
  <2>10. CASE Dismiss(c)
    BY <2>10 DEF Dismiss, ParkStays
  <2> QED
    BY <1>2, <2>1, <2>2, <2>3, <2>4, <2>5, <2>7, <2>8, <2>9, <2>10 DEF Request
<1>3. ASSUME NEW t \in TurnIds, DriverStep(t)
      PROVE  ParkStays
  <2>1. UNCHANGED <<drain, queue, cancelled, aborted, promoted, accepted>>
    BY <1>3 DEF DriverStep, DriverConnect, DriverPrompt, DriverError,
       DriverResult, DriverQuit
  <2>2. /\ driver[t] # "none"
        /\ \E s \in DriverStates \ {"none"} : driver' = [driver EXCEPT ![t] = s]
    BY <1>3 DEF DriverStep, DriverConnect, DriverPrompt, DriverError,
       DriverResult, DriverQuit, AfterSpawn, DriverStates
  <2>3. \A u \in TurnIds : driver'[u] = "none" <=> driver[u] = "none"
    BY <1>1, <2>2
  <2> QED
    BY <2>1, <2>3 DEF ParkStays
<1>4. ASSUME NEW d \in Drains, DrainFin(d) \/ DrainSignal(d)
      PROVE  ParkStays
  <2>1. UNCHANGED <<queue, cancelled, aborted, driver, promoted, accepted>>
    BY <1>4 DEF DrainFin, DrainSignal
  <2>2. /\ \A e \in Drains \ {d} : drain'[e] = drain[e]
        /\ drain'[d].pc \in {"signal", "rekick"}
    BY <1>1, <1>4 DEF DrainFin, DrainSignal, Goto, DrainTask
  <2> QED
    BY <2>1, <2>2 DEF ParkStays
<1>5. ASSUME NEW d \in Drains, DrainRekick(d)
      PROVE  ParkStays
  <2> DEFINE ds == [drain EXCEPT ![d] = OffDrain]
  <2>1. \A e \in Drains : ds[e] = drain[e] \/ ds[e] = OffDrain
    BY <1>1
  <2>2. /\ \A e \in Drains : drain'[e] = ds[e] \/ drain'[e] = r
        /\ UNCHANGED <<queue, cancelled, aborted, driver, promoted, accepted>>
    BY <1>1, <1>5 DEF DrainRekick, KickDrain
  <2> QED
    BY <1>1, <2>1, <2>2 DEF ParkStays
<1> QED
  BY <1>2, <1>3, <1>4, <1>5

\* Of the task in the loop.
LEMMA ParkLoop ==
    ASSUME Quiescent, TypeOK, TypeOK', SingleDrain, Kept, Parked,
           NEW d \in Drains, DrainStep(d),
           ~DrainFin(d), ~DrainSignal(d), ~DrainRekick(d)
    PROVE  Parked'
<1> USE DEF stateVars, turnVars, noticeVars, taskVars, outVars, sessionVars
<1>1. /\ drain \in [Drains -> DrainTask] /\ driver \in [TurnIds -> DriverStates]
      /\ queue \in Seq(Turns) /\ cancelled \subseteq TurnIds /\ ~released
      /\ NoTurn \notin TurnIds /\ Parks(d) /\ ~promoted
      /\ NoticeIds \subseteq TurnIds
  BY TurnAssumption DEF TypeOK, DrainOK, OutOK, QueueOK, TurnOK, TurnIds, Kept,
     Unreleased, Parked
<1>2. InLoop(d)
  BY DEF DrainStep, DrainStart, DrainTop, DrainInner, DrainPop, DrainRow,
     DrainBegin, TurnStep, TurnStopped, TurnWoken, TurnEvent, TurnClosed,
     TurnEnd, SteerStep, SteerCheck, SteerInjected, SteerRow, SteerTooEarly,
     SteerFailed, DrainAfter, DrainFlag, DrainLeft, NoticeStep, DrainPromo,
     DrainSlot, TakeNotice, PruneNotice, At, InLoop, LoopPcs
<1>3. /\ \A e \in Drains \ {d} : drain'[e] = drain[e]
      /\ cancelled' = cancelled
  <2>1. CASE ~TurnStep(d) /\ ~SteerStep(d)
    BY <1>1, <2>1 DEF DrainStep, DrainStart, DrainTop, DrainInner, DrainPop,
       DrainRow, DrainBegin, DrainAfter, DrainFlag, DrainLeft, NoticeStep,
       DrainPromo, DrainSlot, TakeNotice, PruneNotice, Goto
  <2>2. CASE TurnStep(d) \/ SteerStep(d)
    BY <1>1, <2>2 DEF TurnStep, TurnStopped, TurnWoken, TurnEvent, TurnClosed,
       TurnEnd, SteerStep, SteerCheck, SteerInjected, SteerRow, SteerTooEarly,
       SteerFailed, Goto
  <2> QED
    BY <2>1, <2>2
<1>4. \A e \in Drains \ {d} : Parks(e)'
  <2> SUFFICES ASSUME NEW e \in Drains \ {d}
               PROVE  Parks(e)'
    OBVIOUS
  <2>1. drain'[e].pc \in {"off", "signal", "rekick"}
    BY <1>1, <1>2, <1>3 DEF SingleDrain, InLoop, DrainTask, DrainPcs, TailPcs
  <2> QED
    BY <2>1 DEF Parks, TurnPcs
\* It is enough to look at this task, once no driver comes or goes.
<1>5. ASSUME promoted' = promoted, accepted \subseteq accepted',
             \A t \in TurnIds : driver'[t] = "none" <=> driver[t] = "none",
             Parks(d)'
      PROVE  Parked'
  BY <1>1, <1>3, <1>4, <1>5 DEF Parked
<1>6. CASE DrainStart(d)
  <2>1. /\ UNCHANGED <<promoted, accepted, driver, queue>>
        /\ drain'[d].pc = "top" /\ drain'[d].prev = drain[d].prev
        /\ drain[d].pc = "start"
    BY <1>1, <1>6 DEF DrainStart, At, Goto, DrainTask
  <2> QED
    BY <1>1, <1>3, <1>5, <2>1 DEF Parks, TurnPcs
<1>7. CASE DrainTop(d) \/ DrainInner(d) \/ DrainAfter(d)
  <2>1. /\ UNCHANGED <<promoted, accepted, driver, queue, aborted>>
        /\ drain'[d].prev = drain[d].prev
        /\ \/ drain[d].pc = "top" /\ drain'[d].pc \in {"fin", "inner"}
           \/ drain[d].pc = "inner" /\ drain'[d].pc = "pop"
           \/ drain[d].pc = "after" /\ drain'[d].pc = "flag"
    BY <1>1, <1>7 DEF DrainTop, DrainInner, DrainAfter, At, Goto, DrainTask
  <2> QED
    BY <1>1, <1>3, <1>5, <2>1 DEF Parks, TurnPcs
<1>8. CASE DrainPop(d)
  <2>1. /\ UNCHANGED <<promoted, accepted, driver, aborted>>
        /\ drain'[d].prev = drain[d].prev
        /\ drain[d].pc = "pop"
        /\ \/ drain'[d].pc = "after" /\ queue = <<>>
           \/ drain'[d].pc = "row"
    BY <1>1, <1>8 DEF DrainPop, At, Goto, DrainTask
  <2> QED
    BY <1>1, <1>3, <1>5, <2>1 DEF Parks, TurnPcs
<1>9. CASE DrainRow(d)
  <2>1. /\ UNCHANGED <<promoted, accepted, driver, aborted>>
        /\ drain[d].pc = "row" /\ drain'[d].pc = "begin"
        /\ drain'[d].turn = drain[d].turn /\ drain[d].turn \in Turns
    BY <1>1, <1>9 DEF DrainRow, At, DrainTask, TypeOK, DrainOK, KnowsTurn
  <2>2. driver[drain[d].turn] = "none"
    BY <2>1 DEF Kept, OnePlace, DrainTurns
  <2> QED
    BY <1>5, <2>1, <2>2 DEF Parks, TurnPcs
<1>10. CASE DrainBegin(d)
  <2>1. PICK t \in TurnIds : t = drain[d].turn
    BY <1>10 DEF DrainBegin, At, TypeOK, DrainOK, KnowsTurn
  <2>2. /\ UNCHANGED <<promoted, accepted, aborted>>
        /\ driver' = [driver EXCEPT ![t] = "spawned"]
        /\ drain[d].pc = "begin" /\ drain'[d].pc = "turn"
        /\ drain'[d].turn = t
    BY <1>1, <1>10, <2>1 DEF DrainBegin, At, Goto, DrainTask
  <2>3. driver[t] = "none" /\ t \notin cancelled
    BY <1>1, <2>1, <2>2 DEF Parks, Parked
  <2>4. driver'[t] = "spawned" /\ \A u \in TurnIds \ {t} : driver'[u] = driver[u]
    BY <1>1, <2>2
  <2>5. Parks(d)'
    BY <1>3, <2>2, <2>3, <2>4 DEF Parks, TurnPcs
  <2>6. \A u \in cancelled' : driver'[u] # "none"
    BY <1>1, <1>3, <2>4 DEF Parked
  <2>7. \A n \in NoticeIds \ accepted' : driver'[n] = "none"
    <3>1. t \in Turns \cup accepted
      BY <1>1, <2>1, <2>2 DEF Parks
    <3> QED
      BY <1>1, <2>2, <2>4, <3>1, TurnAssumption DEF Parked
  <2> QED
    BY <1>1, <1>4, <2>2, <2>5, <2>6, <2>7 DEF Parked
<1>11. CASE (TurnStep(d) /\ ~TurnEnd(d)) \/ SteerStep(d)
  <2>1. GoesOn(d)
    BY <1>11, MiddleGoesOn DEF TurnStep
  <2>2. UNCHANGED <<promoted, accepted, aborted>>
    BY <1>11 DEF TurnStep, TurnStopped, TurnWoken, TurnEvent, TurnClosed,
       SteerStep, SteerCheck, SteerInjected, SteerRow, SteerTooEarly,
       SteerFailed
  <2>3. drain[d].turn \in TurnIds
    BY <2>1 DEF GoesOn, TurnPcs, TypeOK, DrainOK, KnowsTurn
  <2>4. \A t \in TurnIds : driver'[t] = "none" <=> driver[t] = "none"
    <3>1. CASE driver' = driver
      BY <3>1
    <3>2. CASE driver' # driver
      <4>1. TurnEvent(d)
        BY <1>11, <3>2 DEF TurnStep, TurnStopped, TurnWoken, TurnClosed,
           SteerStep, SteerCheck, SteerInjected, SteerRow, SteerTooEarly,
           SteerFailed
      <4> QED
        BY <1>1, <2>3, <4>1 DEF TurnEvent
    <3> QED
      BY <3>1, <3>2
  <2> QED
    BY <1>1, <1>3, <1>5, <2>1, <2>2, <2>3, <2>4 DEF GoesOn, Parks, TurnPcs
<1>12. CASE TurnEnd(d)
  <2>1. PICK t \in TurnIds : t = drain[d].turn
    BY <1>12 DEF TurnEnd, At, TypeOK, DrainOK, KnowsTurn
  <2>2. /\ UNCHANGED <<promoted, accepted, aborted>>
        /\ drain[d].pc = "end" /\ drain'[d].pc \in {"top", "inner"}
        /\ drain'[d].prev = t
        /\ driver' = driver \/ (driver' = [driver EXCEPT ![t] = "closed"]
                                /\ driver[t] # "none")
    BY <1>1, <1>12, <2>1 DEF TurnEnd, At, OffDrain
  <2>3. \A u \in TurnIds : driver'[u] = "none" <=> driver[u] = "none"
    BY <1>1, <2>2
  <2> QED
    BY <1>1, <1>3, <1>5, <2>1, <2>2, <2>3 DEF Parks, TurnPcs
<1>13. CASE DrainFlag(d)
  <2>1. /\ UNCHANGED <<promoted, accepted, driver>>
        /\ drain'[d].prev = drain[d].prev /\ drain[d].pc = "flag"
        /\ \/ drain'[d].pc = "left"
           \/ drain'[d].pc = "slot" /\ ~aborted
    BY <1>1, <1>13 DEF DrainFlag, AfterFlag, At, Goto, DrainTask
  <2> QED
    BY <1>1, <1>3, <1>5, <2>1 DEF Parks, TurnPcs
<1>14. CASE DrainLeft(d)
  <2>1. /\ UNCHANGED <<promoted, accepted, driver, queue>>
        /\ \/ drain'[d].pc = "top" /\ queue # <<>>
           \/ drain'[d].pc = "fin"
    BY <1>1, <1>14 DEF DrainLeft, At, Goto, DrainTask
  <2> QED
    BY <1>1, <1>5, <2>1 DEF Parks, TurnPcs
<1>15. CASE DrainPromo(d)
  BY <1>1, <1>15 DEF DrainPromo, At, Parks
<1>16. CASE DrainSlot(d) \/ TakeNotice(d)
  <2>1. /\ UNCHANGED <<promoted, accepted, driver, queue>>
        /\ drain'[d].prev = drain[d].prev
        /\ drain[d].pc \in {"slot", "take"}
        /\ drain'[d].pc \in {"take", "top", "prune"}
    BY <1>1, <1>16 DEF DrainSlot, TakeNotice, At, Goto, DrainTask
  <2> QED
    BY <1>1, <1>3, <1>5, <2>1 DEF Parks, TurnPcs
<1>17. CASE PruneNotice(d)
  <2>1. /\ UNCHANGED <<promoted, driver, queue>> /\ accepted \subseteq accepted'
        /\ drain'[d].prev = drain[d].prev /\ drain[d].pc = "prune"
        /\ \/ drain'[d].pc = "top"
           \/ /\ drain'[d].pc = "begin"
              /\ drain'[d].turn \in (NoticeIds \ accepted) \cap accepted'
    BY <1>1, <1>17 DEF PruneNotice, At, DrainTask
  <2> QED
    BY <1>1, <1>3, <1>5, <2>1 DEF Parks, Parked, TurnPcs
<1> QED
  BY <1>6, <1>7, <1>8, <1>9, <1>10, <1>11, <1>12, <1>13, <1>14, <1>15, <1>16,
     <1>17 DEF DrainStep, TurnStep, NoticeStep

LEMMA ParkHold == ASSUME Quiescent PROVE Spec => []Parked
<1>1. Init => Parked
  <2> SUFFICES ASSUME Init
               PROVE  Parked
    OBVIOUS
  <2>1. \A d \in Drains : drain[d].pc = "off"
    BY DEF Init, OffDrain
  <2> QED
    BY <2>1 DEF Init, Parked, Parks, TurnPcs, TurnIds
<1>2. TypeOK /\ TypeOK' /\ SingleDrain /\ Reins /\ Kept /\ Parked /\ [Next]_vars
        => Parked'
  <2> SUFFICES ASSUME TypeOK, TypeOK', SingleDrain, Reins, Kept, Parked,
                      [Next]_vars
               PROVE  Parked'
    OBVIOUS
  <2>1. CASE UNCHANGED vars
    <3>1. ParkStays
      BY <2>1 DEF vars, stateVars, turnVars, noticeVars, taskVars, outVars,
         sessionVars, ParkStays
    <3> QED
      BY <3>1, ParkKept
  <2> QED
    BY <2>1, ParkOutside, ParkLoop, ParkKept DEF Next
<1>3. "release" \notin Ops
  BY DEF Quiescent
<1> QED
  BY <1>1, <1>2, <1>3, KeptHold, ReinsHold, TypeCorrect, SingleOwner, PTL
  DEF Spec

\* FIX-G: a drain does not go on from a turn that was stopped to a notice turn
\* nobody asked for: stopped while it is active, a turn leaves the abort flag
\* up, and the drain either parks the notice or has another message to run.
THEOREM NoticeParked ==
    ASSUME Quiescent PROVE Spec => NoNoticeRightAfterStop
<1>1. TypeOK /\ Parked /\ [Next]_vars
        => [\A d \in Drains : At(d, "slot") /\ drain'[d].pc = "take" =>
                drain[d].prev \notin cancelled]_vars
  BY DEF Parked, Parks, At
<1> QED
  BY <1>1, TypeCorrect, ParkHold, PTL DEF Spec, NoNoticeRightAfterStop
=============================================================================
