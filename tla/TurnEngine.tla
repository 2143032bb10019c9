----------------------------- MODULE TurnEngine -----------------------------
(***************************************************************************)
(* The Rich Chat turn engine of one session: JsonAgentSession in           *)
(* rust/vst-agents/src/json_agent_session.  Clients (HTTP and WebSocket     *)
(* handlers, the subagent notifier, the route that releases a session) call *)
(* it concurrently; one drain task at a time runs the queued turns; every   *)
(* turn that starts spawns a driver task (run_turn_acp) that talks to the   *)
(* agent and outlives a turn that is stopped.                               *)
(*                                                                          *)
(* The code guards its data with a mutex (`state`), a second one around the *)
(* transcript store and an atomic release latch.  One action here is one    *)
(* critical section, plus the lock-free code up to the next one; an `await` *)
(* or a lock handover is the boundary between two actions.                  *)
(***************************************************************************)
EXTENDS Naturals, SequencesExt

CONSTANTS
    Turns,            \* ids of the human turns clients may send
    ReviewTurns,      \* those sent with review comments (QueuedTurn.review)
    TextTurns,        \* those a steer can carry: no attachment, no fork, no
                      \* blocking mention, no skill invocation
    NoticeIds,        \* fresh ids for the daemon's own notice turns
    Children,         \* subagents whose parent is this session
    Callers,          \* concurrent client calls
    Drains,           \* drain tasks (the last steps of one may overlap the next)
    NoTurn,           \* the None of Option<turn id>
    HasHistory,       \* is this a reopened session with a finished turn?
    SteerTries,       \* STEER_PROMPT_REQUIRED_TRIES
    SteerMayTimeOut,  \* may a steer reach the agent and be answered too late?
    StoreMayFail,     \* may the append of a popped turn's row fail?
    Ops               \* the client operations this instance issues

ASSUME TurnAssumption ==
    /\ ReviewTurns \subseteq Turns
    /\ TextTurns \subseteq Turns
    /\ Turns \cap NoticeIds = {}
    /\ NoTurn \notin Turns \cup NoticeIds
    /\ SteerTries \in Nat \ {0}
    /\ {HasHistory, SteerMayTimeOut, StoreMayFail} \subseteq BOOLEAN

TurnIds == Turns \cup NoticeIds

VARIABLES
    queue,          \* State.queue: the turns waiting, head first
    held,           \* the keys of State.holds: turns withdrawn for editing
    ahead,          \* HeldTurn.ahead_ids of each held turn
    arrived,        \* turns in enqueue_order
    carries,        \* turns whose QueuedTurn.review is Some
    steering,       \* State.steering_turn_id
    running,        \* State.running
    active,         \* State.active_turn's id
    dispatched,     \* ActiveTurn.prompt_dispatched
    wake,           \* a permit is stored in ActiveTurn.steer_wake
    cancelled,      \* turns whose cancellation token is cancelled
    firstTurnDone,  \* State.first_turn_done
    aborted,        \* State.aborted_since_last_drain
    noticeSlot,     \* State.notice_slot: children waiting to be announced
    promoted,       \* State.promoted_notice
    activeNotice,   \* State.active_notice
    turnState,      \* State.turn_state; "busy" is Thinking, Responding or Tool
    released,       \* Inner.released
    drainIdle,      \* Inner.drain_tx
    drain,          \* the drain tasks: program counter, locals, and (for the
                    \* properties only) `prev`, the turn the task ran last
    driver,         \* the run_turn_acp task of each turn
    call,           \* the client calls in progress
    accepted,       \* turns a client has sent, notices a drain has minted
    told,           \* children that have already reported once
    rows,           \* transcript rows of each turn
    reports,        \* what the review observer was told of each turn
    delivered       \* times the agent was given each turn

stateVars  == <<queue, held, ahead, arrived, carries, steering>>
turnVars   == <<running, active, dispatched, wake, cancelled, firstTurnDone>>
noticeVars == <<noticeSlot, promoted, activeNotice, told>>
taskVars   == <<drain, driver, call>>
outVars    == <<rows, reports, delivered>>
sessionVars == <<aborted, turnState, released, drainIdle, accepted>>
vars == <<stateVars, turnVars, noticeVars, taskVars, outVars, sessionVars>>

-----------------------------------------------------------------------------
(* Tasks.                                                                   *)

\* Where a drain task is while it owns `running`.
LoopPcs == {"start", "top", "promo", "inner", "pop", "row", "begin", "turn",
            "steer", "steerRpc", "steerRow", "end", "after", "flag", "left",
            "slot", "take", "prune", "fin"}
\* Where it is once it has given `running` up.
TailPcs == {"signal", "rekick"}
DrainPcs == {"off"} \cup LoopPcs \cup TailPcs

DriverStates == {"none", "spawned", "connecting", "prompted", "result",
                 "error", "closed"}

CallPcs == {"idle", "steerRpc", "steerRow", "enqueue", "push", "kick",
            "cancelRow", "stopKick", "stop", "latch", "clear", "abort",
            "settle"}

DrainTask == [pc : DrainPcs, turn : TurnIds \cup {NoTurn},
              head : Turns \cup {NoTurn}, kids : SUBSET Children,
              saw : BOOLEAN, tries : Nat, broke : BOOLEAN,
              prev : TurnIds \cup {NoTurn}]

ClientCall == [pc : CallPcs, turn : TurnIds \cup {NoTurn}, busy : BOOLEAN]

OffDrain == [pc |-> "off", turn |-> NoTurn, head |-> NoTurn, kids |-> {},
             saw |-> FALSE, tries |-> 0, broke |-> FALSE, prev |-> NoTurn]

IdleCall == [pc |-> "idle", turn |-> NoTurn, busy |-> FALSE]

At(d, p) == drain[d].pc = p

Goto(d, p) == drain' = [drain EXCEPT ![d].pc = p]

Return(c) == call' = [call EXCEPT ![c] = IdleCall]

InLoop(d) == drain[d].pc \in LoopPcs

-----------------------------------------------------------------------------
(* Operations on State that several handlers share.                         *)

\* (A definition whose name ends in _Without... or _With... is a broken variant
\* of the one it is named after: the bug the properties are tried against.)

MayStartDrain_WithoutRunning == ~released
MayStartDrain_WithoutLatch == ~running

\* kick_drain starts a drain only when none runs and the session is live; the
\* latch is read again under the state lock.
MayStartDrain == ~running /\ ~released

HasWork == queue # <<>> \/ noticeSlot # {} \/ promoted

\* kick_drain: mark the session running and busy, then spawn.  `ds` are the
\* drain tasks as the caller leaves them.
KickDrain(ds) ==
    IF MayStartDrain /\ HasWork
    THEN /\ \E d \in Drains :
              /\ ds[d].pc = "off"
              /\ drain' = [ds EXCEPT ![d] = [OffDrain EXCEPT !.pc = "start"]]
         /\ running' = TRUE
         /\ drainIdle' = FALSE
    ELSE /\ drain' = ds
         /\ UNCHANGED <<running, drainIdle>>

\* can_steer_now, but for the connection's health: a dead connection answers
\* Unsupported, one of the outcomes of the RPC.
CanSteer ==
    /\ running
    /\ active # NoTurn
    /\ dispatched
    /\ active \notin cancelled
    /\ firstTurnDone

\* steer_queued_head's test of the head.
HeadSteers ==
    /\ queue # <<>>
    /\ CanSteer
    /\ Head(queue) \in TextTurns
    /\ Head(queue) \notin carries

StopHits_WithoutActive(expected) == running /\ active = expected

\* stop_active_turn(expected): refused unless that very turn is active.
StopHits(expected) == running /\ active # NoTurn /\ active = expected

StopActiveTurn(expected) ==
    IF StopHits(expected)
    THEN aborted' = TRUE /\ cancelled' = cancelled \cup {active}
    ELSE UNCHANGED <<aborted, cancelled>>

\* sync_idle_state_inner, for a queue that becomes q.
IdleState(q) ==
    IF running THEN turnState ELSE IF q = <<>> THEN "idle" ELSE "queued"

\* wake_steer: store a permit if the active turn's prompt is in flight.
WakeSteer == wake' = (wake \/ (active # NoTurn /\ dispatched))

\* cancel/edit treat the head whose steer RPC is in flight as not found.
Withdrawable(t) == steering # t

\* insert_position_after_ahead_ids: p, as a 1-based index into the queue q, is
\* the place right behind the last turn of ids that is still there.
InsertPosition(q, ids, p) ==
    /\ \A i \in DOMAIN q : q[i] \in ids => i < p
    /\ p > 1 => q[p - 1] \in ids

\* persist_event_checked: nothing is appended once the latch is up.
WithRow(t, kind) ==
    IF released THEN rows ELSE [rows EXCEPT ![t] = @ \cup {kind}]

WithoutReview_WithComments(t, persisted) == carries

\* A popped turn keeps its review only if its row reached the transcript.
WithoutReview(t, persisted) == IF persisted THEN carries ELSE carries \ {t}

\* Tell the review observer, for the turns of T that carry a review.
Report(T, outcome) ==
    [t \in Turns |-> IF t \in T \cap carries THEN reports[t] \cup {outcome}
                     ELSE reports[t]]

-----------------------------------------------------------------------------
Init ==
    /\ queue = <<>> /\ held = {} /\ ahead = [t \in Turns |-> {}]
    /\ arrived = <<>> /\ carries = {} /\ steering = NoTurn
    /\ running = FALSE /\ active = NoTurn /\ dispatched = FALSE
    /\ wake = FALSE /\ cancelled = {}
    /\ firstTurnDone = HasHistory
    /\ aborted = FALSE
    /\ noticeSlot = {} /\ promoted = FALSE /\ activeNotice = {} /\ told = {}
    /\ turnState = "idle"
    /\ released = FALSE
    /\ drainIdle = TRUE
    /\ drain = [d \in Drains |-> OffDrain]
    /\ driver = [t \in TurnIds |-> "none"]
    /\ call = [c \in Callers |-> IdleCall]
    /\ accepted = {}
    /\ rows = [t \in Turns |-> {}]
    /\ reports = [t \in Turns |-> {}]
    /\ delivered = [t \in Turns |-> 0]

-----------------------------------------------------------------------------
(* Client calls.  A call starts from "idle"; what it does after its first   *)
(* critical section is a step of its own.                                   *)

Starts(c, op) == op \in Ops /\ call[c].pc = "idle"

Fresh(t) == t \notin accepted

\* enqueue_full, first section: compute queue_position (only whether it is
\* positive matters) from the state as it is now.
Enqueue(c, t) ==
    /\ Starts(c, "enqueue")
    /\ Fresh(t)
    /\ accepted' = accepted \cup {t}
    /\ carries' = carries \cup ({t} \cap ReviewTurns)
    /\ call' = [call EXCEPT ![c] =
                  [pc |-> "push", turn |-> t, busy |-> running \/ queue # <<>>]]
    /\ UNCHANGED <<queue, held, ahead, arrived, steering, turnVars,
                   noticeVars, drain, driver, outVars, aborted, turnState,
                   released, drainIdle>>

Stranded_WithoutLatch(t) == {}

\* The review of a turn pushed once the session is released.
Stranded(t) == {t} \cap (IF released THEN carries ELSE {})

\* enqueue_full, second section: push.  If the session was released meanwhile
\* the review is stripped and its comments go back to the panel.
PushTurn(c) ==
    /\ call[c].pc = "push"
    /\ LET t == call[c].turn
       IN /\ queue' = Append(queue, t)
          /\ arrived' = Append(arrived, t)
          /\ carries' = carries \ Stranded(t)
          /\ reports' = Report(Stranded(t), "cancelled")
    /\ turnState' = IF ~running /\ call[c].busy THEN "queued" ELSE turnState
    /\ call' = [call EXCEPT ![c].pc = "kick"]
    /\ UNCHANGED <<held, ahead, steering, turnVars, noticeVars, drain, driver,
                   rows, delivered, aborted, released, drainIdle, accepted>>

\* kick_drain, the tail of enqueue, resubmit, promote and of the task that
\* populate_notice_slot spawns.
KickCall(c) ==
    /\ call[c].pc = "kick"
    /\ KickDrain(drain)
    /\ Return(c)
    /\ UNCHANGED <<stateVars, active, dispatched, wake, cancelled,
                   firstTurnDone, noticeVars, driver, outVars, aborted,
                   turnState, released, accepted>>

\* submit_with: try to steer straight into the running turn when nothing is
\* queued, else take the enqueue path.
Submit(c, t) ==
    /\ Starts(c, "submit")
    /\ Fresh(t) /\ t \notin ReviewTurns
    /\ accepted' = accepted \cup {t}
    /\ call' = [call EXCEPT ![c] =
                  [pc |-> IF CanSteer /\ queue = <<>> /\ t \in TextTurns
                          THEN "steerRpc" ELSE "enqueue",
                   turn |-> t, busy |-> FALSE]]
    /\ UNCHANGED <<stateVars, turnVars, noticeVars, drain, driver, outVars,
                   aborted, turnState, released, drainIdle>>

\* The agent answers the direct steer: injected, or not (any other outcome).
SubmitInjected(c) ==
    /\ call[c].pc = "steerRpc"
    /\ delivered' = [delivered EXCEPT ![call[c].turn] = @ + 1]
    /\ call' = [call EXCEPT ![c].pc = "steerRow"]
    /\ UNCHANGED <<stateVars, turnVars, noticeVars, drain, driver, rows,
                   reports, sessionVars>>

SubmitRefused(c) ==
    /\ call[c].pc = "steerRpc"
    /\ call' = [call EXCEPT ![c].pc = "enqueue"]
    /\ UNCHANGED <<stateVars, turnVars, noticeVars, drain, driver, outVars,
                   sessionVars>>

SubmitRow(c) ==
    /\ call[c].pc = "steerRow"
    /\ rows' = WithRow(call[c].turn, "user")
    /\ Return(c)
    /\ UNCHANGED <<stateVars, turnVars, noticeVars, drain, driver, reports,
                   delivered, sessionVars>>

SubmitEnqueue(c) ==
    /\ call[c].pc = "enqueue"
    /\ call' = [call EXCEPT ![c].pc = "push",
                            ![c].busy = running \/ queue # <<>>]
    /\ UNCHANGED <<stateVars, turnVars, noticeVars, drain, driver, outVars,
                   sessionVars>>

\* cancel_queued_turn, under the lock: take the turn out of the queue or out
\* of the editing hold.
CancelQueued(c, t) ==
    /\ Starts(c, "cancel")
    /\ Withdrawable(t)
    /\ \/ \E i \in DOMAIN queue :
            /\ queue[i] = t
            /\ queue' = RemoveAt(queue, i)
            /\ UNCHANGED <<held, ahead>>
       \/ /\ t \in held
          /\ held' = held \ {t}
          /\ ahead' = [ahead EXCEPT ![t] = {}]
          /\ UNCHANGED queue
    /\ call' = [call EXCEPT ![c] =
                  [pc |-> "cancelRow", turn |-> t, busy |-> FALSE]]
    /\ UNCHANGED <<arrived, carries, steering, turnVars, noticeVars, drain,
                   driver, outVars, sessionVars>>

\* ... and after it: the cancelled row, the comments restored, the idle state
\* recomputed, the steer of a newly exposed head woken.
CancelRow(c) ==
    /\ call[c].pc = "cancelRow"
    /\ rows' = WithRow(call[c].turn, "cancelled")
    /\ reports' = Report({call[c].turn}, "cancelled")
    /\ turnState' = IdleState(queue)
    /\ WakeSteer
    /\ Return(c)
    /\ UNCHANGED <<stateVars, running, active, dispatched, cancelled,
                   firstTurnDone, noticeVars, drain, driver, delivered,
                   aborted, released, drainIdle, accepted>>

\* begin_edit_queued_turn.  (Of a turn already held it changes nothing.)
BeginEdit(c, t) ==
    /\ Starts(c, "edit")
    /\ Withdrawable(t)
    /\ \E i \in DOMAIN queue :
         /\ queue[i] = t
         /\ queue' = RemoveAt(queue, i)
         /\ ahead' = [ahead EXCEPT ![t] = {queue[j] : j \in 1..(i - 1)}]
         /\ turnState' = IdleState(RemoveAt(queue, i))
    /\ held' = held \cup {t}
    /\ UNCHANGED <<arrived, carries, steering, turnVars, noticeVars, taskVars,
                   outVars, aborted, released, drainIdle, accepted>>

\* resubmit_queued_turn_with: back into the queue, behind whatever of its
\* ahead_ids is still there; dropping the review hands its comments back.
Resubmit(c, t, keepReview) ==
    /\ Starts(c, "edit")
    /\ t \in held /\ Withdrawable(t)
    /\ \E p \in 1..(Len(queue) + 1) :
         /\ InsertPosition(queue, ahead[t], p)
         /\ queue' = InsertAt(queue, p, t)
    /\ turnState' = IdleState(queue')
    /\ LET dropped == IF keepReview THEN {} ELSE {t} \cap carries
       IN /\ carries' = carries \ dropped
          /\ reports' = Report(dropped, "cancelled")
    /\ held' = held \ {t}
    /\ ahead' = [ahead EXCEPT ![t] = {}]
    /\ WakeSteer
    /\ call' = [call EXCEPT ![c].pc = "kick"]
    /\ UNCHANGED <<arrived, steering, running, active, dispatched, cancelled,
                   firstTurnDone, noticeVars, drain, driver, rows, delivered,
                   aborted, released, drainIdle, accepted>>

\* promote_queued_turn ("Send now"): move to the front and remember which turn
\* was active, to stop exactly that one once the lock is dropped.
Promote(c, t) ==
    /\ Starts(c, "promote")
    /\ \E i \in DOMAIN queue :
         /\ queue[i] = t
         /\ queue' = Cons(t, RemoveAt(queue, i))
    /\ call' = [call EXCEPT ![c] =
                  [pc |-> IF active = NoTurn THEN "kick" ELSE "stopKick",
                   turn |-> active, busy |-> FALSE]]
    /\ UNCHANGED <<held, ahead, arrived, carries, steering, turnVars,
                   noticeVars, drain, driver, outVars, sessionVars>>

\* The deferred stop of promote_queued_turn and promote_notice_slot (which
\* then kick) and of dismiss_notice_slot (which does not).
StopCaptured(c) ==
    /\ call[c].pc \in {"stopKick", "stop"}
    /\ StopActiveTurn(call[c].turn)
    /\ IF call[c].pc = "stopKick"
       THEN call' = [call EXCEPT ![c] = [IdleCall EXCEPT !.pc = "kick"]]
       ELSE Return(c)
    /\ UNCHANGED <<stateVars, running, active, dispatched, wake,
                   firstTurnDone, noticeVars, drain, driver, outVars,
                   turnState, released, drainIdle, accepted>>

\* stop_active_turn from the Stop button: of whatever is active, or of the
\* turn the client names (which is then the active one).
Stop(c) ==
    /\ Starts(c, "stop")
    /\ StopHits(active)
    /\ StopActiveTurn(active)
    /\ UNCHANGED <<stateVars, running, active, dispatched, wake,
                   firstTurnDone, noticeVars, taskVars, outVars, turnState,
                   released, drainIdle, accepted>>

-----------------------------------------------------------------------------
(* The notice slot.                                                         *)

\* populate_notice_slot: merge the child in; the kick is a spawned task.
Populate(c, k) ==
    /\ Starts(c, "notice")
    /\ k \notin told
    /\ told' = told \cup {k}
    /\ noticeSlot' = noticeSlot \cup {k}
    /\ call' = [call EXCEPT ![c].pc = "kick"]
    /\ UNCHANGED <<stateVars, turnVars, promoted, activeNotice, drain, driver,
                   outVars, sessionVars>>

\* prune_notice_slot_child.
PruneChild(c, k) ==
    /\ Starts(c, "prune")
    /\ k \in noticeSlot
    /\ noticeSlot' = noticeSlot \ {k}
    /\ UNCHANGED <<stateVars, turnVars, promoted, activeNotice, told,
                   taskVars, outVars, sessionVars>>

\* promote_notice_slot.
PromoteNotice(c) ==
    /\ Starts(c, "promoteNotice")
    /\ noticeSlot # {}
    /\ promoted' = TRUE
    /\ call' = [call EXCEPT ![c] =
                  [pc |-> IF active = NoTurn THEN "kick" ELSE "stopKick",
                   turn |-> active, busy |-> FALSE]]
    /\ UNCHANGED <<stateVars, turnVars, noticeSlot, activeNotice, told, drain,
                   driver, outVars, sessionVars>>

NoticeRuns_WithAnyTurn == active # NoTurn

\* Is there a turn for a dismissal to stop?
NoticeRuns == activeNotice # {} /\ active # NoTurn

\* dismiss_notice_slot: also stops the notice turn if one is running.
Dismiss(c) ==
    /\ Starts(c, "dismiss")
    /\ noticeSlot' = {}
    /\ promoted' = FALSE
    /\ IF NoticeRuns
       THEN call' = [call EXCEPT ![c] =
                       [pc |-> "stop", turn |-> active, busy |-> FALSE]]
       ELSE UNCHANGED call
    /\ UNCHANGED <<stateVars, turnVars, activeNotice, told, drain, driver,
                   outVars, sessionVars>>

-----------------------------------------------------------------------------
(* release_with.                                                            *)

Pending == ToSet(queue) \cup held

\* cancel_all_pending_turns: a cancelled row for every turn queued or held,
\* which stay where they are.
ReleaseSweep(c) ==
    /\ Starts(c, "release")
    /\ rows' = [t \in Turns |-> IF t \in Pending THEN WithRow(t, "cancelled")[t]
                                ELSE rows[t]]
    /\ reports' = Report(Pending, "cancelled")
    /\ call' = [call EXCEPT ![c].pc = "latch"]
    /\ UNCHANGED <<stateVars, turnVars, noticeVars, drain, driver, delivered,
                   sessionVars>>

\* The latch goes up under the store lock; a second release returns here.
ReleaseLatch(c) ==
    /\ call[c].pc = "latch"
    /\ released' = TRUE
    /\ IF released THEN Return(c)
       ELSE call' = [call EXCEPT ![c].pc = "clear"]
    /\ UNCHANGED <<stateVars, turnVars, noticeVars, drain, driver, outVars,
                   aborted, turnState, drainIdle, accepted>>

ReleaseClear(c) ==
    /\ call[c].pc = "clear"
    /\ noticeSlot' = {} /\ activeNotice' = {} /\ promoted' = FALSE
    /\ call' = [call EXCEPT ![c].pc = "abort"]
    /\ UNCHANGED <<stateVars, turnVars, told, drain, driver, outVars,
                   sessionVars>>

\* abort_and_drain: clear the queue and the holds, cancel the active turn.
AbortAndDrain(c) ==
    /\ call[c].pc = "abort"
    /\ reports' = Report(Pending, "cancelled")
    /\ queue' = <<>> /\ held' = {} /\ ahead' = [t \in Turns |-> {}]
    /\ aborted' = TRUE
    /\ active' = NoTurn
    /\ dispatched' = FALSE
    /\ cancelled' = cancelled \cup ({active} \ {NoTurn})
    /\ turnState' = "idle"
    /\ call' = [call EXCEPT ![c].pc = "settle"]
    /\ UNCHANGED <<arrived, carries, steering, running, wake, firstTurnDone,
                   noticeVars, drain, driver, rows, delivered, released,
                   drainIdle, accepted>>

\* settled(), bounded by RELEASE_DRAIN_TIMEOUT_MS; then the connection and the
\* store are disposed of.
ReleaseDispose(c) ==
    /\ call[c].pc = "settle"
    /\ Return(c)
    /\ UNCHANGED <<stateVars, turnVars, noticeVars, drain, driver, outVars,
                   sessionVars>>

-----------------------------------------------------------------------------
(* The driver task of turn t (run_turn_acp): it is spawned by run_one_turn,  *)
(* looks at the cancellation token only once the prompt is sent, and answers *)
(* over a channel that a stopped turn no longer reads.                       *)

AfterSpawn_WithoutLatch == "connecting"

\* get_or_create_connection refuses on entry once the session is released.
AfterSpawn == IF released THEN "error" ELSE "connecting"

DriverConnect(t) ==
    /\ driver[t] = "spawned"
    /\ driver' = [driver EXCEPT ![t] = AfterSpawn]
    /\ UNCHANGED <<stateVars, turnVars, noticeVars, drain, call, outVars,
                   sessionVars>>

\* Connection setup fails, or the prompt ends in a transport error.
DriverError(t) ==
    /\ driver[t] \in {"connecting", "prompted"}
    /\ driver' = [driver EXCEPT ![t] = "error"]
    /\ UNCHANGED <<stateVars, turnVars, noticeVars, drain, call, outVars,
                   sessionVars>>

\* The prompt goes to the agent; on_prompt_dispatched marks the turn if it is
\* still the active one, and wakes the drain to steer the queue head.
DriverPrompt(t) ==
    /\ driver[t] = "connecting"
    /\ driver' = [driver EXCEPT ![t] = "prompted"]
    /\ delivered' = IF t \in Turns THEN [delivered EXCEPT ![t] = @ + 1]
                    ELSE delivered
    /\ IF active = t
       THEN dispatched' = TRUE /\ wake' = TRUE
       ELSE UNCHANGED <<dispatched, wake>>
    /\ UNCHANGED <<stateVars, running, active, cancelled, firstTurnDone,
                   noticeVars, drain, call, rows, reports, sessionVars>>

\* The agent answers, or the stuck-turn watchdog gives it up: a result event.
DriverResult(t) ==
    /\ driver[t] = "prompted"
    /\ driver' = [driver EXCEPT ![t] = "result"]
    /\ UNCHANGED <<stateVars, turnVars, noticeVars, drain, call, outVars,
                   sessionVars>>

\* A cancelled driver that sees its token closes without an event.
DriverQuit(t) ==
    /\ driver[t] = "prompted" /\ t \in cancelled
    /\ driver' = [driver EXCEPT ![t] = "closed"]
    /\ UNCHANGED <<stateVars, turnVars, noticeVars, drain, call, outVars,
                   sessionVars>>

-----------------------------------------------------------------------------
(* The drain task d: drain_loop, with run_one_turn, steer_queued_head and    *)
(* run_notice_slot_turn inlined as its steps.                                *)

DrainStart(d) ==
    /\ At(d, "start")
    /\ aborted' = FALSE
    /\ Goto(d, "top")
    /\ UNCHANGED <<stateVars, turnVars, noticeVars, driver, call, outVars,
                   turnState, released, drainIdle, accepted>>

DrainTop(d) ==
    /\ At(d, "top")
    /\ Goto(d, IF released \/ (queue = <<>> /\ noticeSlot = {}) THEN "fin"
               ELSE IF promoted /\ noticeSlot # {} THEN "promo"
               ELSE "inner")
    /\ UNCHANGED <<stateVars, turnVars, noticeVars, driver, call, outVars,
                   sessionVars>>

\* A promoted notice runs ahead of the human queue.
DrainPromo(d) ==
    /\ At(d, "promo")
    /\ promoted' = FALSE
    /\ aborted' = FALSE
    /\ Goto(d, "take")
    /\ UNCHANGED <<stateVars, turnVars, noticeSlot, activeNotice, told,
                   driver, call, outVars, turnState, released, drainIdle,
                   accepted>>

\* The inner loop: unless a notice was promoted meanwhile ...
DrainInner(d) ==
    /\ At(d, "inner")
    /\ Goto(d, IF promoted /\ noticeSlot # {} THEN "after" ELSE "pop")
    /\ UNCHANGED <<stateVars, turnVars, noticeVars, driver, call, outVars,
                   sessionVars>>

PopHead_WithoutRemoval == UNCHANGED queue

PopHead == queue' = Tail(queue)

\* ... pop the head.
DrainPop(d) ==
    /\ At(d, "pop")
    /\ IF queue = <<>>
       THEN Goto(d, "after") /\ UNCHANGED queue
       ELSE /\ PopHead
            /\ drain' = [drain EXCEPT ![d].pc = "row", ![d].turn = Head(queue)]
    /\ UNCHANGED <<held, ahead, arrived, carries, steering, turnVars,
                   noticeVars, driver, call, outVars, sessionVars>>

\* persist_popped_turn_row.  A turn popped just before the release is dropped
\* and its comments restored; if the row cannot be written on a live session
\* the turn runs without its comments; else its hold is settled as persisted.
DrainRow(d) ==
    /\ At(d, "row")
    /\ \E ok \in BOOLEAN :
         /\ ok => ~released
         /\ ~ok => released \/ StoreMayFail
         /\ LET t == drain[d].turn
            IN /\ rows' = IF ok THEN WithRow(t, "user") ELSE rows
               /\ reports' = Report({t}, IF ok THEN "persisted"
                                         ELSE "cancelled")
               /\ carries' = WithoutReview(t, ok)
    /\ drain' = IF released
                THEN [drain EXCEPT ![d].pc = "after", ![d].turn = NoTurn]
                ELSE [drain EXCEPT ![d].pc = "begin"]
    /\ UNCHANGED <<queue, held, ahead, arrived, steering, turnVars,
                   noticeVars, driver, call, delivered, sessionVars>>

\* run_one_turn: register the active turn with a fresh token and spawn its
\* driver.
DrainBegin(d) ==
    /\ At(d, "begin")
    /\ active' = drain[d].turn
    /\ dispatched' = FALSE
    /\ wake' = FALSE
    /\ turnState' = "busy"
    /\ driver' = [driver EXCEPT ![drain[d].turn] = "spawned"]
    /\ Goto(d, "turn")
    /\ UNCHANGED <<stateVars, running, cancelled, firstTurnDone, noticeVars,
                   call, outVars, aborted, released, drainIdle, accepted>>

\* The biased select of run_one_turn: cancellation first, then a stored steer
\* permit, then the driver's events.
Uncancelled(d) == drain[d].turn \notin cancelled

TurnStopped(d) ==
    /\ At(d, "turn")
    /\ ~Uncancelled(d)
    /\ Goto(d, "end")
    /\ UNCHANGED <<stateVars, turnVars, noticeVars, driver, call, outVars,
                   sessionVars>>

TurnWoken(d) ==
    /\ At(d, "turn")
    /\ Uncancelled(d) /\ wake
    /\ wake' = FALSE
    /\ drain' = [drain EXCEPT ![d].pc = "steer", ![d].tries = 0]
    /\ UNCHANGED <<stateVars, running, active, dispatched, cancelled,
                   firstTurnDone, noticeVars, driver, call, outVars,
                   sessionVars>>

\* handle_event of the terminal event (earlier ones leave turn_state "busy").
TurnEvent(d) ==
    /\ At(d, "turn")
    /\ Uncancelled(d) /\ ~wake
    /\ driver[drain[d].turn] \in {"result", "error"}
    /\ LET ok == driver[drain[d].turn] = "result"
       IN /\ turnState' = IF ok THEN "idle" ELSE "error"
          /\ drain' = [drain EXCEPT ![d].saw = ok]
    /\ driver' = [driver EXCEPT ![drain[d].turn] = "closed"]
    /\ UNCHANGED <<stateVars, turnVars, noticeVars, call, outVars, aborted,
                   released, drainIdle, accepted>>

TurnClosed(d) ==
    /\ At(d, "turn")
    /\ Uncancelled(d) /\ ~wake
    /\ driver[drain[d].turn] = "closed"
    /\ Goto(d, "end")
    /\ UNCHANGED <<stateVars, turnVars, noticeVars, driver, call, outVars,
                   sessionVars>>

\* The end of run_one_turn; a notice turn also clears active_notice.  Dropping
\* the receiver discards an event still in the channel.
TurnEnd(d) ==
    /\ At(d, "end")
    /\ LET t == drain[d].turn
       IN /\ firstTurnDone' = (firstTurnDone \/ Uncancelled(d) \/ drain[d].saw)
          /\ driver' = IF driver[t] \in {"result", "error"}
                       THEN [driver EXCEPT ![t] = "closed"] ELSE driver
          /\ activeNotice' = IF t \in NoticeIds THEN {} ELSE activeNotice
          /\ drain' = [drain EXCEPT
                         ![d] = [OffDrain EXCEPT
                                   !.pc = IF t \in NoticeIds THEN "top"
                                          ELSE "inner",
                                   !.prev = t]]
    /\ active' = NoTurn /\ dispatched' = FALSE /\ wake' = FALSE
    /\ UNCHANGED <<stateVars, running, cancelled, noticeSlot, promoted, told,
                   call, outVars, sessionVars>>

\* After the inner loop: a notice promoted meanwhile goes first.
DrainAfter(d) ==
    /\ At(d, "after")
    /\ Goto(d, IF promoted /\ noticeSlot # {} THEN "promo" ELSE "flag")
    /\ UNCHANGED <<stateVars, turnVars, noticeVars, driver, call, outVars,
                   sessionVars>>

AfterFlag_WithoutAbort == "slot"

AfterFlag == IF aborted THEN "left" ELSE "slot"

\* FIX-G: an abort during the human turns parks the notice slot.
DrainFlag(d) ==
    /\ At(d, "flag")
    /\ aborted' = FALSE
    /\ Goto(d, AfterFlag)
    /\ UNCHANGED <<stateVars, turnVars, noticeVars, driver, call, outVars,
                   turnState, released, drainIdle, accepted>>

DrainLeft(d) ==
    /\ At(d, "left")
    /\ IF queue # <<>> THEN Goto(d, "top")
       ELSE drain' = [drain EXCEPT ![d].pc = "fin", ![d].broke = TRUE]
    /\ UNCHANGED <<stateVars, turnVars, noticeVars, driver, call, outVars,
                   sessionVars>>

DrainSlot(d) ==
    /\ At(d, "slot")
    /\ Goto(d, IF noticeSlot # {} THEN "take" ELSE "top")
    /\ UNCHANGED <<stateVars, turnVars, noticeVars, driver, call, outVars,
                   sessionVars>>

\* run_notice_slot_turn takes the slot, then reads the children's records.
TakeNotice(d) ==
    /\ At(d, "take")
    /\ noticeSlot' = {}
    /\ drain' = [drain EXCEPT
                   ![d].pc = IF noticeSlot = {} THEN "top" ELSE "prune",
                   ![d].kids = noticeSlot]
    /\ UNCHANGED <<stateVars, turnVars, promoted, activeNotice, told, driver,
                   call, outVars, sessionVars>>

\* Children that no longer wait are pruned; the rest are announced by a notice
\* turn under a fresh id, registered active only after one more await.
PruneNotice(d) ==
    /\ At(d, "prune")
    /\ \E kids \in SUBSET drain[d].kids, n \in NoticeIds \ accepted :
         IF kids = {}
         THEN /\ drain' = [drain EXCEPT ![d].pc = "top", ![d].kids = {}]
              /\ UNCHANGED <<activeNotice, accepted>>
         ELSE /\ activeNotice' = kids
              /\ accepted' = accepted \cup {n}
              /\ drain' = [drain EXCEPT ![d].pc = "begin", ![d].turn = n,
                                        ![d].kids = {}]
    /\ UNCHANGED <<stateVars, turnVars, noticeSlot, promoted, told, driver,
                   call, outVars, aborted, turnState, released, drainIdle>>

-----------------------------------------------------------------------------
(* steer_queued_head, on the drain task of the running turn.                *)

\* The head is marked under the lock that found it eligible, and stays queued.
SteerCheck(d) ==
    /\ At(d, "steer")
    /\ IF ~released /\ HeadSteers
       THEN /\ steering' = Head(queue)
            /\ drain' = [drain EXCEPT ![d].pc = "steerRpc",
                                      ![d].head = Head(queue)]
       ELSE Goto(d, "turn") /\ UNCHANGED steering
    /\ UNCHANGED <<queue, held, ahead, arrived, carries, turnVars, noticeVars,
                   driver, call, outVars, sessionVars>>

HeadOut_WithoutRemoval(d) == UNCHANGED queue

\* The steered turn leaves the queue by id, if it is still there.
HeadOut(d) ==
    \/ /\ drain[d].head \notin ToSet(queue)
       /\ UNCHANGED queue
    \/ \E i \in DOMAIN queue :
         /\ queue[i] = drain[d].head
         /\ queue' = RemoveAt(queue, i)

\* Injected: the agent has it.
SteerInjected(d) ==
    /\ At(d, "steerRpc")
    /\ delivered' = [delivered EXCEPT ![drain[d].head] = @ + 1]
    /\ steering' = NoTurn
    /\ HeadOut(d)
    /\ turnState' = IdleState(queue')
    /\ Goto(d, "steerRow")
    /\ UNCHANGED <<held, ahead, arrived, carries, turnVars, noticeVars,
                   driver, call, rows, reports, aborted, released, drainIdle,
                   accepted>>

\* The user row of what the agent was given; then the next head is tried.
SteerRow(d) ==
    /\ At(d, "steerRow")
    /\ rows' = WithRow(drain[d].head, "user")
    /\ drain' = [drain EXCEPT ![d].pc = "steer", ![d].head = NoTurn,
                              ![d].tries = 0]
    /\ UNCHANGED <<stateVars, turnVars, noticeVars, driver, call, reports,
                   delivered, sessionVars>>

\* PromptRequired: the head stays queued and is tried again a few times.
SteerTooEarly(d) ==
    /\ At(d, "steerRpc")
    /\ steering' = NoTurn
    /\ drain' = [drain EXCEPT
                   ![d].pc = IF drain[d].tries + 1 >= SteerTries THEN "turn"
                             ELSE "steer",
                   ![d].tries = IF @ + 1 >= SteerTries THEN 0 ELSE @ + 1,
                   ![d].head = NoTurn]
    /\ UNCHANGED <<queue, held, ahead, arrived, carries, turnVars, noticeVars,
                   driver, call, outVars, sessionVars>>

\* Unsupported, or no answer within STEER_RPC_TIMEOUT: the head stays queued.
\* An answer that is merely late comes from an agent that has the message.
SteerFailed(d) ==
    /\ At(d, "steerRpc")
    /\ \/ UNCHANGED delivered
       \/ /\ SteerMayTimeOut
          /\ delivered' = [delivered EXCEPT ![drain[d].head] = @ + 1]
    /\ steering' = NoTurn
    /\ drain' = [drain EXCEPT ![d].pc = "turn", ![d].tries = 0,
                              ![d].head = NoTurn]
    /\ UNCHANGED <<queue, held, ahead, arrived, carries, turnVars, noticeVars,
                   driver, call, rows, reports, sessionVars>>

-----------------------------------------------------------------------------
(* The finally block of drain_loop.  (Its lifecycle write is the subject of *)
(* another module.)                                                         *)

DrainFin(d) ==
    /\ At(d, "fin")
    /\ running' = FALSE
    /\ turnState' = IF queue # <<>> THEN "queued"
                    ELSE IF turnState = "error" THEN "error" ELSE "idle"
    /\ Goto(d, "signal")
    /\ UNCHANGED <<stateVars, active, dispatched, wake, cancelled,
                   firstTurnDone, noticeVars, driver, call, outVars, aborted,
                   released, drainIdle, accepted>>

IdleSignal_WithoutCheck == TRUE

\* Signal idle, unless a new drain has already started.
IdleSignal == drainIdle \/ ~running

DrainSignal(d) ==
    /\ At(d, "signal")
    /\ drainIdle' = IdleSignal
    /\ Goto(d, "rekick")
    /\ UNCHANGED <<stateVars, turnVars, noticeVars, driver, call, outVars,
                   aborted, turnState, released, accepted>>

OwesRekick_WithoutQueue(d) == noticeSlot # {} /\ ~drain[d].broke
OwesRekick_WithoutNotice(d) == queue # <<>>
OwesRekick_WithoutAnything(d) == FALSE

\* Re-kick for turns that arrived meanwhile, and for a notice unless this
\* drain broke off for an abort (FIX-G2).  The task is over.
OwesRekick(d) == queue # <<>> \/ (noticeSlot # {} /\ ~drain[d].broke)

DrainRekick(d) ==
    /\ At(d, "rekick")
    /\ LET ds == [drain EXCEPT ![d] = OffDrain]
       IN IF OwesRekick(d) THEN KickDrain(ds)
          ELSE drain' = ds /\ UNCHANGED <<running, drainIdle>>
    /\ UNCHANGED <<stateVars, active, dispatched, wake, cancelled,
                   firstTurnDone, noticeVars, driver, call, outVars, aborted,
                   turnState, released, accepted>>

-----------------------------------------------------------------------------
TurnStep(d) ==
    \/ TurnStopped(d) \/ TurnWoken(d) \/ TurnEvent(d) \/ TurnClosed(d)
    \/ TurnEnd(d)

SteerStep(d) ==
    \/ SteerCheck(d) \/ SteerInjected(d) \/ SteerRow(d)
    \/ SteerTooEarly(d) \/ SteerFailed(d)

NoticeStep(d) ==
    DrainPromo(d) \/ DrainSlot(d) \/ TakeNotice(d) \/ PruneNotice(d)

DrainStep(d) ==
    \/ DrainStart(d) \/ DrainTop(d) \/ DrainInner(d) \/ DrainPop(d)
    \/ DrainRow(d) \/ DrainBegin(d) \/ TurnStep(d) \/ SteerStep(d)
    \/ DrainAfter(d) \/ DrainFlag(d) \/ DrainLeft(d) \/ NoticeStep(d)
    \/ DrainFin(d) \/ DrainSignal(d) \/ DrainRekick(d)

DriverStep(t) ==
    \/ DriverConnect(t) \/ DriverPrompt(t) \/ DriverError(t)
    \/ DriverResult(t) \/ DriverQuit(t)

\* A call under way goes on by itself ...
CallStep(c) ==
    \/ PushTurn(c) \/ KickCall(c) \/ SubmitInjected(c) \/ SubmitRefused(c)
    \/ SubmitRow(c) \/ SubmitEnqueue(c) \/ CancelRow(c) \/ StopCaptured(c)
    \/ ReleaseLatch(c) \/ ReleaseClear(c) \/ AbortAndDrain(c)
    \/ ReleaseDispose(c)

\* ... and a new one is up to the user, or to a subagent that stops.
Request(c) ==
    \/ \E t \in Turns :
         \/ Enqueue(c, t) \/ Submit(c, t) \/ CancelQueued(c, t)
         \/ BeginEdit(c, t) \/ Promote(c, t)
         \/ \E keep \in BOOLEAN : Resubmit(c, t, keep)
    \/ \E k \in Children : Populate(c, k) \/ PruneChild(c, k)
    \/ Stop(c) \/ PromoteNotice(c) \/ Dismiss(c) \/ ReleaseSweep(c)

Next ==
    \/ \E d \in Drains : DrainStep(d)
    \/ \E t \in TurnIds : DriverStep(t)
    \/ \E c \in Callers : CallStep(c) \/ Request(c)

Spec == Init /\ [][Next]_vars

\* The runtime keeps polling a runnable task; a driver always ends, because
\* the watchdog and the prompt's own idle timeout bound its wait.  Nothing
\* makes a user act.
FairSpec ==
    /\ Spec
    /\ \A d \in Drains : WF_vars(DrainStep(d))
    /\ \A t \in TurnIds : WF_vars(DriverStep(t))
    /\ \A c \in Callers : WF_vars(CallStep(c))
-----------------------------------------------------------------------------
(* Properties.                                                              *)

QueueOK ==
    /\ queue \in Seq(Turns)
    /\ held \subseteq Turns
    /\ ahead \in [Turns -> SUBSET Turns]
    /\ arrived \in Seq(Turns)
    /\ carries \subseteq Turns
    /\ steering \in Turns \cup {NoTurn}

TurnOK ==
    /\ running \in BOOLEAN
    /\ active \in TurnIds \cup {NoTurn}
    /\ dispatched \in BOOLEAN
    /\ wake \in BOOLEAN
    /\ cancelled \subseteq TurnIds
    /\ firstTurnDone \in BOOLEAN
    /\ aborted \in BOOLEAN
    /\ turnState \in {"idle", "queued", "busy", "error"}
    /\ released \in BOOLEAN
    /\ drainIdle \in BOOLEAN

NoticeOK ==
    /\ noticeSlot \subseteq Children
    /\ promoted \in BOOLEAN
    /\ activeNotice \subseteq Children
    /\ told \subseteq Children

\* A drain task or a call that deals with a turn knows which.
KnowsTurn(r) ==
    /\ r.pc = "row" => r.turn \in Turns
    /\ r.pc \in {"begin", "turn", "steer", "steerRpc", "steerRow", "end"} =>
           r.turn \in TurnIds
    /\ r.pc \in {"steerRpc", "steerRow"} => r.head \in Turns

DrainOK ==
    /\ drain \in [Drains -> DrainTask]
    /\ \A d \in Drains : KnowsTurn(drain[d])

CallOK ==
    /\ call \in [Callers -> ClientCall]
    /\ \A c \in Callers :
         call[c].pc \in {"steerRpc", "steerRow", "enqueue", "push", "cancelRow"}
             => call[c].turn \in Turns

OutOK ==
    /\ driver \in [TurnIds -> DriverStates]
    /\ accepted \subseteq TurnIds
    /\ rows \in [Turns -> SUBSET {"user", "cancelled"}]
    /\ reports \in [Turns -> SUBSET {"persisted", "cancelled"}]
    /\ delivered \in [Turns -> Nat]

TypeOK == QueueOK /\ TurnOK /\ NoticeOK /\ DrainOK /\ CallOK /\ OutOK

\* `running` is TRUE exactly while one drain task is in its loop: kick_drain's
\* check-and-set under the state lock admits no second drain, and no drain
\* leaves its loop without clearing the flag.
SingleDrain ==
    /\ running <=> \E d \in Drains : InLoop(d)
    /\ \A d, e \in Drains : InLoop(d) /\ InLoop(e) => d = e

\* Nobody who awaits settled() is released while a drain runs, although the
\* idle signal of one drain and the busy signal of the next race.
SettledIsIdle == drainIdle => ~running

\* Where turn t is.  A turn is in one place: in the hands of the call that
\* brings it in, steers it or cancels it; in the queue; held for editing; in
\* the hands of the drain; or written to the transcript or started.
Places(t) ==
    LET inCall == \E c \in Callers :
                     /\ call[c].turn = t
                     /\ call[c].pc \in {"steerRpc", "steerRow", "enqueue",
                                        "push", "cancelRow"}
        inHand == \E d \in Drains :
                     \/ drain[d].turn = t /\ drain[d].pc \in {"row", "begin"}
                     \/ drain[d].head = t /\ drain[d].pc = "steerRow"
        past   == rows[t] # {} \/ driver[t] # "none"
    IN [call |-> inCall, queue |-> t \in ToSet(queue), held |-> t \in held,
        drain |-> inHand, past |-> past]

\* Every turn a client sent is in exactly one place (and in the queue at most
\* once), whatever is cancelled, edited, resubmitted, promoted, stopped or
\* steered around it: no message is lost and none is duplicated.
NoTurnLost ==
    /\ IsInjective(queue)
    /\ \A t \in accepted \cap Turns :
         LET p == Places(t)
         IN \E only \in DOMAIN p :
              \/ \A k \in DOMAIN p : p[k] <=> k = only
              \/ p = [call |-> FALSE, queue |-> FALSE, held |-> FALSE,
                      drain |-> TRUE, past |-> TRUE]

\* The agent is given each message once: a head that was steered does not run
\* again, and a steer that failed has not reached the agent.
DeliveredAtMostOnce == \A t \in Turns : delivered[t] <= 1

\* Nothing is in progress: no drain task, no call.
Quiet == /\ \A d \in Drains : At(d, "off")
         /\ \A c \in Callers : call[c].pc = "idle"

\* A session at rest has run everything it was sent: the re-kick of one drain,
\* the kicks of the calls and the guard of kick_drain never leave a turn queued
\* with nobody to run it, nor a state that says it is busy.
NoStrandedQueue ==
    Quiet /\ ~released =>
        /\ queue = <<>>
        /\ turnState \in {"idle", "error"}
        /\ drainIdle
        /\ active = NoTurn

\* FIX-G: "prevents the notice slot from firing immediately after a
\* user-initiated abort": a drain does not go on from a turn that was stopped
\* to a notice turn nobody asked for.
NoNoticeRightAfterStop ==
    [][\A d \in Drains :
         At(d, "slot") /\ drain'[d].pc = "take" =>
             drain[d].prev \notin cancelled]_vars

\* KD-2: a notice is left waiting at rest only because a turn was stopped.
NoticeNotForgotten ==
    Quiet /\ ~released /\ noticeSlot # {} => cancelled # {}

\* Dismissing a notice stops the notice turn if it runs, and never a human one,
\* although the stop comes after the lock that found active_notice set.
DismissSparesHumans ==
    [][\A c \in Callers :
         call[c].pc = "stop" /\ call'[c].pc = "idle" =>
             cancelled' \cap Turns = cancelled \cap Turns]_vars

\* Review comments that went to the agent with a turn are not also back in the
\* panel.
NotBothPanelAndAgent ==
    \A t \in carries : delivered[t] > 0 => "cancelled" \notin reports[t]

\* At rest, the comments of every review turn have been settled: they went with
\* a persisted turn or back to the panel, even if the session was released
\* while the turn was being sent, popped or edited.
ReviewNeverStranded ==
    Quiet => \A t \in (accepted \cap ReviewTurns) \ held : reports[t] # {}

\* Once a release has cleared the queue, every turn that is still on its way to
\* the agent, or with it, has been cancelled.
ReleaseLeavesNoLiveTurn ==
    released /\ (\A c \in Callers : call[c].pc \notin {"clear", "abort"}) =>
        \A t \in TurnIds :
            driver[t] \in {"connecting", "prompted"} => t \in cancelled

\* After release() latches, no drain starts; and until then no re-kick, kick or
\* populate is lost, so the drain unwinds and settled() returns.
ReleaseUnwinds == released ~> [](drainIdle /\ ~running)

\* Every queued turn leaves the queue: it runs, is steered, withdrawn or held,
\* unless the session is released.
QueuedTurnLeaves ==
    \A t \in Turns : t \in ToSet(queue) ~> t \notin ToSet(queue) \/ released

\* What the engine is for its clients (while the session is not released): the
\* ledger of TurnLedger, where a turn is withdrawn from the moment it leaves
\* the queue or the hold to be cancelled, and taken from the moment the drain
\* pops it or a steer injects it.
Status(t) ==
    LET withdrawn == \/ "cancelled" \in rows[t]
                     \/ \E c \in Callers :
                          call[c].turn = t /\ call[c].pc = "cancelRow"
        steered   == \E c \in Callers :
                          call[c].turn = t /\ call[c].pc = "steerRow"
    IN IF t \notin accepted THEN "new"
       ELSE IF withdrawn THEN "withdrawn"
       ELSE IF t \in held THEN "editing"
       ELSE IF steered \/ Places(t).drain \/ Places(t).past THEN "taken"
       ELSE "waiting"

Ledger == INSTANCE TurnLedger WITH
              Messages <- Turns,
              status <- [t \in Turns |-> Status(t)],
              given <- delivered

\* The engine implements the ledger: each step of a client, the drain or a
\* driver is a step of one message's ledger or none.
ImplementsLedger == Ledger!LedgerSpec

-----------------------------------------------------------------------------
\* What the code does not keep (README, "Where code and comments part").

\* Turns that were only held and resubmitted are queued in the order they came:
\* not so when two turns are held at once.
EditKeepsOrder ==
    \A i, j \in DOMAIN queue : i < j =>
        \E k, l \in DOMAIN arrived :
            k < l /\ arrived[k] = queue[i] /\ arrived[l] = queue[j]
=============================================================================
