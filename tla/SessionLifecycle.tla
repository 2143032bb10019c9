-------------------------- MODULE SessionLifecycle --------------------------
(***************************************************************************)
(* The lifecycle of a Rich Chat session ("working", "waiting for the        *)
(* human", ...) as the store and the clients see it: lifecycle.rs,          *)
(* background.rs and boot_sweep.rs of vst-agents, with the parts of the     *)
(* turn engine, of the task registry and of the daemon's start-up that feed *)
(* them.                                                                    *)
(*                                                                          *)
(* The lifecycle is derived from evidence held in memory: a running or      *)
(* queued turn, the window opened by out-of-band events, and background     *)
(* tasks.  Many tasks derive and write it; they exclude each other with     *)
(* `lifecycle_lock`, but the evidence sits behind other locks and changes   *)
(* while a writer is at work.  One action is one critical section of        *)
(* `state` or of the task registry, or one write of the store.  Taking      *)
(* lifecycle_lock is one action with the first section under it.            *)
(***************************************************************************)
EXTENDS Naturals

CONSTANTS
    Drains,     \* drain tasks (the tail of one may overlap the next)
    Callers,    \* client calls
    Spawned,    \* tasks of spawn_reconcile
    Timer,      \* the quiet timer of the out-of-band window
    Follower,   \* the follower of the registry's hold channel
    NoTask,     \* nobody holds lifecycle_lock
    MaxQueue,   \* bound on the turns queued at a time
    Ops         \* the calls and events this instance allows

Tasks == Drains \cup Callers \cup Spawned \cup {Timer, Follower}

ASSUME LifecycleAssumption ==
    /\ Drains \cap (Callers \cup Spawned) = {}
    /\ Callers \cap Spawned = {}
    /\ Timer # Follower
    /\ {Timer, Follower} \cap (Drains \cup Callers \cup Spawned) = {}
    /\ NoTask \notin Tasks
    /\ MaxQueue \in Nat

VARIABLES
    queued,     \* how many turns are queued
    notice,     \* is a subagent notice waiting?
    running,    \* State.running
    released,   \* Inner.released
    unann,      \* State.turn_end_unannounced
    window,     \* State.bg_working
    quiet,      \* bg_deadline has passed
    current,    \* does the quiet timer know the current bg_gen?
    hold,       \* does a live task (or its grace) hold the session?
    told,       \* the value in the registry's watch channel
    sending,    \* values mutations are about to send into it
    wakeup,     \* the channel has changed since the follower looked
    lock,       \* the task that holds lifecycle_lock
    last,       \* State.last_written and last_written_reason
    stored,     \* the lifecycle in the store, broadcast right after
    task        \* the tasks

engineVars   == <<queued, notice, running, released>>
windowVars   == <<window, quiet, current>>
registryVars == <<hold, told, sending, wakeup>>
vars == <<engineVars, unann, windowVars, registryVars, lock, last, stored,
          task>>

-----------------------------------------------------------------------------
(* Lifecycles: the state with its reason.                                   *)

Waiting == {"ready", "waiting", "settled"}    \* WaitingForHuman
Working == {"working", "notice", "background", "turnEnded"}
Lifecycles == Waiting \cup Working \cup {"idle", "done"}

\* derive: what no running turn leaves to say.  "waiting" is the
\* WaitingForHuman(None) that tells the parent session a turn ended.
Derive(open, held, owed) ==
    IF open \/ held THEN IF owed THEN "turnEnded" ELSE "background"
    ELSE IF owed THEN "waiting" ELSE "settled"

-----------------------------------------------------------------------------
(* Tasks.  `job` is what a task wants the lock for; `to` is what it is about *)
(* to write; `open` and `owed` are evidence it has read.                    *)

LockedPcs == {"read", "weigh", "clear", "write", "store"}
Pcs == {"off", "wait", "loop", "turn", "fin", "tail", "check", "watch", "kick",
        "latch", "empty", "sync", "abort", "done"} \cup LockedPcs
Jobs == {"none", "reconcile", "human", "notice", "settle"}

Task == [pc : Pcs, job : Jobs, to : Lifecycles, open : BOOLEAN,
         owed : BOOLEAN]

OffTask == [pc |-> "off", job |-> "none", to |-> "ready", open |-> FALSE,
            owed |-> FALSE]

At(w, p) == task[w].pc = p

AtPc(p) == [OffTask EXCEPT !.pc = p]

Wanting(j) == [OffTask EXCEPT !.pc = "wait", !.job = j]

Goto(w, p) == task' = [task EXCEPT ![w] = AtPc(p)]

\* Where a task goes on once it has given lifecycle_lock up.
Back(w) ==
    IF w \in Drains THEN IF task[w].job = "notice" THEN "turn" ELSE "tail"
    ELSE IF w = Timer THEN "check"
    ELSE IF w = Follower THEN "watch"
    ELSE "off"

Finish(w) == lock' = NoTask /\ Goto(w, Back(w))

Wants_WithoutLock(w, j) == At(w, "wait") /\ task[w].job = j

\* A task that waits for lifecycle_lock may have it.
Wants(w, j) == At(w, "wait") /\ task[w].job = j /\ lock = NoTask

-----------------------------------------------------------------------------
(* The engine's evidence, shared by several handlers.                       *)

\* A running or queued turn owns the lifecycle.
Live == running \/ queued > 0

\* kick_drain: start a drain, which closes the window under a new generation.
KickDrain(ts) ==
    IF ~running /\ ~released /\ (queued > 0 \/ notice)
    THEN /\ \E d \in Drains :
              /\ ts[d].pc = "off"
              /\ task' = [ts EXCEPT ![d] = AtPc("loop")]
         /\ running' = TRUE
         /\ window' = FALSE
         /\ current' = FALSE
    ELSE /\ task' = ts
         /\ UNCHANGED <<running, window, current>>

-----------------------------------------------------------------------------
\* A session is created when it is first needed, from the lifecycle stored.
Init ==
    /\ queued = 0 /\ notice = FALSE /\ running = FALSE /\ released = FALSE
    /\ unann = FALSE
    /\ window = FALSE /\ quiet = FALSE /\ current = FALSE
    /\ hold = FALSE /\ told = FALSE /\ sending = {} /\ wakeup = FALSE
    /\ lock = NoTask
    /\ last = "ready" /\ stored = "ready"
    /\ task = [w \in Tasks |-> IF w = Follower THEN AtPc("watch") ELSE OffTask]

-----------------------------------------------------------------------------
(* reconcile_lifecycle, reconcile_lifecycle_locked, write_lifecycle_locked.  *)

ReadInputs_WithoutRunning(w) ==
    /\ lock' = w
    /\ task' = [task EXCEPT ![w].pc = "weigh", ![w].open = window,
                            ![w].owed = unann]

\* Read the session's own evidence; nothing to do for a released session, nor
\* while a turn is live.
ReadInputs(w) ==
    IF released \/ Live THEN Finish(w)
    ELSE /\ lock' = w
         /\ task' = [task EXCEPT ![w].pc = "weigh", ![w].open = window,
                                 ![w].owed = unann]

Reconcile(w) ==
    /\ Wants(w, "reconcile")
    /\ ReadInputs(w)
    /\ UNCHANGED <<engineVars, unann, windowVars, registryVars, last, stored>>

\* ... called by settle_background with the lock already held.
ReconcileLocked(w) ==
    /\ At(w, "read")
    /\ ReadInputs(w)
    /\ UNCHANGED <<engineVars, unann, windowVars, registryVars, last, stored>>

KeepsReason_WithoutOwed(target, owed) == target \in Waiting /\ last \in Waiting

\* A session that waits with nothing to announce keeps its stored reason.
KeepsReason(target, owed) ==
    target \in Waiting /\ last \in Waiting /\ ~owed

\* The registry is asked (which also publishes its value) and the target
\* derived.  What is already written is not written again.
Weigh(w) ==
    /\ At(w, "weigh")
    /\ told' = hold
    /\ wakeup' = (wakeup \/ told # hold)
    /\ LET target == Derive(task[w].open, hold, task[w].owed)
       IN IF KeepsReason(target, task[w].owed)
          THEN Finish(w)
          ELSE IF target = "waiting"
          THEN /\ task' = [task EXCEPT ![w].pc = "clear", ![w].to = target]
               /\ UNCHANGED lock
          ELSE IF target = last
          THEN Finish(w)
          ELSE /\ task' = [task EXCEPT ![w].pc = "write", ![w].to = target]
               /\ UNCHANGED lock
    /\ UNCHANGED <<engineVars, unann, windowVars, hold, sending, last, stored>>

\* The turn end is about to be announced.
ClearOwed(w) ==
    /\ At(w, "clear")
    /\ unann' = FALSE
    /\ IF task[w].to = last THEN Finish(w)
       ELSE /\ task' = [task EXCEPT ![w].pc = "write"]
            /\ UNCHANGED lock
    /\ UNCHANGED <<engineVars, windowVars, registryVars, last, stored>>

\* write_lifecycle_locked looks at the release latch inside the lock.
Write(w) ==
    /\ At(w, "write")
    /\ IF released THEN Finish(w) /\ UNCHANGED last
       ELSE /\ last' = task[w].to
            /\ task' = [task EXCEPT ![w].pc = "store"]
            /\ UNCHANGED lock
    /\ UNCHANGED <<engineVars, unann, windowVars, registryVars, stored>>

\* The store has the row; it is broadcast and the lock given up.
Store(w) ==
    /\ At(w, "store")
    /\ stored' = task[w].to
    /\ Finish(w)
    /\ UNCHANGED <<engineVars, unann, windowVars, registryVars, last>>

-----------------------------------------------------------------------------
(* Client calls.                                                            *)

Starts(c, op) == op \in Ops /\ At(c, "off")

\* A human turn is queued, then the drain is kicked, then the route has
\* "working" written for it.
Send(c) ==
    /\ Starts(c, "send")
    /\ queued < MaxQueue
    /\ queued' = queued + 1
    /\ Goto(c, "kick")
    /\ UNCHANGED <<notice, running, released, unann, windowVars, registryVars,
                   lock, last, stored>>

KickSent(c) ==
    /\ At(c, "kick")
    /\ KickDrain([task EXCEPT ![c] = Wanting("human")])
    /\ UNCHANGED <<queued, notice, released, unann, quiet, registryVars, lock,
                   last, stored>>

\* write_working_for_human_turn: skipped if the turn is already over.
WriteWorking(c) ==
    /\ Wants(c, "human")
    /\ IF Live
       THEN /\ lock' = c
            /\ task' = [task EXCEPT ![c].pc = "write", ![c].to = "working"]
       ELSE Finish(c)
    /\ UNCHANGED <<engineVars, unann, windowVars, registryVars, last, stored>>

MayWithdraw_WithoutTurn == TRUE
MayWithdraw == queued > 0

\* A queued turn is cancelled, or held for editing.
Withdraw(c) ==
    /\ Starts(c, "withdraw")
    /\ MayWithdraw
    /\ queued' = queued - 1
    /\ UNCHANGED <<notice, running, released, unann, windowVars, registryVars,
                   lock, last, stored, task>>

\* populate_notice_slot, with the kick it spawns.
Notify ==
    /\ "notice" \in Ops
    /\ ~notice /\ ~released
    /\ notice' = TRUE
    /\ UNCHANGED <<queued, running, released, unann, windowVars, registryVars,
                   lock, last, stored, task>>

KickNotice ==
    /\ notice
    /\ KickDrain(task)
    /\ UNCHANGED <<queued, notice, released, unann, quiet, registryVars, lock,
                   last, stored>>

\* The engine is in the registry until a mark-done takes it out.
Registered == ~released /\ \A c \in Callers : ~At(c, "latch")

\* Mark-done, of a session not yet stored as done.  It takes the engine out of
\* the registry and releases it; one that finds it taken by another mark-done
\* has nothing to release, nor to wait for, and goes straight to its own write.
Release(c) ==
    /\ Starts(c, "release")
    /\ stored # "done"
    /\ Goto(c, IF Registered THEN "latch" ELSE "done")
    /\ UNCHANGED <<engineVars, unann, windowVars, registryVars, lock, last,
                   stored>>

\* release_with: the latch,
ReleaseLatch(c) ==
    /\ At(c, "latch")
    /\ released' = TRUE
    /\ Goto(c, "empty")
    /\ UNCHANGED <<queued, notice, running, unann, windowVars, registryVars,
                   lock, last, stored>>

\* then the notice slot and the window,
ReleaseEmpty(c) ==
    /\ At(c, "empty")
    /\ notice' = FALSE
    /\ window' = FALSE /\ current' = FALSE
    /\ Goto(c, "sync")
    /\ UNCHANGED <<queued, running, released, unann, quiet, registryVars,
                   lock, last, stored>>

InFlight_WithoutLock == FALSE

\* Is a lifecycle write under way?
InFlight == lock # NoTask

\* The release waits out a write in flight.
ReleaseSync(c) ==
    /\ At(c, "sync")
    /\ ~InFlight
    /\ Goto(c, "abort")
    /\ UNCHANGED <<engineVars, unann, windowVars, registryVars, lock, last,
                   stored>>

ReleaseAbort(c) ==
    /\ At(c, "abort")
    /\ queued' = 0
    /\ hold' = FALSE
    /\ Goto(c, "done")
    /\ UNCHANGED <<notice, running, released, unann, windowVars, told,
                   sending, wakeup, lock, last, stored>>

\* The store's row and the broadcast of mark_done.
MarkDone(c) ==
    /\ At(c, "done")
    /\ stored' = "done"
    /\ Goto(c, "off")
    /\ UNCHANGED <<engineVars, unann, windowVars, registryVars, lock, last>>

-----------------------------------------------------------------------------
(* The drain task, as far as the lifecycle sees it.                         *)

\* Run the next turn,
DrainTurn(d) ==
    /\ At(d, "loop")
    /\ queued > 0
    /\ queued' = queued - 1
    /\ Goto(d, "turn")
    /\ UNCHANGED <<notice, running, released, unann, windowVars, registryVars,
                   lock, last, stored>>

\* or the notice turn, for which the drain itself writes "working",
DrainNotice(d) ==
    /\ At(d, "loop")
    /\ notice
    /\ notice' = FALSE
    /\ task' = [task EXCEPT ![d] = Wanting("notice")]
    /\ UNCHANGED <<queued, running, released, unann, windowVars, registryVars,
                   lock, last, stored>>

\* (unless no child it names is waiting any more),
DrainPrune(d) ==
    /\ At(d, "loop")
    /\ notice
    /\ notice' = FALSE
    /\ UNCHANGED <<queued, running, released, unann, windowVars, registryVars,
                   lock, last, stored, task>>

WriteNotice(d) ==
    /\ Wants(d, "notice")
    /\ lock' = d
    /\ task' = [task EXCEPT ![d].pc = "write", ![d].to = "notice"]
    /\ UNCHANGED <<engineVars, unann, windowVars, registryVars, last, stored>>

TurnOver(d) ==
    /\ At(d, "turn")
    /\ Goto(d, "loop")
    /\ UNCHANGED <<engineVars, unann, windowVars, registryVars, lock, last,
                   stored>>

\* or leave the loop (after a stop, with a notice still waiting).
DrainLeave(d) ==
    /\ At(d, "loop")
    /\ released \/ queued = 0
    /\ Goto(d, "fin")
    /\ UNCHANGED <<engineVars, unann, windowVars, registryVars, lock, last,
                   stored>>

\* The finally block gives `running` up, owing the announcement of a turn's
\* end, reconciles,
DrainFin(d) ==
    /\ At(d, "fin")
    /\ running' = FALSE
    /\ unann' = TRUE
    /\ task' = [task EXCEPT ![d] = Wanting("reconcile")]
    /\ UNCHANGED <<queued, notice, released, windowVars, registryVars, lock,
                   last, stored>>

\* and kicks again for turns queued meanwhile and, unless it broke off for an
\* abort, for a notice.
DrainTail(d) ==
    /\ At(d, "tail")
    /\ LET ts == [task EXCEPT ![d] = OffTask]
       IN \/ KickDrain(ts)
          \/ /\ queued = 0
             /\ task' = ts
             /\ UNCHANGED <<running, window, current>>
    /\ UNCHANGED <<queued, notice, released, unann, quiet, registryVars, lock,
                   last, stored>>

-----------------------------------------------------------------------------
(* The out-of-band window.                                                  *)

\* The opener asks for a write unless the last one already says "working".
NeedsWrite == last \notin Working

\* note_background_activity.  (Looks at the latch before it persists the
\* event: one that was let through may arrive after it went up.)  A heartbeat
\* extends an open window too.
Content(r) ==
    /\ "content" \in Ops
    /\ ~running
    /\ window' = TRUE
    /\ quiet' = FALSE
    /\ current' = (current /\ window)
    /\ At(r, "off")
    /\ task' = [w \in Tasks |->
                  IF w = r /\ NeedsWrite THEN Wanting("reconcile")
                  ELSE IF w = Timer /\ At(Timer, "off") THEN AtPc("check")
                  ELSE task[w]]
    /\ UNCHANGED <<engineVars, unann, registryVars, lock, last, stored>>

\* Nothing has come for BACKGROUND_QUIET_MS.
Quieten ==
    /\ window /\ ~quiet
    /\ quiet' = TRUE
    /\ UNCHANGED <<engineVars, unann, window, current, registryVars, lock,
                   last, stored, task>>

TimerMayExit_WithoutWindow == ~current \/ released

\* run_background_timer: exit if the window is closed, else sleep until the
\* deadline, then settle the generation it read.
TimerMayExit == ~window \/ released

TimerExit ==
    /\ At(Timer, "check")
    /\ TimerMayExit
    /\ Goto(Timer, "off")
    /\ UNCHANGED <<engineVars, unann, windowVars, registryVars, lock, last,
                   stored>>

TimerFire ==
    /\ At(Timer, "check")
    /\ window /\ quiet /\ ~released
    /\ current' = TRUE
    /\ task' = [task EXCEPT ![Timer] = Wanting("settle")]
    /\ UNCHANGED <<engineVars, unann, window, quiet, registryVars, lock, last,
                   stored>>

\* settle_background, under the lock: only if that window is still open and
\* still quiet, and no drain or release came in between.
MaySettle == window /\ current /\ ~running /\ quiet /\ ~released

Settle ==
    /\ Wants(Timer, "settle")
    /\ IF MaySettle
       THEN /\ window' = FALSE
            /\ lock' = Timer
            /\ Goto(Timer, "read")
       ELSE /\ Finish(Timer)
            /\ UNCHANGED window
    /\ UNCHANGED <<engineVars, unann, quiet, current, registryVars, last,
                   stored>>

-----------------------------------------------------------------------------
(* The task registry and its follower.                                      *)

\* A background task starts or ends, or its grace does.
HoldChange ==
    /\ "hold" \in Ops
    /\ ~released
    /\ hold' = ~hold
    /\ sending' = sending \cup {~hold}
    /\ UNCHANGED <<engineVars, unann, windowVars, told, wakeup, lock, last,
                   stored, task>>

\* The value is sent once the registry's lock is dropped: two may cross.
SendHold(v) ==
    /\ v \in sending
    /\ sending' = sending \ {v}
    /\ told' = v
    /\ wakeup' = (wakeup \/ told # v)
    /\ UNCHANGED <<engineVars, unann, windowVars, hold, lock, last, stored,
                   task>>

\* start_hold_follower wakes whenever the channel has changed.
FollowHold ==
    /\ At(Follower, "watch")
    /\ wakeup
    /\ wakeup' = FALSE
    /\ task' = [task EXCEPT ![Follower] =
                  IF released THEN OffTask ELSE Wanting("reconcile")]
    /\ UNCHANGED <<engineVars, unann, windowVars, hold, told, sending, lock,
                   last, stored>>

-----------------------------------------------------------------------------
(* A crash or restart of the daemon.                                        *)

\* recover_json_session, run first: every working Rich Chat row becomes idle.
Recovered(s) == IF s \in Working THEN "idle" ELSE s

\* sweep_stale_background_working, run after it.
Swept(s) ==
    CASE s = "turnEnded" -> "waiting"
      [] s \in {"background", "notice"} -> "settled"
      [] OTHER -> s

Boot(s) == Swept(Recovered(s))

\* (A session that is done has no engine until it is resumed.)
Restart ==
    /\ "restart" \in Ops
    /\ stored # "done"
    /\ queued' = 0 /\ notice' = FALSE /\ running' = FALSE /\ released' = FALSE
    /\ unann' = FALSE
    /\ window' = FALSE /\ quiet' = FALSE /\ current' = FALSE
    /\ hold' = FALSE /\ told' = FALSE /\ sending' = {} /\ wakeup' = FALSE
    /\ lock' = NoTask
    /\ stored' = Boot(stored) /\ last' = stored'
    /\ task' = [w \in Tasks |-> IF w = Follower THEN AtPc("watch") ELSE OffTask]

-----------------------------------------------------------------------------
WriterStep(w) ==
    \/ Reconcile(w) \/ ReconcileLocked(w) \/ Weigh(w) \/ ClearOwed(w)
    \/ Write(w) \/ Store(w)

CallStep(c) ==
    \/ KickSent(c) \/ WriteWorking(c) \/ ReleaseLatch(c) \/ ReleaseEmpty(c)
    \/ ReleaseSync(c) \/ ReleaseAbort(c) \/ MarkDone(c)

Request(c) == Send(c) \/ Withdraw(c) \/ Release(c)

DrainStep(d) ==
    \/ DrainTurn(d) \/ DrainNotice(d) \/ DrainPrune(d) \/ WriteNotice(d)
    \/ TurnOver(d) \/ DrainLeave(d) \/ DrainFin(d) \/ DrainTail(d)

TimerStep == TimerExit \/ TimerFire \/ Settle

Next ==
    \/ \E w \in Tasks : WriterStep(w)
    \/ \E c \in Callers : CallStep(c) \/ Request(c)
    \/ \E d \in Drains : DrainStep(d)
    \/ \E r \in Spawned : Content(r)
    \/ TimerStep \/ Quieten
    \/ Notify \/ KickNotice
    \/ HoldChange \/ (\E v \in BOOLEAN : SendHold(v)) \/ FollowHold
    \/ Restart

Spec == Init /\ [][Next]_vars
-----------------------------------------------------------------------------
(* Properties.                                                              *)

TypeOK ==
    /\ queued \in 0..MaxQueue
    /\ notice \in BOOLEAN /\ running \in BOOLEAN /\ released \in BOOLEAN
    /\ unann \in BOOLEAN
    /\ window \in BOOLEAN /\ quiet \in BOOLEAN /\ current \in BOOLEAN
    /\ hold \in BOOLEAN /\ told \in BOOLEAN /\ wakeup \in BOOLEAN
    /\ sending \subseteq BOOLEAN
    /\ lock \in Tasks \cup {NoTask}
    /\ last \in Lifecycles /\ stored \in Lifecycles
    /\ task \in [Tasks -> Task]

\* Nobody is doing or about to do anything: what is stored stays until the
\* next call, event or expiry.
Rest ==
    /\ queued = 0 /\ ~released
    /\ sending = {} /\ ~wakeup
    /\ \A w \in Tasks : task[w].pc \in {"off", "check", "watch"}

\* "Correctness never depends on the interleaving" of the events the lifecycle
\* is derived from: at rest a live background task is shown as work, and a
\* session shown as working has a live task or an open window to show for it.
StoredHasReason ==
    Rest => /\ hold => stored \in Working
            /\ stored \in Working => hold \/ window

\* A turn end whose announcement is still owed at rest waits for background
\* work to end; it has not been forgotten.
TurnEndNotForgotten == Rest /\ unann => hold \/ window

\* Once the callers have had their say, a turn that runs is shown as work: no
\* settle, follower or drain that is late writes over it.
RunningTurnShown ==
    \A d \in Drains :
        At(d, "turn") /\ lock = NoTask /\ ~released
                /\ (\A c \in Callers : At(c, "off")) =>
            stored \in Working

\* The lifecycle last written, against which the next write is compared, is the
\* one stored, whenever no write is under way and nobody is marking it done.
LastIsStored == lock = NoTask /\ Registered => last = stored

\* An open window has a timer to close it, across generations.
WindowHasTimer == window /\ ~released => ~At(Timer, "off")

\* The done of the mark-done that releases the engine is the last write: once
\* nobody is marking it done any more, a released session is stored as done,
\* whatever writes were under way meanwhile, and stays so.
MarkingDone(c) == task[c].pc \in {"latch", "empty", "sync", "abort", "done"}
DoneAtLast == released /\ (\A c \in Callers : ~MarkingDone(c)) => stored = "done"

-----------------------------------------------------------------------------
\* What the code does not keep (README, "Where code and comments part").

\* No session at rest is stuck in "working": not so when a turn queued behind a
\* finishing drain is withdrawn.
NeverStuckWorking == Rest /\ stored \in Working => hold \/ window

\* A restart settles an unannounced turn end "visibly": into the waiting state
\* that still tells the parent session: not so, the pass before it hides the row.
TurnEndSurvivesRestart ==
    [][Restart /\ stored = "turnEnded" => stored' = "waiting"]_vars

\* "A caller's own post-release write (mark-done) is always the last": not so,
\* a second mark-done does not wait for the writes the first is waiting for.
MarkDoneIsLast == [][released /\ stored = "done" => stored' = "done"]_vars
=============================================================================
