# Formal model of vibe-station's session engine

vibe-station is a daemon (Rust, `rust/`) that runs coding agents in sessions and
serves a web UI (`web-ui/`) over HTTP and WebSocket. This directory holds TLA+
modules translated from the daemon's source, TLC configurations that check them
on small instances, and TLAPS proofs of theorems about them for every instance.

| Module | Models | Checked by | Proved in |
|---|---|---|---|
| `TurnEngine` | the turn engine of a Rich Chat session | `MCTurnEngine`: queue, notice, release, live | `TurnEngineProofs`, `TurnEngineSafety`, `TurnLedgerProofs` |
| `TurnLedger` | what the engine promises of one message (abstract) | refined in queue | `TurnLedgerProofs` |
| `SessionLifecycle` | the stored lifecycle of such a session | `MCSessionLifecycle`: lifecycle, at_rest | `SessionLifecycleProofs` |
| `ScheduledDelivery` | scheduled and immediate messages, and custody of the review comments they carry | `MCScheduledDelivery`: custody, claims, settle | `ScheduledDeliveryProofs`, `ScheduledCustodyProofs` |
| `TaskTable` | the table of background tasks, pure operators | through `TaskRegistry` | `TaskRegistryProofs` |
| `TaskRegistry` | the registry around that table: mutex, timer, flush, probes, rebuild | `MCTaskRegistry`: tasks, agents | `TaskRegistryProofs` |
| `LspManager` | the language servers of one workspace and language | `MCLspManager`: lsp | `LspManagerProofs` |

## 1. Inventory

| Part | State | Operations | Talks to |
|---|---|---|---|
| **Turn engine** `vst-agents/src/json_agent_session/` | per session, under one mutex (`State`): queue, editing holds, active turn, `running`, notice slot, abort flag, display state; atomic `released`; `settled()` watch channel | enqueue, submit (steer or enqueue), cancel, edit and resubmit, promote ("Send now"), stop, release, notice populate/prune/promote/dismiss; the drain task; one driver task per turn | routes call it; it calls the transcript store, the ACP connection, the review observer and the lifecycle mirror |
| **Lifecycle mirror** `lifecycle.rs`, `background.rs`, `boot_sweep.rs` | `last_written`, `turn_end_unannounced`, background window and generation; the stored `lifecycle` column | reconcile, write for a human turn, background activity/timer/settle, hold follower, boot sweep | drain tail, task registry, store, broadcaster |
| **ACP connection** `acp_connection.rs`, `acp_transport.rs`, `acp_run_turn.rs`, `json_agent_session/connection.rs` | per session: process, pending requests, model, health | connect, prompt, steer, cancel, set model, dispose | drivers, agent process |
| **Scheduled terminal delivery** `vst-review/src/terminal.rs`, `schedule.rs`, `vst-store/src/scheduled.rs`, `vst-lifecycle/src/schedule_poller.rs` | rows (pending, claimed, waiting, pasting, sent, failed); registered jobs and one worker per session; captured comments | schedule, send, poll, fire, paste, send now, cancel, retry, dismiss, switch channel, reset, delete, boot recovery | poller, review holds, tmux, turn engine |
| **Review holds** `vst-review/src/holds.rs`, `delivery.rs`, `boot.rs` | the comments table with holds; the payload of a row | take, adopt, restore, re-hold, settle as persisted or cancelled, boot reconciliation | turn engine (observer), scheduled delivery, store |
| **Task registry** `vst-tasks/src/`, `json_agent_session/tasks.rs`, `task_signals.rs` | per session, under one mutex: the table of tasks; the buffer of a rebuild, the epoch, the published hold | observe, turn ended, adapter gone, probe, touch, rebuild, shutdown; deadline timer, flush | sinks of the connection, lifecycle mirror (hold follower), clients |
| **Subagent notifier** `vst-lifecycle/src/subagent_notify.rs` | last known state of children | on a child's stop: claim and announce | notice slot, terminals |
| **Lifecycle poller, mutexes, PR poller** `vst-lifecycle/src/` | per-session async mutexes; cached PR state | poll, channel toggle | store, terminals |
| **Daemon lock and start-up** `vst-daemon/src/` | lock file, port | acquire, detect stale, boot sweeps | everything |
| **WebSocket hub** `vst-ws/src/` | connections, subscriptions, replay cursors | open, close, broadcast | turn engine events |
| **Reset carry** `vst-routes/src/reset_carry.rs` | queued turns and comments of the old session | take, hand to the new session | turn engine, holds |
| **LSP manager** `vst-lsp/src/` | the map of servers under an async mutex; per workspace and language the latched failure, the crash history, the dependency guard; per server its status and handshake latch | request, Retry, poll (re-probe), idle sweep; the lifecycle task of a server; a restart after a delay | editor requests, server processes |
| **Diffstat cache, fswatch, limits** | caches | invalidate | UI |
| Stores, HTTP routes, plugins, git/diff/proc helpers, CLI, types, web UI, desktop | mostly I/O and conversion | | |

What is hard here:

* *Concurrency.* Client calls run on any thread of a multi-threaded runtime. The
  turn engine gives up its mutex between the steps of nearly every operation:
  the pop of a turn, the write of its row and its registration as active are
  three critical sections; "Send now" reads the active turn under the lock and
  stops it after; a drain gives up `running`, then awaits, signals idle and
  looks at the queue again while the next drain may already run.
* *Ordering.* The idle signal of one drain and the busy signal of the next;
  the abort flag against the notice slot; a steer's answer against cancel, edit
  and promotion of the very turn being steered.
* *Partial failure.* A row that cannot be written on a live session: the turn
  runs, but its review comments must not.
* *Time-outs.* A steer that is answered after `STEER_RPC_TIMEOUT`.
* *Termination.* `release_with` races everything else, waits for the drain a
  bounded time and then disposes of the connection.
* *Crash and restart.* In-memory state is lost; the stored lifecycle, holds and
  schedule are reconciled at boot.

What makes each part correct:

* turn engine: one drain at a time; a turn sent is run, steered, withdrawn or
  held, and is in one place only; the agent never gets a message twice, nor one
  that was withdrawn; review comments are settled exactly one way; a stop stops
  what the user saw; a release leaves nothing running;
* lifecycle mirror: what is stored is what is true once everything is at rest;
  a turn end is announced once; no session is stuck in "working" by a crash;
* ACP connection: one process per session, disposed of once; a prompt runs with
  the model chosen for it;
* scheduled delivery: a message goes out once, and once more only after a Retry;
  every claim is in somebody's hands; every row settles in the end;
* review holds: a comment is in the panel, held, in a payload or delivered, never
  two of them and never none;
* task registry: what it publishes is what a fresh look would give; a rebuild from
  the transcript concludes what live observation did; no hold lasts for ever;
* LSP manager: one server process at a time and none over a latched failure; what is
  shown of a server is watched by somebody; an automatic retry that is promised is
  made; no request uses a server before its handshake is complete;
* daemon lock: one daemon; WebSocket hub: no message is skipped.

`PROJECT.json` lists every part with its status, and under "hazards" the places
in this code where a test would hardly reach what can go wrong.

## 2. How the modules are built, and in which order

Each state-machine module follows one component, one action per critical section
or per stretch of code between two awaits, with the parameters as CONSTANTS under
a named assumption and without RECURSIVE operators, so that it can be proved
about. The order was: the turn engine and its abstract ledger; the lifecycle
mirror that watches it; scheduled delivery together with the review holds, since
a comment's custody passes through both; the task registry, whose hold the
lifecycle mirror follows; the language servers, which stand alone.

How they compose: `SessionLifecycle` contains the drain and the hold channel
reduced to what the lifecycle sees of them; `ScheduledDelivery` contains a Rich
Chat turn reduced to queued, persisted or withdrawn, which is what `TurnEngine`
shows of it (`reports`); `TaskRegistry` extends `TaskTable`. Each module takes of
its neighbours every behaviour they can show, so what it proves does not depend
on their properties.

What would come next: the rest of the custody of comments (`NoCommentBack`,
`CommentOnce`) as theorems; the carry of queued chat turns over a reset; the poller of
terminal sessions and the subagent notifier; the replay cursors of the WebSocket hub.

## 3. The turn engine

`TurnEngine.tla` models `JsonAgentSession` (`mod.rs`, `queue.rs`, `drain.rs`,
`review.rs`, `connection.rs`) and the driver task (`acp_run_turn.rs`).

**Grain.** One action is one critical section of the `state` mutex (or of the
transcript store's), together with the lock-free code up to the next lock or
`await`. A step that only reads, but whose result is used after the lock was
dropped, is an action of its own.

**State.** The variables carry the names of the fields of `State` and
`ActiveTurn` wherever those exist (`queue`, `running`, `steering`, `aborted`,
`promoted`, `activeNotice`, `turnState`, ...); `held` and `ahead` are the two
parts of `holds`; `drainIdle` is the value in `drain_tx`, which `settled()`
awaits; `cancelled` is the set of turns whose cancellation token fired. Tasks
are records with a program counter: `drain[d]` for drain tasks (two are enough
for the tail of one to overlap the next: `running` admits one, and a task that
has cleared it takes three more steps), `driver[t]` for `run_turn_acp`, `call[c]`
for client calls. `rows`, `reports`, `delivered`, `accepted`, `told` and the
`prev` field of a drain task record what reached the transcript, the review
observer, the agent and the program, for the properties.

**Actions and code.**

| Actions | Code |
|---|---|
| Enqueue, PushTurn, KickCall | `enqueue_full`, `kick_drain` |
| Submit, SubmitInjected/Refused/Row/Enqueue | `submit_with` |
| CancelQueued, CancelRow | `cancel_queued_turn` |
| BeginEdit, Resubmit | `begin_edit_queued_turn`, `resubmit_queued_turn_with` |
| Promote, StopCaptured, Stop | `promote_queued_turn`, `stop_active_turn` |
| Populate, PruneChild, PromoteNotice, Dismiss | the notice-slot methods of `mod.rs` |
| ReleaseSweep, ReleaseLatch, ReleaseClear, AbortAndDrain, ReleaseDispose | `release_with`, `cancel_all_pending_turns`, `abort_and_drain` |
| DrainStart ... DrainLeft, DrainSlot | `drain_loop` |
| DrainRow | `persist_popped_turn_row` |
| DrainBegin, TurnStopped/Woken/Event/Closed, TurnEnd | `run_one_turn` |
| TakeNotice, PruneNotice | `run_notice_slot_turn` |
| SteerCheck, SteerInjected/Row/TooEarly/Failed | `steer_queued_head` |
| DrainFin, DrainSignal, DrainRekick | the finally block of `drain_loop` |
| DriverConnect/Prompt/Error/Result/Quit | `run_turn_acp`, `get_or_create_connection` |

**Abstractions.** A message is its id; whether a steer can carry it and whether
it has review comments are the sets `TextTurns` and `ReviewTurns`. The states
Thinking, Responding and Tool are one, "busy". Events of a turn before the
terminal one change nothing the properties look at and are left out. The health
of the connection is one of the outcomes of an RPC. A request's own validation
(the turn exists, the client may see it) is its guard. The select of
`run_one_turn` is `biased`, and so is its model: cancellation, then the steer
permit, then events.

**Not modelled of the engine**: `fork_turn` (a truncation of the transcript
followed by an enqueue), `take_review` (reset carry), events the agent sends
outside a turn, the lifecycle and background calls of the finally block
(`SessionLifecycle` has them), and what two drivers do to a shared connection. A release's
wait for `settled()` is bounded in the code and so is not a guard here.

**The abstract specification.** `TurnLedger` knows only, for each message,
whether it is new, waiting, being edited, withdrawn or taken, and how often the
agent was given it. `ImplementsLedger` is its specification under the refinement
mapping `Status` of TurnEngine: a message counts as withdrawn from the critical
section in which a cancel removes it, and as taken from the one in which the
drain pops it or a steer is answered. So no interleaving makes a withdrawn or
edited message reach the agent, nor one be given twice (`DeliveredAtMostOnce`, which
has no run of its own for that reason, and is proved).

## 4. The lifecycle mirror

`SessionLifecycle.tla` models `lifecycle.rs`, `background.rs` and `boot_sweep.rs`
with what feeds them: the drain and the client calls of the engine, reduced to
what the lifecycle can see of them; the hold channel of the task registry; the
two boot passes of `run.rs`; and `mark_done`.

**Grain.** `lifecycle_lock` is the variable `lock`; it excludes writers from each
other and nothing else. Under it a writer takes several steps, each one critical
section of `state` or of the registry, and the evidence changes between them:
`ReadInputs` (running, queued, window, owed turn end), `Weigh` (the registry's
hold, `derive`), `ClearOwed`, `Write` (latch, `last_written`), `Store` (the row).

**State.** `unann` is `turn_end_unannounced`, `window` is `bg_working`, `current`
says whether the generation the quiet timer has read is still `bg_gen`, `quiet`
whether `bg_deadline` has passed. `told`, `sending` and `wakeup` are the watch
channel of the registry, into which two mutations may send in the other order
than they happened. The lifecycle and its reason are one value: "waiting" is
`WaitingForHuman(None)`, which tells the parent session that a turn ended,
"settled" is `WaitingForHuman(background-settled)`, "turnEnded" is
`Working(background-turn-ended)`.

| Actions | Code |
|---|---|
| Reconcile, ReconcileLocked, Weigh, ClearOwed | `reconcile_lifecycle`, `reconcile_lifecycle_locked`, `derive` |
| Write, Store | `write_lifecycle_locked` |
| Send, KickSent, WriteWorking | `enqueue_full`, `kick_drain`, `write_working_for_human_turn` |
| Withdraw | `cancel_queued_turn`, `begin_edit_queued_turn` |
| Release, ReleaseLatch, ReleaseEmpty, ReleaseSync, ReleaseAbort, MarkDone | `done_session`, `release_session_runtime`, `release_with` |
| DrainTurn, DrainNotice, DrainPrune, WriteNotice, TurnOver, DrainLeave, DrainFin, DrainTail | `drain_loop`, `run_notice_slot_turn` |
| Content, Quieten, TimerExit, TimerFire, Settle | `note_background_activity`, `run_background_timer`, `settle_background` |
| HoldChange, SendHold, FollowHold | `TaskRegistry::settle`, `send_hold`, `start_hold_follower` |
| Restart | `recover_json_session`, then `sweep_stale_background_working` |

**Abstractions.** Turns are counted, not named. A hold is one bit: a live task or
the grace after one. Time is `Quieten`, which may happen whenever a window is
open. A restart may happen in every state except after mark-done, since a done
session has no engine until it is resumed. The store never fails. The rows a
lapsed hold adds to the chat are left out.

The release is that of mark-done. `Release` is one step for two things that
`done_session` does in turn: it looks whether the session is done already, and takes
the engine out of the registry. A second call that finds the engine taken
(`Registered`) goes straight to `MarkDone`. Releases by delete, reset and a switch of
channel, which write no "done", and an engine made anew after one was taken out are
not modelled.

## 5. Scheduled delivery and review holds

`ScheduledDelivery.tla` models `delivery.rs`, `terminal.rs`, `holds.rs`, `boot.rs`
and `scheduled.rs`, `schedule_poller.rs`, the delivery half of `json_agent_chat.rs`
and the client calls of `sessions.rs` that touch a row.

**Grain.** One action is one store transaction, or the code between two awaits.
A handler that reads a row, awaits and writes is at least two actions, and what it
read stays in the fields of its record in `call`.

**State.** `row` is `scheduled_messages`, with `status`, `claimed` (claimed_at),
`phase`, the payload state `pay` and the comments `snap` of the payload. `panel` says
of each comment whether it is live, under the hold `adopt:<row>`, or gone from the
table. `known`, `job` and `running` are `Inner.known`, the `JobCtl`s and the worker of
each session; of a session's queue each job keeps the set of those ahead.
`captured` is `TerminalState.captured`, `told` the outcomes the observer tasks still
work on, `turns` the adopted chat turns, `boot` the start-up step. `fate` and `shown`
are history: what became of a comment, and how often a row went out.

| Actions | Code |
|---|---|
| CreateStart/Take, SendStart/Take/Fire | `schedule_create`, `send_terminal` |
| Poll, Route | `run_poll_once`, `claim_next_due_scheduled_message`, `dispatch_terminal` |
| SendNow | `schedule_send_now` |
| FireCas, FireCheck, FireEnqueue | `fire`, `enqueue` |
| WorkerNext, TickRead, TickResolve, TickTimeout, JobRearm, JobFail | `worker`, `run_job`, `tick`, `channel_flipped`, `fail_row` |
| DeliverCas, DeliverPaste, DeliverMark | `deliver`, `paste` |
| JsonAble ... JsonSentMark, JsonTimeout | `deliver_scheduled_message`, `deliver_plain`, `AdoptedHoldGuard`, the poller's time-out |
| TurnPersist, TurnWithdraw, TurnSettle | the review observer of `json_agent_session/review.rs` |
| ObserverStart/Restore/Mark/Drop | `on_terminal_outcome` |
| CancelStart/Before/Erase/Tell, ReturnComments | `schedule_cancel`, `cancel_row`, `restore_schedule_snapshot` |
| RetryStart, Rehold, RetryRow; DismissStart, DismissRow; Discard; Toggle | `schedule_retry`, `schedule_dismiss`, `delete_comment`, `patch_session_channel` |
| ResetStart ... ResetMove | `reset`, `stop_for_reset`, `rearm_after_failed_reset`, `reassign_scheduled_messages` |
| DeleteStart ... DeletePurge | `delete`, `restore_for_session_impl`, `on_session_removed` |
| Crash, BootHold, BootGive, BootNext, BootRecover | `reconcile_boot`, `recover_orphaned_scheduled_messages`, `run` |

**Abstractions.** A row may be due at any time, so fireAt and editing it are left
out. A comment is its id. A tmux call works, fails or times out. An agent accepts a
paste or not (`"broken"` in `Ops`: store rows vanish from their channel, tmux fails).
Two equal outcomes of one row in `told` are one.

**Not modelled**: the guard on the agent's last Enter, composer leases, the layout of
the text, a store that fails, editing and threads of comments, a time-out inside the
adopting transaction.

## 6. The task registry

`TaskTable.tla` has the pure operators: what an observation, a structured signal, a
probe, a lost adapter or time makes of the table (`Apply`, `ApplyProbe`, `StaleAll`,
`Evaluate`), which tasks hold the session (`HoldOf`, `Hold`) and when that changes by
itself (`NextDeadline`). `TaskRegistry.tla` adds the mutex and everybody around it.

**Time.** The code keeps instants in milliseconds and compares them with a clock. The
model keeps ages: `Tick` adds one to each until no rule can tell it from an older one
(`Oldest`). A deadline is then an age that is still to come, and the comparison in the
code (`<` or `<=`) decides whether it has passed at the tick that reaches it.

**Grain.** `settle` evaluates under the mutex and then, without it, publishes the hold,
wakes the timer and asks for a flush: the second half is the record `tail[a]` of its
caller and the action `AfterUnlock`. Three sends in that half are one action: nothing
in the registry awaits between them. The sinks persist an event (`PersistRow`,
`PersistSignal`) and observe it later (`Observe`).

| Actions | Code |
|---|---|
| PersistRow, PersistSignal, Observe, Chatter | `handle_event`, `ingest_ext_notification`, `observe` |
| CallTurnEnded | `turn_ended`, from `run_one_turn` |
| Connect, Attach, AdapterExit, AdapterGone | `bump_epoch`, `attach_ext_notification_sink`, `spawn_ext_drain`, `adapter_gone` |
| AfterUnlock, CoalescedFlush, BeginFlush, EndFlush | `settle`, `send_hold`, `request_flush`, `flush` |
| TimerArm, TimerFire, SpawnDueProbes, ProbeResult | `ensure_timer`, `spawn_due_probes` |
| OutputTouched, ReadHold, Look | `output_touched`, `current_hold`, `snapshot` |
| RebuildRead, RebuildApply, RebuildFlush, Open | `start_task_rebuild`, `rebuild`, `begin_rebuild` |
| Shutdown, ShutdownClose | `shutdown` |

**Named assumption.** `Prompt = TRUE`: a task that has been woken runs before the clock
moves on by a unit, a unit being seconds and a wake-up microseconds. With
`Prompt = FALSE` the hold may be published late (section 9). `TableAssumption` asks of the
periods that they are positive, that a hold for want of activity lapses before the cap (10
of 60 minutes) and that a subagent goes stale no later than the longest life of a verified
command (10 of 90 minutes), and that the tasks are finitely many (`MAX_TASKS`).

**Not modelled**: monitors; the caps on rows, launches and parked signals; output
revisions and rings; the reading and watching of output files; a transcript write that
fails; time after a release.

## 7. The language servers

`LspManager.tla` models `manager.rs` with the parts of `client.rs` and `failure.rs` it
decides on, for one workspace and one language.

**Grain.** The async mutex of the server map is the variable `lock` while
`ensure_server_handle` keeps it across its awaits; everybody else takes and drops it
within one step and only needs it free. The other locks (failures, history, guards, a
server's status) are each held for one step, so a handler that reads a status and
writes it under a second acquisition is two actions.

**State.** `current` is the entry of the map, `failure` the latched `FailureRecord` with
the server whose crash it records (the code compares time stamps), `count` the crash
history, `guard` the `ProbeGuard`. `server[s]` has the handle (status, handshake latch),
the process, the program counter of its task and whether the file watcher has sent it
something before its handshake was complete (`early`, which nothing reads); `call[p]` is
a request, a Retry or a poll, and `call[s]` the task that restarts server s after a
delay. "busy" stands for Starting and Indexing.

| Actions | Code |
|---|---|
| EnsureLook, EnsurePlan, EnsureSwap, EnsureSpawn | `ensure_server_handle`, `plan_launch`, `spawn_server` |
| Request, RequestAwait/Open/Wake/End | `request` |
| Restart, RestartStop/Clear/History/Guard | `restart` |
| Poll, PollEnd | `reprobe` |
| SweepIdle, SweepStop | the sweeper of `new` |
| InitOk, InitFail, InitRecord/Kill/Drop, Readiness, Eof, Tally, CountCrash, CrashRecord | `ServerTask::run`, `record` |
| AutoRestart | `auto_restart` |
| WatchNotify | the callbacks of `ensure_watcher` |
| Crash | the process dies, or closes its output and lives on |

**Named assumption.** `Prompt = TRUE`: nothing comes between the look of a request at
the status of its server and the write that follows, and no failure is latched while a
dependency probe runs. The code guarantees neither (section 9); everything else may
still come in any order.

**Not modelled**: other languages waiting for the global mutex, what a file watcher
sends (only that it does) and the probe it starts when a manifest changes, notes and
health, document synchronisation, external tokens, the host survey, the JSON-RPC client
(a handshake and a request have every outcome) and how long anything lasts: an idle
time, a delay or the window of the crash history may be over at any time.

## 8. Runs

Each run is `tlc -config X.cfg` on the MC module of its component, which adds the
symmetry sets. Callers, drain tasks, children, notice ids, jobs and, in one session,
rows are interchangeable (the code never looks at which is which); turns too where the
instance treats them alike. Runs under fairness use no symmetry. `CHECK_DEADLOCK FALSE`
is set because a daemon whose users have done everything they may is a legal end; lsp,
whose users may always ask again, is checked for deadlock.

| Run | Instance | Checks |
|---|---|---|
| queue | two turns, two callers; send, submit, cancel, edit, promote, stop | `TypeOK`, `SingleDrain`, `SettledIsIdle`, `NoStrandedQueue`, `NoTurnLost`, `ImplementsLedger` |
| notice | one review turn whose row may fail, one notice of two children; send, stop, prune, dismiss | `NoticeNotForgotten`, `NoNoticeRightAfterStop`, `DismissSparesHumans`, `NotBothPanelAndAgent` |
| release | one review turn, one notice and its promotion; cancel, stop, release | `ReviewNeverStranded`, `ReleaseLeavesNoLiveTurn` |
| live | one turn, one notice, releases, under `FairSpec` | `QueuedTurnLeaves`, `ReleaseUnwinds` |
| lifecycle | two callers, two drains; send, withdraw, mark-done (two may overlap), notice, content, restart | `TypeOK`, `RunningTurnShown`, `LastIsStored`, `WindowHasTimer`, `DoneAtLast` |
| at_rest | one caller, two drains; send, content, hold | `StoredHasReason`, `TurnEndNotForgotten` |
| custody | two rows of one session, one comment, two callers, three jobs; schedule, send, send now, cancel, discard, failing pastes | `TypeOK`, `NoCommentLost`, `NoCommentBack`, `CommentOnce`, `FailedGivesBack` |
| claims | one row, two callers, two jobs; every call but the reset | `MessageOnce`, `ClaimHasOwner`, `PastesAsOwner` |
| settle | one row, two sessions, a crash, resets, switches, Rich Chat, time-outs, under `FairSpec` | `HoldHasTurn`, `RowSettles`, `CommentSettles` |
| tasks | one command with an output file, under `FairSpec` | `HoldCurrent`, `NoHoldForever` |
| agents | one synchronous subagent, two sinks, a lost adapter, a restart | `TrayCurrent`, `RebuildAgrees` |
| lsp | two servers, two callers; requests, Retries, polls, crashes, refusals, idle stops, changed files | `SpawnsClean`, `ShownServerWatched`, `RetryPromised`, `RequestsAfterInit` |

**Bounds of the engine.** Two turns give a head and a tail: a queue whose head is
steered, held or popped while another turn is moved before it. Two callers give a race
between two clients, each in any step of its call; two drain tasks give the overlap at
the tail of a drain. Each turn is sent once, so the number of turns bounds every
behaviour; `SteerTries` stands for `STEER_PROMPT_REQUIRED_TRIES` and is 2. A steer
answers in time in all of them (`SteerMayTimeOut` is FALSE; section 9 says what happens
otherwise). `Ops` names the client operations an instance issues: the product of all of
them is too large for one run, and each run takes those its properties are about;
notice leaves out the operations that break one of its properties (section 9). The
theorems of section 10 hold for every `Ops` but the ones they name.

**Bounds of the mirror.** Sessions go on for ever: turns are sent, tasks start and end,
and the daemon restarts any number of times; only the number of calls, drains and
reconcile tasks at a time is bounded. A drain in its tail, the next one, a caller, a
spawned reconcile, the timer and the follower already give six writers that compete for
the lock. `MaxQueue` is 1: the lifecycle asks only whether the queue is empty. lifecycle
leaves the registry out and at_rest the release and the withdrawal; both together would
be too large, and a withdrawal breaks `StoredHasReason` (section 9).

**Bounds of delivery.** Every hazard of this part is about one row and one comment that
two or three actors hold at once, so one row is the rule; custody has two because the
worker's queue, the refusal of a second immediate send and a comment that moves from
one row to another need them. `MaxCalls` bounds the client calls and `MaxCrashes` the
crashes of a whole behaviour; polls, deliveries and switches of channel are not bounded.
Two jobs let a new registration overlap the job it replaces. The `Ops` of the three runs
avoid the combinations under which the code does break a property (section 9 lists
them): custody has no crash, no Retry, no dismissal and no switch, claims checks who owns
a row and not where its comments are, settle has no cancel.

**Bounds of the registry.** Every constant that the code measures in seconds is one
unit, except where two of them must differ for a case to happen: the cap is 2 (longer
than the unverified hold of 1, so that both ends are met) and a command goes stale after
2. Two events in tasks are the launch of a command and its move to the background: the
run is about what time, probes, reads and the timer make of the row. A row that the
agent confirms takes three events and one it pauses four; there the theorem
`HoldStaysCurrent` speaks of every number of events. Four events in agents are a start,
a finish, a confirmation and an end in every order, with one reconnection and one
restart. The folds of the rebuild run over a table of one task: two tasks interact only
through the counts of a hold, which the tasks run does not need. The run includes
`output_touched`, which wakes no timer (section 9): with periods of one or two units the
timer wakes in time for another reason. `TypeOK` has no run; it is a theorem.

**Bounds of the language servers.** Two servers are the current one and one that is being
replaced or is failing; a third would be another of the second kind. Two callers let a
Retry or a poll overtake a request. `MaxRestarts` is 1, so that a crash that is restarted
and one that is not both occur. Nothing else is bounded: servers are used again once
nobody refers to them, and the count of crashes stops at the first that is not restarted.
`TypeOK` has no run here either.

**Fairness.** In the engine, weak fairness of each drain task, driver task and client
call that is under way: the runtime polls runnable tasks; a driver ends because the
stuck-turn watchdog and the prompt's idle time-out bound its wait; a store append and an
RPC with a time-out return. In delivery, the same for handlers, workers, observers and
boot, weak fairness of the poller, which runs on an interval, and strong fairness of
`TickTimeout`: a job that goes on waiting reads its clock between polls again and again,
and after ten minutes it acts on it. In the registry, weak fairness of its threads as
one, and of `Tick`: time goes on. There is no fairness for requests, stops, switches of
channel or crashes: nothing makes a user act, and under the fairness stated a row or a
turn that waits for ever can only be the program's fault.

**Mutants.** Definitions whose names end in `_Without...`, `_With...` or another plain
name of a bug (`ApplyEnded_RunningOnly`, `Settle_ComparedTooEarly`) are broken variants of the
one they are named after. They are used by no action; substituted for the original,
each makes the property that guards against that bug fail.

## 9. Where code and comments part

`PROJECT.json` lists each under "findings" with the comment it contradicts. They have no
run of their own; the table says how to see each: take the cfg, change what is named,
and state the property alone. The properties that appear only here (`EditKeepsOrder`,
`DeliveredAtMostOnce`, `NeverStuckWorking`, `TurnEndSurvivesRestart`, `MarkDoneIsLast`,
`TrafficAfterInit`, `TimerOwnsDeadlines` and, with a release, `NotBothPanelAndAgent`) are
defined in their modules. Delivery rows start from `Claims.cfg`.

| Property | Change | What happens |
|---|---|---|
| `NotBothPanelAndAgent` | Notice, release added to `Ops` | The release sweep gives comments back before the latch goes up; a turn popped in between still runs with them. |
| `EditKeepsOrder` | Queue, `Ops` enqueue, edit | A held, B held, A resubmitted, B resubmitted: B is ahead of A. |
| `DeliveredAtMostOnce` | Queue, `SteerMayTimeOut = TRUE` | A steer answered after its time-out was delivered, and its turn runs again. |
| `NoNoticeRightAfterStop` | Notice, cancel (or edit) added to `Ops` | The abort flag is consumed while a turn is queued; once that turn is cancelled or held, the notice fires right after the stop. A promotion of the notice after the stop (promoteNotice) has the same effect. |
| `NeverStuckWorking` | Lifecycle, `Ops` send, withdraw | A turn queued while a drain winds down makes the drain's reconcile return; withdrawn before the drain kicks again, it leaves the session "working" at rest. |
| `TurnEndSurvivesRestart` | Lifecycle, `Ops` send, content, restart | The start-up recovery turns working rows into idle before the sweep that would announce their turn ends sees them. |
| `MarkDoneIsLast` | Lifecycle, nothing else | A second mark-done finds the engine gone, does not wait for the write under way, and that write lands over its "done". The first mark-done, which waits, writes it again (`DoneAtLast`). |
| `NoCommentBack` | create, retry, broken | Two Retries of one failed row: the loser puts back the comments the winner's row holds. |
| `NoCommentBack` | create, timeout | A time-out after the enqueue restores the hold of a turn that will send the comments. |
| `FailedGivesBack` | create, timeout | A time-out before the adopt fails the row and leaves its payload held. |
| `FailedGivesBack` | create, broken, `MaxCrashes = 1` | A crash between the failed row and its observer keeps the comments from the panel. |
| `FailedGivesBack` | create, retry, reset, `Sessions = {s1, s2}` | A reset moves a failed row whose comments a Retry has just taken again: the Retry puts them back into the panel, and the moved row still holds them. |
| `NoCommentLost` | create, cancel, `MaxCrashes = 1` | A crash between the delete of a cancelled row and the return of its comments loses them. |
| `NoCommentLost` | create, dismiss, broken | A dismissal deletes the row before the observer has read it. |
| `NoCommentLost` | create, toggle, cancel | The observer task of an earlier outcome takes the captured copy of the row. |
| `NoCommentLost` | create, delete | A row inserted between the listing and the purge of a delete goes with its comments. |
| `NoCommentLost` | send, retry | The observer of a failed immediate send gives its comments back, a Retry takes them again, and the observer then deletes the row. |
| `NoCommentLost` | create, reset, cancel, `Sessions = {s1, s2}` | The observer task of an outcome a reset re-armed takes the captured copy of the row. |
| `PastesAsOwner` | create, sendNow, reset, `Sessions = {s1, s2}` | The job of the old session wins the row the reset has moved. |
| `ClaimHasOwner` | create, send, reset, broken, `Sessions = {s1, s2}` | The second of two resets stops the job of the replacement; a claimed row has none. |
| `RebuildAgrees` | Agents, `Background = {s1}` | Two sinks persist and observe in opposite orders; live the subagent runs on, a rebuild ends it. |
| `HoldCurrent` | Tasks, `Prompt = FALSE` | Two holds are sent in the other order than they were computed. |
| `HoldCurrent` | Tasks, `Ops` touch, `Cap = 6`, `CommandStale = 5` | A probe is under way; `output_touched` arms a lapsed hold again without waking the timer, which sleeps past the new lapse. |
| `TimerOwnsDeadlines` | Tasks, `Spec`, `WithFile = {}`, `Ops` empty, `Cap = 3`, `CommandStale = 5` | A hold that lapsed for want of activity has no deadline: at the cap its reason changes and nobody is told. |
| `ShownServerWatched` | Lsp, `Prompt = FALSE` | A request read "idle", the server is stopped, and the request shows it as ready. |
| `TrafficAfterInit` | Lsp, nothing else | A watched file changes while a server is in its handshake: the watcher notifies every server in the map. |
| `RetryPromised` | Lsp, `Prompt = FALSE` | A late probe turns another failure into one that promises a retry nobody makes. |

Found by reading, without a property: pruning the last child of a promoted notice leaves
the mark set, so the next notice jumps the queue; a sink that attaches during a rebuild
remembers the epoch before its own; a flush or a late hold may follow the final empty
snapshot of `shutdown`. Beyond the runs: after a switch of channel and a crash the boot
order may restore the hold of a message that was delivered.

One disagreement is documented by the code itself and listed nowhere as a finding: after a
time-out of a Rich Chat delivery the message "may or may not have been sent"
(`schedule_poller.rs`), and a Retry may send it twice (`MessageOnce` in Claims with
create, timeout, retry).

## 10. Proofs

Every theorem holds for all values of the constants that satisfy the named assumption of
its module, finite or infinite, and for every set `Ops` of operations but those its
hypotheses exclude. A hypothesis stands only where the code breaks the property without
it (section 9 has the behaviour), or, for `NothingLost`, where the property does not
apply. The proof modules of a component build on one another.

### The turn engine

`TurnAssumption`: ids are disjoint, the sets of special turns are sets of turns,
`SteerTries` is positive.

| Theorem (module) | Establishes | Hypotheses | Inductive invariant |
|---|---|---|---|
| `TypeCorrect` (`TurnEngineProofs`) | `TypeOK` | | itself |
| `SingleOwner` | `SingleDrain`, `SettledIsIdle` | | the two together |
| `ReleaseComplete` (`TurnEngineSafety`) | `ReleaseLeavesNoLiveTurn` | | `Reins` |
| `DismissalSpares` | `DismissSparesHumans` | | `NoticeInHand`, `StopsNotice` |
| `NothingStranded`, `NoticesAnnounced` | `NoStrandedQueue`, `NoticeNotForgotten` | | `Rest` |
| `CommentsSettled` | `ReviewNeverStranded` | | `Review` |
| `NothingLost` (`TurnLedgerProofs`) | `NoTurnLost` | no release | `Kept` |
| `GivenOnce`, `EngineImplementsLedger` | `DeliveredAtMostOnce`, `ImplementsLedger` | no release, no late steer | `Kept`, `Given` |
| `CommentsInOnePlace` | `NotBothPanelAndAgent` | no release | `Kept`, `Review`, `Carried` |
| `NoticeParked` | `NoNoticeRightAfterStop` | no cancel, edit, promotion of the notice or release | `Kept`, `Reins`, `Parked` |

* `TypeOK` says more than types: which program counters imply that a task knows its turn
  (`KnowsTurn`, `CallOK`). One lemma per shape of step (`CallUpdate`, `DrainUpdate`,
  `KickType`, ...) keeps the steps short.
* A drain in its loop is alone because `kick_drain` starts one only when `running` is
  FALSE and `running` is TRUE while any is in its loop. The steps are those that leave the
  owner of the loop alone (`OwnerStays`, `KeepsLoop`), those that may start one
  (`OwnerStarts`) and the three that give it up (`OwnerDrainStep`).
* `Reins` says who a stop reaches: the active turn is the turn of the task in the loop, a
  driver that is alive has been cancelled or its turn still runs, and one that talks to
  the agent unasked belongs to the active turn, which a release that has latched is still
  going to cancel (`TalksActive`). A driver spawned after the latch is cancelled on
  the spot, one spawned before it is found by the abort: there is no gap.
* `Rest` is about debts. Work in the queue is owed a drain, a kick or the re-kick of a
  drain at its tail (`WorkOwed`); so is a notice unless a turn was stopped
  (`NoticeOwed`, `BrokeStopped`); a busy state and a FALSE idle signal are owed their end
  (`StateOwed`, `IdleOwed`). When nothing is in progress nobody can owe anything.
* `Review`: comments of a turn that was sent and not settled are with somebody who will
  settle them (`CommentsInSight`), also while a release sweeps (`SweptSettled`).
* `Kept` is the conservation law of turns: each is with one call, in the queue, held, with
  the drain, or past (`OnePlace`); the queue has no turn twice; and a head that is being
  steered is marked and cannot leave (`SteersHead`), which is what makes the answer of a
  steer remove the turn it was about. `Given` adds that a turn that has not started has
  not been delivered. The refinement then goes action by action: the steps are sorted by
  the one message whose `Status` they change (`OneStatus`), and each is a step of its
  ledger or a stutter. A release clears the queue on purpose, and a late steer delivers a
  turn that is still queued: both are excluded.
* `Parked`: once the active turn is stopped, the abort flag stays up until the drain has
  read it or a message waits that will run. Each of the four operations excluded takes the
  message away or asks for the notice.

### The lifecycle mirror

`LifecycleAssumption`: the kinds of task are disjoint, `NoTask` is none of them.

| Theorem (module) | Establishes | Hypotheses | Inductive invariant |
|---|---|---|---|
| `TypeCorrect` (`SessionLifecycleProofs`) | `TypeOK` | | itself |
| `LastStored`, `DoneLast` | `LastIsStored`, `DoneAtLast` | | `WriteInv` |
| `WindowTimed` | `WindowHasTimer` | | itself with `WriteInv` |
| `TurnIsShown` | `RunningTurnShown` | | `Loops`, `TurnSaid` |
| `StoredReason`, `TurnEndAnnounced` | `StoredHasReason`, `TurnEndNotForgotten` | no withdrawal | `Loops`, `Evidence` |

* Neither `LastIsStored` nor `DoneAtLast` is inductive: a writer that has set `last` but
  not yet the row breaks the first for a while, and a late writer could break the second.
  `WriteInv` adds what the lock is for: whoever is at work on a write holds it
  (`LockHeld`), so there is one such writer at most and `last` is what it is about to
  store (`StoresLast`, `Mirror`). A done that is stored over by such a writer is one of a
  mark-done that did not wait; the one that put up the latch still waits, and will write
  again (`Waited`: once released there is nobody at work, or a caller that has yet to wait
  or to write), and "done" is stored only while somebody marks it or after (`DoneStays`,
  `Releasing`). Steps are sorted by what they do to a write (`QuietStep`, `OutsideStep`,
  `WorkStep`, `YieldStep`, `MarkStep`, a write or store, a restart).
* `TurnSaid`: while a turn is queued or runs, its sender has yet to write, or "working" is
  written and no writer is about to write anything else (`Against`): a reconcile that
  would has read its inputs before the turn, and the sender waits for its lock.
* `Evidence`: while anything is due (a turn, a reconcile under way, a change of the hold
  the follower has not seen) the lifecycle may lag behind; when nothing is, what is
  written, and what each writer is about to write, agrees with the window and the hold
  (`Agrees`, `Fresh`). A withdrawal is the one operation that takes away what is due
  without anybody noticing (`NeverStuckWorking`, section 9).

### Scheduled delivery and review holds

`DeliveryAssumption`: the poller is no caller, `None` is nothing else, a row is not named
"live" or "gone".

| Theorem (module) | Establishes | Hypotheses | Inductive invariant |
|---|---|---|---|
| `TypeCorrect` (`ScheduledDeliveryProofs`) | `TypeOK` | | `TypeInv` |
| `PastesOwned`, `OneOwner` | `PastesAsOwner`, one owner per row | no reset | `OwnInv` |
| `HoldsSettled` (`ScheduledCustodyProofs`) | `HoldHasTurn` | | `HoldInv` |
| `ClaimsOwned` | `ClaimHasOwner` | no reset | `OwnInv`, `KnownInv`, `ClaimInv` |
| `SentOnce` | `MessageOnce` | no reset, not both time-outs and Retries | those and `SentInv` |
| `CommentsKept` | `NoCommentLost` | no Retry, dismissal or delete of a session; with cancels, no crash, switch of channel or reset | `HandInv`, `CareInv`; with cancels also `TellKept`, `CaptureKept`, `Unarmed` and those of `ClaimsOwned` |
| `FailedGiveBack` | `FailedGivesBack` | no time-outs, no crash, not both Retries and resets | `MindInv`, `FailInv`; with Retries also `OwnInv` |

* `TypeOK` alone is not inductive: a handler that is about to use its row must have one.
  `TypeInv` adds what each step has in its locals (`CallsKnown`, `JobsKnown`), that a row
  that exists has a session (`RowsKnown`), and that a job being fired is untouched and
  fired from one call (`FireJobs`).
* `OwnInv` says who may act on a row: a call that is about to dispatch it (`CallsOwn`), or
  a job past its registration (`JobsOwn`), has it claimed and in its session, unless it has
  been deleted under its owner (`Gone`); there is one of them, also then (`OneCall`,
  `OneJob`, `CallOrJob`); a row id about to be inserted is nobody's yet (`TakesUnused`); a
  paste has its row in phase pasting (`PastePhase`); during a boot nobody is at work
  (`BootQuiet`). Each action hands no row to a new owner (`CallKeeps` and its like) or is
  one of the few that do: the claim, "send now", the insert of an immediate row, `fire`,
  the compare-and-set.
* `HoldInv` is the property with its two boot steps: comments are adopted in the step in
  which the delivery takes the hold upon itself, and the boot gives back every hold before
  it goes on.
* `ClaimInv` turns round what `OwnInv` says: every claimed row has a holder (`Holder`), a
  dispatch that is under way or a registered job that has not been stopped or cannot be
  any more. It needs that the registered job of a row is a job of that row (`KnownInv`),
  that a row nobody claims is in no phase (`RowOK`), what a handler may still rely on
  after an await (`CallOK`, `JobOK`: a job is stopped only if its row or its session is
  gone), and that steps of others leave it all alone (`RowsGo`, `CallsGo`, `JobsGo`). A
  reset moves rows away from under their jobs, hence the hypothesis.
* `SentInv`: whoever may still send a row's message knows that it is not out, be it the
  row itself, while it could be claimed or put back by a restart (`RowSaid`), a delivery
  (`CallSaid`), a job (`JobSaid`) or a queued turn (`TurnSaid`). The recovery of a crash
  puts back only rows in phase "waiting"; that a Rich Chat delivery's row is in no phase
  (`CallOK`) is why such a message is failed and not sent again. A time-out fails a row
  whose turn may be queued, and a Retry then sends it twice: the code says so to its users
  (section 9), and the theorem asks that one of the two does not happen.
* `NoCommentLost` is about what several actors have read. `HandInv` says it of each:
  a delivery and a job know at least the comments their row still holds (`Carried`), so
  that a paste or an adoption takes all of them along; a row whose comments are adopted, sent or
  given back holds none (`Spent`), and those under its hold are in the body of its turn
  or have been received; a captured copy is of a row that is gone. It holds because a
  row's payload only ever gives comments away (`RowFades`), which a Retry undoes. `CareInv`
  is then the property with the captured copies counted in. Cancels need more: the
  observer must not take a captured copy for an earlier outcome of the row
  (`CaptureKept`), and while sessions stay as they are no earlier outcome puts a row back
  (`Unarmed`), so that a row which can be cancelled has none under way (`TellKept`).
  Each of the operations the theorem leaves out breaks the property (section 9).
* `FailedGivesBack` holds while every failed row that still has its comments has somebody
  bound to give them back (`FailInv`): the observer, told of the failure, or a Retry that
  has taken them again. `FailInv` needs `MindInv`, what a handler knows of its row:
  a Rich Chat delivery about to fail its row has given the comments away
  (`MindRich`), and the row of a Retry is still of the session the Retry was asked for
  (`MindRetry`). `RowTurns` lists the few ways in which a step changes a row's comments.
  With a Retry allowed, the row's owner (`OwnInv`) sees to it that no delivery is under
  way for the failed row, hence the hypothesis on resets.

### The language servers

`LspAssumption`: servers and callers are disjoint and `None` is neither.

| Theorem (`LspManagerProofs`) | Establishes | Hypotheses | Inductive invariant |
|---|---|---|---|
| `TypeCorrect` | `TypeOK` | | `TypeInv` |
| `CleanSpawns` | `SpawnsClean` | | `Slot` |
| `Handshake` | `RequestsAfterInit` | | `Shaken` |
| `StatusNotStale` | `ShownServerWatched` | `Prompt` | `Watched` |
| `RetryKept` | `RetryPromised` | `Prompt` | `Promised` |

* `Slot`: a server that is not the current one is dead, and whoever is about to start one
  holds the map's lock with no failure latched.
* `Shaken`: a handshake latch that was dropped belongs to a dead process, and a request
  past its wait has a server whose handshake is complete, or dead.
* `Watched` adds that a request about to show its server as ready has a live one
  (`WakesLive`); `Promised` that a failure with an automatic retry is a crash or is
  re-probed, and that a probe under way is for a failure that is.

### The task registry

`TableAssumption` (section 6), and `RegistryAssumption`: the bounds are numbers.

| Theorem (`TaskRegistryProofs`) | Establishes | Hypotheses | Inductive invariant |
|---|---|---|---|
| `TypeCorrect` | `TypeOK` | | `TypeInv` |
| `HoldStaysCurrent` | `HoldCurrent` | `Prompt`, no touch | `Inv` |
| `TrayStaysCurrent` | `TrayCurrent` | `Prompt`, no touch | `Inv` |

* *Folds.* The transcript, the parked signals and the buffered operations are gone through
  by `FoldLeft`. A well-founded order on the subsets of a finite set (`SetMin`) shows once
  that such a fold exists (`FoldExists`) and keeps what each of its steps keeps
  (`FoldTyped`); the folds of `Unpark`, `Applied` and `RebuildApply` are instances.
* *Rows.* `TypeOK` is not inductive, since what a row says must agree with why it says it:
  a running row gives the reason of its pause or of its lapse, and names the cap only once
  it has been reached (`RowOK`).
  The epochs stay in range because every bump, the buffered ones included, belongs to an
  adapter that was started (`EpochInv`), and what a sink is about to observe or a rebuild
  has read is in the transcript (`LogInv`).
* *Settled tables.* `Due` lists what `evaluate` would change of a row. After an evaluation
  nothing is due (`SettledEvaluate`), and a table in which nothing is due shows what an
  evaluation of it would show, up to the reason of a lapse (`KeyM`, `Shown`). That
  exception is the code's: a lapsed hold has no deadline for the cap (section 9).
* *Deadlines.* A timer that sleeps past no deadline (`Covers`) finds a settled table
  settled after every tick but the one that ends its sleep: each rule that fires at an age
  has a deadline that is no later, for `<` and `<=` alike.
* *Publication.* `Inv` says that the table is settled but for what the timer is about to
  find (`Ready`), that the timer is awake, about to be woken, or sleeps past no deadline
  (`Awake`), and that, unless a flush is due, every hold about to be published is the hold
  of the table and the rows sent last are its rows (`Agreed`). Two callers that publish in
  the other order than they settled are harmless by `Keeps`: a settle that shows no new
  row changes no hold either, because a task that begins to hold or ends one shows it
  (`NoRevival`, `CountedKeeps`). When rows are new, the flush that is asked for publishes
  last.
* *Hypotheses.* Without `Prompt` time passes while a publication waits. `output_touched`
  arms a hold and wakes no timer, so `Awake` fails (section 9).

### What stays with TLC

* Liveness (`QueuedTurnLeaves`, `ReleaseUnwinds`, `RowSettles`, `CommentSettles`,
  `NoHoldForever`): fairness is beyond the prover.
* `RebuildAgrees`: it compares two folds over one sequence of events, live and from the
  transcript, which would need an induction over all interleavings of the two sinks. What
  the folds give is proved to be a table (`TypeCorrect`), not which one.
* The rest of the custody of comments in a delivery (`NoCommentBack`, `CommentOnce`),
  which the code keeps only for some combinations of operations (section 9); not proved
  yet.
* The properties the code does not keep (section 9).

## 11. Not modelled

`PROJECT.json` names the reason for every part with status `not_modelled`; in short:
conversion without state of its own (agent plugins, types, routes, command line), calls
to programs whose behaviour the source does not define (git, GitHub, tmux panes, flock
and ports, file events), and parts whose state nothing modelled here depends on (web
UI, desktop, artifacts, limits, WebSocket replay). Within the modelled
parts, sections 3 to 7 say what is left out.
