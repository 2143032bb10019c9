---------------------------- MODULE TaskRegistry ----------------------------
(***************************************************************************)
(* The background task registry of one session (vst-tasks/registry.rs) and  *)
(* its callers in vst-agents: the sinks that persist an event and then      *)
(* observe it, the connection, the lifecycle that reads the hold.           *)
(*                                                                          *)
(* The registry is a table under a mutex.  What a caller does after it      *)
(* drops the mutex (publish the hold it computed, wake the timer, ask for a *)
(* flush) is a step of its own, a tail, so that other callers come between. *)
(* Beside the callers run one deadline timer, one coalesced flush, the      *)
(* liveness probes and the rebuild from the transcript.                     *)
(*                                                                          *)
(* The harness works inside one turn at a time; its transcript rows and its *)
(* structured signals come through two sinks, each in order.                *)
(***************************************************************************)
EXTENDS TaskTable

CONSTANTS
    MaxEvents,      \* bound: events that reach the transcript
    MaxConnects,    \* bound: adapters started
    MaxOpens,       \* bound: daemon restarts
    Ops,            \* what the environment may do
    Prompt          \* what is woken runs before any time passes

ASSUME RegistryAssumption ==
    /\ {MaxEvents, MaxConnects, MaxOpens} \subseteq Nat
    /\ Ops \subseteq {"chatter", "touch", "read", "look", "pause", "resume",
                      "fail", "exit", "release"}
    /\ Prompt \in BOOLEAN

VARIABLES
    \* the harness and the transcript
    log,        \* task events persisted, with their age
    rowAt,      \* how far the rows about a task have come
    sigAt,      \* how far the signals about it have come
    mine,       \* the tasks of the running adapter
    adapter,    \* "none", "joining" (no sink yet) or "up"
    joined,     \* adapters started so far
    sinkEpoch,  \* the epoch the sink of this adapter was given
    leaving,    \* epochs of the ended sinks that have not said so yet
    opens,      \* restarts so far
    \* the registry: Inner but for the table itself
    inner, rebuilding, pending, epoch, closed, lastSent, flushScheduled,
    \* its threads
    at,         \* the row a sink has persisted and not yet observed
    tail,       \* what a caller still does after dropping the mutex
    emit,       \* the flush that holds emit_lock
    timer,      \* the deadline timer and the permit of timer_notify
    probes,     \* probes in flight
    rebuild,    \* the rebuild from the transcript
    closing,    \* shutdown is between its two halves
    \* what others see
    hold,       \* the published hold
    tray        \* the rows the clients show

agentVars == <<log, rowAt, sigAt, mine, adapter, joined, sinkEpoch, leaving,
               opens>>
innerVars == <<inner, rebuilding, pending, epoch, closed, lastSent,
               flushScheduled>>
vars == <<agentVars, innerVars, at, tail, emit, timer, probes, rebuild,
          closing, hold, tray>>

Sinks == {"rows", "signals"}
Callers == Sinks \cup {"turn", "connect", "gone", "probe", "touch", "read"}

\* What a client sees of the rows.
Row == [st : {"none", "running", "stale", "ended"},
        why : {"", "cap", "unverified", "paused", "said", "settled", "turn",
               "exited"}]
Key(tab) == [t \in Tasks |-> [st |-> tab.tasks[t].st, why |-> tab.tasks[t].why]]

HoldValue == [holding : 0..Cardinality(Tasks), lapsed : SUBSET Tasks,
              grace : BOOLEAN]
NoTail == [on |-> FALSE, send |-> FALSE, hold |-> NoHold, flush |-> FALSE,
           ping |-> FALSE]
NoEmit == [by |-> "nobody", hold |-> NoHold, out |-> FALSE,
           rows |-> Key(EmptyTable)]
Asleep(left, ping) == [pc |-> "sleep", left |-> left, ping |-> ping]

Idle == \A a \in Callers : ~tail[a].on

Init ==
    /\ log = <<>> /\ opens = 0
    /\ rowAt = [t \in Tasks |-> "none"] /\ sigAt = [t \in Tasks |-> "none"]
    /\ mine = {} /\ adapter = "none" /\ joined = 0 /\ sinkEpoch = 0
    /\ leaving = {}
    /\ inner = EmptyTable /\ rebuilding = TRUE /\ pending = <<>>
    /\ epoch = 0 /\ closed = FALSE /\ lastSent = Key(EmptyTable)
    /\ flushScheduled = FALSE
    /\ at = [a \in Sinks |-> 0] /\ tail = [a \in Callers |-> NoTail]
    /\ emit = NoEmit
    /\ timer = [pc |-> "none", left |-> Never, ping |-> FALSE]
    /\ probes = {} /\ rebuild = [pc |-> "reading", rows |-> 0]
    /\ closing = FALSE /\ hold = NoHold /\ tray = Key(EmptyTable)

-----------------------------------------------------------------------------
(* Under the mutex, and what follows it.                                     *)

\* hold_value
HoldOn(tab, rb, cl) == IF rb \/ cl THEN NoHold ELSE Hold(tab)

Settle_ComparedTooEarly(a, tab) ==
    \E t \in {tab} : \E e \in {Evaluate(t)} :
    /\ inner' = e
    /\ tail' = [tail EXCEPT ![a] =
                  [on |-> TRUE, send |-> TRUE,
                   hold |-> HoldOn(e, rebuilding, closed),
                   flush |-> Key(inner) # lastSent, ping |-> TRUE]]

\* settle, up to the drop of the mutex
Settle(a, tab) ==
    \E t \in {tab} : \E e \in {Evaluate(t)} :
    /\ inner' = e
    /\ tail' = [tail EXCEPT ![a] =
                  [on |-> TRUE, send |-> TRUE,
                   hold |-> HoldOn(e, rebuilding, closed),
                   flush |-> Key(e) # lastSent, ping |-> TRUE]]

\* push_pending
Buffer(op) == /\ pending' = Append(pending, op)
              /\ UNCHANGED <<inner, tail>>

Notify == timer' = [timer EXCEPT !.ping = TRUE,
                                 !.pc = IF @ = "none" /\ ~closed THEN "arm"
                                        ELSE @]

AfterUnlock_WithoutNotify(a) ==
    /\ tail[a].on
    /\ hold' = IF tail[a].send THEN tail[a].hold ELSE hold
    /\ IF tail[a].ping /\ timer.pc = "none" THEN Notify ELSE UNCHANGED timer
    /\ flushScheduled' = (flushScheduled \/ tail[a].flush)
    /\ tail' = [tail EXCEPT ![a] = NoTail]
    /\ UNCHANGED <<agentVars, inner, rebuilding, pending, epoch, closed,
                   lastSent, at, emit, probes, rebuild, closing, tray>>

\* The rest of settle: send_hold, after_unlock, request_flush.
AfterUnlock(a) ==
    /\ tail[a].on
    /\ hold' = IF tail[a].send THEN tail[a].hold ELSE hold
    /\ IF tail[a].ping THEN Notify ELSE UNCHANGED timer
    /\ flushScheduled' = (flushScheduled \/ tail[a].flush)
    /\ tail' = [tail EXCEPT ![a] = NoTail]
    /\ UNCHANGED <<agentVars, inner, rebuilding, pending, epoch, closed,
                   lastSent, at, emit, probes, rebuild, closing, tray>>

-----------------------------------------------------------------------------
(* The harness.  A task begins with the adapter that runs it; its rows come  *)
(* in order, its signals come in order, and either may be ahead.             *)

E(k, t) == [k |-> k, t |-> t, tool |-> "own", paused |-> FALSE]
Fresh(t) == t \in mine \/ (rowAt[t] = "none" /\ sigAt[t] = "none")

\* persist_event: nothing is written once the session is released.
Persist(a, e) ==
    /\ adapter = "up" /\ Fresh(e.t) /\ ~closing /\ ~closed
    /\ at[a] = 0 /\ ~tail[a].on /\ Len(log) < MaxEvents
    /\ log' = Append(log, [e |-> e, age |-> 0])
    /\ at' = [at EXCEPT ![a] = Len(log) + 1]
    /\ mine' = mine \cup {e.t}
    /\ UNCHANGED <<adapter, joined, sinkEpoch, leaving, opens, innerVars, tail,
                   emit, timer, probes, rebuild, closing, hold, tray>>

\* The rows of a task: from where, the event, to where.
RowSteps(t) ==
    IF t \in Commands
    THEN {<<"none", "launched", "launched">>,
          <<"launched", "backgrounded", "started">>}
    ELSE {<<"none", "started", "started">>, <<"started", "nested", "started">>,
          <<"started", "finished", "over">>}
         \cup (IF t \in Background THEN {<<"over", "settled", "over">>} ELSE {})
         \cup (IF "fail" \in Ops THEN {<<"started", "failed", "over">>} ELSE {})

\* handle_event and ingest_out_of_band_update: the transcript first.
PersistRow(t) ==
    \E s \in RowSteps(t) :
        /\ rowAt[t] = s[1] /\ rowAt' = [rowAt EXCEPT ![t] = s[3]]
        /\ Persist("rows", E(s[2], t))
        /\ UNCHANGED sigAt

\* ingest_ext_notification.  A subagent is resumed once its rows are through.
PersistSignal(t) ==
    /\ UNCHANGED rowAt
    /\ \/ /\ sigAt[t] \in {"none", "paused"}
          /\ sigAt' = [sigAt EXCEPT ![t] = "confirmed"]
          /\ Persist("signals", E("confirmed", t))
       \/ /\ sigAt[t] = "confirmed" /\ "pause" \in Ops
          /\ sigAt' = [sigAt EXCEPT ![t] = "paused"]
          /\ Persist("signals", [E("confirmed", t) EXCEPT !.paused = TRUE])
       \/ /\ sigAt[t] \in {"confirmed", "paused"}
          /\ sigAt' = [sigAt EXCEPT ![t] = "ended"]
          /\ \E tool \in {"own", "none"} :
                Persist("signals", [E("ended", t) EXCEPT !.tool = tool])
       \/ /\ sigAt[t] = "ended" /\ "resume" \in Ops
          /\ t \in Subagents /\ rowAt[t] = "over" /\ at["rows"] = 0
          /\ sigAt' = [sigAt EXCEPT ![t] = "confirmed"]
          /\ Persist("signals", [E("confirmed", t) EXCEPT !.tool = "new"])

\* Shared::observe
Observe(a) ==
    /\ at[a] # 0 /\ ~tail[a].on
    /\ at' = [at EXCEPT ![a] = 0]
    /\ LET r == log[at[a]] IN
       IF closed THEN UNCHANGED <<inner, pending, tail>>
       ELSE IF rebuilding THEN Buffer([op |-> "obs", n |-> at[a]])
       ELSE Settle(a, Apply(inner, r.e, r.age)) /\ UNCHANGED pending
    /\ UNCHANGED <<agentVars, rebuilding, epoch, closed, lastSent,
                   flushScheduled, emit, timer, probes, rebuild, closing, hold,
                   tray>>

\* Shared::observe of text: activity, and a settle if it may arm a hold again.
Chatter ==
    /\ "chatter" \in Ops /\ adapter = "up"
    /\ at["rows"] = 0 /\ ~tail["rows"].on
    /\ ~closed /\ ~rebuilding
    /\ LET bumped == Bump(inner, 0) IN
       /\ bumped # inner
       /\ IF \E t \in Commands : /\ Running(inner.tasks[t])
                                 /\ inner.tasks[t].lapse = "unverified"
                                 /\ inner.tasks[t].idle > 0
          THEN Settle("rows", bumped)
          ELSE inner' = bumped /\ UNCHANGED tail
    /\ UNCHANGED <<agentVars, rebuilding, pending, epoch, closed, lastSent,
                   flushScheduled, at, emit, timer, probes, rebuild, closing,
                   hold, tray>>

\* A turn with a synchronous subagent is running.
InTurn == \E t \in Subagents \ Background : rowAt[t] = "started"

\* turn_ended
CallTurnEnded ==
    /\ at["rows"] = 0 /\ ~tail["rows"].on /\ ~tail["turn"].on /\ InTurn
    /\ ~closed
    /\ rowAt' = [t \in Tasks |->
                   IF t \in Subagents \ Background /\ rowAt[t] = "started"
                   THEN "over" ELSE rowAt[t]]
    /\ IF rebuilding THEN Buffer([op |-> "turnEnded", n |-> 0])
       ELSE Settle("turn", TurnEnded(inner)) /\ UNCHANGED pending
    /\ UNCHANGED <<log, sigAt, mine, adapter, joined, sinkEpoch, leaving, opens,
                   rebuilding, epoch, closed, lastSent, flushScheduled, at,
                   emit, timer, probes, rebuild, closing, hold, tray>>

-----------------------------------------------------------------------------
(* The connection.                                                           *)

\* ensure_connection: the new adapter is stored and bump_epoch called; the
\* sink of the old one, if it still runs, is dropped.
Connect ==
    /\ adapter # "joining" /\ joined < MaxConnects /\ ~InTurn /\ ~closed
    /\ at["signals"] = 0 /\ at["rows"] = 0
    /\ ~tail["connect"].on /\ ~tail["signals"].on /\ ~tail["rows"].on
    /\ adapter' = "joining" /\ joined' = joined + 1 /\ mine' = {}
    /\ leaving' = IF adapter = "up" THEN leaving \cup {sinkEpoch} ELSE leaving
    /\ IF rebuilding
       THEN Buffer([op |-> "bump", n |-> 0]) /\ UNCHANGED epoch
       ELSE /\ epoch' = epoch + 1
            /\ Settle("connect", StaleAll(inner)) /\ UNCHANGED pending
    /\ UNCHANGED <<log, rowAt, sigAt, sinkEpoch, opens, rebuilding, closed,
                   lastSent, flushScheduled, at, emit, timer, probes, rebuild,
                   closing, hold, tray>>

\* attach_ext_notification_sink
Attach ==
    /\ adapter = "joining" /\ ~tail["connect"].on
    /\ adapter' = "up" /\ sinkEpoch' = epoch
    /\ UNCHANGED <<log, rowAt, sigAt, mine, joined, leaving, opens, innerVars,
                   at, tail, emit, timer, probes, rebuild, closing, hold, tray>>

AdapterExit ==
    /\ "exit" \in Ops /\ adapter = "up" /\ ~closed
    /\ at["signals"] = 0 /\ ~tail["signals"].on
    /\ adapter' = "none" /\ mine' = {}
    /\ leaving' = leaving \cup {sinkEpoch}
    /\ UNCHANGED <<log, rowAt, sigAt, joined, sinkEpoch, opens, innerVars, at,
                   tail, emit, timer, probes, rebuild, closing, hold, tray>>

\* adapter_gone, from the sink whose channel closed
AdapterGone(n) ==
    /\ n \in leaving /\ ~tail["gone"].on
    /\ leaving' = leaving \ {n}
    /\ IF closed THEN UNCHANGED <<inner, pending, tail>>
       ELSE IF rebuilding THEN Buffer([op |-> "gone", n |-> n])
       ELSE IF epoch # n THEN UNCHANGED <<inner, pending, tail>>
       ELSE Settle("gone", StaleAll(inner)) /\ UNCHANGED pending
    /\ UNCHANGED <<log, rowAt, sigAt, mine, adapter, joined, sinkEpoch, opens,
                   rebuilding, epoch, closed, lastSent, flushScheduled, at,
                   emit, timer, probes, rebuild, closing, hold, tray>>

-----------------------------------------------------------------------------
(* The flush, the timer and the probes.                                      *)

\* flush, under emit_lock, up to the drop of the mutex
BeginFlush(by, force) ==
    /\ emit = NoEmit
    /\ \E e \in {Evaluate(inner)} :
       LET out == ~closed /\ ~rebuilding /\ (force \/ Key(e) # lastSent) IN
       /\ inner' = e
       /\ lastSent' = IF out THEN Key(e) ELSE lastSent
       /\ emit' = [by |-> by, hold |-> HoldOn(e, rebuilding, closed),
                   out |-> out,
                   rows |-> IF out THEN Key(e) ELSE Key(EmptyTable)]
       /\ UNCHANGED <<agentVars, rebuilding, pending, epoch, closed, at, tail,
                      probes, closing, hold, tray>>

\* send_hold and on_change
EndFlush ==
    /\ emit # NoEmit
    /\ hold' = emit.hold
    /\ tray' = IF emit.out THEN emit.rows ELSE tray
    /\ emit' = NoEmit
    /\ timer' = IF emit.by = "timer" THEN [timer EXCEPT !.pc = "probes"]
                ELSE timer
    /\ UNCHANGED <<agentVars, innerVars, at, tail, probes, rebuild, closing>>

\* The task request_flush spawned, after COALESCE_MS.
CoalescedFlush ==
    /\ flushScheduled /\ (Prompt => Idle) /\ BeginFlush("coalesce", FALSE)
    /\ flushScheduled' = FALSE
    /\ UNCHANGED <<timer, rebuild>>

\* The loop of ensure_timer: at first, when notified and after every round it
\* looks for the next deadline, ...
TimerArm ==
    /\ timer.pc = "arm" \/ (timer.pc = "sleep" /\ timer.ping)
    /\ timer' = IF closed THEN [timer EXCEPT !.pc = "over", !.left = Never]
                ELSE Asleep(NextDeadline(inner),
                            timer.ping /\ timer.pc # "sleep")
    /\ UNCHANGED <<agentVars, innerVars, at, tail, emit, probes, rebuild,
                   closing, hold, tray>>

\* ... time out, flush and start the probes that are due.
TimerFire ==
    /\ timer.pc = "sleep" /\ timer.left = 0
    /\ BeginFlush("timer", FALSE)
    /\ timer' = [timer EXCEPT !.pc = "flush", !.left = Never]
    /\ UNCHANGED <<flushScheduled, rebuild>>

SpawnDueProbes ==
    /\ timer.pc = "probes"
    /\ timer' = [timer EXCEPT !.pc = "arm"]
    /\ LET due == IF closed \/ rebuilding THEN {}
                  ELSE {t \in Commands : /\ Running(inner.tasks[t])
                                         /\ ~inner.tasks[t].probing
                                         /\ inner.tasks[t].probe = 0}
       IN /\ inner' = [inner EXCEPT !.tasks =
                         [t \in Tasks |-> IF t \in due
                                          THEN [@[t] EXCEPT !.probing = TRUE]
                                          ELSE @[t]]]
          /\ probes' = probes \cup due
    /\ UNCHANGED <<agentVars, rebuilding, pending, epoch, closed, lastSent,
                   flushScheduled, at, tail, emit, rebuild, closing, hold, tray>>

\* apply_probe and settle
ProbeResult(t) ==
    /\ t \in probes /\ ~tail["probe"].on
    /\ probes' = probes \ {t}
    /\ \E result \in {"skipped", "alive", "unknown", "nowriter"} :
          IF closed THEN UNCHANGED <<inner, tail>>
          ELSE Settle("probe", ApplyProbe(inner, t, result))
    /\ UNCHANGED <<agentVars, rebuilding, pending, epoch, closed, lastSent,
                   flushScheduled, at, emit, timer, rebuild, closing, hold,
                   tray>>

-----------------------------------------------------------------------------
(* Others who touch the table.                                               *)

\* output_touched: it publishes a hold that is armed again, and wakes no timer.
OutputTouched(t) ==
    /\ "touch" \in Ops /\ ~tail["touch"].on /\ ~closed
    /\ t \in WithFile /\ Running(inner.tasks[t]) /\ inner.tasks[t].idle > 0
    /\ LET seen == [inner EXCEPT !.tasks[t].idle = 0]
           rearm == inner.tasks[t].lapse = "unverified"
           e == IF rearm THEN Evaluate(seen) ELSE seen
       IN /\ inner' = e
          /\ tail' = [tail EXCEPT !["touch"] =
                        [on |-> TRUE, flush |-> TRUE, ping |-> FALSE,
                         send |-> rearm,
                         hold |-> IF rearm
                                  THEN HoldOn(e, rebuilding, closed)
                                  ELSE NoHold]]
    /\ UNCHANGED <<agentVars, rebuilding, pending, epoch, closed, lastSent,
                   flushScheduled, at, emit, timer, probes, rebuild, closing,
                   hold, tray>>

\* current_hold, for the lifecycle
ReadHold ==
    /\ "read" \in Ops /\ ~tail["read"].on /\ ~closed /\ ~rebuilding
    /\ LET e == Evaluate(inner) IN
       /\ e # inner \/ Hold(e) # hold
       /\ inner' = e
       /\ tail' = [tail EXCEPT !["read"] =
                     [on |-> TRUE, send |-> TRUE, hold |-> Hold(e),
                      ping |-> FALSE, flush |-> Key(e) # lastSent]]
    /\ UNCHANGED <<agentVars, rebuilding, pending, epoch, closed, lastSent,
                   flushScheduled, at, emit, timer, probes, rebuild, closing,
                   hold, tray>>

\* snapshot and output: they bring the table up to date and tell nobody.
Look ==
    /\ "look" \in Ops /\ ~rebuilding
    /\ inner' = Evaluate(inner) /\ inner' # inner
    /\ UNCHANGED <<agentVars, rebuilding, pending, epoch, closed, lastSent,
                   flushScheduled, at, tail, emit, timer, probes, rebuild,
                   closing, hold, tray>>

-----------------------------------------------------------------------------
(* The rebuild, the release, a restart, the clock.                           *)

\* start_task_rebuild reads the transcript ...
RebuildRead ==
    /\ rebuild.pc = "reading"
    /\ rebuild' = [pc |-> "read", rows |-> Len(log)]
    /\ UNCHANGED <<agentVars, innerVars, at, tail, emit, timer, probes,
                   closing, hold, tray>>

\* One buffered operation, on [tab, epoch].  A row the rebuild has read is in
\* the table already.
Replay(acc, op) ==
    CASE op.op = "obs" ->
           IF op.n <= rebuild.rows THEN acc
           ELSE [acc EXCEPT !.tab = Apply(@, log[op.n].e, log[op.n].age)]
      [] op.op = "turnEnded" -> [acc EXCEPT !.tab = TurnEnded(@)]
      [] op.op = "bump" -> [tab |-> StaleAll(acc.tab), epoch |-> acc.epoch + 1]
      [] OTHER -> IF acc.epoch = op.n
                  THEN [acc EXCEPT !.tab = StaleAll(@)] ELSE acc

\* ... and rebuild makes the table of it, then of what was buffered meanwhile.
RebuildApply ==
    /\ rebuild.pc = "read"
    /\ IF closed
       THEN /\ rebuild' = [pc |-> "idle", rows |-> 0]
            /\ UNCHANGED <<inner, epoch, rebuilding, pending, timer>>
       ELSE /\ \E staged \in {Staged(SubSeq(log, 1, rebuild.rows))} :
               \E done \in FoldLeft(LAMBDA S, op : {Replay(acc, op) : acc \in S},
                                    {[tab |-> staged, epoch |-> epoch]},
                                    pending) :
               /\ inner' = Evaluate(done.tab) /\ epoch' = done.epoch
            /\ rebuilding' = FALSE /\ pending' = <<>>
            /\ rebuild' = [pc |-> "flush", rows |-> 0]
            /\ Notify
    /\ UNCHANGED <<agentVars, closed, lastSent, flushScheduled, at, tail, emit,
                   probes, closing, hold, tray>>

RebuildFlush ==
    /\ rebuild.pc = "flush"
    /\ BeginFlush("rebuild", TRUE)
    /\ rebuild' = [pc |-> "idle", rows |-> 0]
    /\ UNCHANGED <<timer, flushScheduled>>

\* shutdown: the empty snapshot ...
Shutdown ==
    /\ "release" \in Ops /\ ~closed /\ ~closing /\ emit = NoEmit
    /\ lastSent' = Key(EmptyTable) /\ tray' = Key(EmptyTable)
    /\ closing' = TRUE
    /\ UNCHANGED <<agentVars, inner, rebuilding, pending, epoch, closed,
                   flushScheduled, at, tail, emit, timer, probes, rebuild, hold>>

\* ... and the rest of it.
ShutdownClose ==
    /\ closing /\ closing' = FALSE
    /\ closed' = TRUE /\ hold' = NoHold
    /\ timer' = [timer EXCEPT !.ping = TRUE]
    /\ UNCHANGED <<agentVars, inner, rebuilding, pending, epoch, lastSent,
                   flushScheduled, at, tail, emit, probes, rebuild, tray>>

\* The daemon restarts: only the transcript is left, and the new registry
\* begins to rebuild (begin_rebuild).
Open ==
    /\ ~closing /\ ~closed
    /\ opens < MaxOpens /\ opens' = opens + 1
    /\ mine' = {} /\ adapter' = "none" /\ leaving' = {} /\ sinkEpoch' = 0
    /\ rowAt' = [t \in Tasks |-> IF rowAt[t] = "started" THEN "over"
                                 ELSE rowAt[t]]
    /\ inner' = EmptyTable /\ rebuilding' = TRUE /\ pending' = <<>>
    /\ epoch' = 0 /\ closed' = FALSE /\ lastSent' = Key(EmptyTable)
    /\ flushScheduled' = FALSE
    /\ at' = [a \in Sinks |-> 0] /\ tail' = [a \in Callers |-> NoTail]
    /\ emit' = NoEmit
    /\ timer' = [pc |-> "none", left |-> Never, ping |-> FALSE]
    /\ probes' = {} /\ rebuild' = [pc |-> "reading", rows |-> 0]
    /\ closing' = FALSE /\ hold' = NoHold /\ tray' = Key(EmptyTable)
    /\ UNCHANGED <<log, sigAt, joined>>

\* Something woken has not run yet.
Busy ==
    \/ ~Idle \/ emit # NoEmit \/ closing
    \/ timer.pc \in {"arm", "flush", "probes"} \/ timer.left = 0
    \/ timer.ping /\ timer.pc = "sleep"
    \/ \E a \in Sinks : at[a] # 0
    \/ rebuild.pc = "flush"

\* One unit of time; a closed registry is not followed further.
Tick ==
    /\ ~closed /\ (Prompt => ~Busy)
    /\ inner' = Aged(inner)
    /\ log' = [i \in DOMAIN log |-> [log[i] EXCEPT !.age = Least(@ + 1, Expiry)]]
    /\ timer' = [timer EXCEPT !.left = IF @ > 0 THEN @ - 1 ELSE @]
    /\ <<inner', log', timer'>> # <<inner, log, timer>>
    /\ UNCHANGED <<rowAt, sigAt, mine, adapter, joined, sinkEpoch, leaving,
                   opens, rebuilding, pending, epoch, closed, lastSent,
                   flushScheduled, at, tail, emit, probes, rebuild, closing,
                   hold, tray>>

-----------------------------------------------------------------------------
Agent ==
    \/ \E t \in Tasks : PersistRow(t) \/ PersistSignal(t)
    \/ Chatter \/ CallTurnEnded \/ Connect \/ AdapterExit

Registry ==
    \/ \E a \in Sinks : Observe(a)
    \/ \E a \in Callers : AfterUnlock(a)
    \/ Attach
    \/ \E n \in leaving : AdapterGone(n)
    \/ CoalescedFlush \/ EndFlush
    \/ TimerArm \/ TimerFire \/ SpawnDueProbes
    \/ \E t \in Commands : ProbeResult(t)
    \/ RebuildRead \/ RebuildApply \/ RebuildFlush
    \/ ShutdownClose

Others ==
    \/ \E t \in Commands : OutputTouched(t)
    \/ ReadHold \/ Look \/ Shutdown \/ Open

Next == Agent \/ Registry \/ Others \/ Tick

Spec == Init /\ [][Next]_vars

\* The runtime runs what it was given, and time goes on.
Fairness == WF_vars(Registry) /\ WF_vars(Tick)
FairSpec == Spec /\ Fairness
-----------------------------------------------------------------------------
(* Properties.                                                               *)

\* Every variable has its type: no age, hold or grace leaves its range, and
\* a probe never counts past its two misses (task.rs, apply_probe).
TypeOK ==
    /\ log \in Seq([e : Event, age : 0..Expiry]) /\ Len(log) <= MaxEvents
    /\ rowAt \in [Tasks -> {"none", "launched", "started", "over"}]
    /\ sigAt \in [Tasks -> {"none", "confirmed", "paused", "ended"}]
    /\ mine \subseteq Tasks /\ adapter \in {"none", "joining", "up"}
    /\ joined \in 0..MaxConnects /\ opens \in 0..MaxOpens
    /\ {sinkEpoch, epoch} \cup leaving \subseteq 0..MaxConnects
    /\ inner \in Table
    /\ pending \in Seq([op : {"obs", "turnEnded", "bump", "gone"}, n : Nat])
    /\ lastSent \in [Tasks -> Row] /\ tray \in [Tasks -> Row]
    /\ {rebuilding, closed, flushScheduled, closing} \subseteq BOOLEAN
    /\ at \in [Sinks -> 0..MaxEvents]
    /\ tail \in [Callers -> [on : BOOLEAN, send : BOOLEAN, hold : HoldValue,
                             flush : BOOLEAN, ping : BOOLEAN]]
    /\ emit \in [by : {"nobody", "coalesce", "timer", "rebuild"},
                  hold : HoldValue, out : BOOLEAN, rows : [Tasks -> Row]]
    /\ timer \in [pc : {"none", "arm", "sleep", "flush", "probes", "over"},
                   left : Nat \cup {Never}, ping : BOOLEAN]
    /\ probes \subseteq Commands
    /\ rebuild \in [pc : {"idle", "reading", "read", "flush"},
                     rows : 0..MaxEvents]
    /\ hold \in HoldValue

\* Nothing is under way: the registry only waits for time or for a call.
Quiet == ~Busy /\ ~flushScheduled /\ ~rebuilding /\ ~closed

\* The published hold is the one a fresh look at the table would give, whatever
\* time has passed: every change that time alone makes (a lapse at the cap or
\* for lack of activity, staleness, the end of grace) has a timer that will
\* wake for it, and no late publication covers a newer one (settle, flush,
\* ensure_timer, next_deadline).
HoldCurrent == Quiet => hold = Hold(Evaluate(inner))

\* Rows, but for the reason of a lapse: the cap or the want of activity.
Shown(rows) == [t \in Tasks |-> IF rows[t].why = "unverified"
                                THEN [rows[t] EXCEPT !.why = "cap"] ELSE rows[t]]

\* The clients show the rows as they are, up to the reason of a lapse: no change
\* of a row, by an event or by time, is left without a flush (changed_since_sent,
\* request_flush).
TrayCurrent == Quiet => Shown(tray) = Shown(Key(Evaluate(inner)))

\* "the timer owns every other deadline" (registry.rs, output_touched): what the
\* clients show is what a fresh look would give, the reason of a lapse included.
\* Not so: a hold that lapsed for want of activity has no deadline for the cap.
TimerOwnsDeadlines == Quiet => tray = Key(Evaluate(inner))

\* "A transcript rebuild equals live observation" (signal.rs, header).  If the
\* daemon restarted now, what runs would come back stale, what the agent said
\* has ended would come back ended, and nothing would be ended that live
\* observation still shows, in whatever order the two sinks wrote and
\* observed.
RebuildAgrees ==
    Quiet =>
      \A t \in Tasks :
        LET live == inner.tasks[t]  again == Staged(log).tasks[t] IN
        /\ Running(live) => again.st = "stale"
        /\ live.why = "said" => again.st = "ended"
        /\ again.why = "said" => live.st \in {"ended", "none"}

\* A session is not kept working for ever by its background tasks: without an
\* end signal the cap, inactivity or staleness ends every hold (hold_of,
\* stale_deadline, ensure_timer).
NoHoldForever == hold.holding > 0 /\ ~closed ~> hold.holding = 0 \/ closed
=============================================================================
