------------------------------ MODULE TaskTable ------------------------------
(***************************************************************************)
(* The rows of a session's background tasks and the pure state machine over *)
(* them (vst-tasks: task.rs, signal.rs, hold.rs): what an observation, the  *)
(* passage of time, a probe or a lost adapter makes of the table, which     *)
(* tasks hold the session, and when that will change by itself.             *)
(*                                                                          *)
(* Instants are kept as ages, so that a table does not grow with the clock: *)
(* an age stops counting once no rule can tell it from an older one.        *)
(* Labels, output lines, revisions and the caps on rows are left out.       *)
(***************************************************************************)
EXTENDS Integers, Sequences, FiniteSets, SequencesExt

CONSTANTS
    Commands,       \* background commands
    Subagents,      \* subagents
    WithFile,       \* the commands whose output file is known
    Background,     \* the subagents started in the background
    Cap,            \* TASK_HOLD_CAP_MS
    UnverifiedHold, \* TASK_UNVERIFIED_HOLD_MS
    CommandStale,   \* TASK_COMMAND_STALE_MS
    SubagentStale,  \* TASK_SUBAGENT_STALE_MS
    Expiry,         \* TASK_EXPIRY_MS
    Grace,          \* TASK_END_GRACE_MS
    ProbeFirst,     \* TASK_PROBE_FIRST_MS
    ProbeInterval   \* TASK_PROBE_INTERVAL_MS

ASSUME TableAssumption ==
    /\ Commands \cap Subagents = {}
    /\ WithFile \subseteq Commands /\ Background \subseteq Subagents
    /\ IsFiniteSet(Commands) /\ IsFiniteSet(Subagents)
    /\ {Cap, UnverifiedHold, CommandStale, SubagentStale, Expiry, Grace,
        ProbeFirst, ProbeInterval} \subseteq Nat \ {0}
    /\ UnverifiedHold <= Cap /\ SubagentStale <= Cap + CommandStale

Tasks == Commands \cup Subagents

\* No deadline.
Never == -1

Least(a, b) == IF a < b THEN a ELSE b
Most(a, b) == IF a < b THEN b ELSE a

\* The oldest age that matters.
Oldest == Cap + CommandStale + Expiry
Ages == 0..Oldest
Older(a) == Least(a + 1, Oldest)

-----------------------------------------------------------------------------
(* Rows.  why is the reason a row shows; of one that has ended it says what *)
(* ended it.  One "ended" stands for Done, Failed and Stopped.              *)

Task == [st : {"none", "running", "stale", "ended"},
         why : {"", "cap", "unverified", "paused", "said", "settled", "turn",
                "exited"},
         begun : Ages, idle : Ages, over : Ages,
         live : {"pending", "alive", "unknown"}, misses : {0, 1},
         probe : {Never} \cup 0..Most(ProbeFirst, ProbeInterval),
         probing : BOOLEAN, lapse : {"none", "cap", "unverified"},
         ext : BOOLEAN, auth : BOOLEAN, paused : BOOLEAN, back : BOOLEAN]

Absent == [st |-> "none", why |-> "", begun |-> 0, idle |-> 0, over |-> 0,
           live |-> "unknown", misses |-> 0, probe |-> Never,
           probing |-> FALSE, lapse |-> "none", ext |-> FALSE, auth |-> FALSE,
           paused |-> FALSE, back |-> FALSE]

Running(x) == x.st = "running"
End(x, why, age) == [x EXCEPT !.st = "ended", !.why = why, !.over = age]
GoStale(x, age) == [x EXCEPT !.st = "stale", !.why = "", !.over = age]

\* An event of the agent about task t.  A signal names it by its own tool call
\* id, by a new one (a subagent that is resumed) or by no tool call at all.
Event == [k : {"launched", "backgrounded", "started", "nested", "finished",
               "failed", "settled", "confirmed", "ended", "chatter"},
          t : Tasks, tool : {"own", "new", "none"}, paused : BOOLEAN]

\* Inner: the rows, the launches seen, the parked signals, how many tasks held
\* when last counted, and how long ago the last hold ended (Grace: long ago).
Table == [tasks : [Tasks -> Task], launched : SUBSET Commands,
          early : Seq(Event), ends : Seq(Event),
          held : 0..Cardinality(Tasks), quiet : 0..Grace]

EmptyTable == [tasks |-> [t \in Tasks |-> Absent], launched |-> {},
               early |-> <<>>, ends |-> <<>>, held |-> 0, quiet |-> Grace]

-----------------------------------------------------------------------------
(* Holds (hold.rs).                                                          *)

\* A command whose liveness is backed by its output file.
Verified(t, x) == t \in WithFile /\ x.live \in {"pending", "alive"}

HoldOf_WithoutCap(t, x) ==
    IF ~Running(x) \/ (x.auth /\ x.paused) THEN "no"
    ELSE IF x.auth \/ t \in Subagents \/ Verified(t, x) THEN "holds"
    ELSE IF x.idle < UnverifiedHold THEN "holds"
    ELSE "unverified"

\* hold_of
HoldOf(t, x) ==
    IF ~Running(x) \/ (x.auth /\ x.paused) THEN "no"
    ELSE IF t \in Subagents /\ ~x.auth THEN "holds"
    ELSE IF x.begun >= Cap THEN "cap"
    ELSE IF x.auth \/ Verified(t, x) \/ x.idle < UnverifiedHold THEN "holds"
    ELSE "unverified"

\* hold_deadline
HoldLeft(t, x) ==
    IF ~Running(x) \/ x.lapse # "none" \/ (x.auth /\ x.paused)
       \/ (t \in Subagents /\ ~x.auth) THEN {}
    ELSE IF x.auth \/ Verified(t, x) THEN {Cap - x.begun}
    ELSE {Least(Cap - x.begun, UnverifiedHold - x.idle)}

Holding(tab) == {t \in Tasks : HoldOf(t, tab.tasks[t]) = "holds"}

\* What the registry tells the lifecycle.
NoHold == [holding |-> 0, lapsed |-> {}, grace |-> FALSE]
Hold(tab) == [holding |-> Cardinality(Holding(tab)),
              lapsed |-> {t \in Tasks :
                            HoldOf(t, tab.tasks[t]) \in {"cap", "unverified"}},
              grace |-> tab.quiet < Grace]

\* note_hold
NoteHold(tab, grace) ==
    LET n == Cardinality(Holding(tab)) IN
    [tab EXCEPT !.held = n,
                !.quiet = IF grace /\ tab.held > 0 /\ n = 0 THEN 0 ELSE @]

-----------------------------------------------------------------------------
(* Time (evaluate and next_deadline).                                        *)

\* stale_deadline of a running task
StaleLeft(t, x) ==
    LET byActivity == (IF t \in Commands THEN CommandStale ELSE SubagentStale)
                      - x.idle
    IN IF x.auth \/ Verified(t, x)
       THEN Most(byActivity, Cap + CommandStale - x.begun)
       ELSE byActivity

\* A hold that lapses, or is armed again.
Lapse(t, x) ==
    LET h == HoldOf(t, x) IN
    IF h \in {"cap", "unverified"} /\ x.lapse # h
    THEN [x EXCEPT !.lapse = h, !.why = h]
    ELSE IF h = "holds" /\ x.lapse # "none"
         THEN [x EXCEPT !.lapse = "none", !.why = ""] ELSE x

Drop(x) == IF x.over >= Expiry THEN Absent ELSE x

\* Staleness first, then the hold, then expiry.
Judge(t, x) ==
    IF x.st = "none" THEN x
    ELSE IF ~Running(x) THEN Drop(x)
    ELSE IF StaleLeft(t, x) <= 0
         THEN Drop(GoStale(x, Least(Oldest, -StaleLeft(t, x))))
    ELSE Lapse(t, x)

Evaluate(tab) ==
    NoteHold([tab EXCEPT !.tasks = [t \in Tasks |-> Judge(t, @[t])]], TRUE)

Deadlines(tab) ==
    (UNION {LET x == tab.tasks[t] IN
            IF Running(x)
            THEN {StaleLeft(t, x)} \cup HoldLeft(t, x)
                 \cup (IF x.probing THEN {} ELSE {x.probe} \ {Never})
            ELSE IF x.st = "none" THEN {} ELSE {Expiry - x.over} : t \in Tasks})
    \cup (IF tab.quiet < Grace THEN {Grace - tab.quiet} ELSE {})

\* How long a timer may sleep.
NextDeadline(tab) ==
    LET ds == Deadlines(tab) IN
    IF ds = {} THEN Never ELSE Most(0, CHOOSE d \in ds : \A e \in ds : d <= e)

\* One unit of time passes over a row and over the table.
AgeTask(x) ==
    IF x.st = "none" THEN x
    ELSE [x EXCEPT !.begun = Older(@), !.idle = Older(@), !.over = Older(@),
                   !.probe = IF @ > 0 THEN @ - 1 ELSE @]
Aged(tab) == [tab EXCEPT !.tasks = [t \in Tasks |-> AgeTask(@[t])],
                         !.quiet = Least(@ + 1, Grace)]

-----------------------------------------------------------------------------
(* Signals (signal.rs).                                                      *)

Matches(t, x, e) ==
    e.t = t /\ (t \in Commands \/ e.tool = "own" \/ x.ext)

\* confirm: a finished task is not opened again, except a subagent that is
\* resumed under a new tool call.
Confirm(t, x, e) ==
    LET resumed == ~Running(x) /\ t \in Subagents /\ e.tool = "new"
        y == [x EXCEPT !.ext = @ \/ t \in Subagents]
        z == IF resumed
             THEN [y EXCEPT !.st = "running", !.why = "", !.over = 0,
                            !.back = TRUE, !.lapse = "none"]
             ELSE y
    IN IF ~Running(z) THEN z
       ELSE [z EXCEPT !.auth = TRUE, !.paused = e.paused, !.probe = Never,
                      !.why = IF e.paused THEN "paused"
                              ELSE IF @ = "paused"
                                   THEN (IF z.lapse = "none" THEN ""
                                         ELSE z.lapse)
                              ELSE @]

\* What a parked signal does to its task.
Meet(t, x, e, age) == IF e.k = "confirmed" THEN Confirm(t, x, e)
                      ELSE IF Running(x) THEN End(x, "said", age) ELSE x

\* The parked signals of q that match meet task t and leave q.
Unpark(t, x, q, age) ==
    FoldLeft(LAMBDA a, e : IF Matches(t, a.x, e)
                           THEN [a EXCEPT !.x = Meet(t, @, e, age)]
                           ELSE [a EXCEPT !.left = Append(@, e)],
             [x |-> x, left |-> <<>>], q)

\* adopt_early and the storing of a new row.
AddTask(tab, t, x, age) ==
    LET c == Unpark(t, x, tab.early, age)
        d == Unpark(t, c.x, tab.ends, age)
    IN [tab EXCEPT !.tasks[t] = d.x, !.early = c.left, !.ends = d.left]

ApplyConfirmed(tab, e, age) ==
    LET t == e.t
        x == tab.tasks[t]
        d == Unpark(t, Confirm(t, x, e), tab.ends, age)
    IN IF x.st # "none" /\ Matches(t, x, e)
       THEN [tab EXCEPT !.tasks[t] = d.x, !.ends = d.left]
       ELSE [tab EXCEPT !.early = Append(@, e)]

ApplyEnded_RunningOnly(tab, e, age) ==
    LET t == e.t  x == tab.tasks[t] IN
    IF x.st # "none" /\ Matches(t, x, e)
    THEN IF x.st = "running"
         THEN [tab EXCEPT !.tasks[t] = End(x, "said", age)] ELSE tab
    ELSE [tab EXCEPT !.ends = Append(@, e)]

\* A real end wins over a guess.
ApplyEnded(tab, e, age) ==
    LET t == e.t  x == tab.tasks[t] IN
    IF x.st # "none" /\ Matches(t, x, e)
    THEN IF x.st \in {"running", "stale"}
         THEN [tab EXCEPT !.tasks[t] = End(x, "said", age)] ELSE tab
    ELSE [tab EXCEPT !.ends = Append(@, e)]

-----------------------------------------------------------------------------
(* Observations (task.rs).                                                   *)

Born(t, age) ==
    [Absent EXCEPT !.st = "running", !.begun = age, !.idle = age,
                   !.back = t \in Commands \cup Background,
                   !.live = IF t \in WithFile THEN "pending" ELSE "unknown",
                   !.probe = IF t \in WithFile THEN Most(0, ProbeFirst - age)
                             ELSE Never]

\* A sign of life, age old.
Seen(x, age) == [x EXCEPT !.idle = Least(@, age)]

\* apply_one, of an event that is age old
ApplyOne(tab, e, age) ==
    LET t == e.t
        x == tab.tasks[t]
        seen == Seen(x, age)
    IN
    CASE e.k = "launched" -> [tab EXCEPT !.launched = @ \cup {t}]
      [] e.k = "backgrounded" ->
           IF t \in tab.launched /\ x.st = "none"
           THEN AddTask(tab, t, Born(t, age), age) ELSE tab
      [] e.k = "started" ->
           IF x.st = "none" THEN AddTask(tab, t, Born(t, age), age) ELSE tab
      [] e.k = "nested" ->
           IF Running(x) THEN [tab EXCEPT !.tasks[t] = seen] ELSE tab
      [] e.k \in {"finished", "failed"} ->
           IF x.st \in {"running", "stale"} /\ ~(x.back /\ e.k = "finished")
           THEN [tab EXCEPT !.tasks[t] = End(seen, "said", age)] ELSE tab
      [] e.k = "settled" ->
           [tab EXCEPT !.tasks =
              [s \in Tasks |->
                 IF s \in Subagents /\ Running(@[s]) /\ @[s].back /\ ~@[s].auth
                 THEN End(@[s], "settled", age) ELSE @[s]]]
      [] e.k = "confirmed" -> ApplyConfirmed(tab, e, age)
      [] e.k = "ended" -> ApplyEnded(tab, e, age)
      [] OTHER -> tab

\* bump_command_activity
Bump(tab, age) ==
    [tab EXCEPT !.tasks =
       [t \in Tasks |-> IF t \in Commands /\ Running(@[t])
                        THEN Seen(@[t], age) ELSE @[t]]]

\* apply
Apply(tab, e, age) ==
    NoteHold(Bump(ApplyOne(NoteHold(tab, TRUE), e, age), age), e.k = "ended")

\* stale_all_running and turn_ended
StaleAll(tab) ==
    NoteHold([tab EXCEPT !.tasks =
                [t \in Tasks |-> IF Running(@[t]) THEN GoStale(@[t], 0)
                                 ELSE @[t]]], TRUE)

TurnEnded(tab) ==
    NoteHold([tab EXCEPT !.tasks =
                [t \in Tasks |->
                   IF t \in Subagents /\ Running(@[t]) /\ ~@[t].back
                   THEN End(@[t], "turn", 0) ELSE @[t]]], FALSE)

\* apply_probe
Probed(x, result) ==
    LET again == [x EXCEPT !.probe = ProbeInterval] IN
    CASE result = "skipped" -> [x EXCEPT !.probe = ProbeFirst]
      [] result \in {"alive", "unknown"} ->
           [again EXCEPT !.live = result, !.misses = 0]
      [] result = "nowriter" ->
           IF x.misses = 0 THEN [again EXCEPT !.misses = 1]
           ELSE [End(x, "exited", 0) EXCEPT !.probe = Never]

ApplyProbe(tab, t, result) ==
    LET x == [tab.tasks[t] EXCEPT !.probing = FALSE] IN
    NoteHold(IF tab.tasks[t].st = "none" THEN tab
             ELSE [tab EXCEPT !.tasks[t] = IF Running(x) /\ ~x.auth
                                           THEN Probed(x, result) ELSE x],
             TRUE)

\* The table after rows, a sequence of [e, age].  The folds of this project
\* over tables keep a singleton, so that TLC computes each table once.
Applied(rows) ==
    FoldLeft(LAMBDA S, r : {Apply(tab, r.e, r.age) : tab \in S},
             {EmptyTable}, rows)

\* A rebuilt table: what still runs belongs to an earlier adapter.
Restarted(tab) == [Evaluate(StaleAll(tab)) EXCEPT !.quiet = Grace]

Staged(rows) == CHOOSE tab \in {Restarted(x) : x \in Applied(rows)} : TRUE
=============================================================================
