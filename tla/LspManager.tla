------------------------------ MODULE LspManager ------------------------------
(***************************************************************************)
(* The language servers of vst-lsp (manager.rs), for one workspace and one  *)
(* language: requests, Retry, status polls and the idle sweeper share one   *)
(* slot of the server map, one latched failure, the crash history and the   *)
(* dependency guard.  Each server process has a lifecycle task, and each    *)
(* crash a task that restarts the server after a delay.                     *)
(*                                                                          *)
(* The mutex of the server map is the variable lock while a handler keeps   *)
(* it across its awaits; a handler that takes and drops it in one step only *)
(* finds it free.  Every other lock is held for one step.                   *)
(*                                                                          *)
(* "busy" stands for Starting and Indexing.  Ages are left out: the sweeper *)
(* may find a server idle at any time, a delay may end at any time, and the *)
(* window of the crash history may be over.  So are notes, health and       *)
(* documents, which decide nothing here; of the file watcher there is that  *)
(* it tells the current server of changes.                                  *)
(***************************************************************************)
EXTENDS Naturals

CONSTANTS
    Servers,        \* server processes, recycled once nobody refers to them
    Callers,        \* requests, Retries and polls in progress
    None,           \* no server, no caller
    MaxRestarts,    \* MAX_CRASH_RESTARTS
    Ops,            \* what clients and the environment may do
    Prompt          \* nothing comes between a look and the write it is for

ASSUME LspAssumption ==
    /\ None \notin Servers \cup Callers /\ Servers \cap Callers = {}
    /\ MaxRestarts \in Nat
    /\ Ops \subseteq {"request", "restart", "poll", "crash", "mute", "refuse",
                      "dependency", "idle", "stop", "watch"}
    /\ Prompt \in BOOLEAN

VARIABLES
    current,    \* the server in the map
    failure,    \* the latched failure
    count,      \* crashes in the history
    guard,      \* ProbeGuard
    lock,       \* who holds the server map across awaits
    server,     \* the handle and the lifecycle task of each server
    call        \* the handlers; call[s] for the task that restarts s

vars == <<current, failure, count, guard, lock, server, call>>

\* Whoever may run ensure_server_handle.
Actors == Callers \cup Servers

Status == {"busy", "ready", "idle", "error", "stopped"}
TaskSteps == {"init", "initRecord", "initKill", "initDrop", "loop", "tally",
              "count", "crash", "lastCrash", "off"}
CallSteps == {"none", "ensure", "plan", "swap", "spawn", "await", "open",
              "wake", "rpc", "restart", "clear", "history", "guard", "probe",
              "backoff"}

\* One FailureRecord: by is the server whose crash it is, for the time stamp
\* by which auto_restart knows its record again.
Failure == [kind : {"crashed", "dependency", "start"}, auto : BOOLEAN,
            reprobe : BOOLEAN, by : Servers \cup {None}]
Latched(kind, auto, reprobe, by) ==
    [kind |-> kind, auto |-> auto, reprobe |-> reprobe, by |-> by]
DependencyFailure == Latched("dependency", TRUE, TRUE, None)
StartFailure == Latched("start", FALSE, FALSE, None)

\* early: the process has been told of a changed file, and its handshake is not
\* over yet.
Server == [status : Status, proc : {"up", "mute", "dead"},
           init : {"waiting", "done", "dropped"}, task : TaskSteps,
           pending : BOOLEAN, early : BOOLEAN]
NoServer == [status |-> "stopped", proc |-> "dead", init |-> "dropped",
             task |-> "off", pending |-> FALSE, early |-> FALSE]
NewServer(pending) ==
    [status |-> "busy", proc |-> "up", init |-> "waiting", task |-> "init",
     pending |-> pending, early |-> FALSE]

\* asks: a request, which goes on with the handle; pending: the plan of the
\* launch, for the server that is started with it.
Call == [at : CallSteps, asks : BOOLEAN, handle : Servers \cup {None},
         pending : BOOLEAN]
NoCall == [at |-> "none", asks |-> FALSE, handle |-> None, pending |-> FALSE]

Init ==
    /\ current = None /\ failure = None /\ count = 0 /\ guard = "none"
    /\ lock = None
    /\ server = [s \in Servers |-> NoServer]
    /\ call = [p \in Actors |-> NoCall]

-----------------------------------------------------------------------------
(* Helpers. *)

Free == lock = None
At(p, step) == call[p].at = step
Go(p, step) == call' = [call EXCEPT ![p].at = step]
Done(p) == call' = [call EXCEPT ![p] = NoCall]
TaskAt(s, step) == server[s].task = step

\* Kills the process of s and marks its handle, as Retry, the sweeper and a
\* replacement do.
Stopped(s) == [server EXCEPT ![s].status = "stopped", ![s].proc = "dead"]

\* With Prompt, nobody stops or fails a server between the look of a request
\* at its status and the write that follows ...
Unwatched(s) == Prompt =>
    ~ \E p \in Callers : At(p, "wake") /\ call[p].handle = s

\* ... and no failure is latched while a dependency probe runs.
NoProbe == Prompt => ~ \E p \in Callers : At(p, "probe")

\* A server nobody refers to: its handle has been dropped.
Unused(s) ==
    /\ s # current /\ TaskAt(s, "off") /\ At(s, "none")
    /\ \A p \in Actors : call[p].handle # s

-----------------------------------------------------------------------------
(* ensure_server_handle. *)

\* There is a server, shown neither as failed nor as stopped.
Up == current # None /\ server[current].status \notin {"stopped", "error"}

\* The handle for p: a request goes on with it, the others only wanted it up.
Got(p, s) ==
    IF call[p].asks
    THEN call' = [call EXCEPT ![p] = [NoCall EXCEPT !.at = "await", !.handle = s]]
    ELSE Done(p)

MustSpawn_WithoutLatch == TRUE

\* A latched failure is answered at once, without a new attempt.
MustSpawn == failure = None

\* A launch that fails drops the lock.
Refuse(p) == Done(p) /\ lock' = None

\* The lock is taken; a server that is up is used.
EnsureLook(p) ==
    /\ At(p, "ensure") /\ Free
    /\ \/ /\ Up
          /\ Got(p, current)
          /\ UNCHANGED lock
       \/ /\ ~Up
          /\ IF MustSpawn THEN lock' = p /\ Go(p, "plan")
                          ELSE Done(p) /\ UNCHANGED lock
    /\ UNCHANGED <<current, failure, count, guard, server>>

\* plan_launch: the dependency probe.  A missing dependency gets one real
\* attempt, an incompatible one none.
EnsurePlan(p) ==
    /\ At(p, "plan")
    /\ \/ Go(p, "swap") /\ UNCHANGED <<failure, guard, lock>>
       \/ /\ "dependency" \in Ops /\ guard = "none"
          /\ guard' = "spent"
          /\ call' = [call EXCEPT ![p].at = "swap", ![p].pending = TRUE]
          /\ UNCHANGED <<failure, lock>>
       \/ /\ "dependency" \in Ops /\ NoProbe
          /\ failure' = DependencyFailure
          /\ Refuse(p)
          /\ UNCHANGED guard
    /\ UNCHANGED <<current, count, server>>

\* A server that is shown as failed or stopped is killed before it is replaced.
EnsureSwap(p) ==
    /\ At(p, "swap") /\ Go(p, "spawn")
    /\ IF current = None
       THEN UNCHANGED <<current, server>>
       ELSE /\ Unwatched(current)
            /\ server' = Stopped(current)
            /\ current' = None
    /\ UNCHANGED <<failure, count, guard, lock>>

\* spawn_server: the process starts with its lifecycle task, or it is not on
\* the PATH, or it cannot be started.
EnsureSpawn(p) ==
    /\ At(p, "spawn")
    /\ \/ \E s \in Servers :
            /\ Unused(s) /\ lock' = None
            /\ server' = [server EXCEPT ![s] = NewServer(call[p].pending)]
            /\ current' = s
            /\ Got(p, s)
            /\ UNCHANGED failure
       \/ /\ "refuse" \in Ops /\ NoProbe
          /\ failure' = StartFailure
          /\ Refuse(p) /\ UNCHANGED <<server, current>>
       \/ Refuse(p) /\ UNCHANGED <<server, current, failure>>
    /\ UNCHANGED <<count, guard>>

-----------------------------------------------------------------------------
(* request. *)

Request(p) ==
    /\ "request" \in Ops /\ At(p, "none")
    /\ call' = [call EXCEPT ![p].at = "ensure", ![p].asks = TRUE]
    /\ UNCHANGED <<current, failure, count, guard, lock, server>>

MayOpen_WithoutWait(s) == server[s].status # "error"

\* The handshake is over, one way or the other, and has not failed.
MayOpen(s) == server[s].init # "waiting" /\ server[s].status # "error"

\* A request waits for the handshake of its server, and goes on only if the
\* server is not marked as failed.
RequestAwait(p) ==
    /\ At(p, "await")
    /\ \/ MayOpen(call[p].handle) /\ Go(p, "open")
       \/ /\ server[call[p].handle].init # "waiting"
          /\ server[call[p].handle].status = "error"
          /\ Done(p)
    /\ UNCHANGED <<current, failure, count, guard, lock, server>>

\* didOpen is sent; a server that still works is not asked, an idle one is
\* woken first.
RequestOpen(p) ==
    LET status == server[call[p].handle].status
    IN /\ At(p, "open")
       /\ \/ status = "busy" /\ Done(p)
          \/ status = "idle" /\ Go(p, "wake")
          \/ status \notin {"busy", "idle"} /\ Go(p, "rpc")
       /\ UNCHANGED <<current, failure, count, guard, lock, server>>

RequestWake(p) ==
    /\ At(p, "wake") /\ Go(p, "rpc")
    /\ server' = [server EXCEPT ![call[p].handle].status = "ready"]
    /\ UNCHANGED <<current, failure, count, guard, lock>>

\* Answered, timed out, or failed with the connection.
RequestEnd(p) ==
    /\ At(p, "rpc") /\ Done(p)
    /\ UNCHANGED <<current, failure, count, guard, lock, server>>

-----------------------------------------------------------------------------
(* restart: Retry. *)

Restart(p) ==
    /\ "restart" \in Ops /\ At(p, "none")
    /\ Go(p, "restart")
    /\ UNCHANGED <<current, failure, count, guard, lock, server>>

\* The old server is taken out of the map, marked, then killed.
RestartStop(p) ==
    /\ At(p, "restart") /\ Free /\ Go(p, "clear")
    /\ IF current = None
       THEN UNCHANGED <<current, server>>
       ELSE /\ Unwatched(current)
            /\ server' = Stopped(current)
            /\ current' = None
    /\ UNCHANGED <<failure, count, guard, lock>>

RestartClear(p) ==
    /\ At(p, "clear") /\ Go(p, "history")
    /\ failure' = None
    /\ UNCHANGED <<current, count, guard, lock, server>>

RestartHistory(p) ==
    /\ At(p, "history") /\ Go(p, "guard")
    /\ count' = 0
    /\ UNCHANGED <<current, failure, guard, lock, server>>

RestartGuard(p) ==
    /\ At(p, "guard") /\ Go(p, "ensure")
    /\ guard' = IF guard = "spent" THEN "none" ELSE guard
    /\ UNCHANGED <<current, failure, count, lock, server>>

-----------------------------------------------------------------------------
(* reprobe: a status poll, or a change of a dependency manifest. *)

Poll(p) ==
    /\ "poll" \in Ops /\ At(p, "none")
    /\ failure # None /\ failure.reprobe
    /\ Go(p, "probe")
    /\ UNCHANGED <<current, failure, count, guard, lock, server>>

\* The failure is looked up again: it is gone, or cleared because the
\* dependency resolves, or the dependency still fails, maybe in another way.
PollEnd(p) ==
    /\ At(p, "probe")
    /\ \/ failure = None /\ Done(p) /\ UNCHANGED failure
       \/ failure # None /\ Go(p, "ensure") /\ failure' = None
       \/ /\ failure # None /\ Done(p)
          /\ failure' = [failure EXCEPT !.kind = "dependency", !.auto = TRUE]
    /\ UNCHANGED <<current, count, guard, lock, server>>

-----------------------------------------------------------------------------
(* The sweeper. *)

SweepIdle ==
    /\ "idle" \in Ops /\ Free
    /\ current # None /\ server[current].status = "ready"
    /\ server' = [server EXCEPT ![current].status = "idle"]
    /\ UNCHANGED <<current, failure, count, guard, lock, call>>

SweepStop ==
    /\ "stop" \in Ops /\ Free
    /\ current # None /\ server[current].status # "stopped"
    /\ Unwatched(current)
    /\ server' = Stopped(current)
    /\ UNCHANGED <<current, failure, count, guard, lock, call>>

-----------------------------------------------------------------------------
(* The file watcher: a file of the workspace has changed or is gone.        *)

\* Every server in the map is told, however far it has come.
WatchNotify ==
    /\ "watch" \in Ops /\ Free
    /\ current # None
    /\ server' = [server EXCEPT ![current].early =
                     \/ @
                     \/ /\ server[current].init # "done"
                        /\ server[current].proc # "dead"]
    /\ UNCHANGED <<current, failure, count, guard, lock, call>>

-----------------------------------------------------------------------------
(* The process of a server: it may die, or close its output and live on. *)

Crash(s) ==
    /\ \/ "crash" \in Ops /\ server[s].proc # "dead"
          /\ server' = [server EXCEPT ![s].proc = "dead"]
       \/ "mute" \in Ops /\ server[s].proc = "up"
          /\ server' = [server EXCEPT ![s].proc = "mute"]
    /\ UNCHANGED <<current, failure, count, guard, lock, call>>

-----------------------------------------------------------------------------
(* ServerTask::run. *)

\* The answer may be read after the process has died.
InitOk(s) ==
    /\ TaskAt(s, "init")
    /\ guard' = IF server[s].pending THEN "disproved" ELSE guard
    /\ server' = [server EXCEPT ![s].init = "done", ![s].task = "loop",
                                ![s].early = FALSE]
    /\ UNCHANGED <<current, failure, count, lock, call>>

\* An error, a time-out, or the end of the output.
InitFail(s) ==
    /\ TaskAt(s, "init")
    /\ server' = [server EXCEPT ![s].task = "initRecord"]
    /\ UNCHANGED <<current, failure, count, guard, lock, call>>

OnPurpose_WithIdle(s) == server[s].status \in {"stopped", "idle"}

\* The server was stopped on purpose.
OnPurpose(s) == server[s].status = "stopped"

\* A failure counts if its server is current and was not stopped on purpose.
Mine(s) == current = s /\ ~OnPurpose(s)

\* record(): the failure is latched and the handle marked, in one step.
Record(s, what, next) ==
    IF Mine(s)
    THEN /\ Unwatched(s) /\ NoProbe
         /\ failure' = what
         /\ server' = [server EXCEPT ![s].status = "error", ![s].task = next]
    ELSE /\ server' = [server EXCEPT ![s].task = next]
         /\ UNCHANGED failure

InitRecord(s) ==
    /\ TaskAt(s, "initRecord") /\ Free
    /\ Record(s, IF server[s].pending THEN DependencyFailure ELSE StartFailure,
              "initKill")
    /\ UNCHANGED <<current, count, guard, lock, call>>

\* A server that refused the handshake is killed; then those that wait for
\* the handshake go on.
InitKill(s) ==
    /\ TaskAt(s, "initKill")
    /\ server' = [server EXCEPT ![s].proc = "dead", ![s].task = "initDrop",
                                ![s].early = FALSE]
    /\ UNCHANGED <<current, failure, count, guard, lock, call>>

InitDrop(s) ==
    /\ TaskAt(s, "initDrop")
    /\ server' = [server EXCEPT ![s].init = "dropped", ![s].task = "off"]
    /\ UNCHANGED <<current, failure, count, guard, lock, call>>

\* apply_readiness: the server has work to do, or none is left; neither
\* brings a failed or stopped server back, nor wakes an idle one.
Readiness(s) ==
    /\ TaskAt(s, "loop")
    /\ \/ /\ server[s].status = "busy"
          /\ server' = [server EXCEPT ![s].status = "ready"]
       \/ /\ server[s].status \in {"ready", "idle"}
          /\ server' = [server EXCEPT ![s].status = "busy"]
    /\ UNCHANGED <<current, failure, count, guard, lock, call>>

\* The output has ended.
Eof(s) ==
    /\ TaskAt(s, "loop") /\ server[s].proc # "up"
    /\ server' = [server EXCEPT ![s].task = "tally"]
    /\ UNCHANGED <<current, failure, count, guard, lock, call>>

\* If not, it has crashed.
Tally(s) ==
    /\ TaskAt(s, "tally")
    /\ server' = [server EXCEPT ![s].task = IF OnPurpose(s) THEN "off" ELSE "count"]
    /\ UNCHANGED <<current, failure, count, guard, lock, call>>

\* Bound: the history is not counted beyond the first crash that is not
\* restarted.
CountCrash(s) ==
    /\ TaskAt(s, "count")
    /\ count' \in {1, IF count > MaxRestarts THEN count ELSE count + 1}
    /\ server' = [server EXCEPT ![s].task =
                     IF count' <= MaxRestarts THEN "crash" ELSE "lastCrash"]
    /\ UNCHANGED <<current, failure, guard, lock, call>>

Restarts_WithoutLast(s, auto) == auto /\ Mine(s) /\ count < MaxRestarts

\* A recorded crash is followed by a restart if its failure says so.
Restarts(s, auto) == auto /\ Mine(s)

CrashRecord(s) ==
    /\ Free
    /\ \E auto \in BOOLEAN :
         /\ TaskAt(s, IF auto THEN "crash" ELSE "lastCrash")
         /\ Record(s, Latched("crashed", auto, FALSE, s), "off")
         /\ IF Restarts(s, auto) THEN Go(s, "backoff") ELSE UNCHANGED call
    /\ UNCHANGED <<current, count, guard, lock>>

\* auto_restart: unless the record of this crash has been cleared or replaced.
AutoRestart(s) ==
    /\ At(s, "backoff")
    /\ IF failure # None /\ failure.by = s /\ failure.kind = "crashed"
       THEN failure' = None /\ Go(s, "ensure")
       ELSE Done(s) /\ UNCHANGED failure
    /\ UNCHANGED <<current, count, guard, lock, server>>

-----------------------------------------------------------------------------
(* The whole. *)

Ensure(p) == EnsureLook(p) \/ EnsurePlan(p) \/ EnsureSwap(p) \/ EnsureSpawn(p)

Client(p) == Request(p) \/ Restart(p) \/ Poll(p)

Handler(p) ==
    \/ RequestAwait(p) \/ RequestOpen(p) \/ RequestWake(p) \/ RequestEnd(p)
    \/ RestartStop(p) \/ RestartClear(p) \/ RestartHistory(p) \/ RestartGuard(p)
    \/ PollEnd(p)

Task(s) ==
    \/ InitOk(s) \/ InitFail(s) \/ InitRecord(s) \/ InitKill(s) \/ InitDrop(s)
    \/ Readiness(s) \/ Eof(s) \/ Tally(s) \/ CountCrash(s) \/ CrashRecord(s)
    \/ AutoRestart(s)

Next ==
    \/ \E p \in Actors : Ensure(p)
    \/ \E p \in Callers : Client(p) \/ Handler(p)
    \/ \E s \in Servers : Task(s) \/ Crash(s)
    \/ SweepIdle \/ SweepStop \/ WatchNotify

Spec == Init /\ [][Next]_vars

-----------------------------------------------------------------------------
(* Properties. *)

\* The map is locked by the handler that is about to start a server; a request
\* has the handle of its server from ensure_server_handle on.
TypeOK ==
    /\ current \in Servers \cup {None} /\ lock \in Actors \cup {None}
    /\ failure \in Failure \cup {None}
    /\ count \in 0..(MaxRestarts + 1)
    /\ guard \in {"none", "spent", "disproved"}
    /\ server \in [Servers -> Server] /\ call \in [Actors -> Call]
    /\ \A p \in Actors :
         /\ lock = p <=> call[p].at \in {"plan", "swap", "spawn"}
         /\ call[p].handle # None <=>
                call[p].at \in {"await", "open", "wake", "rpc"}

\* A server process is started only while no other of its workspace and
\* language is alive, so that none is leaked, and never over a latched failure:
\* requests do not bring a respawn storm about.
SpawnsClean ==
    [][current' # current /\ current' # None =>
         /\ failure = None
         /\ \A s \in Servers : server[s].proc = "dead"]_vars

\* What clients are shown does not go stale: as long as the current server is
\* not shown as failed or stopped, its task is there to see it die.
Watching == TaskSteps \ {"off", "initKill", "initDrop"}
ShownServerWatched == Up => server[current].task \in Watching

\* A failure that promises an automatic retry has somebody who will do it: the
\* polls, which probe the dependency again, or the delay after a crash.
RetryPromised ==
    failure # None /\ failure.auto =>
        \/ failure.reprobe
        \/ failure.by # None /\ At(failure.by, "backoff")

\* No request opens a document at, or asks, a live server before the handshake
\* is complete.
RequestsAfterInit ==
    \A p \in Callers : call[p].at \in {"open", "wake", "rpc"} =>
        \/ server[call[p].handle].init = "done"
        \/ server[call[p].handle].proc = "dead"

-----------------------------------------------------------------------------
\* What the code does not keep (README, "Where code and comments part").

\* "Sending traffic before `initialized` crashes LSP-conformant servers", so
\* that nothing is sent to a live server before: not so, the file watcher does
\* not wait for the handshake.
TrafficAfterInit ==
    RequestsAfterInit /\ \A s \in Servers : ~server[s].early
=============================================================================
