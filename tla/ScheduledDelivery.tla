-------------------------- MODULE ScheduledDelivery --------------------------
(***************************************************************************)
(* Scheduled messages and immediate Terminal sends, and the review comments *)
(* they carry: the rows of `scheduled_messages` (vst-store), the poller and *)
(* its Rich Chat deliveries, the jobs that paste into a Terminal agent      *)
(* (delivery.rs), the observer that puts comments back after a delivery     *)
(* (terminal.rs, holds.rs), and the client calls that race with them.       *)
(*                                                                          *)
(* A comment is in the panel, held by the hold `adopt:<row>` of a Rich Chat *)
(* turn, or deleted from the table because a row's payload carries it.  One *)
(* action is one transaction of the store, or the code between two awaits.  *)
(* A row may be due at any time, so fireAt, and editing it, are left out.   *)
(***************************************************************************)
EXTENDS Naturals, FiniteSets

CONSTANTS
    Rows,       \* ids of scheduled_messages rows
    Comments,   \* review comments
    Sessions,   \* session ids, those of replacements included
    Started,    \* the sessions that exist at first
    Jobs,       \* JobCtl objects
    Callers,    \* client calls in progress
    Poller,     \* the schedule poller
    None,       \* nothing
    MaxCalls,   \* bound on client calls
    MaxCrashes, \* bound on crashes of the daemon
    Ops         \* the calls and events this instance allows

ASSUME DeliveryAssumption ==
    /\ Started \subseteq Sessions
    /\ Poller \notin Callers
    /\ None \notin Rows \cup Sessions \cup Jobs
    /\ Rows \cap {"live", "gone"} = {}
    /\ MaxCalls \in Nat /\ MaxCrashes \in Nat

VARIABLES
    row,        \* scheduled_messages
    panel,      \* the comments table
    sess, chan, \* sessions in the store: their state and their channel
    known,      \* Inner.known: the registered job of a row
    job,        \* the jobs
    running,    \* the job its worker runs
    call,       \* what the poller and the client calls are doing
    captured,   \* TerminalState.captured: comments of a row being deleted
    told,       \* outcomes the observer has been told and is working on
    turns,      \* Rich Chat turns that carry adopted comments
    adoption,   \* how often a row was adopted (names the turn of its hold)
    boot,       \* the boot step, "up" once the daemon serves
    fate,       \* history: what became of a comment in the end
    shown,      \* history: how often a row went out since its last Retry
    calls, crashes

storeVars  == <<row, panel>>
sessVars   == <<sess, chan>>
jobVars    == <<known, job, running>>
turnVars   == <<turns, adoption>>
historyVars == <<fate, shown>>
boundVars  == <<calls, crashes>>
vars == <<storeVars, sessVars, jobVars, call, captured, told, turnVars, boot,
          historyVars, boundVars>>

-----------------------------------------------------------------------------
(* Rows, and the statements the store runs on them.                         *)

Row == [status : {"unused", "pending", "sent", "failed", "gone"},
        claimed : BOOLEAN, phase : {"null", "waiting", "pasting"},
        sess : Sessions \cup {None}, imm : BOOLEAN, tmux : BOOLEAN,
        pay : {"none", "held", "adopted", "restored"},
        snap : SUBSET Comments]

Blank(st) == [status |-> st, claimed |-> FALSE, phase |-> "null",
              sess |-> None, imm |-> FALSE, tmux |-> FALSE,
              pay |-> "none", snap |-> {}]

Exists(r) == row[r].status \in {"pending", "sent", "failed"}
Pending(r) == row[r].status = "pending"
Claimed(r) == Pending(r) /\ row[r].claimed
Waiting(r) == Pending(r) /\ row[r].phase = "waiting"

\* is_delivery_row
DeliveryRow(x) == x.tmux \/ x.phase # "null"

\* list_delivery_rows and the filter its callers put on it.
Listed(s) == {r \in Rows : /\ Pending(r) /\ row[r].sess = s
                           /\ ~row[r].claimed \/ row[r].phase # "null"
                           /\ DeliveryRow(row[r])}

\* held_snapshot: the comments a row still holds.
HeldBy(x) == IF x.pay = "held" THEN x.snap ELSE {}

Unclaimed_WithoutClaim(x) == [x EXCEPT !.phase = "null"]

Unclaimed(x) == [x EXCEPT !.claimed = FALSE, !.phase = "null"]
Failed(x) == [Unclaimed(x) EXCEPT !.status = "failed"]
Sent(x) == [Unclaimed(x) EXCEPT !.status = "sent"]

SetRow(r, x) == row' = [row EXCEPT ![r] = x]

\* rearm_scheduled_message
Rearmable(r) == Waiting(r) /\ ~row[r].imm

Cancellable_WithPasting(r, s) ==
    Pending(r) /\ row[r].sess = s /\ (~row[r].claimed \/ row[r].phase # "null")

\* cancel_scheduled_message
Cancellable(r, s) == /\ Pending(r) /\ row[r].sess = s
                     /\ ~row[r].claimed \/ row[r].phase = "waiting"

-----------------------------------------------------------------------------
(* The comments table: "live" in the panel, held under a row's hold, "gone". *)

\* restore_in: an id that is in the table, live or held, is skipped.
Restored(cs) == [c \in Comments |->
                   IF c \in cs /\ panel[c] = "gone" THEN "live" ELSE panel[c]]
PutBack(cs) == panel' = Restored(cs)

\* restore_snapshot_row with a row: only while its payload is still held.
RestoreRow(r, cs) ==
    IF row[r].pay = "held"
    THEN SetRow(r, [row[r] EXCEPT !.pay = "restored"]) /\ PutBack(cs)
    ELSE UNCHANGED storeVars

HeldUnder(r) == {c \in Comments : panel[c] = r}

\* restore_hold of `adopt:<r>`
RestoreHold(r) ==
    /\ panel' = [c \in Comments |-> IF panel[c] = r THEN "live" ELSE panel[c]]
    /\ IF HeldUnder(r) # {} /\ row[r].pay = "adopted"
       THEN SetRow(r, [row[r] EXCEPT !.pay = "restored"])
       ELSE UNCHANGED row

\* remove_hold of `adopt:<r>`
RemoveHold(r) ==
    panel' = [c \in Comments |-> IF panel[c] = r THEN "gone" ELSE panel[c]]

\* Comments cs reach an agent with the message of row r.
GoOut(r, cs) ==
    /\ fate' = [c \in Comments |->
                  IF c \notin cs THEN fate[c]
                  ELSE IF fate[c] = "none" THEN "sent" ELSE "again"]
    /\ shown' = [shown EXCEPT ![r] = IF @ = 0 THEN 1 ELSE 2]

-----------------------------------------------------------------------------
(* Outcomes on their way through the observer (on_terminal_outcome).  Two    *)
(* equal tasks are one here: the second finds nothing left to do.           *)

Outcomes == {"sent", "rearmed", "failed", "cancelled", "gone"}

Task == [pc : {"start", "restore", "mark", "drop"}, row : Rows, out : Outcomes,
         held : SUBSET Comments, cap : BOOLEAN, imm : BOOLEAN]

News(r, o) == [pc |-> "start", row |-> r, out |-> o, held |-> {},
               cap |-> FALSE, imm |-> FALSE]

-----------------------------------------------------------------------------
(* Jobs.  A job is registered by `fire`, queued, run by the session's worker. *)
(* Of the queue of a session each job in it keeps the set of those ahead.   *)

Job == [pc : {"off", "fire", "queued", "tick", "resolve", "fail", "rearm",
              "cas", "paste", "mark"},
        row : Rows \cup {None}, sess : Sessions \cup {None},
        stopped : BOOLEAN, ahead : SUBSET Jobs,
        held : SUBSET Comments, imm : BOOLEAN]

OffJob == [pc |-> "off", row |-> None, sess |-> None, stopped |-> FALSE,
           ahead |-> {}, held |-> {}, imm |-> FALSE]

InJob(k, p) == job[k].pc = p
JobGoto(k, p) == job' = [job EXCEPT ![k].pc = p]

\* stop_job of the jobs ks: a queued one leaves its queue and is gone.
Stopped(ks, js) ==
    [k \in Jobs |-> IF k \in ks /\ js[k].pc = "queued" THEN OffJob
                    ELSE [js[k] EXCEPT !.stopped = @ \/ k \in ks,
                                       !.ahead = @ \ ks]]

StopJobs(rs) ==
    LET ks == {known[r] : r \in rs} \ {None}
    IN  /\ known' = [r \in Rows |-> IF r \in rs THEN None ELSE known[r]]
        /\ job' = Stopped(ks, job)
        /\ UNCHANGED running

\* forget: unless a newer fire replaced the registration.
Forget(r, k) == known' = [known EXCEPT ![r] = IF @ = k THEN None ELSE @]

EndJob_WithoutIdle(k) ==
    /\ Forget(job[k].row, k)
    /\ job' = [job EXCEPT ![k] = OffJob]
    /\ UNCHANGED running

\* The worker is done with job k.
EndJob(k) ==
    /\ Forget(job[k].row, k)
    /\ running' = [running EXCEPT ![job[k].sess] = None]
    /\ job' = [job EXCEPT ![k] = OffJob]

-----------------------------------------------------------------------------
(* Calls.  The poller and a client call are each at one step of a handler;  *)
(* held and imm are what a handler has read of its row, tmux the path or    *)
(* channel it has chosen, todo the rows a loop has yet to visit, seen the   *)
(* comments of those rows when they were listed.                            *)

Dispatching == {"route", "cas", "check", "enq", "able", "giveBack", "adopt",
                "plain", "after", "holdBack", "failMark", "sentMark"}
Resetting == {"list", "stop", "archive", "relist", "rearm", "move"}
Deleting == {"listHeld", "giveAll", "gone", "purge"}
Pcs == {"off", "take", "takeNow", "made", "before", "erase", "tell", "return",
        "rehold", "retry", "dismiss"} \cup Dispatching \cup Resetting
       \cup Deleting

Call == [pc : Pcs, row : Rows \cup {None}, sess : Sessions \cup {None},
         held : SUBSET Comments, imm : BOOLEAN, tmux : BOOLEAN,
         job : Jobs \cup {None}, turn : Nat, todo : SUBSET Rows,
         seen : [Rows -> SUBSET Comments],
         to : Sessions \cup {None}]

OffCall == [pc |-> "off", row |-> None, sess |-> None, held |-> {},
            imm |-> FALSE, tmux |-> FALSE, job |-> None, turn |-> 0,
            todo |-> {}, seen |-> [r \in Rows |-> {}], to |-> None]

Handlers == Callers \cup {Poller}
At(p, pc) == call[p].pc = pc /\ boot = "up"
Goto(p, pc) == call' = [call EXCEPT ![p].pc = pc]
Return(p) == call' = [call EXCEPT ![p] = OffCall]

\* A client call starts.
Starts(p, op) == /\ op \in Ops /\ At(p, "off") /\ p \in Callers
                 /\ calls < MaxCalls
                 /\ calls' = calls + 1
                 /\ UNCHANGED crashes

Begin(pc, r, s) == [OffCall EXCEPT !.pc = pc, !.row = r, !.sess = s]

Turn == [row : Rows, n : Nat, body : SUBSET Comments,
         pc : {"queued", "kept", "cancelled"}]

-----------------------------------------------------------------------------
Init ==
    /\ row = [r \in Rows |-> Blank("unused")]
    /\ panel = [c \in Comments |-> "live"]
    /\ sess = [s \in Sessions |-> IF s \in Started THEN "live" ELSE "none"]
    /\ chan \in [Sessions -> {"tmux", "json"}]
    /\ known = [r \in Rows |-> None]
    /\ job = [k \in Jobs |-> OffJob]
    /\ running = [s \in Sessions |-> None]
    /\ call = [p \in Handlers |-> OffCall]
    /\ captured = [r \in Rows |-> {}]
    /\ told = {}
    /\ turns = {} /\ adoption = [r \in Rows |-> 0]
    /\ boot = "up"
    /\ fate = [c \in Comments |-> "none"]
    /\ shown = [r \in Rows |-> 0]
    /\ calls = 0 /\ crashes = 0

-----------------------------------------------------------------------------
(* New rows: schedule_create and send_terminal.                              *)

\* schedule_create reads the session first.
CreateStart(p, r, s) ==
    /\ Starts(p, "create")
    /\ row[r].status = "unused" /\ \A q \in Handlers : call[q].row # r
    /\ sess[s] = "live"
    /\ call' = [call EXCEPT ![p] = [Begin("take", r, s)
                                      EXCEPT !.tmux = (chan[s] = "tmux")]]
    /\ UNCHANGED <<storeVars, sessVars, jobVars, captured, told, turnVars,
                   boot, historyVars>>

\* take_for_consumer: the comments leave the panel as the row is inserted.
\* Without comments it is a plain insert.
CreateTake(p) ==
    /\ At(p, "take")
    /\ \E cs \in SUBSET {c \in Comments : panel[c] = "live"} :
         /\ SetRow(call[p].row,
                   [Blank("pending") EXCEPT
                      !.sess = call[p].sess, !.tmux = call[p].tmux,
                      !.pay = IF cs = {} THEN "none" ELSE "held", !.snap = cs])
         /\ panel' = [c \in Comments |-> IF c \in cs THEN "gone" ELSE panel[c]]
    /\ Return(p)
    /\ UNCHANGED <<sessVars, jobVars, captured, told, turnVars, boot,
                   historyVars, boundVars>>

\* send_terminal: the target must be a live Terminal agent.
SendStart(p, r, s) ==
    /\ Starts(p, "send")
    /\ row[r].status = "unused" /\ \A q \in Handlers : call[q].row # r
    /\ sess[s] = "live" /\ chan[s] = "tmux"
    /\ call' = [call EXCEPT ![p] = Begin("takeNow", r, s)]
    /\ UNCHANGED <<storeVars, sessVars, jobVars, captured, told, turnVars,
                   boot, historyVars>>

\* take_for_terminal_row: refused while another immediate row of the session
\* is pending, else the row is born claimed and waiting.
SendTake(p) ==
    LET s == call[p].sess
        busy == \E r \in Rows : Pending(r) /\ row[r].sess = s /\ row[r].imm
    IN
    /\ At(p, "takeNow")
    /\ \/ /\ busy
          /\ Return(p)
          /\ UNCHANGED storeVars
       \/ /\ ~busy
          /\ \E cs \in (SUBSET {c \in Comments : panel[c] = "live"}) \ {{}} :
               /\ SetRow(call[p].row,
                         [Blank("pending") EXCEPT
                            !.claimed = TRUE, !.phase = "waiting", !.sess = s,
                            !.imm = TRUE, !.tmux = TRUE, !.pay = "held",
                            !.snap = cs])
               /\ panel' = [c \in Comments |->
                              IF c \in cs THEN "gone" ELSE panel[c]]
          /\ Goto(p, "made")
    /\ UNCHANGED <<sessVars, jobVars, captured, told, turnVars, boot,
                   historyVars, boundVars>>

-----------------------------------------------------------------------------
(* fire.                                                                     *)

\* A new registration replaces the row's old one and stops its job.
Register(p, r, s) ==
    LET old == {known[r]} \ {None} IN
    \E k \in Jobs :
        /\ job[k].pc = "off"
        /\ known' = [known EXCEPT ![r] = k]
        /\ job' = [Stopped(old, job) EXCEPT
                     ![k] = [OffJob EXCEPT !.pc = "fire", !.row = r,
                                           !.sess = s]]
        /\ call' = [call EXCEPT ![p] = [Begin("cas", r, s)
                                          EXCEPT !.job = k]]
        /\ UNCHANGED running

\* send_terminal reads its row back; a row cancelled since is never fired.
SendFire(p) ==
    /\ At(p, "made")
    /\ \/ /\ Exists(call[p].row)
          /\ Register(p, call[p].row, call[p].sess)
       \/ /\ ~Exists(call[p].row)
          /\ Return(p)
          /\ UNCHANGED jobVars
    /\ UNCHANGED <<storeVars, sessVars, captured, told, turnVars, boot,
                   historyVars, boundVars>>

\* mark_scheduled_phase NULL -> waiting
FireCas(p) ==
    LET r == call[p].row IN
    /\ At(p, "cas")
    /\ \/ /\ Pending(r) /\ row[r].phase = "null"
          /\ SetRow(r, [row[r] EXCEPT !.phase = "waiting"])
          /\ Goto(p, "enq")
       \/ /\ ~(Pending(r) /\ row[r].phase = "null")
          /\ Goto(p, "check")
          /\ UNCHANGED row
    /\ UNCHANGED <<panel, sessVars, jobVars, captured, told, turnVars, boot,
                   historyVars, boundVars>>

\* is_waiting: a row that waits already is accepted as it is.
FireCheck(p) ==
    LET k == call[p].job IN
    /\ At(p, "check")
    /\ \/ /\ Waiting(call[p].row)
          /\ Goto(p, "enq")
          /\ UNCHANGED jobVars
       \/ /\ ~Waiting(call[p].row)
          /\ Forget(call[p].row, k)
          /\ job' = [job EXCEPT ![k] = OffJob]
          /\ Return(p)
          /\ UNCHANGED running
    /\ UNCHANGED <<storeVars, sessVars, captured, told, turnVars, boot,
                   historyVars, boundVars>>

\* enqueue
FireEnqueue(p) ==
    LET k == call[p].job IN
    /\ At(p, "enq")
    /\ job' = [job EXCEPT ![k].pc = "queued",
                          ![k].ahead = {l \in Jobs :
                                          /\ InJob(l, "queued")
                                          /\ job[l].sess = job[k].sess}]
    /\ Return(p)
    /\ UNCHANGED <<storeVars, sessVars, known, running, captured, told,
                   turnVars, boot, historyVars, boundVars>>

-----------------------------------------------------------------------------
(* The session's worker and the job it runs.                                 *)

\* Job k leaves the queue and goes on as x.
Popped(k, x) == [l \in Jobs |-> IF l = k THEN x
                                ELSE [job[l] EXCEPT !.ahead = @ \ {k}]]

WorkerNext_WithRow(k) ==
    LET s == job[k].sess IN
    /\ boot = "up"
    /\ InJob(k, "queued") /\ job[k].ahead = {} /\ running[s] = None
    /\ \/ /\ job[k].stopped
          /\ Forget(job[k].row, k)
          /\ job' = Popped(k, OffJob)
          /\ UNCHANGED running
       \/ /\ ~job[k].stopped
          /\ running' = [running EXCEPT ![s] = job[k].row]
          /\ job' = Popped(k, [job[k] EXCEPT !.pc = "tick"])
          /\ UNCHANGED known
    /\ UNCHANGED <<storeVars, sessVars, call, captured, told, turnVars, boot,
                   historyVars, boundVars>>

\* The head of a queue: a stopped job is forgotten, any other runs.
WorkerNext(k) ==
    LET s == job[k].sess IN
    /\ boot = "up"
    /\ InJob(k, "queued") /\ job[k].ahead = {} /\ running[s] = None
    /\ \/ /\ job[k].stopped
          /\ Forget(job[k].row, k)
          /\ job' = Popped(k, OffJob)
          /\ UNCHANGED running
       \/ /\ ~job[k].stopped
          /\ running' = [running EXCEPT ![s] = k]
          /\ job' = Popped(k, [job[k] EXCEPT !.pc = "tick"])
          /\ UNCHANGED known
    /\ UNCHANGED <<storeVars, sessVars, call, captured, told, turnVars, boot,
                   historyVars, boundVars>>

\* The top of run_job's loop and the tick's read of the row.  A row that does
\* not wait, or has moved, is not ours any more.
TickRead(k) ==
    LET r == job[k].row
        ours == Waiting(r) /\ row[r].sess = job[k].sess
    IN
    /\ InJob(k, "tick")
    /\ \/ /\ job[k].stopped \/ ~ours
          /\ EndJob(k)
       \/ /\ ~job[k].stopped /\ ours
          /\ job' = [job EXCEPT ![k].pc = "resolve",
                                ![k].held = HeldBy(row[r]),
                                ![k].imm = row[r].imm]
          /\ UNCHANGED <<known, running>>
    /\ UNCHANGED <<storeVars, sessVars, call, captured, told, turnVars, boot,
                   historyVars, boundVars>>

\* The 10 minute clock of a job that waits.
TickTimeout(k) ==
    /\ InJob(k, "tick") /\ ~job[k].stopped
    /\ JobGoto(k, "fail")
    /\ UNCHANGED <<storeVars, sessVars, known, running, call, captured, told,
                   turnVars, boot, historyVars, boundVars>>

\* The target as the store and tmux have it now: gone, switched to Rich Chat,
\* unable or dead, not ready yet, or ready.
TickResolve(k) ==
    LET s == job[k].sess IN
    /\ InJob(k, "resolve")
    /\ \/ /\ sess[s] = "deleted" \/ job[k].stopped
          /\ EndJob(k)
       \/ /\ sess[s] # "deleted" /\ ~job[k].stopped
          /\ JobGoto(k, IF sess[s] = "archived" THEN "fail"
                        ELSE IF chan[s] = "json"
                             THEN IF job[k].imm THEN "fail" ELSE "rearm"
                             ELSE "cas")
          /\ UNCHANGED <<known, running>>
       \/ /\ sess[s] = "live" /\ chan[s] = "tmux" /\ ~job[k].stopped
          /\ \E pc \in {"tick"} \cup (IF "broken" \in Ops THEN {"fail"} ELSE {}) :
               JobGoto(k, pc)
          /\ UNCHANGED <<known, running>>
    /\ UNCHANGED <<storeVars, sessVars, call, captured, told, turnVars, boot,
                   historyVars, boundVars>>

\* channel_flipped: rearm_scheduled_message
JobRearm(k) ==
    LET r == job[k].row IN
    /\ InJob(k, "rearm")
    /\ IF Rearmable(r)
       THEN SetRow(r, Unclaimed(row[r])) /\ told' = told \cup {News(r, "rearmed")}
       ELSE UNCHANGED <<row, told>>
    /\ EndJob(k)
    /\ UNCHANGED <<panel, sessVars, call, captured, turnVars, boot,
                   historyVars, boundVars>>

JobFail_WithoutNews(k) ==
    LET r == job[k].row IN
    /\ InJob(k, "fail")
    /\ IF Claimed(r)
       THEN SetRow(r, Failed(row[r])) ELSE UNCHANGED row
    /\ EndJob(k)
    /\ UNCHANGED <<panel, sessVars, call, captured, told, turnVars, boot,
                   historyVars, boundVars>>

\* fail_row: mark_scheduled_message_failed, reported when it changed the row.
\* Clients are notified in between; the wait for that is part of the observer's
\* own delay here.
JobFail(k) ==
    LET r == job[k].row IN
    /\ InJob(k, "fail")
    /\ IF Claimed(r)
       THEN SetRow(r, Failed(row[r])) /\ told' = told \cup {News(r, "failed")}
       ELSE UNCHANGED <<row, told>>
    /\ EndJob(k)
    /\ UNCHANGED <<panel, sessVars, call, captured, turnVars, boot,
                   historyVars, boundVars>>

DeliverCas_WithoutGuard(k) ==
    LET r == job[k].row IN
    /\ InJob(k, "cas")
    /\ IF Waiting(r)
       THEN /\ SetRow(r, [row[r] EXCEPT !.phase = "pasting"])
            /\ JobGoto(k, "paste")
            /\ UNCHANGED <<known, running>>
       ELSE JobGoto(k, "paste") /\ UNCHANGED <<row, known, running>>
    /\ UNCHANGED <<panel, sessVars, call, captured, told, turnVars, boot,
                   historyVars, boundVars>>

DeliverCas_WithoutPhase(k) ==
    LET r == job[k].row IN
    /\ InJob(k, "cas")
    /\ IF Waiting(r)
       THEN /\ UNCHANGED row
            /\ JobGoto(k, "paste")
            /\ UNCHANGED <<known, running>>
       ELSE EndJob(k) /\ UNCHANGED row
    /\ UNCHANGED <<panel, sessVars, call, captured, told, turnVars, boot,
                   historyVars, boundVars>>

\* deliver's compare-and-set waiting -> pasting, the one winner.
DeliverCas(k) ==
    LET r == job[k].row IN
    /\ InJob(k, "cas")
    /\ IF Waiting(r)
       THEN /\ SetRow(r, [row[r] EXCEPT !.phase = "pasting"])
            /\ JobGoto(k, "paste")
            /\ UNCHANGED <<known, running>>
       ELSE EndJob(k) /\ UNCHANGED row
    /\ UNCHANGED <<panel, sessVars, call, captured, told, turnVars, boot,
                   historyVars, boundVars>>

\* Paste and Enter: the message with the comments it held when it was read.
DeliverPaste(k) ==
    /\ InJob(k, "paste")
    /\ \/ /\ GoOut(job[k].row, job[k].held)
          /\ JobGoto(k, "mark")
       \/ /\ "broken" \in Ops
          /\ JobGoto(k, "fail")
          /\ UNCHANGED historyVars
    /\ UNCHANGED <<storeVars, sessVars, known, running, call, captured, told,
                   turnVars, boot, boundVars>>

\* mark_scheduled_message_pasted
DeliverMark(k) ==
    LET r == job[k].row IN
    /\ InJob(k, "mark")
    /\ IF Pending(r) /\ row[r].phase = "pasting"
       THEN SetRow(r, Sent(row[r])) /\ told' = told \cup {News(r, "sent")}
       ELSE UNCHANGED <<row, told>>
    /\ EndJob(k)
    /\ UNCHANGED <<panel, sessVars, call, captured, turnVars, boot,
                   historyVars, boundVars>>

-----------------------------------------------------------------------------
(* Claims: the poller's and "send now".  The claimed row is read once.       *)

Claim_WithoutGuard(p, r) ==
    /\ Pending(r)
    /\ SetRow(r, [row[r] EXCEPT !.claimed = TRUE])
    /\ call' = [call EXCEPT ![p] = [Begin("route", r, row[r].sess)
                                      EXCEPT !.held = HeldBy(row[r]),
                                             !.imm = row[r].imm]]
    /\ UNCHANGED <<panel, sessVars, jobVars, captured, told, turnVars, boot,
                   historyVars>>

Claim(p, r) ==
    /\ Pending(r) /\ ~row[r].claimed
    /\ SetRow(r, [row[r] EXCEPT !.claimed = TRUE])
    /\ call' = [call EXCEPT ![p] = [Begin("route", r, row[r].sess)
                                      EXCEPT !.held = HeldBy(row[r]),
                                             !.imm = row[r].imm]]
    /\ UNCHANGED <<panel, sessVars, jobVars, captured, told, turnVars, boot,
                   historyVars>>

Poll(r) == At(Poller, "off") /\ Claim(Poller, r) /\ UNCHANGED boundVars
SendNow(p, r) == Starts(p, "sendNow") /\ Claim(p, r)

\* is_terminal_session chooses between fire and deliver_scheduled_message; the
\* latter turns an immediate row away and checks one that carries comments.
Route(p) ==
    LET r == call[p].row
        s == call[p].sess
        terminal == sess[s] # "deleted" /\ chan[s] = "tmux"
    IN
    /\ At(p, "route")
    /\ IF terminal
       THEN Register(p, r, s)
       ELSE /\ Goto(p, IF call[p].held = {} THEN "plain"
                       ELSE IF call[p].imm THEN "giveBack" ELSE "able")
            /\ UNCHANGED jobVars
    /\ UNCHANGED <<storeVars, sessVars, captured, told, turnVars, boot,
                   historyVars, boundVars>>

-----------------------------------------------------------------------------
(* Delivery to a Rich Chat session (json_agent_chat.rs).                     *)

Takes(s) == sess[s] = "live" /\ chan[s] = "json"

\* check_deliverable
JsonAble(p) ==
    /\ At(p, "able")
    /\ Goto(p, IF Takes(call[p].sess) THEN "adopt" ELSE "giveBack")
    /\ UNCHANGED <<storeVars, sessVars, jobVars, captured, told, turnVars,
                   boot, historyVars, boundVars>>

\* restore_snapshot of the claimed row
JsonGiveBack(p) ==
    /\ At(p, "giveBack")
    /\ RestoreRow(call[p].row, call[p].held)
    /\ Goto(p, "failMark")
    /\ UNCHANGED <<sessVars, jobVars, captured, told, turnVars, boot,
                   historyVars, boundVars>>

\* insert_hold: the payload flips held -> adopted and the comments that are in
\* no table become held rows; when none does, the payload says restored.
Adopt(r, cs) ==
    LET new == {c \in cs : panel[c] = "gone"} IN
    /\ row[r].pay = "held"
    /\ SetRow(r, [row[r] EXCEPT !.pay = IF new = {} THEN "restored"
                                        ELSE "adopted"])
    /\ panel' = [c \in Comments |-> IF c \in new THEN r ELSE panel[c]]
    /\ adoption' = [adoption EXCEPT ![r] = @ + 1]

JsonAdopt(p) ==
    LET r == call[p].row IN
    /\ At(p, "adopt")
    /\ \/ /\ Adopt(r, call[p].held)
          /\ call' = [call EXCEPT ![p].pc = "plain",
                                  ![p].turn = adoption[r] + 1]
       \/ /\ row[r].pay # "held"
          /\ Goto(p, "failMark")
          /\ UNCHANGED <<storeVars, adoption>>
    /\ UNCHANGED <<sessVars, jobVars, captured, told, turns, boot,
                   historyVars, boundVars>>

\* deliver_plain up to enqueue_chat_turn.  A turn with comments sends its text
\* when it runs; of a turn without, only that it went out matters.
JsonEnqueue(p) ==
    LET r == call[p].row IN
    /\ At(p, "plain")
    /\ \/ /\ Takes(call[p].sess)
          /\ IF call[p].turn = 0
             THEN GoOut(r, {}) /\ UNCHANGED turns
             ELSE /\ turns' = turns \cup {[row |-> r, n |-> call[p].turn,
                                           body |-> call[p].held,
                                           pc |-> "queued"]}
                  /\ UNCHANGED historyVars
          /\ Goto(p, "after")
       \/ /\ ~Takes(call[p].sess) \/ "broken" \in Ops
          /\ Goto(p, IF call[p].turn = 0 THEN "failMark" ELSE "holdBack")
          /\ UNCHANGED <<turns, historyVars>>
    /\ UNCHANGED <<storeVars, sessVars, jobVars, captured, told, adoption,
                   boot, boundVars>>

\* write_working_for_human_turn is done: the delivery returns Ok.
JsonAfter(p) ==
    /\ At(p, "after")
    /\ Goto(p, "sentMark")
    /\ UNCHANGED <<storeVars, sessVars, jobVars, captured, told, turnVars,
                   boot, historyVars, boundVars>>

JsonHoldBack_WithoutRestore(p) ==
    /\ At(p, "holdBack")
    /\ Goto(p, "failMark")
    /\ UNCHANGED <<storeVars, sessVars, jobVars, captured, told, turnVars, boot,
                   historyVars, boundVars>>

\* A failure after the adoption restores the hold.
JsonHoldBack(p) ==
    /\ At(p, "holdBack")
    /\ RestoreHold(call[p].row)
    /\ Goto(p, "failMark")
    /\ UNCHANGED <<sessVars, jobVars, captured, told, turnVars, boot,
                   historyVars, boundVars>>

\* The caller's timeout drops the delivery.  AdoptedHoldGuard restores the hold
\* of one that had adopted; here the guard's task runs with the drop.
JsonTimeout(p) ==
    /\ "timeout" \in Ops
    /\ \/ At(p, "able") \/ At(p, "giveBack") \/ At(p, "adopt")
       \/ At(p, "plain") \/ At(p, "after")
    /\ IF call[p].turn = 0 THEN UNCHANGED storeVars
       ELSE RestoreHold(call[p].row)
    /\ Goto(p, "failMark")
    /\ UNCHANGED <<sessVars, jobVars, captured, told, turnVars, boot,
                   historyVars, boundVars>>

\* mark_scheduled_message_failed
JsonFailMark(p) ==
    LET r == call[p].row IN
    /\ At(p, "failMark")
    /\ IF Claimed(r) THEN SetRow(r, Failed(row[r])) ELSE UNCHANGED row
    /\ Return(p)
    /\ UNCHANGED <<panel, sessVars, jobVars, captured, told, turnVars, boot,
                   historyVars, boundVars>>

\* mark_scheduled_message_sent
JsonSentMark(p) ==
    LET r == call[p].row IN
    /\ At(p, "sentMark")
    /\ IF Claimed(r) THEN SetRow(r, Sent(row[r])) ELSE UNCHANGED row
    /\ Return(p)
    /\ UNCHANGED <<panel, sessVars, jobVars, captured, told, turnVars, boot,
                   historyVars, boundVars>>

-----------------------------------------------------------------------------
(* The turn of an adopted row, as the turn engine settles it: its user row   *)
(* is persisted and the hold deleted, or it is withdrawn and the hold        *)
(* restored.                                                                 *)

Advance(t, pc) == turns' = (turns \ {t}) \cup {[t EXCEPT !.pc = pc]}

TurnPersist(t) ==
    /\ boot = "up" /\ t.pc = "queued"
    /\ GoOut(t.row, t.body)
    /\ Advance(t, "kept")
    /\ UNCHANGED <<storeVars, sessVars, jobVars, call, captured, told,
                   adoption, boot, boundVars>>

TurnWithdraw(t) ==
    /\ boot = "up" /\ t.pc = "queued" /\ "withdraw" \in Ops
    /\ Advance(t, "cancelled")
    /\ UNCHANGED <<storeVars, sessVars, jobVars, call, captured, told,
                   adoption, boot, historyVars, boundVars>>

TurnSettle_WithoutRestore(t) ==
    /\ boot = "up" /\ t.pc # "queued"
    /\ IF t.pc = "kept" THEN RemoveHold(t.row) /\ UNCHANGED row
       ELSE UNCHANGED storeVars
    /\ turns' = turns \ {t}
    /\ UNCHANGED <<sessVars, jobVars, call, captured, told, adoption, boot,
                   historyVars, boundVars>>

\* turn_persisted and turn_cancelled
TurnSettle(t) ==
    /\ boot = "up" /\ t.pc # "queued"
    /\ IF t.pc = "kept" THEN RemoveHold(t.row) /\ UNCHANGED row
       ELSE RestoreHold(t.row)
    /\ turns' = turns \ {t}
    /\ UNCHANGED <<sessVars, jobVars, call, captured, told, adoption, boot,
                   historyVars, boundVars>>

-----------------------------------------------------------------------------
(* on_terminal_outcome.                                                      *)

\* It takes the captured comments and reads the row.  Sent and, of a schedule
\* row, Rearmed leave the comments where they are.
ObserverStart(t) ==
    LET r == t.row
        cap == captured[r] # {}
        held == IF cap THEN captured[r] ELSE row[r].snap
        imm == ~cap /\ row[r].imm
    IN
    /\ t \in told /\ t.pc = "start" /\ boot = "up"
    /\ captured' = [captured EXCEPT ![r] = {}]
    /\ told' = (told \ {t}) \cup
         (IF held = {} \/ t.out = "sent" \/ (t.out = "rearmed" /\ ~imm)
          THEN {}
          ELSE {[t EXCEPT !.pc = "restore", !.held = held, !.cap = cap,
                          !.imm = row[r].imm]})
    /\ UNCHANGED <<storeVars, sessVars, jobVars, call, turnVars, boot,
                   historyVars, boundVars>>

\* A row that exists is guarded by its payload flip, a captured one is not.
ObserverRestore(t) ==
    /\ t \in told /\ t.pc = "restore" /\ boot = "up"
    /\ IF t.cap THEN PutBack(t.held) /\ UNCHANGED row
       ELSE RestoreRow(t.row, t.held)
    /\ told' = (told \ {t}) \cup {[t EXCEPT !.pc = IF t.cap THEN "mark"
                                                   ELSE "drop"]}
    /\ UNCHANGED <<sessVars, jobVars, call, captured, turnVars, boot,
                   historyVars, boundVars>>

\* A captured row that was still there is marked restored.
ObserverMark(t) ==
    LET r == t.row IN
    /\ t \in told /\ t.pc = "mark" /\ boot = "up"
    /\ IF row[r].pay = "held"
       THEN SetRow(r, [row[r] EXCEPT !.pay = "restored"])
       ELSE UNCHANGED row
    /\ told' = (told \ {t}) \cup {[t EXCEPT !.pc = "drop"]}
    /\ UNCHANGED <<panel, sessVars, jobVars, call, captured, turnVars, boot,
                   historyVars, boundVars>>

\* The row of a settled immediate send is deleted.
ObserverDrop(t) ==
    /\ t \in told /\ t.pc = "drop" /\ boot = "up"
    /\ told' = told \ {t}
    /\ IF t.imm /\ Exists(t.row) THEN SetRow(t.row, Blank("gone"))
       ELSE UNCHANGED row
    /\ UNCHANGED <<panel, sessVars, jobVars, call, captured, turnVars, boot,
                   historyVars, boundVars>>

-----------------------------------------------------------------------------
(* schedule_cancel, schedule_retry, schedule_dismiss, and the panel's own    *)
(* delete.                                                                   *)

\* The read that chooses between cancel_row and a plain store delete.
CancelStart(p, r) ==
    /\ Starts(p, "cancel") /\ Exists(r)
    /\ LET tmux == DeliveryRow(row[r]) IN
       call' = [call EXCEPT ![p] =
                  [Begin(IF tmux THEN "before" ELSE "erase", r, row[r].sess)
                     EXCEPT !.tmux = tmux, !.held = HeldBy(row[r])]]
    /\ UNCHANGED <<storeVars, sessVars, jobVars, captured, told, turnVars,
                   boot, historyVars>>

\* cancel_row reads the row again, for the capture.
CancelBefore(p) ==
    /\ At(p, "before")
    /\ call' = [call EXCEPT ![p].pc = "erase", ![p].held = row[call[p].row].snap]
    /\ UNCHANGED <<storeVars, sessVars, jobVars, captured, told, turnVars,
                   boot, historyVars, boundVars>>

\* cancel_scheduled_message
CancelErase(p) ==
    LET r == call[p].row IN
    /\ At(p, "erase")
    /\ IF Cancellable(r, call[p].sess)
       THEN /\ SetRow(r, Blank("gone"))
            /\ IF call[p].tmux THEN Goto(p, "tell")
               ELSE IF call[p].held # {} THEN Goto(p, "return") ELSE Return(p)
       ELSE Return(p) /\ UNCHANGED row
    /\ UNCHANGED <<panel, sessVars, jobVars, captured, told, turnVars, boot,
                   historyVars, boundVars>>

CancelTell_WithoutCapture(p) ==
    LET r == call[p].row IN
    /\ At(p, "tell")
    /\ UNCHANGED captured
    /\ StopJobs({r})
    /\ told' = told \cup {News(r, "cancelled")}
    /\ Return(p)
    /\ UNCHANGED <<storeVars, sessVars, turnVars, boot, historyVars, boundVars>>

\* capture, stop_job, observe(Cancelled)
CancelTell(p) ==
    LET r == call[p].row IN
    /\ At(p, "tell")
    /\ captured' = [captured EXCEPT ![r] = IF call[p].held = {} THEN @
                                           ELSE call[p].held]
    /\ StopJobs({r})
    /\ told' = told \cup {News(r, "cancelled")}
    /\ Return(p)
    /\ UNCHANGED <<storeVars, sessVars, turnVars, boot, historyVars, boundVars>>

\* restore_schedule_snapshot: the plain restore, no payload flip.
ReturnComments(p) ==
    /\ At(p, "return")
    /\ PutBack(call[p].held)
    /\ Return(p)
    /\ UNCHANGED <<row, sessVars, jobVars, captured, told, turnVars, boot,
                   historyVars, boundVars>>

RetryStart(p, r) ==
    /\ Starts(p, "retry") /\ row[r].status = "failed"
    /\ LET back == row[r].pay = "restored" IN
       call' = [call EXCEPT ![p] =
                  [Begin(IF back THEN "rehold" ELSE "retry", r, row[r].sess)
                     EXCEPT !.held = IF back THEN row[r].snap ELSE {}]]
    /\ UNCHANGED <<storeVars, sessVars, jobVars, captured, told, turnVars,
                   boot, historyVars>>

\* rehold_failed_schedule_row: take the comments still in the panel again.
\* With none left and no text of its own the retry is refused.
Rehold(p) ==
    LET r == call[p].row
        left == {c \in row[r].snap : panel[c] = "live"}
        can == row[r].status = "failed" /\ row[r].pay = "restored"
    IN
    /\ At(p, "rehold")
    /\ \/ /\ can /\ left # {}
          /\ SetRow(r, [row[r] EXCEPT !.pay = "held", !.snap = left])
          /\ panel' = [c \in Comments |-> IF c \in left THEN "gone" ELSE panel[c]]
          /\ Goto(p, "retry")
       \/ /\ can /\ left = {}
          /\ SetRow(r, [row[r] EXCEPT !.pay = "none", !.snap = {}])
          /\ \/ call' = [call EXCEPT ![p].pc = "retry", ![p].held = {}]
             \/ Return(p)
          /\ UNCHANGED panel
       \/ /\ ~can
          /\ IF Exists(r)
             THEN call' = [call EXCEPT ![p].pc = "retry", ![p].held = {}]
             ELSE Return(p)
          /\ UNCHANGED storeVars
    /\ UNCHANGED <<sessVars, jobVars, captured, told, turnVars, boot,
                   historyVars, boundVars>>

\* retry_failed_scheduled_message; one that lost to a dismissal gives back
\* what it has re-held.
RetryRow(p) ==
    LET r == call[p].row IN
    /\ At(p, "retry")
    /\ IF row[r].status = "failed" /\ row[r].sess = call[p].sess
       THEN /\ SetRow(r, [Unclaimed(row[r]) EXCEPT !.status = "pending"])
            /\ shown' = [shown EXCEPT ![r] = 0]
            /\ Return(p)
       ELSE /\ IF call[p].held # {} THEN Goto(p, "return") ELSE Return(p)
            /\ UNCHANGED <<row, shown>>
    /\ UNCHANGED <<panel, sessVars, jobVars, captured, told, turnVars, boot,
                   fate, boundVars>>

DismissStart(p, r) ==
    /\ Starts(p, "dismiss") /\ Exists(r)
    /\ call' = [call EXCEPT ![p] =
                  [Begin("dismiss", r, row[r].sess)
                     EXCEPT !.held = IF DeliveryRow(row[r]) THEN {}
                                     ELSE HeldBy(row[r])]]
    /\ UNCHANGED <<storeVars, sessVars, jobVars, captured, told, turnVars,
                   boot, historyVars>>

\* dismiss_failed_scheduled_message
DismissRow(p) ==
    LET r == call[p].row IN
    /\ At(p, "dismiss")
    /\ IF row[r].status = "failed" /\ row[r].sess = call[p].sess
       THEN /\ SetRow(r, Blank("gone"))
            /\ IF call[p].held # {} THEN Goto(p, "return") ELSE Return(p)
       ELSE Return(p) /\ UNCHANGED row
    /\ UNCHANGED <<panel, sessVars, jobVars, captured, told, turnVars, boot,
                   historyVars, boundVars>>

\* The user deletes a comment in the panel.
Discard(p, c) ==
    /\ Starts(p, "discard") /\ panel[c] = "live"
    /\ panel' = [panel EXCEPT ![c] = "gone"]
    /\ fate' = [fate EXCEPT ![c] = IF @ = "none" THEN "discarded" ELSE @]
    /\ UNCHANGED <<row, sessVars, jobVars, call, captured, told, turnVars,
                   boot, shown>>

-----------------------------------------------------------------------------
(* Sessions: the channel toggle, the reset and the delete.                   *)

Toggle(p, s) ==
    /\ Starts(p, "toggle") /\ sess[s] = "live"
    /\ chan' = [chan EXCEPT ![s] = IF @ = "tmux" THEN "json" ELSE "tmux"]
    /\ UNCHANGED <<storeVars, sess, jobVars, call, captured, told, turnVars,
                   boot, historyVars>>

ResetStart(p, s) ==
    /\ Starts(p, "reset") /\ sess[s] = "live"
    /\ call' = [call EXCEPT ![p] = Begin("list", None, s)]
    /\ UNCHANGED <<storeVars, sessVars, jobVars, captured, told, turnVars,
                   boot, historyVars>>

\* stop_for_reset lists the session's rows, then stops the jobs of those that
\* wait; an immediate one is failed while it still waits.
ResetList(p) ==
    /\ At(p, "list") \/ At(p, "relist")
    /\ call' = [call EXCEPT
                  ![p].pc = IF @ = "list" THEN "stop" ELSE "rearm",
                  ![p].todo = {r \in Listed(call[p].sess) :
                                 row[r].phase = "waiting"}]
    /\ UNCHANGED <<storeVars, sessVars, jobVars, captured, told, turnVars,
                   boot, historyVars, boundVars>>

ResetStop(p, r) ==
    /\ At(p, "stop") /\ r \in call[p].todo
    /\ StopJobs({r})
    /\ IF row[r].imm /\ Claimed(r) /\ Waiting(r)
       THEN SetRow(r, Failed(row[r])) /\ told' = told \cup {News(r, "failed")}
       ELSE UNCHANGED <<row, told>>
    /\ call' = [call EXCEPT ![p].todo = @ \ {r}]
    /\ UNCHANGED <<panel, sessVars, captured, turnVars, boot, historyVars,
                   boundVars>>

\* The locked mutation: archive the session and store its replacement, or fail.
ResetArchive(p) ==
    LET s == call[p].sess IN
    /\ At(p, "stop") /\ call[p].todo = {}
    /\ \/ \E n \in Sessions :
            /\ sess[s] = "live" /\ sess[n] = "none"
            /\ sess' = [sess EXCEPT ![s] = "archived", ![n] = "live"]
            /\ chan' = [chan EXCEPT ![n] = chan[s]]
            /\ call' = [call EXCEPT ![p].pc = "move", ![p].to = n]
       \/ /\ sess[s] # "live" \/ "broken" \in Ops
          /\ Goto(p, "relist")
          /\ UNCHANGED sessVars
    /\ UNCHANGED <<storeVars, jobVars, captured, told, turnVars, boot,
                   historyVars, boundVars>>

\* rearm_after_failed_reset
ResetRearm(p, r) ==
    /\ At(p, "rearm") /\ r \in call[p].todo /\ ~row[r].imm
    /\ StopJobs({r})
    /\ IF Rearmable(r)
       THEN SetRow(r, Unclaimed(row[r])) /\ told' = told \cup {News(r, "rearmed")}
       ELSE UNCHANGED <<row, told>>
    /\ call' = [call EXCEPT ![p].todo = @ \ {r}]
    /\ UNCHANGED <<panel, sessVars, captured, turnVars, boot, historyVars,
                   boundVars>>

ResetGivenUp(p) ==
    /\ At(p, "rearm") /\ \A r \in call[p].todo : row[r].imm
    /\ Return(p)
    /\ UNCHANGED <<storeVars, sessVars, jobVars, captured, told, turnVars,
                   boot, historyVars, boundVars>>

\* reassign_scheduled_messages, in one statement
ResetMove(p) ==
    LET s == call[p].sess
        moves(x) == /\ x.sess = s /\ ~x.imm
                    /\ \/ /\ x.status = "pending"
                          /\ ~x.claimed \/ x.phase = "waiting"
                       \/ x.status = "failed"
    IN
    /\ At(p, "move")
    /\ row' = [r \in Rows |->
                 IF moves(row[r])
                 THEN [Unclaimed(row[r]) EXCEPT !.sess = call[p].to]
                 ELSE row[r]]
    /\ Return(p)
    /\ UNCHANGED <<panel, sessVars, jobVars, captured, told, turnVars, boot,
                   historyVars, boundVars>>

\* The record goes first.
DeleteStart(p, s) ==
    /\ Starts(p, "delete") /\ sess[s] \in {"live", "archived"}
    /\ sess' = [sess EXCEPT ![s] = "deleted"]
    /\ call' = [call EXCEPT ![p] = Begin("listHeld", None, s)]
    /\ UNCHANGED <<storeVars, chan, jobVars, captured, told, turnVars, boot,
                   historyVars>>

\* restore_for_session: the rows not made for a Terminal that hold comments.
DeleteList(p) ==
    /\ At(p, "listHeld")
    /\ call' = [call EXCEPT
                  ![p].pc = "giveAll",
                  ![p].todo = {r \in Rows : /\ Pending(r) /\ ~row[r].tmux
                                            /\ row[r].sess = call[p].sess
                                            /\ row[r].pay = "held"}]
    /\ UNCHANGED <<storeVars, sessVars, jobVars, captured, told, turnVars,
                   boot, historyVars, boundVars>>

DeleteGive(p, r) ==
    /\ At(p, "giveAll") /\ r \in call[p].todo
    /\ RestoreRow(r, row[r].snap)
    /\ call' = [call EXCEPT ![p].todo = @ \ {r}]
    /\ UNCHANGED <<sessVars, jobVars, captured, told, turnVars, boot,
                   historyVars, boundVars>>

\* on_session_removed lists the rows of terminal delivery, then stops,
\* captures and reports each Gone, with no await between them.
DeleteRows(p) ==
    LET rs == Listed(call[p].sess) IN
    /\ At(p, "giveAll") /\ call[p].todo = {}
    /\ call' = [call EXCEPT ![p].pc = "gone", ![p].todo = rs,
                            ![p].seen = [r \in Rows |-> IF r \in rs
                                                        THEN row[r].snap ELSE {}]]
    /\ UNCHANGED <<storeVars, sessVars, jobVars, captured, told, turnVars,
                   boot, historyVars, boundVars>>

DeleteGone(p) ==
    /\ At(p, "gone")
    /\ StopJobs(call[p].todo)
    /\ captured' = [r \in Rows |-> IF call[p].seen[r] # {}
                                   THEN call[p].seen[r] ELSE captured[r]]
    /\ told' = told \cup {News(r, "gone") : r \in call[p].todo}
    /\ call' = [call EXCEPT ![p] = Begin("purge", None, call[p].sess)]
    /\ UNCHANGED <<storeVars, sessVars, turnVars, boot, historyVars, boundVars>>

\* delete_scheduled_messages_for_session
DeletePurge(p) ==
    /\ At(p, "purge")
    /\ row' = [r \in Rows |-> IF Exists(r) /\ row[r].sess = call[p].sess
                              THEN Blank("gone") ELSE row[r]]
    /\ Return(p)
    /\ UNCHANGED <<panel, sessVars, jobVars, captured, told, turnVars, boot,
                   historyVars, boundVars>>

-----------------------------------------------------------------------------
(* Crashes, and what the daemon does before it serves again.                 *)

\* Everything in memory is lost; turns that were persisted are on disk.
Crash ==
    /\ crashes < MaxCrashes /\ crashes' = crashes + 1
    /\ boot' = "holds"
    /\ known' = [r \in Rows |-> None]
    /\ job' = [k \in Jobs |-> OffJob]
    /\ running' = [s \in Sessions |-> None]
    /\ call' = [p \in Handlers |-> OffCall]
    /\ captured' = [r \in Rows |-> {}]
    /\ told' = {}
    /\ turns' = {t \in turns : t.pc = "kept"}
    /\ UNCHANGED <<storeVars, sessVars, adoption, historyVars, calls>>

\* reconcile_boot, step 1: a hold whose turn is in the transcript is deleted,
\* any other restored.  Only a Rich Chat session has a transcript to read, and a
\* row that is gone here went with its session.
Kept(r) == \E t \in turns : t.row = r /\ t.n = adoption[r]

BootHold(r) ==
    /\ boot = "holds" /\ HeldUnder(r) # {}
    /\ IF Kept(r) /\ Exists(r) /\ sess[row[r].sess] # "deleted"
               /\ chan[row[r].sess] = "json"
       THEN RemoveHold(r) /\ UNCHANGED row
       ELSE RestoreHold(r)
    /\ UNCHANGED <<sessVars, jobVars, call, captured, told, turnVars, boot,
                   historyVars, boundVars>>

\* Steps 2 and 3: the rows a Rich Chat delivery had claimed, and those of
\* sessions that are gone.
InFlight(r) == Claimed(r) /\ row[r].phase = "null" /\ ~row[r].tmux
Orphaned(r) == Pending(r) /\ sess[row[r].sess] = "deleted"

BootGive(r) ==
    /\ boot = "rows" /\ row[r].pay = "held"
    /\ InFlight(r) \/ Orphaned(r)
    /\ RestoreRow(r, row[r].snap)
    /\ UNCHANGED <<sessVars, jobVars, call, captured, told, turnVars, boot,
                   historyVars, boundVars>>

BootNext ==
    /\ \/ /\ boot = "holds" /\ \A r \in Rows : HeldUnder(r) = {}
          /\ boot' = "rows"
          /\ turns' = {}
       \/ /\ boot = "rows"
          /\ \A r \in Rows : row[r].pay = "held" => ~InFlight(r) /\ ~Orphaned(r)
          /\ boot' = "orphans"
          /\ UNCHANGED turns
    /\ UNCHANGED <<storeVars, sessVars, jobVars, call, captured, told, adoption,
                   historyVars, boundVars>>

\* recover_orphans and report_recovery: rows of missing sessions are purged, a
\* waiting schedule row is put back, any other claimed row fails.
Recovered(x) == IF x.phase = "waiting" /\ ~x.imm THEN Unclaimed(x)
                ELSE Failed(x)

BootRecover ==
    LET lost == {r \in Rows : Exists(r) /\ sess[row[r].sess] = "deleted"}
        back == {r \in Rows \ lost : Claimed(r)}
        tell == {r \in back : row[r].tmux \/ row[r].phase # "null"}
    IN
    /\ boot = "orphans"
    /\ row' = [r \in Rows |-> IF r \in lost THEN Blank("gone")
                              ELSE IF r \in back THEN Recovered(row[r])
                              ELSE row[r]]
    /\ told' = {News(r, IF row[r].phase = "waiting" /\ ~row[r].imm
                        THEN "rearmed" ELSE "failed") : r \in tell}
    /\ boot' = "up"
    /\ UNCHANGED <<panel, sessVars, jobVars, call, captured, turnVars,
                   historyVars, boundVars>>

-----------------------------------------------------------------------------
Fire(p) == SendFire(p) \/ FireCas(p) \/ FireCheck(p) \/ FireEnqueue(p)

Json(p) == \/ JsonAble(p) \/ JsonGiveBack(p) \/ JsonAdopt(p) \/ JsonEnqueue(p)
           \/ JsonAfter(p) \/ JsonHoldBack(p)
           \/ JsonFailMark(p) \/ JsonSentMark(p)

Work(k) == \/ TickRead(k) \/ TickResolve(k) \/ JobRearm(k) \/ JobFail(k)
           \/ DeliverCas(k) \/ DeliverPaste(k) \/ DeliverMark(k)

Observe(t) == \/ ObserverStart(t) \/ ObserverRestore(t) \/ ObserverMark(t)
              \/ ObserverDrop(t)

\* The rest of a client call once it has started.
Proceed(p) ==
    \/ CreateTake(p) \/ SendTake(p)
    \/ CancelBefore(p) \/ CancelErase(p) \/ CancelTell(p) \/ ReturnComments(p)
    \/ Rehold(p) \/ RetryRow(p) \/ DismissRow(p)
    \/ ResetList(p) \/ ResetArchive(p) \/ ResetGivenUp(p) \/ ResetMove(p)
    \/ \E r \in Rows : ResetStop(p, r) \/ ResetRearm(p, r)
    \/ DeleteList(p) \/ DeleteRows(p) \/ DeleteGone(p) \/ DeletePurge(p)
    \/ \E r \in Rows : DeleteGive(p, r)

Request(p) ==
    \/ \E r \in Rows : \/ SendNow(p, r) \/ CancelStart(p, r)
                       \/ RetryStart(p, r) \/ DismissStart(p, r)
                       \/ \E s \in Sessions : CreateStart(p, r, s)
                                              \/ SendStart(p, r, s)
    \/ \E c \in Comments : Discard(p, c)
    \/ \E s \in Sessions : Toggle(p, s) \/ ResetStart(p, s) \/ DeleteStart(p, s)

Boot == (\E r \in Rows : BootHold(r) \/ BootGive(r)) \/ BootNext \/ BootRecover

Next ==
    \/ \E r \in Rows : Poll(r)
    \/ \E p \in Handlers : Route(p) \/ Fire(p) \/ Json(p) \/ JsonTimeout(p)
    \/ \E p \in Callers : Request(p) \/ Proceed(p)
    \/ \E k \in Jobs : WorkerNext(k) \/ Work(k) \/ TickTimeout(k)
    \/ \E t \in told : Observe(t)
    \/ \E t \in turns : TurnPersist(t) \/ TurnWithdraw(t) \/ TurnSettle(t)
    \/ Crash
    \/ Boot

Spec == Init /\ [][Next]_vars

(* The runtime polls whatever task is runnable, store calls and tmux calls    *)
(* come back, the poller runs again and again, and the 10 minutes of a job    *)
(* pass: then the next look at its clock fails the row, hence SF.  Nothing    *)
(* makes a client call, a switch of channels or a crash happen.              *)
Fairness ==
    /\ WF_vars(\E r \in Rows : Poll(r)) /\ WF_vars(Boot)
    /\ \A p \in Handlers : WF_vars(Route(p) \/ Fire(p) \/ Json(p))
    /\ \A p \in Callers : WF_vars(Proceed(p))
    /\ \A k \in Jobs : /\ WF_vars(WorkerNext(k)) /\ WF_vars(Work(k))
                       /\ SF_vars(TickTimeout(k))
    /\ WF_vars(\E t \in told : Observe(t))
    /\ WF_vars(\E t \in turns : TurnPersist(t) \/ TurnSettle(t))

FairSpec == Spec /\ Fairness

-----------------------------------------------------------------------------
(* Properties.                                                               *)

\* Types of all variables.
TypeOK ==
    /\ row \in [Rows -> Row]
    /\ panel \in [Comments -> {"live", "gone"} \cup Rows]
    /\ sess \in [Sessions -> {"none", "live", "archived", "deleted"}]
    /\ chan \in [Sessions -> {"tmux", "json"}]
    /\ known \in [Rows -> Jobs \cup {None}]
    /\ job \in [Jobs -> Job]
    /\ running \in [Sessions -> Jobs \cup {None}]
    /\ call \in [Handlers -> Call]
    /\ captured \in [Rows -> SUBSET Comments]
    /\ told \in SUBSET Task
    /\ turns \in SUBSET Turn
    /\ adoption \in [Rows -> Nat]
    /\ boot \in {"up", "holds", "rows", "orphans"}
    /\ fate \in [Comments -> {"none", "sent", "discarded", "again"}]
    /\ shown \in [Rows -> 0..2]
    /\ calls \in 0..MaxCalls /\ crashes \in 0..MaxCrashes

\* A comment that a row's payload still answers for.
InPayload(c) == \E r \in Rows : /\ row[r].status \in {"pending", "failed"}
                                /\ c \in HeldBy(row[r])

\* A comment that a handler or the observer is about to put back.
InHand(c) ==
    \/ \E p \in Handlers : /\ call[p].pc \in {"tell", "return"}
                           /\ c \in call[p].held
    \/ \E t \in told : \/ t.pc = "restore" /\ c \in t.held
                       \/ /\ t.pc = "start" /\ t.out \in {"cancelled", "gone"}
                          /\ c \in captured[t.row]

\* A comment that has left the panel is with an agent, under a hold, in the
\* payload of a row the user can still act on, or on its way back.
NoCommentLost ==
    \A c \in Comments : panel[c] = "gone" /\ fate[c] = "none" =>
                          InPayload(c) \/ InHand(c)

\* A comment an agent has received, or the user has deleted, does not come
\* back into the panel.
NoCommentBack == \A c \in Comments : fate[c] # "none" => panel[c] # "live"

\* A message goes out once, and once more at most after each Retry.
MessageOnce == \A r \in Rows : shown[r] < 2

\* No comment reaches an agent twice, nor after the user has deleted it.
CommentOnce == \A c \in Comments : fate[c] # "again"

\* A claimed row is in somebody's hands: a dispatch, a job that is registered
\* and not stopped or is past the point where it can be stopped, or a reset
\* that will move or re-arm it.
Registered(r) == \E k \in Jobs : /\ job[k].row = r
                                 /\ \/ known[r] = k /\ ~job[k].stopped
                                    \/ job[k].pc \in {"paste", "mark", "fail"}
ClaimHasOwner ==
    boot = "up" =>
    \A r \in Rows : Claimed(r) /\ sess[row[r].sess] # "deleted" =>
        \/ Registered(r)
        \/ \E p \in Handlers : /\ call[p].row = r
                               /\ call[p].pc \in Dispatching \cup {"made"}
        \/ \E p \in Callers : /\ call[p].sess = row[r].sess
                              /\ call[p].pc \in Resetting

\* A paste is of the one job that has won the row, into the session the row
\* belongs to, unless that session's delete has taken the row away meanwhile.
PastesAsOwner ==
    \A k \in Jobs : job[k].pc = "paste" /\ row[job[k].row].status # "gone" =>
        /\ row[job[k].row].phase = "pasting"
        /\ row[job[k].row].sess = job[k].sess
        /\ \A l \in Jobs \ {k} : job[l].row = job[k].row => job[l].pc # "paste"

\* Comments under a hold have a turn, or a delivery, that will settle it.
HoldHasTurn ==
    boot = "up" =>
    \A c \in Comments, r \in Rows : panel[c] = r =>
        \/ \E t \in turns : t.row = r
        \/ \E p \in Handlers : /\ call[p].row = r /\ call[p].turn > 0
                               /\ call[p].pc \in {"plain", "holdBack"}

\* Once nobody is at work, no failed row keeps its comments from the panel.
AtRest == /\ boot = "up" /\ told = {}
          /\ \A p \in Handlers : call[p].pc = "off"
          /\ \A k \in Jobs : job[k].pc = "off"
FailedGivesBack == AtRest => \A r \in Rows :
                     row[r].status = "failed" => row[r].pay # "held"

\* A message that is scheduled is sent or failed in the end, or taken away:
\* no row waits for ever, whatever its target does.
RowSettles == \A r \in Rows : Pending(r) ~> ~Pending(r)

\* Comments that have left the panel come back or reach an agent, unless a
\* failed row still offers them for a Retry; no hold is kept for ever.
CommentSettles ==
    \A c \in Comments :
        panel[c] # "live" ~>
            \/ panel[c] = "live"
            \/ (panel[c] = "gone" /\ fate[c] # "none")
            \/ (\E r \in Rows : row[r].status = "failed" /\ c \in HeldBy(row[r]))
=============================================================================
