----------------------- MODULE ScheduledDeliveryProofs -----------------------
(***************************************************************************)
(* Proofs about ScheduledDelivery, for every set of rows, comments,         *)
(* sessions, jobs and callers, every bound and every set of operations, and *)
(* where a session is never reset: one job at most owns a row it pastes.    *)
(***************************************************************************)
EXTENDS ScheduledDelivery, TLAPS

-----------------------------------------------------------------------------
(* What a step of a handler may rely on to be in its locals.                *)

\* The steps that are about no single row.
Rowless == {"off"} \cup Resetting \cup Deleting

RowsKnown == \A r \in Rows : Exists(r) => row[r].sess \in Sessions

CallKnown(x) == /\ x.pc # "off" => x.sess \in Sessions
                /\ x.pc \notin Rowless => x.row \in Rows
                /\ x.pc \in {"cas", "check", "enq"} => x.job \in Jobs
                /\ x.pc = "move" => x.to \in Sessions
CallsKnown == \A p \in Handlers : CallKnown(call[p])

JobKnown(x) == x.pc # "off" => x.row \in Rows /\ x.sess \in Sessions
JobsKnown == \A k \in Jobs : JobKnown(job[k])

\* The job a call fires is its own, and untouched until it is queued.
Firing(p) == call[p].pc \in {"cas", "check", "enq"}

FireJobs ==
    \A p \in Handlers : Firing(p) =>
        /\ job[call[p].job].pc = "fire"
        /\ job[call[p].job].row = call[p].row
        /\ job[call[p].job].sess = call[p].sess
        /\ \A q \in Handlers : Firing(q) /\ call[q].job = call[p].job => q = p

RowInv == row \in [Rows -> Row] /\ RowsKnown
CallInv == call \in [Handlers -> Call] /\ CallsKnown
JobInv == job \in [Jobs -> Job] /\ JobsKnown

TypeInv == TypeOK /\ RowsKnown /\ CallsKnown /\ JobsKnown /\ FireJobs

-----------------------------------------------------------------------------
(* Rows.                                                                     *)

LEMMA BlankType ==
    ASSUME NEW st \in {"unused", "pending", "gone"}
    PROVE  Blank(st) \in Row /\ Blank(st).status = st
  BY DEF Blank, Row

LEMMA StatusType ==
    ASSUME NEW x \in Row
    PROVE  /\ Unclaimed(x) \in Row /\ Failed(x) \in Row /\ Sent(x) \in Row
           /\ Unclaimed(x).sess = x.sess /\ Unclaimed(x).status = x.status
           /\ Failed(x).sess = x.sess /\ Sent(x).sess = x.sess
  BY DEF Unclaimed, Failed, Sent, Row

\* A row that exists names a session.
RowKnown(x) == x.status \in {"pending", "sent", "failed"} => x.sess \in Sessions

LEMMA RowsType ==
    ASSUME row' \in [Rows -> Row], \A r \in Rows : RowKnown(row'[r])
    PROVE  RowInv'
  BY DEF RowInv, RowsKnown, RowKnown, Exists

LEMMA RowType ==
    ASSUME RowInv, NEW r \in Rows
    PROVE  row[r] \in Row /\ RowKnown(row[r])
  BY DEF RowInv, RowsKnown, RowKnown, Exists

LEMMA SetRowType ==
    ASSUME RowInv, NEW r \in Rows, NEW x \in Row, RowKnown(x), SetRow(r, x)
    PROVE  RowInv'
<1>1. row' \in [Rows -> Row]
  BY DEF RowInv, SetRow
<1>2. \A q \in Rows : RowKnown(row'[q])
  BY RowType DEF RowInv, SetRow
<1> QED
  BY <1>1, <1>2, RowsType

LEMMA SameRows == ASSUME RowInv, UNCHANGED row PROVE RowInv'
  BY DEF RowInv, RowsKnown, Exists

PanelType == panel \in [Comments -> {"live", "gone"} \cup Rows]

LEMMA PutBackType ==
    ASSUME PanelType, NEW cs, PutBack(cs)
    PROVE  PanelType'
  BY DEF PanelType, PutBack, Restored

LEMMA RestoreRowType ==
    ASSUME RowInv, PanelType, NEW r \in Rows, NEW cs, RestoreRow(r, cs)
    PROVE  RowInv' /\ PanelType'
<1>1. CASE row[r].pay = "held"
  <2> DEFINE x == [row[r] EXCEPT !.pay = "restored"]
  <2>1. x \in Row /\ RowKnown(x)
    BY RowType DEF Row, RowKnown
  <2> QED
    BY <1>1, <2>1, SetRowType, PutBackType DEF RestoreRow
<1>2. CASE row[r].pay # "held"
  BY <1>2, SameRows DEF RestoreRow, PanelType, storeVars
<1> QED
  BY <1>1, <1>2

LEMMA RestoreHoldType ==
    ASSUME RowInv, PanelType, NEW r \in Rows, RestoreHold(r)
    PROVE  RowInv' /\ PanelType'
<1>1. PanelType'
  BY DEF RestoreHold, PanelType
<1>2. CASE row[r].pay = "adopted" /\ HeldUnder(r) # {}
  <2> DEFINE x == [row[r] EXCEPT !.pay = "restored"]
  <2>1. x \in Row /\ RowKnown(x)
    BY RowType DEF Row, RowKnown
  <2> QED
    BY <1>1, <1>2, <2>1, SetRowType DEF RestoreHold
<1>3. CASE ~(row[r].pay = "adopted" /\ HeldUnder(r) # {})
  BY <1>1, <1>3, SameRows DEF RestoreHold
<1> QED
  BY <1>2, <1>3

LEMMA RemoveHoldType ==
    ASSUME PanelType, NEW r \in Rows, RemoveHold(r)
    PROVE  PanelType'
  BY DEF RemoveHold, PanelType

HistoryType == /\ fate \in [Comments -> {"none", "sent", "discarded", "again"}]
               /\ shown \in [Rows -> 0..2]

LEMMA GoOutType ==
    ASSUME HistoryType, NEW r \in Rows, NEW cs, GoOut(r, cs)
    PROVE  HistoryType'
  BY DEF HistoryType, GoOut

-----------------------------------------------------------------------------
(* Jobs.                                                                     *)

LEMMA OffJobType == OffJob \in Job /\ JobKnown(OffJob)
  BY DEF OffJob, Job, JobKnown

LEMMA JobType ==
    ASSUME JobInv, NEW k \in Jobs
    PROVE  job[k] \in Job /\ JobKnown(job[k])
  BY DEF JobInv, JobsKnown

LEMMA JobUpdate ==
    ASSUME NEW js \in [Jobs -> Job], \A l \in Jobs : JobKnown(js[l]),
           NEW k \in Jobs, NEW x \in Job, JobKnown(x),
           job' = [js EXCEPT ![k] = x]
    PROVE  JobInv'
  BY DEF JobInv, JobsKnown

LEMMA JobGotoType ==
    ASSUME JobInv, NEW k \in Jobs, job[k].pc # "off",
           NEW pc \in {"off", "fire", "queued", "tick", "resolve", "fail",
                       "rearm", "cas", "paste", "mark"},
           JobGoto(k, pc)
    PROVE  JobInv'
<1> DEFINE x == [job[k] EXCEPT !.pc = pc]
<1>1. x \in Job /\ JobKnown(x)
  BY JobType DEF Job, JobKnown
<1>2. job' = [job EXCEPT ![k] = x]
  BY DEF JobGoto, JobInv
<1> QED
  BY <1>1, <1>2, JobUpdate DEF JobInv, JobsKnown

StoppedOne(x, b, a) == [x EXCEPT !.stopped = b, !.ahead = a]

LEMMA StoppedOneType ==
    ASSUME NEW x \in Job, NEW b \in BOOLEAN, NEW a \in SUBSET Jobs, JobKnown(x)
    PROVE  StoppedOne(x, b, a) \in Job /\ JobKnown(StoppedOne(x, b, a))
  BY DEF StoppedOne, Job, JobKnown

LEMMA StoppedType ==
    ASSUME NEW js \in [Jobs -> Job], \A l \in Jobs : JobKnown(js[l]), NEW ks
    PROVE  /\ Stopped(ks, js) \in [Jobs -> Job]
           /\ \A l \in Jobs : JobKnown(Stopped(ks, js)[l])
<1>1. ASSUME NEW l \in Jobs
      PROVE  Stopped(ks, js)[l] \in Job /\ JobKnown(Stopped(ks, js)[l])
  <2>1. CASE l \in ks /\ js[l].pc = "queued"
    BY <2>1, OffJobType DEF Stopped
  <2>2. CASE ~(l \in ks /\ js[l].pc = "queued")
    <3>1. (js[l].stopped \/ l \in ks) \in BOOLEAN
      BY Zenon
    <3>2. js[l].ahead \ ks \in SUBSET Jobs
      BY DEF Job
    <3>3. Stopped(ks, js)[l] = StoppedOne(js[l], js[l].stopped \/ l \in ks,
                                          js[l].ahead \ ks)
      BY <2>2 DEF Stopped, StoppedOne
    <3> QED
      BY <3>1, <3>2, <3>3, StoppedOneType
  <2> QED
    BY <2>1, <2>2
<1> QED
  BY <1>1 DEF Stopped

LEMMA PoppedType ==
    ASSUME JobInv, NEW k \in Jobs, NEW x \in Job, JobKnown(x),
           job' = Popped(k, x)
    PROVE  JobInv'
<1>1. ASSUME NEW l \in Jobs
      PROVE  Popped(k, x)[l] \in Job /\ JobKnown(Popped(k, x)[l])
  <2> DEFINE y == [job[l] EXCEPT !.ahead = @ \ {k}]
  <2>1. y \in Job /\ JobKnown(y)
    BY JobType DEF Job, JobKnown
  <2> QED
    BY <2>1 DEF Popped
<1> QED
  BY <1>1 DEF Popped, JobInv, JobsKnown

KnownType == known \in [Rows -> Jobs \cup {None}]
RunningType == running \in [Sessions -> Jobs \cup {None}]

LEMMA ForgetType == ASSUME KnownType, NEW r, NEW k, Forget(r, k) PROVE KnownType'
  BY DEF KnownType, Forget

LEMMA EndJobType ==
    ASSUME JobInv, KnownType, RunningType, NEW k \in Jobs, EndJob(k)
    PROVE  JobInv' /\ KnownType' /\ RunningType'
<1>1. JobInv'
  BY OffJobType, JobUpdate DEF EndJob, JobInv, JobsKnown
<1>2. KnownType'
  BY ForgetType DEF EndJob
<1>3. RunningType'
  BY DEF EndJob, RunningType
<1> QED
  BY <1>1, <1>2, <1>3

LEMMA StopJobsType ==
    ASSUME JobInv, KnownType, RunningType, NEW rs, StopJobs(rs)
    PROVE  JobInv' /\ KnownType' /\ RunningType'
<1>1. JobInv'
  BY StoppedType DEF StopJobs, JobInv, JobsKnown
<1>2. KnownType' /\ RunningType'
  BY DEF StopJobs, KnownType, RunningType
<1> QED
  BY <1>1, <1>2

-----------------------------------------------------------------------------
(* Calls.                                                                    *)

LEMMA OffCallType == OffCall \in Call /\ CallKnown(OffCall)
  BY DEF OffCall, Call, CallKnown, Pcs, Rowless

LEMMA CallType ==
    ASSUME CallInv, NEW p \in Handlers
    PROVE  call[p] \in Call /\ CallKnown(call[p])
  BY DEF CallInv, CallsKnown

LEMMA CallUpdate ==
    ASSUME CallInv, NEW p \in Handlers, NEW x \in Call, CallKnown(x),
           call' = [call EXCEPT ![p] = x]
    PROVE  CallInv'
  BY DEF CallInv, CallsKnown

LEMMA SameCalls == ASSUME CallInv, UNCHANGED call PROVE CallInv'
  BY DEF CallInv, CallsKnown

LEMMA ReturnType == ASSUME CallInv, NEW p \in Handlers, Return(p) PROVE CallInv'
  BY OffCallType, CallUpdate DEF Return

\* A handler may go on to any step that knows no more than it does.
LEMMA GotoType ==
    ASSUME CallInv, NEW p \in Handlers, NEW pc \in Pcs, Goto(p, pc),
           CallKnown([call[p] EXCEPT !.pc = pc])
    PROVE  CallInv'
<1> DEFINE x == [call[p] EXCEPT !.pc = pc]
<1>1. x \in Call
  BY CallType DEF Call
<1>2. call' = [call EXCEPT ![p] = x]
  BY DEF Goto, CallInv
<1> QED
  BY <1>1, <1>2, CallUpdate

LEMMA GotoRow ==
    ASSUME CallInv, NEW p \in Handlers, call[p].pc \notin Rowless,
           NEW pc \in Pcs \ {"cas", "check", "enq", "move"}, Goto(p, pc)
    PROVE  CallInv'
<1>1. CallKnown([call[p] EXCEPT !.pc = pc])
  BY CallType DEF CallKnown, Rowless, Call
<1> QED
  BY <1>1, GotoType

LEMMA BeginType ==
    ASSUME NEW pc \in Pcs \ {"off"}, NEW r \in Rows \cup {None},
           NEW s \in Sessions
    PROVE  /\ Begin(pc, r, s) \in Call
           /\ Begin(pc, r, s).pc = pc /\ Begin(pc, r, s).row = r
           /\ Begin(pc, r, s).sess = s
  BY OffCallType DEF Begin, Call, OffCall

-----------------------------------------------------------------------------
(* Type correctness: what a step does to each part of the state.             *)

Rest ==
    /\ sess \in [Sessions -> {"none", "live", "archived", "deleted"}]
    /\ chan \in [Sessions -> {"tmux", "json"}]
    /\ captured \in [Rows -> SUBSET Comments]
    /\ told \in SUBSET Task
    /\ turns \in SUBSET Turn
    /\ adoption \in [Rows -> Nat]
    /\ boot \in {"up", "holds", "rows", "orphans"}
    /\ calls \in 0..MaxCalls /\ crashes \in 0..MaxCrashes

Parts == /\ RowInv /\ PanelType /\ CallInv /\ HistoryType /\ Rest
         /\ JobInv /\ KnownType /\ RunningType

LEMMA TypeIsParts == TypeInv <=> Parts /\ FireJobs
  BY DEF TypeInv, TypeOK, Parts, RowInv, PanelType, CallInv, HistoryType, Rest,
         JobInv, KnownType, RunningType

\* What a step leaves alone keeps its type.
LEMMA SamePanel == ASSUME PanelType, UNCHANGED panel PROVE PanelType'
  BY DEF PanelType
LEMMA SameStore == ASSUME RowInv, PanelType, UNCHANGED storeVars
                   PROVE  RowInv' /\ PanelType'
  BY SameRows, SamePanel DEF storeVars
LEMMA SameJobs == ASSUME JobInv, KnownType, RunningType, UNCHANGED jobVars
                  PROVE  JobInv' /\ KnownType' /\ RunningType'
  BY DEF JobInv, JobsKnown, KnownType, RunningType, jobVars
LEMMA SameJob == ASSUME JobInv, UNCHANGED job PROVE JobInv'
  BY DEF JobInv, JobsKnown
LEMMA SameKnown == ASSUME KnownType, UNCHANGED known PROVE KnownType'
  BY DEF KnownType
LEMMA SameRunning == ASSUME RunningType, UNCHANGED running PROVE RunningType'
  BY DEF RunningType
LEMMA SameHistory == ASSUME HistoryType, UNCHANGED historyVars PROVE HistoryType'
  BY DEF HistoryType, historyVars
LEMMA SameRest ==
    ASSUME Rest, UNCHANGED <<sessVars, captured, told, turnVars, boot, boundVars>>
    PROVE  Rest'
  BY DEF Rest, sessVars, turnVars, boundVars

\* A new outcome for the observer.
LEMMA ToldType ==
    ASSUME Rest, NEW r \in Rows, NEW o \in Outcomes,
           told' = told \cup {News(r, o)} \/ told' = told,
           UNCHANGED <<sessVars, captured, turnVars, boot, boundVars>>
    PROVE  Rest'
<1>1. News(r, o) \in Task
  BY DEF News, Task
<1> QED
  BY <1>1 DEF Rest, sessVars, turnVars, boundVars

\* A client call that has started.
LEMMA StartsType ==
    ASSUME Rest, NEW p, NEW op, Starts(p, op),
           UNCHANGED <<sessVars, captured, told, turnVars, boot>>
    PROVE  Rest'
<1>1. calls' \in 0..MaxCalls
  BY DeliveryAssumption DEF Starts, Rest
<1> QED
  BY <1>1 DEF Starts, Rest, sessVars, turnVars

LEMMA SetRowOnce ==
    ASSUME RowInv, NEW r \in Rows, NEW x \in Row, RowKnown(x),
           SetRow(r, x) \/ UNCHANGED row
    PROVE  RowInv'
  BY SetRowType, SameRows

\* What a call has read, or chosen, may be anything of its type.
LEMMA CallWithType ==
    ASSUME NEW x \in Call, CallKnown(x),
           NEW h \in SUBSET Comments, NEW i \in BOOLEAN, NEW b \in BOOLEAN
    PROVE  LET y == [x EXCEPT !.held = h, !.imm = i, !.tmux = b]
           IN  y \in Call /\ CallKnown(y)
  BY DEF Call, CallKnown

LEMMA BeginKnown ==
    ASSUME NEW pc \in Pcs \ ({"off", "cas", "check", "enq", "move"}),
           NEW r \in Rows, NEW s \in Sessions
    PROVE  CallKnown(Begin(pc, r, s)) /\ Begin(pc, r, s) \in Call
  BY BeginType DEF CallKnown

-----------------------------------------------------------------------------
(* New rows.                                                                 *)

LEMMA TypeCreateStart ==
    ASSUME Parts, NEW p \in Callers, NEW r \in Rows, NEW s \in Sessions,
           CreateStart(p, r, s)
    PROVE  Parts'
<1> DEFINE x == [Begin("take", r, s) EXCEPT !.tmux = (chan[s] = "tmux")]
<1>1. x \in Call /\ CallKnown(x)
  <2> DEFINE y == Begin("take", r, s)
  <2>1. y \in Call /\ CallKnown(y)
    BY BeginKnown DEF Pcs
  <2>2. x = [y EXCEPT !.held = y.held, !.imm = y.imm, !.tmux = (chan[s] = "tmux")]
    BY <2>1 DEF Call
  <2>3. y.held \in SUBSET Comments /\ y.imm \in BOOLEAN
    BY <2>1 DEF Call
  <2>4. (chan[s] = "tmux") \in BOOLEAN
    OBVIOUS
  <2> HIDE DEF x, y
  <2> QED
    BY <2>1, <2>2, <2>3, <2>4, CallWithType
<1>2. CallInv'
  BY <1>1, CallUpdate DEF CreateStart, Parts, Handlers
<1> QED
  BY <1>2, SameStore, SameJobs, SameHistory, StartsType DEF CreateStart, Parts

LEMMA TypeCreateTake ==
    ASSUME Parts, NEW p \in Callers, CreateTake(p)
    PROVE  Parts'
<1>1. p \in Handlers /\ call[p].row \in Rows /\ call[p].sess \in Sessions
      /\ call[p] \in Call
  BY CallType DEF Parts, CreateTake, At, CallKnown, Rowless, Resetting, Deleting,
                  Handlers
<1>2. PICK cs \in SUBSET Comments :
        /\ SetRow(call[p].row,
                  [Blank("pending") EXCEPT
                      !.sess = call[p].sess, !.tmux = call[p].tmux,
                      !.pay = IF cs = {} THEN "none" ELSE "held", !.snap = cs])
        /\ panel' = [c \in Comments |-> IF c \in cs THEN "gone" ELSE panel[c]]
  BY DEF CreateTake
<1> DEFINE x == [Blank("pending") EXCEPT
                   !.sess = call[p].sess, !.tmux = call[p].tmux,
                   !.pay = IF cs = {} THEN "none" ELSE "held", !.snap = cs]
<1>3. x \in Row /\ RowKnown(x)
  BY <1>1, BlankType DEF Row, RowKnown, Call
<1>4. RowInv' /\ PanelType'
  BY <1>1, <1>2, <1>3, SetRowType DEF Parts, PanelType
<1>5. CallInv'
  BY <1>1, ReturnType DEF CreateTake, Parts
<1> QED
  BY <1>4, <1>5, SameJobs, SameHistory, SameRest DEF CreateTake, Parts

\* A handler at a step that is about a row knows the row and its session.
LEMMA AtRow ==
    ASSUME CallInv, NEW p \in Handlers, NEW pc \in Pcs \ Rowless, At(p, pc)
    PROVE  /\ call[p].row \in Rows /\ call[p].sess \in Sessions
           /\ call[p] \in Call /\ call[p].pc = pc
           /\ pc \in {"cas", "check", "enq"} => call[p].job \in Jobs
  BY CallType DEF At, CallKnown, Rowless

LEMMA AtAny ==
    ASSUME CallInv, NEW p \in Handlers, NEW pc \in Pcs \ {"off"}, At(p, pc)
    PROVE  /\ call[p].sess \in Sessions /\ call[p] \in Call /\ call[p].pc = pc
           /\ pc = "move" => call[p].to \in Sessions
  BY CallType DEF At, CallKnown

LEMMA RowPcs ==
    Dispatching \cup {"take", "takeNow", "made", "before", "erase", "tell",
                      "return", "rehold", "retry", "dismiss"}
      \subseteq Pcs \ Rowless
  BY DEF Pcs, Dispatching, Rowless, Resetting, Deleting

LEMMA CallerIsHandler == Callers \subseteq Handlers
  BY DEF Handlers

LEMMA TypeSendStart ==
    ASSUME Parts, NEW p \in Callers, NEW r \in Rows, NEW s \in Sessions,
           SendStart(p, r, s)
    PROVE  Parts'
<1>1. CallInv'
  <2>1. CallKnown(Begin("takeNow", r, s)) /\ Begin("takeNow", r, s) \in Call
    BY BeginKnown DEF Pcs
  <2> QED
    BY <2>1, CallUpdate, CallerIsHandler DEF SendStart, Parts
<1> QED
  BY <1>1, SameStore, SameJobs, SameHistory, StartsType DEF SendStart, Parts

LEMMA TypeSendTake ==
    ASSUME Parts, NEW p \in Callers, SendTake(p)
    PROVE  Parts'
<1>1. /\ p \in Handlers /\ call[p].row \in Rows /\ call[p].sess \in Sessions
      /\ call[p].pc \notin Rowless
  BY RowPcs, AtRow, CallerIsHandler DEF Parts, SendTake
<1>2. CASE Return(p) /\ UNCHANGED storeVars
  BY <1>1, <1>2, ReturnType, SameStore, SameJobs, SameHistory, SameRest
     DEF SendTake, Parts
<1>3. ASSUME NEW cs \in SUBSET Comments,
             SetRow(call[p].row,
                    [Blank("pending") EXCEPT
                       !.claimed = TRUE, !.phase = "waiting", !.sess = call[p].sess,
                       !.imm = TRUE, !.tmux = TRUE, !.pay = "held",
                       !.snap = cs]),
             panel' = [c \in Comments |-> IF c \in cs THEN "gone" ELSE panel[c]],
             Goto(p, "made")
      PROVE  Parts'
  <2> DEFINE x == [Blank("pending") EXCEPT
                     !.claimed = TRUE, !.phase = "waiting", !.sess = call[p].sess,
                     !.imm = TRUE, !.tmux = TRUE, !.pay = "held", !.snap = cs]
  <2>1. x \in Row /\ RowKnown(x)
    BY <1>1, BlankType DEF Row, RowKnown
  <2>2. RowInv' /\ PanelType'
    BY <1>1, <1>3, <2>1, SetRowType DEF Parts, PanelType
  <2>3. CallInv'
    BY <1>1, <1>3, GotoRow DEF Parts, Pcs, Dispatching
  <2> QED
    BY <2>2, <2>3, SameJobs, SameHistory, SameRest DEF SendTake, Parts
<1> QED
  BY <1>2, <1>3 DEF SendTake

-----------------------------------------------------------------------------
(* fire.                                                                     *)

LEMMA RegisterType ==
    ASSUME CallInv, JobInv, KnownType, RunningType, NEW p \in Handlers,
           NEW r \in Rows, NEW s \in Sessions, Register(p, r, s)
    PROVE  CallInv' /\ JobInv' /\ KnownType' /\ RunningType'
<1> DEFINE old == {known[r]} \ {None}
           x == [OffJob EXCEPT !.pc = "fire", !.row = r, !.sess = s]
<1>1. PICK k \in Jobs :
        /\ known' = [known EXCEPT ![r] = k]
        /\ job' = [Stopped(old, job) EXCEPT ![k] = x]
        /\ call' = [call EXCEPT ![p] = [Begin("cas", r, s) EXCEPT !.job = k]]
        /\ UNCHANGED running
  BY DEF Register
<1>2. JobInv'
  <2>1. x \in Job /\ JobKnown(x)
    BY DEF OffJob, Job, JobKnown
  <2> QED
    BY <1>1, <2>1, StoppedType, JobUpdate DEF JobInv, JobsKnown
<1>3. CallInv'
  <2> DEFINE y == Begin("cas", r, s)
             z == [y EXCEPT !.job = k]
  <2>1. y \in Call /\ y.pc = "cas" /\ y.row = r /\ y.sess = s
    BY BeginType DEF Pcs, Dispatching
  <2>2. z \in Call /\ z.pc = "cas" /\ z.row = r /\ z.sess = s /\ z.job = k
    <3> HIDE DEF y
    <3> QED
      BY <2>1 DEF Call
  <2>3. CallKnown(z)
    <3> HIDE DEF z
    <3> QED
      BY <2>2 DEF CallKnown
  <2> QED
    BY <1>1, <2>2, <2>3, CallUpdate
<1>4. KnownType' /\ RunningType'
  BY <1>1 DEF KnownType, RunningType
<1> QED
  BY <1>2, <1>3, <1>4

LEMMA TypeFire ==
    ASSUME Parts, FireJobs, NEW p \in Handlers, Fire(p)
    PROVE  Parts'
<1> USE DEF Parts
<1>1. CASE SendFire(p)
  <2>1. call[p].row \in Rows /\ call[p].sess \in Sessions
    BY <1>1, RowPcs, AtRow DEF SendFire
  <2>2. CallInv' /\ JobInv' /\ KnownType' /\ RunningType'
    BY <1>1, <2>1, RegisterType, ReturnType, SameJobs DEF SendFire
  <2> QED
    BY <1>1, <2>2, SameStore, SameHistory, SameRest DEF SendFire
<1>2. CASE FireCas(p)
  <2>1. /\ call[p].row \in Rows /\ call[p].job \in Jobs
        /\ call[p].sess \in Sessions /\ call[p] \in Call
    BY <1>2, RowPcs, AtRow DEF FireCas, Dispatching
  <2>2. RowInv'
    <3> DEFINE x == [row[call[p].row] EXCEPT !.phase = "waiting"]
    <3>1. x \in Row /\ RowKnown(x)
      BY <2>1, RowType DEF Row, RowKnown
    <3> QED
      BY <1>2, <2>1, <3>1, SetRowOnce DEF FireCas
  <2>3. ASSUME NEW pc \in {"enq", "check"}, Goto(p, pc) PROVE CallInv'
    <3>1. CallKnown([call[p] EXCEPT !.pc = pc])
      BY <2>1 DEF CallKnown, Call
    <3> QED
      BY <2>3, <3>1, GotoType DEF Pcs, Dispatching
  <2> QED
    BY <1>2, <2>2, <2>3, SamePanel, SameJobs, SameHistory, SameRest DEF FireCas
<1>3. CASE FireCheck(p)
  <2>1. /\ call[p].row \in Rows /\ call[p].job \in Jobs
        /\ call[p].sess \in Sessions /\ call[p] \in Call
    BY <1>3, RowPcs, AtRow DEF FireCheck, Dispatching
  <2>2. CASE Goto(p, "enq") /\ UNCHANGED jobVars
    <3>1. CallKnown([call[p] EXCEPT !.pc = "enq"])
      BY <2>1 DEF CallKnown, Call
    <3>2. CallInv'
      BY <2>2, <3>1, GotoType DEF Pcs, Dispatching
    <3> QED
      BY <1>3, <2>2, <3>2, SameStore, SameJobs, SameHistory, SameRest
         DEF FireCheck
  <2>3. CASE /\ Forget(call[p].row, call[p].job)
             /\ job' = [job EXCEPT ![call[p].job] = OffJob]
             /\ Return(p) /\ UNCHANGED running
    <3>1. JobInv'
      BY <2>1, <2>3, OffJobType, JobUpdate DEF JobInv, JobsKnown
    <3> QED
      BY <1>3, <2>3, <3>1, ReturnType, ForgetType, SameRunning, SameStore,
         SameHistory, SameRest DEF FireCheck
  <2> QED
    BY <1>3, <2>2, <2>3 DEF FireCheck
<1>4. CASE FireEnqueue(p)
  <2> DEFINE k == call[p].job
             a == {l \in Jobs : InJob(l, "queued") /\ job[l].sess = job[k].sess}
             x == [job[k] EXCEPT !.pc = "queued", !.ahead = a]
  <2>1. k \in Jobs /\ call[p].row \in Rows /\ call[p].sess \in Sessions
        /\ call[p].pc = "enq"
    BY <1>4, RowPcs, AtRow DEF FireEnqueue, Dispatching
  <2>2. job[k].row \in Rows /\ job[k].sess \in Sessions /\ job[k] \in Job
    BY <2>1, JobType DEF FireJobs, Firing
  <2>3. x \in Job /\ JobKnown(x)
    BY <2>2 DEF Job, JobKnown
  <2>4. job' = [job EXCEPT ![k] = x]
    BY <1>4, <2>1 DEF FireEnqueue, JobInv
  <2>5. JobInv'
    BY <2>1, <2>3, <2>4, JobUpdate DEF JobInv, JobsKnown
  <2> QED
    BY <1>4, <2>5, ReturnType, SameStore, SameKnown, SameRunning, SameHistory,
       SameRest DEF FireEnqueue
<1> QED
  BY <1>1, <1>2, <1>3, <1>4 DEF Fire

-----------------------------------------------------------------------------
(* The worker and its job.                                                   *)

\* A job that is not off knows its row.
LEMMA InJobRow ==
    ASSUME JobInv, NEW k \in Jobs, NEW pc, InJob(k, pc), pc # "off"
    PROVE  /\ job[k].row \in Rows /\ job[k].sess \in Sessions
           /\ job[k] \in Job /\ job[k].pc = pc
  BY JobType DEF InJob, JobKnown

LEMMA TypeWorkerNext ==
    ASSUME Parts, NEW k \in Jobs, WorkerNext(k)
    PROVE  Parts'
<1> USE DEF Parts
<1>1. /\ job[k].row \in Rows /\ job[k].sess \in Sessions /\ job[k] \in Job
      /\ job[k].pc = "queued"
  BY InJobRow DEF WorkerNext
<1>2. JobInv'
  <2> DEFINE x == [job[k] EXCEPT !.pc = "tick"]
  <2>1. x \in Job /\ JobKnown(x)
    BY <1>1 DEF Job, JobKnown
  <2> QED
    BY <2>1, PoppedType, OffJobType DEF WorkerNext
<1>3. KnownType' /\ RunningType'
  BY <1>1, ForgetType, SameKnown, SameRunning DEF WorkerNext, RunningType
<1> QED
  BY <1>2, <1>3, SameStore, SameCalls, SameHistory, SameRest DEF WorkerNext

LEMMA TypeWork ==
    ASSUME Parts, NEW k \in Jobs, Work(k) \/ TickTimeout(k)
    PROVE  Parts'
<1> USE DEF Parts
<1> DEFINE r == job[k].row
<1>1. CASE TickRead(k)
  <2>1. /\ r \in Rows /\ job[k].sess \in Sessions /\ job[k] \in Job
        /\ job[k].pc = "tick"
    BY <1>1, InJobRow DEF TickRead
  <2>2. CASE EndJob(k)
    BY <1>1, <2>2, EndJobType, SameStore, SameCalls, SameHistory, SameRest
       DEF TickRead
  <2>3. CASE /\ job' = [job EXCEPT ![k].pc = "resolve",
                                   ![k].held = HeldBy(row[r]),
                                   ![k].imm = row[r].imm]
             /\ UNCHANGED <<known, running>>
    <3> DEFINE x == [job[k] EXCEPT !.pc = "resolve", !.held = HeldBy(row[r]),
                                   !.imm = row[r].imm]
    <3>1. HeldBy(row[r]) \in SUBSET Comments /\ row[r].imm \in BOOLEAN
      BY <2>1, RowType DEF Row, HeldBy
    <3>2. x \in Job /\ JobKnown(x)
      BY <2>1, <3>1 DEF Job, JobKnown
    <3>3. job' = [job EXCEPT ![k] = x]
      BY <2>3 DEF JobInv
    <3>4. JobInv'
      BY <3>2, <3>3, JobUpdate DEF JobInv, JobsKnown
    <3> QED
      BY <1>1, <2>3, <3>4, SameKnown, SameRunning, SameStore, SameCalls,
         SameHistory, SameRest DEF TickRead
  <2> QED
    BY <1>1, <2>2, <2>3 DEF TickRead
<1>2. CASE TickTimeout(k)
  <2>1. JobInv'
    BY <1>2, InJobRow, JobGotoType DEF TickTimeout
  <2> QED
    BY <1>2, <2>1, SameKnown, SameRunning, SameStore, SameCalls, SameHistory,
       SameRest DEF TickTimeout
<1>3. CASE TickResolve(k)
  <2>1. job[k].pc # "off"
    BY <1>3 DEF TickResolve, InJob
  <2>2. CASE EndJob(k)
    BY <1>3, <2>2, EndJobType, SameStore, SameCalls, SameHistory, SameRest
       DEF TickResolve
  <2>3. ASSUME NEW pc \in {"fail", "rearm", "cas", "tick"}, JobGoto(k, pc),
               UNCHANGED <<known, running>>
        PROVE  Parts'
    BY <1>3, <2>1, <2>3, JobGotoType, SameKnown, SameRunning, SameStore,
       SameCalls, SameHistory, SameRest DEF TickResolve
  <2> QED
    BY <1>3, <2>2, <2>3 DEF TickResolve
<1>4. CASE JobRearm(k)
  <2>1. r \in Rows /\ row[r] \in Row /\ RowKnown(row[r])
    BY <1>4, InJobRow, RowType DEF JobRearm
  <2>2. RowInv'
    BY <1>4, <2>1, StatusType, SetRowOnce DEF JobRearm, RowKnown
  <2>3. Rest'
    BY <1>4, <2>1, ToldType DEF JobRearm, Outcomes
  <2> QED
    BY <1>4, <2>2, <2>3, EndJobType, SamePanel, SameCalls, SameHistory
       DEF JobRearm
<1>5. CASE JobFail(k)
  <2>1. r \in Rows /\ row[r] \in Row /\ RowKnown(row[r])
    BY <1>5, InJobRow, RowType DEF JobFail
  <2>2. RowInv'
    BY <1>5, <2>1, StatusType, SetRowOnce DEF JobFail, RowKnown, Claimed, Pending
  <2>3. Rest'
    BY <1>5, <2>1, ToldType DEF JobFail, Outcomes
  <2> QED
    BY <1>5, <2>2, <2>3, EndJobType, SamePanel, SameCalls, SameHistory
       DEF JobFail
<1>6. CASE DeliverCas(k)
  <2>1. /\ r \in Rows /\ row[r] \in Row /\ RowKnown(row[r])
        /\ job[k].pc # "off"
    BY <1>6, InJobRow, RowType DEF DeliverCas
  <2>2. RowInv'
    <3> DEFINE x == [row[r] EXCEPT !.phase = "pasting"]
    <3>1. x \in Row /\ RowKnown(x)
      BY <2>1 DEF Row, RowKnown
    <3> QED
      BY <1>6, <2>1, <3>1, SetRowOnce DEF DeliverCas
  <2>3. JobInv' /\ KnownType' /\ RunningType'
    BY <1>6, <2>1, EndJobType, JobGotoType, SameKnown, SameRunning DEF DeliverCas
  <2> QED
    BY <1>6, <2>2, <2>3, SamePanel, SameCalls, SameHistory, SameRest
       DEF DeliverCas
<1>7. CASE DeliverPaste(k)
  <2>1. r \in Rows /\ job[k].pc # "off"
    BY <1>7, InJobRow DEF DeliverPaste
  <2>2. JobInv' /\ HistoryType'
    BY <1>7, <2>1, GoOutType, SameHistory, JobGotoType DEF DeliverPaste
  <2> QED
    BY <1>7, <2>2, SameKnown, SameRunning, SameStore, SameCalls, SameRest
       DEF DeliverPaste
<1>8. CASE DeliverMark(k)
  <2>1. r \in Rows /\ row[r] \in Row /\ RowKnown(row[r])
    BY <1>8, InJobRow, RowType DEF DeliverMark
  <2>2. RowInv'
    BY <1>8, <2>1, StatusType, SetRowOnce DEF DeliverMark, RowKnown, Pending
  <2>3. Rest'
    BY <1>8, <2>1, ToldType DEF DeliverMark, Outcomes
  <2> QED
    BY <1>8, <2>2, <2>3, EndJobType, SamePanel, SameCalls, SameHistory
       DEF DeliverMark
<1> QED
  BY <1>1, <1>2, <1>3, <1>4, <1>5, <1>6, <1>7, <1>8 DEF Work

-----------------------------------------------------------------------------
(* Claims and Rich Chat deliveries.                                          *)

LEMMA ClaimType ==
    ASSUME RowInv, CallInv, NEW p \in Handlers, NEW r \in Rows, Claim(p, r)
    PROVE  RowInv' /\ CallInv'
<1>1. row[r] \in Row /\ row[r].sess \in Sessions /\ row[r].status = "pending"
  BY RowType DEF Claim, Pending, RowKnown
<1>2. RowInv'
  <2> DEFINE x == [row[r] EXCEPT !.claimed = TRUE]
  <2>1. x \in Row /\ RowKnown(x)
    BY <1>1 DEF Row, RowKnown
  <2> QED
    BY <2>1, SetRowType DEF Claim
<1>3. CallInv'
  <2> DEFINE y == Begin("route", r, row[r].sess)
             x == [y EXCEPT !.held = HeldBy(row[r]), !.imm = row[r].imm]
  <2>1. CallKnown(y) /\ y \in Call
    BY <1>1, BeginKnown DEF Pcs, Dispatching
  <2>2. HeldBy(row[r]) \in SUBSET Comments /\ row[r].imm \in BOOLEAN
    BY <1>1 DEF Row, HeldBy
  <2>3. y.tmux \in BOOLEAN /\ x = [y EXCEPT !.held = HeldBy(row[r]),
                                            !.imm = row[r].imm, !.tmux = y.tmux]
    <3> HIDE DEF y
    <3> QED
      BY <2>1 DEF Call
  <2>4. x \in Call /\ CallKnown(x)
    <3> HIDE DEF x, y
    <3> QED
      BY <2>1, <2>2, <2>3, CallWithType
  <2> QED
    BY <2>4, CallUpdate DEF Claim
<1> QED
  BY <1>2, <1>3

LEMMA TypeClaim ==
    ASSUME Parts, NEW r \in Rows,
           Poll(r) \/ \E p \in Callers : SendNow(p, r)
    PROVE  Parts'
<1> USE DEF Parts
<1>1. CASE Poll(r)
  <2>1. Poller \in Handlers
    BY DEF Handlers
  <2> QED
    BY <1>1, <2>1, ClaimType, SamePanel, SameJobs, SameHistory, SameRest
       DEF Poll, Claim
<1>2. ASSUME NEW p \in Callers, SendNow(p, r) PROVE Parts'
  BY <1>2, CallerIsHandler, ClaimType, SamePanel, SameJobs, SameHistory,
     StartsType DEF SendNow, Claim
<1> QED
  BY <1>1, <1>2

LEMMA TypeRoute ==
    ASSUME Parts, NEW p \in Handlers, Route(p)
    PROVE  Parts'
<1> USE DEF Parts
<1>1. /\ call[p].row \in Rows /\ call[p].sess \in Sessions
      /\ call[p].pc \notin Rowless
  BY RowPcs, AtRow DEF Route, Dispatching
<1>2. ASSUME NEW pc \in {"plain", "giveBack", "able"}, Goto(p, pc)
      PROVE  CallInv'
  BY <1>1, <1>2, GotoRow, RowPcs DEF Dispatching
<1>3. CallInv' /\ JobInv' /\ KnownType' /\ RunningType'
  BY <1>1, <1>2, RegisterType, SameJobs DEF Route
<1> QED
  BY <1>3, SameStore, SameHistory, SameRest DEF Route

\* Goto, for the steps of a Rich Chat delivery.
LEMMA JsonGoto ==
    ASSUME CallInv, NEW p \in Handlers, call[p].pc \notin Rowless,
           NEW pc \in {"able", "giveBack", "adopt", "plain", "after", "holdBack",
                       "failMark", "sentMark"},
           Goto(p, pc)
    PROVE  CallInv'
  BY GotoRow, RowPcs DEF Dispatching

LEMMA TypeJson ==
    ASSUME Parts, NEW p \in Handlers, Json(p) \/ JsonTimeout(p)
    PROVE  Parts'
<1> USE DEF Parts
<1> DEFINE r == call[p].row
<1>1. CASE JsonAble(p)
  <2>1. call[p].pc \notin Rowless
    BY <1>1, RowPcs, AtRow DEF JsonAble, Dispatching
  <2> QED
    BY <1>1, <2>1, JsonGoto, SameStore, SameJobs, SameHistory, SameRest
       DEF JsonAble
<1>2. CASE JsonGiveBack(p)
  <2>1. call[p].pc \notin Rowless /\ r \in Rows
    BY <1>2, RowPcs, AtRow DEF JsonGiveBack, Dispatching
  <2> QED
    BY <1>2, <2>1, JsonGoto, RestoreRowType, SameJobs, SameHistory, SameRest
       DEF JsonGiveBack
<1>3. CASE JsonAdopt(p)
  <2>1. call[p].pc \notin Rowless /\ r \in Rows /\ call[p] \in Call
    BY <1>3, RowPcs, AtRow DEF JsonAdopt, Dispatching
  <2>2. row[r] \in Row /\ RowKnown(row[r]) /\ adoption[r] \in Nat
    BY <2>1, RowType DEF Rest
  <2>3. CASE /\ Adopt(r, call[p].held)
             /\ call' = [call EXCEPT ![p].pc = "plain",
                                     ![p].turn = adoption[r] + 1]
    <3> DEFINE new == {c \in call[p].held : panel[c] = "gone"}
               x == [row[r] EXCEPT !.pay = IF new = {} THEN "restored"
                                           ELSE "adopted"]
               y == [call[p] EXCEPT !.pc = "plain", !.turn = adoption[r] + 1]
    <3>1. RowInv'
      <4>1. x \in Row /\ RowKnown(x)
        BY <2>2 DEF Row, RowKnown
      <4> QED
        BY <2>1, <2>3, <4>1, SetRowType DEF Adopt
    <3>2. PanelType'
      BY <2>1, <2>3 DEF PanelType, Adopt
    <3>3. CallInv'
      <4>1. y \in Call
        <5>1. "plain" \in Pcs /\ adoption[r] + 1 \in Nat
          BY <2>2, RowPcs DEF Dispatching
        <5> QED
          BY <2>1, <5>1 DEF Call
      <4>2. CallKnown(y)
        BY <2>1, CallType DEF CallKnown, Call, Rowless, Resetting, Deleting
      <4>3. call' = [call EXCEPT ![p] = y]
        BY <2>3 DEF CallInv
      <4> QED
        BY <4>1, <4>2, <4>3, CallUpdate
    <3>4. Rest'
      <4>1. adoption' \in [Rows -> Nat]
        BY <2>1, <2>3 DEF Rest, Adopt
      <4> QED
        BY <1>3, <4>1 DEF Rest, JsonAdopt, sessVars, boundVars
    <3> QED
      BY <1>3, <3>1, <3>2, <3>3, <3>4, SameJobs, SameHistory DEF JsonAdopt
  <2>4. CASE Goto(p, "failMark") /\ UNCHANGED <<storeVars, adoption>>
    <3>1. Rest'
      BY <1>3, <2>4 DEF Rest, JsonAdopt, sessVars, boundVars
    <3> QED
      BY <1>3, <2>1, <2>4, <3>1, JsonGoto, SameStore, SameJobs, SameHistory
         DEF JsonAdopt
  <2> QED
    BY <1>3, <2>3, <2>4 DEF JsonAdopt
<1>4. CASE JsonEnqueue(p)
  <2>1. call[p].pc \notin Rowless /\ r \in Rows /\ call[p] \in Call
    BY <1>4, RowPcs, AtRow DEF JsonEnqueue, Dispatching
  <2>2. CallInv'
    BY <1>4, <2>1, JsonGoto DEF JsonEnqueue
  <2>3. HistoryType'
    BY <1>4, <2>1, GoOutType, SameHistory DEF JsonEnqueue
  <2>4. [row |-> r, n |-> call[p].turn, body |-> call[p].held,
         pc |-> "queued"] \in Turn
    BY <2>1 DEF Turn, Call
  <2>5. turns' \in SUBSET Turn
    BY <1>4, <2>4 DEF JsonEnqueue, Rest
  <2>6. Rest'
    BY <1>4, <2>5 DEF Rest, JsonEnqueue, sessVars, boundVars
  <2> QED
    BY <1>4, <2>2, <2>3, <2>6, SameStore, SameJobs DEF JsonEnqueue
<1>5. CASE JsonAfter(p)
  <2>1. call[p].pc \notin Rowless
    BY <1>5, RowPcs, AtRow DEF JsonAfter, Dispatching
  <2> QED
    BY <1>5, <2>1, JsonGoto, SameStore, SameJobs, SameHistory, SameRest
       DEF JsonAfter
<1>6. CASE JsonHoldBack(p)
  <2>1. call[p].pc \notin Rowless /\ r \in Rows
    BY <1>6, RowPcs, AtRow DEF JsonHoldBack, Dispatching
  <2> QED
    BY <1>6, <2>1, JsonGoto, RestoreHoldType, SameJobs, SameHistory, SameRest
       DEF JsonHoldBack
<1>7. CASE JsonTimeout(p)
  <2>1. call[p].pc \notin Rowless /\ r \in Rows
    BY <1>7, RowPcs, AtRow DEF JsonTimeout, Dispatching
  <2>2. CallInv'
    BY <1>7, <2>1, JsonGoto DEF JsonTimeout
  <2>3. RowInv' /\ PanelType'
    BY <1>7, <2>1, RestoreHoldType, SameStore DEF JsonTimeout
  <2> QED
    BY <1>7, <2>2, <2>3, SameJobs, SameHistory, SameRest DEF JsonTimeout
<1>8. CASE JsonFailMark(p) \/ JsonSentMark(p)
  <2>1. r \in Rows /\ row[r] \in Row /\ RowKnown(row[r])
    BY <1>8, RowPcs, AtRow, RowType DEF JsonFailMark, JsonSentMark, Dispatching
  <2>2. RowInv'
    BY <1>8, <2>1, StatusType, SetRowOnce
       DEF JsonFailMark, JsonSentMark, RowKnown, Claimed, Pending
  <2> QED
    BY <1>8, <2>2, ReturnType, SamePanel, SameJobs, SameHistory, SameRest
       DEF JsonFailMark, JsonSentMark
<1> QED
  BY <1>1, <1>2, <1>3, <1>4, <1>5, <1>6, <1>7, <1>8 DEF Json

-----------------------------------------------------------------------------
(* Turns and the observer.                                                   *)

LEMMA TypeTurn ==
    ASSUME Parts, NEW t \in turns,
           TurnPersist(t) \/ TurnWithdraw(t) \/ TurnSettle(t)
    PROVE  Parts'
<1> USE DEF Parts
<1>1. t \in Turn /\ t.row \in Rows
  BY DEF Rest, Turn
<1>2. ASSUME NEW pc \in {"kept", "cancelled"}, Advance(t, pc)
      PROVE  turns' \in SUBSET Turn
  <2>1. [t EXCEPT !.pc = pc] \in Turn
    BY <1>1 DEF Turn
  <2> QED
    BY <1>2, <2>1 DEF Rest, Advance
<1>3. CASE TurnPersist(t)
  <2>1. Rest'
    BY <1>2, <1>3 DEF Rest, TurnPersist, sessVars, boundVars
  <2> QED
    BY <1>1, <1>3, <2>1, GoOutType, SameStore, SameJobs, SameCalls DEF TurnPersist
<1>4. CASE TurnWithdraw(t)
  <2>1. Rest'
    BY <1>2, <1>4 DEF Rest, TurnWithdraw, sessVars, boundVars
  <2> QED
    BY <1>4, <2>1, SameStore, SameJobs, SameCalls, SameHistory DEF TurnWithdraw
<1>5. CASE TurnSettle(t)
  <2>1. RowInv' /\ PanelType'
    BY <1>1, <1>5, RemoveHoldType, RestoreHoldType, SameRows DEF TurnSettle
  <2>2. Rest'
    BY <1>5 DEF Rest, TurnSettle, sessVars, boundVars
  <2> QED
    BY <1>5, <2>1, <2>2, SameJobs, SameCalls, SameHistory DEF TurnSettle
<1> QED
  BY <1>3, <1>4, <1>5

\* A task of the observer moves on.
LEMMA TaskMoves ==
    ASSUME Rest, NEW t, NEW u \in SUBSET Task, told' = (told \ {t}) \cup u,
           UNCHANGED <<sessVars, captured, turnVars, boot, boundVars>>
    PROVE  Rest'
  BY DEF Rest, sessVars, turnVars, boundVars

LEMMA TypeObserve ==
    ASSUME Parts, NEW t \in told, Observe(t)
    PROVE  Parts'
<1> USE DEF Parts
<1> DEFINE r == t.row
<1>1. t \in Task /\ r \in Rows /\ row[r] \in Row /\ RowKnown(row[r])
  BY RowType DEF Rest, Task
<1>2. CASE ObserverStart(t)
  <2> DEFINE held == IF captured[r] # {} THEN captured[r] ELSE row[r].snap
  <2>1. held \in SUBSET Comments /\ row[r].imm \in BOOLEAN
    BY <1>1 DEF Rest, Row
  <2>2. \/ told' = (told \ {t}) \cup {}
        \/ told' = (told \ {t}) \cup
                     {[t EXCEPT !.pc = "restore", !.held = held,
                                !.cap = captured[r] # {}, !.imm = row[r].imm]}
    BY <1>2, Zenon DEF ObserverStart
  <2>3. ASSUME NEW h \in SUBSET Comments, NEW c \in BOOLEAN, NEW i \in BOOLEAN
        PROVE  [t EXCEPT !.pc = "restore", !.held = h, !.cap = c, !.imm = i]
                 \in Task
    BY <1>1 DEF Task
  <2>4. (captured[r] # {}) \in BOOLEAN
    BY Zenon
  <2> HIDE DEF held
  <2>5. [t EXCEPT !.pc = "restore", !.held = held, !.cap = captured[r] # {},
                  !.imm = row[r].imm] \in Task
    BY <2>1, <2>3, <2>4, Zenon
  <2>6. \E u \in SUBSET Task : told' = (told \ {t}) \cup u
    BY <2>2, <2>5, Zenon
  <2>7. captured' \in [Rows -> SUBSET Comments]
    BY <1>2 DEF ObserverStart, Rest
  <2>8. told' \in SUBSET Task
    BY <2>6 DEF Rest
  <2>9. Rest'
    BY <1>2, <2>7, <2>8 DEF Rest, ObserverStart, sessVars, turnVars, boundVars
  <2> QED
    BY <1>2, <2>9, SameStore, SameJobs, SameCalls, SameHistory DEF ObserverStart
<1>3. CASE ObserverRestore(t)
  <2>1. RowInv' /\ PanelType'
    BY <1>1, <1>3, PutBackType, RestoreRowType, SameRows DEF ObserverRestore
  <2> DEFINE u == [t EXCEPT !.pc = IF t.cap THEN "mark" ELSE "drop"]
  <2>2. u \in Task
    BY <1>1 DEF Task
  <2>3. Rest'
    <3>1. /\ told' = (told \ {t}) \cup {u}
          /\ UNCHANGED <<sessVars, captured, turnVars, boot, boundVars>>
      BY <1>3 DEF ObserverRestore
    <3> HIDE DEF u
    <3>2. {u} \in SUBSET Task
      BY <2>2
    <3> QED
      BY <3>1, <3>2, TaskMoves, Zenon
  <2> QED
    BY <1>3, <2>1, <2>3, SameJobs, SameCalls, SameHistory DEF ObserverRestore
<1>4. CASE ObserverMark(t)
  <2>1. RowInv'
    <3> DEFINE x == [row[r] EXCEPT !.pay = "restored"]
    <3>1. x \in Row /\ RowKnown(x)
      BY <1>1 DEF Row, RowKnown
    <3> QED
      BY <1>1, <1>4, <3>1, SetRowOnce DEF ObserverMark
  <2> DEFINE u == [t EXCEPT !.pc = "drop"]
  <2>2. u \in Task
    BY <1>1 DEF Task
  <2>3. Rest'
    <3>1. /\ told' = (told \ {t}) \cup {u}
          /\ UNCHANGED <<sessVars, captured, turnVars, boot, boundVars>>
      BY <1>4 DEF ObserverMark
    <3> HIDE DEF u
    <3>2. {u} \in SUBSET Task
      BY <2>2
    <3> QED
      BY <3>1, <3>2, TaskMoves, Zenon
  <2> QED
    BY <1>4, <2>1, <2>3, SamePanel, SameJobs, SameCalls, SameHistory
       DEF ObserverMark
<1>5. CASE ObserverDrop(t)
  <2>1. RowInv'
    BY <1>1, <1>5, BlankType, SetRowOnce DEF ObserverDrop, RowKnown
  <2>2. Rest'
    BY <1>5 DEF ObserverDrop, Rest, sessVars, turnVars, boundVars
  <2> QED
    BY <1>5, <2>1, <2>2, SamePanel, SameJobs, SameCalls, SameHistory
       DEF ObserverDrop
<1> QED
  BY <1>2, <1>3, <1>4, <1>5 DEF Observe

-----------------------------------------------------------------------------
(* Cancel, retry, dismiss and the panel's delete.                            *)

\* A call begins with something it has read or chosen.
LEMMA BeginWithType ==
    ASSUME CallInv, NEW p \in Handlers,
           NEW pc \in Pcs \ {"off", "cas", "check", "enq", "move"},
           NEW r \in Rows, NEW s \in Sessions,
           NEW h \in SUBSET Comments, NEW b \in BOOLEAN,
           \/ call' = [call EXCEPT ![p] = [Begin(pc, r, s) EXCEPT !.held = h]]
           \/ call' = [call EXCEPT ![p] = [Begin(pc, r, s)
                                             EXCEPT !.tmux = b, !.held = h]]
    PROVE  CallInv'
<1> DEFINE y == Begin(pc, r, s)
           u == [y EXCEPT !.held = h]
           v == [y EXCEPT !.tmux = b, !.held = h]
<1>1. CallKnown(y) /\ y \in Call
  BY BeginKnown
<1> HIDE DEF y
<1>2. u \in Call /\ CallKnown(u)
  <2>1. u = [y EXCEPT !.held = h, !.imm = y.imm, !.tmux = y.tmux]
        /\ y.imm \in BOOLEAN /\ y.tmux \in BOOLEAN
    BY <1>1 DEF Call
  <2> HIDE DEF u
  <2> QED
    BY <1>1, <2>1, CallWithType
<1>3. v \in Call /\ CallKnown(v)
  <2>1. v = [y EXCEPT !.held = h, !.imm = y.imm, !.tmux = b]
        /\ y.imm \in BOOLEAN
    BY <1>1 DEF Call
  <2> HIDE DEF v
  <2> QED
    BY <1>1, <2>1, CallWithType
<1> QED
  BY <1>2, <1>3, CallUpdate DEF y

LEMMA TypeUserStart ==
    ASSUME Parts, NEW p \in Callers, NEW r \in Rows,
           CancelStart(p, r) \/ RetryStart(p, r) \/ DismissStart(p, r)
    PROVE  Parts'
<1> USE DEF Parts
<1>1. p \in Handlers /\ row[r] \in Row /\ row[r].snap \in SUBSET Comments
      /\ HeldBy(row[r]) \in SUBSET Comments
  BY CallerIsHandler, RowType DEF Row, HeldBy
<1>2. row[r].sess \in Sessions
  BY RowType DEF RowKnown, CancelStart, RetryStart, DismissStart, Exists
<1>3. {"before", "erase", "rehold", "retry", "dismiss"}
        \subseteq Pcs \ {"off", "cas", "check", "enq", "move"}
  BY DEF Pcs
<1>4. CASE CancelStart(p, r)
  <2> DEFINE tmux == DeliveryRow(row[r])
             pc == IF tmux THEN "before" ELSE "erase"
  <2>1. tmux \in BOOLEAN
    BY <1>1 DEF DeliveryRow, Row
  <2>2. pc \in {"before", "erase"}
    OBVIOUS
  <2>3. call' = [call EXCEPT ![p] =
                   [Begin(pc, r, row[r].sess) EXCEPT !.tmux = tmux,
                                                     !.held = HeldBy(row[r])]]
    BY <1>4 DEF CancelStart
  <2>4. CallInv'
    <3> HIDE DEF tmux, pc
    <3> QED
      BY <1>1, <1>2, <1>3, <2>1, <2>2, <2>3, BeginWithType
  <2> QED
    BY <1>4, <2>4, SameStore, SameJobs, SameHistory, StartsType DEF CancelStart
<1>5. CASE RetryStart(p, r)
  <2>1. \E pc \in {"rehold", "retry"}, h \in SUBSET Comments :
          call' = [call EXCEPT ![p] = [Begin(pc, r, row[r].sess)
                                         EXCEPT !.held = h]]
    BY <1>1, <1>5 DEF RetryStart
  <2>2. CallInv'
    <3>1. PICK pc \in {"rehold", "retry"}, h \in SUBSET Comments :
            call' = [call EXCEPT ![p] = [Begin(pc, r, row[r].sess)
                                           EXCEPT !.held = h]]
      BY <2>1
    <3> QED
      BY <1>1, <1>2, <1>3, <3>1, TRUE \in BOOLEAN, BeginWithType
  <2> QED
    BY <1>5, <2>2, SameStore, SameJobs, SameHistory, StartsType DEF RetryStart
<1>6. CASE DismissStart(p, r)
  <2>1. \E h \in SUBSET Comments :
          call' = [call EXCEPT ![p] = [Begin("dismiss", r, row[r].sess)
                                         EXCEPT !.held = h]]
    BY <1>1, <1>6 DEF DismissStart
  <2>2. CallInv'
    <3>1. PICK h \in SUBSET Comments :
            call' = [call EXCEPT ![p] = [Begin("dismiss", r, row[r].sess)
                                           EXCEPT !.held = h]]
      BY <2>1
    <3> QED
      BY <1>1, <1>2, <1>3, <3>1, TRUE \in BOOLEAN, BeginWithType
  <2> QED
    BY <1>6, <2>2, SameStore, SameJobs, SameHistory, StartsType DEF DismissStart
<1> QED
  BY <1>4, <1>5, <1>6

LEMMA TypeCancel ==
    ASSUME Parts, NEW p \in Callers,
           \/ CancelBefore(p) \/ CancelErase(p) \/ CancelTell(p)
           \/ ReturnComments(p)
    PROVE  Parts'
<1> USE DEF Parts
<1> DEFINE r == call[p].row
<1>1. p \in Handlers
  BY CallerIsHandler
<1>2. /\ r \in Rows /\ row[r] \in Row /\ RowKnown(row[r]) /\ call[p] \in Call
      /\ call[p].pc \notin Rowless
  BY <1>1, RowPcs, AtRow, RowType
     DEF CancelBefore, CancelErase, CancelTell, ReturnComments
<1>3. CASE CancelBefore(p)
  <2> DEFINE x == [call[p] EXCEPT !.pc = "erase", !.held = row[r].snap]
  <2>1. x \in Call
    <3>1. "erase" \in Pcs /\ row[r].snap \in SUBSET Comments
      BY <1>2, RowPcs DEF Row
    <3> QED
      BY <1>2, <3>1 DEF Call
  <2>2. CallKnown(x)
    BY <1>1, <1>2, CallType DEF CallKnown, Call, Rowless, Resetting, Deleting
  <2>3. call' = [call EXCEPT ![p] = x]
    BY <1>3 DEF CancelBefore, CallInv
  <2> QED
    BY <1>1, <1>3, <2>1, <2>2, <2>3, CallUpdate, SameStore, SameJobs,
       SameHistory, SameRest DEF CancelBefore
<1>4. CASE CancelErase(p)
  <2>1. RowInv'
    BY <1>2, <1>4, BlankType, SetRowOnce DEF CancelErase, RowKnown
  <2>2. CallInv'
    BY <1>1, <1>2, <1>4, RowPcs, GotoRow, ReturnType DEF CancelErase
  <2> QED
    BY <1>4, <2>1, <2>2, SamePanel, SameJobs, SameHistory, SameRest
       DEF CancelErase
<1>5. CASE CancelTell(p)
  <2>1. captured' \in [Rows -> SUBSET Comments]
    BY <1>2, <1>5 DEF CancelTell, Rest, Call
  <2>2. News(r, "cancelled") \in Task
    BY <1>2 DEF News, Task, Outcomes
  <2>3. Rest'
    BY <1>5, <2>1, <2>2 DEF CancelTell, Rest, sessVars, turnVars, boundVars
  <2> QED
    BY <1>1, <1>5, <2>3, StopJobsType, ReturnType, SameStore, SameHistory
       DEF CancelTell
<1>6. CASE ReturnComments(p)
  BY <1>1, <1>6, PutBackType, ReturnType, SameRows, SameJobs, SameHistory,
     SameRest DEF ReturnComments
<1> QED
  BY <1>3, <1>4, <1>5, <1>6

LEMMA TypeRetry ==
    ASSUME Parts, NEW p \in Callers, Rehold(p) \/ RetryRow(p) \/ DismissRow(p)
    PROVE  Parts'
<1> USE DEF Parts
<1> DEFINE r == call[p].row
<1>1. p \in Handlers
  BY CallerIsHandler
<1>2. /\ r \in Rows /\ row[r] \in Row /\ RowKnown(row[r]) /\ call[p] \in Call
      /\ call[p].pc \notin Rowless
  BY <1>1, RowPcs, AtRow, RowType DEF Rehold, RetryRow, DismissRow
<1>3. CASE Rehold(p)
  <2> DEFINE left == {c \in row[r].snap : panel[c] = "live"}
             x == [row[r] EXCEPT !.pay = "held", !.snap = left]
             y == [row[r] EXCEPT !.pay = "none", !.snap = {}]
  <2>1. left \in SUBSET Comments
    BY <1>2 DEF Row
  <2>2. RowInv'
    <3>1. x \in Row /\ RowKnown(x) /\ y \in Row /\ RowKnown(y)
      <4> HIDE DEF left
      <4> QED
        BY <1>2, <2>1 DEF Row, RowKnown
    <3> QED
      BY <1>2, <1>3, <3>1, SetRowType, SameRows DEF Rehold, storeVars
  <2>3. PanelType'
    BY <1>3, <2>1 DEF Rehold, PanelType, storeVars
  <2>4. ASSUME call' = [call EXCEPT ![p].pc = "retry", ![p].held = {}]
        PROVE  CallInv'
    <3> DEFINE z == [call[p] EXCEPT !.pc = "retry", !.held = {}]
    <3>1. z \in Call
      BY <1>2, RowPcs DEF Call
    <3>2. CallKnown(z)
      BY <1>1, <1>2, CallType DEF CallKnown, Call, Rowless, Resetting, Deleting
    <3>3. call' = [call EXCEPT ![p] = z]
      BY <2>4 DEF CallInv
    <3> QED
      BY <1>1, <3>1, <3>2, <3>3, CallUpdate
  <2>5. CallInv'
    BY <1>1, <1>2, <1>3, <2>4, RowPcs, GotoRow, ReturnType DEF Rehold
  <2> QED
    BY <1>3, <2>2, <2>3, <2>5, SameJobs, SameHistory, SameRest DEF Rehold
<1>4. CASE RetryRow(p)
  <2> DEFINE x == [Unclaimed(row[r]) EXCEPT !.status = "pending"]
  <2>1. RowInv'
    <3>1. row[r].status = "failed" => x \in Row /\ RowKnown(x)
      BY <1>2, StatusType DEF Row, RowKnown
    <3> QED
      BY <1>2, <1>4, <3>1, SetRowType, SameRows DEF RetryRow
  <2>2. CallInv'
    BY <1>1, <1>2, <1>4, RowPcs, GotoRow, ReturnType DEF RetryRow
  <2>3. HistoryType'
    BY <1>4 DEF RetryRow, HistoryType
  <2> QED
    BY <1>4, <2>1, <2>2, <2>3, SamePanel, SameJobs, SameRest DEF RetryRow
<1>5. CASE DismissRow(p)
  <2>1. RowInv'
    BY <1>2, <1>5, BlankType, SetRowOnce DEF DismissRow, RowKnown
  <2>2. CallInv'
    BY <1>1, <1>2, <1>5, RowPcs, GotoRow, ReturnType DEF DismissRow
  <2> QED
    BY <1>5, <2>1, <2>2, SamePanel, SameJobs, SameHistory, SameRest
       DEF DismissRow
<1> QED
  BY <1>3, <1>4, <1>5

LEMMA TypeDiscard ==
    ASSUME Parts, NEW p \in Callers, NEW c \in Comments, Discard(p, c)
    PROVE  Parts'
<1> USE DEF Parts
<1>1. PanelType' /\ HistoryType'
  BY DEF Discard, PanelType, HistoryType
<1> QED
  BY <1>1, SameRows, SameJobs, SameCalls, StartsType DEF Discard

-----------------------------------------------------------------------------
(* Sessions.                                                                 *)

LEMMA TypeToggle ==
    ASSUME Parts, NEW p \in Callers, NEW s \in Sessions, Toggle(p, s)
    PROVE  Parts'
<1> USE DEF Parts
<1>1. Rest'
  BY DeliveryAssumption DEF Toggle, Starts, Rest, turnVars
<1> QED
  BY <1>1, SameStore, SameJobs, SameCalls, SameHistory DEF Toggle

\* A call about a session begins.
LEMMA BeginSession ==
    ASSUME CallInv, NEW p \in Handlers, NEW pc \in {"list", "listHeld", "purge"},
           NEW s \in Sessions, call' = [call EXCEPT ![p] = Begin(pc, None, s)]
    PROVE  CallInv'
<1>1. pc \in Pcs \ {"off"} /\ pc \in Rowless
  BY DEF Pcs, Rowless, Resetting, Deleting
<1>2. Begin(pc, None, s) \in Call /\ CallKnown(Begin(pc, None, s))
  BY <1>1, BeginType DEF CallKnown
<1> QED
  BY <1>2, CallUpdate

LEMMA TypeSessionStart ==
    ASSUME Parts, NEW p \in Callers, NEW s \in Sessions,
           ResetStart(p, s) \/ DeleteStart(p, s)
    PROVE  Parts'
<1> USE DEF Parts
<1>1. CallInv'
  BY CallerIsHandler, BeginSession DEF ResetStart, DeleteStart
<1>2. CASE ResetStart(p, s)
  BY <1>1, <1>2, SameStore, SameJobs, SameHistory, StartsType DEF ResetStart
<1>3. CASE DeleteStart(p, s)
  <2>1. Rest'
    BY <1>3, DeliveryAssumption DEF DeleteStart, Starts, Rest, turnVars
  <2> QED
    BY <1>1, <1>3, <2>1, SameStore, SameJobs, SameHistory DEF DeleteStart
<1> QED
  BY <1>2, <1>3

\* The steps of a reset or a delete that go over a list of rows.
LEMMA ListStep ==
    ASSUME CallInv, NEW p \in Handlers, call[p].pc \in Resetting \cup Deleting,
           NEW pc \in (Resetting \cup Deleting) \ {"move"},
           NEW todo \in SUBSET Rows,
           call' = [call EXCEPT ![p].pc = pc, ![p].todo = todo]
    PROVE  CallInv'
<1> DEFINE x == [call[p] EXCEPT !.pc = pc, !.todo = todo]
<1>1. pc \in Pcs /\ pc \in Rowless /\ call[p].pc # "off"
      /\ pc \notin {"cas", "check", "enq"}
  BY DEF Pcs, Rowless, Resetting, Deleting
<1>2. x \in Call /\ x.pc = pc /\ x.sess = call[p].sess
  BY <1>1, CallType DEF Call
<1>3. CallKnown(x)
  <2> HIDE DEF x
  <2> QED
    BY <1>1, <1>2, CallType DEF CallKnown
<1>4. call' = [call EXCEPT ![p] = x]
  BY DEF CallInv
<1> QED
  BY <1>2, <1>3, <1>4, CallUpdate

LEMMA NextRow ==
    ASSUME CallInv, NEW p \in Handlers, NEW r, 
           call' = [call EXCEPT ![p].todo = @ \ {r}]
    PROVE  CallInv'
<1> DEFINE x == [call[p] EXCEPT !.todo = @ \ {r}]
<1>1. call[p].todo \ {r} \in SUBSET Rows
  BY CallType DEF Call
<1>2. x \in Call /\ CallKnown(x)
  BY <1>1, CallType DEF Call, CallKnown
<1>3. call' = [call EXCEPT ![p] = x]
  BY DEF CallInv
<1> QED
  BY <1>2, <1>3, CallUpdate

LEMMA TypeReset ==
    ASSUME Parts, NEW p \in Callers,
           \/ ResetList(p) \/ ResetArchive(p) \/ ResetGivenUp(p) \/ ResetMove(p)
           \/ \E r \in Rows : ResetStop(p, r) \/ ResetRearm(p, r)
    PROVE  Parts'
<1> USE DEF Parts
<1>1. p \in Handlers
  BY CallerIsHandler
<1>2. CASE ResetList(p)
  <2> DEFINE pc == IF call[p].pc = "list" THEN "stop" ELSE "rearm"
             todo == {r \in Listed(call[p].sess) : row[r].phase = "waiting"}
  <2>1. todo \in SUBSET Rows
    BY DEF Listed
  <2>2. pc \in (Resetting \cup Deleting) \ {"move"}
        /\ call[p].pc \in Resetting \cup Deleting
    BY <1>2 DEF ResetList, At, Resetting
  <2>3. call' = [call EXCEPT ![p].pc = pc, ![p].todo = todo]
    BY <1>1, <1>2 DEF ResetList, CallInv
  <2>4. CallInv'
    <3> HIDE DEF pc, todo
    <3> QED
      BY <1>1, <2>1, <2>2, <2>3, ListStep
  <2> QED
    BY <1>2, <2>4, SameStore, SameJobs, SameHistory, SameRest DEF ResetList
<1>3. CASE ResetArchive(p)
  <2>1. call[p].sess \in Sessions /\ call[p].pc = "stop" /\ call[p] \in Call
    BY <1>1, <1>3, CallType DEF ResetArchive, At, CallKnown
  <2>2. ASSUME NEW n \in Sessions,
               sess' = [sess EXCEPT ![call[p].sess] = "archived", ![n] = "live"],
               chan' = [chan EXCEPT ![n] = chan[call[p].sess]],
               call' = [call EXCEPT ![p].pc = "move", ![p].to = n]
        PROVE  Parts'
    <3> DEFINE x == [call[p] EXCEPT !.pc = "move", !.to = n]
    <3>1. "move" \in Pcs /\ "move" \in Rowless
      BY DEF Pcs, Rowless, Resetting
    <3>2. x \in Call /\ x.pc = "move" /\ x.to = n /\ x.sess = call[p].sess
      BY <2>1, <3>1 DEF Call
    <3>3. CallKnown(x)
      <4> HIDE DEF x
      <4> QED
        BY <2>1, <3>1, <3>2 DEF CallKnown
    <3>4. call' = [call EXCEPT ![p] = x]
      BY <1>1, <2>2 DEF CallInv
    <3>5. CallInv'
      BY <1>1, <3>2, <3>3, <3>4, CallUpdate
    <3>6. Rest'
      BY <1>3, <2>1, <2>2 DEF Rest, ResetArchive, turnVars, boundVars
    <3> QED
      BY <1>3, <3>5, <3>6, SameStore, SameJobs, SameHistory DEF ResetArchive
  <2>3. CASE Goto(p, "relist") /\ UNCHANGED sessVars
    <3>1. "relist" \in Pcs /\ "relist" \in Rowless
          /\ CallKnown([call[p] EXCEPT !.pc = "relist"])
      BY <2>1 DEF Pcs, Rowless, Resetting, CallKnown, Call
    <3>2. CallInv'
      BY <1>1, <2>3, <3>1, GotoType
    <3> QED
      BY <1>3, <2>3, <3>2, SameStore, SameJobs, SameHistory, SameRest
         DEF ResetArchive
  <2> QED
    BY <1>3, <2>2, <2>3 DEF ResetArchive
<1>4. CASE ResetGivenUp(p)
  BY <1>1, <1>4, ReturnType, SameStore, SameJobs, SameHistory, SameRest
     DEF ResetGivenUp
<1>5. CASE ResetMove(p)
  <2>1. call[p].to \in Sessions
    BY <1>1, <1>5, CallType DEF ResetMove, At, CallKnown
  <2>2. ASSUME NEW r \in Rows
        PROVE  /\ row[r] \in Row /\ RowKnown(row[r])
               /\ [Unclaimed(row[r]) EXCEPT !.sess = call[p].to] \in Row
               /\ RowKnown([Unclaimed(row[r]) EXCEPT !.sess = call[p].to])
    <3>1. row[r] \in Row /\ RowKnown(row[r]) /\ Unclaimed(row[r]) \in Row
      BY RowType, StatusType
    <3> QED
      BY <2>1, <3>1 DEF Row, RowKnown
  <2>3. RowInv'
    <3>1. \A r \in Rows :
            row'[r] \in {row[r], [Unclaimed(row[r]) EXCEPT !.sess = call[p].to]}
      BY <1>5 DEF ResetMove
    <3>2. row' = [r \in Rows |-> row'[r]]
      BY <1>5 DEF ResetMove
    <3>3. \A r \in Rows : row'[r] \in Row /\ RowKnown(row'[r])
      BY <2>2, <3>1
    <3> QED
      BY <3>2, <3>3, RowsType
  <2> QED
    BY <1>1, <1>5, <2>3, ReturnType, SamePanel, SameJobs, SameHistory, SameRest
       DEF ResetMove
<1>6. ASSUME NEW r \in Rows, ResetStop(p, r) PROVE Parts'
  <2>1. row[r] \in Row /\ RowKnown(row[r])
    BY RowType
  <2>2. RowInv'
    BY <1>6, <2>1, StatusType, SetRowOnce
       DEF ResetStop, RowKnown, Claimed, Pending
  <2>3. Rest'
    BY <1>6, ToldType DEF ResetStop, Outcomes
  <2>4. CallInv'
    BY <1>1, <1>6, NextRow DEF ResetStop
  <2> QED
    BY <1>6, <2>2, <2>3, <2>4, StopJobsType, SamePanel, SameHistory DEF ResetStop
<1>7. ASSUME NEW r \in Rows, ResetRearm(p, r) PROVE Parts'
  <2>1. row[r] \in Row /\ RowKnown(row[r])
    BY RowType
  <2>2. RowInv'
    BY <1>7, <2>1, StatusType, SetRowOnce DEF ResetRearm, RowKnown
  <2>3. Rest'
    BY <1>7, ToldType DEF ResetRearm, Outcomes
  <2>4. CallInv'
    BY <1>1, <1>7, NextRow DEF ResetRearm
  <2> QED
    BY <1>7, <2>2, <2>3, <2>4, StopJobsType, SamePanel, SameHistory
       DEF ResetRearm
<1> QED
  BY <1>2, <1>3, <1>4, <1>5, <1>6, <1>7

LEMMA TypeDelete ==
    ASSUME Parts, NEW p \in Callers,
           \/ DeleteList(p) \/ DeleteRows(p) \/ DeleteGone(p) \/ DeletePurge(p)
           \/ \E r \in Rows : DeleteGive(p, r)
    PROVE  Parts'
<1> USE DEF Parts
<1>1. p \in Handlers /\ call[p] \in Call
  BY CallerIsHandler, CallType
<1>2. CASE DeleteList(p)
  <2> DEFINE todo == {r \in Rows : /\ Pending(r) /\ ~row[r].tmux
                                   /\ row[r].sess = call[p].sess
                                   /\ row[r].pay = "held"}
  <2>1. todo \in SUBSET Rows /\ "giveAll" \in (Resetting \cup Deleting) \ {"move"}
        /\ call[p].pc \in Resetting \cup Deleting
    BY <1>2 DEF DeleteList, At, Deleting
  <2>2. call' = [call EXCEPT ![p].pc = "giveAll", ![p].todo = todo]
    BY <1>2 DEF DeleteList
  <2>3. CallInv'
    <3> HIDE DEF todo
    <3> QED
      BY <1>1, <2>1, <2>2, ListStep
  <2> QED
    BY <1>2, <2>3, SameStore, SameJobs, SameHistory, SameRest DEF DeleteList
<1>3. CASE DeleteRows(p)
  <2> DEFINE rs == Listed(call[p].sess)
             f == [r \in Rows |-> IF r \in rs THEN row[r].snap ELSE {}]
             x == [call[p] EXCEPT !.pc = "gone", !.todo = rs, !.seen = f]
  <2>1. rs \in SUBSET Rows /\ f \in [Rows -> SUBSET Comments]
    <3>1. \A r \in Rows : row[r].snap \in SUBSET Comments
      BY RowType DEF Row
    <3> QED
      BY <3>1 DEF Listed
  <2>2. "gone" \in Pcs /\ "gone" \in Rowless /\ call[p].pc = "giveAll"
    BY <1>3 DEF DeleteRows, At, Pcs, Rowless, Deleting
  <2>3. x \in Call /\ x.pc = "gone" /\ x.sess = call[p].sess
    <3> HIDE DEF rs, f
    <3> QED
      BY <1>1, <2>1, <2>2 DEF Call
  <2>4. CallKnown(x)
    <3> HIDE DEF x
    <3> QED
      BY <1>1, <2>2, <2>3, CallType DEF CallKnown
  <2>5. call' = [call EXCEPT ![p] = x]
    BY <1>1, <1>3 DEF DeleteRows, CallInv
  <2>6. CallInv'
    <3> HIDE DEF x
    <3> QED
      BY <1>1, <2>3, <2>4, <2>5, CallUpdate
  <2> QED
    BY <1>3, <2>6, SameStore, SameJobs, SameHistory, SameRest DEF DeleteRows
<1>4. CASE DeleteGone(p)
  <2>1. call[p].sess \in Sessions /\ call[p].todo \in SUBSET Rows
        /\ call[p].seen \in [Rows -> SUBSET Comments]
    BY <1>1, <1>4, CallType DEF DeleteGone, At, CallKnown, Call
  <2>2. CallInv'
    BY <1>1, <1>4, <2>1, BeginSession DEF DeleteGone
  <2>3. captured' \in [Rows -> SUBSET Comments]
    BY <1>4, <2>1 DEF DeleteGone, Rest
  <2>4. told' \in SUBSET Task
    <3>1. \A r \in Rows : News(r, "gone") \in Task
      BY DEF News, Task, Outcomes
    <3> QED
      BY <1>4, <2>1, <3>1 DEF DeleteGone, Rest
  <2>5. Rest'
    BY <1>4, <2>3, <2>4 DEF DeleteGone, Rest, sessVars, turnVars, boundVars
  <2> QED
    BY <1>4, <2>2, <2>5, StopJobsType, SameStore, SameHistory DEF DeleteGone
<1>5. CASE DeletePurge(p)
  <2>1. RowInv'
    <3>1. \A r \in Rows : row'[r] \in {row[r], Blank("gone")}
      BY <1>5 DEF DeletePurge
    <3>2. row' = [r \in Rows |-> row'[r]]
      BY <1>5 DEF DeletePurge
    <3>3. \A r \in Rows : row'[r] \in Row /\ RowKnown(row'[r])
      BY <3>1, RowType, BlankType DEF RowKnown
    <3> QED
      BY <3>2, <3>3, RowsType
  <2> QED
    BY <1>1, <1>5, <2>1, ReturnType, SamePanel, SameJobs, SameHistory, SameRest
       DEF DeletePurge
<1>6. ASSUME NEW r \in Rows, DeleteGive(p, r) PROVE Parts'
  <2>1. RowInv' /\ PanelType'
    BY <1>6, RestoreRowType DEF DeleteGive
  <2>2. CallInv'
    BY <1>1, <1>6, NextRow DEF DeleteGive
  <2> QED
    BY <1>6, <2>1, <2>2, SameJobs, SameHistory, SameRest DEF DeleteGive
<1> QED
  BY <1>2, <1>3, <1>4, <1>5, <1>6

-----------------------------------------------------------------------------
(* Crashes and the boot.                                                     *)

LEMMA TypeCrash == ASSUME Parts, Crash PROVE Parts'
<1> USE DEF Parts
<1>1. JobInv' /\ KnownType' /\ RunningType'
  BY OffJobType DEF Crash, JobInv, JobsKnown, KnownType, RunningType
<1>2. CallInv'
  BY OffCallType DEF Crash, CallInv, CallsKnown
<1>3. Rest'
  <2>1. crashes' \in 0..MaxCrashes
    BY DeliveryAssumption DEF Crash, Rest
  <2> QED
    BY <2>1 DEF Crash, Rest, sessVars
<1> QED
  BY <1>1, <1>2, <1>3, SameStore, SameHistory DEF Crash

LEMMA TypeBoot == ASSUME Parts, Boot PROVE Parts'
<1> USE DEF Parts
<1>1. ASSUME NEW r \in Rows, BootHold(r) PROVE Parts'
  <2>1. RowInv' /\ PanelType'
    BY <1>1, RemoveHoldType, RestoreHoldType, SameRows DEF BootHold
  <2> QED
    BY <1>1, <2>1, SameJobs, SameCalls, SameHistory, SameRest DEF BootHold
<1>2. ASSUME NEW r \in Rows, BootGive(r) PROVE Parts'
  BY <1>2, RestoreRowType, SameJobs, SameCalls, SameHistory, SameRest
     DEF BootGive
<1>3. CASE BootNext
  <2>1. Rest'
    BY <1>3 DEF BootNext, Rest, sessVars, boundVars
  <2> QED
    BY <1>3, <2>1, SameStore, SameJobs, SameCalls, SameHistory DEF BootNext
<1>4. CASE BootRecover
  <2>1. ASSUME NEW r \in Rows PROVE row'[r] \in Row /\ RowKnown(row'[r])
    <3>1. row[r] \in Row /\ RowKnown(row[r])
      BY RowType
    <3>2. \/ row'[r] = row[r] \/ row'[r] = Blank("gone")
          \/ row[r].status = "pending" /\ row'[r] = Recovered(row[r])
      BY <1>4 DEF BootRecover, Claimed, Pending
    <3>3. Recovered(row[r]) \in {Unclaimed(row[r]), Failed(row[r])}
      BY DEF Recovered
    <3> QED
      BY <3>1, <3>2, <3>3, BlankType, StatusType DEF RowKnown
  <2>2. row' = [r \in Rows |-> row'[r]]
    BY <1>4 DEF BootRecover
  <2>3. RowInv'
    BY <2>1, <2>2, RowsType
  <2>4. told' \in SUBSET Task
    <3>1. \A r \in Rows, o \in {"rearmed", "failed"} : News(r, o) \in Task
      BY DEF News, Task, Outcomes
    <3> QED
      BY <1>4, <3>1 DEF BootRecover
  <2>5. Rest'
    BY <1>4, <2>4 DEF BootRecover, Rest, sessVars, turnVars, boundVars
  <2> QED
    BY <1>4, <2>3, <2>5, SamePanel, SameJobs, SameCalls, SameHistory
       DEF BootRecover
<1> QED
  BY <1>1, <1>2, <1>3, <1>4 DEF Boot

LEMMA TypeStep ==
    ASSUME Parts, FireJobs, [Next]_vars
    PROVE  Parts'
<1>1. CASE UNCHANGED vars
  BY <1>1, SameStore, SameJobs, SameCalls, SameHistory, SameRest DEF vars, Parts
<1>2. ASSUME NEW p \in Callers, Request(p) PROVE Parts'
  BY <1>2, TypeClaim, TypeUserStart, TypeCreateStart, TypeSendStart, TypeDiscard,
     TypeToggle, TypeSessionStart DEF Request
<1>3. ASSUME NEW p \in Callers, Proceed(p) PROVE Parts'
  BY <1>3, TypeCreateTake, TypeSendTake, TypeCancel, TypeRetry, TypeReset,
     TypeDelete DEF Proceed
<1> QED
  BY <1>1, <1>2, <1>3, TypeClaim, TypeRoute, TypeFire, TypeJson, TypeWorkerNext,
     TypeWork, TypeObserve, TypeTurn, TypeCrash, TypeBoot DEF Next

-----------------------------------------------------------------------------
(* What a step does to the calls and the jobs, as far as the ownership of a  *)
(* row goes.                                                                 *)

Owners == Dispatching \cup {"made"}
Idlers == Pcs \ (Owners \cup {"take", "takeNow"})
FirePcs == {"cas", "check", "enq"}

LEMMA PcKinds == /\ FirePcs \subseteq Owners /\ Idlers \cap Owners = {}
                 /\ "off" \in Idlers
                 /\ {"before", "erase", "tell", "return", "rehold", "retry",
                     "dismiss"} \subseteq Idlers
                 /\ Resetting \cup Deleting \subseteq Idlers
                 /\ {"take", "takeNow"} \cap (Idlers \cup Owners) = {}
                 /\ "off" \notin Resetting
                 /\ {"before", "erase", "tell", "return", "rehold", "retry",
                     "dismiss"} \cap Resetting = {}
                 /\ Deleting \cap Resetting = {} /\ Owners \cap Resetting = {}
  BY DEF FirePcs, Owners, Idlers, Pcs, Dispatching, Resetting, Deleting

\* A call stays an owner of its row, or goes on to what owns none.
CallStays(p) ==
    /\ call'[p].row = call[p].row /\ call'[p].sess = call[p].sess
    /\ call'[p].job = call[p].job
    /\ \/ call'[p].pc = call[p].pc
       \/ {call[p].pc, call'[p].pc} \subseteq Owners \ FirePcs
CallLeaves(p) ==
    /\ call'[p].pc \in Idlers
    /\ call'[p].pc \in Resetting => call[p].pc \in Resetting \/ "reset" \in Ops
    /\ \/ call'[p].row = call[p].row \/ call'[p].row \notin Rows
       \/ row[call'[p].row].status # "unused"
CallMoves == \A p \in Handlers : CallStays(p) \/ CallLeaves(p)

\* A job is done, or works on for its row.
JobEnds(k) == job'[k].pc = "off" /\ job[k].pc # "fire"
JobStays(k) ==
    /\ job'[k].row = job[k].row /\ job'[k].sess = job[k].sess
    /\ \/ job'[k].pc = job[k].pc
       \/ /\ job[k].pc \notin {"off", "fire"}
          /\ job'[k].pc \notin {"off", "fire", "paste"}
JobMoves == \A k \in Jobs : JobEnds(k) \/ JobStays(k)

LEMMA MovesSame == ASSUME UNCHANGED call PROVE CallMoves
  BY DEF CallMoves, CallStays

LEMMA MovesReturn ==
    ASSUME CallInv, NEW p \in Handlers, Return(p)
    PROVE  CallMoves
<1>1. call'[p] = OffCall /\ \A q \in Handlers \ {p} : call'[q] = call[q]
  BY DEF Return, CallInv
<1>2. OffCall.pc = "off" /\ OffCall.row = None /\ None \notin Rows
  BY DeliveryAssumption DEF OffCall
<1>3. CallLeaves(p)
  BY <1>1, <1>2, PcKinds DEF CallLeaves
<1> QED
  BY <1>1, <1>3 DEF CallMoves, CallStays

LEMMA MovesGoto ==
    ASSUME CallInv, NEW p \in Handlers, NEW pc, Goto(p, pc),
           \/ {call[p].pc, pc} \subseteq Owners \ FirePcs
           \/ pc \in Idlers \ Resetting
           \/ pc \in Resetting /\ call[p].pc \in Resetting
    PROVE  CallMoves
<1>1. call'[p] = [call[p] EXCEPT !.pc = pc]
      /\ \A q \in Handlers \ {p} : call'[q] = call[q]
  BY DEF Goto, CallInv
<1>2. /\ call'[p].pc = pc /\ call'[p].row = call[p].row
      /\ call'[p].sess = call[p].sess /\ call'[p].job = call[p].job
  BY <1>1, CallType DEF Call
<1>3. CallStays(p) \/ CallLeaves(p)
  <2>1. CASE {call[p].pc, pc} \subseteq Owners \ FirePcs
    BY <1>2, <2>1 DEF CallStays
  <2>2. CASE pc \in Idlers \ Resetting
    BY <1>2, <2>2 DEF CallLeaves
  <2>3. CASE pc \in Resetting /\ call[p].pc \in Resetting
    BY <1>2, <2>3, PcKinds DEF CallLeaves
  <2> QED
    BY <2>1, <2>2, <2>3
<1>4. ASSUME NEW q \in Handlers \ {p} PROVE CallStays(q)
  BY <1>1 DEF CallStays
<1> QED
  BY <1>3, <1>4 DEF CallMoves

\* A call becomes x.
LEMMA MovesTo ==
    ASSUME CallInv, NEW p \in Handlers, NEW x,
           call' = [call EXCEPT ![p] = x], x.pc \in Idlers,
           x.pc \in Resetting => call[p].pc \in Resetting \/ "reset" \in Ops,
           \/ x.row = call[p].row \/ x.row = None
           \/ row[x.row].status # "unused"
    PROVE  CallMoves
<1>1. call'[p] = x /\ \A q \in Handlers \ {p} : call'[q] = call[q]
  BY DEF CallInv
<1>2. CallLeaves(p)
  BY <1>1, DeliveryAssumption DEF CallLeaves
<1> QED
  BY <1>1, <1>2 DEF CallMoves, CallStays

\* A call goes from row to row.
LEMMA MovesWithin ==
    ASSUME CallInv, NEW p \in Handlers, NEW r,
           call' = [call EXCEPT ![p].todo = @ \ {r}]
    PROVE  CallMoves
<1>1. call'[p] = [call[p] EXCEPT !.todo = @ \ {r}]
      /\ \A q \in Handlers \ {p} : call'[q] = call[q]
  BY DEF CallInv
<1>2. CallStays(p)
  BY <1>1, CallType DEF CallStays, Call
<1> QED
  BY <1>1, <1>2 DEF CallMoves, CallStays

LEMMA JobsSame == ASSUME UNCHANGED job PROVE JobMoves
  BY DEF JobMoves, JobStays

LEMMA JobsGoto ==
    ASSUME JobInv, NEW k \in Jobs, job[k].pc \notin {"off", "fire"},
           NEW pc, pc \notin {"off", "fire", "paste"}, JobGoto(k, pc)
    PROVE  JobMoves
<1>1. job'[k] = [job[k] EXCEPT !.pc = pc]
      /\ \A l \in Jobs \ {k} : job'[l] = job[l]
  BY DEF JobGoto, JobInv
<1>2. JobStays(k)
  BY <1>1, JobType DEF JobStays, Job
<1> QED
  BY <1>1, <1>2 DEF JobMoves, JobStays

LEMMA JobsEnd ==
    ASSUME JobInv, NEW k \in Jobs, job[k].pc # "fire",
           job' = [job EXCEPT ![k] = OffJob]
    PROVE  JobMoves /\ job'[k].pc = "off"
<1>1. job'[k].pc = "off" /\ \A l \in Jobs \ {k} : job'[l] = job[l]
  BY DEF JobInv, OffJob
<1> QED
  BY <1>1 DEF JobMoves, JobStays, JobEnds

LEMMA JobsStopped ==
    ASSUME JobInv, NEW ks, job' = Stopped(ks, job)
    PROVE  JobMoves
<1> SUFFICES ASSUME NEW k \in Jobs PROVE JobEnds(k) \/ JobStays(k)
  BY DEF JobMoves
<1>1. CASE k \in ks /\ job[k].pc = "queued"
  BY <1>1 DEF Stopped, OffJob, JobEnds
<1>2. CASE ~(k \in ks /\ job[k].pc = "queued")
  <2>1. job'[k] = [job[k] EXCEPT !.stopped = @ \/ k \in ks, !.ahead = @ \ ks]
    BY <1>2 DEF Stopped
  <2>2. job'[k].pc = job[k].pc /\ job'[k].row = job[k].row
        /\ job'[k].sess = job[k].sess
    BY <2>1, JobType DEF Job
  <2> QED
    BY <2>2 DEF JobStays
<1> QED
  BY <1>1, <1>2

LEMMA JobsPopped ==
    ASSUME JobInv, NEW k \in Jobs, job[k].pc = "queued",
           \/ job' = Popped(k, OffJob)
           \/ job' = Popped(k, [job[k] EXCEPT !.pc = "tick"])
    PROVE  JobMoves
<1>1. ASSUME NEW l \in Jobs \ {k} PROVE JobStays(l)
  <2>1. job'[l] = [job[l] EXCEPT !.ahead = @ \ {k}]
    BY DEF Popped
  <2> QED
    BY <2>1, JobType DEF JobStays, Job
<1>2. JobEnds(k) \/ JobStays(k)
  <2>1. job'[k] = OffJob \/ job'[k] = [job[k] EXCEPT !.pc = "tick"]
    BY DEF Popped
  <2>2. CASE job'[k] = OffJob
    BY <2>2 DEF JobEnds, OffJob
  <2>3. CASE job'[k] = [job[k] EXCEPT !.pc = "tick"]
    BY <2>3, JobType DEF JobStays, Job
  <2> QED
    BY <2>1, <2>2, <2>3
<1> QED
  BY <1>1, <1>2 DEF JobMoves

\* A job that is being fired stays so while its call does.
LEMMA FireKept ==
    ASSUME CallInv, FireJobs, CallMoves, JobMoves
    PROVE  FireJobs'
<1> SUFFICES ASSUME NEW p \in Handlers, Firing(p)'
             PROVE  /\ job'[call'[p].job].pc = "fire"
                    /\ job'[call'[p].job].row = call'[p].row
                    /\ job'[call'[p].job].sess = call'[p].sess
                    /\ \A q \in Handlers : Firing(q)' /\ call'[q].job = call'[p].job
                                           => q = p
  BY DEF FireJobs
<1>1. ASSUME NEW q \in Handlers, Firing(q)'
      PROVE  Firing(q) /\ CallStays(q) /\ call[q].job \in Jobs
  <2>1. CallStays(q) /\ Firing(q)
    BY <1>1, PcKinds DEF Firing, CallMoves, CallLeaves, CallStays, FirePcs
  <2> QED
    BY <2>1, CallType DEF CallKnown, Firing
<1>2. job[call[p].job].pc = "fire"
  BY <1>1 DEF FireJobs
<1>3. JobStays(call[p].job) /\ job'[call[p].job].pc = "fire"
  BY <1>1, <1>2 DEF JobMoves, JobEnds, JobStays
<1> QED
  BY <1>1, <1>3 DEF FireJobs, CallStays, JobStays

LEMMA JsonMoves ==
    ASSUME Parts, NEW p \in Handlers, Json(p) \/ JsonTimeout(p)
    PROVE  CallMoves /\ JobMoves
<1> USE DEF Parts
<1>1. {"able", "giveBack", "adopt", "plain", "after", "holdBack", "failMark",
       "sentMark"} \subseteq Owners \ FirePcs
  BY DEF Owners, Dispatching, FirePcs
<1>2. ASSUME JsonAble(p) \/ JsonGiveBack(p) \/ JsonEnqueue(p) \/ JsonAfter(p)
             \/ JsonHoldBack(p) \/ JsonTimeout(p)
      PROVE  CallMoves
  <2>1. \E pc \in Owners \ FirePcs : Goto(p, pc) /\ call[p].pc \in Owners \ FirePcs
    BY <1>1, <1>2 DEF JsonAble, JsonGiveBack, JsonEnqueue, JsonAfter,
                      JsonHoldBack, JsonTimeout, At
  <2> QED
    BY <2>1, MovesGoto
<1>3. CASE JsonAdopt(p)
  <2>1. CASE Goto(p, "failMark")
    BY <1>1, <1>3, <2>1, MovesGoto, JobsSame DEF JsonAdopt, At, jobVars
  <2>2. CASE call' = [call EXCEPT ![p].pc = "plain",
                                  ![p].turn = adoption[call[p].row] + 1]
    <3>1. call'[p] = [call[p] EXCEPT !.pc = "plain",
                                     !.turn = adoption[call[p].row] + 1]
          /\ \A q \in Handlers \ {p} : call'[q] = call[q]
      BY <2>2 DEF CallInv
    <3>2. CallStays(p)
      BY <1>1, <1>3, <3>1, CallType DEF CallStays, Call, JsonAdopt, At
    <3>3. ASSUME NEW q \in Handlers \ {p} PROVE CallStays(q)
      BY <3>1 DEF CallStays
    <3>4. CallMoves
      BY <3>2, <3>3 DEF CallMoves
    <3> QED
      BY <1>3, <3>4, JobsSame DEF JsonAdopt, jobVars
  <2> QED
    BY <1>3, <2>1, <2>2 DEF JsonAdopt
<1>4. CASE JsonFailMark(p) \/ JsonSentMark(p)
  BY <1>4, MovesReturn, JobsSame DEF JsonFailMark, JsonSentMark, jobVars
<1>5. CASE ~(JsonAdopt(p) \/ JsonFailMark(p) \/ JsonSentMark(p))
  <2>1. UNCHANGED jobVars
    BY <1>5 DEF Json, JsonAble, JsonGiveBack, JsonEnqueue, JsonAfter,
                JsonHoldBack, JsonTimeout
  <2> QED
    BY <1>2, <1>5, <2>1, JobsSame DEF Json, jobVars
<1> QED
  BY <1>3, <1>4, <1>5

\* Of a call that begins at a row, pc and row.
LEMMA BeginFields ==
    ASSUME NEW pc, NEW r, NEW s, NEW h, NEW b
    PROVE  /\ Begin(pc, r, s).pc = pc /\ Begin(pc, r, s).row = r
           /\ [Begin(pc, r, s) EXCEPT !.held = h].pc = pc
           /\ [Begin(pc, r, s) EXCEPT !.held = h].row = r
           /\ [Begin(pc, r, s) EXCEPT !.tmux = b, !.held = h].pc = pc
           /\ [Begin(pc, r, s) EXCEPT !.tmux = b, !.held = h].row = r
  BY DEF Begin, OffCall

LEMMA UserStartMoves ==
    ASSUME Parts, NEW p \in Callers, NEW r \in Rows,
           CancelStart(p, r) \/ RetryStart(p, r) \/ DismissStart(p, r)
    PROVE  CallMoves /\ JobMoves
<1> USE DEF Parts
<1>1. p \in Handlers /\ row[r].status # "unused"
  BY CallerIsHandler DEF CancelStart, RetryStart, DismissStart, Exists
<1>2. {"before", "erase", "rehold", "retry", "dismiss"} \subseteq Idlers \ Resetting
  BY PcKinds
<1>3. PICK x : /\ call' = [call EXCEPT ![p] = x]
               /\ x.pc \in Idlers \ Resetting /\ x.row = r
  <2>1. CASE CancelStart(p, r)
    <3> DEFINE tmux == DeliveryRow(row[r])
               x == [Begin(IF tmux THEN "before" ELSE "erase", r, row[r].sess)
                       EXCEPT !.tmux = tmux, !.held = HeldBy(row[r])]
    <3>1. call' = [call EXCEPT ![p] = x]
      BY <2>1 DEF CancelStart
    <3>2. x.pc = (IF tmux THEN "before" ELSE "erase") /\ x.row = r
      BY BeginFields
    <3> QED
      BY <3>1, <3>2, <1>2
  <2>2. CASE RetryStart(p, r)
    <3> DEFINE back == row[r].pay = "restored"
               x == [Begin(IF back THEN "rehold" ELSE "retry", r, row[r].sess)
                       EXCEPT !.held = IF back THEN row[r].snap ELSE {}]
    <3>1. call' = [call EXCEPT ![p] = x]
      BY <2>2 DEF RetryStart
    <3>2. x.pc = (IF back THEN "rehold" ELSE "retry") /\ x.row = r
      BY BeginFields
    <3> QED
      BY <3>1, <3>2, <1>2
  <2>3. CASE DismissStart(p, r)
    <3> DEFINE x == [Begin("dismiss", r, row[r].sess)
                       EXCEPT !.held = IF DeliveryRow(row[r]) THEN {}
                                       ELSE HeldBy(row[r])]
    <3>1. call' = [call EXCEPT ![p] = x]
      BY <2>3 DEF DismissStart
    <3>2. x.pc = "dismiss" /\ x.row = r
      BY BeginFields
    <3> QED
      BY <3>1, <3>2, <1>2
  <2> QED
    BY <2>1, <2>2, <2>3
<1>4. CallMoves
  BY <1>1, <1>3, MovesTo
<1>5. UNCHANGED job
  BY DEF CancelStart, RetryStart, DismissStart, jobVars
<1> QED
  BY <1>4, <1>5, JobsSame

\* A call goes on at pc and reads its row again.
LEMMA MovesReading ==
    ASSUME CallInv, NEW p \in Handlers, NEW pc \in Idlers \ Resetting, NEW h,
           call' = [call EXCEPT ![p].pc = pc, ![p].held = h]
    PROVE  CallMoves
<1> DEFINE x == [call[p] EXCEPT !.pc = pc, !.held = h]
<1>1. call' = [call EXCEPT ![p] = x]
  BY DEF CallInv
<1>2. x.pc = pc /\ x.row = call[p].row
  BY CallType DEF Call
<1> HIDE DEF x
<1> QED
  BY <1>1, <1>2, MovesTo

LEMMA UserMoves ==
    ASSUME Parts, NEW p \in Callers,
           \/ CreateTake(p)
           \/ CancelBefore(p) \/ CancelErase(p) \/ CancelTell(p)
           \/ ReturnComments(p)
           \/ Rehold(p) \/ RetryRow(p) \/ DismissRow(p)
           \/ \E c \in Comments : Discard(p, c)
           \/ \E s \in Sessions : Toggle(p, s)
    PROVE  CallMoves /\ JobMoves
<1> USE DEF Parts
<1>1. p \in Handlers
  BY CallerIsHandler
<1>2. {"erase", "tell", "return", "retry"} \subseteq Idlers \ Resetting
  BY PcKinds
<1>3. CASE CancelTell(p)
  BY <1>1, <1>3, MovesReturn, JobsStopped DEF CancelTell, StopJobs
<1>4. CASE CreateTake(p) \/ ReturnComments(p)
  BY <1>1, <1>4, MovesReturn, JobsSame DEF CreateTake, ReturnComments, jobVars
<1>5. CASE CancelErase(p) \/ RetryRow(p) \/ DismissRow(p)
  BY <1>1, <1>2, <1>5, MovesReturn, MovesGoto, JobsSame
     DEF CancelErase, RetryRow, DismissRow, jobVars
<1>6. CASE CancelBefore(p)
  BY <1>1, <1>2, <1>6, MovesReading, JobsSame DEF CancelBefore, jobVars
<1>7. CASE Rehold(p)
  <2>1. Goto(p, "retry") \/ Return(p)
        \/ call' = [call EXCEPT ![p].pc = "retry", ![p].held = {}]
    BY <1>7 DEF Rehold
  <2>2. CallMoves
    BY <1>1, <1>2, <2>1, MovesReading, MovesGoto, MovesReturn
  <2> QED
    BY <1>7, <2>2, JobsSame DEF Rehold, jobVars
<1>8. CASE (\E c \in Comments : Discard(p, c)) \/ (\E s \in Sessions : Toggle(p, s))
  BY <1>8, MovesSame, JobsSame DEF Discard, Toggle, jobVars
<1> QED
  BY <1>3, <1>4, <1>5, <1>6, <1>7, <1>8

\* A call goes on at pc with rows to visit.
LEMMA MovesListing ==
    ASSUME CallInv, NEW p \in Handlers, NEW x, x.pc \in Idlers,
           call' = [call EXCEPT ![p] = x], x.row = call[p].row,
           x.pc \in Resetting => call[p].pc \in Resetting
    PROVE  CallMoves
  BY MovesTo

LEMMA ResetMoves ==
    ASSUME Parts, NEW p \in Callers,
           \/ \E s \in Sessions : ResetStart(p, s)
           \/ ResetList(p) \/ ResetArchive(p) \/ ResetGivenUp(p) \/ ResetMove(p)
           \/ \E r \in Rows : ResetStop(p, r) \/ ResetRearm(p, r)
    PROVE  CallMoves /\ JobMoves
<1> USE DEF Parts
<1>1. p \in Handlers
  BY CallerIsHandler
<1>2. Resetting \subseteq Idlers
  BY PcKinds
<1>3. CASE \E s \in Sessions : ResetStart(p, s)
  <2>1. PICK s \in Sessions : ResetStart(p, s)
    BY <1>3
  <2> DEFINE x == Begin("list", None, s)
  <2>2. call' = [call EXCEPT ![p] = x] /\ "reset" \in Ops /\ UNCHANGED job
    BY <2>1 DEF ResetStart, Starts, jobVars
  <2>3. x.pc = "list" /\ x.row = None /\ "list" \in Resetting
    BY BeginFields DEF Resetting
  <2> HIDE DEF x
  <2> QED
    BY <1>1, <1>2, <2>2, <2>3, MovesTo, JobsSame
<1>4. CASE ResetList(p)
  <2> DEFINE rs == {r \in Listed(call[p].sess) : row[r].phase = "waiting"}
             x == [call[p] EXCEPT !.pc = IF @ = "list" THEN "stop" ELSE "rearm",
                                  !.todo = rs]
  <2>1. call' = [call EXCEPT ![p] = x] /\ UNCHANGED job
    BY <1>4 DEF ResetList, CallInv, jobVars
  <2>2. x.pc \in Resetting /\ x.row = call[p].row /\ call[p].pc \in Resetting
    BY <1>1, <1>4, CallType DEF Call, ResetList, At, Resetting
  <2> HIDE DEF x
  <2> QED
    BY <1>1, <1>2, <2>1, <2>2, MovesListing, JobsSame
<1>5. CASE ResetArchive(p)
  <2>1. {"stop", "move", "relist"} \subseteq Resetting
    BY DEF Resetting
  <2>2. CASE Goto(p, "relist")
    BY <1>1, <1>5, <2>1, <2>2, MovesGoto, JobsSame DEF ResetArchive, At, jobVars
  <2>3. CASE \E n \in Sessions : call' = [call EXCEPT ![p].pc = "move",
                                                      ![p].to = n]
    <3>1. PICK n \in Sessions : call' = [call EXCEPT ![p].pc = "move",
                                                     ![p].to = n]
      BY <2>3
    <3> DEFINE x == [call[p] EXCEPT !.pc = "move", !.to = n]
    <3>2. call' = [call EXCEPT ![p] = x]
      BY <3>1 DEF CallInv
    <3>3. x.pc = "move" /\ x.row = call[p].row /\ call[p].pc = "stop"
      BY <1>1, <1>5, CallType DEF Call, ResetArchive, At
    <3> HIDE DEF x
    <3>4. CallMoves
      BY <1>1, <1>2, <2>1, <3>2, <3>3, MovesListing
    <3> QED
      BY <1>5, <3>4, JobsSame DEF ResetArchive, jobVars
  <2> QED
    BY <1>5, <2>2, <2>3 DEF ResetArchive
<1>6. CASE ResetGivenUp(p) \/ ResetMove(p)
  BY <1>1, <1>6, MovesReturn, JobsSame DEF ResetGivenUp, ResetMove, jobVars
<1>7. CASE \E r \in Rows : ResetStop(p, r) \/ ResetRearm(p, r)
  <2>1. PICK r \in Rows : ResetStop(p, r) \/ ResetRearm(p, r)
    BY <1>7
  <2>2. /\ call' = [call EXCEPT ![p].todo = @ \ {r}]
        /\ StopJobs({r})
    BY <2>1 DEF ResetStop, ResetRearm
  <2> QED
    BY <1>1, <2>2, MovesWithin, JobsStopped DEF StopJobs
<1> QED
  BY <1>3, <1>4, <1>5, <1>6, <1>7

LEMMA DeleteMoves ==
    ASSUME Parts, NEW p \in Callers,
           \/ \E s \in Sessions : DeleteStart(p, s)
           \/ DeleteList(p) \/ DeleteRows(p) \/ DeleteGone(p) \/ DeletePurge(p)
           \/ \E r \in Rows : DeleteGive(p, r)
    PROVE  CallMoves /\ JobMoves
<1> USE DEF Parts
<1>1. p \in Handlers
  BY CallerIsHandler
<1>2. Deleting \subseteq Idlers \ Resetting
  BY PcKinds
<1>3. {"listHeld", "giveAll", "gone", "purge"} \subseteq Deleting
  BY DEF Deleting
<1>4. CASE \E s \in Sessions : DeleteStart(p, s)
  <2>1. PICK s \in Sessions : DeleteStart(p, s)
    BY <1>4
  <2> DEFINE x == Begin("listHeld", None, s)
  <2>2. call' = [call EXCEPT ![p] = x] /\ UNCHANGED job
    BY <2>1 DEF DeleteStart, jobVars
  <2>3. x.pc = "listHeld" /\ x.row = None
    BY BeginFields
  <2> HIDE DEF x
  <2> QED
    BY <1>1, <1>2, <1>3, <2>2, <2>3, MovesTo, JobsSame
<1>5. CASE DeleteList(p)
  <2> DEFINE rs == {r \in Rows : /\ Pending(r) /\ ~row[r].tmux
                                 /\ row[r].sess = call[p].sess
                                 /\ row[r].pay = "held"}
             x == [call[p] EXCEPT !.pc = "giveAll", !.todo = rs]
  <2>1. call' = [call EXCEPT ![p] = x] /\ UNCHANGED job
    BY <1>5 DEF DeleteList, CallInv, jobVars
  <2>2. x.pc = "giveAll" /\ x.row = call[p].row
    BY <1>1, CallType DEF Call
  <2> HIDE DEF x
  <2> QED
    BY <1>1, <1>2, <1>3, <2>1, <2>2, MovesListing, JobsSame
<1>6. CASE DeleteRows(p)
  <2> DEFINE rs == Listed(call[p].sess)
             seen == [r \in Rows |-> IF r \in rs THEN row[r].snap ELSE {}]
             x == [call[p] EXCEPT !.pc = "gone", !.todo = rs, !.seen = seen]
  <2>1. call' = [call EXCEPT ![p] = x] /\ UNCHANGED job
    BY <1>6 DEF DeleteRows, CallInv, jobVars
  <2>2. x.pc = "gone" /\ x.row = call[p].row
    BY <1>1, CallType DEF Call
  <2> HIDE DEF x
  <2> QED
    BY <1>1, <1>2, <1>3, <2>1, <2>2, MovesListing, JobsSame
<1>7. CASE DeleteGone(p)
  <2> DEFINE x == Begin("purge", None, call[p].sess)
  <2>1. call' = [call EXCEPT ![p] = x] /\ StopJobs(call[p].todo)
    BY <1>7 DEF DeleteGone
  <2>2. x.pc = "purge" /\ x.row = None
    BY BeginFields
  <2> HIDE DEF x
  <2> QED
    BY <1>1, <1>2, <1>3, <2>1, <2>2, MovesTo, JobsStopped DEF StopJobs
<1>8. CASE DeletePurge(p)
  BY <1>1, <1>8, MovesReturn, JobsSame DEF DeletePurge, jobVars
<1>9. CASE \E r \in Rows : DeleteGive(p, r)
  <2>1. PICK r \in Rows : DeleteGive(p, r)
    BY <1>9
  <2> QED
    BY <1>1, <2>1, MovesWithin, JobsSame DEF DeleteGive, jobVars
<1> QED
  BY <1>4, <1>5, <1>6, <1>7, <1>8, <1>9

\* A worker's step, but for the win of the compare-and-set.
LEMMA WorkMoves ==
    ASSUME Parts, NEW k \in Jobs,
           WorkerNext(k) \/ Work(k) \/ TickTimeout(k),
           ~DeliverCas(k) \/ job'[k].pc # "paste"
    PROVE  CallMoves /\ JobMoves
<1> USE DEF Parts
<1>1. CallMoves
  BY MovesSame DEF WorkerNext, Work, TickTimeout, TickRead, TickResolve,
                   JobRearm, JobFail, DeliverCas, DeliverPaste, DeliverMark
<1>2. CASE WorkerNext(k)
  BY <1>1, <1>2, JobsPopped DEF WorkerNext, InJob
<1>3. CASE TickRead(k)
  <2>1. job[k].pc = "tick"
    BY <1>3 DEF TickRead, InJob
  <2>2. CASE EndJob(k)
    BY <1>1, <2>1, <2>2, JobsEnd DEF EndJob
  <2>3. CASE ~EndJob(k)
    <3>1. PICK h, i : job' = [job EXCEPT ![k].pc = "resolve", ![k].held = h,
                                         ![k].imm = i]
      BY <1>3, <2>3 DEF TickRead
    <3>2. job'[k] = [job[k] EXCEPT !.pc = "resolve", !.held = h, !.imm = i]
          /\ \A l \in Jobs \ {k} : job'[l] = job[l]
      BY <3>1 DEF JobInv
    <3>3. JobStays(k)
      BY <2>1, <3>2, JobType DEF JobStays, Job
    <3> QED
      BY <1>1, <3>2, <3>3 DEF JobMoves, JobStays
  <2> QED
    BY <2>2, <2>3
<1>4. CASE TickResolve(k) \/ TickTimeout(k)
  <2>1. job[k].pc \notin {"off", "fire"}
    BY <1>4 DEF TickResolve, TickTimeout, InJob
  <2>2. EndJob(k) \/ \E pc \in {"fail", "rearm", "cas", "tick"} : JobGoto(k, pc)
    BY <1>4 DEF TickResolve, TickTimeout
  <2> QED
    BY <1>1, <2>1, <2>2, JobsEnd, JobsGoto DEF EndJob
<1>5. CASE JobRearm(k) \/ JobFail(k) \/ DeliverMark(k)
  BY <1>1, <1>5, JobsEnd DEF JobRearm, JobFail, DeliverMark, InJob, EndJob
<1>6. CASE DeliverCas(k)
  <2>1. job[k].pc = "cas"
    BY <1>6 DEF DeliverCas, InJob
  <2>2. ~JobGoto(k, "paste")
    BY <1>6, JobType DEF JobGoto, JobInv, Job
  <2>3. EndJob(k)
    BY <1>6, <2>2 DEF DeliverCas
  <2> QED
    BY <1>1, <2>1, <2>3, JobsEnd DEF EndJob
<1>7. CASE DeliverPaste(k)
  <2>1. job[k].pc = "paste"
    BY <1>7 DEF DeliverPaste, InJob
  <2> QED
    BY <1>1, <1>7, <2>1, JobsGoto DEF DeliverPaste
<1> QED
  BY <1>2, <1>3, <1>4, <1>5, <1>6, <1>7 DEF Work

LEMMA OtherMoves ==
    ASSUME Parts,
           \/ \E t \in told : Observe(t)
           \/ \E t \in turns : TurnPersist(t) \/ TurnWithdraw(t) \/ TurnSettle(t)
           \/ Boot
    PROVE  UNCHANGED <<call, job>>
<1>1. CASE \E t \in told : Observe(t)
  BY <1>1 DEF Observe, ObserverStart, ObserverRestore, ObserverMark,
              ObserverDrop, jobVars
<1>2. CASE \E t \in turns : TurnPersist(t) \/ TurnWithdraw(t) \/ TurnSettle(t)
  BY <1>2 DEF TurnPersist, TurnWithdraw, TurnSettle, jobVars
<1>3. CASE Boot
  BY <1>3 DEF Boot, BootHold, BootGive, BootNext, BootRecover, jobVars
<1> QED
  BY <1>1, <1>2, <1>3

\* A call that fires no job leaves those of the others alone.
LEMMA FireOthers ==
    ASSUME FireJobs, NEW p \in Handlers, ~Firing(p)',
           \A q \in Handlers \ {p} :
               /\ call'[q] = call[q]
               /\ Firing(q) => job'[call[q].job] = job[call[q].job]
    PROVE  FireJobs'
<1> SUFFICES ASSUME NEW q \in Handlers, Firing(q)'
             PROVE  /\ job'[call'[q].job].pc = "fire"
                    /\ job'[call'[q].job].row = call'[q].row
                    /\ job'[call'[q].job].sess = call'[q].sess
                    /\ \A o \in Handlers : Firing(o)' /\ call'[o].job = call'[q].job
                                           => o = q
  BY DEF FireJobs
<1>1. \A o \in Handlers : Firing(o)' => o # p /\ Firing(o) /\ call'[o] = call[o]
  BY DEF Firing
<1> QED
  BY <1>1 DEF FireJobs

LEMMA FireSame ==
    ASSUME FireJobs, NEW p \in Handlers, ~Firing(p)', UNCHANGED job,
           \A q \in Handlers \ {p} : call'[q] = call[q]
    PROVE  FireJobs'
  BY FireOthers

\* Registering a job: one that was free is fired, and others may be stopped.
LEMMA RegisterMoves ==
    ASSUME CallInv, JobInv, NEW p \in Handlers, NEW r \in Rows,
           NEW s \in Sessions, Register(p, r, s)
    PROVE  \E k \in Jobs :
             /\ job[k].pc = "off" /\ job'[k].pc = "fire"
             /\ job'[k].row = r /\ job'[k].sess = s
             /\ \A l \in Jobs \ {k} : JobEnds(l) \/ JobStays(l)
             /\ call'[p].pc = "cas" /\ call'[p].row = r
             /\ call'[p].sess = s /\ call'[p].job = k
             /\ \A q \in Handlers \ {p} : call'[q] = call[q]
<1> DEFINE old == {known[r]} \ {None}
           x == [OffJob EXCEPT !.pc = "fire", !.row = r, !.sess = s]
           y == [Begin("cas", r, s) EXCEPT !.job = 0]
<1>1. PICK k \in Jobs :
        /\ job[k].pc = "off"
        /\ job' = [Stopped(old, job) EXCEPT ![k] = x]
        /\ call' = [call EXCEPT ![p] = [Begin("cas", r, s) EXCEPT !.job = k]]
  BY DEF Register
<1>2. job'[k] = x /\ \A l \in Jobs \ {k} : job'[l] = Stopped(old, job)[l]
  BY <1>1 DEF Stopped
<1>3. x.pc = "fire" /\ x.row = r /\ x.sess = s
  BY DEF OffJob
<1>4. ASSUME NEW l \in Jobs \ {k} PROVE JobEnds(l) \/ JobStays(l)
  <2>1. job'[l] = Stopped(old, job)[l]
    BY <1>2
  <2>2. CASE l \in old /\ job[l].pc = "queued"
    BY <2>1, <2>2 DEF Stopped, OffJob, JobEnds
  <2>3. CASE ~(l \in old /\ job[l].pc = "queued")
    <3>1. job'[l] = [job[l] EXCEPT !.stopped = @ \/ l \in old, !.ahead = @ \ old]
      BY <2>1, <2>3 DEF Stopped
    <3>2. job'[l].pc = job[l].pc /\ job'[l].row = job[l].row
          /\ job'[l].sess = job[l].sess
      BY <3>1, JobType DEF Job
    <3> QED
      BY <3>2 DEF JobStays
  <2> QED
    BY <2>2, <2>3
<1>5. call'[p] = [Begin("cas", r, s) EXCEPT !.job = k]
      /\ \A q \in Handlers \ {p} : call'[q] = call[q]
  BY <1>1 DEF CallInv
<1>6. call'[p].pc = "cas" /\ call'[p].row = r /\ call'[p].sess = s
      /\ call'[p].job = k
  BY <1>5 DEF Begin, OffCall
<1> QED
  BY <1>1, <1>2, <1>3, <1>4, <1>5, <1>6

LEMMA FireRegister ==
    ASSUME CallInv, JobInv, FireJobs, NEW p \in Handlers, ~Firing(p),
           NEW r \in Rows, NEW s \in Sessions, Register(p, r, s)
    PROVE  FireJobs'
<1>1. PICK k \in Jobs :
        /\ job[k].pc = "off" /\ job'[k].pc = "fire"
        /\ job'[k].row = r /\ job'[k].sess = s
        /\ \A l \in Jobs \ {k} : JobEnds(l) \/ JobStays(l)
        /\ call'[p].pc = "cas" /\ call'[p].row = r
        /\ call'[p].sess = s /\ call'[p].job = k
        /\ \A q \in Handlers \ {p} : call'[q] = call[q]
  BY RegisterMoves
<1>2. ASSUME NEW q \in Handlers \ {p}, Firing(q)'
      PROVE  /\ Firing(q) /\ call'[q] = call[q]
             /\ call[q].job \in Jobs \ {k} /\ JobStays(call[q].job)
             /\ job'[call[q].job].pc = "fire"
  <2>1. Firing(q) /\ call'[q] = call[q]
    BY <1>1, <1>2 DEF Firing
  <2>2. call[q].job \in Jobs /\ job[call[q].job].pc = "fire"
    BY <2>1, CallType DEF CallKnown, Firing, FireJobs
  <2>3. call[q].job # k
    BY <1>1, <2>2
  <2>4. JobStays(call[q].job)
    BY <1>1, <2>2, <2>3 DEF JobEnds
  <2> QED
    BY <2>1, <2>2, <2>3, <2>4 DEF JobStays
<1> SUFFICES ASSUME NEW q \in Handlers, Firing(q)'
             PROVE  /\ job'[call'[q].job].pc = "fire"
                    /\ job'[call'[q].job].row = call'[q].row
                    /\ job'[call'[q].job].sess = call'[q].sess
                    /\ \A o \in Handlers : Firing(o)' /\ call'[o].job = call'[q].job
                                           => o = q
  BY DEF FireJobs
<1>3. CASE q = p
  BY <1>1, <1>2, <1>3
<1>4. CASE q # p
  BY <1>1, <1>2, <1>4 DEF FireJobs, JobStays
<1> QED
  BY <1>3, <1>4

LEMMA FireFire ==
    ASSUME Parts, FireJobs, NEW p \in Handlers, Fire(p)
    PROVE  FireJobs'
<1> USE DEF Parts
<1>1. CASE SendFire(p)
  <2>1. call[p].row \in Rows /\ call[p].sess \in Sessions /\ call[p].pc = "made"
    BY <1>1, AtRow, RowPcs DEF SendFire, At
  <2>2. CASE Register(p, call[p].row, call[p].sess)
    BY <2>1, <2>2, FireRegister DEF Firing
  <2>3. CASE Return(p) /\ UNCHANGED jobVars
    BY <2>3, MovesReturn, JobsSame, FireKept DEF jobVars
  <2> QED
    BY <1>1, <2>2, <2>3 DEF SendFire
<1>2. ASSUME NEW pc \in {"enq", "check"}, Goto(p, pc), UNCHANGED job, Firing(p)
      PROVE  FireJobs'
  <2>1. call'[p] = [call[p] EXCEPT !.pc = pc]
        /\ \A q \in Handlers \ {p} : call'[q] = call[q]
    BY <1>2 DEF Goto, CallInv
  <2>2. call'[p].pc = pc /\ call'[p].row = call[p].row
        /\ call'[p].sess = call[p].sess /\ call'[p].job = call[p].job
    BY <2>1, CallType DEF Call
  <2>3. \A q \in Handlers : /\ Firing(q)' => Firing(q)
                            /\ call'[q].row = call[q].row
                            /\ call'[q].sess = call[q].sess
                            /\ call'[q].job = call[q].job
    BY <1>2, <2>1, <2>2 DEF Firing
  <2> QED
    BY <1>2, <2>3 DEF FireJobs
<1>3. CASE FireCas(p)
  BY <1>2, <1>3 DEF FireCas, Firing, At, jobVars
<1>4. ASSUME Return(p), Firing(p), NEW x, job' = [job EXCEPT ![call[p].job] = x]
      PROVE  FireJobs'
  <2>1. call'[p].pc = "off" /\ \A q \in Handlers \ {p} : call'[q] = call[q]
    BY <1>4 DEF Return, CallInv, OffCall
  <2>2. \A q \in Handlers \ {p} :
           Firing(q) => job'[call[q].job] = job[call[q].job]
    <3> SUFFICES ASSUME NEW q \in Handlers \ {p}, Firing(q)
                 PROVE  job'[call[q].job] = job[call[q].job]
      OBVIOUS
    <3>1. call[q].job \in Jobs
      BY CallType DEF CallKnown, Firing
    <3>2. call[q].job # call[p].job
      BY <1>4 DEF FireJobs
    <3> QED
      BY <1>4, <3>1, <3>2 DEF JobInv
  <2>3. ~Firing(p)'
    BY <2>1 DEF Firing
  <2> QED
    BY <2>1, <2>2, <2>3, FireOthers
<1>5. CASE FireCheck(p)
  <2>1. Firing(p)
    BY <1>5 DEF FireCheck, Firing, At
  <2>2. CASE Goto(p, "enq") /\ UNCHANGED jobVars
    BY <1>2, <2>1, <2>2 DEF jobVars
  <2>3. CASE Return(p) /\ job' = [job EXCEPT ![call[p].job] = OffJob]
    BY <1>4, <2>1, <2>3
  <2> QED
    BY <1>5, <2>2, <2>3 DEF FireCheck
<1>6. CASE FireEnqueue(p)
  <2> DEFINE k == call[p].job
             ls == {l \in Jobs : InJob(l, "queued") /\ job[l].sess = job[k].sess}
             x == [job[k] EXCEPT !.pc = "queued", !.ahead = ls]
  <2>1. Firing(p) /\ Return(p) /\ k \in Jobs
    BY <1>6, CallType DEF FireEnqueue, Firing, At, CallKnown
  <2>2. job' = [job EXCEPT ![k] = x]
    BY <1>6, <2>1 DEF FireEnqueue, JobInv
  <2> QED
    BY <1>4, <2>1, <2>2
<1> QED
  BY <1>1, <1>3, <1>5, <1>6 DEF Fire

LEMMA FireSend ==
    ASSUME Parts, FireJobs, NEW p \in Callers,
           \/ \E r \in Rows, s \in Sessions :
                 CreateStart(p, r, s) \/ SendStart(p, r, s)
           \/ \E r \in Rows : SendNow(p, r)
           \/ SendTake(p)
    PROVE  FireJobs'
<1> USE DEF Parts
<1>1. p \in Handlers
  BY CallerIsHandler
<1>2. UNCHANGED job
  BY DEF CreateStart, SendStart, SendNow, Claim, SendTake, jobVars
<1>3. \A q \in Handlers \ {p} : call'[q] = call[q]
  BY DEF CreateStart, SendStart, SendNow, Claim, SendTake, Goto, Return, CallInv
<1>4. ~Firing(p)'
  <2>1. CASE \E r \in Rows, s \in Sessions : CreateStart(p, r, s)
    <3>1. PICK r \in Rows, s \in Sessions : CreateStart(p, r, s)
      BY <2>1
    <3> DEFINE x == [Begin("take", r, s) EXCEPT !.tmux = (chan[s] = "tmux")]
    <3>2. x.pc = "take"
      BY DEF Begin, OffCall
    <3>3. call'[p] = x
      BY <1>1, <3>1 DEF CreateStart, CallInv
    <3> QED
      BY <3>2, <3>3 DEF Firing
  <2>2. CASE \E r \in Rows, s \in Sessions : SendStart(p, r, s)
    <3>1. PICK r \in Rows, s \in Sessions : SendStart(p, r, s)
      BY <2>2
    <3>2. call'[p] = Begin("takeNow", r, s)
      BY <1>1, <3>1 DEF SendStart, CallInv
    <3> QED
      BY <3>2, BeginFields DEF Firing
  <2>3. CASE \E r \in Rows : SendNow(p, r)
    BY <1>1, <2>3 DEF SendNow, Claim, CallInv, Firing, Begin, OffCall
  <2>4. CASE SendTake(p)
    <3>1. Return(p) \/ Goto(p, "made")
      BY <2>4 DEF SendTake
    <3>2. CASE Return(p)
      BY <1>1, <3>2 DEF Return, CallInv, Firing, OffCall
    <3>3. CASE Goto(p, "made")
      BY <1>1, <3>3, CallType DEF Goto, CallInv, Call, Firing
    <3> QED
      BY <3>1, <3>2, <3>3
  <2> QED
    BY <2>1, <2>2, <2>3, <2>4
<1> QED
  BY <1>1, <1>2, <1>3, <1>4, FireSame

LEMMA FireRoute ==
    ASSUME Parts, FireJobs, NEW p \in Handlers, Route(p)
    PROVE  FireJobs'
<1> USE DEF Parts
<1>1. call[p].row \in Rows /\ call[p].sess \in Sessions /\ call[p].pc = "route"
  BY AtRow, RowPcs DEF Route, At, Dispatching
<1>2. CASE Register(p, call[p].row, call[p].sess)
  BY <1>1, <1>2, FireRegister DEF Firing
<1>3. CASE ~Register(p, call[p].row, call[p].sess)
  <2>1. PICK pc \in {"plain", "giveBack", "able"} : Goto(p, pc) /\ UNCHANGED job
    BY <1>3 DEF Route, jobVars
  <2>2. {call[p].pc, pc} \subseteq Owners \ FirePcs
    BY <1>1, <2>1 DEF Owners, Dispatching, FirePcs
  <2> QED
    BY <2>1, <2>2, MovesGoto, JobsSame, FireKept
<1> QED
  BY <1>2, <1>3

\* The win of the compare-and-set.
LEMMA FireWin ==
    ASSUME Parts, FireJobs, NEW k \in Jobs, DeliverCas(k), JobGoto(k, "paste")
    PROVE  FireJobs'
<1> USE DEF Parts
<1>1. job[k].pc = "cas" /\ UNCHANGED call
  BY DEF DeliverCas, InJob
<1>2. \A l \in Jobs : job[l].pc = "fire" => job'[l] = job[l]
  BY <1>1 DEF JobGoto, JobInv
<1> SUFFICES ASSUME NEW p \in Handlers, Firing(p)
             PROVE  job'[call[p].job] = job[call[p].job]
  BY <1>1 DEF FireJobs, Firing
<1>3. call[p].job \in Jobs
  BY CallType DEF CallKnown, Firing
<1> QED
  BY <1>2, <1>3 DEF FireJobs

LEMMA FireStep ==
    ASSUME Parts, FireJobs, [Next]_vars
    PROVE  FireJobs'
<1> USE DEF Parts
<1>1. CASE UNCHANGED vars
  BY <1>1, MovesSame, JobsSame, FireKept DEF vars, jobVars
<1>2. ASSUME NEW r \in Rows, Poll(r) PROVE FireJobs'
  <2>1. Poller \in Handlers
    BY DEF Handlers
  <2>2. call'[Poller].pc = "route"
        /\ \A q \in Handlers \ {Poller} : call'[q] = call[q]
    BY <1>2, <2>1 DEF Poll, Claim, CallInv, Begin, OffCall
  <2>3. ~Firing(Poller)' /\ UNCHANGED job
    BY <1>2, <2>2 DEF Firing, Poll, Claim, jobVars
  <2> QED
    BY <2>1, <2>2, <2>3, FireSame
<1>3. ASSUME NEW p \in Callers, Request(p) PROVE FireJobs'
  BY <1>3, UserStartMoves, UserMoves, ResetMoves, DeleteMoves, FireSend, FireKept
     DEF Request
<1>4. ASSUME NEW p \in Callers, Proceed(p) PROVE FireJobs'
  BY <1>4, UserMoves, ResetMoves, DeleteMoves, FireSend, FireKept DEF Proceed
<1>5. ASSUME NEW k \in Jobs, WorkerNext(k) \/ Work(k) \/ TickTimeout(k)
      PROVE  FireJobs'
  <2>1. CASE DeliverCas(k) /\ job'[k].pc = "paste"
    <3>1. JobGoto(k, "paste")
      <4>1. ~EndJob(k)
        BY <2>1 DEF EndJob, JobInv, OffJob
      <4> QED
        BY <2>1, <4>1 DEF DeliverCas
    <3> QED
      BY <2>1, <3>1, FireWin
  <2>2. CASE ~(DeliverCas(k) /\ job'[k].pc = "paste")
    BY <1>5, <2>2, WorkMoves, FireKept
  <2> QED
    BY <2>1, <2>2
<1>6. CASE Crash
  BY <1>6 DEF Crash, FireJobs, Firing, OffCall
<1>7. ASSUME \/ \E t \in told : Observe(t)
             \/ \E t \in turns : TurnPersist(t) \/ TurnWithdraw(t) \/ TurnSettle(t)
             \/ Boot
      PROVE  FireJobs'
  BY <1>7, OtherMoves, MovesSame, JobsSame, FireKept
<1> QED
  BY <1>1, <1>2, <1>3, <1>4, <1>5, <1>6, <1>7, FireRoute, FireFire, JsonMoves,
     FireKept DEF Next

LEMMA TypeInit == Init => TypeInv
<1> SUFFICES ASSUME Init PROVE TypeInv
  OBVIOUS
<1>1. OffCall \in Call /\ CallKnown(OffCall)
  BY OffCallType
<1>2. RowInv /\ PanelType
  <2>1. Blank("unused") \in Row /\ Blank("unused").status = "unused"
    BY BlankType
  <2> QED
    BY <2>1 DEF Init, RowInv, RowsKnown, Exists, PanelType
<1>3. CallInv /\ JobInv
  BY <1>1, OffJobType DEF Init, CallInv, CallsKnown, JobInv, JobsKnown
<1>4. HistoryType /\ KnownType /\ RunningType
  BY DEF Init, HistoryType, KnownType, RunningType
<1>5. Rest
  BY DeliveryAssumption DEF Init, Rest
<1>6. FireJobs
  BY DEF Init, FireJobs, Firing, OffCall
<1> QED
  BY <1>2, <1>3, <1>4, <1>5, <1>6, TypeIsParts DEF Parts

\* Every variable keeps its type: a handler that is at a step has set the locals
\* the step uses, and a job is never fired from two calls.
THEOREM TypeCorrect == Spec => []TypeOK
<1>1. TypeInv /\ [Next]_vars => TypeInv'
  <2>1. (Parts /\ FireJobs)' => TypeInv'
    BY TypeIsParts, PTL
  <2> QED
    BY <2>1, TypeIsParts, TypeStep, FireStep
<1>2. TypeInv => TypeOK
  BY DEF TypeInv
<1> QED
  BY <1>1, <1>2, TypeInit, PTL DEF Spec

-----------------------------------------------------------------------------
(* Ownership of a row: a call that dispatches it or a job that has it, where *)
(* no session is ever reset.                                                 *)

Armed(p) == call[p].pc \in Owners
Owning(k) == job[k].pc \notin {"off", "fire"}
Taking(p) == call[p].pc \in {"take", "takeNow"}
Gone(r) == row[r].status = "gone"

\* The row of an owner is claimed, and of the session the owner works for.
Owned(x) == Gone(x.row) \/ (Claimed(x.row) /\ row[x.row].sess = x.sess)

TakesUnused ==
    \A p \in Handlers : Taking(p) =>
        /\ row[call[p].row].status = "unused"
        /\ \A q \in Handlers : call[q].row = call[p].row => q = p
CallsOwn == \A p \in Handlers : Armed(p) => Owned(call[p])
JobsOwn == \A k \in Jobs : Owning(k) => Owned(job[k])
OneCall ==
    \A p, q \in Handlers :
        Armed(p) /\ Armed(q) /\ call[p].row = call[q].row => p = q
OneJob ==
    \A k, l \in Jobs :
        Owning(k) /\ Owning(l) /\ job[k].row = job[l].row => k = l
CallOrJob ==
    \A p \in Handlers, k \in Jobs :
        Armed(p) /\ Owning(k) => call[p].row # job[k].row
PastePhase ==
    \A k \in Jobs : job[k].pc = "paste" =>
        Gone(job[k].row) \/ row[job[k].row].phase = "pasting"
BootQuiet == boot # "up" => /\ \A p \in Handlers : call[p].pc = "off"
                            /\ \A k \in Jobs : job[k].pc = "off"
NoReset == \A p \in Handlers : call[p].pc \notin Resetting

OwnInv == /\ TakesUnused /\ CallsOwn /\ JobsOwn
          /\ OneCall /\ OneJob /\ CallOrJob
          /\ PastePhase /\ BootQuiet /\ NoReset

-----------------------------------------------------------------------------
(* What a step does that hands no row to a new owner.                        *)

\* A call keeps its row, leaves it, or takes an id that nobody has.
CallKeeps(p) == /\ call'[p].row = call[p].row /\ call'[p].sess = call[p].sess
                /\ \/ call'[p].pc = call[p].pc
                   \/ {call[p].pc, call'[p].pc} \subseteq Owners
CallTakes(p) == /\ Taking(p)' /\ call'[p].row \in Rows
                /\ row[call'[p].row].status = "unused"
                /\ \A q \in Handlers : call[q].row # call'[p].row
                /\ \A q \in Handlers \ {p} : call'[q] = call[q]
CallsKeep == \A p \in Handlers : CallKeeps(p) \/ CallLeaves(p) \/ CallTakes(p)

JobKeeps(k) == /\ Owning(k) /\ job'[k].row = job[k].row
               /\ job'[k].sess = job[k].sess
               /\ job'[k].pc = "paste" => job[k].pc = "paste"
JobsKeep == \A k \in Jobs : Owning(k)' => JobKeeps(k)

\* A row stays as it is, is gone, or has nobody at it afterwards.
RowSame(r) == /\ row'[r].status = row[r].status
              /\ row'[r].claimed = row[r].claimed
              /\ row'[r].sess = row[r].sess
              /\ \/ row'[r].phase = row[r].phase
                 \/ \A k \in Jobs : job[k].pc = "paste" => job[k].row # r
Nobody(r) == /\ \A p \in Handlers : (Armed(p) \/ Taking(p)) => call[p].row # r
             /\ \A k \in Jobs : Owning(k) => job[k].row # r
RowKeeps(r) == \/ RowSame(r)
               \/ Gone(r)' /\ row[r].status # "unused"
               \/ Nobody(r)'
RowsKeep == \A r \in Rows : RowKeeps(r)

BootKeeps == boot' # "up" => boot # "up" /\ UNCHANGED <<call, job>>

LEMMA KeptArmed ==
    ASSUME CallsKeep, NEW p \in Handlers, Armed(p)'
    PROVE  Armed(p) /\ call'[p].row = call[p].row /\ call'[p].sess = call[p].sess
<1>1. Owners \cap {"take", "takeNow"} = {} /\ Owners \cap Idlers = {}
  BY PcKinds
<1> QED
  BY <1>1 DEF CallsKeep, CallKeeps, CallLeaves, CallTakes, Taking, Armed

LEMMA KeptOwning ==
    ASSUME JobsKeep, NEW k \in Jobs, Owning(k)'
    PROVE  Owning(k) /\ job'[k].row = job[k].row /\ job'[k].sess = job[k].sess
  BY DEF JobsKeep, JobKeeps

\* The rows of calls and jobs are rows.
LEMMA OwnRows ==
    ASSUME Parts
    PROVE  /\ \A p \in Handlers : Armed(p) \/ Taking(p) => call[p].row \in Rows
           /\ \A k \in Jobs : Owning(k) => job[k].row \in Rows
<1>1. (Owners \cup {"take", "takeNow"}) \cap Rowless = {}
  BY DEF Owners, Dispatching, Rowless, Resetting, Deleting
<1> QED
  BY <1>1, CallType, JobType DEF Parts, CallKnown, JobKnown, Armed, Taking, Owning

LEMMA OwnKept ==
    ASSUME Parts, OwnInv, CallsKeep, JobsKeep, RowsKeep, BootKeeps,
           "reset" \notin Ops
    PROVE  OwnInv'
<1>1. ASSUME NEW x, x.row \in Rows, Owned(x), ~Nobody(x.row)'
      PROVE  Owned(x)' /\ (Gone(x.row) => Gone(x.row)')
  BY <1>1 DEF RowsKeep, RowKeeps, RowSame, Owned, Gone, Claimed, Pending
<1>2. ASSUME NEW p \in Handlers, Armed(p)'
      PROVE  /\ Armed(p) /\ call'[p].row = call[p].row
             /\ call'[p].sess = call[p].sess /\ call[p].row \in Rows
             /\ Owned(call[p]) /\ ~Nobody(call[p].row)'
  <2>1. Armed(p) /\ call'[p].row = call[p].row /\ call'[p].sess = call[p].sess
    BY <1>2, KeptArmed
  <2> QED
    BY <1>2, <2>1, OwnRows DEF OwnInv, CallsOwn, Nobody
<1>3. ASSUME NEW k \in Jobs, Owning(k)'
      PROVE  /\ Owning(k) /\ job'[k].row = job[k].row
             /\ job'[k].sess = job[k].sess /\ job[k].row \in Rows
             /\ Owned(job[k]) /\ ~Nobody(job[k].row)'
  <2>1. Owning(k) /\ job'[k].row = job[k].row /\ job'[k].sess = job[k].sess
    BY <1>3, KeptOwning
  <2> QED
    BY <1>3, <2>1, OwnRows DEF OwnInv, JobsOwn, Nobody
<1>4. CallsOwn'
  <2> SUFFICES ASSUME NEW p \in Handlers, Armed(p)' PROVE Owned(call[p])'
    BY DEF CallsOwn
  <2>1. Owned(call[p])
    BY <1>2
  <2> QED
    BY <1>2, <2>1 DEF RowsKeep, RowKeeps, RowSame, Owned, Gone, Claimed, Pending
<1>5. JobsOwn'
  <2> SUFFICES ASSUME NEW k \in Jobs, Owning(k)' PROVE Owned(job[k])'
    BY DEF JobsOwn
  <2> QED
    BY <1>3 DEF RowsKeep, RowKeeps, RowSame, Owned, Gone, Claimed, Pending
<1>6. ASSUME NEW r \in Rows, Gone(r), ~Nobody(r)' PROVE Gone(r)'
  BY <1>6 DEF RowsKeep, RowKeeps, RowSame, Gone
<1>7. OneCall'
  BY <1>2, <1>6 DEF OwnInv, OneCall
<1>8. OneJob'
  BY <1>3, <1>6 DEF OwnInv, OneJob
<1>9. CallOrJob'
  BY <1>2, <1>3, <1>6 DEF OwnInv, CallOrJob
<1>10. PastePhase'
  <2> SUFFICES ASSUME NEW k \in Jobs, job'[k].pc = "paste"
               PROVE  Gone(job[k].row)' \/ row'[job'[k].row].phase = "pasting"
    BY DEF PastePhase
  <2>1. Owning(k)'
    BY DEF Owning
  <2>2. job[k].pc = "paste" /\ job'[k].row = job[k].row /\ job[k].row \in Rows
        /\ ~Nobody(job[k].row)'
    BY <1>3, <2>1 DEF JobsKeep, JobKeeps
  <2>3. Gone(job[k].row) \/ row[job[k].row].phase = "pasting"
    BY <2>2 DEF OwnInv, PastePhase
  <2> QED
    BY <1>6, <2>2, <2>3 DEF RowsKeep, RowKeeps, RowSame
<1>11. BootQuiet'
  BY DEF BootKeeps, OwnInv, BootQuiet
<1>12. NoReset'
  <2>1. Owners \cap Resetting = {} /\ {"take", "takeNow"} \cap Resetting = {}
    BY PcKinds
  <2> QED
    BY <2>1 DEF CallsKeep, CallKeeps, CallLeaves, CallTakes, Taking, OwnInv, NoReset
<1>13. TakesUnused'
  <2> SUFFICES ASSUME NEW p \in Handlers, Taking(p)'
               PROVE  /\ row'[call'[p].row].status = "unused"
                      /\ \A q \in Handlers : call'[q].row = call'[p].row => q = p
    BY DEF TakesUnused
  <2>1. {"take", "takeNow"} \cap (Idlers \cup Owners) = {}
    BY PcKinds
  <2>2. CallTakes(p) \/ (CallKeeps(p) /\ Taking(p))
    BY <2>1 DEF CallsKeep, CallKeeps, CallLeaves, Taking
  <2>3. call'[p].row \in Rows /\ row[call'[p].row].status = "unused"
    BY <2>2, OwnRows DEF CallTakes, CallKeeps, OwnInv, TakesUnused
  <2>4. row'[call'[p].row].status = "unused"
    <3>1. ~Nobody(call[p].row)'
      BY DEF Nobody
    <3> QED
      BY <2>3, <3>1 DEF RowsKeep, RowKeeps, RowSame
  <2>5. ASSUME NEW q \in Handlers \ {p} PROVE call'[q].row # call'[p].row
    <3>1. CASE CallTakes(p)
      BY <3>1 DEF CallTakes
    <3>2. CASE CallKeeps(p) /\ Taking(p)
      <4>1. call'[p].row = call[p].row /\ call[q].row # call[p].row
        BY <3>2 DEF CallKeeps, OwnInv, TakesUnused
      <4>2. CASE CallKeeps(q)
        BY <4>1, <4>2 DEF CallKeeps
      <4>3. CASE CallLeaves(q)
        BY <2>3, <4>1, <4>3 DEF CallLeaves
      <4>4. CASE CallTakes(q)
        BY <4>1, <4>4 DEF CallTakes
      <4> QED
        BY <4>2, <4>3, <4>4 DEF CallsKeep
    <3> QED
      BY <2>2, <3>1, <3>2
  <2> QED
    BY <2>4, <2>5
<1> QED
  BY <1>4, <1>5, <1>7, <1>8, <1>9, <1>10, <1>11, <1>12, <1>13 DEF OwnInv

-----------------------------------------------------------------------------
(* The steps that hand no row over.                                          *)

LEMMA MovesKeep == ASSUME CallMoves, JobMoves PROVE CallsKeep /\ JobsKeep
<1>1. CallsKeep
  BY DEF CallMoves, CallStays, CallsKeep, CallKeeps
<1>2. JobsKeep
  BY DEF JobMoves, JobEnds, JobStays, JobsKeep, JobKeeps, Owning
<1> QED
  BY <1>1, <1>2

LEMMA RowsAlone == ASSUME UNCHANGED row PROVE RowsKeep
  BY DEF RowsKeep, RowKeeps, RowSame

LEMMA RowAlone ==
    ASSUME RowInv, NEW r \in Rows, NEW x, SetRow(r, x),
           \/ /\ x.status = row[r].status /\ x.claimed = row[r].claimed
              /\ x.sess = row[r].sess /\ x.phase = row[r].phase
           \/ x.status = "gone" /\ row[r].status # "unused"
           \/ Nobody(r)'
    PROVE  RowsKeep
<1>1. row'[r] = x /\ \A q \in Rows \ {r} : row'[q] = row[q]
  BY DEF SetRow, RowInv
<1> QED
  BY <1>1 DEF RowsKeep, RowKeeps, RowSame, Gone

\* The comments of a row are no matter of ownership.
LEMMA RowPay ==
    ASSUME RowInv, NEW r \in Rows, NEW p, NEW c,
           SetRow(r, [row[r] EXCEPT !.pay = p, !.snap = c])
           \/ SetRow(r, [row[r] EXCEPT !.pay = p])
    PROVE  RowsKeep
<1> DEFINE x == [row[r] EXCEPT !.pay = p, !.snap = c]
           y == [row[r] EXCEPT !.pay = p]
<1>1. /\ x.status = row[r].status /\ x.claimed = row[r].claimed
      /\ x.sess = row[r].sess /\ x.phase = row[r].phase
  BY RowType DEF Row
<1>2. /\ y.status = row[r].status /\ y.claimed = row[r].claimed
      /\ y.sess = row[r].sess /\ y.phase = row[r].phase
  BY RowType DEF Row
<1>3. SetRow(r, x) \/ SetRow(r, y)
  OBVIOUS
<1> HIDE DEF x, y
<1> QED
  BY <1>1, <1>2, <1>3, RowAlone

LEMMA RestoreKeeps ==
    ASSUME RowInv, NEW r \in Rows,
           RestoreHold(r) \/ \E cs : RestoreRow(r, cs)
    PROVE  RowsKeep
  BY RowPay, RowsAlone DEF RestoreHold, RestoreRow, storeVars

LEMMA RowGone ==
    ASSUME RowInv, NEW r \in Rows, SetRow(r, Blank("gone")),
           row[r].status # "unused"
    PROVE  RowsKeep
<1>1. Blank("gone").status = "gone"
  BY DEF Blank
<1> QED
  BY <1>1, RowAlone

\* A row that is neither claimed nor gone, nor still to be made, has nobody.
LEMMA NobodyAt ==
    ASSUME Parts, OwnInv, NEW r \in Rows, CallMoves, JobMoves,
           ~Claimed(r), ~Gone(r), row[r].status # "unused"
    PROVE  Nobody(r)'
<1>1. Nobody(r)
  BY DEF OwnInv, CallsOwn, JobsOwn, TakesUnused, Owned, Nobody
<1>2. ASSUME NEW p \in Handlers, (Armed(p) \/ Taking(p))'
      PROVE  call'[p].row # r
  <2>1. CallStays(p)
    <3>1. Idlers \cap (Owners \cup {"take", "takeNow"}) = {}
      BY PcKinds
    <3> QED
      BY <1>2, <3>1 DEF CallMoves, CallLeaves, Armed, Taking
  <2>2. Armed(p) \/ Taking(p)
    BY <1>2, <2>1 DEF CallStays, Armed, Taking
  <2> QED
    BY <1>1, <2>1, <2>2 DEF CallStays, Nobody
<1>3. ASSUME NEW k \in Jobs, Owning(k)' PROVE job'[k].row # r
  <2>1. Owning(k) /\ job'[k].row = job[k].row
    BY <1>3, MovesKeep, KeptOwning
  <2> QED
    BY <1>1, <2>1 DEF Nobody
<1> QED
  BY <1>2, <1>3 DEF Nobody

\* The last owner of a row goes.
LEMMA LastCall ==
    ASSUME Parts, OwnInv, NEW p \in Handlers, Armed(p), NEW r \in Rows,
           r = call[p].row, ~Gone(r), CallMoves, JobMoves, call'[p].pc = "off"
    PROVE  Nobody(r)'
<1>1. Claimed(r)
  BY DEF OwnInv, CallsOwn, Owned
<1>2. ASSUME NEW q \in Handlers, (Armed(q) \/ Taking(q))'
      PROVE  call'[q].row # r
  <2>1. CallStays(q) /\ q # p
    <3>1. Idlers \cap (Owners \cup {"take", "takeNow"}) = {} /\ "off" \in Idlers
      BY PcKinds
    <3> QED
      BY <1>2, <3>1 DEF CallMoves, CallLeaves, Armed, Taking
  <2>2. Armed(q) \/ Taking(q)
    BY <1>2, <2>1 DEF CallStays, Armed, Taking
  <2>3. call[q].row # r
    BY <1>1, <2>1, <2>2 DEF OwnInv, OneCall, TakesUnused, Claimed, Pending
  <2> QED
    BY <2>1, <2>3 DEF CallStays
<1>3. ASSUME NEW k \in Jobs, Owning(k)' PROVE job'[k].row # r
  <2>1. Owning(k) /\ job'[k].row = job[k].row
    BY <1>3, MovesKeep, KeptOwning
  <2> QED
    BY <2>1 DEF OwnInv, CallOrJob
<1> QED
  BY <1>2, <1>3 DEF Nobody

LEMMA LastJob ==
    ASSUME Parts, OwnInv, NEW k \in Jobs, Owning(k), NEW r \in Rows,
           r = job[k].row, ~Gone(r), CallMoves, JobMoves, job'[k].pc = "off"
    PROVE  Nobody(r)'
<1>1. Claimed(r)
  BY DEF OwnInv, JobsOwn, Owned
<1>2. ASSUME NEW q \in Handlers, (Armed(q) \/ Taking(q))'
      PROVE  call'[q].row # r
  <2>1. CallStays(q)
    <3>1. Idlers \cap (Owners \cup {"take", "takeNow"}) = {}
      BY PcKinds
    <3> QED
      BY <1>2, <3>1 DEF CallMoves, CallLeaves, Armed, Taking
  <2>2. Armed(q) \/ Taking(q)
    BY <1>2, <2>1 DEF CallStays, Armed, Taking
  <2>3. call[q].row # r
    BY <1>1, <2>2 DEF OwnInv, CallOrJob, TakesUnused, Claimed, Pending
  <2> QED
    BY <2>1, <2>3 DEF CallStays
<1>3. ASSUME NEW l \in Jobs, Owning(l)' PROVE job'[l].row # r
  <2>1. Owning(l) /\ job'[l].row = job[l].row
    BY <1>3, MovesKeep, KeptOwning
  <2>2. l # k
    BY <1>3 DEF Owning
  <2> QED
    BY <2>1, <2>2 DEF OwnInv, OneJob
<1> QED
  BY <1>2, <1>3 DEF Nobody

LEMMA OwnJson ==
    ASSUME Parts, OwnInv, "reset" \notin Ops, NEW p \in Handlers,
           Json(p) \/ JsonTimeout(p)
    PROVE  OwnInv'
<1> USE DEF Parts
<1>1. CallMoves /\ JobMoves
  BY JsonMoves
<1>2. BootKeeps
  BY DEF Json, JsonAble, JsonGiveBack, JsonAdopt, JsonEnqueue, JsonAfter,
         JsonHoldBack, JsonFailMark, JsonSentMark, JsonTimeout, At, BootKeeps
<1>3. Armed(p) /\ call[p].row \in Rows
  <2>1. PICK pc \in {"able", "giveBack", "adopt", "plain", "after", "holdBack",
                     "failMark", "sentMark"} : At(p, pc)
    BY DEF Json, JsonAble, JsonGiveBack, JsonAdopt, JsonEnqueue, JsonAfter,
           JsonHoldBack, JsonFailMark, JsonSentMark, JsonTimeout
  <2>2. pc \in Dispatching /\ pc \in Pcs \ Rowless
    BY RowPcs DEF Dispatching
  <2> QED
    BY <2>1, <2>2, AtRow DEF Armed, Owners
<1>4. PICK r \in Rows : r = call[p].row
  BY <1>3
<1>5. ASSUME JsonFailMark(p) \/ JsonSentMark(p) PROVE RowsKeep
  <2>1. call'[p].pc = "off"
    BY <1>5 DEF JsonFailMark, JsonSentMark, Return, CallInv, OffCall
  <2>2. UNCHANGED row \/ (Claimed(r) /\ \E x : SetRow(r, x))
    BY <1>4, <1>5 DEF JsonFailMark, JsonSentMark
  <2>3. Claimed(r) => Nobody(r)'
    BY <1>1, <1>3, <1>4, <2>1, LastCall DEF Claimed, Pending, Gone
  <2> QED
    BY <2>2, <2>3, RowAlone, RowsAlone
<1>6. ASSUME JsonGiveBack(p) \/ JsonHoldBack(p) PROVE RowsKeep
  BY <1>3, <1>6, RestoreKeeps DEF JsonGiveBack, JsonHoldBack
<1>7. ASSUME JsonAdopt(p) PROVE RowsKeep
  <2>1. UNCHANGED row \/ \E y : SetRow(r, [row[r] EXCEPT !.pay = y])
    BY <1>4, <1>7 DEF JsonAdopt, Adopt, storeVars
  <2> QED
    BY <2>1, RowPay, RowsAlone
<1>8. ASSUME JsonTimeout(p) PROVE RowsKeep
  BY <1>3, <1>8, RestoreKeeps, RowsAlone DEF JsonTimeout, storeVars
<1>9. ASSUME JsonAble(p) \/ JsonEnqueue(p) \/ JsonAfter(p) PROVE RowsKeep
  BY <1>9, RowsAlone DEF JsonAble, JsonEnqueue, JsonAfter, storeVars
<1>10. RowsKeep
  BY <1>5, <1>6, <1>7, <1>8, <1>9 DEF Json
<1> QED
  BY <1>1, <1>2, <1>10, MovesKeep, OwnKept

LEMMA OwnUser ==
    ASSUME Parts, OwnInv, "reset" \notin Ops, NEW p \in Callers,
           \/ CreateTake(p)
           \/ CancelBefore(p) \/ CancelErase(p) \/ CancelTell(p)
           \/ ReturnComments(p)
           \/ Rehold(p) \/ RetryRow(p) \/ DismissRow(p)
           \/ \E c \in Comments : Discard(p, c)
           \/ \E s \in Sessions : Toggle(p, s)
    PROVE  OwnInv'
<1> USE DEF Parts
<1>1. CallMoves /\ JobMoves /\ p \in Handlers
  BY UserMoves, CallerIsHandler
<1>2. BootKeeps
  BY DEF CreateTake, CancelBefore, CancelErase, CancelTell, ReturnComments,
         Rehold, RetryRow, DismissRow, Discard, Toggle, Starts, At, BootKeeps
<1>3. ASSUME NEW pc \in {"take", "erase", "rehold", "retry", "dismiss"}, At(p, pc)
      PROVE  call[p].row \in Rows
  BY <1>1, <1>3, AtRow, RowPcs
<1>4. CASE CreateTake(p)
  <2>1. Taking(p) /\ call[p].row \in Rows /\ call'[p].pc = "off"
    BY <1>1, <1>3, <1>4 DEF CreateTake, At, Taking, Return, CallInv, OffCall
  <2> PICK r \in Rows : r = call[p].row
    BY <2>1
  <2>2. row[r].status = "unused"
    BY <1>1, <2>1 DEF OwnInv, TakesUnused
  <2>3. Nobody(r)'
    <3>1. ASSUME NEW q \in Handlers, (Armed(q) \/ Taking(q))'
          PROVE  call'[q].row # r
      <4>1. q # p
        BY <2>1, <3>1, PcKinds DEF Armed, Taking
      <4>2. call'[q] = call[q]
        BY <1>1, <1>4, <4>1 DEF CreateTake, Return, CallInv
      <4> QED
        BY <1>1, <2>1, <4>1, <4>2 DEF OwnInv, TakesUnused
    <3>2. ASSUME NEW k \in Jobs, Owning(k)' PROVE job'[k].row # r
      BY <1>4, <2>2, <3>2 DEF CreateTake, jobVars, Owning, OwnInv, JobsOwn, Owned,
                              Gone, Claimed, Pending
    <3> QED
      BY <3>1, <3>2 DEF Nobody
  <2>4. \E x : SetRow(r, x)
    BY <1>4 DEF CreateTake
  <2>5. RowsKeep
    BY <2>1, <2>3, <2>4, RowAlone
  <2> QED
    BY <1>1, <1>2, <2>5, MovesKeep, OwnKept
<1>5. CASE CancelErase(p) \/ DismissRow(p)
  <2> PICK r \in Rows : r = call[p].row
    BY <1>3, <1>5 DEF CancelErase, DismissRow
  <2>2. UNCHANGED row \/ (SetRow(r, Blank("gone")) /\ row[r].status # "unused")
    BY <1>5 DEF CancelErase, DismissRow, Cancellable, Pending
  <2>3. RowsKeep
    BY <2>2, RowsAlone, RowGone
  <2> QED
    BY <1>1, <1>2, <2>3, MovesKeep, OwnKept
<1>6. CASE Rehold(p)
  <2> PICK r \in Rows : r = call[p].row
    BY <1>3, <1>6 DEF Rehold
  <2>2. \/ UNCHANGED row
        \/ \E y, c : SetRow(r, [row[r] EXCEPT !.pay = y, !.snap = c])
    BY <1>6 DEF Rehold, storeVars
  <2>3. RowsKeep
    BY <2>2, RowsAlone, RowPay
  <2> QED
    BY <1>1, <1>2, <2>3, MovesKeep, OwnKept
<1>7. CASE RetryRow(p)
  <2> PICK r \in Rows : r = call[p].row
    BY <1>3, <1>7 DEF RetryRow
  <2>1. UNCHANGED row \/ (row[r].status = "failed" /\ \E x : SetRow(r, x))
    BY <1>7 DEF RetryRow
  <2>2. row[r].status = "failed" => Nobody(r)'
    BY <1>1, NobodyAt DEF Claimed, Pending, Gone
  <2>3. RowsKeep
    BY <2>1, <2>2, RowAlone, RowsAlone
  <2> QED
    BY <1>1, <1>2, <2>3, MovesKeep, OwnKept
<1>8. CASE \/ CancelBefore(p) \/ CancelTell(p) \/ ReturnComments(p)
           \/ \E c \in Comments : Discard(p, c)
           \/ \E s \in Sessions : Toggle(p, s)
  <2>1. UNCHANGED row
    BY <1>8 DEF CancelBefore, CancelTell, ReturnComments, Discard, Toggle, storeVars
  <2> QED
    BY <1>1, <1>2, <2>1, RowsAlone, MovesKeep, OwnKept
<1> QED
  BY <1>4, <1>5, <1>6, <1>7, <1>8

LEMMA OwnUserStart ==
    ASSUME Parts, OwnInv, "reset" \notin Ops, NEW p \in Callers, NEW r \in Rows,
           CancelStart(p, r) \/ RetryStart(p, r) \/ DismissStart(p, r)
    PROVE  OwnInv'
<1>1. UNCHANGED <<row, boot>> /\ boot = "up"
  BY DEF CancelStart, RetryStart, DismissStart, Starts, At, storeVars
<1> QED
  BY <1>1, UserStartMoves, RowsAlone, MovesKeep, OwnKept DEF BootKeeps

LEMMA OwnReset ==
    ASSUME Parts, OwnInv, "reset" \notin Ops, NEW p \in Callers,
           \/ \E s \in Sessions : ResetStart(p, s)
           \/ ResetList(p) \/ ResetArchive(p) \/ ResetGivenUp(p) \/ ResetMove(p)
           \/ \E r \in Rows : ResetStop(p, r) \/ ResetRearm(p, r)
    PROVE  FALSE
<1>1. ~\E s \in Sessions : ResetStart(p, s)
  BY DEF ResetStart, Starts
<1>2. call[p].pc \in Resetting
  BY <1>1 DEF ResetList, ResetArchive, ResetGivenUp, ResetMove, ResetStop,
              ResetRearm, At, Resetting
<1> QED
  BY <1>2, CallerIsHandler DEF OwnInv, NoReset

LEMMA OwnDelete ==
    ASSUME Parts, OwnInv, "reset" \notin Ops, NEW p \in Callers,
           \/ \E s \in Sessions : DeleteStart(p, s)
           \/ DeleteList(p) \/ DeleteRows(p) \/ DeleteGone(p) \/ DeletePurge(p)
           \/ \E r \in Rows : DeleteGive(p, r)
    PROVE  OwnInv'
<1> USE DEF Parts
<1>1. CallMoves /\ JobMoves
  BY DeleteMoves
<1>2. BootKeeps
  BY DEF DeleteStart, DeleteList, DeleteRows, DeleteGone, DeletePurge, DeleteGive,
         Starts, At, BootKeeps
<1>3. ASSUME DeletePurge(p) PROVE RowsKeep
  <2>1. Blank("gone").status = "gone"
    BY DEF Blank
  <2> QED
    BY <1>3, <2>1 DEF DeletePurge, RowsKeep, RowKeeps, RowSame, Gone, Exists
<1>4. ASSUME NEW r \in Rows, DeleteGive(p, r) PROVE RowsKeep
  BY <1>4, RestoreKeeps DEF DeleteGive
<1>5. ASSUME \/ \E s \in Sessions : DeleteStart(p, s)
             \/ DeleteList(p) \/ DeleteRows(p) \/ DeleteGone(p)
      PROVE  RowsKeep
  BY <1>5, RowsAlone DEF DeleteStart, DeleteList, DeleteRows, DeleteGone, storeVars
<1> QED
  BY <1>1, <1>2, <1>3, <1>4, <1>5, MovesKeep, OwnKept

LEMMA OwnWork ==
    ASSUME Parts, OwnInv, "reset" \notin Ops, NEW k \in Jobs,
           WorkerNext(k) \/ Work(k) \/ TickTimeout(k),
           ~DeliverCas(k) \/ job'[k].pc # "paste"
    PROVE  OwnInv'
<1> USE DEF Parts
<1>1. CallMoves /\ JobMoves
  BY WorkMoves
<1>2. Owning(k) /\ UNCHANGED boot
  BY DEF WorkerNext, Work, TickTimeout, TickRead, TickResolve, JobRearm, JobFail,
         DeliverCas, DeliverPaste, DeliverMark, InJob, Owning
<1>3. BootKeeps
  BY <1>2 DEF OwnInv, BootQuiet, BootKeeps, Owning
<1>4. PICK r \in Rows : r = job[k].row
  BY <1>2, OwnRows
<1>5. ASSUME JobRearm(k) \/ JobFail(k) \/ DeliverMark(k) PROVE RowsKeep
  <2>1. job'[k].pc = "off"
    BY <1>5 DEF JobRearm, JobFail, DeliverMark, EndJob, JobInv, OffJob
  <2>2. UNCHANGED row \/ (Pending(r) /\ \E x : SetRow(r, x))
    BY <1>4, <1>5 DEF JobRearm, JobFail, DeliverMark, Rearmable, Waiting, Claimed
  <2>3. Pending(r) => Nobody(r)'
    BY <1>1, <1>2, <1>4, <2>1, LastJob DEF Pending, Gone
  <2> QED
    BY <2>2, <2>3, RowAlone, RowsAlone
<1>6. ASSUME DeliverCas(k) PROVE RowsKeep
  <2>1. ~JobGoto(k, "paste")
    BY <1>6, JobType DEF JobGoto, JobInv, Job
  <2>2. UNCHANGED row
    BY <1>6, <2>1 DEF DeliverCas
  <2> QED
    BY <2>2, RowsAlone
<1>7. ASSUME \/ WorkerNext(k) \/ TickTimeout(k) \/ TickRead(k) \/ TickResolve(k)
             \/ DeliverPaste(k)
      PROVE  RowsKeep
  BY <1>7, RowsAlone DEF WorkerNext, TickTimeout, TickRead, TickResolve,
                         DeliverPaste, storeVars
<1>8. RowsKeep
  BY <1>5, <1>6, <1>7 DEF Work
<1> QED
  BY <1>1, <1>3, <1>8, MovesKeep, OwnKept

LEMMA OwnOther ==
    ASSUME Parts, OwnInv, "reset" \notin Ops,
           \/ \E t \in told : Observe(t)
           \/ \E t \in turns : TurnPersist(t) \/ TurnWithdraw(t) \/ TurnSettle(t)
           \/ Boot
    PROVE  OwnInv'
<1> USE DEF Parts
<1>1. UNCHANGED <<call, job>>
  BY OtherMoves
<1>2. CallMoves /\ JobMoves
  BY <1>1, MovesSame, JobsSame
<1>3. BootKeeps
  <2>1. boot' # "up" => boot # "up"
    BY DEF Observe, ObserverStart, ObserverRestore, ObserverMark, ObserverDrop,
           TurnPersist, TurnWithdraw, TurnSettle, Boot, BootHold, BootGive,
           BootNext, BootRecover
  <2> QED
    BY <1>1, <2>1 DEF BootKeeps
<1>4. ASSUME NEW t \in told, Observe(t) PROVE RowsKeep
  <2>1. PICK r \in Rows : r = t.row
    BY DEF Rest, Task
  <2>2. CASE ObserverStart(t)
    BY <2>2, RowsAlone DEF ObserverStart, storeVars
  <2>3. CASE ObserverRestore(t)
    BY <2>1, <2>3, RestoreKeeps, RowsAlone DEF ObserverRestore
  <2>4. CASE ObserverMark(t)
    BY <2>1, <2>4, RowPay, RowsAlone DEF ObserverMark
  <2>5. CASE ObserverDrop(t)
    <3>1. UNCHANGED row \/ (SetRow(r, Blank("gone")) /\ row[r].status # "unused")
      BY <2>1, <2>5 DEF ObserverDrop, Exists
    <3> QED
      BY <3>1, RowsAlone, RowGone
  <2> QED
    BY <1>4, <2>2, <2>3, <2>4, <2>5 DEF Observe
<1>5. ASSUME NEW t \in turns, TurnPersist(t) \/ TurnWithdraw(t) \/ TurnSettle(t)
      PROVE  RowsKeep
  <2>1. t.row \in Rows
    BY DEF Rest, Turn
  <2> QED
    BY <1>5, <2>1, RestoreKeeps, RowsAlone DEF TurnPersist, TurnWithdraw, TurnSettle,
                                               storeVars
<1>6. ASSUME NEW r \in Rows, BootHold(r) \/ BootGive(r) PROVE RowsKeep
  BY <1>6, RestoreKeeps, RowsAlone DEF BootHold, BootGive
<1>7. ASSUME BootNext PROVE RowsKeep
  BY <1>7, RowsAlone DEF BootNext, storeVars
<1>8. ASSUME BootRecover PROVE RowsKeep
  <2>1. /\ \A p \in Handlers : call'[p].pc = "off"
        /\ \A k \in Jobs : job'[k].pc = "off"
    BY <1>1, <1>8 DEF BootRecover, OwnInv, BootQuiet
  <2>2. "off" \notin Owners \cup {"take", "takeNow"}
    BY PcKinds
  <2>3. \A r \in Rows : Nobody(r)'
    BY <2>1, <2>2 DEF Nobody, Armed, Taking, Owning
  <2> QED
    BY <2>3 DEF RowsKeep, RowKeeps
<1>9. RowsKeep
  BY <1>4, <1>5, <1>6, <1>7, <1>8 DEF Boot
<1> QED
  BY <1>2, <1>3, <1>9, MovesKeep, OwnKept

LEMMA OwnTake ==
    ASSUME Parts, OwnInv, "reset" \notin Ops, NEW p \in Callers, NEW r \in Rows,
           NEW s \in Sessions, CreateStart(p, r, s) \/ SendStart(p, r, s)
    PROVE  OwnInv'
<1> USE DEF Parts
<1>1. p \in Handlers
  BY CallerIsHandler
<1>2. /\ row[r].status = "unused" /\ \A q \in Handlers : call[q].row # r
      /\ boot = "up" /\ UNCHANGED <<row, job, boot>>
  BY DEF CreateStart, SendStart, Starts, At, storeVars, jobVars
<1>3. PICK x : call' = [call EXCEPT ![p] = x] /\ x.row = r
               /\ x.pc \in {"take", "takeNow"}
  <2>1. CASE CreateStart(p, r, s)
    <3> DEFINE x == [Begin("take", r, s) EXCEPT !.tmux = (chan[s] = "tmux")]
    <3>1. x.row = r /\ x.pc = "take"
      BY DEF Begin, OffCall
    <3> QED
      BY <2>1, <3>1 DEF CreateStart
  <2>2. CASE SendStart(p, r, s)
    <3> DEFINE x == Begin("takeNow", r, s)
    <3>1. x.row = r /\ x.pc = "takeNow"
      BY BeginFields
    <3> QED
      BY <2>2, <3>1 DEF SendStart
  <2> QED
    BY <2>1, <2>2
<1>4. call'[p] = x /\ \A q \in Handlers \ {p} : call'[q] = call[q]
  BY <1>1, <1>3 DEF CallInv
<1>5. CallsKeep
  BY <1>2, <1>3, <1>4 DEF CallsKeep, CallKeeps, CallTakes, Taking
<1>6. JobsKeep /\ BootKeeps
  BY <1>2, JobsSame, MovesKeep DEF BootKeeps, JobsKeep, JobKeeps, Owning
<1> QED
  BY <1>2, <1>5, <1>6, RowsAlone, OwnKept

\* Registering a job for the row a call owns.
LEMMA RegisterKeeps ==
    ASSUME CallInv, JobInv, NEW p \in Handlers, Armed(p), NEW r \in Rows,
           NEW s \in Sessions, r = call[p].row, s = call[p].sess, Register(p, r, s)
    PROVE  CallsKeep /\ JobsKeep
<1>1. PICK k \in Jobs :
        /\ job[k].pc = "off" /\ job'[k].pc = "fire"
        /\ job'[k].row = r /\ job'[k].sess = s
        /\ \A l \in Jobs \ {k} : JobEnds(l) \/ JobStays(l)
        /\ call'[p].pc = "cas" /\ call'[p].row = r
        /\ call'[p].sess = s /\ call'[p].job = k
        /\ \A q \in Handlers \ {p} : call'[q] = call[q]
  BY RegisterMoves
<1>2. "cas" \in Owners
  BY PcKinds DEF FirePcs
<1>3. CallsKeep
  BY <1>1, <1>2 DEF CallsKeep, CallKeeps, Armed
<1>4. JobsKeep
  BY <1>1 DEF JobsKeep, JobKeeps, JobEnds, JobStays, Owning
<1> QED
  BY <1>3, <1>4

\* A call goes from one step of a dispatch to the next.
LEMMA OwnerGoto ==
    ASSUME CallInv, NEW p \in Handlers, Armed(p), NEW pc \in Owners, Goto(p, pc)
    PROVE  CallsKeep
<1>1. call'[p] = [call[p] EXCEPT !.pc = pc]
      /\ \A q \in Handlers \ {p} : call'[q] = call[q]
  BY DEF Goto, CallInv
<1>2. /\ call'[p].pc = pc /\ call'[p].row = call[p].row
      /\ call'[p].sess = call[p].sess
  BY <1>1, CallType DEF Call
<1> QED
  BY <1>1, <1>2 DEF CallsKeep, CallKeeps, Armed

LEMMA OwnRoute ==
    ASSUME Parts, OwnInv, "reset" \notin Ops, NEW p \in Handlers, Route(p)
    PROVE  OwnInv'
<1> USE DEF Parts
<1>1. call[p].row \in Rows /\ call[p].sess \in Sessions /\ call[p].pc = "route"
  BY AtRow, RowPcs DEF Route, At, Dispatching
<1>2. Armed(p) /\ {"plain", "giveBack", "able"} \subseteq Owners
  BY <1>1 DEF Armed, Owners, Dispatching
<1>3. UNCHANGED <<row, boot>> /\ boot = "up"
  BY DEF Route, At, storeVars
<1>4. CallsKeep /\ JobsKeep
  <2>1. CASE Register(p, call[p].row, call[p].sess)
    BY <1>1, <1>2, <2>1, RegisterKeeps
  <2>2. CASE ~Register(p, call[p].row, call[p].sess)
    <3>1. PICK pc \in {"plain", "giveBack", "able"} : Goto(p, pc) /\ UNCHANGED job
      BY <2>2 DEF Route, jobVars
    <3>2. JobsKeep
      BY <3>1 DEF JobsKeep, JobKeeps, Owning
    <3> QED
      BY <1>2, <3>1, <3>2, OwnerGoto
  <2> QED
    BY <2>1, <2>2
<1> QED
  BY <1>3, <1>4, RowsAlone, OwnKept DEF BootKeeps

LEMMA OwnFire ==
    ASSUME Parts, OwnInv, "reset" \notin Ops, NEW p \in Handlers,
           SendFire(p) \/ FireCas(p) \/ FireCheck(p)
    PROVE  OwnInv'
<1> USE DEF Parts
<1>1. PICK pc \in {"made", "cas", "check"} : At(p, pc)
  BY DEF SendFire, FireCas, FireCheck
<1>2. /\ call[p].row \in Rows /\ call[p].sess \in Sessions /\ call[p].pc = pc
      /\ boot = "up"
  BY <1>1, AtRow, RowPcs DEF At, Dispatching
<1>3. Armed(p) /\ {"enq", "check"} \subseteq Owners
  BY <1>2 DEF Armed, Owners, Dispatching
<1>4. UNCHANGED boot
  BY DEF SendFire, FireCas, FireCheck
<1>5. CASE SendFire(p)
  <2>1. CASE Register(p, call[p].row, call[p].sess)
    <3>1. UNCHANGED row
      BY <1>5 DEF SendFire, storeVars
    <3> QED
      BY <1>2, <1>3, <1>4, <2>1, <3>1, RegisterKeeps, RowsAlone, OwnKept DEF BootKeeps
  <2>2. CASE Return(p) /\ UNCHANGED jobVars
    <3>1. UNCHANGED row
      BY <1>5 DEF SendFire, storeVars
    <3>2. CallMoves /\ JobMoves
      BY <2>2, MovesReturn, JobsSame DEF jobVars
    <3> QED
      BY <1>2, <1>4, <3>1, <3>2, MovesKeep, RowsAlone, OwnKept DEF BootKeeps
  <2> QED
    BY <1>5, <2>1, <2>2 DEF SendFire
<1>6. CASE FireCas(p)
  <2>1. CallsKeep
    BY <1>3, <1>6, OwnerGoto DEF FireCas
  <2>2. JobsKeep
    BY <1>6 DEF FireCas, jobVars, JobsKeep, JobKeeps, Owning
  <2>3. PICK r \in Rows : r = call[p].row
    BY <1>2
  <2>4. CASE UNCHANGED row
    BY <1>2, <1>4, <2>1, <2>2, <2>4, RowsAlone, OwnKept DEF BootKeeps
  <2>5. CASE Pending(r) /\ SetRow(r, [row[r] EXCEPT !.phase = "waiting"])
    <3>1. \A k \in Jobs : job[k].pc = "paste" => job[k].row # r
      BY <1>3, <2>3, <2>5 DEF OwnInv, CallOrJob, Owning, Gone, Pending
    <3>2. /\ row'[r] = [row[r] EXCEPT !.phase = "waiting"]
          /\ \A q \in Rows \ {r} : row'[q] = row[q]
      BY <2>5 DEF SetRow, RowInv
    <3>3. /\ row'[r].status = row[r].status /\ row'[r].claimed = row[r].claimed
          /\ row'[r].sess = row[r].sess
      BY <3>2, RowType DEF Row
    <3>4. RowsKeep
      BY <3>1, <3>2, <3>3 DEF RowsKeep, RowKeeps, RowSame
    <3> QED
      BY <1>2, <1>4, <2>1, <2>2, <3>4, OwnKept DEF BootKeeps
  <2> QED
    BY <1>6, <2>3, <2>4, <2>5 DEF FireCas
<1>7. CASE FireCheck(p)
  <2>1. CASE Goto(p, "enq") /\ UNCHANGED jobVars
    <3>1. CallsKeep
      BY <1>3, <2>1, OwnerGoto
    <3>2. JobsKeep
      BY <2>1 DEF jobVars, JobsKeep, JobKeeps, Owning
    <3>3. UNCHANGED row
      BY <1>7 DEF FireCheck, storeVars
    <3> QED
      BY <1>2, <1>4, <3>1, <3>2, <3>3, RowsAlone, OwnKept DEF BootKeeps
  <2>2. CASE Return(p) /\ job' = [job EXCEPT ![call[p].job] = OffJob]
    <3>1. CallsKeep
      BY <2>2, MovesReturn DEF CallMoves, CallStays, CallsKeep, CallKeeps
    <3>2. JobsKeep
      BY <2>2 DEF JobInv, OffJob, JobsKeep, JobKeeps, Owning
    <3>3. UNCHANGED row
      BY <1>7 DEF FireCheck, storeVars
    <3> QED
      BY <1>2, <1>4, <3>1, <3>2, <3>3, RowsAlone, OwnKept DEF BootKeeps
  <2> QED
    BY <1>7, <2>1, <2>2 DEF FireCheck
<1> QED
  BY <1>5, <1>6, <1>7

-----------------------------------------------------------------------------
(* The steps that hand a row over: a claim, a fired job's entry to the queue, *)
(* the compare-and-set of its delivery, and a crash.                         *)

\* Call p claims row r.
LEMMA OwnGain ==
    ASSUME Parts, OwnInv, NEW p \in Handlers, NEW r \in Rows, NEW x, SetRow(r, x),
           x.status = "pending", x.claimed = TRUE,
           call'[p].pc \in Owners, call'[p].row = r, call'[p].sess = x.sess,
           \A q \in Handlers \ {p} : call'[q] = call[q],
           UNCHANGED <<job, boot>>, boot = "up", ~Claimed(r), ~Gone(r),
           \A q \in Handlers \ {p} : Taking(q) => call[q].row # r
    PROVE  OwnInv'
<1> USE DEF Parts
<1>1. row'[r] = x /\ \A q \in Rows \ {r} : row'[q] = row[q]
  BY DEF SetRow, RowInv
<1>2. \A q \in Handlers \ {p} : Armed(q) => call[q].row \in Rows \ {r}
  BY OwnRows DEF OwnInv, CallsOwn, Owned
<1>3. \A k \in Jobs : Owning(k) => job[k].row \in Rows \ {r}
  BY OwnRows DEF OwnInv, JobsOwn, Owned
<1>4. Owners \cap (Resetting \cup {"take", "takeNow"}) = {}
  BY PcKinds
<1>5. \A q \in Handlers \ {p} : Armed(q)' <=> Armed(q)
  BY DEF Armed
<1>6. \A k \in Jobs : Owning(k)' <=> Owning(k)
  BY DEF Owning
<1>7. TakesUnused'
  <2> SUFFICES ASSUME NEW q \in Handlers, Taking(q)'
               PROVE  /\ row'[call'[q].row].status = "unused"
                      /\ \A o \in Handlers : call'[o].row = call'[q].row => o = q
    BY DEF TakesUnused
  <2>1. q # p /\ Taking(q) /\ call'[q] = call[q]
    BY <1>4 DEF Taking
  <2>2. call[q].row \in Rows \ {r} /\ row[call[q].row].status = "unused"
    BY <2>1, OwnRows DEF OwnInv, TakesUnused
  <2> QED
    BY <1>1, <2>1, <2>2 DEF OwnInv, TakesUnused
<1>8. CallsOwn'
  <2> SUFFICES ASSUME NEW q \in Handlers, Armed(q)' PROVE Owned(call[q])'
    BY DEF CallsOwn
  <2>1. CASE q = p
    BY <1>1, <2>1 DEF Owned, Claimed, Pending
  <2>2. CASE q # p
    BY <1>1, <1>2, <1>5, <2>2 DEF OwnInv, CallsOwn, Owned, Gone, Claimed, Pending
  <2> QED
    BY <2>1, <2>2
<1>9. JobsOwn'
  BY <1>1, <1>3, <1>6 DEF OwnInv, JobsOwn, Owned, Gone, Claimed, Pending
<1>10. OneCall'
  BY <1>1, <1>2, <1>5 DEF OwnInv, OneCall, Gone
<1>11. OneJob'
  BY <1>1, <1>3, <1>6 DEF OwnInv, OneJob, Gone
<1>12. CallOrJob'
  BY <1>1, <1>2, <1>3, <1>5, <1>6 DEF OwnInv, CallOrJob, Gone
<1>13. PastePhase'
  <2> SUFFICES ASSUME NEW k \in Jobs, job[k].pc = "paste"
               PROVE  Gone(job[k].row)' \/ row'[job[k].row].phase = "pasting"
    BY DEF PastePhase, Gone
  <2>1. job[k].row \in Rows \ {r}
    BY <1>3 DEF Owning
  <2> QED
    BY <1>1, <2>1 DEF OwnInv, PastePhase, Gone
<1>14. BootQuiet' /\ NoReset'
  BY <1>4 DEF OwnInv, BootQuiet, NoReset
<1> QED
  BY <1>7, <1>8, <1>9, <1>10, <1>11, <1>12, <1>13, <1>14 DEF OwnInv

LEMMA OwnClaim ==
    ASSUME Parts, OwnInv, NEW p \in Handlers, NEW r \in Rows, At(p, "off"),
           Claim(p, r)
    PROVE  OwnInv'
<1> USE DEF Parts
<1> DEFINE x == [row[r] EXCEPT !.claimed = TRUE]
<1>1. /\ SetRow(r, x) /\ row[r].status = "pending" /\ ~row[r].claimed
      /\ UNCHANGED <<job, boot>> /\ boot = "up"
  BY DEF Claim, Pending, jobVars, At
<1>2. x.status = "pending" /\ x.claimed = TRUE /\ x.sess = row[r].sess
  BY <1>1, RowType DEF Row
<1>3. /\ call'[p].pc = "route" /\ call'[p].row = r /\ call'[p].sess = row[r].sess
      /\ \A q \in Handlers \ {p} : call'[q] = call[q]
  <2> DEFINE b == Begin("route", r, row[r].sess)
             y == [b EXCEPT !.held = HeldBy(row[r]), !.imm = row[r].imm]
  <2>1. y.pc = "route" /\ y.row = r /\ y.sess = row[r].sess
    BY DEF Begin, OffCall
  <2>2. call' = [call EXCEPT ![p] = y]
    BY DEF Claim
  <2> QED
    BY <2>1, <2>2 DEF CallInv
<1>4. \A q \in Handlers \ {p} : Taking(q) => call[q].row # r
  BY <1>1 DEF OwnInv, TakesUnused
<1>5. "route" \in Owners
  BY DEF Owners, Dispatching
<1> HIDE DEF x
<1> QED
  BY <1>1, <1>2, <1>3, <1>4, <1>5, OwnGain DEF Claimed, Gone

LEMMA OwnSend ==
    ASSUME Parts, OwnInv, "reset" \notin Ops, NEW p \in Callers, SendTake(p)
    PROVE  OwnInv'
<1> USE DEF Parts
<1>1. /\ p \in Handlers /\ call[p].pc = "takeNow" /\ call[p].row \in Rows
      /\ UNCHANGED <<job, boot>> /\ boot = "up"
  BY CallerIsHandler, AtRow, RowPcs DEF SendTake, At, jobVars
<1>2. PICK r \in Rows : r = call[p].row
  BY <1>1
<1>3. CASE Return(p) /\ UNCHANGED row
  BY <1>1, <1>3, MovesReturn, JobsSame, MovesKeep, RowsAlone, OwnKept DEF BootKeeps
<1>4. CASE ~(Return(p) /\ UNCHANGED row)
  <2>1. PICK cs : /\ SetRow(r, [Blank("pending") EXCEPT
                                  !.claimed = TRUE, !.phase = "waiting",
                                  !.sess = call[p].sess, !.imm = TRUE, !.tmux = TRUE,
                                  !.pay = "held", !.snap = cs])
                  /\ Goto(p, "made")
    BY <1>2, <1>4 DEF SendTake, storeVars
  <2> DEFINE x == [Blank("pending") EXCEPT
                     !.claimed = TRUE, !.phase = "waiting",
                     !.sess = call[p].sess, !.imm = TRUE, !.tmux = TRUE,
                     !.pay = "held", !.snap = cs]
  <2>2. SetRow(r, x) /\ x.status = "pending" /\ x.claimed = TRUE
        /\ x.sess = call[p].sess
    BY <2>1 DEF Blank
  <2>3. call'[p] = [call[p] EXCEPT !.pc = "made"]
        /\ \A q \in Handlers \ {p} : call'[q] = call[q]
    BY <1>1, <2>1 DEF Goto, CallInv
  <2>4. /\ call'[p].pc = "made" /\ call'[p].row = r
        /\ call'[p].sess = call[p].sess
    BY <1>1, <1>2, <2>3, CallType DEF Call
  <2>5. /\ row[r].status = "unused"
        /\ \A q \in Handlers \ {p} : Taking(q) => call[q].row # r
    BY <1>1, <1>2 DEF OwnInv, TakesUnused, Taking
  <2>6. "made" \in Owners
    BY DEF Owners
  <2>7. ~Claimed(r) /\ ~Gone(r)
    BY <2>5 DEF Claimed, Pending, Gone
  <2> HIDE DEF x
  <2>8. /\ call'[p].pc \in Owners /\ call'[p].row = r
        /\ call'[p].sess = x.sess
    BY <2>2, <2>4, <2>6
  <2>9. \A q \in Handlers \ {p} : call'[q] = call[q]
    BY <2>3
  <2> QED
    BY <1>1, <2>2, <2>5, <2>7, <2>8, <2>9, OwnGain, ZenonT(20)
<1> QED
  BY <1>3, <1>4

\* The call hands its row to the job it queues.
LEMMA OwnEnqueue ==
    ASSUME Parts, OwnInv, FireJobs, NEW p \in Handlers, FireEnqueue(p)
    PROVE  OwnInv'
<1> USE DEF Parts
<1>1. /\ call[p].pc = "enq" /\ call[p].row \in Rows /\ call[p].job \in Jobs
      /\ boot = "up" /\ UNCHANGED <<row, boot>>
  BY AtRow, RowPcs DEF FireEnqueue, At, storeVars, Dispatching
<1>2. PICK k \in Jobs : k = call[p].job
  BY <1>1
<1>3. Armed(p)
  BY <1>1 DEF Armed, Owners, Dispatching
<1>4. /\ job[k].pc = "fire" /\ job[k].row = call[p].row
      /\ job[k].sess = call[p].sess
  BY <1>1, <1>2 DEF FireJobs, Firing
<1>5. /\ job'[k].pc = "queued" /\ job'[k].row = call[p].row
      /\ job'[k].sess = call[p].sess
      /\ \A l \in Jobs \ {k} : job'[l] = job[l]
  <2> DEFINE ls == {l \in Jobs : InJob(l, "queued") /\ job[l].sess = job[k].sess}
  <2>1. job' = [job EXCEPT ![k].pc = "queued", ![k].ahead = ls]
    BY <1>2 DEF FireEnqueue
  <2>2. job'[k] = [job[k] EXCEPT !.pc = "queued", !.ahead = ls]
        /\ \A l \in Jobs \ {k} : job'[l] = job[l]
    BY <2>1 DEF JobInv
  <2> QED
    BY <1>4, <2>2, JobType DEF Job
<1>6. call'[p] = OffCall /\ \A q \in Handlers \ {p} : call'[q] = call[q]
  BY DEF FireEnqueue, Return, CallInv
<1>7. "off" \notin Owners \cup Resetting \cup {"take", "takeNow"}
      /\ OffCall.pc = "off" /\ OffCall.row = None /\ None \notin Rows
  BY PcKinds, DeliveryAssumption DEF OffCall
<1>8. \A q \in Handlers : Armed(q)' => q # p /\ Armed(q) /\ call'[q] = call[q]
  BY <1>6, <1>7 DEF Armed
<1>9. \A l \in Jobs \ {k} : Owning(l)' => Owning(l) /\ job'[l] = job[l]
  BY <1>5 DEF Owning
<1>10. Owned(call[p])
  BY <1>3 DEF OwnInv, CallsOwn
<1>11. TakesUnused'
  <2> SUFFICES ASSUME NEW q \in Handlers, Taking(q)'
               PROVE  /\ row[call'[q].row].status = "unused"
                      /\ \A o \in Handlers : call'[o].row = call'[q].row => o = q
    BY <1>1 DEF TakesUnused
  <2>1. q # p /\ Taking(q) /\ call'[q] = call[q] /\ call[q].row \in Rows
    BY <1>6, <1>7, OwnRows DEF Taking
  <2> QED
    BY <1>6, <1>7, <2>1 DEF OwnInv, TakesUnused
<1>12. CallsOwn'
  BY <1>1, <1>8 DEF OwnInv, CallsOwn, Owned, Gone, Claimed, Pending
<1>13. JobsOwn'
  <2> SUFFICES ASSUME NEW l \in Jobs, Owning(l)' PROVE Owned(job[l])'
    BY DEF JobsOwn
  <2>1. CASE l = k
    BY <1>1, <1>5, <1>10, <2>1 DEF Owned, Gone, Claimed, Pending
  <2>2. CASE l # k
    BY <1>1, <1>9, <2>2 DEF OwnInv, JobsOwn, Owned, Gone, Claimed, Pending
  <2> QED
    BY <2>1, <2>2
<1>14. OneCall'
  BY <1>1, <1>8 DEF OwnInv, OneCall, Gone
<1>15. ASSUME NEW l \in Jobs \ {k}, Owning(l)', job'[l].row = call[p].row
       PROVE  FALSE
  BY <1>3, <1>9, <1>15 DEF OwnInv, CallOrJob
<1>16. OneJob'
  <2> SUFFICES ASSUME NEW l \in Jobs, NEW m \in Jobs, Owning(l)', Owning(m)',
                      job'[l].row = job'[m].row, l # m
               PROVE  FALSE
    BY DEF OneJob
  <2>1. CASE l = k \/ m = k
    BY <1>5, <1>15, <2>1 DEF Gone
  <2>2. CASE l # k /\ m # k
    BY <1>9, <2>2 DEF OwnInv, OneJob, Gone
  <2> QED
    BY <2>1, <2>2
<1>17. CallOrJob'
  <2> SUFFICES ASSUME NEW q \in Handlers, NEW l \in Jobs, Armed(q)', Owning(l)',
                      call'[q].row = job'[l].row
               PROVE  FALSE
    BY DEF CallOrJob
  <2>1. CASE l = k
    BY <1>3, <1>5, <1>8, <2>1 DEF OwnInv, OneCall, Gone
  <2>2. CASE l # k
    BY <1>8, <1>9, <2>2 DEF OwnInv, CallOrJob, Gone
  <2> QED
    BY <2>1, <2>2
<1>18. PastePhase'
  <2> SUFFICES ASSUME NEW l \in Jobs, job'[l].pc = "paste"
               PROVE  \/ row[job'[l].row].status = "gone"
                      \/ row[job'[l].row].phase = "pasting"
    BY <1>1 DEF PastePhase, Gone
  <2>1. l # k /\ job'[l] = job[l]
    BY <1>5
  <2> QED
    BY <2>1 DEF OwnInv, PastePhase, Gone
<1>19. BootQuiet'
  BY <1>1 DEF BootQuiet
<1>20. NoReset'
  BY <1>6, <1>7 DEF OwnInv, NoReset
<1> QED
  BY <1>11, <1>12, <1>13, <1>14, <1>16, <1>17, <1>18, <1>19, <1>20 DEF OwnInv

\* The job that wins its row.
LEMMA OwnWin ==
    ASSUME Parts, OwnInv, NEW k \in Jobs, DeliverCas(k), JobGoto(k, "paste")
    PROVE  OwnInv'
<1> USE DEF Parts
<1>1. job[k].pc = "cas" /\ UNCHANGED <<call, boot>>
  BY DEF DeliverCas, InJob
<1>2. Owning(k)
  BY <1>1 DEF Owning
<1>3. PICK r \in Rows : r = job[k].row
  BY <1>2, OwnRows
<1>4. job'[k] = [job[k] EXCEPT !.pc = "paste"]
      /\ \A l \in Jobs \ {k} : job'[l] = job[l]
  BY DEF JobGoto, JobInv
<1>5. job'[k].pc = "paste" /\ job'[k].row = r /\ job'[k].sess = job[k].sess
  BY <1>3, <1>4, JobType DEF Job
<1>6. Waiting(r) /\ SetRow(r, [row[r] EXCEPT !.phase = "pasting"])
  <2>1. ~EndJob(k)
    BY <1>5 DEF EndJob, JobInv, OffJob
  <2> QED
    BY <1>3, <2>1 DEF DeliverCas
<1>7. row'[r] = [row[r] EXCEPT !.phase = "pasting"]
      /\ \A q \in Rows \ {r} : row'[q] = row[q]
  BY <1>6 DEF SetRow, RowInv
<1>8. /\ row'[r].phase = "pasting" /\ row'[r].status = row[r].status
      /\ row'[r].claimed = row[r].claimed /\ row'[r].sess = row[r].sess
  BY <1>7, RowType DEF Row
<1>9. \A q \in Rows : /\ row'[q].status = row[q].status
                      /\ row'[q].claimed = row[q].claimed
                      /\ row'[q].sess = row[q].sess
  BY <1>7, <1>8
<1>10. \A l \in Jobs : /\ Owning(l)' <=> Owning(l)
                       /\ job'[l].row = job[l].row /\ job'[l].sess = job[l].sess
  BY <1>2, <1>3, <1>4, <1>5 DEF Owning
<1>11. TakesUnused' /\ CallsOwn' /\ OneCall' /\ NoReset'
  <2>1. TakesUnused'
    BY <1>1, <1>9, OwnRows DEF OwnInv, TakesUnused, Taking
  <2>2. CallsOwn'
    BY <1>1, <1>9, OwnRows DEF OwnInv, CallsOwn, Armed, Owned, Gone, Claimed, Pending
  <2>3. OneCall'
    BY <1>1, <1>9, OwnRows DEF OwnInv, OneCall, Armed, Gone
  <2> QED
    BY <1>1, <2>1, <2>2, <2>3 DEF OwnInv, NoReset
<1>12. JobsOwn'
  BY <1>9, <1>10, OwnRows DEF OwnInv, JobsOwn, Owned, Gone, Claimed, Pending
<1>13. OneJob'
  BY <1>9, <1>10, OwnRows DEF OwnInv, OneJob, Gone
<1>14. CallOrJob'
  BY <1>1, <1>9, <1>10, OwnRows DEF OwnInv, CallOrJob, Armed, Gone
<1>15. PastePhase'
  <2> SUFFICES ASSUME NEW l \in Jobs, job'[l].pc = "paste"
               PROVE  Gone(job[l].row)' \/ row'[job'[l].row].phase = "pasting"
    BY DEF PastePhase
  <2>1. CASE l = k
    BY <1>5, <1>8, <2>1
  <2>2. CASE l # k
    <3>1. job'[l] = job[l] /\ Owning(l)
      BY <1>4, <2>2 DEF Owning
    <3>2. job[l].row # r
      BY <1>2, <1>3, <1>6, <2>2, <3>1 DEF OwnInv, OneJob, Gone, Waiting, Pending
    <3> QED
      BY <1>7, <3>1, <3>2, OwnRows DEF OwnInv, PastePhase, Gone
  <2> QED
    BY <2>1, <2>2
<1>16. BootQuiet'
  BY <1>1, <1>2, <1>5 DEF OwnInv, BootQuiet, Owning
<1> QED
  BY <1>11, <1>12, <1>13, <1>14, <1>15, <1>16 DEF OwnInv

LEMMA OwnCrash ==
    ASSUME Crash
    PROVE  OwnInv'
<1>1. /\ \A p \in Handlers : call'[p].pc = "off"
      /\ \A k \in Jobs : job'[k].pc = "off"
  BY DEF Crash, OffCall, OffJob
<1>2. "off" \notin Owners \cup Resetting \cup {"take", "takeNow"}
  BY PcKinds
<1>3. /\ \A p \in Handlers : ~Armed(p)' /\ ~Taking(p)'
      /\ \A k \in Jobs : ~Owning(k)'
  BY <1>1, <1>2 DEF Armed, Taking, Owning
<1> QED
  BY <1>1, <1>2, <1>3 DEF OwnInv, TakesUnused, CallsOwn, JobsOwn, OneCall, OneJob,
     CallOrJob, PastePhase, BootQuiet, NoReset

LEMMA OwnStep ==
    ASSUME Parts, FireJobs, OwnInv, "reset" \notin Ops, [Next]_vars
    PROVE  OwnInv'
<1>1. CASE UNCHANGED vars
  <2>1. UNCHANGED <<row, call, job, boot>>
    BY <1>1 DEF vars, storeVars, jobVars
  <2> QED
    BY <2>1, MovesSame, JobsSame, MovesKeep, RowsAlone, OwnKept DEF BootKeeps
<1>2. ASSUME NEW r \in Rows, Poll(r) PROVE OwnInv'
  BY <1>2, OwnClaim DEF Poll, Handlers
<1>3. ASSUME NEW p \in Callers, NEW r \in Rows, SendNow(p, r) PROVE OwnInv'
  BY <1>3, OwnClaim, CallerIsHandler DEF SendNow, Starts
<1>4. ASSUME NEW p \in Callers, Request(p) PROVE OwnInv'
  BY <1>3, <1>4, OwnUserStart, OwnUser, OwnReset, OwnDelete, OwnTake DEF Request
<1>5. ASSUME NEW p \in Callers, Proceed(p) PROVE OwnInv'
  BY <1>5, OwnUser, OwnReset, OwnDelete, OwnSend DEF Proceed
<1>6. ASSUME NEW p \in Handlers, Fire(p) PROVE OwnInv'
  BY <1>6, OwnFire, OwnEnqueue DEF Fire
<1>7. ASSUME NEW k \in Jobs, WorkerNext(k) \/ Work(k) \/ TickTimeout(k)
      PROVE  OwnInv'
  <2>1. CASE DeliverCas(k) /\ job'[k].pc = "paste"
    <3>1. ~EndJob(k)
      BY <2>1 DEF EndJob, Parts, JobInv, OffJob
    <3>2. JobGoto(k, "paste")
      BY <2>1, <3>1 DEF DeliverCas
    <3> QED
      BY <2>1, <3>2, OwnWin
  <2>2. CASE ~(DeliverCas(k) /\ job'[k].pc = "paste")
    BY <1>7, <2>2, OwnWork
  <2> QED
    BY <2>1, <2>2
<1> QED
  BY <1>1, <1>2, <1>4, <1>5, <1>6, <1>7, OwnRoute, OwnJson, OwnOther, OwnCrash
     DEF Next

LEMMA OwnInit == Init => OwnInv
<1>1. ASSUME Init
      PROVE  /\ \A p \in Handlers : call[p].pc = "off"
             /\ \A k \in Jobs : job[k].pc = "off"
             /\ boot = "up"
  BY <1>1 DEF Init, OffCall, OffJob
<1>2. "off" \notin Owners \cup Resetting \cup {"take", "takeNow"}
  BY PcKinds
<1> QED
  BY <1>1, <1>2 DEF OwnInv, TakesUnused, CallsOwn, JobsOwn, OneCall, OneJob,
     CallOrJob, PastePhase, BootQuiet, NoReset, Armed, Taking, Owning

LEMMA OwnPastes == TypeInv /\ OwnInv => PastesAsOwner
<1> SUFFICES ASSUME TypeInv, OwnInv, NEW k \in Jobs, job[k].pc = "paste",
                    row[job[k].row].status # "gone"
             PROVE  /\ row[job[k].row].phase = "pasting"
                    /\ row[job[k].row].sess = job[k].sess
                    /\ \A l \in Jobs \ {k} :
                          job[l].row = job[k].row => job[l].pc # "paste"
  BY DEF PastesAsOwner
<1>1. Owning(k)
  BY DEF Owning
<1>2. row[job[k].row].phase = "pasting" /\ row[job[k].row].sess = job[k].sess
  BY <1>1 DEF OwnInv, PastePhase, JobsOwn, Owned, Gone
<1>3. ASSUME NEW l \in Jobs \ {k}, job[l].row = job[k].row, job[l].pc = "paste"
      PROVE  FALSE
  <2>1. Owning(l)
    BY <1>3 DEF Owning
  <2> QED
    BY <1>1, <1>3, <2>1 DEF OwnInv, OneJob, Gone
<1> QED
  BY <1>2, <1>3

\* Where no session is reset: while a job pastes the message of a row, the row
\* is its alone, marked as pasting and of the job's session.  It is the claim
\* and the compare-and-set of the store, and the jobs a new registration or a
\* cancel stops, that see to it.  A reset that moves the row breaks this.
THEOREM PastesOwned ==
    ASSUME "reset" \notin Ops
    PROVE  Spec => []PastesAsOwner
<1>1. TypeInv /\ OwnInv /\ [Next]_vars => (TypeInv /\ OwnInv)'
  <2>1. (Parts /\ FireJobs)' => TypeInv'
    BY TypeIsParts, PTL
  <2> QED
    BY <2>1, TypeIsParts, TypeStep, FireStep, OwnStep
<1> QED
  BY <1>1, TypeInit, OwnInit, OwnPastes, PTL DEF Spec

\* Where no session is reset: a row has one owner, the call that dispatches it
\* or the job that has it, never two, not even once it is deleted.
THEOREM OneOwner ==
    ASSUME "reset" \notin Ops
    PROVE  Spec => [](OneCall /\ OneJob /\ CallOrJob)
<1>1. TypeInv /\ OwnInv /\ [Next]_vars => (TypeInv /\ OwnInv)'
  <2>1. (Parts /\ FireJobs)' => TypeInv'
    BY TypeIsParts, PTL
  <2> QED
    BY <2>1, TypeIsParts, TypeStep, FireStep, OwnStep
<1>2. OwnInv => OneCall /\ OneJob /\ CallOrJob
  BY DEF OwnInv
<1> QED
  BY <1>1, <1>2, TypeInit, OwnInit, PTL DEF Spec

=============================================================================
