------------------------- MODULE TaskRegistryProofs -------------------------
(***************************************************************************)
(* Proofs about TaskTable and TaskRegistry, for every set of tasks, every    *)
(* cap, hold, staleness, grace and probe period, and every bound on the      *)
(* transcript: every state is well typed, and, when the runtime runs what it *)
(* was given before time goes on, the hold the lifecycle reads and the rows  *)
(* the clients show are those a fresh look at the table would give.          *)
(*                                                                           *)
(* First the folds, then the table: what an observation leaves of the rows   *)
(* and of the count of holds, when a row is due, and that a timer which       *)
(* sleeps past no deadline finds no row due before.  Then the registry: the   *)
(* types, the invariant, and one lemma for every action.                     *)
(***************************************************************************)
EXTENDS TaskRegistry, FiniteSetTheorems, WellFoundedInduction, TLAPS

-----------------------------------------------------------------------------
(* Least elements, and what a fold keeps.  The transcript, the parked signals *)
(* and the buffered operations are gone through by folds over the indices of  *)
(* a sequence.                                                               *)

\* A set of numbers has a least one.
LEMMA NatMin ==
  ASSUME NEW T, T \subseteq Nat, T # {}
  PROVE  \E x \in T : \A y \in T : x <= y
<1> DEFINE R == {ss \in Nat \X Nat : ss[1] < ss[2]}
<1>1. IsWellFoundedOn(R, Nat)
  BY NatLessThanWellFounded DEF OpToRel
<1> HIDE DEF R
<1>2. \E x \in T : \A y \in T : ~ (<<y, x>> \in R)
  BY <1>1, WFMin
<1>3. \A x, y \in T : ~(<<y, x>> \in R) => x <= y
  BY DEF R
<1> QED BY <1>2, <1>3

\* Among subsets of a finite set there is one with no smaller one among them.
LEMMA SetMin ==
  ASSUME NEW D, IsFiniteSet(D), NEW U, U \subseteq SUBSET D, U # {}
  PROVE  \E u \in U : \A v \in SUBSET u : v \in U => v = u
<1> DEFINE F == FiniteSubsetsOf(D)
           R == StrictSubsetOrdering(D)
<1>1. U \subseteq F
  BY FS_Subset DEF FiniteSubsetsOf
<1>2. IsWellFoundedOn(R, F)
  BY FS_StrictSubsetOrderingWellFounded
<1>3. \A u, v \in U : v \in SUBSET u /\ v # u => <<v, u>> \in R
  BY DEF StrictSubsetOrdering
<1> HIDE DEF F, R
<1>4. \E u \in U : \A v \in U : ~ (<<v, u>> \in R)
  BY <1>1, <1>2, WFMin
<1> QED BY <1>3, <1>4

\* A choice from every non-empty part of D.
Chooses(pick, D) == \A s \in SUBSET D : s # {} => pick[s] \in s
\* One step of a fold stays in A.
Steps(G, D, A) == \A d \in D, a \in A : G[<<d, a>>] \in A
\* A fold over D: the base, then one step for the element chosen.
HasFold(D, A, base, pick, G) ==
  \E f \in [SUBSET D -> A] :
     /\ f[{}] = base
     /\ \A s \in SUBSET D : s # {} => f[s] = G[<<pick[s], f[s \ {pick[s]}]>>]

\* Over a finite set such a fold exists.
LEMMA FoldExists ==
  ASSUME NEW D, IsFiniteSet(D), NEW A, NEW base \in A, NEW pick,
         Chooses(pick, D), NEW G, Steps(G, D, A)
  PROVE  HasFold(D, A, base, pick, G)
<1> USE DEF Chooses, Steps
<1> DEFINE Less(s) == s \ {pick[s]}
           Rhs(f, s) == IF s = {} THEN base ELSE G[<<pick[s], f[Less(s)]>>]
           Sol(u, f) == /\ f \in [SUBSET u -> A]
                        /\ \A s \in SUBSET u : f[s] = Rhs(f, s)
<1>1. \A u, v \in SUBSET D : \A f, g : Sol(u, f) /\ Sol(v, g)
        => \A s \in (SUBSET u) \cap (SUBSET v) : f[s] = g[s]
  <2> TAKE u, v \in SUBSET D
  <2> TAKE f, g
  <2> HAVE Sol(u, f) /\ Sol(v, g)
  <2> DEFINE Bad == {s \in (SUBSET u) \cap (SUBSET v) : f[s] # g[s]}
  <2>1. SUFFICES ASSUME Bad # {} PROVE FALSE
    OBVIOUS
  <2>2. Bad \subseteq SUBSET D
    OBVIOUS
  <2>3. PICK s \in Bad : \A w \in SUBSET s : w \in Bad => w = s
    <3> HIDE DEF Bad
    <3> QED BY <2>1, <2>2, SetMin
  <2>4. s # {}
    OBVIOUS
  <2>5. pick[s] \in s
    BY <2>2, <2>3, <2>4
  <2>6. Less(s) \in (SUBSET u) \cap (SUBSET v) /\ Less(s) \in SUBSET s /\ Less(s) # s
    BY <2>5
  <2>7. f[Less(s)] = g[Less(s)]
    BY <2>3, <2>6
  <2>8. f[s] = G[<<pick[s], f[Less(s)]>>] /\ g[s] = G[<<pick[s], g[Less(s)]>>]
    BY <2>4
  <2> QED BY <2>7, <2>8
<1>2. \A u \in SUBSET D : \E f : Sol(u, f)
  <2> DEFINE Bad == {u \in SUBSET D : ~ \E f : Sol(u, f)}
  <2>1. SUFFICES ASSUME Bad # {} PROVE FALSE
    OBVIOUS
  <2>2. PICK u \in Bad : \A w \in SUBSET u : w \in Bad => w = u
    <3> Bad \subseteq SUBSET D
      OBVIOUS
    <3> HIDE DEF Bad
    <3> QED BY <2>1, SetMin
  <2> DEFINE Fn(w) == CHOOSE f : Sol(w, f)
             val(w) == Fn(w)[w]
             h == [s \in SUBSET u |-> IF s = {} THEN base
                                      ELSE G[<<pick[s], val(Less(s))>>]]
  <2>3. \A w \in SUBSET u : w # u => Sol(w, Fn(w))
    <3> SUFFICES ASSUME NEW w \in SUBSET u, w # u PROVE Sol(w, Fn(w))
      OBVIOUS
    <3>1. \E f : Sol(w, f)
      BY <2>2
    <3> HIDE DEF Sol
    <3> QED BY <3>1
  <2>4. u \in SUBSET D
    OBVIOUS
  <2>5. \A s \in SUBSET u : s # {} => /\ pick[s] \in s /\ pick[s] \in D
                                      /\ Less(s) \in SUBSET s /\ Less(s) # s
                                      /\ Less(s) \in SUBSET u /\ Less(s) # u
    BY <2>4
  <2>6. \A w \in SUBSET u : w # u => val(w) \in A
    <3> SUFFICES ASSUME NEW w \in SUBSET u, w # u PROVE val(w) \in A
      OBVIOUS
    <3>1. Sol(w, Fn(w)) /\ w \in SUBSET w
      BY <2>3
    <3> HIDE DEF Fn
    <3> QED BY <3>1
  <2>7. \A w \in SUBSET u : w # u => val(w) = h[w]
    <3> SUFFICES ASSUME NEW w \in SUBSET u, w # u PROVE val(w) = h[w]
      OBVIOUS
    <3> HIDE DEF Fn
    <3>1. CASE w = {}
      BY <2>3, <3>1
    <3>2. CASE w # {}
      <4> DEFINE l == Less(w)
      <4>1. Sol(w, Fn(w)) /\ Sol(l, Fn(l))
        BY <2>3, <2>5, <3>2
      <4>2. l \in (SUBSET w) \cap (SUBSET l) /\ w \in SUBSET D /\ l \in SUBSET D
        BY <2>4, <2>5, <3>2
      <4>3. Fn(w)[l] = Fn(l)[l]
        <5> HIDE DEF Sol, l
        <5> QED BY <1>1, <4>1, <4>2
      <4>4. val(w) = G[<<pick[w], Fn(w)[l]>>]
        BY <4>1, <3>2
      <4> QED BY <4>3, <4>4, <3>2
    <3> QED BY <3>1, <3>2
  <2>8. h \in [SUBSET u -> A]
    <3> SUFFICES ASSUME NEW s \in SUBSET u, s # {}
                 PROVE  G[<<pick[s], val(Less(s))>>] \in A
      OBVIOUS
    <3> HIDE DEF val
    <3> QED BY <2>5, <2>6
  <2>9. \A s \in SUBSET u : h[s] = Rhs(h, s)
    <3> SUFFICES ASSUME NEW s \in SUBSET u, s # {}
                 PROVE  h[s] = G[<<pick[s], h[Less(s)]>>]
      <4> QED
        <5>1. h[{}] = base
          OBVIOUS
        <5> HIDE DEF h
        <5> QED BY <5>1
    <3>1. h[s] = G[<<pick[s], val(Less(s))>>]
      <4> HIDE DEF val
      <4> QED OBVIOUS
    <3> HIDE DEF h, val
    <3> QED BY <2>5, <2>7, <3>1
  <2>10. Sol(u, h)
    <3> HIDE DEF h
    <3> QED BY <2>8, <2>9
  <2> HIDE DEF h, Sol
  <2> QED BY <2>10, <2>2
<1>3. PICK f : Sol(D, f)
  BY <1>2
<1>4. /\ f[{}] = base
      /\ \A s \in SUBSET D : s # {} => f[s] = G[<<pick[s], f[s \ {pick[s]}]>>]
  BY <1>3
<1> QED BY <1>3, <1>4 DEF HasFold

\* What holds of a fold over s without its choice holds over s.
Inherits(f, pick, D, A) ==
  \A s \in SUBSET D : s # {} /\ f[s \ {pick[s]}] \in A[s \ {pick[s]}]
                     => f[s] \in A[s]

\* Then it holds over the whole of D.
LEMMA FoldTyped ==
  ASSUME NEW D, IsFiniteSet(D), NEW pick, Chooses(pick, D),
         NEW f, NEW A, f[{}] \in A[{}], Inherits(f, pick, D, A)
  PROVE  f[D] \in A[D]
<1> USE DEF Chooses, Inherits
<1> DEFINE Bad == {s \in SUBSET D : f[s] \notin A[s]}
<1>1. SUFFICES ASSUME Bad # {} PROVE FALSE
  OBVIOUS
<1>2. PICK s \in Bad : \A w \in SUBSET s : w \in Bad => w = s
  <2> Bad \subseteq SUBSET D
    OBVIOUS
  <2> HIDE DEF Bad
  <2> QED BY <1>1, SetMin
<1>3. s # {}
  OBVIOUS
<1>4. pick[s] \in s /\ s \ {pick[s]} \in SUBSET s
      /\ s \ {pick[s]} \in SUBSET D /\ s \ {pick[s]} # s
  BY <1>3
<1> QED BY <1>2, <1>3, <1>4

\* The index a fold over a sequence chooses.
LEMMA MaxIn ==
  ASSUME NEW n \in Nat, NEW s \in SUBSET (1..n), s # {}
  PROVE  Max(s) \in s /\ \A y \in s : y <= Max(s)
<1> DEFINE T == {k \in Nat : \E y \in s : k = n - y}
<1>1. T \subseteq Nat /\ T # {} /\ \A y \in s : n - y \in T
  <2> \A y \in s : n - y \in Nat
    OBVIOUS
  <2> QED OBVIOUS
<1>2. PICK m \in T : \A y \in T : m <= y
  <2> HIDE DEF T
  <2> QED BY <1>1, NatMin
<1>3. PICK x \in s : m = n - x
  OBVIOUS
<1>4. \A y \in s : x >= y
  <2> HIDE DEF T
  <2> QED BY <1>1, <1>2, <1>3
<1> QED BY <1>4 DEF Max

\* What every parked signal keeps is true when all of them have met the task
\* (adopt_early).
LEMMA UnparkIn ==
  ASSUME NEW t \in Tasks, NEW x, NEW V, NEW q \in Seq(V), NEW age, NEW P,
         [x |-> x, left |-> <<>>] \in P,
         \A a \in P, e \in V : (IF Matches(t, a.x, e)
                           THEN [a EXCEPT !.x = Meet(t, @, e, age)]
                           ELSE [a EXCEPT !.left = Append(@, e)]) \in P
  PROVE  Unpark(t, x, q, age) \in P
<1> DEFINE D == DOMAIN q
           base == [x |-> x, left |-> <<>>]
           Step(a, e) == IF Matches(t, a.x, e)
                           THEN [a EXCEPT !.x = Meet(t, @, e, age)]
                           ELSE [a EXCEPT !.left = Append(@, e)]
           G == [c \in D \X P |-> Step(c[2], q[c[1]])]
           pick == [s \in SUBSET D |-> Max(s)]
           Rec(g) == g = [s \in SUBSET D |->
                           IF s = {} THEN base
                           ELSE Step(g[s \ {Max(s)}], q[Max(s)])]
           iter == CHOOSE g : Rec(g)
<1>1. D = 1..Len(q) /\ Len(q) \in Nat /\ \A d \in D : q[d] \in V
  OBVIOUS
<1> HIDE DEF D
<1>2. IsFiniteSet(D)
  BY <1>1, FS_Interval
<1>3. Chooses(pick, D)
  BY <1>1, MaxIn DEF Chooses
<1>4. \A a \in P, e \in V : Step(a, e) \in P
  OBVIOUS
<1>5. \A d \in D, a \in P : G[<<d, a>>] = Step(a, q[d]) /\ G[<<d, a>>] \in P
  <2> HIDE DEF Step
  <2> QED BY <1>1, <1>4
<1>6. base \in P
  OBVIOUS
<1>7. \E f \in [SUBSET D -> P] : Rec(f)
  <2> HIDE DEF G, Step, base
  <2>1. HasFold(D, P, base, pick, G)
    <3> HIDE DEF pick
    <3>1. Steps(G, D, P)
      BY <1>5 DEF Steps
    <3> QED BY <1>2, <1>3, <3>1, <1>6, FoldExists
  <2>2. PICK f \in [SUBSET D -> P] :
           /\ f[{}] = base
           /\ \A s \in SUBSET D :
                s # {} => f[s] = G[<<pick[s], f[s \ {pick[s]}]>>]
    <3> HIDE DEF pick
    <3> QED BY <2>1 DEF HasFold
  <2>3. \A s \in SUBSET D : s # {} =>
           G[<<pick[s], f[s \ {pick[s]}]>>] = Step(f[s \ {Max(s)}], q[Max(s)])
    BY <1>3, <1>5 DEF Chooses
  <2>4. Rec(f)
    BY <2>2, <2>3
  <2> QED BY <2>4
<1>8. Rec(iter)
  <2> HIDE DEF Rec
  <2> QED BY <1>7
<1>9. iter[D] \in P
  <2> DEFINE A == [s \in SUBSET D |-> P]
  <2>1. iter[{}] \in A[{}]
    <3> HIDE DEF iter, Step, base
    <3> QED BY <1>6, <1>8
  <2>2. Inherits(iter, pick, D, A)
    <3> SUFFICES ASSUME NEW s \in SUBSET D, s # {},
                        iter[s \ {Max(s)}] \in P
                 PROVE  iter[s] \in P
      <4> HIDE DEF iter
      <4> QED BY DEF Inherits
    <3> HIDE DEF iter, Step
    <3> iter[s] = Step(iter[s \ {Max(s)}], q[Max(s)])
      BY <1>8
    <3> QED BY <1>1, <1>3, <1>4 DEF Chooses
  <2> HIDE DEF iter, pick, A
  <2>3. iter[D] \in A[D]
    BY <1>2, <1>3, <2>1, <2>2, FoldTyped
  <2> QED BY <2>3 DEF A
<1>10. Unpark(t, x, q, age) = iter[D]
  BY DEF Unpark, FoldLeft, MapThenFoldSet, D
<1> QED BY <1>9, <1>10

-----------------------------------------------------------------------------
(* Rows and tables.                                                          *)

\* The reason a running task shows: that it is paused, or why its hold lapsed.
WhyOf(x) == IF x.auth /\ x.paused THEN "paused"
            ELSE IF x.lapse # "none" THEN x.lapse ELSE ""
\* A running row shows its reason, and the cap is only given as one when it has
\* been reached: an age never goes back.
RowOK(x) == /\ Running(x) => x.why = WhyOf(x)
            /\ x.lapse = "cap" => x.begun >= Cap
\* Rows, and tables of them: only end signals stay parked in ends.
GoodTask == {x \in Task : RowOK(x)}
Ends == {e \in Event : e.k = "ended"}
GoodTable == [tasks : [Tasks -> GoodTask], launched : SUBSET Commands,
              early : Seq(Event), ends : Seq(Ends),
              held : 0..Cardinality(Tasks), quiet : 0..Grace]

\* The periods are positive numbers, and no age that matters is beyond Oldest.
LEMMA Numbers ==
  /\ Cap \in Nat /\ Cap > 0 /\ UnverifiedHold \in Nat /\ UnverifiedHold > 0
  /\ CommandStale \in Nat /\ CommandStale > 0
  /\ SubagentStale \in Nat /\ SubagentStale > 0
  /\ Expiry \in Nat /\ Expiry > 0 /\ Grace \in Nat /\ Grace > 0
  /\ ProbeFirst \in Nat /\ ProbeFirst > 0
  /\ ProbeInterval \in Nat /\ ProbeInterval > 0
  /\ Oldest \in Nat /\ Oldest >= Cap /\ Oldest >= Expiry /\ 0 \in Ages
BY TableAssumption DEF TableAssumption, Oldest, Ages

\* An age stays one, and never goes back.
LEMMA OlderAge == ASSUME NEW a \in Ages PROVE Older(a) \in Ages /\ Older(a) >= a
BY Numbers DEF Ages, Older, Least

\* Every change of a row leaves a sound row: of no task, of a new one,
LEMMA AbsentGood == Absent \in GoodTask
BY Numbers DEF Absent, GoodTask, Task, RowOK, Running

\* ... of one that ends,
LEMMA BornGood ==
  ASSUME NEW t \in Tasks, NEW age \in Ages PROVE Born(t, age) \in GoodTask
<1>1. (IF t \in WithFile THEN Most(0, ProbeFirst - age) ELSE Never)
        \in {Never} \cup 0..Most(ProbeFirst, ProbeInterval)
  BY Numbers DEF Most, Ages
<1>2. Born(t, age) \in Task
  <2> DEFINE p == IF t \in WithFile THEN Most(0, ProbeFirst - age) ELSE Never
             b == t \in Commands \cup Background
  <2>1. 0 \in Ages /\ b \in BOOLEAN
    BY Numbers
  <2>2. p \in {Never} \cup 0..Most(ProbeFirst, ProbeInterval)
    BY <1>1
  <2>3. Born(t, age) =
          [Absent EXCEPT !.st = "running", !.begun = age, !.idle = age,
             !.back = b,
             !.live = IF t \in WithFile THEN "pending" ELSE "unknown",
             !.probe = p]
    BY DEF Born
  <2> HIDE DEF p, b
  <2> QED BY <2>1, <2>2, <2>3 DEF Absent, Task
<1>3. RowOK(Born(t, age))
  BY DEF Born, Absent, RowOK, Running, WhyOf
<1> QED BY <1>2, <1>3 DEF GoodTask

\* ... of one that ends,
LEMMA EndGood ==
  ASSUME NEW x \in GoodTask, NEW age \in Ages,
         NEW why \in {"said", "settled", "turn", "exited"}
  PROVE  End(x, why, age) \in GoodTask
BY Numbers DEF End, GoodTask, Task, RowOK, Running

\* ... that goes stale,
LEMMA StaleGood ==
  ASSUME NEW x \in GoodTask, NEW age \in Ages
  PROVE  GoStale(x, age) \in GoodTask
BY Numbers DEF GoStale, GoodTask, Task, RowOK, Running

\* ... that grows older,
LEMMA AgedGood ==
  ASSUME NEW x \in GoodTask
  PROVE  AgeTask(x) \in GoodTask
<1> DEFINE p == IF x.probe > 0 THEN x.probe - 1 ELSE x.probe
<1>1. x \in Task /\ x.begun \in Ages /\ x.idle \in Ages /\ x.over \in Ages
  BY DEF GoodTask, Task
<1>2. /\ Older(x.begun) \in Ages /\ Older(x.idle) \in Ages
      /\ Older(x.over) \in Ages /\ Older(x.begun) >= x.begun
  BY <1>1, OlderAge
<1>3. p \in {Never} \cup 0..Most(ProbeFirst, ProbeInterval)
  <2>1. x.probe \in {Never} \cup 0..Most(ProbeFirst, ProbeInterval)
    BY <1>1 DEF Task
  <2>2. Most(ProbeFirst, ProbeInterval) \in Nat
    BY Numbers DEF Most
  <2> QED BY <2>1, <2>2 DEF Never
<1>4. AgeTask(x) \in Task
  <2> HIDE DEF p
  <2>1. AgeTask(x) = IF x.st = "none" THEN x
                     ELSE [x EXCEPT !.begun = Older(x.begun),
                             !.idle = Older(x.idle), !.over = Older(x.over),
                             !.probe = p]
    BY DEF AgeTask, p
  <2> QED BY <1>1, <1>2, <1>3, <2>1 DEF Task
<1>5. RowOK(AgeTask(x))
  <2> HIDE DEF p
  <2>1. x.st # "none" =>
          AgeTask(x) = [x EXCEPT !.begun = Older(x.begun),
                         !.idle = Older(x.idle), !.over = Older(x.over),
                         !.probe = p]
    BY DEF AgeTask, p
  <2>2. x.begun >= Cap => Older(x.begun) >= Cap
    BY <1>1, <1>2, Numbers DEF Ages
  <2>3. CASE x.st # "none"
    <3> DEFINE y == AgeTask(x)
    <3>1. /\ y.st = x.st /\ y.why = x.why /\ y.lapse = x.lapse
          /\ y.auth = x.auth /\ y.paused = x.paused
          /\ y.begun = Older(x.begun)
      BY <1>1, <2>1, <2>3 DEF Task
    <3> HIDE DEF y
    <3> QED BY <2>2, <3>1 DEF GoodTask, RowOK, Running, WhyOf, y
  <2>4. CASE x.st = "none"
    BY <2>4 DEF AgeTask, GoodTask
  <2> QED BY <2>3, <2>4
<1> QED BY <1>4, <1>5 DEF GoodTask

\* ... whose hold lapses or is armed again,
LEMMA LapseGood ==
  ASSUME NEW t \in Tasks, NEW x \in GoodTask
  PROVE  Lapse(t, x) \in GoodTask
<1> DEFINE h == HoldOf(t, x)
<1>1. x \in Task /\ RowOK(x)
  BY DEF GoodTask
<1>2. h = "cap" => x.begun >= Cap
  BY DEF HoldOf
<1>3. h \in {"cap", "unverified", "holds"} => Running(x) /\ ~(x.auth /\ x.paused)
  BY DEF HoldOf
<1> HIDE DEF h
<1>4. CASE h \in {"cap", "unverified"} /\ x.lapse # h
  <2>1. Lapse(t, x) = [x EXCEPT !.lapse = h, !.why = h]
    BY <1>4 DEF Lapse, h
  <2>2. h \in {"cap", "unverified"} /\ (h = "cap" => x.begun >= Cap)
        /\ ~(x.auth /\ x.paused)
    BY <1>2, <1>3, <1>4
  <2>3. [x EXCEPT !.lapse = h, !.why = h] \in Task
    BY <1>1, <2>2 DEF Task
  <2>4. RowOK([x EXCEPT !.lapse = h, !.why = h])
    BY <1>1, <2>2 DEF Task, RowOK, Running, WhyOf
  <2> QED BY <2>1, <2>3, <2>4 DEF GoodTask
<1>5. CASE h = "holds" /\ x.lapse # "none"
  <2>1. Lapse(t, x) = [x EXCEPT !.lapse = "none", !.why = ""]
    BY <1>5 DEF Lapse, h
  <2> QED BY <1>1, <1>3, <1>5, <2>1 DEF GoodTask, Task, RowOK, Running, WhyOf
<1>6. CASE Lapse(t, x) = x
  BY <1>6
<1> QED BY <1>4, <1>5, <1>6 DEF Lapse, h

\* ... that the harness confirms or resumes,
LEMMA ConfirmGood ==
  ASSUME NEW t \in Tasks, NEW x \in GoodTask, NEW e \in Event
  PROVE  Confirm(t, x, e) \in GoodTask
<1> DEFINE resumed == ~Running(x) /\ t \in Subagents /\ e.tool = "new"
           y == [x EXCEPT !.ext = x.ext \/ t \in Subagents]
           r == [y EXCEPT !.st = "running", !.why = "", !.over = 0,
                          !.back = TRUE, !.lapse = "none"]
           z == IF resumed THEN r ELSE y
           w == IF e.paused THEN "paused"
                ELSE IF z.why = "paused"
                     THEN IF z.lapse = "none" THEN "" ELSE z.lapse
                ELSE z.why
           c == [z EXCEPT !.auth = TRUE, !.paused = e.paused, !.probe = Never,
                          !.why = w]
<1>1. x \in Task /\ RowOK(x) /\ e.paused \in BOOLEAN
  BY DEF GoodTask, Event
<1>2. /\ y \in Task /\ y.st = x.st /\ y.why = x.why /\ y.lapse = x.lapse
      /\ y.auth = x.auth /\ y.paused = x.paused /\ y.begun = x.begun
  BY <1>1 DEF Task
<1>3. y \in GoodTask
  <2> HIDE DEF y
  <2> QED BY <1>1, <1>2 DEF GoodTask, RowOK, Running, WhyOf
<1>4. /\ r \in Task /\ r.st = "running" /\ r.why = "" /\ r.lapse = "none"
  <2> HIDE DEF y
  <2> 0 \in Ages
    BY Numbers
  <2> QED BY <1>2 DEF Task
<1>5. /\ z \in Task /\ (z.lapse = "cap" => z.begun >= Cap)
      /\ Running(z) /\ z.why # "paused" =>
           z.why = (IF z.lapse = "none" THEN "" ELSE z.lapse)
  <2> HIDE DEF y, r
  <2> QED BY <1>3, <1>4 DEF GoodTask, RowOK, WhyOf
<1>6. ~Running(z) => z \in GoodTask
  <2> HIDE DEF y, r
  <2> QED BY <1>3, <1>4 DEF Running
<1>7. Running(z) => c \in GoodTask
  <2> SUFFICES ASSUME Running(z) PROVE c \in GoodTask
    OBVIOUS
  <2> HIDE DEF z
  <2>1. w \in {"", "cap", "unverified", "paused", "said", "settled", "turn",
               "exited"}
    BY <1>5 DEF Task
  <2>2. w = IF e.paused THEN "paused"
            ELSE IF z.lapse # "none" THEN z.lapse ELSE ""
    BY <1>5
  <2> HIDE DEF w
  <2>3. c \in Task /\ c.auth /\ c.paused = e.paused /\ c.lapse = z.lapse
        /\ c.why = w /\ c.begun = z.begun
    <3> Never \in {Never} \cup 0..Most(ProbeFirst, ProbeInterval)
      OBVIOUS
    <3> QED BY <1>1, <1>5, <2>1 DEF Task
  <2> HIDE DEF c
  <2> QED BY <1>5, <2>2, <2>3 DEF GoodTask, RowOK, WhyOf
<1>8. Confirm(t, x, e) = IF ~Running(z) THEN z ELSE c
  BY DEF Confirm
<1> HIDE DEF z, c
<1> QED BY <1>6, <1>7, <1>8

\* Fields that no row invariant is about.
LEMMA FieldGood ==
  ASSUME NEW x \in GoodTask, NEW v
  PROVE  /\ v \in {Never} \cup 0..Most(ProbeFirst, ProbeInterval)
              => [x EXCEPT !.probe = v] \in GoodTask
         /\ v \in {"pending", "alive", "unknown"}
              => [x EXCEPT !.live = v] \in GoodTask
         /\ v \in {0, 1} => [x EXCEPT !.misses = v] \in GoodTask
         /\ v \in BOOLEAN => [x EXCEPT !.probing = v] \in GoodTask
         /\ v \in Ages => [x EXCEPT !.idle = v] \in GoodTask
<1>1. x \in Task /\ RowOK(x)
  BY DEF GoodTask
<1>2. /\ RowOK([x EXCEPT !.probe = v]) /\ RowOK([x EXCEPT !.live = v])
      /\ RowOK([x EXCEPT !.misses = v]) /\ RowOK([x EXCEPT !.probing = v])
      /\ RowOK([x EXCEPT !.idle = v])
  BY <1>1 DEF Task, RowOK, Running, WhyOf
<1>3. /\ v \in {Never} \cup 0..Most(ProbeFirst, ProbeInterval)
           => [x EXCEPT !.probe = v] \in Task
      /\ v \in {"pending", "alive", "unknown"}
              => [x EXCEPT !.live = v] \in Task
      /\ v \in {0, 1} => [x EXCEPT !.misses = v] \in Task
      /\ v \in BOOLEAN => [x EXCEPT !.probing = v] \in Task
      /\ v \in Ages => [x EXCEPT !.idle = v] \in Task
  BY <1>1 DEF Task
<1> QED BY <1>2, <1>3 DEF GoodTask

\* ... and that is probed.
LEMMA ProbedGood ==
  ASSUME NEW x \in GoodTask, NEW r \in {"skipped", "alive", "unknown", "nowriter"}
  PROVE  Probed(x, r) \in GoodTask
<1> DEFINE again == [x EXCEPT !.probe = ProbeInterval]
           over == End(x, "exited", 0)
<1>1. /\ ProbeFirst \in {Never} \cup 0..Most(ProbeFirst, ProbeInterval)
      /\ ProbeInterval \in {Never} \cup 0..Most(ProbeFirst, ProbeInterval)
      /\ Never \in {Never} \cup 0..Most(ProbeFirst, ProbeInterval)
  BY Numbers DEF Most
<1>2. over \in GoodTask /\ over.st = "ended"
  <2>1. 0 \in Ages
    BY Numbers
  <2>2. over \in GoodTask
    BY EndGood, <2>1
  <2>3. over.st = "ended"
    BY DEF End, GoodTask, Task
  <2> QED BY <2>2, <2>3
<1>3. \A y \in GoodTask, p \in {Never} \cup 0..Most(ProbeFirst, ProbeInterval),
        l \in {"pending", "alive", "unknown"}, m \in {0, 1} :
        /\ [y EXCEPT !.probe = p] \in GoodTask
        /\ [y EXCEPT !.live = l] \in GoodTask
        /\ [y EXCEPT !.misses = m] \in GoodTask
  BY FieldGood
<1>4. again \in GoodTask
  BY <1>1, <1>3
<1> HIDE DEF again, over
<1>5. CASE r = "skipped"
  BY <1>1, <1>3, <1>5 DEF Probed
<1>6. CASE r \in {"alive", "unknown"}
  <2>1. [again EXCEPT !.live = r] \in GoodTask
    BY <1>3, <1>4, <1>6
  <2>2. [[again EXCEPT !.live = r] EXCEPT !.misses = 0] \in GoodTask
    BY <1>3, <2>1
  <2>3. Probed(x, r) = [again EXCEPT !.live = r, !.misses = 0]
    BY <1>6 DEF Probed, again
  <2> QED BY <2>2, <2>3
<1>7. CASE r = "nowriter"
  <2>1. Probed(x, r) = IF x.misses = 0 THEN [again EXCEPT !.misses = 1]
                       ELSE [over EXCEPT !.probe = Never]
    BY <1>7 DEF Probed, again, over
  <2> QED BY <1>1, <1>2, <1>3, <1>4, <2>1
<1> QED BY <1>5, <1>6, <1>7

\* Sequences over a smaller set.
LEMMA SeqWider ==
  ASSUME NEW S, NEW V, S \subseteq V, NEW q \in Seq(S) PROVE q \in Seq(V)
OBVIOUS

\* A sound table is a table.
LEMMA GoodIsTable == GoodTable \subseteq Table
<1>1. GoodTask \subseteq Task /\ Ends \subseteq Event
  BY DEF GoodTask, Ends
<1>2. \A q \in Seq(Ends) : q \in Seq(Event)
  BY <1>1, SeqWider
<1> QED BY <1>1, <1>2 DEF GoodTable, Table

\* A table stays sound when a field is given a value of its type.
LEMMA TableFields ==
  ASSUME NEW T \in GoodTable, NEW v
  PROVE  /\ v \in [Tasks -> GoodTask] => [T EXCEPT !.tasks = v] \in GoodTable
         /\ v \in SUBSET Commands => [T EXCEPT !.launched = v] \in GoodTable
         /\ v \in Seq(Event) => [T EXCEPT !.early = v] \in GoodTable
         /\ v \in Seq(Ends) => [T EXCEPT !.ends = v] \in GoodTable
         /\ v \in 0..Cardinality(Tasks) => [T EXCEPT !.held = v] \in GoodTable
         /\ v \in 0..Grace => [T EXCEPT !.quiet = v] \in GoodTable
         /\ \A t \in Tasks : v \in GoodTask =>
               [T EXCEPT !.tasks[t] = v] \in GoodTable
BY DEF GoodTable

\* There are finitely many tasks,
LEMMA TasksFinite == IsFiniteSet(Tasks) /\ Cardinality(Tasks) \in Nat
BY TableAssumption, FS_Union, FS_CardinalityType DEF TableAssumption, Tasks

\* ... so those that hold can be counted.
LEMMA HoldingCount ==
  ASSUME NEW T
  PROVE  /\ Holding(T) \subseteq Tasks /\ IsFiniteSet(Holding(T))
         /\ Cardinality(Holding(T)) \in 0..Cardinality(Tasks)
         /\ Cardinality(Holding(T)) = 0 <=> Holding(T) = {}
<1>1. Holding(T) \subseteq Tasks
  BY DEF Holding
<1>2. IsFiniteSet(Holding(T)) /\ Cardinality(Holding(T)) <= Cardinality(Tasks)
  BY <1>1, TasksFinite, FS_Subset
<1> QED BY <1>1, <1>2, TasksFinite, FS_CardinalityType, FS_EmptySet

\* note_hold counts, and starts the grace when the last hold has ended.
LEMMA NoteHoldGood ==
  ASSUME NEW T \in GoodTable, NEW g \in BOOLEAN
  PROVE  /\ NoteHold(T, g) \in GoodTable
         /\ NoteHold(T, g).tasks = T.tasks
         /\ NoteHold(T, g).held = Cardinality(Holding(T))
         /\ NoteHold(T, g).quiet =
              IF g /\ T.held > 0 /\ Holding(T) = {} THEN 0 ELSE T.quiet
<1> DEFINE n == Cardinality(Holding(T))
           z == IF g /\ T.held > 0 /\ n = 0 THEN 0 ELSE T.quiet
<1>1. n \in 0..Cardinality(Tasks) /\ (n = 0 <=> Holding(T) = {})
  BY HoldingCount
<1>2. z \in 0..Grace
  BY Numbers DEF GoodTable
<1>3. NoteHold(T, g) = [T EXCEPT !.held = n, !.quiet = z]
  BY DEF NoteHold
<1> HIDE DEF n
<1>4. NoteHold(T, g) \in GoodTable
  BY <1>1, <1>2, <1>3 DEF GoodTable
<1>5. NoteHold(T, g).tasks = T.tasks /\ NoteHold(T, g).held = n
      /\ NoteHold(T, g).quiet = z
  BY <1>3 DEF GoodTable
<1> QED BY <1>1, <1>4, <1>5 DEF n

\* Which tasks hold depends on the rows alone.
LEMMA SameHolding ==
  ASSUME NEW T, NEW U, T.tasks = U.tasks PROVE Holding(T) = Holding(U)
BY DEF Holding

\* The time left before a task goes stale is a number.
LEMMA StaleLeftInt ==
  ASSUME NEW t \in Tasks, NEW x \in Task PROVE StaleLeft(t, x) \in Int
<1>1. x.idle \in Ages /\ x.begun \in Ages
  BY DEF Task
<1>2. x.idle \in Int /\ x.begun \in Int
  BY <1>1, Numbers DEF Ages
<1> QED BY <1>2, Numbers DEF StaleLeft, Most

\* Dropping a row leaves a sound one,
LEMMA DropGood == ASSUME NEW x \in GoodTask PROVE Drop(x) \in GoodTask
BY AbsentGood DEF Drop

\* ... and so does judging it,
LEMMA JudgeGood ==
  ASSUME NEW t \in Tasks, NEW x \in GoodTask PROVE Judge(t, x) \in GoodTask
<1>1. StaleLeft(t, x) \in Int
  BY StaleLeftInt DEF GoodTask
<1>2. StaleLeft(t, x) <= 0 => Least(Oldest, -StaleLeft(t, x)) \in Ages
  BY <1>1, Numbers DEF Least, Ages
<1> QED BY <1>2, LapseGood, DropGood, StaleGood DEF Judge

\* ... so that evaluate leaves a sound table, counted anew.
LEMMA EvaluateGood ==
  ASSUME NEW T \in GoodTable
  PROVE  /\ Evaluate(T) \in GoodTable
         /\ Evaluate(T).tasks = [t \in Tasks |-> Judge(t, T.tasks[t])]
         /\ Evaluate(T).held = Cardinality(Holding(Evaluate(T)))
         /\ Evaluate(T).quiet = IF T.held > 0 /\ Holding(Evaluate(T)) = {}
                                THEN 0 ELSE T.quiet
<1> DEFINE f == [t \in Tasks |-> Judge(t, T.tasks[t])]
           U == [T EXCEPT !.tasks = f]
<1>1. f \in [Tasks -> GoodTask]
  BY JudgeGood DEF GoodTable
<1>2. U \in GoodTable /\ U.tasks = f /\ U.held = T.held /\ U.quiet = T.quiet
  <2> HIDE DEF f
  <2> QED BY <1>1, TableFields DEF GoodTable
<1>3. Evaluate(T) = NoteHold(U, TRUE)
  BY DEF Evaluate
<1> HIDE DEF f, U
<1>4. Evaluate(T).tasks = f /\ Holding(Evaluate(T)) = Holding(U)
  BY <1>2, <1>3, NoteHoldGood, SameHolding
<1> QED BY <1>2, <1>3, <1>4, NoteHoldGood DEF f

\* A parked signal leaves a row sound and as old as it was.
LEMMA MeetGood ==
  ASSUME NEW t \in Tasks, NEW x \in GoodTask, NEW e \in Event, NEW age \in Ages
  PROVE  /\ Meet(t, x, e, age) \in GoodTask
         /\ Meet(t, x, e, age).idle = x.idle /\ Meet(t, x, e, age).begun = x.begun
         /\ e.k # "confirmed" /\ Running(Meet(t, x, e, age)) => Running(x)
         /\ x.st # "none" => Meet(t, x, e, age).st # "none"
         /\ x.auth => Meet(t, x, e, age).auth
<1>1. CASE e.k = "confirmed"
  <2>1. Confirm(t, x, e).idle = x.idle /\ Confirm(t, x, e).begun = x.begun
        /\ (x.st # "none" => Confirm(t, x, e).st # "none")
        /\ (x.auth => Confirm(t, x, e).auth)
    BY DEF Confirm, GoodTask, Task, Running
  <2> QED BY <1>1, <2>1, ConfirmGood DEF Meet
<1>2. CASE e.k # "confirmed" /\ Running(x)
  <2>1. End(x, "said", age).idle = x.idle /\ End(x, "said", age).begun = x.begun
        /\ End(x, "said", age).st = "ended" /\ End(x, "said", age).auth = x.auth
    BY DEF End, GoodTask, Task
  <2> QED BY <1>2, <2>1, EndGood DEF Meet
<1>3. CASE e.k # "confirmed" /\ ~Running(x)
  BY <1>3 DEF Meet
<1> QED BY <1>1, <1>2, <1>3

\* The parked signals of a queue leave a row sound and as old as it was, and
\* ends alone never set it running.
LEMMA UnparkGood ==
  ASSUME NEW t \in Tasks, NEW x \in GoodTask, NEW V, V \subseteq Event,
         NEW q \in Seq(V), NEW age \in Ages
  PROVE  LET u == Unpark(t, x, q, age) IN
         /\ u.x \in GoodTask /\ u.left \in Seq(V)
         /\ u.x.idle = x.idle /\ u.x.begun = x.begun
         /\ x.auth => u.x.auth
         /\ V \subseteq Ends /\ Running(u.x) => Running(x)
<1> DEFINE P == {a \in [x : GoodTask, left : Seq(V)] :
                   /\ a.x.idle = x.idle /\ a.x.begun = x.begun
                   /\ x.auth => a.x.auth
                   /\ V \subseteq Ends /\ Running(a.x) => Running(x)}
<1>1. [x |-> x, left |-> <<>>] \in P
  OBVIOUS
<1>2. ASSUME NEW a \in P, NEW e \in V
      PROVE  (IF Matches(t, a.x, e)
              THEN [a EXCEPT !.x = Meet(t, @, e, age)]
              ELSE [a EXCEPT !.left = Append(@, e)]) \in P
  <2> DEFINE m == Meet(t, a.x, e, age)
  <2>1. a.x \in GoodTask /\ a.left \in Seq(V) /\ e \in Event
    OBVIOUS
  <2>2. /\ m \in GoodTask /\ m.idle = a.x.idle /\ m.begun = a.x.begun
        /\ a.x.auth => m.auth
        /\ e.k # "confirmed" /\ Running(m) => Running(a.x)
    BY <2>1, MeetGood
  <2>3. V \subseteq Ends => e.k # "confirmed"
    BY DEF Ends
  <2> HIDE DEF m
  <2>4. [a EXCEPT !.x = m] \in P
    BY <2>1, <2>2, <2>3
  <2>5. [a EXCEPT !.left = Append(a.left, e)] \in P
    <3> Append(a.left, e) \in Seq(V)
      BY <2>1
    <3> QED BY <2>1
  <2> QED BY <2>4, <2>5 DEF m
<1> HIDE DEF P
<1>3. Unpark(t, x, q, age) \in P
  BY <1>1, <1>2, UnparkIn
<1> QED BY <1>3 DEF P

\* The events the transcript holds: only commands are launched.
GoodEvent == {e \in Event : e.k = "launched" => e.t \in Commands}

\* Every row that runs in Y ran in T, is new, or is confirmed by the harness.
NoRevival(T, Y) ==
  \A t \in Tasks : Running(Y.tasks[t]) =>
     \/ Running(T.tasks[t])
     \/ Y.tasks[t].idle = 0 /\ Y.tasks[t].begun = 0
     \/ Y.tasks[t].auth

\* The table Y differs from T in its rows and its parked signals only.
SameHolds(T, Y) == Y \in GoodTable /\ Y.held = T.held /\ Y.quiet = T.quiet

\* One row is replaced.
LEMMA PutRow ==
  ASSUME NEW T \in GoodTable, NEW t \in Tasks, NEW x \in GoodTask
  PROVE  LET Y == [T EXCEPT !.tasks[t] = x] IN
         /\ SameHolds(T, Y)
         /\ (Running(x) => Running(T.tasks[t]) \/ (x.idle = 0 /\ x.begun = 0))
              => NoRevival(T, Y)
<1> DEFINE Y == [T EXCEPT !.tasks[t] = x]
<1>1. Y \in GoodTable
  BY TableFields
<1>2. /\ Y.held = T.held /\ Y.quiet = T.quiet
      /\ Y.tasks = [T.tasks EXCEPT ![t] = x]
  BY DEF GoodTable
<1>3. \A s \in Tasks : Y.tasks[s] = IF s = t THEN x ELSE T.tasks[s]
  BY <1>2 DEF GoodTable
<1> HIDE DEF Y
<1> QED BY <1>1, <1>2, <1>3 DEF SameHolds, NoRevival, Y

\* One row is replaced by one that runs only if the old one did.
LEMMA KeepRow ==
  ASSUME NEW T \in GoodTable, NEW t \in Tasks, NEW x \in GoodTask,
         Running(T.tasks[t]) \/ ~Running(x)
  PROVE  /\ SameHolds(T, [T EXCEPT !.tasks[t] = x])
         /\ NoRevival(T, [T EXCEPT !.tasks[t] = x])
<1>1. Running(x) => Running(T.tasks[t]) \/ (x.idle = 0 /\ x.begun = 0)
  BY DEF Running
<1> QED BY <1>1, PutRow

\* A new row meets the signals parked for it.
LEMMA AddTaskGood ==
  ASSUME NEW T \in GoodTable, NEW t \in Tasks, NEW age \in Ages
  PROVE  LET Y == AddTask(T, t, Born(t, age), age) IN
         SameHolds(T, Y) /\ (age = 0 => NoRevival(T, Y))
<1> DEFINE b == Born(t, age)
           c == Unpark(t, b, T.early, age)
           d == Unpark(t, c.x, T.ends, age)
           Y == AddTask(T, t, b, age)
<1>1. b \in GoodTask /\ b.idle = age /\ b.begun = age
  BY BornGood DEF Born, Absent
<1>2. T.early \in Seq(Event) /\ T.ends \in Seq(Ends) /\ Ends \subseteq Event
  BY DEF GoodTable, Ends
<1> HIDE DEF b
<1>3. /\ c.x \in GoodTask /\ c.left \in Seq(Event)
      /\ c.x.idle = age /\ c.x.begun = age
  BY <1>1, <1>2, UnparkGood
<1> HIDE DEF c
<1>4. /\ d.x \in GoodTask /\ d.left \in Seq(Ends)
      /\ d.x.idle = age /\ d.x.begun = age
  BY <1>2, <1>3, UnparkGood
<1>5. Y = [T EXCEPT !.tasks[t] = d.x, !.early = c.left, !.ends = d.left]
  BY DEF AddTask, c, d
<1> HIDE DEF d
<1>6. /\ Y \in GoodTable /\ Y.held = T.held /\ Y.quiet = T.quiet
      /\ Y.tasks = [T.tasks EXCEPT ![t] = d.x]
  BY <1>3, <1>4, <1>5 DEF GoodTable
<1> HIDE DEF Y
<1>7. age = 0 => NoRevival(T, Y)
  BY <1>4, <1>6 DEF NoRevival, GoodTable
<1> QED BY <1>6, <1>7 DEF SameHolds, Y, b

\* apply_confirmed
LEMMA ConfirmedGood ==
  ASSUME NEW T \in GoodTable, NEW e \in Event, NEW age \in Ages
  PROVE  LET Y == ApplyConfirmed(T, e, age) IN
         SameHolds(T, Y) /\ NoRevival(T, Y)
<1> DEFINE t == e.t
           x == T.tasks[t]
           c == Confirm(t, x, e)
           d == Unpark(t, c, T.ends, age)
           Y == ApplyConfirmed(T, e, age)
<1>1. /\ t \in Tasks /\ x \in GoodTask
      /\ T.early \in Seq(Event) /\ T.ends \in Seq(Ends) /\ Ends \subseteq Event
  BY DEF GoodTable, Ends, Event
<1>2. c \in GoodTask
  BY <1>1, ConfirmGood
<1>3. Running(c) => c.auth
  BY <1>1 DEF Confirm, GoodTask, Task, Running
<1> HIDE DEF t, x, c
<1>4. /\ d.x \in GoodTask /\ d.left \in Seq(Ends)
      /\ Running(d.x) => Running(c) /\ (c.auth => d.x.auth)
  BY <1>1, <1>2, UnparkGood
<1>5. CASE x.st # "none" /\ Matches(t, x, e)
  <2>1. Y = [T EXCEPT !.tasks[t] = d.x, !.ends = d.left]
    BY <1>5 DEF ApplyConfirmed, t, x, c
  <2> HIDE DEF d, Y
  <2>2. /\ Y \in GoodTable /\ Y.held = T.held /\ Y.quiet = T.quiet
        /\ Y.tasks = [T.tasks EXCEPT ![t] = d.x]
    BY <1>1, <1>4, <2>1 DEF GoodTable
  <2>3. NoRevival(T, Y)
    BY <1>1, <1>3, <1>4, <2>2 DEF NoRevival, GoodTable, x
  <2> QED BY <2>2, <2>3 DEF SameHolds, Y
<1>6. CASE ~(x.st # "none" /\ Matches(t, x, e))
  <2>1. Y = [T EXCEPT !.early = Append(T.early, e)]
    BY <1>6 DEF ApplyConfirmed, t, x
  <2>2. Append(T.early, e) \in Seq(Event)
    BY <1>1
  <2> HIDE DEF Y
  <2>3. SameHolds(T, Y) /\ Y.tasks = T.tasks
    BY <2>1, <2>2, TableFields DEF GoodTable, SameHolds
  <2> QED BY <2>3 DEF NoRevival, Y
<1> QED BY <1>5, <1>6

\* apply_ended
LEMMA EndedGood ==
  ASSUME NEW T \in GoodTable, NEW e \in Ends, NEW age \in Ages
  PROVE  LET Y == ApplyEnded(T, e, age) IN SameHolds(T, Y) /\ NoRevival(T, Y)
<1> DEFINE t == e.t
           x == T.tasks[t]
           Y == ApplyEnded(T, e, age)
<1>1. t \in Tasks /\ x \in GoodTask /\ T.ends \in Seq(Ends)
  BY DEF GoodTable, Ends, Event
<1>2. End(x, "said", age) \in GoodTask /\ ~Running(End(x, "said", age))
  <2> HIDE DEF t, x
  <2>1. End(x, "said", age).st = "ended"
    BY <1>1 DEF End, GoodTask, Task
  <2> QED BY <1>1, <2>1, EndGood DEF Running
<1>3. CASE x.st # "none" /\ Matches(t, x, e) /\ x.st \in {"running", "stale"}
  <2>1. Y = [T EXCEPT !.tasks[t] = End(x, "said", age)]
    BY <1>3 DEF ApplyEnded
  <2> HIDE DEF t, x
  <2> QED BY <1>1, <1>2, <2>1, PutRow
<1>4. CASE x.st # "none" /\ Matches(t, x, e) /\ x.st \notin {"running", "stale"}
  <2>1. Y = T
    BY <1>4 DEF ApplyEnded
  <2> QED BY <2>1 DEF SameHolds, NoRevival
<1>5. CASE ~(x.st # "none" /\ Matches(t, x, e))
  <2>1. Y = [T EXCEPT !.ends = Append(T.ends, e)]
    BY <1>5 DEF ApplyEnded
  <2>2. Append(T.ends, e) \in Seq(Ends)
    BY <1>1
  <2> HIDE DEF Y
  <2>3. SameHolds(T, Y) /\ Y.tasks = T.tasks
    BY <2>1, <2>2, TableFields DEF GoodTable, SameHolds
  <2> QED BY <2>3 DEF NoRevival, Y
<1> QED BY <1>3, <1>4, <1>5

\* A row that ends or goes stale does not run.
LEMMA EndsNot ==
  ASSUME NEW x \in GoodTask, NEW why, NEW age
  PROVE  ~Running(End(x, why, age)) /\ ~Running(GoStale(x, age))
BY DEF End, GoStale, Running, GoodTask, Task

\* A sign of life makes a row no older.
LEMMA SeenGood ==
  ASSUME NEW x \in GoodTask, NEW age \in Ages
  PROVE  /\ Seen(x, age) \in GoodTask
         /\ Seen(x, age).st = x.st /\ Seen(x, age).begun = x.begun
         /\ x.idle = 0 => Seen(x, age).idle = 0
         /\ Seen(x, age).auth = x.auth
<1> DEFINE l == Least(x.idle, age)
<1>1. x.idle \in Ages
  BY DEF GoodTask, Task
<1>2. l \in Ages /\ (x.idle = 0 => l = 0)
  BY <1>1, Numbers DEF Least, Ages
<1>3. Seen(x, age) = [x EXCEPT !.idle = l]
  BY DEF Seen
<1> HIDE DEF l
<1>4. [x EXCEPT !.idle = l] \in GoodTask
  BY <1>2, FieldGood
<1>5. /\ [x EXCEPT !.idle = l].st = x.st /\ [x EXCEPT !.idle = l].begun = x.begun
      /\ [x EXCEPT !.idle = l].idle = l /\ [x EXCEPT !.idle = l].auth = x.auth
  BY DEF GoodTask, Task
<1> QED BY <1>2, <1>3, <1>4, <1>5

\* Rows changed one by one.
LEMMA PutRows ==
  ASSUME NEW T \in GoodTable, NEW f \in [Tasks -> GoodTask],
         \A t \in Tasks : Running(f[t]) =>
            \/ Running(T.tasks[t])
            \/ f[t].idle = 0 /\ f[t].begun = 0
  PROVE  LET Y == [T EXCEPT !.tasks = f] IN
         SameHolds(T, Y) /\ NoRevival(T, Y) /\ Y.tasks = f
BY TableFields DEF GoodTable, SameHolds, NoRevival

\* apply_one
LEMMA ApplyOneGood ==
  ASSUME NEW T \in GoodTable, NEW e \in GoodEvent, NEW age \in Ages
  PROVE  LET Y == ApplyOne(T, e, age) IN
         SameHolds(T, Y) /\ (age = 0 => NoRevival(T, Y))
<1> DEFINE t == e.t
           x == T.tasks[t]
           seen == Seen(x, age)
           Y == ApplyOne(T, e, age)
<1>1. /\ e \in Event /\ t \in Tasks /\ x \in GoodTask
      /\ e.k \in {"launched", "backgrounded", "started", "nested", "finished",
                  "failed", "settled", "confirmed", "ended", "chatter"}
  BY DEF GoodTable, Event, GoodEvent
<1>2. seen \in GoodTask /\ seen.st = x.st
  <2> HIDE DEF x
  <2> QED BY <1>1, SeenGood
<1>3. End(seen, "said", age) \in GoodTask /\ ~Running(End(seen, "said", age))
  <2> HIDE DEF seen
  <2> QED BY <1>2, EndGood, EndsNot
<1>4. SameHolds(T, T) /\ NoRevival(T, T)
  BY DEF SameHolds, NoRevival
<1>5. CASE e.k = "launched"
  <2>1. Y = [T EXCEPT !.launched = T.launched \cup {t}]
    BY <1>5 DEF ApplyOne
  <2>2. T.launched \cup {t} \in SUBSET Commands
    BY <1>5 DEF GoodTable, GoodEvent
  <2> HIDE DEF Y
  <2>3. SameHolds(T, Y) /\ Y.tasks = T.tasks
    BY <2>1, <2>2, TableFields DEF GoodTable, SameHolds
  <2> QED BY <2>3 DEF NoRevival, Y
<1>6. CASE e.k \in {"backgrounded", "started"}
  <2>1. Y = AddTask(T, t, Born(t, age), age) \/ Y = T
    BY <1>6 DEF ApplyOne
  <2> HIDE DEF Y
  <2> QED BY <1>1, <1>4, <2>1, AddTaskGood DEF Y
<1>7. CASE e.k = "nested"
  <2>1. Y = IF Running(x) THEN [T EXCEPT !.tasks[t] = seen] ELSE T
    BY <1>7 DEF ApplyOne
  <2>2. Running(x) => SameHolds(T, [T EXCEPT !.tasks[t] = seen])
                      /\ NoRevival(T, [T EXCEPT !.tasks[t] = seen])
    <3> SUFFICES ASSUME Running(x)
                 PROVE  SameHolds(T, [T EXCEPT !.tasks[t] = seen])
                        /\ NoRevival(T, [T EXCEPT !.tasks[t] = seen])
      OBVIOUS
    <3>1. t \in Tasks /\ seen \in GoodTask /\ Running(T.tasks[t])
      BY <1>1, <1>2
    <3> HIDE DEF seen, t
    <3> QED BY <3>1, KeepRow
  <2> HIDE DEF Y, seen
  <2> QED BY <1>4, <2>1, <2>2 DEF Y
<1>8. CASE e.k \in {"finished", "failed"}
  <2>1. Y = [T EXCEPT !.tasks[t] = End(seen, "said", age)] \/ Y = T
    BY <1>8 DEF ApplyOne
  <2> HIDE DEF Y, seen
  <2> QED BY <1>1, <1>3, <1>4, <2>1, PutRow DEF Y
<1>9. CASE e.k = "settled"
  <2> DEFINE f == [s \in Tasks |->
                    IF s \in Subagents /\ Running(T.tasks[s]) /\ T.tasks[s].back
                       /\ ~T.tasks[s].auth
                    THEN End(T.tasks[s], "settled", age) ELSE T.tasks[s]]
  <2>1. Y = [T EXCEPT !.tasks = f]
    BY <1>9 DEF ApplyOne
  <2>2. \A s \in Tasks : T.tasks[s] \in GoodTask
    BY DEF GoodTable
  <2>3. f \in [Tasks -> GoodTask]
    BY <2>2, EndGood
  <2>4. \A s \in Tasks : Running(f[s]) => Running(T.tasks[s])
    BY <2>2, EndsNot
  <2> HIDE DEF f, Y
  <2> QED BY <2>1, <2>3, <2>4, PutRows DEF Y
<1>10. CASE e.k = "confirmed"
  <2>1. Y = ApplyConfirmed(T, e, age)
    BY <1>10 DEF ApplyOne
  <2> HIDE DEF Y
  <2> QED BY <1>1, <2>1, ConfirmedGood DEF Y
<1>11. CASE e.k = "ended"
  <2>1. Y = ApplyEnded(T, e, age) /\ e \in Ends
    BY <1>1, <1>11 DEF ApplyOne, Ends
  <2> HIDE DEF Y
  <2> QED BY <1>1, <2>1, EndedGood DEF Y
<1>12. CASE e.k = "chatter"
  <2>1. Y = T
    BY <1>12 DEF ApplyOne
  <2> QED BY <1>4, <2>1
<1> QED BY <1>1, <1>5, <1>6, <1>7, <1>8, <1>9, <1>10, <1>11, <1>12

\* bump_command_activity
LEMMA BumpGood ==
  ASSUME NEW T \in GoodTable, NEW age \in Ages
  PROVE  LET Y == Bump(T, age) IN
         /\ SameHolds(T, Y)
         /\ \A t \in Tasks : /\ Y.tasks[t].st = T.tasks[t].st
                             /\ Y.tasks[t].begun = T.tasks[t].begun
                             /\ T.tasks[t].idle = 0 => Y.tasks[t].idle = 0
                             /\ Y.tasks[t].auth = T.tasks[t].auth
<1> DEFINE f == [t \in Tasks |-> IF t \in Commands /\ Running(T.tasks[t])
                     THEN Seen(T.tasks[t], age)
                     ELSE T.tasks[t]]
<1>1. \A t \in Tasks : T.tasks[t] \in GoodTask
  BY DEF GoodTable
<1>2. \A t \in Tasks : /\ f[t] \in GoodTask /\ f[t].st = T.tasks[t].st
                       /\ f[t].begun = T.tasks[t].begun
                       /\ T.tasks[t].idle = 0 => f[t].idle = 0
                       /\ f[t].auth = T.tasks[t].auth
  BY <1>1, SeenGood
<1>3. f \in [Tasks -> GoodTask]
  BY <1>2
<1>4. Bump(T, age) = [T EXCEPT !.tasks = f]
  BY DEF Bump
<1> HIDE DEF f
<1>5. SameHolds(T, Bump(T, age)) /\ Bump(T, age).tasks = f
  <2>1. Bump(T, age) \in GoodTable
    BY <1>3, <1>4, TableFields
  <2>2. /\ Bump(T, age).held = T.held /\ Bump(T, age).quiet = T.quiet
        /\ Bump(T, age).tasks = f
    BY <1>4 DEF GoodTable
  <2> QED BY <2>1, <2>2 DEF SameHolds
<1> QED BY <1>2, <1>5

\* What a mutation leaves of the count and of the grace: the end of the last hold
\* may start the grace, and then nothing holds.
Counted(T, Y) == /\ Y \in GoodTable
                 /\ \/ Y.quiet = T.quiet
                    \/ Y.quiet = 0 /\ T.held > 0 /\ Holding(Y) = {}
                 /\ Y.held = Cardinality(Holding(Y))

\* A change of rows that is counted afterwards.
LEMMA CountedGood ==
  ASSUME NEW T \in GoodTable, NEW Y, SameHolds(T, Y), NEW g \in BOOLEAN
  PROVE  Counted(T, NoteHold(Y, g)) /\ NoteHold(Y, g).tasks = Y.tasks
BY NoteHoldGood, SameHolding DEF SameHolds, Counted

\* An observation leaves a sound and counted table and revives nothing.
LEMMA ApplyGood ==
  ASSUME NEW T \in GoodTable, NEW e \in GoodEvent, NEW age \in Ages
  PROVE  /\ Apply(T, e, age) \in GoodTable
         /\ T.held = Cardinality(Holding(T)) => Counted(T, Apply(T, e, age))
         /\ age = 0 => NoRevival(T, Apply(T, e, age))
<1> DEFINE N == NoteHold(T, TRUE)
           A == ApplyOne(N, e, age)
           B == Bump(A, age)
           g == e.k = "ended"
<1>1. /\ N \in GoodTable /\ N.tasks = T.tasks
      /\ T.held = Cardinality(Holding(T)) => N.held = T.held /\ N.quiet = T.quiet
  <2>1. /\ N \in GoodTable /\ N.tasks = T.tasks
        /\ N.held = Cardinality(Holding(T))
        /\ N.quiet = IF T.held > 0 /\ Holding(T) = {} THEN 0 ELSE T.quiet
    BY NoteHoldGood
  <2>2. Holding(T) = {} => Cardinality(Holding(T)) = 0
    BY HoldingCount
  <2>3. T.held = 0 => ~(T.held > 0)
    OBVIOUS
  <2> HIDE DEF N
  <2> QED BY <2>1, <2>2, <2>3
<1> HIDE DEF N
<1>2. SameHolds(N, A) /\ (age = 0 => NoRevival(N, A))
  BY <1>1, ApplyOneGood
<1> HIDE DEF A
<1>3. /\ SameHolds(A, B)
      /\ \A t \in Tasks : /\ B.tasks[t].st = A.tasks[t].st
                          /\ B.tasks[t].begun = A.tasks[t].begun
                          /\ A.tasks[t].idle = 0 => B.tasks[t].idle = 0
                          /\ B.tasks[t].auth = A.tasks[t].auth
  BY <1>2, BumpGood DEF SameHolds
<1> HIDE DEF B
<1>4. Apply(T, e, age) = NoteHold(B, g) /\ g \in BOOLEAN
  BY DEF Apply, N, A, B
<1> HIDE DEF g
<1>5. Counted(N, NoteHold(B, g)) /\ NoteHold(B, g).tasks = B.tasks
  <2> SameHolds(N, B)
    BY <1>2, <1>3 DEF SameHolds
  <2> QED BY <1>1, <1>4, CountedGood
<1>6. NoRevival(N, A) => NoRevival(T, NoteHold(B, g))
  BY <1>1, <1>3, <1>5 DEF NoRevival, Running
<1>7. T.held = Cardinality(Holding(T)) => Counted(T, NoteHold(B, g))
  BY <1>1, <1>5 DEF Counted
<1> QED BY <1>2, <1>4, <1>5, <1>6, <1>7 DEF Counted

\* So do the lost adapter (stale_all_running),
LEMMA StaleAllGood ==
  ASSUME NEW T \in GoodTable
  PROVE  Counted(T, StaleAll(T)) /\ NoRevival(T, StaleAll(T))
<1> DEFINE f == [t \in Tasks |-> IF Running(T.tasks[t])
                                 THEN GoStale(T.tasks[t], 0) ELSE T.tasks[t]]
           Y == [T EXCEPT !.tasks = f]
<1>1. \A t \in Tasks : T.tasks[t] \in GoodTask
  BY DEF GoodTable
<1>2. f \in [Tasks -> GoodTask]
  BY <1>1, StaleGood, Numbers
<1>3. \A t \in Tasks : Running(f[t]) => Running(T.tasks[t])
  OBVIOUS
<1>4. StaleAll(T) = NoteHold(Y, TRUE)
  BY DEF StaleAll
<1> HIDE DEF f
<1>5. SameHolds(T, Y) /\ NoRevival(T, Y)
  BY <1>2, <1>3, PutRows
<1> HIDE DEF Y
<1> QED BY <1>4, <1>5, CountedGood DEF NoRevival

\* ... the end of a turn (turn_ended)
LEMMA TurnEndedGood ==
  ASSUME NEW T \in GoodTable
  PROVE  Counted(T, TurnEnded(T)) /\ NoRevival(T, TurnEnded(T))
<1> DEFINE f == [t \in Tasks |->
                   IF t \in Subagents /\ Running(T.tasks[t]) /\ ~T.tasks[t].back
                   THEN End(T.tasks[t], "turn", 0) ELSE T.tasks[t]]
           Y == [T EXCEPT !.tasks = f]
<1>1. \A t \in Tasks : T.tasks[t] \in GoodTask
  BY DEF GoodTable
<1>2. f \in [Tasks -> GoodTask]
  BY <1>1, EndGood, Numbers
<1>3. \A t \in Tasks : Running(f[t]) => Running(T.tasks[t])
  BY <1>1, EndsNot
<1>4. TurnEnded(T) = NoteHold(Y, FALSE)
  BY DEF TurnEnded
<1> HIDE DEF f
<1>5. SameHolds(T, Y) /\ NoRevival(T, Y)
  BY <1>2, <1>3, PutRows
<1> HIDE DEF Y
<1> QED BY <1>4, <1>5, CountedGood DEF NoRevival

\* ... and a probe (apply_probe).
LEMMA ApplyProbeGood ==
  ASSUME NEW T \in GoodTable, NEW t \in Tasks,
         NEW r \in {"skipped", "alive", "unknown", "nowriter"}
  PROVE  Counted(T, ApplyProbe(T, t, r)) /\ NoRevival(T, ApplyProbe(T, t, r))
<1> DEFINE x == [T.tasks[t] EXCEPT !.probing = FALSE]
           z == IF Running(x) /\ ~x.auth THEN Probed(x, r) ELSE x
           Y == IF T.tasks[t].st = "none" THEN T ELSE [T EXCEPT !.tasks[t] = z]
<1>1. T.tasks[t] \in GoodTask
  BY DEF GoodTable
<1>2. x \in GoodTask /\ x.st = T.tasks[t].st
  <2>1. x \in GoodTask
    BY <1>1, FieldGood
  <2>2. x.st = T.tasks[t].st
    BY <1>1 DEF GoodTask, Task
  <2> QED BY <2>1, <2>2
<1> HIDE DEF x
<1>3. z \in GoodTask /\ (Running(z) => Running(T.tasks[t]))
  BY <1>2, ProbedGood DEF Running
<1>4. ApplyProbe(T, t, r) = NoteHold(Y, TRUE)
  BY DEF ApplyProbe, x
<1> HIDE DEF z
<1>5. SameHolds(T, Y) /\ NoRevival(T, Y)
  BY <1>3, PutRow DEF SameHolds, NoRevival
<1> HIDE DEF Y
<1> QED BY <1>4, <1>5, CountedGood DEF NoRevival

-----------------------------------------------------------------------------
(* Tables that time has not overtaken.                                       *)

\* One unit of time leaves a sound table.
LEMMA AgedTable ==
  ASSUME NEW T \in GoodTable
  PROVE  /\ Aged(T) \in GoodTable
         /\ Aged(T).tasks = [t \in Tasks |-> AgeTask(T.tasks[t])]
         /\ Aged(T).held = T.held
         /\ Aged(T).quiet = Least(T.quiet + 1, Grace)
<1> DEFINE f == [t \in Tasks |-> AgeTask(T.tasks[t])]
           q == Least(T.quiet + 1, Grace)
<1>1. f \in [Tasks -> GoodTask]
  BY AgedGood DEF GoodTable
<1>2. q \in 0..Grace
  <2> T.quiet \in 0..Grace
    BY DEF GoodTable
  <2> QED BY Numbers DEF Least
<1>3. Aged(T) = [T EXCEPT !.tasks = f, !.quiet = q]
  BY DEF Aged
<1> HIDE DEF f, q
<1>4. Aged(T) \in GoodTable
  BY <1>1, <1>2, <1>3 DEF GoodTable
<1>5. Aged(T).tasks = f /\ Aged(T).held = T.held /\ Aged(T).quiet = q
  BY <1>3 DEF GoodTable
<1> QED BY <1>4, <1>5 DEF f, q

-----------------------------------------------------------------------------
\* A row that evaluate would change by more than the reason of a lapse: it has
\* expired, is stale, or its hold has lapsed or is to be armed again.
Due(t, x) ==
  \/ x.st \in {"stale", "ended"} /\ x.over >= Expiry
  \/ Running(x) /\ StaleLeft(t, x) <= 0
  \/ Running(x) /\ HoldOf(t, x) = "holds" /\ x.lapse # "none"
  \/ Running(x) /\ HoldOf(t, x) \in {"cap", "unverified"} /\ x.lapse = "none"

\* A table that evaluate would leave as it is, but for the reason of a lapse.
Settled(T) == /\ T \in GoodTable
              /\ T.held = Cardinality(Holding(T))
              /\ \A t \in Tasks : ~Due(t, T.tasks[t])

\* A reason, and a row, but for the reason of a lapse.
Mild(why) == IF why = "unverified" THEN "cap" ELSE why
Kept(x, y) == y.st = x.st /\ Mild(y.why) = Mild(x.why)

\* What a row has left before time changes it.
RowLeft(t, x) ==
  IF Running(x)
  THEN {StaleLeft(t, x)} \cup HoldLeft(t, x)
       \cup (IF x.probing THEN {} ELSE {x.probe} \ {Never})
  ELSE IF x.st = "none" THEN {} ELSE {Expiry - x.over}

\* The deadlines of a table are those of its rows and the end of the grace.
LEMMA DeadlinesAre ==
  ASSUME NEW T
  PROVE  Deadlines(T) = (UNION {RowLeft(t, T.tasks[t]) : t \in Tasks})
                        \cup (IF T.quiet < Grace THEN {Grace - T.quiet} ELSE {})
BY DEF Deadlines, RowLeft

\* A hold that lapses or is armed again changes nothing that time looks at.
LEMMA LapseSame ==
  ASSUME NEW t \in Tasks, NEW x \in GoodTask
  PROVE  LET y == Lapse(t, x) IN
         /\ y.st = x.st /\ HoldOf(t, y) = HoldOf(t, x)
         /\ StaleLeft(t, y) = StaleLeft(t, x) /\ y.over = x.over
         /\ y.probing = x.probing /\ y.probe = x.probe
         /\ y.auth = x.auth /\ y.paused = x.paused
<1> DEFINE h == HoldOf(t, x)
           y == Lapse(t, x)
<1>1. /\ y.st = x.st /\ y.auth = x.auth /\ y.paused = x.paused
      /\ y.begun = x.begun /\ y.idle = x.idle /\ y.live = x.live
      /\ y.over = x.over /\ y.probing = x.probing /\ y.probe = x.probe
  <2> HIDE DEF h
  <2>1. \/ y = [x EXCEPT !.lapse = h, !.why = h]
        \/ y = [x EXCEPT !.lapse = "none", !.why = ""]
        \/ y = x
    BY DEF Lapse, h
  <2> QED BY <2>1 DEF GoodTask, Task
<1> HIDE DEF y
<1>2. HoldOf(t, y) = HoldOf(t, x)
  BY <1>1 DEF HoldOf, Running, Verified
<1>3. StaleLeft(t, y) = StaleLeft(t, x)
  BY <1>1 DEF StaleLeft, Running, Verified
<1> QED BY <1>1, <1>2, <1>3 DEF y

\* A row that has been judged is not due,
LEMMA JudgeSettles ==
  ASSUME NEW t \in Tasks, NEW x \in GoodTask PROVE ~Due(t, Judge(t, x))
<1> DEFINE s == GoStale(x, Least(Oldest, -StaleLeft(t, x)))
<1>1. StaleLeft(t, x) \in Int /\ x.over \in Nat
      /\ x.st \in {"none", "running", "stale", "ended"}
  <2> x.over \in Ages /\ x.st \in {"none", "running", "stale", "ended"}
    BY DEF GoodTask, Task
  <2> QED BY StaleLeftInt, Numbers DEF GoodTask, Ages
<1>2. ~Due(t, Absent)
  BY DEF Due, Absent, Running
<1>3. CASE ~Running(x)
  BY <1>1, <1>2, <1>3, Numbers DEF Judge, Drop, Due
<1>4. CASE Running(x) /\ StaleLeft(t, x) <= 0
  <2>1. s.st = "stale" /\ s.over = Least(Oldest, -StaleLeft(t, x))
    BY DEF GoStale, GoodTask, Task
  <2>2. s.over \in Nat
    BY <1>1, <1>4, <2>1, Numbers DEF Least
  <2>3. Judge(t, x) = Drop(s)
    BY <1>4 DEF Judge, Running
  <2> HIDE DEF s
  <2> QED BY <1>2, <2>1, <2>2, <2>3, Numbers DEF Drop, Due, Running
<1>5. CASE Running(x) /\ ~(StaleLeft(t, x) <= 0)
  <2> DEFINE y == Lapse(t, x)
  <2>1. Judge(t, x) = y
    BY <1>5 DEF Judge, Running
  <2>2. y.st = x.st /\ HoldOf(t, y) = HoldOf(t, x)
        /\ StaleLeft(t, y) = StaleLeft(t, x)
    BY LapseSame
  <2>3. /\ HoldOf(t, x) = "holds" => y.lapse = "none"
        /\ HoldOf(t, x) \in {"cap", "unverified"} => y.lapse # "none"
    BY DEF Lapse, GoodTask, Task
  <2> HIDE DEF y
  <2> QED BY <1>5, <2>1, <2>2, <2>3 DEF Due, Running
<1> QED BY <1>3, <1>4, <1>5

\* A row that is not due stays as it is, up to the reason of a lapse.
LEMMA JudgeKeeps ==
  ASSUME NEW t \in Tasks, NEW x \in GoodTask, ~Due(t, x)
  PROVE  /\ Kept(x, Judge(t, x)) /\ HoldOf(t, Judge(t, x)) = HoldOf(t, x)
         /\ RowLeft(t, Judge(t, x)) = RowLeft(t, x)
<1> DEFINE y == Judge(t, x)
<1>1. x.st \in {"none", "running", "stale", "ended"} /\ x.over \in Nat
      /\ StaleLeft(t, x) \in Int
  <2> x.over \in Ages /\ x.st \in {"none", "running", "stale", "ended"}
    BY DEF GoodTask, Task
  <2> QED BY StaleLeftInt, Numbers DEF GoodTask, Ages
<1>2. CASE ~Running(x)
  <2>1. y = x
    BY <1>1, <1>2, Numbers DEF Judge, Due, Drop, Running
  <2> HIDE DEF y
  <2> QED BY <2>1 DEF Kept, y
<1>3. CASE Running(x)
  <2>1. y = Lapse(t, x)
    BY <1>1, <1>3 DEF Judge, Due, Running
  <2>2. /\ y.st = x.st /\ HoldOf(t, y) = HoldOf(t, x)
        /\ StaleLeft(t, y) = StaleLeft(t, x) /\ y.over = x.over
        /\ y.probing = x.probing /\ y.probe = x.probe
        /\ y.auth = x.auth /\ y.paused = x.paused
    BY <2>1, LapseSame
  <2>3. \/ y = x
        \/ /\ HoldOf(t, x) \in {"cap", "unverified"} /\ x.lapse # "none"
           /\ y.lapse = HoldOf(t, x) /\ y.why = HoldOf(t, x)
    BY <1>3, <2>1 DEF Lapse, Due, GoodTask, Task
  <2>4. HoldOf(t, x) \in {"cap", "unverified"} => ~(x.auth /\ x.paused)
    BY DEF HoldOf
  <2>5. x.why = WhyOf(x) /\ x.lapse \in {"none", "cap", "unverified"}
    BY <1>3 DEF GoodTask, RowOK, Task
  <2> HIDE DEF y
  <2>6. Kept(x, y)
    BY <2>2, <2>3, <2>4, <2>5 DEF Kept, Mild, WhyOf
  <2>7. HoldLeft(t, y) = HoldLeft(t, x)
    <3>1. CASE y = x
      BY <3>1
    <3>2. CASE y # x
      BY <2>3, <3>2 DEF HoldLeft
    <3> QED BY <3>1, <3>2
  <2>8. RowLeft(t, y) = RowLeft(t, x)
    BY <2>2, <2>7 DEF RowLeft, Running
  <2> QED BY <2>2, <2>6, <2>8 DEF y
<1> QED BY <1>2, <1>3

\* ... so that evaluate settles a table.
LEMMA SettledEvaluate ==
  ASSUME NEW T \in GoodTable PROVE Settled(Evaluate(T))
<1>1. \A t \in Tasks : ~Due(t, Judge(t, T.tasks[t]))
  BY JudgeSettles DEF GoodTable
<1> QED BY <1>1, EvaluateGood DEF Settled

\* What a table shows.
KeyM(T) == Shown(Key(T))

\* It is what its rows show,
LEMMA KeyMIs ==
  ASSUME NEW T
  PROVE  KeyM(T) = [t \in Tasks |-> [st |-> T.tasks[t].st,
                                    why |-> Mild(T.tasks[t].why)]]
<1> DEFINE k == Key(T)
<1>1. \A t \in Tasks : k[t] = [st |-> T.tasks[t].st, why |-> T.tasks[t].why]
  BY DEF Key
<1>2. \A t \in Tasks :
        (IF k[t].why = "unverified" THEN [k[t] EXCEPT !.why = "cap"] ELSE k[t])
        = [st |-> T.tasks[t].st, why |-> Mild(T.tasks[t].why)]
  <2> TAKE t \in Tasks
  <2>1. k[t] = [st |-> T.tasks[t].st, why |-> T.tasks[t].why]
    BY <1>1
  <2> HIDE DEF k
  <2>2. k[t].why = T.tasks[t].why
    BY <2>1
  <2>3. CASE k[t].why = "unverified"
    <3>1. [k[t] EXCEPT !.why = "cap"] = [st |-> T.tasks[t].st, why |-> "cap"]
      BY <2>1
    <3> QED BY <2>2, <2>3, <3>1 DEF Mild
  <2>4. CASE k[t].why # "unverified"
    BY <2>1, <2>2, <2>4 DEF Mild
  <2> QED BY <2>3, <2>4
<1> HIDE DEF k
<1>3. KeyM(T) = [t \in Tasks |-> IF k[t].why = "unverified"
                               THEN [k[t] EXCEPT !.why = "cap"] ELSE k[t]]
  BY DEF KeyM, Shown, k
<1> QED BY <1>2, <1>3

\* ... so that two tables show the same when their rows do.
LEMMA KeyMSame ==
  ASSUME NEW T, NEW U
  PROVE  KeyM(T) = KeyM(U) <=> \A t \in Tasks : Kept(T.tasks[t], U.tasks[t])
<1>1. ASSUME KeyM(T) = KeyM(U), NEW t \in Tasks
      PROVE  Kept(T.tasks[t], U.tasks[t])
  <2>1. KeyM(T)[t] = KeyM(U)[t]
    BY <1>1
  <2> QED BY <2>1, KeyMIs DEF Kept
<1>2. ASSUME \A t \in Tasks : Kept(T.tasks[t], U.tasks[t])
      PROVE  KeyM(T) = KeyM(U)
  BY <1>2, KeyMIs DEF Kept
<1> QED BY <1>1, <1>2

\* Of a row that is not due its key tells whether it holds.
LEMMA KeyTells ==
  ASSUME NEW t \in Tasks, NEW x \in GoodTask, ~Due(t, x)
  PROVE  /\ HoldOf(t, x) = "holds" <=> Running(x) /\ Mild(x.why) = ""
         /\ HoldOf(t, x) \in {"cap", "unverified"}
              <=> Running(x) /\ Mild(x.why) = "cap"
<1>1. CASE ~Running(x)
  BY <1>1 DEF HoldOf
<1>2. CASE Running(x) /\ x.auth /\ x.paused
  BY <1>2 DEF HoldOf, GoodTask, RowOK, WhyOf, Mild
<1>3. CASE Running(x) /\ ~(x.auth /\ x.paused)
  <2>1. HoldOf(t, x) \in {"holds", "cap", "unverified"}
    BY <1>3 DEF HoldOf
  <2>2. x.why = (IF x.lapse # "none" THEN x.lapse ELSE "")
        /\ x.lapse \in {"none", "cap", "unverified"}
    BY <1>3 DEF GoodTask, RowOK, WhyOf, Task
  <2> QED BY <1>3, <2>1, <2>2 DEF Due, Mild
<1> QED BY <1>1, <1>2, <1>3

\* The tasks whose hold has lapsed.
LapsedIn(T) == {t \in Tasks : HoldOf(t, T.tasks[t]) \in {"cap", "unverified"}}

\* The published hold, by its parts.
LEMMA HoldIs ==
  ASSUME NEW T
  PROVE  Hold(T) = [holding |-> Cardinality(Holding(T)), lapsed |-> LapsedIn(T),
                    grace |-> T.quiet < Grace]
BY DEF Hold, LapsedIn

\* Settled tables that show the same hold the same.
LEMMA KeyHolds ==
  ASSUME NEW T, NEW U, Settled(T), Settled(U), KeyM(T) = KeyM(U)
  PROVE  Holding(T) = Holding(U) /\ LapsedIn(T) = LapsedIn(U)
<1>1. ASSUME NEW t \in Tasks
      PROVE  /\ HoldOf(t, T.tasks[t]) = "holds" <=> HoldOf(t, U.tasks[t]) = "holds"
             /\ HoldOf(t, T.tasks[t]) \in {"cap", "unverified"}
                  <=> HoldOf(t, U.tasks[t]) \in {"cap", "unverified"}
  <2>1. /\ T.tasks[t] \in GoodTask /\ ~Due(t, T.tasks[t])
        /\ U.tasks[t] \in GoodTask /\ ~Due(t, U.tasks[t])
    BY DEF Settled, GoodTable
  <2>2. Kept(T.tasks[t], U.tasks[t])
    BY KeyMSame
  <2> QED BY <2>1, <2>2, KeyTells DEF Kept, Running
<1> QED BY <1>1 DEF Holding, LapsedIn

\* Looking again at a settled table changes nothing but the reason of a lapse.
LEMMA EvaluateKeeps ==
  ASSUME NEW T, Settled(T)
  PROVE  /\ KeyM(Evaluate(T)) = KeyM(T) /\ Hold(Evaluate(T)) = Hold(T)
         /\ Deadlines(Evaluate(T)) = Deadlines(T)
<1> DEFINE V == Evaluate(T)
<1>1. /\ T \in GoodTable /\ Settled(V)
      /\ V.tasks = [t \in Tasks |-> Judge(t, T.tasks[t])]
      /\ V.quiet = IF T.held > 0 /\ Holding(V) = {} THEN 0 ELSE T.quiet
  BY EvaluateGood, SettledEvaluate DEF Settled
<1>2. \A t \in Tasks : /\ Kept(T.tasks[t], V.tasks[t])
                       /\ RowLeft(t, V.tasks[t]) = RowLeft(t, T.tasks[t])
  <2> HIDE DEF V
  <2> QED BY <1>1, JudgeKeeps DEF Settled, GoodTable
<1> HIDE DEF V
<1>3. KeyM(T) = KeyM(V)
  BY <1>2, KeyMSame
<1>4. Holding(T) = Holding(V) /\ LapsedIn(T) = LapsedIn(V)
  BY <1>1, <1>3, KeyHolds
<1>5. V.quiet = T.quiet
  <2> Holding(T) = {} => T.held = 0
    BY HoldingCount DEF Settled
  <2> QED BY <1>1, <1>4
<1>6. Hold(V) = Hold(T)
  BY <1>4, <1>5, HoldIs
<1>7. Deadlines(V) = Deadlines(T)
  <2>1. {RowLeft(t, V.tasks[t]) : t \in Tasks}
        = {RowLeft(t, T.tasks[t]) : t \in Tasks}
    BY <1>2
  <2> QED BY <1>5, <2>1, DeadlinesAre
<1> QED BY <1>3, <1>6, <1>7 DEF V

\* Held by no row that a caller left as it was: if a settle shows nothing new, it
\* starts no grace either.
LEMMA SettleKeeps ==
  ASSUME NEW T, Settled(T), NEW Y, Counted(T, Y), NoRevival(T, Y),
         KeyM(Evaluate(Y)) = KeyM(T)
  PROVE  Hold(Evaluate(Y)) = Hold(T)
<1> DEFINE Z == Evaluate(Y)
<1>1. /\ T \in GoodTable /\ Y \in GoodTable /\ Settled(Z) /\ Z \in GoodTable
      /\ Z.tasks = [t \in Tasks |-> Judge(t, Y.tasks[t])]
      /\ Z.quiet = IF Y.held > 0 /\ Holding(Z) = {} THEN 0 ELSE Y.quiet
  BY EvaluateGood, SettledEvaluate DEF Settled, Counted
<1> HIDE DEF Z
<1>2. Holding(T) = Holding(Z) /\ LapsedIn(T) = LapsedIn(Z)
  BY <1>1, KeyHolds DEF Z
<1>3. \A t \in Tasks : Kept(T.tasks[t], Z.tasks[t])
  BY KeyMSame DEF Z
<1>4. ASSUME NEW t \in Holding(Y), t \notin Holding(Z)
      PROVE  FALSE
  <2> DEFINE y == Y.tasks[t]
  <2>1. /\ t \in Tasks /\ y \in GoodTask /\ HoldOf(t, y) = "holds"
        /\ T.tasks[t] \in GoodTask
    BY <1>1 DEF Holding, GoodTable
  <2>2. Running(y)
    BY <2>1 DEF HoldOf
  <2>3. HoldOf(t, Judge(t, y)) # "holds"
    BY <1>1, <1>4, <2>1 DEF Holding
  <2> HIDE DEF y
  <2>4. StaleLeft(t, y) <= 0
    BY <2>1, <2>2, <2>3, LapseSame DEF Judge, Running
  <2>5. ~Running(Judge(t, y))
    BY <2>1, <2>2, <2>4, EndsNot DEF Judge, Drop, Absent, Running
  <2>6. ~Running(T.tasks[t])
    BY <1>1, <1>3, <2>1, <2>5 DEF Kept, Running, y
  <2>7. (y.idle = 0 /\ y.begun = 0) \/ y.auth
    BY <2>1, <2>2, <2>6 DEF NoRevival, y
  <2>8. CASE y.idle = 0 /\ y.begun = 0
    BY <2>4, <2>8, Numbers DEF StaleLeft, Most
  <2>9. CASE y.auth
    <3>1. y.begun < Cap /\ y.begun \in Nat /\ y.idle \in Nat
      <4> y.begun \in Ages /\ y.idle \in Ages
        BY <2>1 DEF GoodTask, Task
      <4> QED BY <2>1, <2>9, Numbers DEF HoldOf, Ages
    <3> QED BY <2>4, <2>9, <3>1, Numbers DEF StaleLeft, Most
  <2> QED BY <2>7, <2>8, <2>9
<1>5. Z.quiet = T.quiet
  <2>1. Y.held = 0 <=> Holding(Y) = {}
    BY HoldingCount DEF Counted
  <2>2. T.held = 0 <=> Holding(T) = {}
    BY HoldingCount DEF Settled
  <2>3. T.held \in Nat /\ Y.held \in Nat
    BY <1>1, TasksFinite DEF GoodTable
  <2>4. Holding(Z) = {} => Holding(Y) = {}
    BY <1>4
  <2>5. Y.quiet = T.quiet \/ (T.held > 0 /\ Holding(Y) = {})
    BY DEF Counted
  <2>6. ASSUME T.held > 0, Holding(Y) = {} PROVE FALSE
    <3>1. PICK t \in Tasks : HoldOf(t, Z.tasks[t]) = "holds"
      BY <1>2, <2>2, <2>3, <2>6 DEF Holding
    <3> DEFINE y == Y.tasks[t]
    <3>2. y \in GoodTask /\ Judge(t, y) = Z.tasks[t]
      BY <1>1 DEF GoodTable
    <3>3. HoldOf(t, y) # "holds"
      BY <2>6 DEF Holding
    <3> HIDE DEF y
    <3>4. Running(Judge(t, y))
      BY <3>1, <3>2 DEF HoldOf
    <3>5. Judge(t, y) = Lapse(t, y)
      <4>1. ~Running(Drop(y)) \/ Running(y)
        BY DEF Drop, Absent, Running
      <4>2. ~Running(Drop(GoStale(y, Least(Oldest, -StaleLeft(t, y)))))
        BY <3>2, EndsNot DEF Drop, Absent, Running
      <4> QED BY <3>4, <4>1, <4>2 DEF Judge, Running
    <3> QED BY <3>1, <3>2, <3>3, <3>5, LapseSame
  <2> QED BY <1>1, <1>2, <2>1, <2>2, <2>3, <2>4, <2>5, <2>6
<1> QED BY <1>2, <1>5, HoldIs DEF Z

\* A change of T into Y that shows nothing new starts no grace.
Keeps(T, Y) ==
  /\ Y \in GoodTable
  /\ Settled(T) /\ KeyM(Evaluate(Y)) = KeyM(T) => Hold(Evaluate(Y)) = Hold(T)

\* A counted change that revives nothing shows what it starts,
LEMMA CountedKeeps ==
  ASSUME NEW T, NEW Y \in GoodTable, NoRevival(T, Y),
         T.held = Cardinality(Holding(T)) => Counted(T, Y)
  PROVE  Keeps(T, Y)
<1>1. ASSUME Settled(T), KeyM(Evaluate(Y)) = KeyM(T)
      PROVE  Hold(Evaluate(Y)) = Hold(T)
  <2>1. Counted(T, Y)
    BY <1>1 DEF Settled
  <2> QED BY <1>1, <2>1, SettleKeeps
<1> QED BY <1>1 DEF Keeps

\* ... and so does a change of rows that is not counted.
LEMMA SameKeeps ==
  ASSUME NEW T, NEW Y, SameHolds(T, Y) PROVE Keeps(T, Y)
<1> DEFINE Z == Evaluate(Y)
<1>1. Y \in GoodTable /\ Y.held = T.held /\ Y.quiet = T.quiet
  BY DEF SameHolds
<1>2. /\ Settled(Z)
      /\ Z.quiet = IF Y.held > 0 /\ Holding(Z) = {} THEN 0 ELSE Y.quiet
  BY <1>1, EvaluateGood, SettledEvaluate
<1> HIDE DEF Z
<1>3. ASSUME Settled(T), KeyM(Z) = KeyM(T) PROVE Hold(Z) = Hold(T)
  <2>1. Holding(T) = Holding(Z) /\ LapsedIn(T) = LapsedIn(Z)
    BY <1>2, <1>3, KeyHolds
  <2>2. Holding(T) = {} => T.held = 0
    BY <1>3, HoldingCount DEF Settled
  <2>3. Z.quiet = T.quiet
    BY <1>1, <1>2, <2>1, <2>2
  <2> QED BY <2>1, <2>3, HoldIs
<1> QED BY <1>1, <1>3 DEF Keeps, Z

-----------------------------------------------------------------------------
(* Deadlines.                                                                *)

\* A set of numbers bounded below has a least one.
LEMMA IntMin ==
  ASSUME NEW D, D \subseteq Int, NEW b \in Nat, \A d \in D : d >= -b, D # {}
  PROVE  \E m \in D : \A d \in D : m <= d
<1> DEFINE S == {k \in Nat : \E d \in D : k = d + b}
<1>1. S \subseteq Nat /\ S # {} /\ \A d \in D : d + b \in S
  <2> \A d \in D : d + b \in Nat
    OBVIOUS
  <2> QED OBVIOUS
<1>2. PICK k \in S : \A j \in S : k <= j
  <2> HIDE DEF S
  <2> QED BY <1>1, NatMin
<1>3. PICK m \in D : k = m + b
  OBVIOUS
<1>4. \A d \in D : m <= d
  <2> HIDE DEF S
  <2> QED BY <1>1, <1>2, <1>3
<1> QED BY <1>4

\* The ages of a row are numbers up to Oldest.
LEMMA RowNumbers ==
  ASSUME NEW x \in GoodTask
  PROVE  /\ x.begun \in Nat /\ x.idle \in Nat /\ x.over \in Nat
         /\ x.begun <= Oldest /\ x.idle <= Oldest /\ x.over <= Oldest
         /\ x.probe \in Nat \cup {Never}
         /\ x.st \in {"none", "running", "stale", "ended"}
         /\ x.lapse \in {"none", "cap", "unverified"}
<1>1. /\ x.begun \in Ages /\ x.idle \in Ages /\ x.over \in Ages
      /\ x.probe \in {Never} \cup 0..Most(ProbeFirst, ProbeInterval)
      /\ x.st \in {"none", "running", "stale", "ended"}
      /\ x.lapse \in {"none", "cap", "unverified"}
  BY DEF GoodTask, Task
<1>2. \A n \in 0..Most(ProbeFirst, ProbeInterval) : n \in Nat
  BY Numbers DEF Most
<1> QED BY <1>1, <1>2, Numbers DEF Ages

\* No deadline lies further back than the oldest age: not that of staleness,
LEMMA StaleLeftLeast ==
  ASSUME NEW t \in Tasks, NEW x \in GoodTask
  PROVE  StaleLeft(t, x) \in Int /\ StaleLeft(t, x) >= -Oldest
BY RowNumbers, Numbers DEF StaleLeft, Most

\* ... nor that of a hold,
LEMMA HoldLeftLeast ==
  ASSUME NEW t \in Tasks, NEW x \in GoodTask, NEW d \in HoldLeft(t, x)
  PROVE  d \in Int /\ d >= -Oldest
BY RowNumbers, Numbers DEF HoldLeft, Least

\* ... nor any other of a row,
LEMMA RowLeftLeast ==
  ASSUME NEW t \in Tasks, NEW x \in GoodTask, NEW d \in RowLeft(t, x)
  PROVE  d \in Int /\ d >= -Oldest
<1>1. CASE Running(x)
  <2>1. d = StaleLeft(t, x) \/ d \in HoldLeft(t, x) \/ (d = x.probe /\ d # Never)
    BY <1>1 DEF RowLeft
  <2> QED BY <2>1, StaleLeftLeast, HoldLeftLeast, RowNumbers, Numbers
<1>2. CASE ~Running(x)
  <2>1. d = Expiry - x.over
    BY <1>2 DEF RowLeft
  <2> QED BY <2>1, RowNumbers, Numbers
<1> QED BY <1>1, <1>2

\* A deadline of a table is one of a row or the end of the grace.
LEMMA DeadlineIn ==
  ASSUME NEW T, NEW d
  PROVE  d \in Deadlines(T) <=>
           \/ \E t \in Tasks : d \in RowLeft(t, T.tasks[t])
           \/ T.quiet < Grace /\ d = Grace - T.quiet
<1> DEFINE R == {RowLeft(t, T.tasks[t]) : t \in Tasks}
           q == IF T.quiet < Grace THEN {Grace - T.quiet} ELSE {}
<1>1. d \in UNION R <=> \E t \in Tasks : d \in RowLeft(t, T.tasks[t])
  OBVIOUS
<1>2. d \in q <=> T.quiet < Grace /\ d = Grace - T.quiet
  OBVIOUS
<1>3. Deadlines(T) = (UNION R) \cup q
  BY DeadlinesAre
<1> HIDE DEF R, q
<1> QED BY <1>1, <1>2, <1>3

\* No deadline of a table lies further back than the oldest age.
LEMMA DeadlineLeast ==
  ASSUME NEW T \in GoodTable
  PROVE  /\ Deadlines(T) \subseteq Int
         /\ \A d \in Deadlines(T) : d >= -Oldest
<1> SUFFICES ASSUME NEW d \in Deadlines(T) PROVE d \in Int /\ d >= -Oldest
  OBVIOUS
<1>1. CASE \E t \in Tasks : d \in RowLeft(t, T.tasks[t])
  BY <1>1, RowLeftLeast DEF GoodTable
<1>2. CASE T.quiet < Grace /\ d = Grace - T.quiet
  <2> T.quiet \in Nat
    BY Numbers DEF GoodTable
  <2> QED BY <1>2, Numbers
<1> QED BY <1>1, <1>2, DeadlineIn

\* A timer that sleeps for left sleeps past no deadline of T.
Covers(left, T) == /\ left = Never => Deadlines(T) = {}
                   /\ \A d \in Deadlines(T) : left <= Most(0, d)

\* next_deadline finds the earliest one.
LEMMA NextCovers ==
  ASSUME NEW T \in GoodTable
  PROVE  Covers(NextDeadline(T), T) /\ NextDeadline(T) \in Nat \cup {Never}
<1> DEFINE D == Deadlines(T)
           m == CHOOSE d \in D : \A e \in D : d <= e
<1>1. D \subseteq Int /\ \A d \in D : d >= -Oldest
  BY DeadlineLeast
<1>2. NextDeadline(T) = IF D = {} THEN Never ELSE Most(0, m)
  BY DEF NextDeadline
<1> HIDE DEF D
<1>3. CASE D = {}
  BY <1>2, <1>3 DEF Covers, D
<1>4. CASE D # {}
  <2>1. \E d \in D : \A e \in D : d <= e
    BY <1>1, <1>4, IntMin, Numbers
  <2>2. m \in D /\ \A e \in D : m <= e
    BY <2>1
  <2> HIDE DEF m
  <2>3. m \in Int
    BY <1>1, <2>2
  <2>4. Most(0, m) \in Nat /\ \A d \in D : Most(0, m) <= Most(0, d)
    BY <1>1, <2>2, <2>3 DEF Most
  <2> QED BY <1>2, <1>4, <2>4 DEF Covers, D, Never
<1> QED BY <1>3, <1>4

\* No deadline of U is earlier than one of T, by more than n.
Later(T, U, n) == \A d \in Deadlines(U) : \E c \in Deadlines(T) : c <= d + n

\* A timer that sleeps past no deadline need not be woken for later ones.
LEMMA CoversLater ==
  ASSUME NEW T \in GoodTable, NEW U \in GoodTable, NEW l \in Nat \cup {Never},
         Covers(l, T), Later(T, U, 0)
  PROVE  Covers(l, U)
<1>1. Deadlines(T) = {} => Deadlines(U) = {}
  BY DEF Later
<1>2. ASSUME NEW d \in Deadlines(U) PROVE l <= Most(0, d)
  <2>1. PICK c \in Deadlines(T) : c <= d + 0
    BY DEF Later
  <2>2. c \in Int /\ d \in Int /\ l \in Int
    BY DeadlineLeast DEF Never
  <2>3. l <= Most(0, c)
    BY DEF Covers
  <2> QED BY <2>1, <2>2, <2>3 DEF Most
<1> QED BY <1>1, <1>2 DEF Covers

\* While time passes the timer and the deadlines come nearer together.
LEMMA CoversTick ==
  ASSUME NEW T \in GoodTable, NEW U \in GoodTable, NEW l \in Nat \cup {Never},
         Covers(l, T), Later(T, U, 1)
  PROVE  Covers(IF l > 0 THEN l - 1 ELSE l, U)
<1>1. Deadlines(T) = {} => Deadlines(U) = {}
  BY DEF Later
<1>2. ASSUME NEW d \in Deadlines(U)
      PROVE  (IF l > 0 THEN l - 1 ELSE l) <= Most(0, d)
  <2>1. PICK c \in Deadlines(T) : c <= d + 1
    BY DEF Later
  <2>2. c \in Int /\ d \in Int /\ l \in Int
    BY DeadlineLeast DEF Never
  <2>3. l <= Most(0, c)
    BY DEF Covers
  <2> QED BY <2>1, <2>2, <2>3 DEF Most
<1>3. (IF l > 0 THEN l - 1 ELSE l) = Never => Deadlines(U) = {}
  <2>1. l = Never => Deadlines(U) = {}
    BY <1>1 DEF Covers
  <2> QED BY <2>1 DEF Never
<1> QED BY <1>2, <1>3 DEF Covers

-----------------------------------------------------------------------------
\* Row by row the same, and not due.
Quietly(T, U) ==
  /\ U \in GoodTable /\ U.held = T.held
  /\ U.quiet < Grace <=> T.quiet < Grace
  /\ \A t \in Tasks : ~Due(t, U.tasks[t]) /\ Kept(T.tasks[t], U.tasks[t])

\* A change that makes no row due and shows nothing keeps a settled table
\* settled, and the hold it has.
LEMMA QuietlyKeeps ==
  ASSUME NEW T, Settled(T), NEW U, Quietly(T, U)
  PROVE  Settled(U) /\ KeyM(U) = KeyM(T) /\ Hold(U) = Hold(T)
<1>1. KeyM(U) = KeyM(T)
  BY KeyMSame DEF Quietly
<1>2. ASSUME NEW t \in Tasks
      PROVE  HoldOf(t, T.tasks[t]) = "holds" <=> HoldOf(t, U.tasks[t]) = "holds"
  <2>1. /\ T.tasks[t] \in GoodTask /\ ~Due(t, T.tasks[t])
        /\ U.tasks[t] \in GoodTask /\ ~Due(t, U.tasks[t])
        /\ Kept(T.tasks[t], U.tasks[t])
    BY DEF Settled, GoodTable, Quietly
  <2> QED BY <2>1, KeyTells DEF Kept, Running
<1>3. Holding(U) = Holding(T)
  BY <1>2 DEF Holding
<1>4. Settled(U)
  BY <1>3 DEF Settled, Quietly
<1>5. LapsedIn(U) = LapsedIn(T)
  BY <1>1, <1>4, KeyHolds
<1>6. (U.quiet < Grace) = (T.quiet < Grace)
  BY DEF Quietly
<1> QED BY <1>1, <1>3, <1>4, <1>5, <1>6, HoldIs

\* A command that shows a sign of life.
LEMMA SeenRow ==
  ASSUME NEW t \in Commands, NEW x \in GoodTask, ~Due(t, x), Running(x),
         x.lapse = "unverified" => ~(x.idle > 0)
  PROVE  LET y == Seen(x, 0) IN
         /\ y \in GoodTask /\ ~Due(t, y) /\ Kept(x, y)
         /\ \A d \in RowLeft(t, y) : \E c \in RowLeft(t, x) : c <= d
<1> DEFINE y == Seen(x, 0)
<1>1. y \in GoodTask /\ t \in Tasks
  BY SeenGood, Numbers DEF Tasks
<1>2. /\ y.st = x.st /\ y.why = x.why /\ y.lapse = x.lapse /\ y.auth = x.auth
      /\ y.paused = x.paused /\ y.begun = x.begun /\ y.live = x.live
      /\ y.over = x.over /\ y.probing = x.probing /\ y.probe = x.probe
      /\ y.idle = 0
  <2>1. Least(x.idle, 0) = 0
    BY RowNumbers DEF Least
  <2> QED BY <2>1 DEF Seen, GoodTask, Task
<1> HIDE DEF y
<1>3. StaleLeft(t, x) <= StaleLeft(t, y)
  BY <1>1, <1>2, RowNumbers, Numbers DEF StaleLeft, Most, Verified
<1>4. Running(y)
  BY <1>2 DEF Running
<1>5. /\ HoldOf(t, x) = "no" => HoldOf(t, y) = "no"
      /\ HoldOf(t, x) = "holds" => HoldOf(t, y) = "holds"
      /\ x.begun >= Cap => HoldOf(t, y) # "holds"
      /\ x.idle = 0 => HoldOf(t, y) = HoldOf(t, x)
  <2> t \notin Subagents
    BY TableAssumption DEF TableAssumption
  <2> QED BY <1>2, <1>4, Numbers DEF HoldOf, Verified
<1>6. x.lapse = "cap" => x.begun >= Cap
  BY DEF GoodTask, RowOK
<1>7. ~Due(t, y)
  <2>1. StaleLeft(t, x) > 0 /\ StaleLeft(t, x) \in Int /\ StaleLeft(t, y) \in Int
    BY <1>1, StaleLeftLeast DEF Due
  <2>2. ~(StaleLeft(t, y) <= 0) /\ y.st = "running"
    BY <1>2, <1>3, <2>1 DEF Running
  <2> USE DEF Due
  <2>3. CASE x.lapse = "none"
    <3>1. HoldOf(t, x) \in {"no", "holds"}
      BY <2>3 DEF Due, HoldOf
    <3> QED BY <1>2, <1>4, <1>5, <2>2, <2>3, <3>1 DEF Due, Running
  <2>4. CASE x.lapse = "unverified"
    <3>1. x.idle = 0
      BY <2>4, RowNumbers
    <3> QED BY <1>2, <1>4, <1>5, <2>2, <2>4, <3>1 DEF Due, Running
  <2>5. CASE x.lapse = "cap"
    BY <1>2, <1>4, <1>5, <1>6, <2>2, <2>5 DEF Due, Running
  <2> QED BY <2>3, <2>4, <2>5, RowNumbers
<1>8. Kept(x, y)
  BY <1>2 DEF Kept
<1>9. ASSUME NEW d \in RowLeft(t, y) PROVE \E c \in RowLeft(t, x) : c <= d
  <2>1. d = StaleLeft(t, y) \/ d \in HoldLeft(t, y)
        \/ (~y.probing /\ d = y.probe /\ d # Never)
    BY <1>4 DEF RowLeft
  <2>2. CASE d = StaleLeft(t, y)
    BY <1>3, <2>2 DEF RowLeft
  <2>3. CASE d \in HoldLeft(t, y)
    <3>1. \E c \in HoldLeft(t, x) : c <= d
      BY <1>2, <2>3, RowNumbers, Numbers DEF HoldLeft, Running, Verified, Least
    <3> QED BY <3>1 DEF RowLeft
  <2>4. CASE ~y.probing /\ d = y.probe /\ d # Never
    <3>1. d \in RowLeft(t, x) /\ d \in Int
      BY <1>2, <2>4, RowNumbers DEF RowLeft
    <3> QED BY <3>1
  <2> QED BY <2>1, <2>2, <2>3, <2>4
<1> QED BY <1>1, <1>7, <1>8, <1>9 DEF y

\* Text of the harness that arms no hold again.
LEMMA BumpKeeps ==
  ASSUME NEW T, Settled(T),
         ~ \E t \in Commands : /\ Running(T.tasks[t])
                               /\ T.tasks[t].lapse = "unverified"
                               /\ T.tasks[t].idle > 0
  PROVE  /\ Settled(Bump(T, 0)) /\ KeyM(Bump(T, 0)) = KeyM(T)
         /\ Hold(Bump(T, 0)) = Hold(T) /\ Later(T, Bump(T, 0), 0)
<1> DEFINE U == Bump(T, 0)
           f == [t \in Tasks |-> IF t \in Commands /\ Running(T.tasks[t])
                                 THEN Seen(T.tasks[t], 0) ELSE T.tasks[t]]
<1>1. T \in GoodTable /\ SameHolds(T, U) /\ U.tasks = f
  <2>1. SameHolds(T, U)
    BY BumpGood, Numbers DEF Settled
  <2>2. U.tasks = f
    BY DEF Bump, Settled, GoodTable
  <2> QED BY <2>1, <2>2 DEF Settled
<1> HIDE DEF U
<1>2. ASSUME NEW t \in Tasks
      PROVE  /\ f[t] \in GoodTask /\ ~Due(t, f[t]) /\ Kept(T.tasks[t], f[t])
             /\ \A d \in RowLeft(t, f[t]) :
                  \E c \in RowLeft(t, T.tasks[t]) : c <= d
  <2> DEFINE x == T.tasks[t]
  <2>1. x \in GoodTask /\ ~Due(t, x)
    BY DEF Settled, GoodTable
  <2>2. CASE t \in Commands /\ Running(x)
    <3>1. x.lapse = "unverified" => ~(x.idle > 0)
      BY <2>2
    <3>2. f[t] = Seen(x, 0)
      BY <2>2
    <3> HIDE DEF f, x
    <3> QED BY <2>1, <2>2, <3>1, <3>2, SeenRow DEF x
  <2>3. CASE ~(t \in Commands /\ Running(x))
    <3>1. f[t] = x
      BY <2>3
    <3>2. \A d \in RowLeft(t, x) : d \in Int /\ d <= d
      BY <2>1, RowLeftLeast
    <3> HIDE DEF f
    <3> QED BY <2>1, <3>1, <3>2 DEF Kept
  <2> QED BY <2>2, <2>3
<1> HIDE DEF f
<1>3. Quietly(T, U)
  BY <1>1, <1>2 DEF Quietly, SameHolds
<1>4. Later(T, U, 0)
  <2> SUFFICES ASSUME NEW d \in Deadlines(U)
               PROVE  \E c \in Deadlines(T) : c <= d + 0
    BY DEF Later
  <2>1. d \in Int
    BY <1>1, DeadlineLeast DEF SameHolds
  <2>2. CASE \E t \in Tasks : d \in RowLeft(t, U.tasks[t])
    <3>1. PICK t \in Tasks : d \in RowLeft(t, f[t])
      BY <1>1, <2>2
    <3>2. PICK c \in RowLeft(t, T.tasks[t]) : c <= d
      BY <1>2, <3>1
    <3>3. c \in Deadlines(T)
      BY <3>2, DeadlineIn
    <3>4. d + 0 = d
      BY <2>1
    <3> QED BY <3>2, <3>3, <3>4
  <2>3. CASE U.quiet < Grace /\ d = Grace - U.quiet
    <3>1. d \in Deadlines(T)
      BY <1>1, <2>3, DeadlineIn DEF SameHolds
    <3> QED BY <2>1, <3>1
  <2> QED BY <2>2, <2>3, DeadlineIn
<1> QED BY <1>3, <1>4, QuietlyKeeps DEF U

-----------------------------------------------------------------------------
(* Time that passes.                                                         *)

\* What one unit of time makes of a row.
AgedOne(x) == LET y == AgeTask(x) IN
  /\ y.st = x.st /\ y.why = x.why /\ y.lapse = x.lapse /\ y.auth = x.auth
  /\ y.paused = x.paused /\ y.live = x.live /\ y.probing = x.probing
  /\ y.begun \in Nat /\ x.begun <= y.begun /\ y.begun <= x.begun + 1
  /\ y.idle \in Nat /\ x.idle <= y.idle /\ y.idle <= x.idle + 1
  /\ y.over \in Nat /\ x.over <= y.over /\ y.over <= x.over + 1
  /\ y.probe \in Nat \cup {Never} /\ (y.probe = Never <=> x.probe = Never)
  /\ x.probe <= y.probe + 1

\* It does so to every row.
LEMMA AgedRow ==
  ASSUME NEW x \in GoodTask PROVE AgedOne(x)
<1> DEFINE p == IF x.probe > 0 THEN x.probe - 1 ELSE x.probe
           y == AgeTask(x)
<1>1. /\ x \in Task /\ x.begun \in Ages /\ x.idle \in Ages /\ x.over \in Ages
      /\ x.probe \in Nat \cup {Never}
  BY RowNumbers DEF GoodTask, Task
<1>2. \A n \in Ages : n \in Nat /\ Older(n) \in Nat
                      /\ n <= Older(n) /\ Older(n) <= n + 1
  BY Numbers DEF Ages, Older, Least
<1>3. p \in Nat \cup {Never} /\ (p = Never <=> x.probe = Never)
      /\ x.probe <= p + 1
  BY <1>1 DEF Never
<1>4. CASE x.st = "none"
  <2>1. y = x
    BY <1>4 DEF AgeTask
  <2>2. \A n \in Nat : n <= n /\ n <= n + 1
    OBVIOUS
  <2>3. x.probe <= x.probe + 1
    BY <1>1 DEF Never
  <2> QED BY <1>1, <1>2, <2>1, <2>2, <2>3 DEF AgedOne
<1>5. CASE x.st # "none"
  <2>1. y = [x EXCEPT !.begun = Older(x.begun), !.idle = Older(x.idle),
                      !.over = Older(x.over), !.probe = p]
    BY <1>5 DEF AgeTask
  <2> HIDE DEF p, y
  <2>2. /\ y.st = x.st /\ y.why = x.why /\ y.lapse = x.lapse /\ y.auth = x.auth
        /\ y.paused = x.paused /\ y.live = x.live /\ y.probing = x.probing
        /\ y.begun = Older(x.begun) /\ y.idle = Older(x.idle)
        /\ y.over = Older(x.over) /\ y.probe = p
    BY <1>1, <2>1 DEF Task
  <2> QED BY <1>1, <1>2, <1>3, <2>2 DEF AgedOne, y
<1> QED BY <1>4, <1>5

\* Every deadline of a row comes nearer by one at most.
LEMMA AgedLater ==
  ASSUME NEW t \in Tasks, NEW x \in GoodTask,
         NEW d \in RowLeft(t, AgeTask(x))
  PROVE  \E c \in RowLeft(t, x) : c <= d + 1
<1> DEFINE y == AgeTask(x)
<1>1. y \in GoodTask /\ AgedOne(x)
  BY AgedGood, AgedRow
<1>2. /\ y.st = x.st /\ y.lapse = x.lapse /\ y.auth = x.auth
      /\ y.paused = x.paused /\ y.live = x.live /\ y.probing = x.probing
      /\ y.begun \in Nat /\ x.begun <= y.begun /\ y.begun <= x.begun + 1
      /\ y.idle \in Nat /\ x.idle <= y.idle /\ y.idle <= x.idle + 1
      /\ y.over \in Nat /\ x.over <= y.over /\ y.over <= x.over + 1
      /\ y.probe \in Nat \cup {Never} /\ (y.probe = Never <=> x.probe = Never)
      /\ x.probe <= y.probe + 1
  BY <1>1 DEF AgedOne
<1> HIDE DEF y
<1>3. CASE Running(x)
  <2>1. Running(y)
    BY <1>2, <1>3 DEF Running
  <2>2. d = StaleLeft(t, y) \/ d \in HoldLeft(t, y)
        \/ (~y.probing /\ d = y.probe /\ d # Never)
    BY <2>1 DEF RowLeft, y
  <2>3. CASE d = StaleLeft(t, y)
    <3>1. StaleLeft(t, x) <= StaleLeft(t, y) + 1
      BY <1>2, RowNumbers, Numbers DEF StaleLeft, Most, Verified
    <3> QED BY <1>3, <2>3, <3>1 DEF RowLeft
  <2>4. CASE d \in HoldLeft(t, y)
    <3>1. \E c \in HoldLeft(t, x) : c <= d + 1
      BY <1>2, <1>3, <2>1, <2>4, RowNumbers, Numbers
         DEF HoldLeft, Verified, Least
    <3> QED BY <1>3, <3>1 DEF RowLeft
  <2>5. CASE ~y.probing /\ d = y.probe /\ d # Never
    <3>1. x.probe \in RowLeft(t, x) /\ x.probe <= d + 1
      BY <1>2, <1>3, <2>5 DEF RowLeft
    <3> QED BY <3>1
  <2> QED BY <2>2, <2>3, <2>4, <2>5
<1>4. CASE ~Running(x)
  <2>1. d = Expiry - y.over /\ x.st # "none"
    BY <1>2, <1>4 DEF RowLeft, Running, y
  <2>2. Expiry - x.over \in RowLeft(t, x)
    BY <1>4, <2>1 DEF RowLeft
  <2>3. Expiry - x.over <= d + 1
    BY <1>2, <2>1, RowNumbers, Numbers
  <2> QED BY <2>2, <2>3
<1> QED BY <1>3, <1>4

\* A row with no deadline within two units is not due one unit later.
LEMMA AgedNotDue ==
  ASSUME NEW t \in Tasks, NEW x \in GoodTask, ~Due(t, x),
         \A d \in RowLeft(t, x) : d >= 2
  PROVE  ~Due(t, AgeTask(x)) /\ Kept(x, AgeTask(x))
<1> DEFINE y == AgeTask(x)
<1>1. y \in GoodTask /\ AgedOne(x)
  BY AgedGood, AgedRow
<1>2. /\ y.st = x.st /\ y.why = x.why /\ y.lapse = x.lapse /\ y.auth = x.auth
      /\ y.paused = x.paused /\ y.live = x.live
      /\ y.begun \in Nat /\ x.begun <= y.begun /\ y.begun <= x.begun + 1
      /\ y.idle \in Nat /\ x.idle <= y.idle /\ y.idle <= x.idle + 1
      /\ y.over \in Nat /\ x.over <= y.over /\ y.over <= x.over + 1
  BY <1>1 DEF AgedOne
<1> HIDE DEF y
<1>3. CASE ~Running(x)
  <2>1. y.st # "running"
    BY <1>2, <1>3 DEF Running
  <2>2. x.st # "none" => Expiry - x.over >= 2
    BY <1>3 DEF RowLeft
  <2>3. x.st # "none" => ~(y.over >= Expiry)
    BY <1>2, <2>2, RowNumbers, Numbers
  <2> QED BY <1>2, <2>1, <2>3 DEF Due, Running, Kept, y
<1>4. CASE Running(x)
  <2>1. y.st = "running" /\ x.st = "running"
    BY <1>2, <1>4 DEF Running
  <2>2. StaleLeft(t, x) >= 2 /\ \A d \in HoldLeft(t, x) : d >= 2
    BY <1>4 DEF RowLeft
  <2>3. StaleLeft(t, x) <= StaleLeft(t, y) + 1
    BY <1>2, RowNumbers, Numbers DEF StaleLeft, Most, Verified
  <2>4. ~(StaleLeft(t, y) <= 0)
    BY <1>1, <2>2, <2>3, StaleLeftLeast DEF y
  <2>5. HoldOf(t, x) = "no" => HoldOf(t, y) = "no"
    BY <1>2, <2>1 DEF HoldOf, Running
  <2>6. HoldOf(t, x) \in {"cap", "unverified"}
          => HoldOf(t, y) \in {"cap", "unverified"}
    BY <1>2, <2>1, RowNumbers, Numbers DEF HoldOf, Running, Verified
  <2>7. CASE x.lapse = "none"
    <3>1. HoldOf(t, x) \in {"no", "holds"}
      BY <1>4, <2>7 DEF Due, HoldOf
    <3>2. HoldOf(t, x) = "holds" => HoldOf(t, y) = "holds"
      BY <1>2, <2>1, <2>2, <2>7, RowNumbers, Numbers
         DEF HoldOf, HoldLeft, Running, Verified, Least
    <3> QED BY <1>2, <2>1, <2>4, <2>5, <2>7, <3>1, <3>2
        DEF Due, Running, Kept, y
  <2>8. CASE x.lapse # "none"
    <3>1. HoldOf(t, x) \in {"no", "cap", "unverified"}
      BY <1>4, <2>8 DEF Due, HoldOf
    <3> QED BY <1>2, <2>1, <2>4, <2>5, <2>6, <2>8, <3>1
        DEF Due, Running, Kept, y
  <2> QED BY <2>7, <2>8
<1> QED BY <1>3, <1>4

\* Time that passes short of the deadline the timer sleeps for changes nothing.
LEMMA TickKeeps ==
  ASSUME NEW T, Settled(T), NEW l \in Nat \cup {Never}, l # 0, l # 1,
         Covers(l, T)
  PROVE  Settled(Aged(T)) /\ KeyM(Aged(T)) = KeyM(T) /\ Hold(Aged(T)) = Hold(T)
<1> DEFINE U == Aged(T)
<1>1. /\ T \in GoodTable /\ U \in GoodTable /\ U.held = T.held
      /\ U.tasks = [t \in Tasks |-> AgeTask(T.tasks[t])]
      /\ U.quiet = Least(T.quiet + 1, Grace)
  BY AgedTable DEF Settled
<1> HIDE DEF U
<1>2. ASSUME NEW d \in Deadlines(T) PROVE d >= 2
  <2>1. l # Never /\ l <= Most(0, d) /\ d \in Int
    BY <1>1, DeadlineLeast DEF Covers
  <2> QED BY <2>1 DEF Most
<1>3. ASSUME NEW t \in Tasks
      PROVE  ~Due(t, U.tasks[t]) /\ Kept(T.tasks[t], U.tasks[t])
  <2>1. T.tasks[t] \in GoodTask /\ ~Due(t, T.tasks[t])
    BY DEF Settled, GoodTable
  <2>2. \A d \in RowLeft(t, T.tasks[t]) : d >= 2
    BY <1>2, DeadlineIn
  <2> QED BY <1>1, <2>1, <2>2, AgedNotDue
<1>4. U.quiet < Grace <=> T.quiet < Grace
  <2>1. T.quiet \in Nat /\ T.quiet <= Grace
    BY <1>1, Numbers DEF GoodTable
  <2>2. T.quiet < Grace => Grace - T.quiet >= 2
    BY <1>2, DeadlineIn
  <2> QED BY <1>1, <2>1, <2>2, Numbers DEF Least
<1>5. Quietly(T, U)
  BY <1>1, <1>3, <1>4 DEF Quietly
<1> QED BY <1>5, QuietlyKeeps DEF U

\* Every deadline of a table comes nearer by one at most.
LEMMA TickLater ==
  ASSUME NEW T \in GoodTable PROVE Later(T, Aged(T), 1)
<1> DEFINE U == Aged(T)
<1>1. /\ U \in GoodTable
      /\ U.tasks = [t \in Tasks |-> AgeTask(T.tasks[t])]
      /\ U.quiet = Least(T.quiet + 1, Grace)
  BY AgedTable
<1> HIDE DEF U
<1> SUFFICES ASSUME NEW d \in Deadlines(U)
             PROVE  \E c \in Deadlines(T) : c <= d + 1
  BY DEF Later, U
<1>2. CASE \E t \in Tasks : d \in RowLeft(t, U.tasks[t])
  <2>1. PICK t \in Tasks : d \in RowLeft(t, AgeTask(T.tasks[t]))
    BY <1>1, <1>2
  <2>2. PICK c \in RowLeft(t, T.tasks[t]) : c <= d + 1
    BY <2>1, AgedLater DEF GoodTable
  <2> QED BY <2>2, DeadlineIn
<1>3. CASE U.quiet < Grace /\ d = Grace - U.quiet
  <2>1. T.quiet \in Nat /\ T.quiet <= Grace
    BY Numbers DEF GoodTable
  <2>2. T.quiet < Grace /\ Grace - T.quiet <= d + 1
    BY <1>1, <1>3, <2>1, Numbers DEF Least
  <2> QED BY <2>2, DeadlineIn
<1> QED BY <1>2, <1>3, DeadlineIn

\* A probe that starts changes no row that anyone sees.
LEMMA ProbingRow ==
  ASSUME NEW t \in Tasks, NEW x \in GoodTask
  PROVE  LET y == [x EXCEPT !.probing = TRUE] IN
         y \in GoodTask /\ Kept(x, y) /\ (Due(t, y) => Due(t, x))
<1> DEFINE y == [x EXCEPT !.probing = TRUE]
<1>1. y \in GoodTask
  BY FieldGood
<1>2. /\ y.st = x.st /\ y.why = x.why /\ y.lapse = x.lapse /\ y.auth = x.auth
      /\ y.paused = x.paused /\ y.begun = x.begun /\ y.live = x.live
      /\ y.over = x.over /\ y.idle = x.idle
  BY DEF GoodTask, Task
<1> HIDE DEF y
<1>3. StaleLeft(t, y) = StaleLeft(t, x)
  BY <1>2 DEF StaleLeft, Verified
<1>4. HoldOf(t, y) = HoldOf(t, x)
  BY <1>2 DEF HoldOf, Running, Verified
<1> QED BY <1>1, <1>2, <1>3, <1>4 DEF Kept, Due, Running, y

\* The same of the probes the timer starts together.
LEMMA ProbingGood ==
  ASSUME NEW T \in GoodTable, NEW due
  PROVE  LET U == [T EXCEPT !.tasks =
                     [t \in Tasks |-> IF t \in due
                                      THEN [T.tasks[t] EXCEPT !.probing = TRUE]
                                      ELSE T.tasks[t]]] IN
         /\ U \in GoodTable
         /\ Settled(T) => Settled(U) /\ KeyM(U) = KeyM(T) /\ Hold(U) = Hold(T)
<1> DEFINE f == [t \in Tasks |-> IF t \in due
                                 THEN [T.tasks[t] EXCEPT !.probing = TRUE]
                                 ELSE T.tasks[t]]
           U == [T EXCEPT !.tasks = f]
<1>1. \A t \in Tasks : T.tasks[t] \in GoodTask
  BY DEF GoodTable
<1>2. \A t \in Tasks : /\ f[t] \in GoodTask /\ Kept(T.tasks[t], f[t])
                       /\ Due(t, f[t]) => Due(t, T.tasks[t])
  <2> TAKE t \in Tasks
  <2>1. CASE t \in due
    BY <1>1, <2>1, ProbingRow
  <2>2. CASE t \notin due
    BY <1>1, <2>2 DEF Kept
  <2> QED BY <2>1, <2>2
<1>3. f \in [Tasks -> GoodTask]
  BY <1>2
<1> HIDE DEF f
<1>4. U \in GoodTable /\ U.tasks = f /\ U.held = T.held /\ U.quiet = T.quiet
  BY <1>3, TableFields DEF GoodTable
<1> HIDE DEF U
<1>5. Settled(T) => Quietly(T, U)
  BY <1>2, <1>4 DEF Settled, Quietly
<1>6. U \in GoodTable
      /\ (Settled(T) => Settled(U) /\ KeyM(U) = KeyM(T) /\ Hold(U) = Hold(T))
  BY <1>4, <1>5, QuietlyKeeps
<1> QED BY <1>6 DEF U, f

-----------------------------------------------------------------------------
(* The rebuild.                                                              *)

\* The rows of a transcript.
LogRow == [e : GoodEvent, age : 0..Expiry]

\* The table of a new registry.
LEMMA EmptyGood == EmptyTable \in GoodTable
<1>1. [t \in Tasks |-> Absent] \in [Tasks -> GoodTask]
  BY AbsentGood
<1>2. 0 \in 0..Cardinality(Tasks) /\ Grace \in 0..Grace
  BY TasksFinite, Numbers
<1>3. <<>> \in Seq(Event) /\ <<>> \in Seq(Ends)
  OBVIOUS
<1> QED BY <1>1, <1>2, <1>3 DEF EmptyTable, GoodTable

\* The table of a transcript is sound: the fold over its rows.
LEMMA AppliedGood ==
  ASSUME NEW rows \in Seq(LogRow)
  PROVE  Applied(rows) # {} /\ Applied(rows) \subseteq GoodTable
<1> DEFINE D == DOMAIN rows
           P == {S \in SUBSET GoodTable : S # {}}
           base == {EmptyTable}
           Step(S, r) == {Apply(tab, r.e, r.age) : tab \in S}
           G == [c \in D \X P |-> Step(c[2], rows[c[1]])]
           pick == [s \in SUBSET D |-> Max(s)]
           Rec(g) == g = [s \in SUBSET D |->
                           IF s = {} THEN base
                           ELSE Step(g[s \ {Max(s)}], rows[Max(s)])]
           iter == CHOOSE g : Rec(g)
<1>1. D = 1..Len(rows) /\ Len(rows) \in Nat /\ \A d \in D : rows[d] \in LogRow
  OBVIOUS
<1> HIDE DEF D
<1>2. IsFiniteSet(D)
  BY <1>1, FS_Interval
<1>3. Chooses(pick, D)
  BY <1>1, MaxIn DEF Chooses
<1>4. \A S \in P, r \in LogRow : Step(S, r) \in P
  <2> TAKE S \in P, r \in LogRow
  <2>1. r.e \in GoodEvent /\ r.age \in Ages
    BY Numbers DEF LogRow, Ages
  <2>2. \A tab \in S : Apply(tab, r.e, r.age) \in GoodTable
    BY <2>1, ApplyGood
  <2> QED BY <2>2
<1>5. \A d \in D, a \in P : G[<<d, a>>] = Step(a, rows[d]) /\ G[<<d, a>>] \in P
  <2> HIDE DEF Step
  <2> QED BY <1>1, <1>4
<1>6. base \in P
  BY EmptyGood
<1>7. \E f \in [SUBSET D -> P] : Rec(f)
  <2> HIDE DEF G, Step, base
  <2>1. HasFold(D, P, base, pick, G)
    <3> HIDE DEF pick
    <3>1. Steps(G, D, P)
      BY <1>5 DEF Steps
    <3> HIDE DEF P
    <3> QED BY <1>2, <1>3, <3>1, <1>6, FoldExists
  <2>2. PICK f \in [SUBSET D -> P] :
           /\ f[{}] = base
           /\ \A s \in SUBSET D :
                s # {} => f[s] = G[<<pick[s], f[s \ {pick[s]}]>>]
    <3> HIDE DEF pick, P
    <3> QED BY <2>1 DEF HasFold
  <2>3. \A s \in SUBSET D : s # {} =>
           G[<<pick[s], f[s \ {pick[s]}]>>] = Step(f[s \ {Max(s)}], rows[Max(s)])
    <3> HIDE DEF P
    <3> QED BY <1>3, <1>5 DEF Chooses
  <2> HIDE DEF P
  <2>4. Rec(f)
    BY <2>2, <2>3
  <2> QED BY <2>4
<1>8. Rec(iter)
  <2> HIDE DEF Rec
  <2> QED BY <1>7
<1>9. iter[D] \in P
  <2> DEFINE A == [s \in SUBSET D |-> P]
  <2> HIDE DEF P
  <2>1. iter[{}] \in A[{}]
    <3> HIDE DEF iter, Step, base
    <3> QED BY <1>6, <1>8
  <2>2. Inherits(iter, pick, D, A)
    <3> SUFFICES ASSUME NEW s \in SUBSET D, s # {},
                        iter[s \ {Max(s)}] \in P
                 PROVE  iter[s] \in P
      <4> HIDE DEF iter
      <4> QED BY DEF Inherits
    <3> HIDE DEF iter, Step
    <3> iter[s] = Step(iter[s \ {Max(s)}], rows[Max(s)])
      BY <1>8
    <3> QED BY <1>1, <1>3, <1>4 DEF Chooses
  <2> HIDE DEF iter, pick, A
  <2>3. iter[D] \in A[D]
    BY <1>2, <1>3, <2>1, <2>2, FoldTyped
  <2> QED BY <2>3 DEF A
<1>10. Applied(rows) = iter[D]
  BY DEF Applied, FoldLeft, MapThenFoldSet, D
<1> HIDE DEF iter
<1> QED BY <1>9, <1>10

\* So is the one a restarted daemon makes of it,
LEMMA RestartedGood ==
  ASSUME NEW T \in GoodTable PROVE Restarted(T) \in GoodTable
<1>1. Evaluate(StaleAll(T)) \in GoodTable
  BY StaleAllGood, EvaluateGood DEF Counted
<1> DEFINE U == Evaluate(StaleAll(T))
<1>2. Restarted(T) = [U EXCEPT !.quiet = Grace]
  BY DEF Restarted
<1>3. Grace \in 0..Grace
  BY Numbers
<1> HIDE DEF U
<1>4. U \in GoodTable
  BY <1>1 DEF U
<1>5. [U EXCEPT !.quiet = Grace] \in GoodTable
  BY <1>3, <1>4, TableFields
<1> QED BY <1>2, <1>5

\* ... which is the table a rebuild begins from.
LEMMA StagedGood ==
  ASSUME NEW rows \in Seq(LogRow) PROVE Staged(rows) \in GoodTable
<1> DEFINE R == {Restarted(x) : x \in Applied(rows)}
<1>1. R # {} /\ R \subseteq GoodTable
  BY AppliedGood, RestartedGood
<1>2. Staged(rows) = CHOOSE tab \in R : TRUE
  BY DEF Staged
<1> HIDE DEF R
<1> QED BY <1>1, <1>2

-----------------------------------------------------------------------------
\* The operations buffered during a rebuild, and the bumps among those at s.
PendingOp == [op : {"obs", "turnEnded", "bump", "gone"}, n : Nat]
Bumps(ops, s) == {i \in s : ops[i].op = "bump"}

\* The bumps are counted one by one:
LEMMA BumpsNone ==
  ASSUME NEW ops PROVE Cardinality(Bumps(ops, {})) = 0
BY FS_EmptySet DEF Bumps

\* ... each of them once,
LEMMA BumpsOne ==
  ASSUME NEW ops, NEW s, IsFiniteSet(s), NEW i \in s
  PROVE  /\ Cardinality(Bumps(ops, s)) \in Nat
         /\ Cardinality(Bumps(ops, s \ {i})) \in Nat
         /\ Cardinality(Bumps(ops, s)) = Cardinality(Bumps(ops, s \ {i}))
              + IF ops[i].op = "bump" THEN 1 ELSE 0
<1> DEFINE b == Bumps(ops, s)
           c == Bumps(ops, s \ {i})
<1>1. IsFiniteSet(b) /\ IsFiniteSet(c)
  <2> b \subseteq s /\ c \subseteq s
    BY DEF Bumps
  <2> QED BY FS_Subset
<1>2. ops[i].op = "bump" => i \notin c /\ b = c \cup {i}
  BY DEF Bumps
<1>3. ops[i].op # "bump" => b = c
  BY DEF Bumps
<1> HIDE DEF b, c
<1>4. Cardinality(b) \in Nat /\ Cardinality(c) \in Nat
  BY <1>1, FS_CardinalityType
<1>5. ops[i].op = "bump" => Cardinality(b) = Cardinality(c) + 1
  BY <1>1, <1>2, FS_AddElement
<1> QED BY <1>3, <1>4, <1>5 DEF b, c

\* ... so that an operation that is appended adds itself.
LEMMA BumpsAppend ==
  ASSUME NEW ops \in Seq(PendingOp), NEW op \in PendingOp
  PROVE  LET more == Append(ops, op) IN
         /\ Cardinality(Bumps(ops, DOMAIN ops)) \in Nat
         /\ Cardinality(Bumps(more, DOMAIN more))
              = Cardinality(Bumps(ops, DOMAIN ops))
                + IF op.op = "bump" THEN 1 ELSE 0
<1> DEFINE more == Append(ops, op)
           D == DOMAIN ops
           M == DOMAIN more
           i == Len(ops) + 1
<1>1. /\ D = 1..Len(ops) /\ M = 1..i /\ i \in M /\ M \ {i} = D
      /\ more[i] = op /\ \A j \in D : more[j] = ops[j]
  <2>1. /\ Len(ops) \in Nat /\ D = 1..Len(ops)
        /\ Len(more) = i /\ M = 1..Len(more)
    OBVIOUS
  <2>2. more[i] = op /\ \A j \in 1..Len(ops) : more[j] = ops[j]
    OBVIOUS
  <2> HIDE DEF D, M, more
  <2>3. 1..(Len(ops) + 1) = (1..Len(ops)) \cup {Len(ops) + 1}
    BY <2>1
  <2> QED BY <2>1, <2>2, <2>3
<1>2. IsFiniteSet(M)
  BY <1>1, FS_Interval
<1>3. Bumps(more, M \ {i}) = Bumps(ops, D)
  BY <1>1 DEF Bumps
<1> HIDE DEF more, D, M
<1>4. /\ Cardinality(Bumps(more, M \ {i})) \in Nat
      /\ Cardinality(Bumps(more, M)) = Cardinality(Bumps(more, M \ {i}))
           + IF more[i].op = "bump" THEN 1 ELSE 0
  <2> HIDE DEF i
  <2>1. i \in M
    BY <1>1
  <2> QED BY <1>2, <2>1, BumpsOne
<1> QED BY <1>1, <1>3, <1>4 DEF more, D, M

\* What the rebuild makes of the buffered operations.
ReplayGood(ops) == \A i \in DOMAIN ops :
                     ops[i].op = "obs" => ops[i].n \in 1..Len(log)

\* Replaying them leaves a sound table, and an epoch for every bump.
LEMMA ReplayIn ==
  ASSUME log \in Seq(LogRow), NEW ops \in Seq(PendingOp), ReplayGood(ops),
         NEW tab \in GoodTable, NEW n \in Nat
  PROVE  LET F == FoldLeft(LAMBDA S, op : {Replay(acc, op) : acc \in S},
                           {[tab |-> tab, epoch |-> n]}, ops) IN
         \A acc \in F : /\ acc.tab \in GoodTable
                        /\ acc.epoch \in Nat
                        /\ acc.epoch <= n + Cardinality(Bumps(ops, DOMAIN ops))
<1> DEFINE D == DOMAIN ops
           Acc == [tab : GoodTable, epoch : Nat]
           P == SUBSET Acc
           Fits(s) == {S \in P : \A acc \in S :
                                   acc.epoch <= n + Cardinality(Bumps(ops, s))}
           base == {[tab |-> tab, epoch |-> n]}
           Step(S, op) == {Replay(acc, op) : acc \in S}
           G == [c \in D \X P |-> Step(c[2], ops[c[1]])]
           pick == [s \in SUBSET D |-> Max(s)]
           Rec(g) == g = [s \in SUBSET D |->
                           IF s = {} THEN base
                           ELSE Step(g[s \ {Max(s)}], ops[Max(s)])]
           iter == CHOOSE g : Rec(g)
<1>1. /\ D = 1..Len(ops) /\ Len(ops) \in Nat
      /\ \A d \in D : ops[d] \in PendingOp
                      /\ (ops[d].op = "obs" => ops[d].n \in 1..Len(log))
  BY DEF ReplayGood
<1> HIDE DEF D
<1>2. IsFiniteSet(D)
  BY <1>1, FS_Interval
<1>3. Chooses(pick, D)
  BY <1>1, MaxIn DEF Chooses
<1>4. ASSUME NEW acc \in Acc, NEW d \in D
      PROVE  /\ Replay(acc, ops[d]) \in Acc
             /\ Replay(acc, ops[d]).epoch
                  = acc.epoch + IF ops[d].op = "bump" THEN 1 ELSE 0
  <2> DEFINE op == ops[d]
  <2>1. /\ op.op \in {"obs", "turnEnded", "bump", "gone"}
        /\ op.op = "obs" => op.n \in 1..Len(log)
        /\ acc.tab \in GoodTable /\ acc.epoch \in Nat
    BY <1>1 DEF PendingOp
  <2> HIDE DEF op
  <2>2. CASE op.op = "obs"
    <3>1. log[op.n] \in LogRow
      BY <2>1, <2>2
    <3>2. log[op.n].e \in GoodEvent /\ log[op.n].age \in Ages
      BY <3>1, Numbers DEF LogRow, Ages
    <3> DEFINE a == Apply(acc.tab, log[op.n].e, log[op.n].age)
    <3>3. a \in GoodTable
      BY <2>1, <3>2, ApplyGood
    <3>4. Replay(acc, op) = acc \/ Replay(acc, op) = [acc EXCEPT !.tab = a]
      BY <2>2 DEF Replay
    <3> HIDE DEF a
    <3> QED BY <2>1, <2>2, <3>3, <3>4 DEF op
  <2>3. CASE op.op = "turnEnded"
    <3>1. TurnEnded(acc.tab) \in GoodTable
      BY <2>1, TurnEndedGood DEF Counted
    <3>2. Replay(acc, op) = [acc EXCEPT !.tab = TurnEnded(acc.tab)]
      BY <2>3 DEF Replay
    <3> QED BY <2>1, <2>3, <3>1, <3>2 DEF op
  <2>4. StaleAll(acc.tab) \in GoodTable
    BY <2>1, StaleAllGood DEF Counted
  <2>5. CASE op.op = "bump"
    <3>1. Replay(acc, op) = [tab |-> StaleAll(acc.tab), epoch |-> acc.epoch + 1]
      BY <2>5 DEF Replay
    <3> QED BY <2>1, <2>4, <2>5, <3>1 DEF op
  <2>6. CASE op.op = "gone"
    <3>1. Replay(acc, op) = acc
          \/ Replay(acc, op) = [acc EXCEPT !.tab = StaleAll(acc.tab)]
      BY <2>6 DEF Replay
    <3> QED BY <2>1, <2>4, <2>6, <3>1 DEF op
  <2> QED BY <2>1, <2>2, <2>3, <2>5, <2>6
<1>5. \A d \in D, a \in P : G[<<d, a>>] = Step(a, ops[d]) /\ G[<<d, a>>] \in P
  <2> HIDE DEF Acc
  <2>1. \A d \in D, a \in P : Step(a, ops[d]) \in P
    BY <1>4
  <2> HIDE DEF Step
  <2> QED BY <2>1
<1>6. base \in P /\ base \in Fits({})
  <2>1. base \in P
    OBVIOUS
  <2>2. n <= n + Cardinality(Bumps(ops, {}))
    BY BumpsNone
  <2> QED BY <2>1, <2>2
<1>7. \E f \in [SUBSET D -> P] : Rec(f)
  <2> HIDE DEF G, Step, base
  <2>1. HasFold(D, P, base, pick, G)
    <3> HIDE DEF pick
    <3>1. Steps(G, D, P)
      BY <1>5 DEF Steps
    <3> HIDE DEF P
    <3> QED BY <1>2, <1>3, <3>1, <1>6, FoldExists
  <2>2. PICK f \in [SUBSET D -> P] :
           /\ f[{}] = base
           /\ \A s \in SUBSET D :
                s # {} => f[s] = G[<<pick[s], f[s \ {pick[s]}]>>]
    <3> HIDE DEF pick, P
    <3> QED BY <2>1 DEF HasFold
  <2>3. \A s \in SUBSET D : s # {} =>
           G[<<pick[s], f[s \ {pick[s]}]>>] = Step(f[s \ {Max(s)}], ops[Max(s)])
    <3> HIDE DEF P
    <3> QED BY <1>3, <1>5 DEF Chooses
  <2> HIDE DEF P
  <2>4. Rec(f)
    BY <2>2, <2>3
  <2> QED BY <2>4
<1>8. Rec(iter)
  <2> HIDE DEF Rec
  <2> QED BY <1>7
<1>9. iter[D] \in Fits(D)
  <2> DEFINE A == [s \in SUBSET D |-> Fits(s)]
  <2>1. iter[{}] \in A[{}]
    <3> HIDE DEF iter, Step, base, Fits
    <3> QED BY <1>6, <1>8
  <2>2. Inherits(iter, pick, D, A)
    <3> SUFFICES ASSUME NEW s \in SUBSET D, s # {},
                        iter[s \ {Max(s)}] \in Fits(s \ {Max(s)})
                 PROVE  iter[s] \in Fits(s)
      <4> HIDE DEF iter, Fits
      <4> QED BY DEF Inherits
    <3> HIDE DEF iter
    <3>1. iter[s] = Step(iter[s \ {Max(s)}], ops[Max(s)])
      <4> HIDE DEF Step
      <4> QED BY <1>8
    <3> DEFINE i == Max(s)
               S == iter[s \ {i}]
    <3>2. i \in s /\ i \in D /\ IsFiniteSet(s)
      BY <1>2, <1>3, FS_Subset DEF Chooses
    <3>3. S \in P /\ \A acc \in S :
                       acc.epoch <= n + Cardinality(Bumps(ops, s \ {i}))
      OBVIOUS
    <3> HIDE DEF i, S
    <3>4. /\ Cardinality(Bumps(ops, s)) \in Nat
          /\ Cardinality(Bumps(ops, s \ {i})) \in Nat
          /\ Cardinality(Bumps(ops, s)) = Cardinality(Bumps(ops, s \ {i}))
               + IF ops[i].op = "bump" THEN 1 ELSE 0
      BY <3>2, BumpsOne
    <3>5. ASSUME NEW acc \in S
          PROVE  /\ Replay(acc, ops[i]) \in Acc
                 /\ Replay(acc, ops[i]).epoch
                      <= n + Cardinality(Bumps(ops, s))
      <4>1. acc \in Acc /\ acc.epoch \in Nat
            /\ acc.epoch <= n + Cardinality(Bumps(ops, s \ {i}))
        BY <3>3
      <4>2. /\ Replay(acc, ops[i]) \in Acc
            /\ Replay(acc, ops[i]).epoch
                  = acc.epoch + IF ops[i].op = "bump" THEN 1 ELSE 0
        BY <1>4, <3>2, <4>1
      <4> QED BY <3>4, <4>1, <4>2
    <3> HIDE DEF Acc
    <3>6. Step(S, ops[i]) \in Fits(s)
      BY <3>5
    <3> QED BY <3>1, <3>6 DEF S, i
  <2> HIDE DEF iter, pick, A
  <2>3. iter[D] \in A[D]
    BY <1>2, <1>3, <2>1, <2>2, FoldTyped
  <2> QED BY <2>3 DEF A
<1>10. FoldLeft(LAMBDA S, op : {Replay(acc, op) : acc \in S},
                {[tab |-> tab, epoch |-> n]}, ops) = iter[D]
  BY DEF FoldLeft, MapThenFoldSet, D
<1> HIDE DEF iter
<1>11. \A acc \in iter[D] :
         /\ acc.tab \in GoodTable /\ acc.epoch \in Nat
         /\ acc.epoch <= n + Cardinality(Bumps(ops, D))
  BY <1>9
<1> QED BY <1>10, <1>11 DEF D

-----------------------------------------------------------------------------
(* Type correctness.                                                         *)

\* The types of the records of the registry.
TailOf == [on : BOOLEAN, send : BOOLEAN, hold : HoldValue, flush : BOOLEAN,
           ping : BOOLEAN]
EmitOf == [by : {"nobody", "coalesce", "timer", "rebuild"}, hold : HoldValue,
           out : BOOLEAN, rows : [Tasks -> Row]]
TimerOf == [pc : {"none", "arm", "sleep", "flush", "probes", "over"},
            left : Nat \cup {Never}, ping : BOOLEAN]
RebuildPc == {"idle", "reading", "read", "flush"}
RowWhere == {"none", "launched", "started", "over"}
SigWhere == {"none", "confirmed", "paused", "ended"}

\* The transcript and what points into it.
LogInv == /\ log \in Seq(LogRow) /\ Len(log) <= MaxEvents
          /\ at \in [Sinks -> 0..Len(log)]
          /\ rebuild \in [pc : RebuildPc, rows : 0..Len(log)]
          /\ pending \in Seq(PendingOp) /\ ReplayGood(pending)

\* The harness.
AgentInv == /\ rowAt \in [Tasks -> RowWhere] /\ sigAt \in [Tasks -> SigWhere]
            /\ mine \subseteq Tasks /\ adapter \in {"none", "joining", "up"}
            /\ opens \in 0..MaxOpens

\* No more epochs than adapters, those of the buffered bumps included.
EpochInv == /\ joined \in 0..MaxConnects /\ epoch \in Nat
            /\ sinkEpoch \in 0..joined /\ leaving \subseteq 0..joined
            /\ epoch + Cardinality(Bumps(pending, DOMAIN pending)) <= joined

\* The table and the probes.
TableInv == inner \in GoodTable /\ probes \subseteq Commands

\* What is published, and by whom.
SeenInv == /\ lastSent \in [Tasks -> Row] /\ tray \in [Tasks -> Row]
           /\ rebuilding \in BOOLEAN /\ closed \in BOOLEAN
           /\ flushScheduled \in BOOLEAN /\ closing \in BOOLEAN
           /\ tail \in [Callers -> TailOf] /\ emit \in EmitOf
           /\ timer \in TimerOf /\ hold \in HoldValue

\* The inductive form of TypeOK: the epochs stay in their range because every
\* bump belongs to an adapter, and the rows a rebuild has read or a sink is
\* about to observe are in the transcript.
TypeInv == LogInv /\ AgentInv /\ EpochInv /\ TableInv /\ SeenInv

\* The bounds are numbers.
LEMMA Bounds == MaxEvents \in Nat /\ MaxConnects \in Nat /\ MaxOpens \in Nat
BY RegistryAssumption DEF RegistryAssumption

\* What is sent has its type: rows,
LEMMA KeyTyped ==
  ASSUME NEW T \in GoodTable PROVE Key(T) \in [Tasks -> Row]
<1>1. \A t \in Tasks : [st |-> T.tasks[t].st, why |-> T.tasks[t].why] \in Row
  BY DEF GoodTable, GoodTask, Task, Row
<1> QED BY <1>1 DEF Key

\* ... holds,
LEMMA HoldTyped ==
  ASSUME NEW T
  PROVE  Hold(T) \in HoldValue /\ NoHold \in HoldValue
         /\ \A rb, cl \in BOOLEAN : HoldOn(T, rb, cl) \in HoldValue
<1>1. Hold(T) \in HoldValue
  <2>1. LapsedIn(T) \in SUBSET Tasks /\ (T.quiet < Grace) \in BOOLEAN
    BY DEF LapsedIn
  <2>2. Cardinality(Holding(T)) \in 0..Cardinality(Tasks)
    BY HoldingCount
  <2> QED BY <2>1, <2>2, HoldIs DEF HoldValue
<1>2. NoHold \in HoldValue
  BY TasksFinite DEF NoHold, HoldValue
<1> QED BY <1>1, <1>2 DEF HoldOn

\* ... and nothing at all.
LEMMA NothingTyped == NoTail \in TailOf /\ NoEmit \in EmitOf
BY HoldTyped, KeyTyped, EmptyGood DEF NoTail, NoEmit, TailOf, EmitOf

\* A settle leaves a sound table and a tail.
LEMMA SettleTyped ==
  ASSUME SeenInv, NEW a \in Callers, NEW Y \in GoodTable, Settle(a, Y)
  PROVE  inner' \in GoodTable /\ tail' \in [Callers -> TailOf]
<1> DEFINE V == Evaluate(Y)
           w == [on |-> TRUE, send |-> TRUE,
                 hold |-> HoldOn(V, rebuilding, closed),
                 flush |-> Key(V) # lastSent, ping |-> TRUE]
<1>1. inner' = V /\ tail' = [tail EXCEPT ![a] = w]
  BY DEF Settle
<1>2. V \in GoodTable
  BY EvaluateGood
<1> HIDE DEF V
<1>3. w \in TailOf
  BY HoldTyped DEF TailOf, SeenInv
<1> HIDE DEF w
<1> QED BY <1>1, <1>2, <1>3 DEF SeenInv

\* So does a flush, and something to publish.
LEMMA FlushTyped ==
  ASSUME SeenInv, inner \in GoodTable, NEW by \in {"coalesce", "timer", "rebuild"},
         NEW force \in BOOLEAN, BeginFlush(by, force)
  PROVE  /\ inner' \in GoodTable /\ lastSent' \in [Tasks -> Row]
         /\ emit' \in EmitOf
<1> DEFINE V == Evaluate(inner)
           out == ~closed /\ ~rebuilding /\ (force \/ Key(V) # lastSent)
           w == [by |-> by, hold |-> HoldOn(V, rebuilding, closed),
                 out |-> out, rows |-> IF out THEN Key(V) ELSE Key(EmptyTable)]
<1>1. /\ inner' = V /\ emit' = w
      /\ lastSent' = IF out THEN Key(V) ELSE lastSent
  BY DEF BeginFlush
<1>2. V \in GoodTable
  BY EvaluateGood
<1>3. Key(V) \in [Tasks -> Row] /\ Key(EmptyTable) \in [Tasks -> Row]
  BY <1>2, KeyTyped, EmptyGood
<1>4. out \in BOOLEAN
  OBVIOUS
<1> HIDE DEF V, out
<1>5. w \in EmitOf
  BY <1>3, <1>4, HoldTyped DEF EmitOf, SeenInv
<1> QED BY <1>1, <1>2, <1>3, <1>5 DEF SeenInv

\* An operation is buffered.
LEMMA BufferTyped ==
  ASSUME LogInv, EpochInv, NEW op \in PendingOp,
         op.op = "obs" => op.n \in 1..Len(log), pending' = Append(pending, op),
         log' = log
  PROVE  /\ pending' \in Seq(PendingOp) /\ ReplayGood(pending)'
         /\ Cardinality(Bumps(pending, DOMAIN pending)) \in Nat
         /\ Cardinality(Bumps(pending', DOMAIN pending'))
              = Cardinality(Bumps(pending, DOMAIN pending))
                + IF op.op = "bump" THEN 1 ELSE 0
<1>1. pending \in Seq(PendingOp)
  BY DEF LogInv
<1>2. Append(pending, op) \in Seq(PendingOp)
  BY <1>1
<1>3. \A i \in DOMAIN Append(pending, op) :
         \/ i \in DOMAIN pending /\ Append(pending, op)[i] = pending[i]
         \/ Append(pending, op)[i] = op
  BY <1>1
<1>4. ReplayGood(Append(pending, op))
  BY <1>3 DEF ReplayGood, LogInv
<1>5. ReplayGood(pending)'
  BY <1>4 DEF ReplayGood
<1> QED BY <1>1, <1>2, <1>5, BumpsAppend

\* Nothing is buffered at first.
LEMMA NoBumps == Cardinality(Bumps(<<>>, DOMAIN <<>>)) = 0
<1>1. Bumps(<<>>, DOMAIN <<>>) = {}
  BY DEF Bumps
<1> QED BY <1>1, FS_EmptySet

\* Who calls the registry.
LEMMA CallersAre == Sinks \subseteq Callers /\ "turn" \in Callers
                    /\ "connect" \in Callers /\ "gone" \in Callers
                    /\ "probe" \in Callers /\ "touch" \in Callers
                    /\ "read" \in Callers /\ "rows" \in Callers
                    /\ "rows" \in Sinks /\ "signals" \in Sinks
BY DEF Sinks, Callers

\* The invariant holds at first.
LEMMA TypeInit == ASSUME Init PROVE TypeInv
<1> USE DEF Init
<1>1. LogInv
  <2>1. log \in Seq(LogRow) /\ pending \in Seq(PendingOp)
    OBVIOUS
  <2>2. Len(log) = 0 /\ DOMAIN pending = {}
    OBVIOUS
  <2> QED BY <2>1, <2>2, Bounds DEF LogInv, ReplayGood, RebuildPc
<1>2. AgentInv
  BY Bounds DEF AgentInv, RowWhere, SigWhere
<1>3. EpochInv
  BY Bounds, NoBumps DEF EpochInv
<1>4. TableInv
  BY EmptyGood DEF TableInv
<1>5. SeenInv
  BY KeyTyped, EmptyGood, NothingTyped, HoldTyped DEF SeenInv, TimerOf
<1> QED BY <1>1, <1>2, <1>3, <1>4, <1>5 DEF TypeInv

\* The parts of the invariant depend on the variables they name.
LEMMA LogSame ==
  ASSUME LogInv, UNCHANGED <<log, at, rebuild, pending>> PROVE LogInv'
BY DEF LogInv, ReplayGood

LEMMA AgentSame ==
  ASSUME AgentInv, UNCHANGED <<rowAt, sigAt, mine, adapter, opens>>
  PROVE  AgentInv'
BY DEF AgentInv

LEMMA EpochSame ==
  ASSUME EpochInv, UNCHANGED <<joined, epoch, sinkEpoch, leaving, pending>>
  PROVE  EpochInv'
BY DEF EpochInv

LEMMA SeenSame ==
  ASSUME SeenInv,
         UNCHANGED <<lastSent, tray, rebuilding, closed, flushScheduled, closing,
                     tail, emit, timer, hold>>
  PROVE  SeenInv'
BY DEF SeenInv

\* An event enters the transcript.
LEMMA PersistTyped ==
  ASSUME TypeInv, NEW a \in Sinks, NEW e \in GoodEvent, Persist(a, e)
  PROVE  LogInv' /\ mine' \subseteq Tasks /\ EpochInv' /\ TableInv' /\ SeenInv'
<1>1. LogInv'
  <2> DEFINE r == [e |-> e, age |-> 0]
  <2>1. /\ log \in Seq(LogRow) /\ r \in LogRow /\ Len(log) \in Nat
        /\ Len(log) < MaxEvents /\ log' = Append(log, r)
        /\ at' = [at EXCEPT ![a] = Len(log) + 1] /\ UNCHANGED <<rebuild, pending>>
    BY Numbers DEF TypeInv, LogInv, Persist, LogRow, innerVars
  <2> HIDE DEF r
  <2>2. log' \in Seq(LogRow) /\ Len(log') = Len(log) + 1
    BY <2>1
  <2>3. 0..Len(log) \subseteq 0..Len(log') /\ Len(log) + 1 \in 0..Len(log')
        /\ 1..Len(log) \subseteq 1..Len(log') /\ Len(log') <= MaxEvents
    BY <2>1, <2>2, Bounds
  <2>4. at' \in [Sinks -> 0..Len(log')]
    BY <2>1, <2>3 DEF TypeInv, LogInv
  <2>5. rebuild' \in [pc : RebuildPc, rows : 0..Len(log')]
    BY <2>1, <2>3 DEF TypeInv, LogInv
  <2>6. ReplayGood(pending)'
    BY <2>1, <2>3 DEF TypeInv, LogInv, ReplayGood
  <2> QED BY <2>1, <2>2, <2>3, <2>4, <2>5, <2>6 DEF LogInv, TypeInv
<1>2. mine' \subseteq Tasks
  BY DEF TypeInv, AgentInv, Persist, GoodEvent, Event
<1>3. EpochInv' /\ SeenInv'
  BY EpochSame, SeenSame DEF TypeInv, Persist, innerVars
<1>4. TableInv'
  BY DEF TypeInv, TableInv, Persist, innerVars
<1> QED BY <1>1, <1>2, <1>3, <1>4

\* The actions, one by one.
LEMMA PersistRowTyped ==
  ASSUME TypeInv, NEW t \in Tasks, PersistRow(t) PROVE TypeInv'
<1>1. PICK s \in RowSteps(t) : /\ rowAt' = [rowAt EXCEPT ![t] = s[3]]
                               /\ Persist("rows", E(s[2], t)) /\ UNCHANGED sigAt
  BY DEF PersistRow
<1>2. s[3] \in RowWhere /\ E(s[2], t) \in GoodEvent
  <2>1. /\ s[3] \in RowWhere
        /\ s[2] \in {"launched", "backgrounded", "started", "nested",
                     "finished", "failed", "settled"}
        /\ s[2] = "launched" => t \in Commands
    BY <1>1 DEF RowSteps, RowWhere
  <2> QED BY <2>1 DEF E, GoodEvent, Event
<1>3. LogInv' /\ mine' \subseteq Tasks /\ EpochInv' /\ TableInv' /\ SeenInv'
  BY <1>1, <1>2, PersistTyped, CallersAre
<1>4. AgentInv'
  BY <1>1, <1>2, <1>3 DEF TypeInv, AgentInv, Persist
<1> QED BY <1>3, <1>4 DEF TypeInv

LEMMA PersistSignalTyped ==
  ASSUME TypeInv, NEW t \in Tasks, PersistSignal(t) PROVE TypeInv'
<1>1. PICK w \in SigWhere, e \in GoodEvent :
         /\ UNCHANGED rowAt /\ sigAt' = [sigAt EXCEPT ![t] = w]
         /\ Persist("signals", e)
  <2>1. /\ E("confirmed", t) \in GoodEvent
        /\ [E("confirmed", t) EXCEPT !.paused = TRUE] \in GoodEvent
        /\ [E("confirmed", t) EXCEPT !.tool = "new"] \in GoodEvent
        /\ \A tool \in {"own", "none"} :
              [E("ended", t) EXCEPT !.tool = tool] \in GoodEvent
    BY DEF E, GoodEvent, Event
  <2>2. "confirmed" \in SigWhere /\ "paused" \in SigWhere /\ "ended" \in SigWhere
    BY DEF SigWhere
  <2> QED BY <2>1, <2>2 DEF PersistSignal
<1>2. LogInv' /\ mine' \subseteq Tasks /\ EpochInv' /\ TableInv' /\ SeenInv'
  BY <1>1, PersistTyped, CallersAre
<1>3. AgentInv'
  BY <1>1, <1>2 DEF TypeInv, AgentInv, Persist
<1> QED BY <1>2, <1>3 DEF TypeInv

LEMMA ObserveTyped ==
  ASSUME TypeInv, NEW a \in Sinks, Observe(a) PROVE TypeInv'
<1>1. at[a] \in 1..Len(log) /\ log[at[a]].e \in GoodEvent
      /\ log[at[a]].age \in Ages
  <2>1. at[a] \in 1..Len(log) /\ log \in Seq(LogRow)
    BY DEF TypeInv, LogInv, Observe
  <2>2. log[at[a]] \in LogRow
    BY <2>1
  <2> QED BY <2>1, <2>2, Numbers DEF LogRow, Ages
<1>2. AgentInv' /\ at' = [at EXCEPT ![a] = 0] /\ log' = log
      /\ UNCHANGED <<probes, rebuild, joined, epoch, sinkEpoch, leaving>>
      /\ UNCHANGED <<lastSent, tray, rebuilding, closed, flushScheduled,
                     closing, emit, timer, hold>>
  BY AgentSame DEF TypeInv, Observe, agentVars
<1>3. at' \in [Sinks -> 0..Len(log')]
      /\ rebuild' \in [pc : RebuildPc, rows : 0..Len(log')]
  BY <1>2 DEF TypeInv, LogInv
<1>4. CASE UNCHANGED <<inner, pending, tail>>
  BY <1>2, <1>3, <1>4, EpochSame, SeenSame
     DEF TypeInv, LogInv, ReplayGood, TableInv
<1>5. CASE Buffer([op |-> "obs", n |-> at[a]])
  <2> DEFINE op == [op |-> "obs", n |-> at[a]]
  <2>1. op \in PendingOp /\ op.op = "obs" /\ op.n \in 1..Len(log)
    BY <1>1 DEF PendingOp
  <2>2. pending' = Append(pending, op) /\ UNCHANGED <<inner, tail>>
    BY <1>5 DEF Buffer
  <2> HIDE DEF op
  <2>3. /\ pending' \in Seq(PendingOp) /\ ReplayGood(pending)'
        /\ Cardinality(Bumps(pending, DOMAIN pending)) \in Nat
        /\ Cardinality(Bumps(pending', DOMAIN pending'))
             = Cardinality(Bumps(pending, DOMAIN pending)) + 0
    BY <1>2, <2>1, <2>2, BufferTyped DEF TypeInv
  <2>4. LogInv'
    BY <1>2, <1>3, <2>3 DEF TypeInv, LogInv
  <2>5. EpochInv'
    BY <1>2, <2>3 DEF TypeInv, EpochInv
  <2>6. TableInv' /\ SeenInv'
    BY <1>2, <2>2, SeenSame DEF TypeInv, TableInv
  <2> QED BY <1>2, <2>4, <2>5, <2>6 DEF TypeInv
<1>6. CASE Settle(a, Apply(inner, log[at[a]].e, log[at[a]].age))
           /\ UNCHANGED pending
  <2>1. inner' \in GoodTable /\ tail' \in [Callers -> TailOf]
    BY <1>1, <1>6, ApplyGood, SettleTyped, CallersAre DEF TypeInv, TableInv
  <2>2. LogInv' /\ EpochInv' /\ TableInv'
    BY <1>2, <1>3, <1>6, <2>1, EpochSame
       DEF TypeInv, LogInv, ReplayGood, TableInv
  <2>3. SeenInv'
    BY <1>2, <2>1 DEF TypeInv, SeenInv
  <2> QED BY <1>2, <2>2, <2>3 DEF TypeInv
<1> QED BY <1>4, <1>5, <1>6 DEF Observe

\* A step that gives the registry a new table, a tail to a caller, or neither.
LEMMA SettledTyped ==
  ASSUME TypeInv, NEW a \in Callers, NEW Y \in GoodTable,
         Settle(a, Y) \/ UNCHANGED <<inner, tail>>,
         UNCHANGED <<lastSent, tray, rebuilding, closed, flushScheduled,
                     closing, emit, timer, hold>>
  PROVE  inner' \in GoodTable /\ SeenInv'
<1>1. inner' \in GoodTable /\ tail' \in [Callers -> TailOf]
  BY SettleTyped DEF TypeInv, SeenInv, TableInv
<1> QED BY <1>1 DEF TypeInv, SeenInv

LEMMA ChatterTyped == ASSUME TypeInv, Chatter PROVE TypeInv'
<1>1. /\ UNCHANGED <<log, at, rebuild, pending>>
      /\ UNCHANGED <<rowAt, sigAt, mine, adapter, opens>>
      /\ UNCHANGED <<joined, epoch, sinkEpoch, leaving, pending>>
      /\ UNCHANGED <<lastSent, tray, rebuilding, closed, flushScheduled,
                     closing, emit, timer, hold>>
      /\ probes' = probes
  BY DEF Chatter, agentVars
<1>2. Bump(inner, 0) \in GoodTable
  BY BumpGood, Numbers DEF TypeInv, TableInv, SameHolds
<1>3. Settle("rows", Bump(inner, 0))
      \/ (inner' = Bump(inner, 0) /\ UNCHANGED tail)
  BY DEF Chatter
<1>4. inner' \in GoodTable /\ SeenInv'
  <2>1. CASE Settle("rows", Bump(inner, 0))
    BY <1>1, <1>2, <2>1, SettledTyped, CallersAre
  <2>2. CASE inner' = Bump(inner, 0) /\ UNCHANGED tail
    BY <1>1, <1>2, <2>2, SeenSame DEF TypeInv
  <2> QED BY <1>3, <2>1, <2>2
<1> QED BY <1>1, <1>4, LogSame, AgentSame, EpochSame DEF TypeInv, TableInv

\* A step that buffers an operation, settles, or leaves the table alone.
LEMMA BufferedTyped ==
  ASSUME TypeInv, NEW op \in PendingOp, op.op # "obs", NEW a \in Callers,
         NEW Y \in GoodTable,
         \/ Buffer(op)
         \/ Settle(a, Y) /\ UNCHANGED pending
         \/ UNCHANGED <<inner, pending, tail>>,
         UNCHANGED <<log, at, rebuild>>, probes' = probes,
         UNCHANGED <<lastSent, tray, rebuilding, closed, flushScheduled,
                     closing, emit, timer, hold>>
  PROVE  /\ LogInv' /\ TableInv' /\ SeenInv'
         /\ Cardinality(Bumps(pending, DOMAIN pending)) \in Nat
         /\ Buffer(op) =>
              Cardinality(Bumps(pending', DOMAIN pending'))
                = Cardinality(Bumps(pending, DOMAIN pending))
                  + IF op.op = "bump" THEN 1 ELSE 0
<1>1. Cardinality(Bumps(pending, DOMAIN pending)) \in Nat
  BY BumpsAppend DEF TypeInv, LogInv
<1>2. CASE Buffer(op)
  <2>1. pending' = Append(pending, op) /\ UNCHANGED <<inner, tail>>
    BY <1>2 DEF Buffer
  <2>2. /\ pending' \in Seq(PendingOp) /\ ReplayGood(pending)'
        /\ Cardinality(Bumps(pending', DOMAIN pending'))
             = Cardinality(Bumps(pending, DOMAIN pending))
               + IF op.op = "bump" THEN 1 ELSE 0
    BY <2>1, BufferTyped DEF TypeInv
  <2>3. LogInv' /\ TableInv'
    BY <2>1, <2>2 DEF TypeInv, LogInv, TableInv
  <2>4. SeenInv'
    BY <2>1, SeenSame DEF TypeInv
  <2> QED BY <1>1, <2>2, <2>3, <2>4
<1>3. CASE ~Buffer(op)
  <2>1. (Settle(a, Y) \/ UNCHANGED <<inner, tail>>) /\ UNCHANGED pending
    BY <1>3
  <2>2. inner' \in GoodTable /\ SeenInv'
    BY <2>1, SettledTyped
  <2>3. LogInv' /\ TableInv'
    BY <2>1, <2>2, LogSame DEF TypeInv, TableInv
  <2> QED BY <1>1, <1>3, <2>2, <2>3
<1> QED BY <1>2, <1>3

LEMMA TurnEndedTyped == ASSUME TypeInv, CallTurnEnded PROVE TypeInv'
<1> DEFINE op == [op |-> "turnEnded", n |-> 0]
<1>1. op \in PendingOp /\ op.op = "turnEnded" /\ TurnEnded(inner) \in GoodTable
  BY TurnEndedGood DEF PendingOp, TypeInv, TableInv, Counted
<1>2. Buffer(op) \/ (Settle("turn", TurnEnded(inner)) /\ UNCHANGED pending)
  BY DEF CallTurnEnded
<1> HIDE DEF op
<1>3. /\ UNCHANGED <<log, at, rebuild>> /\ probes' = probes
      /\ UNCHANGED <<lastSent, tray, rebuilding, closed, flushScheduled,
                     closing, emit, timer, hold>>
      /\ UNCHANGED <<sigAt, mine, adapter, opens>>
      /\ UNCHANGED <<joined, epoch, sinkEpoch, leaving>>
      /\ rowAt' = [t \in Tasks |->
                     IF t \in Subagents \ Background /\ rowAt[t] = "started"
                     THEN "over" ELSE rowAt[t]]
  BY DEF CallTurnEnded
<1>4. /\ LogInv' /\ TableInv' /\ SeenInv'
      /\ Cardinality(Bumps(pending, DOMAIN pending)) \in Nat
      /\ Buffer(op) => Cardinality(Bumps(pending', DOMAIN pending'))
                       = Cardinality(Bumps(pending, DOMAIN pending)) + 0
  BY <1>1, <1>2, <1>3, BufferedTyped, CallersAre
<1>5. AgentInv'
  BY <1>3 DEF TypeInv, AgentInv, RowWhere
<1>6. EpochInv'
  BY <1>2, <1>3, <1>4 DEF TypeInv, EpochInv
<1> QED BY <1>4, <1>5, <1>6 DEF TypeInv

LEMMA ConnectTyped == ASSUME TypeInv, Connect PROVE TypeInv'
<1> DEFINE op == [op |-> "bump", n |-> 0]
<1>1. op \in PendingOp /\ op.op = "bump" /\ StaleAll(inner) \in GoodTable
  BY StaleAllGood DEF PendingOp, TypeInv, TableInv, Counted
<1>2. \/ Buffer(op) /\ UNCHANGED epoch
      \/ epoch' = epoch + 1 /\ Settle("connect", StaleAll(inner))
         /\ UNCHANGED pending
  BY DEF Connect
<1> HIDE DEF op
<1>3. /\ UNCHANGED <<log, at, rebuild>> /\ probes' = probes
      /\ UNCHANGED <<lastSent, tray, rebuilding, closed, flushScheduled,
                     closing, emit, timer, hold>>
      /\ UNCHANGED <<rowAt, sigAt, opens, sinkEpoch>>
      /\ adapter' = "joining" /\ joined' = joined + 1 /\ mine' = {}
      /\ joined < MaxConnects
      /\ leaving' = leaving \/ leaving' = leaving \cup {sinkEpoch}
  BY DEF Connect
<1>4. /\ LogInv' /\ TableInv' /\ SeenInv'
      /\ Cardinality(Bumps(pending, DOMAIN pending)) \in Nat
      /\ Buffer(op) => Cardinality(Bumps(pending', DOMAIN pending'))
                       = Cardinality(Bumps(pending, DOMAIN pending)) + 1
  BY <1>1, <1>2, <1>3, BufferedTyped, CallersAre
<1>5. AgentInv'
  BY <1>3 DEF TypeInv, AgentInv
<1>6. EpochInv'
  <2>1. joined \in Nat /\ 0..joined \subseteq 0..(joined + 1)
        /\ joined + 1 \in 0..MaxConnects
    BY <1>3, Bounds DEF TypeInv, EpochInv
  <2>2. sinkEpoch' \in 0..joined' /\ leaving' \subseteq 0..joined'
    BY <1>3, <2>1 DEF TypeInv, EpochInv
  <2>3. epoch' \in Nat
        /\ epoch' + Cardinality(Bumps(pending', DOMAIN pending')) <= joined'
    BY <1>2, <1>3, <1>4, <2>1 DEF TypeInv, EpochInv
  <2> QED BY <1>3, <2>1, <2>2, <2>3 DEF EpochInv
<1> QED BY <1>4, <1>5, <1>6 DEF TypeInv

LEMMA GoneTyped ==
  ASSUME TypeInv, NEW n \in leaving, AdapterGone(n) PROVE TypeInv'
<1> DEFINE op == [op |-> "gone", n |-> n]
<1>1. op \in PendingOp /\ op.op = "gone" /\ StaleAll(inner) \in GoodTable
  BY StaleAllGood DEF PendingOp, TypeInv, TableInv, Counted, EpochInv
<1>2. \/ Buffer(op) \/ UNCHANGED <<inner, pending, tail>>
      \/ Settle("gone", StaleAll(inner)) /\ UNCHANGED pending
  BY DEF AdapterGone
<1> HIDE DEF op
<1>3. /\ UNCHANGED <<log, at, rebuild>> /\ probes' = probes
      /\ UNCHANGED <<lastSent, tray, rebuilding, closed, flushScheduled,
                     closing, emit, timer, hold>>
      /\ UNCHANGED <<rowAt, sigAt, mine, adapter, opens>>
      /\ UNCHANGED <<joined, epoch, sinkEpoch>> /\ leaving' = leaving \ {n}
  BY DEF AdapterGone
<1>4. /\ LogInv' /\ TableInv' /\ SeenInv'
      /\ Cardinality(Bumps(pending, DOMAIN pending)) \in Nat
      /\ Buffer(op) => Cardinality(Bumps(pending', DOMAIN pending'))
                       = Cardinality(Bumps(pending, DOMAIN pending)) + 0
  BY <1>1, <1>2, <1>3, BufferedTyped, CallersAre
<1>5. EpochInv'
  BY <1>2, <1>3, <1>4 DEF TypeInv, EpochInv
<1> QED BY <1>3, <1>4, <1>5, AgentSame DEF TypeInv

LEMMA AdapterTyped == ASSUME TypeInv, Attach \/ AdapterExit PROVE TypeInv'
<1>1. /\ LogInv' /\ TableInv' /\ SeenInv'
  BY LogSame, SeenSame DEF TypeInv, Attach, AdapterExit, innerVars, TableInv
<1>2. AgentInv'
  BY DEF TypeInv, AgentInv, Attach, AdapterExit
<1>3. EpochInv'
  <2>1. Cardinality(Bumps(pending, DOMAIN pending)) \in Nat
    <3> [op |-> "gone", n |-> 0] \in PendingOp
      BY DEF PendingOp
    <3> QED BY BumpsAppend DEF TypeInv, LogInv
  <2>2. CASE Attach
    <3>1. epoch \in 0..joined
      BY <2>1 DEF TypeInv, EpochInv
    <3> QED BY <2>2, <3>1 DEF TypeInv, EpochInv, Attach, innerVars
  <2>3. CASE AdapterExit
    BY <2>3 DEF TypeInv, EpochInv, AdapterExit, innerVars
  <2> QED BY <2>2, <2>3
<1> QED BY <1>1, <1>2, <1>3 DEF TypeInv

\* Steps that leave the transcript and the adapters alone.
Apart == /\ UNCHANGED <<log, at, rebuild, pending>>
         /\ UNCHANGED <<rowAt, sigAt, mine, adapter, opens>>
         /\ UNCHANGED <<joined, epoch, sinkEpoch, leaving, pending>>

LEMMA ApartTyped ==
  ASSUME TypeInv, Apart PROVE LogInv' /\ AgentInv' /\ EpochInv'
BY LogSame, AgentSame, EpochSame DEF TypeInv, Apart

LEMMA NotifyTyped == ASSUME SeenInv, Notify PROVE timer' \in TimerOf
BY DEF SeenInv, Notify, TimerOf

LEMMA AfterUnlockTyped ==
  ASSUME TypeInv, NEW a \in Callers, AfterUnlock(a) PROVE TypeInv'
<1>1. Apart /\ UNCHANGED <<inner, probes>>
      /\ UNCHANGED <<rebuilding, closed, lastSent, emit, closing, tray>>
  BY DEF AfterUnlock, Apart, agentVars
<1>2. tail[a] \in TailOf
  BY DEF TypeInv, SeenInv
<1>3. hold' \in HoldValue
  BY <1>2 DEF TypeInv, SeenInv, AfterUnlock, TailOf
<1>4. timer' \in TimerOf
  BY NotifyTyped DEF AfterUnlock, TypeInv, SeenInv
<1>5. tail' \in [Callers -> TailOf]
  BY NothingTyped DEF AfterUnlock, TypeInv, SeenInv
<1>6. flushScheduled' \in BOOLEAN
  BY <1>2 DEF AfterUnlock, TypeInv, SeenInv, TailOf
<1>7. SeenInv'
  BY <1>1, <1>3, <1>4, <1>5, <1>6 DEF TypeInv, SeenInv
<1>8. TableInv'
  BY <1>1 DEF TypeInv, TableInv
<1> QED BY <1>1, <1>7, <1>8, ApartTyped DEF TypeInv

LEMMA CoalescedTyped == ASSUME TypeInv, CoalescedFlush PROVE TypeInv'
<1>1. /\ Apart /\ BeginFlush("coalesce", FALSE) /\ probes' = probes
      /\ flushScheduled' = FALSE
      /\ UNCHANGED <<rebuilding, closed, tail, closing, hold, tray, timer>>
  BY DEF CoalescedFlush, BeginFlush, Apart, agentVars
<1>2. inner' \in GoodTable /\ lastSent' \in [Tasks -> Row] /\ emit' \in EmitOf
  BY <1>1, FlushTyped DEF TypeInv, TableInv
<1>3. SeenInv' /\ TableInv'
  BY <1>1, <1>2 DEF TypeInv, SeenInv, TableInv
<1> QED BY <1>1, <1>3, ApartTyped DEF TypeInv

LEMMA TimerFireTyped == ASSUME TypeInv, TimerFire PROVE TypeInv'
<1>1. /\ Apart /\ BeginFlush("timer", FALSE) /\ probes' = probes
      /\ timer' = [timer EXCEPT !.pc = "flush", !.left = Never]
      /\ UNCHANGED <<rebuilding, closed, tail, closing, hold, tray,
                     flushScheduled>>
  BY DEF TimerFire, BeginFlush, Apart, agentVars
<1>2. inner' \in GoodTable /\ lastSent' \in [Tasks -> Row] /\ emit' \in EmitOf
  BY <1>1, FlushTyped DEF TypeInv, TableInv
<1>3. timer' \in TimerOf
  BY <1>1 DEF TypeInv, SeenInv, TimerOf
<1>4. SeenInv' /\ TableInv'
  BY <1>1, <1>2, <1>3 DEF TypeInv, SeenInv, TableInv
<1> QED BY <1>1, <1>4, ApartTyped DEF TypeInv

LEMMA RebuildFlushTyped == ASSUME TypeInv, RebuildFlush PROVE TypeInv'
<1>1. /\ BeginFlush("rebuild", TRUE) /\ probes' = probes
      /\ rebuild' = [pc |-> "idle", rows |-> 0]
      /\ UNCHANGED <<rebuilding, closed, tail, closing, hold, tray,
                     flushScheduled, timer>>
      /\ UNCHANGED <<log, at, pending>>
      /\ UNCHANGED <<rowAt, sigAt, mine, adapter, opens>>
      /\ UNCHANGED <<joined, epoch, sinkEpoch, leaving, pending>>
  BY DEF RebuildFlush, BeginFlush, agentVars
<1>2. inner' \in GoodTable /\ lastSent' \in [Tasks -> Row] /\ emit' \in EmitOf
  BY <1>1, FlushTyped DEF TypeInv, TableInv
<1>3. SeenInv' /\ TableInv'
  BY <1>1, <1>2 DEF TypeInv, SeenInv, TableInv
<1>4. LogInv'
  <2> rebuild' \in [pc : RebuildPc, rows : 0..Len(log)]
    BY <1>1 DEF RebuildPc, TypeInv, LogInv
  <2> QED BY <1>1 DEF TypeInv, LogInv, ReplayGood
<1> QED BY <1>1, <1>3, <1>4, AgentSame, EpochSame DEF TypeInv

LEMMA EndFlushTyped == ASSUME TypeInv, EndFlush PROVE TypeInv'
<1>1. /\ Apart /\ UNCHANGED <<inner, probes>>
      /\ UNCHANGED <<rebuilding, closed, lastSent, flushScheduled, tail, closing>>
      /\ hold' = emit.hold /\ tray' = (IF emit.out THEN emit.rows ELSE tray)
      /\ emit' = NoEmit
      /\ timer' = IF emit.by = "timer" THEN [timer EXCEPT !.pc = "probes"]
                  ELSE timer
  BY DEF EndFlush, Apart, agentVars, innerVars
<1>2. SeenInv'
  BY <1>1, NothingTyped DEF TypeInv, SeenInv, EmitOf, TimerOf
<1> QED BY <1>1, <1>2, ApartTyped DEF TypeInv, TableInv

LEMMA TimerArmTyped == ASSUME TypeInv, TimerArm PROVE TypeInv'
<1>1. /\ Apart /\ UNCHANGED <<inner, probes>>
      /\ UNCHANGED <<rebuilding, closed, lastSent, flushScheduled, tail, closing,
                     emit, hold, tray>>
      /\ timer' = IF closed THEN [timer EXCEPT !.pc = "over", !.left = Never]
                  ELSE Asleep(NextDeadline(inner),
                              timer.ping /\ timer.pc # "sleep")
  BY DEF TimerArm, Apart, agentVars, innerVars
<1>2. timer' \in TimerOf
  <2> NextDeadline(inner) \in Nat \cup {Never}
    BY NextCovers DEF TypeInv, TableInv
  <2> QED BY <1>1 DEF TypeInv, SeenInv, TimerOf, Asleep
<1>3. SeenInv'
  BY <1>1, <1>2 DEF TypeInv, SeenInv
<1> QED BY <1>1, <1>3, ApartTyped DEF TypeInv, TableInv

LEMMA SpawnTyped == ASSUME TypeInv, SpawnDueProbes PROVE TypeInv'
<1> DEFINE due == IF closed \/ rebuilding THEN {}
                  ELSE {t \in Commands : /\ Running(inner.tasks[t])
                                         /\ ~inner.tasks[t].probing
                                         /\ inner.tasks[t].probe = 0}
           U == [inner EXCEPT !.tasks =
                   [t \in Tasks |-> IF t \in due
                                    THEN [inner.tasks[t] EXCEPT !.probing = TRUE]
                                    ELSE inner.tasks[t]]]
<1>1. /\ Apart /\ inner' = U /\ probes' = probes \cup due
      /\ UNCHANGED <<rebuilding, closed, lastSent, flushScheduled, tail, closing,
                     emit, hold, tray>>
      /\ timer' = [timer EXCEPT !.pc = "arm"]
  BY DEF SpawnDueProbes, Apart, agentVars
<1>2. due \subseteq Commands
  OBVIOUS
<1> HIDE DEF due
<1>3. U \in GoodTable
  BY ProbingGood DEF TypeInv, TableInv
<1> HIDE DEF U
<1>4. TableInv'
  BY <1>1, <1>2, <1>3 DEF TypeInv, TableInv
<1>5. timer' \in TimerOf
  BY <1>1 DEF TypeInv, SeenInv, TimerOf
<1>6. SeenInv'
  BY <1>1, <1>5 DEF TypeInv, SeenInv
<1> QED BY <1>1, <1>4, <1>6, ApartTyped DEF TypeInv

LEMMA ProbeTyped ==
  ASSUME TypeInv, NEW t \in Commands, ProbeResult(t) PROVE TypeInv'
<1>1. /\ Apart /\ probes' = probes \ {t}
      /\ UNCHANGED <<lastSent, tray, rebuilding, closed, flushScheduled,
                     closing, emit, timer, hold>>
  BY DEF ProbeResult, Apart, agentVars
<1>2. PICK r \in {"skipped", "alive", "unknown", "nowriter"} :
        Settle("probe", ApplyProbe(inner, t, r)) \/ UNCHANGED <<inner, tail>>
  BY DEF ProbeResult
<1>3. ApplyProbe(inner, t, r) \in GoodTable
  <2> t \in Tasks
    BY DEF Tasks
  <2> QED BY ApplyProbeGood DEF TypeInv, TableInv, Counted
<1>4. inner' \in GoodTable /\ SeenInv'
  BY <1>1, <1>2, <1>3, SettledTyped, CallersAre
<1> QED BY <1>1, <1>4, ApartTyped DEF TypeInv, TableInv

LEMMA TouchTyped ==
  ASSUME TypeInv, NEW t \in Commands, OutputTouched(t) PROVE TypeInv'
<1> DEFINE seen == [inner EXCEPT !.tasks[t].idle = 0]
           rearm == inner.tasks[t].lapse = "unverified"
           e == IF rearm THEN Evaluate(seen) ELSE seen
           w == [on |-> TRUE, flush |-> TRUE, ping |-> FALSE, send |-> rearm,
                 hold |-> IF rearm THEN HoldOn(e, rebuilding, closed) ELSE NoHold]
<1>1. /\ Apart /\ probes' = probes /\ inner' = e
      /\ tail' = [tail EXCEPT !["touch"] = w]
      /\ UNCHANGED <<lastSent, tray, rebuilding, closed, flushScheduled,
                     closing, emit, timer, hold>>
  BY DEF OutputTouched, Apart, agentVars
<1>2. seen \in GoodTable
  <2> DEFINE y == [inner.tasks[t] EXCEPT !.idle = 0]
  <2>1. inner.tasks[t] \in GoodTask /\ t \in Tasks /\ 0 \in Ages
    BY Numbers DEF TypeInv, TableInv, GoodTable, Tasks
  <2>2. y \in GoodTask
    BY <2>1, FieldGood
  <2>3. seen = [inner EXCEPT !.tasks[t] = y]
    OBVIOUS
  <2> HIDE DEF y, seen
  <2> QED BY <2>1, <2>2, <2>3, TableFields DEF TypeInv, TableInv
<1> HIDE DEF seen
<1>3. e \in GoodTable
  BY <1>2, EvaluateGood
<1>4. rearm \in BOOLEAN
  OBVIOUS
<1> HIDE DEF e, rearm
<1>5. w \in TailOf
  BY <1>4, HoldTyped DEF TailOf, TypeInv, SeenInv
<1> HIDE DEF w
<1>6. TableInv'
  BY <1>1, <1>3 DEF TypeInv, TableInv
<1>7. SeenInv'
  BY <1>1, <1>5 DEF TypeInv, SeenInv
<1> QED BY <1>1, <1>6, <1>7, ApartTyped DEF TypeInv

LEMMA ReadHoldTyped == ASSUME TypeInv, ReadHold PROVE TypeInv'
<1> DEFINE V == Evaluate(inner)
           w == [on |-> TRUE, send |-> TRUE, hold |-> Hold(V), ping |-> FALSE,
                 flush |-> Key(V) # lastSent]
<1>1. /\ Apart /\ probes' = probes /\ inner' = V
      /\ tail' = [tail EXCEPT !["read"] = w]
      /\ UNCHANGED <<lastSent, tray, rebuilding, closed, flushScheduled,
                     closing, emit, timer, hold>>
  BY DEF ReadHold, Apart, agentVars
<1>2. V \in GoodTable
  BY EvaluateGood DEF TypeInv, TableInv
<1> HIDE DEF V
<1>3. w \in TailOf
  BY HoldTyped DEF TailOf
<1> HIDE DEF w
<1>4. TableInv'
  BY <1>1, <1>2 DEF TypeInv, TableInv
<1>5. SeenInv'
  BY <1>1, <1>3 DEF TypeInv, SeenInv
<1> QED BY <1>1, <1>4, <1>5, ApartTyped DEF TypeInv

LEMMA LookTyped == ASSUME TypeInv, Look PROVE TypeInv'
<1>1. /\ Apart /\ probes' = probes /\ inner' = Evaluate(inner)
      /\ UNCHANGED <<lastSent, tray, rebuilding, closed, flushScheduled, tail,
                     closing, emit, timer, hold>>
  BY DEF Look, Apart, agentVars
<1>2. TableInv'
  BY <1>1, EvaluateGood DEF TypeInv, TableInv
<1>3. SeenInv'
  BY <1>1, SeenSame DEF TypeInv
<1> QED BY <1>1, <1>2, <1>3, ApartTyped DEF TypeInv

LEMMA RebuildReadTyped == ASSUME TypeInv, RebuildRead PROVE TypeInv'
<1>1. /\ rebuild' = [pc |-> "read", rows |-> Len(log)]
      /\ UNCHANGED <<log, at, pending>>
      /\ UNCHANGED <<rowAt, sigAt, mine, adapter, opens>>
      /\ UNCHANGED <<joined, epoch, sinkEpoch, leaving, pending>>
      /\ UNCHANGED <<inner, probes>>
      /\ UNCHANGED <<lastSent, tray, rebuilding, closed, flushScheduled, tail,
                     closing, emit, timer, hold>>
  BY DEF RebuildRead, agentVars, innerVars
<1>2. LogInv'
  <2> Len(log) \in Nat
    BY DEF TypeInv, LogInv
  <2> rebuild' \in [pc : RebuildPc, rows : 0..Len(log)]
    BY <1>1 DEF RebuildPc
  <2> QED BY <1>1 DEF TypeInv, LogInv, ReplayGood
<1> QED BY <1>1, <1>2, AgentSame, EpochSame, SeenSame DEF TypeInv, TableInv

\* What a rebuild makes of the transcript and of what was buffered.
LEMMA RebuildDone ==
  ASSUME TypeInv, RebuildApply, ~closed
  PROVE  \E X \in GoodTable : /\ inner' = Evaluate(X) /\ epoch' \in Nat
            /\ epoch' <= epoch + Cardinality(Bumps(pending, DOMAIN pending))
<1> DEFINE rows == SubSeq(log, 1, rebuild.rows)
<1>1. PICK staged \in {Staged(rows)} :
        \E done \in FoldLeft(LAMBDA S, op : {Replay(acc, op) : acc \in S},
                             {[tab |-> staged, epoch |-> epoch]}, pending) :
           inner' = Evaluate(done.tab) /\ epoch' = done.epoch
  BY DEF RebuildApply
<1>2. rows \in Seq(LogRow)
  BY DEF TypeInv, LogInv
<1> HIDE DEF rows
<1>3. staged \in GoodTable
  BY <1>1, <1>2, StagedGood
<1>4. /\ log \in Seq(LogRow) /\ pending \in Seq(PendingOp)
      /\ ReplayGood(pending) /\ epoch \in Nat
  BY DEF TypeInv, LogInv, EpochInv
<1> DEFINE F == FoldLeft(LAMBDA S, op : {Replay(acc, op) : acc \in S},
                         {[tab |-> staged, epoch |-> epoch]}, pending)
<1>5. PICK done \in F : inner' = Evaluate(done.tab) /\ epoch' = done.epoch
  BY <1>1
<1>6. \A acc \in F :
        /\ acc.tab \in GoodTable /\ acc.epoch \in Nat
        /\ acc.epoch <= epoch + Cardinality(Bumps(pending, DOMAIN pending))
  BY <1>3, <1>4, ReplayIn
<1> HIDE DEF F
<1> QED BY <1>5, <1>6

LEMMA RebuildApplyTyped == ASSUME TypeInv, RebuildApply PROVE TypeInv'
<1>1. /\ UNCHANGED <<log, at>>
      /\ UNCHANGED <<rowAt, sigAt, mine, adapter, opens>>
      /\ UNCHANGED <<joined, sinkEpoch, leaving>>
      /\ UNCHANGED <<lastSent, tray, closed, flushScheduled, tail,
                     closing, emit, hold, probes>>
      /\ rebuild' \in [pc : RebuildPc, rows : {0}]
  <2>1. rebuild' = [pc |-> "idle", rows |-> 0]
        \/ rebuild' = [pc |-> "flush", rows |-> 0]
    BY DEF RebuildApply
  <2>2. rebuild' \in [pc : RebuildPc, rows : {0}]
    BY <2>1 DEF RebuildPc
  <2>3. UNCHANGED <<agentVars, closed, lastSent, flushScheduled, at, tail, emit,
                    probes, closing, hold, tray>>
    BY DEF RebuildApply
  <2> QED BY <2>2, <2>3 DEF agentVars
<1>2. rebuild' \in [pc : RebuildPc, rows : 0..Len(log)]
  <2> 0 \in 0..Len(log)
    BY DEF TypeInv, LogInv
  <2> QED BY <1>1
<1>3. CASE closed
  <2>1. UNCHANGED <<inner, epoch, rebuilding, pending, timer>>
    BY <1>3 DEF RebuildApply
  <2>2. LogInv'
    BY <1>1, <1>2, <2>1 DEF TypeInv, LogInv, ReplayGood
  <2> QED BY <1>1, <2>1, <2>2, AgentSame, EpochSame, SeenSame
          DEF TypeInv, TableInv
<1>4. CASE ~closed
  <2>2. rebuilding' = FALSE /\ pending' = <<>> /\ Notify
    BY <1>4 DEF RebuildApply
  <2>3. PICK X \in GoodTable :
           /\ inner' = Evaluate(X) /\ epoch' \in Nat
           /\ epoch' <= epoch + Cardinality(Bumps(pending, DOMAIN pending))
    BY <1>4, RebuildDone
  <2>5. pending \in Seq(PendingOp) /\ epoch \in Nat
    BY DEF TypeInv, LogInv, EpochInv
  <2>8. TableInv'
    BY <1>1, <2>3, EvaluateGood DEF TypeInv, TableInv
  <2>9. LogInv'
    <3>1. pending' \in Seq(PendingOp) /\ ReplayGood(pending)'
      BY <2>2 DEF ReplayGood
    <3> QED BY <1>1, <1>2, <3>1 DEF TypeInv, LogInv
  <2>10. EpochInv'
    <3>1. Cardinality(Bumps(pending', DOMAIN pending')) = 0
      BY <2>2, NoBumps
    <3>2. epoch' \in Nat
          /\ epoch' <= epoch + Cardinality(Bumps(pending, DOMAIN pending))
      BY <2>3
    <3>3. Cardinality(Bumps(pending, DOMAIN pending)) \in Nat
      <4> [op |-> "gone", n |-> 0] \in PendingOp
        BY DEF PendingOp
      <4> QED BY <2>5, BumpsAppend
    <3> QED BY <1>1, <2>5, <3>1, <3>2, <3>3 DEF TypeInv, EpochInv
  <2>11. SeenInv'
    BY <1>1, <2>2, NotifyTyped DEF TypeInv, SeenInv
  <2> QED BY <1>1, <2>8, <2>9, <2>10, <2>11, AgentSame DEF TypeInv
<1> QED BY <1>3, <1>4

LEMMA ShutdownTyped ==
  ASSUME TypeInv, Shutdown \/ ShutdownClose PROVE TypeInv'
<1>1. /\ Apart /\ UNCHANGED <<inner, probes>>
  BY DEF Shutdown, ShutdownClose, Apart, agentVars
<1>4. SeenInv'
  <2>1. CASE Shutdown
    BY <2>1, KeyTyped, EmptyGood DEF Shutdown, TypeInv, SeenInv
  <2>2. CASE ShutdownClose
    BY <2>2, HoldTyped DEF ShutdownClose, TypeInv, SeenInv, TimerOf
  <2> QED BY <2>1, <2>2
<1> QED BY <1>1, <1>4, ApartTyped DEF TypeInv, TableInv

LEMMA OpenTyped == ASSUME TypeInv, Open PROVE TypeInv'
<1>1. LogInv'
  <2>1. /\ log' = log /\ pending' = <<>> /\ at' = [a \in Sinks |-> 0]
        /\ rebuild' = [pc |-> "reading", rows |-> 0]
    BY DEF Open
  <2>2. Len(log) \in Nat /\ pending' \in Seq(PendingOp) /\ DOMAIN pending' = {}
    BY <2>1 DEF TypeInv, LogInv
  <2>3. at' \in [Sinks -> 0..Len(log)]
        /\ rebuild' \in [pc : RebuildPc, rows : 0..Len(log)]
    BY <2>1, <2>2 DEF RebuildPc
  <2> QED BY <2>1, <2>2, <2>3 DEF TypeInv, LogInv, ReplayGood
<1>2. AgentInv'
  BY Bounds DEF Open, TypeInv, AgentInv, RowWhere
<1>3. EpochInv'
  <2>1. pending' = <<>> /\ epoch' = 0 /\ sinkEpoch' = 0 /\ leaving' = {}
        /\ joined' = joined /\ joined \in Nat
    BY Bounds DEF Open, TypeInv, EpochInv
  <2> QED BY <2>1, NoBumps DEF TypeInv, EpochInv
<1>4. TableInv'
  BY EmptyGood DEF Open, TableInv
<1>5. SeenInv'
  BY KeyTyped, EmptyGood, NothingTyped, HoldTyped DEF Open, SeenInv, TimerOf
<1> QED BY <1>1, <1>2, <1>3, <1>4, <1>5 DEF TypeInv

LEMMA TickTyped == ASSUME TypeInv, Tick PROVE TypeInv'
<1> DEFINE aged == [i \in DOMAIN log |->
                      [log[i] EXCEPT !.age = Least(@ + 1, Expiry)]]
<1>1. /\ UNCHANGED <<at, rebuild, pending>>
      /\ UNCHANGED <<rowAt, sigAt, mine, adapter, opens>>
      /\ UNCHANGED <<joined, epoch, sinkEpoch, leaving, pending>>
      /\ UNCHANGED <<lastSent, tray, rebuilding, closed, flushScheduled, tail,
                     closing, emit, hold, probes>>
      /\ inner' = Aged(inner) /\ log' = aged
      /\ timer' = [timer EXCEPT !.left = IF @ > 0 THEN @ - 1 ELSE @]
  BY DEF Tick
<1>2. aged \in Seq(LogRow) /\ Len(aged) = Len(log)
  <2>1. log \in Seq(LogRow)
    BY DEF TypeInv, LogInv
  <2>2. \A i \in DOMAIN log : [log[i] EXCEPT !.age = Least(@ + 1, Expiry)] \in LogRow
    <3> TAKE i \in DOMAIN log
    <3>0. log[i] \in LogRow
      BY <2>1
    <3>1. log[i] \in LogRow /\ log[i].age \in 0..Expiry
      BY <3>0 DEF LogRow
    <3>2. Least(log[i].age + 1, Expiry) \in 0..Expiry
      BY <3>1, Numbers DEF Least
    <3> QED BY <3>1, <3>2 DEF LogRow
  <2>3. DOMAIN log = 1..Len(log) /\ Len(log) \in Nat
    BY <2>1
  <2>4. aged \in [1..Len(log) -> LogRow]
    BY <2>2, <2>3
  <2> HIDE DEF aged
  <2> QED BY <2>3, <2>4
<1> HIDE DEF aged
<1>3. LogInv'
  BY <1>1, <1>2 DEF TypeInv, LogInv, ReplayGood
<1>4. TableInv'
  BY <1>1, AgedTable DEF TypeInv, TableInv
<1>5. timer' \in TimerOf
  <2> timer \in TimerOf /\ timer.left \in Nat \cup {Never}
    BY DEF TypeInv, SeenInv, TimerOf
  <2> (IF timer.left > 0 THEN timer.left - 1 ELSE timer.left)
        \in Nat \cup {Never}
    BY DEF Never
  <2> QED BY <1>1 DEF TimerOf
<1>6. SeenInv'
  BY <1>1, <1>5 DEF TypeInv, SeenInv
<1> QED BY <1>1, <1>3, <1>4, <1>6, AgentSame, EpochSame DEF TypeInv

LEMMA TypeNext == ASSUME TypeInv, [Next]_vars PROVE TypeInv'
<1>1. CASE Agent
  BY <1>1, PersistRowTyped, PersistSignalTyped, ChatterTyped, TurnEndedTyped,
     ConnectTyped, AdapterTyped DEF Agent
<1>2. CASE Registry
  BY <1>2, ObserveTyped, AfterUnlockTyped, AdapterTyped, GoneTyped,
     CoalescedTyped, EndFlushTyped, TimerArmTyped, TimerFireTyped, SpawnTyped,
     ProbeTyped, RebuildReadTyped, RebuildApplyTyped, RebuildFlushTyped,
     ShutdownTyped DEF Registry
<1>3. CASE Others
  BY <1>3, TouchTyped, ReadHoldTyped, LookTyped, ShutdownTyped, OpenTyped
     DEF Others
<1>4. CASE Tick
  BY <1>4, TickTyped
<1>5. CASE UNCHANGED vars
  <2> Apart /\ UNCHANGED <<inner, probes>>
      /\ UNCHANGED <<lastSent, tray, rebuilding, closed, flushScheduled, tail,
                     closing, emit, timer, hold>>
    BY <1>5 DEF vars, agentVars, innerVars, Apart
  <2> QED BY ApartTyped, SeenSame DEF TypeInv, TableInv
<1> QED BY <1>1, <1>2, <1>3, <1>4, <1>5 DEF Next

LEMMA TypeInvOK == ASSUME TypeInv PROVE TypeOK
<1>1. log \in Seq([e : Event, age : 0..Expiry]) /\ Len(log) <= MaxEvents
      /\ Len(log) \in Nat
  <2>1. LogRow \subseteq [e : Event, age : 0..Expiry]
    BY DEF LogRow, GoodEvent
  <2>2. log \in Seq(LogRow) /\ Len(log) <= MaxEvents
    BY DEF TypeInv, LogInv
  <2>3. log \in Seq([e : Event, age : 0..Expiry])
    BY <2>1, <2>2, SeqWider
  <2>4. Len(log) \in Nat
    BY <2>2
  <2> QED BY <2>2, <2>3, <2>4
<1>2. 0..Len(log) \subseteq 0..MaxEvents /\ 0..joined \subseteq 0..MaxConnects
  BY <1>1, Bounds DEF TypeInv, EpochInv
<1>3. at \in [Sinks -> 0..MaxEvents]
      /\ rebuild \in [pc : RebuildPc, rows : 0..MaxEvents]
  BY <1>2 DEF TypeInv, LogInv
<1>4. {sinkEpoch, epoch} \cup leaving \subseteq 0..MaxConnects
  <2>1. Cardinality(Bumps(pending, DOMAIN pending)) \in Nat
    <3> [op |-> "gone", n |-> 0] \in PendingOp
      BY DEF PendingOp
    <3> QED BY BumpsAppend DEF TypeInv, LogInv
  <2>2. epoch \in 0..joined
    BY <2>1, Bounds DEF TypeInv, EpochInv
  <2> QED BY <1>2, <2>2 DEF TypeInv, EpochInv
<1>5. inner \in Table
  BY GoodIsTable DEF TypeInv, TableInv
<1>6. pending \in Seq([op : {"obs", "turnEnded", "bump", "gone"}, n : Nat])
  BY DEF TypeInv, LogInv, PendingOp
<1> QED BY <1>1, <1>3, <1>4, <1>5, <1>6
    DEF TypeOK, TypeInv, AgentInv, EpochInv, TableInv, SeenInv, TailOf, EmitOf,
        TimerOf, RebuildPc, RowWhere, SigWhere

\* Every state is well typed, whatever the harness, the runtime and the clock do:
\* no age, hold, grace or epoch leaves its range, no probe counts past its two
\* misses, and a rebuild and the sinks only look at rows the transcript has
\* (task.rs, signal.rs and hold.rs, on the table of registry.rs).
THEOREM TypeCorrect == Spec => []TypeOK
<1>1. Init => TypeInv
  BY TypeInit
<1>2. TypeInv /\ [Next]_vars => TypeInv'
  BY TypeNext
<1>3. TypeInv => TypeOK
  BY TypeInvOK
<1> QED BY <1>1, <1>2, <1>3, PTL DEF Spec

-----------------------------------------------------------------------------
(* What is published.                                                        *)

\* The registry is being shut down, or has been.
Over == closed \/ closing
\* Something is about to be published.
Tailed == ~Idle \/ emit # NoEmit
\* A flush is scheduled, or a caller is about to ask for one.
FlushDue == flushScheduled \/ \E a \in Callers : tail[a].on /\ tail[a].flush
\* The deadline the timer sleeps for has come.
Overdue == timer.pc = "sleep" /\ timer.left = 0 /\ ~timer.ping

\* What a sink is about to observe is new.
Origin == \A a \in Sinks : at[a] # 0 => log[at[a]].age = 0

\* Who publishes.
EmitBy == /\ emit.by = "nobody" <=> emit = NoEmit
          /\ emit.by = "timer" => timer.pc = "flush"

\* Every caller that settled publishes the hold it computed.
Sends == \A a \in Callers : tail[a].on => tail[a].send

\* The rebuild and what it keeps waiting.
Phase ==
  /\ rebuilding <=> rebuild.pc \in {"reading", "read"}
  /\ rebuilding => /\ Idle /\ emit = NoEmit /\ ~flushScheduled
                   /\ probes = {} /\ timer.pc = "none"
  /\ ~rebuilding => timer.pc \notin {"none", "over"}

\* What was sent last is shown, or about to be.
Shows == IF emit.out THEN emit.rows = lastSent ELSE tray = lastSent

\* The table is settled but for what the timer is about to find.
Ready == Settled(inner) \/ (Overdue /\ Idle /\ emit = NoEmit)

\* The timer is awake, is being woken, or sleeps past no deadline.
Awake == \/ timer.pc \in {"arm", "flush", "probes"} \/ timer.ping
         \/ \E a \in Callers : tail[a].on /\ tail[a].ping
         \/ Covers(timer.left, inner)

\* Unless a flush is due: what is about to be published is the hold of the table,
\* and what was sent last is its rows.
Agreed ==
  /\ Tailed => KeyM(inner) = Shown(lastSent)
  /\ \A a \in Callers : tail[a].on => tail[a].hold = Hold(inner)
  /\ emit # NoEmit => emit.hold = Hold(inner)
  /\ rebuild.pc # "flush" =>
       /\ KeyM(inner) = Shown(lastSent) \/ Overdue
       /\ hold = Hold(inner) \/ Tailed \/ Overdue

Current == Ready /\ Awake /\ (~FlushDue => Agreed)

\* The invariant.  While the session is rebuilt nothing is under way but the
\* rebuild; once it is over nothing more is asked.
Inv == /\ TypeInv /\ Origin /\ EmitBy /\ Sends
       /\ ~Over => Phase /\ Shows /\ (~rebuilding => Current)

LEMMA InvInit == ASSUME Init PROVE Inv
<1>1. TypeInv
  BY TypeInit
<1>2. Origin /\ EmitBy /\ Sends
  <2>1. log = <<>> /\ DOMAIN log = {}
    BY DEF Init
  <2> QED BY <2>1 DEF Init, Origin, EmitBy, Sends, NoEmit, NoTail
<1>3. Phase /\ Shows /\ rebuilding
  BY DEF Init, Phase, Shows, NoEmit, NoTail, Idle
<1> QED BY <1>1, <1>2, <1>3 DEF Inv

\* The registry is left alone.
RegSame == UNCHANGED <<inner, rebuilding, closed, lastSent, flushScheduled, tail,
                       emit, timer, probes, rebuild, closing, hold, tray>>

\* A step of the harness or of the transcript alone.
LEMMA RegSameInv ==
  ASSUME Inv, RegSame, TypeInv', Origin' PROVE Inv'
BY DEF Inv, RegSame, EmitBy, Sends, Over, Phase, Shows, Current, Ready, Awake,
       FlushDue, Agreed, Tailed, Overdue, Idle

LEMMA OriginSame ==
  ASSUME Origin, UNCHANGED <<log, at>> PROVE Origin'
BY DEF Origin

\* Once over, only what is said of every state is left to show.
LEMMA OverInv ==
  ASSUME TypeInv', Origin', EmitBy', Sends', Over' PROVE Inv'
BY DEF Inv

LEMMA LiveInv ==
  ASSUME TypeInv', Origin', EmitBy', Sends', ~Over', Phase', Shows', Current'
  PROVE  Inv'
BY DEF Inv

\* A new row in the transcript, and the sink that is to observe it.
LEMMA PersistOrigin ==
  ASSUME TypeInv, Origin, NEW a \in Sinks, NEW e \in GoodEvent,
         Persist(a, e)
  PROVE  Origin' /\ RegSame
<1> DEFINE r == [e |-> e, age |-> 0]
<1>1. /\ log \in Seq(LogRow) /\ Len(log) \in Nat /\ log' = Append(log, r)
      /\ at' = [at EXCEPT ![a] = Len(log) + 1] /\ at \in [Sinks -> 0..Len(log)]
  BY DEF TypeInv, LogInv, Persist
<1> HIDE DEF r
<1>2. /\ DOMAIN log' = (DOMAIN log) \cup {Len(log) + 1}
      /\ DOMAIN log = 1..Len(log)
      /\ log'[Len(log) + 1] = r /\ \A i \in 1..Len(log) : log'[i] = log[i]
  <2>1. DOMAIN log' = 1..(Len(log) + 1) /\ DOMAIN log = 1..Len(log)
    BY <1>1
  <2>2. log'[Len(log) + 1] = r /\ \A i \in 1..Len(log) : log'[i] = log[i]
    BY <1>1
  <2>3. 1..(Len(log) + 1) = (1..Len(log)) \cup {Len(log) + 1}
    BY <1>1
  <2> QED BY <2>1, <2>2, <2>3
<1>3. r.e = e /\ r.age = 0
  BY DEF r
<1>4. ASSUME NEW b \in Sinks, at'[b] # 0 PROVE log'[at'[b]].age = 0
  <2>1. CASE b = a
    BY <1>1, <1>2, <1>3, <2>1
  <2>2. CASE b # a
    <3>1. at'[b] = at[b] /\ at[b] \in 1..Len(log)
      BY <1>1, <1>4, <2>2
    <3> QED BY <1>2, <1>4, <3>1 DEF Origin
  <2> QED BY <2>1, <2>2
<1> QED BY <1>4 DEF Origin, RegSame, Persist, innerVars

LEMMA PersistRowInv ==
  ASSUME Inv, NEW t \in Tasks, PersistRow(t) PROVE Inv'
<1>1. PICK s \in RowSteps(t) : Persist("rows", E(s[2], t))
  BY DEF PersistRow
<1>2. E(s[2], t) \in GoodEvent
  <2>1. /\ s[2] \in {"launched", "backgrounded", "started", "nested",
                     "finished", "failed", "settled"}
        /\ s[2] = "launched" => t \in Commands
    BY <1>1 DEF RowSteps
  <2> QED BY <2>1 DEF E, GoodEvent, Event
<1>3. TypeInv /\ Origin
  BY DEF Inv
<1>4. Origin' /\ RegSame
  BY <1>1, <1>2, <1>3, PersistOrigin, CallersAre
<1> QED BY <1>3, <1>4, PersistRowTyped, RegSameInv

LEMMA PersistSignalInv ==
  ASSUME Inv, NEW t \in Tasks, PersistSignal(t) PROVE Inv'
<1>1. PICK e \in GoodEvent : Persist("signals", e)
  <2>1. /\ E("confirmed", t) \in GoodEvent
        /\ [E("confirmed", t) EXCEPT !.paused = TRUE] \in GoodEvent
        /\ [E("confirmed", t) EXCEPT !.tool = "new"] \in GoodEvent
        /\ \A tool \in {"own", "none"} :
              [E("ended", t) EXCEPT !.tool = tool] \in GoodEvent
    BY DEF E, GoodEvent, Event
  <2> QED BY <2>1 DEF PersistSignal
<1>2. TypeInv /\ Origin
  BY DEF Inv
<1>3. Origin' /\ RegSame
  BY <1>1, <1>2, PersistOrigin, CallersAre
<1> QED BY <1>2, <1>3, PersistSignalTyped, RegSameInv

LEMMA AdapterInv == ASSUME Inv, Attach \/ AdapterExit PROVE Inv'
<1>1. TypeInv /\ Origin
  BY DEF Inv
<1>2. Origin' /\ RegSame
  BY <1>1, OriginSame DEF Attach, AdapterExit, RegSame, innerVars
<1> QED BY <1>1, <1>2, AdapterTyped, RegSameInv

-----------------------------------------------------------------------------
\* The registry follows the session.
Live == ~Over /\ ~rebuilding

\* What a settle leaves alone.
SettleFrame == UNCHANGED <<rebuilding, closed, lastSent, flushScheduled, emit,
                           timer, rebuild, closing, hold, tray>>

\* A settle: either what it shows is new, and its tail asks for a flush, or what
\* others are about to publish is still true.
LEMMA SettleInv ==
  ASSUME Inv, Live, NEW a \in Callers, ~tail[a].on, NEW Y, Keeps(inner, Y),
         Settle(a, Y), SettleFrame, probes' \subseteq probes,
         TypeInv', Origin'
  PROVE  Inv'
<1> DEFINE V == Evaluate(Y)
           w == [on |-> TRUE, send |-> TRUE, hold |-> Hold(V),
                 flush |-> Key(V) # lastSent, ping |-> TRUE]
<1>1. inner' = V /\ tail' = [tail EXCEPT ![a] = w]
  BY DEF Settle, HoldOn, Live, Over
<1>2. Settled(V) /\ tail \in [Callers -> TailOf]
  BY SettledEvaluate DEF Inv, TypeInv, SeenInv, Keeps
<1>3. /\ tail'[a].on /\ tail'[a].send /\ tail'[a].ping /\ tail'[a].hold = Hold(V)
      /\ tail'[a].flush = (Key(V) # lastSent)
      /\ \A b \in Callers : b # a => tail'[b] = tail[b]
  BY <1>1, <1>2
<1> HIDE DEF V, w
<1>4. Phase /\ Shows /\ Current /\ EmitBy /\ Sends
  BY DEF Inv, Live
<1>5. EmitBy' /\ Sends' /\ ~Over' /\ ~rebuilding' /\ Phase' /\ Shows'
  BY <1>3, <1>4 DEF EmitBy, Sends, Over, Live, Phase, Shows, SettleFrame
<1>6. Ready' /\ Awake'
  BY <1>1, <1>2, <1>3 DEF Ready, Awake
<1>7. ASSUME ~FlushDue' PROVE Agreed'
  <2>1. ~FlushDue /\ Key(V) = lastSent
    BY <1>3, <1>7 DEF FlushDue, SettleFrame
  <2>2. KeyM(V) = Shown(lastSent)
    BY <2>1 DEF KeyM
  <2>3. ASSUME Tailed PROVE Hold(V) = Hold(inner)
    <3>1. Settled(inner)
      BY <1>4, <2>3 DEF Current, Ready, Tailed
    <3>2. KeyM(inner) = Shown(lastSent)
      BY <1>4, <2>1, <2>3 DEF Current, Agreed
    <3> QED BY <2>2, <3>1, <3>2 DEF Keeps, V
  <2>4. ASSUME NEW b \in Callers, tail'[b].on PROVE tail'[b].hold = Hold(inner')
    <3>1. CASE b = a
      BY <1>1, <1>3, <3>1
    <3>2. CASE b # a
      <4>1. tail[b].on /\ tail'[b] = tail[b]
        BY <1>3, <2>4, <3>2
      <4>2. Tailed
        BY <4>1 DEF Tailed, Idle
      <4>3. tail[b].hold = Hold(inner)
        BY <1>4, <2>1, <4>1 DEF Current, Agreed
      <4> QED BY <1>1, <2>3, <4>1, <4>2, <4>3
    <3> QED BY <3>1, <3>2
  <2>5. emit' # NoEmit => emit'.hold = Hold(inner')
    <3> SUFFICES ASSUME emit # NoEmit PROVE emit.hold = Hold(V)
      BY <1>1 DEF SettleFrame
    <3>1. Tailed
      BY DEF Tailed
    <3>2. emit.hold = Hold(inner)
      BY <1>4, <2>1 DEF Current, Agreed
    <3> QED BY <2>3, <3>1, <3>2
  <2>6. KeyM(inner') = Shown(lastSent')
    BY <1>1, <2>2 DEF SettleFrame
  <2>7. Tailed'
    BY <1>3 DEF Tailed, Idle
  <2>8. \A b \in Callers : tail'[b].on => tail'[b].hold = Hold(inner')
    BY <2>4
  <2> QED BY <2>5, <2>6, <2>7, <2>8 DEF Agreed
<1> QED BY <1>5, <1>6, <1>7, LiveInv DEF Current

\* Of an evaluation alone: what covers the table covers it still.
LEMMA LookCovers ==
  ASSUME TypeInv, Ready, Covers(timer.left, inner)
  PROVE  Covers(timer.left, Evaluate(inner))
<1>1. inner \in GoodTable /\ Evaluate(inner) \in GoodTable
  BY EvaluateGood DEF TypeInv, TableInv
<1>2. CASE Settled(inner)
  BY <1>2, EvaluateKeeps DEF Covers
<1>3. CASE ~Settled(inner)
  <2>1. timer.left = 0
    BY <1>3 DEF Ready, Overdue
  <2>2. \A d \in Deadlines(Evaluate(inner)) : 0 <= Most(0, d)
    BY <1>1, DeadlineLeast DEF Most
  <2> QED BY <2>1, <2>2 DEF Covers, Never
<1> QED BY <1>2, <1>3

-----------------------------------------------------------------------------
(* The callers.                                                              *)

LEMMA RowOrigin ==
  ASSUME TypeInv, Origin, NEW a \in Sinks, at[a] # 0
  PROVE  /\ log[at[a]].e \in GoodEvent
         /\ log[at[a]].age = 0 /\ 0 \in Ages
<1>1. at[a] \in 1..Len(log) /\ log \in Seq(LogRow)
  BY DEF TypeInv, LogInv
<1>2. log[at[a]] \in LogRow /\ at[a] \in DOMAIN log
  BY <1>1
<1> QED BY <1>2, Numbers DEF LogRow, Origin

\* A step that is over: nothing else is asked of it.
LEMMA OverStays ==
  ASSUME Inv, Over, TypeInv', Origin', Over', UNCHANGED <<emit, tail>>,
         timer'.pc = timer.pc \/ timer.pc # "flush"
  PROVE  Inv'
BY OverInv DEF Inv, EmitBy, Sends

\* A settle that comes after the shutdown has begun.
LEMMA OverSettle ==
  ASSUME Inv, Over, TypeInv', Origin', NEW a \in Callers, NEW Y, Settle(a, Y),
         SettleFrame
  PROVE  Inv'
<1> DEFINE w == [on |-> TRUE, send |-> TRUE,
                 hold |-> HoldOn(Evaluate(Y), rebuilding, closed),
                 flush |-> Key(Evaluate(Y)) # lastSent, ping |-> TRUE]
<1>1. tail' = [tail EXCEPT ![a] = w] /\ w.send
  BY DEF Settle
<1> HIDE DEF w
<1>2. Sends'
  BY <1>1 DEF Inv, Sends, TypeInv, SeenInv
<1>3. Over' /\ EmitBy'
  BY DEF Over, SettleFrame, Inv, EmitBy
<1> QED BY <1>2, <1>3, OverInv

\* A call that buffers while the table is rebuilt, settles, or does nothing.
LEMMA CallInv ==
  ASSUME Inv, TypeInv', Origin', NEW a \in Callers, ~tail[a].on, NEW op, NEW Y,
         Keeps(inner, Y),
         \/ closed /\ UNCHANGED <<inner, pending, tail>>
         \/ rebuilding /\ Buffer(op)
         \/ ~closed /\ ~rebuilding /\ Settle(a, Y)
         \/ UNCHANGED <<inner, pending, tail>>,
         SettleFrame, probes' = probes
  PROVE  Inv'
<1>1. CASE UNCHANGED <<inner, tail>>
  BY <1>1, RegSameInv DEF RegSame, SettleFrame
<1>2. CASE rebuilding /\ Buffer(op)
  BY <1>1, <1>2 DEF Buffer
<1>3. CASE ~closed /\ ~rebuilding /\ Settle(a, Y)
  BY <1>3, SettleInv, OverSettle DEF Live
<1> QED BY <1>1, <1>2, <1>3

LEMMA ObserveInv ==
  ASSUME Inv, NEW a \in Sinks, Observe(a) PROVE Inv'
<1> DEFINE Y == Apply(inner, log[at[a]].e, log[at[a]].age)
<1>1. TypeInv /\ Origin /\ TypeInv' /\ at[a] # 0 /\ a \in Callers
  BY ObserveTyped, CallersAre DEF Inv, Observe
<1>2. Origin'
  BY <1>1 DEF Observe, Origin, agentVars, TypeInv, LogInv
<1>3. Keeps(inner, Y)
  <2>1. /\ inner.held = Cardinality(Holding(inner)) => Counted(inner, Y)
        /\ NoRevival(inner, Y) /\ Y \in GoodTable
    BY <1>1, RowOrigin, ApplyGood DEF TypeInv, TableInv
  <2> HIDE DEF Y
  <2> QED BY <2>1, CountedKeeps
<1> HIDE DEF Y
<1>4. /\ \/ closed /\ UNCHANGED <<inner, pending, tail>>
         \/ rebuilding /\ Buffer([op |-> "obs", n |-> at[a]])
         \/ ~closed /\ ~rebuilding /\ Settle(a, Y)
         \/ UNCHANGED <<inner, pending, tail>>
      /\ SettleFrame /\ probes' = probes /\ ~tail[a].on
  BY DEF Observe, SettleFrame, Y
<1> QED BY <1>1, <1>2, <1>3, <1>4, CallInv

LEMMA TurnEndedInv == ASSUME Inv, CallTurnEnded PROVE Inv'
<1>1. TypeInv /\ Origin' /\ TypeInv'
  BY TurnEndedTyped, OriginSame DEF Inv, CallTurnEnded
<1>2. Keeps(inner, TurnEnded(inner))
  BY <1>1, TurnEndedGood, CountedKeeps DEF TypeInv, TableInv, Counted
<1>3. /\ \/ rebuilding /\ Buffer([op |-> "turnEnded", n |-> 0])
         \/ ~closed /\ ~rebuilding /\ Settle("turn", TurnEnded(inner))
      /\ SettleFrame /\ probes' = probes /\ ~tail["turn"].on
  BY DEF CallTurnEnded, SettleFrame
<1> QED BY <1>1, <1>2, <1>3, CallInv, CallersAre

LEMMA ConnectInv == ASSUME Inv, Connect PROVE Inv'
<1>1. TypeInv /\ Origin' /\ TypeInv'
  BY ConnectTyped, OriginSame DEF Inv, Connect
<1>2. Keeps(inner, StaleAll(inner))
  BY <1>1, StaleAllGood, CountedKeeps DEF TypeInv, TableInv, Counted
<1>3. /\ \/ rebuilding /\ Buffer([op |-> "bump", n |-> 0])
         \/ ~closed /\ ~rebuilding /\ Settle("connect", StaleAll(inner))
      /\ SettleFrame /\ probes' = probes /\ ~tail["connect"].on
  BY DEF Connect, SettleFrame
<1> QED BY <1>1, <1>2, <1>3, CallInv, CallersAre

LEMMA GoneInv == ASSUME Inv, NEW n \in leaving, AdapterGone(n) PROVE Inv'
<1>1. TypeInv /\ Origin' /\ TypeInv'
  BY GoneTyped, OriginSame DEF Inv, AdapterGone
<1>2. Keeps(inner, StaleAll(inner))
  BY <1>1, StaleAllGood, CountedKeeps DEF TypeInv, TableInv, Counted
<1>3. /\ \/ closed /\ UNCHANGED <<inner, pending, tail>>
         \/ rebuilding /\ Buffer([op |-> "gone", n |-> n])
         \/ ~closed /\ ~rebuilding /\ Settle("gone", StaleAll(inner))
         \/ UNCHANGED <<inner, pending, tail>>
      /\ SettleFrame /\ probes' = probes /\ ~tail["gone"].on
  BY DEF AdapterGone, SettleFrame
<1> QED BY <1>1, <1>2, <1>3, CallInv, CallersAre

LEMMA ProbeInv == ASSUME Inv, NEW t \in Commands, ProbeResult(t) PROVE Inv'
<1>1. TypeInv /\ Origin' /\ TypeInv'
  BY ProbeTyped, OriginSame DEF Inv, ProbeResult, agentVars
<1>2. PICK r \in {"skipped", "alive", "unknown", "nowriter"} :
        \/ closed /\ UNCHANGED <<inner, tail>>
        \/ ~closed /\ Settle("probe", ApplyProbe(inner, t, r))
  BY DEF ProbeResult
<1>3. Keeps(inner, ApplyProbe(inner, t, r))
  <2>1. t \in Tasks /\ inner \in GoodTable
    BY <1>1 DEF Tasks, TypeInv, TableInv
  <2> DEFINE Y == ApplyProbe(inner, t, r)
  <2>2. Counted(inner, Y) /\ NoRevival(inner, Y)
    BY <2>1, ApplyProbeGood
  <2> HIDE DEF Y
  <2>3. Y \in GoodTable
    BY <2>2 DEF Counted
  <2>4. Keeps(inner, Y)
    BY <2>2, <2>3, CountedKeeps
  <2> QED BY <2>4 DEF Y
<1> DEFINE Y == ApplyProbe(inner, t, r)
<1>4. /\ SettleFrame /\ probes' = probes \ {t} /\ t \in probes
      /\ ~tail["probe"].on
  BY DEF ProbeResult, agentVars, SettleFrame
<1>5. CASE closed /\ UNCHANGED <<inner, tail>>
  <2>1. Over /\ Over' /\ EmitBy' /\ Sends'
    BY <1>4, <1>5 DEF Over, SettleFrame, Inv, EmitBy, Sends
  <2> QED BY <1>1, <2>1, OverInv
<1>6. CASE ~closed /\ Settle("probe", Y)
  <2>1. Settle("probe", Y) /\ Keeps(inner, Y) /\ probes' \subseteq probes
    BY <1>3, <1>4, <1>6
  <2> HIDE DEF Y
  <2>2. Over \/ ~rebuilding
    BY <1>4 DEF Inv, Phase
  <2> QED BY <1>1, <1>4, <2>1, <2>2, SettleInv, OverSettle, CallersAre DEF Live
<1> QED BY <1>2, <1>5, <1>6

-----------------------------------------------------------------------------
(* Steps that nobody can see.                                                *)

LEMMA ZeroCovers == ASSUME NEW T \in GoodTable PROVE Covers(0, T)
BY DeadlineLeast DEF Covers, Most, Never

\* A change of the table alone that nobody can see.
LEMMA InnerInv ==
  ASSUME Inv, Live, TypeInv', Origin', probes' = probes,
         UNCHANGED <<rebuilding, closed, lastSent, flushScheduled, tail, emit,
                     timer, rebuild, closing, hold, tray>>,
         Settled(inner) => /\ Settled(inner') /\ KeyM(inner') = KeyM(inner)
                           /\ Hold(inner') = Hold(inner),
         Covers(timer.left, inner) => Covers(timer.left, inner')
  PROVE  Inv'
<1>1. Phase /\ Shows /\ Current /\ EmitBy /\ Sends
  BY DEF Inv, Live
<1>2. EmitBy' /\ Sends' /\ ~Over' /\ ~rebuilding' /\ Phase' /\ Shows'
  BY <1>1 DEF EmitBy, Sends, Over, Live, Phase, Shows, Idle
<1>3. Ready' /\ Awake'
  BY <1>1 DEF Current, Ready, Awake, Overdue, Idle
<1>4. ASSUME ~FlushDue' PROVE Agreed'
  <2>1. Agreed
    BY <1>1, <1>4 DEF Current, FlushDue
  <2>2. CASE Settled(inner)
    <3>1. KeyM(inner') = KeyM(inner) /\ Hold(inner') = Hold(inner)
      BY <2>2
    <3> QED BY <2>1, <3>1 DEF Agreed, Tailed, Idle, Overdue
  <2>3. CASE ~Settled(inner)
    <3>1. Overdue /\ ~Tailed /\ emit = NoEmit /\ Idle
      BY <1>1, <2>3 DEF Current, Ready, Tailed
    <3>2. Overdue' /\ ~Tailed' /\ emit' = NoEmit
          /\ \A a \in Callers : ~tail'[a].on
      BY <3>1 DEF Overdue, Tailed, Idle
    <3> QED BY <3>2 DEF Agreed
  <2> QED BY <2>2, <2>3
<1> QED BY <1>2, <1>3, <1>4, LiveInv DEF Current

LEMMA ChatterInv == ASSUME Inv, Chatter PROVE Inv'
<1> DEFINE Y == Bump(inner, 0)
           arms == \E t \in Commands : /\ Running(inner.tasks[t])
                                       /\ inner.tasks[t].lapse = "unverified"
                                       /\ inner.tasks[t].idle > 0
<1>1. TypeInv /\ Origin' /\ TypeInv' /\ inner \in GoodTable
  BY ChatterTyped, OriginSame DEF Inv, Chatter, agentVars, TypeInv, TableInv
<1>2. Keeps(inner, Y) /\ Y \in GoodTable
  <2>1. SameHolds(inner, Y)
    BY <1>1, BumpGood, Numbers
  <2> HIDE DEF Y
  <2> QED BY <2>1, SameKeeps DEF SameHolds
<1>3. /\ SettleFrame /\ probes' = probes /\ ~tail["rows"].on
      /\ ~closed /\ ~rebuilding
  BY DEF Chatter, agentVars, SettleFrame
<1>4. /\ arms => Settle("rows", Y)
      /\ ~arms => inner' = Y /\ UNCHANGED tail
  BY DEF Chatter
<1>5. ~arms /\ Settled(inner)
        => /\ Settled(Y) /\ KeyM(Y) = KeyM(inner) /\ Hold(Y) = Hold(inner)
           /\ Later(inner, Y, 0)
  BY BumpKeeps
<1> HIDE DEF Y, arms
<1>6. CASE arms
  <2>1. Over \/ Live
    BY <1>3 DEF Live
  <2> QED BY <1>1, <1>2, <1>3, <1>4, <1>6, <2>1, SettleInv, OverSettle, CallersAre
<1>7. CASE ~arms /\ Over
  <2>1. Over' /\ EmitBy' /\ Sends'
    BY <1>3, <1>4, <1>7 DEF Over, SettleFrame, Inv, EmitBy, Sends
  <2> QED BY <1>1, <2>1, OverInv
<1>8. CASE ~arms /\ Live
  <2>1. inner' = Y /\ UNCHANGED tail
    BY <1>4, <1>8
  <2>2. timer.left \in Nat \cup {Never}
    BY <1>1 DEF TypeInv, SeenInv, TimerOf
  <2>3. Covers(timer.left, inner) => Covers(timer.left, Y)
    <3>1. CASE Settled(inner)
      BY <1>1, <1>2, <1>5, <1>8, <2>2, <3>1, CoversLater
    <3>2. CASE ~Settled(inner)
      <4>1. timer.left = 0
        BY <1>8, <3>2 DEF Inv, Live, Current, Ready, Overdue
      <4> QED BY <1>2, <4>1, ZeroCovers
    <3> QED BY <3>1, <3>2
  <2>4. UNCHANGED <<rebuilding, closed, lastSent, flushScheduled, tail, emit,
                    timer, rebuild, closing, hold, tray>>
    BY <1>3, <2>1 DEF SettleFrame
  <2>5. Settled(inner) => /\ Settled(inner') /\ KeyM(inner') = KeyM(inner)
                          /\ Hold(inner') = Hold(inner)
    BY <1>5, <1>8, <2>1
  <2>6. Covers(timer.left, inner) => Covers(timer.left, inner')
    BY <2>1, <2>3
  <2> QED BY <1>1, <1>3, <1>8, <2>4, <2>5, <2>6, InnerInv
<1> QED BY <1>3, <1>6, <1>7, <1>8 DEF Live

LEMMA LookInv == ASSUME Inv, Look PROVE Inv'
<1>1. TypeInv /\ Origin' /\ TypeInv'
  BY LookTyped, OriginSame DEF Inv, Look, agentVars
<1>2. /\ UNCHANGED <<rebuilding, closed, lastSent, flushScheduled, tail, emit,
                     timer, rebuild, closing, hold, tray, probes>>
      /\ inner' = Evaluate(inner) /\ ~rebuilding
  BY DEF Look
<1>3. CASE Over
  <2>1. Over' /\ EmitBy' /\ Sends'
    BY <1>2, <1>3 DEF Over, Inv, EmitBy, Sends
  <2> QED BY <1>1, <2>1, OverInv
<1>4. CASE Live
  <2>1. Ready
    BY <1>4 DEF Inv, Live, Current
  <2>2. Settled(inner) => /\ Settled(inner') /\ KeyM(inner') = KeyM(inner)
                          /\ Hold(inner') = Hold(inner)
    BY <1>2, EvaluateKeeps, SettledEvaluate DEF Settled
  <2>3. Covers(timer.left, inner) => Covers(timer.left, inner')
    BY <1>1, <1>2, <2>1, LookCovers
  <2> QED BY <1>1, <1>2, <1>4, <2>2, <2>3, InnerInv
<1> QED BY <1>2, <1>3, <1>4 DEF Live

-----------------------------------------------------------------------------
(* The tails, the flush and the timer.                                       *)

LEMMA AfterUnlockInv ==
  ASSUME Inv, NEW a \in Callers, AfterUnlock(a) PROVE Inv'
<1>1. TypeInv /\ Origin' /\ TypeInv'
  BY AfterUnlockTyped, OriginSame DEF Inv, AfterUnlock, agentVars
<1>2. /\ UNCHANGED <<inner, rebuilding, closed, lastSent, emit, probes, rebuild,
                     closing, tray>>
      /\ tail[a].on /\ flushScheduled' = (flushScheduled \/ tail[a].flush)
      /\ hold' = (IF tail[a].send THEN tail[a].hold ELSE hold)
      /\ IF tail[a].ping THEN Notify ELSE timer' = timer
  BY DEF AfterUnlock
<1>3. /\ ~tail'[a].on /\ \A b \in Callers : b # a => tail'[b] = tail[b]
  BY <1>1 DEF AfterUnlock, NoTail, TypeInv, SeenInv
<1>4. /\ timer'.pc = timer.pc \/ (timer.pc = "none" /\ timer'.pc = "arm")
      /\ timer.ping => timer'.ping
      /\ tail[a].ping => timer'.ping
      /\ timer'.left = timer.left
  BY <1>1, <1>2 DEF Notify, TypeInv, SeenInv, TimerOf
<1>5. EmitBy' /\ Sends'
  BY <1>2, <1>3, <1>4 DEF Inv, EmitBy, Sends
<1>6. CASE Over
  <2>1. Over'
    BY <1>2, <1>6 DEF Over
  <2> QED BY <1>1, <1>5, <2>1, OverInv
<1>7. CASE ~Over
  <2>1. ~Idle /\ Tailed
    BY <1>2 DEF Idle, Tailed
  <2>2. Live /\ Phase /\ Shows /\ Current /\ Sends
    BY <1>7, <2>1 DEF Inv, Phase, Live
  <2>3. ~Over' /\ ~rebuilding' /\ Phase' /\ Shows'
    BY <1>2, <1>3, <1>4, <2>2 DEF Over, Live, Phase, Shows, Idle
  <2>4. Settled(inner)
    BY <2>1, <2>2 DEF Current, Ready
  <2>5. Ready'
    BY <1>2, <2>4 DEF Ready
  <2>6. Awake'
    <3>1. CASE tail[a].ping
      BY <1>4, <3>1 DEF Awake
    <3>2. CASE ~tail[a].ping
      BY <1>2, <1>3, <2>2, <3>2 DEF Awake, Current
    <3> QED BY <3>1, <3>2
  <2>7. ASSUME ~FlushDue' PROVE Agreed'
    <3>1. ~FlushDue
      BY <1>2, <1>3, <2>7 DEF FlushDue
    <3>2. Agreed
      BY <2>2, <3>1 DEF Current
    <3>3. KeyM(inner) = Shown(lastSent) /\ tail[a].hold = Hold(inner)
          /\ tail[a].send
      BY <1>2, <2>1, <2>2, <3>2 DEF Agreed, Sends
    <3>4. hold' = Hold(inner)
      BY <1>2, <3>3
    <3>5. \A b \in Callers : tail'[b].on => tail[b].on /\ tail'[b] = tail[b]
      BY <1>3
    <3> QED BY <1>2, <3>2, <3>3, <3>4, <3>5 DEF Agreed
  <2> QED BY <1>1, <1>5, <2>3, <2>5, <2>6, <2>7, LiveInv DEF Current
<1> QED BY <1>6, <1>7

-----------------------------------------------------------------------------
\* A flush takes up the table as it is, and publishes it all.
LEMMA FlushInv ==
  ASSUME Inv, TypeInv', Origin', NEW by \in {"coalesce", "timer", "rebuild"},
         NEW force \in BOOLEAN, BeginFlush(by, force),
         by = "timer" => timer'.pc = "flush",
         timer' = timer \/ timer'.pc = "flush",
         Over \/ (Live /\ Phase'), FlushDue => FlushDue' \/ Idle
  PROVE  Inv'
<1> DEFINE V == Evaluate(inner)
           out == ~closed /\ ~rebuilding /\ (force \/ Key(V) # lastSent)
           w == [by |-> by, hold |-> HoldOn(V, rebuilding, closed),
                 out |-> out, rows |-> IF out THEN Key(V) ELSE Key(EmptyTable)]
<1>1. /\ inner' = V /\ emit' = w /\ emit = NoEmit
      /\ lastSent' = (IF out THEN Key(V) ELSE lastSent)
      /\ UNCHANGED <<rebuilding, closed, tail, probes, closing, hold, tray>>
  BY DEF BeginFlush
<1>2. /\ w.by = by /\ w.hold = HoldOn(V, rebuilding, closed) /\ w.out = out
      /\ w.rows = IF out THEN Key(V) ELSE Key(EmptyTable)
  OBVIOUS
<1>3. TypeInv /\ Settled(V)
  BY SettledEvaluate DEF Inv, TypeInv, TableInv
<1> HIDE DEF w, V
<1>4. w # NoEmit
  BY <1>2 DEF NoEmit
<1>5. EmitBy' /\ Sends'
  BY <1>1, <1>2, <1>4 DEF Inv, EmitBy, Sends
<1>6. CASE Over
  <2>1. Over'
    BY <1>1, <1>6 DEF Over
  <2> QED BY <1>5, <2>1, OverInv
<1>7. CASE Live /\ Phase'
  <2>1. Shows /\ Current /\ ~closed /\ ~rebuilding
    BY <1>7 DEF Inv, Live, Over
  <2>2. lastSent' = Key(V)
    BY <1>1, <2>1
  <2>3. emit'.hold = Hold(V)
    BY <1>1, <1>2, <2>1 DEF HoldOn
  <2>4. Shows'
    <3>1. tray = lastSent
      BY <1>1, <2>1 DEF Shows, NoEmit
    <3> QED BY <1>1, <1>2, <2>2, <3>1 DEF Shows
  <2>5. ~Over' /\ ~rebuilding' /\ Ready'
    BY <1>1, <1>3, <1>7 DEF Over, Live, Ready
  <2>6. Awake'
    <3>1. CASE timer'.pc = "flush"
      BY <3>1 DEF Awake
    <3>2. CASE timer' = timer
      <4>1. CASE Covers(timer.left, inner)
        <5>1. Covers(timer.left, V)
          BY <1>3, <2>1, <4>1, LookCovers DEF Current, V
        <5> QED BY <1>1, <3>2, <5>1 DEF Awake
      <4>2. CASE ~Covers(timer.left, inner)
        BY <1>1, <2>1, <3>2, <4>2 DEF Awake, Current
      <4> QED BY <4>1, <4>2
    <3> QED BY <3>1, <3>2
  <2>7. ASSUME ~FlushDue' PROVE Agreed'
    <3>1. KeyM(inner') = Shown(lastSent')
      BY <1>1, <2>2 DEF KeyM
    <3>2. ASSUME NEW b \in Callers, tail[b].on
          PROVE  tail[b].hold = Hold(V)
      <4>1. ~Idle
        BY <3>2 DEF Idle
      <4>2. ~FlushDue
        BY <2>7, <4>1
      <4>3. tail[b].hold = Hold(inner)
        BY <2>1, <3>2, <4>2 DEF Current, Agreed
      <4>4. Settled(inner)
        BY <2>1, <4>1 DEF Current, Ready
      <4> QED BY <4>3, <4>4, EvaluateKeeps DEF V
    <3>3. Tailed'
      BY <1>1, <1>4 DEF Tailed
    <3>4. \A b \in Callers : tail'[b].on => tail'[b].hold = Hold(inner')
      BY <1>1, <3>2
    <3>5. emit'.hold = Hold(inner')
      BY <1>1, <2>3
    <3> QED BY <3>1, <3>3, <3>4, <3>5 DEF Agreed
  <2> QED BY <1>5, <1>7, <2>4, <2>5, <2>6, <2>7, LiveInv DEF Current
<1> QED BY <1>6, <1>7

LEMMA CoalescedInv == ASSUME Inv, Prompt, CoalescedFlush PROVE Inv'
<1>1. TypeInv /\ Origin' /\ TypeInv'
  BY CoalescedTyped, OriginSame DEF Inv, CoalescedFlush, BeginFlush, agentVars
<1>2. /\ BeginFlush("coalesce", FALSE) /\ flushScheduled /\ Idle
      /\ flushScheduled' = FALSE /\ UNCHANGED <<timer, rebuild>>
      /\ UNCHANGED <<rebuilding, probes>>
  BY DEF CoalescedFlush, BeginFlush
<1>3. Over \/ (Live /\ Phase')
  <2>1. ASSUME ~Over PROVE Live /\ Phase'
    <3>1. Phase /\ ~rebuilding
      BY <1>2, <2>1 DEF Inv, Phase
    <3> QED BY <1>2, <2>1, <3>1 DEF Phase, Live
  <2> QED BY <2>1
<1> QED BY <1>1, <1>2, <1>3, FlushInv

LEMMA TimerFireInv == ASSUME Inv, TimerFire PROVE Inv'
<1>1. TypeInv /\ Origin' /\ TypeInv'
  BY TimerFireTyped, OriginSame DEF Inv, TimerFire, BeginFlush, agentVars
<1>2. /\ BeginFlush("timer", FALSE) /\ timer.pc = "sleep"
      /\ timer' = [timer EXCEPT !.pc = "flush", !.left = Never]
      /\ UNCHANGED <<flushScheduled, rebuild, tail, rebuilding, probes>>
  BY DEF TimerFire, BeginFlush
<1>3. timer'.pc = "flush"
  BY <1>1, <1>2 DEF TypeInv, SeenInv, TimerOf
<1>4. Over \/ (Live /\ Phase')
  <2>1. ASSUME ~Over PROVE Live /\ Phase'
    <3>1. Phase /\ ~rebuilding
      BY <1>2, <2>1 DEF Inv, Phase
    <3> QED BY <1>2, <1>3, <2>1, <3>1 DEF Phase, Live
  <2> QED BY <2>1
<1>5. FlushDue => FlushDue'
  BY <1>2 DEF FlushDue
<1> QED BY <1>1, <1>2, <1>3, <1>4, <1>5, FlushInv

LEMMA RebuildFlushInv == ASSUME Inv, RebuildFlush PROVE Inv'
<1>1. TypeInv /\ Origin' /\ TypeInv'
  BY RebuildFlushTyped, OriginSame DEF Inv, RebuildFlush, BeginFlush, agentVars
<1>2. /\ BeginFlush("rebuild", TRUE) /\ rebuild.pc = "flush"
      /\ rebuild' = [pc |-> "idle", rows |-> 0]
      /\ UNCHANGED <<flushScheduled, timer, tail, rebuilding, probes>>
  BY DEF RebuildFlush, BeginFlush
<1>3. Over \/ (Live /\ Phase')
  <2>1. ASSUME ~Over PROVE Live /\ Phase'
    <3>1. Phase /\ ~rebuilding
      BY <1>2, <2>1 DEF Inv, Phase
    <3> QED BY <1>2, <2>1, <3>1 DEF Phase, Live
  <2> QED BY <2>1
<1>4. FlushDue => FlushDue'
  BY <1>2 DEF FlushDue
<1> QED BY <1>1, <1>2, <1>3, <1>4, FlushInv

LEMMA EndFlushInv == ASSUME Inv, EndFlush PROVE Inv'
<1>1. TypeInv /\ Origin' /\ TypeInv'
  BY EndFlushTyped, OriginSame DEF Inv, EndFlush, agentVars
<1>2. /\ emit # NoEmit /\ hold' = emit.hold /\ emit' = NoEmit
      /\ tray' = (IF emit.out THEN emit.rows ELSE tray)
      /\ timer' = IF emit.by = "timer" THEN [timer EXCEPT !.pc = "probes"]
                  ELSE timer
      /\ UNCHANGED <<inner, rebuilding, closed, lastSent, flushScheduled, tail,
                     probes, rebuild, closing>>
  BY DEF EndFlush, innerVars
<1>3. timer' = timer \/ timer'.pc = "probes"
  BY <1>1, <1>2 DEF TypeInv, SeenInv, TimerOf
<1>4. EmitBy' /\ Sends'
  BY <1>2 DEF Inv, EmitBy, Sends, NoEmit
<1>5. CASE Over
  <2>1. Over'
    BY <1>2, <1>5 DEF Over
  <2> QED BY <1>1, <1>4, <2>1, OverInv
<1>6. CASE ~Over
  <2>1. Live /\ Phase /\ Shows /\ Current
    BY <1>2, <1>6 DEF Inv, Phase, Live
  <2>2. ~Over' /\ ~rebuilding' /\ Phase' /\ Shows'
    BY <1>2, <1>3, <2>1 DEF Over, Live, Phase, Shows, NoEmit
  <2>3. Tailed /\ Settled(inner)
    BY <1>2, <2>1 DEF Tailed, Current, Ready
  <2>4. Ready' /\ Awake'
    BY <1>2, <1>3, <2>1, <2>3 DEF Ready, Awake, Current
  <2>5. ASSUME ~FlushDue' PROVE Agreed'
    <3>1. Agreed
      BY <1>2, <2>1, <2>5 DEF Current, FlushDue
    <3>2. KeyM(inner) = Shown(lastSent) /\ hold' = Hold(inner)
      BY <1>2, <2>3, <3>1 DEF Agreed
    <3> QED BY <1>2, <3>1, <3>2 DEF Agreed
  <2> QED BY <1>1, <1>4, <2>2, <2>4, <2>5, LiveInv DEF Current
<1> QED BY <1>5, <1>6

LEMMA TimerArmInv == ASSUME Inv, TimerArm PROVE Inv'
<1>1. TypeInv /\ Origin' /\ TypeInv'
  BY TimerArmTyped, OriginSame DEF Inv, TimerArm, agentVars
<1>2. /\ timer.pc = "arm" \/ (timer.pc = "sleep" /\ timer.ping)
      /\ UNCHANGED <<inner, rebuilding, closed, lastSent, flushScheduled, tail,
                     emit, probes, rebuild, closing, hold, tray>>
      /\ timer' = IF closed THEN [timer EXCEPT !.pc = "over", !.left = Never]
                  ELSE Asleep(NextDeadline(inner),
                              timer.ping /\ timer.pc # "sleep")
  BY DEF TimerArm, innerVars
<1>3. /\ closed => timer'.pc = "over"
      /\ ~closed => timer'.pc = "sleep" /\ timer'.left = NextDeadline(inner)
  BY <1>1, <1>2 DEF Asleep, TypeInv, SeenInv, TimerOf
<1>4. CASE Over
  <2>1. Over' /\ timer'.pc # "flush"
    BY <1>2, <1>3, <1>4 DEF Over
  <2> QED BY <1>1, <1>2, <1>4, <2>1, OverStays
<1>5. CASE ~Over
  <2>1. Live /\ Phase /\ Shows /\ Current /\ EmitBy /\ Sends /\ ~closed
    BY <1>2, <1>5 DEF Inv, Phase, Live, Over
  <2>2. timer'.pc = "sleep" /\ timer'.left = NextDeadline(inner)
    BY <1>3, <2>1
  <2>3. EmitBy' /\ Sends' /\ ~Over' /\ ~rebuilding' /\ Phase' /\ Shows'
    BY <1>2, <2>1, <2>2 DEF EmitBy, Sends, Over, Live, Phase, Shows
  <2>4. ~Overdue /\ Settled(inner)
    BY <1>2, <2>1 DEF Overdue, Current, Ready
  <2>5. Ready'
    BY <1>2, <2>4 DEF Ready
  <2>6. Covers(timer'.left, inner')
    BY <1>1, <1>2, <2>2, NextCovers DEF TypeInv, TableInv
  <2>7. ASSUME ~FlushDue' PROVE Agreed'
    <3>1. Agreed
      BY <1>2, <2>1, <2>7 DEF Current, FlushDue
    <3> QED BY <1>2, <2>4, <3>1 DEF Agreed, Tailed, Idle
  <2> QED BY <1>1, <2>3, <2>5, <2>6, <2>7, LiveInv DEF Current, Awake
<1> QED BY <1>4, <1>5

LEMMA SpawnInv == ASSUME Inv, SpawnDueProbes PROVE Inv'
<1>1. TypeInv /\ Origin' /\ TypeInv'
  BY SpawnTyped, OriginSame DEF Inv, SpawnDueProbes, agentVars
<1>2. /\ timer.pc = "probes" /\ timer' = [timer EXCEPT !.pc = "arm"]
      /\ UNCHANGED <<rebuilding, closed, lastSent, flushScheduled, tail,
                     emit, rebuild, closing, hold, tray>>
  BY DEF SpawnDueProbes
<1>3. timer'.pc = "arm"
  BY <1>1, <1>2 DEF TypeInv, SeenInv, TimerOf
<1>4. Settled(inner) => /\ Settled(inner') /\ KeyM(inner') = KeyM(inner)
                        /\ Hold(inner') = Hold(inner)
  <2> DEFINE due == IF closed \/ rebuilding THEN {}
                    ELSE {t \in Commands : /\ Running(inner.tasks[t])
                                           /\ ~inner.tasks[t].probing
                                           /\ inner.tasks[t].probe = 0}
  <2>1. inner' = [inner EXCEPT !.tasks =
                    [t \in Tasks |-> IF t \in due
                                     THEN [inner.tasks[t] EXCEPT !.probing = TRUE]
                                     ELSE inner.tasks[t]]]
    BY <1>1 DEF SpawnDueProbes, TypeInv, TableInv, GoodTable
  <2> HIDE DEF due
  <2> QED BY <1>1, <2>1, ProbingGood DEF TypeInv, TableInv
<1>5. CASE Over
  <2>1. Over' /\ timer'.pc # "flush"
    BY <1>2, <1>3, <1>5 DEF Over
  <2> QED BY <1>1, <1>2, <1>5, <2>1, OverStays
<1>6. CASE ~Over
  <2>1. Live /\ Phase /\ Shows /\ Current /\ EmitBy /\ Sends
    BY <1>2, <1>6 DEF Inv, Phase, Live, Over
  <2>2. EmitBy' /\ Sends' /\ ~Over' /\ ~rebuilding' /\ Phase' /\ Shows'
    BY <1>2, <1>3, <2>1 DEF EmitBy, Sends, Over, Live, Phase, Shows
  <2>3. ~Overdue /\ Settled(inner)
    BY <1>2, <2>1 DEF Overdue, Current, Ready
  <2>4. /\ Settled(inner') /\ KeyM(inner') = KeyM(inner)
        /\ Hold(inner') = Hold(inner)
    BY <1>4, <2>3
  <2>5. Ready' /\ Awake'
    BY <1>3, <2>4 DEF Ready, Awake
  <2>6. ASSUME ~FlushDue' PROVE Agreed'
    <3>1. Agreed
      BY <1>2, <2>1, <2>6 DEF Current, FlushDue
    <3> QED BY <1>2, <2>3, <2>4, <3>1 DEF Agreed, Tailed, Idle
  <2> QED BY <1>1, <2>2, <2>5, <2>6, LiveInv DEF Current
<1> QED BY <1>5, <1>6

LEMMA ReadHoldInv == ASSUME Inv, ReadHold PROVE Inv'
<1> DEFINE V == Evaluate(inner)
           w == [on |-> TRUE, send |-> TRUE, hold |-> Hold(V), ping |-> FALSE,
                 flush |-> Key(V) # lastSent]
<1>1. TypeInv /\ Origin' /\ TypeInv'
  BY ReadHoldTyped, OriginSame DEF Inv, ReadHold, agentVars
<1>2. /\ inner' = V /\ tail' = [tail EXCEPT !["read"] = w] /\ ~tail["read"].on
      /\ ~closed /\ ~rebuilding
      /\ UNCHANGED <<rebuilding, closed, lastSent, flushScheduled, emit, timer,
                     probes, rebuild, closing, hold, tray>>
  BY DEF ReadHold
<1>3. Settled(V) /\ inner \in GoodTable
  BY <1>1, SettledEvaluate DEF TypeInv, TableInv
<1>4. /\ tail'["read"].on /\ tail'["read"].send /\ tail'["read"].hold = Hold(V)
      /\ ~tail'["read"].ping /\ tail'["read"].flush = (Key(V) # lastSent)
      /\ \A b \in Callers : b # "read" => tail'[b] = tail[b]
  BY <1>1, <1>2, CallersAre DEF TypeInv, SeenInv
<1> HIDE DEF V, w
<1>5. EmitBy' /\ Sends'
  BY <1>2, <1>4 DEF Inv, EmitBy, Sends
<1>6. CASE Over
  <2>1. Over'
    BY <1>2, <1>6 DEF Over
  <2> QED BY <1>1, <1>5, <2>1, OverInv
<1>7. CASE ~Over
  <2>1. Live /\ Phase /\ Shows /\ Current
    BY <1>2, <1>7 DEF Inv, Live
  <2>2. ~Over' /\ ~rebuilding' /\ Phase' /\ Shows'
    BY <1>2, <2>1 DEF Over, Live, Phase, Shows
  <2>3. Ready'
    BY <1>2, <1>3 DEF Ready
  <2>4. Awake'
    <3>1. CASE Covers(timer.left, inner)
      <4>1. Covers(timer.left, V)
        BY <1>1, <2>1, <3>1, LookCovers DEF Current, V
      <4> QED BY <1>2, <4>1 DEF Awake
    <3>2. CASE ~Covers(timer.left, inner)
      BY <1>2, <1>4, <2>1, <3>2 DEF Awake, Current
    <3> QED BY <3>1, <3>2
  <2>5. ASSUME ~FlushDue' PROVE Agreed'
    <3>1. ~FlushDue /\ Key(V) = lastSent
      BY <1>2, <1>4, <2>5, CallersAre DEF FlushDue
    <3>2. Agreed /\ KeyM(V) = Shown(lastSent)
      BY <2>1, <3>1 DEF Current, KeyM
    <3>3. Tailed => Hold(V) = Hold(inner)
      BY <2>1, EvaluateKeeps DEF Current, Ready, Tailed, V
    <3>4. ASSUME NEW b \in Callers, tail'[b].on
          PROVE  tail'[b].hold = Hold(V)
      <4>1. CASE b = "read"
        BY <1>4, <4>1
      <4>2. CASE b # "read"
        <5>1. tail[b].on /\ tail'[b] = tail[b]
          BY <1>4, <3>4, <4>2
        <5>2. Tailed
          BY <5>1 DEF Tailed, Idle
        <5> QED BY <3>2, <3>3, <5>1, <5>2 DEF Agreed
      <4> QED BY <4>1, <4>2
    <3>5. emit # NoEmit => emit.hold = Hold(V)
      BY <3>2, <3>3 DEF Agreed, Tailed
    <3>6. Tailed'
      BY <1>4, CallersAre DEF Tailed, Idle
    <3>7. \A b \in Callers : tail'[b].on => tail'[b].hold = Hold(inner')
      BY <1>2, <3>4
    <3>8. /\ KeyM(inner') = Shown(lastSent')
          /\ emit' # NoEmit => emit'.hold = Hold(inner')
      BY <1>2, <3>2, <3>5
    <3> QED BY <3>6, <3>7, <3>8 DEF Agreed
  <2> QED BY <1>1, <1>5, <2>2, <2>3, <2>4, <2>5, LiveInv DEF Current
<1> QED BY <1>6, <1>7

-----------------------------------------------------------------------------
LEMMA RebuildReadInv == ASSUME Inv, RebuildRead PROVE Inv'
<1>1. TypeInv /\ Origin' /\ TypeInv'
  BY RebuildReadTyped, OriginSame DEF Inv, RebuildRead, agentVars
<1>2. /\ rebuild.pc = "reading" /\ rebuild'.pc = "read"
      /\ UNCHANGED <<inner, rebuilding, closed, lastSent, flushScheduled, tail,
                     emit, timer, probes, closing, hold, tray>>
  BY DEF RebuildRead, innerVars
<1>3. CASE Over
  <2>1. Over'
    BY <1>2, <1>3 DEF Over
  <2> QED BY <1>1, <1>2, <1>3, <2>1, OverStays
<1>4. CASE ~Over
  <2>1. Phase /\ Shows /\ EmitBy /\ Sends /\ rebuilding
    BY <1>2, <1>4 DEF Inv, Phase
  <2>2. EmitBy' /\ Sends' /\ ~Over' /\ rebuilding' /\ Phase' /\ Shows'
    BY <1>2, <1>4, <2>1 DEF EmitBy, Sends, Over, Phase, Shows, Idle
  <2> QED BY <1>1, <2>2 DEF Inv
<1> QED BY <1>3, <1>4

LEMMA RebuildApplyInv == ASSUME Inv, RebuildApply PROVE Inv'
<1>1. TypeInv /\ Origin' /\ TypeInv'
  BY RebuildApplyTyped, OriginSame DEF Inv, RebuildApply, agentVars
<1>2. /\ rebuild.pc = "read"
      /\ UNCHANGED <<closed, lastSent, flushScheduled, tail, emit, probes,
                     closing, hold, tray>>
  BY DEF RebuildApply
<1>3. /\ timer' = timer \/ Notify
      /\ timer'.pc = timer.pc \/ (timer.pc = "none" /\ timer'.pc = "arm")
  BY <1>1 DEF RebuildApply, Notify, TypeInv, SeenInv, TimerOf
<1>4. CASE Over
  <2>1. Over' /\ (timer'.pc = timer.pc \/ timer.pc # "flush")
    BY <1>2, <1>3, <1>4 DEF Over
  <2> QED BY <1>1, <1>2, <1>4, <2>1, OverStays
<1>5. CASE ~Over
  <2>1. Phase /\ Shows /\ EmitBy /\ Sends /\ rebuilding /\ ~closed
    BY <1>2, <1>5 DEF Inv, Phase, Over
  <2>2. /\ rebuilding' = FALSE /\ Notify
        /\ rebuild' = [pc |-> "flush", rows |-> 0]
    BY <2>1 DEF RebuildApply
  <2>3. timer.pc = "none" /\ Idle /\ emit = NoEmit
    BY <2>1 DEF Phase
  <2>4. timer'.pc = "arm"
    BY <1>1, <2>1, <2>2, <2>3 DEF Notify, TypeInv, SeenInv, TimerOf
  <2>5. PICK X \in GoodTable : inner' = Evaluate(X)
    BY <1>1, <2>1, RebuildDone
  <2>6. EmitBy' /\ Sends' /\ ~Over' /\ ~rebuilding' /\ Phase' /\ Shows'
    BY <1>2, <1>5, <2>1, <2>2, <2>3, <2>4 DEF EmitBy, Sends, Over, Phase, Shows
  <2>7. Ready' /\ Awake'
    BY <2>4, <2>5, SettledEvaluate DEF Ready, Awake
  <2>8. Agreed'
    BY <1>2, <2>2, <2>3 DEF Agreed, Tailed, Idle
  <2> QED BY <1>1, <2>6, <2>7, <2>8, LiveInv DEF Current
<1> QED BY <1>4, <1>5

LEMMA ShutdownInv == ASSUME Inv, Shutdown \/ ShutdownClose PROVE Inv'
<1>1. TypeInv /\ Origin' /\ TypeInv'
  BY ShutdownTyped, OriginSame DEF Inv, Shutdown, ShutdownClose, agentVars
<1>2. /\ UNCHANGED <<emit, tail>> /\ Over' /\ timer'.pc = timer.pc
  BY <1>1 DEF Shutdown, ShutdownClose, Over, TypeInv, SeenInv, TimerOf
<1>3. EmitBy' /\ Sends'
  BY <1>2 DEF Inv, EmitBy, Sends
<1> QED BY <1>1, <1>2, <1>3, OverInv

LEMMA OpenInv == ASSUME Inv, Open PROVE Inv'
<1>1. TypeInv'
  BY OpenTyped DEF Inv
<1>2. Origin' /\ EmitBy' /\ Sends'
  BY DEF Open, Inv, Origin, EmitBy, Sends, NoEmit, NoTail
<1>3. Phase' /\ Shows' /\ rebuilding'
  BY DEF Open, Phase, Shows, NoEmit, NoTail, Idle
<1> QED BY <1>1, <1>2, <1>3 DEF Inv

LEMMA TickInv == ASSUME Inv, Prompt, Tick PROVE Inv'
<1>1. TypeInv /\ TypeInv' /\ ~Busy /\ ~closed
  BY TickTyped DEF Inv, Tick
<1>2. /\ Idle /\ emit = NoEmit /\ ~closing /\ timer.left # 0
      /\ timer.pc \notin {"arm", "flush", "probes"}
      /\ ~(timer.ping /\ timer.pc = "sleep") /\ rebuild.pc # "flush"
      /\ \A a \in Sinks : at[a] = 0
  BY <1>1 DEF Busy
<1>3. /\ UNCHANGED <<rebuilding, closed, lastSent, flushScheduled, tail, emit,
                     probes, rebuild, closing, hold, tray, at>>
      /\ inner' = Aged(inner)
      /\ timer' = [timer EXCEPT !.left = IF @ > 0 THEN @ - 1 ELSE @]
  BY DEF Tick
<1>4. /\ timer'.pc = timer.pc /\ timer'.ping = timer.ping
      /\ timer'.left = (IF timer.left > 0 THEN timer.left - 1 ELSE timer.left)
      /\ timer.left \in Nat \cup {Never}
      /\ timer.pc \in {"none", "arm", "sleep", "flush", "probes", "over"}
  BY <1>1, <1>3 DEF TypeInv, SeenInv, TimerOf
<1>5. Origin'
  BY <1>2, <1>3 DEF Origin
<1>6. ~Over /\ ~Over' /\ Phase /\ Shows /\ EmitBy /\ Sends
  BY <1>1, <1>2, <1>3 DEF Over, Inv
<1>7. EmitBy' /\ Sends' /\ Phase' /\ Shows'
  BY <1>2, <1>3, <1>4, <1>6 DEF EmitBy, Sends, Phase, Shows, Idle
<1>8. CASE rebuilding
  BY <1>1, <1>3, <1>5, <1>6, <1>7, <1>8 DEF Inv
<1>9. CASE ~rebuilding
  <2>1. Current /\ timer.pc = "sleep" /\ ~timer.ping
    BY <1>2, <1>4, <1>6, <1>9 DEF Inv, Phase
  <2>2. ~Overdue /\ Settled(inner) /\ Covers(timer.left, inner)
    BY <1>2, <2>1 DEF Overdue, Current, Ready, Awake, Idle
  <2>3. inner \in GoodTable /\ Aged(inner) \in GoodTable
    BY <1>1, AgedTable DEF TypeInv, TableInv
  <2>4. Covers(timer'.left, inner')
    BY <1>3, <1>4, <2>2, <2>3, CoversTick, TickLater
  <2>5. Idle' /\ emit' = NoEmit /\ ~Tailed' /\ \A a \in Callers : ~tail'[a].on
    BY <1>2, <1>3 DEF Idle, Tailed
  <2>6. CASE timer.left = 1
    <3>1. Overdue'
      BY <1>4, <2>1, <2>6 DEF Overdue
    <3>2. Ready' /\ Agreed' /\ Awake'
      BY <2>4, <2>5, <3>1 DEF Ready, Agreed, Awake
    <3> QED BY <1>1, <1>3, <1>5, <1>6, <1>7, <1>9, <3>2, LiveInv DEF Current
  <2>7. CASE timer.left # 1
    <3>1. /\ Settled(inner') /\ KeyM(inner') = KeyM(inner)
          /\ Hold(inner') = Hold(inner)
      BY <1>2, <1>3, <1>4, <2>2, <2>7, TickKeeps
    <3>2. Ready' /\ Awake'
      BY <2>4, <3>1 DEF Ready, Awake
    <3>3. ASSUME ~FlushDue' PROVE Agreed'
      <4>1. Agreed
        BY <1>3, <2>1, <3>3 DEF Current, FlushDue
      <4>2. KeyM(inner) = Shown(lastSent) /\ hold = Hold(inner)
        BY <1>2, <2>2, <4>1 DEF Agreed, Tailed
      <4> QED BY <1>3, <2>5, <3>1, <4>2 DEF Agreed
    <3> QED BY <1>1, <1>5, <1>6, <1>7, <3>2, <3>3, LiveInv DEF Current
  <2> QED BY <2>6, <2>7
<1> QED BY <1>8, <1>9

-----------------------------------------------------------------------------
LEMMA InvNext ==
  ASSUME Inv, [Next]_vars, Prompt, "touch" \notin Ops PROVE Inv'
<1>1. CASE Agent
  BY <1>1, PersistRowInv, PersistSignalInv, ChatterInv, TurnEndedInv, ConnectInv,
     AdapterInv DEF Agent
<1>2. CASE Registry
  BY <1>2, ObserveInv, AfterUnlockInv, AdapterInv, GoneInv, CoalescedInv,
     EndFlushInv, TimerArmInv, TimerFireInv, SpawnInv, ProbeInv, RebuildReadInv,
     RebuildApplyInv, RebuildFlushInv, ShutdownInv DEF Registry
<1>3. CASE Others
  <2>1. ~ \E t \in Commands : OutputTouched(t)
    BY DEF OutputTouched
  <2> QED BY <1>3, <2>1, ReadHoldInv, LookInv, ShutdownInv, OpenInv DEF Others
<1>4. CASE Tick
  BY <1>4, TickInv
<1>5. CASE UNCHANGED vars
  <2>1. RegSame /\ TypeInv'
    BY <1>5, TypeNext DEF RegSame, vars, innerVars, Inv
  <2>2. Origin'
    BY <1>5, OriginSame DEF vars, agentVars, Inv
  <2> QED BY <2>1, <2>2, RegSameInv
<1> QED BY <1>1, <1>2, <1>3, <1>4, <1>5 DEF Next

\* Where nothing is under way, nothing is left to publish.
LEMMA QuietCurrent == ASSUME Inv, Quiet
  PROVE  /\ hold = Hold(Evaluate(inner))
         /\ Shown(tray) = KeyM(Evaluate(inner))
<1>1. /\ Idle /\ emit = NoEmit /\ ~closing /\ timer.left # 0
      /\ timer.pc \notin {"arm", "flush", "probes"}
      /\ rebuild.pc # "flush" /\ ~flushScheduled /\ ~rebuilding /\ ~closed
  BY DEF Quiet, Busy
<1>2. Live /\ Shows /\ Current
  BY <1>1 DEF Live, Over, Inv
<1>3. ~Overdue /\ ~Tailed /\ ~FlushDue
  BY <1>1 DEF Overdue, Tailed, FlushDue, Idle
<1>4. Settled(inner) /\ Agreed
  BY <1>2, <1>3 DEF Current, Ready
<1>5. KeyM(inner) = Shown(lastSent) /\ hold = Hold(inner)
  BY <1>1, <1>3, <1>4 DEF Agreed
<1>6. tray = lastSent
  BY <1>1, <1>2 DEF Shows, NoEmit
<1> QED BY <1>4, <1>5, <1>6, EvaluateKeeps

\* The hold the registry has published is the one a fresh look at the table would
\* give whenever nothing is under way, in every interleaving of the callers, the
\* flush, the timer, the probes, the rebuild and the shutdown (settle, flush,
\* ensure_timer).  Prompt: the runtime runs what it was given before time goes on.
\* output_touched is left out: it arms a hold again and wakes no timer.
THEOREM HoldStaysCurrent ==
  ASSUME Prompt = TRUE, "touch" \notin Ops
  PROVE  Spec => []HoldCurrent
<1>1. Init => Inv
  BY InvInit
<1>2. Inv /\ [Next]_vars => Inv'
  BY InvNext
<1>3. Inv => HoldCurrent
  BY QuietCurrent DEF HoldCurrent
<1> QED BY <1>1, <1>2, <1>3, PTL DEF Spec

\* Under the same hypotheses the clients show the rows as they are, up to the
\* reason of a lapse: no change of a row, by an event or by time, is left without
\* a flush (changed_since_sent, request_flush).
THEOREM TrayStaysCurrent ==
  ASSUME Prompt = TRUE, "touch" \notin Ops
  PROVE  Spec => []TrayCurrent
<1>1. Init => Inv
  BY InvInit
<1>2. Inv /\ [Next]_vars => Inv'
  BY InvNext
<1>3. Inv => TrayCurrent
  BY QuietCurrent DEF TrayCurrent, KeyM
<1> QED BY <1>1, <1>2, <1>3, PTL DEF Spec
=============================================================================
