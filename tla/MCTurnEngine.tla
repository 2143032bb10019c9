---------------------------- MODULE MCTurnEngine ----------------------------
(***************************************************************************)
(* Model checking of TurnEngine.  The .cfg files give the constants their   *)
(* values; this module adds the symmetry sets and the abstract              *)
(* specification the engine implements.                                     *)
(***************************************************************************)
EXTENDS TurnEngine, TLC

\* The code looks neither at who calls, nor at which task drains, nor at the
\* identity of a child or of a notice.
Symmetry ==
    UNION {Permutations(S) : S \in {Callers, Drains, Children, NoticeIds}}

\* Where TextTurns and ReviewTurns are all turns or none, turns are alike too.
FullSymmetry == Symmetry \cup Permutations(Turns)
=============================================================================
