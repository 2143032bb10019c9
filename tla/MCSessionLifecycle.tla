------------------------- MODULE MCSessionLifecycle -------------------------
(***************************************************************************)
(* Model checking of SessionLifecycle: the symmetry of its tasks.           *)
(***************************************************************************)
EXTENDS SessionLifecycle, TLC

\* Tasks of one kind are alike; the timer and the follower are one of a kind.
Symmetry == UNION {Permutations(S) : S \in {Drains, Callers, Spawned}}
=============================================================================
