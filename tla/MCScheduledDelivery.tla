------------------------ MODULE MCScheduledDelivery ------------------------
(***************************************************************************)
(* Model checking of ScheduledDelivery: the symmetry of its identifiers.    *)
(***************************************************************************)
EXTENDS ScheduledDelivery, TLC

\* Sessions of one kind are alike only while Started does not tell them apart.
Symmetry == UNION {Permutations(S) : S \in {Rows, Comments, Jobs, Callers}}
=============================================================================
