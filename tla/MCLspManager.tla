---------------------------- MODULE MCLspManager ----------------------------
(***************************************************************************)
(* Model checking of LspManager: the symmetry of its servers and callers.   *)
(***************************************************************************)
EXTENDS LspManager, TLC

Symmetry == Permutations(Servers) \cup Permutations(Callers)
=============================================================================
