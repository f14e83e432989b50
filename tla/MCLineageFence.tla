--------------------------- MODULE MCLineageFence ---------------------------
(* LineageFence on a small instance.                                       *)
EXTENDS LineageFence, TLC

Symmetry == Permutations(Scheduler)
=============================================================================
