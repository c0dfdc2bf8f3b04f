----------------------------- MODULE MCConsole ------------------------------
(* Console for TLC: the processes that save a mode are alike, and the        *)
(* invariants name none of them.                                             *)
EXTENDS Console, TLC

Symmetry == Permutations(Savers)
=============================================================================
