---------------------------- MODULE MCSessionTab ----------------------------
(* SessionTab for TLC. *)
EXTENDS SessionTab, TLC

Symmetry == Permutations(Refreshes)
=============================================================================
