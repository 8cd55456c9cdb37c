--------------------------- MODULE MCInfoCollector ---------------------------
(* Model values of InfoCollector for TLC. *)
EXTENDS InfoCollector, TLC

Symmetry == Permutations(Sections) \cup Permutations(Workers)
=============================================================================
