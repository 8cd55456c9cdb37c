--------------------------- MODULE MCTransferQueue ---------------------------
(* Model values and mutants of TransferQueue for TLC. *)
EXTENDS TransferQueue, TLC

JobSymmetry == Permutations(Jobs)
WorkerSymmetry == Permutations(Workers)
Symmetry == JobSymmetry \cup WorkerSymmetry

=============================================================================
