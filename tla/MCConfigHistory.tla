--------------------------- MODULE MCConfigHistory ---------------------------
(* Symmetry of the writers of ConfigHistory, for TLC. *)
EXTENDS ConfigHistory, TLC

Writers == Permutations(Writer)
=============================================================================
