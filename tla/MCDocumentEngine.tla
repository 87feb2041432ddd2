-------------------------- MODULE MCDocumentEngine ---------------------------
(***************************************************************************)
(* DocumentEngine for TLC.                                                 *)
(***************************************************************************)
EXTENDS DocumentEngine, DocumentRules, TLC

CONSTANTS d1, d2, w1, w2, b1, b2

Symmetric == Permutations(Doc) \cup Permutations(Worker) \cup Permutations(Bytes)
=============================================================================
