----------------------------- MODULE MCTeamRoster -----------------------------
(***************************************************************************)
(* TeamRoster for TLC.                                                     *)
(***************************************************************************)
EXTENDS TeamRoster, Lists, TLC

Symmetric == Permutations(Person) \cup Permutations(Caller)
=============================================================================
