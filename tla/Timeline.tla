------------------------------ MODULE Timeline ------------------------------
(***************************************************************************)
(* What a configuration key promises: at every instant one value applies,  *)
(* a numbered version or the code default, and a write replaces everything *)
(* from one instant on, by a version never used before or by the default.  *)
(* What applied before that instant is untouched.  ConfigHistory is shown  *)
(* to implement it.                                                        *)
(***************************************************************************)
EXTENDS Naturals

CONSTANTS Instant,   \* the instants, a set of naturals
          Version    \* the version numbers

Default == 0

VARIABLES applies,   \* Instant -> the version in force, or Default
          used       \* versions ever written

Init ==
  /\ applies = [u \in Instant |-> Default]
  /\ used = {}

From(t, v) == applies' = [u \in Instant |-> IF u >= t THEN v ELSE applies[u]]

Write(t, v) ==
  /\ v \notin used
  /\ From(t, v)
  /\ used' = used \cup {v}

Reset(t) ==
  /\ From(t, Default)
  /\ UNCHANGED used

Next == \E t \in Instant : Reset(t) \/ \E v \in Version : Write(t, v)

Spec == Init /\ [][Next]_<<applies, used>>
=============================================================================
