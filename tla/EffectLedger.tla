---------------------------- MODULE EffectLedger -----------------------------
(***************************************************************************)
(* What routing effects through the outbox promises: the effects of a fact *)
(* happen only once the fact is committed, and each happens at most once,  *)
(* however its messages are lost, repeated or reordered.                   *)
(***************************************************************************)
EXTENDS Naturals

CONSTANTS Event, Message, EventOf

VARIABLES recorded,   \* facts committed to the journal
          times       \* Message -> how often its effect's writes were committed

Init == /\ recorded = {}
        /\ times = [m \in Message |-> 0]

Record(e) == /\ e \notin recorded
             /\ recorded' = recorded \cup {e}
             /\ UNCHANGED times

Happen(m) == /\ EventOf[m] \in recorded
             /\ times[m] = 0
             /\ times' = [times EXCEPT ![m] = 1]
             /\ UNCHANGED recorded

Next == \/ \E e \in Event : Record(e)
        \/ \E m \in Message : Happen(m)

Spec == Init /\ [][Next]_<<recorded, times>>
=============================================================================
