---------------------------- MODULE MCOutboxRelay ----------------------------
(* The instance of OutboxRelay for TLC: one event with two effects, one of them
   under a name no handler is registered for. *)
EXTENDS OutboxRelay, TLC

CONSTANTS m1, m2

OwnIds  == [m \in Message |-> m]

BothOne == (m1 :> 1) @@ (m2 :> 1)
=============================================================================
