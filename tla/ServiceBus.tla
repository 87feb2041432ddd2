----------------------------- MODULE ServiceBus ------------------------------
(***************************************************************************)
(* The `effects` queue as the worker and its schedulers use it: an Azure   *)
(* Service Bus queue with peek-lock receipt, a maximum delivery count and  *)
(* duplicate detection on MessageId over a finite window                   *)
(* (terraform/modules/service-bus, docker/servicebus/Config.json).         *)
(*                                                                         *)
(* The broker is external: these operators give what each call may do to   *)
(* the queue.  A queue maps each slot <<message id, copy>> to what is in   *)
(* it.  MaxCopies bounds the copies of one id that exist at a time, which  *)
(* only a send after the window has closed can make more than one.         *)
(***************************************************************************)
EXTENDS Integers

CONSTANTS Message,        \* MessageIds
          Worker,         \* receivers
          NoWorker,
          MaxDeliveries,  \* max_delivery_count
          MaxCopies       \* copies of one MessageId held at a time

ASSUME DeliveriesAssumption == MaxDeliveries \in Nat \ {0}
ASSUME CopiesAssumption     == MaxCopies \in Nat \ {0}
ASSUME NoWorkerAssumption   == NoWorker \notin Worker

Slot == Message \X (1 .. MaxCopies)

SlotState == [state : {"free", "ready", "locked", "dead"},
              tries : 0 .. MaxDeliveries,
              holder : Worker \cup {NoWorker}]

EmptySlot == [state |-> "free", tries |-> 0, holder |-> NoWorker]
NewCopy   == [state |-> "ready", tries |-> 0, holder |-> NoWorker]

EmptyQueue == [s \in Slot |-> EmptySlot]

Room(q, m) == { k \in 1 .. MaxCopies : q[<<m, k>>].state = "free" }

\* The broker still has the message: waiting, being handled or dead-lettered.
Held(q, m) == \E k \in 1 .. MaxCopies : q[<<m, k>>].state # "free"

\* A batch is accepted whole; ids in the duplicate-detection window are dropped.
Sent(q, ms) ==
  [ s \in Slot |-> IF s[1] \in ms /\ s[2] = CHOOSE k \in Room(q, s[1]) : TRUE
                     THEN NewCopy ELSE q[s] ]

Received(q, s, w) ==
  [q EXCEPT ![s] = [state |-> "locked", tries |-> q[s].tries + 1, holder |-> w]]

\* Abandoned, or its lock expired: available again, or dead-lettered once it
\* has been delivered max_delivery_count times.
Released(q, s) ==
  [q EXCEPT ![s] = [state |-> IF q[s].tries = MaxDeliveries THEN "dead" ELSE "ready",
                    tries |-> q[s].tries, holder |-> NoWorker]]

\* completeMessage by a receiver that still holds the lock; a late one fails.
Completed(q, s, w) == IF q[s].holder = w THEN [q EXCEPT ![s] = EmptySlot] ELSE q

DeadLettered(q, s, w) ==
  IF q[s].holder = w
    THEN [q EXCEPT ![s] = [state |-> "dead", tries |-> q[s].tries, holder |-> NoWorker]]
    ELSE q
=============================================================================
