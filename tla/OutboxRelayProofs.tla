------------------------- MODULE OutboxRelayProofs --------------------------
(***************************************************************************)
(* Proofs about OutboxRelay for any events, effects, relays, workers,      *)
(* batch size, delivery count and number of failures: effects happen at    *)
(* most once, the relay implements EffectLedger, and no effect of a        *)
(* published event is lost unless an event names one effect twice.         *)
(***************************************************************************)
EXTENDS OutboxRelay, TLAPS

LEMMA SlotFacts ==
  ASSUME NEW s \in Slot
  PROVE  s[1] \in Message /\ s[2] \in 1 .. MaxCopies /\ s = <<s[1], s[2]>>
BY DEF Slot

\* Every broker operation maps queues to queues.
LEMMA QueueType ==
  ASSUME NEW q \in [Slot -> SlotState], NEW s \in Slot, NEW w \in Worker \cup {NoWorker}, NEW ms
  PROVE  /\ Sent(q, ms) \in [Slot -> SlotState]
         /\ q[s].state = "ready" /\ q[s].tries # MaxDeliveries =>
              Received(q, s, w) \in [Slot -> SlotState]
         /\ Released(q, s) \in [Slot -> SlotState]
         /\ Completed(q, s, w) \in [Slot -> SlotState]
         /\ DeadLettered(q, s, w) \in [Slot -> SlotState]
<1>1. q[s] \in SlotState
  OBVIOUS
<1>2. EmptySlot \in SlotState /\ NewCopy \in SlotState
  BY DeliveriesAssumption DEF EmptySlot, NewCopy, SlotState
<1>3. Sent(q, ms) \in [Slot -> SlotState]
  BY <1>2 DEF Sent
<1>4. ASSUME q[s].tries # MaxDeliveries
      PROVE  Received(q, s, w) \in [Slot -> SlotState]
  <2> DEFINE new == [state |-> "locked", tries |-> q[s].tries + 1, holder |-> w]
  <2>1. new \in SlotState
    BY <1>1, <1>4, DeliveriesAssumption DEF SlotState
  <2> HIDE DEF new
  <2>2. QED
    BY <2>1 DEF Received, new
<1>5. Released(q, s) \in [Slot -> SlotState]
  <2> DEFINE new == [state |-> IF q[s].tries = MaxDeliveries THEN "dead" ELSE "ready",
                     tries |-> q[s].tries, holder |-> NoWorker]
  <2>1. new \in SlotState
    BY <1>1 DEF SlotState
  <2> HIDE DEF new
  <2>2. QED
    BY <2>1 DEF Released, new
<1>6. Completed(q, s, w) \in [Slot -> SlotState]
  BY <1>2 DEF Completed
<1>7. DeadLettered(q, s, w) \in [Slot -> SlotState]
  <2> DEFINE new == [state |-> "dead", tries |-> q[s].tries, holder |-> NoWorker]
  <2>1. new \in SlotState
    BY <1>1 DEF SlotState
  <2> HIDE DEF new
  <2>2. QED
    BY <2>1 DEF DeadLettered, new
<1>8. QED
  BY <1>3, <1>4, <1>5, <1>6, <1>7

\* ... and no operation makes a message available that has no deliveries left.
LEMMA QueueTries ==
  ASSUME NEW q \in [Slot -> SlotState], NEW s \in Slot, NEW w \in Worker \cup {NoWorker}, NEW ms,
         \A x \in Slot : q[x].state = "ready" => q[x].tries # MaxDeliveries,
         NEW p \in {Sent(q, ms), Received(q, s, w), Released(q, s),
                    Completed(q, s, w), DeadLettered(q, s, w)},
         NEW x \in Slot, p[x].state = "ready"
  PROVE  p[x].tries # MaxDeliveries
<1>1. CASE p = Sent(q, ms)
  BY <1>1, DeliveriesAssumption DEF Sent, NewCopy
<1>2. CASE p = Received(q, s, w)
  BY <1>2 DEF Received
<1>3. CASE p = Released(q, s)
  BY <1>3 DEF Released
<1>4. CASE p = Completed(q, s, w)
  BY <1>4 DEF Completed, EmptySlot
<1>5. CASE p = DeadLettered(q, s, w)
  BY <1>5 DEF DeadLettered
<1>6. QED
  BY <1>1, <1>2, <1>3, <1>4, <1>5

\* Whoever is past "idle" holds a message copy, and a message that was delivered
\* max_delivery_count times is not delivered again.
RefsOK ==
  /\ \A w \in Worker : at[w] # "idle" => slot[w] \in Slot
  /\ \A s \in Slot : queue[s].state = "ready" => queue[s].tries # MaxDeliveries

TInv == TypeOK /\ RefsOK

LEMMA TInvInit == Init => TInv
<1> SUFFICES ASSUME Init PROVE TInv
  OBVIOUS
<1>1. EmptySlot \in SlotState
  BY DeliveriesAssumption DEF EmptySlot, SlotState
<1>2. queue \in [Slot -> SlotState] /\ \A s \in Slot : queue[s].state = "free"
  BY <1>1 DEF Init, EmptyQueue, EmptySlot
<1>3. QED
  BY <1>2 DEF Init, TInv, TypeOK, RefsOK

\* The steps that touch the queue, seen as one.
LEMMA QueueStepTInv ==
  ASSUME TInv, NEW s \in Slot, NEW w \in Worker, NEW ms,
         queue' \in {queue, Sent(queue, ms), Released(queue, s),
                     Completed(queue, s, w), DeadLettered(queue, s, w)}
                   \cup {q \in {Received(queue, s, w)} : queue[s].state = "ready"}
  PROVE  /\ queue' \in [Slot -> SlotState]
         /\ \A x \in Slot : queue'[x].state = "ready" => queue'[x].tries # MaxDeliveries
<1>1. /\ queue \in [Slot -> SlotState]
      /\ \A x \in Slot : queue[x].state = "ready" => queue[x].tries # MaxDeliveries
  BY DEF TInv, TypeOK, RefsOK
<1>2. queue' \in [Slot -> SlotState]
  <2>1. CASE queue' = Received(queue, s, w) /\ queue[s].state = "ready"
    BY <1>1, <2>1, QueueType
  <2>2. CASE queue' \in {queue, Sent(queue, ms), Released(queue, s),
                         Completed(queue, s, w), DeadLettered(queue, s, w)}
    <3>1. /\ Sent(queue, ms) \in [Slot -> SlotState]
          /\ Released(queue, s) \in [Slot -> SlotState]
          /\ Completed(queue, s, w) \in [Slot -> SlotState]
          /\ DeadLettered(queue, s, w) \in [Slot -> SlotState]
      BY <1>1, QueueType
    <3>2. QED
      BY <1>1, <2>2, <3>1
  <2>3. QED
    BY <2>1, <2>2
<1>3. QED
  BY <1>1, <1>2, QueueTries

LEMMA TInvNext == TInv /\ [Next]_vars => TInv'
<1> SUFFICES ASSUME TInv, [Next]_vars PROVE TInv'
  OBVIOUS
<1> USE DEF relayVars, workerVars
<1>1. ASSUME NEW e \in Event, Append(e) PROVE TInv'
  BY <1>1 DEF Append, TInv, TypeOK, RefsOK
<1>2. ASSUME NEW r \in Relay, RelayStep(r) \/ RelayFails(r) PROVE TInv'
  <2>1. CASE Claim(r)
    <3>1. FirstRows(Claimable, BatchSize) \in SUBSET Event
      BY DEF FirstRows, Claimable
    <3>2. QED
      BY <2>1, <3>1 DEF Claim, TInv, TypeOK, RefsOK
  <2>2. CASE SendEffects(r)
    <3>1. PICK ms : queue' = Sent(queue, ms)
      BY <2>2 DEF SendEffects
    <3>2. /\ window' \subseteq Id
          /\ pc' = [pc EXCEPT ![r] = "publish"]
          /\ UNCHANGED <<row, batch, topic, workerVars, failures>>
      BY <2>2, IdAssumption DEF SendEffects, MessagesOf, IdsOf, TInv, TypeOK
    <3>3. queue \in [Slot -> SlotState]
      BY DEF TInv, TypeOK
    <3>4. queue' \in [Slot -> SlotState]
      BY <3>1, <3>3, DeliveriesAssumption DEF Sent, NewCopy, SlotState
    <3>5. \A x \in Slot : queue'[x].state = "ready" => queue'[x].tries # MaxDeliveries
      BY <3>1, <3>3, DeliveriesAssumption DEF Sent, NewCopy, TInv, RefsOK
    <3>6. QED
      BY <3>1, <3>2, <3>4, <3>5 DEF TInv, TypeOK, RefsOK
  <2>3. CASE Publish(r)
    BY <2>3 DEF Publish, TInv, TypeOK, RefsOK
  <2>4. CASE Stamp(r)
    BY <2>4 DEF Stamp, TInv, TypeOK, RefsOK
  <2>5. CASE RelayFails(r)
    BY <2>5 DEF RelayFails, Fail, TInv, TypeOK, RefsOK
  <2>6. QED
    BY <1>2, <2>1, <2>2, <2>3, <2>4, <2>5 DEF RelayStep
<1>3. ASSUME NEW i \in Id, WindowCloses(i) PROVE TInv'
  BY <1>3 DEF WindowCloses, TInv, TypeOK, RefsOK
<1>4. ASSUME NEW s \in Slot, LockExpires(s) PROVE TInv'
  <2>1. queue \in [Slot -> SlotState] /\ queue' = Released(queue, s)
    BY <1>4 DEF LockExpires, TInv, TypeOK
  <2>2. queue' \in [Slot -> SlotState]
    <3> DEFINE new == [state |-> IF queue[s].tries = MaxDeliveries THEN "dead" ELSE "ready",
                       tries |-> queue[s].tries, holder |-> NoWorker]
    <3>1. new \in SlotState
      BY <2>1 DEF SlotState
    <3> HIDE DEF new
    <3>2. QED
      BY <2>1, <3>1 DEF Released, new
  <2>3. \A x \in Slot : queue'[x].state = "ready" => queue'[x].tries # MaxDeliveries
    BY <2>1 DEF Released, TInv, RefsOK
  <2>4. QED
    BY <1>4, <2>2, <2>3 DEF LockExpires, TInv, TypeOK, RefsOK
<1>5. ASSUME NEW w \in Worker, WorkerStep(w) \/ HandlerFails(w) \/ WorkerCrash(w) PROVE TInv'
  <2>1. ASSUME NEW s \in Slot, Receive(w, s) PROVE TInv'
    <3>1. /\ queue' \in [Slot -> SlotState]
          /\ \A x \in Slot : queue'[x].state = "ready" => queue'[x].tries # MaxDeliveries
      BY <2>1, QueueStepTInv DEF Receive
    <3>2. QED
      BY <2>1, <3>1 DEF Receive, TInv, TypeOK, RefsOK
  <2>2. CASE RejectPoison(w) \/ Complete(w) \/ HandlerFails(w)
    <3>1. slot[w] \in Slot
      BY <2>2 DEF RejectPoison, Complete, HandlerFails, TInv, RefsOK
    <3>2. /\ queue' \in [Slot -> SlotState]
          /\ \A x \in Slot : queue'[x].state = "ready" => queue'[x].tries # MaxDeliveries
      BY <2>2, <3>1, QueueStepTInv DEF RejectPoison, Complete, HandlerFails
    <3>3. /\ at' = [at EXCEPT ![w] = "idle"] /\ slot' = [slot EXCEPT ![w] = NoSlot]
          /\ failures' \in Nat /\ UNCHANGED <<relayVars, window, ledger, times>>
      BY <2>2 DEF RejectPoison, Complete, HandlerFails, Fail, TInv, TypeOK
    <3>4. QED
      BY <3>2, <3>3 DEF TInv, TypeOK, RefsOK
  <2>3. CASE ClaimEffect(w)
    BY <2>3 DEF ClaimEffect, TInv, TypeOK, RefsOK
  <2>4. CASE CommitEffect(w)
    <3>1. slot[w][1] \in Message /\ IdOf[slot[w][1]] \in Id
      BY <2>4, SlotFacts, IdAssumption DEF CommitEffect, TInv, RefsOK
    <3>2. QED
      BY <2>4, <3>1 DEF CommitEffect, TInv, TypeOK, RefsOK
  <2>5. CASE WorkerCrash(w)
    BY <2>5 DEF WorkerCrash, Fail, TInv, TypeOK, RefsOK
  <2>6. QED
    BY <1>5, <2>1, <2>2, <2>3, <2>4, <2>5 DEF WorkerStep
<1>6. CASE UNCHANGED vars
  BY <1>6 DEF vars, TInv, TypeOK, RefsOK
<1>7. QED
  BY <1>1, <1>2, <1>3, <1>4, <1>5, <1>6 DEF Next

LEMMA TInvInvariant == Spec => []TInv
  BY TInvInit, TInvNext, PTL DEF Spec

\* Every reachable state of the outbox and its consumers is well typed.
THEOREM TypeCorrect == Spec => []TypeOK
<1>1. TInv => TypeOK
  BY DEF TInv
<1>2. QED
  BY <1>1, TInvInvariant, PTL
-----------------------------------------------------------------------------
(***************************************************************************)
(* The ledger invariant: an effect whose writes are committed has its key  *)
(* in the ledger, an open handler transaction has inserted a key that is   *)
(* in nobody else's, and a finished handler's key is in the ledger.        *)
(***************************************************************************)
Key(w) == IdOf[slot[w][1]]

LedgerOK == \A m \in Message : times[m] = 0 \/ (times[m] = 1 /\ IdOf[m] \in ledger)

ActingOK ==
  /\ \A w \in Worker : at[w] = "acting" => Key(w) \notin ledger
  /\ \A v, w \in Worker :
       (at[v] = "acting" /\ at[w] = "acting" /\ Key(v) = Key(w)) => v = w
  /\ \A w \in Worker : at[w] = "done" => Key(w) \in ledger

EffectInv == LedgerOK /\ ActingOK

LEMMA EffectInit == Init => EffectInv
BY DEF Init, EffectInv, LedgerOK, ActingOK

LEMMA EffectNext == TInv /\ EffectInv /\ [Next]_vars => EffectInv'
<1> SUFFICES ASSUME TInv, EffectInv, [Next]_vars PROVE EffectInv'
  OBVIOUS
<1> USE DEF relayVars, workerVars
<1>1. /\ at \in [Worker -> {"idle", "received", "acting", "done"}]
      /\ slot \in [Worker -> Slot \cup {NoSlot}] /\ times \in [Message -> Nat]
      /\ \A v \in Worker : at[v] # "idle" => slot[v] \in Slot
  BY DEF TInv, TypeOK, RefsOK
<1>2. CASE \/ \E e \in Event : Append(e)
           \/ \E r \in Relay : RelayStep(r) \/ RelayFails(r)
           \/ \E i \in Id : WindowCloses(i)
           \/ \E s \in Slot : LockExpires(s)
           \/ UNCHANGED vars
  <2>1. UNCHANGED workerVars
    BY <1>2 DEF Append, RelayStep, Claim, SendEffects, Publish, Stamp, RelayFails,
                WindowCloses, LockExpires, vars
  <2>2. QED
    BY <2>1 DEF EffectInv, LedgerOK, ActingOK, Key
<1>3. ASSUME NEW w \in Worker,
             \/ \E s \in Slot : Receive(w, s)
             \/ RejectPoison(w) \/ Complete(w) \/ HandlerFails(w) \/ WorkerCrash(w)
      PROVE  EffectInv'
  <2>1. PICK a \in {"received", "idle"}, s \in Slot \cup {NoSlot} :
          at' = [at EXCEPT ![w] = a] /\ slot' = [slot EXCEPT ![w] = s]
          /\ UNCHANGED <<ledger, times>>
    BY <1>3 DEF Receive, RejectPoison, Complete, HandlerFails, WorkerCrash
  <2>2. QED
    BY <1>1, <2>1 DEF EffectInv, LedgerOK, ActingOK, Key
<1>4. ASSUME NEW w \in Worker, ClaimEffect(w) PROVE EffectInv'
  BY <1>1, <1>4 DEF ClaimEffect, Unclaimed, EffectInv, LedgerOK, ActingOK, Key
<1>5. ASSUME NEW w \in Worker, CommitEffect(w) PROVE EffectInv'
  <2>1. PICK m \in Message : m = slot[w][1]
    BY <1>1, <1>5, SlotFacts DEF CommitEffect
  <2>2. times[m] = 0 /\ IdOf[m] \notin ledger
    BY <1>5, <2>1 DEF CommitEffect, EffectInv, ActingOK, LedgerOK, Key
  <2>3. /\ ledger' = ledger \cup {IdOf[m]} /\ times' = [times EXCEPT ![m] = @ + 1]
        /\ at' = [at EXCEPT ![w] = "done"] /\ slot' = slot
    BY <1>5, <2>1 DEF CommitEffect
  <2>4. ASSUME NEW v \in Worker, v # w, at[v] = "acting" PROVE Key(v) # IdOf[m]
    BY <1>5, <2>1, <2>4 DEF CommitEffect, EffectInv, ActingOK, Key
  <2>5. \A v \in Worker : Key(v)' = Key(v)
    BY <2>3 DEF Key
  <2>6. ActingOK'
    BY <1>1, <2>1, <2>3, <2>4, <2>5 DEF EffectInv, ActingOK, Key
  <2>7. LedgerOK'
    BY <1>1, <2>2, <2>3 DEF EffectInv, LedgerOK
  <2>8. QED
    BY <2>6, <2>7 DEF EffectInv
<1>6. QED
  BY <1>2, <1>3, <1>4, <1>5 DEF Next, WorkerStep

LEMMA EffectInvariant == Spec => [](TInv /\ EffectInv)
<1>1. Init => TInv /\ EffectInv
  BY TInvInit, EffectInit
<1>2. TInv /\ EffectInv /\ [Next]_vars => (TInv /\ EffectInv)'
  BY TInvNext, EffectNext
<1>3. QED
  BY <1>1, <1>2, PTL DEF Spec

\* The consumption ledger: an effect's writes are committed at most once,
\* however often and however concurrently its message is handled.
THEOREM EffectAlwaysAtMostOnce == Spec => []EffectAtMostOnce
<1>1. ASSUME EffectInv, NEW m \in Message
      PROVE  times[m] <= 1
  <2>1. times[m] = 0 \/ times[m] = 1
    BY <1>1 DEF EffectInv, LedgerOK
  <2>2. QED
    BY <2>1
<1>2. EffectInv => EffectAtMostOnce
  BY <1>1 DEF EffectAtMostOnce
<1>3. QED
  BY <1>2, EffectInvariant, PTL
-----------------------------------------------------------------------------
(***************************************************************************)
(* The keeping invariant, for events that name no effect twice.  A message *)
(* is removed only by a handler whose key, its own alone, is in the        *)
(* ledger; so a relay past its send, the duplicate-detection window and    *)
(* the topic hold only effects that are kept: done or still with the       *)
(* broker.                                                                 *)
(***************************************************************************)
Kept(m) == times[m] > 0 \/ Held(queue, m)

\* A key in the ledger stands for an effect that happened.
ClaimedOK == \A m \in Message : IdOf[m] \in ledger => times[m] > 0

SentOK ==
  /\ \A m \in Message : IdOf[m] \in window => Kept(m)
  /\ \A r \in Relay : pc[r] \in {"publish", "stamp"} =>
       \A m \in MessagesOf(batch[r]) : Kept(m)

TopicOK ==
  /\ \A r \in Relay : pc[r] = "stamp" => batch[r] \subseteq topic
  /\ \A e \in Event : row[e] = "published" => e \in topic
  /\ \A m \in Message : EventOf[m] \in topic => Kept(m)

KeepInv == ClaimedOK /\ SentOK /\ TopicOK

\* Sending a batch keeps what the broker holds and adds what was sent.
LEMMA SentHolds ==
  ASSUME NEW q, NEW ms \in SUBSET Message, \A m \in ms : Room(q, m) # {},
         NEW m \in Message, Held(q, m) \/ m \in ms
  PROVE  Held(Sent(q, ms), m)
<1>1. CASE m \in ms
  <2> DEFINE k == CHOOSE k \in Room(q, m) : TRUE
  <2>1. k \in Room(q, m)
    BY <1>1
  <2> HIDE DEF k
  <2>2. k \in 1 .. MaxCopies /\ <<m, k>> \in Slot
    BY <2>1 DEF Room, Slot
  <2>3. Sent(q, ms)[<<m, k>>] = NewCopy
    BY <1>1, <2>2 DEF Sent, k
  <2>4. QED
    BY <2>2, <2>3 DEF Held, NewCopy
<1>2. CASE m \notin ms
  <2>1. PICK k \in 1 .. MaxCopies : q[<<m, k>>].state # "free"
    BY <1>2 DEF Held
  <2>2. <<m, k>> \in Slot
    BY DEF Slot
  <2>3. Sent(q, ms)[<<m, k>>] = q[<<m, k>>]
    BY <1>2, <2>2 DEF Sent
  <2>4. QED
    BY <2>1, <2>3 DEF Held
<1>3. QED
  BY <1>1, <1>2

\* No other operation loses a message, except completing it by its holder.
LEMMA BrokerHolds ==
  ASSUME NEW q \in [Slot -> SlotState], NEW s \in Slot, NEW w \in Worker,
         NEW m \in Message, Held(q, m)
  PROVE  /\ Held(Received(q, s, w), m) /\ Held(Released(q, s), m)
         /\ Held(DeadLettered(q, s, w), m)
         /\ s[1] # m => Held(Completed(q, s, w), m)
<1>1. PICK k \in 1 .. MaxCopies : q[<<m, k>>].state # "free"
  BY DEF Held
<1>2. <<m, k>> \in Slot
  BY DEF Slot
<1>3. Received(q, s, w)[<<m, k>>].state # "free"
  BY <1>1, <1>2 DEF Received
<1>4. Released(q, s)[<<m, k>>].state # "free"
  BY <1>1, <1>2 DEF Released
<1>5. DeadLettered(q, s, w)[<<m, k>>].state # "free"
  BY <1>1, <1>2 DEF DeadLettered
<1>6. ASSUME s[1] # m PROVE Completed(q, s, w)[<<m, k>>].state # "free"
  <2>1. s # <<m, k>>
    BY <1>6
  <2>2. QED
    BY <1>1, <1>2, <2>1 DEF Completed
<1>7. QED
  BY <1>3, <1>4, <1>5, <1>6 DEF Held

LEMMA ReleasedHolds ==
  ASSUME NEW q \in [Slot -> SlotState], NEW s \in Slot, NEW m \in Message, Held(q, m)
  PROVE  Held(Released(q, s), m)
<1>1. PICK k \in 1 .. MaxCopies : q[<<m, k>>].state # "free"
  BY DEF Held
<1>2. <<m, k>> \in Slot
  BY DEF Slot
<1>3. QED
  BY <1>1, <1>2 DEF Released, Held

\* An effect that is kept stays kept.
LEMMA KeptForever ==
  ASSUME TInv, EffectInv, ClaimedOK, Next, NEW m \in Message, Kept(m)
  PROVE  Kept(m)'
<1> USE DEF relayVars, workerVars
<1>0. /\ queue \in [Slot -> SlotState] /\ times \in [Message -> Nat]
      /\ \A w \in Worker : at[w] # "idle" => slot[w] \in Slot
  BY DEF TInv, TypeOK, RefsOK
<1>1. CASE \/ \E e \in Event : Append(e)
           \/ \E r \in Relay : Claim(r) \/ Publish(r) \/ Stamp(r) \/ RelayFails(r)
           \/ \E i \in Id : WindowCloses(i)
           \/ \E w \in Worker : ClaimEffect(w) \/ WorkerCrash(w)
  <2>1. queue' = queue /\ times' = times
    BY <1>1 DEF Append, Claim, Publish, Stamp, RelayFails, WindowCloses, ClaimEffect, WorkerCrash
  <2>2. QED
    BY <2>1 DEF Kept, Held
<1>2. ASSUME NEW r \in Relay, SendEffects(r) PROVE Kept(m)'
  <2>1. PICK ms \in SUBSET Message : /\ \A d \in ms : Room(queue, d) # {}
                                     /\ queue' = Sent(queue, ms) /\ times' = times
    BY <1>2 DEF SendEffects, MessagesOf
  <2>2. Held(queue, m) => Held(Sent(queue, ms), m)
    BY <2>1, SentHolds
  <2>3. QED
    BY <2>1, <2>2 DEF Kept, Held
<1>3. ASSUME NEW s \in Slot, LockExpires(s) PROVE Kept(m)'
  <2>1. Held(queue, m) => Held(Released(queue, s), m)
    BY <1>0, ReleasedHolds
  <2>2. QED
    BY <1>3, <2>1 DEF LockExpires, Kept, Held
<1>4. ASSUME NEW w \in Worker, NEW s \in Slot, Receive(w, s) PROVE Kept(m)'
  <2>1. Held(queue, m) => Held(Received(queue, s, w), m)
    BY <1>0, BrokerHolds
  <2>2. QED
    BY <1>4, <2>1 DEF Receive, Kept, Held
<1>5. ASSUME NEW w \in Worker, RejectPoison(w) PROVE Kept(m)'
  <2>1. Held(queue, m) => Held(DeadLettered(queue, slot[w], w), m)
    BY <1>0, <1>5, BrokerHolds DEF RejectPoison
  <2>2. QED
    BY <1>5, <2>1 DEF RejectPoison, Kept, Held
<1>6. ASSUME NEW w \in Worker, CommitEffect(w) PROVE Kept(m)'
  <2>1. queue' = queue /\ times' = [times EXCEPT ![slot[w][1]] = @ + 1]
    BY <1>6 DEF CommitEffect
  <2>2. times'[m] = times[m] \/ times'[m] = times[m] + 1
    BY <1>0, <2>1
  <2>3. times[m] \in Nat
    BY <1>0
  <2>4. times[m] > 0 => times'[m] > 0
    BY <2>2, <2>3
  <2>5. Held(queue, m) => Held(queue, m)'
    BY <2>1 DEF Held
  <2>6. QED
    BY <2>4, <2>5 DEF Kept
<1>7. ASSUME NEW w \in Worker, Complete(w) PROVE Kept(m)'
  <2>1. slot[w] \in Slot /\ IdOf[slot[w][1]] \in ledger /\ times' = times
        /\ queue' = Completed(queue, slot[w], w)
    BY <1>0, <1>7 DEF Complete, EffectInv, ActingOK, Key
  <2>2. CASE slot[w][1] = m
    BY <2>1, <2>2 DEF ClaimedOK, Kept
  <2>3. CASE slot[w][1] # m
    <3>1. Held(queue, m) => Held(Completed(queue, slot[w], w), m)
      BY <1>0, <2>1, <2>3, BrokerHolds
    <3>2. QED
      BY <2>1, <3>1 DEF Kept, Held
  <2>4. QED
    BY <2>2, <2>3
<1>8. ASSUME NEW w \in Worker, HandlerFails(w) PROVE Kept(m)'
  <2>1. Held(queue, m) => Held(Released(queue, slot[w]), m)
    BY <1>0, <1>8, ReleasedHolds DEF HandlerFails
  <2>2. times' = times /\ (queue' = queue \/ queue' = Released(queue, slot[w]))
    BY <1>8 DEF HandlerFails
  <2>3. QED
    BY <2>1, <2>2 DEF Kept, Held
<1>9. QED
  BY <1>1, <1>2, <1>3, <1>4, <1>5, <1>6, <1>7, <1>8 DEF Next, RelayStep, WorkerStep

\* Keys are claimed only by the effect they belong to.
LEMMA ClaimedNext ==
  ASSUME TInv, EffectInv, ClaimedOK, OneNamePerEvent, Next
  PROVE  ClaimedOK'
<1> USE DEF relayVars, workerVars
<1>1. CASE ledger' = ledger /\ times' = times
  BY <1>1 DEF ClaimedOK
<1>2. ASSUME NEW w \in Worker, CommitEffect(w) PROVE ClaimedOK'
  <2>1. PICK m \in Message : m = slot[w][1]
    BY <1>2, SlotFacts DEF CommitEffect, TInv, RefsOK
  <2>2. ledger' = ledger \cup {IdOf[m]} /\ times' = [times EXCEPT ![m] = @ + 1]
        /\ times \in [Message -> Nat]
    BY <1>2, <2>1 DEF CommitEffect, TInv, TypeOK
  <2>3. QED
    BY <2>2 DEF ClaimedOK, OneNamePerEvent
<1>3. CASE ~ \E w \in Worker : CommitEffect(w)
  <2>1. ledger' = ledger /\ times' = times
    BY <1>3 DEF Next, Append, RelayStep, Claim, SendEffects, Publish, Stamp, RelayFails,
                WindowCloses, LockExpires, WorkerStep, Receive, RejectPoison, ClaimEffect,
                Complete, HandlerFails, WorkerCrash
  <2>2. QED
    BY <1>1, <2>1
<1>4. QED
  BY <1>2, <1>3

LEMMA KeepNext ==
  ASSUME TInv, EffectInv, KeepInv, OneNamePerEvent, Next
  PROVE  KeepInv'
<1> USE DEF relayVars, workerVars
<1>1. ClaimedOK' /\ \A m \in Message : Kept(m) => Kept(m)'
  BY KeptForever, ClaimedNext DEF KeepInv
<1>2. /\ batch \in [Relay -> SUBSET Event]
      /\ pc \in [Relay -> {"idle", "effects", "publish", "stamp"}]
      /\ row \in [Event -> {"none", "recorded", "published"}] /\ window \subseteq Id
  BY DEF TInv, TypeOK
<1>3. ASSUME NEW e \in Event, Append(e) PROVE SentOK' /\ TopicOK'
  BY <1>1, <1>2, <1>3 DEF Append, KeepInv, SentOK, TopicOK, MessagesOf
<1>4. ASSUME NEW r \in Relay, Claim(r) PROVE SentOK' /\ TopicOK'
  BY <1>1, <1>2, <1>4 DEF Claim, KeepInv, SentOK, TopicOK, MessagesOf
<1>5. ASSUME NEW r \in Relay, SendEffects(r) PROVE SentOK' /\ TopicOK'
  <2> DEFINE fresh == { m \in MessagesOf(batch[r]) : IdOf[m] \notin window }
  <2>1. /\ window' = window \cup IdsOf(fresh) /\ pc' = [pc EXCEPT ![r] = "publish"]
        /\ UNCHANGED <<row, batch, topic>> /\ fresh \subseteq Message
    BY <1>5 DEF SendEffects, MessagesOf
  <2>2. PICK ms \in SUBSET fresh : /\ IdsOf(ms) = IdsOf(fresh)
                                   /\ \A m \in ms : Room(queue, m) # {}
                                   /\ queue' = Sent(queue, ms)
    BY <1>5 DEF SendEffects
  <2>3. \A m \in MessagesOf(batch[r]) : m \in fresh \/ IdOf[m] \in window
    OBVIOUS
  <2> HIDE DEF fresh
  <2>4. fresh = ms
    <3>1. ASSUME NEW m \in fresh PROVE m \in ms
      <4>1. IdOf[m] \in IdsOf(ms)
        BY <2>2 DEF IdsOf
      <4>2. PICK n \in ms : IdOf[n] = IdOf[m]
        BY <4>1 DEF IdsOf
      <4>3. n = m
        BY <2>1, <2>2, <4>2 DEF OneNamePerEvent
      <4>4. QED
        BY <4>2, <4>3
    <3>2. QED
      BY <2>2, <3>1
  <2>5. \A m \in fresh : Kept(m)'
    <3>1. \A m \in ms : Held(Sent(queue, ms), m)
      BY <2>1, <2>2, SentHolds
    <3>2. QED
      BY <2>2, <2>4, <3>1 DEF Kept, Held
  <2>6. \A m \in Message : IdOf[m] \in window' => Kept(m)'
    <3>1. \A m \in Message : IdOf[m] \in IdsOf(fresh) => m \in fresh
      BY <2>1 DEF IdsOf, OneNamePerEvent
    <3>2. QED
      BY <1>1, <2>1, <2>5, <3>1 DEF KeepInv, SentOK
  <2>7. \A m \in MessagesOf(batch[r]) : Kept(m)'
    BY <1>1, <2>3, <2>5 DEF KeepInv, SentOK, MessagesOf
  <2>8. SentOK'
    BY <1>1, <1>2, <2>1, <2>6, <2>7 DEF KeepInv, SentOK, MessagesOf
  <2>9. TopicOK'
    BY <1>1, <1>2, <2>1 DEF KeepInv, TopicOK
  <2>10. QED
    BY <2>8, <2>9
<1>6. ASSUME NEW r \in Relay, Publish(r) PROVE SentOK' /\ TopicOK'
  <2>1. SentOK'
    BY <1>1, <1>2, <1>6 DEF Publish, KeepInv, SentOK, MessagesOf
  <2>2. \A m \in Message : EventOf[m] \in batch[r] => Kept(m)
    BY <1>6 DEF Publish, KeepInv, SentOK, MessagesOf
  <2>3. TopicOK'
    BY <1>1, <1>2, <1>6, <2>2 DEF Publish, KeepInv, TopicOK
  <2>4. QED
    BY <2>1, <2>3
<1>7. ASSUME NEW r \in Relay, Stamp(r) PROVE SentOK' /\ TopicOK'
  BY <1>1, <1>2, <1>7 DEF Stamp, KeepInv, SentOK, TopicOK, MessagesOf
<1>8. ASSUME NEW r \in Relay, RelayFails(r) PROVE SentOK' /\ TopicOK'
  BY <1>1, <1>2, <1>8 DEF RelayFails, KeepInv, SentOK, TopicOK, MessagesOf
<1>9. ASSUME \/ \E i \in Id : WindowCloses(i)
             \/ \E s \in Slot : LockExpires(s)
             \/ \E w \in Worker : WorkerStep(w) \/ HandlerFails(w) \/ WorkerCrash(w)
      PROVE SentOK' /\ TopicOK'
  <2>1. row' = row /\ pc' = pc /\ batch' = batch /\ topic' = topic /\ window' \subseteq window
    BY <1>9 DEF WindowCloses, LockExpires, WorkerStep, Receive, RejectPoison, ClaimEffect,
                CommitEffect, Complete, HandlerFails, WorkerCrash
  <2>2. SentOK'
    BY <1>1, <1>2, <2>1 DEF KeepInv, SentOK, MessagesOf
  <2>3. TopicOK'
    BY <1>1, <2>1 DEF KeepInv, TopicOK
  <2>4. QED
    BY <2>2, <2>3
<1>10. QED
  BY <1>1, <1>3, <1>4, <1>5, <1>6, <1>7, <1>8, <1>9 DEF Next, RelayStep, KeepInv

\* An event on the topic, or stamped, never loses an effect, provided no event
\* names one effect twice.
THEOREM EffectsAlwaysKept ==
  ASSUME OneNamePerEvent PROVE Spec => []PublishedEffectsAreKept
<1>1. Init => KeepInv
  BY DEF Init, KeepInv, ClaimedOK, SentOK, TopicOK
<1>2. TInv /\ EffectInv /\ KeepInv /\ [Next]_vars => KeepInv'
  <2>1. ASSUME KeepInv, UNCHANGED vars PROVE KeepInv'
    BY <2>1 DEF vars, relayVars, workerVars, KeepInv, ClaimedOK, SentOK, TopicOK, Kept,
                Held, MessagesOf
  <2>2. QED
    BY <2>1, KeepNext
<1>3. TInv /\ KeepInv => PublishedEffectsAreKept
  BY MessageAssumption DEF KeepInv, TopicOK, Kept, PublishedEffectsAreKept
<1>4. QED
  BY <1>1, <1>2, <1>3, EffectInvariant, PTL DEF Spec

(***************************************************************************)
(* The outbox implements EffectLedger: Append and CommitEffect are Record  *)
(* and Happen; sending, relaying, redelivery and every failure stutter.    *)
(* That an effect happens only for a recorded fact needs one more fact:    *)
(* nothing is claimed, sent or received before its row is committed.       *)
(***************************************************************************)
Facts == { e \in Event : row[e] # "none" }

SourceOK ==
  /\ \A r \in Relay : batch[r] \subseteq Facts
  /\ \A s \in Slot : queue[s].state # "free" => EventOf[s[1]] \in Facts
  /\ \A w \in Worker : at[w] # "idle" => EventOf[slot[w][1]] \in Facts

\* A relay's steps commit no fact: what it stamps was recorded before.
LEMMA RelayFacts ==
  ASSUME TInv, SourceOK, NEW r \in Relay, RelayStep(r) \/ RelayFails(r)
  PROVE  Facts' = Facts
<1> USE DEF relayVars, workerVars
<1>1. CASE Stamp(r)
  <2>1. batch[r] \subseteq Facts /\ row \in [Event -> {"none", "recorded", "published"}]
    BY DEF SourceOK, TInv, TypeOK
  <2>2. QED
    BY <1>1, <2>1 DEF Stamp, Facts
<1>2. CASE ~Stamp(r)
  BY <1>2 DEF RelayStep, Claim, SendEffects, Publish, RelayFails, Facts
<1>3. QED
  BY <1>1, <1>2

LEMMA SourceInit == Init => SourceOK
BY DEF Init, SourceOK, EmptyQueue, EmptySlot

LEMMA SourceNext == TInv /\ SourceOK /\ [Next]_vars => SourceOK'
<1> SUFFICES ASSUME TInv, SourceOK, [Next]_vars PROVE SourceOK'
  OBVIOUS
<1> USE DEF relayVars, workerVars
<1>1. /\ batch \in [Relay -> SUBSET Event] /\ row \in [Event -> {"none", "recorded", "published"}]
      /\ queue \in [Slot -> SlotState]
      /\ at \in [Worker -> {"idle", "received", "acting", "done"}]
      /\ slot \in [Worker -> Slot \cup {NoSlot}]
      /\ \A v \in Worker : at[v] # "idle" => slot[v] \in Slot
  BY DEF TInv, TypeOK, RefsOK
<1>2. ASSUME NEW e \in Event, Append(e) PROVE SourceOK'
  <2>1. Facts \subseteq Facts'
    BY <1>1, <1>2 DEF Append, Facts
  <2>2. UNCHANGED <<batch, queue, at, slot>>
    BY <1>2 DEF Append
  <2>3. QED
    BY <2>1, <2>2 DEF SourceOK
<1>3. ASSUME NEW r \in Relay, RelayStep(r) \/ RelayFails(r) PROVE SourceOK'
  <2>1. Facts' = Facts
    BY <1>3, RelayFacts
  <2>2. CASE Claim(r)
    <3>1. FirstRows(Claimable, BatchSize) \subseteq Facts
      BY DEF FirstRows, Claimable, Facts
    <3>2. QED
      BY <1>1, <2>1, <2>2, <3>1 DEF Claim, SourceOK
  <2>3. CASE SendEffects(r)
    <3>1. PICK ms : /\ queue' = Sent(queue, ms) /\ UNCHANGED <<batch, at, slot>>
                    /\ \A m \in ms : EventOf[m] \in Facts
      BY <2>3 DEF SendEffects, SourceOK, MessagesOf
    <3>2. \A s \in Slot : s[1] \notin ms => queue'[s] = queue[s]
      BY <3>1 DEF Sent
    <3>3. QED
      BY <2>1, <3>1, <3>2 DEF SourceOK
  <2>4. CASE Publish(r) \/ Stamp(r) \/ RelayFails(r)
    BY <1>1, <2>1, <2>4 DEF Publish, Stamp, RelayFails, SourceOK
  <2>5. QED
    BY <1>3, <2>2, <2>3, <2>4 DEF RelayStep
<1>4. ASSUME NEW i \in Id, WindowCloses(i) PROVE SourceOK'
  BY <1>4 DEF WindowCloses, SourceOK, Facts
<1>5. ASSUME NEW s \in Slot, LockExpires(s) PROVE SourceOK'
  <2>1. \A x \in Slot : queue'[x].state # "free" => queue[x].state # "free"
    BY <1>1, <1>5 DEF LockExpires, Released
  <2>2. QED
    BY <1>5, <2>1 DEF LockExpires, SourceOK, Facts
<1>6. ASSUME NEW w \in Worker, WorkerStep(w) \/ HandlerFails(w) \/ WorkerCrash(w)
      PROVE  SourceOK'
  <2>1. UNCHANGED relayVars /\ Facts' = Facts
    BY <1>6 DEF WorkerStep, Receive, RejectPoison, ClaimEffect, CommitEffect, Complete,
                HandlerFails, WorkerCrash, Facts
  <2>2. ASSUME NEW s \in Slot, Receive(w, s) PROVE SourceOK'
    <3>1. \A x \in Slot : queue'[x].state # "free" => queue[x].state # "free"
      BY <1>1, <2>2 DEF Receive, Received
    <3>2. QED
      BY <1>1, <2>1, <2>2, <3>1 DEF Receive, SourceOK
  <2>3. CASE RejectPoison(w) \/ Complete(w) \/ HandlerFails(w) \/ WorkerCrash(w)
    <3>1. slot[w] \in Slot
      BY <1>1, <2>3 DEF RejectPoison, Complete, HandlerFails, WorkerCrash
    <3>2. queue' \in {queue, Released(queue, slot[w]), Completed(queue, slot[w], w),
                      DeadLettered(queue, slot[w], w)}
      BY <2>3 DEF RejectPoison, Complete, HandlerFails, WorkerCrash
    <3>3. ASSUME NEW x \in Slot, queue'[x].state # "free" PROVE queue[x].state # "free" \/ x = slot[w]
      BY <1>1, <3>2, <3>3 DEF Released, Completed, DeadLettered
    <3>4. QED
      BY <1>1, <2>1, <2>3, <3>1, <3>3 DEF RejectPoison, Complete, HandlerFails, WorkerCrash, SourceOK
  <2>4. CASE ClaimEffect(w) \/ CommitEffect(w)
    BY <1>1, <2>1, <2>4 DEF ClaimEffect, CommitEffect, SourceOK
  <2>5. QED
    BY <1>6, <2>2, <2>3, <2>4 DEF WorkerStep
<1>7. CASE UNCHANGED vars
  BY <1>7 DEF vars, SourceOK, Facts
<1>8. QED
  BY <1>2, <1>3, <1>4, <1>5, <1>6, <1>7 DEF Next

LEMMA LedgerNext ==
  ASSUME TInv, EffectInv, SourceOK, [Next]_vars
  PROVE  [Ledger!Next]_<<Facts, times>>
<1> USE DEF relayVars, workerVars
<1>1. row \in [Event -> {"none", "recorded", "published"}] /\ batch \in [Relay -> SUBSET Event]
  BY DEF TInv, TypeOK
<1>2. ASSUME NEW e \in Event, Append(e) PROVE Ledger!Record(e)
  <2>1. row' = [row EXCEPT ![e] = "recorded"] /\ row[e] = "none" /\ times' = times
    BY <1>2 DEF Append
  <2>2. Facts' = Facts \cup {e} /\ e \notin Facts
    BY <1>1, <2>1 DEF Facts
  <2>3. QED
    BY <2>1, <2>2 DEF Ledger!Record, Facts
<1>3. ASSUME NEW w \in Worker, CommitEffect(w)
      PROVE  \E m \in Message : Ledger!Happen(m)
  <2> DEFINE m == slot[w][1]
  <2>1. m \in Message /\ times[m] = 0 /\ EventOf[m] \in Facts
    BY <1>3, SlotFacts
       DEF CommitEffect, TInv, RefsOK, EffectInv, ActingOK, LedgerOK, SourceOK, Key
  <2>2. times' = [times EXCEPT ![m] = @ + 1] /\ row' = row
    BY <1>3 DEF CommitEffect
  <2> HIDE DEF m
  <2>3. times' = [times EXCEPT ![m] = 1]
    BY <2>1, <2>2
  <2>4. Ledger!Happen(m)
    BY <2>1, <2>2, <2>3 DEF Ledger!Happen, Facts
  <2>5. QED
    BY <2>1, <2>4
<1>4. ASSUME NEW r \in Relay, RelayStep(r) \/ RelayFails(r) PROVE UNCHANGED <<Facts, times>>
  <2>1. times' = times
    BY <1>4 DEF RelayStep, Claim, SendEffects, Publish, Stamp, RelayFails
  <2>2. Facts' = Facts
    BY <1>4, RelayFacts
  <2>3. QED
    BY <2>1, <2>2
<1>5. ASSUME \/ \E i \in Id : WindowCloses(i)
             \/ \E s \in Slot : LockExpires(s)
             \/ \E w \in Worker : \/ \E s \in Slot : Receive(w, s)
                                  \/ RejectPoison(w) \/ ClaimEffect(w) \/ Complete(w)
                                  \/ HandlerFails(w) \/ WorkerCrash(w)
             \/ UNCHANGED vars
      PROVE  UNCHANGED <<Facts, times>>
  BY <1>5 DEF WindowCloses, LockExpires, Receive, RejectPoison, ClaimEffect, Complete,
              HandlerFails, WorkerCrash, vars, Facts
<1>6. QED
  BY <1>2, <1>3, <1>4, <1>5 DEF Next, WorkerStep, Ledger!Next

\* Hiding the relay, the broker, the window, the workers and every failure, the
\* outbox behaves as EffectLedger allows.
THEOREM OutboxImplementsLedger == Spec => ImplementsEffectLedger
<1>1. Init => Ledger!Init
  BY DEF Init, Ledger!Init
<1>2. TInv /\ EffectInv /\ SourceOK /\ [Next]_vars => [Ledger!Next]_<<Facts, times>>
  BY LedgerNext
<1>3. Spec => []SourceOK
  BY SourceInit, SourceNext, TInvInvariant, PTL DEF Spec
<1>4. <<Facts, times>> = <<{ e \in Event : row[e] # "none" }, times>>
  BY DEF Facts
<1>5. QED
  BY <1>1, <1>2, <1>3, EffectInvariant, PTL
     DEF Spec, ImplementsEffectLedger, Ledger!Spec, Facts
=============================================================================
