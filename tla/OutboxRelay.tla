----------------------------- MODULE OutboxRelay -----------------------------
(***************************************************************************)
(* The journal as an outbox, its relay and the consumers of the effects    *)
(* queue.  Sources: db/src/journal.ts, db/src/outbox.ts (relayOutboxBatch, *)
(* recordConsumptionOnce), apps/worker/src/relay, apps/worker/src/registry *)
(* and handlers/effects, and the claim-then-act handlers of                *)
(* trpc/src/lib/task-effects.ts and approval-effects.ts.                   *)
(*                                                                         *)
(* Every worker replica runs one relay loop (Relay) and a receiver         *)
(* (Worker).  A relay tick is one transaction: it locks a batch of         *)
(* unpublished rows (SKIP LOCKED), sends the effect messages, publishes    *)
(* the events, stamps the rows; a failure anywhere rolls the locks and the *)
(* stamp back, never what was sent.  A handler claims the effect in the    *)
(* consumption ledger and acts in one transaction.                         *)
(*                                                                         *)
(* A message is one effect an event's payload names.  Its MessageId, and   *)
(* the ledger key, are the event's source and the effect's name, so two    *)
(* effects of one name on one event share both (IdOf).                     *)
(*                                                                         *)
(* Bounds: Events are numbered in recorded_at order; BatchSize rows per    *)
(* tick; MaxFailures counts rollbacks, failed handlers and crashes.        *)
(* Backoff and polling delays are left out.                                *)
(***************************************************************************)
EXTENDS ServiceBus, FiniteSets

CONSTANTS Event,      \* a set of numbers, the (recorded_at, id) order
          EventOf,    \* Message -> the event whose payload carries the effect
          Id, IdOf,   \* Message -> its MessageId, `source:effect name`
          Poison,     \* messages whose effect name no handler is registered for
          Relay,      \* relay loops
          NoSlot,
          BatchSize, MaxFailures

ASSUME EventAssumption == Event \subseteq Nat
ASSUME MessageAssumption == EventOf \in [Message -> Event] /\ Poison \subseteq Message
ASSUME IdAssumption == IdOf \in [Message -> Id]
ASSUME RelayBoundAssumption == BatchSize \in Nat \ {0} /\ MaxFailures \in Nat
ASSUME NoSlotAssumption == NoSlot \notin Slot

VARIABLES
  row,       \* Event -> "none" | "recorded" | "published" (published_at set)
  pc,        \* Relay -> where its transaction stands
  batch,     \* Relay -> the rows it has locked
  topic,     \* events published on domain-events, at least once
  queue,     \* the effects queue
  window,    \* MessageIds inside the duplicate-detection window
  at,        \* Worker -> where its handler stands
  slot,      \* Worker -> the message copy it is handling
  ledger,    \* event_consumption: keys claimed by a committed transaction
  times,     \* Message -> how often the effect's writes were committed
  failures

relayVars  == <<row, pc, batch, topic>>
workerVars == <<at, slot, ledger, times>>
vars == <<relayVars, queue, window, workerVars, failures>>

MessagesOf(es) == { m \in Message : EventOf[m] \in es }
IdsOf(ms)      == { IdOf[m] : m \in ms }

Init ==
  /\ row = [e \in Event |-> "none"]
  /\ pc = [r \in Relay |-> "idle"]
  /\ batch = [r \in Relay |-> {}]
  /\ topic = {}
  /\ queue = EmptyQueue
  /\ window = {}
  /\ at = [w \in Worker |-> "idle"]
  /\ slot = [w \in Worker |-> NoSlot]
  /\ ledger = {}
  /\ times = [m \in Message |-> 0]
  /\ failures = 0

Fail == failures < MaxFailures /\ failures' = failures + 1

\* appendEvent, committed with the state change it records.  recorded_at is the
\* transaction's start, so rows appear in any order.
Append(e) ==
  /\ row[e] = "none"
  /\ row' = [row EXCEPT ![e] = "recorded"]
  /\ UNCHANGED <<pc, batch, topic, queue, window, workerVars, failures>>
-----------------------------------------------------------------------------
LockedRows == UNION { batch[r] : r \in Relay }

Claimable == { e \in Event : row[e] = "recorded" } \ LockedRows

\* The first `n` of a set of rows.
FirstRows(es, n) == { e \in es : Cardinality({ d \in es : d < e }) < n }

Claim(r) ==
  /\ pc[r] = "idle"
  /\ Claimable # {}
  /\ batch' = [batch EXCEPT ![r] = FirstRows(Claimable, BatchSize)]
  /\ pc' = [pc EXCEPT ![r] = "effects"]
  /\ UNCHANGED <<row, topic, queue, window, workerVars, failures>>

\* effectsSender.sendMessages for the effects the batch's payloads carry.  Ids in
\* the window are dropped; of messages with one id at least one is accepted, and
\* only one where duplicate detection is on.
SendEffects(r) ==
  LET fresh == { m \in MessagesOf(batch[r]) : IdOf[m] \notin window }
  IN /\ pc[r] = "effects"
     /\ \E ms \in SUBSET fresh :
          /\ IdsOf(ms) = IdsOf(fresh)
          /\ \A m \in ms : Room(queue, m) # {}
          /\ queue' = Sent(queue, ms)
     /\ window' = window \cup IdsOf(fresh)
     /\ pc' = [pc EXCEPT ![r] = "publish"]
     /\ UNCHANGED <<row, batch, topic, workerVars, failures>>

Publish(r) ==
  /\ pc[r] = "publish"
  /\ topic' = topic \cup batch[r]
  /\ pc' = [pc EXCEPT ![r] = "stamp"]
  /\ UNCHANGED <<row, batch, queue, window, workerVars, failures>>

Stamp(r) ==
  /\ pc[r] = "stamp"
  /\ row' = [e \in Event |-> IF e \in batch[r] THEN "published" ELSE row[e]]
  /\ batch' = [batch EXCEPT ![r] = {}]
  /\ pc' = [pc EXCEPT ![r] = "idle"]
  /\ UNCHANGED <<topic, queue, window, workerVars, failures>>

\* Mutant: a failed tick stamps what it had claimed.
RelayFailsStamped(r) ==
  /\ pc[r] # "idle" /\ Fail
  /\ row' = [e \in Event |-> IF e \in batch[r] THEN "published" ELSE row[e]]
  /\ batch' = [batch EXCEPT ![r] = {}]
  /\ pc' = [pc EXCEPT ![r] = "idle"]
  /\ UNCHANGED <<topic, queue, window, workerVars>>

\* A send is refused or its answer lost, or the process dies: the tick rolls back.
RelayFails(r) ==
  /\ pc[r] # "idle" /\ Fail
  /\ batch' = [batch EXCEPT ![r] = {}]
  /\ pc' = [pc EXCEPT ![r] = "idle"]
  /\ UNCHANGED <<row, topic, queue, window, workerVars>>
-----------------------------------------------------------------------------
WindowCloses(i) ==
  /\ i \in window
  /\ window' = window \ {i}
  /\ UNCHANGED <<relayVars, queue, workerVars, failures>>

\* The lock of a message expires while its handler is still running, or after
\* the process that held it died.
LockExpires(s) ==
  /\ queue[s].state = "locked"
  /\ queue' = Released(queue, s)
  /\ UNCHANGED <<relayVars, window, workerVars, failures>>

Receive(w, s) ==
  /\ at[w] = "idle"
  /\ queue[s].state = "ready"
  /\ queue' = Received(queue, s, w)
  /\ at' = [at EXCEPT ![w] = "received"]
  /\ slot' = [slot EXCEPT ![w] = s]
  /\ UNCHANGED <<relayVars, window, ledger, times, failures>>

\* effectsHandler: no handler for this name, dead-letter at once.
RejectPoison(w) ==
  /\ at[w] = "received"
  /\ slot[w][1] \in Poison
  /\ queue' = DeadLettered(queue, slot[w], w)
  /\ at' = [at EXCEPT ![w] = "idle"]
  /\ slot' = [slot EXCEPT ![w] = NoSlot]
  /\ UNCHANGED <<relayVars, window, ledger, times, failures>>

\* INSERT ... ON CONFLICT DO NOTHING waits while another open transaction has
\* inserted the same (consumer, event_id).
Unclaimed(i) == \A v \in Worker : ~(at[v] = "acting" /\ IdOf[slot[v][1]] = i)

\* Mutant: the handler does its work whether or not the claim was the first.
ClaimUnheeded(w) ==
  /\ at[w] = "received"
  /\ slot[w][1] \notin Poison
  /\ Unclaimed(IdOf[slot[w][1]])
  /\ at' = [at EXCEPT ![w] = "acting"]
  /\ UNCHANGED <<relayVars, queue, window, slot, ledger, times, failures>>

\* recordConsumptionOnce, the handler's first statement.
ClaimEffect(w) ==
  /\ at[w] = "received"
  /\ slot[w][1] \notin Poison
  /\ Unclaimed(IdOf[slot[w][1]])
  /\ at' = [at EXCEPT ![w] = IF IdOf[slot[w][1]] \in ledger THEN "done" ELSE "acting"]
  /\ UNCHANGED <<relayVars, queue, window, slot, ledger, times, failures>>

\* The effect's writes and the claim commit together.
CommitEffect(w) ==
  /\ at[w] = "acting"
  /\ ledger' = ledger \cup {IdOf[slot[w][1]]}
  /\ times' = [times EXCEPT ![slot[w][1]] = @ + 1]
  /\ at' = [at EXCEPT ![w] = "done"]
  /\ UNCHANGED <<relayVars, queue, window, slot, failures>>

Complete(w) ==
  /\ at[w] = "done"
  /\ queue' = Completed(queue, slot[w], w)
  /\ at' = [at EXCEPT ![w] = "idle"]
  /\ slot' = [slot EXCEPT ![w] = NoSlot]
  /\ UNCHANGED <<relayVars, window, ledger, times, failures>>

\* Mutant: the message of a failed handler is completed instead of abandoned.
HandlerFailsSilently(w) ==
  /\ at[w] \in {"received", "acting"} /\ Fail
  /\ queue' = Completed(queue, slot[w], w)
  /\ at' = [at EXCEPT ![w] = "idle"]
  /\ slot' = [slot EXCEPT ![w] = NoSlot]
  /\ UNCHANGED <<relayVars, window, ledger, times>>

\* The handler throws: its transaction rolls back and the message is abandoned.
HandlerFails(w) ==
  /\ at[w] \in {"received", "acting"} /\ Fail
  /\ queue' = IF queue[slot[w]].holder = w THEN Released(queue, slot[w]) ELSE queue
  /\ at' = [at EXCEPT ![w] = "idle"]
  /\ slot' = [slot EXCEPT ![w] = NoSlot]
  /\ UNCHANGED <<relayVars, window, ledger, times>>

\* The worker dies; the broker finds out when the lock expires.
WorkerCrash(w) ==
  /\ at[w] # "idle" /\ Fail
  /\ at' = [at EXCEPT ![w] = "idle"]
  /\ slot' = [slot EXCEPT ![w] = NoSlot]
  /\ UNCHANGED <<relayVars, queue, window, ledger, times>>
-----------------------------------------------------------------------------
RelayStep(r) == Claim(r) \/ SendEffects(r) \/ Publish(r) \/ Stamp(r)

WorkerStep(w) ==
  \/ \E s \in Slot : Receive(w, s)
  \/ RejectPoison(w) \/ ClaimEffect(w) \/ CommitEffect(w) \/ Complete(w)

Next ==
  \/ \E e \in Event : Append(e)
  \/ \E r \in Relay : RelayStep(r) \/ RelayFails(r)
  \/ \E i \in Id : WindowCloses(i)
  \/ \E s \in Slot : LockExpires(s)
  \/ \E w \in Worker : WorkerStep(w) \/ HandlerFails(w) \/ WorkerCrash(w)

Spec == Init /\ [][Next]_vars

\* Relay loops and receivers keep running.  A lock runs out only on a message
\* nobody finishes in time, so only a lock left by a dead worker must expire.
Abandoned(s) == queue[s].state = "locked" /\ \A w \in Worker : slot[w] # s

Fairness ==
  /\ \A r \in Relay : WF_vars(RelayStep(r))
  /\ \A w \in Worker : WF_vars(WorkerStep(w))
  /\ \A s \in Slot : WF_vars(Abandoned(s) /\ LockExpires(s))

FairSpec == Spec /\ Fairness
-----------------------------------------------------------------------------
\* Type invariant of the outbox, the relays, the queue and the consumers.
TypeOK ==
  /\ row \in [Event -> {"none", "recorded", "published"}]
  /\ pc \in [Relay -> {"idle", "effects", "publish", "stamp"}]
  /\ batch \in [Relay -> SUBSET Event]
  /\ topic \subseteq Event
  /\ queue \in [Slot -> SlotState]
  /\ window \subseteq Id
  /\ at \in [Worker -> {"idle", "received", "acting", "done"}]
  /\ slot \in [Worker -> Slot \cup {NoSlot}]
  /\ ledger \subseteq Id
  /\ times \in [Message -> Nat]
  /\ failures \in Nat

\* The consumption ledger: however often an effect's message is sent, delivered
\* or handled at the same time, its writes are committed at most once.
EffectAtMostOnce == \A m \in Message : times[m] <= 1

\* No event names one effect twice.
OneNamePerEvent == \A m, n \in Message : IdOf[m] = IdOf[n] => m = n

\* effects-fanout: "an event published without its effects would look complete
\* to every subscriber while nothing happened".  Once an event is on the topic or
\* stamped, each of its effects has happened or is still with the broker, also
\* when duplicate detection dropped a message of the replayed batch.
PublishedEffectsAreKept ==
  \A m \in Message :
    (EventOf[m] \in topic \/ row[EventOf[m]] = "published") =>
      (times[m] > 0 \/ Held(queue, m))

\* The outbox: every committed fact is eventually published and each of its
\* effects eventually happens or waits on the dead-letter queue.
Settled(m) == times[m] > 0 \/ \E k \in 1 .. MaxCopies : queue[<<m, k>>].state = "dead"

EveryFactSettles ==
  \A e \in Event : row[e] = "recorded" ~>
    (row[e] = "published" /\ \A m \in Message : EventOf[m] = e => Settled(m))

\* The implementation of EffectLedger: a fact is recorded when its row exists.
Ledger == INSTANCE EffectLedger WITH recorded <- { e \in Event : row[e] # "none" }

ImplementsEffectLedger == Ledger!Spec
=============================================================================
