------------------------- MODULE TimedEffectsProofs -------------------------
(***************************************************************************)
(* Proofs about the two components that chase people by timer, for every   *)
(* set of workers and every bound.                                         *)
(*                                                                         *)
(* ReminderSeries: for any number of timers, occurrences, failures and     *)
(* moved deadlines.  AtMostOneAfterCompletion rests on the frontier: the   *)
(* keys taken are 1 .. n and no timer is beyond n + 1, so of all handlers  *)
(* that may still chase, the first to commit takes the only key that is    *)
(* left.  SeriesAlive rests on Reaches: each timer that is enqueued, or    *)
(* sent and not yet stamped, has a message, unless that overtook it.       *)
(*                                                                         *)
(* NotificationDispatch: for any number of deliveries, retries and losses. *)
(* FailureNeverSilent rests on Pursuit: what is outstanding is in the      *)
(* hands of a handler, or awaits the dispatch or a retry timer.  Without   *)
(* overlapping handlers one at most is past its claim (InTurn), and what   *)
(* it read is what the rows still say (Current).                           *)
(***************************************************************************)
EXTENDS ReminderSeries, NotificationDispatch, TLAPS
-----------------------------------------------------------------------------
(***************************************************************************)
(* ReminderSeries.                                                         *)
(***************************************************************************)
LEMMA SlotFacts ==
  ASSUME NEW s \in Slot
  PROVE  s[1] \in Message /\ s[2] \in 1 .. MaxCopies /\ s = <<s[1], s[2]>>
BY DEF Slot

\* Every broker operation maps queues to queues.
LEMMA QueueType ==
  ASSUME NEW q \in [Slot -> SlotState], NEW s \in Slot, NEW w \in Worker \cup {NoWorker}, NEW ms
  PROVE  /\ Sent(q, ms) \in [Slot -> SlotState]
         /\ q[s].state = "ready" /\ q[s].tries # MaxDeliveries =>
              Received(q, s, w) \in [Slot -> SlotState]
         /\ Released(q, s) \in [Slot -> SlotState]
         /\ Completed(q, s, w) \in [Slot -> SlotState]
         /\ DeadLettered(q, s, w) \in [Slot -> SlotState]
<1>1. q[s] \in SlotState
  OBVIOUS
<1>2. EmptySlot \in SlotState /\ NewCopy \in SlotState
  BY DeliveriesAssumption DEF EmptySlot, NewCopy, SlotState
<1>3. Sent(q, ms) \in [Slot -> SlotState]
  BY <1>2 DEF Sent
<1>4. ASSUME q[s].tries # MaxDeliveries
      PROVE  Received(q, s, w) \in [Slot -> SlotState]
  <2> DEFINE new == [state |-> "locked", tries |-> q[s].tries + 1, holder |-> w]
  <2>1. new \in SlotState
    BY <1>1, <1>4, DeliveriesAssumption DEF SlotState
  <2> HIDE DEF new
  <2>2. QED
    BY <2>1 DEF Received, new
<1>5. Released(q, s) \in [Slot -> SlotState]
  <2> DEFINE new == [state |-> IF q[s].tries = MaxDeliveries THEN "dead" ELSE "ready",
                     tries |-> q[s].tries, holder |-> NoWorker]
  <2>1. new \in SlotState
    BY <1>1 DEF SlotState
  <2> HIDE DEF new
  <2>2. QED
    BY <2>1 DEF Released, new
<1>6. Completed(q, s, w) \in [Slot -> SlotState]
  BY <1>2 DEF Completed
<1>7. DeadLettered(q, s, w) \in [Slot -> SlotState]
  <2> DEFINE new == [state |-> "dead", tries |-> q[s].tries, holder |-> NoWorker]
  <2>1. new \in SlotState
    BY <1>1 DEF SlotState
  <2> HIDE DEF new
  <2>2. QED
    BY <2>1 DEF DeadLettered, new
<1>8. QED
  BY <1>3, <1>4, <1>5, <1>6, <1>7

\* ... and no operation makes a message available that has no deliveries left.
LEMMA QueueTries ==
  ASSUME NEW q \in [Slot -> SlotState], NEW s \in Slot, NEW w \in Worker \cup {NoWorker}, NEW ms,
         \A x \in Slot : q[x].state = "ready" => q[x].tries # MaxDeliveries,
         NEW p \in {Sent(q, ms), Received(q, s, w), Released(q, s),
                    Completed(q, s, w), DeadLettered(q, s, w)},
         NEW x \in Slot, p[x].state = "ready"
  PROVE  p[x].tries # MaxDeliveries
<1>1. CASE p = Sent(q, ms)
  BY <1>1, DeliveriesAssumption DEF Sent, NewCopy
<1>2. CASE p = Received(q, s, w)
  BY <1>2 DEF Received
<1>3. CASE p = Released(q, s)
  BY <1>3 DEF Released
<1>4. CASE p = Completed(q, s, w)
  BY <1>4 DEF Completed, EmptySlot
<1>5. CASE p = DeadLettered(q, s, w)
  BY <1>5 DEF DeadLettered
<1>6. QED
  BY <1>1, <1>2, <1>3, <1>4, <1>5

\* A handler past "idle" holds a message, a message out of deliveries is not
\* delivered, a timer that exists has an occurrence, a claimed one was enqueued.
HandlersOK == \A w \in Worker : at[w] # "idle" => slot[w] \in Slot
TriesOK    == \A s \in Slot : queue[s].state = "ready" => queue[s].tries # MaxDeliveries
RowsOK     == \A r \in Row : row[r].status # "none" => row[r].occ \in Occurrence
Busy(w)    == at[w] \in {"chasing", "stopping"}
ChasersOK  == \A w \in Worker : Busy(w) => row[TimerOf(w)].status \in {"enqueued", "executed"}

TInv == TypeOK /\ HandlersOK /\ TriesOK /\ RowsOK /\ ChasersOK

LEMMA RowFacts == Message = Row /\ \A s \in Slot : s[1] \in Row
BY RowsAssumption, SlotFacts DEF Row

LEMMA StampedFacts ==
  ASSUME NEW table \in [Row -> RowState], NEW rs, NEW s \in {"enqueued", "executed", "cancelled"}
  PROVE  /\ Stamped(table, rs, s) \in [Row -> RowState]
         /\ \A r \in Row :
              /\ Stamped(table, rs, s)[r].occ = table[r].occ
              /\ Stamped(table, rs, s)[r].status = IF r \in rs THEN s ELSE table[r].status
BY DEF Stamped, RowState

LEMMA ScheduledFacts ==
  ASSUME NEW table \in [Row -> RowState], Unused(table) # {}, NEW o \in Occurrence
  PROVE  /\ Scheduled(table, o) \in [Row -> RowState]
         /\ \E f \in Row :
              /\ table[f].status = "none"
              /\ Scheduled(table, o)[f].status = "pending" /\ Scheduled(table, o)[f].occ = o
              /\ \A r \in Row \ {f} : Scheduled(table, o)[r] = table[r]
<1> DEFINE f == CHOOSE r \in Unused(table) : TRUE
           new == [status |-> "pending", occ |-> o]
<1>1. f \in Row /\ table[f].status = "none"
  BY DEF Unused
<1>2. new \in RowState
  BY SeriesAssumption DEF RowState, Occurrence
<1>3. Scheduled(table, o) = [table EXCEPT ![f] = new]
  BY DEF Scheduled
<1> HIDE DEF f
<1>4. QED
  BY <1>1, <1>2, <1>3

\* What a step may do to a timer: keep it (with its occurrence), or create it.
Kept(r) ==
  /\ row'[r].occ = row[r].occ
  /\ row[r].status = "none" <=> row'[r].status = "none"
  /\ row[r].status \in {"enqueued", "executed"} => row'[r].status \in {"enqueued", "executed"}

Born(r) ==
  /\ row[r].status = "none"
  /\ row'[r].status = "pending"
  /\ row'[r].occ \in Occurrence
  /\ row'[r].occ = 1 \/ row'[r].occ - 1 \in keys'

RowStep == row' \in [Row -> RowState] /\ \A r \in Row : Kept(r) \/ Born(r)

LEMMA CancelledFacts ==
  ASSUME TInv
  PROVE  /\ Cancelled \in [Row -> RowState]
         /\ \A r \in Row :
              /\ Cancelled[r].occ = row[r].occ
              /\ Cancelled[r].status # row[r].status =>
                   row[r].status = "pending" /\ Cancelled[r].status = "cancelled"
BY StampedFacts DEF TInv, TypeOK, Cancelled, Pending

LEMMA FinishRows == TInv /\ FinishTask => RowStep
BY CancelledFacts DEF FinishTask, RowStep, Kept

LEMMA RecomputeRows == TInv /\ Recompute => RowStep
<1> SUFFICES ASSUME TInv, Recompute PROVE RowStep
  OBVIOUS
<1>1. row' = Scheduled(Cancelled, 1) /\ Unused(row) # {}
  BY DEF Recompute, HasRoom
<1>2. Unused(Cancelled) # {}
  BY <1>1, CancelledFacts DEF Unused
<1>3. 1 \in Occurrence
  BY SeriesAssumption DEF Occurrence
<1>4. PICK f \in Row :
        /\ Cancelled[f].status = "none"
        /\ row'[f].status = "pending" /\ row'[f].occ = 1
        /\ \A r \in Row \ {f} : row'[r] = Cancelled[r]
  BY <1>1, <1>2, <1>3, CancelledFacts, ScheduledFacts
<1>5. Born(f)
  BY <1>3, <1>4, CancelledFacts DEF Born
<1>6. \A r \in Row \ {f} : Kept(r)
  BY <1>4, CancelledFacts DEF Kept
<1>7. row' \in [Row -> RowState]
  BY <1>1, <1>2, <1>3, CancelledFacts, ScheduledFacts
<1>8. QED
  BY <1>5, <1>6, <1>7 DEF RowStep

LEMMA StampRows == TInv /\ Stamp => RowStep
BY StampedFacts DEF TInv, TypeOK, Stamp, Pending, RowStep, Kept

\* A busy handler's timer is a timer that exists.
LEMMA ChaserFacts ==
  ASSUME TInv, NEW w \in Worker, Busy(w)
  PROVE  /\ TimerOf(w) \in Row
         /\ row[TimerOf(w)].status \in {"enqueued", "executed"}
         /\ row[TimerOf(w)].occ \in Occurrence
BY RowFacts DEF TInv, HandlersOK, ChasersOK, RowsOK, Busy, TimerOf

LEMMA ExecutedFacts ==
  ASSUME TInv, NEW w \in Worker, Busy(w)
  PROVE  /\ Executed(TimerOf(w)) \in [Row -> RowState]
         /\ \A r \in Row :
              /\ Executed(TimerOf(w))[r].occ = row[r].occ
              /\ Executed(TimerOf(w))[r].status =
                   IF r = TimerOf(w) THEN "executed" ELSE row[r].status
BY StampedFacts DEF TInv, TypeOK, Executed

LEMMA StopRows ==
  ASSUME TInv, NEW w \in Worker, StopSeries(w)
  PROVE  RowStep
<1>1. Busy(w)
  BY DEF StopSeries, Busy
<1>2. QED
  BY <1>1, ChaserFacts, ExecutedFacts DEF StopSeries, RowStep, Kept

LEMMA ChaseRows ==
  ASSUME TInv, NEW w \in Worker, Chase(w)
  PROVE  RowStep
<1> DEFINE t == TimerOf(w)
           o == row[t].occ
<1>1. Busy(w)
  BY DEF Chase, Busy
<1>2. /\ t \in Row /\ o \in Occurrence /\ row[t].status \in {"enqueued", "executed"}
      /\ keys' = keys \cup {o}
  BY <1>1, ChaserFacts DEF Chase
<1>3. CASE ~AnotherAllowed(o)
  <2>1. row' = Executed(t)
    BY <1>3 DEF Chase
  <2>2. QED
    BY <1>1, <1>2, <2>1, ExecutedFacts DEF RowStep, Kept
<1>4. CASE AnotherAllowed(o)
  <2>1. row' = Scheduled(Executed(t), o + 1) /\ Unused(row) # {}
    BY <1>4 DEF Chase, HasRoom
  <2>2. o + 1 \in Occurrence
    BY <1>2, <1>4, SeriesAssumption DEF AnotherAllowed, Occurrence
  <2>3. Unused(Executed(t)) # {}
    BY <1>1, <1>2, <2>1, ExecutedFacts DEF Unused
  <2>4. PICK f \in Row :
          /\ Executed(t)[f].status = "none"
          /\ row'[f].status = "pending" /\ row'[f].occ = o + 1
          /\ \A r \in Row \ {f} : row'[r] = Executed(t)[r]
    BY <1>1, <2>1, <2>2, <2>3, ExecutedFacts, ScheduledFacts
  <2>5. (o + 1) - 1 = o
    BY <1>2 DEF Occurrence
  <2>6. Born(f)
    BY <1>1, <1>2, <2>2, <2>4, <2>5, ExecutedFacts DEF Born
  <2>7. \A r \in Row \ {f} : Kept(r)
    BY <1>1, <1>2, <2>4, ExecutedFacts DEF Kept
  <2>8. row' \in [Row -> RowState]
    BY <1>1, <2>1, <2>2, <2>3, ExecutedFacts, ScheduledFacts
  <2>9. QED
    BY <2>6, <2>7, <2>8 DEF RowStep
<1>5. QED
  BY <1>3, <1>4
-----------------------------------------------------------------------------
\* The handlers' part: who is busy after the step was busy before it, with the
\* same message, or has just claimed a timer that is enqueued.
Entered(w) ==
  /\ slot'[w] = slot[w] /\ at[w] = "received"
  /\ row[TimerOf(w)].status = "enqueued" /\ row' = row

Carried(w) == slot'[w] = slot[w] /\ Busy(w)

HandlerStep ==
  /\ at' \in [Worker -> {"idle", "received", "chasing", "stopping", "done"}]
  /\ slot' \in [Worker -> Slot \cup {NoSlot}]
  /\ \A w \in Worker : at'[w] # "idle" => slot'[w] \in Slot
  /\ \A w \in Worker : Busy(w)' => Carried(w) \/ Entered(w)

LEMMA RowsPreserved ==
  ASSUME TInv, RowStep, HandlerStep
  PROVE  RowsOK' /\ ChasersOK'
<1>1. ASSUME NEW r \in Row, row'[r].status # "none"
      PROVE  row'[r].occ \in Occurrence
  BY <1>1 DEF TInv, RowsOK, RowStep, Kept, Born
<1>2. ASSUME NEW w \in Worker, Busy(w)'
      PROVE  row'[TimerOf(w)'].status \in {"enqueued", "executed"}
  <2>1. CASE Carried(w)
    <3>1. TimerOf(w)' = TimerOf(w) /\ Busy(w)
      BY <2>1 DEF Carried, TimerOf
    <3>2. QED
      BY <3>1, ChaserFacts DEF RowStep, Kept, Born
  <2>2. CASE Entered(w)
    BY <2>2 DEF Entered, TimerOf
  <2>3. QED
    BY <1>2, <2>1, <2>2 DEF HandlerStep
<1>3. QED
  BY <1>1, <1>2 DEF RowsOK, ChasersOK

\* What the step may do to the queue.
QueueStep ==
  /\ queue' \in [Slot -> SlotState]
  /\ \A s \in Slot : queue'[s].state = "ready" => queue'[s].tries # MaxDeliveries

LEMMA QueueStepBy ==
  ASSUME TInv, NEW s \in Slot, NEW w \in Worker \cup {NoWorker}, NEW ms,
         queue' \in {queue, Sent(queue, ms), Released(queue, s), Completed(queue, s, w)}
                   \cup {q \in {Received(queue, s, w)} : queue[s].state = "ready"}
  PROVE  QueueStep
<1>1. /\ queue \in [Slot -> SlotState]
      /\ \A x \in Slot : queue[x].state = "ready" => queue[x].tries # MaxDeliveries
  BY DEF TInv, TypeOK, TriesOK
<1>2. queue' \in [Slot -> SlotState]
  <2>1. CASE queue' = Received(queue, s, w) /\ queue[s].state = "ready"
    BY <1>1, <2>1, QueueType
  <2>2. CASE queue' \in {queue, Sent(queue, ms), Released(queue, s), Completed(queue, s, w)}
    <3>1. /\ Sent(queue, ms) \in [Slot -> SlotState]
          /\ Released(queue, s) \in [Slot -> SlotState]
          /\ Completed(queue, s, w) \in [Slot -> SlotState]
      BY <1>1, QueueType
    <3>2. QED
      BY <1>1, <2>2, <3>1
  <2>3. QED
    BY <2>1, <2>2
<1>3. QED
  BY <1>1, <1>2, QueueTries DEF QueueStep

LEMMA QueueKept == TInv /\ queue' = queue => QueueStep
BY DEF TInv, TypeOK, TriesOK, QueueStep

LEMMA HandlersKept ==
  TInv /\ UNCHANGED workerVars => HandlerStep
BY DEF TInv, TypeOK, HandlersOK, HandlerStep, workerVars, Carried, Busy

LEMMA RowsKept == TInv /\ row' = row => RowStep
BY DEF TInv, TypeOK, RowStep, Kept

\* The rest of the state.
RestStep ==
  /\ task' \in {"outstanding", "finished"}
  /\ tx' \in {"none", "finish", "recompute"}
  /\ doomed' \subseteq Row
  /\ pc' \in {"idle", "send", "stamp"}
  /\ batch' \subseteq Row
  /\ window' \subseteq Row
  /\ keys' \subseteq Occurrence /\ overtaken' \subseteq Row
  /\ late' \in Nat /\ recomputes' \in Nat /\ failures' \in Nat

LEMMA StepTInv ==
  ASSUME TInv, RowStep, HandlerStep, QueueStep, RestStep
  PROVE  TInv'
<1>1. TypeOK'
  BY DEF RowStep, HandlerStep, QueueStep, RestStep, TypeOK
<1>2. HandlersOK' /\ TriesOK'
  BY DEF HandlerStep, QueueStep, HandlersOK, TriesOK
<1>3. QED
  BY <1>1, <1>2, RowsPreserved DEF TInv

\* The frontier, and what is left of it once a chase has followed completion.
FrontierOK ==
  \E n \in 0 .. MaxOccurrences :
    keys = 1 .. n /\ \A r \in Row : row[r].occ <= n + 1

LateOK ==
  \/ late = 0
  \/ /\ late = 1 /\ task = "finished"
     /\ \A w \in Worker : at[w] = "chasing" => row[TimerOf(w)].occ \in keys

IInv == TInv /\ FrontierOK /\ LateOK

\* Everything but a chase: no key is taken, nobody starts to chase a finished task.
QuietStep ==
  /\ UNCHANGED chaseVars
  /\ task = "finished" => task' = "finished"
  /\ \A w \in Worker :
       at'[w] = "chasing" => task = "outstanding" \/ (at[w] = "chasing" /\ slot'[w] = slot[w])

Step == RowStep /\ HandlerStep /\ QueueStep /\ RestStep

LEMMA QuietIInv ==
  ASSUME IInv, Step, QuietStep
  PROVE  IInv'
<1>1. TInv /\ TInv'
  BY StepTInv DEF IInv, Step
<1>2. keys' = keys /\ late' = late
  BY DEF QuietStep, chaseVars
<1>3. FrontierOK'
  <2>1. PICK n \in 0 .. MaxOccurrences : keys = 1 .. n /\ \A r \in Row : row[r].occ <= n + 1
    BY DEF IInv, FrontierOK
  <2>2. ASSUME NEW r \in Row PROVE row'[r].occ <= n + 1
    <3>1. CASE Kept(r)
      BY <2>1, <3>1 DEF Kept
    <3>2. CASE Born(r)
      <4>1. row'[r].occ \in Nat
        BY <3>2 DEF Born, Occurrence
      <4>2. row'[r].occ = 1 \/ row'[r].occ - 1 \in 1 .. n
        BY <1>2, <2>1, <3>2 DEF Born
      <4>3. QED
        BY <4>1, <4>2
    <3>3. QED
      BY <3>1, <3>2 DEF Step, RowStep
  <2>3. QED
    BY <1>2, <2>1, <2>2 DEF FrontierOK
<1>4. LateOK'
  <2>1. CASE late = 0
    BY <1>2, <2>1 DEF LateOK
  <2>2. CASE late # 0
    <3>1. /\ late = 1 /\ task = "finished" /\ task' = "finished"
          /\ \A w \in Worker : at[w] = "chasing" => row[TimerOf(w)].occ \in keys
      BY <2>2 DEF IInv, LateOK, QuietStep
    <3>2. ASSUME NEW w \in Worker, at'[w] = "chasing"
          PROVE  row'[TimerOf(w)'].occ \in keys
      <4>1. at[w] = "chasing" /\ TimerOf(w)' = TimerOf(w) /\ Busy(w)
        BY <3>1, <3>2 DEF QuietStep, TimerOf, Busy
      <4>2. TimerOf(w) \in Row /\ row[TimerOf(w)].status # "none"
        BY <1>1, <4>1, ChaserFacts
      <4>3. row'[TimerOf(w)].occ = row[TimerOf(w)].occ
        BY <4>2 DEF Step, RowStep, Kept, Born
      <4>4. QED
        BY <3>1, <4>1, <4>3
    <3>3. QED
      BY <1>2, <3>1, <3>2 DEF LateOK
  <2>3. QED
    BY <2>1, <2>2
<1>5. QED
  BY <1>1, <1>3, <1>4 DEF IInv

\* A chase takes the next key, and leaves no other handler a key to take.
LEMMA ChaseIInv ==
  ASSUME IInv, NEW w \in Worker, Chase(w), Step
  PROVE  IInv'
<1> DEFINE o == row[TimerOf(w)].occ
<1>1. TInv /\ TInv' /\ Busy(w)
  BY StepTInv DEF IInv, Step, Chase, Busy
<1>2. TimerOf(w) \in Row /\ o \in Occurrence /\ o \notin keys /\ keys' = keys \cup {o}
  BY <1>1, ChaserFacts DEF Chase, KeyTaken
<1>3. PICK n \in 0 .. MaxOccurrences : keys = 1 .. n /\ \A r \in Row : row[r].occ <= n + 1
  BY DEF IInv, FrontierOK
<1>4. o = n + 1 /\ n + 1 \in 0 .. MaxOccurrences /\ keys' = 1 .. (n + 1)
  BY <1>2, <1>3 DEF Occurrence
<1>5. ASSUME NEW r \in Row PROVE row'[r].occ <= (n + 1) + 1
  <2>1. row[r].occ \in Nat
    BY <1>1 DEF TInv, TypeOK, RowState
  <2>2. CASE Kept(r)
    BY <1>3, <2>1, <2>2 DEF Kept
  <2>3. CASE Born(r)
    <3>1. row'[r].occ \in Nat
      BY <2>3 DEF Born, Occurrence
    <3>2. row'[r].occ = 1 \/ row'[r].occ - 1 \in 1 .. (n + 1)
      BY <1>4, <2>3 DEF Born
    <3>3. QED
      BY <3>1, <3>2
  <2>4. QED
    BY <2>2, <2>3 DEF Step, RowStep
<1>6. FrontierOK'
  BY <1>4, <1>5 DEF FrontierOK
<1>7. LateOK'
  <2>1. task' = task /\ late' = IF task = "finished" THEN late + 1 ELSE late
    BY DEF Chase, taskVars
  <2>2. CASE task # "finished"
    <3>1. late = 0
      BY <2>2 DEF IInv, LateOK
    <3>2. QED
      BY <2>1, <2>2, <3>1 DEF LateOK
  <2>3. CASE task = "finished"
    <3>1. late = 0
      BY <1>2 DEF IInv, LateOK, Chase
    <3>2. ASSUME NEW v \in Worker, at'[v] = "chasing"
          PROVE  row'[TimerOf(v)'].occ \in keys'
      <4>1. at[v] = "chasing" /\ TimerOf(v)' = TimerOf(v) /\ Busy(v)
        BY <1>1, <3>2 DEF Chase, TimerOf, Busy, TInv, TypeOK
      <4>2. TimerOf(v) \in Row /\ row[TimerOf(v)].status # "none" /\ row[TimerOf(v)].occ \in Occurrence
        BY <1>1, <4>1, ChaserFacts
      <4>3. row'[TimerOf(v)].occ = row[TimerOf(v)].occ
        BY <4>2 DEF Step, RowStep, Kept, Born
      <4>4. row[TimerOf(v)].occ \in 1 .. (n + 1)
        BY <1>3, <4>2 DEF Occurrence
      <4>5. QED
        BY <1>4, <4>1, <4>3, <4>4
    <3>3. QED
      BY <2>1, <2>3, <3>1, <3>2 DEF LateOK
  <2>4. QED
    BY <2>2, <2>3
<1>8. QED
  BY <1>1, <1>6, <1>7 DEF IInv
-----------------------------------------------------------------------------
\* The transactions on the task, the scheduler and the broker leave the handlers.
LEMMA TaskSteps ==
  ASSUME TInv, NEW kind \in {"finish", "recompute"}, TouchTask(kind) \/ FinishTask \/ Recompute
  PROVE  Step /\ QuietStep
<1>1. RowStep
  BY FinishRows, RecomputeRows, RowsKept DEF TouchTask
<1>2. HandlerStep
  BY HandlersKept DEF TouchTask, FinishTask, Recompute
<1>3. QueueStep
  BY QueueKept DEF TouchTask, FinishTask, Recompute
<1>4. RestStep
  BY DEF TouchTask, FinishTask, Recompute, RestStep, TInv, TypeOK, Pending, sender, chaseVars
<1>5. QuietStep
  BY DEF TouchTask, FinishTask, Recompute, QuietStep, TInv, TypeOK, workerVars, chaseVars
<1>6. QED
  BY <1>1, <1>2, <1>3, <1>4, <1>5 DEF Step

LEMMA SchedulerSteps ==
  ASSUME TInv, SchedulerStep \/ SchedulerFails
  PROVE  Step /\ QuietStep
<1> USE DEF SchedulerStep
<1>1. RowStep
  BY StampRows, RowsKept DEF LockDue, Send, SchedulerFails
<1>2. HandlerStep
  BY HandlersKept DEF LockDue, Send, Stamp, SchedulerFails
<1>3. QueueStep
  <2>1. CASE Send
    <3>1. PICK ms : queue' = Sent(queue, ms)
      BY <2>1 DEF Send
    <3>2. <<1, 1>> \in Slot
      BY RowsAssumption, CopiesAssumption DEF Slot
    <3>3. QED
      BY <3>1, <3>2, QueueStepBy
  <2>2. CASE LockDue \/ Stamp \/ SchedulerFails
    BY <2>2, QueueKept DEF LockDue, Stamp, SchedulerFails
  <2>3. QED
    BY <2>1, <2>2
<1>4. RestStep
  BY DEF LockDue, Send, Stamp, SchedulerFails, Fail, RestStep, TInv, TypeOK, Pending,
         taskVars, chaseVars
<1>5. QuietStep
  BY DEF LockDue, Send, Stamp, SchedulerFails, QuietStep, TInv, TypeOK, taskVars,
         workerVars, chaseVars
<1>6. QED
  BY <1>1, <1>2, <1>3, <1>4, <1>5 DEF Step

LEMMA BrokerSteps ==
  ASSUME TInv, NEW s \in Slot, NEW r \in Row, WindowCloses(r) \/ LockExpires(s)
  PROVE  Step /\ QuietStep
<1>1. RowStep /\ HandlerStep
  BY HandlersKept, RowsKept DEF WindowCloses, LockExpires
<1>2. QueueStep
  <2>1. queue' \in {queue, Released(queue, s)}
    BY DEF WindowCloses, LockExpires
  <2>2. QED
    BY <2>1, QueueStepBy
<1>3. RestStep
  BY DEF WindowCloses, LockExpires, Fail, RestStep, TInv, TypeOK, taskVars, sender, chaseVars
<1>4. QuietStep
  BY DEF WindowCloses, LockExpires, QuietStep, TInv, TypeOK, taskVars, workerVars, chaseVars
<1>5. QED
  BY <1>1, <1>2, <1>3, <1>4 DEF Step

\* The steps of a handler that write no timer and no key.
LEMMA QuietHandlerSteps ==
  ASSUME TInv, NEW w \in Worker,
         (\E s \in Slot : Receive(w, s)) \/ Claim(w) \/ ChaseRefused(w) \/ Complete(w)
           \/ HandlerFails(w) \/ WorkerCrash(w)
  PROVE  Step /\ QuietStep
<1> USE DEF Abandon, Freed
<1>1. RowStep
  BY RowsKept DEF Receive, Claim, ChaseRefused, Complete, HandlerFails, WorkerCrash
<1>2. HandlerStep
  <2>1. CASE Claim(w)
    <3>1. row' = row /\ slot' = slot /\ at[w] = "received"
      BY <2>1 DEF Claim
    <3>2. /\ at' \in [Worker -> {"idle", "received", "chasing", "stopping", "done"}]
          /\ \A v \in Worker \ {w} : at'[v] = at[v]
          /\ Busy(w)' => row[TimerOf(w)].status = "enqueued"
      BY <2>1 DEF Claim, TInv, TypeOK, Busy
    <3>3. \A v \in Worker : Busy(v)' => Carried(v) \/ Entered(v)
      BY <3>1, <3>2 DEF Busy, Carried, Entered
    <3>4. QED
      BY <3>1, <3>2, <3>3 DEF HandlerStep, TInv, TypeOK, HandlersOK
  <2>2. ASSUME NEW s \in Slot, Receive(w, s) PROVE HandlerStep
    BY <2>2 DEF Receive, TInv, TypeOK, HandlersOK, HandlerStep, Carried, Busy
  <2>3. CASE ChaseRefused(w) \/ Complete(w) \/ HandlerFails(w) \/ WorkerCrash(w)
    <3>1. at' = [at EXCEPT ![w] = "idle"] /\ slot' = [slot EXCEPT ![w] = NoSlot]
      BY <2>3 DEF ChaseRefused, Complete, HandlerFails, WorkerCrash
    <3>2. QED
      BY <3>1 DEF TInv, TypeOK, HandlersOK, HandlerStep, Carried, Busy
  <2>4. QED
    BY <2>1, <2>2, <2>3
<1>3. QueueStep
  <2>1. ASSUME NEW s \in Slot, Receive(w, s) PROVE QueueStep
    BY <2>1, QueueStepBy DEF Receive
  <2>2. CASE Claim(w) \/ WorkerCrash(w)
    BY <2>2, QueueKept DEF Claim, WorkerCrash
  <2>3. CASE ChaseRefused(w) \/ Complete(w) \/ HandlerFails(w)
    <3>1. slot[w] \in Slot
      BY <2>3 DEF ChaseRefused, Complete, HandlerFails, TInv, HandlersOK
    <3>2. queue' \in {queue, Released(queue, slot[w]), Completed(queue, slot[w], w)}
      BY <2>3 DEF ChaseRefused, Complete, HandlerFails
    <3>3. QED
      BY <3>1, <3>2, QueueStepBy
  <2>4. QED
    BY <2>1, <2>2, <2>3
<1>4. RestStep
  BY DEF Receive, Claim, ChaseRefused, Complete, HandlerFails, WorkerCrash, Fail, RestStep,
         TInv, TypeOK, Pending, taskVars, sender, chaseVars
<1>5. QuietStep
  <2>1. UNCHANGED <<task, chaseVars>>
    BY DEF Receive, Claim, ChaseRefused, Complete, HandlerFails, WorkerCrash, taskVars, chaseVars
  <2>2. ASSUME NEW v \in Worker, at'[v] = "chasing"
        PROVE  task = "outstanding" \/ (at[v] = "chasing" /\ slot'[v] = slot[v])
    <3>1. CASE Claim(w) /\ v = w
      BY <2>2, <3>1 DEF Claim, Over, TInv, TypeOK
    <3>2. CASE Claim(w) /\ v # w
      BY <2>2, <3>2 DEF Claim, TInv, TypeOK
    <3>3. CASE ~Claim(w)
      BY <2>2, <3>3 DEF Receive, ChaseRefused, Complete, HandlerFails, WorkerCrash, TInv, TypeOK
    <3>4. QED
      BY <3>1, <3>2, <3>3
  <2>3. QED
    BY <2>1, <2>2 DEF QuietStep
<1>6. QED
  BY <1>1, <1>2, <1>3, <1>4, <1>5 DEF Step

\* The two that mark their timer executed.
LEMMA LoudHandlerSteps ==
  ASSUME TInv, NEW w \in Worker, StopSeries(w) \/ Chase(w)
  PROVE  Step /\ (StopSeries(w) => QuietStep)
<1>1. RowStep
  BY StopRows, ChaseRows
<1>2. at' = [at EXCEPT ![w] = "done"] /\ slot' = slot /\ at[w] # "idle" /\ Busy(w)
  BY DEF StopSeries, Chase, Busy
<1>3. HandlerStep
  BY <1>2 DEF TInv, TypeOK, HandlersOK, HandlerStep, Carried, Busy
<1>4. QueueStep
  BY QueueKept DEF StopSeries, Chase
<1>5. RestStep
  BY <1>2, ChaserFacts DEF StopSeries, Chase, RestStep, TInv, TypeOK, taskVars, sender, chaseVars
<1>6. StopSeries(w) => QuietStep
  BY <1>2 DEF StopSeries, QuietStep, TInv, TypeOK, taskVars, chaseVars
<1>7. QED
  BY <1>1, <1>3, <1>4, <1>5, <1>6 DEF Step
-----------------------------------------------------------------------------
LEMMA InitRows ==
  ASSUME Init
  PROVE  /\ row \in [Row -> RowState]
         /\ \E f \in Row :
              /\ row[f].status = "pending" /\ row[f].occ = 1
              /\ \A r \in Row \ {f} : row[r].status = "none" /\ row[r].occ = 0
<1> DEFINE empty == [r \in Row |-> [status |-> "none", occ |-> 0]]
<1>1. 1 \in Row /\ 1 \in Occurrence
  BY RowsAssumption, SeriesAssumption DEF Row, Occurrence
<1>2. empty \in [Row -> RowState]
  BY SeriesAssumption DEF RowState
<1>3. 1 \in Unused(empty)
  BY <1>1 DEF Unused
<1>4. row = Scheduled(empty, 1)
  BY DEF Init
<1>5. \A r \in Row : empty[r].status = "none" /\ empty[r].occ = 0
  OBVIOUS
<1> HIDE DEF empty
<1>6. QED
  BY <1>1, <1>2, <1>3, <1>4, <1>5, ScheduledFacts

LEMMA InitIInv == Init => IInv
<1> SUFFICES ASSUME Init PROVE IInv
  OBVIOUS
<1>1. 1 \in Occurrence
  BY SeriesAssumption DEF Occurrence
<1>2. row \in [Row -> RowState]
  BY InitRows
<1>3. \A r \in Row : row[r].occ \in {0, 1} /\ (row[r].status # "none" => row[r].occ = 1)
  BY InitRows
<1>4. queue \in [Slot -> SlotState] /\ TriesOK
  BY DeliveriesAssumption DEF Init, EmptyQueue, EmptySlot, SlotState, TriesOK
<1>5. TypeOK
  BY <1>2, <1>4 DEF Init, TypeOK
<1>6. HandlersOK /\ RowsOK /\ ChasersOK
  BY <1>1, <1>3 DEF Init, HandlersOK, RowsOK, ChasersOK, Busy
<1>7. FrontierOK
  <2>1. 0 \in 0 .. MaxOccurrences /\ keys = 1 .. 0
    BY SeriesAssumption DEF Init
  <2>2. QED
    BY <1>3, <2>1 DEF FrontierOK
<1>8. QED
  BY <1>4, <1>5, <1>6, <1>7 DEF Init, IInv, TInv, LateOK

LEMMA NextIInv == IInv /\ [Next]_vars => IInv'
<1> SUFFICES ASSUME IInv, [Next]_vars PROVE IInv'
  OBVIOUS
<1>0. TInv
  BY DEF IInv
<1>1. ASSUME NEW w \in Worker, WorkerStep(w) \/ HandlerFails(w) \/ WorkerCrash(w)
      PROVE  IInv'
  <2>1. CASE Chase(w)
    BY <1>0, <2>1, LoudHandlerSteps, ChaseIInv
  <2>2. CASE StopSeries(w)
    BY <1>0, <2>2, LoudHandlerSteps, QuietIInv
  <2>3. CASE ~Chase(w) /\ ~StopSeries(w)
    BY <1>0, <1>1, <2>3, QuietHandlerSteps, QuietIInv DEF WorkerStep
  <2>4. QED
    BY <2>1, <2>2, <2>3
<1>2. ASSUME NEW s \in Slot, LockExpires(s) PROVE IInv'
  <2>1. 1 \in Row
    BY RowsAssumption DEF Row
  <2>2. QED
    BY <1>0, <1>2, <2>1, BrokerSteps, QuietIInv
<1>3. ASSUME NEW r \in Row, WindowCloses(r) PROVE IInv'
  <2>1. <<1, 1>> \in Slot
    BY RowsAssumption, CopiesAssumption DEF Slot
  <2>2. QED
    BY <1>0, <1>3, <2>1, BrokerSteps, QuietIInv
<1>4. CASE SchedulerStep \/ SchedulerFails
  BY <1>0, <1>4, SchedulerSteps, QuietIInv
<1>5. CASE TaskStep \/ \E kind \in {"finish", "recompute"} : TouchTask(kind)
  <2>1. PICK kind \in {"finish", "recompute"} : TouchTask(kind) \/ FinishTask \/ Recompute
    BY <1>5 DEF TaskStep
  <2>2. QED
    BY <1>0, <2>1, TaskSteps, QuietIInv
<1>6. CASE UNCHANGED vars
  <2>1. Step /\ QuietStep
    <3>1. RowStep /\ HandlerStep /\ QueueStep
      BY <1>0, <1>6, RowsKept, HandlersKept, QueueKept DEF vars
    <3>2. RestStep /\ QuietStep
      BY <1>0, <1>6 DEF vars, taskVars, sender, workerVars, chaseVars, TInv, TypeOK, RestStep, QuietStep
    <3>3. QED
      BY <3>1, <3>2 DEF Step
  <2>2. QED
    BY <2>1, QuietIInv
<1>7. QED
  BY <1>1, <1>2, <1>3, <1>4, <1>5, <1>6 DEF Next

\* Every reachable state of the series is well typed; in particular no occurrence
\* is scheduled beyond the `until` valve and every key names an occurrence.
THEOREM TypeCorrect == Spec => []TypeOK
<1>1. IInv => TypeOK
  BY DEF IInv, TInv
<1>2. QED
  BY <1>1, InitIInv, NextIInv, PTL DEF Spec

\* cancelReminders' promise: a finished task is chased at most once more, for any
\* number of workers, redeliveries, moved deadlines and early deliveries.
THEOREM AlwaysAtMostOneAfter == Spec => []AtMostOneAfterCompletion
<1>1. IInv => AtMostOneAfterCompletion
  BY DEF IInv, LateOK, AtMostOneAfterCompletion
<1>2. QED
  BY <1>1, InitIInv, NextIInv, PTL DEF Spec
-----------------------------------------------------------------------------
\* As long as no deadline moves, the one timer to come is the one being handled.
OneTimer       == \A r, q \in Row : ToCome(r) /\ ToCome(q) => r = q
OnlyOneBusy    == \A v, w \in Worker : Busy(v) /\ Busy(w) => v = w
BusyOnEnqueued == \A w \in Worker : Busy(w) => row[TimerOf(w)].status = "enqueued"

Single == OneTimer /\ OnlyOneBusy /\ BusyOnEnqueued

SInv == IInv /\ (recomputes = 0 => Single)

\* The steps that create no timer, execute none and make nobody busy.
CalmStep ==
  /\ \A r \in Row : /\ ToCome(r)' => ToCome(r)
                    /\ row[r].status = "enqueued" => row'[r].status = "enqueued"
  /\ \A w \in Worker : Busy(w)' => Carried(w)

LEMMA CalmSingle ==
  ASSUME IInv, Single, CalmStep
  PROVE  Single'
<1>1. OneTimer'
  BY DEF Single, OneTimer, CalmStep
<1>2. OnlyOneBusy'
  BY DEF Single, OnlyOneBusy, CalmStep, Carried
<1>3. ASSUME NEW w \in Worker, Busy(w)'
      PROVE  row'[TimerOf(w)'].status = "enqueued"
  <2>1. Busy(w) /\ TimerOf(w)' = TimerOf(w)
    BY <1>3 DEF CalmStep, Carried, TimerOf
  <2>2. TimerOf(w) \in Row /\ row[TimerOf(w)].status = "enqueued"
    BY <2>1, ChaserFacts DEF Single, IInv, BusyOnEnqueued
  <2>3. QED
    BY <2>1, <2>2 DEF CalmStep
<1>4. QED
  BY <1>1, <1>2, <1>3 DEF Single, BusyOnEnqueued

\* A claim: whoever else is busy would be on the same, locked row.
LEMMA ClaimSingle ==
  ASSUME IInv, Single, NEW w \in Worker, Claim(w)
  PROVE  Single'
<1>1. row' = row /\ slot' = slot /\ at[w] = "received"
  BY DEF Claim
<1>2. \A v \in Worker \ {w} : at'[v] = at[v]
  BY DEF Claim, IInv, TInv, TypeOK
<1>3. CASE row[TimerOf(w)].status # "enqueued"
  <2>1. CalmStep
    BY <1>1, <1>2, <1>3 DEF Claim, CalmStep, ToCome, Busy, Carried, IInv, TInv, TypeOK
  <2>2. QED
    BY <2>1, CalmSingle
<1>4. CASE row[TimerOf(w)].status = "enqueued"
  <2>1. TimerOf(w) \in Row
    BY <1>1, RowFacts DEF IInv, TInv, HandlersOK, TimerOf
  <2>2. ASSUME NEW v \in Worker, Busy(v) PROVE FALSE
    <3>1. TimerOf(v) \in Row /\ row[TimerOf(v)].status = "enqueued"
      BY <2>2, ChaserFacts DEF Single, IInv, BusyOnEnqueued
    <3>2. TimerOf(v) = TimerOf(w)
      BY <1>4, <2>1, <3>1 DEF Single, OneTimer, ToCome
    <3>3. QED
      BY <2>2, <3>2 DEF Claim, RowLocked, Busy
  <2>3. \A v \in Worker : Busy(v)' => v = w
    BY <1>2, <2>2 DEF Busy
  <2>4. OnlyOneBusy'
    BY <2>3 DEF OnlyOneBusy
  <2>5. BusyOnEnqueued'
    BY <1>1, <1>4, <2>3 DEF BusyOnEnqueued, TimerOf
  <2>6. OneTimer'
    BY <1>1 DEF Single, OneTimer, ToCome
  <2>7. QED
    BY <2>4, <2>5, <2>6 DEF Single
<1>5. QED
  BY <1>3, <1>4

\* The one that is busy executes the one timer to come, and may schedule another.
LEMMA ExecuteSingle ==
  ASSUME IInv, Single, NEW w \in Worker, StopSeries(w) \/ Chase(w)
  PROVE  Single'
<1> DEFINE t == TimerOf(w)
           o == row[t].occ
<1>1. TInv /\ Busy(w)
  BY DEF IInv, StopSeries, Chase, Busy
<1>2. t \in Row /\ o \in Occurrence /\ row[t].status = "enqueued"
  BY <1>1, ChaserFacts DEF Single, BusyOnEnqueued
<1>3. \A v \in Worker : ~Busy(v)'
  BY <1>1 DEF StopSeries, Chase, Single, OnlyOneBusy, Busy, TInv, TypeOK
<1>4. \A r \in Row : Executed(t)[r].status \notin {"pending", "enqueued"}
  BY <1>1, <1>2, ExecutedFacts DEF Single, OneTimer, ToCome
<1>5. OneTimer'
  <2>1. CASE row' = Executed(t)
    BY <1>4, <2>1 DEF OneTimer, ToCome
  <2>2. CASE Chase(w) /\ AnotherAllowed(o)
    <3>1. row' = Scheduled(Executed(t), o + 1) /\ Unused(row) # {}
      BY <2>2 DEF Chase, HasRoom
    <3>2. o + 1 \in Occurrence
      BY <1>2, <2>2, SeriesAssumption DEF AnotherAllowed, Occurrence
    <3>3. Unused(Executed(t)) # {}
      BY <1>1, <1>2, <3>1, ExecutedFacts DEF Unused
    <3>4. PICK f \in Row : \A r \in Row \ {f} : row'[r] = Executed(t)[r]
      BY <1>1, <3>1, <3>2, <3>3, ExecutedFacts, ScheduledFacts
    <3>5. QED
      BY <1>4, <3>4 DEF OneTimer, ToCome
  <2>3. QED
    BY <2>1, <2>2 DEF StopSeries, Chase
<1>6. QED
  BY <1>3, <1>5 DEF Single, OnlyOneBusy, BusyOnEnqueued

LEMMA NextSingle ==
  ASSUME IInv, Single, [Next]_vars, ~Recompute
  PROVE  Single'
<1>1. TInv
  BY DEF IInv
<1>2. ASSUME NEW w \in Worker, WorkerStep(w) \/ HandlerFails(w) \/ WorkerCrash(w)
      PROVE  Single'
  <2>1. CASE Claim(w)
    BY <2>1, ClaimSingle
  <2>2. CASE StopSeries(w) \/ Chase(w)
    BY <2>2, ExecuteSingle
  <2>3. CASE ~Claim(w) /\ ~StopSeries(w) /\ ~Chase(w)
    <3>1. row' = row
      BY <1>2, <2>3 DEF WorkerStep, Receive, ChaseRefused, Complete, HandlerFails, WorkerCrash
    <3>2. \A v \in Worker \ {w} : at'[v] = at[v] /\ slot'[v] = slot[v]
      BY <1>1, <1>2, <2>3 DEF WorkerStep, Receive, ChaseRefused, Complete, HandlerFails,
         WorkerCrash, Abandon, Freed, TInv, TypeOK
    <3>3. at'[w] \in {"idle", "received"}
      BY <1>1, <1>2, <2>3 DEF WorkerStep, Receive, ChaseRefused, Complete, HandlerFails,
         WorkerCrash, Abandon, Freed, TInv, TypeOK
    <3>4. CalmStep
      BY <3>1, <3>2, <3>3 DEF CalmStep, ToCome, Busy, Carried
    <3>5. QED
      BY <3>4, CalmSingle
  <2>4. QED
    BY <2>1, <2>2, <2>3
<1>3. CASE /\ UNCHANGED workerVars
           /\ ~ \E w \in Worker : WorkerStep(w) \/ HandlerFails(w) \/ WorkerCrash(w)
  <2>1. \A w \in Worker : Busy(w)' => Carried(w)
    BY <1>3 DEF workerVars, Busy, Carried
  <2>2. \A r \in Row : /\ ToCome(r)' => ToCome(r)
                       /\ row[r].status = "enqueued" => row'[r].status = "enqueued"
    <3>1. CASE row' = row
      BY <3>1 DEF ToCome
    <3>2. CASE FinishTask
      BY <1>1, <3>2, CancelledFacts DEF FinishTask, ToCome
    <3>3. CASE Stamp
      BY <1>1, <3>3, StampedFacts DEF Stamp, ToCome, Pending, TInv, TypeOK
    <3>4. QED
      BY <1>3, <3>1, <3>2, <3>3 DEF Next, vars, TaskStep, TouchTask, SchedulerStep, LockDue,
         Send, SchedulerFails, WindowCloses, LockExpires
  <2>3. QED
    BY <2>1, <2>2, CalmSingle DEF CalmStep
<1>4. QED
  BY <1>2, <1>3 DEF Next, vars, TaskStep, TouchTask, FinishTask, Recompute, SchedulerStep, LockDue,
     Send, Stamp, SchedulerFails, WindowCloses, LockExpires

LEMMA NextSInv == SInv /\ [Next]_vars => SInv'
<1> SUFFICES ASSUME SInv, [Next]_vars PROVE SInv'
  OBVIOUS
<1>1. IInv /\ IInv' /\ recomputes \in Nat
  BY NextIInv DEF SInv, IInv, TInv, TypeOK
<1>2. ASSUME recomputes' = 0 PROVE Single'
  <2>1. ~Recompute
    BY <1>1, <1>2 DEF Recompute
  <2>2. recomputes = 0
    BY <1>2, <2>1 DEF Next, vars, taskVars, TaskStep, TouchTask, FinishTask, SchedulerStep, LockDue,
       Send, Stamp, SchedulerFails, WindowCloses, LockExpires, WorkerStep, Receive, Claim,
       StopSeries, Chase, ChaseRefused, Complete, HandlerFails, WorkerCrash
  <2> QED BY <1>1, <2>1, <2>2, NextSingle DEF SInv
<1> QED BY <1>1, <1>2 DEF SInv

LEMMA InitSInv == Init => SInv
<1> SUFFICES ASSUME Init PROVE SInv
  OBVIOUS
<1>1. OneTimer
  BY InitRows DEF OneTimer, ToCome
<1>2. QED
  BY <1>1, InitIInv DEF Init, SInv, Single, OnlyOneBusy, BusyOnEnqueued, Busy

\* scheduleReminder's contract: until its deadline is moved, a task is chased by one
\* series, whatever fails, expires, is delivered twice or overtakes its stamp.
THEOREM AlwaysOneSeries == Spec => []OneSeries
<1>1. SInv => OneSeries
  BY DEF SInv, Single, OneTimer, OneSeries
<1>2. QED
  BY <1>1, InitSInv, NextSInv, PTL DEF Spec
-----------------------------------------------------------------------------
\* SeriesAlive.  A message is of a timer that exists, and who is done with it leaves it
\* settled, unless it overtook the stamp.
Known ==
  /\ \A s \in Slot : queue[s].state # "locked" => queue[s].holder = NoWorker
  /\ \A r \in batch \cup window : row[r].status # "none"
  /\ \A s \in Slot : queue[s].state # "free" => row[s[1]].status # "none"
  /\ \A w \in Worker : at[w] # "idle" => row[TimerOf(w)].status # "none"
  /\ \A w \in Worker : at[w] = "done" =>
       row[TimerOf(w)].status \in {"executed", "cancelled"} \/ TimerOf(w) \in overtaken

\* A timer that is enqueued, or sent and not yet stamped, has a message at the broker.
SentBefore(r) == r \in window \/ (pc = "stamp" /\ r \in batch)

Expected(r) == row[r].status = "enqueued" \/ (row[r].status = "pending" /\ SentBefore(r))

Reaches == \A r \in Row : Expected(r) => Held(queue, r) \/ r \in overtaken

\* Only a finished task stops its series, and an outstanding one has a timer to come
\* until its occurrences are used up.
Going ==
  /\ \A w \in Worker : at[w] = "stopping" => task = "finished"
  /\ task = "outstanding" => Exhausted \/ \E r \in Row : ToCome(r)

Alive == IInv /\ Known /\ Reaches /\ Going

\* What a step does to the timers.
LEMMA FinishedRows ==
  ASSUME TInv, FinishTask, NEW r \in Row
  PROVE  row'[r].status = row[r].status \/ (row[r].status = "pending" /\ row'[r].status = "cancelled")
BY CancelledFacts DEF FinishTask

LEMMA RecomputedRows ==
  ASSUME TInv, Recompute
  PROVE  \E f \in Row :
           /\ row[f].status = "none" /\ row'[f].status = "pending"
           /\ \A r \in Row \ {f} :
                row'[r].status = row[r].status \/ (row[r].status = "pending" /\ row'[r].status = "cancelled")
<1>1. row' = Scheduled(Cancelled, 1) /\ Unused(row) # {} /\ 1 \in Occurrence
  BY SeriesAssumption DEF Recompute, HasRoom, Occurrence
<1>2. Unused(Cancelled) # {}
  BY <1>1, CancelledFacts DEF Unused
<1> QED BY <1>1, <1>2, CancelledFacts, ScheduledFacts

LEMMA StampedRows ==
  ASSUME TInv, Stamp, NEW r \in Row
  PROVE  row'[r].status = IF r \in batch /\ row[r].status = "pending" THEN "enqueued" ELSE row[r].status
BY StampedFacts DEF TInv, TypeOK, Stamp, Pending

LEMMA StoppedRows ==
  ASSUME TInv, NEW w \in Worker, StopSeries(w)
  PROVE  /\ TimerOf(w) \in Row /\ row[TimerOf(w)].status \in {"enqueued", "executed"}
         /\ \A r \in Row : row'[r].status = IF r = TimerOf(w) THEN "executed" ELSE row[r].status
<1>1. Busy(w)
  BY DEF StopSeries, Busy
<1> QED BY <1>1, ChaserFacts, ExecutedFacts DEF StopSeries

\* The row f is the next occurrence, if there is one.
ChasedInto(w, f) ==
  /\ f # TimerOf(w) /\ row[f].status = "none" /\ row'[f].status = "pending"
  /\ \A r \in Row \ {f} : row'[r].status = IF r = TimerOf(w) THEN "executed" ELSE row[r].status

ChasedLast(w) ==
  /\ row'[TimerOf(w)].occ = MaxOccurrences
  /\ \A r \in Row : row'[r].status = IF r = TimerOf(w) THEN "executed" ELSE row[r].status

LEMMA ChasedRows ==
  ASSUME TInv, NEW w \in Worker, Chase(w)
  PROVE  /\ TimerOf(w) \in Row /\ row[TimerOf(w)].status \in {"enqueued", "executed"}
         /\ ChasedLast(w) \/ \E f \in Row : ChasedInto(w, f)
<1> DEFINE t == TimerOf(w)
           o == row[t].occ
<1>1. Busy(w)
  BY DEF Chase, Busy
<1>2. t \in Row /\ row[t].status \in {"enqueued", "executed"} /\ o \in Occurrence
  BY <1>1, ChaserFacts
<1>3. CASE ~AnotherAllowed(o)
  <2>1. row' = Executed(t)
    BY <1>3 DEF Chase
  <2>2. o = MaxOccurrences
    BY <1>2, <1>3, SeriesAssumption DEF AnotherAllowed, Occurrence
  <2> QED BY <1>1, <1>2, <2>1, <2>2, ExecutedFacts DEF ChasedLast
<1>4. CASE AnotherAllowed(o)
  <2>1. row' = Scheduled(Executed(t), o + 1) /\ Unused(row) # {}
    BY <1>4 DEF Chase, HasRoom
  <2>2. o + 1 \in Occurrence
    BY <1>2, <1>4, SeriesAssumption DEF AnotherAllowed, Occurrence
  <2>3. Unused(Executed(t)) # {}
    BY <1>1, <1>2, <2>1, ExecutedFacts DEF Unused
  <2>4. PICK f \in Row :
          /\ Executed(t)[f].status = "none" /\ row'[f].status = "pending"
          /\ \A r \in Row \ {f} : row'[r] = Executed(t)[r]
    BY <1>1, <2>1, <2>2, <2>3, ExecutedFacts, ScheduledFacts
  <2>5. ChasedInto(w, f)
    BY <1>1, <1>2, <2>4, ExecutedFacts DEF ChasedInto
  <2> QED BY <1>2, <2>5
<1> QED BY <1>2, <1>3, <1>4

\* A timer goes one way: it is stamped by the run that sent it, or cancelled, then
\* executed, and stays so.
Onward ==
  \A r \in Row :
    /\ row[r].status = "none" => row'[r].status \in {"none", "pending"}
    /\ row[r].status = "pending" => \/ row'[r].status \in {"pending", "cancelled"}
                                    \/ row'[r].status = "enqueued" /\ pc = "stamp" /\ r \in batch
    /\ row[r].status = "enqueued" => row'[r].status \in {"enqueued", "executed"}
    /\ row[r].status \in {"executed", "cancelled"} => row'[r].status = row[r].status

LEMMA RowsOnward ==
  ASSUME TInv, [Next]_vars
  PROVE  Onward
<1>1. CASE FinishTask
  BY <1>1, FinishedRows DEF Onward
<1>2. CASE Stamp
  BY <1>2, StampedRows DEF Onward, Stamp
<1>3. ASSUME NEW w \in Worker, StopSeries(w) PROVE Onward
  BY <1>3, StoppedRows DEF Onward
<1>4. ASSUME NEW w \in Worker, Chase(w) PROVE Onward
  <2>1. CASE ChasedLast(w)
    BY <1>4, <2>1, ChasedRows DEF ChasedLast, Onward
  <2>2. ASSUME NEW f \in Row, ChasedInto(w, f) PROVE Onward
    BY <1>4, <2>2, ChasedRows DEF ChasedInto, Onward
  <2> QED BY <1>4, <2>1, <2>2, ChasedRows
<1>5. CASE row' = row
  BY <1>5 DEF Onward
<1>6. CASE Recompute
  <2>1. PICK f \in Row :
          /\ row[f].status = "none" /\ row'[f].status = "pending"
          /\ \A r \in Row \ {f} :
               row'[r].status = row[r].status \/ (row[r].status = "pending" /\ row'[r].status = "cancelled")
    BY <1>6, RecomputedRows
  <2> QED BY <2>1 DEF Onward
<1> QED BY <1>1, <1>2, <1>3, <1>4, <1>5, <1>6
     DEF Next, vars, TaskStep, TouchTask, SchedulerStep, LockDue, Send, SchedulerFails, WindowCloses,
         LockExpires, WorkerStep, Receive, Claim, ChaseRefused, Complete, HandlerFails, WorkerCrash

LEMMA TimerIsRow ==
  ASSUME TInv, NEW w \in Worker, at[w] # "idle"
  PROVE  slot[w] \in Slot /\ TimerOf(w) \in Row
BY RowFacts DEF TInv, HandlersOK, TimerOf

LEMMA OvertakenGrows == [Next]_vars => overtaken \subseteq overtaken'
BY DEF Next, vars, TaskStep, TouchTask, FinishTask, Recompute, SchedulerStep, LockDue, Send, Stamp,
       SchedulerFails, WindowCloses, LockExpires, WorkerStep, Receive, Claim, StopSeries, Chase,
       ChaseRefused, Complete, HandlerFails, WorkerCrash

\* ... with its occurrence.
LEMMA OccKept ==
  ASSUME TInv, [Next]_vars, NEW r \in Row, row[r].status # "none"
  PROVE  row'[r].occ = row[r].occ
<1>1. RowStep => row'[r].occ = row[r].occ
  BY DEF RowStep, Kept, Born
<1>2. CASE row' = row
  BY <1>2
<1> QED BY <1>1, <1>2, FinishRows, RecomputeRows, StampRows, StopRows, ChaseRows
     DEF Next, vars, TaskStep, TouchTask, SchedulerStep, LockDue, Send, SchedulerFails, WindowCloses,
         LockExpires, WorkerStep, Receive, Claim, ChaseRefused, Complete, HandlerFails, WorkerCrash

\* What a step does to a slot of the queue: only a send of its timer fills it, and only a
\* handler that is done empties it.
LEMMA SlotSteps ==
  ASSUME TInv, Known, [Next]_vars, NEW s \in Slot
  PROVE  /\ queue'[s].state # "free" => queue[s].state # "free" \/ s[1] \in batch
         /\ queue[s].state # "free" =>
              queue'[s].state # "free" \/ \E w \in Worker : at[w] = "done" /\ slot[w] = s
<1> DEFINE Filled == queue'[s].state # "free" => queue[s].state # "free" \/ s[1] \in batch
           Emptied == queue[s].state # "free" =>
                        queue'[s].state # "free" \/ \E w \in Worker : at[w] = "done" /\ slot[w] = s
<1>1. CASE Send
  BY <1>1 DEF Send, Sent, NewCopy
<1>2. ASSUME NEW x \in Slot, queue[x].state # "free", queue' = Released(queue, x) PROVE Filled /\ Emptied
  BY <1>2 DEF Released, TInv, TypeOK
<1>3. ASSUME NEW w \in Worker, NEW x \in Slot, Receive(w, x) PROVE Filled /\ Emptied
  BY <1>3 DEF Receive, Received, TInv, TypeOK
<1>4. ASSUME NEW w \in Worker, Complete(w) PROVE Filled /\ Emptied
  <2>1. slot[w] \in Slot /\ at[w] = "done"
    BY <1>4, TimerIsRow DEF Complete
  <2>2. queue' = queue \/ queue' = [queue EXCEPT ![slot[w]] = EmptySlot]
    BY <1>4 DEF Complete, Completed
  <2> QED BY <2>1, <2>2 DEF EmptySlot, TInv, TypeOK
<1>5. ASSUME NEW w \in Worker, ChaseRefused(w) \/ HandlerFails(w) PROVE Filled /\ Emptied
  <2>1. slot[w] \in Slot
    BY <1>5, TimerIsRow DEF ChaseRefused, HandlerFails
  <2>2. queue' = queue \/ (queue' = Released(queue, slot[w]) /\ queue[slot[w]].holder = w)
    BY <1>5 DEF ChaseRefused, HandlerFails, Abandon
  <2>3. queue[slot[w]].holder = w => queue[slot[w]].state = "locked"
    BY <2>1, NoWorkerAssumption DEF Known
  <2> QED BY <1>2, <2>1, <2>2, <2>3
<1>6. ASSUME NEW x \in Slot, LockExpires(x) PROVE Filled /\ Emptied
  BY <1>2, <1>6 DEF LockExpires
<1>7. CASE queue' = queue
  BY <1>7
<1> QED BY <1>1, <1>3, <1>4, <1>5, <1>6, <1>7
     DEF Next, vars, TaskStep, TouchTask, FinishTask, Recompute, SchedulerStep, LockDue, Stamp,
         SchedulerFails, WindowCloses, WorkerStep, Claim, StopSeries, Chase, WorkerCrash

LEMMA KnownNext ==
  ASSUME TInv, Known, [Next]_vars
  PROVE  Known'
<1>0. Onward /\ overtaken \subseteq overtaken'
  BY RowsOnward, OvertakenGrows
<1>1. ASSUME NEW s \in Slot, queue'[s].state # "locked" PROVE queue'[s].holder = NoWorker
  <2>1. ASSUME NEW x \in Slot, queue' = Released(queue, x) PROVE queue'[s].holder = NoWorker
    BY <1>1, <2>1 DEF Released, TInv, TypeOK, Known
  <2>2. ASSUME NEW w \in Worker, NEW x \in Slot, queue' = Received(queue, x, w) PROVE queue'[s].holder = NoWorker
    BY <1>1, <2>2 DEF Received, TInv, TypeOK, Known
  <2>3. ASSUME NEW w \in Worker, NEW x \in Slot, queue' = Completed(queue, x, w) PROVE queue'[s].holder = NoWorker
    BY <1>1, <2>3 DEF Completed, EmptySlot, TInv, TypeOK, Known
  <2>4. ASSUME NEW ms, queue' = Sent(queue, ms) PROVE queue'[s].holder = NoWorker
    BY <1>1, <2>4 DEF Sent, NewCopy, Known
  <2>5. CASE queue' = queue
    BY <1>1, <2>5 DEF Known
  <2>6. ASSUME NEW w \in Worker, Complete(w) \/ ChaseRefused(w) \/ HandlerFails(w)
        PROVE  queue'[s].holder = NoWorker
    <3>1. slot[w] \in Slot
      BY <2>6, TimerIsRow DEF Complete, ChaseRefused, HandlerFails
    <3> QED BY <2>1, <2>3, <2>5, <2>6, <3>1 DEF Complete, ChaseRefused, HandlerFails, Abandon
  <2> QED BY <2>1, <2>2, <2>4, <2>5, <2>6
       DEF Next, vars, TaskStep, TouchTask, FinishTask, Recompute, SchedulerStep, LockDue, Send, Stamp,
           SchedulerFails, WindowCloses, LockExpires, WorkerStep, Receive, Claim, StopSeries, Chase, WorkerCrash
<1>2. ASSUME NEW r \in batch' \cup window' PROVE row'[r].status # "none"
  <2>1. r \in batch \cup window \cup Pending
    BY <1>2 DEF Next, vars, TaskStep, TouchTask, FinishTask, Recompute, SchedulerStep, LockDue, Send, Stamp,
         SchedulerFails, WindowCloses, LockExpires, WorkerStep, Receive, Claim, StopSeries, Chase,
         ChaseRefused, Complete, HandlerFails, WorkerCrash, sender
  <2>2. r \in Row /\ row[r].status # "none" /\ row[r] \in RowState
    BY <2>1 DEF Known, Pending, TInv, TypeOK
  <2> QED BY <1>0, <2>2 DEF Onward, RowState
<1>3. ASSUME NEW s \in Slot, queue'[s].state # "free" PROVE row'[s[1]].status # "none"
  <2>1. s[1] \in Row /\ row[s[1]].status # "none" /\ row[s[1]] \in RowState
    BY <1>3, SlotSteps, RowFacts DEF Known, TInv, TypeOK
  <2> QED BY <1>0, <2>1 DEF Onward, RowState
<1>4. ASSUME NEW w \in Worker, at'[w] # "idle"
      PROVE  row'[TimerOf(w)'].status # "none"
  <2>1. CASE at[w] # "idle" /\ slot'[w] = slot[w]
    <3>1. TimerOf(w) \in Row /\ row[TimerOf(w)].status # "none" /\ TimerOf(w)' = TimerOf(w)
      BY <2>1, TimerIsRow DEF Known, TimerOf
    <3>2. row[TimerOf(w)] \in RowState
      BY <3>1 DEF TInv, TypeOK
    <3> QED BY <1>0, <3>1, <3>2 DEF Onward, RowState
  <2>2. ASSUME NEW v \in Worker, NEW s \in Slot, Receive(v, s) PROVE row'[TimerOf(w)'].status # "none"
    <3>1. CASE v = w
      BY <2>2, <3>1 DEF Receive, TimerOf, TInv, TypeOK, Known
    <3>2. CASE v # w
      BY <1>4, <2>1, <2>2, <3>2 DEF Receive, TInv, TypeOK
    <3> QED BY <3>1, <3>2
  <2>3. ASSUME NEW v \in Worker, Freed(v) PROVE at[w] # "idle" /\ slot'[w] = slot[w]
    BY <1>4, <2>3 DEF Freed, TInv, TypeOK
  <2>4. ASSUME NEW v \in Worker, Claim(v) \/ StopSeries(v) \/ Chase(v) PROVE at[w] # "idle" /\ slot'[w] = slot[w]
    BY <1>4, <2>4 DEF Claim, StopSeries, Chase, TInv, TypeOK
  <2>5. CASE UNCHANGED workerVars
    BY <1>4, <2>1, <2>5 DEF workerVars
  <2> QED BY <2>1, <2>2, <2>3, <2>4, <2>5
       DEF Next, vars, TaskStep, TouchTask, FinishTask, Recompute, SchedulerStep, LockDue, Send, Stamp,
           SchedulerFails, WindowCloses, LockExpires, WorkerStep, ChaseRefused, Complete, HandlerFails,
           WorkerCrash, Abandon
<1>5. ASSUME NEW w \in Worker, at'[w] = "done"
      PROVE  row'[TimerOf(w)'].status \in {"executed", "cancelled"} \/ TimerOf(w)' \in overtaken'
  <2> DEFINE Done == row'[TimerOf(w)'].status \in {"executed", "cancelled"} \/ TimerOf(w)' \in overtaken'
  <2>1. CASE at[w] = "done" /\ slot'[w] = slot[w]
    <3>1. TimerOf(w) \in Row /\ TimerOf(w)' = TimerOf(w)
      BY <2>1, TimerIsRow DEF TimerOf
    <3> QED BY <1>0, <2>1, <3>1 DEF Known, Onward
  <2>2. ASSUME NEW v \in Worker, Claim(v) PROVE Done
    <3>1. row' = row /\ slot' = slot /\ overtaken' = overtaken \cup ({TimerOf(v)} \cap Pending)
      BY <2>2 DEF Claim
    <3>2. CASE v = w
      <4>1. row[TimerOf(w)].status \notin {"enqueued", "none"} /\ TimerOf(w) \in Row
        BY <1>5, <2>2, <3>2, TimerIsRow DEF Claim, Known, TInv, TypeOK
      <4>2. row[TimerOf(w)].status \in {"pending", "executed", "cancelled"}
        BY <4>1 DEF TInv, TypeOK, RowState
      <4> QED BY <3>1, <3>2, <4>1, <4>2 DEF TimerOf, Pending
    <3>3. CASE v # w
      BY <1>5, <2>1, <2>2, <3>1, <3>3 DEF Claim, TInv, TypeOK
    <3> QED BY <3>2, <3>3
  <2>3. ASSUME NEW v \in Worker, StopSeries(v) \/ Chase(v) PROVE Done
    <3>1. slot' = slot /\ \A u \in Worker \ {v} : at'[u] = at[u]
      BY <2>3 DEF StopSeries, Chase, TInv, TypeOK
    <3>2. CASE v = w
      <4>1. row'[TimerOf(w)].status = "executed"
        BY <2>3, <3>2, StoppedRows, ChasedRows DEF ChasedInto, ChasedLast
      <4> QED BY <3>1, <4>1 DEF TimerOf
    <3> QED BY <1>5, <2>1, <3>1, <3>2
  <2>4. ASSUME NEW v \in Worker, Freed(v) PROVE at[w] = "done" /\ slot'[w] = slot[w]
    BY <1>5, <2>4 DEF Freed, TInv, TypeOK
  <2>5. ASSUME NEW v \in Worker, NEW s \in Slot, Receive(v, s) PROVE at[w] = "done" /\ slot'[w] = slot[w]
    BY <1>5, <2>5 DEF Receive, TInv, TypeOK
  <2>6. CASE UNCHANGED workerVars
    BY <1>5, <2>1, <2>6 DEF workerVars
  <2> QED BY <2>1, <2>2, <2>3, <2>4, <2>5, <2>6
       DEF Next, vars, TaskStep, TouchTask, FinishTask, Recompute, SchedulerStep, LockDue, Send, Stamp,
           SchedulerFails, WindowCloses, LockExpires, WorkerStep, ChaseRefused, Complete, HandlerFails,
           WorkerCrash, Abandon
<1> QED BY <1>1, <1>2, <1>3, <1>4, <1>5 DEF Known

LEMMA ReachesNext ==
  ASSUME TInv, Known, Reaches, [Next]_vars
  PROVE  Reaches'
<1>0. Onward /\ overtaken \subseteq overtaken'
  BY RowsOnward, OvertakenGrows
<1> SUFFICES ASSUME NEW r \in Row, Expected(r)' PROVE Held(queue', r) \/ r \in overtaken'
  BY DEF Reaches
<1>1. row[r] \in RowState
  BY DEF TInv, TypeOK
\* A timer expected already keeps its message, unless a handler that took it for a
\* duplicate completes it.
<1>2. ASSUME Expected(r) PROVE Held(queue', r) \/ r \in overtaken'
  <2>1. CASE r \in overtaken
    BY <1>0, <2>1
  <2>2. CASE r \notin overtaken
    <3>1. PICK k \in 1 .. MaxCopies : queue[<<r, k>>].state # "free"
      BY <1>2, <2>2 DEF Reaches, Held
    <3>2. <<r, k>> \in Slot /\ <<r, k>>[1] = r
      BY RowFacts DEF Slot
    <3>3. CASE queue'[<<r, k>>].state # "free"
      BY <3>3 DEF Held
    <3>4. ASSUME NEW w \in Worker, at[w] = "done", slot[w] = <<r, k>> PROVE FALSE
      <4>1. row[r].status \in {"executed", "cancelled"}
        BY <2>2, <3>4 DEF Known, TimerOf
      <4> QED BY <1>2, <4>1 DEF Expected
    <3> QED BY <3>1, <3>2, <3>3, <3>4, SlotSteps
  <2> QED BY <2>1, <2>2
<1>3. CASE Send /\ r \in batch \ window
  <2>1. PICK k \in Room(queue, r) : k = CHOOSE x \in Room(queue, r) : TRUE
    BY <1>3 DEF Send
  <2>2. <<r, k>> \in Slot /\ k \in 1 .. MaxCopies
    <3>1. r \in Message /\ k \in 1 .. MaxCopies
      BY <2>1, RowFacts DEF Room
    <3> QED BY <3>1 DEF Slot
  <2>3. queue'[<<r, k>>] = NewCopy
    BY <1>3, <2>1, <2>2 DEF Send, Sent
  <2> QED BY <2>2, <2>3 DEF Held, NewCopy
<1>4. CASE ~(Send /\ r \in batch \ window)
  <2>1. SentBefore(r)' => SentBefore(r) \/ r \notin batch \cup window
    <3>1. CASE Send
      BY <1>4, <3>1 DEF Send, SentBefore
    <3>2. CASE window' \subseteq window /\ (UNCHANGED <<pc, batch>> \/ pc' # "stamp")
      BY <3>2 DEF SentBefore
    <3> QED BY <3>1, <3>2
         DEF Next, vars, TaskStep, TouchTask, FinishTask, Recompute, SchedulerStep, LockDue, Stamp,
             SchedulerFails, WindowCloses, LockExpires, WorkerStep, Receive, Claim, StopSeries, Chase,
             ChaseRefused, Complete, HandlerFails, WorkerCrash, sender
  <2>2. SentBefore(r)' => r \in batch \cup window
    BY DEF SentBefore, Next, vars, TaskStep, TouchTask, FinishTask, Recompute, SchedulerStep, LockDue, Send,
       Stamp, SchedulerFails, WindowCloses, LockExpires, WorkerStep, Receive, Claim, StopSeries, Chase,
       ChaseRefused, Complete, HandlerFails, WorkerCrash, sender
  <2>3. CASE row[r].status = "none"
    <3>1. row'[r].status \in {"none", "pending"} /\ r \notin batch \cup window
      BY <1>0, <2>3 DEF Onward, Known
    <3> QED BY <2>2, <3>1 DEF Expected
  <2>4. CASE row[r].status # "none"
    <3>1. Expected(r)
      BY <1>0, <1>1, <2>1, <2>2, <2>4 DEF Onward, Expected, SentBefore, RowState
    <3> QED BY <1>2, <3>1
  <2> QED BY <2>3, <2>4
<1> QED BY <1>3, <1>4

LEMMA GoingNext ==
  ASSUME IInv, Going, [Next]_vars
  PROVE  Going'
<1>0. TInv /\ IInv' /\ Onward
  BY NextIInv, RowsOnward DEF IInv
<1>1. ASSUME NEW w \in Worker, at'[w] = "stopping" PROVE task' = "finished"
  <2>1. task = "finished" => task' = "finished"
    BY <1>0 DEF Next, vars, TaskStep, TouchTask, FinishTask, Recompute, SchedulerStep, LockDue, Send, Stamp,
       SchedulerFails, WindowCloses, LockExpires, WorkerStep, Receive, Claim, StopSeries, Chase,
       ChaseRefused, Complete, HandlerFails, WorkerCrash, taskVars
  <2>2. CASE at[w] = "stopping"
    BY <2>1, <2>2 DEF Going
  <2>3. CASE at[w] # "stopping"
    <3>1. ASSUME NEW v \in Worker, Claim(v) PROVE task = "finished"
      <4>1. v = w /\ Over(TimerOf(w)) /\ row[TimerOf(w)].status = "enqueued" /\ TimerOf(w) \in Row
        BY <1>0, <1>1, <2>3, <3>1, TimerIsRow DEF Claim, TInv, TypeOK
      <4>2. row[TimerOf(w)].occ \in Occurrence
        BY <1>0, <4>1 DEF TInv, RowsOK
      <4> QED BY <4>1, <4>2, SeriesAssumption DEF Over, Occurrence
    <3>2. ASSUME NEW v \in Worker, Freed(v) PROVE FALSE
      BY <1>0, <1>1, <2>3, <3>2 DEF Freed, TInv, TypeOK
    <3>3. ASSUME NEW v \in Worker, (\E s \in Slot : Receive(v, s)) \/ StopSeries(v) \/ Chase(v) PROVE FALSE
      BY <1>0, <1>1, <2>3, <3>3 DEF Receive, StopSeries, Chase, TInv, TypeOK
    <3>4. ~UNCHANGED workerVars
      BY <1>1, <2>3 DEF workerVars
    <3> QED BY <2>1, <3>1, <3>2, <3>3, <3>4
         DEF Next, vars, TaskStep, TouchTask, FinishTask, Recompute, SchedulerStep, LockDue, Send, Stamp,
             SchedulerFails, WindowCloses, LockExpires, WorkerStep, ChaseRefused, Complete, HandlerFails,
             WorkerCrash, Abandon
  <2> QED BY <2>2, <2>3
<1>2. ASSUME task' = "outstanding" PROVE Exhausted' \/ \E r \in Row : ToCome(r)'
  <2>1. task = "outstanding" /\ ~FinishTask
    BY <1>0, <1>2 DEF TInv, TypeOK, Next, vars, TaskStep, TouchTask, FinishTask, Recompute, SchedulerStep,
       LockDue, Send, Stamp, SchedulerFails, WindowCloses, LockExpires, WorkerStep, Receive, Claim,
       StopSeries, Chase, ChaseRefused, Complete, HandlerFails, WorkerCrash, taskVars
  <2>2. CASE Exhausted
    <3>1. PICK r \in Row : row[r] = [status |-> "executed", occ |-> MaxOccurrences]
      BY <2>2 DEF Exhausted
    <3>2. row'[r].occ = row[r].occ
      BY <1>0, <3>1, OccKept
    <3>3. row'[r].status = "executed" /\ row'[r] \in RowState
      BY <1>0, <3>1 DEF Onward, IInv, TInv, TypeOK
    <3> QED BY <3>1, <3>2, <3>3 DEF Exhausted, RowState
  <2>3. ASSUME NEW r \in Row, ToCome(r) PROVE Exhausted' \/ \E q \in Row : ToCome(q)'
    <3>1. ASSUME NEW w \in Worker, Chase(w) PROVE Exhausted' \/ \E q \in Row : ToCome(q)'
      <4>1. CASE ChasedLast(w)
        <5>1. TimerOf(w) \in Row /\ row'[TimerOf(w)] \in RowState
          BY <1>0, <3>1, ChasedRows DEF IInv, TInv, TypeOK
        <5> QED BY <4>1, <5>1 DEF ChasedLast, Exhausted, RowState
      <4> QED BY <1>0, <3>1, <4>1, ChasedRows DEF ChasedInto, ToCome
    <3>2. ASSUME NEW w \in Worker, StopSeries(w) PROVE FALSE
      BY <2>1, <3>2 DEF StopSeries, Going
    <3>3. CASE Recompute
      BY <1>0, <3>3, RecomputedRows DEF ToCome
    <3>4. CASE Stamp
      BY <1>0, <2>3, <3>4, StampedRows DEF ToCome
    <3>5. CASE row' = row
      BY <2>3, <3>5 DEF ToCome
    <3> QED BY <2>1, <3>1, <3>2, <3>3, <3>4, <3>5
         DEF Next, vars, TaskStep, TouchTask, SchedulerStep, LockDue, Send, SchedulerFails, WindowCloses,
             LockExpires, WorkerStep, Receive, Claim, ChaseRefused, Complete, HandlerFails, WorkerCrash
  <2> QED BY <2>1, <2>2, <2>3 DEF Going
<1> QED BY <1>1, <1>2 DEF Going

LEMMA InitAlive == Init => Alive
<1> SUFFICES ASSUME Init PROVE Alive
  OBVIOUS
<1>1. Known
  BY DEF Init, Known, EmptyQueue, EmptySlot
<1>2. Reaches /\ Going
  BY InitRows DEF Init, Reaches, Expected, SentBefore, Going, ToCome
<1> QED BY <1>1, <1>2, InitIInv DEF Alive

\* scheduler.ts's at-least-once: an outstanding task always has a chase to come, until its
\* occurrences are used up, unless the chase is on the dead-letter queue or its message
\* overtook the stamp; for any number of failures, redeliveries and moved deadlines.
THEOREM AlwaysSeriesAlive == Spec => []SeriesAlive
<1>1. Alive /\ [Next]_vars => Alive'
  BY NextIInv, KnownNext, ReachesNext, GoingNext DEF Alive, IInv
<1>2. Alive => SeriesAlive
  BY DEF Alive, Reaches, Expected, Going, ToCome, SeriesAlive, Live, Overtaken
<1> QED BY InitAlive, <1>1, <1>2, PTL DEF Spec
-----------------------------------------------------------------------------
(***************************************************************************)
(* NotificationDispatch.                                                   *)
(***************************************************************************)
\* Who holds the lock of a message is handling it.
Holds ==
  \A w \in Consumer : /\ step[w] = "idle" <=> doing[w] = NoMessage
                      /\ step[w] = "resolved" => doing[w] = Dispatch
                      /\ \A i \in Effect : msg[i] = w => doing[w] = i

EmptyHanded == \A w \in Consumer : step[w] \notin {"landed", "bounced"} => hand[w] = {}

\* A dispatch gets to its end with the notification dispatched.
DispatchedAtEnd ==
  \A w \in Consumer : step[w] = "complete" /\ doing[w] = Dispatch => notification = "dispatched"

Running(w) == step[w] \in {"resolved", "select", "attempt", "landed", "bounced"}

\* Without overlapping handlers each holds its lock, one at most is past its claim, it is
\* the dispatch exactly while the notification is pending, and a timer is neither pending
\* nor enqueued beside another or beside a handler that runs.
Waiting(i) == timer[i] \in {"pending", "enqueued"}

InTurn ==
  overlaps = 0 =>
    /\ \A w \in Consumer : step[w] # "idle" => msg[doing[w]] = w
    /\ \A w, u \in Consumer : Running(w) /\ Running(u) => w = u
    /\ \A w \in Consumer : Running(w) => (doing[w] = Dispatch <=> notification = "pending")
    /\ \A w \in Consumer, i \in Timer : Running(w) => ~Waiting(i)
    /\ \A i, j \in Timer : Waiting(i) /\ Waiting(j) => i = j
    /\ notification = "pending" => \A i \in Timer : timer[i] = "none"

\* What still looks at a delivery, when a dispatch past its selection is not expected to
\* look again.
HandledBy(w, p) ==
  \/ step[w] \in {"select", "bounced"}
  \/ step[w] \in {"attempt", "landed"} /\ (bad[w] \/ p \in todo[w] \cup hand[w])

Awaited ==
  /\ notification = "pending" /\ msg[Dispatch] # "done"
  /\ \A w \in Consumer : step[w] \in {"attempt", "landed"} => doing[w] # Dispatch

Pursued(p) ==
  (\E i \in Timer : Waiting(i)) \/ (\E w \in Consumer : HandledBy(w, p)) \/ Awaited

Pursuit == \A p \in Outstanding : Pursued(p) \/ dropped

\* Without overlapping handlers what a handler has before it is outstanding, as it read it.
Trying(w) == step[w] \in {"attempt", "landed", "bounced"}

Current ==
  overlaps = 0 =>
    \A w \in Consumer : Trying(w) =>
      /\ todo[w] \cup hand[w] \subseteq Outstanding /\ todo[w] \cap hand[w] = {}
      /\ \A p \in todo[w] \cup hand[w] : seen[w][p] = count[p]

Unwritten(p) == \E w \in Consumer : step[w] = "landed" /\ p \in hand[w]

\* ... and a send that landed is in the row, or in the hand of who sent it.
InRow(p)  == IF status[p] = "sent" THEN 1 ELSE 0
InHand(p) == IF Unwritten(p) THEN 1 ELSE 0

LandedIsRecorded == overlaps = 0 => \A p \in Person : landed[p] = InRow(p) + InHand(p)

Settled ==
  overlaps' = 0 => \A p \in Person : status[p] \in {"sent", "suppressed", "dead"} =>
                     status'[p] = status[p] /\ count'[p] = count[p]
-----------------------------------------------------------------------------
LEMMA NoticeRanges ==
  /\ Dispatch \in Effect /\ Dispatch \notin Timer /\ Timer \subseteq Effect /\ Effect = {Dispatch} \cup Timer
  /\ NoMessage \notin Effect
  /\ Consumer \cap {"none", "ready", "done"} = {}
  /\ MaxAttempts \in Nat \ {0} /\ MaxFaults \in Nat
BY NoticeAssumption DEF Dispatch, Timer, Effect, NoMessage

LEMMA NoticeTyped ==
  ASSUME NoticeTypeOK, [NoticeNext]_noticeVars
  PROVE  NoticeTypeOK'
<1> USE NoticeRanges DEF NoticeTypeOK, Stage, Status, Zero, Outstanding, rows, retries, handler,
    history, faults
<1>1. ASSUME NEW w \in Consumer, Skip(w) PROVE NoticeTypeOK'
  BY <1>1 DEF Skip, TakeUp, Goto
<1>2. ASSUME NEW w \in Consumer, Resolve(w) PROVE NoticeTypeOK'
  BY <1>2 DEF Resolve, TakeUp, Goto
<1>3. ASSUME NEW w \in Consumer, Unresolved(w) PROVE NoticeTypeOK'
  BY <1>3 DEF Unresolved, Goto
<1>4. ASSUME NEW w \in Consumer, Record(w) PROVE NoticeTypeOK'
  BY <1>4 DEF Record, Goto
<1>5. ASSUME NEW w \in Consumer, NEW i \in Timer, ClaimRetry(w, i) PROVE NoticeTypeOK'
  BY <1>5 DEF ClaimRetry, TakeUp, Goto
<1>6. ASSUME NEW w \in Consumer, Select(w) PROVE NoticeTypeOK'
  BY <1>6 DEF Select, Goto
<1>7. ASSUME NEW w \in Consumer, NEW p \in Person, Attempt(w, p) PROVE NoticeTypeOK'
  <2>1. landed' \in [Person -> Int] /\ step' \in [Consumer -> Stage]
    <3>1. landed' \in {landed, [landed EXCEPT ![p] = landed[p] + 1]}
      BY <1>7 DEF Attempt
    <3>2. step' \in {[step EXCEPT ![w] = "landed"], [step EXCEPT ![w] = "bounced"]}
      BY <1>7 DEF Attempt, Goto
    <3> QED BY <3>1, <3>2
  <2>2. todo' \in [Consumer -> SUBSET Person] /\ hand' \in [Consumer -> SUBSET Person]
    BY <1>7 DEF Attempt
  <2> QED BY <1>7, <2>1, <2>2 DEF Attempt
<1>8. ASSUME NEW w \in Consumer, Write(w) PROVE NoticeTypeOK'
  BY <1>8 DEF Write, Goto
<1>9. ASSUME NEW w \in Consumer, NEW p \in Person, GiveUp(w, p) PROVE NoticeTypeOK'
  BY <1>9 DEF GiveUp
<1>10. ASSUME NEW w \in Consumer, Finish(w) PROVE NoticeTypeOK'
  <2>1. timer' \in [Timer -> {"none", "pending", "enqueued", "executed"}]
    BY <1>10 DEF Finish, ScheduleRetry
  <2>2. notification' \in {"pending", "dispatched"} /\ announced' \in Nat
    BY <1>10 DEF Finish
  <2>3. step' \in [Consumer -> Stage]
    BY <1>10 DEF Finish, Goto
  <2> QED BY <1>10, <2>1, <2>2, <2>3 DEF Finish
<1>11. ASSUME NEW w \in Consumer, Settle(w) PROVE NoticeTypeOK'
  BY <1>11 DEF Settle, Leave, Goto
<1>12. ASSUME NEW w \in Consumer, Crash(w) PROVE NoticeTypeOK'
  BY <1>12 DEF Crash, Leave, Goto, Retrying
<1>13. ASSUME NEW w \in Consumer, LoseLock(w) PROVE NoticeTypeOK'
  BY <1>13 DEF LoseLock
<1>14. ASSUME NEW i \in Timer, Enqueue(i) PROVE NoticeTypeOK'
  BY <1>14 DEF Enqueue
<1>15. ASSUME NEW i \in Timer, MarkEnqueued(i) PROVE NoticeTypeOK'
  BY <1>15 DEF MarkEnqueued
<1>16. CASE UNCHANGED noticeVars
  BY <1>16 DEF noticeVars
<1> QED BY <1>1, <1>2, <1>3, <1>4, <1>5, <1>6, <1>7, <1>8, <1>9, <1>10, <1>11, <1>12, <1>13, <1>14,
    <1>15, <1>16
      DEF NoticeNext, Start, Handle, Schedule

LEMMA HoldsNext ==
  ASSUME NoticeTypeOK, Holds, [NoticeNext]_noticeVars
  PROVE  Holds'
<1> USE NoticeRanges DEF NoticeTypeOK, Stage, Status, Zero, Holds, rows, retries, handler, history,
    faults
<1>1. ASSUME NEW w \in Consumer, Skip(w) PROVE Holds'
  BY <1>1 DEF Skip, TakeUp, Goto
<1>2. ASSUME NEW w \in Consumer, Resolve(w) PROVE Holds'
  BY <1>2 DEF Resolve, TakeUp, Goto
<1>3. ASSUME NEW w \in Consumer, Unresolved(w) PROVE Holds'
  BY <1>3 DEF Unresolved, Goto
<1>4. ASSUME NEW w \in Consumer, Record(w) PROVE Holds'
  BY <1>4 DEF Record, Goto
<1>5. ASSUME NEW w \in Consumer, NEW i \in Timer, ClaimRetry(w, i) PROVE Holds'
  BY <1>5 DEF ClaimRetry, TakeUp, Goto
<1>6. ASSUME NEW w \in Consumer, Select(w) PROVE Holds'
  BY <1>6 DEF Select, Goto
<1>7. ASSUME NEW w \in Consumer, NEW p \in Person, Attempt(w, p) PROVE Holds'
  BY <1>7 DEF Attempt, Goto
<1>8. ASSUME NEW w \in Consumer, Write(w) PROVE Holds'
  BY <1>8 DEF Write, Goto
<1>9. ASSUME NEW w \in Consumer, NEW p \in Person, GiveUp(w, p) PROVE Holds'
  BY <1>9 DEF GiveUp
<1>10. ASSUME NEW w \in Consumer, Finish(w) PROVE Holds'
  BY <1>10 DEF Finish, Goto, ScheduleRetry, NeedsRetry, FirstFree, Retrying
<1>11. ASSUME NEW w \in Consumer, Settle(w) PROVE Holds'
  BY <1>11 DEF Settle, Leave, Goto
<1>12. ASSUME NEW w \in Consumer, Crash(w) PROVE Holds'
  BY <1>12 DEF Crash, Leave, Goto, Retrying
<1>13. ASSUME NEW w \in Consumer, LoseLock(w) PROVE Holds'
  BY <1>13 DEF LoseLock
<1>14. ASSUME NEW i \in Timer, Enqueue(i) PROVE Holds'
  BY <1>14 DEF Enqueue
<1>15. ASSUME NEW i \in Timer, MarkEnqueued(i) PROVE Holds'
  BY <1>15 DEF MarkEnqueued
<1>16. CASE UNCHANGED noticeVars
  BY <1>16 DEF noticeVars
<1> QED BY <1>1, <1>2, <1>3, <1>4, <1>5, <1>6, <1>7, <1>8, <1>9, <1>10, <1>11, <1>12, <1>13, <1>14,
    <1>15, <1>16
      DEF NoticeNext, Start, Handle, Schedule

LEMMA EmptyNext ==
  ASSUME NoticeTypeOK, EmptyHanded, [NoticeNext]_noticeVars
  PROVE  EmptyHanded'
<1> USE NoticeRanges DEF NoticeTypeOK, Stage, Status, Zero, EmptyHanded, rows, retries, handler,
    history, faults
<1>1. ASSUME NEW w \in Consumer, Skip(w) PROVE EmptyHanded'
  BY <1>1 DEF Skip, TakeUp, Goto
<1>2. ASSUME NEW w \in Consumer, Resolve(w) PROVE EmptyHanded'
  BY <1>2 DEF Resolve, TakeUp, Goto
<1>3. ASSUME NEW w \in Consumer, Unresolved(w) PROVE EmptyHanded'
  BY <1>3 DEF Unresolved, Goto
<1>4. ASSUME NEW w \in Consumer, Record(w) PROVE EmptyHanded'
  BY <1>4 DEF Record, Goto
<1>5. ASSUME NEW w \in Consumer, NEW i \in Timer, ClaimRetry(w, i) PROVE EmptyHanded'
  BY <1>5 DEF ClaimRetry, TakeUp, Goto
<1>6. ASSUME NEW w \in Consumer, Select(w) PROVE EmptyHanded'
  BY <1>6 DEF Select, Goto
<1>7. ASSUME NEW w \in Consumer, NEW p \in Person, Attempt(w, p) PROVE EmptyHanded'
  BY <1>7 DEF Attempt, Goto
<1>8. ASSUME NEW w \in Consumer, Write(w) PROVE EmptyHanded'
  BY <1>8 DEF Write, Goto
<1>9. ASSUME NEW w \in Consumer, NEW p \in Person, GiveUp(w, p) PROVE EmptyHanded'
  BY <1>9 DEF GiveUp
<1>10. ASSUME NEW w \in Consumer, Finish(w) PROVE EmptyHanded'
  BY <1>10 DEF Finish, Goto, ScheduleRetry, NeedsRetry, FirstFree, Retrying
<1>11. ASSUME NEW w \in Consumer, Settle(w) PROVE EmptyHanded'
  BY <1>11 DEF Settle, Leave, Goto
<1>12. ASSUME NEW w \in Consumer, Crash(w) PROVE EmptyHanded'
  BY <1>12 DEF Crash, Leave, Goto, Retrying
<1>13. ASSUME NEW w \in Consumer, LoseLock(w) PROVE EmptyHanded'
  BY <1>13 DEF LoseLock
<1>14. ASSUME NEW i \in Timer, Enqueue(i) PROVE EmptyHanded'
  BY <1>14 DEF Enqueue
<1>15. ASSUME NEW i \in Timer, MarkEnqueued(i) PROVE EmptyHanded'
  BY <1>15 DEF MarkEnqueued
<1>16. CASE UNCHANGED noticeVars
  BY <1>16 DEF noticeVars
<1> QED BY <1>1, <1>2, <1>3, <1>4, <1>5, <1>6, <1>7, <1>8, <1>9, <1>10, <1>11, <1>12, <1>13, <1>14,
    <1>15, <1>16
      DEF NoticeNext, Start, Handle, Schedule

LEMMA AtEndNext ==
  ASSUME NoticeTypeOK, Holds, DispatchedAtEnd, [NoticeNext]_noticeVars
  PROVE  DispatchedAtEnd'
<1> USE NoticeRanges DEF NoticeTypeOK, Stage, Status, Zero, Holds, DispatchedAtEnd,
    AlreadyDispatched, Retrying, rows, retries, handler, history, faults
<1>1. ASSUME NEW w \in Consumer, Skip(w) PROVE DispatchedAtEnd'
  BY <1>1 DEF Skip, TakeUp, Goto
<1>2. ASSUME NEW w \in Consumer, Resolve(w) PROVE DispatchedAtEnd'
  BY <1>2 DEF Resolve, TakeUp, Goto
<1>3. ASSUME NEW w \in Consumer, Unresolved(w) PROVE DispatchedAtEnd'
  BY <1>3 DEF Unresolved, Goto
<1>4. ASSUME NEW w \in Consumer, Record(w) PROVE DispatchedAtEnd'
  BY <1>4 DEF Record, Goto
<1>5. ASSUME NEW w \in Consumer, NEW i \in Timer, ClaimRetry(w, i) PROVE DispatchedAtEnd'
  BY <1>5 DEF ClaimRetry, TakeUp, Goto
<1>6. ASSUME NEW w \in Consumer, Select(w) PROVE DispatchedAtEnd'
  BY <1>6 DEF Select, Goto
<1>7. ASSUME NEW w \in Consumer, NEW p \in Person, Attempt(w, p) PROVE DispatchedAtEnd'
  BY <1>7 DEF Attempt, Goto
<1>8. ASSUME NEW w \in Consumer, Write(w) PROVE DispatchedAtEnd'
  BY <1>8 DEF Write, Goto
<1>9. ASSUME NEW w \in Consumer, NEW p \in Person, GiveUp(w, p) PROVE DispatchedAtEnd'
  BY <1>9 DEF GiveUp
<1>10. ASSUME NEW w \in Consumer, Finish(w) PROVE DispatchedAtEnd'
  BY <1>10 DEF Finish, Goto, ScheduleRetry, NeedsRetry, FirstFree, Retrying
<1>11. ASSUME NEW w \in Consumer, Settle(w) PROVE DispatchedAtEnd'
  BY <1>11 DEF Settle, Leave, Goto
<1>12. ASSUME NEW w \in Consumer, Crash(w) PROVE DispatchedAtEnd'
  BY <1>12 DEF Crash, Leave, Goto, Retrying
<1>13. ASSUME NEW w \in Consumer, LoseLock(w) PROVE DispatchedAtEnd'
  BY <1>13 DEF LoseLock
<1>14. ASSUME NEW i \in Timer, Enqueue(i) PROVE DispatchedAtEnd'
  BY <1>14 DEF Enqueue
<1>15. ASSUME NEW i \in Timer, MarkEnqueued(i) PROVE DispatchedAtEnd'
  BY <1>15 DEF MarkEnqueued
<1>16. CASE UNCHANGED noticeVars
  BY <1>16 DEF noticeVars
<1> QED BY <1>1, <1>2, <1>3, <1>4, <1>5, <1>6, <1>7, <1>8, <1>9, <1>10, <1>11, <1>12, <1>13, <1>14,
    <1>15, <1>16
      DEF NoticeNext, Start, Handle, Schedule

LEMMA TurnNext ==
  ASSUME NoticeTypeOK, Holds, EmptyHanded, DispatchedAtEnd, InTurn, [NoticeNext]_noticeVars
  PROVE  InTurn'
<1> USE NoticeRanges DEF NoticeTypeOK, Stage, Status, Zero, Holds, DispatchedAtEnd,
    AlreadyDispatched, Retrying, InTurn, Running, Waiting, rows, retries, handler, history, faults
<1>1. ASSUME NEW w \in Consumer, Skip(w) PROVE InTurn'
  BY <1>1 DEF Skip, TakeUp, Goto
<1>2. ASSUME NEW w \in Consumer, Resolve(w) PROVE InTurn'
  BY <1>2 DEF Resolve, TakeUp, Goto
<1>3. ASSUME NEW w \in Consumer, Unresolved(w) PROVE InTurn'
  BY <1>3 DEF Unresolved, Goto
<1>4. ASSUME NEW w \in Consumer, Record(w) PROVE InTurn'
  BY <1>4 DEF Record, Goto
<1>5. ASSUME NEW w \in Consumer, NEW i \in Timer, ClaimRetry(w, i) PROVE InTurn'
  <2> SUFFICES ASSUME overlaps = 0 PROVE InTurn'
    BY <1>5 DEF ClaimRetry
  <2>1. /\ step[w] = "idle" /\ msg[i] = "ready" /\ msg'[i] = w /\ doing'[w] = i
        /\ \A u \in Consumer \ {w} : step'[u] = step[u] /\ doing'[u] = doing[u]
        /\ \A j \in Effect \ {i} : msg'[j] = msg[j]
        /\ UNCHANGED notification
    BY <1>5 DEF ClaimRetry, TakeUp, Goto
  <2>2. \A u \in Consumer : step'[u] # "idle" => msg'[doing'[u]] = u
    BY <2>1
  <2>3. CASE timer[i] = "enqueued"
    <3>1. /\ timer'[i] = "executed" /\ \A j \in Timer \ {i} : timer'[j] = timer[j]
          /\ step'[w] = "select"
      BY <1>5, <2>3 DEF ClaimRetry, Goto
    <3>2. (\A u \in Consumer : ~Running(u)) /\ notification # "pending"
      BY <2>3
    <3>3. \A u \in Consumer : Running(u)' => u = w
      BY <2>1, <3>2
    <3>4. \A j \in Timer : ~Waiting(j)'
      BY <2>3, <3>1
    <3> QED BY <2>1, <2>2, <3>2, <3>3, <3>4
  <2>4. CASE timer[i] # "enqueued"
    <3>1. UNCHANGED timer /\ step'[w] = "complete"
      BY <1>5, <2>4 DEF ClaimRetry, Goto
    <3>2. \A u \in Consumer : Running(u)' => Running(u) /\ u # w
      BY <2>1, <3>1
    <3> QED BY <2>1, <2>2, <3>1, <3>2
  <2> QED BY <2>3, <2>4
<1>6. ASSUME NEW w \in Consumer, Select(w) PROVE InTurn'
  BY <1>6 DEF Select, Goto
<1>7. ASSUME NEW w \in Consumer, NEW p \in Person, Attempt(w, p) PROVE InTurn'
  <2>1. \A u \in Consumer : /\ step'[u] = "idle" <=> step[u] = "idle"
                            /\ Running(u)' <=> Running(u)
    BY <1>7 DEF Attempt, Goto
  <2>2. UNCHANGED <<doing, msg, timer, notification, overlaps>>
    BY <1>7 DEF Attempt
  <2> QED BY <2>1, <2>2
<1>8. ASSUME NEW w \in Consumer, Write(w) PROVE InTurn'
  BY <1>8 DEF Write, Goto
<1>9. ASSUME NEW w \in Consumer, NEW p \in Person, GiveUp(w, p) PROVE InTurn'
  BY <1>9 DEF GiveUp
<1>10. ASSUME NEW w \in Consumer, Finish(w) PROVE InTurn'
  BY <1>10 DEF Finish, Goto, ScheduleRetry, NeedsRetry, FirstFree, Retrying
<1>11. ASSUME NEW w \in Consumer, Settle(w) PROVE InTurn'
  BY <1>11 DEF Settle, Leave, Goto
<1>12. ASSUME NEW w \in Consumer, Crash(w) PROVE InTurn'
  BY <1>12 DEF Crash, Leave, Goto, Retrying
<1>13. ASSUME NEW w \in Consumer, LoseLock(w) PROVE InTurn'
  BY <1>13 DEF LoseLock
<1>14. ASSUME NEW i \in Timer, Enqueue(i) PROVE InTurn'
  BY <1>14 DEF Enqueue
<1>15. ASSUME NEW i \in Timer, MarkEnqueued(i) PROVE InTurn'
  BY <1>15 DEF MarkEnqueued
<1>16. CASE UNCHANGED noticeVars
  BY <1>16 DEF noticeVars
<1> QED BY <1>1, <1>2, <1>3, <1>4, <1>5, <1>6, <1>7, <1>8, <1>9, <1>10, <1>11, <1>12, <1>13, <1>14,
    <1>15, <1>16
      DEF NoticeNext, Start, Handle, Schedule

LEMMA PursuitNext ==
  ASSUME NoticeTypeOK, Holds, EmptyHanded, DispatchedAtEnd, InTurn, Pursuit, [NoticeNext]_noticeVars
  PROVE  Pursuit'
<1> USE NoticeRanges DEF NoticeTypeOK, Stage, Status, Zero, Holds, EmptyHanded, DispatchedAtEnd,
    AlreadyDispatched, Retrying, InTurn, Running, Waiting, Pursuit, Pursued, HandledBy, Awaited,
    Outstanding, rows, retries, handler, history, faults
<1>1. ASSUME NEW w \in Consumer, Skip(w) PROVE Pursuit'
  BY <1>1 DEF Skip, TakeUp, Goto
<1>2. ASSUME NEW w \in Consumer, Resolve(w) PROVE Pursuit'
  <2>1. /\ step[w] = "idle" /\ step'[w] = "resolved" /\ msg'[Dispatch] # "done"
        /\ \A u \in Consumer \ {w} : step'[u] = step[u] /\ doing'[u] = doing[u] /\ todo'[u] = todo[u]
        /\ UNCHANGED <<notification, status, timer, hand, bad, dropped>>
    BY <1>2 DEF Resolve, TakeUp, Goto
  <2>2. ASSUME NEW p \in Person, NEW u \in Consumer, HandledBy(u, p) PROVE HandledBy(u, p)'
    BY <2>2, <2>1
  <2>3. Awaited => Awaited'
    BY <2>1
  <2>4. \A p \in Person : Pursued(p) => Pursued(p)'
    BY <2>2, <2>3, <2>1
  <2> QED BY <2>1, <2>4
<1>3. ASSUME NEW w \in Consumer, Unresolved(w) PROVE Pursuit'
  BY <1>3 DEF Unresolved, Goto
<1>4. ASSUME NEW w \in Consumer, Record(w) PROVE Pursuit'
  BY <1>4 DEF Record, Goto
<1>5. ASSUME NEW w \in Consumer, NEW i \in Timer, ClaimRetry(w, i) PROVE Pursuit'
  <2>1. /\ step[w] = "idle" /\ msg[Dispatch] = msg'[Dispatch] /\ doing'[w] = i
        /\ \A u \in Consumer \ {w} : step'[u] = step[u] /\ doing'[u] = doing[u]
        /\ UNCHANGED <<notification, status, todo, hand, bad>>
    BY <1>5 DEF ClaimRetry, TakeUp, Goto
  <2>2. CASE timer[i] = "enqueued"
    BY <1>5, <2>1, <2>2 DEF ClaimRetry, Goto
  <2>3. CASE timer[i] # "enqueued"
    <3>1. step'[w] = "complete" /\ UNCHANGED timer /\ (dropped => dropped')
      BY <1>5, <2>3 DEF ClaimRetry, Goto
    <3>2. ASSUME NEW p \in Person, NEW u \in Consumer, HandledBy(u, p) PROVE HandledBy(u, p)'
      BY <3>2, <2>1, <3>1
    <3>3. Awaited => Awaited'
      BY <2>1, <3>1
    <3>4. \A p \in Person : Pursued(p) => Pursued(p)'
      BY <3>2, <3>3, <2>1, <3>1
    <3> QED BY <2>1, <3>1, <3>4
  <2> QED BY <2>2, <2>3
<1>6. ASSUME NEW w \in Consumer, Select(w) PROVE Pursuit'
  BY <1>6 DEF Select, Goto
<1>7. ASSUME NEW w \in Consumer, NEW p \in Person, Attempt(w, p) PROVE Pursuit'
  <2>1. /\ step[w] = "attempt" /\ step'[w] \in {"landed", "bounced"}
        /\ todo'[w] \cup hand'[w] = todo[w]
        /\ \A u \in Consumer \ {w} : step'[u] = step[u] /\ todo'[u] = todo[u] /\ hand'[u] = hand[u]
    BY <1>7 DEF Attempt, Goto
  <2>2. UNCHANGED <<notification, status, timer, msg, doing, bad, dropped>>
    BY <1>7 DEF Attempt
  <2>3. ASSUME NEW q \in Person, NEW u \in Consumer, HandledBy(u, q) PROVE HandledBy(u, q)'
    BY <2>3, <2>1, <2>2
  <2>4. Awaited => Awaited'
    BY <2>1, <2>2
  <2>5. \A q \in Person : Pursued(q) => Pursued(q)'
    BY <2>3, <2>4, <2>1, <2>2
  <2> QED BY <2>2, <2>5
<1>8. ASSUME NEW w \in Consumer, Write(w) PROVE Pursuit'
  <2>1. /\ step[w] \in {"landed", "bounced"} /\ step'[w] = "attempt"
        /\ \A u \in Consumer \ {w} : step'[u] = step[u] /\ hand'[u] = hand[u] /\ bad'[u] = bad[u]
        /\ bad'[w] = (bad[w] \/ step[w] = "bounced") /\ hand'[w] = {}
        /\ UNCHANGED <<notification, timer, msg, doing, todo, dropped>>
    BY <1>8 DEF Write, Goto
  <2>2. ASSUME NEW p \in Outstanding', Pursued(p) \/ p \in hand[w] PROVE Pursued(p)'
    <3>1. CASE step[w] = "bounced"
      BY <2>1, <3>1
    <3>2. CASE step[w] = "landed"
      <4>1. p \notin hand[w] /\ status'[p] = status[p]
        BY <1>8, <3>2 DEF Write
      <4>2. Pursued(p)
        BY <2>2, <4>1
      <4>3. ASSUME NEW u \in Consumer, HandledBy(u, p) PROVE HandledBy(u, p)'
        BY <4>3, <2>1, <3>2, <4>1
      <4>4. Awaited => Awaited'
        BY <2>1, <3>2
      <4> QED BY <2>1, <4>2, <4>3, <4>4
    <3> QED BY <2>1, <3>1, <3>2
  <2>3. \A p \in Outstanding' : p \in Outstanding \/ p \in hand[w]
    BY <1>8 DEF Write
  <2> QED BY <2>1, <2>2, <2>3
<1>9. ASSUME NEW w \in Consumer, NEW p \in Person, GiveUp(w, p) PROVE Pursuit'
  BY <1>9 DEF GiveUp
<1>10. ASSUME NEW w \in Consumer, Finish(w) PROVE Pursuit'
  <2>1. /\ step[w] = "attempt" /\ todo[w] = {} /\ hand[w] = {} /\ step'[w] = "complete"
        /\ \A u \in Consumer \ {w} : step'[u] = step[u]
        /\ UNCHANGED <<status, msg, doing, todo, hand, bad, dropped>>
    BY <1>10 DEF Finish, Goto
  <2>2. CASE bad[w]
    BY <1>10, <2>1, <2>2 DEF Finish, ScheduleRetry, NeedsRetry
  <2>3. CASE ~bad[w]
    <3>1. UNCHANGED timer /\ (doing[w] # Dispatch => UNCHANGED notification)
      BY <1>10, <2>3 DEF Finish, ScheduleRetry, NeedsRetry, Retrying
    <3>2. ASSUME NEW p \in Person, NEW u \in Consumer, HandledBy(u, p) PROVE HandledBy(u, p)'
      BY <3>2, <2>1, <2>3, <3>1
    <3>3. Awaited => Awaited'
      BY <2>1, <2>3, <3>1
    <3>4. \A p \in Person : Pursued(p) => Pursued(p)'
      BY <3>2, <3>3, <2>1, <2>3, <3>1
    <3> QED BY <2>1, <3>4
  <2> QED BY <2>2, <2>3
<1>11. ASSUME NEW w \in Consumer, Settle(w) PROVE Pursuit'
  <2>1. /\ step[w] = "complete" /\ step'[w] = "idle"
        /\ \A u \in Consumer \ {w} : /\ step'[u] = step[u] /\ doing'[u] = doing[u] /\ todo'[u] = todo[u]
                                     /\ hand'[u] = hand[u] /\ bad'[u] = bad[u]
        /\ UNCHANGED <<notification, status, timer, dropped>>
    BY <1>11 DEF Settle, Leave, Goto
  <2>2. notification = "pending" => msg'[Dispatch] = msg[Dispatch]
    BY <1>11, <2>1 DEF Settle
  <2>3. ASSUME NEW p \in Person, NEW u \in Consumer, HandledBy(u, p) PROVE HandledBy(u, p)'
    BY <2>3, <2>1, <2>2
  <2>4. Awaited => Awaited'
    BY <2>1, <2>2
  <2>5. \A p \in Person : Pursued(p) => Pursued(p)'
    BY <2>3, <2>4, <2>1, <2>2
  <2> QED BY <2>1, <2>5
<1>12. ASSUME NEW w \in Consumer, Crash(w) PROVE Pursuit'
  <2>1. /\ step'[w] = "idle"
        /\ \A u \in Consumer \ {w} : /\ step'[u] = step[u] /\ doing'[u] = doing[u] /\ todo'[u] = todo[u]
                                     /\ hand'[u] = hand[u] /\ bad'[u] = bad[u]
        /\ UNCHANGED <<notification, status, timer>>
        /\ step[w] # "idle"
    BY <1>12 DEF Crash, Leave, Goto
  <2>2. msg'[Dispatch] = "done" => msg[Dispatch] = "done"
    BY <1>12 DEF Crash
  <2>3. CASE step[w] = "complete" \/ dropped'
    <3>1. CASE step[w] = "complete"
      <4>1. ASSUME NEW p \in Person, NEW u \in Consumer, HandledBy(u, p) PROVE HandledBy(u, p)'
        BY <4>1, <2>1, <3>1
      <4>2. Awaited => Awaited'
        BY <2>1, <2>2
      <4>3. \A p \in Person : Pursued(p) => Pursued(p)'
        BY <2>1, <4>1, <4>2
      <4> QED BY <1>12, <2>1, <4>3 DEF Crash
    <3>2. CASE dropped'
      BY <3>2
    <3> QED BY <2>3, <3>1, <3>2
  <2>4. CASE step[w] # "complete" /\ ~dropped'
    <3>1. overlaps = 0 /\ doing[w] = Dispatch
      BY <1>12, <2>4 DEF Crash, Retrying
    <3>2. msg[Dispatch] = w /\ notification = "pending"
      BY <2>1, <2>4, <3>1
    <3>3. \A u \in Consumer \ {w} : doing[u] # Dispatch
      BY <3>1, <3>2
    <3>4. msg'[Dispatch] # "done"
      BY <2>2, <3>2
    <3> QED BY <2>1, <3>2, <3>3, <3>4
  <2> QED BY <2>3, <2>4
<1>13. ASSUME NEW w \in Consumer, LoseLock(w) PROVE Pursuit'
  BY <1>13 DEF LoseLock
<1>14. ASSUME NEW i \in Timer, Enqueue(i) PROVE Pursuit'
  BY <1>14 DEF Enqueue
<1>15. ASSUME NEW i \in Timer, MarkEnqueued(i) PROVE Pursuit'
  BY <1>15 DEF MarkEnqueued
<1>16. CASE UNCHANGED noticeVars
  BY <1>16 DEF noticeVars
<1> QED BY <1>1, <1>2, <1>3, <1>4, <1>5, <1>6, <1>7, <1>8, <1>9, <1>10, <1>11, <1>12, <1>13, <1>14,
    <1>15, <1>16
      DEF NoticeNext, Start, Handle, Schedule

LEMMA CurrentNext ==
  ASSUME NoticeTypeOK, Holds, EmptyHanded, InTurn, Current, [NoticeNext]_noticeVars
  PROVE  Current'
<1> USE NoticeRanges DEF NoticeTypeOK, Stage, Status, Zero, EmptyHanded, InTurn, Running, Current,
    Trying, Outstanding, rows, retries, handler, history, faults
<1>1. ASSUME NEW w \in Consumer, Skip(w) PROVE Current'
  BY <1>1 DEF Skip, TakeUp, Goto
<1>2. ASSUME NEW w \in Consumer, Resolve(w) PROVE Current'
  BY <1>2 DEF Resolve, TakeUp, Goto
<1>3. ASSUME NEW w \in Consumer, Unresolved(w) PROVE Current'
  BY <1>3 DEF Unresolved, Goto
<1>4. ASSUME NEW w \in Consumer, Record(w) PROVE Current'
  BY <1>4 DEF Record, Goto
<1>5. ASSUME NEW w \in Consumer, NEW i \in Timer, ClaimRetry(w, i) PROVE Current'
  BY <1>5 DEF ClaimRetry, TakeUp, Goto
<1>6. ASSUME NEW w \in Consumer, Select(w) PROVE Current'
  BY <1>6 DEF Select, Goto
<1>7. ASSUME NEW w \in Consumer, NEW p \in Person, Attempt(w, p) PROVE Current'
  BY <1>7 DEF Attempt, Goto
<1>8. ASSUME NEW w \in Consumer, Write(w) PROVE Current'
  BY <1>8 DEF Write, Goto
<1>9. ASSUME NEW w \in Consumer, NEW p \in Person, GiveUp(w, p) PROVE Current'
  BY <1>9 DEF GiveUp
<1>10. ASSUME NEW w \in Consumer, Finish(w) PROVE Current'
  BY <1>10 DEF Finish, Goto, ScheduleRetry, NeedsRetry, FirstFree, Retrying
<1>11. ASSUME NEW w \in Consumer, Settle(w) PROVE Current'
  BY <1>11 DEF Settle, Leave, Goto
<1>12. ASSUME NEW w \in Consumer, Crash(w) PROVE Current'
  BY <1>12 DEF Crash, Leave, Goto, Retrying
<1>13. ASSUME NEW w \in Consumer, LoseLock(w) PROVE Current'
  BY <1>13 DEF LoseLock
<1>14. ASSUME NEW i \in Timer, Enqueue(i) PROVE Current'
  BY <1>14 DEF Enqueue
<1>15. ASSUME NEW i \in Timer, MarkEnqueued(i) PROVE Current'
  BY <1>15 DEF MarkEnqueued
<1>16. CASE UNCHANGED noticeVars
  BY <1>16 DEF noticeVars
<1> QED BY <1>1, <1>2, <1>3, <1>4, <1>5, <1>6, <1>7, <1>8, <1>9, <1>10, <1>11, <1>12, <1>13, <1>14,
    <1>15, <1>16
      DEF NoticeNext, Start, Handle, Schedule

LEMMA LandedNext ==
  ASSUME NoticeTypeOK, EmptyHanded, InTurn, Current, LandedIsRecorded, [NoticeNext]_noticeVars
  PROVE  LandedIsRecorded'
<1> USE NoticeRanges DEF NoticeTypeOK, Stage, Status, Zero, EmptyHanded, InTurn, Running, Current,
    Trying, Outstanding, LandedIsRecorded, Unwritten, InRow, InHand, rows, retries, handler, history,
    faults
<1>1. ASSUME NEW w \in Consumer, Skip(w) PROVE LandedIsRecorded'
  BY <1>1 DEF Skip, TakeUp, Goto
<1>2. ASSUME NEW w \in Consumer, Resolve(w) PROVE LandedIsRecorded'
  BY <1>2 DEF Resolve, TakeUp, Goto
<1>3. ASSUME NEW w \in Consumer, Unresolved(w) PROVE LandedIsRecorded'
  BY <1>3 DEF Unresolved, Goto
<1>4. ASSUME NEW w \in Consumer, Record(w) PROVE LandedIsRecorded'
  <2>1. /\ step[w] = "resolved" /\ step'[w] = "select" /\ \A u \in Consumer \ {w} : step'[u] = step[u]
        /\ UNCHANGED <<hand, landed, overlaps>>
    BY <1>4 DEF Record, Goto
  <2>2. ASSUME NEW p \in Person PROVE InRow(p)' = InRow(p)
    BY <1>4 DEF Record
  <2> HIDE DEF InTurn, Current, Running, Trying, Outstanding, rows, retries, handler, history, faults
  <2>3. ASSUME NEW p \in Person PROVE Unwritten(p)' <=> Unwritten(p)
    BY <2>1
  <2> QED BY <2>1, <2>2, <2>3
<1>5. ASSUME NEW w \in Consumer, NEW i \in Timer, ClaimRetry(w, i) PROVE LandedIsRecorded'
  <2>1. /\ step[w] = "idle" /\ step'[w] \in {"select", "complete"}
        /\ \A u \in Consumer \ {w} : step'[u] = step[u]
        /\ UNCHANGED <<status, hand, landed, overlaps>>
    BY <1>5 DEF ClaimRetry, TakeUp, Goto
  <2>2. ASSUME NEW p \in Person PROVE Unwritten(p)' <=> Unwritten(p)
    BY <2>1
  <2>3. ASSUME NEW p \in Person PROVE InRow(p)' = InRow(p)
    BY <2>1
  <2>4. ASSUME overlaps = 0, NEW p \in Person PROVE landed'[p] = InRow(p)' + InHand(p)'
    <3>1. landed[p] = InRow(p) + InHand(p)
      BY <2>4
    <3>2. InHand(p)' = InHand(p)
      BY <2>2
    <3> QED BY <2>1, <2>3, <3>1, <3>2
  <2> QED BY <2>1, <2>4
<1>6. ASSUME NEW w \in Consumer, Select(w) PROVE LandedIsRecorded'
  BY <1>6 DEF Select, Goto
<1>7. ASSUME NEW w \in Consumer, NEW p \in Person, Attempt(w, p) PROVE LandedIsRecorded'
  BY <1>7 DEF Attempt, Goto
<1>8. ASSUME NEW w \in Consumer, Write(w) PROVE LandedIsRecorded'
  <2> SUFFICES ASSUME overlaps = 0, NEW p \in Person PROVE landed'[p] = InRow(p)' + InHand(p)'
    BY <1>8 DEF Write
  <2>1. /\ step[w] \in {"landed", "bounced"} /\ step'[w] = "attempt" /\ hand[w] \subseteq Outstanding
        /\ \A u \in Consumer \ {w} : step[u] # "landed" /\ step'[u] = step[u]
        /\ UNCHANGED landed
    BY <1>8 DEF Write, Goto
  <2>2. Unwritten(p) <=> step[w] = "landed" /\ p \in hand[w]
    BY <2>1
  <2>3. ~Unwritten(p)'
    BY <2>1
  <2>4. landed[p] = InRow(p) + InHand(p)
    OBVIOUS
  <2>5. CASE p \in hand[w]
    <3>1. status[p] # "sent" /\ status'[p] = (IF step[w] = "landed" THEN "sent" ELSE "failed")
      BY <1>8, <2>1, <2>5 DEF Write
    <3> QED BY <2>1, <2>2, <2>3, <2>4, <2>5, <3>1
  <2>6. CASE p \notin hand[w]
    <3>1. status'[p] = status[p]
      BY <1>8, <2>6 DEF Write
    <3> QED BY <2>1, <2>2, <2>3, <2>4, <2>6, <3>1
  <2> QED BY <2>5, <2>6
<1>9. ASSUME NEW w \in Consumer, NEW p \in Person, GiveUp(w, p) PROVE LandedIsRecorded'
  <2>1. UNCHANGED <<step, hand, landed, overlaps>>
    BY <1>9 DEF GiveUp
  <2>2. ASSUME NEW q \in Person PROVE InRow(q)' = InRow(q)
    BY <1>9 DEF GiveUp
  <2>3. ASSUME NEW q \in Person PROVE Unwritten(q)' <=> Unwritten(q)
    BY <2>1
  <2> QED BY <2>1, <2>2, <2>3
<1>10. ASSUME NEW w \in Consumer, Finish(w) PROVE LandedIsRecorded'
  BY <1>10 DEF Finish, Goto, ScheduleRetry, NeedsRetry, FirstFree, Retrying
<1>11. ASSUME NEW w \in Consumer, Settle(w) PROVE LandedIsRecorded'
  BY <1>11 DEF Settle, Leave, Goto
<1>12. ASSUME NEW w \in Consumer, Crash(w) PROVE LandedIsRecorded'
  <2> SUFFICES ASSUME overlaps = 0, NEW p \in Person PROVE landed'[p] = InRow(p)' + InHand(p)'
    BY <1>12 DEF Crash
  <2>1. /\ step'[w] = "idle" /\ \A u \in Consumer \ {w} : step'[u] = step[u] /\ hand'[u] = hand[u]
        /\ InRow(p)' = InRow(p)
    BY <1>12 DEF Crash, Leave, Goto
  <2>2. landed[p] = InRow(p) + InHand(p)
    OBVIOUS
  <2>3. CASE step[w] = "landed" /\ p \in hand[w]
    <3>1. ~Unwritten(p)' /\ Unwritten(p)
      BY <2>1, <2>3
    <3>2. landed'[p] = landed[p] - 1
      BY <1>12, <2>3 DEF Crash
    <3> QED BY <2>1, <2>2, <3>1, <3>2
  <2>4. CASE ~(step[w] = "landed" /\ p \in hand[w])
    <3>1. Unwritten(p)' <=> Unwritten(p)
      BY <2>1, <2>4
    <3>2. landed'[p] = landed[p]
      BY <1>12, <2>4 DEF Crash
    <3> QED BY <2>1, <2>2, <3>1, <3>2
  <2> QED BY <2>3, <2>4
<1>13. ASSUME NEW w \in Consumer, LoseLock(w) PROVE LandedIsRecorded'
  BY <1>13 DEF LoseLock
<1>14. ASSUME NEW i \in Timer, Enqueue(i) PROVE LandedIsRecorded'
  BY <1>14 DEF Enqueue
<1>15. ASSUME NEW i \in Timer, MarkEnqueued(i) PROVE LandedIsRecorded'
  BY <1>15 DEF MarkEnqueued
<1>16. CASE UNCHANGED noticeVars
  BY <1>16 DEF noticeVars
<1> QED BY <1>1, <1>2, <1>3, <1>4, <1>5, <1>6, <1>7, <1>8, <1>9, <1>10, <1>11, <1>12, <1>13, <1>14,
    <1>15, <1>16
      DEF NoticeNext, Start, Handle, Schedule

LEMMA JournalledNext ==
  ASSUME NoticeTypeOK, Holds, EmptyHanded, InTurn, Current, JournalledOnce, [NoticeNext]_noticeVars
  PROVE  JournalledOnce'
<1> USE NoticeRanges DEF NoticeTypeOK, Stage, Status, Zero, Holds, EmptyHanded, InTurn, Running,
    Current, Trying, Outstanding, JournalledOnce, OutOfAttempts, Retrying, rows, retries, handler,
    history, faults
<1>1. ASSUME NEW w \in Consumer, Skip(w) PROVE JournalledOnce'
  BY <1>1 DEF Skip, TakeUp, Goto
<1>2. ASSUME NEW w \in Consumer, Resolve(w) PROVE JournalledOnce'
  BY <1>2 DEF Resolve, TakeUp, Goto
<1>3. ASSUME NEW w \in Consumer, Unresolved(w) PROVE JournalledOnce'
  BY <1>3 DEF Unresolved, Goto
<1>4. ASSUME NEW w \in Consumer, Record(w) PROVE JournalledOnce'
  BY <1>4 DEF Record, Goto
<1>5. ASSUME NEW w \in Consumer, NEW i \in Timer, ClaimRetry(w, i) PROVE JournalledOnce'
  BY <1>5 DEF ClaimRetry, TakeUp, Goto
<1>6. ASSUME NEW w \in Consumer, Select(w) PROVE JournalledOnce'
  BY <1>6 DEF Select, Goto
<1>7. ASSUME NEW w \in Consumer, NEW p \in Person, Attempt(w, p) PROVE JournalledOnce'
  BY <1>7 DEF Attempt, Goto
<1>8. ASSUME NEW w \in Consumer, Write(w) PROVE JournalledOnce'
  <2> SUFFICES ASSUME overlaps = 0, NEW p \in Person
               PROVE  /\ status'[p] = "dead" <=> status[p] = "dead"
                      /\ status[p] = "dead" => count'[p] = count[p]
    BY <1>8 DEF Write
  <2>1. step[w] \in {"landed", "bounced"} /\ hand[w] \subseteq Outstanding
    BY <1>8 DEF Write
  <2>2. CASE p \in hand[w]
    <3>1. status[p] # "dead"
      BY <2>1, <2>2
    <3>2. status'[p] \in {"sent", "failed"}
      BY <1>8, <2>2 DEF Write
    <3> QED BY <3>1, <3>2
  <2>3. CASE p \notin hand[w]
    BY <1>8, <2>3 DEF Write
  <2> QED BY <2>2, <2>3
<1>9. ASSUME NEW w \in Consumer, NEW p \in Person, GiveUp(w, p) PROVE JournalledOnce'
  <2>1. UNCHANGED <<notification, announced, count, overlaps>>
    BY <1>9 DEF GiveUp
  <2>2. overlaps = 0 => p \in Outstanding /\ count[p] >= MaxAttempts
    <3>1. step[w] = "attempt" /\ p \in todo[w] /\ seen[w][p] >= MaxAttempts
      BY <1>9 DEF GiveUp
    <3> QED BY <3>1
  <2>3. p \in Outstanding => /\ status' = [status EXCEPT ![p] = "dead"]
                             /\ deaths' = [deaths EXCEPT ![p] = deaths[p] + 1]
    BY <1>9 DEF GiveUp
  <2>4. CASE overlaps = 0
    <3>1. /\ status'[p] = "dead" /\ deaths'[p] = 1
          /\ \A q \in Person \ {p} : status'[q] = status[q] /\ deaths'[q] = deaths[q]
      <4>1. p \in Outstanding /\ deaths[p] = 0
        BY <2>2, <2>4
      <4>2. status' = [status EXCEPT ![p] = "dead"] /\ deaths' = [deaths EXCEPT ![p] = deaths[p] + 1]
        BY <2>3, <4>1
      <4> QED BY <4>1, <4>2
    <3>2. ASSUME NEW q \in Person
          PROVE  /\ deaths'[q] = IF status'[q] = "dead" THEN 1 ELSE 0
                 /\ deaths'[q] > 0 => count'[q] >= MaxAttempts
      <4>1. CASE q = p
        BY <2>1, <2>2, <2>4, <3>1, <4>1
      <4>2. CASE q # p
        BY <2>1, <2>4, <3>1, <4>2
      <4> QED BY <4>1, <4>2
    <3> QED BY <2>1, <2>4, <3>2
  <2> QED BY <2>1, <2>4
<1>10. ASSUME NEW w \in Consumer, Finish(w) PROVE JournalledOnce'
  BY <1>10 DEF Finish, Goto, ScheduleRetry, NeedsRetry, FirstFree, Retrying
<1>11. ASSUME NEW w \in Consumer, Settle(w) PROVE JournalledOnce'
  BY <1>11 DEF Settle, Leave, Goto
<1>12. ASSUME NEW w \in Consumer, Crash(w) PROVE JournalledOnce'
  BY <1>12 DEF Crash, Leave, Goto, Retrying
<1>13. ASSUME NEW w \in Consumer, LoseLock(w) PROVE JournalledOnce'
  BY <1>13 DEF LoseLock
<1>14. ASSUME NEW i \in Timer, Enqueue(i) PROVE JournalledOnce'
  BY <1>14 DEF Enqueue
<1>15. ASSUME NEW i \in Timer, MarkEnqueued(i) PROVE JournalledOnce'
  BY <1>15 DEF MarkEnqueued
<1>16. CASE UNCHANGED noticeVars
  BY <1>16 DEF noticeVars
<1> QED BY <1>1, <1>2, <1>3, <1>4, <1>5, <1>6, <1>7, <1>8, <1>9, <1>10, <1>11, <1>12, <1>13, <1>14,
    <1>15, <1>16
      DEF NoticeNext, Start, Handle, Schedule

LEMMA OutcomesNext ==
  ASSUME NoticeTypeOK, EmptyHanded, InTurn, Current, [NoticeNext]_noticeVars
  PROVE  Settled
<1> USE NoticeRanges DEF NoticeTypeOK, Stage, Status, Zero, Holds, EmptyHanded, InTurn, Running,
    Current, Trying, Outstanding, Settled, rows, retries, handler, history, faults
<1>1. ASSUME NEW w \in Consumer, Skip(w) PROVE Settled
  BY <1>1 DEF Skip, TakeUp, Goto
<1>2. ASSUME NEW w \in Consumer, Resolve(w) PROVE Settled
  BY <1>2 DEF Resolve, TakeUp, Goto
<1>3. ASSUME NEW w \in Consumer, Unresolved(w) PROVE Settled
  BY <1>3 DEF Unresolved, Goto
<1>4. ASSUME NEW w \in Consumer, Record(w) PROVE Settled
  BY <1>4 DEF Record, Goto
<1>5. ASSUME NEW w \in Consumer, NEW i \in Timer, ClaimRetry(w, i) PROVE Settled
  BY <1>5 DEF ClaimRetry, TakeUp, Goto
<1>6. ASSUME NEW w \in Consumer, Select(w) PROVE Settled
  BY <1>6 DEF Select, Goto
<1>7. ASSUME NEW w \in Consumer, NEW p \in Person, Attempt(w, p) PROVE Settled
  BY <1>7 DEF Attempt, Goto
<1>8. ASSUME NEW w \in Consumer, Write(w) PROVE Settled
  BY <1>8 DEF Write, Goto
<1>9. ASSUME NEW w \in Consumer, NEW p \in Person, GiveUp(w, p) PROVE Settled
  BY <1>9 DEF GiveUp
<1>10. ASSUME NEW w \in Consumer, Finish(w) PROVE Settled
  BY <1>10 DEF Finish, Goto, ScheduleRetry, NeedsRetry, FirstFree, Retrying
<1>11. ASSUME NEW w \in Consumer, Settle(w) PROVE Settled
  BY <1>11 DEF Settle, Leave, Goto
<1>12. ASSUME NEW w \in Consumer, Crash(w) PROVE Settled
  BY <1>12 DEF Crash, Leave, Goto, Retrying
<1>13. ASSUME NEW w \in Consumer, LoseLock(w) PROVE Settled
  BY <1>13 DEF LoseLock
<1>14. ASSUME NEW i \in Timer, Enqueue(i) PROVE Settled
  BY <1>14 DEF Enqueue
<1>15. ASSUME NEW i \in Timer, MarkEnqueued(i) PROVE Settled
  BY <1>15 DEF MarkEnqueued
<1>16. CASE UNCHANGED noticeVars
  BY <1>16 DEF noticeVars
<1> QED BY <1>1, <1>2, <1>3, <1>4, <1>5, <1>6, <1>7, <1>8, <1>9, <1>10, <1>11, <1>12, <1>13, <1>14,
    <1>15, <1>16
      DEF NoticeNext, Start, Handle, Schedule

\* All of it together.
Notice ==
  /\ NoticeTypeOK /\ Holds /\ EmptyHanded /\ DispatchedAtEnd /\ InTurn /\ Pursuit /\ Current
  /\ LandedIsRecorded /\ JournalledOnce

LEMMA NoticeStart == NoticeInit => Notice
<1> USE NoticeRanges DEF NoticeInit, Zero
<1>1. NoticeInit => NoticeTypeOK
  <2>1. Zero \in [Person -> Nat] /\ Zero \in [Person -> Int]
    OBVIOUS
  <2>2. NoticeInit => msg \in [Effect -> {"none", "ready", "done"} \cup Consumer]
    OBVIOUS
  <2> HIDE DEF Zero
  <2>3. NoticeInit => /\ seen \in [Consumer -> [Person -> Nat]] /\ count \in [Person -> Nat]
                      /\ landed \in [Person -> Int] /\ deaths \in [Person -> Nat]
    BY <2>1
  <2>4. NoticeInit => /\ notification \in {"pending", "dispatched"} /\ status \in [Person -> Status]
                      /\ timer \in [Timer -> {"none", "pending", "enqueued", "executed"}]
    BY DEF Status
  <2>5. NoticeInit => /\ doing \in [Consumer -> Effect \cup {NoMessage}] /\ step \in [Consumer -> Stage]
                      /\ todo \in [Consumer -> SUBSET Person] /\ hand \in [Consumer -> SUBSET Person]
                      /\ bad \in [Consumer -> BOOLEAN]
    BY DEF Stage
  <2>6. NoticeInit => announced \in Nat /\ crashes \in 0 .. MaxFaults /\ overlaps \in 0 .. MaxFaults
    OBVIOUS
  <2>7. NoticeInit => dropped \in BOOLEAN
    BY Zenon
  <2> QED BY <2>2, <2>3, <2>4, <2>5, <2>6, <2>7 DEF NoticeTypeOK
<1>2. NoticeInit => Holds /\ EmptyHanded /\ DispatchedAtEnd
  BY DEF Holds, EmptyHanded, DispatchedAtEnd
<1>3. NoticeInit => InTurn /\ Pursuit /\ Current
  BY DEF InTurn, Running, Waiting, Pursuit, Outstanding, Current, Trying
<1>4. NoticeInit => LandedIsRecorded /\ JournalledOnce
  BY DEF LandedIsRecorded, InRow, InHand, Unwritten, JournalledOnce
<1> QED BY <1>1, <1>2, <1>3, <1>4 DEF Notice

LEMMA NoticeStep == Notice /\ [NoticeNext]_noticeVars => Notice'
BY NoticeTyped, HoldsNext, EmptyNext, AtEndNext, TurnNext, PursuitNext, CurrentNext, LandedNext,
   JournalledNext
   DEF Notice

LEMMA AlwaysNotice == NoticeSpec => []Notice
BY NoticeStart, NoticeStep, PTL DEF NoticeSpec

\* Every state of the dispatch and its retries is well formed, with any number of consumers,
\* recipients, timers and faults.
THEOREM NoticeTypeCorrect == NoticeSpec => []NoticeTypeOK
<1>1. Notice => NoticeTypeOK
  BY DEF Notice
<1> QED BY AlwaysNotice, <1>1, PTL

\* A delivery neither sent, suppressed nor dead is still looked after, whatever crashes and
\* overlaps, but for the causes the code leaves: a claimed retry that died, an overlapped
\* dispatch that died, a message before its stamp, a repeated dispatch to nobody.
THEOREM AlwaysNeverSilent == NoticeSpec => []FailureNeverSilent
<1>1. Notice => FailureNeverSilent
  BY DEF Notice, Pursuit, Pursued, HandledBy, Awaited, Waiting, FailureNeverSilent, Chased
<1> QED BY AlwaysNotice, <1>1, PTL

\* Without overlapping handlers no delivery reaches its provider twice, but for sends whose
\* handler died before it could record them.
THEOREM AlwaysSentOnce == NoticeSpec => []SentOnceUncut
<1>1. ASSUME Notice, overlaps = 0, NEW p \in Person PROVE landed[p] <= 1
  <2>1. Unwritten(p) => status[p] # "sent"
    BY <1>1 DEF Notice, Unwritten, Current, Trying, Outstanding
  <2>2. landed[p] = InRow(p) + InHand(p)
    BY <1>1 DEF Notice, LandedIsRecorded
  <2> QED BY <2>1, <2>2 DEF InRow, InHand
<1>2. Notice => SentOnceUncut
  BY <1>1 DEF SentOnceUncut
<1> QED BY AlwaysNotice, <1>2, PTL

\* Without overlapping handlers the notification is announced once, and a delivery is given
\* up once, after every attempt.
THEOREM AlwaysJournalledOnce == NoticeSpec => []JournalledOnce
<1>1. Notice => JournalledOnce
  BY DEF Notice
<1> QED BY AlwaysNotice, <1>1, PTL

\* Without overlapping handlers the row of a delivery sent, suppressed or dead never changes.
THEOREM AlwaysOutcomesFinal == NoticeSpec => OutcomesFinal
<1>1. Notice /\ [NoticeNext]_noticeVars => Settled
  BY OutcomesNext DEF Notice
<1>2. Settled => [overlaps' = 0 => \A p \in Person : status[p] \in {"sent", "suppressed", "dead"} =>
                                     status'[p] = status[p] /\ count'[p] = count[p]]_noticeVars
  BY DEF Settled
<1> QED BY AlwaysNotice, <1>1, <1>2, PTL DEF NoticeSpec, OutcomesFinal
=============================================================================
