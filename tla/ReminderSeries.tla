--------------------------- MODULE ReminderSeries ----------------------------
(***************************************************************************)
(* The chase of one task: the series of `notification.reminder` timers     *)
(* that raising the task starts and finishing it ends.  Sources:           *)
(* scheduleReminder, cancelReminders, requestNotification (notify.ts),     *)
(* reminderEffect of notify-effects.ts, recomputeDueDates of tasks.ts, the *)
(* scheduler (workflow/src/scheduler.ts, apps/worker/src/scheduler.ts) and *)
(* nextOccurrence / untilReached of domain/src/notifications/reminder.ts.  *)
(*                                                                         *)
(* A series has no row of its own: an occurrence is a scheduled_action,    *)
(* and handling it inserts the next.  The messages of the queue are those  *)
(* rows (their ids are the MessageIds).  Three transactions meet here: the *)
(* scheduler's (locks due rows, sends, stamps), the handler's (claims the  *)
(* row, reads the task, requests the notification under a key that names   *)
(* the occurrence, inserts the next row) and the task engine's (holds the  *)
(* task, reads the pending rows and cancels those still pending).          *)
(*                                                                         *)
(* Bounds: MaxRows timers, MaxOccurrences is the series' `until` valve,    *)
(* MaxRecomputes moved deadlines, MaxFailures rollbacks, crashes and       *)
(* overrun locks.  When a timer is due is left open.  A message may be     *)
(* delivered before the transaction that sent it has committed, and after  *)
(* it has rolled back: nothing in the code prevents either.                *)
(***************************************************************************)
EXTENDS ServiceBus

CONSTANTS MaxRows, MaxOccurrences, MaxRecomputes, MaxFailures, NoSlot

ASSUME RowsAssumption == MaxRows \in Nat \ {0} /\ Message = 1 .. MaxRows
ASSUME SeriesAssumption == /\ MaxOccurrences \in Nat \ {0}
                           /\ MaxRecomputes \in Nat /\ MaxFailures \in Nat
ASSUME NoSlotAssumption == NoSlot \notin Slot

VARIABLES
  task,        \* "outstanding" (blocked, open) or "finished" (done, cancelled)
  tx,          \* the transaction that holds the task's row lock
  doomed,      \* the pending rows it has read
  row,         \* scheduled_action
  pc, batch,   \* the scheduler's transaction and the rows it has locked
  queue, window,
  at, slot,    \* Worker -> where its handler stands, the message it handles
  keys,        \* occurrences whose dedupe_key a notification has taken
  late,        \* chases committed after the task was finished
  overtaken,   \* history: rows a handler found unstamped and took for duplicates
  recomputes, failures

taskVars   == <<task, tx, doomed, recomputes>>
sender     == <<pc, batch>>
workerVars == <<at, slot>>
chaseVars  == <<keys, late>>
vars == <<taskVars, row, sender, queue, window, workerVars, chaseVars, overtaken, failures>>

Row        == 1 .. MaxRows
Occurrence == 1 .. MaxOccurrences
RowState   == [status : {"none", "pending", "enqueued", "executed", "cancelled"},
               occ : 0 .. MaxOccurrences]

Pending == { r \in Row : row[r].status = "pending" }

Stamped(rows, rs, s) == [r \in Row |-> IF r \in rs THEN [rows[r] EXCEPT !.status = s] ELSE rows[r]]

Unused(rows) == { r \in Row : rows[r].status = "none" }

\* scheduleAction: a new pending row.
Scheduled(rows, o) ==
  [rows EXCEPT ![CHOOSE r \in Unused(rows) : TRUE] = [status |-> "pending", occ |-> o]]

HasRoom == Unused(row) # {}

\* nextOccurrence: is another one allowed after occurrence o?
AnotherAllowed(o) == o < MaxOccurrences

Fail == failures < MaxFailures /\ failures' = failures + 1

\* The task has just been raised, with its first chase.
Init ==
  /\ task = "outstanding" /\ tx = "none" /\ doomed = {}
  /\ row = Scheduled([r \in Row |-> [status |-> "none", occ |-> 0]], 1)
  /\ pc = "idle" /\ batch = {}
  /\ queue = EmptyQueue /\ window = {}
  /\ at = [w \in Worker |-> "idle"] /\ slot = [w \in Worker |-> NoSlot]
  /\ keys = {} /\ late = 0 /\ overtaken = {}
  /\ recomputes = 0 /\ failures = 0
-----------------------------------------------------------------------------
\* completeTask, cancelTask and recomputeDueDates lock the task, and
\* cancelScheduledActions reads the ids of its pending timers.
TouchTask(kind) ==
  /\ tx = "none" /\ task = "outstanding"
  /\ kind = "recompute" => recomputes < MaxRecomputes
  /\ tx' = kind
  /\ doomed' = Pending
  /\ UNCHANGED <<task, recomputes, row, sender, queue, window, workerVars, chaseVars, overtaken, failures>>

\* cancelScheduledAction, one by one and only while pending: the UPDATE waits
\* for the scheduler to let go of the row and looks again.
Cancelled == Stamped(row, doomed \cap Pending, "cancelled")

FinishTask ==
  /\ tx = "finish" /\ doomed \cap batch = {}
  /\ task' = "finished"
  /\ row' = Cancelled
  /\ tx' = "none" /\ doomed' = {}
  /\ UNCHANGED <<recomputes, sender, queue, window, workerVars, chaseVars, overtaken, failures>>

\* recomputeDueDates: cancel, then schedule a first occurrence from the new date.
Recompute ==
  /\ tx = "recompute" /\ doomed \cap batch = {} /\ HasRoom
  /\ row' = Scheduled(Cancelled, 1)
  /\ recomputes' = recomputes + 1
  /\ tx' = "none" /\ doomed' = {}
  /\ UNCHANGED <<task, sender, queue, window, workerVars, chaseVars, overtaken, failures>>
-----------------------------------------------------------------------------
\* drainDueActions: lock the rows that are due.
LockDue ==
  /\ pc = "idle"
  /\ \E rs \in (SUBSET Pending) \ {{}} : batch' = rs
  /\ pc' = "send"
  /\ UNCHANGED <<taskVars, row, queue, window, workerVars, chaseVars, overtaken, failures>>

\* Sent before it is stamped; the broker drops ids it has seen in the window.
Send ==
  LET fresh == batch \ window
  IN /\ pc = "send"
     /\ \A r \in fresh : Room(queue, r) # {}
     /\ queue' = Sent(queue, fresh)
     /\ window' = window \cup batch
     /\ pc' = "stamp"
     /\ UNCHANGED <<taskVars, row, batch, workerVars, chaseVars, overtaken, failures>>

Stamp ==
  /\ pc = "stamp"
  /\ row' = Stamped(row, batch \cap Pending, "enqueued")
  /\ batch' = {} /\ pc' = "idle"
  /\ UNCHANGED <<taskVars, queue, window, workerVars, chaseVars, overtaken, failures>>

\* Mutant: the stamp is committed whatever becomes of the send.
SchedulerFailsStamped ==
  /\ pc # "idle" /\ Fail
  /\ row' = Stamped(row, batch, "enqueued")
  /\ batch' = {} /\ pc' = "idle"
  /\ UNCHANGED <<taskVars, queue, window, workerVars, chaseVars, overtaken>>

\* The run fails or dies: the rows are pending again, what was sent stays sent.
SchedulerFails ==
  /\ pc # "idle" /\ Fail
  /\ batch' = {} /\ pc' = "idle"
  /\ UNCHANGED <<taskVars, row, queue, window, workerVars, chaseVars, overtaken>>
-----------------------------------------------------------------------------
\* Asked only of rows that can be sent again.
WindowCloses(r) ==
  /\ r \in window /\ r \in Pending
  /\ window' = window \ {r}
  /\ UNCHANGED <<taskVars, row, sender, queue, workerVars, chaseVars, overtaken, failures>>

Abandoned(s) == queue[s].state = "locked" /\ \A w \in Worker : slot[w] # s

\* A message lock runs out: its holder is gone, or (a failure) took too long.
LockExpires(s) ==
  /\ queue[s].state = "locked"
  /\ IF Abandoned(s) THEN UNCHANGED failures ELSE Fail
  /\ queue' = Released(queue, s)
  /\ UNCHANGED <<taskVars, row, sender, window, workerVars, chaseVars, overtaken>>

Receive(w, s) ==
  /\ at[w] = "idle" /\ queue[s].state = "ready"
  /\ queue' = Received(queue, s, w)
  /\ at' = [at EXCEPT ![w] = "received"]
  /\ slot' = [slot EXCEPT ![w] = s]
  /\ UNCHANGED <<taskVars, row, sender, window, chaseVars, overtaken, failures>>
-----------------------------------------------------------------------------
TimerOf(w) == slot[w][1]

\* The row of a claim that has not committed is locked.
RowLocked(r) == \E w \in Worker : at[w] \in {"chasing", "stopping"} /\ TimerOf(w) = r

\* isSatisfied, or untilReached.
Over(r) == task = "finished" \/ row[r].occ > MaxOccurrences

\* reminderEffect: markScheduledActionExecuted, then the satisfaction check.  A
\* row that is not enqueued is taken for a duplicate, its stamp committed or not:
\* nothing is done.
Claim(w) ==
  /\ at[w] = "received"
  /\ ~RowLocked(TimerOf(w))
  /\ at' = [at EXCEPT ![w] =
              IF row[TimerOf(w)].status # "enqueued" THEN "done"
              ELSE IF Over(TimerOf(w)) THEN "stopping" ELSE "chasing"]
  /\ overtaken' = overtaken \cup ({TimerOf(w)} \cap Pending)
  /\ UNCHANGED <<taskVars, row, sender, queue, window, slot, chaseVars, failures>>

\* Mutant: the handler forgets to mark the occurrence executed.
NotExecuted(r) == row

Executed(r) == Stamped(row, {r}, "executed")

StopSeries(w) ==
  /\ at[w] = "stopping"
  /\ row' = Executed(TimerOf(w))
  /\ at' = [at EXCEPT ![w] = "done"]
  /\ UNCHANGED <<taskVars, sender, queue, window, slot, chaseVars, overtaken, failures>>

\* Mutant: the chase is requested without a dedupe_key.
NeverTaken(o) == o > MaxOccurrences

\* notification_dedupe_key_uq: the occurrence has been notified before.
KeyTaken(o) == o \in keys

\* requestNotification under the occurrence's key, and the next occurrence.
Chase(w) ==
  LET o == row[TimerOf(w)].occ
      more == AnotherAllowed(o)
  IN /\ at[w] = "chasing" /\ ~KeyTaken(o)
     /\ more => HasRoom
     /\ keys' = keys \cup {o}
     /\ late' = IF task = "finished" THEN late + 1 ELSE late
     /\ row' = IF more THEN Scheduled(Executed(TimerOf(w)), o + 1) ELSE Executed(TimerOf(w))
     /\ at' = [at EXCEPT ![w] = "done"]
     /\ UNCHANGED <<taskVars, sender, queue, window, slot, overtaken, failures>>

Freed(w) ==
  /\ at' = [at EXCEPT ![w] = "idle"]
  /\ slot' = [slot EXCEPT ![w] = NoSlot]

\* Mutant: the message of a failed handler is completed.
AbandonSilently(w) ==
  /\ queue' = Completed(queue, slot[w], w)
  /\ Freed(w)

\* handleMessage: the message goes back to the queue, unless its lock ran out.
Abandon(w) ==
  /\ queue' = IF queue[slot[w]].holder = w THEN Released(queue, slot[w]) ELSE queue
  /\ Freed(w)

\* The key is taken: the unique violation is caught, but it has aborted the
\* transaction, so the next statement throws and the claim rolls back.
ChaseRefused(w) ==
  /\ at[w] = "chasing" /\ KeyTaken(row[TimerOf(w)].occ)
  /\ Abandon(w)
  /\ UNCHANGED <<taskVars, row, sender, window, chaseVars, overtaken, failures>>

Complete(w) ==
  /\ at[w] = "done"
  /\ queue' = Completed(queue, slot[w], w)
  /\ Freed(w)
  /\ UNCHANGED <<taskVars, row, sender, window, chaseVars, overtaken, failures>>

\* Any other error: the transaction rolls back and the message is abandoned.
HandlerFails(w) ==
  /\ at[w] \in {"received", "chasing", "stopping"} /\ Fail
  /\ Abandon(w)
  /\ UNCHANGED <<taskVars, row, sender, window, chaseVars, overtaken>>

\* The worker dies; its message comes back when the lock runs out.
WorkerCrash(w) ==
  /\ at[w] # "idle" /\ Fail
  /\ Freed(w)
  /\ UNCHANGED <<taskVars, row, sender, queue, window, chaseVars, overtaken>>
-----------------------------------------------------------------------------
TaskStep == FinishTask \/ Recompute
SchedulerStep == LockDue \/ Send \/ Stamp
WorkerStep(w) ==
  \/ \E s \in Slot : Receive(w, s)
  \/ Claim(w) \/ StopSeries(w) \/ Chase(w) \/ ChaseRefused(w) \/ Complete(w)

Next ==
  \/ \E kind \in {"finish", "recompute"} : TouchTask(kind)
  \/ TaskStep
  \/ SchedulerStep \/ SchedulerFails
  \/ \E r \in Row : WindowCloses(r)
  \/ \E s \in Slot : LockExpires(s)
  \/ \E w \in Worker : WorkerStep(w) \/ HandlerFails(w) \/ WorkerCrash(w)

Spec == Init /\ [][Next]_vars

\* The cron job and the receivers keep running, transactions end and an abandoned
\* message's lock runs out; nothing makes anybody finish a task.
Fairness ==
  /\ WF_vars(TaskStep) /\ WF_vars(SchedulerStep)
  /\ \A w \in Worker : WF_vars(WorkerStep(w))
  /\ WF_vars(\E s \in Slot : Abandoned(s) /\ LockExpires(s))

FairSpec == Spec /\ Fairness
-----------------------------------------------------------------------------
\* Type invariant of the task, its timers, the queue and the handlers.
TypeOK ==
  /\ task \in {"outstanding", "finished"}
  /\ tx \in {"none", "finish", "recompute"}
  /\ doomed \subseteq Row
  /\ row \in [Row -> RowState]
  /\ pc \in {"idle", "send", "stamp"}
  /\ batch \subseteq Row
  /\ queue \in [Slot -> SlotState]
  /\ window \subseteq Row
  /\ at \in [Worker -> {"idle", "received", "chasing", "stopping", "done"}]
  /\ slot \in [Worker -> Slot \cup {NoSlot}]
  /\ keys \subseteq Occurrence
  /\ late \in Nat
  /\ overtaken \subseteq Row
  /\ recomputes \in Nat
  /\ failures \in Nat

\* cancelReminders (notify.ts:253-257): a finished task costs "at most one redundant
\* chase - never a chase after completion".  The first half: of all handlers that
\* read the task before it was finished, the key lets one through, deadlines moved
\* or not.
AtMostOneAfterCompletion == late <= 1

\* The second half, said also of approvals and documents (notify-effects.ts:543-547,
\* documents.ts:707-710), which the code does not keep: a handler that has read the
\* task holds no lock on it, and commits its chase after the completion.
NeverChasedAfterCompletion == late = 0

\* scheduleReminder / reminderEffect: a task is chased by one series.  Until its
\* deadline is moved, one of its timers at most is still to come, however messages
\* are repeated, overtake their stamps or outlive their locks.
ToCome(r) == row[r].status \in {"pending", "enqueued"}

OneSeries == recomputes = 0 => \A r, q \in Row : ToCome(r) /\ ToCome(q) => r = q

\* An enqueued timer whose message was taken for a duplicate before the stamp.
Overtaken(r) == row[r].status = "enqueued" /\ r \in overtaken

\* scheduler.ts:22-28, at-least-once: until its occurrences are used up, an
\* outstanding task has a timer that is pending, or enqueued with its message at the
\* broker, dead-lettered ones included.  A series is lost in one way only: its
\* message overtook the stamp.
Live(r) == row[r].status = "pending" \/ (row[r].status = "enqueued" /\ Held(queue, r))

Exhausted == \E r \in Row : row[r] = [status |-> "executed", occ |-> MaxOccurrences]

SeriesAlive == task = "outstanding" => Exhausted \/ \E r \in Row : Live(r) \/ Overtaken(r)

\* Every timer is eventually fired or cancelled, despite failed runs, crashes and
\* overrun locks, or is where somebody can see it: on the dead-letter queue.  Again
\* but for those whose message overtook the stamp.
DeadLetter(r) == \E k \in 1 .. MaxCopies : queue[<<r, k>>].state = "dead"

Accounted(r) == row[r].status \in {"executed", "cancelled"} \/ DeadLetter(r) \/ Overtaken(r)

EveryTimerSettles == \A r \in Row : row[r].status = "pending" ~> Accounted(r)

\* scheduler.ts:22-28 without that exception, as the comment has it: a crash between
\* send and stamp is made good by the next run, and no timer is lost outright.
NoTimerLost == \A r \in Row : row[r].status = "enqueued" => Held(queue, r)
=============================================================================
