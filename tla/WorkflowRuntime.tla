-------------------------- MODULE WorkflowRuntime ---------------------------
(***************************************************************************)
(* Workflow instances ("cases"), the transitions people and timers take on *)
(* them, and the workflow.transition timers the runtime creates, sends and *)
(* cancels.  Sources: workflow/src/runtime.ts, scheduled-actions.ts,       *)
(* scheduler.ts, effects/workflow-transition.ts, and the worker's message  *)
(* loop (apps/worker/src/registry.ts).                                     *)
(*                                                                         *)
(* A transition is one database transaction: it begins by locking the      *)
(* instance row (Begin...), and either commits every write at once         *)
(* (Commit) or rolls back (Crash).  The scheduler sends inside its         *)
(* transaction and stamps afterwards, so the message is visible to a       *)
(* worker before the row says "enqueued".  The queue delivers at least     *)
(* once: a message stays available until a handler completes it, and two   *)
(* workers may hold it when its lock expires.                              *)
(*                                                                         *)
(* Bounds: Instance, Timer, Version are finite sets; MaxCrashes bounds the *)
(* rollbacks of one behaviour and MaxMoves the moves of one case.          *)
(***************************************************************************)
EXTENDS WorkflowDefinition, Sequences

CONSTANTS Instance,    \* ids of workflow_instance rows
          Subject,     \* what cases are about
          SubjectOf,   \* Instance -> Subject, fixed by the id
          Timer,       \* ids of scheduled_action rows
          User,        \* API calls in progress, one transaction each
          Worker,      \* worker replicas handling effect messages
          MaxVersion,  \* definitions are registered as versions 1..MaxVersion
          Defs,        \* 1..MaxVersion -> Definition
          MaxMoves, MaxCrashes,
          NoState, NoInstance, NoTimer, NoAction

Version == 1 .. MaxVersion
Caller  == User \cup Worker

ASSUME VersionAssumption == MaxVersion \in Nat \ {0}
ASSUME BoundAssumption   == MaxMoves \in Nat /\ MaxCrashes \in Nat
ASSUME DefsAssumption    == Defs \in [Version -> Definition]
ASSUME ValidAssumption   == \A v \in Version : Valid(Defs[v])
ASSUME SubjectAssumption == SubjectOf \in [Instance -> Subject]
ASSUME NullAssumption    == /\ NoState \notin State
                            /\ NoInstance \notin Instance
                            /\ NoTimer \notin Timer
                            /\ NoAction \notin Action
ASSUME CallerAssumption  == User \cap Worker = {}

VARIABLES
  latest,   \* the newest registered definition version
  pinned,   \* Instance -> Version, workflow_instance.definition_version
  state,    \* Instance -> State, current_state (NoState: not started)
  done,     \* Instance -> BOOLEAN, completed_at is set
  hist,     \* Instance -> sequence of workflow_transition rows
  timer,    \* Timer -> scheduled_action row
  batch,    \* timers the scheduler's open transaction has locked and sent
  queue,    \* timers with a message on the effects queue
  pc,       \* Caller -> what it is doing
  tx,       \* Caller -> the transaction it holds open
  crashes   \* rollbacks so far

vars == <<latest, pinned, state, done, hist, timer, batch, queue, pc, tx, crashes>>

TimerStatus == {"absent", "pending", "enqueued", "executed", "cancelled"}

NoRow == [status |-> "absent", inst |-> NoInstance, action |-> NoAction,
          expected |-> NoState, born |-> 0, due |-> FALSE]
NoTx  == [inst |-> NoInstance, from |-> NoState, to |-> NoState,
          action |-> NoAction, sched |-> {}, src |-> NoTimer]

(***************************************************************************)
(* Reading the rows.                                                       *)
(***************************************************************************)
Started(i) == state[i] # NoState
Active(i)  == Started(i) /\ ~done[i]
DefOf(i)   == Defs[pinned[i]]

\* Mutant: the instance row is read without FOR UPDATE.
LockedByNobody(i) == FALSE

\* SELECT ... FOR UPDATE on the instance row blocks while another transaction
\* holds it.
Locked(i) == \E c \in Caller : pc[c] = "open" /\ tx[c].inst = i

PendingOf(i) == { t \in Timer : timer[t].status = "pending" /\ timer[t].inst = i }

\* workflow_instance_active_subject_uq: no active case about the same subject.
SubjectIsFree(i) == \A j \in Instance : SubjectOf[j] = SubjectOf[i] => ~Active(j)

Free == { t \in Timer : timer[t].status = "absent" }

\* The `by` policy against the caller: a system transition is closed to people,
\* a role transition to the system and to people without the grant.
Admits(by, actor) == \/ by = "system" /\ actor = "system"
                     \/ by = "role" /\ actor = "holder"

\* `hist` rows and timers created by a transaction entering `s` of case `i`
\* after `n` moves: one timer per scheduled action, on fresh ids.
Allocations(actions) ==
  { f \in [actions -> Free] : \A a, b \in actions : f[a] = f[b] => a = b }

Scheduled(tm, f, i, s, n) ==
  [ t \in Timer |->
      IF \E a \in DOMAIN f : f[a] = t
        THEN [status |-> "pending", inst |-> i, action |-> CHOOSE a \in DOMAIN f : f[a] = t,
              expected |-> s, born |-> n, due |-> FALSE]
        ELSE tm[t] ]

\* Mutant: the sweep cancels only the timers that are already due.
SweptDueOnly(tm, i) ==
  [ t \in Timer |-> IF t \in PendingOf(i) /\ tm[t].due
                       THEN [tm[t] EXCEPT !.status = "cancelled"] ELSE tm[t] ]

\* cancelScheduledActions for one instance: every pending timer, one guarded
\* update each.
Swept(tm, i) ==
  [ t \in Timer |-> IF t \in PendingOf(i) THEN [tm[t] EXCEPT !.status = "cancelled"] ELSE tm[t] ]

\* Mutant: the stamp is not guarded on the row's status.
ExecutedAlways(tm, t) == [tm EXCEPT ![t].status = "executed"]

\* markScheduledActionExecuted: UPDATE ... WHERE status = 'enqueued'.
Executed(tm, t) ==
  IF tm[t].status = "enqueued" THEN [tm EXCEPT ![t].status = "executed"] ELSE tm
-----------------------------------------------------------------------------
Init ==
  /\ latest = 1
  /\ pinned = [i \in Instance |-> 1]
  /\ state = [i \in Instance |-> NoState]
  /\ done = [i \in Instance |-> FALSE]
  /\ hist = [i \in Instance |-> <<>>]
  /\ timer = [t \in Timer |-> NoRow]
  /\ batch = {}
  /\ queue = {}
  /\ pc = [c \in Caller |-> "idle"]
  /\ tx = [c \in Caller |-> NoTx]
  /\ crashes = 0

\* A release registers the next version of the definition.
Deploy ==
  /\ latest < MaxVersion
  /\ latest' = latest + 1
  /\ UNCHANGED <<pinned, state, done, hist, timer, batch, queue, pc, tx, crashes>>

\* startWorkflow: pin the latest version, enter its initial state, create the
\* timers of initialSchedule.  The partial unique index refuses a second active
\* instance of the subject.
Start(i) ==
  /\ ~Started(i)
  /\ SubjectIsFree(i)
  /\ \E f \in Allocations(Defs[latest].initSched) :
       timer' = Scheduled(timer, f, i, Defs[latest].initial, 0)
  /\ pinned' = [pinned EXCEPT ![i] = latest]
  /\ state' = [state EXCEPT ![i] = Defs[latest].initial]
  /\ UNCHANGED <<latest, done, hist, batch, queue, pc, tx, crashes>>

\* The accepting path of executeTransitionIn up to its first write: the row is
\* locked, the action exists from the current state, the actor is admitted and
\* no hard guard blocks.
Begin(c, i, tr, src) ==
  /\ Started(i)
  /\ ~Locked(i)
  /\ Len(hist[i]) < MaxMoves
  /\ tr \in TransitionsFor(DefOf(i), state[i], tr.action)
  /\ pc' = [pc EXCEPT ![c] = "open"]
  /\ tx' = [tx EXCEPT ![c] = [inst |-> i, from |-> state[i], to |-> tr.to,
                              action |-> tr.action, sched |-> tr.sched, src |-> src]]
  /\ UNCHANGED <<latest, pinned, state, done, hist, timer, batch, queue, crashes>>

\* workflow.transition over the API, or a decided approval acting as the system.
\* A refusal (NOT_FOUND, CONFLICT, FORBIDDEN, GUARD_BLOCKED) writes nothing.
UserBegin(u) ==
  /\ pc[u] = "idle"
  /\ \E i \in Instance, actor \in {"holder", "system"} : \E tr \in DefOf(i).trans :
       Admits(tr.by, actor) /\ Begin(u, i, tr, NoTimer)

\* Mutant: the message is removed when it is received, not when it is completed.
DeliverAndDelete(w, t) ==
  /\ pc[w] = "idle"
  /\ t \in queue
  /\ pc' = [pc EXCEPT ![w] = "begin"]
  /\ tx' = [tx EXCEPT ![w] = [NoTx EXCEPT !.src = t]]
  /\ queue' = queue \ {t}
  /\ UNCHANGED <<latest, pinned, state, done, hist, timer, batch, crashes>>

\* A worker receives a timer's message; the message stays on the queue until it
\* is completed.
Deliver(w, t) ==
  /\ pc[w] = "idle"
  /\ t \in queue
  /\ pc' = [pc EXCEPT ![w] = "begin"]
  /\ tx' = [tx EXCEPT ![w] = [NoTx EXCEPT !.src = t]]
  /\ UNCHANGED <<latest, pinned, state, done, hist, timer, batch, queue, crashes>>

\* Mutant: the handler drops expectedState.
AnyStateTransitions(t) ==
  TransitionsFor(DefOf(timer[t].inst), state[timer[t].inst], timer[t].action)

\* expectedState, then (from, action): what the timer's transition may be.
TimerTransitions(t) ==
  IF state[timer[t].inst] = timer[t].expected
    THEN TransitionsFor(DefOf(timer[t].inst), state[timer[t].inst], timer[t].action)
    ELSE {}

\* workflowTransitionEffect: executeTransition as the system with expectedState.
WorkerBegin(w) ==
  /\ pc[w] = "begin"
  /\ \E tr \in TimerTransitions(tx[w].src) :
       Admits(tr.by, "system") /\ Begin(w, timer[tx[w].src].inst, tr, tx[w].src)

\* ... and its refusals: superseded, not a system transition, or blocked by a
\* guard.  The handler goes on to stamp the timer either way.
WorkerRefused(w) ==
  /\ pc[w] = "begin"
  /\ ~Locked(timer[tx[w].src].inst)
  /\ \A tr \in TimerTransitions(tx[w].src) : Admits(tr.by, "system") => tr.guarded
  /\ pc' = [pc EXCEPT ![w] = "mark"]
  /\ UNCHANGED <<latest, pinned, state, done, hist, timer, batch, queue, tx, crashes>>

\* The writes of executeTransitionIn, committed together: state, completion,
\* transition row, the terminal sweep (which waits for the scheduler's locks on
\* the rows it cancels) and the timers the transition schedules.
Commit(c) ==
  LET i == tx[c].inst
      terminal == tx[c].to \in DefOf(i).terminal
      swept == IF terminal THEN Swept(timer, i) ELSE timer
  IN /\ pc[c] = "open"
     /\ terminal => PendingOf(i) \cap batch = {}
     /\ \E f \in Allocations(tx[c].sched) :
          timer' = Scheduled(swept, f, i, tx[c].to, Len(hist[i]) + 1)
     /\ state' = [state EXCEPT ![i] = tx[c].to]
     /\ done' = [done EXCEPT ![i] = @ \/ terminal]
     /\ hist' = [hist EXCEPT ![i] = Append(@, [from |-> tx[c].from, to |-> tx[c].to,
                                               action |-> tx[c].action, src |-> tx[c].src])]
     /\ pc' = [pc EXCEPT ![c] = IF c \in Worker THEN "mark" ELSE "idle"]
     /\ tx' = [tx EXCEPT ![c] = [NoTx EXCEPT !.src = tx[c].src]]
     /\ UNCHANGED <<latest, pinned, batch, queue, crashes>>

\* The handler's last statement: stamp the timer executed, whatever happened.
Mark(w) ==
  /\ pc[w] = "mark"
  /\ timer' = Executed(timer, tx[w].src)
  /\ pc' = [pc EXCEPT ![w] = "ack"]
  /\ UNCHANGED <<latest, pinned, state, done, hist, batch, queue, tx, crashes>>

\* handleMessage: the handler returned, the message is completed.
Ack(w) ==
  /\ pc[w] = "ack"
  /\ queue' = queue \ {tx[w].src}
  /\ pc' = [pc EXCEPT ![w] = "idle"]
  /\ tx' = [tx EXCEPT ![w] = NoTx]
  /\ UNCHANGED <<latest, pinned, state, done, hist, timer, batch, crashes>>

\* The process dies or an exception escapes: an open transaction rolls back and
\* the message, not completed, is delivered again.
Crash(c) ==
  /\ pc[c] # "idle"
  /\ crashes < MaxCrashes
  /\ crashes' = crashes + 1
  /\ pc' = [pc EXCEPT ![c] = "idle"]
  /\ tx' = [tx EXCEPT ![c] = NoTx]
  /\ UNCHANGED <<latest, pinned, state, done, hist, timer, batch, queue>>
-----------------------------------------------------------------------------
(***************************************************************************)
(* The scheduler and the administrator's operations on timers.             *)
(***************************************************************************)
Due == { t \in Timer : timer[t].status = "pending" /\ timer[t].due }

BecomeDue(t) ==
  /\ timer[t].status = "pending"
  /\ ~timer[t].due
  /\ timer' = [timer EXCEPT ![t].due = TRUE]
  /\ UNCHANGED <<latest, pinned, state, done, hist, batch, queue, pc, tx, crashes>>

\* drainDueActions up to and including `await send(actions)`: the rows are
\* locked and every message is on the queue, nothing is committed.
SchedulerSend ==
  /\ batch = {}
  /\ Due # {}
  /\ batch' = Due
  /\ queue' = queue \cup Due
  /\ UNCHANGED <<latest, pinned, state, done, hist, timer, pc, tx, crashes>>

\* The stamp and the commit.
SchedulerStamp ==
  /\ batch # {}
  /\ timer' = [t \in Timer |-> IF t \in batch /\ timer[t].status = "pending"
                                 THEN [timer[t] EXCEPT !.status = "enqueued"]
                                 ELSE timer[t]]
  /\ batch' = {}
  /\ UNCHANGED <<latest, pinned, state, done, hist, queue, pc, tx, crashes>>

\* The job dies, or the send reports a failure after the broker accepted it:
\* the transaction rolls back, the messages stay.
SchedulerRollback ==
  /\ batch # {}
  /\ crashes < MaxCrashes
  /\ crashes' = crashes + 1
  /\ batch' = {}
  /\ UNCHANGED <<latest, pinned, state, done, hist, timer, queue, pc, tx>>

\* cancelScheduledAction: UPDATE ... WHERE status = 'pending', which waits for
\* the scheduler's row lock.
CancelTimer(t) ==
  /\ timer[t].status = "pending"
  /\ t \notin batch
  /\ timer' = [timer EXCEPT ![t].status = "cancelled"]
  /\ UNCHANGED <<latest, pinned, state, done, hist, batch, queue, pc, tx, crashes>>

\* rescheduleAction, to a future instant.
RescheduleTimer(t) ==
  /\ timer[t].status = "pending"
  /\ timer[t].due
  /\ t \notin batch
  /\ timer' = [timer EXCEPT ![t].due = FALSE]
  /\ UNCHANGED <<latest, pinned, state, done, hist, batch, queue, pc, tx, crashes>>
-----------------------------------------------------------------------------
WorkerStep(w) ==
  \/ \E t \in Timer : Deliver(w, t)
  \/ WorkerBegin(w)
  \/ WorkerRefused(w)
  \/ Commit(w)
  \/ Mark(w)
  \/ Ack(w)

Next ==
  \/ Deploy
  \/ \E i \in Instance : Start(i)
  \/ \E u \in User : UserBegin(u) \/ Commit(u)
  \/ \E w \in Worker : WorkerStep(w)
  \/ \E c \in Caller : Crash(c)
  \/ \E t \in Timer : BecomeDue(t) \/ CancelTimer(t) \/ RescheduleTimer(t)
  \/ SchedulerSend \/ SchedulerStamp \/ SchedulerRollback

Spec == Init /\ [][Next]_vars

\* The cron job and the workers keep running, and an API call's transaction ends.
Fairness ==
  /\ WF_vars(SchedulerSend)
  /\ WF_vars(SchedulerStamp)
  /\ \A w \in Worker : WF_vars(WorkerStep(w))
  /\ \A u \in User : WF_vars(Commit(u))

FairSpec == Spec /\ Fairness
-----------------------------------------------------------------------------
(***************************************************************************)
(* Properties.                                                             *)
(***************************************************************************)
HistRow == [from : State, to : State, action : Action, src : Timer \cup {NoTimer}]

TimerRow == [status : TimerStatus, inst : Instance \cup {NoInstance},
             action : Action \cup {NoAction}, expected : State \cup {NoState},
             born : Nat, due : BOOLEAN]

Transaction == [inst : Instance \cup {NoInstance}, from : State \cup {NoState},
                to : State \cup {NoState}, action : Action \cup {NoAction},
                sched : SUBSET Action, src : Timer \cup {NoTimer}]

\* Type invariant of the runtime's rows, the queue and the open transactions.
TypeOK ==
  /\ latest \in Version
  /\ pinned \in [Instance -> Version]
  /\ state \in [Instance -> State \cup {NoState}]
  /\ done \in [Instance -> BOOLEAN]
  /\ hist \in [Instance -> Seq(HistRow)]
  /\ timer \in [Timer -> TimerRow]
  /\ batch \subseteq Timer
  /\ queue \subseteq Timer
  /\ pc \in [Caller -> {"idle", "begin", "open", "mark", "ack"}]
  /\ tx \in [Caller -> Transaction]
  /\ crashes \in Nat

\* WF-10 and WF-4.  The transition rows of a case form an unbroken path of its
\* pinned definition from the initial state to current_state, whatever callers
\* raced and whichever versions were deployed meanwhile: a second approver never
\* writes a transition from a state the first one already left.
HistoryIsPath ==
  \A i \in Instance : Started(i) =>
    LET h == hist[i]
        before(k) == IF k = 1 THEN DefOf(i).initial ELSE h[k - 1].to
    IN /\ state[i] = before(Len(h) + 1)
       /\ \A k \in 1 .. Len(h) :
            /\ h[k].from = before(k)
            /\ \E tr \in DefOf(i).trans :
                 tr.from = h[k].from /\ tr.to = h[k].to /\ tr.action = h[k].action

\* completed_at is set exactly in a terminal state, and no transaction that would
\* move a closed case is open (the row lock it would need was never granted).
ClosedCasesStayClosed ==
  \A i \in Instance : Started(i) =>
    /\ done[i] <=> state[i] \in DefOf(i).terminal
    /\ done[i] => \A c \in Caller : ~(pc[c] = "open" /\ tx[c].inst = i)

\* runtime.ts's terminal sweep: a closed case has no pending timer except one
\* the closing transition itself created, even when the scheduler held the rows
\* locked and then rolled back.
NoTimerOutlivesItsCase ==
  \A i \in Instance : done[i] =>
    \A t \in PendingOf(i) : timer[t].born = Len(hist[i])

\* A timer moves a case only while the case has stayed in the state it was in
\* when the timer was created (the expectedState contract of scheduleRefs, for
\* definitions that never come back to a state: it names the state, not the visit).
StaleTimerNeverMovesCase ==
  \A i \in Instance : \A k \in 1 .. Len(hist[i]) :
    LET t == hist[i][k].src
    IN t # NoTimer => \A m \in (timer[t].born + 1) .. (k - 1) :
                        hist[i][m].to = timer[t].expected

\* Redelivery of a timer's message, or its early delivery before the stamp,
\* never moves the case a second time.
TimerMovesCaseOnce ==
  \A i \in Instance : \A k, m \in 1 .. Len(hist[i]) :
    (hist[i][k].src = hist[i][m].src /\ hist[i][k].src # NoTimer) => k = m

\* A timer row never leaves a final status, is stamped executed only by way of
\* enqueued, and is cancelled only while pending.
TimerLifecycle ==
  [][\A t \in Timer :
       timer'[t].status # timer[t].status =>
         <<timer[t].status, timer'[t].status>> \in
           {<<"absent", "pending">>, <<"pending", "enqueued">>,
            <<"pending", "cancelled">>, <<"enqueued", "executed">>}]_vars

\* A due timer whose case is still where the timer found it, with an unguarded
\* system transition to take (and ids left for the timers that one schedules).
Overdue(t) ==
  /\ timer[t].status \notin {"absent", "cancelled"}
  /\ timer[t].due
  /\ Len(hist[timer[t].inst]) = timer[t].born
  /\ timer[t].born < MaxMoves
  /\ \E tr \in TimerTransitions(t) :
       tr.by = "system" /\ ~tr.guarded /\ Allocations(tr.sched) # {}

\* WF-8.  No timer stays overdue: it moves its case unless somebody moves the
\* case first, cancels the timer or puts it off.  Crashes of the scheduler and
\* of workers, early delivery and redelivery only delay it.
DueTimerMovesCase == \A t \in Timer : Overdue(t) ~> ~Overdue(t)

(***************************************************************************)
(* What the runtime promises about cases, with transactions, locks, timers *)
(* and messages hidden.                                                    *)
(***************************************************************************)
Lifecycle == INSTANCE CaseLifecycle

RefinesCaseLifecycle == Lifecycle!Spec
=============================================================================
